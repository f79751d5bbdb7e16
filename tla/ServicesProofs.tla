--------------------------- MODULE ServicesProofs ---------------------------
(***************************************************************************)
(* What is proved of services that share no state: the provider that keeps *)
(* attestations in memory and on disk, the traces of instrumented          *)
(* programs, tenants with their users and requests, tasks of validators,   *)
(* compliance reports, the classification of requests, and, of FitnessLoop *)
(* and Workers, the loop that keeps routing informed and the               *)
(* reconciliation of invoices.                                             *)
(***************************************************************************)
EXTENDS LocalProvider, SdkTracing, Tenancy, ValidationTasks, AuditTrail, Classifier,
        FitnessLoop, Billing, SequenceTheorems, Sums

-----------------------------------------------------------------------------
(* The local attestation provider.                                          *)
(* The inductive invariant. What a store holds: for each organisation, its   *)
(* records, numbered and linked, up to the latest nonce.                    *)
HeldAt(st, o, n) ==
  /\ IsRecord(st[o][n]) /\ st[o][n].org = o /\ st[o][n].nonce = n
  /\ IF n = 1 THEN st[o][n].prev \in {ZERO_HASH, EmptyHash}
              ELSE st[o][n].prev = compute_chain_hash(st[o][n - 1])

StoreInv(st, latest) ==
  /\ DOMAIN st = Orgs /\ st = [o \in Orgs |-> st[o]]
  /\ latest \in [Orgs -> Nat]
  /\ \A o \in Orgs : st[o] = [n \in 1 .. latest[o] |-> st[o][n]]
  /\ \A o \in Orgs : \A n \in 1 .. latest[o] : HeldAt(st, o, n)

(* A later store still holds what an earlier one held.                      *)
Kept(st, latest, st2, latest2) ==
  \A o \in Orgs : /\ latest[o] <= latest2[o]
                  /\ \A n \in 1 .. latest[o] : st2[o][n] = st[o][n]

SnapshotInv ==
  /\ saved = [store |-> saved.store, known |-> saved.known, latest |-> saved.latest,
              tx |-> saved.tx]
  /\ StoreInv(saved.store, saved.latest)
  /\ saved.known \subseteq Orgs /\ saved.tx \in Nat
  /\ Kept(saved.store, saved.latest, store, latestNonce)

(* What is left of a batch, one of two records at the most.                 *)
BatchInv ==
  \/ todo = <<>>
  \/ todo = <<todo[1]>> /\ IsRecord(todo[1])
  \/ todo = <<todo[1], todo[2]>> /\ IsRecord(todo[1]) /\ IsRecord(todo[2])

ProviderInv ==
  /\ StoreInv(store, latestNonce)
  /\ known \subseteq Orgs /\ txCounter \in Nat /\ running \in BOOLEAN
  /\ BatchInv
  /\ running => SnapshotInv

LEMMA ProviderStarts == ProviderInit => ProviderInv /\ Chain!ChainInit
<1> SUFFICES ASSUME ProviderInit PROVE ProviderInv /\ Chain!ChainInit
  OBVIOUS
<1>1. StoreInv(store, latestNonce)
  <2>1. \A o \in Orgs : store[o] = <<>> /\ latestNonce[o] = 0
    BY DEF ProviderInit
  <2>2. 1 .. 0 = {}
    OBVIOUS
  <2>3. ASSUME NEW o \in Orgs PROVE store[o] = [n \in 1 .. latestNonce[o] |-> store[o][n]]
    <3>1. [n \in {} |-> store[o][n]] = <<>>
      OBVIOUS
    <3> QED BY <2>1, <2>2, <3>1
  <2>4. DOMAIN store = Orgs /\ store = [o \in Orgs |-> store[o]] /\ latestNonce \in [Orgs -> Nat]
    BY DEF ProviderInit
  <2> QED BY <2>1, <2>2, <2>3, <2>4 DEF StoreInv
<1>2. committed = [o \in Orgs |-> <<>>]
  BY DEF ProviderInit, committed
<1> QED BY <1>1, <1>2 DEF ProviderInit, ProviderInv, BatchInv, Chain!ChainInit

LEMMA KeptAll ==
  ASSUME NEW st, NEW latest, StoreInv(st, latest)
  PROVE  Kept(st, latest, st, latest)
<1>1. latest \in [Orgs -> Nat]
  BY DEF StoreInv
<1>2. \A o \in Orgs : latest[o] <= latest[o]
  BY <1>1
<1> QED BY <1>2 DEF Kept

(* Keeping is transitive.                                                   *)
LEMMA KeptTwice ==
  ASSUME NEW st, NEW latest, NEW st2, NEW latest2, NEW st3, NEW latest3,
         StoreInv(st, latest), StoreInv(st2, latest2), StoreInv(st3, latest3),
         Kept(st, latest, st2, latest2), Kept(st2, latest2, st3, latest3)
  PROVE  Kept(st, latest, st3, latest3)
<1> SUFFICES ASSUME NEW o \in Orgs
             PROVE  /\ latest[o] <= latest3[o]
                    /\ \A n \in 1 .. latest[o] : st3[o][n] = st[o][n]
  BY DEF Kept
<1>1. latest[o] \in Nat /\ latest2[o] \in Nat /\ latest3[o] \in Nat
  BY DEF StoreInv
<1>2. latest[o] <= latest2[o] /\ latest2[o] <= latest3[o]
  BY DEF Kept
<1>3. \A n \in 1 .. latest[o] : n \in 1 .. latest2[o]
  BY <1>1, <1>2
<1> QED BY <1>1, <1>2, <1>3 DEF Kept

(* An accepted record goes to the end of the history of its organisation.   *)
LEMMA StoreGrows ==
  ASSUME ProviderInv, NEW r, IsRecord(r), Accepts(r), StoreRecord(r)
  PROVE  /\ StoreInv(store', latestNonce')
         /\ Kept(store, latestNonce, store', latestNonce')
         /\ known' \subseteq Orgs /\ txCounter' \in Nat
<1> PICK p : p = r.org
  OBVIOUS
<1> PICK k : k = latestNonce[p]
  OBVIOUS
<1>1. p \in Orgs /\ k \in Nat /\ r.nonce = k + 1
  BY DEF IsRecord, Accepts, NonceFits, ProviderInv, StoreInv
<1>2. /\ DOMAIN store = Orgs /\ store = [o \in Orgs |-> store[o]]
      /\ latestNonce \in [Orgs -> Nat]
      /\ DOMAIN store[p] = 1 .. k
  BY <1>1 DEF ProviderInv, StoreInv
<1>3. Put(store[p], k + 1, r) = [n \in 1 .. k + 1 |-> IF n = k + 1 THEN r ELSE store[p][n]]
  <2>1. k \in Nat
    BY <1>1
  <2>2. (1 .. k) \cup {k + 1} = 1 .. k + 1
    BY <2>1
  <2> QED BY <2>2, <1>2 DEF Put
<1>4. /\ latestNonce' \in [Orgs -> Nat]
      /\ \A o \in Orgs : latestNonce'[o] = IF o = p THEN k + 1 ELSE latestNonce[o]
  BY <1>1, <1>2 DEF StoreRecord
<1>5. /\ DOMAIN store' = Orgs /\ store' = [o \in Orgs |-> store'[o]]
      /\ \A o \in Orgs : o # p => store'[o] = store[o]
      /\ store'[p] = [n \in 1 .. k + 1 |-> IF n = k + 1 THEN r ELSE store[p][n]]
  BY <1>1, <1>2, <1>3 DEF StoreRecord
<1>6. \A n \in 1 .. k : n \in 1 .. k + 1 /\ n # k + 1 /\ store'[p][n] = store[p][n]
  BY <1>1, <1>5
<1>7. store'[p][k + 1] = r
  BY <1>1, <1>5
<1>8. \A o \in Orgs : store'[o] = [n \in 1 .. latestNonce'[o] |-> store'[o][n]]
  <2> SUFFICES ASSUME NEW o \in Orgs
               PROVE  store'[o] = [n \in 1 .. latestNonce'[o] |-> store'[o][n]]
    OBVIOUS
  <2>1. CASE o = p
    <3> PICK s : s = store'[p]
      OBVIOUS
    <3>1. s = [n \in 1 .. k + 1 |-> IF n = k + 1 THEN r ELSE store[p][n]]
      BY <1>5
    <3> PICK T : T = 1 .. k + 1
      OBVIOUS
    <3>2. s = [n \in T |-> s[n]]
      BY <3>1
    <3> QED BY <2>1, <3>2, <1>1, <1>4
  <2>2. CASE o # p
    BY <2>2, <1>4, <1>5 DEF ProviderInv, StoreInv
  <2> QED BY <2>1, <2>2
<1>9. ASSUME NEW o \in Orgs, NEW n \in 1 .. latestNonce'[o]
      PROVE  HeldAt(store', o, n)
  <2>1. CASE o # p
    <3>1. HeldAt(store, o, n) /\ store'[o] = store[o]
      BY <1>4, <1>5, <2>1 DEF ProviderInv, StoreInv
    <3> QED BY <3>1 DEF HeldAt
  <2>2. CASE o = p /\ n # k + 1
    <3>1. n \in 1 .. k /\ (n # 1 => n - 1 \in 1 .. k)
      BY <1>1, <1>4, <2>2
    <3>2. HeldAt(store, p, n)
      BY <3>1, <1>1 DEF ProviderInv, StoreInv
    <3> QED BY <3>1, <3>2, <2>2, <1>6 DEF HeldAt
  <2>3. CASE o = p /\ n = k + 1
    <3>1. IF n = 1 THEN r.prev \in {ZERO_HASH, EmptyHash}
          ELSE k \in 1 .. k /\ r.prev = compute_chain_hash(store[p][k])
      BY <1>1, <1>2, <2>3 DEF Accepts, LinkageHolds
    <3>2. n - 1 = k
      BY <1>1, <2>3
    <3>3. n # 1 => store'[p][k] = store[p][k]
      BY <3>1, <1>6
    <3> QED BY <3>1, <3>2, <3>3, <2>3, <1>1, <1>7 DEF HeldAt
  <2> QED BY <2>1, <2>2, <2>3
<1>10. Kept(store, latestNonce, store', latestNonce')
  <2> SUFFICES ASSUME NEW o \in Orgs
               PROVE  /\ latestNonce[o] <= latestNonce'[o]
                      /\ \A n \in 1 .. latestNonce[o] : store'[o][n] = store[o][n]
    BY DEF Kept
  <2>1. CASE o = p
    BY <2>1, <1>1, <1>4, <1>6
  <2>2. CASE o # p
    BY <2>2, <1>2, <1>4, <1>5
  <2> QED BY <2>1, <2>2
<1>11. known' \subseteq Orgs /\ txCounter' \in Nat
  BY <1>1 DEF StoreRecord, ProviderInv
<1> QED BY <1>4, <1>5, <1>8, <1>9, <1>10, <1>11 DEF StoreInv

LEMMA SubmitRefused ==
  ASSUME ProviderInv, NEW r, IsRecord(r), Refuse(r)
  PROVE  known' \subseteq Orgs /\ UNCHANGED <<store, latestNonce, txCounter>>
BY DEF Refuse, ProviderInv, IsRecord

(* The effect of a step: the store grows, or a snapshot of it comes back.    *)
WriteEffect ==
  /\ ProviderInv'
  /\ \/ ~running /\ ~running' /\ Kept(store, latestNonce, store', latestNonce')
     \/ running /\ running' /\ UNCHANGED saved
     \/ ~running /\ running' /\ saved'.store = store
     \/ running /\ ~running' /\ store' = saved.store /\ latestNonce' = saved.latest
     \/ running /\ ~running' /\ UNCHANGED <<store, latestNonce>>

LEMMA SubmitEffect ==
  ASSUME ProviderInv, NEW r, IsRecord(r), Submit(r)
  PROVE  WriteEffect
<1>1. ~running /\ ~running' /\ UNCHANGED todo
  BY DEF Submit
<1>2. BatchInv'
  BY <1>1 DEF ProviderInv, BatchInv
<1>3. CASE Accepts(r) /\ StoreRecord(r)
  <2>1. /\ StoreInv(store', latestNonce')
        /\ Kept(store, latestNonce, store', latestNonce')
        /\ known' \subseteq Orgs /\ txCounter' \in Nat
    BY <1>3, StoreGrows
  <2>2. running' \in BOOLEAN
    BY DEF Submit, ProviderInv
  <2>3. ProviderInv'
    BY <1>1, <1>2, <2>1, <2>2 DEF ProviderInv, StoreInv, HeldAt
  <2> QED BY <1>1, <2>1, <2>3 DEF WriteEffect
<1>4. CASE Refuse(r)
  <2>1. known' \subseteq Orgs /\ UNCHANGED <<store, latestNonce, txCounter, running>>
    BY <1>4, SubmitRefused DEF Submit
  <2>2. ProviderInv'
    BY <1>1, <1>2, <2>1 DEF ProviderInv, StoreInv, HeldAt
  <2>3. Kept(store, latestNonce, store', latestNonce')
    BY <2>1, KeptAll DEF ProviderInv
  <2> QED BY <1>1, <2>2, <2>3 DEF WriteEffect
<1> QED BY <1>3, <1>4 DEF Submit

LEMMA BeginEffect ==
  ASSUME ProviderInv, NEW rs, BatchBegin(rs),
         \/ rs = <<>>
         \/ \E r : rs = <<r>> /\ IsRecord(r)
         \/ \E r, s : rs = <<r, s>> /\ IsRecord(r) /\ IsRecord(s)
  PROVE  WriteEffect
<1>1. /\ ~running /\ running' /\ todo' = rs /\ saved' = State
      /\ UNCHANGED <<store, known, latestNonce, txCounter>>
  BY DEF BatchBegin
<1>2. BatchInv'
  BY <1>1 DEF BatchInv
<1>3. /\ saved'.store = store /\ saved'.known = known /\ saved'.latest = latestNonce
      /\ saved'.tx = txCounter
  BY <1>1 DEF State
<1>4. SnapshotInv'
  BY <1>1, <1>3, KeptAll DEF State, SnapshotInv, ProviderInv
<1>5. ProviderInv'
  BY <1>1, <1>2, <1>4 DEF ProviderInv, StoreInv, HeldAt
<1> QED BY <1>1, <1>3, <1>5 DEF WriteEffect

LEMMA HeadRecord ==
  ASSUME ProviderInv, todo # <<>>
  PROVE  /\ IsRecord(Head(todo))
         /\ Tail(todo) = <<>> \/ (Tail(todo) = <<todo[2]>> /\ IsRecord(todo[2]))
<1>1. CASE todo = <<todo[1]>> /\ IsRecord(todo[1])
  <2>1. Head(<<todo[1]>>) = todo[1] /\ Tail(<<todo[1]>>) = <<>>
    OBVIOUS
  <2> QED BY <1>1, <2>1
<1>2. CASE todo = <<todo[1], todo[2]>> /\ IsRecord(todo[1]) /\ IsRecord(todo[2])
  <2>1. /\ Head(<<todo[1], todo[2]>>) = todo[1]
        /\ Tail(<<todo[1], todo[2]>>) = <<todo[2]>>
    OBVIOUS
  <2> QED BY <1>2, <2>1
<1> QED BY <1>1, <1>2 DEF ProviderInv, BatchInv

LEMMA BatchEffect ==
  ASSUME ProviderInv, BatchStore \/ BatchEnd \/ BatchRollback \/ BatchRaises
  PROVE  WriteEffect
<1>1. CASE BatchStore
  <2> PICK r : r = Head(todo)
    OBVIOUS
  <2>1. /\ running /\ todo # <<>> /\ Accepts(r) /\ StoreRecord(r)
        /\ todo' = Tail(todo) /\ running' = running /\ saved' = saved
    BY <1>1 DEF BatchStore
  <2>2. IsRecord(r) /\ BatchInv'
    BY <2>1, HeadRecord DEF BatchInv
  <2>3. /\ StoreInv(store', latestNonce')
        /\ Kept(store, latestNonce, store', latestNonce')
        /\ known' \subseteq Orgs /\ txCounter' \in Nat
    BY <2>1, <2>2, StoreGrows
  <2>4. SnapshotInv
    BY <2>1 DEF ProviderInv
  <2>5. StoreInv(saved.store, saved.latest) /\ Kept(saved.store, saved.latest, store, latestNonce)
    BY <2>4 DEF SnapshotInv
  <2>6. Kept(saved.store, saved.latest, store', latestNonce')
    BY <2>3, <2>5, KeptTwice DEF ProviderInv
  <2>7. SnapshotInv'
    BY <2>1, <2>4, <2>6 DEF SnapshotInv, StoreInv, HeldAt, Kept
  <2>8. ProviderInv'
    BY <2>1, <2>2, <2>3, <2>7 DEF ProviderInv, StoreInv, HeldAt
  <2> QED BY <2>1, <2>8 DEF WriteEffect
<1>2. CASE BatchEnd
  <2>1. running /\ running' = FALSE /\ UNCHANGED <<store, known, latestNonce, txCounter, todo>>
    BY <1>2 DEF BatchEnd
  <2>2. StoreInv(store', latestNonce') /\ BatchInv'
    BY <2>1 DEF ProviderInv, StoreInv, HeldAt, BatchInv
  <2>3. ProviderInv'
    BY <2>1, <2>2 DEF ProviderInv
  <2> QED BY <2>1, <2>3 DEF WriteEffect
<1>3. CASE BatchRollback
  <2>1. /\ running /\ running' = FALSE /\ todo' = <<>>
        /\ store' = saved.store /\ known' = saved.known
        /\ latestNonce' = saved.latest /\ txCounter' = saved.tx
    BY <1>3 DEF BatchRollback
  <2>2. StoreInv(store', latestNonce') /\ known' \subseteq Orgs /\ txCounter' \in Nat
    BY <2>1 DEF ProviderInv, SnapshotInv
  <2>3. ProviderInv'
    BY <2>1, <2>2 DEF ProviderInv, StoreInv, HeldAt, BatchInv
  <2> QED BY <2>1, <2>3 DEF WriteEffect
<1>4. CASE BatchRaises
  <2>1. /\ running /\ todo # <<>> /\ Refuse(Head(todo)) /\ running' = FALSE /\ todo' = <<>>
    BY <1>4 DEF BatchRaises
  <2>2. known' \subseteq Orgs /\ UNCHANGED <<store, latestNonce, txCounter>>
    BY <2>1, HeadRecord, SubmitRefused
  <2>3. StoreInv(store', latestNonce') /\ BatchInv'
    BY <2>1, <2>2 DEF ProviderInv, StoreInv, HeldAt, BatchInv
  <2>4. ProviderInv'
    BY <2>1, <2>2, <2>3 DEF ProviderInv
  <2> QED BY <2>1, <2>2, <2>4 DEF WriteEffect
<1> QED BY <1>1, <1>2, <1>3, <1>4

LEMMA SubmittedRecords ==
  ASSUME NEW r \in Submitted
  PROVE  IsRecord(r)
<1>1. \A n \in 1 .. MaxNonce : n \in Nat
  BY LocalAssumption
<1> QED BY <1>1 DEF Submitted, IsRecord

LEMMA ProviderEffect ==
  ASSUME ProviderInv, ProviderNext
  PROVE  WriteEffect
<1>1. CASE BatchBegin(<<>>)
  BY <1>1, BeginEffect
<1>2. ASSUME NEW r \in Submitted, Submit(r) \/ BatchBegin(<<r>>) \/ BatchOfTwo(r)
      PROVE  WriteEffect
  <2>1. IsRecord(r)
    BY SubmittedRecords
  <2>2. CASE Submit(r)
    BY <2>1, <2>2, SubmitEffect
  <2>3. CASE BatchBegin(<<r>>)
    BY <2>1, <2>3, BeginEffect
  <2>4. CASE BatchOfTwo(r)
    <3>1. PICK h \in {ZERO_HASH, r.prev, compute_chain_hash(r)}, n \in 1 .. MaxNonce, o \in Orgs :
            BatchBegin(<<r, [r EXCEPT !.prev = h, !.nonce = n, !.org = o]>>)
      BY <2>4 DEF BatchOfTwo
    <3> PICK s : s = [r EXCEPT !.prev = h, !.nonce = n, !.org = o]
      OBVIOUS
    <3>2. n \in Nat
      BY LocalAssumption
    <3>3. IsRecord(s)
      BY <2>1, <3>2 DEF IsRecord
    <3> QED BY <2>1, <3>1, <3>3, BeginEffect
  <2> QED BY <1>2, <2>2, <2>3, <2>4
<1>3. CASE BatchStore \/ BatchEnd \/ BatchRollback \/ BatchRaises
  BY <1>3, BatchEffect
<1> QED BY <1>1, <1>2, <1>3 DEF ProviderNext

(* A store that kept what another held extends it as an abstract chain.      *)
LEMMA KeptExtends ==
  ASSUME NEW st, NEW latest, NEW st2, NEW latest2,
         StoreInv(st, latest), StoreInv(st2, latest2), Kept(st, latest, st2, latest2)
  PROVE  \A o \in Orgs : /\ Chain!Extends(st[o], st2[o]) /\ Chain!Linked(st2[o])
                         /\ \A n \in 1 .. Len(st2[o]) : st2[o][n].org = o
<1> SUFFICES ASSUME NEW o \in Orgs
             PROVE  /\ Chain!Extends(st[o], st2[o]) /\ Chain!Linked(st2[o])
                    /\ \A n \in 1 .. Len(st2[o]) : st2[o][n].org = o
  OBVIOUS
<1> PICK j, k : j = latest[o] /\ k = latest2[o]
  OBVIOUS
<1>1. j \in Nat /\ k \in Nat /\ j <= k
  BY DEF StoreInv, Kept
<1>2. st[o] = [n \in 1 .. j |-> st[o][n]] /\ st2[o] = [n \in 1 .. k |-> st2[o][n]]
  BY DEF StoreInv
<1>3. Len(st[o]) = j /\ Len(st2[o]) = k
  BY <1>1, <1>2
<1>4. \A n \in 1 .. k : HeldAt(st2, o, n)
  BY DEF StoreInv
<1>5. Chain!Extends(st[o], st2[o])
  BY <1>1, <1>3 DEF Chain!Extends, Kept
<1>6. Chain!Linked(st2[o])
  <2> SUFFICES ASSUME NEW n \in 1 .. k
               PROVE  st2[o][n].nonce = n /\ st2[o][n].prev \in Chain!PrevHashes(st2[o], n)
    BY <1>3 DEF Chain!Linked
  <2> QED BY <1>4 DEF HeldAt, Chain!PrevHashes, Chain!ZERO_HASH, Chain!EmptyHash,
             Chain!compute_chain_hash, ZERO_HASH, EmptyHash, compute_chain_hash
<1>7. \A n \in 1 .. Len(st2[o]) : st2[o][n].org = o
  BY <1>3, <1>4 DEF HeldAt
<1> QED BY <1>5, <1>6, <1>7

LEMMA EffectExtends ==
  ASSUME ProviderInv, WriteEffect
  PROVE  [Chain!Extend]_committed
<1>1. StoreInv(store, latestNonce) /\ StoreInv(store', latestNonce')
  BY DEF ProviderInv, WriteEffect, StoreInv, HeldAt
<1>2. CASE ~running /\ ~running' /\ Kept(store, latestNonce, store', latestNonce')
  <2>1. committed = store /\ committed' = store'
    BY <1>2 DEF committed
  <2>2. DOMAIN committed' = Orgs
    BY <1>1, <2>1 DEF StoreInv
  <2> QED BY <1>1, <1>2, <2>1, <2>2, KeptExtends DEF Chain!Extend
<1>3. CASE running /\ running' /\ UNCHANGED saved
  BY <1>3 DEF committed
<1>4. CASE ~running /\ running' /\ saved'.store = store
  BY <1>4 DEF committed
<1>5. CASE running /\ ~running' /\ store' = saved.store /\ latestNonce' = saved.latest
  BY <1>5 DEF committed
<1>6. CASE running /\ ~running' /\ UNCHANGED <<store, latestNonce>>
  <2>1. committed = saved.store /\ committed' = store
    BY <1>6 DEF committed
  <2>2. /\ StoreInv(saved.store, saved.latest)
        /\ Kept(saved.store, saved.latest, store, latestNonce)
    BY <1>6 DEF ProviderInv, SnapshotInv
  <2>3. DOMAIN committed' = Orgs
    BY <1>1, <2>1 DEF StoreInv
  <2> QED BY <1>1, <2>1, <2>2, <2>3, KeptExtends DEF Chain!Extend
<1> QED BY <1>2, <1>3, <1>4, <1>5, <1>6 DEF WriteEffect

LEMMA ProviderStutter ==
  ASSUME ProviderInv, UNCHANGED providerVars
  PROVE  ProviderInv' /\ [Chain!Extend]_committed
BY DEF providerVars, ProviderInv, StoreInv, HeldAt, SnapshotInv, Kept, BatchInv, committed

(* Single submissions and batches, accepted, refused or broken off: the      *)
(* in-memory provider implements the append-only chain, finds a record for  *)
(* every nonce, and takes back a batch it refuses as if it had never been.   *)
THEOREM LocalProviderKeepsChain ==
  ProviderInit /\ [][ProviderNext]_providerVars => ProviderKeepsChain
<1>1. ProviderInit => ProviderInv /\ Chain!ChainInit
  BY ProviderStarts
<1>2. ProviderInv /\ [ProviderNext]_providerVars => ProviderInv' /\ [Chain!Extend]_committed
  BY ProviderEffect, EffectExtends, ProviderStutter DEF WriteEffect
<1>3. ProviderInv => ProviderTypeOK
  <2> SUFFICES ASSUME ProviderInv PROVE ProviderTypeOK
    OBVIOUS
  <2>1. \A o \in Orgs : \A n \in DOMAIN store[o] : IsRecord(store[o][n])
    BY DEF ProviderInv, StoreInv, HeldAt
  <2>2. \A i \in 1 .. Len(todo) : IsRecord(todo[i])
    <3>1. CASE todo = <<>>
      BY <3>1
    <3>2. CASE todo = <<todo[1]>> /\ IsRecord(todo[1])
      <4>1. Len(<<todo[1]>>) = 1
        OBVIOUS
      <4>2. Len(todo) = 1
        BY <3>2, <4>1
      <4> QED BY <3>2, <4>2
    <3>3. CASE todo = <<todo[1], todo[2]>> /\ IsRecord(todo[1]) /\ IsRecord(todo[2])
      <4>1. Len(<<todo[1], todo[2]>>) = 2
        OBVIOUS
      <4>2. Len(todo) = 2
        BY <3>3, <4>1
      <4>3. \A i \in 1 .. 2 : i = 1 \/ i = 2
        OBVIOUS
      <4> QED BY <3>3, <4>2, <4>3
    <3> QED BY <3>1, <3>2, <3>3 DEF ProviderInv, BatchInv
  <2> QED BY <2>1, <2>2 DEF ProviderInv, StoreInv, ProviderTypeOK
<1>4. ProviderInv => NoncesMatchRecords
  BY DEF ProviderInv, StoreInv, NoncesMatchRecords
<1>5. ProviderInv /\ [ProviderNext]_providerVars =>
        [running /\ ~running' /\ todo # <<>> /\ ~HashRaises(Head(todo))
           => State' = saved]_providerVars
  <2> SUFFICES ASSUME ProviderInv, ProviderNext, running, ~running', todo # <<>>, ~HashRaises(Head(todo))
               PROVE  State' = saved
    OBVIOUS
  <2>1. BatchRollback
    BY DEF ProviderNext, BatchBegin, BatchOfTwo, Submit, BatchStore, BatchEnd, BatchRaises
  <2> QED BY <2>1 DEF BatchRollback, State, ProviderInv, SnapshotInv
<1> QED BY <1>1, <1>2, <1>3, <1>4, <1>5, PTL
       DEF ProviderKeepsChain, RefusedBatchLeavesNoTrace, RefinesChain, Chain!ChainSpec

-----------------------------------------------------------------------------
(* Instrumented programs.                                                   *)
Blocks == [trace : 1 .. Len(recorded), token : 0 .. Len(recorded)]
Calls == [task : ProgramTasks, by : {"decorator", "patch"},
          pc : {"running", "reporting", "returned"}, trace : 0 .. Len(recorded), left : Nat]
Ingests == [call : 1 .. Len(tracked), trace : 0 .. Len(recorded)]

TracingTypes ==
  /\ recorded \in Seq(SUBSET Nat)
  /\ context \in [ProgramTasks -> 0 .. Len(recorded)]
  /\ blocks \in [ProgramTasks -> Seq(Blocks)]
  /\ tracked \in Seq(Calls) /\ ingested \in Seq(Ingests)
  /\ spawned \subseteq ProgramTasks

(* Blocks nest: a token is the trace of the block around it.                *)
Nested ==
  \A t \in ProgramTasks :
    /\ \A i \in 1 .. Len(blocks[t]) - 1 : blocks[t][i + 1].token = blocks[t][i].trace
    /\ blocks[t] # <<>> => context[t] = blocks[t][Len(blocks[t])].trace
    /\ t \notin spawned => blocks[t] = <<>>

ReportsOf(c) == {i \in 1 .. Len(ingested) : ingested[i].call = c}
MostReports(c) == IF tracked[c].by = "patch" THEN Wraps ELSE 1

(* What was reported and what is left to report are within the limit; what   *)
(* was reported carries the trace of its call, and is counted there.        *)
CallInv(c) ==
  /\ IsFiniteSet(ReportsOf(c))
  /\ tracked[c].pc = "running" => ReportsOf(c) = {} /\ tracked[c].trace = NoTrace
  /\ tracked[c].pc = "reporting" => tracked[c].left > 0
  /\ tracked[c].pc = "reporting" => Cardinality(ReportsOf(c)) + tracked[c].left <= MostReports(c)
  /\ Cardinality(ReportsOf(c)) <= MostReports(c)
  /\ \A i \in ReportsOf(c) : ingested[i].trace = tracked[c].trace
  /\ (tracked[c].by = "decorator" /\ tracked[c].pc # "running" /\ tracked[c].trace # NoTrace)
       => c \in recorded[tracked[c].trace]

TracingInv ==
  /\ TracingTypes /\ Nested
  /\ \A c \in 1 .. Len(tracked) : CallInv(c)

LEMMA TracingStarts == SdkInit => TracingInv
<1> SUFFICES ASSUME SdkInit PROVE TracingInv
  OBVIOUS
<1>1. Len(recorded) = 0 /\ Len(tracked) = 0
  BY DEF SdkInit
<1>2. TracingTypes
  <2>1. /\ recorded = <<>> /\ tracked = <<>> /\ ingested = <<>> /\ spawned = {MainTask}
        /\ context = [t \in ProgramTasks |-> 0] /\ blocks = [t \in ProgramTasks |-> <<>>]
    BY DEF SdkInit, NoTrace
  <2>2. 0 \in 0 .. Len(recorded)
    BY <1>1
  <2>3. \A S : <<>> \in Seq(S)
    OBVIOUS
  <2>4. spawned \subseteq ProgramTasks
    BY <2>1, TracingAssumption
  <2> QED BY <2>1, <2>2, <2>3, <2>4 DEF TracingTypes
<1>3. Nested
  BY <1>1 DEF SdkInit, Nested
<1> QED BY <1>1, <1>2, <1>3 DEF TracingInv

(* Nothing about calls changes.                                             *)
LEMMA CallsStay ==
  ASSUME TracingInv, UNCHANGED <<tracked, ingested>>,
         \A n \in 1 .. Len(recorded) : recorded[n] \subseteq recorded'[n]
  PROVE  \A c \in 1 .. Len(tracked) : CallInv(c)'
<1> SUFFICES ASSUME NEW c \in 1 .. Len(tracked) PROVE CallInv(c)'
  OBVIOUS
<1>1. CallInv(c)
  BY DEF TracingInv
<1>2. ReportsOf(c)' = ReportsOf(c) /\ MostReports(c)' = MostReports(c)
  BY DEF ReportsOf, MostReports
<1>3. tracked[c].trace \in 0 .. Len(recorded) /\ Len(recorded) \in Nat
  <2>1. tracked[c] \in Calls /\ Len(recorded) \in Nat
    BY DEF TracingInv, TracingTypes
  <2> QED BY <2>1 DEF Calls
<1>4. tracked[c].trace # NoTrace => tracked[c].trace \in 1 .. Len(recorded)
  BY <1>3 DEF NoTrace
<1> QED BY <1>1, <1>2, <1>4 DEF CallInv

(* More traces.                                                             *)
LEMMA TypesWiden ==
  ASSUME NEW m \in Nat, NEW n \in Nat, m <= n
  PROVE  0 .. m \subseteq 0 .. n /\ 1 .. m \subseteq 1 .. n
OBVIOUS

LEMMA EnterTraceInv ==
  ASSUME TracingInv, NEW t \in ProgramTasks, EnterTrace(t)
  PROVE  TracingInv'
<1> PICK n : n = Len(recorded)
  OBVIOUS
<1>1. n \in Nat /\ recorded \in Seq(SUBSET Nat)
  BY DEF TracingInv, TracingTypes
<1>2. recorded' = Append(recorded, {}) /\ UNCHANGED <<spawned, tracked, ingested>>
  BY DEF EnterTrace
<1>3. /\ recorded' \in Seq(SUBSET Nat) /\ Len(recorded') = n + 1
      /\ \A k \in 1 .. n : recorded'[k] = recorded[k]
  BY <1>1, <1>2
<1>4. 0 .. n \subseteq 0 .. n + 1 /\ 1 .. n \subseteq 1 .. n + 1 /\ n + 1 \in 1 .. n + 1
      /\ n + 1 \in 0 .. n + 1
  BY <1>1
<1> PICK b : b = [trace |-> n + 1, token |-> context[t]]
  OBVIOUS
<1>5. /\ blocks' = [blocks EXCEPT ![t] = Append(blocks[t], b)]
      /\ context' = [context EXCEPT ![t] = n + 1]
      /\ t \in spawned
  BY <1>3 DEF EnterTrace
<1>6. /\ blocks \in [ProgramTasks -> Seq(Blocks)] /\ context \in [ProgramTasks -> 0 .. n]
      /\ tracked \in Seq(Calls) /\ ingested \in Seq(Ingests) /\ spawned \subseteq ProgramTasks
  BY DEF TracingInv, TracingTypes
<1>7. Blocks \subseteq Blocks' /\ Calls \subseteq Calls' /\ Ingests \subseteq Ingests' /\ b \in Blocks'
  <2>1. context[t] \in 0 .. n
    BY <1>6
  <2> QED BY <1>2, <1>3, <1>4, <2>1 DEF Blocks, Calls, Ingests
<1>8. TracingTypes'
  <2>1. blocks \in [ProgramTasks -> Seq(Blocks')] /\ tracked \in Seq(Calls') /\ ingested \in Seq(Ingests')
    BY <1>6, <1>7
  <2>2. blocks' \in [ProgramTasks -> Seq(Blocks')]
    BY <2>1, <1>5, <1>7
  <2>3. context' \in [ProgramTasks -> 0 .. n + 1]
    BY <1>4, <1>5, <1>6
  <2> QED BY <2>1, <2>2, <2>3, <1>2, <1>3, <1>6 DEF TracingTypes
<1>9. Nested'
  <2> SUFFICES ASSUME NEW u \in ProgramTasks
               PROVE  /\ \A i \in 1 .. Len(blocks'[u]) - 1 :
                           blocks'[u][i + 1].token = blocks'[u][i].trace
                      /\ blocks'[u] # <<>> => context'[u] = blocks'[u][Len(blocks'[u])].trace
                      /\ u \notin spawned' => blocks'[u] = <<>>
    BY DEF Nested
  <2>1. CASE u # t
    <3>1. blocks'[u] = blocks[u] /\ context'[u] = context[u]
      BY <2>1, <1>5, <1>6
    <3> QED BY <3>1, <1>2 DEF TracingInv, Nested
  <2>2. CASE u = t
    <3> PICK s : s = blocks[t]
      OBVIOUS
    <3> PICK l : l = Len(s)
      OBVIOUS
    <3>1. s \in Seq(Blocks) /\ l \in Nat
      BY <1>6
    <3>2. blocks'[t] = Append(s, b) /\ context'[t] = n + 1
      BY <1>5, <1>6
    <3>3. /\ Len(Append(s, b)) = l + 1 /\ Append(s, b)[l + 1] = b
          /\ \A i \in 1 .. l : Append(s, b)[i] = s[i]
      BY <3>1
    <3>4. b.trace = n + 1 /\ b.token = context[t]
      OBVIOUS
    <3>5. /\ \A i \in 1 .. l - 1 : s[i + 1].token = s[i].trace
          /\ l # 0 => context[t] = s[l].trace
      BY <3>1 DEF TracingInv, Nested
    <3>6. ASSUME NEW i \in 1 .. l
          PROVE  Append(s, b)[i + 1].token = Append(s, b)[i].trace
      <4>1. CASE i = l
        BY <4>1, <3>1, <3>3, <3>4, <3>5
      <4>2. CASE i # l
        <5>1. i \in 1 .. l - 1 /\ i + 1 \in 1 .. l
          BY <4>2, <3>1
        <5> QED BY <5>1, <3>3, <3>5
      <4> QED BY <4>1, <4>2
    <3>7. l + 1 - 1 = l
      BY <3>1
    <3> QED BY <2>2, <3>2, <3>3, <3>4, <3>6, <3>7, <1>2, <1>5
  <2> QED BY <2>1, <2>2
<1>10. \A c \in 1 .. Len(tracked) : CallInv(c)'
  BY <1>2, <1>3, CallsStay
<1> QED BY <1>2, <1>8, <1>9, <1>10 DEF TracingInv

LEMMA ExitTraceInv ==
  ASSUME TracingInv, NEW t \in ProgramTasks, ExitTrace(t)
  PROVE  TracingInv'
<1>1. /\ blocks \in [ProgramTasks -> Seq(Blocks)]
      /\ context \in [ProgramTasks -> 0 .. Len(recorded)]
  BY DEF TracingInv, TracingTypes
<1>2. /\ UNCHANGED <<spawned, recorded, tracked, ingested>>
      /\ blocks[t] # <<>>
      /\ context' = [context EXCEPT ![t] = blocks[t][Len(blocks[t])].token]
      /\ blocks' = [blocks EXCEPT ![t] = SubSeq(blocks[t], 1, Len(blocks[t]) - 1)]
  BY DEF ExitTrace, Restored
<1> PICK s : s = blocks[t]
  OBVIOUS
<1> PICK l : l = Len(s)
  OBVIOUS
<1>3. s \in Seq(Blocks) /\ l \in Nat /\ l # 0 /\ l - 1 \in Nat
  BY <1>1, <1>2
<1> PICK r : r = SubSeq(s, 1, l - 1)
  OBVIOUS
<1>4. /\ r \in Seq(Blocks) /\ Len(r) = l - 1
      /\ \A i \in 1 .. l - 1 : r[i] = s[i]
  BY <1>3
<1>5. s[l] \in Blocks
  BY <1>3
<1>6. s[l].token \in 0 .. Len(recorded)
  BY <1>5 DEF Blocks
<1>7. /\ blocks' \in [ProgramTasks -> Seq(Blocks)] /\ blocks'[t] = r
      /\ context' \in [ProgramTasks -> 0 .. Len(recorded)] /\ context'[t] = s[l].token
      /\ \A u \in ProgramTasks : u # t => blocks'[u] = blocks[u] /\ context'[u] = context[u]
  BY <1>1, <1>2, <1>4, <1>6
<1>8. TracingTypes'
  <2>1. Blocks' = Blocks /\ Calls' = Calls /\ Ingests' = Ingests
    BY <1>2 DEF Blocks, Calls, Ingests
  <2> QED BY <2>1, <1>2, <1>7 DEF TracingInv, TracingTypes
<1>9. Nested'
  <2> SUFFICES ASSUME NEW u \in ProgramTasks
               PROVE  /\ \A i \in 1 .. Len(blocks'[u]) - 1 :
                           blocks'[u][i + 1].token = blocks'[u][i].trace
                      /\ blocks'[u] # <<>> => context'[u] = blocks'[u][Len(blocks'[u])].trace
                      /\ u \notin spawned' => blocks'[u] = <<>>
    BY DEF Nested
  <2>1. CASE u # t
    BY <2>1, <1>2, <1>7 DEF TracingInv, Nested
  <2>2. CASE u = t
    <3>1. \A i \in 1 .. l - 1 : s[i + 1].token = s[i].trace
      BY DEF TracingInv, Nested
    <3>2. u \in spawned
      BY <2>2, <1>2 DEF TracingInv, Nested
    <3>3. \A i \in 1 .. (l - 1) - 1 : i \in 1 .. l - 1 /\ i + 1 \in 1 .. l - 1
      BY <1>3
    <3>4. r # <<>> => l - 1 \in 1 .. l - 1 /\ s[(l - 1) + 1].token = s[l - 1].trace
      <4> SUFFICES ASSUME r # <<>> PROVE l - 1 \in 1 .. l - 1
        BY <3>1
      <4>1. Len(r) # 0
        BY <1>4
      <4> QED BY <4>1, <1>3, <1>4
    <3>5. (l - 1) + 1 = l
      BY <1>3
    <3> QED BY <2>2, <3>1, <3>2, <3>3, <3>4, <3>5, <1>2, <1>4, <1>7
  <2> QED BY <2>1, <2>2
<1>10. \A c \in 1 .. Len(tracked) : CallInv(c)'
  BY <1>2, CallsStay
<1> QED BY <1>2, <1>8, <1>9, <1>10 DEF TracingInv

LEMMA SpawnInv ==
  ASSUME TracingInv, NEW t \in ProgramTasks, NEW child \in ProgramTasks, Spawn(t, child)
  PROVE  TracingInv'
<1>1. /\ child \notin spawned /\ spawned' = spawned \cup {child}
      /\ context' = [context EXCEPT ![child] = context[t]]
      /\ UNCHANGED <<blocks, recorded, tracked, ingested>>
  BY DEF Spawn
<1>2. context \in [ProgramTasks -> 0 .. Len(recorded)] /\ spawned \subseteq ProgramTasks
  BY DEF TracingInv, TracingTypes
<1>3. /\ context' \in [ProgramTasks -> 0 .. Len(recorded)]
      /\ \A u \in ProgramTasks : u # child => context'[u] = context[u]
  BY <1>1, <1>2
<1>4. TracingTypes'
  <2>1. Blocks' = Blocks /\ Calls' = Calls /\ Ingests' = Ingests
    BY <1>1 DEF Blocks, Calls, Ingests
  <2> QED BY <2>1, <1>1, <1>2, <1>3 DEF TracingInv, TracingTypes
<1>5. Nested'
  BY <1>1, <1>3 DEF TracingInv, Nested
<1>6. \A c \in 1 .. Len(tracked) : CallInv(c)'
  BY <1>1, CallsStay
<1> QED BY <1>1, <1>4, <1>5, <1>6 DEF TracingInv

(* The traces, but for a note in one of them, stay.                         *)
LEMMA NestingStays ==
  ASSUME TracingInv, UNCHANGED <<context, blocks, spawned>>, Len(recorded') = Len(recorded)
  PROVE  /\ Nested' /\ Blocks' = Blocks /\ Calls' = Calls
         /\ context' \in [ProgramTasks -> 0 .. Len(recorded')]
         /\ blocks' \in [ProgramTasks -> Seq(Blocks')] /\ spawned' \subseteq ProgramTasks
<1>1. Blocks' = Blocks /\ Calls' = Calls
  BY DEF Blocks, Calls
<1> QED BY <1>1 DEF TracingInv, TracingTypes, Nested

LEMMA FunctionCalledInv ==
  ASSUME TracingInv, NEW t \in ProgramTasks, NEW by \in {"decorator", "patch"},
         FunctionCalled(t, by)
  PROVE  TracingInv'
<1> PICK e : e = [task |-> t, by |-> by, pc |-> "running", trace |-> NoTrace, left |-> 0]
  OBVIOUS
<1> PICK n : n = Len(tracked)
  OBVIOUS
<1>1. /\ tracked' = Append(tracked, e)
      /\ UNCHANGED <<context, blocks, spawned, recorded, ingested>>
  BY DEF FunctionCalled
<1>2. tracked \in Seq(Calls) /\ n \in Nat /\ ingested \in Seq(Ingests) /\ Len(recorded) \in Nat
      /\ recorded \in Seq(SUBSET Nat)
  BY DEF TracingInv, TracingTypes
<1>3. e \in Calls
  BY <1>2 DEF Calls, NoTrace
<1>4. /\ tracked' \in Seq(Calls) /\ Len(tracked') = n + 1
      /\ tracked'[n + 1] = e
      /\ \A c \in 1 .. n : tracked'[c] = tracked[c]
  BY <1>1, <1>2, <1>3
<1>5. Ingests \subseteq Ingests'
  <2>1. 1 .. n \subseteq 1 .. n + 1
    BY <1>2
  <2> QED BY <2>1, <1>1, <1>4 DEF Ingests
<1>6. TracingTypes'
  <2>1. ingested \in Seq(Ingests')
    BY <1>2, <1>5
  <2> QED BY <2>1, <1>1, <1>2, <1>4, NestingStays DEF TracingTypes
<1>7. ASSUME NEW c \in 1 .. n + 1 PROVE CallInv(c)'
  <2>1. ReportsOf(c)' = ReportsOf(c)
    BY <1>1 DEF ReportsOf
  <2>2. CASE c \in 1 .. n
    <3>1. tracked'[c] = tracked[c] /\ CallInv(c)
      BY <2>2, <1>4 DEF TracingInv
    <3> QED BY <3>1, <2>1, <1>1 DEF CallInv, MostReports, ReportsOf
  <2>3. CASE c = n + 1
    <3>1. tracked'[c] = e /\ e.pc = "running"
      BY <2>3, <1>4
    <3>2. ReportsOf(c) = {}
      <4> SUFFICES ASSUME NEW i \in 1 .. Len(ingested), ingested[i].call = c PROVE FALSE
        BY DEF ReportsOf
      <4>1. ingested[i] \in Ingests
        BY <1>2
      <4>2. ingested[i].call \in 1 .. n
        BY <4>1 DEF Ingests
      <4> QED BY <4>2, <2>3, <1>2
    <3>3. IsFiniteSet({}) /\ Cardinality({}) = 0
      BY FS_EmptySet
    <3>4. MostReports(c)' \in Nat
      BY TracingAssumption DEF MostReports
    <3>5. e.trace = NoTrace
      OBVIOUS
    <3> QED BY <2>1, <3>1, <3>2, <3>3, <3>4, <3>5 DEF CallInv
  <2> QED BY <2>2, <2>3, <1>2
<1> QED BY <1>1, <1>4, <1>6, <1>7, NestingStays DEF TracingInv

(* One call goes on.                                                        *)
LEMMA CallChanges ==
  ASSUME TracingInv, NEW c \in 1 .. Len(tracked), NEW e \in Calls,
         tracked' = [tracked EXCEPT ![c] = e], e.by = tracked[c].by
  PROVE  /\ tracked' \in Seq(Calls) /\ Len(tracked') = Len(tracked)
         /\ tracked'[c] = e /\ MostReports(c)' = MostReports(c)
         /\ \A d \in 1 .. Len(tracked) : d # c => tracked'[d] = tracked[d]
<1>1. tracked \in Seq(Calls)
  BY DEF TracingInv, TracingTypes
<1>2. tracked' \in Seq(Calls) /\ Len(tracked') = Len(tracked)
  BY <1>1
<1>3. tracked'[c] = e /\ \A d \in 1 .. Len(tracked) : d # c => tracked'[d] = tracked[d]
  BY <1>1
<1> QED BY <1>2, <1>3 DEF MostReports

LEMMA OthersStay ==
  ASSUME TracingInv, NEW d \in 1 .. Len(tracked), tracked'[d] = tracked[d],
         ReportsOf(d)' = ReportsOf(d),
         \A i \in ReportsOf(d) : ingested'[i] = ingested[i],
         \A n \in 1 .. Len(recorded) : recorded[n] \subseteq recorded'[n]
  PROVE  CallInv(d)'
<1>1. CallInv(d)
  BY DEF TracingInv
<1>2. MostReports(d)' = MostReports(d)
  BY DEF MostReports
<1>3. tracked \in Seq(Calls) /\ Len(recorded) \in Nat
  BY DEF TracingInv, TracingTypes
<1>4. tracked[d] \in Calls
  BY <1>3
<1>5. tracked[d].trace # NoTrace => tracked[d].trace \in 1 .. Len(recorded)
  BY <1>3, <1>4 DEF Calls, NoTrace
<1> QED BY <1>1, <1>2, <1>5 DEF CallInv

LEMMA FunctionRaisesInv ==
  ASSUME TracingInv, NEW c \in 1 .. Len(tracked), FunctionRaises(c)
  PROVE  TracingInv'
<1>1. /\ tracked[c].pc = "running"
      /\ UNCHANGED <<context, blocks, spawned, recorded, ingested>>
  BY DEF FunctionRaises
<1>2. tracked \in Seq(Calls) /\ tracked[c] \in Calls
  BY DEF TracingInv, TracingTypes
<1> PICK e : e = [tracked[c] EXCEPT !.pc = "returned"]
  OBVIOUS
<1>3. /\ e \in Calls /\ e.by = tracked[c].by /\ e.pc = "returned" /\ e.trace = tracked[c].trace
      /\ tracked' = [tracked EXCEPT ![c] = e]
  BY <1>2 DEF FunctionRaises, Calls
<1>4. /\ tracked' \in Seq(Calls) /\ Len(tracked') = Len(tracked)
      /\ tracked'[c] = e /\ MostReports(c)' = MostReports(c)
      /\ \A d \in 1 .. Len(tracked) : d # c => tracked'[d] = tracked[d]
  BY <1>3, CallChanges
<1>5. Ingests' = Ingests
  BY <1>1, <1>4 DEF Ingests
<1>6. TracingTypes'
  BY <1>1, <1>4, <1>5, NestingStays DEF TracingInv, TracingTypes
<1>7. ASSUME NEW d \in 1 .. Len(tracked) PROVE CallInv(d)'
  <2>1. ReportsOf(d)' = ReportsOf(d)
    BY <1>1 DEF ReportsOf
  <2>2. CASE d # c
    BY <2>1, <2>2, <1>1, <1>4, OthersStay
  <2>3. CASE d = c
    <3>1. CallInv(c)
      BY DEF TracingInv
    <3> QED BY <3>1, <2>1, <2>3, <1>1, <1>3, <1>4 DEF CallInv
  <2> QED BY <2>2, <2>3
<1> QED BY <1>1, <1>4, <1>6, <1>7, NestingStays DEF TracingInv

LEMMA FunctionReturnsInv ==
  ASSUME TracingInv, NEW c \in 1 .. Len(tracked), NEW client, FunctionReturns(c, client)
  PROVE  TracingInv'
<1> PICK reports : reports = IF client # "sync" THEN 0
                             ELSE IF tracked[c].by = "patch" THEN Wraps ELSE 1
  OBVIOUS
<1> PICK trace : trace = context[tracked[c].task]
  OBVIOUS
<1>1. /\ tracked[c].pc = "running"
      /\ recorded' = Noted(c, trace)
      /\ UNCHANGED <<context, blocks, spawned, ingested>>
  BY DEF FunctionReturns
<1>2. /\ tracked \in Seq(Calls) /\ tracked[c] \in Calls
      /\ context \in [ProgramTasks -> 0 .. Len(recorded)]
      /\ recorded \in Seq(SUBSET Nat) /\ Len(recorded) \in Nat
  BY DEF TracingInv, TracingTypes
<1>3. trace \in 0 .. Len(recorded) /\ (trace # NoTrace => trace \in 1 .. Len(recorded))
  BY <1>2 DEF Calls, NoTrace
<1>4. reports \in Nat /\ reports <= MostReports(c)
  BY TracingAssumption DEF MostReports
<1>5. /\ recorded' \in Seq(SUBSET Nat) /\ Len(recorded') = Len(recorded)
      /\ \A n \in 1 .. Len(recorded) : recorded[n] \subseteq recorded'[n]
      /\ tracked[c].by = "decorator" /\ trace # NoTrace => c \in recorded'[trace]
  <2>1. c \in Nat
    BY <1>2
  <2>2. CASE tracked[c].by = "decorator" /\ trace # NoTrace
    <3>1. PICK w : w = recorded[trace] \cup {c}
      OBVIOUS
    <3>2. w \in SUBSET Nat
      BY <2>1, <2>2, <3>1, <1>2, <1>3
    <3>3. recorded' = [recorded EXCEPT ![trace] = w]
      BY <2>2, <3>1, <1>1 DEF Noted
    <3>4. recorded' \in Seq(SUBSET Nat) /\ Len(recorded') = Len(recorded)
      <4> PICK W : W = SUBSET Nat
        OBVIOUS
      <4>1. recorded \in Seq(W) /\ w \in W /\ trace \in 1 .. Len(recorded)
        BY <2>2, <3>2, <1>2, <1>3
      <4>2. recorded' \in Seq(W) /\ Len(recorded') = Len(recorded)
        BY <4>1, <3>3
      <4> QED BY <4>2
    <3>5. /\ trace \in 1 .. Len(recorded) => recorded'[trace] = w
          /\ \A n \in 1 .. Len(recorded) : n # trace => recorded'[n] = recorded[n]
      BY <3>3, <1>2
    <3> QED BY <2>2, <3>1, <3>4, <3>5, <1>3
  <2>3. CASE ~(tracked[c].by = "decorator" /\ trace # NoTrace)
    <3>1. recorded' = recorded
      BY <2>3, <1>1 DEF Noted
    <3> QED BY <2>3, <3>1, <1>2
  <2> QED BY <2>2, <2>3
<1> PICK e : e = [tracked[c] EXCEPT !.trace = trace, !.left = reports,
                                    !.pc = IF reports = 0 THEN "returned" ELSE "reporting"]
  OBVIOUS
<1>6. /\ e \in Calls /\ e.by = tracked[c].by /\ e.trace = trace /\ e.left = reports
      /\ e.pc = IF reports = 0 THEN "returned" ELSE "reporting"
  BY <1>2, <1>3, <1>4 DEF Calls
<1>7. tracked' = [tracked EXCEPT ![c] = e]
  BY <1>2 DEF FunctionReturns
<1>8. /\ tracked' \in Seq(Calls) /\ Len(tracked') = Len(tracked)
      /\ tracked'[c] = e /\ MostReports(c)' = MostReports(c)
      /\ \A d \in 1 .. Len(tracked) : d # c => tracked'[d] = tracked[d]
  BY <1>6, <1>7, CallChanges
<1>9. Ingests' = Ingests
  BY <1>1, <1>5, <1>8 DEF Ingests
<1>10. TracingTypes'
  BY <1>1, <1>5, <1>8, <1>9, NestingStays DEF TracingInv, TracingTypes
<1>11. ASSUME NEW d \in 1 .. Len(tracked) PROVE CallInv(d)'
  <2>1. ReportsOf(d)' = ReportsOf(d)
    BY <1>1 DEF ReportsOf
  <2>2. CASE d # c
    BY <2>1, <2>2, <1>1, <1>5, <1>8, OthersStay
  <2>3. CASE d = c
    <3>1. CallInv(c)
      BY DEF TracingInv
    <3>2. ReportsOf(c) = {} /\ Cardinality(ReportsOf(c)) = 0 /\ IsFiniteSet(ReportsOf(c))
      BY <3>1, <1>1, FS_EmptySet DEF CallInv
    <3>3. MostReports(c) \in Nat
      BY TracingAssumption DEF MostReports
    <3>4. /\ e.pc # "running"
          /\ e.pc = "reporting" => e.left > 0 /\ 0 + e.left <= MostReports(c)
      BY <1>4, <1>6
    <3>5. 0 <= MostReports(c)
      BY <3>3
    <3>6. tracked'[c] = e /\ MostReports(c)' = MostReports(c) /\ ReportsOf(c)' = {}
      BY <3>2, <2>1, <2>3, <1>8
    <3>7. (e.by = "decorator" /\ e.trace # NoTrace) => c \in recorded'[e.trace]
      BY <1>5, <1>6
    <3> QED BY <3>2, <3>4, <3>5, <3>6, <3>7, <2>3 DEF CallInv
  <2> QED BY <2>2, <2>3
<1> QED BY <1>1, <1>5, <1>8, <1>10, <1>11, NestingStays DEF TracingInv

LEMMA ReportInv ==
  ASSUME TracingInv, NEW c \in 1 .. Len(tracked), NEW kept \in BOOLEAN, NEW answered,
         Report(c, kept, answered)
  PROVE  TracingInv'
<1> PICK n : n = Len(ingested)
  OBVIOUS
<1> PICK g : g = [call |-> c, trace |-> tracked[c].trace]
  OBVIOUS
<1>1. /\ tracked[c].pc = "reporting"
      /\ ingested' = IF kept THEN Append(ingested, g) ELSE ingested
      /\ UNCHANGED <<context, blocks, spawned, recorded>>
  BY DEF Report
<1>2. /\ tracked \in Seq(Calls) /\ tracked[c] \in Calls
      /\ ingested \in Seq(Ingests) /\ n \in Nat
  BY DEF TracingInv, TracingTypes
<1>3. CallInv(c) /\ tracked[c].left \in Nat /\ tracked[c].left > 0
  BY <1>1, <1>2 DEF TracingInv, CallInv, Calls
<1> PICK e : e = [tracked[c] EXCEPT !.left = tracked[c].left - 1,
                    !.pc = IF tracked[c].left = 1 THEN "returned" ELSE tracked[c].pc]
  OBVIOUS
<1>4. /\ e \in Calls /\ e.by = tracked[c].by /\ e.trace = tracked[c].trace
      /\ e.left = tracked[c].left - 1
      /\ e.pc = IF tracked[c].left = 1 THEN "returned" ELSE "reporting"
  <2>1. tracked[c].left - 1 \in Nat
    BY <1>3
  <2> QED BY <2>1, <1>1, <1>2 DEF Calls
<1>5. tracked' = [tracked EXCEPT ![c] = e]
  BY <1>2 DEF Report, Reported
<1>6. /\ tracked' \in Seq(Calls) /\ Len(tracked') = Len(tracked)
      /\ tracked'[c] = e /\ MostReports(c)' = MostReports(c)
      /\ \A d \in 1 .. Len(tracked) : d # c => tracked'[d] = tracked[d]
  BY <1>4, <1>5, CallChanges
<1>7. Ingests' = Ingests /\ g \in Ingests
  BY <1>1, <1>2, <1>6 DEF Ingests, Calls
<1>8. /\ ingested' \in Seq(Ingests)
      /\ \A i \in 1 .. n : ingested'[i] = ingested[i]
      /\ kept => Len(ingested') = n + 1 /\ ingested'[n + 1] = g
      /\ ~kept => ingested' = ingested
  BY <1>1, <1>2, <1>7
<1>9. TracingTypes'
  BY <1>1, <1>6, <1>7, <1>8, NestingStays DEF TracingInv, TracingTypes
<1>10. \A d \in 1 .. Len(tracked) :
         ReportsOf(d)' = IF kept /\ d = c THEN ReportsOf(d) \cup {n + 1} ELSE ReportsOf(d)
  <2> SUFFICES ASSUME NEW d \in 1 .. Len(tracked)
               PROVE  {i \in 1 .. Len(ingested') : ingested'[i].call = d}
                        = IF kept /\ d = c THEN {i \in 1 .. n : ingested[i].call = d} \cup {n + 1}
                          ELSE {i \in 1 .. n : ingested[i].call = d}
    BY DEF ReportsOf
  <2>1. CASE ~kept
    BY <2>1, <1>8
  <2>2. CASE kept
    <3>1. Len(ingested') = n + 1 /\ ingested'[n + 1].call = c
      BY <2>2, <1>8
    <3>2. \A i : i \in 1 .. n + 1 <=> i \in 1 .. n \/ i = n + 1
      BY <1>2
    <3> QED BY <2>2, <3>1, <3>2, <1>8
  <2> QED BY <2>1, <2>2
<1>11. ASSUME NEW d \in 1 .. Len(tracked) PROVE CallInv(d)'
  <2>1. CASE d # c
    <3>1. \A i \in ReportsOf(d) : ingested'[i] = ingested[i]
      BY <1>8 DEF ReportsOf
    <3> QED BY <2>1, <3>1, <1>1, <1>6, <1>10, OthersStay
  <2>2. CASE d = c
    <3>1. PICK m : m = Cardinality(ReportsOf(c))
      OBVIOUS
    <3>2. /\ IsFiniteSet(ReportsOf(c)) /\ m \in Nat
          /\ m + tracked[c].left <= MostReports(c)
      BY <3>1, <1>1, <1>3, FS_CardinalityType DEF CallInv
    <3>3. n + 1 \notin ReportsOf(c)
      BY <1>2 DEF ReportsOf
    <3>4. /\ IsFiniteSet(ReportsOf(c)')
          /\ Cardinality(ReportsOf(c)') \in {m, m + 1}
      BY <3>1, <3>2, <3>3, <1>10, FS_AddElement
    <3>5. MostReports(c) \in Nat
      BY TracingAssumption DEF MostReports
    <3>6. \A i \in ReportsOf(c)' : ingested'[i].trace = e.trace
      <4>1. \A i \in ReportsOf(c) : i \in 1 .. n /\ ingested[i].trace = tracked[c].trace
        BY <1>3 DEF CallInv, ReportsOf
      <4>2. kept => ingested'[n + 1].trace = e.trace
        BY <1>4, <1>8
      <4> QED BY <4>1, <4>2, <1>4, <1>8, <1>10
    <3>7. (e.by = "decorator" /\ e.trace # NoTrace) => c \in recorded[e.trace]
      BY <1>1, <1>3, <1>4 DEF CallInv
    <3>8. /\ e.pc # "running"
          /\ e.pc = "reporting" => e.left > 0
          /\ Cardinality(ReportsOf(c)') + e.left <= MostReports(c)
          /\ Cardinality(ReportsOf(c)') <= MostReports(c)
      <4>1. PICK l : l = tracked[c].left
        OBVIOUS
      <4>2. e.left = l - 1 /\ l \in Nat /\ l > 0 /\ m + l <= MostReports(c)
        BY <4>1, <3>2, <1>3, <1>4
      <4>3. PICK k \in {m, m + 1} : k = Cardinality(ReportsOf(c)')
        BY <3>4
      <4>4. k + e.left <= MostReports(c) /\ k <= MostReports(c)
        BY <4>2, <3>2, <3>5
      <4>5. e.pc # "running" /\ (e.pc = "reporting" => e.left > 0)
        BY <4>1, <4>2, <1>4
      <4> QED BY <4>3, <4>4, <4>5
    <3> QED BY <2>2, <3>4, <3>6, <3>7, <3>8, <1>1, <1>6 DEF CallInv
  <2> QED BY <2>1, <2>2
<1> QED BY <1>1, <1>6, <1>9, <1>11, NestingStays DEF TracingInv

LEMMA TracingStep == TracingInv /\ [SdkNext]_sdkVars => TracingInv'
<1> SUFFICES ASSUME TracingInv, [SdkNext]_sdkVars PROVE TracingInv'
  OBVIOUS
<1>1. CASE EventTaken \/ UNCHANGED sdkVars
  <2>1. UNCHANGED <<context, blocks, spawned, recorded, tracked, ingested>>
    BY <1>1 DEF EventTaken, sdkVars
  <2>2. TracingTypes' /\ Nested'
    BY <2>1 DEF TracingInv, TracingTypes, Nested, Blocks, Calls, Ingests
  <2>3. \A c \in 1 .. Len(tracked) : CallInv(c)'
    BY <2>1, CallsStay
  <2> QED BY <2>1, <2>2, <2>3 DEF TracingInv
<1>2. ASSUME NEW t \in ProgramTasks,
             \/ EnterTrace(t) \/ ExitTrace(t)
             \/ \E child \in ProgramTasks : Spawn(t, child)
             \/ \E by \in {"decorator", "patch"} : FunctionCalled(t, by)
      PROVE  TracingInv'
  BY <1>2, EnterTraceInv, ExitTraceInv, SpawnInv, FunctionCalledInv
<1>3. ASSUME NEW c \in DOMAIN tracked,
             \/ FunctionRaises(c)
             \/ \E client \in Clients : FunctionReturns(c, client)
             \/ \E kept, answered \in BOOLEAN : Report(c, kept, answered)
      PROVE  TracingInv'
  <2>1. c \in 1 .. Len(tracked)
    BY DEF TracingInv, TracingTypes
  <2> QED BY <1>3, <2>1, FunctionRaisesInv, FunctionReturnsInv, ReportInv
<1> QED BY <1>1, <1>2, <1>3 DEF SdkNext

(* However programs nest and leave their blocks, spawn tasks, raise, and lose *)
(* reports or answers: a call is filed under the innermost block, at most as *)
(* often as its client reports it, and only under a trace that counts it.    *)
THEOREM TracesAreSound == SdkInit /\ [][SdkNext]_sdkVars => []TracesSound
<1>1. TracingInv => TracesSound
  <2> SUFFICES ASSUME TracingInv PROVE TracesSound
    OBVIOUS
  <2>1. InnermostTrace
    BY DEF TracingInv, Nested, InnermostTrace
  <2>2. DOMAIN ingested = 1 .. Len(ingested) /\ DOMAIN tracked = 1 .. Len(tracked)
    BY DEF TracingInv, TracingTypes
  <2>3. ReportedAtMostOnce
    BY <2>2 DEF TracingInv, CallInv, ReportsOf, MostReports, ReportedAtMostOnce
  <2>4. ASSUME NEW i \in 1 .. Len(ingested), tracked[ingested[i].call].by = "decorator",
               ingested[i].trace # NoTrace
        PROVE  ingested[i].call \in recorded[ingested[i].trace]
    <3> PICK c : c = ingested[i].call
      OBVIOUS
    <3>1. ingested[i] \in Ingests
      BY DEF TracingInv, TracingTypes
    <3>2. c \in 1 .. Len(tracked) /\ i \in ReportsOf(c)
      BY <3>1 DEF Ingests, ReportsOf
    <3>3. CallInv(c)
      BY <3>2 DEF TracingInv
    <3> QED BY <2>4, <3>2, <3>3 DEF CallInv
  <2>5. StoredIsCounted
    BY <2>2, <2>4 DEF StoredIsCounted
  <2> QED BY <2>1, <2>3, <2>5 DEF TracesSound
<1> QED BY <1>1, TracingStarts, TracingStep, PTL

-----------------------------------------------------------------------------
(* Tenants, their users and requests.                                       *)
Roles == DOMAIN UserRoles
Users == [id : 1 .. directory.added, tenant : Nat, email : Emails, role : Roles,
          provider : SsoProviders \cup {NoSso}, lastLogin : Nat]

DirectoryInv ==
  /\ DOMAIN directory = {"added", "logins", "last", "given"}
  /\ directory.added \in Nat /\ directory.logins \in Nat
  /\ directory.last \in [SsoAccounts -> Nat]
  /\ \A a \in SsoAccounts : directory.last[a] <= directory.added
  /\ directory.given \in Seq(Roles) /\ Len(directory.given) = directory.added

(* Ids are given once, and a copy carries the role given last.              *)
UsersInv ==
  /\ users \in Seq(Users)
  /\ \A i, j \in 1 .. Len(users) : users[i].id = users[j].id => i = j
  /\ \A i \in 1 .. Len(users) : users[i].role = directory.given[users[i].id]

(* Who logged in last with an account is the first user who has it.         *)
Account(i) == <<users[i].email, users[i].provider>>
LoginsInv ==
  \A a \in SsoAccounts : \A i \in 1 .. Len(users) : users[i].id = directory.last[a] =>
    /\ users[i].lastLogin > 0 /\ Account(i) = a
    /\ \A j \in 1 .. i - 1 : Account(j) # a

Opened == [tenant : Nat, token : Nat]
Contexts == [tenant : Nat, user : Nat, admitted : Nat, blocks : Seq(Opened)]
ContextInv(r) ==
  LET c == contexts[r]
  IN  /\ c.tenant = IF c.blocks = <<>> THEN c.admitted ELSE c.blocks[Len(c.blocks)].tenant
      /\ c.blocks # <<>> => c.blocks[1].token = c.admitted
      /\ \A i \in 1 .. Len(c.blocks) - 1 : c.blocks[i + 1].token = c.blocks[i].tenant

RequestsInv == contexts \in [HttpRequests -> Contexts] /\ \A r \in HttpRequests : ContextInv(r)

TenancyInv ==
  /\ tenants \in Seq(BOOLEAN)
  /\ DirectoryInv /\ UsersInv /\ LoginsInv /\ RequestsInv

LEMMA TenancyStarts == TenancyInit => TenancyInv
<1> SUFFICES ASSUME TenancyInit PROVE TenancyInv
  OBVIOUS
<1>1. tenants = <<>> /\ users = <<>> /\ contexts = [r \in HttpRequests |-> NoContext]
  BY DEF TenancyInit
<1>2. DirectoryInv
  BY DEF TenancyInit, DirectoryInv, NoUser
<1>3. \A S : <<>> \in Seq(S) /\ Len(<<>>) = 0
  OBVIOUS
<1>4. UsersInv /\ LoginsInv
  BY <1>1, <1>3 DEF UsersInv, LoginsInv
<1>5. /\ NoContext \in Contexts /\ NoContext.blocks = <<>>
      /\ NoContext.tenant = 0 /\ NoContext.admitted = 0
  BY <1>3 DEF NoContext, NoTenant, NoUser, Contexts
<1>6. RequestsInv
  BY <1>1, <1>3, <1>5 DEF RequestsInv, ContextInv
<1> QED BY <1>1, <1>2, <1>3, <1>4, <1>6 DEF TenancyInv

LEMMA DirectoryStays ==
  ASSUME TenancyInv, UNCHANGED <<users, directory>>
  PROVE  DirectoryInv' /\ UsersInv' /\ LoginsInv'
<1>1. users' = users /\ directory' = directory
  OBVIOUS
<1>2. DirectoryInv'
  BY <1>1 DEF TenancyInv, DirectoryInv
<1>3. UsersInv'
  BY <1>1 DEF TenancyInv, UsersInv, Users
<1>4. LoginsInv'
  BY <1>1 DEF TenancyInv, LoginsInv, Account
<1> QED BY <1>2, <1>3, <1>4

LEMMA RequestsStay ==
  ASSUME TenancyInv, UNCHANGED contexts
  PROVE  RequestsInv'
BY DEF TenancyInv, RequestsInv, ContextInv

LEMMA TenantStep ==
  ASSUME TenancyInv,
         CreateTenant \/ \E t \in DOMAIN tenants : UpdateTenant(t, TRUE) \/ DeactivateTenant(t)
  PROVE  TenancyInv' /\ UNCHANGED directory
<1>1. UNCHANGED <<users, contexts, directory>>
  BY DEF CreateTenant, UpdateTenant, DeactivateTenant
<1>2. tenants \in Seq(BOOLEAN)
  BY DEF TenancyInv
<1>3. tenants' \in Seq(BOOLEAN)
  <2> PICK W, yes, no : W = BOOLEAN /\ yes = TRUE /\ no = FALSE
    OBVIOUS
  <2>1. tenants \in Seq(W) /\ yes \in W /\ no \in W
    BY <1>2
  <2>2. CASE tenants' = Append(tenants, yes)
    BY <2>1, <2>2
  <2>3. ASSUME NEW t \in DOMAIN tenants, NEW w \in W, tenants' = [tenants EXCEPT ![t] = w]
        PROVE  tenants' \in Seq(W)
    BY <2>1, <2>3
  <2> QED BY <2>1, <2>2, <2>3 DEF CreateTenant, UpdateTenant, DeactivateTenant
<1> QED BY <1>1, <1>3, DirectoryStays, RequestsStay DEF TenancyInv

-----------------------------------------------------------------------------
LEMMA AddUserInv ==
  ASSUME TenancyInv, NEW t \in DOMAIN tenants, NEW e \in Emails, NEW role \in Roles,
         NEW p \in SsoProviders \cup {NoSso}, AddUser(t, e, role, p)
  PROVE  TenancyInv' /\ directory'.last = directory.last
<1> PICK u : u = NewUser(t, e, role, p)
  OBVIOUS
<1> PICK n : n = Len(users)
  OBVIOUS
<1> PICK k : k = directory.added
  OBVIOUS
<1>1. /\ users' = Append(users, u) /\ UNCHANGED <<tenants, contexts>>
      /\ directory' = [directory EXCEPT !.added = k + 1, !.given = Append(directory.given, role)]
  BY DEF AddUser
<1>2. /\ tenants \in Seq(BOOLEAN) /\ DirectoryInv
      /\ users \in Seq(Users) /\ n \in Nat /\ k \in Nat
  BY DEF TenancyInv, UsersInv, DirectoryInv
<1>3. /\ DOMAIN directory' = DOMAIN directory /\ directory'.added = k + 1
      /\ directory'.given = Append(directory.given, role)
      /\ directory'.last = directory.last /\ directory'.logins = directory.logins
  BY <1>1, <1>2 DEF DirectoryInv
<1>4. /\ directory'.given \in Seq(Roles) /\ Len(directory'.given) = k + 1
      /\ directory'.given[k + 1] = role
      /\ \A i \in 1 .. k : directory'.given[i] = directory.given[i]
  BY <1>2, <1>3 DEF DirectoryInv
<1>5. DirectoryInv'
  BY <1>2, <1>3, <1>4 DEF DirectoryInv
<1>6. /\ u \in Users' /\ u.id = k + 1 /\ u.role = role
  <2>1. t \in Nat /\ k + 1 \in 1 .. k + 1
    BY <1>2
  <2> QED BY <2>1, <1>3 DEF NewUser, Users
<1>7. Users \subseteq Users'
  <2>1. 1 .. k \subseteq 1 .. k + 1
    BY <1>2
  <2> QED BY <2>1, <1>3 DEF Users
<1>8. users \in Seq(Users')
  BY <1>2, <1>7
<1>9. /\ users' \in Seq(Users') /\ Len(users') = n + 1 /\ users'[n + 1] = u
      /\ \A i \in 1 .. n : users'[i] = users[i]
  BY <1>1, <1>2, <1>6, <1>8
<1>10. \A i \in 1 .. n : users[i].id \in 1 .. k /\ users[i].id # k + 1
  <2>1. ASSUME NEW i \in 1 .. n PROVE users[i].id \in 1 .. k
    <3>1. users[i] \in Users
      BY <1>2
    <3> QED BY <3>1 DEF Users
  <2> QED BY <2>1, <1>2
<1>11. \A i : i \in 1 .. n + 1 <=> i \in 1 .. n \/ i = n + 1
  BY <1>2
<1>12. UsersInv'
  <2>0. /\ \A i, j \in 1 .. n : users[i].id = users[j].id => i = j
        /\ \A i \in 1 .. n : users[i].role = directory.given[users[i].id]
    BY DEF TenancyInv, UsersInv
  <2>1. \A i, j \in 1 .. n + 1 : users'[i].id = users'[j].id => i = j
    BY <2>0, <1>6, <1>9, <1>10, <1>11
  <2>2. ASSUME NEW i \in 1 .. n + 1
        PROVE  users'[i].role = directory'.given[users'[i].id]
    <3>1. CASE i \in 1 .. n
      <4>1. users'[i] = users[i] /\ users[i].id \in 1 .. k
        BY <3>1, <1>9, <1>10
      <4>2. users[i].role = directory.given[users[i].id]
        BY <3>1, <2>0
      <4> QED BY <4>1, <4>2, <1>4
    <3>2. CASE i = n + 1
      <4>1. users'[i] = u
        BY <3>2, <1>9
      <4> QED BY <4>1, <1>4, <1>6
    <3> QED BY <3>1, <3>2, <1>11
  <2> QED BY <2>1, <2>2, <1>9 DEF UsersInv
<1>13. LoginsInv'
  <2> SUFFICES ASSUME NEW a \in SsoAccounts, NEW i \in 1 .. n + 1,
                      users'[i].id = directory'.last[a]
               PROVE  /\ users'[i].lastLogin > 0 /\ Account(i)' = a
                      /\ \A j \in 1 .. i - 1 : Account(j)' # a
    BY <1>9 DEF LoginsInv
  <2>1. directory.last[a] \in Nat /\ directory.last[a] <= k
    BY <1>2 DEF DirectoryInv
  <2>2. i \in 1 .. n
    <3>1. ~(k + 1 <= k)
      BY <1>2
    <3> QED BY <3>1, <2>1, <1>3, <1>6, <1>9, <1>11
  <2>3. \A j \in 1 .. i - 1 : j \in 1 .. n
    BY <2>2, <1>2
  <2>4. \A j \in 1 .. n : Account(j)' = Account(j) /\ users'[j].lastLogin = users[j].lastLogin
    BY <1>9 DEF Account
  <2>5. users[i].id = directory.last[a] /\ i \in 1 .. Len(users)
    BY <1>3, <1>9, <2>2
  <2>6. users[i].lastLogin > 0 /\ Account(i) = a /\ \A j \in 1 .. i - 1 : Account(j) # a
    BY <2>5 DEF TenancyInv, LoginsInv
  <2> QED BY <2>2, <2>3, <2>4, <2>6
<1> QED BY <1>1, <1>2, <1>3, <1>5, <1>12, <1>13, RequestsStay DEF TenancyInv

(* The others move up when one is removed.                                  *)
LEMMA Removed ==
  ASSUME NEW S, NEW s \in Seq(S), NEW i \in 1 .. Len(s)
  PROVE  /\ RemoveAt(s, i) \in Seq(S) /\ Len(RemoveAt(s, i)) = Len(s) - 1
         /\ \A j \in 1 .. Len(s) - 1 : RemoveAt(s, i)[j] = IF j < i THEN s[j] ELSE s[j + 1]
<1>n. PICK n : n = Len(s)
  OBVIOUS
<1>1. n \in Nat /\ i \in Nat /\ 1 <= i /\ i <= n
  BY <1>n
<1>a. PICK a : a = SubSeq(s, 1, i - 1)
  OBVIOUS
<1>b. PICK b : b = SubSeq(s, i + 1, n)
  OBVIOUS
<1>2. a \in Seq(S) /\ Len(a) = i - 1 /\ \A j \in 1 .. i - 1 : a[j] = s[j]
  BY <1>1, <1>a, <1>n
<1>3. b \in Seq(S) /\ Len(b) = n - i /\ \A j \in 1 .. n - i : b[j] = s[i + j]
  BY <1>1, <1>b, <1>n
<1>r. PICK r : r = a \o b
  OBVIOUS
<1>4. r \in Seq(S) /\ Len(r) = (i - 1) + (n - i)
  <2>0. a \in Seq(S) /\ b \in Seq(S)
    BY <1>2, <1>3
  <2>1. r \in Seq(S) /\ Len(r) = Len(a) + Len(b)
    BY <2>0, <1>r
  <2> QED BY <2>1, <1>2, <1>3
<1>5. /\ (i - 1) + (n - i) = n - 1
      /\ \A j \in 1 .. i - 1 : r[j] = a[j]
      /\ \A j \in 1 .. n - i : r[(i - 1) + j] = b[j]
  <2>0. a \in Seq(S) /\ b \in Seq(S)
    BY <1>2, <1>3
  <2>1. \A j \in 1 .. Len(a) : r[j] = a[j]
    BY <2>0, <1>r
  <2>2. ASSUME NEW j \in 1 .. Len(b) PROVE r[Len(a) + j] = b[j]
    <3>1. Len(a) + j \in 1 .. Len(a) + Len(b) /\ ~(Len(a) + j <= Len(a)) /\ (Len(a) + j) - Len(a) = j
      BY <2>0
    <3> QED BY <2>0, <3>1, <1>r
  <2> QED BY <2>1, <2>2, <1>1, <1>2, <1>3
<1>6. ASSUME NEW j \in 1 .. n - 1 PROVE r[j] = IF j < i THEN s[j] ELSE s[j + 1]
  <2>1. CASE j < i
    <3>1. j \in 1 .. i - 1
      BY <2>1, <1>1
    <3> QED BY <3>1, <2>1, <1>2, <1>5
  <2>2. CASE ~(j < i)
    <3>1. PICK k : k = j - (i - 1)
      OBVIOUS
    <3>2. k \in 1 .. n - i /\ (i - 1) + k = j /\ i + k = j + 1
      BY <2>2, <3>1, <1>1
    <3>3. r[(i - 1) + k] = s[i + k]
      BY <3>2, <1>3, <1>5
    <3> QED BY <2>2, <3>2, <3>3
  <2> QED BY <2>1, <2>2
<1> QED BY <1>4, <1>5, <1>6, <1>n, <1>a, <1>b, <1>r DEF RemoveAt

LEMMA RemoveUserInv ==
  ASSUME TenancyInv, NEW t, NEW u, RemoveUser(t, u)
  PROVE  TenancyInv' /\ UNCHANGED directory
<1>1. users \in Seq(Users) /\ Len(users) \in Nat
  BY DEF TenancyInv, UsersInv
<1>2. PICK i \in 1 .. Len(users) : users' = RemoveAt(users, i)
  BY <1>1 DEF RemoveUser, PositionOf
<1>3. UNCHANGED <<tenants, contexts, directory>>
  BY DEF RemoveUser
<1> PICK n : n = Len(users)
  OBVIOUS
<1>4. Users' = Users
  BY <1>3 DEF Users
<1>5. /\ users' \in Seq(Users) /\ Len(users') = n - 1
      /\ \A j \in 1 .. n - 1 : users'[j] = IF j < i THEN users[j] ELSE users[j + 1]
  BY <1>1, <1>2, Removed
<1>6. \A j \in 1 .. n - 1 : j \in 1 .. n /\ j + 1 \in 1 .. n
  BY <1>1
<1>7. UsersInv'
  <2>1. ASSUME NEW j \in 1 .. n - 1, NEW k \in 1 .. n - 1, users'[j].id = users'[k].id
        PROVE  j = k
    <3>1. \A l, m \in 1 .. n : users[l].id = users[m].id => l = m
      BY DEF TenancyInv, UsersInv
    <3>2. (IF j < i THEN j ELSE j + 1) = (IF k < i THEN k ELSE k + 1)
      BY <2>1, <3>1, <1>5, <1>6
    <3> QED BY <3>2, <1>1
  <2>2. \A j \in 1 .. n - 1 : users'[j].role = directory'.given[users'[j].id]
    BY <1>3, <1>5, <1>6 DEF TenancyInv, UsersInv
  <2> QED BY <2>1, <2>2, <1>4, <1>5 DEF UsersInv
<1>8. LoginsInv'
  <2> SUFFICES ASSUME NEW a \in SsoAccounts, NEW j \in 1 .. n - 1,
                      users'[j].id = directory.last[a]
               PROVE  /\ users'[j].lastLogin > 0 /\ Account(j)' = a
                      /\ \A k \in 1 .. j - 1 : Account(k)' # a
    BY <1>3, <1>5 DEF LoginsInv
  <2>1. PICK l \in 1 .. n : users'[j] = users[l] /\ l = IF j < i THEN j ELSE j + 1
    BY <1>5, <1>6
  <2>2. users[l].lastLogin > 0 /\ Account(l) = a /\ \A k \in 1 .. l - 1 : Account(k) # a
    BY <2>1 DEF TenancyInv, LoginsInv
  <2>3. ASSUME NEW k \in 1 .. j - 1 PROVE Account(k)' # a
    <3>1. k \in 1 .. n - 1 /\ k \in 1 .. l - 1 /\ (~(k < i) => k + 1 \in 1 .. l - 1)
      BY <1>1, <2>1
    <3>2. users'[k] = users[k] \/ (~(k < i) /\ users'[k] = users[k + 1])
      BY <3>1, <1>5
    <3> QED BY <3>1, <3>2, <2>2 DEF Account
  <2> QED BY <2>1, <2>2, <2>3 DEF Account
<1>9. DirectoryInv'
  BY <1>3 DEF TenancyInv, DirectoryInv
<1> QED BY <1>3, <1>7, <1>8, <1>9, RequestsStay DEF TenancyInv

LEMMA UpdateRoleInv ==
  ASSUME TenancyInv, NEW t, NEW u, NEW role \in Roles, UpdateRole(t, u, role)
  PROVE  TenancyInv' /\ directory'.last = directory.last
<1>1. users \in Seq(Users) /\ Len(users) \in Nat
  BY DEF TenancyInv, UsersInv
<1>2. PICK i \in 1 .. Len(users) :
        users[i].id = u /\ users' = Replaced(i, WithRole(users[i], role))
  BY <1>1 DEF UpdateRole, PositionOf
<1> PICK w : w = [users[i] EXCEPT !.role = role]
  OBVIOUS
<1>3. users[i] \in Users
  BY <1>1
<1>4. /\ w \in Users /\ w.id = u /\ w.email = users[i].email /\ w.provider = users[i].provider
      /\ w.lastLogin = users[i].lastLogin /\ w.role = role
  BY <1>2, <1>3 DEF Users
<1>5. users' = [users EXCEPT ![i] = w] /\ UNCHANGED <<tenants, contexts>>
      /\ directory' = [directory EXCEPT !.given[u] = role]
  BY <1>2 DEF UpdateRole, Replaced, WithRole
<1>6. /\ users' \in Seq(Users) /\ Len(users') = Len(users) /\ users'[i] = w
      /\ \A j \in 1 .. Len(users) : j # i => users'[j] = users[j]
  BY <1>1, <1>4, <1>5
<1>7. u \in 1 .. directory.added /\ DirectoryInv
  BY <1>2, <1>3 DEF Users, TenancyInv
<1>8. /\ DOMAIN directory' = DOMAIN directory /\ directory'.added = directory.added
      /\ directory'.last = directory.last /\ directory'.logins = directory.logins
      /\ directory'.given = [directory.given EXCEPT ![u] = role]
  BY <1>5, <1>7 DEF DirectoryInv
<1>9. /\ directory'.given \in Seq(Roles) /\ Len(directory'.given) = directory.added
      /\ directory'.given[u] = role
      /\ \A k \in 1 .. directory.added : k # u => directory'.given[k] = directory.given[k]
  BY <1>7, <1>8 DEF DirectoryInv
<1>10. DirectoryInv'
  BY <1>7, <1>8, <1>9 DEF DirectoryInv
<1>11. Users' = Users
  BY <1>8 DEF Users
<1>12. ASSUME NEW j \in 1 .. Len(users)
       PROVE  users'[j].id = users[j].id /\ users[j].id \in 1 .. directory.added
  <2>1. users[j] \in Users
    BY <1>1
  <2> QED BY <2>1, <1>2, <1>4, <1>6 DEF Users
<1>13. UsersInv'
  <2>1. \A j, k \in 1 .. Len(users) : users[j].id = users[k].id => j = k
    BY DEF TenancyInv, UsersInv
  <2>2. \A j \in 1 .. Len(users) : users[j].role = directory.given[users[j].id]
    BY DEF TenancyInv, UsersInv
  <2>3. ASSUME NEW j \in 1 .. Len(users) PROVE users'[j].role = directory'.given[users'[j].id]
    <3>1. CASE j = i
      BY <3>1, <1>4, <1>6, <1>9
    <3>2. CASE j # i
      BY <3>2, <2>1, <2>2, <1>2, <1>6, <1>9, <1>12
    <3> QED BY <3>1, <3>2
  <2> QED BY <2>1, <2>3, <1>6, <1>11, <1>12 DEF UsersInv
<1>14. \A j \in 1 .. Len(users) :
         Account(j)' = Account(j) /\ users'[j].lastLogin = users[j].lastLogin
  BY <1>4, <1>6 DEF Account
<1>15. LoginsInv'
  <2>1. \A j \in 1 .. Len(users) : \A k \in 1 .. j - 1 : k \in 1 .. Len(users)
    BY <1>1
  <2> QED BY <2>1, <1>6, <1>8, <1>12, <1>14 DEF TenancyInv, LoginsInv
<1> QED BY <1>5, <1>8, <1>10, <1>13, <1>15, RequestsStay DEF TenancyInv

(* The first of the users with an account logs in; if the last to log in is  *)
(* still there, it is the same user.                                        *)
LEMMA AuthenticateInv ==
  ASSUME TenancyInv, NEW e \in Emails, NEW p \in SsoProviders, AuthenticateSso(e, p)
  PROVE  /\ TenancyInv'
         /\ \A a \in SsoAccounts :
              directory'.last[a] # directory.last[a] => PositionOf(directory.last[a]) = {}
<1> PICK a : a = <<e, p>>
  OBVIOUS
<1> PICK n : n = Len(users)
  OBVIOUS
<1>1. /\ users \in Seq(Users) /\ n \in Nat /\ DOMAIN users = 1 .. n /\ DirectoryInv
      /\ a \in SsoAccounts
  BY DEF TenancyInv, UsersInv, SsoAccounts
<1> PICK found : found = {j \in 1 .. n : users[j].email = e /\ users[j].provider = p}
  OBVIOUS
<1>2. \E j \in found : \A k \in found : j <= k
  <2>1. found \in SUBSET Nat /\ found # {}
    BY SMTT(30), <1>1 DEF AuthenticateSso
  <2> QED BY <2>1, LeastNumber
<1>3. PICK i : i = CHOOSE j \in found : \A k \in found : j <= k
  OBVIOUS
<1>4. i \in found /\ \A k \in found : i <= k
  BY <1>2, <1>3
<1>5. i \in 1 .. n /\ users[i].email = e /\ users[i].provider = p
      /\ \A j \in 1 .. i - 1 : Account(j) # a
  <2>1. i \in 1 .. n /\ users[i].email = e /\ users[i].provider = p
    BY <1>4
  <2>2. ASSUME NEW j \in 1 .. i - 1, Account(j) = a PROVE FALSE
    <3>1. j \in 1 .. n /\ ~(i <= j)
      BY <2>1, <1>1
    <3>2. j \in found
      BY <2>2, <3>1 DEF Account
    <3> QED BY <3>1, <3>2, <1>4
  <2> QED BY <2>1, <2>2
<1> PICK l : l = directory.logins + 1
  OBVIOUS
<1> PICK w : w = [users[i] EXCEPT !.lastLogin = l]
  OBVIOUS
<1>6. users[i] \in Users /\ l \in Nat /\ l > 0
  BY <1>1, <1>5 DEF DirectoryInv
<1>7. /\ w \in Users /\ w.id = users[i].id /\ w.email = e /\ w.provider = p
      /\ w.lastLogin = l /\ w.role = users[i].role
  BY <1>5, <1>6 DEF Users
<1>8. /\ users' = [users EXCEPT ![i] = w] /\ UNCHANGED <<tenants, contexts>>
      /\ directory' = [directory EXCEPT !.logins = l, !.last[a] = users[i].id]
  BY <1>1, <1>3 DEF AuthenticateSso, Replaced
<1>9. /\ users' \in Seq(Users) /\ Len(users') = n /\ users'[i] = w
      /\ \A j \in 1 .. n : j # i => users'[j] = users[j]
  BY <1>1, <1>5, <1>7, <1>8
<1>10. users[i].id \in 1 .. directory.added
  BY <1>6 DEF Users
<1>11. /\ DOMAIN directory' = DOMAIN directory /\ directory'.added = directory.added
       /\ directory'.logins = l /\ directory'.given = directory.given
       /\ directory'.last = [directory.last EXCEPT ![a] = users[i].id]
  BY <1>1, <1>8 DEF DirectoryInv
<1>12. /\ directory'.last \in [SsoAccounts -> Nat]
       /\ directory'.last[a] = users[i].id
       /\ \A b \in SsoAccounts : b # a => directory'.last[b] = directory.last[b]
  BY <1>1, <1>10, <1>11 DEF DirectoryInv
<1>13. DirectoryInv'
  <2>0. users[i].id <= directory.added
    BY <1>1, <1>10 DEF DirectoryInv
  <2>1. \A b \in SsoAccounts : directory'.last[b] <= directory.added
    BY <2>0, <1>1, <1>12 DEF DirectoryInv
  <2> QED BY <2>1, <1>1, <1>6, <1>11, <1>12 DEF DirectoryInv
<1>14. Users' = Users
  BY <1>11 DEF Users
<1>15. \A j \in 1 .. n : /\ users'[j].id = users[j].id /\ users'[j].role = users[j].role
                         /\ Account(j)' = Account(j)
                         /\ users[j].lastLogin > 0 => users'[j].lastLogin > 0
  BY <1>5, <1>6, <1>7, <1>9 DEF Account
<1>16. UsersInv'
  BY <1>9, <1>11, <1>14, <1>15 DEF TenancyInv, UsersInv
<1>17. \A j, k \in 1 .. n : users[j].id = users[k].id => j = k
  BY DEF TenancyInv, UsersInv
<1>18. Account(i) = a
  BY <1>5 DEF Account
<1>19. LoginsInv'
  <2> SUFFICES ASSUME NEW b \in SsoAccounts, NEW j \in 1 .. n,
                      users'[j].id = directory'.last[b]
               PROVE  /\ users'[j].lastLogin > 0 /\ Account(j)' = b
                      /\ \A k \in 1 .. j - 1 : Account(k)' # b
    BY <1>9 DEF LoginsInv
  <2>1. \A k \in 1 .. j - 1 : k \in 1 .. n
    BY <1>1
  <2>2. CASE b = a
    <3>1. j = i
      BY <2>2, <1>5, <1>12, <1>15, <1>17
    <3> QED BY <2>1, <2>2, <3>1, <1>5, <1>6, <1>7, <1>9, <1>15, <1>18
  <2>3. CASE b # a
    <3>1. users[j].id = directory.last[b]
      BY <2>3, <1>12, <1>15
    <3>2. /\ users[j].lastLogin > 0 /\ Account(j) = b
          /\ \A k \in 1 .. j - 1 : Account(k) # b
      BY <3>1, <1>1 DEF TenancyInv, LoginsInv
    <3> QED BY <2>1, <3>2, <1>15
  <2> QED BY <2>2, <2>3
<1>20. ASSUME directory.last[a] # users[i].id PROVE PositionOf(directory.last[a]) = {}
  <2> SUFFICES ASSUME NEW j \in 1 .. n, users[j].id = directory.last[a] PROVE FALSE
    BY <1>1 DEF PositionOf
  <2>1. Account(j) = a /\ \A k \in 1 .. j - 1 : Account(k) # a
    BY <1>1 DEF TenancyInv, LoginsInv
  <2>2. ~(i \in 1 .. j - 1) /\ ~(j \in 1 .. i - 1)
    BY <2>1, <1>5, <1>18
  <2>3. i = j
    BY <2>2, <1>1, <1>5
  <2> QED BY <2>3, <1>20
<1>21. TenancyInv'
  BY <1>8, <1>13, <1>16, <1>19, RequestsStay DEF TenancyInv
<1> QED BY <1>12, <1>20, <1>21

-----------------------------------------------------------------------------
(* The context of one request changes.                                      *)
LEMMA ContextChanges ==
  ASSUME TenancyInv, NEW r \in HttpRequests, NEW c \in Contexts,
         contexts' = [contexts EXCEPT ![r] = c], UNCHANGED <<tenants, users, directory>>,
         c.tenant = IF c.blocks = <<>> THEN c.admitted ELSE c.blocks[Len(c.blocks)].tenant,
         c.blocks # <<>> => c.blocks[1].token = c.admitted,
         \A i \in 1 .. Len(c.blocks) - 1 : c.blocks[i + 1].token = c.blocks[i].tenant
  PROVE  TenancyInv' /\ UNCHANGED directory
<1>1. contexts \in [HttpRequests -> Contexts]
  BY DEF TenancyInv, RequestsInv
<1>2. /\ contexts' \in [HttpRequests -> Contexts] /\ contexts'[r] = c
      /\ \A q \in HttpRequests : q # r => contexts'[q] = contexts[q]
  BY <1>1
<1>3. ASSUME NEW q \in HttpRequests PROVE ContextInv(q)'
  <2>1. CASE q = r
    BY <2>1, <1>2 DEF ContextInv
  <2>2. CASE q # r
    BY <2>2, <1>2 DEF ContextInv, TenancyInv, RequestsInv
  <2> QED BY <2>1, <2>2
<1> QED BY <1>2, <1>3, DirectoryStays DEF TenancyInv, RequestsInv

(* The blocks of a context, from the outermost to the innermost.            *)
LEMMA OpenBlocks ==
  ASSUME TenancyInv, NEW r \in HttpRequests
  PROVE  LET s == contexts[r].blocks
         IN  /\ contexts[r] \in Contexts /\ s \in Seq(Opened)
             /\ Len(s) = 0 <=> s = <<>>
             /\ Len(s) = 0 => contexts[r].tenant = contexts[r].admitted
             /\ Len(s) # 0 => /\ contexts[r].tenant = s[Len(s)].tenant
                              /\ s[1].token = contexts[r].admitted
             /\ \A i \in 1 .. Len(s) - 1 : s[i + 1].token = s[i].tenant
<1>1. contexts[r] \in Contexts /\ ContextInv(r)
  BY DEF TenancyInv, RequestsInv
<1>2. contexts[r].blocks \in Seq(Opened)
  BY <1>1 DEF Contexts
<1>3. Len(contexts[r].blocks) = 0 <=> contexts[r].blocks = <<>>
  BY <1>2
<1> QED BY <1>1, <1>2, <1>3 DEF ContextInv

LEMMA EnterTenantInv ==
  ASSUME TenancyInv, NEW r \in HttpRequests, NEW t \in DOMAIN tenants, EnterTenant(r, t)
  PROVE  TenancyInv' /\ UNCHANGED directory
<1>s. PICK s : s = contexts[r].blocks
  OBVIOUS
<1>n. PICK n : n = Len(s)
  OBVIOUS
<1>b. PICK b : b = [tenant |-> t, token |-> contexts[r].tenant]
  OBVIOUS
<1>1. /\ contexts[r] \in Contexts /\ s \in Seq(Opened) /\ n \in Nat
      /\ n = 0 => b.token = contexts[r].admitted
      /\ n # 0 => b.token = s[n].tenant /\ s[1].token = contexts[r].admitted
      /\ \A i \in 1 .. n - 1 : s[i + 1].token = s[i].tenant
  BY <1>s, <1>n, <1>b, OpenBlocks
<1>2. b \in Opened /\ b.tenant = t /\ t \in Nat
  <2>1. t \in Nat
    BY DEF TenancyInv
  <2> QED BY <1>b, <2>1, <1>1 DEF Contexts, Opened
<1>z. PICK z : z = Append(s, b)
  OBVIOUS
<1>3. /\ z \in Seq(Opened) /\ Len(z) = n + 1 /\ z[n + 1] = b
      /\ \A i \in 1 .. n : z[i] = s[i]
  <2>1. s \in Seq(Opened) /\ b \in Opened
    BY <1>1, <1>2
  <2>2. /\ z \in Seq(Opened) /\ Len(z) = n + 1
        /\ \A i \in 1 .. n : z[i] = s[i]
    BY <2>1, <1>n, <1>z
  <2>3. z[n + 1] = b
    BY <2>1, <1>n, <1>z
  <2> QED BY <2>2, <2>3
<1>c. PICK c : c = [contexts[r] EXCEPT !.blocks = z, !.tenant = t]
  OBVIOUS
<1>4. c \in Contexts /\ c.blocks = z /\ c.tenant = t /\ c.admitted = contexts[r].admitted
  BY <1>c, <1>1, <1>2, <1>3 DEF Contexts
<1>5. contexts' = [contexts EXCEPT ![r] = c]
  <2>1. contexts \in [HttpRequests -> Contexts]
    BY DEF TenancyInv, RequestsInv
  <2>2. contexts' = [contexts EXCEPT ![r].blocks = z, ![r].tenant = t]
    <3>1. z = Append(contexts[r].blocks, [tenant |-> t, token |-> contexts[r].tenant])
      BY <1>s, <1>b, <1>z
    <3> QED BY <3>1 DEF EnterTenant
  <2> QED BY <2>1, <2>2, <1>c
<1>6. z # <<>> /\ z[1].token = c.admitted
  <2>1. z # <<>>
    BY <1>1, <1>3
  <2>2. CASE n = 0
    <3>1. z[1] = b
      BY <2>2, <1>3
    <3>2. b.token = c.admitted
      BY <2>2, <1>1, <1>4
    <3> QED BY <2>1, <3>1, <3>2
  <2>3. CASE n # 0
    <3>1. 1 \in 1 .. n
      BY <2>3, <1>1
    <3> QED BY <2>3, <3>1, <1>1, <1>3, <1>4
  <2> QED BY <2>1, <2>2, <2>3
<1>7. ASSUME NEW i \in 1 .. n PROVE z[i + 1].token = z[i].tenant
  <2>0. n \in Nat
    BY <1>1
  <2>1. CASE i = n
    <3>1. n # 0
      BY <2>0, <2>1
    <3> QED BY <2>1, <3>1, <1>1, <1>3
  <2>2. CASE i # n
    <3>1. i \in 1 .. n - 1 /\ i + 1 \in 1 .. n
      BY <2>0, <2>2
    <3> QED BY <3>1, <1>1, <1>3
  <2> QED BY <2>1, <2>2
<1>8. Len(z) - 1 = n /\ z[Len(z)] = b
  BY <1>1, <1>3
<1>9. UNCHANGED <<tenants, users, directory>>
  BY DEF EnterTenant
<1>10. \A i \in 1 .. Len(c.blocks) - 1 : c.blocks[i + 1].token = c.blocks[i].tenant
  BY <1>4, <1>7, <1>8
<1>11. /\ c.tenant = IF c.blocks = <<>> THEN c.admitted ELSE c.blocks[Len(c.blocks)].tenant
       /\ c.blocks # <<>> => c.blocks[1].token = c.admitted
  BY <1>2, <1>4, <1>6, <1>8
<1>12. c \in Contexts
  BY <1>4
<1> QED BY <1>5, <1>9, <1>10, <1>11, <1>12, ContextChanges

LEMMA ExitTenantInv ==
  ASSUME TenancyInv, NEW r \in HttpRequests, ExitTenant(r)
  PROVE  TenancyInv' /\ UNCHANGED directory
<1>s. PICK s : s = contexts[r].blocks
  OBVIOUS
<1>n. PICK n : n = Len(s)
  OBVIOUS
<1>1. /\ contexts[r] \in Contexts /\ s \in Seq(Opened) /\ n \in Nat
      /\ n = 0 <=> s = <<>>
      /\ n # 0 => s[1].token = contexts[r].admitted
      /\ \A i \in 1 .. n - 1 : s[i + 1].token = s[i].tenant
  BY <1>s, <1>n, OpenBlocks
<1>2. n # 0
  <2>1. s # <<>>
    BY <1>s DEF ExitTenant
  <2>2. n = 0 => s = <<>>
    BY <1>s, <1>n, OpenBlocks
  <2> QED BY <2>1, <2>2
<1>m. PICK m : m = n - 1
  OBVIOUS
<1>3. m \in Nat /\ n = m + 1
  BY <1>m, <1>1, <1>2
<1>z. PICK z : z = SubSeq(s, 1, m)
  OBVIOUS
<1>4. /\ z \in Seq(Opened) /\ Len(z) = m
      /\ \A i \in 1 .. m : z[i] = s[i]
      /\ s[n] \in Opened
  <2>1. s \in Seq(Opened) /\ Len(s) = m + 1 /\ m \in Nat
    BY <1>1, <1>3, <1>n
  <2>2. z \in Seq(Opened) /\ Len(z) = m
    BY <2>1, <1>z
  <2>3. \A i \in 1 .. m : z[i] = s[i]
    BY <2>1, <1>z
  <2>4. s[m + 1] \in Opened
    BY <2>1
  <2> QED BY <2>2, <2>3, <2>4, <1>3
<1>c. PICK c : c = [contexts[r] EXCEPT !.blocks = z, !.tenant = s[n].token]
  OBVIOUS
<1>5. c \in Contexts /\ c.blocks = z /\ c.tenant = s[n].token
      /\ c.admitted = contexts[r].admitted
  BY <1>c, <1>1, <1>4 DEF Contexts, Opened
<1>6. contexts' = [contexts EXCEPT ![r] = c]
  <2>1. contexts \in [HttpRequests -> Contexts]
    BY DEF TenancyInv, RequestsInv
  <2>2. contexts' = [contexts EXCEPT ![r].blocks = z, ![r].tenant = s[n].token]
    BY <1>s, <1>n, <1>m, <1>z DEF ExitTenant, AfterExit, Front, Last
  <2> QED BY <2>1, <2>2, <1>c
<1>7. UNCHANGED <<tenants, users, directory>>
  BY DEF ExitTenant
<1>8. z = <<>> <=> m = 0
  BY <1>4
<1>9. c.tenant = IF z = <<>> THEN c.admitted ELSE z[Len(z)].tenant
  <2>1. CASE m = 0
    <3>1. n = 1
      BY <2>1, <1>3
    <3> QED BY <2>1, <3>1, <1>1, <1>5, <1>8
  <2>2. CASE m # 0
    <3>1. m \in 1 .. m /\ m \in 1 .. n - 1
      BY <2>2, <1>3
    <3> QED BY <2>2, <3>1, <1>1, <1>3, <1>4, <1>5, <1>8
  <2> QED BY <2>1, <2>2
<1>10. z # <<>> => z[1].token = c.admitted
  <2> SUFFICES ASSUME m # 0 PROVE z[1].token = c.admitted
    BY <1>8
  <2>1. 1 \in 1 .. m
    BY <1>3
  <2> QED BY <2>1, <1>1, <1>2, <1>4, <1>5
<1>11. ASSUME NEW i \in 1 .. m - 1 PROVE z[i + 1].token = z[i].tenant
  <2>1. i \in 1 .. m /\ i + 1 \in 1 .. m /\ i \in 1 .. n - 1
    BY <1>3
  <2> QED BY <2>1, <1>1, <1>4
<1>12. \A i \in 1 .. Len(c.blocks) - 1 : c.blocks[i + 1].token = c.blocks[i].tenant
  BY <1>4, <1>5, <1>11
<1>13. /\ c.tenant = IF c.blocks = <<>> THEN c.admitted ELSE c.blocks[Len(c.blocks)].tenant
       /\ c.blocks # <<>> => c.blocks[1].token = c.admitted
  BY <1>5, <1>9, <1>10
<1>14. c \in Contexts
  BY <1>5
<1> QED BY <1>6, <1>7, <1>12, <1>13, <1>14, ContextChanges

LEMMA AdmitOrRespond ==
  ASSUME TenancyInv, NEW r \in HttpRequests,
         Respond(r) \/ \E t \in DOMAIN tenants, u \in 1 .. directory.added, p \in Permissions :
                          RequirePermission(r, t, u, p)
  PROVE  TenancyInv' /\ UNCHANGED directory
<1>1. <<>> \in Seq(Opened) /\ Len(<<>>) - 1 = -1 /\ 1 .. -1 = {}
  OBVIOUS
<1>2. CASE Respond(r)
  <2>1. /\ NoContext \in Contexts /\ NoContext.blocks = <<>>
        /\ NoContext.tenant = NoContext.admitted
    BY <1>1 DEF NoContext, NoTenant, NoUser, Contexts
  <2> QED BY <1>1, <1>2, <2>1, ContextChanges DEF Respond
<1>3. ASSUME NEW t \in DOMAIN tenants, NEW u \in 1 .. directory.added, NEW p \in Permissions,
             RequirePermission(r, t, u, p)
      PROVE  TenancyInv' /\ UNCHANGED directory
  <2> PICK c : c = [tenant |-> t, user |-> u, admitted |-> t, blocks |-> <<>>]
    OBVIOUS
  <2>1. t \in Nat /\ u \in Nat
    BY DEF TenancyInv, DirectoryInv
  <2>2. c \in Contexts /\ c.blocks = <<>> /\ c.tenant = c.admitted
    BY <1>1, <2>1 DEF Contexts
  <2> QED BY <1>1, <1>3, <2>2, ContextChanges DEF RequirePermission
<1> QED BY <1>2, <1>3

LEMMA TenancyStep ==
  ASSUME TenancyInv, [TenancyNext]_tenancyVars
  PROVE  /\ TenancyInv'
         /\ \A a \in SsoAccounts :
              directory'.last[a] # directory.last[a] => PositionOf(directory.last[a]) = {}
<1>1. CASE UNCHANGED tenancyVars
  BY <1>1, DirectoryStays, RequestsStay DEF tenancyVars, TenancyInv
<1>2. CASE CreateTenant \/ \E t \in DOMAIN tenants : UpdateTenant(t, TRUE) \/ DeactivateTenant(t)
  BY <1>2, TenantStep
<1>3. ASSUME NEW t \in DOMAIN tenants, NEW e \in Emails, NEW role \in DOMAIN UserRoles,
             NEW p \in SsoProviders \cup {NoSso}, AddUser(t, e, role, p)
      PROVE  TenancyInv' /\ directory'.last = directory.last
  BY <1>3, AddUserInv DEF Roles
<1>4. ASSUME NEW t \in DOMAIN tenants, NEW u \in 1 .. directory.added,
             RemoveUser(t, u) \/ \E role \in DOMAIN UserRoles : UpdateRole(t, u, role)
      PROVE  TenancyInv' /\ directory'.last = directory.last
  BY <1>4, RemoveUserInv, UpdateRoleInv DEF Roles
<1>5. ASSUME NEW r \in HttpRequests,
             \/ \E t \in DOMAIN tenants :
                  EnterTenant(r, t) \/ \E u \in 1 .. directory.added, p \in Permissions :
                                         RequirePermission(r, t, u, p)
             \/ ExitTenant(r) \/ Respond(r)
      PROVE  TenancyInv' /\ UNCHANGED directory
  <2>1. CASE \E t \in DOMAIN tenants : EnterTenant(r, t)
    BY <2>1, EnterTenantInv
  <2>2. CASE ExitTenant(r)
    BY <2>2, ExitTenantInv
  <2> QED BY <1>5, <2>1, <2>2, AdmitOrRespond
<1> QED BY <1>1, <1>2, <1>3, <1>4, <1>5, AuthenticateInv DEF TenancyNext

(* Whatever logins, changes of role, removals and requests there are, and in *)
(* whatever order: an account stays with one user, no copy of a user loses a *)
(* role or a login, and a request works for its innermost tenant.           *)
THEOREM IdentitiesAreKept == TenancyInit /\ [][TenancyNext]_tenancyVars => IdentitiesKept
<1>1. TenancyInv => CopiesLoseNothing
  BY DEF TenancyInv, UsersInv, LoginsInv, PositionOf, CopiesLoseNothing
<1>2. TenancyInv => InnermostTenant
  BY DEF TenancyInv, RequestsInv, ContextInv, InnermostTenant, Last
<1>3. TenancyInv /\ [TenancyNext]_tenancyVars =>
        [\A a \in SsoAccounts :
           (directory'.last[a] # directory.last[a] /\ directory.last[a] # NoUser) =>
             PositionOf(directory.last[a]) = {}]_tenancyVars
  BY TenancyStep
<1>4. TenancyInv /\ [TenancyNext]_tenancyVars => TenancyInv'
  BY TenancyStep
<1> QED BY <1>1, <1>2, <1>3, <1>4, TenancyStarts, PTL DEF IdentitiesKept, SameUserUntilRemoved

-----------------------------------------------------------------------------
(* The matrix that routing reads. Merging and adjusting keep its entries      *)
(* typed and what was measured measured.                                     *)
Caches == [present : BOOLEAN, entries : SUBSET Entry, stale : BOOLEAN]
Covers(rows, entries) == \A e \in entries : e.samples > 0 => \E r \in rows : SameKey(r, e)

LEMMA SyntheticIsTyped ==
  /\ GenerateSynthetic \subseteq Entry
  /\ \A s \in GenerateSynthetic : s.samples = 0
<1>1. ASSUME NEW m \in DOMAIN Catalog, NEW t \in Tasks
      PROVE  QualityForTask(m, t) \in 0 .. 100
  BY CatalogAssumption DEF QualityForTask, TierQuality
<1>2. ASSUME NEW m \in DOMAIN Catalog
      PROVE  /\ m \in Models /\ Catalog[m].cost \in Nat
             /\ TierLatency[Catalog[m].tier] \in Nat
  BY CatalogAssumption DEF TierLatency
<1>3. ASSUME NEW s \in GenerateSynthetic
      PROVE  s \in Entry /\ s.samples = 0
  <2>1. PICK m \in DOMAIN Catalog, t \in Tasks :
          s = [model |-> m, task |-> t, quality |-> QualityForTask(m, t),
               cost |-> Catalog[m].cost, latency |-> TierLatency[Catalog[m].tier],
               samples |-> 0]
    BY DEF GenerateSynthetic
  <2>2. PICK q : q = QualityForTask(m, t)
    OBVIOUS
  <2>3. q \in 0 .. 100
    BY <1>1, <2>2
  <2>4. s = [model |-> m, task |-> t, quality |-> q, cost |-> Catalog[m].cost,
             latency |-> TierLatency[Catalog[m].tier], samples |-> 0]
    BY <2>1, <2>2
  <2> HIDE <2>1, <2>2
  <2> QED BY <1>2, <2>3, <2>4 DEF Entry
<1> QED BY <1>3

(* A synthetic entry is determined by its model and task.                    *)
LEMMA OneSynthetic ==
  ASSUME NEW s \in GenerateSynthetic, NEW o \in GenerateSynthetic, SameKey(s, o)
  PROVE  s = o
BY DEF GenerateSynthetic, SameKey

LEMMA MergedIsTyped ==
  ASSUME NEW rows \in SUBSET Entry
  PROVE  /\ MergeFitness(GenerateSynthetic, rows) \subseteq Entry
         /\ Covers(rows, MergeFitness(GenerateSynthetic, rows))
         /\ Covers(MergeFitness(GenerateSynthetic, rows), rows)
         /\ \A r \in rows : r.samples > 0 =>
              \E e \in MergeFitness(GenerateSynthetic, rows) : SameKey(e, r) /\ e.samples > 0
<1> DEFINE Priced(e) == [e EXCEPT !.cost = IF Known(e.model) THEN Catalog[e.model].cost ELSE e.cost]
           measured == {Priced(e) : e \in {r \in rows : r.samples > 0}}
<1>1. ASSUME NEW r \in rows
      PROVE  /\ Priced(r) \in Entry /\ SameKey(Priced(r), r)
             /\ Priced(r).samples = r.samples
  <2>1. r \in Entry
    OBVIOUS
  <2>2. PICK c : c = IF Known(r.model) THEN Catalog[r.model].cost ELSE r.cost
    OBVIOUS
  <2>3. c \in Nat
    BY <2>1, <2>2, CatalogAssumption DEF Known, Entry
  <2>4. Priced(r) = [r EXCEPT !.cost = c]
    BY <2>2
  <2> HIDE <2>2
  <2> QED BY <2>1, <2>3, <2>4 DEF Entry, SameKey
<1>2. MergeFitness(GenerateSynthetic, rows) =
        {s \in GenerateSynthetic : \A e \in measured : ~SameKey(s, e)} \cup measured
  BY DEF MergeFitness
<1>3. measured \subseteq Entry
  BY <1>1
<1>4. \A e \in measured : \E r \in rows : r.samples > 0 /\ e = Priced(r)
  OBVIOUS
<1>5. \A r \in rows : r.samples > 0 => Priced(r) \in measured
  OBVIOUS
<1> HIDE DEF Priced, measured
<1>6. \A e \in measured : \E r \in rows : SameKey(r, e)
  BY <1>1, <1>4 DEF SameKey
<1> QED BY <1>1, <1>2, <1>3, <1>5, <1>6, SyntheticIsTyped DEF Covers

(* Feedback changes qualities only.                                          *)
Keys == Models \X Tasks
Averages == [Keys -> Int]

LEMMA ClampBounds ==
  ASSUME NEW x \in Int
  PROVE  Clamp(x) \in Int /\ Clamp(x) <= MaxAdjustment /\ Clamp(x) >= -MaxAdjustment
BY FeedbackAssumption DEF Clamp

LEMMA SmoothedIsTyped ==
  ASSUME NEW e \in Averages, NEW feedback \in Feedbacks
  PROVE  Smoothed(e, feedback) \in Averages
<1>1. PICK s : s = Smoothed(e, feedback)
  OBVIOUS
<1> DEFINE Heeded(k) == CHOOSE f \in Heard(feedback) : <<f.model, f.task>> = k
           Value(k) == IF \E f \in Heard(feedback) : <<f.model, f.task>> = k
                       THEN (Alpha * Heeded(k).delta + (100 - Alpha) * e[k]) \div 100
                       ELSE e[k]
<1>2. s = [k \in Keys |-> Value(k)]
  BY <1>1 DEF Smoothed, Averages
<1>3. ASSUME NEW k \in Keys PROVE Value(k) \in Int
  <2>1. e[k] \in Int /\ Alpha \in Int
    BY FeedbackAssumption DEF Averages
  <2>2. CASE \E f \in Heard(feedback) : <<f.model, f.task>> = k
    <3>1. Heeded(k) \in feedback
      BY <2>2 DEF Heard
    <3>2. PICK d : d = Heeded(k).delta
      OBVIOUS
    <3>3. d \in Int
      BY <3>1, <3>2, FeedbackAssumption
    <3>4. Value(k) = (Alpha * d + (100 - Alpha) * e[k]) \div 100
      BY <2>2, <3>2
    <3> HIDE DEF Value, Heeded
    <3>5. PICK a, b : a = Alpha * d /\ b = (100 - Alpha) * e[k]
      OBVIOUS
    <3>6. a \in Int /\ b \in Int
      BY <2>1, <3>3, <3>5
    <3>7. (a + b) \div 100 \in Int
      BY <3>6
    <3> QED BY <3>4, <3>5, <3>7
  <2>3. CASE ~\E f \in Heard(feedback) : <<f.model, f.task>> = k
    BY <2>1, <2>3
  <2> QED BY <2>2, <2>3
<1> HIDE DEF Value
<1>4. s \in [Keys -> Int]
  BY <1>2, <1>3
<1> QED BY <1>1, <1>4 DEF Averages

(* What feedback makes of one entry: a quality within its bounds, no lower    *)
(* than the synthetic one.                                                   *)
MovedLittle(x, n) ==
  /\ n \in Entry /\ SameKey(x, n) /\ n.samples = x.samples
  /\ n.quality >= x.quality - MaxAdjustment /\ n.quality <= 100
  /\ n.quality <= x.quality + MaxAdjustment
     \/ \E s \in GenerateSynthetic : SameKey(s, n) /\ n.quality = s.quality
  /\ n.quality # x.quality =>
       \A s \in GenerateSynthetic : SameKey(s, n) => n.quality >= s.quality

Floor(x) ==
  LET floor == {s.quality : s \in {s \in GenerateSynthetic : SameKey(s, x)}}
  IN  IF floor = {} THEN 0 ELSE MinOf(floor)

LEMMA FloorIsSynthetic ==
  ASSUME NEW x \in Entry
  PROVE  /\ Floor(x) \in 0 .. 100
         /\ \A s \in GenerateSynthetic : SameKey(s, x) => Floor(x) = s.quality
         /\ Floor(x) # 0 => \E s \in GenerateSynthetic : SameKey(s, x)
<1> DEFINE floor == {s.quality : s \in {s \in GenerateSynthetic : SameKey(s, x)}}
<1>1. CASE \E s \in GenerateSynthetic : SameKey(s, x)
  <2>1. PICK s \in GenerateSynthetic : SameKey(s, x)
    BY <1>1
  <2>2. \A o \in GenerateSynthetic : SameKey(o, x) => o = s
    BY <2>1, OneSynthetic DEF SameKey
  <2>3. s.quality \in 0 .. 100
    BY SyntheticIsTyped DEF Entry
  <2>4. floor = {s.quality}
    BY <2>1, <2>2
  <2>5. MinOf({s.quality}) = s.quality
    BY <2>3 DEF MinOf
  <2>6. Floor(x) = s.quality
    BY <2>4, <2>5 DEF Floor
  <2> QED BY <2>1, <2>2, <2>3, <2>6
<1>2. CASE ~\E s \in GenerateSynthetic : SameKey(s, x)
  <2>1. floor = {}
    BY <1>2
  <2>2. Floor(x) = 0
    BY <2>1 DEF Floor
  <2> QED BY <1>2, <2>2
<1> QED BY <1>1, <1>2

Adjusted(x, d) ==
  [x EXCEPT !.quality =
     IF MaxTwo(x.quality + Clamp(d), Floor(x)) > 100 THEN 100
     ELSE MaxTwo(x.quality + Clamp(d), Floor(x))]

LEMMA AdjustedWithin ==
  ASSUME NEW x \in Entry, NEW d \in Int
  PROVE  MovedLittle(x, Adjusted(x, d))
<1>1. PICK c : c = Clamp(d)
  OBVIOUS
<1>2. PICK f : f = Floor(x)
  OBVIOUS
<1>3. PICK q : q = IF MaxTwo(x.quality + c, f) > 100 THEN 100 ELSE MaxTwo(x.quality + c, f)
  OBVIOUS
<1>4. /\ c \in Int /\ c <= MaxAdjustment /\ c >= -MaxAdjustment
      /\ f \in 0 .. 100 /\ MaxAdjustment \in Nat /\ x.quality \in 0 .. 100
  BY <1>1, <1>2, ClampBounds, FloorIsSynthetic, FeedbackAssumption DEF Entry
<1>5. /\ q \in 0 .. 100 /\ q >= x.quality - MaxAdjustment /\ q >= f
      /\ (q <= x.quality + MaxAdjustment \/ (q = f /\ f # 0))
  <2>1. PICK k : k = x.quality
    OBVIOUS
  <2>2. PICK m : m = MaxTwo(k + c, f)
    OBVIOUS
  <2>3. /\ k \in Int /\ 0 <= k /\ k <= 100 /\ f \in Int /\ 0 <= f /\ f <= 100
        /\ MaxAdjustment \in Int /\ 0 <= MaxAdjustment
    BY <1>4, <2>1
  <2>4. (m = k + c /\ f <= k + c) \/ (m = f /\ k + c < f)
    BY <1>4, <2>2, <2>3 DEF MaxTwo
  <2>5. q = IF m > 100 THEN 100 ELSE m
    BY <1>3, <2>1, <2>2, Zenon
  <2> HIDE <1>3, <2>1, <2>2
  <2>6. /\ q \in Int /\ 0 <= q /\ q <= 100 /\ q >= k - MaxAdjustment /\ q >= f
        /\ (q <= k + MaxAdjustment \/ (q = f /\ f # 0))
    <3>1. c \in Int /\ c <= MaxAdjustment /\ 0 - MaxAdjustment <= c
      BY <1>4, <2>3
    <3>2. m \in Int /\ m >= f /\ m >= k + c
      BY <2>3, <2>4, <3>1
    <3>3. CASE m > 100
      BY <2>3, <2>4, <2>5, <3>1, <3>2, <3>3
    <3>4. CASE m <= 100
      <4>1. q = m
        BY <2>5, <3>2, <3>4
      <4>2. CASE m = k + c
        BY <2>3, <3>1, <3>2, <3>4, <4>1, <4>2
      <4>3. CASE m = f
        BY <2>3, <3>1, <3>2, <3>4, <4>1, <4>3
      <4> QED BY <2>4, <4>2, <4>3
    <3> QED BY <3>2, <3>3, <3>4
  <2> QED BY <2>1, <2>6
<1>6. PICK n : n = Adjusted(x, d)
  OBVIOUS
<1>7. n = [x EXCEPT !.quality = q]
  BY <1>1, <1>2, <1>3, <1>6, Zenon DEF Adjusted
<1>8. n \in Entry /\ SameKey(x, n) /\ n.samples = x.samples /\ n.quality = q
  BY <1>5, <1>7 DEF Entry, SameKey
<1> HIDE <1>1, <1>3, <1>6, <1>7
<1>9. \A s \in GenerateSynthetic : SameKey(s, n) => f = s.quality /\ n.quality >= s.quality
  BY <1>2, <1>5, <1>8, FloorIsSynthetic DEF SameKey
<1>10. f # 0 => \E s \in GenerateSynthetic : SameKey(s, n)
  BY <1>2, <1>8, FloorIsSynthetic DEF SameKey
<1>11. n.quality <= x.quality + MaxAdjustment
       \/ \E s \in GenerateSynthetic : SameKey(s, n) /\ n.quality = s.quality
  BY <1>5, <1>8, <1>9, <1>10
<1>12. MovedLittle(x, n)
  BY <1>5, <1>8, <1>9, <1>11 DEF MovedLittle
<1> QED BY <1>6, <1>12

LEMMA UnheardWithin ==
  ASSUME NEW x \in Entry
  PROVE  MovedLittle(x, x)
  BY FeedbackAssumption DEF MovedLittle, Entry, SameKey

LEMMA FeedbackWithin ==
  ASSUME NEW entries \in SUBSET Entry, NEW feedback \in Feedbacks, NEW e \in Averages
  PROVE  /\ \A x \in entries : \E n \in ApplyFeedback(entries, feedback, e) : MovedLittle(x, n)
         /\ \A n \in ApplyFeedback(entries, feedback, e) : \E x \in entries : MovedLittle(x, n)
<1> DEFINE New(x) == IF ~\E f \in Heard(feedback) : SameKey(f, x) THEN x
                     ELSE Adjusted(x, e[<<x.model, x.task>>])
<1>1. ApplyFeedback(entries, feedback, e) = {New(x) : x \in entries}
  BY Zenon DEF ApplyFeedback, Adjusted, Floor
<1>2. ASSUME NEW x \in entries
      PROVE  MovedLittle(x, New(x))
  <2>1. x \in Entry
    OBVIOUS
  <2>2. <<x.model, x.task>> \in Keys
    BY <2>1 DEF Entry, Keys
  <2>3. e[<<x.model, x.task>>] \in Int
    BY <2>2 DEF Averages
  <2> QED BY <2>1, <2>3, AdjustedWithin, UnheardWithin
<1> HIDE DEF New
<1> QED BY <1>1, <1>2

-----------------------------------------------------------------------------
(* The loop. What is measured in the cache has a row in the database, and in  *)
(* what a refresh has read of it: the cache cannot learn in between.         *)
MatrixInv ==
  /\ matrix \subseteq Measurements
  /\ cache \in Caches
  /\ Covers(matrix, cache.entries)
  /\ refresher \in [pc : {"waiting", "read", "absent"}, rows : SUBSET Measurements]
  /\ Covers(matrix, refresher.rows)
  /\ refresher.pc = "read" => Covers(refresher.rows, cache.entries)
  /\ ema \in Averages
PolicyInv ==
  /\ policy \in Policies /\ posting \in {NoPolicy} \cup UserPolicies
  /\ tiers \in TierConfigs
WorkerInv ==
  /\ worker = [pc |-> worker.pc, item |-> worker.item]
  /\ worker.pc \in {"idle", "busy", "draining", "closed", "aborted"}
  /\ benchQueue \in Seq(Tasks) /\ Len(benchQueue) <= QueueCapacity
LoopInv == MatrixInv /\ PolicyInv /\ WorkerInv

(* What a step may do to the policy, to what was measured and to qualities.   *)
KeepsPolicy == policy.version > 0 /\ policy' # policy => posting # NoPolicy
KeepsMeasured ==
  \A e \in cache.entries : e.samples > 0 =>
    \E n \in cache'.entries : SameKey(n, e) /\ n.samples > 0
BoundsFeedback ==
  refresher.pc = "read" /\ refresher'.pc = "waiting" /\ cache' # cache =>
    \A m \in MergeFitness(GenerateSynthetic, refresher.rows) :
      \E n \in cache'.entries : MovedLittle(m, n)
KeepsKnowledge == KeepsPolicy /\ KeepsMeasured /\ BoundsFeedback

LEMMA VersionTyped ==
  ASSUME NEW p \in Policies
  PROVE  p.version \in Int
BY FeedbackAssumption DEF Policies, NoPolicy, BootstrapPolicy

LEMMA DefaultTyped ==
  ASSUME PolicyInv, NEW c
  PROVE  DefaultPolicy(c) \in Policies
<1>1. PICK b \in BOOLEAN : b = (c.entries # {})
  OBVIOUS
<1>2. DefaultPolicy(c) = BootstrapPolicy(tiers, b)
  BY <1>1, Zenon DEF DefaultPolicy
<1>3. tiers \in TierConfigs
  BY DEF PolicyInv
<1> HIDE <1>1
<1> QED BY <1>2, <1>3 DEF Policies

LEMMA UpdateTyped ==
  ASSUME NEW entries \in SUBSET Entry
  PROVE  Update(entries) \in Caches /\ Update(entries).entries = entries
BY DEF Update, Caches

LEMMA MeasuredRows ==
  ASSUME NEW rows \in SUBSET Measurements
  PROVE  rows \subseteq Entry /\ \A r \in rows : r.samples > 0 /\ r.samples \in Nat
BY FeedbackAssumption DEF Entry

(* A step that leaves the cache and the policy alone keeps what is known.    *)
LEMMA IdleKeeps ==
  ASSUME cache' = cache, policy' = policy, LoopInv
  PROVE  KeepsKnowledge
BY DEF KeepsKnowledge, KeepsPolicy, KeepsMeasured, BoundsFeedback, SameKey, LoopInv,
       MatrixInv, Caches

LEMMA ReadStep ==
  ASSUME LoopInv, Read \/ Fail
  PROVE  LoopInv' /\ KeepsKnowledge
<1>1. UNCHANGED <<matrix, cache, policy, tiers, ema, posting, worker, benchQueue>>
  BY DEF Read, Fail, RefreshRead, RefreshFails, admin, work
<1>2. CASE Read
  <2>1. refresher' = [pc |-> "read", rows |-> matrix]
    BY <1>2 DEF Read, RefreshRead
  <2>2. Covers(matrix, matrix)
    BY DEF Covers, SameKey
  <2>3. MatrixInv'
    BY <1>1, <2>1, <2>2 DEF LoopInv, MatrixInv
  <2> QED BY <1>1, <2>3, IdleKeeps DEF LoopInv, PolicyInv, WorkerInv
<1>3. CASE Fail
  <2>1. refresher' = [pc |-> "waiting", rows |-> {}]
    BY <1>3 DEF Fail, RefreshFails
  <2>2. MatrixInv'
    BY <1>1, <2>1 DEF LoopInv, MatrixInv, Covers
  <2> QED BY <1>1, <2>2, IdleKeeps DEF LoopInv, PolicyInv, WorkerInv
<1> QED BY <1>2, <1>3

LEMMA InstallStep ==
  ASSUME LoopInv, NEW feedback \in Feedbacks, Install(feedback)
  PROVE  LoopInv' /\ KeepsKnowledge
<1>1. PICK rows : rows = refresher.rows
  OBVIOUS
<1>2. PICK merged : merged = MergeFitness(GenerateSynthetic, rows)
  OBVIOUS
<1>3. PICK smoothed : smoothed = Smoothed(ema, feedback)
  OBVIOUS
<1>4. PICK entries : entries = ApplyFeedback(merged, feedback, smoothed)
  OBVIOUS
<1>5. /\ refresher.pc = "read" /\ cache' = Update(entries) /\ ema' = smoothed
      /\ policy' = IF Regenerates THEN DefaultPolicy(cache') ELSE policy
      /\ refresher' = [pc |-> "waiting", rows |-> {}]
      /\ UNCHANGED <<matrix, tiers, posting, worker, benchQueue>>
  BY <1>1, <1>2, <1>3, <1>4, Zenon DEF Install, RefreshUpdate, admin, work
<1>6. /\ rows \in SUBSET Measurements /\ Covers(matrix, rows)
      /\ Covers(rows, cache.entries)
  BY <1>1, <1>5 DEF LoopInv, MatrixInv
<1>7. rows \subseteq Entry /\ \A r \in rows : r.samples > 0 /\ r.samples \in Nat
  BY <1>6, MeasuredRows
<1>8. /\ merged \subseteq Entry /\ Covers(rows, merged)
      /\ \A r \in rows : r.samples > 0 =>
           \E e \in merged : SameKey(e, r) /\ e.samples > 0
  BY <1>2, <1>7, MergedIsTyped
<1>9. smoothed \in Averages
  BY <1>3, SmoothedIsTyped DEF LoopInv, MatrixInv
<1>10. /\ \A x \in merged : \E n \in entries : MovedLittle(x, n)
       /\ \A n \in entries : \E x \in merged : MovedLittle(x, n)
  BY <1>4, <1>8, <1>9, FeedbackWithin
<1> HIDE <1>1, <1>2, <1>3, <1>4
<1>11. entries \subseteq Entry
  BY <1>10 DEF MovedLittle
<1>12. cache' \in Caches /\ cache'.entries = entries
  BY <1>5, <1>11, UpdateTyped
<1>13. Covers(rows, entries)
  BY <1>8, <1>10 DEF Covers, MovedLittle, SameKey
<1>14. Covers(matrix, entries)
  BY <1>6, <1>7, <1>13 DEF Covers, SameKey
<1>15. MatrixInv'
  <2>1. Covers(matrix, {})
    BY DEF Covers
  <2>2. matrix' \subseteq Measurements
    BY <1>5 DEF LoopInv, MatrixInv
  <2> QED BY <1>5, <1>9, <1>12, <1>14, <2>1, <2>2 DEF MatrixInv
<1>16. PolicyInv' /\ KeepsPolicy
  <2>1. CASE Regenerates
    <3>1. policy' \in Policies
      BY <1>5, <2>1, DefaultTyped DEF LoopInv
    <3> QED BY <1>5, <2>1, <3>1 DEF LoopInv, PolicyInv, KeepsPolicy, Regenerates
  <2>2. CASE ~Regenerates
    BY <1>5, <2>2 DEF LoopInv, PolicyInv, KeepsPolicy
  <2> QED BY <2>1, <2>2
<1>17. KeepsMeasured
  <2> SUFFICES ASSUME NEW e \in cache.entries, e.samples > 0
               PROVE  \E n \in entries : SameKey(n, e) /\ n.samples > 0
    BY <1>12 DEF KeepsMeasured
  <2>1. PICK r \in rows : SameKey(r, e)
    BY <1>6 DEF Covers
  <2>2. PICK x \in merged : SameKey(x, r) /\ x.samples > 0
    BY <1>7, <1>8
  <2>3. PICK n \in entries : MovedLittle(x, n)
    BY <1>10
  <2> QED BY <2>1, <2>2, <2>3 DEF MovedLittle, SameKey
<1>18. BoundsFeedback
  BY <1>1, <1>2, <1>10, <1>12 DEF BoundsFeedback
<1> QED BY <1>5, <1>15, <1>16, <1>17, <1>18 DEF LoopInv, WorkerInv, KeepsKnowledge

(* The operators: new tiers rebuild the matrix from what was measured.       *)
LEMMA TiersStep ==
  ASSUME LoopInv, NEW new \in TierConfigs, SetTiers(new)
  PROVE  LoopInv' /\ KeepsKnowledge
<1>1. PICK told : told = Measured(cache)
  OBVIOUS
<1>2. PICK entries : entries = MergeFitness(GenerateSynthetic, told)
  OBVIOUS
<1>3. /\ cache' = Update(entries) /\ tiers' = new
      /\ UNCHANGED <<matrix, refresher, policy, ema, posting, worker, benchQueue>>
  BY <1>1, <1>2, Zenon DEF SetTiers, UpdateTierConfig, admin, work
<1>4. /\ told \subseteq Entry /\ told \subseteq cache.entries
      /\ \A e \in cache.entries : e.samples > 0 => e \in told
  BY <1>1 DEF Measured, LoopInv, MatrixInv, Caches
<1>5. /\ entries \subseteq Entry /\ Covers(told, entries)
      /\ \A r \in told : r.samples > 0 =>
           \E e \in entries : SameKey(e, r) /\ e.samples > 0
  BY <1>2, <1>4, MergedIsTyped
<1> HIDE <1>1, <1>2
<1>6. cache' \in Caches /\ cache'.entries = entries
  BY <1>3, <1>5, UpdateTyped
<1>7. \A e \in told : e.samples > 0
  BY <1>1 DEF Measured
<1>8. ASSUME NEW rows, Covers(rows, cache.entries)
      PROVE  Covers(rows, entries)
  BY <1>4, <1>5, <1>7, <1>8 DEF Covers, SameKey
<1>9. MatrixInv'
  BY <1>3, <1>6, <1>8 DEF LoopInv, MatrixInv
<1>10. KeepsMeasured
  BY <1>4, <1>5, <1>6 DEF KeepsMeasured
<1>11. PolicyInv' /\ KeepsPolicy /\ BoundsFeedback
  BY <1>3 DEF LoopInv, PolicyInv, KeepsPolicy, BoundsFeedback
<1> QED BY <1>3, <1>9, <1>10, <1>11 DEF LoopInv, WorkerInv, KeepsKnowledge

LEMMA PolicyStep ==
  ASSUME LoopInv, (\E new \in UserPolicies : PostPolicy(new)) \/ InstallPolicy
  PROVE  LoopInv' /\ KeepsKnowledge
<1>1. UNCHANGED <<matrix, cache, refresher, tiers, ema, worker, benchQueue>>
  BY DEF PostPolicy, InstallPolicy, cacheVars, work
<1>2. /\ policy' = policy \/ (posting # NoPolicy /\ policy' = posting)
      /\ posting' \in {NoPolicy} \cup UserPolicies
  BY DEF PostPolicy, InstallPolicy, cacheVars
<1>3. MatrixInv' /\ WorkerInv'
  BY <1>1 DEF LoopInv, MatrixInv, WorkerInv
<1>4. PolicyInv'
  BY <1>1, <1>2 DEF LoopInv, PolicyInv, Policies
<1>5. KeepsPolicy /\ KeepsMeasured /\ BoundsFeedback
  BY <1>1, <1>2 DEF KeepsPolicy, KeepsMeasured, BoundsFeedback, SameKey
<1> QED BY <1>3, <1>4, <1>5 DEF LoopInv, KeepsKnowledge

LEMMA ToggleStep ==
  ASSUME LoopInv, Toggle
  PROVE  LoopInv' /\ KeepsKnowledge
<1>1. UNCHANGED <<matrix, refresher, tiers, ema, posting, worker, benchQueue>>
  BY DEF Toggle, work
<1>2. CASE enabled
  <2>1. UNCHANGED <<cache, policy>>
    BY <1>2 DEF Toggle
  <2> QED BY <1>1, <2>1, IdleKeeps DEF LoopInv, MatrixInv, PolicyInv, WorkerInv
<1>3. CASE ~enabled
  <2>1. PICK synthetic : synthetic = GenerateSynthetic
    OBVIOUS
  <2>2. /\ cache' = IF cache.entries = {} THEN Update(synthetic) ELSE cache
        /\ policy' = IF SystemPolicy THEN DefaultPolicy(cache') ELSE policy
    BY <1>3, <2>1 DEF Toggle
  <2>3. synthetic \subseteq Entry /\ \A s \in synthetic : s.samples = 0
    BY <2>1, SyntheticIsTyped
  <2> HIDE <2>1
  <2>4. Update(synthetic) \in Caches /\ Update(synthetic).entries = synthetic
    BY <2>3, UpdateTyped
  <2>5. ASSUME NEW rows PROVE Covers(rows, synthetic)
    BY <2>3 DEF Covers
  <2>6. /\ cache' \in Caches /\ KeepsMeasured
        /\ \A rows : Covers(rows, cache.entries) => Covers(rows, cache'.entries)
    <3>1. CASE cache.entries = {}
      BY <2>2, <2>4, <2>5, <3>1 DEF KeepsMeasured
    <3>2. CASE cache.entries # {}
      BY <2>2, <3>2 DEF LoopInv, MatrixInv, KeepsMeasured, SameKey
    <3> QED BY <3>1, <3>2
  <2>7. MatrixInv'
    BY <1>1, <2>6 DEF LoopInv, MatrixInv
  <2>8. policy' \in Policies /\ KeepsPolicy
    <3>1. CASE SystemPolicy
      <4>1. policy' \in Policies
        BY <2>2, <3>1, DefaultTyped DEF LoopInv
      <4>2. policy.version \in Int
        BY VersionTyped DEF LoopInv, PolicyInv
      <4> QED BY <3>1, <4>1, <4>2 DEF SystemPolicy, KeepsPolicy
    <3>2. CASE ~SystemPolicy
      BY <2>2, <3>2 DEF LoopInv, PolicyInv, KeepsPolicy
    <3> QED BY <3>1, <3>2
  <2>9. BoundsFeedback
    BY <1>1 DEF BoundsFeedback
  <2> QED BY <1>1, <2>6, <2>7, <2>8, <2>9 DEF LoopInv, PolicyInv, WorkerInv, KeepsKnowledge
<1> QED BY <1>2, <1>3

(* The benchmark worker.                                                     *)
LEMMA WorkerTyped ==
  ASSUME LoopInv
  PROVE  /\ AfterItem = [pc |-> AfterItem.pc, item |-> AfterItem.item]
         /\ AfterItem.pc \in {"idle", "draining"}
BY DEF AfterItem

LEMMA WrittenStep ==
  ASSUME LoopInv, NEW row \in Measurements, ItemWritten(row)
  PROVE  LoopInv' /\ KeepsKnowledge
<1>1. /\ matrix' = NewRows(row) /\ worker' = AfterItem
      /\ cache' = cache \/ cache' = [cache EXCEPT !.stale = TRUE]
      /\ UNCHANGED <<refresher, policy, tiers, ema, posting, benchQueue>>
  BY DEF ItemWritten, Benchmarked, admin
<1>2. /\ cache' \in Caches /\ cache'.entries = cache.entries
  BY <1>1 DEF LoopInv, MatrixInv, Caches
<1>3. /\ matrix' \subseteq Measurements
      /\ \A r \in matrix : \E n \in matrix' : SameKey(n, r)
  BY <1>1 DEF NewRows, LoopInv, MatrixInv, SameKey
<1>4. \A S : Covers(matrix, S) => Covers(matrix', S)
  BY <1>3 DEF Covers, SameKey
<1>5. MatrixInv'
  BY <1>1, <1>2, <1>3, <1>4 DEF LoopInv, MatrixInv
<1>6. PolicyInv' /\ WorkerInv'
  BY <1>1, WorkerTyped DEF LoopInv, PolicyInv, WorkerInv
<1>7. KeepsKnowledge
  BY <1>1, <1>2 DEF KeepsKnowledge, KeepsPolicy, KeepsMeasured, BoundsFeedback, SameKey
<1> QED BY <1>5, <1>6, <1>7 DEF LoopInv

LEMMA UnwrittenStep ==
  ASSUME LoopInv, ItemUnwritten \/ ItemFails
  PROVE  LoopInv' /\ KeepsKnowledge
<1>1. /\ worker' = AfterItem
      /\ cache' = cache \/ cache' = [cache EXCEPT !.stale = TRUE]
      /\ UNCHANGED <<matrix, refresher, policy, tiers, ema, posting, benchQueue>>
  BY DEF ItemUnwritten, ItemFails, admin, cacheVars
<1>2. /\ cache' \in Caches /\ cache'.entries = cache.entries
  BY <1>1 DEF LoopInv, MatrixInv, Caches
<1>3. MatrixInv'
  BY <1>1, <1>2 DEF LoopInv, MatrixInv
<1>4. PolicyInv' /\ WorkerInv'
  BY <1>1, WorkerTyped DEF LoopInv, PolicyInv, WorkerInv
<1>5. KeepsKnowledge
  BY <1>1, <1>2 DEF KeepsKnowledge, KeepsPolicy, KeepsMeasured, BoundsFeedback, SameKey
<1> QED BY <1>3, <1>4, <1>5 DEF LoopInv

LEMMA QueueStep ==
  ASSUME LoopInv,
         TakeItem \/ WorkerCloses \/ Cancel
           \/ \E task \in {m.task : m \in Measurements} : Sample(task)
  PROVE  LoopInv' /\ KeepsKnowledge
<1>1. UNCHANGED <<matrix, cache, refresher, policy, tiers, ema, posting>>
  BY DEF TakeItem, WorkerCloses, Cancel, Sample, cacheVars, admin
<1>2. WorkerInv'
  <2>1. CASE TakeItem
    <3>1. /\ benchQueue # <<>> /\ benchQueue' = Tail(benchQueue)
          /\ \E pc \in {"busy", "draining"} : worker' = [pc |-> pc, item |-> Head(benchQueue)]
      BY <2>1 DEF TakeItem
    <3>2. benchQueue' \in Seq(Tasks) /\ Len(benchQueue') <= QueueCapacity
      BY <3>1, QueueAssumption DEF LoopInv, WorkerInv
    <3> QED BY <3>1, <3>2 DEF WorkerInv
  <2>2. CASE WorkerCloses \/ Cancel
    <3>1. /\ benchQueue' = benchQueue
          /\ worker' = [pc |-> worker'.pc, item |-> worker'.item]
          /\ worker'.pc \in {"closed", "aborted", "draining"}
      BY <2>2 DEF WorkerCloses, Cancel, LoopInv, WorkerInv
    <3> QED BY <3>1 DEF LoopInv, WorkerInv
  <2>3. CASE \E task \in {m.task : m \in Measurements} : Sample(task)
    <3>1. PICK m \in Measurements : Sample(m.task)
      BY <2>3
    <3>2. m.task \in Tasks
      BY FeedbackAssumption DEF Entry
    <3>3. /\ Len(benchQueue) < QueueCapacity /\ worker' = worker
          /\ benchQueue' = Append(benchQueue, m.task)
      BY <3>1 DEF Sample
    <3>4. benchQueue' \in Seq(Tasks) /\ Len(benchQueue') <= QueueCapacity
      BY <3>2, <3>3, QueueAssumption DEF LoopInv, WorkerInv
    <3> QED BY <3>3, <3>4 DEF LoopInv, WorkerInv
  <2> QED BY <2>1, <2>2, <2>3
<1>3. MatrixInv' /\ PolicyInv'
  BY <1>1 DEF LoopInv, MatrixInv, PolicyInv
<1> QED BY <1>1, <1>2, <1>3, IdleKeeps DEF LoopInv

LEMMA ShutdownStep ==
  ASSUME LoopInv, Shutdown
  PROVE  LoopInv' /\ KeepsKnowledge
<1>1. /\ refresher' = [pc |-> "absent", rows |-> {}]
      /\ UNCHANGED <<matrix, cache, policy, tiers, ema, posting, worker, benchQueue>>
  BY DEF Shutdown, admin
<1>2. MatrixInv'
  BY <1>1 DEF LoopInv, MatrixInv, Covers
<1> QED BY <1>1, <1>2, IdleKeeps DEF LoopInv, PolicyInv, WorkerInv

LEMMA LoopStarts == Init => LoopInv
<1> SUFFICES ASSUME Init PROVE LoopInv
  OBVIOUS
<1>1. /\ matrix \subseteq Measurements
      /\ refresher = [pc |-> IF started THEN "waiting" ELSE "absent", rows |-> {}]
      /\ tiers \in TierConfigs /\ posting = NoPolicy
      /\ benchQueue = <<>> /\ worker = [pc |-> "idle", item |-> "none"]
      /\ started \in BOOLEAN
  BY DEF Init
<1>2. PICK merged : merged = MergeFitness(GenerateSynthetic, matrix)
  OBVIOUS
<1>3. PICK synthetic : synthetic = GenerateSynthetic
  OBVIOUS
<1>4. cache \in {NoCache, Update(synthetic), Update(merged)}
  BY <1>2, <1>3 DEF Init
<1>5. merged \subseteq Entry /\ Covers(matrix, merged)
  <2>1. matrix \subseteq Entry
    BY <1>1, FeedbackAssumption
  <2> QED BY <1>2, <2>1, MergedIsTyped
<1>6. synthetic \subseteq Entry /\ \A s \in synthetic : s.samples = 0
  BY <1>3, SyntheticIsTyped
<1> HIDE <1>2, <1>3
<1>7. cache \in Caches /\ Covers(matrix, cache.entries)
  <2>1. CASE cache = NoCache
    BY <2>1 DEF NoCache, Caches, Covers
  <2>2. CASE cache = Update(synthetic)
    BY <1>6, <2>2, UpdateTyped DEF Covers
  <2>3. CASE cache = Update(merged)
    BY <1>5, <2>3, UpdateTyped
  <2> QED BY <1>4, <2>1, <2>2, <2>3
<1>8. ema \in Averages
  BY DEF Init, Averages, Keys
<1>9. MatrixInv
  BY <1>1, <1>7, <1>8 DEF MatrixInv, Covers
<1>10. policy \in Policies
  <2>1. CASE started
    <3>1. PICK b \in BOOLEAN : b = (cache.entries # {})
      OBVIOUS
    <3>2. policy \in UserPolicies \/ policy = BootstrapPolicy(tiers, b)
      BY <2>1, <3>1 DEF Init, DefaultPolicy
    <3> QED BY <1>1, <3>2 DEF Policies
  <2>2. CASE ~started
    BY <2>2 DEF Init, Policies
  <2> QED BY <2>1, <2>2
<1>11. PolicyInv /\ WorkerInv
  BY <1>1, <1>10, QueueAssumption DEF PolicyInv, WorkerInv
<1> QED BY <1>9, <1>11 DEF LoopInv

LEMMA LoopStep ==
  ASSUME LoopInv, [Next]_loopVars
  PROVE  LoopInv' /\ KeepsKnowledge
<1>1. CASE Next
  BY <1>1, ReadStep, InstallStep, TiersStep, PolicyStep, ToggleStep, WrittenStep,
     UnwrittenStep, QueueStep, ShutdownStep DEF Next, Refresh, Operate, Work
<1>2. CASE UNCHANGED loopVars
  <2>1. UNCHANGED <<matrix, cache, refresher, policy, tiers, ema, posting, worker, benchQueue>>
    BY <1>2 DEF loopVars, cacheVars, admin, work
  <2> QED BY <2>1, IdleKeeps DEF LoopInv, MatrixInv, PolicyInv, WorkerInv
<1> QED BY <1>1, <1>2

(* The end of the worker. It closes over an empty queue once nothing is       *)
(* sampled any more, and is cancelled once.                                  *)
EndInv ==
  /\ lost \in {0, 1} /\ (life # "cancelled" => lost = 0)
  /\ worker.pc = "closed" => life # "serving" /\ benchQueue = <<>> /\ worker.item = "none"

LEMMA EndStep ==
  ASSUME EndInv, [Next]_loopVars
  PROVE  EndInv'
<1>1. CASE UNCHANGED work
  BY <1>1 DEF work, EndInv
<1>2. CASE ItemUnwritten \/ ItemFails \/ \E row \in Measurements : ItemWritten(row)
  <2>1. worker' = AfterItem /\ UNCHANGED <<life, lost>>
    BY <1>2 DEF ItemUnwritten, ItemFails, ItemWritten
  <2> QED BY <2>1 DEF EndInv, AfterItem
<1>3. CASE TakeItem
  <2>1. worker'.pc \in {"busy", "draining"} /\ UNCHANGED <<life, lost>>
    BY <1>3 DEF TakeItem
  <2> QED BY <2>1 DEF EndInv
<1>4. CASE WorkerCloses
  <2>1. /\ life # "serving" /\ worker.item = "none" /\ benchQueue = <<>>
        /\ worker' = [worker EXCEPT !.pc = "closed"] /\ UNCHANGED <<benchQueue, life, lost>>
    BY <1>4 DEF WorkerCloses
  <2>2. worker'.item = worker.item
    BY <2>1
  <2> QED BY <2>1, <2>2 DEF EndInv
<1>5. CASE \E task \in {m.task : m \in Measurements} : Sample(task)
  <2>1. life = "serving" /\ UNCHANGED <<worker, life, lost>>
    BY <1>5 DEF Sample
  <2> QED BY <2>1 DEF EndInv
<1>6. CASE Shutdown
  <2>1. life = "serving" /\ life' = "stopping" /\ UNCHANGED <<worker, benchQueue, lost>>
    BY <1>6 DEF Shutdown
  <2> QED BY <2>1 DEF EndInv
<1>7. CASE Cancel
  <2>1. /\ life = "stopping" /\ life' = "cancelled" /\ worker'.pc \in {"aborted", "draining"}
        /\ lost' \in {lost, lost + 1}
    BY <1>7 DEF Cancel
  <2> QED BY <2>1 DEF EndInv
<1>8. CASE Refresh \/ Operate \/ UNCHANGED loopVars
  BY <1>1, <1>8 DEF Refresh, Operate, Read, Install, Fail, SetTiers, PostPolicy,
                    InstallPolicy, Toggle, loopVars
<1> QED BY <1>2, <1>3, <1>4, <1>5, <1>6, <1>7, <1>8 DEF Next, Work

(* What was measured and what an operator decided are kept, and feedback      *)
(* moves qualities within its bounds, for any catalogue, rows and feedback.   *)
THEOREM KnowledgeIsKept == Spec => KnowledgeKept
<1>0. /\ Init => EndInv
      /\ EndInv /\ [Next]_loopVars => EndInv'
      /\ EndInv => CancelLosesOneItem
  BY EndStep DEF Init, EndInv, CancelLosesOneItem
<1>1. LoopInv => TypeOK
  <2> SUFFICES ASSUME LoopInv PROVE TypeOK
    OBVIOUS
  <2>1. cache.entries \subseteq Entry /\ matrix \subseteq Entry
    BY FeedbackAssumption DEF LoopInv, MatrixInv, Caches
  <2>2. policy \in Policies
    BY DEF LoopInv, PolicyInv
  <2>3. /\ worker.pc \in {"idle", "busy", "draining", "closed", "aborted"}
        /\ Len(benchQueue) <= QueueCapacity
    BY DEF LoopInv, WorkerInv
  <2> QED BY <2>1, <2>2, <2>3 DEF TypeOK
<1>2. LoopInv /\ [Next]_loopVars => LoopInv'
  BY LoopStep
<1>3. LoopInv /\ [Next]_loopVars =>
        [policy.version > 0 /\ policy' # policy => posting # NoPolicy]_loopVars
  BY LoopStep DEF KeepsKnowledge, KeepsPolicy
<1>4. LoopInv /\ [Next]_loopVars =>
        [\A e \in cache.entries : e.samples > 0 =>
           \E n \in cache'.entries : SameKey(n, e) /\ n.samples > 0]_loopVars
  BY LoopStep DEF KeepsKnowledge, KeepsMeasured
<1>5. LoopInv /\ [Next]_loopVars =>
        [refresher.pc = "read" /\ refresher'.pc = "waiting" /\ cache' # cache =>
           LET merged == MergeFitness(GenerateSynthetic, refresher.rows) IN
           \A m \in merged : \E n \in cache'.entries :
             /\ SameKey(m, n)
             /\ n.quality >= m.quality - MaxAdjustment /\ n.quality <= 100
             /\ n.quality <= m.quality + MaxAdjustment
                \/ \E s \in GenerateSynthetic : SameKey(s, n) /\ n.quality = s.quality
             /\ n.quality # m.quality =>
                  \A s \in GenerateSynthetic : SameKey(s, n) => n.quality >= s.quality]_loopVars
  BY LoopStep, Zenon DEF KeepsKnowledge, BoundsFeedback, MovedLittle
<1> QED BY <1>0, <1>1, <1>2, <1>3, <1>4, <1>5, LoopStarts, PTL
     DEF Spec, KnowledgeKept, UserPolicyKept, MeasuredStaysMeasured, FeedbackBounded

-----------------------------------------------------------------------------

(* Validation tasks. Medians: some score is the k-th, and the median lies    *)
(* within whatever bounds all scores.                                        *)
LEMMA GreatestOf ==
  ASSUME NEW S \in SUBSET Nat, IsFiniteSet(S), S # {}
  PROVE  \E x \in S : \A y \in S : y <= x
<1> DEFINE F == {T \in SUBSET S : T # {} => \E x \in T : \A y \in T : y <= x}
<1>1. {} \in F
  OBVIOUS
<1>2. ASSUME NEW T \in SUBSET S, NEW z \in S \ T, T \in F
      PROVE  T \cup {z} \in F
  <2>1. z \in Nat /\ T \subseteq Nat
    OBVIOUS
  <2>2. CASE T = {}
    BY <2>1, <2>2
  <2>3. CASE T # {}
    <3>1. PICK x \in T : \A y \in T : y <= x
      BY <1>2, <2>3
    <3>2. CASE z <= x
      BY <2>1, <3>1, <3>2
    <3>3. CASE ~(z <= x)
      <4>1. \A y \in T \cup {z} : y <= z
        BY <2>1, <3>1, <3>3
      <4> QED BY <4>1
    <3> QED BY <3>2, <3>3
  <2> QED BY <2>2, <2>3
<1>3. S \in F
  <2> HIDE DEF F
  <2> QED BY <1>1, <1>2, FiniteSetSetInduction
<1> QED BY <1>3

(* What a function has as values on a finite set is finite and no more.      *)
LEMMA ValuesFinite ==
  ASSUME NEW I, IsFiniteSet(I), NEW f
  PROVE  /\ IsFiniteSet({f[i] : i \in I})
         /\ Cardinality({f[i] : i \in I}) <= Cardinality(I)
<1> DEFINE V == {f[i] : i \in I}
           h == [i \in I |-> f[i]]
<1>1. h \in Surjection(I, V)
  BY DEF Surjection
<1> QED BY <1>1, FS_Surjection

ScoresOf(s, I) == {s[i].score : i \in I}
UpTo(s, I, x) == {i \in I : s[i].score <= x}
LEMMA RankedIs ==
  ASSUME NEW s, NEW I, IsFiniteSet(I), \A i \in I : s[i].score \in Nat,
         NEW k \in 1 .. Cardinality(I)
  PROVE  \E i \in I : Ranked(s, I, k) = s[i].score
<1>1. PICK S : S = ScoresOf(s, I)
  OBVIOUS
<1>2. S \in SUBSET Nat /\ \A i \in I : s[i].score \in S
  BY <1>1 DEF ScoresOf
<1>3. IsFiniteSet(S)
  <2>1. PICK f : f = [i \in I |-> s[i].score]
    OBVIOUS
  <2>2. S = {f[i] : i \in I}
    BY <1>1, <2>1 DEF ScoresOf
  <2> QED BY <2>2, ValuesFinite
<1>4. Cardinality(I) \in Nat /\ I # {}
  BY FS_CardinalityType, FS_EmptySet
<1>5. S # {}
  BY <1>2, <1>4
<1>6. PICK m \in S : \A y \in S : y <= m
  BY <1>2, <1>3, <1>5, GreatestOf
<1>7. UpTo(s, I, m) = I
  BY <1>2, <1>6 DEF UpTo
<1> DEFINE T == {x \in S : Cardinality(UpTo(s, I, x)) >= k}
<1>8. m \in T /\ T \in SUBSET Nat
  <2>1. Cardinality(UpTo(s, I, m)) >= k
    BY <1>4, <1>7
  <2> QED BY <1>2, <2>1
<1>9. PICK x \in T : \A y \in T : x <= y
  BY <1>8, LeastNumber
<1>10. PICK r : r = Ranked(s, I, k)
  OBVIOUS
<1>11. r = CHOOSE z \in S : /\ Cardinality(UpTo(s, I, z)) >= k
                            /\ \A y \in S : Cardinality(UpTo(s, I, y)) >= k => z <= y
  BY <1>1, <1>10, Zenon DEF Ranked, ScoresOf, UpTo
<1>12. /\ x \in S /\ Cardinality(UpTo(s, I, x)) >= k
       /\ \A y \in S : Cardinality(UpTo(s, I, y)) >= k => x <= y
  BY <1>9
<1>13. r \in S
  <2> HIDE DEF T
  <2> QED BY <1>11, <1>12, Zenon
<1> QED BY <1>1, <1>10, <1>13 DEF ScoresOf

LEMMA MedianBetween ==
  ASSUME NEW s, NEW I, IsFiniteSet(I), I # {}, \A i \in I : s[i].score \in Nat,
         NEW lo \in Int, NEW hi \in Int, \A i \in I : lo <= s[i].score /\ s[i].score <= hi
  PROVE  MedianOf(s, I) \in Nat /\ lo <= MedianOf(s, I) /\ MedianOf(s, I) <= hi
<1>1. PICK n \in Nat : n = Cardinality(I) /\ n # 0
  BY FS_CardinalityType, FS_EmptySet
<1>2. PICK j \in 1 .. n : j = (n + 1) \div 2
  BY <1>1
<1>3. PICK k \in 1 .. n : k = n \div 2 + 1
  BY <1>1
<1>4. PICK x \in Nat : x = Ranked(s, I, j) /\ lo <= x /\ x <= hi
  BY <1>1, RankedIs
<1>5. PICK y \in Nat : y = Ranked(s, I, k) /\ lo <= y /\ y <= hi
  BY <1>1, RankedIs
<1>6. MedianOf(s, I) = (x + y) \div 2
  BY <1>1, <1>2, <1>3, <1>4, <1>5 DEF MedianOf
<1>7. (x + y) \div 2 \in Nat /\ lo <= (x + y) \div 2 /\ (x + y) \div 2 <= hi
  BY <1>4, <1>5
<1> QED BY <1>6, <1>7

(* A sum in which some terms gain the same.                                  *)
LEMMA SumGains ==
  ASSUME NEW S, IsFiniteSet(S), NEW T \in SUBSET S, NEW c \in Nat,
         NEW f, NEW g,
         \A x \in S : f[x] \in Int /\ g[x] = f[x] + IF x \in T THEN c ELSE 0
  PROVE  /\ SumFunctionOnSet(f, S) \in Int
         /\ SumFunctionOnSet(g, S) = SumFunctionOnSet(f, S) + c * Cardinality(T)
<1>0. \A U \in SUBSET S : IsFiniteSet(U) /\ Cardinality(T \cap U) \in Nat /\ IsFiniteSet(T \cap U)
  BY FS_Subset, FS_CardinalityType
<1>1. \A x \in S : f[x] \in Int /\ g[x] \in Int
  OBVIOUS
<1> DEFINE Gain(U) == c * Cardinality(T \cap U)
           F == {U \in SUBSET S : /\ SumFunctionOnSet(f, U) \in Int
                                  /\ SumFunctionOnSet(g, U) = SumFunctionOnSet(f, U) + Gain(U)}
<1>2. {} \in F
  <2>1. T \cap {} = {} /\ Cardinality({}) = 0 /\ c * 0 = 0
    BY FS_EmptySet
  <2> QED BY <2>1, SumEmpty
<1>3. ASSUME NEW U \in SUBSET S, NEW x \in S \ U, U \in F
      PROVE  U \cup {x} \in F
  <2>1. PICK a \in Int : a = SumFunctionOnSet(f, U)
    BY <1>3
  <2>2. PICK n \in Nat : n = Cardinality(T \cap U)
    BY <1>0
  <2>3. PICK w \in Nat : w = c * n
    OBVIOUS
  <2>4. SumFunctionOnSet(g, U) = a + w
    BY <1>3, <2>1, <2>2, <2>3
  <2>5. PICK fx \in Int : fx = f[x]
    BY <1>1
  <2>6. SumFunctionOnSet(f, U \cup {x}) = fx + a
    BY <1>0, <1>1, <2>1, <2>5, SumAdd
  <2>7. SumFunctionOnSet(g, U \cup {x}) = g[x] + (a + w)
    BY <1>0, <1>1, <2>4, SumAdd
  <2>8. CASE x \in T
    <3>1. T \cap (U \cup {x}) = (T \cap U) \cup {x} /\ x \notin T \cap U
      BY <2>8
    <3>2. Cardinality(T \cap (U \cup {x})) = n + 1
      BY <1>0, <2>2, <3>1, FS_AddElement
    <3>3. c * (n + 1) = w + c
      BY <2>3
    <3>4. g[x] = fx + c
      BY <2>5, <2>8
    <3>5. SumFunctionOnSet(g, U \cup {x}) = (fx + a) + (w + c)
      BY <2>7, <3>4
    <3>6. Gain(U \cup {x}) = w + c
      BY <3>2, <3>3
    <3>7. (fx + a) + (w + c) = SumFunctionOnSet(f, U \cup {x}) + Gain(U \cup {x})
      BY <2>6, <3>6
    <3>8. SumFunctionOnSet(f, U \cup {x}) \in Int
      BY <2>6
    <3> HIDE DEF Gain
    <3> QED BY <3>5, <3>7, <3>8
  <2>9. CASE x \notin T
    <3>1. T \cap (U \cup {x}) = T \cap U
      BY <2>9
    <3>2. g[x] = fx
      BY <2>5, <2>9
    <3>3. SumFunctionOnSet(g, U \cup {x}) = (fx + a) + w
      BY <2>7, <3>2
    <3>4. Gain(U \cup {x}) = w
      BY <2>2, <2>3, <3>1
    <3>5. (fx + a) + w = SumFunctionOnSet(f, U \cup {x}) + Gain(U \cup {x})
      BY <2>6, <3>4
    <3>6. SumFunctionOnSet(f, U \cup {x}) \in Int
      BY <2>6
    <3> HIDE DEF Gain
    <3> QED BY <3>3, <3>5, <3>6
  <2> QED BY <2>8, <2>9
<1>4. S \in F
  <2> HIDE DEF F
  <2> QED BY <1>2, <1>3, FiniteSetSetInduction
<1>5. T \cap S = T
  OBVIOUS
<1> QED BY <1>4, <1>5

(* Entries of the registry, and what rewards and slashes do to one.          *)
ValidatorInfos == [stake : Nat, active : BOOLEAN, rewards : Nat, slashes : Nat, done : Nat]
SoundEntry(a, e) ==
  e \in ValidatorInfos /\ (e.active <=> e.stake >= MinStake) /\ e.stake + e.slashes = Deposit[a]

LEMMA NewEntry ==
  ASSUME NEW a \in Members, Deposit[a] >= MinStake
  PROVE  SoundEntry(a, NewInfo(a)) /\ NewInfo(a).rewards = 0
<1>1. PICK d \in Nat : d = Deposit[a]
  BY StakeAssumption
<1>2. MinStake \in Nat
  BY StakeAssumption
<1> QED BY <1>1, <1>2 DEF SoundEntry, NewInfo, ValidatorInfos

LEMMA RewardEntry ==
  ASSUME NEW a, NEW e, SoundEntry(a, e), NEW r \in Nat
  PROVE  /\ SoundEntry(a, Reward(e, r)) /\ Reward(e, r).rewards = e.rewards + r
         /\ Reward(e, r).slashes = e.slashes /\ Reward(e, r).stake = e.stake
<1>1. e \in ValidatorInfos
  BY DEF SoundEntry
<1>2. PICK w \in Nat : w = e.rewards + r
  BY <1>1 DEF ValidatorInfos
<1>3. PICK d \in Nat : d = e.done + 1
  BY <1>1 DEF ValidatorInfos
<1>4. PICK x : x = [e EXCEPT !.rewards = w, !.done = d]
  OBVIOUS
<1>5. x = Reward(e, r)
  BY <1>2, <1>3, <1>4 DEF Reward
<1>6. /\ x \in ValidatorInfos /\ x.rewards = w /\ x.slashes = e.slashes
      /\ x.stake = e.stake /\ x.active = e.active
  BY <1>1, <1>4 DEF ValidatorInfos
<1> HIDE <1>4
<1>7. SoundEntry(a, x)
  BY <1>6 DEF SoundEntry
<1> QED BY <1>2, <1>5, <1>6, <1>7

LEMMA CutEntry ==
  ASSUME NEW a, NEW e, SoundEntry(a, e), NEW p \in Nat
  PROVE  /\ SoundEntry(a, [Cut(e, p) EXCEPT !.done = @ + 1])
         /\ [Cut(e, p) EXCEPT !.done = @ + 1].rewards = e.rewards
<1>1. e \in ValidatorInfos /\ (e.active <=> e.stake >= MinStake) /\ e.stake + e.slashes = Deposit[a]
  BY DEF SoundEntry
<1>2. e.stake \in Nat /\ e.slashes \in Nat /\ e.active \in BOOLEAN /\ MinStake \in Nat
  BY <1>1, StakeAssumption DEF ValidatorInfos
<1>3. PICK t \in Nat : t = (IF p < e.stake THEN p ELSE e.stake) /\ t <= e.stake
  BY <1>2
<1>4. PICK b \in BOOLEAN : b = (e.active /\ e.stake - t >= MinStake)
  OBVIOUS
<1>5. PICK left \in Nat : left = e.stake - t
  BY <1>2, <1>3
<1>6. PICK forfeited \in Nat : forfeited = e.slashes + t
  BY <1>2, <1>3
<1>7. PICK x : x = [e EXCEPT !.stake = left, !.slashes = forfeited, !.active = b]
  OBVIOUS
<1>8. x = Cut(e, p)
  BY <1>3, <1>4, <1>5, <1>6, <1>7 DEF Cut
<1>9. /\ x \in ValidatorInfos /\ x.stake = left /\ x.slashes = forfeited /\ x.active = b
      /\ x.rewards = e.rewards
  BY <1>1, <1>7 DEF ValidatorInfos
<1> HIDE <1>7
<1>10. PICK d \in Nat : d = x.done + 1
  BY <1>9 DEF ValidatorInfos
<1>11. PICK y : y = [x EXCEPT !.done = d]
  OBVIOUS
<1>12. y = [Cut(e, p) EXCEPT !.done = @ + 1]
  BY <1>8, <1>10, <1>11
<1>13. /\ y \in ValidatorInfos /\ y.stake = left /\ y.slashes = forfeited /\ y.active = b
       /\ y.rewards = e.rewards
  BY <1>9, <1>11 DEF ValidatorInfos
<1> HIDE <1>11
<1>14. b <=> left >= MinStake
  <2>1. left <= e.stake
    BY <1>2, <1>3, <1>5
  <2>2. left >= MinStake => e.active
    BY <1>1, <1>2, <2>1
  <2> QED BY <1>4, <1>5, <2>2
<1>15. left + forfeited = Deposit[a]
  BY <1>1, <1>2, <1>3, <1>5, <1>6
<1>16. SoundEntry(a, y)
  BY <1>13, <1>14, <1>15 DEF SoundEntry
<1> QED BY <1>12, <1>13, <1>16

LEMMA PenaltyNat ==
  ASSUME NEW a, NEW e, SoundEntry(a, e)
  PROVE  Penalty(e) \in Nat
<1>1. PICK x \in Nat : x = e.stake
  BY DEF SoundEntry, ValidatorInfos
<1>2. PICK y \in Nat : y = SlashPercent
  BY StakeAssumption
<1>3. PICK z \in Nat : z = x * y
  OBVIOUS
<1> QED BY <1>1, <1>2, <1>3 DEF Penalty

(* One settlement.                                                           *)
Submittable == [who : Members \cup Strangers, score : Scores]
RegisteredInv == Registered \subseteq Members /\ \A a \in Registered : SoundEntry(a, validators[a])
PaidOf(s, c) ==
  {i \in Near(s, c) : \A j \in Near(s, c) : j <= i => s[j].who \in Registered}
Winners(s, c) == {s[i].who : i \in PaidOf(s, c)}
ShareOf(s, c) == EqualShare(Near(s, c))

LEMMA NearFinite ==
  ASSUME NEW s \in Seq(Submittable), NEW c
  PROVE  /\ IsFiniteSet(Near(s, c)) /\ Cardinality(Near(s, c)) \in Nat
         /\ Near(s, c) \subseteq 1 .. Len(s)
<1>1. PICK n \in Nat : n = Len(s) /\ DOMAIN s = 1 .. n
  OBVIOUS
<1>2. IsFiniteSet(1 .. n)
  BY FS_Interval
<1>3. Near(s, c) \subseteq 1 .. n
  BY <1>1 DEF Near
<1> QED BY <1>1, <1>2, <1>3, FS_Subset, FS_CardinalityType

LEMMA SharesWithin ==
  ASSUME NEW s \in Seq(Submittable), NEW c
  PROVE  \E r \in Nat : /\ Winners(s, c) # {} => r = ShareOf(s, c)
                        /\ Winners(s, c) \in SUBSET Registered
                        /\ IsFiniteSet(Winners(s, c)) /\ Cardinality(Winners(s, c)) \in Nat
                        /\ r * Cardinality(Winners(s, c)) <= RewardPerTask
<1>1. PICK near : near = Near(s, c)
  OBVIOUS
<1>2. PICK paid : paid = PaidOf(s, c)
  OBVIOUS
<1>3. PICK won : won = Winners(s, c)
  OBVIOUS
<1>4. PICK n \in Nat : n = Cardinality(near)
  BY <1>1, NearFinite
<1>5. paid \subseteq near /\ IsFiniteSet(paid) /\ Cardinality(paid) <= n /\ Cardinality(paid) \in Nat
  BY <1>1, <1>2, <1>4, NearFinite, FS_Subset, FS_CardinalityType DEF PaidOf
<1>6. won \in SUBSET Registered
  <2>1. \A i \in paid : s[i].who \in Registered
    <3>1. near \subseteq Nat
      BY <1>1, NearFinite
    <3> QED BY <1>1, <1>2, <3>1 DEF PaidOf
  <2> QED BY <1>2, <1>3, <2>1 DEF Winners
<1>7. IsFiniteSet(won) /\ Cardinality(won) <= n /\ Cardinality(won) \in Nat
  <2>1. PICK f : f = [i \in paid |-> s[i].who]
    OBVIOUS
  <2>2. won = {f[i] : i \in paid}
    BY <1>2, <1>3, <2>1 DEF Winners
  <2>3. IsFiniteSet(won) /\ Cardinality(won) <= Cardinality(paid)
    BY <1>5, <2>2, ValuesFinite
  <2>4. Cardinality(won) \in Nat
    BY <2>3, FS_CardinalityType
  <2> QED BY <1>5, <2>3, <2>4
<1>8. PICK R \in Nat : R = RewardPerTask
  BY TaskAssumption
<1>9. CASE won = {}
  <2>1. Cardinality(won) = 0 /\ 0 * 0 <= R
    BY <1>8, <1>9, FS_EmptySet
  <2> QED BY <1>3, <1>6, <1>7, <1>8, <1>9, <2>1
<1>10. CASE won # {}
  <2>1. Cardinality(won) # 0
    BY <1>7, <1>10, FS_EmptySet
  <2>2. n # 0
    BY <1>7, <2>1
  <2>3. PICK r \in Nat : r = R \div n /\ n * r <= R
    BY <1>4, <1>8, <2>2
  <2>4. r * Cardinality(won) <= r * n
    BY <1>7
  <2>5. r * Cardinality(won) <= R
    BY <1>7, <2>3, <2>4
  <2>6. r = ShareOf(s, c)
    BY <1>1, <1>4, <1>8, <2>3 DEF ShareOf, EqualShare
  <2> QED BY <1>3, <1>6, <1>7, <1>8, <2>5, <2>6
<1> QED BY <1>9, <1>10

LEMMA SettleEffect ==
  ASSUME RegisteredInv, NEW s \in Seq(Submittable), NEW c, NEW r \in Nat,
         Winners(s, c) # {} => r = ShareOf(s, c)
  PROVE  \E v : /\ v = SettleTask(s, c) /\ DOMAIN v = Registered
                /\ \A a \in Registered :
                     /\ SoundEntry(a, v[a])
                     /\ v[a].rewards = validators[a].rewards + IF a \in Winners(s, c) THEN r ELSE 0
                     /\ v[a].slashes > validators[a].slashes =>
                          PaidOf(s, c) = Near(s, c) /\ a \in Outliers(s, c)
<1>1. PICK W : W = Winners(s, c)
  OBVIOUS
<1>2. PICK m : m = [a \in Registered |->
                      IF a \in W THEN Reward(validators[a], ShareOf(s, c)) ELSE validators[a]]
  OBVIOUS
<1>3. \A a \in Registered : /\ SoundEntry(a, m[a]) /\ m[a].slashes = validators[a].slashes
                            /\ m[a].rewards = validators[a].rewards + IF a \in W THEN r ELSE 0
  <2> SUFFICES ASSUME NEW a \in Registered
               PROVE  /\ SoundEntry(a, m[a]) /\ m[a].slashes = validators[a].slashes
                      /\ m[a].rewards = validators[a].rewards + IF a \in W THEN r ELSE 0
    OBVIOUS
  <2>1. SoundEntry(a, validators[a]) /\ validators[a].rewards \in Nat
    BY DEF RegisteredInv, SoundEntry, ValidatorInfos
  <2>2. CASE a \in W
    <3>1. m[a] = Reward(validators[a], r)
      BY <1>1, <1>2, <2>2
    <3>2. m[a].rewards = validators[a].rewards + r
      BY <2>1, <3>1, RewardEntry
    <3> QED BY ZenonT(40), <2>1, <2>2, <3>1, <3>2, RewardEntry
  <2>3. CASE a \notin W
    <3>1. m[a] = validators[a]
      BY <1>2, <2>3
    <3> QED BY <2>1, <2>3, <3>1
  <2> QED BY <2>2, <2>3
<1>4. DOMAIN m = Registered
  BY <1>2
<1>5. PICK out : out = Outliers(s, c)
  OBVIOUS
<1>6. PICK whole : whole = [a \in Registered |->
        IF a \in out /\ Penalty(m[a]) > 0
        THEN [Cut(m[a], Penalty(m[a])) EXCEPT !.done = @ + 1] ELSE m[a]]
  OBVIOUS
<1>7. SettleTask(s, c) = IF PaidOf(s, c) = Near(s, c) THEN whole ELSE m
  BY <1>1, <1>2, <1>5, <1>6, Zenon DEF SettleTask, PaidOf, Winners, ShareOf
<1> HIDE <1>2
<1>8. CASE PaidOf(s, c) = Near(s, c)
  <2>1. \A a \in Registered :
          /\ SoundEntry(a, whole[a]) /\ whole[a].rewards = m[a].rewards
          /\ a \notin out => whole[a].slashes = m[a].slashes
    <3> SUFFICES ASSUME NEW a \in Registered
                 PROVE  /\ SoundEntry(a, whole[a]) /\ whole[a].rewards = m[a].rewards
                        /\ a \notin out => whole[a].slashes = m[a].slashes
      OBVIOUS
    <3>1. SoundEntry(a, m[a]) /\ Penalty(m[a]) \in Nat
      BY <1>3, PenaltyNat
    <3>2. CASE a \in out /\ Penalty(m[a]) > 0
      <4>1. whole[a] = [Cut(m[a], Penalty(m[a])) EXCEPT !.done = @ + 1]
        BY <1>6, <3>2
      <4> HIDE <1>6
      <4> QED BY <3>1, <3>2, <4>1, CutEntry
    <3>3. CASE ~(a \in out /\ Penalty(m[a]) > 0)
      <4>1. whole[a] = m[a]
        BY <1>6, <3>3
      <4> QED BY <3>1, <4>1
    <3> QED BY <3>2, <3>3
  <2>2. DOMAIN whole = Registered /\ whole = SettleTask(s, c)
    BY <1>6, <1>7, <1>8
  <2> HIDE <1>6, <1>7
  <2>3. \A a \in Registered : ~(m[a].slashes > validators[a].slashes)
    <3>1. \A a \in Registered : validators[a].slashes \in Nat
      BY DEF RegisteredInv, SoundEntry, ValidatorInfos
    <3> QED BY <1>3, <3>1
  <2> QED BY <1>1, <1>3, <1>5, <1>8, <2>1, <2>2, <2>3
<1>9. CASE PaidOf(s, c) # Near(s, c)
  <2>1. m = SettleTask(s, c)
    BY <1>7, <1>9
  <2>2. \A a \in Registered : ~(m[a].slashes > validators[a].slashes)
    <3>1. \A a \in Registered : validators[a].slashes \in Nat
      BY DEF RegisteredInv, SoundEntry, ValidatorInfos
    <3> QED BY <1>3, <3>1
  <2> HIDE <1>6, <1>7
  <2> QED BY <1>1, <1>3, <1>4, <2>1, <2>2
<1> QED BY <1>8, <1>9

(* Why a slashed validator is not among those that agreed.                   *)
LEMMA OutlierApart ==
  ASSUME NEW s \in Seq(Submittable), CheckConsensus(s).reached,
         NEW a \in Outliers(s, CheckConsensus(s).agreed),
         \A i, j \in DOMAIN s : s[i].who = s[j].who => i = j
  PROVE  \E S \in SUBSET DOMAIN s :
           /\ Cardinality(S) >= Needed
           /\ \A i, j \in S : Within(s[i].score, s[j].score, 2 * Tolerance)
           /\ \A i \in S : s[i].who # a
<1>1. PICK m : m = MedianOf(s, DOMAIN s)
  OBVIOUS
<1>2. PICK near : near = Near(s, m)
  OBVIOUS
<1>3. PICK c : c = CheckConsensus(s).agreed
  OBVIOUS
<1>4. ~(Len(s) < Threshold) /\ ~(Cardinality(near) < Threshold) /\ c = MedianOf(s, near)
  BY <1>1, <1>2, <1>3 DEF CheckConsensus
<1>5. PICK T \in Nat : T = Threshold /\ T > 0
  BY TaskAssumption
<1>6. PICK n \in Nat : n = Len(s) /\ DOMAIN s = 1 .. n /\ n >= T
  BY <1>4, <1>5
<1>7. \A i \in DOMAIN s : s[i].score \in Nat
  <2> SUFFICES ASSUME NEW i \in DOMAIN s PROVE s[i].score \in Nat
    OBVIOUS
  <2>1. s[i] \in Submittable
    OBVIOUS
  <2> QED BY <2>1, ScoreAssumption DEF Submittable
<1>8. m \in Nat
  <2>1. IsFiniteSet(DOMAIN s) /\ DOMAIN s # {}
    <3>1. 1 \in 1 .. n
      BY <1>5, <1>6
    <3>2. IsFiniteSet(1 .. n)
      BY FS_Interval
    <3> QED BY <1>6, <3>1, <3>2
  <2>2. PICK S : S = ScoresOf(s, DOMAIN s)
    OBVIOUS
  <2>3. IsFiniteSet(S) /\ S \in SUBSET Nat /\ S # {}
    <3>1. PICK f : f = [i \in DOMAIN s |-> s[i].score]
      OBVIOUS
    <3>2. S = {f[i] : i \in DOMAIN s}
      BY <2>2, <3>1 DEF ScoresOf
    <3>3. IsFiniteSet(S)
      BY <2>1, <3>2, ValuesFinite
    <3> QED BY <1>7, <2>1, <2>2, <3>3 DEF ScoresOf
  <2>4. PICK hi \in S : \A y \in S : y <= hi
    BY <2>3, GreatestOf
  <2>5. \A i \in DOMAIN s : 0 <= s[i].score /\ s[i].score <= hi
    BY <1>7, <2>2, <2>4 DEF ScoresOf
  <2>6. hi \in Int /\ 0 \in Int
    BY <2>3
  <2> QED BY <1>1, <1>7, <2>1, <2>5, <2>6, MedianBetween
<1>9. Tolerance \in Nat /\ SlashTolerance \in Nat
  BY ToleranceAssumption
<1>10. PICK lo \in Int : lo = m - Tolerance
  BY <1>8, <1>9
<1>11. PICK hi \in Int : hi = m + Tolerance
  BY <1>8, <1>9
<1>12. near \subseteq DOMAIN s /\ \A i \in near : lo <= s[i].score /\ s[i].score <= hi
  BY <1>2, <1>7, <1>8, <1>9, <1>10, <1>11 DEF Near, Within
<1>13. IsFiniteSet(near) /\ Cardinality(near) \in Nat
  BY <1>2, NearFinite
<1>14. near # {}
  BY <1>4, <1>5, <1>13, FS_EmptySet
<1>15. c \in Nat /\ lo <= c /\ c <= hi
  BY <1>4, <1>7, <1>12, <1>13, <1>14, MedianBetween
<1>16. PICK k \in DOMAIN s : s[k].who = a /\ ~Within(s[k].score, c, SlashTolerance)
  BY <1>3 DEF Outliers
<1>17. \A i, j \in near : Within(s[i].score, s[j].score, 2 * Tolerance)
  BY <1>7, <1>8, <1>9, <1>10, <1>11, <1>12 DEF Within
<1>18. CASE 2 * Tolerance <= SlashTolerance
  <2>1. k \notin near
    <3>1. s[k].score \in Nat
      BY <1>7
    <3> QED BY <1>8, <1>9, <1>10, <1>11, <1>12, <1>15, <1>16, <1>18, <3>1 DEF Within
  <2>2. \A i \in near : s[i].who # a
    BY <1>12, <1>16, <2>1
  <2>3. Cardinality(near) >= Needed
    BY <1>4, <1>5, <1>13, <1>18 DEF Needed
  <2> QED BY <1>12, <1>17, <2>2, <2>3
<1>19. CASE ~(2 * Tolerance <= SlashTolerance)
  <2>1. PICK S : S = near \ {k}
    OBVIOUS
  <2>2. \A i \in S : s[i].who # a
    BY <1>12, <1>16, <2>1
  <2>3. Cardinality(S) >= Cardinality(near) - 1
    <3>1. Cardinality(S) = IF k \in near THEN Cardinality(near) - 1 ELSE Cardinality(near)
      BY <1>13, <2>1, FS_RemoveElement
    <3> QED BY <1>13, <3>1
  <2>4. Cardinality(S) >= Needed
    <3>1. IsFiniteSet(S)
      BY <1>13, <2>1, FS_Subset
    <3>2. Cardinality(S) \in Nat
      BY <3>1, FS_CardinalityType
    <3> QED BY <1>4, <1>5, <1>13, <1>19, <2>3, <3>2 DEF Needed
  <2> QED BY <1>12, <1>17, <2>1, <2>2, <2>4
<1> QED BY <1>18, <1>19

(* The inductive invariant: registered members with sound entries, one       *)
(* submission for each address, and what was paid again within its bound.    *)
SubmissionsInv ==
  /\ submissions \in Seq(Submittable)
  /\ \A i, j \in DOMAIN submissions : submissions[i].who = submissions[j].who => i = j
TasksInv == RegisteredInv /\ SubmissionsInv /\ RepeatedRewardsBounded
Settlements(n) == IF n - Threshold + 1 > 0 THEN n - Threshold + 1 ELSE 0
Unharmed ==
  /\ TotalRewards' <= TotalRewards + RewardPerTask
  /\ Slashed # {} =>
       \A i \in Near(submissions', CheckConsensus(submissions').agreed) :
         submissions'[i].who \in Registered
  /\ \A a \in Slashed :
       \E S \in SUBSET DOMAIN submissions' :
         /\ Cardinality(S) >= Needed
         /\ \A i, j \in S : Within(submissions'[i].score, submissions'[j].score, 2 * Tolerance)
         /\ \A i \in S : submissions'[i].who # a

LEMMA RewardsNat ==
  ASSUME RegisteredInv
  PROVE  /\ IsFiniteSet(Registered)
         /\ \A a \in Registered : Rewards[a] = validators[a].rewards /\ Rewards[a] \in Nat
<1>1. IsFiniteSet(Registered)
  BY TaskAssumption, FS_Subset DEF RegisteredInv
<1>2. \A a \in Registered : validators[a].rewards \in Nat
  BY DEF RegisteredInv, SoundEntry, ValidatorInfos
<1> QED BY <1>1, <1>2 DEF Rewards

(* One more submission makes room for one more reward, once it may settle.   *)
LEMMA BudgetGrows ==
  ASSUME NEW n \in Nat
  PROVE  /\ RewardPerTask * Settlements(n) \in Nat /\ RewardPerTask * Settlements(n + 1) \in Nat
         /\ RewardPerTask * Settlements(n) <= RewardPerTask * Settlements(n + 1)
         /\ n + 1 >= Threshold =>
              RewardPerTask * Settlements(n + 1) = RewardPerTask * Settlements(n) + RewardPerTask
<1>1. PICK R \in Nat : R = RewardPerTask
  BY TaskAssumption
<1>2. PICK T \in Nat : T = Threshold
  BY TaskAssumption
<1>3. PICK a \in Nat : a = Settlements(n)
  <2>1. PICK d \in Int : d = n - T + 1
    OBVIOUS
  <2>2. (IF d > 0 THEN d ELSE 0) \in Nat
    OBVIOUS
  <2>3. Settlements(n) = IF d > 0 THEN d ELSE 0
    BY <1>2, <2>1 DEF Settlements
  <2> QED BY <2>2, <2>3
<1>4. PICK x \in Nat : x = R * a
  OBVIOUS
<1>5. CASE n + 1 >= T
  <2>1. Settlements(n + 1) = a + 1
    BY <1>2, <1>3, <1>5 DEF Settlements
  <2>2. R * (a + 1) = x + R
    BY <1>4
  <2> QED BY <1>1, <1>3, <1>4, <2>1, <2>2
<1>6. CASE ~(n + 1 >= T)
  <2>1. Settlements(n + 1) = a
    BY <1>2, <1>3, <1>6 DEF Settlements
  <2> QED BY <1>1, <1>2, <1>3, <1>4, <1>6, <2>1
<1> QED BY <1>5, <1>6

LEMMA TasksStart ==
  ASSUME TasksInit
  PROVE  TasksInv
<1>1. /\ validators = [a \in {b \in Members : Deposit[b] >= MinStake} |-> NewInfo(a)]
      /\ submissions = <<>>
  BY DEF TasksInit, RegistryInit
<1>2. RegisteredInv
  BY <1>1, NewEntry DEF RegisteredInv, Registered
<1>3. SubmissionsInv
  BY <1>1 DEF SubmissionsInv
<1>4. RepeatedRewardsBounded
  <2>1. \A a \in Registered : Rewards[a] = 0
    BY <1>1, NewEntry DEF Registered, Rewards
  <2>2. SumFunctionOnSet(Rewards, Registered) = 0
    BY <1>2, <2>1, RewardsNat, SumZero
  <2>3. RewardPerTask * Settlements(0) \in Nat
    BY BudgetGrows
  <2>4. Len(submissions) = 0
    BY <1>1
  <2> QED BY <2>2, <2>3, <2>4 DEF RepeatedRewardsBounded, TotalRewards, Settlements
<1> QED BY <1>2, <1>3, <1>4 DEF TasksInv

(* Members come and go.                                                      *)
LEMMA TasksRegister ==
  ASSUME TasksInv, NEW a \in Members, Register(a), UNCHANGED submissions
  PROVE  TasksInv' /\ Unharmed
<1>1. RegisteredInv /\ SubmissionsInv /\ RepeatedRewardsBounded
  BY DEF TasksInv
<1>2. a \notin Registered /\ Deposit[a] >= MinStake
  BY DEF Register
<1>3. /\ Registered' = Registered \cup {a} /\ validators'[a] = NewInfo(a)
      /\ \A b \in Registered : validators'[b] = validators[b]
  BY <1>2 DEF Register, Registered
<1>4. RegisteredInv'
  BY <1>1, <1>2, <1>3, NewEntry DEF RegisteredInv
<1>5. SubmissionsInv'
  BY <1>1 DEF SubmissionsInv
<1>6. RepeatedRewardsBounded' /\ TotalRewards' <= TotalRewards + RewardPerTask
  <2>1. PICK f : f = Rewards
    OBVIOUS
  <2>2. PICK g : g = Rewards'
    OBVIOUS
  <2>3. IsFiniteSet(Registered) /\ \A b \in Registered : f[b] = validators[b].rewards /\ f[b] \in Nat
    BY <1>1, <2>1, RewardsNat
  <2>4. \A b \in Registered \cup {a} : g[b] = validators'[b].rewards
    BY <1>3, <2>2 DEF Rewards
  <2>5. g[a] = 0 /\ \A b \in Registered : g[b] = f[b]
    BY <1>2, <1>3, <2>3, <2>4, NewEntry
  <2>6. SumFunctionOnSet(g, Registered \cup {a}) = g[a] + SumFunctionOnSet(g, Registered)
    <3>1. \A b \in Registered \cup {a} : g[b] \in Int
      BY <2>3, <2>5
    <3> QED BY <1>2, <2>3, <3>1, SumAdd, Zenon
  <2>7. SumFunctionOnSet(g, Registered) = SumFunctionOnSet(f, Registered)
    BY <2>3, <2>5, SumAgrees
  <2>8. SumFunctionOnSet(f, Registered) \in Nat
    BY <2>3, SumNat
  <2>9. SumFunctionOnSet(Rewards', Registered') = SumFunctionOnSet(Rewards, Registered)
    BY <1>3, <2>1, <2>2, <2>5, <2>6, <2>7, <2>8
  <2>10. RewardPerTask \in Nat
    BY TaskAssumption
  <2> QED BY <1>1, <2>1, <2>8, <2>9, <2>10 DEF RepeatedRewardsBounded, TotalRewards
<1>7. Slashed = {}
  <2>1. \A b \in Registered : validators[b].slashes \in Nat
    BY <1>1 DEF RegisteredInv, SoundEntry, ValidatorInfos
  <2> QED BY <1>3, <2>1 DEF Slashed
<1> QED BY <1>4, <1>5, <1>6, <1>7 DEF TasksInv, Unharmed

LEMMA TasksDeregister ==
  ASSUME TasksInv, NEW a \in Members, Deregister(a), UNCHANGED submissions
  PROVE  TasksInv' /\ Unharmed
<1>1. RegisteredInv /\ SubmissionsInv /\ RepeatedRewardsBounded
  BY DEF TasksInv
<1>2. a \in Registered
  BY DEF Deregister
<1>3. /\ Registered' = Registered \ {a}
      /\ \A b \in Registered \ {a} : validators'[b] = validators[b]
  BY DEF Deregister, Registered
<1>4. RegisteredInv'
  BY <1>1, <1>3 DEF RegisteredInv
<1>5. SubmissionsInv'
  BY <1>1 DEF SubmissionsInv
<1>6. RepeatedRewardsBounded' /\ TotalRewards' <= TotalRewards + RewardPerTask
  <2>1. PICK f : f = Rewards
    OBVIOUS
  <2>2. PICK g : g = Rewards'
    OBVIOUS
  <2>3. IsFiniteSet(Registered) /\ \A b \in Registered : f[b] = validators[b].rewards /\ f[b] \in Nat
    BY <1>1, <2>1, RewardsNat
  <2>4. IsFiniteSet(Registered \ {a})
    BY <2>3, FS_Subset
  <2>5. \A b \in Registered \ {a} : f[b] \in Int /\ f[b] = g[b]
    BY <1>3, <2>2, <2>3 DEF Rewards
  <2>6. PICK y \in Nat : y = SumFunctionOnSet(f, Registered \ {a})
    BY <2>3, <2>4, SumNat
  <2>7. SumFunctionOnSet(f, Registered) = f[a] + y
    <3>1. \A b \in Registered : f[b] \in Int
      BY <2>3
    <3> QED BY <1>2, <2>3, <2>6, <3>1, SumSplit, Zenon
  <2>8. SumFunctionOnSet(g, Registered \ {a}) = y
    BY <2>4, <2>5, <2>6, SumAgrees
  <2>9. PICK z \in Nat : z = RewardPerTask * Settlements(Len(submissions))
    BY <1>1, BudgetGrows DEF SubmissionsInv
  <2>10. f[a] + y <= z
    BY <1>1, <2>1, <2>7, <2>9 DEF RepeatedRewardsBounded, TotalRewards, Settlements
  <2>11. y <= z
    BY <1>2, <2>3, <2>10
  <2>12. SumFunctionOnSet(Rewards', Registered') <= RewardPerTask * Settlements(Len(submissions'))
    BY <1>3, <2>2, <2>8, <2>9, <2>11
  <2>13. RewardPerTask \in Nat
    BY TaskAssumption
  <2>14. TotalRewards' <= TotalRewards + RewardPerTask
    BY <1>2, <1>3, <2>1, <2>2, <2>3, <2>6, <2>7, <2>8, <2>13 DEF TotalRewards
  <2> QED BY <2>12, <2>14 DEF RepeatedRewardsBounded, TotalRewards, Settlements
<1>7. Slashed = {}
  <2>1. \A b \in Registered : validators[b].slashes \in Nat
    BY <1>1 DEF RegisteredInv, SoundEntry, ValidatorInfos
  <2>2. DOMAIN validators' = Registered \ {a}
    BY <1>3 DEF Registered
  <2> QED BY <1>3, <2>1, <2>2 DEF Slashed
<1> QED BY <1>4, <1>5, <1>6, <1>7 DEF TasksInv, Unharmed

LEMMA TasksUnchanged ==
  ASSUME TasksInv, UNCHANGED <<validators, submissions>>
  PROVE  TasksInv' /\ Unharmed
<1>1. RegisteredInv /\ SubmissionsInv /\ RepeatedRewardsBounded
  BY DEF TasksInv
<1>2. RegisteredInv' /\ SubmissionsInv'
  BY <1>1 DEF RegisteredInv, SubmissionsInv, Registered
<1>3. Rewards' = Rewards /\ Registered' = Registered
  BY DEF Rewards, Registered
<1>4. RepeatedRewardsBounded' /\ TotalRewards' <= TotalRewards + RewardPerTask
  <2>1. TotalRewards \in Nat
    BY <1>1, RewardsNat, SumNat DEF TotalRewards
  <2>2. RewardPerTask \in Nat
    BY TaskAssumption
  <2> QED BY <1>1, <1>3, <2>1, <2>2 DEF RepeatedRewardsBounded, TotalRewards
<1>5. Slashed = {}
  <2>1. \A b \in Registered : validators[b].slashes \in Nat
    BY <1>1 DEF RegisteredInv, SoundEntry, ValidatorInfos
  <2> QED BY <2>1 DEF Slashed
<1> QED BY <1>2, <1>4, <1>5 DEF TasksInv, Unharmed

LEMMA TasksSubmit ==
  ASSUME TasksInv, NEW who \in Members \cup Strangers, NEW score \in Scores,
         SubmitValidation(who, score)
  PROVE  TasksInv' /\ Unharmed
<1>1. RegisteredInv /\ SubmissionsInv /\ RepeatedRewardsBounded /\ submissions \in Seq(Submittable)
  BY DEF TasksInv, SubmissionsInv
<1>2. PICK e : e = [who |-> who, score |-> score]
  OBVIOUS
<1>3. e \in Submittable /\ e.who = who
  BY <1>2 DEF Submittable
<1>4. PICK s : s = Append(submissions, e)
  OBVIOUS
<1>5. PICK n \in Nat : n = Len(submissions)
  BY <1>1
<1>6. /\ s \in Seq(Submittable) /\ Len(s) = n + 1 /\ DOMAIN s = 1 .. n + 1 /\ s[n + 1] = e
      /\ \A i \in 1 .. n : s[i] = submissions[i]
  BY <1>1, <1>3, <1>4, <1>5
<1>7. DOMAIN submissions = 1 .. n
  BY <1>1, <1>5
<1>8. /\ submissions' = s
      /\ validators' = IF CheckConsensus(s).reached
                       THEN SettleTask(s, CheckConsensus(s).agreed) ELSE validators
      /\ \A i \in 1 .. n : submissions[i].who # who
  BY <1>2, <1>4, <1>7 DEF SubmitValidation, MaySubmit
<1> HIDE <1>2, <1>4
<1>9. \A i, j \in DOMAIN s : s[i].who = s[j].who => i = j
  <2> SUFFICES ASSUME NEW i \in 1 .. n + 1, NEW j \in 1 .. n + 1, s[i].who = s[j].who
               PROVE  i = j
    BY <1>6
  <2>1. CASE i = n + 1 /\ j = n + 1
    BY <2>1
  <2>2. CASE i = n + 1 /\ j # n + 1
    BY <1>3, <1>6, <1>8, <2>2
  <2>3. CASE i # n + 1 /\ j = n + 1
    BY <1>3, <1>6, <1>8, <2>3
  <2>4. CASE i # n + 1 /\ j # n + 1
    <3>1. i \in 1 .. n /\ j \in 1 .. n
      BY <2>4
    <3> QED BY <1>1, <1>6, <1>7, <3>1 DEF SubmissionsInv
  <2> QED BY <2>1, <2>2, <2>3, <2>4
<1>10. SubmissionsInv'
  BY <1>6, <1>8, <1>9 DEF SubmissionsInv
<1>11. PICK f : f = Rewards
  OBVIOUS
<1>12. IsFiniteSet(Registered) /\ \A a \in Registered : f[a] = validators[a].rewards /\ f[a] \in Nat
  BY <1>1, <1>11, RewardsNat
<1>13. PICK t \in Nat : t = SumFunctionOnSet(f, Registered)
  BY <1>12, SumNat
<1>14. t <= RewardPerTask * Settlements(n)
  BY <1>1, <1>5, <1>11, <1>13 DEF RepeatedRewardsBounded, TotalRewards, Settlements
<1>15. CASE CheckConsensus(s).reached
  <2>1. PICK c : c = CheckConsensus(s).agreed
    OBVIOUS
  <2>2. n + 1 >= Threshold
    <3>1. ~(Len(s) < Threshold)
      BY <1>15 DEF CheckConsensus
    <3> QED BY <1>6, <3>1, TaskAssumption
  <2>3. PICK r \in Nat :
          /\ Winners(s, c) # {} => r = ShareOf(s, c)
          /\ Winners(s, c) \in SUBSET Registered
          /\ IsFiniteSet(Winners(s, c)) /\ Cardinality(Winners(s, c)) \in Nat
          /\ r * Cardinality(Winners(s, c)) <= RewardPerTask
    BY <1>6, SharesWithin
  <2>4. PICK v : /\ v = SettleTask(s, c) /\ DOMAIN v = Registered
                 /\ \A a \in Registered :
                      /\ SoundEntry(a, v[a])
                      /\ v[a].rewards =
                           validators[a].rewards + IF a \in Winners(s, c) THEN r ELSE 0
                      /\ v[a].slashes > validators[a].slashes =>
                           PaidOf(s, c) = Near(s, c) /\ a \in Outliers(s, c)
    BY <1>1, <1>6, <2>3, SettleEffect
  <2>5. validators' = v /\ Registered' = Registered
    BY <1>8, <1>15, <2>1, <2>4 DEF Registered
  <2>6. RegisteredInv'
    BY <1>1, <2>4, <2>5 DEF RegisteredInv
  <2>7. PICK g : g = Rewards'
    OBVIOUS
  <2>8. \A a \in Registered : f[a] \in Int /\ g[a] = f[a] + IF a \in Winners(s, c) THEN r ELSE 0
    BY <1>12, <2>4, <2>5, <2>7 DEF Rewards
  <2>9. SumFunctionOnSet(g, Registered) =
          SumFunctionOnSet(f, Registered) + r * Cardinality(Winners(s, c))
    <3>1. ASSUME NEW A, NEW W \in SUBSET A, IsFiniteSet(A),
                 \A a \in A : f[a] \in Int /\ g[a] = f[a] + IF a \in W THEN r ELSE 0
          PROVE  SumFunctionOnSet(g, A) = SumFunctionOnSet(f, A) + r * Cardinality(W)
      <4> HIDE <1>11, <2>7
      <4> QED BY <3>1, SumGains
    <3> QED BY <1>12, <2>3, <2>8, <3>1
  <2>10. PICK x \in Nat : x = r * Cardinality(Winners(s, c)) /\ x <= RewardPerTask
    BY <2>3
  <2>11. PICK y \in Nat : y = RewardPerTask * Settlements(n)
    BY BudgetGrows
  <2>12. PICK R \in Nat : R = RewardPerTask
    BY TaskAssumption
  <2>13. RewardPerTask * Settlements(n + 1) = y + R
    BY <2>2, <2>11, <2>12, BudgetGrows
  <2>14. SumFunctionOnSet(g, Registered) <= y + R
    BY <1>13, <1>14, <2>9, <2>10, <2>11, <2>12
  <2>19. TotalRewards' <= TotalRewards + RewardPerTask
    BY <1>11, <1>13, <2>5, <2>7, <2>9, <2>10, <2>12 DEF TotalRewards
  <2>15. RepeatedRewardsBounded'
    BY <1>6, <1>8, <2>5, <2>7, <2>13, <2>14 DEF RepeatedRewardsBounded, TotalRewards, Settlements
  <2>16. ASSUME NEW a \in Slashed
         PROVE  PaidOf(s, c) = Near(s, c) /\ a \in Outliers(s, c)
    BY <2>4, <2>5, <2>16 DEF Slashed
  <2>17. Slashed # {} => \A i \in Near(s, c) : s[i].who \in Registered
    <3> SUFFICES ASSUME PaidOf(s, c) = Near(s, c), NEW i \in Near(s, c)
                 PROVE  s[i].who \in Registered
      BY <2>16
    <3>1. i <= i
      BY <1>6, NearFinite
    <3> QED BY <3>1 DEF PaidOf
  <2>18. ASSUME NEW a \in Slashed
         PROVE  \E S \in SUBSET DOMAIN s :
                  /\ Cardinality(S) >= Needed
                  /\ \A i, j \in S : Within(s[i].score, s[j].score, 2 * Tolerance)
                  /\ \A i \in S : s[i].who # a
    BY <1>6, <1>9, <1>15, <2>1, <2>16, <2>18, OutlierApart
  <2> QED BY <1>8, <1>10, <2>1, <2>6, <2>15, <2>17, <2>18, <2>19 DEF TasksInv, Unharmed
<1>16. CASE ~CheckConsensus(s).reached
  <2>1. validators' = validators /\ Registered' = Registered /\ Rewards' = Rewards
    BY <1>8, <1>16 DEF Registered, Rewards
  <2>2. RegisteredInv'
    BY <1>1, <2>1 DEF RegisteredInv
  <2>3. PICK y \in Nat : y = RewardPerTask * Settlements(n)
    BY BudgetGrows
  <2>4. PICK z \in Nat : z = RewardPerTask * Settlements(n + 1) /\ y <= z
    BY <2>3, BudgetGrows
  <2>5. RepeatedRewardsBounded'
    BY <1>6, <1>8, <1>11, <1>13, <1>14, <2>1, <2>3, <2>4 DEF RepeatedRewardsBounded, TotalRewards, Settlements
  <2>6. Slashed = {}
    <3>1. \A b \in Registered : validators[b].slashes \in Nat
      BY <1>1 DEF RegisteredInv, SoundEntry, ValidatorInfos
    <3> QED BY <2>1, <3>1 DEF Slashed
  <2>7. RewardPerTask \in Nat
    BY TaskAssumption
  <2>8. TotalRewards' <= TotalRewards + RewardPerTask
    BY <1>11, <1>13, <2>1, <2>7 DEF TotalRewards
  <2> QED BY <1>10, <2>2, <2>5, <2>6, <2>8 DEF TasksInv, Unharmed
<1> QED BY <1>15, <1>16

LEMMA TasksStep ==
  ASSUME TasksInv, [TasksNext]_taskVars
  PROVE  TasksInv' /\ Unharmed
<1>1. CASE \E a \in Members : (Register(a) \/ Deregister(a)) /\ UNCHANGED <<assigned, submissions>>
  BY <1>1, TasksRegister, TasksDeregister
<1>2. CASE AssignValidators
  BY <1>2, TasksUnchanged DEF AssignValidators, registryVars
<1>3. CASE \E who \in Members \cup Strangers, score \in Scores : SubmitValidation(who, score)
  BY <1>3, TasksSubmit
<1>4. CASE UNCHANGED taskVars
  BY <1>4, TasksUnchanged DEF taskVars, registryVars
<1> QED BY <1>1, <1>2, <1>3, <1>4 DEF TasksNext

(* Theorem: a task is settled fairly, for any validators, stakes, scores and  *)
(* tolerances, whoever submits and however often: a settlement shares out one *)
(* reward at most, so that a task settled again and again pays one for each   *)
(* submission that can agree, a settlement that fails half way slashes nobody,*)
(* nobody loses stake unless enough others agree apart from it, and who may   *)
(* take part is who has the stake.                                            *)
THEOREM TasksAreSettledFairly == TasksInit /\ [][TasksNext]_taskVars => TasksSettleFairly
<1>1. TasksInit => TasksInv
  BY TasksStart
<1>2. TasksInv /\ [TasksNext]_taskVars => TasksInv' /\ Unharmed
  BY TasksStep
<1>3. TasksInv => ActiveIffStaked /\ RepeatedRewardsBounded
  BY DEF TasksInv, RegisteredInv, SoundEntry, ActiveIffStaked
<1>4. TasksInv /\ [TasksNext]_taskVars =>
        [Slashed # {} =>
           \A i \in Near(submissions', CheckConsensus(submissions').agreed) :
             submissions'[i].who \in Registered]_taskVars
  BY <1>2 DEF Unharmed
<1>5. TasksInv /\ [TasksNext]_taskVars =>
        [\A a \in Slashed :
           \E S \in SUBSET DOMAIN submissions' :
             /\ Cardinality(S) >= Needed
             /\ \A i, j \in S : Within(submissions'[i].score, submissions'[j].score, 2 * Tolerance)
             /\ \A i \in S : submissions'[i].who # a]_taskVars
  BY <1>2 DEF Unharmed
<1>6. TasksInv /\ [TasksNext]_taskVars => [TotalRewards' <= TotalRewards + RewardPerTask]_taskVars
  BY <1>2 DEF Unharmed
<1> QED BY <1>1, <1>2, <1>3, <1>4, <1>5, <1>6, PTL
        DEF TasksSettleFairly, SettlementPaysOneReward, PartialSettlementSpares,
            SlashingNeedsAgreement

-----------------------------------------------------------------------------

(* The Merkle tree. A doubling has a solution on every interval, hence one   *)
(* on all numbers.                                                           *)
LEMMA PowersExist ==
  \E f : f = [h \in Nat |-> IF h = 0 THEN 1 ELSE 2 * f[h - 1]]
<1> DEFINE step(N) == [n \in 1 .. N |-> [x \in Nat |-> 2 * x]]
           Orbit(f, N) == /\ f \in [0 .. N -> Nat] /\ f[0] = 1
                          /\ \A n \in 1 .. N : f[n] = 2 * f[n - 1]
           some(N) == CHOOSE f : Orbit(f, N)
           g == [h \in Nat |-> some(h)[h]]
<1>1. ASSUME NEW N \in Nat  PROVE Orbit(some(N), N)
  <2>1. step(N) \in [1 .. N -> [Nat -> Nat]] /\ 1 \in Nat
    OBVIOUS
  <2>2. \A n \in 1 .. N, x \in Nat : step(N)[n][x] = 2 * x
    OBVIOUS
  <2> HIDE DEF step
  <2>3. PICK f : IsOrbit(f, N, Nat, 1, step(N))
    BY <2>1, RecursionExists
  <2>4. \A n \in 1 .. N : n - 1 \in 0 .. N
    OBVIOUS
  <2>5. Orbit(f, N)
    BY <2>2, <2>3, <2>4 DEF IsOrbit
  <2> HIDE DEF Orbit
  <2> QED BY <2>5
<1>2. ASSUME NEW n \in Nat  PROVE some(n)[n] = some(n + 1)[n]
  <2> DEFINE f == some(n)
             h == some(n + 1)
  <2>1. Orbit(f, n) /\ Orbit(h, n + 1) /\ n + 1 \in Nat
    <3> HIDE DEF some, Orbit
    <3>1. n + 1 \in Nat
      OBVIOUS
    <3> QED BY <1>1, <3>1
  <2> HIDE DEF some, f, h
  <2>2. f[0] = h[0] /\ \A k \in 1 .. n : f[k - 1] = h[k - 1] => f[k] = h[k]
    BY <2>1
  <2>3. f[n] = h[n]
    BY <2>2, RecursionAgrees
  <2> QED BY <2>3 DEF f, h
<1>3. ASSUME NEW h \in Nat  PROVE g[h] = IF h = 0 THEN 1 ELSE 2 * g[h - 1]
  <2>1. g[h] = some(h)[h] /\ Orbit(some(h), h)
    BY <1>1
  <2>2. CASE h = 0
    <3> HIDE DEF some, g
    <3> QED BY <2>1, <2>2
  <2>3. CASE h # 0
    <3>1. h - 1 \in Nat /\ h \in 1 .. h /\ (h - 1) + 1 = h
      BY <2>3
    <3>2. some(h)[h] = 2 * some(h)[h - 1]
      <4> HIDE DEF some
      <4> QED BY <2>1, <3>1
    <3>3. some(h - 1)[h - 1] = some(h)[h - 1]
      <4>1. some(h - 1)[h - 1] = some((h - 1) + 1)[h - 1]
        BY <1>2, <3>1
      <4> QED BY <3>1, <4>1
    <3>4. g[h - 1] = some(h - 1)[h - 1]
      BY <3>1
    <3> HIDE DEF some, g
    <3> QED BY <2>1, <2>3, <3>2, <3>3, <3>4
  <2> QED BY <2>2, <2>3
<1>4. g = [h \in Nat |-> IF h = 0 THEN 1 ELSE 2 * g[h - 1]]
  <2> HIDE DEF some
  <2>1. g = [h \in Nat |-> g[h]]
    OBVIOUS
  <2> HIDE DEF g
  <2> QED BY <1>3, <2>1
<1> HIDE DEF g
<1> QED BY <1>4

LEMMA Powers ==
  /\ PowerOfTwo[0] = 1
  /\ \A h \in Nat : PowerOfTwo[h] \in Nat /\ PowerOfTwo[h + 1] = 2 * PowerOfTwo[h]
  /\ \A h \in Nat : PowerOfTwo[h] >= h + 1
<1>1. PowerOfTwo = [h \in Nat |-> IF h = 0 THEN 1 ELSE 2 * PowerOfTwo[h - 1]]
  BY PowersExist DEF PowerOfTwo
<1>2. PowerOfTwo[0] = 1
  BY <1>1
<1>3. ASSUME NEW h \in Nat  PROVE PowerOfTwo[h + 1] = 2 * PowerOfTwo[h]
  <2>1. h + 1 \in Nat /\ h + 1 # 0 /\ (h + 1) - 1 = h
    OBVIOUS
  <2>2. PowerOfTwo[h + 1] = IF h + 1 = 0 THEN 1 ELSE 2 * PowerOfTwo[(h + 1) - 1]
    BY <1>1, <2>1
  <2> QED BY <2>1, <2>2
<1> DEFINE F == {h \in Nat : PowerOfTwo[h] \in Nat /\ PowerOfTwo[h] >= h + 1}
<1>4. 0 \in F
  BY <1>2
<1>5. ASSUME NEW h \in Nat, h \in F  PROVE h + 1 \in F
  <2>1. PICK p \in Nat : p = PowerOfTwo[h] /\ p >= h + 1
    BY <1>5
  <2>2. PowerOfTwo[h + 1] = 2 * p
    BY <1>3, <2>1
  <2> QED BY <2>1, <2>2
<1>6. Nat \subseteq F
  <2> HIDE DEF F
  <2> QED BY <1>4, <1>5, NatSetInduction
<1> QED BY <1>2, <1>3, <1>6

(* The height is that of the least tree with room for all.                   *)
LEMMA HeightIs ==
  ASSUME NEW n \in Nat
  PROVE  Height(n) \in Nat /\ PowerOfTwo[Height(n)] >= n /\ PowerOfTwo[Height(n)] \in Nat \ {0}
<1> DEFINE T == {h \in Nat : PowerOfTwo[h] >= n}
<1>1. n \in T
  <2>1. PowerOfTwo[n] \in Nat /\ PowerOfTwo[n] >= n + 1
    BY Powers
  <2> QED BY <2>1
<1>2. PICK h \in T : \A m \in T : h <= m
  BY <1>1, LeastNumber
<1>3. h \in 0 .. n
  BY <1>1, <1>2
<1>4. h = 0 \/ PowerOfTwo[h - 1] < n
  <2>1. CASE h # 0
    <3>1. h - 1 \in Nat /\ ~(h <= h - 1)
      BY <1>2, <2>1
    <3>2. ~(PowerOfTwo[h - 1] >= n) /\ PowerOfTwo[h - 1] \in Nat
      BY <1>2, <3>1, Powers
    <3> QED BY <3>2
  <2> QED BY <2>1
<1>5. Height(n) \in 0 .. n /\ PowerOfTwo[Height(n)] >= n
  BY <1>2, <1>3, <1>4 DEF Height
<1>6. PowerOfTwo[Height(n)] \in Nat /\ PowerOfTwo[Height(n)] >= Height(n) + 1
  BY <1>5, Powers
<1> QED BY <1>5, <1>6

(* The layers: a step of the tree has a solution.                            *)
AreLayers(f, N, a) == f = [h \in 0 .. N |-> IF h = 0 THEN a ELSE Above(f[h - 1])]
LEMMA LayersExist ==
  ASSUME NEW N \in Nat, NEW a
  PROVE  \E f : AreLayers(f, N, a)
<1> DEFINE Step(f, h) == IF h = 0 THEN a ELSE Above(f[h - 1])
           Solves(f, n) == f = [h \in 0 .. n |-> Step(f, h)]
           F == {n \in 0 .. N : \E f : Solves(f, n)}
<1>1. 0 \in F
  <2> DEFINE f == [h \in 0 .. 0 |-> a]
  <2>1. f = [h \in 0 .. 0 |-> Step(f, h)]
    OBVIOUS
  <2> HIDE DEF f, Step
  <2> QED BY <2>1
<1>2. ASSUME NEW n \in 1 .. N, n - 1 \in F  PROVE n \in F
  <2>1. PICK f : Solves(f, n - 1)
    BY <1>2
  <2> DEFINE new == Above(f[n - 1])
             g == [h \in 0 .. n |-> IF h = n THEN new ELSE f[h]]
  <2>2. ASSUME NEW h \in 0 .. n  PROVE g[h] = Step(g, h)
    <3> HIDE DEF new, Step
    <3>1. CASE h = n
      <4>1. n # 0 /\ n - 1 \in 0 .. n /\ n - 1 # n /\ n \in 0 .. n
        OBVIOUS
      <4>2. g[n] = new /\ g[n - 1] = f[n - 1]
        BY <4>1
      <4> HIDE DEF g
      <4> QED BY <3>1, <4>1, <4>2 DEF new, Step
    <3>2. CASE h # n
      <4>1. h \in 0 .. n - 1 /\ g[h] = f[h]
        BY <3>2
      <4>2. f[h] = Step(f, h)
        BY <2>1, <4>1
      <4>3. CASE h = 0
        BY <4>1, <4>2, <4>3 DEF Step
      <4>4. CASE h # 0
        <5>1. h - 1 \in 0 .. n /\ h - 1 # n
          BY <4>1, <4>4
        <5>2. g[h - 1] = f[h - 1]
          BY <5>1
        <5> HIDE DEF g
        <5> QED BY <4>1, <4>2, <4>4, <5>2 DEF Step
      <4> QED BY <4>3, <4>4
    <3> QED BY <3>1, <3>2
  <2>3. g = [h \in 0 .. n |-> g[h]]
    OBVIOUS
  <2> HIDE DEF g, Step
  <2>4. Solves(g, n)
    BY <2>2, <2>3
  <2> HIDE DEF Solves
  <2> QED BY <2>4
<1>3. 0 .. N \subseteq F
  <2> HIDE DEF F
  <2> QED BY <1>1, <1>2, RangeInduction
<1>4. PICK f : Solves(f, N)
  BY <1>3
<1> QED BY <1>4 DEF AreLayers

(* The rows of a tree, counted from the root: each node of a row is the hash *)
(* of two of the next.                                                       *)
Tall(data) == Height(Len(data))
Row(data, k) == Layers(data)[Tall(data) - k]

LEMMA LayersAre ==
  ASSUME NEW S, NEW data \in Seq(S)
  PROVE  /\ Layers(data)[0] = Padded(data)
         /\ \A h \in 1 .. Tall(data) : Layers(data)[h] = Above(Layers(data)[h - 1])
<1>1. PICK N \in Nat : N = Height(Len(data))
  BY HeightIs
<1>2. PICK a : a = Padded(data)
  OBVIOUS
<1>3. Layers(data) = CHOOSE f : AreLayers(f, N, a)
  BY <1>1, <1>2, Zenon DEF Layers, AreLayers
<1>4. \E f : AreLayers(f, N, a)
  BY LayersExist
<1>5. AreLayers(Layers(data), N, a)
  BY <1>3, <1>4
<1>6. PICK f : f = Layers(data) /\ AreLayers(f, N, a)
  BY <1>5
<1>7. ASSUME NEW h \in 0 .. N  PROVE f[h] = IF h = 0 THEN a ELSE Above(f[h - 1])
  <2>1. f = [k \in 0 .. N |-> IF k = 0 THEN a ELSE Above(f[k - 1])]
    BY <1>6 DEF AreLayers
  <2> QED BY <2>1, Zenon
<1>8. f[0] = a /\ \A h \in 1 .. N : f[h] = Above(f[h - 1])
  <2>1. 0 \in 0 .. N /\ \A h \in 1 .. N : h \in 0 .. N /\ h # 0
    OBVIOUS
  <2> QED BY <1>7, <2>1
<1> QED BY <1>1, <1>2, <1>6, <1>8 DEF Tall

LEMMA AboveIs ==
  ASSUME NEW m \in Nat, NEW e, e = [i \in 1 .. 2 * m |-> e[i]]
  PROVE  /\ Above(e) = [i \in 1 .. m |-> Above(e)[i]]
         /\ \A i \in 1 .. m : Above(e)[i] = HashPair(e[2 * i - 1], e[2 * i])
<1>1. Len(e) = 2 * m
  BY 2 * m \in Nat
<1>2. Len(e) \div 2 = m
  BY <1>1
<1> QED BY <1>2 DEF Above

LEMMA RowIs ==
  ASSUME NEW S, NEW data \in Seq(S)
  PROVE  /\ Tall(data) \in Nat /\ Len(data) \in Nat
         /\ Row(data, Tall(data)) = Padded(data)
         /\ \A k \in 0 .. Tall(data) :
              Row(data, k) = [i \in 1 .. PowerOfTwo[k] |-> Row(data, k)[i]]
         /\ \A k \in 0 .. Tall(data) - 1 : \A i \in 1 .. PowerOfTwo[k] :
              Row(data, k)[i] = HashPair(Row(data, k + 1)[2 * i - 1], Row(data, k + 1)[2 * i])
         /\ Row(data, 0)[1] = Root(data)
<1>1. PICK N \in Nat : N = Tall(data)
  BY HeightIs DEF Tall
<1>2. \A k \in Nat : PowerOfTwo[k] \in Nat /\ PowerOfTwo[k + 1] = 2 * PowerOfTwo[k]
  BY Powers
<1> DEFINE L == Layers(data)
           IsRow(h) == L[h] = [i \in 1 .. PowerOfTwo[N - h] |-> L[h][i]]
           Pairs(h) == \A i \in 1 .. PowerOfTwo[N - h] : L[h][i] = HashPair(L[h - 1][2 * i - 1], L[h - 1][2 * i])
           F == {h \in 0 .. N : IsRow(h)}
<1>3. L[0] = Padded(data) /\ \A h \in 1 .. N : L[h] = Above(L[h - 1])
  BY <1>1, LayersAre
<1>4. 0 \in F
  <2>1. PICK w \in Nat : w = PowerOfTwo[N]
    BY <1>2
  <2>2. Padded(data) = [i \in 1 .. w |-> Padded(data)[i]]
    BY <1>1, <2>1 DEF Padded, Tall
  <2>3. N - 0 = N /\ 0 \in 0 .. N
    OBVIOUS
  <2> QED BY <1>3, <2>1, <2>2, <2>3
<1>5. ASSUME NEW h \in 1 .. N, IsRow(h - 1)  PROVE IsRow(h) /\ Pairs(h)
  <2>1. PICK m \in Nat : m = PowerOfTwo[N - h] /\ PowerOfTwo[N - (h - 1)] = 2 * m
    <3>1. N - h \in Nat /\ (N - h) + 1 = N - (h - 1)
      OBVIOUS
    <3> QED BY <1>2, <3>1
  <2>2. PICK e : e = L[h - 1] /\ e = [i \in 1 .. 2 * m |-> e[i]]
    BY <1>5, <2>1
  <2>3. /\ Above(e) = [i \in 1 .. m |-> Above(e)[i]]
        /\ \A i \in 1 .. m : Above(e)[i] = HashPair(e[2 * i - 1], e[2 * i])
    <3>1. e = [i \in 1 .. 2 * m |-> e[i]]
      BY <2>2
    <3> QED BY <3>1, AboveIs, Zenon
  <2>4. L[h] = Above(e)
    BY <1>3, <2>2
  <2> HIDE DEF L
  <2> QED BY <2>1, <2>2, <2>3, <2>4
<1>6. 0 .. N \subseteq F
  <2>1. \A h \in 1 .. N : h - 1 \in F => h \in F
    <3> HIDE DEF IsRow, Pairs
    <3> QED BY <1>5
  <2> HIDE DEF F
  <2> QED BY <1>4, <2>1, RangeInduction
<1>7. \A h \in 0 .. N : IsRow(h)
  <2> HIDE DEF IsRow
  <2> QED BY <1>6
<1>8. \A h \in 1 .. N : Pairs(h)
  <2>1. \A h \in 1 .. N : IsRow(h - 1)
    <3> HIDE DEF IsRow
    <3> QED BY <1>7
  <2> HIDE DEF IsRow, Pairs
  <2> QED BY <1>5, <2>1
<1>9. \A k \in 0 .. N : Row(data, k) = L[N - k] /\ N - k \in 0 .. N /\ N - (N - k) = k
  BY <1>1 DEF Row
<1> HIDE DEF L
<1>10. Row(data, N) = Padded(data)
  <2>1. N \in 0 .. N /\ N - N = 0
    OBVIOUS
  <2>2. Row(data, N) = L[N - N]
    BY <1>9, <2>1
  <2> QED BY <1>3, <2>1, <2>2
<1>11. ASSUME NEW k \in 0 .. N
       PROVE  Row(data, k) = [i \in 1 .. PowerOfTwo[k] |-> Row(data, k)[i]]
  <2>1. PICK h \in 0 .. N : h = N - k /\ N - h = k
    BY <1>9
  <2>2. L[h] = [i \in 1 .. PowerOfTwo[k] |-> L[h][i]]
    BY <1>7, <2>1
  <2> QED BY <1>9, <2>1, <2>2
<1>12. ASSUME NEW k \in 0 .. N - 1, NEW i \in 1 .. PowerOfTwo[k]
       PROVE  Row(data, k)[i] = HashPair(Row(data, k + 1)[2 * i - 1], Row(data, k + 1)[2 * i])
  <2>1. PICK h \in 1 .. N : h = N - k /\ N - h = k /\ h - 1 = N - (k + 1)
    OBVIOUS
  <2>2. L[h][i] = HashPair(L[h - 1][2 * i - 1], L[h - 1][2 * i])
    BY <1>8, <2>1
  <2>3. Row(data, k) = L[h] /\ Row(data, k + 1) = L[h - 1]
    BY <1>9, <2>1
  <2> QED BY <2>2, <2>3
<1>13. Row(data, 0)[1] = Root(data)
  BY <1>1 DEF Row, Root, Tall
<1> QED BY <1>1, <1>10, <1>11, <1>12, <1>13

(* The leaves and how hashes differ.                                         *)
LEMMA HashesDiffer ==
  /\ \A x, y : LeafHash(x) = LeafHash(y) => x = y
  /\ \A x : LeafHash(x) # EmptyLeaf
  /\ \A a, b, x : HashPair(a, b) # LeafHash(x) /\ HashPair(a, b) # EmptyLeaf
  /\ \A a, b, c, d : HashPair(a, b) = HashPair(c, d) => (a = c /\ b = d) \/ (a = d /\ b = c)
<1>1. ASSUME NEW x, NEW y, LeafHash(x) = LeafHash(y)  PROVE x = y
  <2>1. <<x>> = <<y>>
    BY <1>1 DEF LeafHash
  <2> QED BY <2>1
<1>2. ASSUME NEW x  PROVE LeafHash(x) # EmptyLeaf
  <2>1. <<x>> # <<>>
    OBVIOUS
  <2> QED BY <2>1 DEF LeafHash, EmptyLeaf
<1>3. ASSUME NEW a, NEW b, NEW x  PROVE HashPair(a, b) # LeafHash(x) /\ HashPair(a, b) # EmptyLeaf
  <2>1. HashPair(a, b).pair = {a, b} /\ LeafHash(x).pair = {} /\ EmptyLeaf.pair = {}
    BY DEF HashPair, LeafHash, EmptyLeaf
  <2> QED BY <2>1
<1>4. ASSUME NEW a, NEW b, NEW c, NEW d, HashPair(a, b) = HashPair(c, d)
      PROVE  (a = c /\ b = d) \/ (a = d /\ b = c)
  <2>1. {a, b} = {c, d}
    <3>1. HashPair(a, b).pair = {a, b} /\ HashPair(c, d).pair = {c, d}
      BY DEF HashPair
    <3> QED BY <1>4, <3>1
  <2> QED BY <2>1
<1> QED BY <1>1, <1>2, <1>3, <1>4

LEMMA PaddedIs ==
  ASSUME NEW S, NEW data \in Seq(S)
  PROVE  /\ \A i \in 1 .. PowerOfTwo[Tall(data)] :
              Padded(data)[i] = IF i <= Len(data) THEN LeafHash(data[i]) ELSE EmptyLeaf
         /\ 1 .. Len(data) \subseteq 1 .. PowerOfTwo[Tall(data)]
         /\ DOMAIN data = 1 .. Len(data) /\ 1 \in 1 .. PowerOfTwo[Tall(data)]
<1>1. PICK w \in Nat \ {0} : w = PowerOfTwo[Tall(data)] /\ w >= Len(data)
  BY SMTT(30), HeightIs DEF Tall
<1> QED BY <1>1 DEF Padded, Tall

(* A proof of inclusion climbs from a leaf to the root.                      *)
LEMMA Halves ==
  ASSUME NEW n \in Nat
  PROVE  \E m \in Nat : /\ n \div 2 = m
                        /\ \/ n = 2 * m /\ Sibling(n) + 1 = 2 * m + 2
                           \/ n = 2 * m + 1 /\ Sibling(n) + 1 = 2 * m + 1
<1>1. PICK m \in Nat : m = n \div 2
  OBVIOUS
<1>2. CASE n % 2 = 0
  BY <1>1, <1>2 DEF Sibling
<1>3. CASE n % 2 # 0
  BY <1>1, <1>3 DEF Sibling
<1> QED BY <1>2, <1>3

ArePlaces(f, N, a) == f = [h \in 0 .. N |-> IF h = 0 THEN a ELSE f[h - 1] \div 2]
LEMMA PlacesExist ==
  ASSUME NEW N \in Nat, NEW a \in Nat
  PROVE  \E f : ArePlaces(f, N, a)
<1> DEFINE step == [n \in 1 .. N |-> [x \in Nat |-> x \div 2]]
<1>1. \A x \in Nat : x \div 2 \in Nat
  OBVIOUS
<1>2. step \in [1 .. N -> [Nat -> Nat]] /\ \A n \in 1 .. N, x \in Nat : step[n][x] = x \div 2
  BY <1>1
<1> HIDE DEF step
<1>3. PICK f : IsOrbit(f, N, Nat, a, step)
  BY <1>2, RecursionExists
<1>4. /\ f = [h \in 0 .. N |-> f[h]] /\ f[0] = a
      /\ \A h \in 0 .. N : f[h] \in Nat
      /\ \A n \in 1 .. N : f[n] = step[n][f[n - 1]]
  BY <1>3 DEF IsOrbit
<1>5. ASSUME NEW h \in 0 .. N  PROVE f[h] = IF h = 0 THEN a ELSE f[h - 1] \div 2
  <2>1. CASE h # 0
    <3>1. h \in 1 .. N /\ h - 1 \in 0 .. N
      BY <2>1
    <3> QED BY <1>2, <1>4, <2>1, <3>1
  <2> QED BY <1>4, <2>1
<1> QED BY <1>4, <1>5 DEF ArePlaces

AreHashes(f, hash, proof) ==
  f = [h \in 0 .. Len(proof) |-> IF h = 0 THEN hash ELSE HashPair(f[h - 1], proof[h])]
LEMMA HashesExist ==
  ASSUME NEW hash, NEW proof, Len(proof) \in Nat
  PROVE  \E f : AreHashes(f, hash, proof)
<1> DEFINE N == Len(proof)
           Step(f, h) == IF h = 0 THEN hash ELSE HashPair(f[h - 1], proof[h])
           Solves(f, n) == f = [h \in 0 .. n |-> Step(f, h)]
           F == {n \in 0 .. N : \E f : Solves(f, n)}
<1>1. 0 \in F
  <2> DEFINE f == [h \in 0 .. 0 |-> hash]
  <2>1. f = [h \in 0 .. 0 |-> Step(f, h)]
    OBVIOUS
  <2> HIDE DEF f, Step
  <2> QED BY <2>1
<1>2. ASSUME NEW n \in 1 .. N, n - 1 \in F  PROVE n \in F
  <2>1. PICK f : Solves(f, n - 1)
    BY <1>2
  <2> DEFINE new == HashPair(f[n - 1], proof[n])
             g == [h \in 0 .. n |-> IF h = n THEN new ELSE f[h]]
  <2>2. ASSUME NEW h \in 0 .. n  PROVE g[h] = Step(g, h)
    <3> HIDE DEF new, Step
    <3>1. CASE h = n
      <4>1. n # 0 /\ n - 1 \in 0 .. n /\ n - 1 # n /\ n \in 0 .. n
        OBVIOUS
      <4>2. g[n] = new /\ g[n - 1] = f[n - 1]
        BY <4>1
      <4> HIDE DEF g
      <4> QED BY <3>1, <4>1, <4>2 DEF new, Step
    <3>2. CASE h # n
      <4>1. h \in 0 .. n - 1 /\ g[h] = f[h]
        BY <3>2
      <4>2. f[h] = Step(f, h)
        BY <2>1, <4>1
      <4>3. CASE h = 0
        BY <4>1, <4>2, <4>3 DEF Step
      <4>4. CASE h # 0
        <5>1. h - 1 \in 0 .. n /\ h - 1 # n
          BY <4>1, <4>4
        <5>2. g[h - 1] = f[h - 1]
          BY <5>1
        <5> HIDE DEF g
        <5> QED BY <4>1, <4>2, <4>4, <5>2 DEF Step
      <4> QED BY <4>3, <4>4
    <3> QED BY <3>1, <3>2
  <2>3. g = [h \in 0 .. n |-> g[h]]
    OBVIOUS
  <2> HIDE DEF g, Step
  <2>4. Solves(g, n)
    BY <2>2, <2>3
  <2> HIDE DEF Solves
  <2> QED BY <2>4
<1>3. 0 .. N \subseteq F
  <2> HIDE DEF F
  <2> QED BY <1>1, <1>2, RangeInduction
<1>4. PICK f : Solves(f, N)
  BY <1>3
<1> QED BY <1>4 DEF AreHashes

(* What a proof consists of, and what a hash becomes along it.               *)
IsPath(at, data, leaf) ==
  /\ at[0] = leaf
  /\ \A h \in 0 .. Tall(data) : at[h] \in Nat
  /\ \A h \in 1 .. Tall(data) : at[h] = at[h - 1] \div 2
  /\ Len(Proof(data, leaf)) = Tall(data)
  /\ \A h \in 1 .. Tall(data) :
       Proof(data, leaf)[h] = Layers(data)[h - 1][Sibling(at[h - 1]) + 1]
LEMMA ProofIs ==
  ASSUME NEW S, NEW data \in Seq(S), NEW leaf \in Nat
  PROVE  \E at : IsPath(at, data, leaf)
<1>1. PICK N \in Nat : N = Height(Len(data))
  BY HeightIs
<1>2. PICK at : at = Ancestors(leaf, N)
  OBVIOUS
<1>3. ArePlaces(at, N, leaf)
  <2>1. Ancestors(leaf, N) = CHOOSE f : ArePlaces(f, N, leaf)
    BY Zenon DEF Ancestors, ArePlaces
  <2> QED BY <1>2, <2>1, PlacesExist
<1>4. Len(Proof(data, leaf)) = N
      /\ \A h \in 1 .. N : Proof(data, leaf)[h] = Layers(data)[h - 1][Sibling(at[h - 1]) + 1]
  BY <1>1, <1>2 DEF Proof
<1>5. ASSUME NEW h \in 0 .. N  PROVE at[h] = IF h = 0 THEN leaf ELSE at[h - 1] \div 2
  <2>1. at = [k \in 0 .. N |-> IF k = 0 THEN leaf ELSE at[k - 1] \div 2]
    BY <1>3 DEF ArePlaces
  <2> QED BY <2>1, Zenon
<1>6. at[0] = leaf /\ \A h \in 1 .. N : at[h] = at[h - 1] \div 2
  <2>1. 0 \in 0 .. N /\ \A h \in 1 .. N : h \in 0 .. N /\ h # 0
    OBVIOUS
  <2> QED BY <1>5, <2>1
<1>7. \A h \in 0 .. N : at[h] \in Nat
  <2> DEFINE F == {h \in 0 .. N : at[h] \in Nat}
  <2>1. 0 \in F
    BY <1>6
  <2>2. ASSUME NEW h \in 1 .. N, h - 1 \in F  PROVE h \in F
    <3>1. PICK n \in Nat : n = at[h - 1]
      BY <2>2
    <3>2. at[h] = n \div 2
      BY <1>6, <3>1
    <3> QED BY <3>2
  <2>3. 0 .. N \subseteq F
    <3> HIDE DEF F
    <3> QED BY <2>1, <2>2, RangeInduction
  <2> QED BY <2>3
<1>8. IsPath(at, data, leaf)
  BY <1>1, <1>4, <1>6, <1>7 DEF IsPath, Tall
<1> QED BY <1>8

IsClimb(up, hash, proof, root, N) ==
  /\ up[0] = hash
  /\ \A h \in 1 .. N : up[h] = HashPair(up[h - 1], proof[h])
  /\ Verifies(hash, proof, root) <=> up[N] = root
LEMMA VerifiesIs ==
  ASSUME NEW hash, NEW proof, NEW root, NEW N \in Nat, Len(proof) = N
  PROVE  \E up : IsClimb(up, hash, proof, root, N)
<1>1. PICK up : up = CHOOSE f : AreHashes(f, hash, proof)
  OBVIOUS
<1>2. AreHashes(up, hash, proof)
  BY <1>1, HashesExist
<1>3. Verifies(hash, proof, root) <=> up[N] = root
  BY <1>1, Zenon DEF Verifies, AreHashes
<1>4. ASSUME NEW h \in 0 .. N  PROVE up[h] = IF h = 0 THEN hash ELSE HashPair(up[h - 1], proof[h])
  <2>1. up = [k \in 0 .. N |-> IF k = 0 THEN hash ELSE HashPair(up[k - 1], proof[k])]
    BY <1>2 DEF AreHashes
  <2> QED BY <2>1, Zenon
<1>5. up[0] = hash /\ \A h \in 1 .. N : up[h] = HashPair(up[h - 1], proof[h])
  <2>1. 0 \in 0 .. N /\ \A h \in 1 .. N : h \in 0 .. N /\ h # 0
    OBVIOUS
  <2> QED BY <1>4, <2>1
<1>6. IsClimb(up, hash, proof, root, N)
  BY <1>3, <1>5 DEF IsClimb
<1> QED BY <1>6

(* A proof for a leaf verifies what hashes as the leaf does and no other.    *)
LEMMA ProofVerifies ==
  ASSUME NEW S, NEW data \in Seq(S), NEW i \in 1 .. Len(data), NEW hash
  PROVE  Verifies(hash, Proof(data, i - 1), Root(data)) <=> hash = LeafHash(data[i])
<1>1. PICK N \in Nat : N = Tall(data) /\ PowerOfTwo[0] = 1
  BY RowIs, Powers
<1>2. i - 1 \in Nat
  OBVIOUS
<1>21. PICK at : IsPath(at, data, i - 1)
  BY <1>2, ProofIs
<1>3. /\ at[0] = i - 1
      /\ \A h \in 0 .. N : at[h] \in Nat
      /\ \A h \in 1 .. N : at[h] = at[h - 1] \div 2
      /\ Len(Proof(data, i - 1)) = N
      /\ \A h \in 1 .. N :
           Proof(data, i - 1)[h] = Layers(data)[h - 1][Sibling(at[h - 1]) + 1]
  BY <1>1, <1>21 DEF IsPath
<1>4. PICK p : p = Proof(data, i - 1)
  OBVIOUS
<1>22. PICK up : IsClimb(up, hash, p, Root(data), N)
  BY <1>3, <1>4, VerifiesIs
<1>5. /\ up[0] = hash
      /\ \A h \in 1 .. N : up[h] = HashPair(up[h - 1], p[h])
      /\ Verifies(hash, p, Root(data)) <=> up[N] = Root(data)
  BY <1>22 DEF IsClimb
<1> DEFINE R(h) == Row(data, N - h)
           Fits(h) == /\ at[h] < PowerOfTwo[N - h]
                      /\ up[h] = R(h)[at[h] + 1] <=> hash = LeafHash(data[i])
           F == {h \in 0 .. N : Fits(h)}
<1>6. \A k \in Nat : PowerOfTwo[k] \in Nat /\ PowerOfTwo[k + 1] = 2 * PowerOfTwo[k]
  BY Powers
<1>7. 0 \in F
  <2>1. R(0) = Padded(data) /\ N - 0 = N
    <3>1. N - 0 = N
      OBVIOUS
    <3> QED BY <1>1, <3>1, RowIs
  <2>2. i \in 1 .. PowerOfTwo[N] /\ i <= Len(data) /\ (i - 1) + 1 = i
    BY <1>1, PaddedIs
  <2>3. Padded(data)[i] = LeafHash(data[i])
    BY <1>1, <2>2, PaddedIs
  <2>4. i - 1 < PowerOfTwo[N]
    <3>1. PICK w \in Nat : w = PowerOfTwo[N]
      BY <1>6
    <3> QED BY <2>2, <3>1
  <2>5. 0 \in 0 .. N
    OBVIOUS
  <2> HIDE DEF R
  <2> QED BY <1>3, <1>5, <2>1, <2>2, <2>3, <2>4, <2>5
<1>8. ASSUME NEW h \in 1 .. N, h - 1 \in F  PROVE h \in F
  <2>1. PICK k \in 0 .. N - 1 : k = N - h /\ k + 1 = N - (h - 1) /\ h - 1 \in 0 .. N
    OBVIOUS
  <2>2. PICK r : r = Row(data, k + 1)
    OBVIOUS
  <2>3. PICK w \in Nat : w = PowerOfTwo[k] /\ PowerOfTwo[k + 1] = 2 * w
    <3>1. k \in Nat
      OBVIOUS
    <3> QED BY <1>6, <3>1
  <2>4. PICK n \in Nat : n = at[h - 1] /\ n < 2 * w
    BY <1>3, <1>8, <2>1, <2>3
  <2>5. up[h - 1] = r[n + 1] <=> hash = LeafHash(data[i])
    BY <1>8, <2>1, <2>2, <2>4
  <2>6. PICK m \in Nat : /\ n \div 2 = m
                         /\ \/ n = 2 * m /\ Sibling(n) + 1 = 2 * m + 2
                            \/ n = 2 * m + 1 /\ Sibling(n) + 1 = 2 * m + 1
    BY Halves
  <2>7. at[h] = m /\ m < w
    <3>1. m < w
      BY <2>4, <2>6
    <3> QED BY <1>3, <2>4, <2>6, <3>1
  <2>8. p[h] = r[Sibling(n) + 1]
    <3>1. Layers(data)[h - 1] = r
      <4>1. N - (k + 1) = h - 1
        BY <2>1
      <4> QED BY <1>1, <2>2, <4>1 DEF Row
    <3> QED BY <1>3, <1>4, <2>4, <3>1
  <2>9. Row(data, k)[m + 1] = HashPair(r[2 * m + 1], r[2 * m + 2])
    <3>1. m + 1 \in 1 .. PowerOfTwo[k] /\ 2 * (m + 1) - 1 = 2 * m + 1 /\ 2 * (m + 1) = 2 * m + 2
      BY <2>3, <2>7
    <3>2. k \in 0 .. Tall(data) - 1
      BY <1>1
    <3>3. \A j \in 1 .. PowerOfTwo[k] :
            Row(data, k)[j] = HashPair(Row(data, k + 1)[2 * j - 1], Row(data, k + 1)[2 * j])
      BY <3>2, RowIs
    <3>4. Row(data, k)[m + 1] = HashPair(r[2 * (m + 1) - 1], r[2 * (m + 1)])
      BY <2>2, <3>1, <3>3
    <3> QED BY <3>1, <3>4
  <2>10. up[h] = HashPair(up[h - 1], p[h])
    BY <1>5
  <2>11. up[h] = Row(data, k)[m + 1] <=> up[h - 1] = r[n + 1]
    <3>1. \A a, b, c : HashPair(a, c) = HashPair(b, c) <=> a = b
      BY HashesDiffer
    <3>2. \A a, b : HashPair(a, b) = HashPair(b, a)
      BY DEF HashPair
    <3>3. CASE n = 2 * m /\ Sibling(n) + 1 = 2 * m + 2
      <4>1. p[h] = r[2 * m + 2] /\ r[n + 1] = r[2 * m + 1]
        BY <2>8, <3>3
      <4> QED BY <2>9, <2>10, <3>1, <4>1
    <3>4. CASE n = 2 * m + 1 /\ Sibling(n) + 1 = 2 * m + 1
      <4>1. p[h] = r[2 * m + 1] /\ r[n + 1] = r[2 * m + 2]
        <5>1. n + 1 = 2 * m + 2
          BY <3>4
        <5> QED BY <2>8, <3>4, <5>1
      <4> QED BY <2>9, <2>10, <3>1, <3>2, <4>1
    <3> QED BY <2>6, <3>3, <3>4
  <2> QED BY <2>1, <2>3, <2>5, <2>7, <2>11
<1>9. 0 .. N \subseteq F
  <2> HIDE DEF F
  <2> QED BY <1>7, <1>8, RangeInduction
<1>10. at[N] < 1 /\ (up[N] = Row(data, 0)[at[N] + 1] <=> hash = LeafHash(data[i]))
  <2>1. N \in 0 .. N /\ N - N = 0
    OBVIOUS
  <2> QED BY <1>1, <1>9, <2>1
<1>11. at[N] = 0 /\ at[N] + 1 = 1
  <2>1. N \in 0 .. N
    OBVIOUS
  <2> QED BY <1>3, <1>10, <2>1
<1>12. Row(data, 0)[1] = Root(data)
  BY RowIs
<1> QED BY <1>4, <1>5, <1>10, <1>11, <1>12

LEMMA LeavesProved ==
  ASSUME leaves \in Seq(LeafData)
  PROVE  ProofsVerify
<1> SUFFICES ASSUME NEW i \in DOMAIN leaves, NEW d \in LeafData
             PROVE  Verifies(LeafHash(d), Proof(leaves, i - 1), Root(leaves)) <=> d = leaves[i]
  BY DEF ProofsVerify
<1>1. i \in 1 .. Len(leaves)
  OBVIOUS
<1>2. Verifies(LeafHash(d), Proof(leaves, i - 1), Root(leaves)) <=> LeafHash(d) = LeafHash(leaves[i])
  BY <1>1, ProofVerifies
<1> QED BY <1>2, HashesDiffer

(* Equal roots have equal leaves. Each node of a row has a node of its own   *)
(* in the row of the other tree that is equal to it.                         *)
Matches(f, r, q, w, v) ==
  /\ f \in [1 .. w -> 1 .. v]
  /\ \A i, j \in 1 .. w : f[i] = f[j] => i = j
  /\ \A i \in 1 .. w : r[i] = q[f[i]]

LEMMA HalfOf ==
  ASSUME NEW w \in Nat, NEW j \in 1 .. 2 * w
  PROVE  \E i \in 1 .. w : /\ (j + 1) \div 2 = i
                           /\ \/ j = 2 * i - 1 /\ j % 2 = 1
                              \/ j = 2 * i /\ j % 2 = 0
<1>1. PICK i \in Nat : i = (j + 1) \div 2
  OBVIOUS
<1>2. CASE j % 2 = 1
  BY <1>1, <1>2
<1>3. CASE j % 2 # 1
  BY <1>1, <1>3
<1> QED BY <1>2, <1>3

LEMMA PairsMatch ==
  ASSUME NEW w \in Nat, NEW r, NEW q, NEW f, Matches(f, r, q, w, w), NEW s, NEW t,
         \A i \in 1 .. w : r[i] = HashPair(s[2 * i - 1], s[2 * i]),
         \A i \in 1 .. w : q[i] = HashPair(t[2 * i - 1], t[2 * i])
  PROVE  \E g : Matches(g, s, t, 2 * w, 2 * w)
<1>1. /\ f \in [1 .. w -> 1 .. w]
      /\ \A i, j \in 1 .. w : f[i] = f[j] => i = j
      /\ \A i \in 1 .. w : r[i] = q[f[i]]
  BY DEF Matches
<1> DEFINE straight(i) == s[2 * i - 1] = t[2 * f[i] - 1] /\ s[2 * i] = t[2 * f[i]]
           crossed(i) == s[2 * i - 1] = t[2 * f[i]] /\ s[2 * i] = t[2 * f[i] - 1]
           half(j) == (j + 1) \div 2
           image(j) == IF (j % 2 = 1) = straight(half(j))
                       THEN 2 * f[half(j)] - 1 ELSE 2 * f[half(j)]
           g == [j \in 1 .. 2 * w |-> image(j)]
<1>2. ASSUME NEW i \in 1 .. w  PROVE straight(i) \/ crossed(i)
  <2>1. f[i] \in 1 .. w /\ r[i] = q[f[i]]
    BY <1>1
  <2>2. HashPair(s[2 * i - 1], s[2 * i]) = HashPair(t[2 * f[i] - 1], t[2 * f[i]])
    BY <2>1
  <2> QED BY <2>2, HashesDiffer
<1>3. ASSUME NEW j \in 1 .. 2 * w
      PROVE  /\ image(j) \in 1 .. 2 * w /\ half(image(j)) = f[half(j)] /\ s[j] = t[image(j)]
             /\ half(j) \in 1 .. w
             /\ image(j) % 2 = 1 <=> (j % 2 = 1) = straight(half(j))
  <2>1. PICK i \in 1 .. w : /\ half(j) = i
                            /\ \/ j = 2 * i - 1 /\ j % 2 = 1
                               \/ j = 2 * i /\ j % 2 = 0
    BY HalfOf
  <2>2. PICK c \in 1 .. w : c = f[i]
    BY <1>1
  <2>3. (2 * c - 1) % 2 = 1 /\ (2 * c) % 2 = 0 /\ ((2 * c - 1) + 1) \div 2 = c /\ (2 * c + 1) \div 2 = c
    OBVIOUS
  <2>4. 2 * c - 1 \in 1 .. 2 * w /\ 2 * c \in 1 .. 2 * w
    OBVIOUS
  <2>5. image(j) = IF (j % 2 = 1) = straight(i) THEN 2 * c - 1 ELSE 2 * c
    BY <2>1, <2>2
  <2>6. straight(i) \/ crossed(i)
    BY <1>2
  <2>7. s[j] = t[image(j)]
    <3>1. CASE j = 2 * i - 1 /\ j % 2 = 1 /\ straight(i)
      BY <2>2, <2>5, <3>1
    <3>2. CASE j = 2 * i - 1 /\ j % 2 = 1 /\ ~straight(i)
      BY <2>2, <2>5, <2>6, <3>2
    <3>3. CASE j = 2 * i /\ j % 2 = 0 /\ straight(i)
      BY <2>2, <2>5, <3>3
    <3>4. CASE j = 2 * i /\ j % 2 = 0 /\ ~straight(i)
      BY <2>2, <2>5, <2>6, <3>4
    <3> HIDE DEF straight, image
    <3> QED BY <2>1, <3>1, <3>2, <3>3, <3>4
  <2>8. PICK x : x = image(j)
    OBVIOUS
  <2>9. CASE (j % 2 = 1) = straight(i)
    <3>1. x = 2 * c - 1
      BY <2>5, <2>8, <2>9
    <3>2. x \in 1 .. 2 * w /\ x % 2 = 1 /\ (x + 1) \div 2 = c
      BY <2>3, <2>4, <3>1
    <3> HIDE DEF straight, image, crossed
    <3> QED BY <2>1, <2>2, <2>7, <2>8, <2>9, <3>2
  <2>10. CASE ~((j % 2 = 1) = straight(i))
    <3>1. x = 2 * c
      BY <2>5, <2>8, <2>10
    <3>2. x \in 1 .. 2 * w /\ x % 2 # 1 /\ (x + 1) \div 2 = c
      BY <2>3, <2>4, <3>1
    <3> HIDE DEF straight, image, crossed
    <3> QED BY <2>1, <2>2, <2>7, <2>8, <2>10, <3>2
  <2> QED BY <2>9, <2>10
<1>4. g \in [1 .. 2 * w -> 1 .. 2 * w] /\ \A j \in 1 .. 2 * w : g[j] = image(j)
  <2> HIDE DEF image
  <2> QED BY <1>3
<1>5. ASSUME NEW j \in 1 .. 2 * w, NEW k \in 1 .. 2 * w, image(j) = image(k)
      PROVE  j = k
  <2>1. half(j) \in 1 .. w /\ half(k) \in 1 .. w /\ f[half(j)] = f[half(k)]
    <3> HIDE DEF image, half, straight
    <3> QED BY <1>3, <1>5
  <2>2. half(j) = half(k)
    <3> HIDE DEF half
    <3> QED BY <1>1, <2>1
  <2>3. (j % 2 = 1) = (k % 2 = 1)
    <3> HIDE DEF image, half, straight
    <3>1. ((j % 2 = 1) = straight(half(j))) <=> ((k % 2 = 1) = straight(half(k)))
      BY <1>3, <1>5
    <3>2. straight(half(j)) \in BOOLEAN
      BY DEF straight
    <3> QED BY <2>2, <3>1, <3>2
  <2>4. PICK i \in 1 .. w : /\ half(j) = i
                            /\ \/ j = 2 * i - 1 /\ j % 2 = 1
                               \/ j = 2 * i /\ j % 2 = 0
    BY HalfOf
  <2>5. PICK i2 \in 1 .. w : /\ half(k) = i2
                             /\ \/ k = 2 * i2 - 1 /\ k % 2 = 1
                                \/ k = 2 * i2 /\ k % 2 = 0
    BY HalfOf
  <2>6. i = i2
    BY <2>2, <2>4, <2>5
  <2> HIDE DEF half, image
  <2> QED BY <2>3, <2>4, <2>5, <2>6
<1>6. Matches(g, s, t, 2 * w, 2 * w)
  <2> HIDE DEF g, image
  <2>1. \A j \in 1 .. 2 * w : s[j] = t[g[j]]
    BY <1>3, <1>4
  <2> QED BY <1>4, <1>5, <2>1 DEF Matches
<1> QED BY <1>6

LEMMA RowsMatch ==
  ASSUME NEW S, NEW a \in Seq(S), NEW T, NEW b \in Seq(T), Root(a) = Root(b),
         NEW N \in Nat, N <= Tall(a), N <= Tall(b)
  PROVE  \E f : Matches(f, Row(a, N), Row(b, N), PowerOfTwo[N], PowerOfTwo[N])
<1> DEFINE Match(k) == \E f : Matches(f, Row(a, k), Row(b, k), PowerOfTwo[k], PowerOfTwo[k])
           F == {k \in 0 .. N : Match(k)}
<1>1. Tall(a) \in Nat /\ Tall(b) \in Nat
  BY RowIs
<1>2. 0 \in F
  <2>1. Row(a, 0)[1] = Row(b, 0)[1] /\ PowerOfTwo[0] = 1
    BY RowIs, Powers
  <2> DEFINE f == [i \in 1 .. 1 |-> 1]
  <2>2. Matches(f, Row(a, 0), Row(b, 0), 1, 1)
    BY <2>1 DEF Matches
  <2> HIDE DEF f
  <2> QED BY <2>1, <2>2
<1>3. ASSUME NEW k \in 1 .. N, k - 1 \in F  PROVE k \in F
  <2>1. PICK m \in 0 .. N - 1 : m = k - 1 /\ m + 1 = k /\ m \in Nat
    OBVIOUS
  <2>2. PICK w \in Nat : w = PowerOfTwo[m] /\ PowerOfTwo[k] = 2 * w
    BY <2>1, Powers
  <2>3. PICK f : Matches(f, Row(a, m), Row(b, m), w, w)
    BY <1>3, <2>1, <2>2
  <2>4. m \in 0 .. Tall(a) - 1 /\ m \in 0 .. Tall(b) - 1
    BY <1>1
  <2>5. \A i \in 1 .. w : Row(a, m)[i] = HashPair(Row(a, k)[2 * i - 1], Row(a, k)[2 * i])
    BY SMTT(30), <2>1, <2>2, <2>4, RowIs
  <2>6. \A i \in 1 .. w : Row(b, m)[i] = HashPair(Row(b, k)[2 * i - 1], Row(b, k)[2 * i])
    BY <2>1, <2>2, <2>4, RowIs
  <2>7. \E g : Matches(g, Row(a, k), Row(b, k), 2 * w, 2 * w)
    BY <2>3, <2>5, <2>6, PairsMatch
  <2> QED BY <2>2, <2>7
<1>4. 0 .. N \subseteq F
  <2> HIDE DEF F
  <2> QED BY <1>2, <1>3, RangeInduction
<1> QED BY <1>4

(* The rows of leaves of two trees of one root are those of trees of one     *)
(* height, since a leaf is no pair.                                          *)
LEMMA HeightsAgree ==
  ASSUME NEW S, NEW a \in Seq(S), NEW T, NEW b \in Seq(T), Root(a) = Root(b),
         Tall(a) <= Tall(b)
  PROVE  Tall(a) = Tall(b)
<1> SUFFICES ASSUME Tall(a) # Tall(b)  PROVE FALSE
  OBVIOUS
<1>1. PICK N \in Nat : N = Tall(a) /\ N <= Tall(b) /\ Tall(b) \in Nat /\ N \in 0 .. Tall(b) - 1
  BY RowIs
<1>2. PICK f : Matches(f, Row(a, N), Row(b, N), PowerOfTwo[N], PowerOfTwo[N])
  BY <1>1, RowsMatch
<1>3. 1 \in 1 .. PowerOfTwo[N] /\ f[1] \in 1 .. PowerOfTwo[N] /\ Row(a, N)[1] = Row(b, N)[f[1]]
  BY <1>1, <1>2, PaddedIs DEF Matches
<1>4. Row(a, N) = Padded(a)
  BY <1>1, RowIs
<1>5. \/ Padded(a)[1] = EmptyLeaf
      \/ \E x : Padded(a)[1] = LeafHash(x)
  BY <1>1, <1>3, PaddedIs
<1>6. \E x, y : Row(b, N)[f[1]] = HashPair(x, y)
  BY <1>1, <1>3, RowIs
<1> QED BY <1>3, <1>4, <1>5, <1>6, HashesDiffer

LEMMA RootPins ==
  ASSUME NEW S, NEW a \in Seq(S), NEW T, NEW b \in Seq(T), Root(a) = Root(b)
  PROVE  \E f : Matches(f, a, b, Len(a), Len(b))
<1>1. PICK N \in Nat : N = Tall(a) /\ N = Tall(b)
  <2>1. Tall(a) \in Nat /\ Tall(b) \in Nat
    BY RowIs
  <2>2. CASE Tall(a) <= Tall(b)
    BY <2>1, <2>2, HeightsAgree
  <2>3. CASE Tall(b) <= Tall(a)
    BY <2>1, <2>3, HeightsAgree
  <2> QED BY <2>1, <2>2, <2>3
<1>2. PICK w \in Nat : w = PowerOfTwo[N]
  BY Powers
<1>3. Row(a, N) = Padded(a) /\ Row(b, N) = Padded(b)
  BY <1>1, RowIs
<1>4. PICK g : Matches(g, Padded(a), Padded(b), w, w)
  <2>1. N <= Tall(a) /\ N <= Tall(b)
    BY <1>1
  <2> QED BY <1>2, <1>3, <2>1, RowsMatch
<1>5. PICK n \in Nat : n = Len(a) /\ 1 .. n \subseteq 1 .. w
  <2>1. PICK l \in Nat : l = Len(a)
    BY RowIs
  <2>2. 1 .. Len(a) \subseteq 1 .. PowerOfTwo[Tall(a)]
    BY PaddedIs
  <2>3. 1 .. l \subseteq 1 .. w
    BY <1>1, <1>2, <2>1, <2>2
  <2> QED BY <2>1, <2>3
<1>6. PICK m \in Nat : m = Len(b) /\ 1 .. m \subseteq 1 .. w
  <2>1. PICK l \in Nat : l = Len(b)
    BY RowIs
  <2>2. 1 .. Len(b) \subseteq 1 .. PowerOfTwo[Tall(b)]
    BY PaddedIs
  <2>3. 1 .. l \subseteq 1 .. w
    BY <1>1, <1>2, <2>1, <2>2
  <2> QED BY <2>1, <2>3
<1>7. \A i \in 1 .. w : /\ Padded(a)[i] = IF i <= n THEN LeafHash(a[i]) ELSE EmptyLeaf
                        /\ Padded(b)[i] = IF i <= m THEN LeafHash(b[i]) ELSE EmptyLeaf
  BY <1>1, <1>2, <1>5, <1>6, PaddedIs
<1>8. ASSUME NEW i \in 1 .. n  PROVE g[i] \in 1 .. m /\ a[i] = b[g[i]]
  <2>1. PICK j \in 1 .. w : j = g[i] /\ Padded(a)[i] = Padded(b)[j]
    BY <1>4, <1>5 DEF Matches
  <2>2. Padded(a)[i] = LeafHash(a[i])
    BY <1>5, <1>7
  <2>3. j <= m
    BY <1>7, <2>1, <2>2, HashesDiffer
  <2>4. Padded(b)[j] = LeafHash(b[j])
    BY <1>7, <2>3
  <2>5. a[i] = b[j]
    BY <2>1, <2>2, <2>4, HashesDiffer
  <2>6. j \in 1 .. m
    BY <2>3
  <2> QED BY <2>1, <2>5, <2>6
<1> DEFINE f == [i \in 1 .. n |-> g[i]]
<1>9. f \in [1 .. n -> 1 .. m] /\ \A i \in 1 .. n : f[i] = g[i]
  BY <1>8
<1> HIDE DEF f
<1>10. \A i, j \in 1 .. n : f[i] = f[j] => i = j
  <2>1. \A i, j \in 1 .. w : g[i] = g[j] => i = j
    BY <1>4 DEF Matches
  <2>2. \A i \in 1 .. n : i \in 1 .. w
    BY <1>5
  <2> QED BY <1>9, <2>1, <2>2
<1>11. Matches(f, a, b, n, m)
  BY <1>8, <1>9, <1>10 DEF Matches
<1> QED BY <1>5, <1>6, <1>11

LEMMA FewerIn ==
  ASSUME NEW S, IsFiniteSet(S), NEW T \in SUBSET S, NEW x \in S \ T
  PROVE  Cardinality(T) < Cardinality(S) /\ Cardinality(T) \in Nat /\ Cardinality(S) \in Nat
<1>1. IsFiniteSet(T) /\ Cardinality(T) \in Nat /\ Cardinality(S) \in Nat
      /\ Cardinality(T) <= Cardinality(S) /\ (Cardinality(S) = Cardinality(T) => S = T)
  BY FS_Subset, FS_CardinalityType
<1>2. S # T
  OBVIOUS
<1> QED BY <1>1, <1>2

(* The rows of a period, by time: the n-th is the one with n - 1 before it,  *)
(* and each row is one of them.                                              *)
Rows == [kind : EventKinds, org : AuditOrgs, at : Nat]
RowsOf(org, from, to) == {i \in DOMAIN stored : InPeriod(i, org, from, to)}

LEMMA RanksAre ==
  ASSUME stored \in Seq(Rows), NEW R \in SUBSET DOMAIN stored
  PROVE  /\ IsFiniteSet(R) /\ Cardinality(R) \in Nat
         /\ \A k \in 1 .. Cardinality(R) :
              \E i \in R : Cardinality(RowsBefore(R, i)) = k - 1
         /\ \A i \in R : Cardinality(RowsBefore(R, i)) + 1 \in 1 .. Cardinality(R)
         /\ \A i, k \in R :
              Cardinality(RowsBefore(R, i)) = Cardinality(RowsBefore(R, k)) => i = k
<1>1. Len(stored) \in Nat /\ DOMAIN stored = 1 .. Len(stored)
      /\ \A i \in DOMAIN stored : i \in Nat /\ stored[i].at \in Nat
  <2>1. Len(stored) \in Nat /\ DOMAIN stored = 1 .. Len(stored)
        /\ \A i \in 1 .. Len(stored) : stored[i] \in Rows
    OBVIOUS
  <2> QED BY <2>1 DEF Rows
<1>2. IsFiniteSet(R) /\ Cardinality(R) \in Nat
  <2>1. IsFiniteSet(1 .. Len(stored))
    BY <1>1, FS_Interval
  <2> QED BY <1>1, <2>1, FS_Subset, FS_CardinalityType
<1>3. PICK n \in Nat : n = Cardinality(R)
  BY <1>2
<1>4. /\ \A i, j, k \in R : Before(i, j) /\ Before(j, k) => Before(i, k)
      /\ \A i, j \in R : i # j => Before(i, j) \/ Before(j, i)
      /\ \A i \in R : ~Before(i, i)
  <2>1. \A i \in R : i \in Nat /\ stored[i].at \in Nat
    BY <1>1
  <2> QED BY <2>1 DEF Before
<1> DEFINE low(i) == RowsBefore(R, i)
           rank == [i \in R |-> Cardinality(low(i))]
<1>5. ASSUME NEW i \in R  PROVE Cardinality(low(i)) < n /\ Cardinality(low(i)) \in Nat
  <2>1. low(i) \in SUBSET R /\ i \in R \ low(i)
    BY <1>4 DEF RowsBefore
  <2> HIDE DEF low
  <2> QED BY <1>2, <1>3, <2>1, FewerIn
<1>6. ASSUME NEW i \in R, NEW k \in R, Before(i, k)
      PROVE  Cardinality(low(i)) < Cardinality(low(k))
  <2>1. low(i) \in SUBSET low(k) /\ i \in low(k) \ low(i)
    BY <1>4, <1>6 DEF RowsBefore
  <2>2. low(k) \in SUBSET R
    BY DEF RowsBefore
  <2> HIDE DEF low
  <2>3. IsFiniteSet(low(k))
    BY <1>2, <2>2, FS_Subset
  <2> QED BY <2>1, <2>3, FewerIn
<1>7. \A i, k \in R : Cardinality(low(i)) = Cardinality(low(k)) => i = k
  <2> SUFFICES ASSUME NEW i \in R, NEW k \in R, i # k
               PROVE  Cardinality(low(i)) # Cardinality(low(k))
    OBVIOUS
  <2>1. Before(i, k) \/ Before(k, i)
    BY <1>4
  <2> HIDE DEF low
  <2> QED BY <1>5, <1>6, <2>1
<1>8. rank \in Injection(R, 0 .. n - 1)
  <2> HIDE DEF low
  <2>1. rank \in [R -> 0 .. n - 1]
    BY <1>5
  <2>2. \A i, k \in R : rank[i] = rank[k] => i = k
    BY <1>7
  <2> QED BY <2>1, <2>2 DEF Injection, IsInjective
<1>9. \A k \in 1 .. n : \E i \in R : Cardinality(low(i)) = k - 1
  <2> HIDE DEF low, rank
  <2>1. IsFiniteSet(0 .. n - 1) /\ Cardinality(0 .. n - 1) = n
    BY FS_Interval
  <2>2. rank \in Surjection(R, 0 .. n - 1)
    BY <1>3, <1>8, <2>1, FS_Injection
  <2>3. ASSUME NEW k \in 1 .. n  PROVE \E i \in R : Cardinality(low(i)) = k - 1
    <3>1. k - 1 \in 0 .. n - 1
      OBVIOUS
    <3>2. PICK i \in R : rank[i] = k - 1
      BY <2>2, <3>1 DEF Surjection
    <3> QED BY <3>2 DEF rank
  <2> QED BY <2>3
<1>10. \A i \in R : Cardinality(low(i)) + 1 \in 1 .. n
  <2> HIDE DEF low
  <2> QED BY <1>5
<1> QED BY <1>2, <1>3, <1>7, <1>9, <1>10

Enumerates(ids, R) ==
  \E n \in Nat : /\ ids = [k \in 1 .. n |-> ids[k]]
                 /\ \A k \in 1 .. n : ids[k] \in R
                 /\ \A i \in R : \E k \in 1 .. n : ids[k] = i
LEMMA PeriodRowsAre ==
  ASSUME stored \in Seq(Rows), NEW R \in SUBSET DOMAIN stored
  PROVE  Enumerates(ByTime(R), R)
<1> DEFINE nth(k) == CHOOSE i \in R : Cardinality(RowsBefore(R, i)) = k - 1
<1>2. PICK ids : ids = ByTime(R)
  OBVIOUS
<1>3. PICK n \in Nat : n = Cardinality(R)
  BY RanksAre
<1>4. /\ \A k \in 1 .. n : \E i \in R : Cardinality(RowsBefore(R, i)) = k - 1
      /\ \A i \in R : Cardinality(RowsBefore(R, i)) + 1 \in 1 .. n
      /\ \A i, k \in R : Cardinality(RowsBefore(R, i)) = Cardinality(RowsBefore(R, k)) => i = k
  BY <1>3, RanksAre
<1>5. ids = [k \in 1 .. n |-> nth(k)]
  BY <1>2, <1>3, Zenon DEF ByTime
<1>6. \A k \in 1 .. n : nth(k) \in R /\ Cardinality(RowsBefore(R, nth(k))) = k - 1
  BY <1>4
<1> HIDE DEF nth
<1>7. ids = [k \in 1 .. n |-> ids[k]] /\ \A k \in 1 .. n : ids[k] = nth(k)
  BY <1>5
<1>8. ASSUME NEW i \in R  PROVE \E k \in 1 .. n : ids[k] = i
  <2>1. PICK c \in Nat : c = Cardinality(RowsBefore(R, i))
    <3>1. IsFiniteSet(R)
      BY RanksAre
    <3>2. RowsBefore(R, i) \subseteq R
      BY DEF RowsBefore
    <3> QED BY <3>1, <3>2, FS_Subset, FS_CardinalityType
  <2>2. c + 1 \in 1 .. n /\ (c + 1) - 1 = c
    BY <1>4, <2>1
  <2>3. nth(c + 1) \in R /\ Cardinality(RowsBefore(R, nth(c + 1))) = c
    BY <1>6, <2>2
  <2> QED BY <1>4, <1>7, <2>1, <2>2, <2>3
<1> QED BY <1>2, <1>6, <1>7, <1>8 DEF Enumerates

(* A content is as often a leaf of the one tree as of the other.             *)
LEMMA CountsBounded ==
  ASSUME NEW S, NEW a \in Seq(S), NEW T, NEW b \in Seq(T), Root(a) = Root(b), NEW d
  PROVE  Count(a, d) <= Count(b, d) /\ Count(a, d) \in Nat /\ Count(b, d) \in Nat
<1>1. PICK n \in Nat : n = Len(a) /\ DOMAIN a = 1 .. n
  OBVIOUS
<1>2. PICK m \in Nat : m = Len(b) /\ DOMAIN b = 1 .. m
  OBVIOUS
<1>3. PICK f : Matches(f, a, b, n, m)
  BY <1>1, <1>2, RootPins
<1> DEFINE A == {i \in 1 .. n : a[i] = d}
           B == {j \in 1 .. m : b[j] = d}
           g == [i \in A |-> f[i]]
<1>4. g \in Injection(A, B)
  <2>1. \A i \in A : f[i] \in B
    BY <1>3 DEF Matches
  <2>2. g \in [A -> B]
    BY <2>1
  <2>3. \A i, j \in A : g[i] = g[j] => i = j
    BY <1>3 DEF Matches
  <2> QED BY <2>2, <2>3 DEF Injection, IsInjective
<1>5. IsFiniteSet(A) /\ IsFiniteSet(B)
  <2>1. A \subseteq 1 .. n /\ B \subseteq 1 .. m /\ IsFiniteSet(1 .. n) /\ IsFiniteSet(1 .. m)
    BY FS_Interval
  <2> HIDE DEF A, B
  <2> QED BY <2>1, FS_Subset
<1>6. Cardinality(A) <= Cardinality(B) /\ Cardinality(A) \in Nat /\ Cardinality(B) \in Nat
  <2> HIDE DEF A, B, g
  <2> QED BY <1>4, <1>5, FS_Injection, FS_CardinalityType
<1> QED BY <1>1, <1>2, <1>6 DEF Count

LEMMA RootsPinLeaves ==
  ASSUME leaves \in Seq(LeafData), others \in Seq(LeafData)
  PROVE  RootPinsLeaves
<1> SUFFICES ASSUME Root(leaves) = Root(others), NEW d \in LeafData
             PROVE  Count(leaves, d) = Count(others, d)
  BY DEF RootPinsLeaves
<1>1. Count(leaves, d) <= Count(others, d) /\ Count(leaves, d) \in Nat /\ Count(others, d) \in Nat
  BY CountsBounded
<1>2. Count(others, d) <= Count(leaves, d)
  BY CountsBounded
<1> QED BY <1>1, <1>2

(* Compliance reports. What a filed report says, of the rows stored by then. *)
RecordsNow == {BuildRecord(id) : id \in DOMAIN stored}
Listed(r) == {r.report.records[j].event_id : j \in DOMAIN r.report.records}
FiledSound(r) ==
  /\ r.seen \in 0 .. Len(stored)
  /\ r.from \in Nat /\ r.to \in Nat /\ r.from < r.to
  /\ r.report.records \in Seq(RecordsNow)
  /\ r.report.root = Root(r.report.records)
  /\ r.report.risk = [l \in Levels |->
       Cardinality({i \in DOMAIN r.report.records : r.report.records[i].risk_level = l})]
  /\ \A id \in DOMAIN stored : id \in Listed(r) <=> id <= r.seen /\ InPeriod(id, r.org, r.from, r.to)
AuditInv ==
  /\ stored \in Seq(Rows)
  /\ \E S : filed \in Seq(S)
  /\ \A i \in DOMAIN filed : FiledSound(filed[i])

LEMMA RecordIs ==
  ASSUME NEW id
  PROVE  /\ BuildRecord(id).event_id = id
         /\ BuildRecord(id).risk_level \in Levels
         /\ id \in Nat \ {0} => BuildRecord(id).agent_id # <<Anonymous, 0>>
<1>1. PICK e : e = stored[id]
  OBVIOUS
<1>2. BuildRecord(id).event_id = id
  BY DEF BuildRecord
<1>3. BuildRecord(id).agent_id = AgentId(e, id)
  BY <1>1 DEF BuildRecord
<1>4. BuildRecord(id).risk_level = ClassifyRisk(e.kind.task, e.kind.tools, e.kind.sensitive)
  BY <1>1 DEF BuildRecord
<1>5. \A t, u, v : ClassifyRisk(t, u, v) \in Levels
  BY DEF ClassifyRisk, Levels, Low, Medium, High, Critical
<1>6. id \in Nat \ {0} => AgentId(e, id) # <<Anonymous, 0>>
  <2>1. CASE e.kind.agent # Anonymous
    BY <2>1 DEF AgentId
  <2>2. CASE e.kind.agent = Anonymous
    BY <2>2 DEF AgentId
  <2> QED BY <2>1, <2>2
<1> QED BY <1>2, <1>3, <1>4, <1>5, <1>6

LEMMA ListedStored ==
  ASSUME NEW r, r.report.records \in Seq(RecordsNow)
  PROVE  /\ Listed(r) \subseteq DOMAIN stored
         /\ \A j \in DOMAIN r.report.records :
              \E id \in DOMAIN stored : r.report.records[j] = BuildRecord(id)
<1>1. PICK s : s = r.report.records
  OBVIOUS
<1>2. ASSUME NEW j \in DOMAIN s  PROVE \E id \in DOMAIN stored : s[j] = BuildRecord(id)
  <2>1. s[j] \in RecordsNow
    BY <1>1
  <2> QED BY <2>1 DEF RecordsNow
<1>3. ASSUME NEW j \in DOMAIN s  PROVE s[j].event_id \in DOMAIN stored
  BY <1>2, RecordIs
<1> QED BY <1>1, <1>2, <1>3 DEF Listed

(* A row stored later, or late, is not in a report filed before.             *)
LEMMA FiledStays ==
  ASSUME stored \in Seq(Rows), NEW e, stored' = Append(stored, e), NEW r, FiledSound(r)
  PROVE  FiledSound(r)'
<1>1. PICK n \in Nat : n = Len(stored) /\ DOMAIN stored = 1 .. n
  OBVIOUS
<1>2. /\ Len(stored') = n + 1 /\ DOMAIN stored' = 1 .. n + 1
      /\ \A id \in 1 .. n : stored'[id] = stored[id]
  BY <1>1
<1>3. \A id \in 1 .. n : BuildRecord(id)' = BuildRecord(id)
  BY <1>2 DEF BuildRecord
<1>4. RecordsNow \subseteq RecordsNow'
  <2> SUFFICES ASSUME NEW id \in 1 .. n  PROVE BuildRecord(id) \in RecordsNow'
    BY <1>1 DEF RecordsNow
  <2>1. id \in DOMAIN stored'
    BY <1>2
  <2>2. BuildRecord(id)' \in RecordsNow'
    BY <2>1 DEF RecordsNow
  <2> QED BY <1>3, <2>2
<1>5. r.report.records \in Seq(RecordsNow')
  <2>1. r.report.records \in Seq(RecordsNow)
    BY DEF FiledSound
  <2> QED BY <1>4, <2>1
<1>6. r.seen \in 0 .. n /\ Listed(r) \subseteq 1 .. n
  BY <1>1, ListedStored DEF FiledSound
<1>7. ASSUME NEW id \in 1 .. n + 1
      PROVE  id \in Listed(r) <=> id <= r.seen /\ InPeriod(id, r.org, r.from, r.to)'
  <2>1. CASE id \in 1 .. n
    <3>1. id \in Listed(r) <=> id <= r.seen /\ InPeriod(id, r.org, r.from, r.to)
      BY <1>1, <2>1 DEF FiledSound
    <3>2. InPeriod(id, r.org, r.from, r.to)' <=> InPeriod(id, r.org, r.from, r.to)
      BY <1>2, <2>1 DEF InPeriod
    <3> QED BY <3>1, <3>2
  <2>2. CASE id \notin 1 .. n
    BY <1>6, <2>2
  <2> QED BY <2>1, <2>2
<1>8. r.seen \in 0 .. n + 1
  BY <1>6
<1> QED BY <1>2, <1>5, <1>7, <1>8 DEF FiledSound, Listed

LEMMA ReportIs ==
  ASSUME stored \in Seq(Rows), NEW org, NEW from \in Nat, NEW to \in Nat, from < to,
         NEW r, r.org = org, r.from = from, r.to = to, r.seen = Len(stored),
         r.report = GenerateReport(BuildAuditRecords(org, from, to))
  PROVE  FiledSound(r)
<1>1. PICK n \in Nat : n = Len(stored) /\ DOMAIN stored = 1 .. n
  OBVIOUS
<1>2. PICK R : R = {i \in DOMAIN stored : InPeriod(i, org, from, to)} /\ R \in SUBSET DOMAIN stored
  OBVIOUS
<1>3. PICK ids : ids = ByTime(R)
  OBVIOUS
<1>4. PICK m \in Nat : /\ ids = [k \in 1 .. m |-> ids[k]]
                       /\ \A k \in 1 .. m : ids[k] \in R
                       /\ \A i \in R : \E k \in 1 .. m : ids[k] = i
  <2>1. Enumerates(ids, R)
    BY <1>2, <1>3, PeriodRowsAre
  <2> QED BY <2>1 DEF Enumerates
<1>5. PICK s : s = BuildAuditRecords(org, from, to)
  OBVIOUS
<1>6. ids = PeriodRows(org, from, to)
  BY <1>2, <1>3, Zenon DEF PeriodRows
<1>7. DOMAIN ids = 1 .. m
  BY <1>4
<1>8. s = [k \in 1 .. m |-> BuildRecord(ids[k])]
  BY <1>5, <1>6, <1>7 DEF BuildAuditRecords
<1>9. s \in Seq(RecordsNow) /\ DOMAIN s = 1 .. m /\ \A k \in 1 .. m : s[k] = BuildRecord(ids[k])
  <2>1. \A k \in 1 .. m : BuildRecord(ids[k]) \in RecordsNow
    BY <1>2, <1>4 DEF RecordsNow
  <2> QED BY <1>8, <2>1
<1>10. PICK p : p = GenerateReport(s)
  OBVIOUS
<1>11. p.records = s
  BY <1>10 DEF GenerateReport
<1>12. p.root = Root(s)
  <2>1. p.root = Root([i \in DOMAIN s |-> Sealed(s[i])])
    BY <1>10 DEF GenerateReport
  <2>2. [i \in DOMAIN s |-> Sealed(s[i])] = s
    BY <1>9 DEF Sealed
  <2> QED BY <2>1, <2>2
<1>13. p.risk = [l \in Levels |-> Cardinality({i \in DOMAIN s : s[i].risk_level = l})]
  BY <1>10 DEF GenerateReport
<1>14. /\ r.org = org /\ r.from = from /\ r.to = to /\ r.seen = n /\ r.report = p
  BY <1>1, <1>5, <1>10
<1>15. ASSUME NEW id \in 1 .. n  PROVE id \in Listed(r) <=> InPeriod(id, org, from, to)
  <2>1. Listed(r) = {s[j].event_id : j \in 1 .. m}
    BY <1>9, <1>11, <1>14 DEF Listed
  <2>2. \A j \in 1 .. m : s[j].event_id = ids[j]
    BY <1>9, RecordIs
  <2>3. id \in Listed(r) <=> \E j \in 1 .. m : ids[j] = id
    BY <2>1, <2>2
  <2>4. id \in R <=> \E j \in 1 .. m : ids[j] = id
    BY <1>4
  <2> QED BY <1>1, <1>2, <2>3, <2>4
<1>16. /\ r.report.records = s /\ r.report.root = Root(s)
       /\ r.report.risk = [l \in Levels |-> Cardinality({i \in DOMAIN s : s[i].risk_level = l})]
  BY <1>11, <1>12, <1>13, <1>14
<1>17. r.report.risk = [l \in Levels |->
          Cardinality({i \in DOMAIN r.report.records : r.report.records[i].risk_level = l})]
  BY <1>16, Zenon
<1>18. /\ r.seen \in 0 .. Len(stored) /\ r.from \in Nat /\ r.to \in Nat /\ r.from < r.to
       /\ r.report.records \in Seq(RecordsNow) /\ r.report.root = Root(r.report.records)
  BY <1>1, <1>9, <1>14, <1>16
<1>19. \A id \in DOMAIN stored :
         id \in Listed(r) <=> id <= r.seen /\ InPeriod(id, r.org, r.from, r.to)
  BY <1>1, <1>14, <1>15
<1> QED BY <1>17, <1>18, <1>19 DEF FiledSound

LEMMA AuditStarts == AuditInit => AuditInv
<1> SUFFICES ASSUME AuditInit  PROVE AuditInv
  OBVIOUS
<1>1. stored \in Seq(Rows) /\ filed \in Seq({}) /\ DOMAIN filed = {}
  BY DEF AuditInit
<1> QED BY <1>1 DEF AuditInv

LEMMA AuditSteps == AuditInv /\ [AuditNext]_auditVars => AuditInv'
<1> SUFFICES ASSUME AuditInv, [AuditNext]_auditVars  PROVE AuditInv'
  OBVIOUS
<1>1. stored \in Seq(Rows)
  BY DEF AuditInv
<1>2. PICK S : filed \in Seq(S)
  BY DEF AuditInv
<1>3. \A i \in DOMAIN filed : FiledSound(filed[i])
  BY DEF AuditInv
<1>4. CASE \E kind \in EventKinds, org \in AuditOrgs, at \in 0 .. MaxClock : StoreEvent(kind, org, at)
  <2>1. PICK e \in Rows : stored' = Append(stored, e) /\ filed' = filed
    BY <1>4, AuditAssumption DEF StoreEvent, Rows
  <2>2. stored' \in Seq(Rows)
    BY <1>1, <2>1
  <2>3. \A i \in DOMAIN filed : FiledSound(filed[i])'
    <3> SUFFICES ASSUME NEW i \in DOMAIN filed  PROVE FiledSound(filed[i])'
      OBVIOUS
    <3>1. PICK r : r = filed[i] /\ r = filed'[i] /\ FiledSound(r)
      BY <1>3, <2>1
    <3>2. FiledSound(r)'
      BY <1>1, <2>1, <3>1, FiledStays
    <3> QED BY <3>1, <3>2 DEF FiledSound, Listed
  <2> QED BY <1>2, <2>1, <2>2, <2>3 DEF AuditInv
<1>5. CASE \E org \in AuditOrgs, from \in 0 .. MaxClock :
             \E to \in from + 1 .. MaxClock + 1 : File(org, from, to)
  <2>0. PICK org \in AuditOrgs, from \in 0 .. MaxClock :
          \E to \in from + 1 .. MaxClock + 1 : File(org, from, to)
    BY <1>5
  <2>1. PICK to \in from + 1 .. MaxClock + 1 : File(org, from, to)
    BY <2>0
  <2>2. from \in Nat /\ to \in Nat /\ from < to
    BY AuditAssumption
  <2>3. PICK r : r = [org |-> org, from |-> from, to |-> to, seen |-> Len(stored),
                      report |-> GenerateReport(BuildAuditRecords(org, from, to))]
    OBVIOUS
  <2>4. FiledSound(r)
    <3>1. /\ r.org = org /\ r.from = from /\ r.to = to /\ r.seen = Len(stored)
          /\ r.report = GenerateReport(BuildAuditRecords(org, from, to))
      BY <2>3
    <3> HIDE <2>3
    <3> QED BY <1>1, <2>2, <3>1, ReportIs
  <2>5. filed' = Append(filed, r) /\ stored' = stored
    BY <2>1, <2>3 DEF File
  <2> HIDE <2>3
  <2>6. filed' \in Seq(S \cup {r})
    BY <1>2, <2>5
  <2>7. ASSUME NEW i \in DOMAIN filed'  PROVE FiledSound(filed'[i])
    BY <1>2, <1>3, <2>4, <2>5
  <2>8. \A i \in DOMAIN filed' : FiledSound(filed[i])'
    <3> SUFFICES ASSUME NEW i \in DOMAIN filed'  PROVE FiledSound(filed[i])'
      OBVIOUS
    <3>1. RecordsNow' = RecordsNow
      BY <2>5 DEF RecordsNow, BuildRecord
    <3> QED BY <2>5, <2>7, <3>1 DEF FiledSound, Listed, InPeriod
  <2> QED BY <1>1, <2>5, <2>6, <2>8 DEF AuditInv
<1>6. CASE UNCHANGED auditVars
  <2>1. stored' = stored /\ filed' = filed
    BY <1>6 DEF auditVars
  <2>2. RecordsNow' = RecordsNow
    BY <2>1 DEF RecordsNow, BuildRecord
  <2>3. \A i \in DOMAIN filed : FiledSound(filed[i])'
    BY <1>3, <2>1, <2>2 DEF FiledSound, Listed, InPeriod
  <2> QED BY <1>1, <1>2, <2>1, <2>3 DEF AuditInv
<1> QED BY <1>4, <1>5, <1>6 DEF AuditNext

(* What a filed report is evidence of.                                       *)
LEMMA ReportsPartition == AuditInv => ConsecutiveReportsPartition
<1> SUFFICES ASSUME AuditInv, NEW i \in DOMAIN filed, NEW j \in DOMAIN filed,
                    filed[i].org = filed[j].org, filed[i].to = filed[j].from,
                    NEW id \in (1 .. filed[i].seen) \cap (1 .. filed[j].seen),
                    stored[id].org = filed[i].org,
                    stored[id].at \in filed[i].from .. filed[j].to - 1
             PROVE  (id \in ListedIn(i)) # (id \in ListedIn(j))
  BY DEF ConsecutiveReportsPartition
<1>1. PICK a : a = filed[i] /\ FiledSound(a)
  BY DEF AuditInv
<1>2. PICK b : b = filed[j] /\ FiledSound(b)
  BY DEF AuditInv
<1>3. ListedIn(i) = Listed(a) /\ ListedIn(j) = Listed(b)
  BY <1>1, <1>2 DEF ListedIn, Listed
<1>4. Len(stored) \in Nat /\ DOMAIN stored = 1 .. Len(stored)
      /\ \A k \in 1 .. Len(stored) : stored[k] \in Rows
  BY DEF AuditInv
<1>5. id \in DOMAIN stored /\ id <= a.seen /\ id <= b.seen /\ stored[id].at \in Nat
  BY <1>1, <1>2, <1>4 DEF FiledSound, Rows
<1>6. id \in Listed(a) <=> stored[id].at \in a.from .. a.to - 1
  BY <1>1, <1>5 DEF FiledSound, InPeriod
<1>7. id \in Listed(b) <=> stored[id].at \in b.from .. b.to - 1
  BY <1>1, <1>2, <1>5 DEF FiledSound, InPeriod
<1>8. PICK t \in Nat : t = stored[id].at
  BY <1>5
<1>9. (t \in a.from .. a.to - 1) <=> ~(t \in b.from .. b.to - 1)
  BY SMTT(30), <1>1, <1>2, <1>8 DEF FiledSound
<1> QED BY <1>3, <1>6, <1>7, <1>8, <1>9

LEMMA SameRootListed ==
  ASSUME stored \in Seq(Rows), NEW a, NEW b, FiledSound(a), FiledSound(b),
         a.report.root = b.report.root
  PROVE  Listed(a) \subseteq Listed(b)
<1>1. PICK s : s = a.report.records /\ s \in Seq(RecordsNow) /\ a.report.root = Root(s)
  BY DEF FiledSound
<1>2. PICK t : t = b.report.records /\ t \in Seq(RecordsNow) /\ b.report.root = Root(t)
  BY DEF FiledSound
<1>3. PICK f : Matches(f, s, t, Len(s), Len(t))
  BY <1>1, <1>2, RootPins
<1>4. DOMAIN s = 1 .. Len(s) /\ DOMAIN t = 1 .. Len(t)
  BY <1>1, <1>2
<1>5. \A i \in DOMAIN s : f[i] \in DOMAIN t /\ s[i] = t[f[i]]
  BY <1>3, <1>4 DEF Matches
<1>6. Listed(a) = {s[j].event_id : j \in DOMAIN s}
  BY <1>1 DEF Listed
<1>7. Listed(b) = {t[j].event_id : j \in DOMAIN t}
  BY <1>2 DEF Listed
<1> QED BY <1>5, <1>6, <1>7

LEMMA RootsName == AuditInv => RootsNameTheirEvents
<1> SUFFICES ASSUME AuditInv, NEW i \in DOMAIN filed, NEW j \in DOMAIN filed,
                    filed[i].report.root = filed[j].report.root
             PROVE  ListedIn(i) = ListedIn(j)
  BY DEF RootsNameTheirEvents
<1>1. PICK a : a = filed[i] /\ FiledSound(a)
  BY DEF AuditInv
<1>2. PICK b : b = filed[j] /\ FiledSound(b)
  BY DEF AuditInv
<1>3. a.report.root = b.report.root
  BY <1>1, <1>2
<1>4. Listed(a) = Listed(b)
  <2>1. stored \in Seq(Rows) /\ b.report.root = a.report.root
    BY <1>3 DEF AuditInv
  <2>2. Listed(a) \subseteq Listed(b)
    BY <1>1, <1>2, <1>3, <2>1, SameRootListed
  <2>3. Listed(b) \subseteq Listed(a)
    BY <1>1, <1>2, <2>1, SameRootListed
  <2> QED BY <2>2, <2>3
<1> QED BY ZenonT(40), <1>1, <1>2, <1>4 DEF ListedIn, Listed

LEMMA ReportsComply == AuditInv => ReportsWithEventsComply
<1> SUFFICES ASSUME AuditInv, NEW i \in DOMAIN filed, NEW f \in Frameworks
             PROVE  Violations(filed[i].report, f) = {} <=> ListedIn(i) # {}
  BY DEF ReportsWithEventsComply
<1>1. PICK r : r = filed[i] /\ FiledSound(r)
  BY DEF AuditInv
<1>2. PICK p : p = r.report
  OBVIOUS
<1>3. PICK s : s = p.records /\ s \in Seq(RecordsNow)
  BY <1>1, <1>2 DEF FiledSound
<1>4. ListedIn(i) = {s[j].event_id : j \in DOMAIN s}
  BY <1>1, <1>2, <1>3 DEF ListedIn
<1>5. PICK n \in Nat : n = Len(s) /\ DOMAIN s = 1 .. n
  BY <1>3
<1>6. CASE s = <<>>
  <2>1. ListedIn(i) = {}
    BY <1>4, <1>6
  <2>2. Violations(p, f) # {}
    BY <1>3, <1>6 DEF Violations
  <2> QED BY <1>1, <1>2, <2>1, <2>2
<1>7. CASE s # <<>>
  <2>1. 1 \in DOMAIN s
    BY <1>3, <1>5, <1>7
  <2>2. ListedIn(i) # {}
    BY <1>4, <2>1
  <2>3. \A j \in DOMAIN s : s[j].agent_id # <<Anonymous, 0>> /\ s[j].risk_level \in Levels
    <3> SUFFICES ASSUME NEW j \in DOMAIN s
                 PROVE  s[j].agent_id # <<Anonymous, 0>> /\ s[j].risk_level \in Levels
      OBVIOUS
    <3>1. PICK id \in DOMAIN stored : s[j] = BuildRecord(id)
      BY <1>2, <1>3, ListedStored
    <3>2. id \in Nat \ {0}
      BY DEF AuditInv
    <3> QED BY <3>1, <3>2, RecordIs
  <2>4. PICK l \in Levels : l = s[1].risk_level
    BY <2>1, <2>3
  <2>5. PICK A : A = {k \in DOMAIN s : s[k].risk_level = l} /\ 1 \in A
    BY <2>1, <2>4
  <2>6. p.risk[l] = Cardinality(A)
    <3>1. p.risk = [m \in Levels |-> Cardinality({k \in DOMAIN s : s[k].risk_level = m})]
      BY <1>1, <1>2, <1>3, Zenon DEF FiledSound
    <3>2. p.risk[l] = Cardinality({k \in DOMAIN s : s[k].risk_level = l})
      BY <3>1, Zenon
    <3> QED BY <2>5, <3>2
  <2>7. Cardinality(A) # 0
    <3>1. A \subseteq 1 .. n /\ IsFiniteSet(1 .. n)
      BY <1>5, <2>5, FS_Interval
    <3>2. IsFiniteSet(A)
      BY <3>1, FS_Subset
    <3> QED BY <2>5, <3>2, FS_EmptySet
  <2>8. Violations(p, f) = {}
    <3>1. {k \in DOMAIN p.records : /\ "agent_id" \in RequiredFields(f)
                                    /\ p.records[k].agent_id = <<Anonymous, 0>>} = {}
      BY <1>3, <2>3
    <3>2. ~(\A m \in Levels : p.risk[m] = 0)
      BY <2>6, <2>7
    <3>3. p.records # <<>>
      BY <1>3, <1>7
    <3> QED BY <3>1, <3>2, <3>3, Zenon DEF Violations
  <2> QED BY <1>1, <1>2, <2>2, <2>8
<1> QED BY <1>6, <1>7

LEMMA SignalsRaiseRisk == AuditInv => SignalsNeverLowerRisk
<1> SUFFICES ASSUME AuditInv, NEW i \in DOMAIN stored, NEW t \in BOOLEAN, NEW u \in BOOLEAN,
                    stored[i].kind.tools => t, stored[i].kind.sensitive => u
             PROVE  LET k == stored[i].kind IN
                    ClassifyRisk(k.task, k.tools, k.sensitive) <= ClassifyRisk(k.task, t, u)
  BY DEF SignalsNeverLowerRisk
<1>1. stored[i] \in Rows
  BY DEF AuditInv
<1>2. PICK k \in EventKinds : k = stored[i].kind
  BY <1>1 DEF Rows
<1>3. k.tools \in BOOLEAN /\ k.sensitive \in BOOLEAN
  BY AuditAssumption
<1>4. \A c : /\ ClassifyRisk(c, k.tools, k.sensitive) <= ClassifyRisk(c, t, u)
  <2>1. (k.tools => t) /\ (k.sensitive => u)
    BY <1>2
  <2> QED BY <1>3, <2>1 DEF ClassifyRisk, Low, Medium, High, Critical
<1> QED BY <1>2, <1>4

(* Theorem: a filed report is evidence, for any events and any number of     *)
(* them: a Merkle proof verifies its leaf and no other content, one root has *)
(* one multiset of leaves, and reports partition, name and grade the events  *)
(* of their periods, however late events are stored.                         *)
THEOREM ReportsAreEvidence ==
  (MerkleInit /\ [][MerkleNext]_merkleVars) /\ (AuditInit /\ [][AuditNext]_auditVars)
    => []RootsAreEvidence
<1> DEFINE Trees == leaves \in Seq(LeafData) /\ others \in Seq(LeafData)
<1>1. MerkleInit => Trees
  BY DEF MerkleInit
<1>2. Trees /\ [MerkleNext]_merkleVars => Trees'
  <2> SUFFICES ASSUME Trees, [MerkleNext]_merkleVars  PROVE Trees'
    OBVIOUS
  <2>1. ASSUME NEW d \in LeafData, leaves' = Append(leaves, d), others' = others
        PROVE  Trees'
    <3>1. Append(leaves, d) \in Seq(LeafData)
      OBVIOUS
    <3> QED BY <2>1, <3>1
  <2>2. ASSUME NEW d \in LeafData, others' = Append(others, d), leaves' = leaves
        PROVE  Trees'
    <3>1. Append(others, d) \in Seq(LeafData)
      OBVIOUS
    <3> QED BY <2>2, <3>1
  <2>3. CASE UNCHANGED merkleVars
    BY <2>3 DEF merkleVars
  <2> HIDE DEF Trees
  <2> QED BY <2>1, <2>2, <2>3, Zenon DEF MerkleNext
<1>3. Trees /\ AuditInv => RootsAreEvidence
  <2> SUFFICES ASSUME Trees, AuditInv  PROVE RootsAreEvidence
    OBVIOUS
  <2>1. ProofsVerify /\ RootPinsLeaves
    BY LeavesProved, RootsPinLeaves
  <2> QED BY <2>1, ReportsPartition, RootsName, ReportsComply, SignalsRaiseRisk DEF RootsAreEvidence
<1> HIDE DEF Trees
<1> QED BY <1>1, <1>2, <1>3, AuditStarts, AuditSteps, PTL

-----------------------------------------------------------------------------
(* Billing. A reconciliation has one result for every source, an invoice     *)
(* line or usage that no line was about, in some order (Lists).              *)
(* What is within a part of each term is within that part of their sum.      *)
SizeWithin(d, t, c) == SizeOf(d) * 100 <= t * c
LEMMA WithinAdds ==
  ASSUME NEW t \in Nat, NEW a \in Int, NEW b \in Int, NEW c \in Int, NEW d \in Int,
         SizeWithin(a, t, b), SizeWithin(c, t, d)
  PROVE  SizeWithin(a + c, t, b + d)
<1>1. PICK p \in Int : p = t * b
  OBVIOUS
<1>2. PICK q \in Int : q = t * d
  OBVIOUS
<1>3. t * (b + d) = p + q
  BY <1>1, <1>2
<1>4. SizeOf(a) * 100 <= p /\ SizeOf(c) * 100 <= q
  BY <1>1, <1>2 DEF SizeWithin
<1>5. SizeOf(a + c) * 100 <= p + q
  BY <1>4 DEF SizeOf
<1> QED BY <1>3, <1>5 DEF SizeWithin

LEMMA SumWithin ==
  ASSUME NEW S, IsFiniteSet(S), NEW t \in Nat,
         NEW f, \A x \in S : f[x] \in Int, NEW g, \A x \in S : g[x] \in Int,
         \A x \in S : SizeWithin(f[x] - g[x], t, f[x])
  PROVE  SizeWithin(SumFunctionOnSet(f, S) - SumFunctionOnSet(g, S), t, SumFunctionOnSet(f, S))
<1> DEFINE F == {T \in SUBSET S :
                  /\ SumFunctionOnSet(f, T) \in Int /\ SumFunctionOnSet(g, T) \in Int
                  /\ SizeWithin(SumFunctionOnSet(f, T) - SumFunctionOnSet(g, T), t,
                                SumFunctionOnSet(f, T))}
<1>1. {} \in F
  BY SumEmpty DEF SizeWithin, SizeOf
<1>2. ASSUME NEW T \in SUBSET S, NEW x \in S \ T, T \in F
      PROVE  T \cup {x} \in F
  <2>1. IsFiniteSet(T)
    BY FS_Subset
  <2>2. PICK a \in Int : a = SumFunctionOnSet(f, T)
    BY <1>2
  <2>3. PICK b \in Int : b = SumFunctionOnSet(g, T)
    BY <1>2
  <2>4. PICK c \in Int : c = f[x]
    OBVIOUS
  <2>5. PICK d \in Int : d = g[x]
    OBVIOUS
  <2>6. SumFunctionOnSet(f, T \cup {x}) = c + a
    BY <2>1, <2>2, <2>4, SumAdd
  <2>7. SumFunctionOnSet(g, T \cup {x}) = d + b
    BY <2>1, <2>3, <2>5, SumAdd
  <2>8. SizeWithin(a - b, t, a)
    BY <1>2, <2>2, <2>3
  <2>9. SizeWithin(c - d, t, c)
    BY <2>4, <2>5
  <2>10. SizeWithin((c - d) + (a - b), t, c + a)
    BY <2>8, <2>9, WithinAdds
  <2>11. (c - d) + (a - b) = (c + a) - (d + b) /\ c + a \in Int /\ d + b \in Int
    OBVIOUS
  <2>12. SizeWithin((c + a) - (d + b), t, c + a)
    BY <2>10, <2>11
  <2>13. /\ SumFunctionOnSet(f, T \cup {x}) \in Int /\ SumFunctionOnSet(g, T \cup {x}) \in Int
         /\ SizeWithin(SumFunctionOnSet(f, T \cup {x}) - SumFunctionOnSet(g, T \cup {x}), t,
                       SumFunctionOnSet(f, T \cup {x}))
    BY <2>6, <2>7, <2>11, <2>12
  <2> QED BY <2>13
<1>3. S \in F
  <2> HIDE DEF F
  <2> QED BY <1>1, <1>2, FiniteSetSetInduction
<1> QED BY <1>3

(* Ordering numbers the members of a finite set, each once.                  *)
Numbers(f, S) ==
  \E n \in Nat : /\ n = Cardinality(S)
                 /\ f = [k \in 1 .. n |-> f[k]]
                 /\ \A k \in 1 .. n : f[k] \in S
                 /\ \A k, l \in 1 .. n : f[k] = f[l] => k = l
                 /\ \A i \in S : \E k \in 1 .. n : f[k] = i
StrictlyOrders(R, S) ==
  /\ \A i, j, k \in S : <<i, j>> \in R /\ <<j, k>> \in R => <<i, k>> \in R
  /\ \A i, j \in S : i # j => <<i, j>> \in R \/ <<j, i>> \in R
  /\ \A i \in S : <<i, i>> \notin R

LEMMA FewerInside ==
  ASSUME NEW A, NEW B, IsFiniteSet(B), A \in SUBSET B, NEW x, x \in B \ A
  PROVE  Cardinality(A) \in Nat /\ Cardinality(B) \in Nat /\ Cardinality(A) < Cardinality(B)
<1>1. IsFiniteSet(B \ {x}) /\ Cardinality(B \ {x}) = Cardinality(B) - 1
  BY FS_RemoveElement
<1>2. A \subseteq B \ {x}
  OBVIOUS
<1>3. Cardinality(A) <= Cardinality(B \ {x}) /\ IsFiniteSet(A)
  BY <1>1, <1>2, FS_Subset
<1> QED BY <1>1, <1>3, FS_CardinalityType

LEMMA OrderNumbers ==
  ASSUME NEW S, IsFiniteSet(S), NEW R, StrictlyOrders(R, S)
  PROVE  Numbers(InOrder(S, R), S)
<1> DEFINE low(i) == {j \in S : <<j, i>> \in R}
           rank == [i \in S |-> Cardinality(low(i))]
           nth(k) == CHOOSE i \in S : Cardinality(low(i)) = k - 1
<1>1. PICK n \in Nat : n = Cardinality(S)
  BY FS_CardinalityType
<1>2. ASSUME NEW i \in S  PROVE Cardinality(low(i)) < n /\ Cardinality(low(i)) \in Nat
  <2>1. low(i) \in SUBSET S /\ i \in S \ low(i)
    BY DEF StrictlyOrders
  <2> HIDE DEF low
  <2> QED BY <1>1, <2>1, FewerInside
<1>3. ASSUME NEW i \in S, NEW k \in S, <<i, k>> \in R
      PROVE  Cardinality(low(i)) < Cardinality(low(k))
  <2>1. low(i) \in SUBSET low(k) /\ i \in low(k) \ low(i)
    BY <1>3 DEF StrictlyOrders
  <2>2. low(k) \in SUBSET S
    OBVIOUS
  <2> HIDE DEF low
  <2>3. IsFiniteSet(low(k))
    BY <2>2, FS_Subset
  <2> QED BY <2>1, <2>3, FewerInside
<1>4. \A i, k \in S : Cardinality(low(i)) = Cardinality(low(k)) => i = k
  <2> SUFFICES ASSUME NEW i \in S, NEW k \in S, i # k
               PROVE  Cardinality(low(i)) # Cardinality(low(k))
    OBVIOUS
  <2>1. <<i, k>> \in R \/ <<k, i>> \in R
    BY DEF StrictlyOrders
  <2> HIDE DEF low
  <2> QED BY <1>2, <1>3, <2>1
<1>5. \A k \in 1 .. n : \E i \in S : Cardinality(low(i)) = k - 1
  <2> HIDE DEF low
  <2>1. IsFiniteSet(0 .. n - 1) /\ Cardinality(0 .. n - 1) = n
    BY FS_Interval
  <2>2. rank \in [S -> 0 .. n - 1]
    BY <1>2
  <2>3. \A i, k \in S : rank[i] = rank[k] => i = k
    BY <1>4
  <2>4. rank \in Injection(S, 0 .. n - 1)
    BY <2>2, <2>3 DEF Injection, IsInjective
  <2> HIDE DEF rank
  <2>5. rank \in Surjection(S, 0 .. n - 1)
    BY <1>1, <2>1, <2>4, FS_Injection
  <2>6. ASSUME NEW k \in 1 .. n  PROVE \E i \in S : Cardinality(low(i)) = k - 1
    <3>1. k - 1 \in 0 .. n - 1
      OBVIOUS
    <3>2. PICK i \in S : rank[i] = k - 1
      BY <2>5, <3>1 DEF Surjection
    <3> QED BY <3>2 DEF rank
  <2> QED BY <2>6
<1>6. PICK ids : ids = InOrder(S, R)
  OBVIOUS
<1>7. ids = [k \in 1 .. n |-> nth(k)]
  BY <1>1, <1>6, Zenon DEF InOrder
<1> HIDE DEF low
<1>8. \A k \in 1 .. n : nth(k) \in S /\ Cardinality(low(nth(k))) = k - 1
  BY <1>5
<1> HIDE DEF nth
<1>9. ids = [k \in 1 .. n |-> ids[k]] /\ \A k \in 1 .. n : ids[k] = nth(k)
  BY <1>7
<1>10. \A k, l \in 1 .. n : ids[k] = ids[l] => k = l
  BY <1>8, <1>9
<1>11. ASSUME NEW i \in S  PROVE \E k \in 1 .. n : ids[k] = i
  <2>1. PICK c \in Nat : c = Cardinality(low(i)) /\ c < n
    BY <1>2
  <2>2. c + 1 \in 1 .. n /\ (c + 1) - 1 = c
    BY <2>1
  <2>3. nth(c + 1) \in S /\ Cardinality(low(nth(c + 1))) = c
    BY <1>8, <2>2
  <2> QED BY <1>4, <1>9, <2>1, <2>2, <2>3
<1> QED BY SMTT(30), <1>1, <1>6, <1>8, <1>9, <1>10, <1>11 DEF Numbers

(* A set listed in any order.                                                *)
LEMMA ListNumbers ==
  ASSUME NEW S, IsFiniteSet(S)
  PROVE  Numbers(SetToSeq(S), S)
<1>1. PICK n \in Nat : n = Cardinality(S)
  BY FS_CardinalityType
<1>2. PICK m \in Nat : ExistsBijection(1 .. m, S)
  BY FS_NatBijection
<1>3. m = n
  BY <1>1, <1>2, FS_CountingElements
<1>4. \E f \in [1 .. n -> S] : IsInjective(f)
  BY <1>2, <1>3 DEF ExistsBijection, Bijection, Injection, IsInjective
<1>5. PICK f : f = SetToSeq(S)
  OBVIOUS
<1>6. f \in [1 .. n -> S] /\ IsInjective(f)
  BY <1>1, <1>4, <1>5 DEF SetToSeq
<1>7. IsFiniteSet(1 .. n) /\ Cardinality(1 .. n) = n
  BY FS_Interval
<1>8. f \in Surjection(1 .. n, S)
  <2>1. f \in Injection(1 .. n, S)
    BY <1>6 DEF Injection, IsInjective
  <2> QED BY <1>1, <1>7, <2>1, FS_Injection
<1>9. \A i \in S : \E k \in 1 .. n : f[k] = i
  BY <1>8 DEF Surjection
<1>10. \A k, l \in 1 .. n : f[k] = f[l] => k = l
  BY <1>6 DEF IsInjective
<1> QED BY <1>1, <1>5, <1>6, <1>9, <1>10 DEF Numbers

(* What a result is about: an invoice line, or usage no line was about.      *)
BilledLines == [provider : Billers, model : BilledModels \cup {AllModels}, tokens : Int, cost : Int]
ObservedInv ==
  /\ IsFiniteSet(DOMAIN observed) /\ DOMAIN observed \subseteq Billers \X BilledModels
  /\ \A k \in DOMAIN observed : observed[k] \in [tokens : Nat, cost : Nat]
Sources(ln) ==
  {<<"line", i>> : i \in 1 .. Len(ln)} \cup {<<"key", k>> : k \in DOMAIN observed \ Matched(ln)}
ResultOf(ln, s) == IF s[1] = "line" THEN LineResult(ln[s[2]]) ELSE UnbilledResult(s[2])

LEMMA SourceIs ==
  ASSUME NEW ln, NEW s \in Sources(ln)
  PROVE  \/ \E i \in 1 .. Len(ln) : s = <<"line", i>> /\ ResultOf(ln, s) = LineResult(ln[i])
         \/ \E k \in DOMAIN observed \ Matched(ln) :
              s = <<"key", k>> /\ ResultOf(ln, s) = UnbilledResult(k)
<1>1. CASE s \in {<<"line", i>> : i \in 1 .. Len(ln)}
  <2>1. PICK i \in 1 .. Len(ln) : s = <<"line", i>>
    BY <1>1
  <2>2. s[1] = "line" /\ s[2] = i
    BY <2>1
  <2> QED BY <2>1, <2>2 DEF ResultOf
<1>2. CASE s \in {<<"key", k>> : k \in DOMAIN observed \ Matched(ln)}
  <2>1. PICK k \in DOMAIN observed \ Matched(ln) : s = <<"key", k>>
    BY <1>2
  <2>2. s[1] = "key" /\ s[2] = k
    BY <2>1
  <2> QED BY <2>1, <2>2 DEF ResultOf
<1> QED BY <1>1, <1>2 DEF Sources

(* Amounts are numbers, and what is observed is never below zero.            *)
SeenNat(seen) == seen.tokens \in Nat /\ seen.cost \in Nat
LEMMA AggregatedNat ==
  ASSUME ObservedInv, NEW p
  PROVE  SeenNat(Aggregated(p))
<1>1. IsFiniteSet(ObservedOf(p)) /\ ObservedOf(p) \subseteq DOMAIN observed
  BY FS_Subset DEF ObservedOf, ObservedInv
<1>2. \A k \in ObservedOf(p) : TokensSeen[k] \in Nat /\ CostSeen[k] \in Nat
  BY <1>1 DEF TokensSeen, CostSeen, ObservedInv
<1>3. SumFunctionOnSet(TokensSeen, ObservedOf(p)) \in Nat
  BY <1>1, <1>2, SumNat
<1>4. SumFunctionOnSet(CostSeen, ObservedOf(p)) \in Nat
  BY <1>1, <1>2, SumNat
<1> QED BY <1>3, <1>4 DEF Aggregated, SeenNat

LEMMA SeenIsNat ==
  ASSUME ObservedInv, NEW line
  PROVE  SeenNat(ObservedFor(line))
<1>1. CASE line.model = AllModels
  BY <1>1, AggregatedNat DEF ObservedFor
<1>2. CASE line.model # AllModels /\ <<line.provider, line.model>> \in DOMAIN observed
  BY <1>2 DEF ObservedFor, ObservedInv, SeenNat
<1>3. CASE line.model # AllModels /\ <<line.provider, line.model>> \notin DOMAIN observed
  BY <1>3 DEF ObservedFor, Nothing, SeenNat
<1> QED BY <1>1, <1>2, <1>3

Typed(r) ==
  /\ SeenNat(r.observed) /\ r.billed.tokens \in Int /\ r.billed.cost \in Int
  /\ r.discrepancy = r.billed.cost - r.observed.cost
  /\ r.notable = (Exceeds(r.observed.tokens, r.billed.tokens)
                  \/ Exceeds(r.observed.cost, r.billed.cost))
LEMMA ResultTyped ==
  ASSUME ObservedInv, NEW ln \in Seq(BilledLines), NEW s \in Sources(ln)
  PROVE  Typed(ResultOf(ln, s))
<1>1. ASSUME NEW i \in 1 .. Len(ln)  PROVE Typed(LineResult(ln[i]))
  <2>1. ln[i] \in BilledLines
    OBVIOUS
  <2>2. ln[i].tokens \in Int /\ ln[i].cost \in Int
    BY <2>1 DEF BilledLines
  <2> QED BY <2>2, SeenIsNat DEF LineResult, BuildResult, Typed
<1>2. ASSUME NEW k \in DOMAIN observed  PROVE Typed(UnbilledResult(k))
  <2>1. SeenNat(observed[k])
    BY DEF ObservedInv, SeenNat
  <2>2. Nothing.tokens \in Int /\ Nothing.cost \in Int
    BY DEF Nothing
  <2> QED BY <2>1, <2>2 DEF UnbilledResult, BuildResult, Typed
<1> QED BY <1>1, <1>2, SourceIs

LEMMA Concatenated ==
  ASSUME NEW S, NEW s \in Seq(S), NEW t \in Seq(S)
  PROVE  s \o t = [i \in 1 .. Len(s) + Len(t) |-> IF i <= Len(s) THEN s[i] ELSE t[i - Len(s)]]
<1>1. PICK st \in Seq(S) : st = s \o t
  BY ConcatProperties
<1>2. Len(st) = Len(s) + Len(t)
      /\ \A i \in 1 .. Len(s) + Len(t) : st[i] = IF i <= Len(s) THEN s[i] ELSE t[i - Len(s)]
  BY <1>1, ConcatProperties
<1>3. st = [i \in 1 .. Len(s) + Len(t) |-> st[i]]
  BY <1>2
<1> QED BY <1>1, <1>2, <1>3

(* The results: one for every source, in some order.                         *)
Lists(rs, ln) ==
  \E n \in Nat : \E src :
    /\ src = [k \in 1 .. n |-> src[k]]
    /\ rs = [k \in 1 .. n |-> ResultOf(ln, src[k])]
    /\ \A k \in 1 .. n : src[k] \in Sources(ln)
    /\ \A k, l \in 1 .. n : src[k] = src[l] => k = l
    /\ \A s \in Sources(ln) : \E k \in 1 .. n : src[k] = s

LEMMA DiscrepancyOrders ==
  ASSUME NEW n \in Nat, NEW rs, DOMAIN rs = 1 .. n,
         \A i \in 1 .. n : rs[i].discrepancy \in Int
  PROVE  StrictlyOrders(Larger(rs), 1 .. n)
<1> DEFINE size(i) == SizeOf(rs[i].discrepancy)
<1>1. \A i \in 1 .. n : size(i) \in Int
  BY DEF SizeOf
<1>2. \A i, j \in 1 .. n : <<i, j>> \in Larger(rs) <=>
         (size(i) > size(j) \/ (size(i) = size(j) /\ i < j))
  <2> SUFFICES ASSUME NEW i \in 1 .. n, NEW j \in 1 .. n
               PROVE <<i, j>> \in Larger(rs) <=>
                     (size(i) > size(j) \/ (size(i) = size(j) /\ i < j))
    OBVIOUS
  <2>1. <<i, j>> \in (DOMAIN rs) \X (DOMAIN rs) /\ <<i, j>>[1] = i /\ <<i, j>>[2] = j
    OBVIOUS
  <2> QED BY <2>1 DEF Larger
<1> HIDE DEF size
<1>3. PICK L : L = Larger(rs)
  OBVIOUS
<1>4. \A i, j \in 1 .. n : <<i, j>> \in L <=>
         (size(i) > size(j) \/ (size(i) = size(j) /\ i < j))
  BY <1>2, <1>3
<1>5. ASSUME NEW i \in 1 .. n, NEW j \in 1 .. n, NEW k \in 1 .. n, <<i, j>> \in L, <<j, k>> \in L
      PROVE  <<i, k>> \in L
  <2>1. size(i) \in Int /\ size(j) \in Int /\ size(k) \in Int
    BY <1>1
  <2>2. /\ size(i) > size(j) \/ (size(i) = size(j) /\ i < j)
        /\ size(j) > size(k) \/ (size(j) = size(k) /\ j < k)
    BY <1>4, <1>5
  <2>3. size(i) > size(k) \/ (size(i) = size(k) /\ i < k)
    BY <2>1, <2>2
  <2> QED BY <1>4, <2>3
<1>6. \A i, j \in 1 .. n : i # j => <<i, j>> \in L \/ <<j, i>> \in L
  BY <1>1, <1>4
<1>7. \A i \in 1 .. n : <<i, i>> \notin L
  BY <1>1, <1>4
<1> QED BY <1>3, <1>5, <1>6, <1>7 DEF StrictlyOrders

LEMMA ReconcileLists ==
  ASSUME ObservedInv, NEW ln \in Seq(BilledLines)
  PROVE  Lists(Reconcile(ln), ln)
<1> DEFINE U == DOMAIN observed \ Matched(ln)
<1>1. IsFiniteSet(U)
  BY FS_Subset DEF ObservedInv
<1>2. PICK u : u = SetToSeq(U)
  OBVIOUS
<1>3. PICK m \in Nat : /\ u = [k \in 1 .. m |-> u[k]]
                       /\ \A k \in 1 .. m : u[k] \in U
                       /\ \A k, l \in 1 .. m : u[k] = u[l] => k = l
                       /\ \A i \in U : \E k \in 1 .. m : u[k] = i
  <2> HIDE DEF U
  <2>1. Numbers(u, U)
    BY <1>1, <1>2, ListNumbers
  <2> QED BY <2>1 DEF Numbers
<1>4. PICK N \in Nat : N = Len(ln) /\ DOMAIN ln = 1 .. N
  OBVIOUS
<1> DEFINE q == [i \in 1 .. N + m |-> IF i <= N THEN <<"line", i>> ELSE <<"key", u[i - N]>>]
<1>5. PICK pre : pre = [i \in 1 .. N + m |-> ResultOf(ln, q[i])]
  OBVIOUS
<1>6. \A i \in 1 .. N + m : q[i] \in Sources(ln)
  <2> SUFFICES ASSUME NEW i \in 1 .. N + m  PROVE q[i] \in Sources(ln)
    OBVIOUS
  <2>1. CASE i <= N
    BY <1>4, <2>1 DEF Sources
  <2>2. CASE i > N
    <3>1. i - N \in 1 .. m
      BY <2>2
    <3> QED BY <1>3, <2>2, <3>1 DEF Sources
  <2> QED BY <2>1, <2>2
<1>7. \A i, j \in 1 .. N + m : q[i] = q[j] => i = j
  <2> SUFFICES ASSUME NEW i \in 1 .. N + m, NEW j \in 1 .. N + m, q[i] = q[j]  PROVE i = j
    OBVIOUS
  <2>1. q[i][1] = q[j][1] /\ q[i][2] = q[j][2]
    OBVIOUS
  <2>2. CASE i <= N
    BY <2>1, <2>2
  <2>3. CASE i > N
    <3>1. j > N
      BY <2>1, <2>3
    <3>2. u[i - N] = u[j - N] /\ i - N \in 1 .. m /\ j - N \in 1 .. m
      BY <2>1, <2>3, <3>1
    <3> QED BY <1>3, <3>2
  <2> QED BY <2>2, <2>3
<1>8. ASSUME NEW s \in Sources(ln)  PROVE \E i \in 1 .. N + m : q[i] = s
  <2>1. CASE \E i \in 1 .. Len(ln) : s = <<"line", i>>
    <3>1. PICK i \in 1 .. N : s = <<"line", i>>
      BY <1>4, <2>1
    <3>2. i \in 1 .. N + m /\ q[i] = s
      BY <3>1
    <3> QED BY <3>2
  <2>2. CASE \E k \in U : s = <<"key", k>>
    <3>1. PICK k \in U : s = <<"key", k>>
      BY <2>2
    <3>2. PICK j \in 1 .. m : u[j] = k
      BY <1>3
    <3>3. j + N \in 1 .. N + m /\ ~(j + N <= N) /\ (j + N) - N = j
      OBVIOUS
    <3>4. q[j + N] = s
      BY <3>1, <3>2, <3>3
    <3> QED BY <3>3, <3>4
  <2> QED BY <2>1, <2>2, SourceIs
<1>9. Reconcile(ln) = ByDiscrepancy(pre)
  <2> DEFINE A == [i \in DOMAIN ln |-> LineResult(ln[i])]
             B == [i \in 1 .. m |-> UnbilledResult(u[i])]
             V == {A[i] : i \in 1 .. N} \cup {B[i] : i \in 1 .. m}
  <2>1. A \in Seq(V) /\ Len(A) = N /\ \A i \in 1 .. N : A[i] = LineResult(ln[i])
    BY <1>4
  <2>2. B \in Seq(V) /\ Len(B) = m /\ \A i \in 1 .. m : B[i] = UnbilledResult(u[i])
    OBVIOUS
  <2>3. Reconcile(ln) = ByDiscrepancy(A \o B)
    <3>1. DOMAIN u = 1 .. m
      BY <1>3
    <3>2. B = [i \in DOMAIN u |-> UnbilledResult(u[i])]
      BY <3>1, Zenon
    <3> QED BY <1>2, <3>2, Zenon DEF Reconcile
  <2> HIDE DEF A, B, V
  <2>4. A \o B = [i \in 1 .. N + m |-> IF i <= N THEN A[i] ELSE B[i - N]]
    <3>1. A \o B = [i \in 1 .. Len(A) + Len(B) |-> IF i <= Len(A) THEN A[i] ELSE B[i - Len(A)]]
      BY <2>1, <2>2, Concatenated
    <3> QED BY <2>1, <2>2, <3>1
  <2>5. ASSUME NEW i \in 1 .. N + m
        PROVE  (IF i <= N THEN A[i] ELSE B[i - N]) = ResultOf(ln, q[i])
    <3>1. CASE i <= N
      <4>1. q[i] = <<"line", i>> /\ q[i][1] = "line" /\ q[i][2] = i
        BY <3>1
      <4> QED BY <2>1, <3>1, <4>1 DEF ResultOf
    <3>2. CASE i > N
      <4>1. q[i] = <<"key", u[i - N]>> /\ q[i][1] = "key" /\ q[i][2] = u[i - N]
        BY <3>2
      <4>2. i - N \in 1 .. m
        BY <3>2
      <4> QED BY <2>2, <3>2, <4>1, <4>2 DEF ResultOf
    <3> QED BY <3>1, <3>2
  <2> HIDE DEF q
  <2>6. A \o B = pre
    BY <1>5, <2>4, <2>5
  <2> QED BY <2>3, <2>6
<1> HIDE DEF q
<1>10. DOMAIN pre = 1 .. N + m /\ N + m \in Nat
  BY <1>5
<1>11. ASSUME NEW i \in 1 .. N + m  PROVE pre[i].discrepancy \in Int
  <2>1. Typed(pre[i])
    BY <1>5, <1>6, ResultTyped
  <2> QED BY <2>1 DEF Typed, SeenNat
<1>12. StrictlyOrders(Larger(pre), 1 .. N + m)
  BY <1>10, <1>11, DiscrepancyOrders
<1>13. PICK p : p = InOrder(1 .. N + m, Larger(pre))
  OBVIOUS
<1>14. IsFiniteSet(1 .. N + m) /\ Cardinality(1 .. N + m) = N + m
  BY FS_Interval
<1>15. /\ p = [k \in 1 .. N + m |-> p[k]]
       /\ \A k \in 1 .. N + m : p[k] \in 1 .. N + m
       /\ \A k, l \in 1 .. N + m : p[k] = p[l] => k = l
       /\ \A i \in 1 .. N + m : \E k \in 1 .. N + m : p[k] = i
  <2>1. Numbers(p, 1 .. N + m)
    BY <1>12, <1>13, <1>14, OrderNumbers
  <2> QED BY <1>14, <2>1 DEF Numbers
<1>16. PICK src : src = [k \in 1 .. N + m |-> q[p[k]]]
  OBVIOUS
<1>17. ByDiscrepancy(pre) = [k \in 1 .. N + m |-> pre[p[k]]]
  BY <1>10, <1>13, Zenon DEF ByDiscrepancy
<1>18. Reconcile(ln) = [k \in 1 .. N + m |-> ResultOf(ln, src[k])]
  <2>1. \A k \in 1 .. N + m : pre[p[k]] = ResultOf(ln, src[k])
    BY <1>5, <1>15, <1>16
  <2> QED BY <1>9, <1>17, <2>1
<1>19. src = [k \in 1 .. N + m |-> src[k]] /\ \A k \in 1 .. N + m : src[k] \in Sources(ln)
  BY <1>6, <1>15, <1>16
<1>20. \A k, l \in 1 .. N + m : src[k] = src[l] => k = l
  BY <1>7, <1>15, <1>16
<1>21. \A s \in Sources(ln) : \E k \in 1 .. N + m : src[k] = s
  BY <1>8, <1>15, <1>16
<1> QED BY <1>10, <1>18, <1>19, <1>20, <1>21 DEF Lists

(* What a result of a clean invoice accounts for: usage, and a line.         *)
UsageOf(ln, s) ==
  IF s[1] = "line"
  THEN IF ln[s[2]].model = AllModels THEN ObservedOf(ln[s[2]].provider)
       ELSE {k \in DOMAIN observed : k = <<ln[s[2]].provider, ln[s[2]].model>>}
  ELSE {s[2]}
LineOf(s) == IF s[1] = "line" THEN {s[2]} ELSE {}

LEMMA UsageSum ==
  ASSUME ObservedInv, NEW ln \in Seq(BilledLines), NEW s \in Sources(ln)
  PROVE  /\ UsageOf(ln, s) \in SUBSET DOMAIN observed
         /\ ResultOf(ln, s).observed.cost = SumFunctionOnSet(CostSeen, UsageOf(ln, s))
<1>1. ASSUME NEW k \in DOMAIN observed
      PROVE  SumFunctionOnSet(CostSeen, {k}) = observed[k].cost
  <2>1. CostSeen[k] = observed[k].cost /\ observed[k].cost \in Nat
    BY DEF CostSeen, ObservedInv
  <2>2. IsFiniteSet({}) /\ k \notin {} /\ \A y \in {} \cup {k} : CostSeen[y] \in Int
    BY <2>1, FS_EmptySet
  <2>3. SumFunctionOnSet(CostSeen, {} \cup {k}) = CostSeen[k] + SumFunctionOnSet(CostSeen, {})
    BY <2>2, SumAdd
  <2>4. {} \cup {k} = {k}
    OBVIOUS
  <2> QED BY <2>1, <2>3, <2>4, SumEmpty
<1>2. CASE \E i \in 1 .. Len(ln) : s = <<"line", i>> /\ ResultOf(ln, s) = LineResult(ln[i])
  <2>1. PICK i \in 1 .. Len(ln) : s = <<"line", i>> /\ ResultOf(ln, s) = LineResult(ln[i])
    BY <1>2
  <2>2. s[1] = "line" /\ s[2] = i
    BY <2>1
  <2>3. ResultOf(ln, s).observed.cost = ObservedFor(ln[i]).cost
    BY <2>1 DEF LineResult, BuildResult
  <2>4. CASE ln[i].model = AllModels
    <3>1. UsageOf(ln, s) = ObservedOf(ln[i].provider)
      BY <2>2, <2>4 DEF UsageOf
    <3>2. ObservedFor(ln[i]).cost = SumFunctionOnSet(CostSeen, ObservedOf(ln[i].provider))
      BY <2>4 DEF ObservedFor, Aggregated
    <3> QED BY <2>3, <3>1, <3>2 DEF ObservedOf
  <2>5. CASE ln[i].model # AllModels /\ <<ln[i].provider, ln[i].model>> \in DOMAIN observed
    <3>1. PICK k \in DOMAIN observed : k = <<ln[i].provider, ln[i].model>>
      BY <2>5
    <3>2. UsageOf(ln, s) = {k}
      BY <2>2, <2>5, <3>1 DEF UsageOf
    <3>3. ObservedFor(ln[i]).cost = observed[k].cost
      BY <2>5, <3>1 DEF ObservedFor
    <3> QED BY <1>1, <2>3, <3>2, <3>3
  <2>6. CASE ln[i].model # AllModels /\ <<ln[i].provider, ln[i].model>> \notin DOMAIN observed
    <3>2. UsageOf(ln, s) = {}
      BY <2>2, <2>6 DEF UsageOf
    <3>3. ObservedFor(ln[i]).cost = 0
      BY <2>6 DEF ObservedFor, Nothing
    <3> QED BY <2>3, <3>2, <3>3, SumEmpty
  <2> QED BY <2>4, <2>5, <2>6
<1>3. CASE \E k \in DOMAIN observed \ Matched(ln) :
             s = <<"key", k>> /\ ResultOf(ln, s) = UnbilledResult(k)
  <2>1. PICK k \in DOMAIN observed : s = <<"key", k>> /\ ResultOf(ln, s) = UnbilledResult(k)
    BY <1>3
  <2>2. s[1] = "key" /\ s[2] = k
    BY <2>1
  <2>3. ResultOf(ln, s).observed.cost = observed[k].cost
    BY <2>1 DEF UnbilledResult, BuildResult
  <2>4. UsageOf(ln, s) = {k}
    BY <2>2 DEF UsageOf
  <2> QED BY <1>1, <2>3, <2>4
<1> QED BY <1>2, <1>3, SourceIs

(* The lines of a clean invoice are about different keys, and results of     *)
(* different sources about different usage.                                  *)
LEMMA UsageCovers ==
  ASSUME ObservedInv, NEW ln \in Seq(BilledLines), NEW k \in DOMAIN observed
  PROVE  \E s \in Sources(ln) : k \in UsageOf(ln, s)
<1>0. DOMAIN ln = 1 .. Len(ln) /\ k = <<k[1], k[2]>>
  BY DEF ObservedInv
<1>1. CASE k \in Matched(ln)
  <2>1. PICK i \in 1 .. Len(ln) : ln[i].provider = k[1] /\ ln[i].model \in {k[2], AllModels}
    BY <1>0, <1>1 DEF Matched
  <2>2. PICK s : s = <<"line", i>>
    OBVIOUS
  <2>3. s \in Sources(ln) /\ s[1] = "line" /\ s[2] = i
    BY <2>2 DEF Sources
  <2>4. k \in UsageOf(ln, s)
    BY <1>0, <2>1, <2>3 DEF UsageOf, ObservedOf
  <2> QED BY <2>3, <2>4
<1>2. CASE k \notin Matched(ln)
  <2>2. PICK s : s = <<"key", k>>
    OBVIOUS
  <2>3. s \in Sources(ln) /\ s[1] = "key" /\ s[2] = k
    BY <1>2, <2>2 DEF Sources
  <2>4. k \in UsageOf(ln, s)
    BY <2>3 DEF UsageOf
  <2> QED BY <2>3, <2>4
<1> QED BY <1>1, <1>2

LEMMA UsageApart ==
  ASSUME ObservedInv, NEW ln \in Seq(BilledLines), Clean(ln),
         NEW s \in Sources(ln), NEW t \in Sources(ln), s # t
  PROVE  UsageOf(ln, s) \cap UsageOf(ln, t) = {}
<1>0. DOMAIN ln = 1 .. Len(ln)
  OBVIOUS
<1>1. ASSUME NEW i \in 1 .. Len(ln), NEW r, r = <<"line", i>>, NEW k \in UsageOf(ln, r)
      PROVE  /\ k \in DOMAIN observed /\ ln[i].provider = k[1] /\ ln[i].model \in {k[2], AllModels}
             /\ k \in Matched(ln)
  <2>1. r[1] = "line" /\ r[2] = i
    BY <1>1
  <2>2. CASE ln[i].model = AllModels
    <3>1. k \in ObservedOf(ln[i].provider)
      BY <1>1, <2>1, <2>2 DEF UsageOf
    <3> QED BY <1>0, <2>2, <3>1 DEF ObservedOf, Matched
  <2>3. CASE ln[i].model # AllModels
    <3>1. k \in DOMAIN observed /\ k = <<ln[i].provider, ln[i].model>>
      BY <1>1, <2>1, <2>3 DEF UsageOf
    <3>2. k[1] = ln[i].provider /\ k[2] = ln[i].model
      BY <3>1
    <3> QED BY <1>0, <3>1, <3>2 DEF Matched
  <2> QED BY <2>2, <2>3
<1>2. ASSUME NEW k, NEW r, r = <<"key", k>>  PROVE UsageOf(ln, r) = {k}
  <2>1. r[1] = "key" /\ r[2] = k
    BY <1>2
  <2> QED BY <2>1 DEF UsageOf
<1>3. \A r \in Sources(ln) :
        \/ \E i \in 1 .. Len(ln) : r = <<"line", i>>
        \/ \E k \in DOMAIN observed \ Matched(ln) : r = <<"key", k>>
  BY SourceIs
<1> SUFFICES ASSUME NEW k \in UsageOf(ln, s), k \in UsageOf(ln, t)  PROVE FALSE
  OBVIOUS
<1>4. CASE \E i \in 1 .. Len(ln) : s = <<"line", i>>
  <2>1. PICK i \in 1 .. Len(ln) : s = <<"line", i>>
    BY <1>4
  <2>2. CASE \E j \in 1 .. Len(ln) : t = <<"line", j>>
    <3>1. PICK j \in 1 .. Len(ln) : t = <<"line", j>>
      BY <2>2
    <3>2. i # j
      BY <2>1, <3>1
    <3>3. ln[i].provider = k[1] /\ ln[i].model \in {k[2], AllModels}
      BY <1>1, <2>1
    <3>4. ln[j].provider = k[1] /\ ln[j].model \in {k[2], AllModels}
      BY <1>1, <3>1
    <3>5. ln[i].model # ln[j].model /\ AllModels # ln[i].model /\ AllModels # ln[j].model
      BY <1>0, <3>2, <3>3, <3>4 DEF Clean
    <3> QED BY <3>3, <3>4, <3>5
  <2>3. CASE \E l \in DOMAIN observed \ Matched(ln) : t = <<"key", l>>
    BY <1>1, <1>2, <2>1, <2>3
  <2> QED BY <1>3, <2>2, <2>3
<1>5. CASE \E l \in DOMAIN observed \ Matched(ln) : s = <<"key", l>>
  <2>1. PICK l \in DOMAIN observed \ Matched(ln) : s = <<"key", l>>
    BY <1>5
  <2>2. l = k
    BY <1>2, <2>1
  <2>3. CASE \E j \in 1 .. Len(ln) : t = <<"line", j>>
    BY <1>1, <2>1, <2>2, <2>3
  <2>4. CASE \E j \in DOMAIN observed \ Matched(ln) : t = <<"key", j>>
    BY <1>2, <2>1, <2>2, <2>4
  <2> QED BY <1>3, <2>3, <2>4
<1> QED BY <1>3, <1>4, <1>5

SeenCosts(rs) == [i \in DOMAIN rs |-> rs[i].observed.cost]
ChargedCosts(rs) == [i \in DOMAIN rs |-> rs[i].billed.cost]

LEMMA ObservedAddsUp ==
  ASSUME ObservedInv, NEW ln \in Seq(BilledLines), Clean(ln)
  PROVE  Attestation(Reconcile(ln)).observed = SumFunctionOnSet(CostSeen, DOMAIN observed)
<1>1. PICK rs : rs = Reconcile(ln)
  OBVIOUS
<1>2. Lists(rs, ln)
  BY <1>1, ReconcileLists
<1>3. PICK n \in Nat : \E src :
        /\ src = [k \in 1 .. n |-> src[k]]
        /\ rs = [k \in 1 .. n |-> ResultOf(ln, src[k])]
        /\ \A k \in 1 .. n : src[k] \in Sources(ln)
        /\ \A k, l \in 1 .. n : src[k] = src[l] => k = l
        /\ \A s \in Sources(ln) : \E k \in 1 .. n : src[k] = s
  BY <1>2 DEF Lists
<1>4. PICK src :
        /\ rs = [k \in 1 .. n |-> ResultOf(ln, src[k])]
        /\ \A k \in 1 .. n : src[k] \in Sources(ln)
        /\ \A k, l \in 1 .. n : src[k] = src[l] => k = l
        /\ \A s \in Sources(ln) : \E k \in 1 .. n : src[k] = s
  BY <1>3
<1>5. PICK part : part = [k \in 1 .. n |-> UsageOf(ln, src[k])]
  OBVIOUS
<1>6. PICK g : g = SeenCosts(rs)
  OBVIOUS
<1>7. DOMAIN rs = 1 .. n
  BY <1>4
<1>8. \A k \in 1 .. n : part[k] \in SUBSET DOMAIN observed
                        /\ g[k] = SumFunctionOnSet(CostSeen, part[k])
  <2> SUFFICES ASSUME NEW k \in 1 .. n
               PROVE  part[k] \in SUBSET DOMAIN observed
                      /\ g[k] = SumFunctionOnSet(CostSeen, part[k])
    OBVIOUS
  <2>1. g[k] = ResultOf(ln, src[k]).observed.cost
    BY <1>4, <1>6, <1>7 DEF SeenCosts
  <2> QED BY <1>4, <1>5, <2>1, UsageSum
<1>9. \A i, j \in 1 .. n : i # j => part[i] \cap part[j] = {}
  BY <1>4, <1>5, UsageApart
<1>10. UNION {part[i] : i \in 1 .. n} = DOMAIN observed
  <2>1. ASSUME NEW k \in DOMAIN observed  PROVE \E i \in 1 .. n : k \in part[i]
    <3>1. PICK s \in Sources(ln) : k \in UsageOf(ln, s)
      BY UsageCovers
    <3> QED BY <1>4, <1>5, <3>1
  <2> QED BY <1>8, <2>1
<1>11. IsFiniteSet(1 .. n) /\ IsFiniteSet(DOMAIN observed)
       /\ \A k \in DOMAIN observed : CostSeen[k] \in Int
  BY FS_Interval DEF ObservedInv, CostSeen
<1>12. SumFunctionOnSet(g, 1 .. n) = SumFunctionOnSet(CostSeen, UNION {part[i] : i \in 1 .. n})
  <2>1. PICK I : I = 1 .. n
    OBVIOUS
  <2>2. PICK D : D = DOMAIN observed
    OBVIOUS
  <2>3. PICK f : f = CostSeen
    OBVIOUS
  <2>4. IsFiniteSet(I) /\ IsFiniteSet(D) /\ \A x \in D : f[x] \in Int
    BY <1>11, <2>1, <2>2, <2>3
  <2>5. \A i \in I : part[i] \in SUBSET D
    BY <1>8, <2>1, <2>2
  <2>6. \A i, j \in I : i # j => part[i] \cap part[j] = {}
    BY <1>9, <2>1
  <2>7. \A i \in I : g[i] = SumFunctionOnSet(f, part[i])
    BY <1>8, <2>1, <2>3
  <2>8. SumFunctionOnSet(g, I) = SumFunctionOnSet(f, UNION {part[i] : i \in I})
    BY <2>4, <2>5, <2>6, <2>7, SumOfParts
  <2> QED BY <2>1, <2>3, <2>8
<1>13. Attestation(rs).observed = SumFunctionOnSet(g, DOMAIN rs)
  BY <1>6 DEF Attestation, SeenCosts
<1> QED BY <1>1, <1>7, <1>10, <1>12, <1>13

LEMMA BilledAddsUp ==
  ASSUME ObservedInv, NEW ln \in Seq(BilledLines)
  PROVE  Attestation(Reconcile(ln)).billed
           = SumFunctionOnSet([i \in DOMAIN ln |-> ln[i].cost], DOMAIN ln)
<1>1. PICK rs : rs = Reconcile(ln)
  OBVIOUS
<1>2. Lists(rs, ln)
  BY <1>1, ReconcileLists
<1>3. PICK n \in Nat : \E src :
        /\ src = [k \in 1 .. n |-> src[k]]
        /\ rs = [k \in 1 .. n |-> ResultOf(ln, src[k])]
        /\ \A k \in 1 .. n : src[k] \in Sources(ln)
        /\ \A k, l \in 1 .. n : src[k] = src[l] => k = l
        /\ \A s \in Sources(ln) : \E k \in 1 .. n : src[k] = s
  BY <1>2 DEF Lists
<1>4. PICK src :
        /\ rs = [k \in 1 .. n |-> ResultOf(ln, src[k])]
        /\ \A k \in 1 .. n : src[k] \in Sources(ln)
        /\ \A k, l \in 1 .. n : src[k] = src[l] => k = l
        /\ \A s \in Sources(ln) : \E k \in 1 .. n : src[k] = s
  BY <1>3
<1>5. PICK part : part = [k \in 1 .. n |-> LineOf(src[k])]
  OBVIOUS
<1>6. PICK g : g = ChargedCosts(rs)
  OBVIOUS
<1>7. DOMAIN rs = 1 .. n
  BY <1>4
<1>8. PICK N \in Nat : N = Len(ln) /\ DOMAIN ln = 1 .. N
  OBVIOUS
<1>9. PICK f : f = [i \in DOMAIN ln |-> ln[i].cost]
  OBVIOUS
<1>10. \A i \in 1 .. N : f[i] = ln[i].cost /\ f[i] \in Int
  <2>1. \A i \in 1 .. N : ln[i] \in BilledLines
    BY <1>8
  <2> QED BY <1>8, <1>9, <2>1 DEF BilledLines
<1>11. \A s \in Sources(ln) :
         \/ \E i \in 1 .. N : s = <<"line", i>> /\ LineOf(s) = {i} /\ ResultOf(ln, s).billed.cost = f[i]
         \/ LineOf(s) = {} /\ ResultOf(ln, s).billed.cost = 0
  <2> SUFFICES ASSUME NEW s \in Sources(ln)
               PROVE
         \/ \E i \in 1 .. N : s = <<"line", i>> /\ LineOf(s) = {i} /\ ResultOf(ln, s).billed.cost = f[i]
         \/ LineOf(s) = {} /\ ResultOf(ln, s).billed.cost = 0
    OBVIOUS
  <2>1. CASE \E i \in 1 .. Len(ln) : s = <<"line", i>> /\ ResultOf(ln, s) = LineResult(ln[i])
    <3>1. PICK i \in 1 .. Len(ln) : s = <<"line", i>> /\ ResultOf(ln, s) = LineResult(ln[i])
      BY <2>1
    <3>2. s[1] = "line" /\ s[2] = i
      BY <3>1
    <3>3. ResultOf(ln, s).billed.cost = ln[i].cost
      BY <3>1 DEF LineResult, BuildResult
    <3>4. LineOf(s) = {i}
      BY <3>2 DEF LineOf
    <3> QED BY <1>8, <1>10, <3>1, <3>3, <3>4
  <2>2. CASE \E k \in DOMAIN observed \ Matched(ln) :
               s = <<"key", k>> /\ ResultOf(ln, s) = UnbilledResult(k)
    <3>1. PICK k \in DOMAIN observed : s = <<"key", k>> /\ ResultOf(ln, s) = UnbilledResult(k)
      BY <2>2
    <3>2. s[1] = "key"
      BY <3>1
    <3>3. ResultOf(ln, s).billed.cost = 0
      BY <3>1 DEF UnbilledResult, BuildResult, Nothing
    <3>4. LineOf(s) = {}
      BY <3>2 DEF LineOf
    <3> QED BY <3>3, <3>4
  <2> QED BY <2>1, <2>2, SourceIs
<1>12. \A i \in 1 .. N : SumFunctionOnSet(f, {i}) = f[i]
  <2> SUFFICES ASSUME NEW i \in 1 .. N  PROVE SumFunctionOnSet(f, {i}) = f[i]
    OBVIOUS
  <2>1. IsFiniteSet({}) /\ i \notin {} /\ \A y \in {} \cup {i} : f[y] \in Int
    BY <1>10, FS_EmptySet
  <2>2. SumFunctionOnSet(f, {} \cup {i}) = f[i] + SumFunctionOnSet(f, {})
    BY <2>1, SumAdd
  <2>3. {} \cup {i} = {i}
    OBVIOUS
  <2> QED BY <1>10, <2>2, <2>3, SumEmpty
<1>13. \A k \in 1 .. n : part[k] \in SUBSET (1 .. N) /\ g[k] = SumFunctionOnSet(f, part[k])
  <2> SUFFICES ASSUME NEW k \in 1 .. n
               PROVE  part[k] \in SUBSET (1 .. N) /\ g[k] = SumFunctionOnSet(f, part[k])
    OBVIOUS
  <2>1. g[k] = ResultOf(ln, src[k]).billed.cost /\ src[k] \in Sources(ln) /\ part[k] = LineOf(src[k])
    BY <1>4, <1>5, <1>6, <1>7 DEF ChargedCosts
  <2>2. CASE \E i \in 1 .. N : LineOf(src[k]) = {i} /\ ResultOf(ln, src[k]).billed.cost = f[i]
    <3>1. PICK i \in 1 .. N : part[k] = {i} /\ g[k] = f[i]
      BY <2>1, <2>2
    <3>2. SumFunctionOnSet(f, part[k]) = f[i]
      BY <1>12, <3>1
    <3> QED BY <3>1, <3>2
  <2>3. CASE LineOf(src[k]) = {} /\ ResultOf(ln, src[k]).billed.cost = 0
    <3>1. part[k] = {} /\ g[k] = 0
      BY <2>1, <2>3
    <3>2. SumFunctionOnSet(f, part[k]) = 0
      BY <3>1, SumEmpty
    <3> QED BY <3>1, <3>2
  <2> QED BY <1>11, <2>1, <2>2, <2>3
<1>14. \A i, j \in 1 .. n : i # j => part[i] \cap part[j] = {}
  <2> SUFFICES ASSUME NEW i \in 1 .. n, NEW j \in 1 .. n, i # j  PROVE part[i] \cap part[j] = {}
    OBVIOUS
  <2>1. /\ src[i] \in Sources(ln) /\ part[i] = LineOf(src[i])
        /\ src[j] \in Sources(ln) /\ part[j] = LineOf(src[j]) /\ src[i] # src[j]
    BY <1>4, <1>5
  <2> QED BY <1>11, <2>1
<1>15. UNION {part[i] : i \in 1 .. n} = 1 .. N
  <2>1. ASSUME NEW i \in 1 .. N  PROVE \E k \in 1 .. n : i \in part[k]
    <3>1. PICK s : s = <<"line", i>>
      OBVIOUS
    <3>2. s \in Sources(ln) /\ s[1] = "line" /\ s[2] = i
      BY <1>8, <3>1 DEF Sources
    <3>3. i \in LineOf(s)
      BY <3>2 DEF LineOf
    <3> QED BY <1>4, <1>5, <3>2, <3>3
  <2> QED BY <1>13, <2>1
<1>16. IsFiniteSet(1 .. n) /\ IsFiniteSet(1 .. N)
  BY FS_Interval
<1>17. SumFunctionOnSet(g, 1 .. n) = SumFunctionOnSet(f, UNION {part[i] : i \in 1 .. n})
  <2>1. PICK I : I = 1 .. n
    OBVIOUS
  <2>2. PICK D : D = 1 .. N
    OBVIOUS
  <2>4. IsFiniteSet(I) /\ IsFiniteSet(D) /\ \A x \in D : f[x] \in Int
    BY <1>10, <1>16, <2>1, <2>2
  <2>5. \A i \in I : part[i] \in SUBSET D
    BY <1>13, <2>1, <2>2
  <2>6. \A i, j \in I : i # j => part[i] \cap part[j] = {}
    BY <1>14, <2>1
  <2>7. \A i \in I : g[i] = SumFunctionOnSet(f, part[i])
    BY <1>13, <2>1
  <2>8. SumFunctionOnSet(g, I) = SumFunctionOnSet(f, UNION {part[i] : i \in I})
    BY <2>4, <2>5, <2>6, <2>7, SumOfParts
  <2> QED BY <2>1, <2>8
<1>18. Attestation(rs).billed = SumFunctionOnSet(g, DOMAIN rs)
  BY <1>6 DEF Attestation, ChargedCosts
<1> QED BY <1>1, <1>7, <1>8, <1>9, <1>15, <1>17, <1>18

(* Without a notable result, without credits.                                *)
LEMMA QuietWithin ==
  ASSUME ObservedInv, NEW ln \in Seq(BilledLines),
         \A i \in DOMAIN ln : ln[i].cost >= 0,
         \A i \in DOMAIN Reconcile(ln) : ~Reconcile(ln)[i].notable
  PROVE  SizeWithin(Attestation(Reconcile(ln)).billed - Attestation(Reconcile(ln)).observed,
                    ThresholdPct, Attestation(Reconcile(ln)).billed)
<1>1. PICK rs : rs = Reconcile(ln)
  OBVIOUS
<1>2. Lists(rs, ln)
  BY <1>1, ReconcileLists
<1>3. PICK n \in Nat : \E src :
        /\ src = [k \in 1 .. n |-> src[k]]
        /\ rs = [k \in 1 .. n |-> ResultOf(ln, src[k])]
        /\ \A k \in 1 .. n : src[k] \in Sources(ln)
        /\ \A k, l \in 1 .. n : src[k] = src[l] => k = l
        /\ \A s \in Sources(ln) : \E k \in 1 .. n : src[k] = s
  BY <1>2 DEF Lists
<1>4. PICK src :
        /\ rs = [k \in 1 .. n |-> ResultOf(ln, src[k])]
        /\ \A k \in 1 .. n : src[k] \in Sources(ln)
  BY <1>3
<1>5. DOMAIN rs = 1 .. n
  BY <1>4
<1>6. PICK f : f = ChargedCosts(rs)
  OBVIOUS
<1>7. PICK g : g = SeenCosts(rs)
  OBVIOUS
<1>8. \A k \in 1 .. n : f[k] = rs[k].billed.cost /\ g[k] = rs[k].observed.cost
  BY <1>5, <1>6, <1>7 DEF ChargedCosts, SeenCosts
<1>9. ASSUME NEW k \in 1 .. n
      PROVE  f[k] \in Int /\ g[k] \in Int /\ SizeWithin(f[k] - g[k], ThresholdPct, f[k])
  <2>1. src[k] \in Sources(ln) /\ rs[k] = ResultOf(ln, src[k])
    BY <1>4
  <2>2. Typed(rs[k])
    BY <2>1, ResultTyped
  <2>3. rs[k].billed.cost >= 0
    <3>1. CASE \E i \in 1 .. Len(ln) : rs[k] = LineResult(ln[i])
      <4>1. PICK i \in 1 .. Len(ln) : rs[k] = LineResult(ln[i])
        BY <3>1
      <4>2. rs[k].billed.cost = ln[i].cost
        BY <4>1 DEF LineResult, BuildResult
      <4>3. i \in DOMAIN ln
        OBVIOUS
      <4> QED BY <4>2, <4>3
    <3>2. CASE \E l \in DOMAIN observed : rs[k] = UnbilledResult(l)
      <4>1. rs[k].billed.cost = 0
        BY <3>2 DEF UnbilledResult, BuildResult, Nothing
      <4> QED BY <4>1
    <3> QED BY <2>1, <3>1, <3>2, SourceIs
  <2>4. PICK c \in Nat : c = rs[k].billed.cost
    BY <2>2, <2>3 DEF Typed
  <2>5. PICK o \in Nat : o = rs[k].observed.cost
    BY <2>2 DEF Typed, SeenNat
  <2>6. ~Exceeds(o, c)
    <3>1. ~rs[k].notable
      BY <1>1, <1>5
    <3> QED BY <2>2, <2>4, <2>5, <3>1 DEF Typed
  <2>7. ThresholdPct \in Nat
    BY BillingAssumption
  <2>8. SizeWithin(c - o, ThresholdPct, c)
    <3>1. PICK x \in Int : x = ThresholdPct * c
      BY <2>7
    <3>2. CASE c > 0
      BY <2>6, <3>1, <3>2 DEF Exceeds, SizeWithin, SizeOf
    <3>3. CASE c = 0
      <4>1. o = 0
        BY <2>6, <3>3 DEF Exceeds
      <4>2. ThresholdPct * c = 0
        BY <2>7, <3>3
      <4> QED BY <3>3, <4>1, <4>2 DEF SizeWithin, SizeOf
    <3> QED BY <3>2, <3>3
  <2> QED BY <1>8, <2>4, <2>5, <2>8
<1>10. SizeWithin(SumFunctionOnSet(f, 1 .. n) - SumFunctionOnSet(g, 1 .. n), ThresholdPct,
                  SumFunctionOnSet(f, 1 .. n))
  <2>1. IsFiniteSet(1 .. n) /\ ThresholdPct \in Nat
    BY BillingAssumption, FS_Interval
  <2> QED BY <1>9, <2>1, SumWithin
<1>11. /\ Attestation(rs).billed = SumFunctionOnSet(f, DOMAIN rs)
       /\ Attestation(rs).observed = SumFunctionOnSet(g, DOMAIN rs)
  BY <1>6, <1>7 DEF Attestation, ChargedCosts, SeenCosts
<1> QED BY <1>1, <1>5, <1>10, <1>11

(* The results of a clean invoice have different keys.                       *)
LEMMA KeysApart ==
  ASSUME ObservedInv, NEW ln \in Seq(BilledLines), Clean(ln),
         NEW s \in Sources(ln), NEW t \in Sources(ln),
         KeyOf(ResultOf(ln, s)) = KeyOf(ResultOf(ln, t))
  PROVE  s = t
<1>0. DOMAIN ln = 1 .. Len(ln)
  OBVIOUS
<1>1. \A i \in 1 .. Len(ln) : KeyOf(LineResult(ln[i])) = <<ln[i].provider, ln[i].model>>
  BY DEF KeyOf, LineResult, BuildResult
<1>2. \A k \in DOMAIN observed : KeyOf(UnbilledResult(k)) = k
  <2> SUFFICES ASSUME NEW k \in DOMAIN observed  PROVE KeyOf(UnbilledResult(k)) = k
    OBVIOUS
  <2>1. KeyOf(UnbilledResult(k)) = <<k[1], k[2]>>
    BY DEF KeyOf, UnbilledResult, BuildResult
  <2> QED BY <2>1 DEF ObservedInv
<1>3. ASSUME NEW i \in 1 .. Len(ln), NEW k \in DOMAIN observed \ Matched(ln)
      PROVE  <<ln[i].provider, ln[i].model>> # k
  <2> SUFFICES ASSUME <<ln[i].provider, ln[i].model>> = k  PROVE FALSE
    OBVIOUS
  <2>1. k[1] = ln[i].provider /\ k[2] = ln[i].model
    OBVIOUS
  <2> QED BY <1>0, <2>1 DEF Matched
<1>4. ASSUME NEW i \in 1 .. Len(ln), NEW j \in 1 .. Len(ln),
             <<ln[i].provider, ln[i].model>> = <<ln[j].provider, ln[j].model>>
      PROVE  i = j
  <2>1. ln[i].provider = ln[j].provider /\ ln[i].model = ln[j].model
    BY <1>4
  <2> QED BY <1>0, <2>1 DEF Clean
<1>5. CASE \E i \in 1 .. Len(ln) : s = <<"line", i>> /\ ResultOf(ln, s) = LineResult(ln[i])
  <2>1. PICK i \in 1 .. Len(ln) : s = <<"line", i>> /\ ResultOf(ln, s) = LineResult(ln[i])
    BY <1>5
  <2>2. CASE \E j \in 1 .. Len(ln) : t = <<"line", j>> /\ ResultOf(ln, t) = LineResult(ln[j])
    <3>1. PICK j \in 1 .. Len(ln) : t = <<"line", j>> /\ ResultOf(ln, t) = LineResult(ln[j])
      BY <2>2
    <3>2. <<ln[i].provider, ln[i].model>> = <<ln[j].provider, ln[j].model>>
      BY <1>1, <2>1, <3>1
    <3> QED BY <1>4, <2>1, <3>1, <3>2
  <2>3. CASE \E k \in DOMAIN observed \ Matched(ln) :
               t = <<"key", k>> /\ ResultOf(ln, t) = UnbilledResult(k)
    BY <1>1, <1>2, <1>3, <2>1, <2>3
  <2> QED BY <2>2, <2>3, SourceIs
<1>6. CASE \E k \in DOMAIN observed \ Matched(ln) :
             s = <<"key", k>> /\ ResultOf(ln, s) = UnbilledResult(k)
  <2>1. PICK k \in DOMAIN observed \ Matched(ln) :
             s = <<"key", k>> /\ ResultOf(ln, s) = UnbilledResult(k)
    BY <1>6
  <2>2. CASE \E j \in 1 .. Len(ln) : t = <<"line", j>> /\ ResultOf(ln, t) = LineResult(ln[j])
    BY <1>1, <1>2, <1>3, <2>1, <2>2
  <2>3. CASE \E l \in DOMAIN observed \ Matched(ln) :
               t = <<"key", l>> /\ ResultOf(ln, t) = UnbilledResult(l)
    BY <1>2, <2>1, <2>3
  <2> QED BY <2>2, <2>3, SourceIs
<1> QED BY <1>5, <1>6, SourceIs

(* One result with a key is all there is under it.                           *)
Only(r) == [m \in 1 .. 1 |-> r]
LEMMA WithKeyIs ==
  ASSUME NEW n \in Nat, NEW rs, DOMAIN rs = 1 .. n, NEW i \in 1 .. n,
         \A j \in 1 .. n : KeyOf(rs[j]) = KeyOf(rs[i]) => j = i
  PROVE  WithKey(rs, KeyOf(rs[i])) = Only(rs[i])
<1>1. {j \in DOMAIN rs : KeyOf(rs[j]) = KeyOf(rs[i])} = {i}
  OBVIOUS
<1>2. PICK R : R = Following(rs)
  OBVIOUS
<1>3. <<i, i>> \notin R
  <2>1. <<i, i>>[1] = i /\ <<i, i>>[2] = i /\ ~(i < i)
    OBVIOUS
  <2> QED BY <1>2, <2>1 DEF Following
<1>4. StrictlyOrders(R, {i})
  BY <1>3 DEF StrictlyOrders
<1>5. PICK order : order = InOrder({i}, R)
  OBVIOUS
<1>6. IsFiniteSet({i}) /\ Cardinality({i}) = 1
  BY FS_Singleton
<1>7. Numbers(order, {i})
  BY <1>4, <1>5, <1>6, OrderNumbers
<1>8. DOMAIN order = 1 .. 1 /\ \A m \in 1 .. 1 : order[m] = i
  BY <1>6, <1>7 DEF Numbers
<1>9. WithKey(rs, KeyOf(rs[i])) = [m \in DOMAIN order |-> rs[order[m]]]
  BY <1>1, <1>2, <1>5, Zenon DEF WithKey
<1> QED BY <1>8, <1>9 DEF Only

(* The hash of a clean invoice's results is one of their set.                *)
ResultsOf(ln) == {ResultOf(ln, s) : s \in Sources(ln)}
OneOf(R, k) == CHOOSE r \in R : KeyOf(r) = k
HashOf(R) == [k \in {KeyOf(r) : r \in R} |-> Only(OneOf(R, k))]

LEMMA HashIs ==
  ASSUME ObservedInv, NEW ln \in Seq(BilledLines), Clean(ln)
  PROVE  HashReconciliations(Reconcile(ln)) = HashOf(ResultsOf(ln))
<1>1. PICK rs : rs = Reconcile(ln)
  OBVIOUS
<1>2. Lists(rs, ln)
  BY <1>1, ReconcileLists
<1>3. PICK n \in Nat : \E src :
        /\ src = [k \in 1 .. n |-> src[k]]
        /\ rs = [k \in 1 .. n |-> ResultOf(ln, src[k])]
        /\ \A k \in 1 .. n : src[k] \in Sources(ln)
        /\ \A k, l \in 1 .. n : src[k] = src[l] => k = l
        /\ \A s \in Sources(ln) : \E k \in 1 .. n : src[k] = s
  BY <1>2 DEF Lists
<1>4. PICK src :
        /\ rs = [k \in 1 .. n |-> ResultOf(ln, src[k])]
        /\ \A k \in 1 .. n : src[k] \in Sources(ln)
        /\ \A k, l \in 1 .. n : src[k] = src[l] => k = l
        /\ \A s \in Sources(ln) : \E k \in 1 .. n : src[k] = s
  BY <1>3
<1>5. PICK R : R = ResultsOf(ln)
  OBVIOUS
<1>6. DOMAIN rs = 1 .. n /\ \A i \in 1 .. n : rs[i] = ResultOf(ln, src[i]) /\ rs[i] \in R
  BY <1>4, <1>5 DEF ResultsOf
<1>7. \A r \in R : \E i \in 1 .. n : r = rs[i]
  BY <1>4, <1>5, <1>6 DEF ResultsOf
<1>8. \A i, j \in 1 .. n : KeyOf(rs[i]) = KeyOf(rs[j]) => i = j
  BY <1>4, <1>6, KeysApart
<1>9. PICK K : K = {KeyOf(r) : r \in R}
  OBVIOUS
<1>10. {KeyOf(rs[i]) : i \in DOMAIN rs} = K
  BY <1>6, <1>7, <1>9
<1>11. ASSUME NEW k \in K  PROVE WithKey(rs, k) = Only(OneOf(R, k))
  <2>1. PICK i \in 1 .. n : k = KeyOf(rs[i])
    BY <1>6, <1>7, <1>9
  <2>2. OneOf(R, k) \in R /\ KeyOf(OneOf(R, k)) = k
    BY <1>6, <2>1 DEF OneOf
  <2>3. OneOf(R, k) = rs[i]
    BY <1>7, <1>8, <2>1, <2>2
  <2>4. WithKey(rs, k) = Only(rs[i])
    <3>1. \A j \in 1 .. n : KeyOf(rs[j]) = KeyOf(rs[i]) => j = i
      BY <1>8
    <3>2. WithKey(rs, KeyOf(rs[i])) = Only(rs[i])
      <4>1. DOMAIN rs = 1 .. n
        BY <1>6
      <4> QED BY <3>1, <4>1, WithKeyIs
    <3> QED BY <2>1, <3>2
  <2> QED BY <2>3, <2>4
<1>12. HashReconciliations(rs) = [k \in K |-> WithKey(rs, k)]
  BY <1>10, Zenon DEF HashReconciliations
<1>13. HashOf(R) = [k \in K |-> Only(OneOf(R, k))]
  BY <1>9, Zenon DEF HashOf
<1> QED BY <1>1, <1>5, <1>11, <1>12, <1>13

LEMMA Reversed ==
  ASSUME NEW ln \in Seq(BilledLines)
  PROVE  /\ Reverse(ln) \in Seq(BilledLines)
         /\ Len(Reverse(ln)) = Len(ln)
         /\ \A i \in 1 .. Len(ln) : /\ Reverse(ln)[i] = ln[Len(ln) - i + 1]
                                    /\ Len(ln) - i + 1 \in 1 .. Len(ln)
BY DEF Reverse

LEMMA ReverseSame ==
  ASSUME NEW ln \in Seq(BilledLines)
  PROVE  ResultsOf(Reverse(ln)) = ResultsOf(ln) /\ (Clean(ln) => Clean(Reverse(ln)))
<1>1. PICK N \in Nat : N = Len(ln)
  OBVIOUS
<1>2. PICK rv \in Seq(BilledLines) : rv = Reverse(ln)
  BY Reversed
<1>3. /\ Len(rv) = N /\ DOMAIN ln = 1 .. N /\ DOMAIN rv = 1 .. N
      /\ \A i \in 1 .. N : rv[i] = ln[N - i + 1] /\ N - i + 1 \in 1 .. N
  BY <1>1, <1>2, Reversed
<1>4. \A i \in 1 .. N : ln[i] = rv[N - i + 1] /\ N - i + 1 \in 1 .. N
  <2> SUFFICES ASSUME NEW i \in 1 .. N  PROVE ln[i] = rv[N - i + 1] /\ N - i + 1 \in 1 .. N
    OBVIOUS
  <2>1. PICK j \in 1 .. N : j = N - i + 1 /\ N - j + 1 = i
    BY <1>3
  <2> QED BY <1>3, <2>1
<1>5. Matched(rv) = Matched(ln)
  <2>1. /\ \A i \in 1 .. N : \E j \in 1 .. N : rv[i] = ln[j]
        /\ \A j \in 1 .. N : \E i \in 1 .. N : ln[j] = rv[i]
    BY <1>3, <1>4
  <2>2. DOMAIN rv = 1 .. N /\ DOMAIN ln = 1 .. N
    BY <1>3
  <2>3. ASSUME NEW k \in DOMAIN observed
        PROVE  (\E i \in DOMAIN rv : rv[i].provider = k[1] /\ rv[i].model \in {k[2], AllModels})
               <=> (\E i \in DOMAIN ln : ln[i].provider = k[1] /\ ln[i].model \in {k[2], AllModels})
    <3>1. ASSUME NEW i \in 1 .. N, rv[i].provider = k[1], rv[i].model \in {k[2], AllModels}
          PROVE  \E j \in 1 .. N : ln[j].provider = k[1] /\ ln[j].model \in {k[2], AllModels}
      <4>1. PICK j \in 1 .. N : rv[i] = ln[j]
        BY <2>1
      <4> QED BY <3>1, <4>1
    <3>2. ASSUME NEW j \in 1 .. N, ln[j].provider = k[1], ln[j].model \in {k[2], AllModels}
          PROVE  \E i \in 1 .. N : rv[i].provider = k[1] /\ rv[i].model \in {k[2], AllModels}
      <4>1. PICK i \in 1 .. N : ln[j] = rv[i]
        BY <2>1
      <4> QED BY <3>2, <4>1
    <3> QED BY <2>2, <3>1, <3>2, Zenon
  <2> QED BY <2>3, Zenon DEF Matched
<1>6. \A c \in Seq(BilledLines) :
        (DOMAIN c = 1 .. N /\ Len(c) = N) =>
           ResultsOf(c) = {LineResult(c[i]) : i \in 1 .. N}
                          \cup {UnbilledResult(k) : k \in DOMAIN observed \ Matched(c)}
  <2> SUFFICES ASSUME NEW c \in Seq(BilledLines), DOMAIN c = 1 .. N, Len(c) = N
               PROVE  ResultsOf(c) = {LineResult(c[i]) : i \in 1 .. N}
                          \cup {UnbilledResult(k) : k \in DOMAIN observed \ Matched(c)}
    OBVIOUS
  <2>1. ASSUME NEW s \in Sources(c)
        PROVE  \/ \E i \in 1 .. N : ResultOf(c, s) = LineResult(c[i])
               \/ \E k \in DOMAIN observed \ Matched(c) : ResultOf(c, s) = UnbilledResult(k)
    BY SourceIs
  <2>2. ASSUME NEW i \in 1 .. N  PROVE \E s \in Sources(c) : ResultOf(c, s) = LineResult(c[i])
    <3>1. PICK s : s = <<"line", i>>
      OBVIOUS
    <3>2. s \in Sources(c) /\ s[1] = "line" /\ s[2] = i
      BY <3>1 DEF Sources
    <3> QED BY <3>2 DEF ResultOf
  <2>3. ASSUME NEW k \in DOMAIN observed \ Matched(c)
        PROVE  \E s \in Sources(c) : ResultOf(c, s) = UnbilledResult(k)
    <3>1. PICK s : s = <<"key", k>>
      OBVIOUS
    <3>2. s \in Sources(c) /\ s[1] = "key" /\ s[2] = k
      BY <3>1 DEF Sources
    <3> QED BY <3>2 DEF ResultOf
  <2> QED BY <2>1, <2>2, <2>3 DEF ResultsOf
<1>7. {LineResult(rv[i]) : i \in 1 .. N} = {LineResult(ln[i]) : i \in 1 .. N}
  <2>1. \A i \in 1 .. N : \E j \in 1 .. N : LineResult(rv[i]) = LineResult(ln[j])
    BY <1>3
  <2>2. \A j \in 1 .. N : \E i \in 1 .. N : LineResult(rv[i]) = LineResult(ln[j])
    BY <1>4
  <2> QED BY <2>1, <2>2
<1>8. ResultsOf(rv) = ResultsOf(ln)
  <2>1. ResultsOf(rv) = {LineResult(rv[i]) : i \in 1 .. N}
                          \cup {UnbilledResult(k) : k \in DOMAIN observed \ Matched(rv)}
    BY <1>3, <1>6
  <2>2. ResultsOf(ln) = {LineResult(ln[i]) : i \in 1 .. N}
                          \cup {UnbilledResult(k) : k \in DOMAIN observed \ Matched(ln)}
    BY <1>1, <1>3, <1>6
  <2> QED BY <1>5, <1>7, <2>1, <2>2
<1>9. ASSUME Clean(ln)  PROVE Clean(rv)
  <2> SUFFICES ASSUME NEW i \in 1 .. N, NEW j \in 1 .. N, i # j, rv[i].provider = rv[j].provider
               PROVE  rv[i].model # rv[j].model /\ AllModels \notin {rv[i].model, rv[j].model}
    BY <1>3 DEF Clean
  <2>1. PICK a \in 1 .. N : a = N - i + 1 /\ rv[i] = ln[a]
    BY <1>3
  <2>2. PICK b \in 1 .. N : b = N - j + 1 /\ rv[j] = ln[b]
    BY <1>3
  <2>3. a # b
    BY <2>1, <2>2
  <2> QED BY <1>3, <1>9, <2>1, <2>2, <2>3 DEF Clean
<1> QED BY <1>2, <1>8, <1>9

(* The invariant: what the amounts are, and which record opens the chain.    *)
BillingInv ==
  /\ ObservedInv
  /\ billed \in Seq(BilledLines)
  /\ chain \in Seq([kind : {"billing", "metrics"}, nonce : Nat])
  /\ BillingOpensChain

LEMMA BillingStarts == BillingInit => BillingInv
<1> SUFFICES ASSUME BillingInit  PROVE BillingInv
  OBVIOUS
<1>1. observed = <<>> /\ DOMAIN observed = {} /\ billed = <<>> /\ chain = <<>>
  BY DEF BillingInit
<1>2. ObservedInv
  BY <1>1, FS_EmptySet DEF ObservedInv
<1> QED BY <1>1, <1>2 DEF BillingInv, BillingOpensChain

LEMMA BillingSteps == BillingInv /\ [BillingNext]_billingVars => BillingInv'
<1> SUFFICES ASSUME BillingInv, [BillingNext]_billingVars  PROVE BillingInv'
  OBVIOUS
<1>1. ASSUME NEW p \in Billers, NEW m \in BilledModels, NEW a \in UsageAmounts, Observe(p, m, a)
      PROVE  BillingInv'
  <2>1. PICK key : key = <<p, m>>
    OBVIOUS
  <2>2. observed' = [k \in DOMAIN observed \cup {key} |-> IF k = key THEN a ELSE observed[k]]
        /\ UNCHANGED <<billed, chain>>
    BY <1>1, <2>1, Zenon DEF Observe
  <2>3. a \in [tokens : Nat, cost : Nat]
    BY BillingAssumption
  <2>4. DOMAIN observed' = DOMAIN observed \cup {key} /\ key \in Billers \X BilledModels
    BY <2>1, <2>2
  <2>5. IsFiniteSet(DOMAIN observed')
    <3>1. PICK D : D = DOMAIN observed /\ IsFiniteSet(D)
      BY DEF BillingInv, ObservedInv
    <3>2. IsFiniteSet(D \cup {key})
      BY <3>1, FS_AddElement
    <3> QED BY <2>4, <3>1, <3>2
  <2>6. \A k \in DOMAIN observed' : observed'[k] \in [tokens : Nat, cost : Nat]
    BY <2>2, <2>3, <2>4 DEF BillingInv, ObservedInv
  <2>7. ObservedInv'
    BY <2>4, <2>5, <2>6 DEF BillingInv, ObservedInv
  <2> QED BY <2>2, <2>7 DEF BillingInv, BillingOpensChain
<1>2. ASSUME NEW p \in Billers, NEW m \in BilledModels \cup {AllModels}, NEW c \in Charges, Bill(p, m, c)
      PROVE  BillingInv'
  <2>1. c \in [tokens : Int, cost : Int]
    BY BillingAssumption
  <2>2. ParseInvoice(p, m, c) \in BilledLines
    BY <2>1 DEF ParseInvoice, BilledLines
  <2>3. billed' = Append(billed, ParseInvoice(p, m, c)) /\ UNCHANGED <<observed, chain>>
    BY <1>2 DEF Bill
  <2>4. billed' \in Seq(BilledLines)
    BY <2>2, <2>3 DEF BillingInv
  <2>5. ObservedInv'
    BY <2>3 DEF BillingInv, ObservedInv
  <2> QED BY <2>3, <2>4, <2>5 DEF BillingInv, BillingOpensChain
<1>3. ASSUME NEW r \in [kind : {"billing", "metrics"}, nonce : Nat], chain' = Append(chain, r),
             UNCHANGED <<observed, billed>>, r.kind = "billing" => Len(chain) = 0
      PROVE  BillingInv'
  <2>1. chain' \in Seq([kind : {"billing", "metrics"}, nonce : Nat])
    BY <1>3 DEF BillingInv
  <2>2. PICK n \in Nat : n = Len(chain) /\ DOMAIN chain = 1 .. n
    BY DEF BillingInv
  <2>3. DOMAIN chain' = 1 .. n + 1 /\ chain'[n + 1] = r /\ \A i \in 1 .. n : chain'[i] = chain[i]
    BY <1>3, <2>2 DEF BillingInv
  <2>4. ASSUME NEW i \in DOMAIN chain', chain'[i].kind = "billing"  PROVE i = 1
    <3>1. CASE i \in 1 .. n
      BY <2>2, <2>3, <2>4, <3>1 DEF BillingInv, BillingOpensChain
    <3>2. CASE i = n + 1
      BY <1>3, <2>2, <2>3, <2>4, <3>2
    <3> QED BY <2>3, <3>1, <3>2
  <2>5. ObservedInv'
    BY <1>3 DEF BillingInv, ObservedInv
  <2> QED BY <1>3, <2>1, <2>4, <2>5 DEF BillingInv, BillingOpensChain
<1>4. CASE SubmitBilling
  <2>1. chain' = Append(chain, BillingRecord) /\ UNCHANGED <<observed, billed>>
        /\ BillingRecord.nonce = Len(chain) + 1
    BY <1>4 DEF SubmitBilling, Accepted
  <2>2. BillingRecord \in [kind : {"billing", "metrics"}, nonce : Nat] /\ BillingRecord.nonce = 1
    BY DEF BillingRecord
  <2>3. Len(chain) \in Nat
    BY DEF BillingInv
  <2> QED BY <1>3, <2>1, <2>2, <2>3
<1>5. CASE AnchorPeriod
  <2>1. PICK r : r = [kind |-> "metrics", nonce |-> Len(chain) + 1]
    OBVIOUS
  <2>2. chain' = Append(chain, r) /\ UNCHANGED <<observed, billed>>
    BY <1>5, <2>1 DEF AnchorPeriod
  <2>3. r \in [kind : {"billing", "metrics"}, nonce : Nat] /\ r.kind # "billing"
    BY <2>1 DEF BillingInv
  <2> QED BY <1>3, <2>2, <2>3
<1>6. CASE UNCHANGED billingVars
  <2>1. UNCHANGED <<observed, billed, chain>>
    BY <1>6 DEF billingVars
  <2> QED BY <2>1 DEF BillingInv, ObservedInv, BillingOpensChain
<1> QED BY <1>1, <1>2, <1>4, <1>5, <1>6 DEF BillingNext

(* Theorem: a reconciliation is sound, for any invoices, amounts and          *)
(* threshold.                                                                *)
THEOREM BillsAreReconciled ==
  BillingInit /\ [][BillingNext]_billingVars => []ReconciliationSound
<1>1. BillingInv => ReconciliationSound
  <2> SUFFICES ASSUME BillingInv  PROVE ReconciliationSound
    OBVIOUS
  <2>1. ObservedInv /\ billed \in Seq(BilledLines) /\ BillingOpensChain
    BY DEF BillingInv
  <2>2. ReconciliationAddsUp
    BY <2>1, ObservedAddsUp, BilledAddsUp, Zenon DEF ReconciliationAddsUp
  <2>3. QuietMeansWithinThreshold
    BY <2>1, QuietWithin, Zenon DEF QuietMeansWithinThreshold, SizeWithin
  <2>4. HashIgnoresOrder
    <3> SUFFICES ASSUME Clean(billed)
                 PROVE  Attestation(Reconcile(billed)).hash = Attestation(Reconcile(Reverse(billed))).hash
      BY DEF HashIgnoresOrder
    <3>1. Reverse(billed) \in Seq(BilledLines) /\ Clean(Reverse(billed))
      BY <2>1, Reversed, ReverseSame
    <3>2. HashReconciliations(Reconcile(billed)) = HashOf(ResultsOf(billed))
      BY <2>1, HashIs
    <3>3. HashReconciliations(Reconcile(Reverse(billed))) = HashOf(ResultsOf(Reverse(billed)))
      BY <2>1, <3>1, HashIs
    <3>4. HashOf(ResultsOf(Reverse(billed))) = HashOf(ResultsOf(billed))
      BY <2>1, ReverseSame
    <3>5. \A rs : Attestation(rs).hash = HashReconciliations(rs)
      BY DEF Attestation
    <3> QED BY <3>2, <3>3, <3>4, <3>5
  <2> QED BY <2>1, <2>2, <2>3, <2>4 DEF ReconciliationSound
<1> QED BY <1>1, BillingStarts, BillingSteps, PTL

-----------------------------------------------------------------------------
(* Request classification. The tasks, and what keywords and signals add.     *)
LEMMA TasksAre ==
  /\ DOMAIN TaskTypes = 1 .. 14 /\ Len(TaskTypes) = 14
  /\ TaskTypes[3] = "classification" /\ TaskTypes[7] = "conversation"
  /\ \A i \in 1 .. 14 : TaskTypes[i] = "unknown" <=> i = 14
  /\ \A i \in 1 .. 14 : TaskTypes[i] = "conversation" <=> i = 7
BY DEF TaskTypes

LEMMA KeyedIs ==
  ASSUME NEW inp, NEW i \in 1 .. 14
  PROVE  /\ Keyed(inp, TaskTypes[i]) \in Nat
         /\ i = 14 => Keyed(inp, TaskTypes[i]) = 0
         /\ Keyed(inp, TaskTypes[i]) > 0
              => (inp.system \cup inp.user) \cap TaskKeywords[TaskTypes[i]] # {}
<1> DEFINE t == TaskTypes[i]
           K == TaskKeywords[t]
           s == Cardinality(inp.system \cap K)
           u == Cardinality(inp.user \cap K)
<1>1. CASE i = 14
  <2>1. t = "unknown"
    BY <1>1, TasksAre
  <2> QED BY <1>1, <2>1 DEF Keyed
<1>2. CASE i # 14
  <2>1. t # "unknown" /\ i \in 1 .. 13
    BY <1>2, TasksAre
  <2>2. IsFiniteSet(K)
    BY <2>1, ClassifierAssumption, TasksAre
  <2>3. IsFiniteSet(inp.system \cap K) /\ IsFiniteSet(inp.user \cap K)
    BY <2>2, FS_Intersection
  <2>4. s \in Nat /\ u \in Nat
    BY <2>3, FS_CardinalityType
  <2>5. \/ Keyed(inp, t) = s * 30 + 50 * u
        \/ Keyed(inp, t) = s * 15 + 50 * u
    BY <2>1 DEF Keyed
  <2>6. Keyed(inp, t) \in Nat /\ (Keyed(inp, t) > 0 => s > 0 \/ u > 0)
    <3> HIDE DEF s, u, t
    <3> QED BY <2>4, <2>5
  <2>7. s > 0 \/ u > 0 => (inp.system \cup inp.user) \cap K # {}
    <3>1. inp.system \cap K = {} => s = 0
      BY FS_EmptySet
    <3>2. inp.user \cap K = {} => u = 0
      BY FS_EmptySet
    <3> QED BY <2>4, <3>1, <3>2
  <2> QED BY <1>2, <2>6, <2>7
<1> QED BY <1>1, <1>2

LEMMA WorthIs ==
  ASSUME NEW on, NEW tasks, NEW task, NEW plus \in Int
  PROVE  Worth(on, tasks, task, plus) \in Int
BY DEF Worth

LEMMA SignalsAre ==
  ASSUME NEW inp, NEW task
  PROVE  /\ ToolSignals(inp, task) \in Int /\ ShapeSignals(inp, task) \in Int
         /\ CodeSignals(inp, task) \in Int
<1>1. ToolSignals(inp, task) \in Int
  BY DEF ToolSignals, Worth
<1>2. ShapeSignals(inp, task) \in Int
  <2>1. \A on, tasks : \A plus \in {10, 20, 30} : Worth(on, tasks, task, plus) \in Int
    BY WorthIs
  <2> QED BY <2>1 DEF ShapeSignals
<1>3. CodeSignals(inp, task) \in Int
  <2>1. \A on, tasks : \A plus \in {20, 30, -20, 40} : Worth(on, tasks, task, plus) \in Int
    BY WorthIs
  <2> QED BY <2>1 DEF CodeSignals
<1> QED BY <1>1, <1>2, <1>3

LEMMA ScoreIs ==
  ASSUME NEW inp, NEW i \in 1 .. 14
  PROVE  /\ Score(inp, TaskTypes[i]) \in Int
         /\ i = 14 => Score(inp, TaskTypes[i]) = 0
         /\ i = 7 => Score(inp, TaskTypes[i]) = Keyed(inp, TaskTypes[i])
         /\ TaskTypes[i] = "tool_selection" /\ ~inp.calls
              => Score(inp, TaskTypes[i]) <= Keyed(inp, TaskTypes[i]) + 20
         /\ i = 3 /\ RatioLow(inp) /\ inp.completion < 50 => Score(inp, TaskTypes[i]) >= 30
<1> DEFINE t == TaskTypes[i]
<1>0. Score(inp, t) = Keyed(inp, t) + ToolSignals(inp, t) + ShapeSignals(inp, t) + CodeSignals(inp, t)
  BY DEF Score
<1>1. Keyed(inp, t) \in Nat /\ (i = 14 => Keyed(inp, t) = 0)
  BY KeyedIs
<1>2. /\ ToolSignals(inp, t) \in Int /\ ShapeSignals(inp, t) \in Int
      /\ CodeSignals(inp, t) \in Int
  BY SignalsAre
<1>3. Score(inp, t) \in Int
  BY <1>0, <1>1, <1>2
<1>4. CASE t \in {"unknown", "conversation"}
  <2>1. ToolSignals(inp, t) = 0 /\ ShapeSignals(inp, t) = 0 /\ CodeSignals(inp, t) = 0
    BY <1>4 DEF ToolSignals, ShapeSignals, CodeSignals, Worth
  <2>2. t # "tool_selection" /\ i # 3
    BY <1>4, TasksAre
  <2> QED BY <1>0, <1>1, <1>3, <2>1, <2>2
<1>5. CASE t = "tool_selection"
  <2>1. ShapeSignals(inp, t) = 0 /\ CodeSignals(inp, t) = 0
    BY <1>5 DEF ShapeSignals, CodeSignals, Worth
  <2>2. ~inp.calls => ToolSignals(inp, t) <= 20
    BY <1>5 DEF ToolSignals, Worth
  <2>3. i # 14 /\ i # 7 /\ i # 3
    BY <1>5, TasksAre
  <2> QED BY <1>0, <1>1, <1>2, <1>3, <2>1, <2>2, <2>3
<1>6. CASE t = "classification"
  <2>1. ToolSignals(inp, t) = 0 /\ CodeSignals(inp, t) = 0
    BY <1>6 DEF ToolSignals, CodeSignals, Worth
  <2>2. RatioLow(inp) /\ inp.completion < 50 => ShapeSignals(inp, t) >= 30
    <3>1. Worth(inp.schema, {"classification", "extraction"}, t, 30) \in Nat
      BY DEF Worth
    <3>2. Worth(RatioHigh(inp), {"code_generation", "reasoning"}, t, 20) \in Nat
      BY DEF Worth
    <3>3. Worth(inp.hint = "json", {"extraction", "classification"}, t, 20) \in Nat
      BY DEF Worth
    <3>4. Worth(inp.hint = "markdown", {"summarization", "reasoning"}, t, 10) \in Nat
      BY DEF Worth
    <3>5. RatioLow(inp) /\ inp.completion < 50
            => Worth(RatioLow(inp) /\ inp.completion < 50, {"classification"}, t, 30) = 30
      BY <1>6 DEF Worth
    <3> QED BY <3>1, <3>2, <3>3, <3>4, <3>5 DEF ShapeSignals
  <2>3. i # 14 /\ i # 7
    BY <1>6, TasksAre
  <2> QED BY <1>0, <1>1, <1>2, <1>3, <1>6, <2>1, <2>2, <2>3
<1>7. CASE t \notin {"unknown", "conversation", "tool_selection", "classification"}
  <2>1. i # 14 /\ i # 7 /\ i # 3
    BY <1>7, TasksAre
  <2> QED BY <1>3, <1>7, <2>1
<1> QED BY <1>4, <1>5, <1>6, <1>7


LEMMA LargestOf ==
  ASSUME NEW S, IsFiniteSet(S), S # {}, S \subseteq Int
  PROVE  Max(S) \in S /\ \A y \in S : Max(S) >= y
<1> DEFINE F == {T \in SUBSET S : T # {} => \E x \in T : \A y \in T : x >= y}
<1>1. {} \in F
  OBVIOUS
<1>2. ASSUME NEW T \in SUBSET S, NEW z \in S \ T, T \in F
      PROVE  T \cup {z} \in F
  <2>1. z \in Int /\ T \subseteq Int
    OBVIOUS
  <2>2. CASE T = {}
    BY <2>1, <2>2
  <2>3. CASE T # {}
    <3>1. PICK x \in T : \A y \in T : x >= y
      BY <1>2, <2>3
    <3>2. CASE z <= x
      BY <2>1, <3>1, <3>2
    <3>3. CASE ~(z <= x)
      <4>1. \A y \in T \cup {z} : z >= y
        BY <2>1, <3>1, <3>3
      <4> QED BY <4>1
    <3> QED BY <3>2, <3>3
  <2> QED BY <2>2, <2>3
<1>3. S \in F
  <2> HIDE DEF F
  <2> QED BY <1>1, <1>2, FiniteSetSetInduction
<1>4. \E x \in S : \A y \in S : x >= y
  BY <1>3
<1> QED BY <1>4, Zenon DEF Max

LEMMA SmallestOf ==
  ASSUME NEW S, S # {}, S \subseteq Nat
  PROVE  Min(S) \in S
<1>1. \E x \in S : \A y \in S : x <= y
  BY LeastNumber
<1> QED BY <1>1, Zenon DEF Min

(* What the rules say of a request: the score of the task they name, or of   *)
(* small talk where no other is strong.                                      *)
LEMMA ClassifyIs ==
  ASSUME NEW inp
  PROVE  /\ Classify(inp).by = "rules"
         /\ Classify(inp).confidence \in 20 .. 100
         /\ Classify(inp).task # "unknown"
         /\ \E i \in 1 .. 14 :
              /\ Classify(inp).task = TaskTypes[i]
              /\ \/ Score(inp, TaskTypes[i]) >= 30
                 \/ i = 7 /\ \A j \in 1 .. 14 : ~(Score(inp, TaskTypes[j]) >= 30)
<1> DEFINE plain == [i \in DOMAIN TaskTypes |-> Score(inp, TaskTypes[i])]
           strong == \E i \in DOMAIN plain : plain[i] >= 30
           raised == [i \in DOMAIN plain |-> plain[i] +
                        IF ~strong /\ TaskTypes[i] = "conversation" THEN ConversationFallback ELSE 0]
           highest == Max({raised[i] : i \in DOMAIN raised})
           best == Min({i \in DOMAIN raised : raised[i] = highest})
           confidence == IF highest >= 150 THEN 100 ELSE (2 * highest) \div 3
<1>0. Classify(inp) = [task |-> IF confidence < 20 THEN "unknown" ELSE TaskTypes[best],
                       confidence |-> confidence, by |-> "rules"]
  BY DEF Classify
<1>1. DOMAIN plain = 1 .. 14 /\ DOMAIN raised = 1 .. 14
  BY TasksAre
<1>2. /\ \A i \in 1 .. 14 : plain[i] = Score(inp, TaskTypes[i]) /\ plain[i] \in Int
      /\ plain[14] = 0 /\ plain[7] \in Nat
  BY ScoreIs, KeyedIs, TasksAre
<1>3. PICK lift : lift = IF strong THEN 0 ELSE 35
  OBVIOUS
<1>4. /\ lift \in {0, 35}
      /\ lift = 0 <=> \E i \in 1 .. 14 : plain[i] >= 30
  BY <1>1, <1>3
<1>5. \A i \in 1 .. 14 : /\ raised[i] = plain[i] + (IF i = 7 THEN lift ELSE 0)
                          /\ raised[i] \in Int
  <2> SUFFICES ASSUME NEW i \in 1 .. 14
               PROVE  /\ raised[i] = plain[i] + (IF i = 7 THEN lift ELSE 0)
                      /\ raised[i] \in Int
    OBVIOUS
  <2>1. raised[i] = plain[i] + IF ~strong /\ TaskTypes[i] = "conversation" THEN ConversationFallback ELSE 0
    BY <1>1
  <2>2. TaskTypes[i] = "conversation" <=> i = 7
    BY TasksAre
  <2>3. plain[i] \in Int
    BY <1>2
  <2>4. raised[i] = plain[i] + (IF i = 7 THEN lift ELSE 0)
    <3>1. CASE strong
      BY <1>3, <2>1, <2>2, <3>1
    <3>2. CASE ~strong
      BY <1>3, <2>1, <2>2, <3>2 DEF ConversationFallback
    <3> QED BY <3>1, <3>2
  <2> HIDE DEF plain, strong, raised
  <2> QED BY <1>4, <2>3, <2>4
<1> HIDE DEF plain, strong, raised
<1>6. /\ highest \in {raised[i] : i \in 1 .. 14}
      /\ \A i \in 1 .. 14 : highest >= raised[i]
  <2>1. IsFiniteSet({raised[i] : i \in 1 .. 14})
    <3>1. IsFiniteSet(1 .. 14)
      BY 1 \in Int, 14 \in Int, FS_Interval, Zenon
    <3> HIDE DEF highest, best
    <3> QED BY <3>1, ValuesFinite
  <2>2. {raised[i] : i \in 1 .. 14} # {} /\ {raised[i] : i \in 1 .. 14} \subseteq Int
    BY <1>5
  <2>3. highest = Max({raised[i] : i \in 1 .. 14})
    BY <1>1
  <2>4. PICK S : S = {raised[i] : i \in 1 .. 14}
    OBVIOUS
  <2>5. Max(S) \in S /\ \A y \in S : Max(S) >= y
    BY <2>1, <2>2, <2>4, LargestOf
  <2> QED BY <2>3, <2>4, <2>5
<1>7. best \in 1 .. 14 /\ raised[best] = highest
  <2>0. \E i \in 1 .. 14 : raised[i] = highest
    BY <1>6
  <2>1. {i \in 1 .. 14 : raised[i] = highest} # {} /\ {i \in 1 .. 14 : raised[i] = highest} \subseteq Nat
    <3> HIDE DEF highest
    <3> QED BY <2>0
  <2>2. best = Min({i \in 1 .. 14 : raised[i] = highest})
    BY <1>1
  <2> QED BY <2>1, <2>2, SmallestOf
<1> HIDE DEF highest, best
<1>8. highest \in Int /\ highest >= 30
  <2>1. CASE lift = 0
    <3>1. PICK i \in 1 .. 14 : plain[i] >= 30
      BY <1>4, <2>1
    <3>2. raised[i] = plain[i] /\ plain[i] \in Int
      BY <1>2, <1>5, <2>1, <3>1
    <3> QED BY <1>5, <1>6, <3>1, <3>2
  <2>2. CASE lift = 35
    <3>1. raised[7] >= 35
      BY <1>2, <1>5, <2>2
    <3> QED BY <1>5, <1>6, <3>1
  <2> QED BY <1>4, <2>1, <2>2
<1>9. confidence \in 20 .. 100
  BY <1>8
<1>10. \/ plain[best] >= 30
       \/ best = 7 /\ lift = 35
  <2>1. raised[best] = plain[best] + (IF best = 7 THEN lift ELSE 0) /\ plain[best] \in Int
    BY <1>2, <1>5, <1>7
  <2>2. raised[best] >= 30
    BY <1>7, <1>8
  <2> QED BY <1>4, <2>1, <2>2
<1>11. best # 14
  BY <1>2, <1>10
<1>12. Classify(inp).task = TaskTypes[best] /\ Classify(inp).confidence = confidence
       /\ Classify(inp).by = "rules"
  <2> HIDE DEF confidence
  <2>1. ~(confidence < 20)
    BY <1>9
  <2> QED BY <1>0, <2>1
<1>13. \/ Score(inp, TaskTypes[best]) >= 30
       \/ best = 7 /\ \A j \in 1 .. 14 : ~(Score(inp, TaskTypes[j]) >= 30)
  BY <1>2, <1>4, <1>7, <1>10
<1>14. TaskTypes[best] # "unknown"
  BY <1>7, <1>11, TasksAre
<1> QED BY <1>7, <1>9, <1>12, <1>13, <1>14

(* Small talk takes a keyword where the answer counts as short, and a choice *)
(* of tools takes a keyword or calls.                                        *)
LEMMA TasksHaveReasons ==
  ASSUME NEW inp
  PROVE  /\ Classify(inp).task = "conversation" /\ RatioLow(inp) /\ inp.completion < 50
              => (inp.system \cup inp.user) \cap TaskKeywords["conversation"] # {}
         /\ Classify(inp).task = "tool_selection" /\ ~inp.calls
              => (inp.system \cup inp.user) \cap TaskKeywords["tool_selection"] # {}
<1>1. PICK i \in 1 .. 14 :
        /\ Classify(inp).task = TaskTypes[i]
        /\ \/ Score(inp, TaskTypes[i]) >= 30
           \/ i = 7 /\ \A j \in 1 .. 14 : ~(Score(inp, TaskTypes[j]) >= 30)
  BY ClassifyIs
<1>2. Keyed(inp, TaskTypes[i]) \in Nat
      /\ (Keyed(inp, TaskTypes[i]) > 0
            => (inp.system \cup inp.user) \cap TaskKeywords[TaskTypes[i]] # {})
  BY KeyedIs
<1>3. ASSUME Classify(inp).task = "conversation", RatioLow(inp), inp.completion < 50
      PROVE  Keyed(inp, TaskTypes[i]) > 0
  <2>1. i = 7
    BY <1>1, <1>3, TasksAre
  <2>2. Score(inp, TaskTypes[3]) >= 30
    BY <1>3, ScoreIs
  <2>3. Score(inp, TaskTypes[i]) = Keyed(inp, TaskTypes[i])
    BY <2>1, ScoreIs
  <2> QED BY <1>1, <1>2, <2>2, <2>3
<1>4. ASSUME Classify(inp).task = "tool_selection", ~inp.calls
      PROVE  Keyed(inp, TaskTypes[i]) > 0
  <2>1. TaskTypes[i] = "tool_selection" /\ i # 7
    BY <1>1, <1>4, TasksAre
  <2>2. Score(inp, TaskTypes[i]) <= Keyed(inp, TaskTypes[i]) + 20
        /\ Score(inp, TaskTypes[i]) \in Int
    BY <1>4, <2>1, ScoreIs
  <2> QED BY <1>1, <1>2, <2>1, <2>2
<1> QED BY <1>1, <1>2, <1>3, <1>4


(* The evaluation. What is counted of a data set, example by example.        *)
Outcomes == {[predicted |-> Classify(Input(e.request, e.tokens)), expected |-> e.expected] : e \in Examples}

ScoredInv ==
  /\ scored = [seen |-> scored.seen, tp |-> scored.tp, fp |-> scored.fp, fn |-> scored.fn]
  /\ scored.seen \in Seq(Outcomes)
  /\ \A i \in 1 .. 14 : /\ CountOf(scored.tp, TaskTypes[i]) \in Nat
                        /\ CountOf(scored.fp, TaskTypes[i]) \in Nat
                        /\ CountOf(scored.fn, TaskTypes[i]) \in Nat
  /\ EvaluationAddsUp

LEMMA PlusIs ==
  ASSUME NEW f, NEW t, NEW u
  PROVE  CountOf(Plus(f, t), u) = CountOf(f, u) + IF u = t THEN 1 ELSE 0
<1>1. DOMAIN Plus(f, t) = DOMAIN f \cup {t}
      /\ \A v \in DOMAIN f \cup {t} : Plus(f, t)[v] = CountOf(f, v) + IF v = t THEN 1 ELSE 0
  BY DEF Plus
<1>2. CASE u \in DOMAIN f \cup {t}
  BY <1>1, <1>2 DEF CountOf
<1>3. CASE u \notin DOMAIN f \cup {t}
  BY <1>1, <1>3 DEF CountOf
<1> QED BY <1>2, <1>3

(* One more example: what is counted of it grows by one or not at all.       *)
LEMMA OneMore ==
  ASSUME NEW n \in Nat, NEW A \in SUBSET (1 .. n), NEW B,
         B = A \/ B = A \cup {n + 1}
  PROVE  /\ IsFiniteSet(A) /\ Cardinality(A) \in Nat
         /\ Cardinality(B) = Cardinality(A) + IF n + 1 \in B THEN 1 ELSE 0
<1>1. IsFiniteSet(1 .. n)
  BY FS_Interval
<1>2. IsFiniteSet(A) /\ Cardinality(A) \in Nat
  BY <1>1, FS_Subset, FS_CardinalityType
<1>3. n + 1 \notin A
  OBVIOUS
<1>4. Cardinality(A \cup {n + 1}) = Cardinality(A) + 1
  BY <1>2, <1>3, FS_AddElement
<1>5. CASE B = A
  BY <1>2, <1>3, <1>5
<1>6. CASE B = A \cup {n + 1}
  BY <1>2, <1>4, <1>6
<1> QED BY <1>2, <1>5, <1>6

LEMMA EvaluateInv ==
  ASSUME ScoredInv, NEW e \in Examples, Evaluate(e.request, e.tokens, e.expected)
  PROVE  ScoredInv'
<1> DEFINE p == Classify(Input(e.request, e.tokens))
           o == [predicted |-> p, expected |-> e.expected]
           n == Len(scored.seen)
<1>1. scored' = Accumulate(scored, p, e.expected)
  BY DEF Evaluate
<1>2. /\ scored'.seen = Append(scored.seen, o)
      /\ scored'.tp = IF p.task = e.expected THEN Plus(scored.tp, e.expected) ELSE scored.tp
      /\ scored'.fp = IF p.task = e.expected THEN scored.fp ELSE Plus(scored.fp, p.task)
      /\ scored'.fn = IF p.task = e.expected THEN scored.fn ELSE Plus(scored.fn, e.expected)
      /\ scored' = [seen |-> scored'.seen, tp |-> scored'.tp, fp |-> scored'.fp, fn |-> scored'.fn]
  <2> HIDE DEF p
  <2> QED BY <1>1 DEF Accumulate, ScoredInv
<1>3. o \in Outcomes
  BY DEF Outcomes
<1>4. /\ scored.seen \in Seq(Outcomes) /\ n \in Nat /\ DOMAIN scored.seen = 1 .. n
  BY DEF ScoredInv
<1>5. /\ scored'.seen \in Seq(Outcomes) /\ DOMAIN scored'.seen = 1 .. n + 1
      /\ scored'.seen[n + 1] = o
      /\ \A i \in 1 .. n : scored'.seen[i] = scored.seen[i]
  <2> HIDE DEF o
  <2> QED BY <1>2, <1>3, <1>4
<1>6. o.predicted.task = p.task /\ o.expected = e.expected
  OBVIOUS
<1> HIDE DEF o, p, n
<1>7. ASSUME NEW i \in 1 .. 14
      PROVE  LET t == TaskTypes[i]
             IN  /\ CountOf(scored'.tp, t) \in Nat /\ CountOf(scored'.fp, t) \in Nat
                 /\ CountOf(scored'.fn, t) \in Nat
                 /\ CountOf(scored'.tp, t) = Cardinality(Predicted(scored', t) \cap Expected(scored', t))
                 /\ CountOf(scored'.tp, t) + CountOf(scored'.fp, t) = Cardinality(Predicted(scored', t))
                 /\ CountOf(scored'.tp, t) + CountOf(scored'.fn, t) = Cardinality(Expected(scored', t))
  <2> DEFINE t == TaskTypes[i]
             P == Predicted(scored, t)
             E == Expected(scored, t)
             P2 == Predicted(scored', t)
             E2 == Expected(scored', t)
             one(b) == IF b THEN 1 ELSE 0
  <2>1. /\ P \in SUBSET (1 .. n) /\ E \in SUBSET (1 .. n) /\ P \cap E \in SUBSET (1 .. n)
    BY <1>4 DEF Predicted, Expected
  <2>2. /\ P2 = P \/ P2 = P \cup {n + 1}
        /\ n + 1 \in P2 <=> p.task = t
    BY <1>4, <1>5, <1>6 DEF Predicted
  <2>3. /\ E2 = E \/ E2 = E \cup {n + 1}
        /\ n + 1 \in E2 <=> e.expected = t
    BY <1>4, <1>5, <1>6 DEF Expected
  <2> HIDE DEF P, E, P2, E2, t
  <2>4. /\ P2 \cap E2 = P \cap E \/ P2 \cap E2 = (P \cap E) \cup {n + 1}
        /\ n + 1 \in P2 \cap E2 <=> p.task = t /\ e.expected = t
    BY <1>4, <2>1, <2>2, <2>3
  <2>5. /\ Cardinality(P) \in Nat /\ Cardinality(E) \in Nat /\ Cardinality(P \cap E) \in Nat
        /\ Cardinality(P2) = Cardinality(P) + IF p.task = t THEN 1 ELSE 0
        /\ Cardinality(E2) = Cardinality(E) + IF e.expected = t THEN 1 ELSE 0
        /\ Cardinality(P2 \cap E2) = Cardinality(P \cap E)
             + IF p.task = t /\ e.expected = t THEN 1 ELSE 0
    <3>1. /\ Cardinality(P) \in Nat
          /\ Cardinality(P2) = Cardinality(P) + IF n + 1 \in P2 THEN 1 ELSE 0
      BY <1>4, <2>1, <2>2, OneMore
    <3>2. /\ Cardinality(E) \in Nat
          /\ Cardinality(E2) = Cardinality(E) + IF n + 1 \in E2 THEN 1 ELSE 0
      BY <1>4, <2>1, <2>3, OneMore
    <3>3. PICK A, B : A = P \cap E /\ B = P2 \cap E2
      OBVIOUS
    <3>4. /\ Cardinality(A) \in Nat
          /\ Cardinality(B) = Cardinality(A) + IF n + 1 \in B THEN 1 ELSE 0
      <4>1. A \in SUBSET (1 .. n) /\ (B = A \/ B = A \cup {n + 1}) /\ n \in Nat
        BY <1>4, <2>1, <2>4, <3>3
      <4> QED BY <4>1, OneMore
    <3>5. n + 1 \in B <=> p.task = t /\ e.expected = t
      BY <2>4, <3>3
    <3> QED BY <2>2, <2>3, <3>1, <3>2, <3>3, <3>4, <3>5
  <2>6. /\ CountOf(scored.tp, t) \in Nat /\ CountOf(scored.fp, t) \in Nat
        /\ CountOf(scored.fn, t) \in Nat
        /\ CountOf(scored.tp, t) = Cardinality(P \cap E)
        /\ CountOf(scored.tp, t) + CountOf(scored.fp, t) = Cardinality(P)
        /\ CountOf(scored.tp, t) + CountOf(scored.fn, t) = Cardinality(E)
    BY TasksAre DEF ScoredInv, EvaluationAddsUp, P, E, t
  <2>7. CASE p.task = e.expected
    <3>1. /\ CountOf(scored'.tp, t) = CountOf(scored.tp, t) + IF t = e.expected THEN 1 ELSE 0
          /\ scored'.fp = scored.fp /\ scored'.fn = scored.fn
      BY <1>2, <2>7, PlusIs
    <3>2. CASE t = e.expected
      BY <2>5, <2>6, <2>7, <3>1, <3>2 DEF P2, E2, t
    <3>3. CASE t # e.expected
      BY <2>5, <2>6, <2>7, <3>1, <3>3 DEF P2, E2, t
    <3> QED BY <3>2, <3>3
  <2>8. CASE p.task # e.expected
    <3>1. /\ CountOf(scored'.fp, t) = CountOf(scored.fp, t) + IF t = p.task THEN 1 ELSE 0
          /\ CountOf(scored'.fn, t) = CountOf(scored.fn, t) + IF t = e.expected THEN 1 ELSE 0
          /\ scored'.tp = scored.tp
      BY <1>2, <2>8, PlusIs
    <3>2. CASE t = e.expected
      BY <2>5, <2>6, <2>8, <3>1, <3>2 DEF P2, E2, t
    <3>3. CASE t = p.task
      BY <2>5, <2>6, <2>8, <3>1, <3>3 DEF P2, E2, t
    <3>4. CASE t # e.expected /\ t # p.task
      BY <2>5, <2>6, <2>8, <3>1, <3>4 DEF P2, E2, t
    <3> QED BY <3>2, <3>3, <3>4
  <2> QED BY <2>7, <2>8
<1>8. EvaluationAddsUp'
  BY <1>7, TasksAre DEF EvaluationAddsUp
<1>9. \A i \in 1 .. 14 : /\ CountOf(scored'.tp, TaskTypes[i]) \in Nat
                         /\ CountOf(scored'.fp, TaskTypes[i]) \in Nat
                         /\ CountOf(scored'.fn, TaskTypes[i]) \in Nat
  BY <1>7
<1> QED BY <1>2, <1>5, <1>8, <1>9 DEF ScoredInv

(* A set counted by ones.                                                    *)
LEMMA SumOfOnes ==
  ASSUME NEW S, IsFiniteSet(S), NEW f, \A x \in S : f[x] = 1
  PROVE  SumFunctionOnSet(f, S) = Cardinality(S)
<1> DEFINE F == {T \in SUBSET S : SumFunctionOnSet(f, T) = Cardinality(T)}
<1>1. {} \in F
  BY SumEmpty, FS_EmptySet
<1>2. ASSUME NEW T \in SUBSET S, NEW x \in S \ T, T \in F
      PROVE  T \cup {x} \in F
  <2>1. IsFiniteSet(T) /\ Cardinality(T) \in Nat
    BY FS_Subset, FS_CardinalityType
  <2>2. \A y \in T \cup {x} : f[y] \in Int
    OBVIOUS
  <2>3. SumFunctionOnSet(f, T \cup {x}) = f[x] + SumFunctionOnSet(f, T)
    BY <2>1, <2>2, SumAdd
  <2>4. Cardinality(T \cup {x}) = Cardinality(T) + 1
    BY <2>1, FS_AddElement
  <2>5. SumFunctionOnSet(f, T \cup {x}) = Cardinality(T \cup {x})
    BY <1>2, <2>1, <2>3, <2>4
  <2> QED BY <2>5
<1>3. S \in F
  <2> HIDE DEF F
  <2> QED BY <1>1, <1>2, FiniteSetSetInduction
<1> QED BY <1>3

LEMMA BucketIs ==
  ASSUME NEW c \in 20 .. 100
  PROVE  Bucket(c) \in 0 .. 9 /\ c \in 10 * Bucket(c) .. 10 * (Bucket(c) + 1)
BY DEF Bucket

(* Every example is in one bucket of the calibration curve.                  *)
LEMMA CurveCounts ==
  ASSUME scored.seen \in Seq(Outcomes)
  PROVE  CalibrationCountsAll
<1> DEFINE n == Len(scored.seen)
           conf(i) == scored.seen[i].predicted.confidence
           D == {Bucket(conf(i)) : i \in DOMAIN scored.seen}
           curve == CalibrationCurve(scored)
           counts == [b \in DOMAIN curve |-> curve[b].count]
           part == [b \in D |-> {i \in 1 .. n : Bucket(conf(i)) = b}]
           f == [i \in 1 .. n |-> 1]
<1>1. n \in Nat /\ DOMAIN scored.seen = 1 .. n
  OBVIOUS
<1>2. \A i \in 1 .. n : conf(i) \in 20 .. 100
  <2> SUFFICES ASSUME NEW i \in 1 .. n  PROVE conf(i) \in 20 .. 100
    OBVIOUS
  <2>1. PICK e \in Examples : scored.seen[i] = [predicted |-> Classify(Input(e.request, e.tokens)),
                                                expected |-> e.expected]
    BY DEF Outcomes
  <2>2. Classify(Input(e.request, e.tokens)).confidence \in 20 .. 100
    BY ClassifyIs
  <2> QED BY <2>1, <2>2
<1>3. \A i \in 1 .. n : Bucket(conf(i)) \in 0 .. 9
                        /\ conf(i) \in 10 * Bucket(conf(i)) .. 10 * (Bucket(conf(i)) + 1)
  <2> HIDE DEF conf
  <2> QED BY <1>2, BucketIs
<1>4. DOMAIN curve = D /\ DOMAIN counts = D
  BY DEF CalibrationCurve
<1>5. D \subseteq 0 .. 9 /\ \A i \in 1 .. n : Bucket(conf(i)) \in D
  BY <1>1, <1>3
<1>6. \A b \in D : counts[b] = Cardinality(part[b])
  BY <1>1, <1>4 DEF CalibrationCurve
<1>7. IsFiniteSet(1 .. n) /\ Cardinality(1 .. n) = n
  <2>1. PICK m \in Nat : m = n
    BY <1>1
  <2>2. IsFiniteSet(1 .. m) /\ Cardinality(1 .. m) = m
    <3> HIDE DEF n, D, curve, counts, part, f
    <3> QED BY <2>1, FS_Interval
  <2> QED BY <2>1, <2>2
<1>8. IsFiniteSet(D)
  <2>1. IsFiniteSet(0 .. 9)
    BY 0 \in Int, 9 \in Int, FS_Interval, Zenon
  <2> QED BY <1>5, <2>1, FS_Subset
<1>9. \A b \in D : part[b] \in SUBSET (1 .. n)
  OBVIOUS
<1>10. \A b, c \in D : b # c => part[b] \cap part[c] = {}
  OBVIOUS
<1>11. UNION {part[b] : b \in D} = 1 .. n
  <2>1. ASSUME NEW i \in 1 .. n  PROVE \E b \in D : i \in part[b]
    <3>1. Bucket(conf(i)) \in D /\ i \in part[Bucket(conf(i))]
      BY <1>5
    <3> QED BY <3>1
  <2> HIDE DEF part, D
  <2> QED BY <1>9, <2>1
<1>12. \A x \in 1 .. n : f[x] = 1 /\ f[x] \in Int
  OBVIOUS
<1>13. DOMAIN counts = DOMAIN curve
  OBVIOUS
<1> HIDE DEF curve, counts, part, D, f
<1>14. \A b \in D : counts[b] = SumFunctionOnSet(f, part[b])
  <2> SUFFICES ASSUME NEW b \in D  PROVE counts[b] = SumFunctionOnSet(f, part[b])
    OBVIOUS
  <2>1. IsFiniteSet(part[b]) /\ \A x \in part[b] : f[x] = 1
    BY <1>7, <1>9, <1>12, FS_Subset
  <2>2. PICK S : S = part[b]
    OBVIOUS
  <2>3. SumFunctionOnSet(f, S) = Cardinality(S)
    BY <2>1, <2>2, SumOfOnes
  <2> QED BY <1>6, <2>2, <2>3
<1>15. SumFunctionOnSet(counts, D) = SumFunctionOnSet(f, UNION {part[b] : b \in D})
  <2> HIDE DEF n
  <2>1. PICK R : R = 1 .. n
    OBVIOUS
  <2>2. IsFiniteSet(R) /\ \A x \in R : f[x] \in Int
    BY <1>7, <1>12, <2>1
  <2>3. \A b \in D : part[b] \in SUBSET R
    BY <1>9, <2>1
  <2> QED BY <1>8, <1>10, <1>14, <2>2, <2>3, SumOfParts
<1>16. SumFunctionOnSet(f, 1 .. n) = n
  BY <1>7, <1>12, SumOfOnes
<1>17. SumFunctionOnSet(counts, DOMAIN curve) = n
  BY <1>4, <1>11, <1>15, <1>16
<1>18. \A i \in DOMAIN scored.seen : \E b \in DOMAIN curve : conf(i) \in 10 * b .. 10 * (b + 1)
  BY <1>1, <1>3, <1>4, <1>5
<1>19. DOMAIN curve \subseteq 0 .. 9
  BY <1>4, <1>5
<1> QED BY <1>17, <1>18, <1>19 DEF CalibrationCountsAll, curve, counts, n


(* The call of the proxy: where its labels come from.                        *)
FromRequest(label, tokens) == label = Classify(Input(call.request, tokens))

LabelledInv ==
  /\ call = [phase |-> call.phase, request |-> call.request, toolUse |-> call.toolUse,
             called |-> call.called, pre |-> call.pre, label |-> call.label]
  /\ call.phase \in {"idle", "routing", "upstream", "recorded"}
  /\ call.phase \in {"idle", "routing"} => call.pre = NoLabel
  /\ call.phase # "recorded" => call.label = NoLabel
  /\ call.phase \in {"routing", "upstream"} => call.toolUse = RequestUsesTools(call.request)
  /\ call.pre = NoLabel \/ call.pre.by = "model" \/ FromRequest(call.pre, Unknown)
  /\ \/ call.label = NoLabel
     \/ call.label.by = "model"
     \/ /\ \E tokens \in TokenCounts \cup {Unknown} : FromRequest(call.label, tokens)
        /\ call.toolUse = RequestUsesTools(call.request)
     \/ \E tokens \in TokenCounts :
          call.label = Classify(CallbackInput(call.request, tokens, call.called))
  /\ LabelIsKept

LEMMA LabelsAre ==
  ASSUME NEW r, NEW tokens, NEW answer, NEW label \in ClassifyRequest(r, tokens, answer)
  PROVE  label.by = "model" \/ label = Classify(Input(r, tokens))
BY DEF ClassifyRequest, ParseResponse

LEMMA ArriveInv ==
  ASSUME LabelledInv, NEW r, NEW straight, Arrive(r, straight)
  PROVE  LabelledInv'
<1>1. PICK phase \in {"upstream", "routing"} :
        call' = [Idle EXCEPT !.phase = phase, !.request = r, !.toolUse = RequestUsesTools(r)]
  BY DEF Arrive
<1>2. call' = [phase |-> phase, request |-> r, toolUse |-> RequestUsesTools(r),
               called |-> FALSE, pre |-> NoLabel, label |-> NoLabel]
  BY <1>1 DEF Idle
<1> QED BY <1>2 DEF LabelledInv, LabelIsKept

LEMMA PreClassifyInv ==
  ASSUME LabelledInv, NEW answer, PreClassify(answer)
  PROVE  LabelledInv'
<1>1. PICK label \in ClassifyRequest(call.request, Unknown, answer) :
        call' = [call EXCEPT !.phase = "upstream", !.pre = label]
  BY DEF PreClassify
<1>2. call' = [phase |-> "upstream", request |-> call.request, toolUse |-> call.toolUse,
               called |-> call.called, pre |-> label, label |-> call.label]
  BY <1>1 DEF LabelledInv
<1>3. call.label = NoLabel /\ call.toolUse = RequestUsesTools(call.request)
  BY DEF PreClassify, LabelledInv
<1>4. label.by = "model" \/ FromRequest(label, Unknown)'
  BY <1>2, LabelsAre DEF FromRequest
<1> QED BY <1>2, <1>3, <1>4 DEF LabelledInv, LabelIsKept

LEMMA RecordInv ==
  ASSUME LabelledInv, NEW tokens \in TokenCounts, NEW answer, Record(tokens, answer)
  PROVE  LabelledInv'
<1>1. PICK label \in ClassifyRequest(call.request, tokens, answer) :
        call' = [call EXCEPT !.phase = "recorded", !.label = Resolved(call.pre, label)]
  BY DEF Record
<1>2. call' = [phase |-> "recorded", request |-> call.request, toolUse |-> call.toolUse,
               called |-> call.called, pre |-> call.pre, label |-> Resolved(call.pre, label)]
  BY <1>1 DEF LabelledInv
<1>3. call.toolUse = RequestUsesTools(call.request)
  BY DEF Record, LabelledInv
<1>4. label.by = "model" \/ FromRequest(label, tokens)'
  BY <1>2, LabelsAre DEF FromRequest
<1>5. call.pre = NoLabel \/ call.pre.by = "model" \/ FromRequest(call.pre, Unknown)'
  BY <1>2 DEF LabelledInv, FromRequest
<1>6. call.pre # NoLabel => Resolved(call.pre, label) = call.pre
  BY DEF Resolved
<1>7. call.pre = NoLabel => Resolved(call.pre, label) = label
  BY DEF Resolved
<1>8. \/ call'.label.by = "model"
      \/ \E n \in TokenCounts \cup {Unknown} : FromRequest(call.label, n)'
  BY <1>2, <1>4, <1>5, <1>6, <1>7 DEF FromRequest
<1>9. LabelIsKept'
  BY <1>2, <1>6 DEF LabelIsKept
<1> QED BY <1>2, <1>3, <1>5, <1>8, <1>9 DEF LabelledInv

LEMMA CallbackInv ==
  ASSUME LabelledInv, NEW r, NEW tokens \in TokenCounts, NEW called, Callback(r, tokens, called)
  PROVE  LabelledInv'
<1>1. PICK label : label = Classify(CallbackInput(r, tokens, called))
  OBVIOUS
<1>2. call' = [phase |-> "recorded", request |-> r, toolUse |-> FALSE,
               called |-> called, pre |-> NoLabel, label |-> label]
  BY <1>1 DEF Callback, Idle
<1>3. call'.label = Classify(CallbackInput(call'.request, tokens, call'.called))
  BY <1>1, <1>2
<1> QED BY <1>2, <1>3 DEF LabelledInv, LabelIsKept

ClassifierInv == LabelledInv /\ ScoredInv

LEMMA ClassifierStarts == ClassifierInit => ClassifierInv
<1> SUFFICES ASSUME ClassifierInit  PROVE ClassifierInv
  OBVIOUS
<1>1. LabelledInv
  BY DEF ClassifierInit, Idle, LabelledInv, LabelIsKept
<1>2. /\ scored = [seen |-> <<>>, tp |-> <<>>, fp |-> <<>>, fn |-> <<>>]
  BY DEF ClassifierInit
<1>3. \A t : CountOf(scored.tp, t) = 0 /\ CountOf(scored.fp, t) = 0 /\ CountOf(scored.fn, t) = 0
  BY <1>2 DEF CountOf
<1>4. \A t : Predicted(scored, t) = {} /\ Expected(scored, t) = {}
  BY <1>2 DEF Predicted, Expected
<1>5. Cardinality({}) = 0
  BY FS_EmptySet
<1>6. EvaluationAddsUp
  <2> SUFFICES ASSUME NEW i \in DOMAIN TaskTypes
               PROVE  LET t == TaskTypes[i] IN
                      /\ CountOf(scored.tp, t) = Cardinality(Predicted(scored, t) \cap Expected(scored, t))
                      /\ CountOf(scored.tp, t) + CountOf(scored.fp, t) = Cardinality(Predicted(scored, t))
                      /\ CountOf(scored.tp, t) + CountOf(scored.fn, t) = Cardinality(Expected(scored, t))
    BY DEF EvaluationAddsUp
  <2> DEFINE t == TaskTypes[i]
  <2>1. Predicted(scored, t) \cap Expected(scored, t) = {}
    BY <1>4
  <2>2. Cardinality(Predicted(scored, t) \cap Expected(scored, t)) = 0
    BY <1>5, <2>1
  <2> QED BY <1>3, <1>4, <1>5, <2>2
<1>7. scored.seen \in Seq(Outcomes)
  BY <1>2
<1> QED BY <1>1, <1>2, <1>3, <1>6, <1>7 DEF ClassifierInv, ScoredInv

LEMMA ClassifierSteps ==
  ClassifierInv /\ [ClassifierNext]_classifierVars => ClassifierInv'
<1> SUFFICES ASSUME ClassifierInv, [ClassifierNext]_classifierVars  PROVE ClassifierInv'
  OBVIOUS
<1>1. ASSUME UNCHANGED scored  PROVE ScoredInv'
  BY <1>1 DEF ClassifierInv, ScoredInv, EvaluationAddsUp, Predicted, Expected
<1>2. ASSUME UNCHANGED call  PROVE LabelledInv'
  BY <1>2 DEF ClassifierInv, LabelledInv, FromRequest, LabelIsKept
<1>3. CASE UNCHANGED classifierVars
  BY <1>1, <1>2, <1>3 DEF ClassifierInv, classifierVars
<1>4. ASSUME NEW r, NEW straight, Arrive(r, straight)  PROVE ClassifierInv'
  BY <1>1, <1>4, ArriveInv DEF ClassifierInv, Arrive
<1>5. ASSUME NEW r, NEW tokens \in TokenCounts, NEW called, Callback(r, tokens, called)
      PROVE  ClassifierInv'
  BY <1>1, <1>5, CallbackInv DEF ClassifierInv, Callback
<1>6. ASSUME NEW e \in Examples, Evaluate(e.request, e.tokens, e.expected)  PROVE ClassifierInv'
  BY <1>2, <1>6, EvaluateInv DEF ClassifierInv, Evaluate
<1>7. ASSUME NEW answer, PreClassify(answer)  PROVE ClassifierInv'
  BY <1>1, <1>7, PreClassifyInv DEF ClassifierInv, PreClassify
<1>8. ASSUME NEW tokens \in TokenCounts, NEW answer, Record(tokens, answer)  PROVE ClassifierInv'
  BY <1>1, <1>8, RecordInv DEF ClassifierInv, Record
<1> QED BY <1>3, <1>4, <1>5, <1>6, <1>7, <1>8 DEF ClassifierNext

(* What the invariant says of a label that the rules gave.                   *)
LEMMA RulesExplained ==
  ASSUME NEW r, NEW tokens, NEW label, label = Classify(Input(r, tokens))
  PROVE  /\ label.task # "unknown" /\ label.confidence >= 20
         /\ tokens = Unknown /\ label.task = "conversation" => KeywordOf(r, "conversation")
         /\ label.task = "tool_selection" => KeywordOf(r, "tool_selection") \/ HasToolCalls(r)
<1> DEFINE inp == Input(r, tokens)
<1>1. label.task # "unknown" /\ label.confidence >= 20
  BY ClassifyIs
<1>2. /\ inp.system = Keywords(r, "system") /\ inp.user = Keywords(r, "user")
      /\ inp.calls = HasToolCalls(r) /\ inp.prompt = tokens.prompt /\ inp.completion = tokens.completion
  BY DEF Input
<1>3. tokens = Unknown => RatioLow(inp) /\ inp.completion < 50
  <2> HIDE DEF inp
  <2> QED BY <1>2 DEF Unknown, RatioLow
<1>4. PICK i : i = inp
  OBVIOUS
<1>5. /\ Classify(i).task = "conversation" /\ RatioLow(i) /\ i.completion < 50
           => (i.system \cup i.user) \cap TaskKeywords["conversation"] # {}
      /\ Classify(i).task = "tool_selection" /\ ~i.calls
           => (i.system \cup i.user) \cap TaskKeywords["tool_selection"] # {}
  BY TasksHaveReasons
<1>6. label.task = "tool_selection" => KeywordOf(r, "tool_selection") \/ HasToolCalls(r)
  BY <1>2, <1>4, <1>5, Zenon DEF KeywordOf
<1>7. tokens = Unknown /\ label.task = "conversation" => KeywordOf(r, "conversation")
  BY <1>2, <1>3, <1>4, <1>5, Zenon DEF KeywordOf
<1> QED BY <1>1, <1>6, <1>7

LEMMA CallbackExplained ==
  ASSUME NEW r, NEW tokens, NEW called, NEW label, label = Classify(CallbackInput(r, tokens, called))
  PROVE  /\ label.task # "unknown" /\ label.confidence >= 20
         /\ label.task = "tool_selection" => KeywordOf(r, "tool_selection") \/ called
<1> DEFINE inp == CallbackInput(r, tokens, called)
<1>1. label.task # "unknown" /\ label.confidence >= 20
  BY ClassifyIs
<1>2. inp.system = Keywords(r, "system") /\ inp.user = Keywords(r, "user") /\ inp.calls = called
  BY DEF CallbackInput, Input
<1>3. PICK i : i = inp
  OBVIOUS
<1>4. Classify(i).task = "tool_selection" /\ ~i.calls
           => (i.system \cup i.user) \cap TaskKeywords["tool_selection"] # {}
  BY TasksHaveReasons
<1>5. label.task = "tool_selection" => KeywordOf(r, "tool_selection") \/ called
  BY <1>2, <1>3, <1>4, Zenon DEF KeywordOf
<1> QED BY <1>1, <1>5

LEMMA ClassifierSound == ClassifierInv => ClassificationSound
<1> SUFFICES ASSUME ClassifierInv  PROVE ClassificationSound
  OBVIOUS
<1>1. LabelledInv /\ ScoredInv
  BY DEF ClassifierInv
<1>2. NoLabel.by # "rules"
  BY DEF NoLabel
<1>3. call.pre.by = "rules" =>
        /\ call.pre.task # "unknown" /\ call.pre.confidence >= 20
        /\ call.pre.task = "conversation" => KeywordOf(call.request, "conversation")
  BY <1>1, <1>2, RulesExplained DEF LabelledInv, FromRequest
<1>4. HasToolCalls(call.request) => RequestUsesTools(call.request)
  BY Zenon DEF HasToolCalls, RequestUsesTools
<1>5. ASSUME call.label.by = "rules"
      PROVE  /\ call.label.task # "unknown" /\ call.label.confidence >= 20
             /\ call.label.task = "tool_selection" =>
                  \/ KeywordOf(call.request, "tool_selection") \/ call.called
                  \/ HasToolCalls(call.request) /\ call.toolUse
  <2>1. CASE /\ \E tokens \in TokenCounts \cup {Unknown} : FromRequest(call.label, tokens)
             /\ call.toolUse = RequestUsesTools(call.request)
    <3>1. PICK tokens : call.label = Classify(Input(call.request, tokens))
      BY <2>1 DEF FromRequest
    <3>2. /\ call.label.task # "unknown" /\ call.label.confidence >= 20
          /\ call.label.task = "tool_selection" =>
               KeywordOf(call.request, "tool_selection") \/ HasToolCalls(call.request)
      BY <3>1, RulesExplained
    <3> QED BY <1>4, <2>1, <3>2, Zenon
  <2>2. CASE \E tokens \in TokenCounts :
               call.label = Classify(CallbackInput(call.request, tokens, call.called))
    <3>1. PICK tokens \in TokenCounts :
            call.label = Classify(CallbackInput(call.request, tokens, call.called))
      BY <2>2
    <3>2. /\ call.label.task # "unknown" /\ call.label.confidence >= 20
          /\ call.label.task = "tool_selection" =>
               KeywordOf(call.request, "tool_selection") \/ call.called
      BY <3>1, CallbackExplained
    <3> QED BY <3>2, Zenon
  <2>3. call.label # NoLabel /\ call.label.by # "model"
    BY <1>2, <1>5
  <2> QED BY <1>1, <2>1, <2>2, <2>3, Zenon DEF LabelledInv
<1>6. ASSUME NEW i \in DOMAIN scored.seen
      PROVE  LET label == scored.seen[i].predicted
             IN  label.task # "unknown" /\ label.confidence >= 20
  <2>0. scored.seen \in Seq(Outcomes)
    BY <1>1 DEF ScoredInv
  <2>1. scored.seen[i] \in Outcomes
    BY <2>0
  <2>2. PICK e \in Examples : scored.seen[i].predicted = Classify(Input(e.request, e.tokens))
    BY <2>1 DEF Outcomes
  <2> QED BY <2>2, ClassifyIs
<1>7. RulesAlwaysDecide
  BY <1>3, <1>5, <1>6 DEF RulesAlwaysDecide
<1>8. NoSmallTalkBeforehand
  BY <1>3 DEF NoSmallTalkBeforehand
<1>9. ToolsAloneDecideNothing
  BY <1>5, Zenon DEF ToolsAloneDecideNothing
<1>10. LabelIsKept /\ EvaluationAddsUp /\ CalibrationCountsAll
  BY <1>1, CurveCounts DEF LabelledInv, ScoredInv
<1> QED BY <1>7, <1>8, <1>9, <1>10 DEF ClassificationSound

(* Theorem: whatever the keywords, the messages and the answers, each        *)
(* request ends with one task that its signals explain, and an evaluation of *)
(* any data set counts every example once.                                   *)
THEOREM RequestsAreClassified ==
  ClassifierInit /\ [][ClassifierNext]_classifierVars => []ClassificationSound
BY ClassifierStarts, ClassifierSteps, ClassifierSound, PTL
=============================================================================
