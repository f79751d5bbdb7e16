--------------------------- MODULE LocalProvider ---------------------------
(***************************************************************************)
(* The in-memory attestation provider. Records are stored in place; a      *)
(* batch takes a snapshot first and restores it when a record is refused.  *)
(*                                                                         *)
(* submit() never suspends, so a batch runs without interruption: while it *)
(* is running no other operation takes place.                              *)
(***************************************************************************)
EXTENDS AttestationRecords

CONSTANTS
  Malformed,  \* bodies that are not hexadecimal: hashing them raises
  MaxNonce    \* bound on the nonces submitted

ASSUME LocalAssumption ==
  /\ Malformed \subseteq Bodies
  /\ MaxNonce \in Nat

VARIABLES
  store,        \* _store: org -> nonce -> record
  known,        \* the keys of _store
  latestNonce,  \* _latest_nonce
  txCounter,    \* _tx_counter
  running,      \* batch_submit is at work
  todo,         \* its records not submitted yet
  saved         \* its snapshot of the four variables above; no snapshot outside

providerVars == <<store, known, latestNonce, txCounter, running, todo, saved>>

State == [store |-> store, known |-> known, latest |-> latestNonce, tx |-> txCounter]

NoSnapshot == [store |-> <<>>, known |-> {}, latest |-> <<>>, tx |-> 0]

ProviderInit ==
  /\ store = [o \in Orgs |-> <<>>]
  /\ known = {}
  /\ latestNonce = [o \in Orgs |-> 0]
  /\ txCounter = 0
  /\ running = FALSE
  /\ todo = <<>>
  /\ saved = NoSnapshot

-----------------------------------------------------------------------------
(* dict assignment: the record stored under a nonce.                        *)
Put(f, n, r) == [k \in DOMAIN f \cup {n} |-> IF k = n THEN r ELSE f[k]]

NonceFits(r) == r.nonce = latestNonce[r.org] + 1

(* compute_chain_hash of the predecessor raises a ValueError, which is not  *)
(* an AttestationError.                                                     *)
HashRaises(r) ==
  /\ NonceFits(r)
  /\ r.nonce \notin DOMAIN store[r.org]
  /\ r.nonce # 1 /\ r.nonce - 1 \in DOMAIN store[r.org]
  /\ store[r.org][r.nonce - 1].body \in Malformed

(* _validate_chain_linkage.                                                 *)
LinkageHolds(r) ==
  IF r.nonce = 1
    THEN r.prev \in {EmptyHash, ZERO_HASH}
    ELSE /\ r.nonce - 1 \in DOMAIN store[r.org]
         /\ r.prev = compute_chain_hash(store[r.org][r.nonce - 1])

(* submit() returns a transaction id.                                       *)
Accepts(r) ==
  /\ NonceFits(r)
  /\ r.nonce \notin DOMAIN store[r.org]
  /\ ~HashRaises(r)
  /\ LinkageHolds(r)

StoreRecord(r) ==
  /\ store' = [store EXCEPT ![r.org] = Put(store[r.org], r.nonce, r)]
  /\ known' = known \cup {r.org}
  /\ latestNonce' = [latestNonce EXCEPT ![r.org] = r.nonce]
  /\ txCounter' = txCounter + 1

(* submit() raises. The look-up for a duplicate has already created the     *)
(* organisation's entry in _store, a defaultdict, once the nonce fits.      *)
Refuse(r) ==
  /\ known' = IF NonceFits(r) THEN known \cup {r.org} ELSE known
  /\ UNCHANGED <<store, latestNonce, txCounter>>

-----------------------------------------------------------------------------
Submit(r) ==
  /\ ~running
  /\ \/ Accepts(r) /\ StoreRecord(r)
     \/ ~Accepts(r) /\ Refuse(r)
  /\ UNCHANGED <<running, todo, saved>>

BatchBegin(rs) ==
  /\ ~running
  /\ running' = TRUE
  /\ todo' = rs
  /\ saved' = State
  /\ UNCHANGED <<store, known, latestNonce, txCounter>>

BatchStore ==
  /\ running /\ todo # <<>>
  /\ Accepts(Head(todo))
  /\ StoreRecord(Head(todo))
  /\ todo' = Tail(todo)
  /\ UNCHANGED <<running, saved>>

BatchEnd ==
  /\ running /\ todo = <<>>
  /\ running' = FALSE
  /\ saved' = NoSnapshot
  /\ UNCHANGED <<store, known, latestNonce, txCounter, todo>>

(* Mutant: a refused record ends the batch, what was stored stays.          *)
MutRollbackNothing ==
  /\ running /\ todo # <<>>
  /\ ~Accepts(Head(todo)) /\ ~HashRaises(Head(todo))
  /\ Refuse(Head(todo))
  /\ running' = FALSE
  /\ todo' = <<>>
  /\ saved' = NoSnapshot

(* An AttestationError restores the snapshot.                               *)
BatchRollback ==
  /\ running /\ todo # <<>>
  /\ ~Accepts(Head(todo)) /\ ~HashRaises(Head(todo))
  /\ store' = saved.store
  /\ known' = saved.known
  /\ latestNonce' = saved.latest
  /\ txCounter' = saved.tx
  /\ running' = FALSE
  /\ todo' = <<>>
  /\ saved' = NoSnapshot

(* Any other exception leaves the batch where it is.                        *)
BatchRaises ==
  /\ running /\ todo # <<>>
  /\ HashRaises(Head(todo))
  /\ Refuse(Head(todo))
  /\ running' = FALSE
  /\ todo' = <<>>
  /\ saved' = NoSnapshot

-----------------------------------------------------------------------------
(* The hashes a client can name: the sentinels, and the hash of a latest     *)
(* record. Any other hash is refused like one of these.                      *)
Hashes ==
  {ZERO_HASH, EmptyHash} \cup
  {compute_chain_hash(store[o][latestNonce[o]]) :
     o \in {p \in Orgs : latestNonce[p] > 0}}

Submitted ==
  [org : Orgs, start : Times, end : Times, body : Bodies, prev : Hashes,
   nonce : 1 .. MaxNonce]

(* A second record of a batch may also be linked to the first.              *)
BatchOfTwo(r) ==
  \E h \in {ZERO_HASH, r.prev, compute_chain_hash(r)}, n \in 1 .. MaxNonce, o \in Orgs :
    BatchBegin(<<r, [r EXCEPT !.prev = h, !.nonce = n, !.org = o]>>)

ProviderNext ==
  \/ BatchBegin(<<>>)
  \/ \E r \in Submitted : Submit(r) \/ BatchBegin(<<r>>) \/ BatchOfTwo(r)
  \/ BatchStore
  \/ BatchEnd
  \/ BatchRollback
  \/ BatchRaises

-----------------------------------------------------------------------------
ProviderTypeOK ==
  /\ DOMAIN store = Orgs
  /\ \A o \in Orgs : \A n \in DOMAIN store[o] : IsRecord(store[o][n])
  /\ known \subseteq Orgs
  /\ latestNonce \in [Orgs -> Nat]
  /\ txCounter \in Nat
  /\ running \in BOOLEAN
  /\ \A i \in 1 .. Len(todo) : IsRecord(todo[i])

(* The latest nonce and the records agree, in the middle of a batch and      *)
(* after a rollback too: every nonce up to the latest has its record, so     *)
(* that get_latest and the chain walk find it, and none is above it.         *)
NoncesMatchRecords ==
  \A o \in Orgs : DOMAIN store[o] = 1 .. latestNonce[o]

(* Outside a batch the provider is an append-only linked chain: submit and   *)
(* batch_submit refine the abstract chain, a batch being one step of it.     *)
committed == IF running THEN saved.store ELSE store
Chain == INSTANCE AttestationChain WITH chain <- committed
RefinesChain == Chain!ChainSpec

(* A batch refused with an AttestationError leaves no trace of the records   *)
(* stored before the refused one: neither records, nor nonces, nor           *)
(* organisations, nor the transaction counter.                               *)
RefusedBatchLeavesNoTrace ==
  [][running /\ ~running' /\ todo # <<>> /\ ~HashRaises(Head(todo))
       => State' = saved]_providerVars

(* The provider keeps one chain for each organisation, and a batch it refuses *)
(* leaves its records, nonces and counter as they were.                     *)
ProviderKeepsChain ==
  []ProviderTypeOK /\ []NoncesMatchRecords /\ RefusedBatchLeavesNoTrace /\ RefinesChain
=============================================================================
