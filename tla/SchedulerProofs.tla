-------------------------- MODULE SchedulerProofs --------------------------
(***************************************************************************)
(* Proofs about AttestationScheduler, for any clock, resolution of seconds *)
(* and days, number of events, transactions and cycles. What connects the  *)
(* records is the chain: the registry takes a transaction only if it names *)
(* the hash of the latest record, so that its period starts where the      *)
(* cycle that read this record started it, however late it is mined.       *)
(***************************************************************************)
EXTENDS AttestationScheduler, Sums

(* The whole seconds of a time: a multiple of Second, below it by less than *)
(* one.                                                                     *)
LEMMA Multiples ==
  ASSUME NEW a \in Nat, NEW b \in Nat, NEW s \in Nat, a <= b
  PROVE  s * a <= s * b
<1> PICK c \in Nat : b = a + c
  <2>1. b - a \in Nat /\ b = a + (b - a)
    OBVIOUS
  <2> QED BY <2>1
<1>1. s * b = s * a + s * c /\ s * c \in Nat /\ s * a \in Nat
  OBVIOUS
<1> QED BY <1>1

LEMMA TruncOf ==
  ASSUME NEW t \in Nat
  PROVE  /\ t \div Second \in Nat
         /\ Trunc(t) \in Nat /\ Trunc(t) = Second * (t \div Second)
         /\ Trunc(t) <= t /\ t < Trunc(t) + Second
<1>1. /\ t \div Second \in Nat /\ t % Second \in 0 .. Second - 1
      /\ t = Second * (t \div Second) + (t % Second)
  BY SchedulerAssumption
<1>2. Second * (t \div Second) \in Nat
  BY <1>1, SchedulerAssumption
<1> QED BY <1>1, <1>2, SchedulerAssumption DEF Trunc

LEMMA TruncMonotonic ==
  ASSUME NEW t \in Nat, NEW u \in Nat, t <= u
  PROVE  Trunc(t) <= Trunc(u)
<1> PICK a \in Nat : a = t \div Second
  BY TruncOf
<1> PICK b \in Nat : b = u \div Second
  BY TruncOf
<1>1. /\ Trunc(t) = Second * a /\ Trunc(u) = Second * b
      /\ Second * a <= u /\ u < Second * b + Second
  BY TruncOf
<1>2. ~(b + 1 <= a)
  <2> SUFFICES ASSUME b + 1 <= a PROVE FALSE
    OBVIOUS
  <2>1. Second * (b + 1) <= Second * a
    BY Multiples, SchedulerAssumption
  <2>2. Second * (b + 1) = Second * b + Second /\ {Second * a, Second * b} \subseteq Nat
    BY SchedulerAssumption
  <2> QED BY <1>1, <2>1, <2>2, SchedulerAssumption
<1> QED BY <1>1, <1>2, Multiples, SchedulerAssumption

LEMMA TruncTwice ==
  ASSUME NEW t \in Nat
  PROVE  Trunc(Trunc(t)) = Trunc(t)
<1> PICK u \in Nat : u = Trunc(t)
  BY TruncOf
<1> PICK a \in Nat : a = t \div Second
  BY TruncOf
<1> PICK b \in Nat : b = u \div Second
  BY TruncOf
<1>1. /\ u = Second * a /\ Trunc(u) = Second * b
      /\ Second * b <= u /\ u < Second * b + Second
  BY TruncOf
<1>2. /\ Second * (a + 1) = Second * a + Second /\ Second * (b + 1) = Second * b + Second
      /\ {Second * a, Second * b} \subseteq Nat
  BY SchedulerAssumption
<1>3. ~(b + 1 <= a)
  BY <1>1, <1>2, Multiples, SchedulerAssumption
<1>4. ~(a + 1 <= b)
  BY <1>1, <1>2, Multiples, SchedulerAssumption
<1> QED BY <1>1, <1>3, <1>4

(* The beginning of the day an event is of.                                 *)
LEMMA DayOfNat ==
  ASSUME NEW t \in Nat
  PROVE  DayOf(t) \in Nat /\ DayOf(t) <= t
<1>1. /\ t \div Day \in Nat /\ t % Day \in 0 .. Day - 1
      /\ t = Day * (t \div Day) + (t % Day)
  BY SchedulerAssumption
<1>2. Day * (t \div Day) \in Nat
  BY <1>1, SchedulerAssumption
<1> QED BY <1>1, <1>2, SchedulerAssumption DEF DayOf

(* The earliest event.                                                      *)
LEMMA Earliest ==
  ASSUME NEW S \in SUBSET Nat, S # {}
  PROVE  Min(S) \in S /\ \A e \in S : Min(S) <= e
<1>1. \E x \in S : \A y \in S : x <= y
  BY LeastNumber
<1> QED BY <1>1 DEF Min

LEMMA Later ==
  ASSUME NEW a \in Nat, NEW b \in Nat
  PROVE  /\ Max({a, b}) \in {a, b}
         /\ a <= Max({a, b}) /\ b <= Max({a, b})
<1>1. \E x \in {a, b} : \A y \in {a, b} : x >= y
  OBVIOUS
<1>2. Max({a, b}) \in {a, b} /\ \A y \in {a, b} : Max({a, b}) >= y
  BY <1>1 DEF Max
<1> QED BY <1>2

-----------------------------------------------------------------------------
(* The inductive invariant.                                                 *)
(* A predecessor's hash, and the start that goes with it.                   *)
Follows(prev, start) ==
  \E k \in Nonces :
    prev = compute_chain_hash(RecordAt(k)) /\ start = RecordAt(k).end

(* Every event of the period that did not come late is under the root; the   *)
(* first period has no start.                                               *)
Covered(prev, start, end, root) ==
  \A e \in db \ late :
    e < end /\ (prev = ZERO_HASH \/ start <= e) => e \in root

(* The totals miss only what came after them.                               *)
Matched(metrics, root) == metrics \subseteq root /\ root \ metrics \subseteq late

RecordInv(n) ==
  /\ RecordAt(n).nonce = n
  /\ RecordAt(n).start \in Nat
  /\ RecordAt(n).end \in Nat /\ RecordAt(n).end <= horizon
  /\ Trunc(RecordAt(n).end) = RecordAt(n).end
  /\ RecordAt(n).start < RecordAt(n).end
  /\ \A e \in RootAt(n) : e \in Nat /\ RecordAt(n).start <= Trunc(e) /\ Trunc(e) <= RecordAt(n).end
  /\ \A e \in db \ late : e < RecordAt(n).end => \E m \in 1 .. n : e \in RootAt(m)
  /\ Short(n) => Matched(MetricsAt(n), RootAt(n))
  /\ OnlyBrokenDays(MetricsAt(n), RootAt(n), RecordAt(n).start, RecordAt(n).end, Second)

(* The periods follow each other.                                           *)
PeriodsInv ==
  \A m, n \in Nonces : m < n =>
    /\ RecordAt(m).end <= RecordAt(n).start
    /\ (n = m + 1 \/ RecordAt(m).end < RecordAt(n).start)

LedgerInv ==
  /\ DOMAIN latestNonce = Orgs /\ DOMAIN attestations = Orgs
  /\ latestNonce[Org] \in Nat /\ DOMAIN attestations[Org] = Nonces
  /\ \A n \in Nonces : RecordInv(n)
  /\ PeriodsInv

InputInv(in) ==
  /\ DOMAIN in = {"org", "start", "end", "body", "prev"}
  /\ in.org = Org /\ in.body \in PeriodBodies
  /\ in.start \in 0 .. MaxTime /\ in.end \in 0 .. MaxTime
  /\ in.end <= horizon /\ Trunc(in.end) = in.end
  /\ \A e \in in.body.root : in.start <= Trunc(e) /\ Trunc(e) <= in.end
  /\ in.prev = ZERO_HASH \/ Follows(in.prev, in.start)
  /\ Covered(in.prev, in.start, in.end, in.body.root)
  /\ in.end - in.start + Second - 1 <= Day => Matched(in.body.metrics, in.body.root)
  /\ OnlyBrokenDays(in.body.metrics, in.body.root, in.start, in.end, Second)

PoolInv ==
  /\ count \in Nat /\ mined \in Nat /\ sent \in Nat
  /\ count <= mined /\ mined <= sent /\ sent <= MaxTx
  /\ pending # NoTx => /\ pending.id = sent /\ mined < sent
                       /\ InputInv(pending.input)

(* What the cycle has read so far.                                          *)
StartInv ==
  \/ /\ cycle.prev = ZERO_HASH /\ cycle.start <= horizon
     /\ \A e \in db \ late : cycle.start <= e
  \/ Follows(cycle.prev, cycle.start)

ShortMetricsInv ==
  cycle.now - cycle.start <= Day =>
    /\ cycle.metrics \subseteq EventsIn(cycle.start, cycle.now)
    /\ EventsIn(cycle.start, cycle.now) \ cycle.metrics \subseteq late

LongMetricsInv ==
  /\ \A e \in cycle.metrics : e \in db /\ cycle.start <= e /\ DayOf(e) < cycle.now
  /\ \A e \in EventsIn(cycle.start, cycle.now) \ cycle.metrics :
       e \in late \/ DayOf(e) < cycle.start

MetricsInv == ShortMetricsInv /\ LongMetricsInv

RootInv ==
  /\ \A e \in cycle.root : cycle.start <= e /\ e < cycle.now
  /\ Covered(cycle.prev, cycle.start, cycle.now, cycle.root)
  /\ cycle.now - cycle.start <= Day => Matched(cycle.metrics, cycle.root)
  /\ OnlyBrokenDays(cycle.metrics, cycle.root, cycle.start, cycle.now, 0)

CycleInv ==
  /\ DOMAIN cycle = {"now", "start", "prev", "metrics", "root"}
  /\ cycle.now \in 0 .. now /\ cycle.start \in 0 .. MaxTime
  /\ cycle.metrics \in SUBSET (0 .. MaxTime) /\ cycle.root \in SUBSET (0 .. MaxTime)
  /\ pc \in {"sleep", "latest", "earliest", "metrics", "root", "count", "send", "wait"}
  /\ pc \in {"latest", "earliest"} => cycle.prev = ZERO_HASH
  /\ pc \in {"metrics", "root", "count", "send"} => StartInv
  /\ pc \in {"root", "count", "send"} => cycle.now <= horizon
  /\ pc = "root" => MetricsInv
  /\ pc \in {"count", "send"} => RootInv

ClockInv ==
  /\ now \in 0 .. MaxTime /\ horizon \in 0 .. now
  /\ buffered \in SUBSET (0 .. now) /\ db \in SUBSET (0 .. now)
  /\ late \subseteq db

Inv == ContractTypeOK /\ ClockInv /\ LedgerInv /\ PoolInv /\ CycleInv

-----------------------------------------------------------------------------
(* What other steps do to a cycle and to a transaction under way: events      *)
(* come to the database, those behind the horizon late; records are added.   *)
WorldGrows ==
  /\ db \subseteq db' /\ late \subseteq late'
  /\ horizon \in Nat /\ horizon' \in Nat /\ horizon <= horizon'
  /\ db' \in SUBSET Nat
  /\ \A e \in db' \ late' : e \in db \ late \/ horizon <= e

LedgerGrows ==
  /\ latestNonce[Org] \in Nat /\ latestNonce'[Org] \in Nat
  /\ latestNonce[Org] <= latestNonce'[Org]
  /\ \A n \in Nonces : attestations'[Org][n] = attestations[Org][n]

LEMMA FollowsStays ==
  ASSUME LedgerGrows, NEW prev, NEW start, Follows(prev, start)
  PROVE  Follows(prev, start)'
<1>1. PICK k \in Nonces : /\ prev = compute_chain_hash(RecordAt(k))
                          /\ start = RecordAt(k).end
  BY DEF Follows
<1>2. k \in Nonces' /\ RecordAt(k)' = RecordAt(k)
  BY DEF LedgerGrows, Nonces, RecordAt
<1> QED BY <1>1, <1>2 DEF Follows

LEMMA CoveredStays ==
  ASSUME WorldGrows, NEW prev, NEW start, NEW end \in Nat, end <= horizon, NEW root,
         Covered(prev, start, end, root)
  PROVE  Covered(prev, start, end, root)'
<1> SUFFICES ASSUME NEW e \in db' \ late', e < end, prev = ZERO_HASH \/ start <= e
             PROVE  e \in root
  BY DEF Covered
<1>1. e \in db \ late
  BY DEF WorldGrows
<1> QED BY <1>1 DEF Covered

LEMMA BrokenDaysStay ==
  ASSUME WorldGrows, NEW metrics, NEW root, NEW start, NEW end, NEW slack,
         OnlyBrokenDays(metrics, root, start, end, slack)
  PROVE  OnlyBrokenDays(metrics, root, start, end, slack)'
<1> QED BY DEF OnlyBrokenDays, DayOf, WorldGrows

LEMMA InputStays ==
  ASSUME WorldGrows, LedgerGrows, NEW in, InputInv(in)
  PROVE  InputInv(in)'
<1>1. in.end \in Nat /\ in.end <= horizon /\ in.end <= horizon'
  BY SchedulerAssumption DEF InputInv, WorldGrows
<1>2. Covered(in.prev, in.start, in.end, in.body.root)'
  BY <1>1, CoveredStays DEF InputInv
<1>3. (in.prev = ZERO_HASH \/ Follows(in.prev, in.start))'
  BY FollowsStays DEF InputInv
<1>4. Matched(in.body.metrics, in.body.root) => Matched(in.body.metrics, in.body.root)'
  BY DEF Matched, WorldGrows
<1>5. OnlyBrokenDays(in.body.metrics, in.body.root, in.start, in.end, Second)'
  BY BrokenDaysStay DEF InputInv
<1> QED BY <1>1, <1>2, <1>3, <1>4, <1>5 DEF InputInv, Trunc

LEMMA RecordStays ==
  ASSUME WorldGrows, LedgerGrows, NEW n \in Nonces, RecordInv(n)
  PROVE  RecordInv(n)'
<1>1. \A m \in 1 .. n : m \in Nonces /\ RecordAt(m)' = RecordAt(m) /\ RootAt(m)' = RootAt(m)
  BY DEF LedgerGrows, Nonces, RecordAt, RootAt
<1>2. RecordAt(n)' = RecordAt(n) /\ RootAt(n)' = RootAt(n) /\ MetricsAt(n)' = MetricsAt(n)
  BY DEF LedgerGrows, RecordAt, RootAt, MetricsAt
<1>3. ASSUME NEW e \in db' \ late', e < RecordAt(n).end
      PROVE  \E m \in 1 .. n : e \in RootAt(m)'
  <2>1. e \in db \ late
    BY <1>3 DEF WorldGrows, RecordInv
  <2> QED BY <1>1, <1>3, <2>1 DEF RecordInv
<1>4. Short(n)' => Matched(MetricsAt(n), RootAt(n))'
  BY <1>2 DEF RecordInv, Short, Matched, WorldGrows
<1>5. RecordAt(n).end <= horizon'
  BY DEF RecordInv, WorldGrows
<1>6. OnlyBrokenDays(MetricsAt(n), RootAt(n), RecordAt(n).start, RecordAt(n).end, Second)'
  BY <1>2 DEF RecordInv, OnlyBrokenDays, DayOf, WorldGrows
<1> QED BY <1>2, <1>3, <1>4, <1>5, <1>6 DEF RecordInv, Trunc

(* A ledger without a new record.                                           *)
LEMMA LedgerStays ==
  ASSUME WorldGrows, LedgerInv, UNCHANGED <<latestNonce, attestations>>
  PROVE  LedgerInv'
<1>1. LedgerGrows
  BY DEF LedgerInv, LedgerGrows, Nonces
<1>2. \A n \in Nonces : RecordInv(n)'
  BY <1>1, RecordStays DEF LedgerInv
<1>3. PeriodsInv'
  BY DEF LedgerInv, PeriodsInv, Nonces, RecordAt
<1> QED BY <1>2, <1>3 DEF LedgerInv, Nonces

LEMMA CycleStays ==
  ASSUME WorldGrows, LedgerGrows, CycleInv, now \in Nat, now' \in Nat, now <= now',
         UNCHANGED <<pc, cycle>>
  PROVE  CycleInv'
<1>1. cycle.now \in Nat /\ cycle.start \in Nat
  BY SchedulerAssumption DEF CycleInv
<1>2. StartInv => StartInv'
  <2>1. CASE Follows(cycle.prev, cycle.start)
    BY <2>1, FollowsStays DEF StartInv
  <2>2. CASE /\ cycle.prev = ZERO_HASH /\ cycle.start <= horizon
             /\ \A e \in db \ late : cycle.start <= e
    <3>1. cycle.start <= horizon' /\ \A e \in db' \ late' : cycle.start <= e
      BY <1>1, <2>2 DEF WorldGrows
    <3> QED BY <2>2, <3>1 DEF StartInv
  <2> QED BY <2>1, <2>2 DEF StartInv
<1>3. pc \in {"root", "count", "send"} => cycle.now <= horizon /\ cycle.now <= horizon'
  BY <1>1 DEF CycleInv, WorldGrows
<1>4. pc = "root" => MetricsInv'
  <2> SUFFICES ASSUME pc = "root" PROVE MetricsInv'
    OBVIOUS
  <2>1. MetricsInv /\ cycle.now <= horizon
    BY <1>3 DEF CycleInv
  <2>2. ASSUME NEW e \in EventsIn(cycle.start, cycle.now)', e \notin late'
        PROVE  e \in EventsIn(cycle.start, cycle.now) /\ e \notin late
    <3>1. e \in db' \ late' /\ cycle.start <= e /\ e < cycle.now /\ e \in Nat
      BY <2>2 DEF EventsIn, WorldGrows
    <3>2. e \in db \ late
      BY <1>1, <2>1, <3>1 DEF WorldGrows
    <3> QED BY <3>1, <3>2 DEF EventsIn
  <2>3. ShortMetricsInv'
    BY <2>1, <2>2 DEF MetricsInv, ShortMetricsInv, EventsIn, WorldGrows
  <2>4. LongMetricsInv'
    BY <2>1, <2>2 DEF MetricsInv, LongMetricsInv, DayOf, WorldGrows
  <2> QED BY <2>3, <2>4 DEF MetricsInv
<1>5. pc \in {"count", "send"} => RootInv'
  <2> SUFFICES ASSUME pc \in {"count", "send"} PROVE RootInv'
    OBVIOUS
  <2>1. RootInv /\ cycle.now <= horizon
    BY <1>3 DEF CycleInv
  <2>2. Covered(cycle.prev, cycle.start, cycle.now, cycle.root)'
    BY <1>1, <2>1, CoveredStays DEF RootInv
  <2>3. Matched(cycle.metrics, cycle.root) => Matched(cycle.metrics, cycle.root)'
    BY DEF Matched, WorldGrows
  <2>4. OnlyBrokenDays(cycle.metrics, cycle.root, cycle.start, cycle.now, 0)'
    BY <2>1, BrokenDaysStay DEF RootInv, OnlyBrokenDays, DayOf, WorldGrows
  <2> QED BY <2>1, <2>2, <2>3, <2>4 DEF RootInv
<1>6. cycle.now \in 0 .. now'
  BY DEF CycleInv
<1> QED BY <1>2, <1>3, <1>4, <1>5, <1>6 DEF CycleInv
-----------------------------------------------------------------------------
LEMMA InitInv == Init => Inv
<1> SUFFICES ASSUME Init PROVE Inv
  OBVIOUS
<1>1. ContractTypeOK
  BY ContractAssumption DEF Init, ContractInit, ContractTypeOK
<1>2. ClockInv
  BY SchedulerAssumption DEF Init, ClockInv
<1>3. LedgerInv
  <2>1. Nonces = {} /\ latestNonce[Org] = 0 /\ attestations[Org] = <<>>
    BY SchedulerAssumption DEF Init, ContractInit, Nonces
  <2> QED BY <2>1 DEF Init, ContractInit, LedgerInv, PeriodsInv
<1>4. PoolInv
  BY SchedulerAssumption DEF Init, PoolInv
<1>5. CycleInv
  BY SchedulerAssumption DEF Init, CycleInv, NoCycle
<1> QED BY <1>1, <1>2, <1>3, <1>4, <1>5 DEF Inv

(* A step beside the ledger, the pool and the cycle.                        *)
LEMMA WorldStep ==
  ASSUME Inv, ClockInv', WorldGrows, ContractTypeOK', now <= now',
         UNCHANGED <<latestNonce, attestations, pc, cycle, count, mined, pending, sent>>
  PROVE  Inv'
<1>1. LedgerGrows
  BY DEF Inv, LedgerInv, LedgerGrows, Nonces
<1>2. now \in Nat /\ now' \in Nat
  BY SchedulerAssumption DEF Inv, ClockInv
<1>3. CycleInv'
  BY <1>1, <1>2, CycleStays DEF Inv
<1>4. LedgerInv'
  BY LedgerStays DEF Inv
<1>5. PoolInv'
  <2>1. pending # NoTx => InputInv(pending.input)'
    <3> PICK in : in = pending.input
      OBVIOUS
    <3>1. pending # NoTx => InputInv(in)'
      BY <1>1, InputStays DEF Inv, PoolInv
    <3> QED BY <3>1
  <2> QED BY <2>1 DEF Inv, PoolInv
<1> QED BY <1>3, <1>4, <1>5 DEF Inv

LEMMA Still ==
  ASSUME Inv, UNCHANGED <<db, late, horizon>>
  PROVE  WorldGrows
  BY SchedulerAssumption DEF Inv, ClockInv, WorldGrows

LEMMA SameLedger ==
  ASSUME Inv, UNCHANGED contractVars
  PROVE  LedgerGrows /\ ContractTypeOK'
  BY DEF Inv, LedgerInv, LedgerGrows, ContractTypeOK, contractVars, Nonces

LEMMA FlushInv ==
  ASSUME Inv, NEW S \in SUBSET buffered, FlushEvents(S)
  PROVE  Inv'
<1>1. /\ db' = db \cup S /\ late' = late \cup {e \in S : e < horizon}
      /\ UNCHANGED <<contractVars, now, horizon>> /\ buffered' = buffered \ S
  BY DEF FlushEvents
<1>2. /\ S \in SUBSET (0 .. now) /\ horizon \in Nat /\ now \in Nat
      /\ db \in SUBSET (0 .. now) /\ late \subseteq db
  BY SchedulerAssumption DEF Inv, ClockInv
<1>3. \A e \in db' \ late' : e \in db \ late \/ horizon <= e
  BY <1>1, <1>2
<1>4. WorldGrows
  BY <1>1, <1>2, <1>3 DEF WorldGrows
<1>5. ClockInv'
  BY <1>1, <1>2 DEF Inv, ClockInv
<1>6. ContractTypeOK'
  BY <1>1, SameLedger
<1>7. UNCHANGED <<latestNonce, attestations, pc, cycle, count, mined, pending, sent>>
  BY DEF FlushEvents, contractVars, poolVars, schedVars
<1> QED BY <1>1, <1>2, <1>4, <1>5, <1>6, <1>7, WorldStep

(* The owner of the registry changes a role; the records stay.              *)
LEMMA AroundInv ==
  ASSUME Inv, Tick \/ Capture \/ ChangeRole
  PROVE  Inv'
<1>1. UNCHANGED <<latestNonce, attestations, pc, cycle, count, mined, pending, sent,
                  db, late, horizon>>
  BY DEF Tick, Capture, ChangeRole, GrantAttestor, RevokeAttestor, contractVars,
         clockVars, poolVars, schedVars, historyVars
<1>2. WorldGrows
  BY <1>1, Still
<1>3. ContractTypeOK'
  <2>1. CASE Tick \/ Capture
    BY <2>1, SameLedger DEF Tick, Capture
  <2>2. CASE ChangeRole
    BY <2>2, SchedulerAssumption DEF ChangeRole, GrantAttestor, RevokeAttestor, Inv,
       ContractTypeOK
  <2> QED BY <2>1, <2>2
<1>4. ClockInv' /\ now <= now'
  <2>1. now \in Nat /\ MaxTime \in Nat
    BY SchedulerAssumption DEF Inv, ClockInv
  <2>2. CASE Tick
    BY <2>1, <2>2 DEF Tick, Inv, ClockInv, historyVars
  <2>3. CASE Capture
    BY <2>1, <2>3 DEF Capture, Inv, ClockInv, historyVars
  <2>4. CASE ChangeRole
    BY <2>1, <2>4 DEF ChangeRole, Inv, ClockInv, historyVars, clockVars
  <2> QED BY <2>2, <2>3, <2>4
<1> QED BY <1>1, <1>2, <1>3, <1>4, WorldStep

-----------------------------------------------------------------------------
(* The transaction is mined: its predecessor is the latest record, so that   *)
(* its period starts where this record ends.                                *)
LEMMA LinkedToLatest ==
  ASSUME Inv, NEW in, InputInv(in), CanAttest(Ledger, in), latestNonce[Org] # 0
  PROVE  /\ in.prev # ZERO_HASH
         /\ in.start = RecordAt(latestNonce[Org]).end
<1>1. in.prev = compute_chain_hash(RecordAt(latestNonce[Org]))
  BY DEF CanAttest, ExpectedPrev, Ledger, RecordAt, InputInv
<1>2. in.prev # ZERO_HASH
  BY <1>1 DEF compute_chain_hash, ZERO_HASH
<1>3. PICK k \in Nonces : /\ in.prev = compute_chain_hash(RecordAt(k))
                          /\ in.start = RecordAt(k).end
  BY <1>2 DEF InputInv, Follows
<1>4. RecordAt(k).nonce = RecordAt(latestNonce[Org]).nonce
  BY <1>1, <1>3 DEF compute_chain_hash
<1>5. latestNonce[Org] \in Nonces
  BY DEF Inv, LedgerInv, Nonces
<1>6. RecordAt(k).nonce = k /\ RecordAt(latestNonce[Org]).nonce = latestNonce[Org]
  BY <1>5 DEF Inv, LedgerInv, RecordInv
<1> QED BY <1>2, <1>3, <1>4, <1>6

(* The new record.                                                          *)
LEMMA AttestWrites ==
  ASSUME Inv, NEW in, in.org = Org, Commit(Attested(Ledger, in)),
         NEW n, n = latestNonce[Org] + 1
  PROVE  /\ latestNonce' = [latestNonce EXCEPT ![Org] = n]
         /\ latestNonce'[Org] = n /\ Nonces' = Nonces \cup {n} /\ n \in Nat
         /\ DOMAIN attestations' = Orgs
         /\ \A o \in Orgs \ {Org} : attestations'[o] = attestations[o]
         /\ DOMAIN attestations'[Org] = Nonces'
         /\ \A k \in Nonces : attestations'[Org][k] = attestations[Org][k]
         /\ attestations'[Org][n] = Record(in, n)
<1>1. /\ latestNonce[Org] \in Nat /\ Org \in Orgs
      /\ DOMAIN latestNonce = Orgs /\ DOMAIN attestations = Orgs
      /\ DOMAIN attestations[Org] = Nonces
  BY SchedulerAssumption DEF Inv, LedgerInv
<1>2. PICK f : f = attestations[Org]
  OBVIOUS
<1>3. PICK g : g = [k \in DOMAIN f \cup {n} |-> IF k = n THEN Record(in, n) ELSE f[k]]
  OBVIOUS
<1>4. /\ latestNonce' = [latestNonce EXCEPT ![Org] = n]
      /\ attestations' = [attestations EXCEPT ![Org] = g]
  BY <1>2, <1>3 DEF Commit, Attested, Ledger
<1>5. latestNonce'[Org] = n /\ n \in Nat
  BY <1>1, <1>4
<1>6. Nonces' = Nonces \cup {n}
  BY <1>1, <1>5 DEF Nonces
<1>7. n \notin Nonces
  BY <1>1 DEF Nonces
<1>8. attestations'[Org] = g /\ DOMAIN attestations' = Orgs
  BY <1>1, <1>4
<1> QED BY <1>1, <1>2, <1>3, <1>4, <1>5, <1>6, <1>7, <1>8

LEMMA MinedInv ==
  ASSUME Inv, pending # NoTx, latestNonce[Org] < MaxNonce, Attest(Provider, pending.input),
         UNCHANGED <<db, late, horizon>>
  PROVE  LedgerGrows /\ LedgerInv' /\ ContractTypeOK'
<1> PICK in : in = pending.input
  OBVIOUS
<1>1. /\ InputInv(in) /\ in.org = Org /\ CanAttest(Ledger, in)
      /\ Commit(Attested(Ledger, in)) /\ UNCHANGED <<owner, attestors>>
  BY DEF Inv, PoolInv, InputInv, Attest
<1> PICK n : n = latestNonce[Org] + 1
  OBVIOUS
<1>2. /\ latestNonce' = [latestNonce EXCEPT ![Org] = n]
      /\ latestNonce'[Org] = n /\ Nonces' = Nonces \cup {n} /\ n \in Nat
      /\ DOMAIN attestations' = Orgs
      /\ \A o \in Orgs \ {Org} : attestations'[o] = attestations[o]
      /\ DOMAIN attestations'[Org] = Nonces'
      /\ \A k \in Nonces : attestations'[Org][k] = attestations[Org][k]
      /\ attestations'[Org][n] = Record(in, n)
  BY <1>1, AttestWrites
<1>3. latestNonce[Org] \in Nat /\ DOMAIN latestNonce = Orgs /\ n # 0
  BY DEF Inv, LedgerInv
<1>4. LedgerGrows
  BY <1>2, <1>3 DEF LedgerGrows
<1>5. /\ RecordAt(n)'.start = in.start /\ RecordAt(n)'.end = in.end
      /\ RecordAt(n)'.nonce = n /\ RecordAt(n)'.body = in.body
  BY <1>2 DEF RecordAt, Record
<1>6. /\ in.start \in 0 .. MaxTime /\ in.end \in 0 .. MaxTime /\ in.start < in.end
      /\ in.start \in Nat /\ in.end \in Nat
      /\ in.body \in PeriodBodies /\ in.body.root \in SUBSET Nat
  <2>1. in.start \in 0 .. MaxTime /\ in.end \in 0 .. MaxTime /\ in.body \in PeriodBodies
    BY <1>1 DEF InputInv
  <2>2. in.body.root \in SUBSET (0 .. MaxTime)
    BY <2>1 DEF PeriodBodies
  <2> QED BY <1>1, <2>1, <2>2, SchedulerAssumption DEF CanAttest
<1>7. \A k \in Nonces : RecordAt(k)' = RecordAt(k) /\ RootAt(k)' = RootAt(k)
  BY <1>2 DEF RecordAt, RootAt
<1>8. /\ \A e \in db \ late : e < in.end =>
           e \in in.body.root \/ \E m \in Nonces : e \in RootAt(m)
      /\ \A m \in Nonces : /\ RecordAt(m).end <= in.start
                          /\ (n = m + 1 \/ RecordAt(m).end < in.start)
  <2>1. CASE latestNonce[Org] = 0
    <3>1. in.prev = ZERO_HASH /\ Nonces = {}
      BY <1>1, <2>1 DEF CanAttest, ExpectedPrev, Ledger, Nonces
    <3> QED BY <1>1, <3>1 DEF InputInv, Covered
  <2>2. CASE latestNonce[Org] # 0
    <3> PICK k : k = latestNonce[Org]
      OBVIOUS
    <3>1. k \in Nonces /\ k \in Nat /\ n = k + 1
      BY <1>3, <2>2 DEF Nonces
    <3>2. in.start = RecordAt(k).end
      BY <1>1, <2>2, LinkedToLatest
    <3>3. RecordInv(k) /\ RecordAt(k).end \in Nat /\ RecordAt(k).start \in Nat
      BY <3>1 DEF Inv, LedgerInv, RecordInv
    <3>4. ASSUME NEW e \in db \ late, e < in.end
          PROVE  e \in in.body.root \/ \E m \in Nonces : e \in RootAt(m)
      <4>1. e \in Nat
        BY SchedulerAssumption DEF Inv, ClockInv
      <4>2. CASE in.start <= e
        BY <1>1, <3>4, <4>2 DEF InputInv, Covered
      <4>3. CASE ~(in.start <= e)
        <5>1. e < RecordAt(k).end
          BY <3>2, <3>3, <4>1, <4>3
        <5>2. PICK m \in 1 .. k : e \in RootAt(m)
          BY <3>3, <3>4, <5>1 DEF RecordInv
        <5> QED BY <3>1, <5>2 DEF Nonces
      <4> QED BY <4>2, <4>3
    <3>5. ASSUME NEW m \in Nonces
          PROVE  /\ RecordAt(m).end <= in.start
                 /\ (n = m + 1 \/ RecordAt(m).end < in.start)
      <4>1. m \in Nat /\ RecordAt(m).end \in Nat /\ (m = k \/ m < k)
        BY <3>1 DEF Inv, LedgerInv, RecordInv, Nonces
      <4>2. m < k => RecordAt(m).end <= RecordAt(k).start
        BY <3>1 DEF Inv, LedgerInv, PeriodsInv
      <4>3. RecordAt(k).start < RecordAt(k).end
        BY <3>3 DEF RecordInv
      <4> QED BY <3>1, <3>2, <3>3, <4>1, <4>2, <4>3
    <3> QED BY <3>4, <3>5
  <2> QED BY <2>1, <2>2
<1>9. RecordInv(n)'
  <2>1. RootAt(n)' = in.body.root /\ MetricsAt(n)' = in.body.metrics
    BY <1>5 DEF RootAt, MetricsAt
  <2>2. ASSUME NEW e \in db' \ late', e < in.end
        PROVE  \E m \in 1 .. n : e \in RootAt(m)'
    <3>1. e \in RootAt(n)' \/ \E m \in Nonces : e \in RootAt(m)'
      BY <1>7, <1>8, <2>1, <2>2
    <3>2. n \in 1 .. n /\ Nonces \subseteq 1 .. n
      BY <1>2, <1>3 DEF Nonces
    <3> QED BY <3>1, <3>2
  <2>3. Short(n)' => Matched(MetricsAt(n), RootAt(n))'
    BY <1>1, <1>5, <2>1 DEF InputInv, Short, Matched
  <2>4. OnlyBrokenDays(MetricsAt(n), RootAt(n), RecordAt(n).start, RecordAt(n).end, Second)'
    BY <1>1, <1>5, <2>1 DEF InputInv, OnlyBrokenDays, DayOf
  <2> QED BY <1>1, <1>5, <1>6, <2>1, <2>2, <2>3, <2>4 DEF RecordInv, InputInv, Trunc
<1>10. WorldGrows
  BY Still
<1>11. \A k \in Nonces : RecordInv(k)'
  BY <1>4, <1>10, RecordStays DEF Inv, LedgerInv
<1>12. PeriodsInv'
  <2> SUFFICES ASSUME NEW m \in Nonces', NEW q \in Nonces', m < q
               PROVE  /\ RecordAt(m)'.end <= RecordAt(q)'.start
                      /\ (q = m + 1 \/ RecordAt(m)'.end < RecordAt(q)'.start)
    BY DEF PeriodsInv
  <2>1. m \in Nonces
    BY <1>2, <1>3 DEF Nonces
  <2>2. CASE q = n
    BY <1>5, <1>7, <1>8, <2>1, <2>2
  <2>3. CASE q \in Nonces
    BY <1>7, <2>1, <2>3 DEF Inv, LedgerInv, PeriodsInv
  <2> QED BY <1>2, <2>2, <2>3
<1>13. LedgerInv'
  BY <1>2, <1>3, <1>9, <1>11, <1>12 DEF LedgerInv
<1>14. ContractTypeOK'
  <2>1. IsRecord(Record(in, n))
    BY <1>1, <1>2, <1>6, SchedulerAssumption DEF IsRecord, Record
  <2>2. ASSUME NEW o \in Orgs, NEW k \in DOMAIN attestations'[o]
        PROVE  IsRecord(attestations'[o][k])
    <3>1. CASE o = Org
      BY <1>2, <2>1, <2>2, <3>1 DEF Inv, ContractTypeOK, LedgerInv
    <3>2. CASE o # Org
      BY <1>2, <2>2, <3>2 DEF Inv, ContractTypeOK
    <3> QED BY <3>1, <3>2
  <2>3. latestNonce' \in [Orgs -> 0 .. MaxNonce]
    BY <1>2, <1>3, ContractAssumption DEF Inv, ContractTypeOK
  <2> QED BY <1>1, <2>2, <2>3 DEF Inv, ContractTypeOK
<1> QED BY <1>4, <1>13, <1>14

LEMMA MineInv ==
  ASSUME Inv, Mine
  PROVE  Inv'
<1>1. /\ UNCHANGED <<now, buffered, db, pc, cycle, count, waiting, sent, horizon, late>>
      /\ mined' = mined + 1 /\ pending' = NoTx /\ pending # NoTx
      /\ latestNonce[Org] < MaxNonce
  BY DEF Mine, clockVars, schedVars, historyVars
<1>2. LedgerGrows /\ LedgerInv' /\ ContractTypeOK'
  <2>1. CASE Attest(Provider, pending.input)
    BY <1>1, <2>1, MinedInv
  <2>2. CASE UNCHANGED contractVars
    <3>1. WorldGrows
      BY <1>1, Still
    <3> QED BY <2>2, <3>1, SameLedger, LedgerStays DEF Inv, contractVars
  <2> QED BY <2>1, <2>2 DEF Mine
<1>3. CycleInv'
  <2>1. WorldGrows /\ now \in Nat
    BY <1>1, Still, SchedulerAssumption DEF Inv, ClockInv
  <2> QED BY <1>1, <1>2, <2>1, CycleStays DEF Inv
<1>4. ClockInv'
  BY <1>1 DEF Inv, ClockInv
<1>5. PoolInv'
  BY <1>1, SchedulerAssumption DEF Inv, PoolInv
<1> QED BY <1>2, <1>3, <1>4, <1>5 DEF Inv

-----------------------------------------------------------------------------
(* The steps of a cycle leave the registry as it is.                        *)
LEMMA CycleStep ==
  ASSUME Inv, UNCHANGED <<contractVars, clockVars, mined, pending, sent, late>>,
         horizon' \in 0 .. now, horizon <= horizon',
         count' \in Nat, count' <= mined, CycleInv'
  PROVE  Inv'
<1>1. UNCHANGED <<now, db, latestNonce, attestations>>
  BY DEF clockVars, contractVars
<1>2. WorldGrows
  BY <1>1, SchedulerAssumption DEF Inv, ClockInv, WorldGrows
<1>3. LedgerGrows /\ ContractTypeOK' /\ LedgerInv'
  BY <1>1, <1>2, SameLedger, LedgerStays DEF Inv
<1>4. ClockInv'
  BY <1>1 DEF Inv, ClockInv, clockVars
<1>5. PoolInv'
  <2> PICK in : in = pending.input
    OBVIOUS
  <2>1. pending # NoTx => InputInv(in)'
    BY <1>2, <1>3, InputStays DEF Inv, PoolInv
  <2> QED BY <2>1 DEF Inv, PoolInv
<1> QED BY <1>3, <1>4, <1>5 DEF Inv

(* A cycle that ends, or is ended, leaves nothing.                          *)
LEMMA IdleCycle ==
  ASSUME Inv, now' = now, cycle' = NoCycle, pc' = "sleep"
  PROVE  CycleInv'
  BY SchedulerAssumption DEF Inv, ClockInv, CycleInv, NoCycle

LEMMA StartInvs ==
  ASSUME Inv, StartCycle
  PROVE  Inv'
<1>1. /\ pc' = "latest" /\ cycle' = [NoCycle EXCEPT !.now = now]
      /\ UNCHANGED <<contractVars, clockVars, mined, pending, sent, late, horizon, count>>
  BY DEF StartCycle, poolVars, historyVars
<1>2. CycleInv'
  BY <1>1, SchedulerAssumption DEF Inv, ClockInv, CycleInv, NoCycle, clockVars
<1>3. horizon \in 0 .. now /\ horizon <= horizon /\ count \in Nat /\ count <= mined
  BY SchedulerAssumption DEF Inv, ClockInv, PoolInv
<1> QED BY <1>1, <1>2, <1>3, CycleStep

LEMMA EndInv ==
  ASSUME Inv, Receipt \/ GiveUp
  PROVE  Inv'
<1>1. /\ pc' = "sleep" /\ cycle' = NoCycle
      /\ UNCHANGED <<contractVars, clockVars, mined, pending, sent, late, horizon, count>>
  BY DEF Receipt, GiveUp, poolVars, historyVars
<1>2. CycleInv'
  BY <1>1, IdleCycle DEF clockVars
<1>3. horizon \in 0 .. now /\ horizon <= horizon /\ count \in Nat /\ count <= mined
  BY SchedulerAssumption DEF Inv, ClockInv, PoolInv
<1> QED BY <1>1, <1>2, <1>3, CycleStep

LEMMA LatestInv ==
  ASSUME Inv, GetLatest
  PROVE  Inv'
<1>1. UNCHANGED <<contractVars, clockVars, mined, pending, sent, late, horizon, count>>
  BY DEF GetLatest, poolVars, historyVars
<1>2. CycleInv'
  <2>1. CASE latestNonce[Org] > 0
    <3> PICK k : k = latestNonce[Org]
      OBVIOUS
    <3>1. k \in Nonces /\ RecordInv(k)
      BY <2>1 DEF Inv, LedgerInv, Nonces
    <3>2. /\ cycle' = [cycle EXCEPT !.start = RecordAt(k).end,
                                    !.prev = compute_chain_hash(RecordAt(k))]
          /\ pc' = "metrics"
      <4>1. ~(k = 0)
        BY <2>1 DEF Inv, LedgerInv
      <4>2. ExpectedPrev(Ledger, Org) = compute_chain_hash(RecordAt(k))
        BY <4>1 DEF ExpectedPrev, Ledger, RecordAt
      <4> QED BY <2>1, <4>2 DEF GetLatest, PeriodStart, RecordAt
    <3>3. /\ DOMAIN cycle' = {"now", "start", "prev", "metrics", "root"}
          /\ cycle'.start = RecordAt(k).end /\ cycle'.prev = compute_chain_hash(RecordAt(k))
          /\ cycle'.now = cycle.now /\ cycle'.metrics = cycle.metrics
          /\ cycle'.root = cycle.root
      BY <3>2 DEF Inv, CycleInv
    <3>4. RecordAt(k).end \in 0 .. MaxTime
      BY <3>1, SchedulerAssumption DEF Inv, ClockInv, RecordInv
    <3>5. Nonces' = Nonces /\ RecordAt(k)' = RecordAt(k)
      BY <1>1 DEF contractVars, Nonces, RecordAt
    <3>6. StartInv'
      BY <3>1, <3>3, <3>5 DEF StartInv, Follows
    <3> QED BY <1>1, <3>2, <3>3, <3>4, <3>6 DEF Inv, CycleInv, clockVars
  <2>2. CASE ~(latestNonce[Org] > 0)
    BY <1>1, <2>2 DEF GetLatest, Inv, CycleInv, clockVars
  <2> QED BY <2>1, <2>2
<1>3. horizon \in 0 .. now /\ horizon <= horizon /\ count \in Nat /\ count <= mined
  BY SchedulerAssumption DEF Inv, ClockInv, PoolInv
<1> QED BY <1>1, <1>2, <1>3, CycleStep

LEMMA EarliestInv ==
  ASSUME Inv, GetEarliest
  PROVE  Inv'
<1>1. /\ UNCHANGED <<contractVars, clockVars, mined, pending, sent, late, count>>
      /\ pc = "earliest" /\ pc' = "metrics" /\ db # {}
      /\ cycle' = [cycle EXCEPT !.start = Min(db)]
      /\ horizon' = Max({horizon, Min(db)})
  BY DEF GetEarliest, poolVars
<1>2. Min(db) \in 0 .. now /\ \A e \in db : Min(db) <= e
  <2>1. db \in SUBSET (0 .. now) /\ db \in SUBSET Nat
    BY SchedulerAssumption DEF Inv, ClockInv
  <2> QED BY <1>1, <2>1, Earliest
<1>3. /\ horizon \in Nat /\ horizon' \in 0 .. now /\ horizon <= horizon'
      /\ Min(db) <= horizon' /\ now \in Nat /\ now <= MaxTime
  <2>1. horizon \in Nat /\ horizon \in 0 .. now /\ now \in 0 .. MaxTime
    BY SchedulerAssumption DEF Inv, ClockInv
  <2> QED BY <1>1, <1>2, <2>1, Later, SchedulerAssumption
<1>4. CycleInv'
  <2>1. /\ DOMAIN cycle' = {"now", "start", "prev", "metrics", "root"}
        /\ cycle'.start = Min(db) /\ cycle'.prev = ZERO_HASH
        /\ cycle'.now = cycle.now /\ cycle'.metrics = cycle.metrics
        /\ cycle'.root = cycle.root
    BY <1>1 DEF Inv, CycleInv
  <2>2. StartInv'
    BY <1>1, <1>2, <1>3, <2>1 DEF StartInv, clockVars
  <2>3. Min(db) \in 0 .. MaxTime
    BY <1>2, <1>3, SchedulerAssumption
  <2> QED BY <1>1, <2>1, <2>2, <2>3 DEF Inv, CycleInv, clockVars
<1>5. count \in Nat /\ count <= mined
  BY DEF Inv, PoolInv
<1> QED BY <1>1, <1>3, <1>4, <1>5, CycleStep

(* The totals are read before the horizon moves on.                         *)
LEMMA MetricsReadInv ==
  ASSUME Inv, ReadMetrics
  PROVE  Inv'
<1>1. /\ UNCHANGED <<contractVars, clockVars, mined, pending, sent, late, count>>
      /\ pc = "metrics" /\ pc' = "root"
      /\ cycle' = [cycle EXCEPT !.metrics = MetricsOf(cycle.start, cycle.now)]
      /\ horizon' = Max({horizon, cycle.now})
  BY DEF ReadMetrics, poolVars
<1>2. /\ horizon \in Nat /\ cycle.now \in 0 .. now /\ cycle.start \in 0 .. MaxTime
      /\ horizon \in 0 .. now /\ now \in 0 .. MaxTime /\ db \in SUBSET (0 .. now)
      /\ cycle.now \in Nat /\ cycle.start \in Nat /\ now \in Nat
  BY SchedulerAssumption DEF Inv, ClockInv, CycleInv
<1>3. horizon' \in 0 .. now /\ horizon <= horizon' /\ cycle.now <= horizon'
  BY <1>1, <1>2, Later
<1>4. CycleInv'
  <2>1. /\ DOMAIN cycle' = {"now", "start", "prev", "metrics", "root"}
        /\ cycle'.start = cycle.start /\ cycle'.prev = cycle.prev
        /\ cycle'.now = cycle.now /\ cycle'.metrics = MetricsOf(cycle.start, cycle.now)
        /\ cycle'.root = cycle.root
    BY <1>1 DEF Inv, CycleInv
  <2>2. MetricsOf(cycle.start, cycle.now) \subseteq db
    BY DEF MetricsOf, DaysIn, EventsIn
  <2>3. MetricsOf(cycle.start, cycle.now) \in SUBSET (0 .. MaxTime)
    <3>1. 0 .. now \subseteq 0 .. MaxTime
      BY <1>2, SchedulerAssumption
    <3> QED BY <1>2, <2>2, <3>1
  <2>4. StartInv'
    <3>1. UNCHANGED <<db, late, latestNonce, attestations>>
      BY <1>1 DEF clockVars, contractVars
    <3>2. CASE Follows(cycle.prev, cycle.start)
      BY <2>1, <3>1, <3>2 DEF StartInv, Follows, Nonces, RecordAt
    <3>3. CASE /\ cycle.prev = ZERO_HASH /\ cycle.start <= horizon
               /\ \A e \in db \ late : cycle.start <= e
      <4>1. cycle.start <= horizon'
        BY <1>2, <1>3, <3>3
      <4> QED BY <2>1, <3>1, <3>3, <4>1 DEF StartInv
    <3> QED BY <1>1, <3>2, <3>3 DEF Inv, CycleInv, StartInv
  <2>5. MetricsInv'
    <3>1. cycle.now - cycle.start <= Day =>
            MetricsOf(cycle.start, cycle.now) = EventsIn(cycle.start, cycle.now)
      BY <1>2, SchedulerAssumption DEF MetricsOf
    <3>2. EventsIn(cycle.start, cycle.now)' = EventsIn(cycle'.start, cycle'.now)
      BY <1>1, <2>1 DEF EventsIn, clockVars
    <3>3. ShortMetricsInv'
      BY <2>1, <3>1, <3>2 DEF ShortMetricsInv, EventsIn
    <3>4. \A e \in db : e \in Nat /\ DayOf(e) \in Nat /\ DayOf(e) <= e
      BY <1>2, DayOfNat
    <3>5. LongMetricsInv'
      <4>1. \A e \in MetricsOf(cycle.start, cycle.now) :
              e \in db /\ cycle.start <= e /\ DayOf(e) < cycle.now
        BY <1>2, <3>4 DEF MetricsOf, DaysIn, EventsIn
      <4>2. \A e \in EventsIn(cycle.start, cycle.now) \ MetricsOf(cycle.start, cycle.now) :
              DayOf(e) < cycle.start
        BY <1>2, <3>4 DEF MetricsOf, DaysIn, EventsIn
      <4> QED BY <1>1, <2>1, <3>2, <4>1, <4>2 DEF LongMetricsInv, EventsIn, DayOf, clockVars
    <3> QED BY <3>3, <3>5 DEF MetricsInv
  <2> QED BY <1>1, <1>3, <2>1, <2>3, <2>4, <2>5 DEF Inv, CycleInv, clockVars
<1>5. count \in Nat /\ count <= mined
  BY DEF Inv, PoolInv
<1> QED BY <1>1, <1>3, <1>4, <1>5, CycleStep
(* The root is read after the totals: what is missing in these came late.    *)
LEMMA RootReadInv ==
  ASSUME Inv, ReadEvaluations
  PROVE  Inv'
<1>1. /\ UNCHANGED <<contractVars, clockVars, mined, pending, sent, late, horizon, count>>
      /\ pc = "root" /\ pc' = "count"
      /\ cycle' = [cycle EXCEPT !.root = EventsIn(cycle.start, cycle.now)]
  BY DEF ReadEvaluations, poolVars, historyVars
<1>2. /\ horizon \in 0 .. now /\ now \in 0 .. MaxTime /\ db \in SUBSET (0 .. now)
      /\ now \in Nat
  BY SchedulerAssumption DEF Inv, ClockInv
<1>3. CycleInv'
  <2>1. /\ DOMAIN cycle' = {"now", "start", "prev", "metrics", "root"}
        /\ cycle'.start = cycle.start /\ cycle'.prev = cycle.prev
        /\ cycle'.now = cycle.now /\ cycle'.metrics = cycle.metrics
        /\ cycle'.root = EventsIn(cycle.start, cycle.now)
    BY <1>1 DEF Inv, CycleInv
  <2>2. EventsIn(cycle.start, cycle.now) \in SUBSET (0 .. MaxTime)
    <3>1. 0 .. now \subseteq 0 .. MaxTime
      BY <1>2, SchedulerAssumption
    <3> QED BY <1>2, <3>1 DEF EventsIn
  <2>3. UNCHANGED <<db, late, latestNonce, attestations>>
    BY <1>1 DEF clockVars, contractVars
  <2>4. StartInv /\ MetricsInv
    BY <1>1 DEF Inv, CycleInv
  <2>5. StartInv'
    BY <1>1, <2>1, <2>3, <2>4 DEF StartInv, Follows, Nonces, RecordAt
  <2>6. RootInv'
    <3>1. Covered(cycle.prev, cycle.start, cycle.now, EventsIn(cycle.start, cycle.now))
      <4>1. ZERO_HASH = cycle.prev => \A e \in db \ late : cycle.start <= e
        <5>1. ASSUME Follows(cycle.prev, cycle.start) PROVE ZERO_HASH # cycle.prev
          BY <5>1 DEF Follows, compute_chain_hash, ZERO_HASH
        <5> QED BY <2>4, <5>1 DEF StartInv
      <4> QED BY <4>1 DEF Covered, EventsIn
    <3>2. cycle.now - cycle.start <= Day
            => Matched(cycle.metrics, EventsIn(cycle.start, cycle.now))
      BY <2>4 DEF MetricsInv, ShortMetricsInv, Matched
    <3>3. OnlyBrokenDays(cycle.metrics, EventsIn(cycle.start, cycle.now),
                         cycle.start, cycle.now, 0)
      <4>1. cycle.start \in Nat /\ cycle.now \in Nat /\ cycle.start + 0 = cycle.start
            /\ cycle.now + 0 = cycle.now
        BY SchedulerAssumption DEF Inv, CycleInv, ClockInv
      <4>2. \A e \in cycle.metrics \ EventsIn(cycle.start, cycle.now) : cycle.now <= e
        <5>1. \A e \in cycle.metrics : e \in db /\ e \in Nat /\ cycle.start <= e
          <6>1. \A e \in cycle.metrics : e \in db /\ cycle.start <= e
            BY <2>4 DEF MetricsInv, LongMetricsInv
          <6>2. db \subseteq Nat
            BY <1>2
          <6> QED BY <6>1, <6>2
        <5>2. \A e \in db : e \in EventsIn(cycle.start, cycle.now)
                              \/ ~(cycle.start <= e /\ e < cycle.now)
          BY DEF EventsIn
        <5> QED BY <4>1, <5>1, <5>2
      <4> QED BY <2>4, <4>1, <4>2 DEF MetricsInv, LongMetricsInv, OnlyBrokenDays
    <3>4. OnlyBrokenDays(cycle.metrics, cycle.root, cycle.start, cycle.now, 0)'
      BY <2>1, <2>3, <3>3, <1>1 DEF OnlyBrokenDays, DayOf, EventsIn
    <3> QED BY <2>1, <2>3, <3>1, <3>2, <3>4 DEF RootInv, Covered, Matched, EventsIn
  <2> QED BY <1>1, <2>1, <2>2, <2>5, <2>6 DEF Inv, CycleInv, clockVars
<1>4. horizon <= horizon /\ count \in Nat /\ count <= mined
  BY <1>2 DEF Inv, PoolInv
<1> QED BY <1>1, <1>2, <1>3, <1>4, CycleStep

LEMMA CountInv ==
  ASSUME Inv, ReadCount
  PROVE  Inv'
<1>1. /\ UNCHANGED <<contractVars, clockVars, mined, pending, sent, late, horizon, cycle>>
      /\ pc = "count" /\ pc' = "send" /\ count' = mined
  BY DEF ReadCount, poolVars, historyVars
<1>2. CycleInv'
  BY <1>1 DEF Inv, CycleInv, StartInv, RootInv, Follows, Nonces, RecordAt, Covered,
              Matched, OnlyBrokenDays, DayOf, clockVars, contractVars
<1>3. horizon \in 0 .. now /\ horizon <= horizon /\ count' \in Nat /\ count' <= mined
  BY <1>1, SchedulerAssumption DEF Inv, ClockInv, PoolInv
<1> QED BY <1>1, <1>2, <1>3, CycleStep

(* What is sent carries the period in whole seconds: its root lies between   *)
(* them, and an end that a record has is in whole seconds already.          *)
LEMMA SentInput ==
  ASSUME Inv, pc = "send", NEW in,
         in = [org |-> Org, start |-> Trunc(cycle.start), end |-> Trunc(cycle.now),
               body |-> [metrics |-> cycle.metrics, root |-> cycle.root],
               prev |-> cycle.prev]
  PROVE  InputInv(in)
<1>1. /\ cycle.now \in 0 .. now /\ now \in 0 .. MaxTime /\ cycle.start \in 0 .. MaxTime
      /\ cycle.metrics \in SUBSET (0 .. MaxTime) /\ cycle.root \in SUBSET (0 .. MaxTime)
      /\ StartInv /\ RootInv /\ cycle.now <= horizon /\ horizon \in 0 .. now
  BY DEF Inv, CycleInv, ClockInv
<1>2. /\ cycle.now \in Nat /\ cycle.start \in Nat /\ now \in Nat /\ horizon \in Nat
      /\ cycle.now <= MaxTime /\ cycle.root \in SUBSET Nat /\ MaxTime \in Nat
      /\ Second \in Nat /\ Second > 0 /\ Day \in Nat
  BY <1>1, SchedulerAssumption
<1>3. /\ Trunc(cycle.now) \in Nat /\ Trunc(cycle.now) <= cycle.now
      /\ cycle.now < Trunc(cycle.now) + Second
      /\ Trunc(cycle.start) \in Nat /\ Trunc(cycle.start) <= cycle.start
      /\ Trunc(Trunc(cycle.now)) = Trunc(cycle.now)
  BY <1>2, TruncOf, TruncTwice
<1>4. in.start \in 0 .. MaxTime /\ in.end \in 0 .. MaxTime /\ in.end <= horizon
  BY <1>1, <1>2, <1>3
<1>5. \A e \in cycle.root : in.start <= Trunc(e) /\ Trunc(e) <= in.end
  BY <1>1, <1>2, TruncMonotonic DEF RootInv
<1>6. in.prev = ZERO_HASH \/ (Follows(in.prev, in.start) /\ in.start = cycle.start)
  <2>1. ASSUME Follows(cycle.prev, cycle.start)
        PROVE  Trunc(cycle.start) = cycle.start
    BY <2>1 DEF Follows, Inv, LedgerInv, RecordInv
  <2> QED BY <1>1, <2>1 DEF StartInv
<1>7. Covered(in.prev, in.start, in.end, cycle.root)
  <2> SUFFICES ASSUME NEW e \in db \ late, e < in.end, in.prev = ZERO_HASH \/ in.start <= e
               PROVE  e \in cycle.root
    BY DEF Covered
  <2>1. e \in Nat
    BY DEF Inv, ClockInv
  <2>2. e < cycle.now
    BY <1>2, <1>3, <2>1
  <2>3. cycle.prev = ZERO_HASH \/ cycle.start <= e
    BY <1>6
  <2> QED BY <1>1, <2>2, <2>3 DEF RootInv, Covered
<1>8. in.end - in.start + Second - 1 <= Day => Matched(cycle.metrics, cycle.root)
  <2>1. in.end - in.start + Second - 1 <= Day => cycle.now - cycle.start <= Day
    BY <1>2, <1>3
  <2> QED BY <1>1, <2>1 DEF RootInv
<1>9. OnlyBrokenDays(cycle.metrics, cycle.root, in.start, in.end, Second)
  <2>1. \A e \in cycle.metrics \cup cycle.root : e \in Nat /\ DayOf(e) \in Nat
    BY <1>1, <1>2, DayOfNat
  <2>2. /\ cycle.start < in.start + Second /\ cycle.now < in.end + Second
        /\ in.end <= cycle.now /\ in.start \in Nat /\ in.end \in Nat
    BY <1>2, <1>3, TruncOf
  <2>3. /\ \A e \in cycle.root \ cycle.metrics : e \in late \/ DayOf(e) < cycle.start
        /\ \A e \in cycle.metrics \ cycle.root : cycle.now <= e /\ DayOf(e) < cycle.now
    BY <1>1, <1>2 DEF RootInv, OnlyBrokenDays
  <2> QED BY <1>2, <2>1, <2>2, <2>3 DEF OnlyBrokenDays
<1> QED BY <1>1, <1>3, <1>4, <1>5, <1>6, <1>7, <1>8, <1>9 DEF InputInv, PeriodBodies

LEMMA SendInv ==
  ASSUME Inv, SendTx
  PROVE  Inv'
<1> PICK in : in = [org |-> Org, start |-> Trunc(cycle.start), end |-> Trunc(cycle.now),
                    body |-> [metrics |-> cycle.metrics, root |-> cycle.root],
                    prev |-> cycle.prev]
  OBVIOUS
<1>1. /\ UNCHANGED <<contractVars, clockVars, mined, late, horizon, count>>
      /\ pc = "send" /\ sent < MaxTx /\ sent' = sent + 1
      /\ pending' = [id |-> sent', input |-> in]
      /\ \/ pc' = "wait" /\ UNCHANGED cycle
         \/ pc' = "sleep" /\ cycle' = NoCycle
  BY DEF SendTx, historyVars
<1>2. UNCHANGED <<now, db, latestNonce, attestations>>
  BY <1>1 DEF clockVars, contractVars
<1>3. WorldGrows
  BY <1>1, <1>2, Still
<1>4. LedgerGrows /\ ContractTypeOK' /\ LedgerInv'
  BY <1>1, <1>2, <1>3, SameLedger, LedgerStays DEF Inv
<1>5. ClockInv'
  BY <1>1 DEF Inv, ClockInv, clockVars
<1>6. PoolInv'
  <2>1. InputInv(in)'
    BY <1>1, <1>3, <1>4, SentInput, InputStays
  <2> QED BY <1>1, <2>1, SchedulerAssumption DEF Inv, PoolInv
<1>7. CycleInv'
  <2>1. CASE pc' = "wait" /\ UNCHANGED cycle
    BY <1>2, <2>1 DEF Inv, CycleInv
  <2>2. CASE pc' = "sleep" /\ cycle' = NoCycle
    BY <1>2, <2>2, IdleCycle
  <2> QED BY <1>1, <2>1, <2>2
<1> QED BY <1>4, <1>5, <1>6, <1>7 DEF Inv

LEMMA StepInv == Inv /\ [Next]_vars => Inv'
<1> SUFFICES ASSUME Inv, [Next]_vars PROVE Inv'
  OBVIOUS
<1>1. CASE Tick \/ Capture \/ ChangeRole
  BY <1>1, AroundInv
<1>2. CASE \E S \in SUBSET buffered : FlushEvents(S)
  BY <1>2, FlushInv
<1>3. CASE Mine
  BY <1>3, MineInv
<1>4. CASE Cycle
  BY <1>4, StartInvs, LatestInv, EarliestInv, MetricsReadInv, RootReadInv, CountInv,
     SendInv, EndInv DEF Cycle
<1>5. CASE UNCHANGED vars
  <2>1. /\ UNCHANGED <<contractVars, clockVars, mined, pending, sent, late, horizon, count>>
        /\ UNCHANGED <<pc, cycle, latestNonce, attestations, now, db>>
    BY <1>5 DEF vars, poolVars, schedVars, historyVars, clockVars, contractVars
  <2>2. WorldGrows /\ LedgerGrows /\ now \in Nat
    BY <2>1, Still, SameLedger, SchedulerAssumption DEF Inv, ClockInv
  <2>3. CycleInv'
    BY <2>1, <2>2, CycleStays DEF Inv
  <2>4. horizon \in 0 .. now /\ horizon <= horizon /\ count \in Nat /\ count <= mined
    BY SchedulerAssumption DEF Inv, ClockInv, PoolInv
  <2> QED BY <2>1, <2>3, <2>4, CycleStep
<1> QED BY <1>1, <1>2, <1>3, <1>4, <1>5 DEF Next

-----------------------------------------------------------------------------
(* Any order of captures, flushes, cycles, transactions and changes of roles *)
(* keeps the invariant: a transaction carries a period that covers what was *)
(* in the database, and starts where the record it names ends.              *)
THEOREM SchedulerInvariant == Spec => []Inv
<1>1. Init => Inv
  BY InitInv
<1>2. Inv /\ [Next]_vars => Inv'
  BY StepInv
<1> QED BY <1>1, <1>2, PTL DEF Spec

LEMMA EndsGrow ==
  ASSUME Inv, NEW m \in Nonces, NEW n \in Nonces, m <= n
  PROVE  RecordAt(m).end <= RecordAt(n).end
<1>1. /\ m \in Nat /\ n \in Nat /\ RecordAt(m).end \in Nat /\ RecordAt(n).start \in Nat
      /\ RecordAt(n).end \in Nat /\ RecordAt(n).start < RecordAt(n).end
  BY DEF Inv, LedgerInv, RecordInv, Nonces
<1>2. m < n => RecordAt(m).end <= RecordAt(n).start
  BY DEF Inv, LedgerInv, PeriodsInv
<1> QED BY <1>1, <1>2

(* No event is attested twice, but for those of the second in which a period *)
(* ends and the next one starts.                                            *)
THEOREM EventsAttestedOnce == Spec => []RepeatsWithinOneSecond
<1>1. Inv => RepeatsWithinOneSecond
  <2> SUFFICES ASSUME Inv, NEW m \in Nonces, NEW n \in Nonces, m < n,
                      NEW e \in RootAt(m) \cap RootAt(n)
               PROVE  n = m + 1 /\ Trunc(e) = RecordAt(m).end
    BY DEF RepeatsWithinOneSecond
  <2>1. /\ RecordAt(m).end <= RecordAt(n).start
        /\ (n = m + 1 \/ RecordAt(m).end < RecordAt(n).start)
    BY DEF Inv, LedgerInv, PeriodsInv
  <2>2. /\ e \in Nat /\ Trunc(e) <= RecordAt(m).end /\ RecordAt(n).start <= Trunc(e)
        /\ RecordAt(m).end \in Nat /\ RecordAt(n).start \in Nat
    BY DEF Inv, LedgerInv, RecordInv
  <2>3. Trunc(e) \in Nat
    BY <2>2, TruncOf
  <2> QED BY <2>1, <2>2, <2>3
<1> QED BY <1>1, SchedulerInvariant, PTL

(* Lost answers, replaced and reverted transactions leave no gap.           *)
THEOREM NoEventIsSkipped == Spec => []NoGapExceptLate
<1>1. Inv => NoGapExceptLate
  <2> SUFFICES ASSUME Inv, NEW n \in Nonces, NEW e \in db \ late, e < RecordAt(n).end
               PROVE  \E m \in Nonces : e \in RootAt(m)
    BY DEF NoGapExceptLate
  <2>1. \E m \in 1 .. n : e \in RootAt(m)
    BY DEF Inv, LedgerInv, RecordInv
  <2> QED BY <2>1 DEF Inv, LedgerInv, Nonces
<1> QED BY <1>1, SchedulerInvariant, PTL

(* What the run scheduler_timeouts checks: each instant is attested once.    *)
THEOREM EachInstantOnce == Spec => []AttestedOnce
<1>1. Inv => TypeOK
  <2> SUFFICES ASSUME Inv PROVE TypeOK
    OBVIOUS
  <2>1. 0 .. now \subseteq 0 .. MaxTime /\ now \in 0 .. MaxTime
    BY SchedulerAssumption DEF Inv, ClockInv
  <2> QED BY <2>1 DEF Inv, ClockInv, PoolInv, CycleInv, TypeOK
<1> QED BY <1>1, EventsAttestedOnce, NoEventIsSkipped, SchedulerInvariant, PTL DEF AttestedOnce

(* The totals of a record are those of its root, but for late events and, in *)
(* periods over a day, the broken days at both ends; and the walk of verify *)
(* reaches every attested period before it stops.                           *)
THEOREM RecordsStandUp == Spec => []RecordsVerify
<1>1. Inv => MetricsMatchRoot
  BY DEF Inv, LedgerInv, RecordInv, MetricsMatchRoot, ShortPeriodsAgree,
         PeriodsDifferByBrokenDays, Matched
<1>2. Inv => VerifyFindsAttestedPeriods
  <2> SUFFICES ASSUME Inv, NEW n \in Nonces
               PROVE  VerifyFinds(RecordAt(n).start, RecordAt(n).end)
    BY DEF VerifyFindsAttestedPeriods
  <2>1. ASSUME NEW m \in n .. latestNonce[Org] PROVE RecordAt(m).end >= RecordAt(n).start
    <3>1. m \in Nonces /\ n <= m
      BY DEF Inv, LedgerInv, Nonces
    <3>2. RecordAt(n).end <= RecordAt(m).end
      BY <3>1, EndsGrow
    <3>3. /\ RecordAt(n).start < RecordAt(n).end /\ RecordAt(m).end \in Nat
          /\ RecordAt(n).start \in Nat /\ RecordAt(n).end \in Nat
      BY <3>1 DEF Inv, LedgerInv, RecordInv
    <3> QED BY <3>2, <3>3
  <2> QED BY <2>1 DEF VerifyFinds
<1> QED BY <1>1, <1>2, SchedulerInvariant, PTL DEF RecordsVerify
=============================================================================
