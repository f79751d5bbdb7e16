------------------------ MODULE AttestationScheduler ------------------------
(***************************************************************************)
(* The attestation scheduler of the API process, submitting through        *)
(* EVMProvider to the registry contract, for one organisation.             *)
(*                                                                         *)
(* Events are captured all the time and reach the database later, through  *)
(* the event writer; a cycle reads the chain and the database in several   *)
(* awaits; a transaction may be refused, replaced, mined after its sender  *)
(* has given up, or reverted. An event is identified by its creation time. *)
(***************************************************************************)
EXTENDS AttestationContract, FiniteSetsExt

CONSTANTS
  Org,        \* the organisation
  Provider,   \* the account of EVMProvider
  MaxTime,    \* bound on the clock, in ticks
  Second,     \* ticks in a second, the resolution of the chain
  Day,        \* ticks in a day, the resolution of daily_summary
  MinPeriod,  \* _MIN_PERIOD
  MaxEvents,  \* bound on the events captured
  MaxTx       \* bound on the transactions sent

(* The commitments to a period: the events behind its totals and those under *)
(* its Merkle root.                                                          *)
PeriodBodies == [metrics : SUBSET (0 .. MaxTime), root : SUBSET (0 .. MaxTime)]

ASSUME SchedulerAssumption ==
  /\ Org \in Orgs
  /\ Provider \in Accounts
  /\ 0 .. MaxTime \subseteq Times /\ PeriodBodies \subseteq Bodies
  /\ Second \in Nat \ {0} /\ Day \in Nat \ {0}
  /\ MinPeriod \in Nat /\ MaxTime \in Nat
  /\ MaxEvents \in Nat /\ MaxTx \in Nat

VARIABLES
  now,       \* utcnow()
  buffered,  \* captured, not in the database yet
  db,        \* llm_events
  pc,        \* where the cycle is suspended
  cycle,     \* its local variables: now, the period's start and the record
  count,     \* the account's transaction count, as read before sending
  mined,     \* transactions of the account that were mined
  pending,   \* the transaction in the node's pool
  waiting,   \* the transaction whose receipt the cycle awaits
  result,    \* receipt status of the last mined transaction
  sent,      \* number of transactions sent, also their identity
  horizon,   \* history: the latest time before which a cycle has read events
  late       \* history: events that came to the database behind the horizon

clockVars == <<now, buffered, db>>
poolVars == <<mined, pending, result>>
schedVars == <<pc, cycle, count, waiting>>
historyVars == <<horizon, late>>
vars == <<contractVars, clockVars, poolVars, schedVars, sent, historyVars>>

NoTx == [id |-> 0]
NoCycle == [now |-> 0, start |-> 0, prev |-> ZERO_HASH, metrics |-> {}, root |-> {}]

(* int(dt.timestamp()): the chain keeps whole seconds.                      *)
Trunc(t) == t - (t % Second)

(* The rows of a period: start is included, end is not.                     *)
EventsIn(start, end) == {e \in db : start <= e /\ e < end}

(* The totals of a longer period are those of the days that begin in it, as  *)
(* the view shows them once refreshed.                                      *)
DayOf(e) == e - (e % Day)
DaysIn(start, end) == {e \in db : start <= DayOf(e) /\ DayOf(e) < end}

MetricsOf(start, end) ==
  IF end - start > Day THEN DaysIn(start, end) ELSE EventsIn(start, end)

Init ==
  /\ ContractInit
  /\ now = 0 /\ buffered = {} /\ db = {}
  /\ pc = "sleep" /\ cycle = NoCycle /\ count = 0 /\ waiting = 0
  /\ mined = 0 /\ pending = NoTx /\ result = [id |-> 0, ok |-> FALSE]
  /\ sent = 0
  /\ horizon = 0 /\ late = {}

-----------------------------------------------------------------------------
(* The world around the scheduler.                                          *)

Tick ==
  /\ now < MaxTime
  /\ now' = now + 1
  /\ UNCHANGED <<contractVars, buffered, db, poolVars, schedVars, sent, historyVars>>

(* A call is captured now; the writer flushes it later.                     *)
Capture ==
  /\ now \notin buffered \cup db
  /\ Cardinality(buffered \cup db) < MaxEvents
  /\ buffered' = buffered \cup {now}
  /\ UNCHANGED <<contractVars, now, db, poolVars, schedVars, sent, historyVars>>

FlushEvents(S) ==
  /\ S # {}
  /\ db' = db \cup S
  /\ buffered' = buffered \ S
  /\ late' = late \cup {e \in S : e < horizon}
  /\ UNCHANGED <<contractVars, now, poolVars, schedVars, sent, horizon>>

(* The owner changes the provider's role.                                   *)
ChangeRole ==
  /\ \/ GrantAttestor(owner, Provider)
     \/ RevokeAttestor(owner, Provider)
  /\ UNCHANGED <<clockVars, poolVars, schedVars, sent, historyVars>>

(* The node mines the pooled transaction; the contract runs or reverts.     *)
Mine ==
  /\ pending # NoTx
  /\ latestNonce[Org] < MaxNonce
  /\ \/ /\ Attest(Provider, pending.input)
        /\ result' = [id |-> pending.id, ok |-> TRUE]
     \/ /\ ~(Provider \in attestors /\ CanAttest(Ledger, pending.input))
        /\ result' = [id |-> pending.id, ok |-> FALSE]
        /\ UNCHANGED contractVars
  /\ mined' = mined + 1
  /\ pending' = NoTx
  /\ UNCHANGED <<clockVars, schedVars, sent, historyVars>>

-----------------------------------------------------------------------------
(* One cycle of the scheduler.                                              *)

StartCycle ==
  /\ pc = "sleep"
  /\ pc' = "latest"
  /\ cycle' = [NoCycle EXCEPT !.now = now]
  /\ UNCHANGED <<contractVars, clockVars, poolVars, count, waiting, sent, historyVars>>

(* Mutant: the period starts where the last one read by the scheduler ended, *)
(* whether or not its transaction was mined.                                *)
MutPeriodStartFromMemory == horizon

(* The next period starts where the latest record ends.                     *)
PeriodStart == attestations[Org][latestNonce[Org]].end

(* get_latest.                                                              *)
GetLatest ==
  /\ pc = "latest"
  /\ IF latestNonce[Org] > 0
       THEN /\ cycle' = [cycle EXCEPT !.start = PeriodStart,
                                      !.prev = ExpectedPrev(Ledger, Org)]
            /\ pc' = "metrics"
       ELSE /\ pc' = "earliest"
            /\ UNCHANGED cycle
  /\ UNCHANGED <<contractVars, clockVars, poolVars, count, waiting, sent, historyVars>>

(* get_earliest_event_time, for an organisation without a record.           *)
GetEarliest ==
  /\ pc = "earliest"
  /\ db # {}
  /\ cycle' = [cycle EXCEPT !.start = Min(db)]
  /\ horizon' = Max({horizon, Min(db)})
  /\ pc' = "metrics"
  /\ UNCHANGED <<contractVars, clockVars, poolVars, count, waiting, sent, late>>

(* get_attestation_metrics, unless the period is too short.                 *)
ReadMetrics ==
  /\ pc = "metrics"
  /\ cycle.now - cycle.start >= MinPeriod
  /\ cycle' = [cycle EXCEPT !.metrics = MetricsOf(cycle.start, cycle.now)]
  /\ horizon' = Max({horizon, cycle.now})
  /\ pc' = "root"
  /\ UNCHANGED <<contractVars, clockVars, poolVars, count, waiting, sent, late>>

(* get_trace_evaluations: a second query, after another await.              *)
ReadEvaluations ==
  /\ pc = "root"
  /\ cycle' = [cycle EXCEPT !.root = EventsIn(cycle.start, cycle.now)]
  /\ pc' = "count"
  /\ UNCHANGED <<contractVars, clockVars, poolVars, count, waiting, sent, historyVars>>

(* _send_tx under the lock: the transaction count, then the raw transaction. *)
ReadCount ==
  /\ pc = "count"
  /\ count' = mined
  /\ pc' = "send"
  /\ UNCHANGED <<contractVars, clockVars, poolVars, cycle, waiting, sent, historyVars>>

(* The node takes the transaction, replacing a pooled one of the same count  *)
(* if it pays more. The answer may be lost: the provider then raises.       *)
SendTx ==
  /\ pc = "send"
  /\ count = mined
  /\ sent < MaxTx
  /\ sent' = sent + 1
  /\ pending' =
       [id |-> sent', input |->
          [org |-> Org, start |-> Trunc(cycle.start), end |-> Trunc(cycle.now),
           body |-> [metrics |-> cycle.metrics, root |-> cycle.root],
           prev |-> cycle.prev]]
  /\ \/ waiting' = sent' /\ pc' = "wait" /\ UNCHANGED cycle
     \/ pc' = "sleep" /\ cycle' = NoCycle /\ UNCHANGED waiting
  /\ UNCHANGED <<contractVars, clockVars, mined, result, count, historyVars>>

(* The receipt arrives; a reverted transaction raises, with the same end.   *)
Receipt ==
  /\ pc = "wait"
  /\ result.id = waiting
  /\ pc' = "sleep"
  /\ cycle' = NoCycle
  /\ UNCHANGED <<contractVars, clockVars, poolVars, count, waiting, sent, historyVars>>

(* Every other end of a cycle: no event, a period too short, an error of     *)
(* the database or the node, a count too low, an underpriced replacement,   *)
(* the receipt's timeout, a shutdown and a new start of the process.        *)
GiveUp ==
  /\ pc # "sleep"
  /\ pc' = "sleep"
  /\ cycle' = NoCycle
  /\ UNCHANGED <<contractVars, clockVars, poolVars, count, waiting, sent, historyVars>>

Cycle ==
  \/ StartCycle \/ GetLatest \/ GetEarliest \/ ReadMetrics \/ ReadEvaluations
  \/ ReadCount \/ SendTx \/ Receipt \/ GiveUp

Next ==
  \/ Tick
  \/ Capture
  \/ \E S \in SUBSET buffered : FlushEvents(S)
  \/ ChangeRole
  \/ Mine
  \/ Cycle

Spec == Init /\ [][Next]_vars

-----------------------------------------------------------------------------
Nonces == 1 .. latestNonce[Org]
RecordAt(n) == attestations[Org][n]
RootAt(n) == RecordAt(n).body.root
MetricsAt(n) == RecordAt(n).body.metrics

TypeOK ==
  /\ ContractTypeOK
  /\ now \in 0 .. MaxTime
  /\ buffered \subseteq 0 .. MaxTime /\ db \subseteq 0 .. MaxTime
  /\ pc \in {"sleep", "latest", "earliest", "metrics", "root", "count", "send", "wait"}
  /\ count <= mined /\ mined <= sent /\ sent <= MaxTx
  /\ pending # NoTx => pending.id = sent
  /\ late \subseteq db

(* However transactions time out, are replaced, or are mined after the cycle *)
(* gave up on them, no event is attested by two records, but for what the    *)
(* truncation to seconds repeats: a period starts up to a second before the  *)
(* end of the last one, and the events of that second are in both.           *)
RepeatsWithinOneSecond ==
  \A m, n \in Nonces : m < n =>
    \A e \in RootAt(m) \cap RootAt(n) : n = m + 1 /\ Trunc(e) = RecordAt(m).end

(* Failed and late transactions leave no gap: an event older than the end of *)
(* the chain is attested, unless it reached the database after a cycle had   *)
(* read the metrics of its period, or, before the first record, the earliest *)
(* event of the organisation.                                                *)
NoGapExceptLate ==
  \A n \in Nonces : \A e \in db \ late :
    e < RecordAt(n).end => \E m \in Nonces : e \in RootAt(m)

(* The periods the truncated bounds of which show to be of at most a day.    *)
Short(n) == RecordAt(n).end - RecordAt(n).start + Second - 1 <= Day

(* The two queries of one record agree but for events that arrived between   *)
(* them, for periods of up to a day.                                         *)
ShortPeriodsAgree ==
  \A n \in Nonces : Short(n) =>
    MetricsAt(n) \subseteq RootAt(n) /\ RootAt(n) \ MetricsAt(n) \subseteq late

(* Summed by days, the totals miss nothing of the root but late events and   *)
(* the day the period starts within, and hold nothing beyond the root but    *)
(* the rest of the day it ends in. The chain knows both bounds but for slack. *)
OnlyBrokenDays(metrics, root, start, end, slack) ==
  /\ \A e \in root \ metrics : e \in late \/ DayOf(e) < start + slack
  /\ \A e \in metrics \ root : end <= e /\ DayOf(e) < end + slack

(* Of whatever length its period is, the totals of a record differ from the  *)
(* events under its Merkle root by no more than that.                        *)
PeriodsDifferByBrokenDays ==
  \A n \in Nonces :
    OnlyBrokenDays(MetricsAt(n), RootAt(n), RecordAt(n).start, RecordAt(n).end, Second)

MetricsMatchRoot == ShortPeriodsAgree /\ PeriodsDifferByBrokenDays

(* Mutant: the walk stops at the first record that ends with the period.    *)
MutVerifyFindsStopsEarly(start, end) ==
  \E n \in Nonces :
    /\ RecordAt(n).start = start /\ RecordAt(n).end = end
    /\ \A m \in n .. latestNonce[Org] : RecordAt(m).end > end

(* EVMProvider.verify: from the latest nonce down, stopping at the first     *)
(* record that ends before the period starts.                                *)
VerifyFinds(start, end) ==
  \E n \in Nonces :
    /\ RecordAt(n).start = start /\ RecordAt(n).end = end
    /\ \A m \in n .. latestNonce[Org] : RecordAt(m).end >= start

(* "Walk nonces backward to find a record matching the period": an attested  *)
(* period is found.                                                          *)
VerifyFindsAttestedPeriods ==
  \A n \in Nonces : VerifyFinds(RecordAt(n).start, RecordAt(n).end)

(* Whatever becomes of its transactions, the scheduler attests each instant *)
(* once: never twice but for what truncation repeats, and without a gap but *)
(* for events that came late.                                               *)
AttestedOnce == TypeOK /\ RepeatsWithinOneSecond /\ NoGapExceptLate

(* A record stands up to a check. For a period of up to a day its totals are *)
(* those of the events its root names, but for late ones; for a longer one  *)
(* they also lose the first, broken day and gain the rest of the last. And  *)
(* verification finds the record of every attested period.                  *)
RecordsVerify == MetricsMatchRoot /\ VerifyFindsAttestedPeriods
=============================================================================
