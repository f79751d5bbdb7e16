-------------------------- MODULE FeedbackSignals --------------------------
(***************************************************************************)
(* Implicit and explicit feedback (feedback/detector.py, routes/feedback): *)
(* a background task looks for prompts a session repeated soon, to the     *)
(* same model (a retry) or to another (an override). Calls are stored some *)
(* time after they were made; a cycle may fail between its two queries.    *)
(* The module follows one prompt of one session.                           *)
(***************************************************************************)
EXTENDS Integers, Sequences, FiniteSets, SequencesExt

CONSTANTS
    AskedModels, Soon,         \* the models asked; the window of a repetition
    MaxAsked, MaxTime, MaxSignals \* bounds: calls, seconds, explicit signals

VARIABLES
    clock,
    asked,   \* llm_events by created_at: [model, at, stored]
    mark,    \* _last_detection_at
    cycle,   \* the detection cycle: [pc, start, seen], seen: the calls stored at its start
    signals, \* feedback_signals: [event, kind, at]
    failures \* counts the cycles that failed

fbVars == <<clock, asked, mark, cycle, signals, failures>>

FbInit ==
    /\ clock = 1 /\ asked = <<>> /\ mark = 0 /\ signals = <<>> /\ failures = 0
    /\ cycle = [pc |-> "asleep", start |-> 0, seen |-> {}]

FbTick == /\ clock < MaxTime /\ clock' = clock + 1
          /\ UNCHANGED <<asked, mark, cycle, signals, failures>>
Ask(m) ==
    /\ Len(asked) < MaxAsked /\ clock < MaxTime
    /\ asked' = Append(asked, [model |-> m, at |-> clock, stored |-> FALSE])
    /\ clock' = clock + 1
    /\ UNCHANGED <<mark, cycle, signals, failures>>
Store(e) ==
    /\ ~asked[e].stored
    /\ asked' = [asked EXCEPT ![e].stored = TRUE]
    /\ UNCHANGED <<clock, mark, cycle, signals, failures>>

\* The windows of the two queries: what is stored, later than the mark, and of the
\* partition; LAG is the last of it before e.
Partition(kind, e) ==
    {i \in DOMAIN asked : /\ asked[i].stored /\ asked[i].at > mark
                          /\ kind = "retry" => asked[i].model = asked[e].model}
Repeats(kind, e, before) ==
    /\ asked[e].at - asked[before].at < Soon
    /\ kind = "override" => asked[before].model # asked[e].model
Found(kind) ==
    {e \in DOMAIN asked :
        LET earlier == {i \in Partition(kind, e) : i < e}
        IN  /\ e \in Partition(kind, e) /\ earlier # {}
            /\ Repeats(kind, e, CHOOSE i \in earlier : \A j \in earlier : j <= i)}
Insert(kind) ==
    LET new == Found(kind)
    IN  signals' = signals \o [n \in 1..Cardinality(new) |->
            [event |-> CHOOSE e \in new : Cardinality({o \in new : o <= e}) = n,
             kind |-> kind, at |-> cycle.start]]

\* _detect: the time is taken, then each query reads and inserts.
StartCycle ==
    /\ cycle.pc = "asleep" /\ clock > mark
    /\ cycle' = [pc |-> "retries", start |-> clock, seen |-> {e \in DOMAIN asked : asked[e].stored}]
    /\ UNCHANGED <<clock, asked, mark, signals, failures>>
Retries ==
    /\ cycle.pc = "retries" /\ Insert("retry")
    /\ cycle' = [cycle EXCEPT !.pc = "overrides"]
    /\ UNCHANGED <<clock, asked, mark, failures>>
Overrides ==
    /\ cycle.pc = "overrides" /\ Insert("override")
    /\ cycle' = [cycle EXCEPT !.pc = "asleep"]
    /\ mark' = cycle.start
    /\ UNCHANGED <<clock, asked, failures>>
\* The exception leaves the mark where it was.
CycleFails ==
    /\ cycle.pc # "asleep" /\ failures = 0
    /\ cycle' = [cycle EXCEPT !.pc = "asleep"]
    /\ failures' = failures + 1
    /\ UNCHANGED <<clock, asked, mark, signals>>

\* POST /feedback, for an event that is stored.
Rate(e, kind) ==
    /\ asked[e].stored
    /\ Len(SelectSeq(signals, LAMBDA s : s.kind = kind)) < MaxSignals
    /\ signals' = Append(signals, [event |-> e, kind |-> kind, at |-> clock])
    /\ UNCHANGED <<clock, asked, mark, cycle, failures>>

FbNext ==
    \/ FbTick \/ StartCycle \/ Retries \/ Overrides \/ CycleFails
    \/ \E m \in AskedModels : Ask(m)
    \/ \E e \in DOMAIN asked : Store(e) \/ Rate(e, "explicit")

\* An implicit signal is always about a call that repeated another soon, whatever
\* was stored late or in another order, and a retry repeats its own model.
SignalsAreRepeats ==
    \A n \in DOMAIN signals :
        signals[n].kind # "explicit" =>
          \E i \in 1..signals[n].event - 1 : Repeats(signals[n].kind, signals[n].event, i)

\* A cycle that ends has a signal for every retry it could see: both calls made
\* after the mark and stored before the cycle started. (A pair split by the mark,
\* or stored later than the cycle that passed it, is missed.)
VisibleRetriesAreFound ==
    [][mark' # mark =>
         \A i, e \in cycle.seen :
            /\ mark < asked[i].at /\ i < e /\ asked[i].model = asked[e].model
            /\ asked[e].at - asked[i].at < Soon
            => \E n \in DOMAIN signals : signals[n].event = e /\ signals[n].kind = "retry"]_fbVars

\* A call is given the same implicit signal twice only if a cycle failed between
\* its queries, or if the call was made after the cycle that found it had started:
\* the mark goes back to the start, and the conflict clause includes the time.
RepetitionsNeedARace ==
    failures = 0 =>
      \A n, k \in DOMAIN signals :
        /\ n < k /\ signals[n].kind # "explicit"
        /\ signals[n].event = signals[k].event /\ signals[n].kind = signals[k].kind
        => asked[signals[n].event].at >= signals[n].at
=============================================================================
