----------------------------- MODULE Settlement -----------------------------
(***************************************************************************)
(* Workflows and the settlement of revenue. A workflow is run and its cost *)
(* split over its listings (workflows/engine.py, payments.py). The engine  *)
(* of revenue/settlement.py books shares of whatever cost and by whatever  *)
(* rules a request names, with or without a channel manager (channels/     *)
(* manager.py) to pay them through. A settlement never suspends.           *)
(***************************************************************************)
EXTENDS Integers, Sequences, FiniteSets

(* ------------------------------------------------------------------------- *)
(* Workflows (workflows/engine.py, payments.py and their routes): a graph    *)
(* of steps is validated, run level by level, every step of a level at       *)
(* once, and its cost is split over the listings of the steps that ran.      *)

CONSTANTS
    Steps,      \* step identifiers, ordered as sorted() orders them
    StepOrder,
    Definitions,    \* definitions a client sends: functions from steps to their dependencies
    Cost,       \* what an executor charges for a step that succeeds
    Listed,     \* steps the caller maps to a listing
    Dust,       \* MINIMUM_PAYMENT
    MaxSteps

ASSUME CostAssumption == Cost \in [Steps -> Nat] /\ Dust \in Nat \ {0}
\* sorted() lists every step once; a definition names steps.
ASSUME StepsAssumption ==
    /\ IsFiniteSet(Steps) /\ StepOrder \in Seq(Steps)
    /\ \A s \in Steps : \E i \in DOMAIN StepOrder : StepOrder[i] = s
    /\ \A i, j \in DOMAIN StepOrder : StepOrder[i] = StepOrder[j] => i = j
    /\ \A g \in Definitions : DOMAIN g \subseteq Steps

VARIABLES
    graph,     \* the stored definition; <<>> before it is created
    run,       \* the execution: [status, level, completed]
    tasks,     \* steps of the level: "running", "ok" or "raised"
    results    \* the step results of the execution: [step, cost] in order

wfVars == <<graph, run, tasks, results>>

WfInit ==
    /\ graph = <<>>
    /\ run = [status |-> "none", level |-> 0, completed |-> 0]
    /\ tasks = <<>>
    /\ results = <<>>

(* topological_sort: the steps whose dependencies are in earlier levels.     *)
Before(g) ==
    LET before[n \in 0..Cardinality(Steps)] ==
          IF n = 0 THEN {} ELSE {s \in DOMAIN g : g[s] \subseteq before[n - 1]}
    IN  before
Levels(g) == [n \in 1..Cardinality(Steps) |-> Before(g)[n] \ Before(g)[n - 1]]

(* _detect_cycles and the other structural checks of validate_workflow.      *)
Cyclic(g) == \E S \in SUBSET DOMAIN g : S # {} /\ \A s \in S : g[s] \cap S # {}
Valid(g) ==
    /\ DOMAIN g # {} /\ Cardinality(DOMAIN g) <= MaxSteps
    /\ \A s \in DOMAIN g : g[s] \subseteq DOMAIN g
    /\ ~Cyclic(g)

CreateWorkflow(g) ==
    /\ graph = <<>> /\ Valid(g)
    /\ graph' = g
    /\ UNCHANGED <<run, tasks, results>>

StartLevel(n) ==
    /\ run' = [run EXCEPT !.status = "running", !.level = n]
    /\ tasks' = [s \in Levels(graph)[n] |-> "running"]
Execute ==
    /\ run.status = "none" /\ graph # <<>>
    /\ StartLevel(1)
    /\ UNCHANGED <<graph, results>>

StepEnds(s, outcome) ==
    /\ run.status = "running" /\ tasks[s] = "running"
    /\ tasks' = [tasks EXCEPT ![s] = outcome]
    /\ UNCHANGED <<graph, run, results>>

\* The members of a sequence that are in S, and the sum of a sequence of numbers.
Among(q, S) ==
    LET f[n \in 0..Len(q)] ==
          IF n = 0 THEN <<>> ELSE IF q[n] \in S THEN Append(f[n - 1], q[n]) ELSE f[n - 1]
    IN  f[Len(q)]
SumOf(s) == LET f[n \in 0..Len(s)] == IF n = 0 THEN 0 ELSE f[n - 1] + s[n] IN f[Len(s)]

\* gather returned. Results are taken in sorted order up to the first exception;
\* what the steps after it did, and cost, is dropped.
Took(n) ==
    LET inLevel == Among(StepOrder, Levels(graph)[n])
        good == {i \in DOMAIN inLevel : \A j \in 1..i : tasks[inLevel[j]] = "ok"}
    IN  [taken |-> SubSeq(inLevel, 1, Cardinality(good)),
         failed |-> IF Cardinality(good) = Len(inLevel) THEN <<>>
                    ELSE <<inLevel[Cardinality(good) + 1]>>]
Charged(s) == [step |-> s, cost |-> Cost[s]]
Collect ==
    /\ run.status = "running" /\ \A s \in DOMAIN tasks : tasks[s] # "running"
    /\ LET level == Took(run.level)
           taken == [i \in DOMAIN level.taken |-> Charged(level.taken[i])]
           fault == [i \in DOMAIN level.failed |-> [step |-> level.failed[i], cost |-> 0]]
           more == run.level < Cardinality(Steps) /\ Levels(graph)[run.level + 1] # {}
       IN  /\ results' = results \o taken \o fault
           /\ IF fault = <<>> /\ more
              THEN /\ run' = [status |-> "running", level |-> run.level + 1,
                              completed |-> run.completed + Len(taken)]
                   /\ tasks' = [s \in Levels(graph)[run.level + 1] |-> "running"]
              ELSE /\ run' = [run EXCEPT !.status = IF fault # <<>> THEN "failed" ELSE "completed",
                                         !.completed = @ + Len(taken)]
                   /\ UNCHANGED tasks
    /\ UNCHANGED graph

\* asyncio.timeout cancels the level in flight: none of its results is kept.
TimesOut ==
    /\ run.status = "running"
    /\ run' = [run EXCEPT !.status = "failed"]
    /\ UNCHANGED <<graph, tasks, results>>

SumCost(rs) == SumOf([i \in DOMAIN rs |-> rs[i].cost])
(* calculate_splits: steps below the floor give their share to the others.   *)
Splits(rs) ==
    LET worth == {i \in DOMAIN rs : rs[i].step \in Listed /\ rs[i].cost >= Dust}
        eligible == Among(rs, {rs[i] : i \in worth})
    IN  [i \in DOMAIN eligible |->
            [step |-> eligible[i].step,
             amount |-> (SumCost(rs) * eligible[i].cost) \div SumCost(eligible)]]

WfNext ==
    \/ \E g \in Definitions : CreateWorkflow(g)
    \/ Execute
    \/ \E s \in DOMAIN tasks, outcome \in {"ok", "raised"} : StepEnds(s, outcome)
    \/ Collect
    \/ TimesOut

Ended == run.status \in {"completed", "failed"}
\* The event loop resumes a gather that is done and fires timeouts; steps may hang.
WfFairness == WF_wfVars(Collect) /\ WF_wfVars(TimesOut)

\* A workflow reported completed ran every step of its definition, once each, and
\* every step after the steps it depends on: what validation let through is what
\* the sort can order.
CompletedRanAll ==
    run.status = "completed" =>
        /\ {results[i].step : i \in DOMAIN results} = DOMAIN graph
        /\ Len(results) = Cardinality(DOMAIN graph) /\ run.completed = Len(results)
        /\ \A i \in DOMAIN results : \A d \in graph[results[i].step] :
             \E j \in 1..i - 1 : results[j].step = d

\* No step starts before the steps it depends on have succeeded, also when a
\* sibling of theirs failed.
DependenciesSucceeded ==
    \A s \in DOMAIN tasks : \A d \in graph[s] :
        \E i \in DOMAIN results : results[i].step = d /\ results[i].cost = Cost[d]

\* The splits of an ended execution share out its whole cost, but for a unit lost
\* by rounding for each of them, unless every step is below the floor.
SplitsCoverCost ==
    LET splits == Splits(results)
    IN  Ended /\ splits # <<>> =>
          SumOf([i \in DOMAIN splits |-> splits[i].amount])
            \in (SumCost(results) - Len(splits))..SumCost(results)

\* An execution comes to an end, also when a step of any level never answers.
ExecutionEnds == (run.status = "running") ~> Ended

(* ------------------------------------------------------------------------- *)
(* Revenue                                                                   *)

CONSTANTS
    Participants,  \* who may share revenue
    Senders,       \* who opens channels to them
    SplitRules,    \* lists of rules a request may hold: sequences of [to, weight]
    SettledCosts,  \* costs a request may name
    FeePercent, MinSettlement, MinDeposit,
    Deposits,      \* of the channels that are opened
    MaxChannels, MaxSettlements \* bounds: channels opened, settlements

VARIABLES
    managed,     \* whether the engine was given a channel manager
    channels,    \* _channels in the order they were opened: [sender, receiver, deposit, spent, open]
    settlements, \* _settlements: [total, shares: sequence of [to, amount, settled]]
    earnings     \* _earnings

payVars == <<managed, channels, settlements, earnings>>
settleVars == <<wfVars, payVars>>

\* What the types of SplitRule, ProtocolFee and RevenueConfig require.
ASSUME PaymentAssumption ==
    /\ SplitRules \subseteq Seq([to: Participants, weight: Nat]) /\ SettledCosts \subseteq Nat
    /\ FeePercent \in 0..100 /\ MinSettlement \in Nat
    /\ MinDeposit \in Nat /\ Deposits \subseteq Nat

\* The route's engine has no manager (routes/revenue.py); who embeds it may give one.
SettlementInit ==
    /\ WfInit
    /\ managed \in BOOLEAN
    /\ channels = <<>> /\ settlements = <<>>
    /\ earnings = [p \in Participants |-> 0]

(* Users of the channel manager. *)
Channel(from, to, deposit) ==
    [sender |-> from, receiver |-> to, deposit |-> deposit, spent |-> 0, open |-> TRUE]
OpenChannel(from, to, deposit) ==
    /\ managed /\ deposit >= MinDeposit /\ Len(channels) < MaxChannels
    /\ channels' = Append(channels, Channel(from, to, deposit))
    /\ UNCHANGED <<managed, settlements, earnings>>
CloseChannel(i) ==
    /\ channels[i].open
    /\ channels' = [channels EXCEPT ![i].open = FALSE]
    /\ UNCHANGED <<managed, settlements, earnings>>

Round(n, d) == (2 * n + d) \div (2 * d)
\* calculate_shares: the fee first, the rest in proportion to the weights.
Fee(cost) == Round(cost * FeePercent, 100)
TotalWeight(rules) == SumOf([i \in DOMAIN rules |-> rules[i].weight])
CalculateShares(cost, rules) ==
    [i \in DOMAIN rules |->
        [to |-> rules[i].to,
         amount |-> Round((cost - Fee(cost)) * rules[i].weight, TotalWeight(rules))]]

\* _try_channel_payment: the first open channel to the participant that can pay.
\* Without a manager every share counts as paid.
Payable(chans, share) ==
    {i \in DOMAIN chans : /\ chans[i].open /\ chans[i].receiver = share.to
                          /\ chans[i].deposit - chans[i].spent >= share.amount}
First(S) == CHOOSE i \in S : \A j \in S : i <= j
PayShares(chans, shares) ==
    LET step[n \in 0..Len(shares)] ==
          IF n = 0 THEN [chans |-> chans, done |-> <<>>]
          ELSE LET at == step[n - 1].chans
                   by == IF ~managed \/ shares[n].amount = 0 THEN {} ELSE Payable(at, shares[n])
                   paid == ~managed \/ shares[n].amount = 0 \/ by # {}
               IN  [chans |-> IF by = {} THEN at
                              ELSE [at EXCEPT ![First(by)].spent = @ + shares[n].amount],
                    done |-> Append(step[n - 1].done,
                               [to |-> shares[n].to, amount |-> shares[n].amount, settled |-> paid])]
    IN  step[Len(shares)]

\* What a settlement awards to a participant, and what of it was left unpaid.
Awarded(p, shares) ==
    SumOf([i \in DOMAIN shares |-> IF shares[i].to = p THEN shares[i].amount ELSE 0])
Unpaid(p, shares) ==
    SumOf([i \in DOMAIN shares |->
             IF shares[i].to = p /\ ~shares[i].settled THEN shares[i].amount ELSE 0])

\* POST /revenue/settle: any cost and rules, for any execution, as often as requested.
MutSettleEarnsIfPaid(cost, rules) ==
    /\ rules # <<>> /\ TotalWeight(rules) > 0
    /\ cost >= MinSettlement /\ Len(settlements) < MaxSettlements
    /\ LET outcome == PayShares(channels, CalculateShares(cost, rules))
       IN  /\ channels' = outcome.chans
           /\ settlements' = Append(settlements, [total |-> cost, shares |-> outcome.done])
           /\ earnings' = [p \in Participants |->
                             earnings[p] + Awarded(p, outcome.done) - Unpaid(p, outcome.done)]
    /\ UNCHANGED managed
Settle(cost, rules) ==
    /\ rules # <<>> /\ TotalWeight(rules) > 0
    /\ cost >= MinSettlement /\ Len(settlements) < MaxSettlements
    /\ LET outcome == PayShares(channels, CalculateShares(cost, rules))
       IN  /\ channels' = outcome.chans
           /\ settlements' = Append(settlements, [total |-> cost, shares |-> outcome.done])
           /\ earnings' = [p \in Participants |-> earnings[p] + Awarded(p, outcome.done)]
    /\ UNCHANGED managed

SettlementNext ==
    \/ \E from \in Senders, to \in Participants, d \in Deposits : OpenChannel(from, to, d)
    \/ \E i \in DOMAIN channels : CloseChannel(i)
    \/ \E cost \in SettledCosts, rules \in SplitRules : Settle(cost, rules)

\* No channel pays more than its deposit. With a manager, what a participant earned has
\* left the channels to it or is on record as not settled, whichever channels were found,
\* closed and exhausted meanwhile. Without one nothing is paid, although every share is on
\* record as settled.
PaidTo(p) ==
    SumOf([i \in DOMAIN channels |-> IF channels[i].receiver = p THEN channels[i].spent ELSE 0])
EarningsArePaidOrOwed ==
    /\ \A i \in DOMAIN channels : channels[i].spent \in 0..channels[i].deposit
    /\ \A p \in Participants :
         LET owed == SumOf([i \in DOMAIN settlements |-> Unpaid(p, settlements[i].shares)])
         IN  IF managed THEN earnings[p] = PaidTo(p) + owed ELSE PaidTo(p) = 0 /\ owed = 0

\* Shares and fee add up to the cost that was settled, but for half a unit of rounding
\* for each share.
SharesCoverCost ==
    \A i \in DOMAIN settlements :
        LET shares == settlements[i].shares
            off == SumOf([j \in DOMAIN shares |-> shares[j].amount])
                     + Fee(settlements[i].total) - settlements[i].total
        IN  2 * off \in (0 - Len(shares))..Len(shares)

\* A workflow runs every step in the order of its dependencies and its cost is split over
\* its listings, over failures and timeouts; a settlement shares out its cost, and what
\* participants earn agrees with what channels paid and what was left unpaid.
WorkflowsPaid ==
    /\ CompletedRanAll /\ DependenciesSucceeded /\ SplitsCoverCost
    /\ EarningsArePaidOrOwed /\ SharesCoverCost
=============================================================================
