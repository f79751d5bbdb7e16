-------------------------- MODULE ValidationTasks --------------------------
(***************************************************************************)
(* Benchmark validation (validators/consensus.py, economics.py, tasks.py   *)
(* and api/routes/validators.py): validators are drawn for a task, anyone  *)
(* submits a score, and each submission that finds an agreement settles    *)
(* the task again. Scores are integers, doubled so that means are exact.   *)
(***************************************************************************)
EXTENDS ValidatorRegistry, Functions

CONSTANTS
    Strangers,      \* addresses that submit without ever registering
    Scores,         \* even
    Threshold,      \* submissions that must agree
    Tolerance,      \* on either side of the median
    SlashTolerance, \* beyond it a submission is an outlier
    RewardPerTask,  \* what each settlement shares out
    AssignCount

ASSUME ScoreAssumption == Scores \subseteq {s \in Nat : s % 2 = 0}
ASSUME TaskAssumption ==
    /\ IsFiniteSet(Members) /\ RewardPerTask \in Nat \ {0} /\ Threshold \in Nat \ {0}
\* slash_tolerance is fixed, the other a setting that nothing compares with it.
ASSUME ToleranceAssumption == Tolerance \in Nat /\ SlashTolerance \in Nat

VARIABLES
    assigned,   \* _assignments of the task
    submissions \* _submissions of the task: [who, score]

taskVars == <<registryVars, assigned, submissions>>

TasksInit == RegistryInit /\ assigned = {} /\ submissions = <<>>

\* statistics.median, of the submissions s[i] with i in I: a score k submissions do not
\* exceed, the least one, for k in the middle.
Ranked(s, I, k) ==
    LET scores == {s[i].score : i \in I}
    IN  CHOOSE x \in scores :
          /\ Cardinality({i \in I : s[i].score <= x}) >= k
          /\ \A y \in scores : Cardinality({i \in I : s[i].score <= y}) >= k => x <= y
MedianOf(s, I) ==
    LET n == Cardinality(I)
    IN  (Ranked(s, I, (n + 1) \div 2) + Ranked(s, I, n \div 2 + 1)) \div 2
Within(score, center, tolerance) == score - center <= tolerance /\ center - score <= tolerance
Near(s, center) == {i \in DOMAIN s : Within(s[i].score, center, Tolerance)}
Outliers(s, center) ==
    {s[i].who : i \in {j \in DOMAIN s : ~Within(s[j].score, center, SlashTolerance)}}
EqualShare(near) == RewardPerTask \div Cardinality(near)

\* check_consensus: enough submissions near the median of them all.
CheckConsensus(s) ==
    LET near == Near(s, MedianOf(s, DOMAIN s))
    IN  IF Len(s) < Threshold \/ Cardinality(near) < Threshold
        THEN [reached |-> FALSE, agreed |-> 0]
        ELSE [reached |-> TRUE, agreed |-> MedianOf(s, near)]

Reward(info, amount) == [info EXCEPT !.rewards = @ + amount, !.done = @ + 1]
MutSettleTaskTogether(s, agreed) ==
    LET near == Near(s, agreed)
        winners == {s[i].who : i \in near}
    IN  CutAll([a \in Registered |-> IF a \in winners THEN Reward(validators[a], EqualShare(near))
                                    ELSE validators[a]], Outliers(s, agreed))
\* settle_task: rewards in the order of submission, then the outliers are
\* slashed. The first agreeing address that is not registered raises: who came
\* before it keeps the reward, nobody is slashed, and the route swallows it.
SettleTask(s, agreed) ==
    LET near == Near(s, agreed)
        paid == {i \in near : \A j \in near : j <= i => s[j].who \in Registered}
        winners == {s[i].who : i \in paid}
        rewarded == [a \in Registered |->
            IF a \in winners THEN Reward(validators[a], EqualShare(near)) ELSE validators[a]]
    IN  IF paid = near
        THEN [a \in Registered |->
                IF a \in Outliers(s, agreed) /\ Penalty(rewarded[a]) > 0
                THEN [Cut(rewarded[a], Penalty(rewarded[a])) EXCEPT !.done = @ + 1]
                ELSE rewarded[a]]
        ELSE rewarded

\* assign_validators: a draw among the active validators not drawn before.
AssignValidators ==
    /\ \E drawn \in SUBSET (Active \ assigned) :
         /\ Cardinality(drawn) = AssignCount
         /\ assigned' = assigned \cup drawn
    /\ UNCHANGED <<registryVars, submissions>>

MaySubmit(who) == \A i \in DOMAIN submissions : submissions[i].who # who
\* The route: nobody asks whether the address was drawn, or is registered.
SubmitValidation(who, score) ==
    /\ MaySubmit(who)
    /\ submissions' = Append(submissions, [who |-> who, score |-> score])
    /\ LET result == CheckConsensus(submissions') IN
         validators' = IF result.reached THEN SettleTask(submissions', result.agreed) ELSE validators
    /\ UNCHANGED <<departures, assigned>>

TasksNext ==
    \/ \E a \in Members : (Register(a) \/ Deregister(a)) /\ UNCHANGED <<assigned, submissions>>
    \/ AssignValidators
    \/ \E who \in Members \cup Strangers, score \in Scores : SubmitValidation(who, score)

Rewards == [a \in Registered |-> validators[a].rewards]
TotalRewards == SumFunctionOnSet(Rewards, Registered)
\* A settlement shares out one reward at most, and nothing else pays any.
SettlementPaysOneReward == [][TotalRewards' <= TotalRewards + RewardPerTask]_taskVars

\* The reward is not one for the task, as the name of reward_per_task has it: every
\* submission after an agreement settles the task again and pays it again, also to those
\* it was paid to. So much is true: of n submissions at least a threshold less one pay
\* nothing, whoever comes, leaves and registers anew.
RepeatedRewardsBounded ==
    LET settled == Len(submissions) - Threshold + 1
    IN  TotalRewards <= RewardPerTask * (IF settled > 0 THEN settled ELSE 0)

Slashed == {a \in Registered \cap DOMAIN validators' : validators'[a].slashes > validators[a].slashes}
\* A settlement that raises half way pays some and slashes nobody: no validator
\* loses stake while a submission near the agreed score comes from an address
\* that is not registered.
PartialSettlementSpares ==
    [][Slashed # {} =>
         \A i \in Near(submissions', CheckConsensus(submissions').agreed) :
           submissions'[i].who \in Registered]_taskVars

\* Nobody is slashed on the word of fewer than Threshold others that agree with each
\* other, within twice the tolerance. A tolerance that was set to more than half of the
\* fixed slash tolerance may slash one of those who agreed: then one other less is enough,
\* one alone for a threshold of two.
Needed == IF 2 * Tolerance <= SlashTolerance THEN Threshold ELSE Threshold - 1
SlashingNeedsAgreement ==
    [][\A a \in Slashed :
         \E S \in SUBSET DOMAIN submissions' :
           /\ Cardinality(S) >= Needed
           /\ \A i, j \in S : Within(submissions'[i].score, submissions'[j].score, 2 * Tolerance)
           /\ \A i \in S : submissions'[i].who # a]_taskVars

\* What settling a task again and again may do: each settlement pays one reward and no
\* more, so the task one for each submission that can agree; one that fails half way
\* slashes nobody, and only who stands against an agreement of others loses stake.
TasksSettleFairly ==
    /\ []ActiveIffStaked /\ []RepeatedRewardsBounded
    /\ SettlementPaysOneReward /\ PartialSettlementSpares /\ SlashingNeedsAgreement
=============================================================================
