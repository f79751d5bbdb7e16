----------------------------- MODULE Governance -----------------------------
(***************************************************************************)
(* Token-weighted governance (governance/engine.py and its routes).        *)
(* Nothing watches the deadline: reading a proposal's detail tallies it,   *)
(* and a quorum decides it at the first such read, also before the end.    *)
(* Proposals do not interact; the module follows one.                      *)
(***************************************************************************)
EXTENDS Integers, Sequences, FiniteSets

CONSTANTS
    Voters,
    Weights,   \* token balances a request may claim
    ProposalThreshold, \* proposal_threshold
    Quorums    \* thresholds int(total_supply * quorum_pct / 100) may give, 0 included

ASSUME GovernanceAssumption == Weights \subseteq Nat /\ Quorums \subseteq Nat

VARIABLES
    quorum,   \* votes needed
    ballot,   \* the proposal: [status, yes, no] with its running tallies
    votes,    \* _votes: [voter, yes, weight] in order
    expired   \* voting_deadline has passed

govVars == <<quorum, ballot, votes, expired>>

GovInit ==
    /\ quorum \in Quorums
    /\ ballot = [status |-> "none", yes |-> 0, no |-> 0]
    /\ votes = <<>>
    /\ expired = FALSE

Propose(balance) ==
    /\ ballot.status = "none" /\ balance >= ProposalThreshold
    /\ ballot' = [ballot EXCEPT !.status = "active"]
    /\ UNCHANGED <<quorum, votes, expired>>

MayVote(voter) ==
    /\ ballot.status = "active" /\ ~expired
    /\ \A i \in DOMAIN votes : votes[i].voter # voter
CastVote(voter, yes, weight) ==
    /\ ballot.status # "none" /\ MayVote(voter)
    /\ votes' = Append(votes, [voter |-> voter, yes |-> yes, weight |-> weight])
    /\ ballot' = IF yes THEN [ballot EXCEPT !.yes = @ + weight]
                 ELSE [ballot EXCEPT !.no = @ + weight]
    /\ UNCHANGED <<quorum, expired>>

\* tally: nothing but a read of the proposal calls it.
Tally ==
    /\ ballot.status = "active"
    /\ \/ /\ ballot.yes + ballot.no >= quorum
          /\ ballot' = [ballot EXCEPT !.status = IF ballot.yes > ballot.no THEN "passed" ELSE "rejected"]
       \/ /\ ballot.yes + ballot.no < quorum /\ expired
          /\ ballot' = [ballot EXCEPT !.status = "rejected"]
    /\ UNCHANGED <<quorum, votes, expired>>
GetProposalDetail == Tally

DeadlinePasses ==
    /\ ballot.status # "none" /\ ~expired
    /\ expired' = TRUE
    /\ UNCHANGED <<quorum, ballot, votes>>

GovNext ==
    \/ \E w \in Weights : Propose(w)
    \/ \E v \in Voters, yes \in BOOLEAN, w \in Weights : CastVote(v, yes, w)
    \/ GetProposalDetail
    \/ DeadlinePasses

WeightOf(choice) ==
    LET f[n \in 0..Len(votes)] ==
          IF n = 0 THEN 0 ELSE f[n - 1] + IF votes[n].yes = choice THEN votes[n].weight ELSE 0
    IN  f[Len(votes)]

\* The verdict of a decided proposal is explained, then and for ever, by the votes
\* on record: no vote that comes after the tally moves the numbers under it.
VerdictFitsVotes ==
    /\ ballot.status = "passed" =>
         WeightOf(TRUE) + WeightOf(FALSE) >= quorum /\ WeightOf(TRUE) > WeightOf(FALSE)
    /\ ballot.status = "rejected" =>
         \/ WeightOf(TRUE) + WeightOf(FALSE) >= quorum /\ WeightOf(TRUE) <= WeightOf(FALSE)
         \/ WeightOf(TRUE) + WeightOf(FALSE) < quorum /\ expired

\* The running tallies count every voter once, in whatever order votes, reads and
\* the deadline come.
TalliesCountVotersOnce ==
    /\ ballot.yes = WeightOf(TRUE) /\ ballot.no = WeightOf(FALSE)
    /\ \A i, j \in DOMAIN votes : votes[i].voter = votes[j].voter => i = j
=============================================================================
