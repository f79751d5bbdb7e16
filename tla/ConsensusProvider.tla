------------------------- MODULE ConsensusProvider -------------------------
(***************************************************************************)
(* Attestations by proposal and vote (attestation/consensus_provider.py).  *)
(* A proposal is known by its nonce: the slot of an organisation and nonce *)
(* is taken once and for ever. finalize_proposal waits for the inner       *)
(* provider, so votes and another finalization come in between.            *)
(***************************************************************************)
EXTENDS ValidatorRegistry

CONSTANTS
    Nonces,       \* of the records of one organisation
    MinQuorum,    \* min_quorum
    MaxFlights,   \* bound: finalizations at once
    MaxChallenges \* bound: challenges filed

ASSUME ProposalsAssumption == MaxChallenges \in Nat

VARIABLES
    proposals,  \* nonce -> [votes: the voters in order with stake and choice, status]
    flights,    \* finalizations waiting for the inner provider: [id, nonce, pc]
    inner,      \* nonces the inner provider recorded, in order
    challenges  \* challenges in order: [nonce, status]

proposalVars == <<registryVars, proposals, flights, inner, challenges>>

ProposalsInit ==
    /\ RegistryInit
    /\ proposals = <<>> /\ flights = {} /\ inner = <<>> /\ challenges = <<>>

Ballot(a, yes) == [who |-> a, stake |-> validators[a].stake, yes |-> yes]

StakeOf(votes, choices) ==
    LET f[n \in 0..Len(votes)] ==
          IF n = 0 THEN 0 ELSE f[n - 1] + IF votes[n].yes \in choices THEN votes[n].stake ELSE 0
    IN  f[Len(votes)]
\* Two thirds of the participating stake and enough voters.
Passes(votes) ==
    /\ Len(votes) >= MinQuorum
    /\ 3 * StakeOf(votes, {TRUE}) >= 2 * StakeOf(votes, BOOLEAN)
    /\ StakeOf(votes, BOOLEAN) > 0

CreateProposal(a, n) ==
    /\ a \in Active /\ n \notin DOMAIN proposals
    /\ proposals' = [m \in DOMAIN proposals \cup {n} |->
          IF m = n THEN [votes |-> <<Ballot(a, TRUE)>>, status |-> "pending"] ELSE proposals[m]]
    /\ UNCHANGED <<registryVars, flights, inner, challenges>>

Vote(a, n, yes) ==
    /\ n \in DOMAIN proposals /\ proposals[n].status = "pending" /\ a \in Active
    /\ \A i \in DOMAIN proposals[n].votes : proposals[n].votes[i].who # a
    /\ proposals' = [proposals EXCEPT ![n].votes = Append(@, Ballot(a, yes))]
    /\ UNCHANGED <<registryVars, flights, inner, challenges>>

\* finalize_proposal up to the await.
Finalize(n) ==
    /\ n \in DOMAIN proposals /\ proposals[n].status = "pending"
    /\ Passes(proposals[n].votes)
    /\ \E id \in 1..MaxFlights :
         /\ \A f \in flights : f.id # id
         /\ flights' = flights \cup {[id |-> id, nonce |-> n, pc |-> "sent"]}
    /\ UNCHANGED <<registryVars, proposals, inner, challenges>>

\* The inner provider takes the next nonce only.
MutInnerAcceptsAny(n) == TRUE
InnerAccepts(n) == n = Len(inner) + 1
InnerWrites(f) ==
    /\ f.pc = "sent" /\ InnerAccepts(f.nonce)
    /\ inner' = Append(inner, f.nonce)
    /\ flights' = (flights \ {f}) \cup {[f EXCEPT !.pc = "written"]}
    /\ UNCHANGED <<registryVars, proposals, challenges>>
\* It refuses or is out of reach, or the answer to a write is lost.
SubmitRaises(f) ==
    /\ flights' = flights \ {f}
    /\ UNCHANGED <<registryVars, proposals, inner, challenges>>
\* After the await.
Finalized(f) ==
    /\ f.pc = "written"
    /\ proposals' = [proposals EXCEPT ![f.nonce].status = "finalized"]
    /\ flights' = flights \ {f}
    /\ UNCHANGED <<registryVars, inner, challenges>>

Challenge(n) ==
    /\ n \in DOMAIN proposals /\ proposals[n].status = "finalized"
    /\ Len(challenges) < MaxChallenges
    /\ challenges' = Append(challenges, [nonce |-> n, status |-> "pending"])
    /\ UNCHANGED <<registryVars, proposals, flights, inner>>

YesVoters(n) == LET votes == proposals[n].votes
                IN  {votes[i].who : i \in {j \in DOMAIN votes : votes[j].yes}}
\* The challenger wins: every yes-voter still registered loses a share of its
\* stake, once more for each challenge of the same proposal.
ResolveChallenge(c, wins) ==
    /\ challenges[c].status = "pending"
    /\ challenges' = [challenges EXCEPT ![c].status = IF wins THEN "won" ELSE "lost"]
    /\ validators' = IF wins THEN CutAll(validators, YesVoters(challenges[c].nonce)) ELSE validators
    /\ proposals' = IF wins THEN [proposals EXCEPT ![challenges[c].nonce].status = "slashed"]
                    ELSE proposals
    /\ UNCHANGED <<departures, flights, inner>>

ProposalsNext ==
    \/ \E a \in Members : (Register(a) \/ Deregister(a))
                             /\ UNCHANGED <<proposals, flights, inner, challenges>>
    \/ \E n \in Nonces :
         \/ \E a \in Members : CreateProposal(a, n) \/ \E yes \in BOOLEAN : Vote(a, n, yes)
         \/ Finalize(n)
         \/ Challenge(n)
    \/ \E f \in flights : InnerWrites(f) \/ SubmitRaises(f) \/ Finalized(f)
    \/ \E c \in DOMAIN challenges, wins \in BOOLEAN : ResolveChallenge(c, wins)

\* A finalized proposal had the quorum and two thirds of the stake at some moment,
\* though votes that came while it was written may have taken them away.
FinalizedHadSupermajority ==
    \A n \in DOMAIN proposals :
      proposals[n].status # "pending" =>
        \E k \in DOMAIN proposals[n].votes : Passes(SubSeq(proposals[n].votes, 1, k))

\* A finalized proposal is recorded once by the inner provider, in the order of
\* the nonces, however many finalizations raced for it.
FinalizedIsRecorded ==
    /\ \A n \in DOMAIN proposals :
         proposals[n].status # "pending" => \E i \in DOMAIN inner : inner[i] = n
    /\ \A i \in DOMAIN inner : inner[i] = i

\* What a challenge overturned stays overturned: a finalization that was under way
\* when the challenge was won does not bring the proposal back.
WonMeansSlashed ==
    \A c \in DOMAIN challenges :
        challenges[c].status = "won" => proposals[challenges[c].nonce].status = "slashed"

\* A validator that never left was slashed at most once for each challenge won
\* against a proposal it voted for.
SlashesMatchChallenges ==
    departures = 0 =>
      \A a \in Registered :
        LET won == {c \in DOMAIN challenges :
                      challenges[c].status = "won" /\ a \in YesVoters(challenges[c].nonce)}
            f[k \in 0..MaxChallenges] ==
              IF k = 0 THEN Deposit[a] ELSE f[k - 1] - (f[k - 1] * SlashPercent) \div 100
        IN  validators[a].stake = f[Cardinality(won)]
=============================================================================
