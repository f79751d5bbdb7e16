----------------------------- MODULE Consensus -----------------------------
(***************************************************************************)
(* AgentProofConsensus.sol with the two contracts it is deployed on: it    *)
(* owns the staking contract, whose validators propose and vote, and it is *)
(* an attestor of the registry, to which it writes finalized proposals.    *)
(* The deployer stays owner and attestor of the registry. A call is one    *)
(* step; a call that reverts anywhere changes nothing and is no step.      *)
(***************************************************************************)
EXTENDS Staking, AttestationContract

CONSTANTS
  Self,             \* address(this)
  Others,           \* the accounts that call the registry directly
  Arbiters,         \* who may own this contract and resolve challenges
  InitialArbiter,
  PeriodStarts,     \* the start and the end of the
  PeriodEnds,       \*   periods proposed
  AttestNonces,     \* the nonces proposed
  MinQuorum,        \* minQuorum
  Quorums,          \* the values given to setMinQuorum
  SlashBps,         \* slashPercentBps
  SlashPercents,    \* the values given to setSlashPercentBps
  BondMin,          \* challengeBondMin
  Bonds,            \* the values given to setChallengeBondMin
  PROPOSAL_TTL,     \* in ticks
  MaxProposals,     \* bound on proposals
  MaxChallenges,    \* bound on challenges
  Funding           \* bound on the ETH sent to receive()

SUPERMAJORITY_BPS == 6667

Periods == PeriodStarts \X PeriodEnds

ASSUME ConsensusAssumption ==
  /\ Self \in Accounts \ {InitialOwner}
  /\ Others \subseteq Accounts \ {Self}
  /\ StakingDeployer = Self
  /\ InitialArbiter \in Arbiters
  /\ PeriodStarts \subseteq Times /\ PeriodEnds \subseteq Times
  /\ AttestNonces \subseteq Nat
  /\ MinQuorum \in Nat \ {0} /\ Quorums \subseteq Nat
  /\ SlashBps \in 0 .. 10000 /\ SlashPercents \subseteq Nat
  /\ BondMin \in Nat /\ Bonds \subseteq Nat
  /\ PROPOSAL_TTL \in Nat
  /\ MaxProposals \in Nat /\ MaxChallenges \in Nat /\ Funding \in Nat

VARIABLES
  proposals,   \* proposals, by id
  votes,       \* _voters, _hasVoted and _votedYes: who voted, and how
  slot,        \* proposalByOrgNonce; 0 is none
  challenges,  \* challenges, by id
  active,      \* activeChallengeByProposal; 0 is none
  settings,    \* owner, minQuorum, slashPercentBps and challengeBondMin
  balance,     \* the ETH of this contract
  funded,      \* history: ETH received otherwise than as a bond
  expired      \* history: the proposals expireProposal was called for

consensusVars ==
  <<proposals, votes, slot, challenges, active, settings, balance, funded, expired>>
vars == <<stakingVars, contractVars, consensusVars>>

Ids == 1 .. Len(proposals)

Init ==
  /\ StakingInit
  /\ owner = InitialOwner
  /\ attestors = {InitialOwner, Self}
  /\ latestNonce = [o \in Orgs |-> 0]
  /\ attestations = [o \in Orgs |-> <<>>]
  /\ proposals = <<>> /\ votes = <<>>
  /\ slot = [o \in Orgs |-> [n \in AttestNonces |-> 0]]
  /\ challenges = <<>> /\ active = <<>>
  /\ settings = [owner |-> InitialArbiter, minQuorum |-> MinQuorum,
                 slashPercentBps |-> SlashBps, challengeBondMin |-> BondMin]
  /\ balance = 0 /\ funded = 0
  /\ expired = {}

-----------------------------------------------------------------------------
SlotFree(o, n) == slot[o][n] = 0

(* propose, with the proposer's vote in favour. The stake is the one of the *)
(* moment of the vote.                                                      *)
Propose(v, o, period, body, prev, n) ==
  /\ stakes[v].isValidator
  /\ SlotFree(o, n)
  /\ Len(proposals) < MaxProposals
  /\ proposals' = Append(proposals,
       [org |-> o, start |-> period[1], end |-> period[2], body |-> body,
        prev |-> prev, attestNonce |-> n, createdAt |-> now,
        total |-> stakes[v].amount, yes |-> stakes[v].amount,
        finalized |-> FALSE, slashed |-> FALSE])
  /\ votes' = Append(votes, [u \in {v} |-> TRUE])
  /\ active' = Append(active, 0)
  /\ slot' = [slot EXCEPT ![o][n] = Len(proposals) + 1]
  /\ UNCHANGED <<stakingVars, contractVars, challenges, settings, balance, funded,
                 expired>>

Expired(p) == now > proposals[p].createdAt + PROPOSAL_TTL

Vote(v, p, inFavor) ==
  /\ stakes[v].isValidator
  /\ ~proposals[p].finalized
  /\ ~Expired(p)
  /\ v \notin DOMAIN votes[p]
  /\ votes' = [votes EXCEPT
       ![p] = [u \in DOMAIN votes[p] \cup {v} |-> IF u = v THEN inFavor ELSE votes[p][u]]]
  /\ proposals' = [proposals EXCEPT
       ![p].total = @ + stakes[v].amount,
       ![p].yes = IF inFavor THEN @ + stakes[v].amount ELSE @]
  /\ UNCHANGED <<stakingVars, contractVars, slot, challenges, active, settings,
                 balance, funded, expired>>

(* Mutant: a majority of the stake is enough.                               *)
MutSupermajoritySimple(p) == 2 * proposals[p].yes >= proposals[p].total

Supermajority(p) ==
  proposals[p].yes * 10000 >= proposals[p].total * SUPERMAJORITY_BPS

InputOf(p) ==
  [org |-> proposals[p].org, start |-> proposals[p].start, end |-> proposals[p].end,
   body |-> proposals[p].body, prev |-> proposals[p].prev]

(* Mutant: a record the registry refuses does not revert the call.          *)
MutFinalizeUnrecorded(p) ==
  /\ ~proposals[p].finalized
  /\ Cardinality(DOMAIN votes[p]) >= settings.minQuorum
  /\ Supermajority(p)
  /\ proposals' = [proposals EXCEPT ![p].finalized = TRUE]
  /\ IF CanAttest(Ledger, InputOf(p)) THEN Attest(Self, InputOf(p))
                                      ELSE UNCHANGED contractVars
  /\ UNCHANGED <<stakingVars, votes, slot, challenges, active, settings, balance,
                 funded, expired>>

(* finalize, at any time after the votes, writes through to the registry,   *)
(* which gives the record its own next nonce.                               *)
Finalize(p) ==
  /\ ~proposals[p].finalized
  /\ Cardinality(DOMAIN votes[p]) >= settings.minQuorum
  /\ Supermajority(p)
  /\ proposals' = [proposals EXCEPT ![p].finalized = TRUE]
  /\ Attest(Self, InputOf(p))
  /\ UNCHANGED <<stakingVars, votes, slot, challenges, active, settings, balance,
                 funded, expired>>

NoActiveChallenge(p) == \A c \in {active[p]} \ {0} : challenges[c].resolved

(* Anyone challenges a finalized proposal with a bond and a leaf of its tree. *)
Challenge(p, bond) ==
  /\ proposals[p].finalized /\ ~proposals[p].slashed
  /\ bond >= settings.challengeBondMin
  /\ NoActiveChallenge(p)
  /\ Len(challenges) < MaxChallenges
  /\ challenges' = Append(challenges,
       [proposal |-> p, bond |-> bond, resolved |-> FALSE, won |-> FALSE])
  /\ active' = [active EXCEPT ![p] = Len(challenges) + 1]
  /\ balance' = balance + bond
  /\ UNCHANGED <<stakingVars, contractVars, proposals, votes, slot, settings, funded,
                 expired>>

YesVoters(p) == {v \in DOMAIN votes[p] : votes[p][v]}

SlashAmount(v) == (stakes[v].amount * settings.slashPercentBps) \div 10000

(* Mutant: everyone who voted is slashed.                                   *)
MutToSlashEveryVoter(p) == {v \in DOMAIN votes[p] : SlashAmount(v) > 0}

(* The voters resolveChallenge calls slash for.                             *)
ToSlash(p) == {v \in YesVoters(p) : SlashAmount(v) > 0}

Reward(c) ==
  challenges[c].bond
    + SumFunctionOnSet([v \in Validators |-> SlashAmount(v)],
                       ToSlash(challenges[c].proposal)) \div 2

(* resolveChallenge(c, true): every yes-voter is slashed, the challenger is  *)
(* paid; one slash or the transfer failing reverts the whole call.          *)
ResolveWon(caller, c) ==
  LET p == challenges[c].proposal IN
    /\ caller = settings.owner
    /\ ~challenges[c].resolved
    /\ \A v \in ToSlash(p) : CanSlash(v, SlashAmount(v))
    /\ Reward(c) <= balance
    /\ challenges' = [challenges EXCEPT ![c].resolved = TRUE, ![c].won = TRUE]
    /\ proposals' = [proposals EXCEPT ![p].slashed = TRUE]
    /\ stakes' = [v \in Validators |->
         IF v \in ToSlash(p) THEN AfterSlash(stakes[v], SlashAmount(v))
                             ELSE stakes[v]]
    /\ slashed' = [v \in Validators |->
         IF v \in ToSlash(p) THEN slashed[v] + SlashAmount(v) ELSE slashed[v]]
    /\ balance' = balance - Reward(c)
    /\ UNCHANGED <<stakingOwner, minStake, held, now, deposited, withdrawn, retuned,
                   contractVars, votes, slot, active, settings, funded, expired>>

(* resolveChallenge(c, false): the bond stays here.                         *)
ResolveLost(caller, c) ==
  /\ caller = settings.owner
  /\ ~challenges[c].resolved
  /\ challenges' = [challenges EXCEPT ![c].resolved = TRUE]
  /\ UNCHANGED <<stakingVars, contractVars, proposals, votes, slot, active, settings,
                 balance, funded, expired>>

(* The slot of the proposal's organisation and nonce is freed, whoever is    *)
(* in it; nothing is noted in the proposal.                                 *)
ExpireProposal(p) ==
  /\ ~proposals[p].finalized
  /\ Expired(p)
  /\ slot' = [slot EXCEPT ![proposals[p].org][proposals[p].attestNonce] = 0]
  /\ expired' = expired \cup {p}
  /\ UNCHANGED <<stakingVars, contractVars, proposals, votes, challenges, active,
                 settings, balance, funded>>

(* The setters, and transferOwnership, which only the owner may call.        *)
Configure(to) ==
  /\ settings' = to
  /\ UNCHANGED <<stakingVars, contractVars, proposals, votes, slot, challenges, active,
                 balance, funded, expired>>

SetMinQuorum(q) == q # 0 /\ Configure([settings EXCEPT !.minQuorum = q])

SetSlashPercentBps(bps) ==
  bps <= 10000 /\ Configure([settings EXCEPT !.slashPercentBps = bps])

SetChallengeBondMin(bond) == Configure([settings EXCEPT !.challengeBondMin = bond])

TransferConsensusOwnership(a) == Configure([settings EXCEPT !.owner = a])

Receive(a) ==
  /\ a > 0
  /\ funded + a <= Funding
  /\ funded' = funded + a
  /\ balance' = balance + a
  /\ UNCHANGED <<stakingVars, contractVars, proposals, votes, slot, challenges, active,
                 settings, expired>>

-----------------------------------------------------------------------------
Proposing ==
  \E v \in Validators, o \in Orgs, period \in Periods, body \in Bodies,
     prev \in Hashes, n \in AttestNonces : Propose(v, o, period, body, prev, n)

Judging ==
  \E p \in Ids :
    \/ \E v \in Validators, inFavor \in BOOLEAN : Vote(v, p, inFavor)
    \/ Finalize(p)
    \/ ExpireProposal(p)
    \/ \E bond \in Amounts : Challenge(p, bond)

Owning(caller) ==
  \/ \E c \in 1 .. Len(challenges) : ResolveWon(caller, c) \/ ResolveLost(caller, c)
  \/ /\ caller = settings.owner
     /\ \/ \E q \in Quorums : SetMinQuorum(q)
        \/ \E bps \in SlashPercents : SetSlashPercentBps(bps)
        \/ \E bond \in Bonds : SetChallengeBondMin(bond)
        \/ \E a \in Arbiters : TransferConsensusOwnership(a)

(* The registry keeps its owner and its other attestors, who may also take    *)
(* this contract's role away; validators move their stake.                   *)
Elsewhere ==
  \/ /\ Tick \/ ValidatorStep
     /\ UNCHANGED <<contractVars, consensusVars>>
  \/ /\ \E caller \in Others : CallRegistry(caller)
     /\ UNCHANGED <<stakingVars, consensusVars>>

Next ==
  \/ Proposing
  \/ Judging
  \/ Elsewhere
  \/ \E caller \in Arbiters : Owning(caller)
  \/ \E a \in Amounts : Receive(a)

Spec == Init /\ [][Next]_vars

-----------------------------------------------------------------------------
TypeOK ==
  /\ StakingTypeOK
  /\ \A p \in Ids : proposals[p].yes \in 0 .. proposals[p].total
  /\ Len(votes) = Len(proposals) /\ Len(active) = Len(proposals)
  /\ \A p \in Ids : active[p] \in 0 .. Len(challenges)
  /\ \A c \in 1 .. Len(challenges) : challenges[c].proposal \in Ids
  /\ slot \in [Orgs -> [AttestNonces -> 0 .. Len(proposals)]]
  /\ settings.owner \in Arbiters
  /\ settings.minQuorum # 0 /\ settings.slashPercentBps <= 10000

(* What is finalized stays backed by two thirds of the stake that took part, *)
(* whatever happened to stakes, quorum and votes since.                      *)
FinalizedBySupermajority ==
  \A p \in Ids : proposals[p].finalized =>
    /\ 3 * proposals[p].yes >= 2 * proposals[p].total
    /\ YesVoters(p) # {}

(* The record a proposal describes, wherever the registry put it.            *)
RecordedAt(p) ==
  {n \in 1 .. latestNonce[proposals[p].org] :
     Record(InputOf(p), n) = attestations[proposals[p].org][n]}

(* Every finalized proposal is in the registry, and no two of an             *)
(* organisation are the same record, although proposals for one nonce        *)
(* compete and the deployer attests as well.                                 *)
FinalizedIsRecordedOnce ==
  \A p \in Ids : proposals[p].finalized =>
    /\ RecordedAt(p) # {}
    /\ \A q \in Ids \ {p} :
         proposals[q].finalized /\ proposals[q].org = proposals[p].org
           => RecordedAt(p) \cap RecordedAt(q) = {}

(* The voters of a proposal are slashed at most once: challenges of the same *)
(* proposal follow each other, and none survives the one that won.           *)
SlashedAtMostOnce ==
  \A c, d \in 1 .. Len(challenges) :
    /\ c # d
    /\ challenges[c].proposal = challenges[d].proposal
    /\ challenges[c].won
    => challenges[d].resolved /\ ~challenges[d].won

(* Only a validator that voted for a proposal loses stake by a challenge.    *)
OnlyYesVotersSlashed ==
  [][\A v \in Validators : slashed'[v] > slashed[v] =>
       \E p \in Ids : v \in YesVoters(p) /\ ~proposals[p].slashed /\ proposals'[p].slashed]_vars

(* A proposal can still be voted on, or finalized within its time.           *)
Open(p) == ~proposals[p].finalized /\ ~Expired(p)

(* "One active proposal per (orgIdHash, nonce)" holds until a proposal is     *)
(* expired a second time: two open proposals of one slot need one that was    *)
(* expired before them.                                                      *)
CompetitionNeedsExpiry ==
  \A p, q \in Ids :
    /\ p < q /\ Open(p) /\ Open(q)
    /\ proposals[p].org = proposals[q].org
    /\ proposals[p].attestNonce = proposals[q].attestNonce
    => \E e \in expired : /\ e < p
                          /\ proposals[e].org = proposals[p].org
                          /\ proposals[e].attestNonce = proposals[p].attestNonce

Unresolved == {c \in 1 .. Len(challenges) : ~challenges[c].resolved}

(* "If challenger wins: slash all yes-voters, return bond + 50% of slash":   *)
(* an unresolved challenge can be paid if it is won.                         *)
WinCanBePaid == \A c \in Unresolved : Reward(c) <= balance

(* Stakes and slashes are conserved through consensus too, and the bonds     *)
(* cover what is paid to challengers.                                       *)
ConsensusSolvent == Solvent /\ EveryWeiAccounted /\ balance \in Nat

(* Slashing is sound: over challenges that follow each other only voters for *)
(* a slashed proposal lose stake, once, and both contracts can still pay what *)
(* they hold for others.                                                    *)
SlashingSound == []SlashedAtMostOnce /\ []ConsensusSolvent /\ OnlyYesVotersSlashed

(* A slot is decided once: a finalized proposal is the one recorded, and two *)
(* proposals of one slot are open only after one was expired again.         *)
SlotsSound == TypeOK /\ FinalizedIsRecordedOnce /\ CompetitionNeedsExpiry
=============================================================================
