-------------------------- MODULE ConsensusProofs --------------------------
(***************************************************************************)
(* What the staking contract guarantees by itself, what it and the         *)
(* consensus contract guarantee together, and that the registry under them *)
(* stays an append-only chain: for any number of validators, proposals,    *)
(* challenges, organisations and other attestors, any amounts and times.   *)
(* What is claimed of a validator is about its own stake, so that a call   *)
(* is looked at for the validator it is about.                             *)
(***************************************************************************)
EXTENDS Consensus, SequenceTheorems, Sums

USE StakingAssumption

(* The three invariants, for one validator.                                 *)
Accounted(v) == stakes[v].amount + withdrawn[v] + slashed[v] = deposited[v]
Ranked(v) == ~retuned => (stakes[v].isValidator <=> stakes[v].amount >= minStake)
Covered(v) == slashed[v] = 0 => stakes[v].unstake <= stakes[v].amount

ValidatorInv(v) == Accounted(v) /\ Ranked(v) /\ Covered(v)

Inv == StakingTypeOK /\ \A v \in Validators : ValidatorInv(v)

(* A call about one validator leaves the others alone.                      *)
LEMMA OneStake ==
  ASSUME Inv, NEW v \in Validators, NEW s \in ValidatorStake,
         stakes' = [stakes EXCEPT ![v] = s],
         deposited' \in [Validators -> Nat], withdrawn' \in [Validators -> Nat],
         slashed' \in [Validators -> Nat], held' \in Nat,
         \A u \in Validators \ {v} : /\ deposited'[u] = deposited[u]
                                     /\ withdrawn'[u] = withdrawn[u]
                                     /\ slashed'[u] = slashed[u],
         UNCHANGED <<stakingOwner, minStake, now, retuned>>,
         Accounted(v)', Ranked(v)', Covered(v)'
  PROVE  Inv'
<1>1. StakingTypeOK'
  BY DEF Inv, StakingTypeOK
<1>2. ASSUME NEW u \in Validators, u # v PROVE ValidatorInv(u)'
  <2>1. /\ stakes'[u] = stakes[u] /\ deposited'[u] = deposited[u]
        /\ withdrawn'[u] = withdrawn[u] /\ slashed'[u] = slashed[u]
    BY <1>2 DEF Inv, StakingTypeOK
  <2>2. Accounted(u) /\ Ranked(u) /\ Covered(u)
    BY DEF Inv, ValidatorInv
  <2>3. Accounted(u)' /\ Covered(u)'
    BY <2>1, <2>2 DEF Accounted, Covered
  <2>4. Ranked(u)'
    BY <2>1, <2>2 DEF Ranked
  <2> QED BY <2>3, <2>4 DEF ValidatorInv
<1> QED BY <1>1, <1>2 DEF Inv, ValidatorInv

(* What is known of a validator before a call about it.                     *)
LEMMA Before ==
  ASSUME Inv, NEW v \in Validators
  PROVE  /\ stakes[v] \in ValidatorStake
         /\ stakes[v].amount \in Nat /\ stakes[v].unstake \in Nat
         /\ stakes[v].requestedAt \in Nat /\ stakes[v].isValidator \in BOOLEAN
         /\ deposited[v] \in Nat /\ withdrawn[v] \in Nat /\ slashed[v] \in Nat
         /\ minStake \in Nat /\ held \in Nat /\ now \in Nat
         /\ Accounted(v) /\ Ranked(v) /\ Covered(v)
<1>1. stakes[v] \in ValidatorStake
  BY DEF Inv, StakingTypeOK
<1>2. /\ stakes[v].amount \in Nat /\ stakes[v].unstake \in Nat
      /\ stakes[v].requestedAt \in Nat /\ stakes[v].isValidator \in BOOLEAN
  BY <1>1 DEF ValidatorStake
<1> QED BY <1>1, <1>2 DEF Inv, StakingTypeOK, ValidatorInv

-----------------------------------------------------------------------------
LEMMA StakeInv ==
  ASSUME Inv, NEW v \in Validators, NEW a \in Amounts, Stake(v, a)
  PROVE  Inv'
<1> USE DEF Stake
<1> DEFINE old == stakes[v]
<1>1. PICK rank \in BOOLEAN : rank = (old.isValidator \/ old.amount + a >= minStake)
  OBVIOUS
<1>2. PICK s : s = [old EXCEPT !.amount = old.amount + a, !.isValidator = rank]
  OBVIOUS
<1>3. stakes' = [stakes EXCEPT ![v] = s]
  BY <1>1, <1>2
<1>4. a \in Nat
  OBVIOUS
<1>5. /\ s \in ValidatorStake /\ s.amount = old.amount + a
      /\ s.unstake = old.unstake /\ s.isValidator = rank
  <2>1. s = [amount |-> old.amount + a, requestedAt |-> old.requestedAt,
             unstake |-> old.unstake, isValidator |-> rank]
    BY <1>2, Before DEF ValidatorStake
  <2> QED BY <1>1, <1>4, <2>1, Before DEF ValidatorStake
<1>6. /\ stakes'[v] = s
      /\ deposited'[v] = deposited[v] + a
      /\ withdrawn'[v] = withdrawn[v] /\ slashed'[v] = slashed[v]
      /\ minStake' = minStake /\ retuned' = retuned
  BY <1>3 DEF Inv, StakingTypeOK
<1>7. Accounted(v)' /\ Covered(v)'
  BY <1>4, <1>5, <1>6, Before DEF Accounted, Covered
<1>8. Ranked(v)'
  <2>1. CASE old.isValidator
    BY <1>1, <1>4, <1>5, <1>6, <2>1, Before DEF Ranked
  <2>2. CASE ~old.isValidator
    BY <1>1, <1>4, <1>5, <1>6, <2>2, Before DEF Ranked
  <2> QED BY <2>1, <2>2
<1>9. /\ deposited' \in [Validators -> Nat] /\ held' \in Nat
      /\ withdrawn' \in [Validators -> Nat] /\ slashed' \in [Validators -> Nat]
      /\ \A u \in Validators \ {v} : deposited'[u] = deposited[u]
  BY <1>4, Before DEF Inv, StakingTypeOK
<1> QED BY <1>3, <1>5, <1>7, <1>8, <1>9, OneStake

LEMMA RequestUnstakeInv ==
  ASSUME Inv, NEW v \in Validators, NEW a \in Amounts, RequestUnstake(v, a)
  PROVE  Inv'
<1> USE DEF RequestUnstake, ledgerVars
<1> DEFINE old == stakes[v]
<1>1. PICK s : s = [old EXCEPT !.requestedAt = now, !.unstake = a]
  OBVIOUS
<1>2. stakes' = [stakes EXCEPT ![v] = s]
  BY <1>1
<1>3. a \in Nat
  OBVIOUS
<1>4. /\ s \in ValidatorStake /\ s.amount = old.amount
      /\ s.unstake = a /\ s.isValidator = old.isValidator
  <2>1. s = [amount |-> old.amount, requestedAt |-> now,
             unstake |-> a, isValidator |-> old.isValidator]
    BY <1>1, Before DEF ValidatorStake
  <2> QED BY <1>3, <2>1, Before DEF ValidatorStake
<1>5. stakes'[v] = s
  BY <1>2 DEF Inv, StakingTypeOK
<1>6. Accounted(v)' /\ Covered(v)'
  BY <1>3, <1>4, <1>5, Before DEF Accounted, Covered
<1>7. Ranked(v)'
  BY <1>4, <1>5, Before DEF Ranked
<1>8. /\ deposited' \in [Validators -> Nat] /\ held' \in Nat
      /\ withdrawn' \in [Validators -> Nat] /\ slashed' \in [Validators -> Nat]
  BY DEF Inv, StakingTypeOK
<1> QED BY <1>2, <1>4, <1>6, <1>7, <1>8, OneStake

LEMMA WithdrawInv ==
  ASSUME Inv, NEW v \in Validators, Withdraw(v)
  PROVE  Inv'
<1> USE DEF Withdraw
<1> DEFINE old == stakes[v]
<1>1. PICK rank \in BOOLEAN : rank = (old.isValidator /\ old.amount - old.unstake >= minStake)
  OBVIOUS
<1>2. PICK s : s = [old EXCEPT !.amount = old.amount - old.unstake, !.requestedAt = 0,
                               !.unstake = 0, !.isValidator = rank]
  OBVIOUS
<1>3. stakes' = [stakes EXCEPT ![v] = s]
  BY <1>1, <1>2 DEF Withdrawn
<1>4. old.amount - old.unstake \in Nat
  BY Before
<1>5. /\ s \in ValidatorStake /\ s.amount = old.amount - old.unstake
      /\ s.unstake = 0 /\ s.isValidator = rank
  <2>1. s = [amount |-> old.amount - old.unstake, requestedAt |-> 0,
             unstake |-> 0, isValidator |-> rank]
    BY <1>2, Before DEF ValidatorStake
  <2> QED BY <1>1, <1>4, <2>1 DEF ValidatorStake
<1>6. /\ stakes'[v] = s
      /\ withdrawn'[v] = withdrawn[v] + old.unstake
      /\ deposited'[v] = deposited[v] /\ slashed'[v] = slashed[v]
      /\ minStake' = minStake /\ retuned' = retuned
  BY <1>3 DEF Inv, StakingTypeOK
<1>7. Accounted(v)' /\ Covered(v)'
  BY <1>4, <1>5, <1>6, Before DEF Accounted, Covered
<1>8. Ranked(v)'
  <2>1. CASE old.isValidator
    BY <1>1, <1>4, <1>5, <1>6, <2>1, Before DEF Ranked
  <2>2. CASE ~old.isValidator
    BY <1>1, <1>4, <1>5, <1>6, <2>2, Before DEF Ranked
  <2> QED BY <2>1, <2>2
<1>9. /\ deposited' \in [Validators -> Nat] /\ held' \in Nat
      /\ withdrawn' \in [Validators -> Nat] /\ slashed' \in [Validators -> Nat]
      /\ \A u \in Validators \ {v} : withdrawn'[u] = withdrawn[u]
  BY Before DEF Inv, StakingTypeOK
<1> QED BY <1>3, <1>5, <1>7, <1>8, <1>9, OneStake

LEMMA SlashInv ==
  ASSUME Inv, NEW caller, NEW v \in Validators, NEW a \in Nat, Slash(caller, v, a)
  PROVE  Inv'
<1> USE DEF Slash
<1> DEFINE old == stakes[v]
<1>1. PICK cut : cut = SlashedBy(old, a)
  OBVIOUS
<1>2. PICK rank \in BOOLEAN : rank = (old.isValidator /\ old.amount - cut >= minStake)
  OBVIOUS
<1>3. PICK s : s = [old EXCEPT !.amount = old.amount - cut, !.isValidator = rank]
  OBVIOUS
<1>4. stakes' = [stakes EXCEPT ![v] = s]
  BY <1>1, <1>2, <1>3 DEF AfterSlash
<1>5. /\ cut \in Nat /\ old.amount - cut \in Nat
      /\ cut = 0 => old.amount = 0 /\ a > 0
  BY <1>1, Before DEF SlashedBy, CanSlash
<1>6. /\ s \in ValidatorStake /\ s.amount = old.amount - cut
      /\ s.unstake = old.unstake /\ s.isValidator = rank
  <2>1. s = [amount |-> old.amount - cut, requestedAt |-> old.requestedAt,
             unstake |-> old.unstake, isValidator |-> rank]
    BY <1>3, Before DEF ValidatorStake
  <2> QED BY <1>2, <1>5, <2>1, Before DEF ValidatorStake
<1>7. /\ stakes'[v] = s
      /\ slashed'[v] = slashed[v] + cut
      /\ deposited'[v] = deposited[v] /\ withdrawn'[v] = withdrawn[v]
      /\ minStake' = minStake /\ retuned' = retuned
  BY <1>1, <1>4 DEF Inv, StakingTypeOK
<1>8. Accounted(v)' /\ Covered(v)'
  <2>1. Accounted(v)'
    BY <1>5, <1>6, <1>7, Before DEF Accounted
  <2>2. Covered(v)'
    <3> SUFFICES ASSUME slashed'[v] = 0 PROVE s.unstake <= s.amount
      BY <1>7 DEF Covered
    <3>1. slashed[v] = 0 /\ cut = 0
      BY <1>5, <1>7, Before
    <3> QED BY <1>6, <3>1, Before DEF Covered
  <2> QED BY <2>1, <2>2
<1>9. Ranked(v)'
  <2>1. CASE old.isValidator
    BY <1>2, <1>5, <1>6, <1>7, <2>1, Before DEF Ranked
  <2>2. CASE ~old.isValidator
    BY <1>2, <1>5, <1>6, <1>7, <2>2, Before DEF Ranked
  <2> QED BY <2>1, <2>2
<1>10. /\ deposited' \in [Validators -> Nat] /\ held' \in Nat
       /\ withdrawn' \in [Validators -> Nat] /\ slashed' \in [Validators -> Nat]
       /\ \A u \in Validators \ {v} : slashed'[u] = slashed[u]
  BY <1>1, <1>5, Before DEF Inv, StakingTypeOK
<1> QED BY <1>4, <1>6, <1>8, <1>9, <1>10, OneStake

(* The other calls change no stake; a new minimum voids the ranking.        *)
LEMMA OthersInv ==
  ASSUME Inv,
         \/ Tick \/ UNCHANGED stakingVars
         \/ \E caller \in Owners, m \in MinStakes : SetMinStake(caller, m)
         \/ \E caller, o \in Owners : TransferStakingOwnership(caller, o)
  PROVE  Inv'
<1>1. UNCHANGED <<stakes, deposited, withdrawn, slashed, held>>
  BY DEF Tick, stakingVars, ledgerVars, SetMinStake, TransferStakingOwnership
<1>2. StakingTypeOK'
  <2>1. /\ stakingOwner \in Owners /\ minStake \in Nat /\ now \in Nat
        /\ retuned \in BOOLEAN
    BY DEF Inv, StakingTypeOK
  <2>2. stakingOwner' \in Owners
    BY <2>1 DEF Tick, stakingVars, SetMinStake, TransferStakingOwnership
  <2>3. minStake' \in Nat /\ now' \in Nat
    BY <2>1 DEF Tick, stakingVars, SetMinStake, TransferStakingOwnership
  <2>4. retuned' \in BOOLEAN
    <3>1. retuned' = retuned \/ retuned' = TRUE
      BY DEF Tick, stakingVars, SetMinStake, TransferStakingOwnership
    <3> QED BY <2>1, <3>1
  <2> QED BY <1>1, <2>2, <2>3, <2>4 DEF Inv, StakingTypeOK
<1>3. retuned' \/ (retuned' = retuned /\ minStake' = minStake)
  BY DEF Tick, stakingVars, SetMinStake, TransferStakingOwnership
<1>4. ASSUME NEW v \in Validators PROVE ValidatorInv(v)'
  <2>1. Accounted(v)' /\ Covered(v)'
    BY <1>1, <1>4, Before DEF Accounted, Covered
  <2>2. Ranked(v)'
    BY <1>1, <1>3, <1>4, Before DEF Ranked
  <2> QED BY <2>1, <2>2 DEF ValidatorInv
<1> QED BY <1>2, <1>4 DEF Inv

LEMMA InitInv == StakingInit => Inv
<1> SUFFICES ASSUME StakingInit PROVE Inv
  OBVIOUS
<1>1. NoStake \in ValidatorStake
  BY DEF NoStake, ValidatorStake
<1>2. StakingTypeOK
  BY <1>1 DEF StakingInit, StakingTypeOK
<1>3. ASSUME NEW v \in Validators PROVE ValidatorInv(v)
  <2>1. /\ stakes[v] = NoStake /\ minStake > 0
        /\ deposited[v] = 0 /\ withdrawn[v] = 0 /\ slashed[v] = 0
    BY <1>3 DEF StakingInit
  <2> QED BY <2>1 DEF ValidatorInv, Accounted, Ranked, Covered, NoStake, StakingInit
<1> QED BY <1>2, <1>3 DEF Inv

LEMMA StepInv == Inv /\ [StakingNext]_stakingVars => Inv'
<1> SUFFICES ASSUME Inv, [StakingNext]_stakingVars PROVE Inv'
  OBVIOUS
<1>1. CASE Tick \/ UNCHANGED stakingVars
  BY <1>1, OthersInv
<1>2. CASE ValidatorStep
  BY <1>2, StakeInv, RequestUnstakeInv, WithdrawInv DEF ValidatorStep
<1>3. CASE OwnerStep
  BY <1>3, SlashInv, OthersInv DEF OwnerStep
<1> QED BY <1>1, <1>2, <1>3 DEF StakingNext

(* The invariant the other theorems rest on.                                *)
THEOREM StakingInvariant == StakingSpec => []Inv
<1>1. StakingInit => Inv
  BY InitInv
<1>2. Inv /\ [StakingNext]_stakingVars => Inv'
  BY StepInv
<1> QED BY <1>1, <1>2, PTL DEF StakingSpec

-----------------------------------------------------------------------------
(* The state of the contract keeps its types: no withdrawal and no slash    *)
(* takes an amount below zero.                                              *)
THEOREM TypeCorrect == StakingSpec => []StakingTypeOK
<1>1. Inv => StakingTypeOK
  BY DEF Inv
<1> QED BY <1>1, StakingInvariant, PTL

(* What a validator paid in is its stake, what it got back and what it lost, *)
(* however requests, withdrawals, top-ups and slashes interleave.           *)
THEOREM WeiAccounted == StakingSpec => []EveryWeiAccounted
<1>1. Inv => EveryWeiAccounted
  BY DEF Inv, ValidatorInv, Accounted, EveryWeiAccounted
<1> QED BY <1>1, StakingInvariant, PTL

(* Validators are exactly those who hold the minimum, until it is changed.  *)
THEOREM RankFollowsStake == StakingSpec => []ValidatorsHoldMinStake
<1>1. Inv => ValidatorsHoldMinStake
  BY DEF Inv, ValidatorInv, Ranked, ValidatorsHoldMinStake
<1> QED BY <1>1, StakingInvariant, PTL

(* Without a slash a pending request is covered by the stake.               *)
THEOREM RequestsCovered == StakingSpec => []UnstakeWithinStake
<1>1. Inv => UnstakeWithinStake
  BY DEF Inv, ValidatorInv, Covered, UnstakeWithinStake
<1> QED BY <1>1, StakingInvariant, PTL

(* All four together: what StakingSound promises holds for any number of    *)
(* validators, amounts and instants.                                        *)
THEOREM StakesAreSound == StakingSpec => []StakingSound
<1>1. StakingTypeOK /\ EveryWeiAccounted /\ UnstakeWithinStake /\ ValidatorsHoldMinStake
        => StakingSound
  BY DEF StakingSound
<1> QED BY <1>1, TypeCorrect, WeiAccounted, RequestsCovered, RankFollowsStake, PTL

-----------------------------------------------------------------------------
(* The consensus contract. Its proposals, votes and challenges are arrays:  *)
(* a push and a write to an entry.                                          *)
IsArray(s) == s \in Seq(Range(s))

(* A sequence over any set is an array.                                     *)
LEMMA OwnRange ==
  ASSUME NEW S, NEW t \in Seq(S)
  PROVE  IsArray(t)
<1>1. /\ Len(t) \in Nat /\ DOMAIN t = 1 .. Len(t)
      /\ \A j \in 1 .. Len(t) : t[j] \in Range(t)
  BY DEF Range
<1>2. t \in [1 .. Len(t) -> Range(t)]
  <2>1. t = [j \in DOMAIN t |-> t[j]]
    OBVIOUS
  <2> QED
    BY <1>1, <2>1
<1> QED
  BY <1>1, <1>2, SeqDef DEF IsArray

LEMMA EmptyArray == IsArray(<<>>) /\ Len(<<>>) = 0
  BY DEF IsArray

(* A push adds one entry at the end.                                        *)
LEMMA Push ==
  ASSUME NEW s, IsArray(s), NEW e
  PROVE  /\ IsArray(Append(s, e))
         /\ Len(s) \in Nat /\ Len(Append(s, e)) = Len(s) + 1
         /\ \A i \in 1 .. Len(s) : Append(s, e)[i] = s[i]
         /\ Append(s, e)[Len(s) + 1] = e
<1> DEFINE S == Range(s) \cup {e}
<1>1. s \in Seq(S) /\ e \in S
  BY DEF IsArray
<1> HIDE DEF S
<1>2. /\ Append(s, e) \in Seq(S)
      /\ Len(s) \in Nat /\ Len(Append(s, e)) = Len(s) + 1
      /\ \A i \in 1 .. Len(s) : Append(s, e)[i] = s[i]
      /\ Append(s, e)[Len(s) + 1] = e
  BY <1>1
<1> QED
  BY <1>2, OwnRange

(* A function on the indices of an array is one of the same length.         *)
LEMMA Write ==
  ASSUME NEW s, IsArray(s), NEW S, NEW t \in [DOMAIN s -> S]
  PROVE  /\ Len(s) \in Nat /\ DOMAIN s = 1 .. Len(s)
         /\ IsArray(t) /\ Len(t) = Len(s)
<1>1. Len(s) \in Nat /\ DOMAIN s = 1 .. Len(s)
  BY DEF IsArray
<1>2. t \in Seq(S) /\ Len(t) = Len(s)
  BY <1>1
<1> QED
  BY <1>1, <1>2, OwnRange

(* Writing one entry keeps the length.                                      *)
LEMMA OneWritten ==
  ASSUME NEW s, IsArray(s), NEW i, NEW e, NEW t, t = [s EXCEPT ![i] = e]
  PROVE  Len(t) = Len(s)
<1>1. t \in [DOMAIN s -> Range(s) \cup {e}]
  BY DEF Range
<1> QED
  BY <1>1, Write

Arrays ==
  /\ IsArray(proposals) /\ IsArray(votes) /\ IsArray(active) /\ IsArray(challenges)
  /\ Len(votes) = Len(proposals) /\ Len(active) = Len(proposals)

(* The stake counted for a proposal, and who voted for it.                  *)
ProposalInv(p) ==
  /\ {"yes", "total", "finalized", "slashed"} \subseteq DOMAIN proposals[p]
  /\ proposals[p].yes \in Nat /\ proposals[p].total \in Nat
  /\ proposals[p].yes <= proposals[p].total
  /\ proposals[p].finalized => 3 * proposals[p].yes >= 2 * proposals[p].total
  /\ YesVoters(p) # {}

SettingsInv ==
  /\ {"owner", "minQuorum", "slashPercentBps"} \subseteq DOMAIN settings
  /\ settings.owner \in Arbiters /\ settings.minQuorum # 0
  /\ settings.slashPercentBps \in Nat /\ settings.slashPercentBps <= 10000

(* At most the active challenge of a proposal is unresolved, and none of a  *)
(* slashed one.                                                             *)
ChallengeInv(c) ==
  LET p == challenges[c].proposal IN
    /\ {"proposal", "resolved", "won"} \subseteq DOMAIN challenges[c]
    /\ p \in Ids
    /\ challenges[c].resolved \/ (active[p] = c /\ ~proposals[p].slashed)
    /\ challenges[c].won => challenges[c].resolved /\ proposals[p].slashed

OneWins ==
  \A c, d \in 1 .. Len(challenges) :
    c # d /\ challenges[c].proposal = challenges[d].proposal /\ challenges[c].won
      => ~challenges[d].won

ConsensusInv ==
  /\ Inv /\ Arrays /\ SettingsInv
  /\ \A p \in Ids : ProposalInv(p) /\ active[p] \in 0 .. Len(challenges)
  /\ \A c \in 1 .. Len(challenges) : ChallengeInv(c)
  /\ OneWins

(* Steps elsewhere: the arrays stay, the stakes keep their own invariant.   *)
LEMMA ElsewhereInv ==
  ASSUME ConsensusInv, Inv', SettingsInv', UNCHANGED <<proposals, votes, challenges, active>>
  PROVE  ConsensusInv'
<1>1. \A p \in Ids : ProposalInv(p)'
  BY DEF ConsensusInv, ProposalInv, YesVoters
<1>2. \A c \in 1 .. Len(challenges) : ChallengeInv(c)'
  BY DEF ConsensusInv, ChallengeInv, Ids
<1> QED
  BY <1>1, <1>2 DEF ConsensusInv, Arrays, Ids, OneWins

(* Calls that leave the staking contract alone keep its invariant.          *)
LEMMA UnchangedStakes ==
  ASSUME Inv, UNCHANGED stakingVars
  PROVE  Inv'
  BY OthersInv

(* A new proposal counts its proposer, and has no challenge.                *)
LEMMA ProposeInv ==
  ASSUME ConsensusInv, NEW v \in Validators, NEW o, NEW period, NEW body, NEW prev, NEW n,
         Propose(v, o, period, body, prev, n)
  PROVE  ConsensusInv'
<1> DEFINE new == [org |-> o, start |-> period[1], end |-> period[2], body |-> body,
                   prev |-> prev, attestNonce |-> n, createdAt |-> now,
                   total |-> stakes[v].amount, yes |-> stakes[v].amount,
                   finalized |-> FALSE, slashed |-> FALSE]
           vote == [u \in {v} |-> TRUE]
<1> PICK k : k = Len(proposals) + 1
  OBVIOUS
<1>1. /\ proposals' = Append(proposals, new) /\ votes' = Append(votes, vote)
      /\ active' = Append(active, 0) /\ UNCHANGED <<challenges, settings, stakingVars>>
  BY DEF Propose
<1>2. Arrays /\ Inv /\ SettingsInv
  BY DEF ConsensusInv
<1>3. /\ Inv' /\ SettingsInv'
  BY <1>1, <1>2, UnchangedStakes DEF SettingsInv
<1>4. stakes[v].amount \in Nat
  BY <1>2, Before
<1>5. /\ new.yes \in Nat /\ new.total = new.yes /\ ~new.finalized /\ ~new.slashed
      /\ {"yes", "total", "finalized", "slashed"} \subseteq DOMAIN new
      /\ vote[v] = TRUE /\ v \in DOMAIN vote
  BY <1>4
<1> HIDE DEF new, vote
<1>6. /\ Len(proposals) \in Nat /\ Len(proposals') = k /\ Arrays'
      /\ \A p \in Ids : /\ proposals'[p] = proposals[p] /\ votes'[p] = votes[p]
                        /\ active'[p] = active[p]
      /\ proposals'[k] = new /\ votes'[k] = vote /\ active'[k] = 0
  BY <1>1, <1>2, Push DEF Arrays, Ids
<1>7. Ids' = Ids \cup {k} /\ k \notin Ids
  BY <1>6 DEF Ids
<1>8. ASSUME NEW p \in Ids' PROVE (ProposalInv(p) /\ active[p] \in 0 .. Len(challenges))'
  <2>1. CASE p \in Ids
    <3>1. ProposalInv(p) /\ active[p] \in 0 .. Len(challenges)
      BY <2>1 DEF ConsensusInv
    <3> QED
      BY <1>1, <1>6, <2>1, <3>1 DEF ProposalInv, YesVoters
  <2>2. CASE p = k
    <3>1. v \in YesVoters(p)'
      BY <1>5, <1>6, <2>2 DEF YesVoters
    <3>2. Len(challenges) \in Nat
      BY <1>2, Push DEF Arrays
    <3>3. 3 * new.yes >= 2 * new.yes
      BY <1>5
    <3>4. proposals'[p] = new
      BY <1>6, <2>2
    <3>5. ProposalInv(p)'
      BY <1>5, <3>1, <3>3, <3>4 DEF ProposalInv
    <3>6. active'[p] \in 0 .. Len(challenges')
      <4>1. active'[p] = 0 /\ Len(challenges') = Len(challenges)
        BY <1>1, <1>6, <2>2
      <4> QED
        BY <3>2, <4>1
    <3> QED
      BY <3>5, <3>6
  <2> QED
    BY <1>7, <2>1, <2>2
<1>9. ASSUME NEW c \in 1 .. Len(challenges) PROVE ChallengeInv(c)'
  <2>1. ChallengeInv(c) /\ challenges[c].proposal \in Ids
    BY DEF ConsensusInv, ChallengeInv
  <2> QED
    BY <1>1, <1>6, <1>7, <2>1 DEF ChallengeInv
<1>10. OneWins'
  BY <1>1 DEF ConsensusInv, OneWins
<1> QED
  BY <1>1, <1>3, <1>6, <1>8, <1>9, <1>10 DEF ConsensusInv

(* Writing an entry of proposals: what is claimed of the others stays.      *)
LEMMA RewriteInv ==
  ASSUME ConsensusInv, NEW p \in Ids, NEW new,
         proposals' = [proposals EXCEPT ![p] = new],
         UNCHANGED <<challenges, active, settings>>, Inv',
         IsArray(votes'), Len(votes') = Len(votes),
         \A q \in Ids \ {p} : votes'[q] = votes[q],
         {"yes", "total", "finalized", "slashed"} \subseteq DOMAIN new,
         new.slashed = proposals[p].slashed,
         new.yes \in Nat, new.total \in Nat, new.yes <= new.total,
         new.finalized => 3 * new.yes >= 2 * new.total,
         YesVoters(p)' # {}
  PROVE  ConsensusInv'
<1>1. Arrays
  BY DEF ConsensusInv
<1>2. /\ Arrays' /\ Ids' = Ids /\ proposals'[p] = new
      /\ \A q \in Ids : q # p => proposals'[q] = proposals[q]
  <2>1. /\ IsArray(proposals') /\ Len(proposals') = Len(proposals) /\ proposals'[p] = new
        /\ \A q \in 1 .. Len(proposals) : q # p => proposals'[q] = proposals[q]
    <3>1. IsArray(proposals) /\ p \in 1 .. Len(proposals)
      BY <1>1 DEF Arrays, Ids
    <3>2. proposals' \in [DOMAIN proposals -> Range(proposals) \cup {new}]
      BY DEF Range
    <3>3. /\ IsArray(proposals') /\ Len(proposals') = Len(proposals)
          /\ DOMAIN proposals = 1 .. Len(proposals)
      BY <3>1, <3>2, Write
    <3> QED
      BY <3>1, <3>3
  <2> QED
    BY <1>1, <2>1 DEF Arrays, Ids
<1>3. \A q \in Ids : proposals'[q].slashed = proposals[q].slashed
  BY <1>2
<1>4. ASSUME NEW q \in Ids PROVE (ProposalInv(q) /\ active[q] \in 0 .. Len(challenges))'
  <2>1. ProposalInv(q) /\ active[q] \in 0 .. Len(challenges)
    BY DEF ConsensusInv
  <2>2. CASE q = p
    BY <1>2, <2>1, <2>2 DEF ProposalInv
  <2>3. CASE q # p
    BY <1>2, <2>1, <2>3 DEF ProposalInv, YesVoters
  <2> QED
    BY <2>2, <2>3
<1>5. ASSUME NEW c \in 1 .. Len(challenges) PROVE ChallengeInv(c)'
  <2>1. ChallengeInv(c) /\ challenges[c].proposal \in Ids
    BY DEF ConsensusInv, ChallengeInv
  <2> QED
    BY <1>2, <1>3, <2>1 DEF ChallengeInv
<1>6. OneWins' /\ SettingsInv'
  BY DEF ConsensusInv, OneWins, SettingsInv
<1> QED
  BY <1>2, <1>4, <1>5, <1>6 DEF ConsensusInv

(* A vote is counted for a proposal that is not finalized.                  *)
LEMMA VoteInv ==
  ASSUME ConsensusInv, NEW p \in Ids, NEW v \in Validators, NEW inFavor \in BOOLEAN,
         Vote(v, p, inFavor)
  PROVE  ConsensusInv'
<1> DEFINE a == stakes[v].amount
           total == proposals[p].total + a
           yes == IF inFavor THEN proposals[p].yes + a ELSE proposals[p].yes
           new == [proposals[p] EXCEPT !.total = total, !.yes = yes]
           cast == [u \in DOMAIN votes[p] \cup {v} |-> IF u = v THEN inFavor ELSE votes[p][u]]
<1>1. /\ proposals' = [proposals EXCEPT ![p] = new]
      /\ votes' = [votes EXCEPT ![p] = cast]
      /\ ~proposals[p].finalized /\ v \notin DOMAIN votes[p]
      /\ UNCHANGED <<challenges, active, settings, stakingVars>>
  BY DEF Vote
<1>2. Inv /\ Arrays /\ ProposalInv(p)
  BY DEF ConsensusInv
<1>3. a \in Nat /\ total \in Nat /\ yes \in Nat /\ yes <= total
  BY <1>2, Before DEF ProposalInv
<1>4. /\ {"yes", "total", "finalized", "slashed"} \subseteq DOMAIN new
      /\ new.yes = yes /\ new.total = total
      /\ new.finalized = proposals[p].finalized /\ new.slashed = proposals[p].slashed
  BY <1>2 DEF ProposalInv
<1>5. \A u \in YesVoters(p) : u \in DOMAIN cast /\ cast[u]
  BY <1>1 DEF YesVoters
<1> HIDE DEF new, cast, total, yes
<1>6. /\ IsArray(votes') /\ Len(votes') = Len(votes) /\ votes'[p] = cast
      /\ \A q \in Ids \ {p} : votes'[q] = votes[q]
  <2>1. IsArray(votes) /\ p \in 1 .. Len(votes) /\ Ids = 1 .. Len(votes)
    BY <1>2 DEF Arrays, Ids
  <2>2. /\ votes' = [votes EXCEPT ![p] = cast]
        /\ votes' \in [DOMAIN votes -> Range(votes) \cup {cast}]
    BY <1>1 DEF Range
  <2>3. /\ IsArray(votes') /\ Len(votes') = Len(votes)
        /\ DOMAIN votes = 1 .. Len(votes)
    BY <2>1, <2>2, Write
  <2> QED
    BY <2>1, <2>2, <2>3
<1>7. YesVoters(p)' # {}
  BY <1>2, <1>5, <1>6 DEF ProposalInv, YesVoters
<1>8. Inv'
  BY <1>1, <1>2, UnchangedStakes
<1> QED
  BY <1>1, <1>3, <1>4, <1>6, <1>7, <1>8, RewriteInv

(* What is finalized has two thirds of the stake that voted: 6667 of 10000  *)
(* is no less.                                                              *)
LEMMA FinalizeInv ==
  ASSUME ConsensusInv, NEW p \in Ids, Finalize(p)
  PROVE  ConsensusInv'
<1> DEFINE new == [proposals[p] EXCEPT !.finalized = TRUE]
<1>1. /\ proposals' = [proposals EXCEPT ![p] = new] /\ Supermajority(p)
      /\ UNCHANGED <<votes, challenges, active, settings, stakingVars>>
  BY DEF Finalize
<1>2. Inv /\ Arrays /\ ProposalInv(p)
  BY DEF ConsensusInv
<1>3. 3 * proposals[p].yes >= 2 * proposals[p].total
  BY <1>1, <1>2 DEF Supermajority, SUPERMAJORITY_BPS, ProposalInv
<1>4. /\ {"yes", "total", "finalized", "slashed"} \subseteq DOMAIN new
      /\ new.yes = proposals[p].yes /\ new.total = proposals[p].total
      /\ new.slashed = proposals[p].slashed
  BY <1>2 DEF ProposalInv
<1> HIDE DEF new
<1>5. Inv'
  BY <1>1, <1>2, UnchangedStakes
<1>6. YesVoters(p)' # {}
  BY <1>1, <1>2 DEF ProposalInv, YesVoters
<1> QED
  BY <1>1, <1>2, <1>3, <1>4, <1>5, <1>6, RewriteInv DEF Arrays, ProposalInv

(* A challenge needs the one before it to be resolved.                      *)
LEMMA ChallengeKeepsInv ==
  ASSUME ConsensusInv, NEW p \in Ids, NEW bond, Challenge(p, bond)
  PROVE  ConsensusInv'
<1> DEFINE new == [proposal |-> p, bond |-> bond, resolved |-> FALSE, won |-> FALSE]
<1> PICK k : k = Len(challenges) + 1
  OBVIOUS
<1>1. /\ challenges' = Append(challenges, new) /\ active' = [active EXCEPT ![p] = k]
      /\ ~proposals[p].slashed /\ NoActiveChallenge(p)
      /\ UNCHANGED <<proposals, votes, settings, stakingVars>>
  BY DEF Challenge
<1>2. Inv /\ Arrays /\ SettingsInv /\ OneWins
  BY DEF ConsensusInv
<1>3. Inv' /\ SettingsInv'
  BY <1>1, <1>2, UnchangedStakes DEF SettingsInv
<1>4. /\ new.proposal = p /\ new.resolved = FALSE /\ new.won = FALSE
      /\ {"proposal", "resolved", "won"} \subseteq DOMAIN new
  OBVIOUS
<1> HIDE DEF new
<1>5. /\ IsArray(challenges') /\ Len(challenges) \in Nat /\ Len(challenges') = k
      /\ \A c \in 1 .. Len(challenges) : challenges'[c] = challenges[c]
      /\ challenges'[k] = new
  BY <1>1, <1>2, Push DEF Arrays
<1>6. /\ IsArray(active') /\ Len(active') = Len(active) /\ active'[p] = k
      /\ \A q \in Ids \ {p} : active'[q] = active[q]
  <2>1. IsArray(active) /\ p \in 1 .. Len(active) /\ Ids = 1 .. Len(active)
    BY <1>2 DEF Arrays, Ids
  <2>2. /\ active' = [active EXCEPT ![p] = k]
        /\ active' \in [DOMAIN active -> Range(active) \cup {k}]
    BY <1>1 DEF Range
  <2>3. /\ IsArray(active') /\ Len(active') = Len(active)
        /\ DOMAIN active = 1 .. Len(active)
    BY <2>1, <2>2, Write
  <2> QED
    BY <2>1, <2>2, <2>3
<1>7. Arrays' /\ Ids' = Ids
  BY <1>1, <1>2, <1>5, <1>6 DEF Arrays, Ids
<1>8. ASSUME NEW q \in Ids PROVE (ProposalInv(q) /\ active[q] \in 0 .. Len(challenges))'
  <2>1. ProposalInv(q) /\ active[q] \in 0 .. Len(challenges)
    BY DEF ConsensusInv
  <2> QED
    BY <1>1, <1>5, <1>6, <2>1 DEF ProposalInv, YesVoters
<1>9. ASSUME NEW c \in 1 .. Len(challenges) PROVE ChallengeInv(c)'
  <2>1. ChallengeInv(c) /\ challenges[c].proposal \in Ids
    BY DEF ConsensusInv, ChallengeInv
  <2>2. challenges[c].proposal = p => challenges[c].resolved
    BY <1>1, <2>1 DEF ChallengeInv, NoActiveChallenge
  <2> QED
    BY <1>1, <1>5, <1>6, <1>7, <2>1, <2>2 DEF ChallengeInv
<1>10. ChallengeInv(k)'
  BY <1>1, <1>4, <1>5, <1>6, <1>7 DEF ChallengeInv
<1>11. OneWins'
  BY <1>2, <1>4, <1>5 DEF OneWins
<1> QED
  BY <1>3, <1>5, <1>7, <1>8, <1>9, <1>10, <1>11 DEF ConsensusInv

(* Writing an entry of challenges that resolves it, maybe as won: the       *)
(* challenges of the same proposal are the losers of other rounds.          *)
LEMMA ResolveLostInv ==
  ASSUME ConsensusInv, NEW caller, NEW c \in 1 .. Len(challenges),
         ResolveLost(caller, c)
  PROVE  ConsensusInv'
<1> DEFINE new == [challenges[c] EXCEPT !.resolved = TRUE]
<1>1. /\ challenges' = [challenges EXCEPT ![c] = new] /\ ~challenges[c].resolved
      /\ UNCHANGED <<proposals, votes, active, settings, stakingVars>>
  BY DEF ResolveLost
<1>2. Inv /\ Arrays /\ SettingsInv /\ OneWins /\ ChallengeInv(c)
  BY DEF ConsensusInv
<1>3. Inv' /\ SettingsInv'
  BY <1>1, <1>2, UnchangedStakes DEF SettingsInv
<1>4. /\ {"proposal", "resolved", "won"} \subseteq DOMAIN new
      /\ new.proposal = challenges[c].proposal /\ new.resolved = TRUE
      /\ new.won = challenges[c].won
  BY <1>2 DEF ChallengeInv
<1> HIDE DEF new
<1>5. /\ IsArray(challenges') /\ Len(challenges') = Len(challenges)
      /\ challenges'[c] = new
      /\ \A d \in 1 .. Len(challenges) : d # c => challenges'[d] = challenges[d]
  <2>1. IsArray(challenges)
    BY <1>2 DEF Arrays
  <2>2. challenges' \in [DOMAIN challenges -> Range(challenges) \cup {new}]
    BY <1>1 DEF Range
  <2>3. /\ IsArray(challenges') /\ Len(challenges') = Len(challenges)
        /\ DOMAIN challenges = 1 .. Len(challenges)
    BY <2>1, <2>2, Write
  <2> QED
    BY <1>1, <2>3
<1>6. Arrays' /\ Ids' = Ids
  BY <1>1, <1>2, <1>5 DEF Arrays, Ids
<1>7. ASSUME NEW q \in Ids PROVE (ProposalInv(q) /\ active[q] \in 0 .. Len(challenges))'
  <2>1. ProposalInv(q) /\ active[q] \in 0 .. Len(challenges)
    BY DEF ConsensusInv
  <2> QED
    BY <1>1, <1>5, <2>1 DEF ProposalInv, YesVoters
<1>8. ASSUME NEW d \in 1 .. Len(challenges) PROVE ChallengeInv(d)'
  <2>1. ChallengeInv(d)
    BY DEF ConsensusInv
  <2> QED
    BY <1>1, <1>2, <1>4, <1>5, <1>6, <2>1 DEF ChallengeInv
<1>9. OneWins'
  BY <1>2, <1>4, <1>5 DEF OneWins
<1> QED
  BY <1>3, <1>5, <1>6, <1>7, <1>8, <1>9 DEF ConsensusInv

(* A slash by challenge is a share of the stake.                            *)
LEMMA Share ==
  ASSUME NEW a \in Nat, NEW bps \in Nat, bps <= 10000
  PROVE  (a * bps) \div 10000 \in Nat /\ (a * bps) \div 10000 <= a
<1> DEFINE rest == 10000 - bps
<1>1. rest \in Nat /\ a * rest \in Nat /\ a * bps \in Nat
  OBVIOUS
<1>2. a * bps + a * rest = 10000 * a
  BY <1>1
<1> PICK q : q = a * bps
  OBVIOUS
<1>3. q \in Nat /\ q <= 10000 * a
  BY <1>1, <1>2
<1>4. q \div 10000 \in Nat /\ q \div 10000 <= a
  BY <1>3
<1> QED
  BY <1>4

(* Any number of validators losing a share at once.                         *)
LEMMA SharesInv ==
  ASSUME Inv, SettingsInv, NEW S,
         \A v \in S \cap Validators : SlashAmount(v) > 0 /\ stakes[v].isValidator,
         stakes' = [v \in Validators |->
           IF v \in S THEN AfterSlash(stakes[v], SlashAmount(v)) ELSE stakes[v]],
         slashed' = [v \in Validators |->
           IF v \in S THEN slashed[v] + SlashAmount(v) ELSE slashed[v]],
         UNCHANGED <<stakingOwner, minStake, held, now, deposited, withdrawn, retuned>>
  PROVE  Inv'
<1>1. ASSUME NEW v \in Validators
      PROVE /\ stakes'[v] \in ValidatorStake /\ slashed'[v] \in Nat
            /\ ValidatorInv(v)'
  <2> DEFINE old == stakes[v]
             cut == SlashAmount(v)
             rank == old.isValidator /\ old.amount - cut >= minStake
  <2>1. /\ old \in ValidatorStake /\ old.amount \in Nat /\ old.isValidator \in BOOLEAN
        /\ slashed[v] \in Nat /\ minStake \in Nat
        /\ deposited[v] \in Nat /\ withdrawn[v] \in Nat
        /\ Accounted(v) /\ Ranked(v) /\ Covered(v)
    BY Before
  <2>2. deposited'[v] = deposited[v] /\ withdrawn'[v] = withdrawn[v]
    OBVIOUS
  <2>3. CASE v \in S
    <3>1. cut \in Nat /\ cut <= old.amount
      BY <2>1, Share DEF SettingsInv, SlashAmount
    <3>2. cut > 0 /\ old.isValidator
      BY <2>3
    <3>3. /\ stakes'[v] = AfterSlash(old, cut)
          /\ slashed'[v] = slashed[v] + cut
      BY <2>3
    <3> PICK s : s = AfterSlash(old, cut)
      OBVIOUS
    <3> PICK x : x = cut
      OBVIOUS
    <3>4. x \in Nat /\ x <= old.amount /\ x > 0
      BY <3>1, <3>2
    <3>5. s = [amount |-> old.amount - x, requestedAt |-> old.requestedAt,
               unstake |-> old.unstake,
               isValidator |-> old.isValidator /\ old.amount - x >= minStake]
      <4>1. SlashedBy(old, x) = x
        BY <2>1, <3>4 DEF SlashedBy
      <4>2. s = [old EXCEPT !.amount = old.amount - x,
                            !.isValidator = old.isValidator /\ old.amount - x >= minStake]
        BY <4>1 DEF AfterSlash
      <4> QED
        BY <2>1, <4>2 DEF ValidatorStake
    <3> PICK r : r = (old.isValidator /\ old.amount - x >= minStake)
      OBVIOUS
    <3>6. /\ s \in ValidatorStake /\ s.amount = old.amount - x /\ s.isValidator = r
          /\ r \in BOOLEAN /\ (r <=> s.amount >= minStake)
      <4>1. r \in BOOLEAN
        BY Zenon
      <4>2. /\ s = [amount |-> old.amount - x, requestedAt |-> old.requestedAt,
                    unstake |-> old.unstake, isValidator |-> r]
            /\ old.amount - x \in Nat
        BY <2>1, <3>4, <3>5
      <4>3. s \in ValidatorStake /\ s.amount = old.amount - x /\ s.isValidator = r
        BY <2>1, <4>1, <4>2 DEF ValidatorStake
      <4> QED
        BY <3>2, <4>1, <4>3
    <3>7. stakes'[v] = s /\ slashed'[v] = slashed[v] + x
      BY <3>3
    <3> HIDE DEF old, cut, rank
    <3>8. Accounted(v)' /\ Covered(v)'
      BY <2>1, <2>2, <3>4, <3>6, <3>7 DEF Accounted, Covered, old
    <3>9. Ranked(v)'
      BY <3>6, <3>7 DEF Ranked
    <3> QED
      BY <2>1, <3>4, <3>6, <3>7, <3>8, <3>9 DEF ValidatorInv
  <2>4. CASE v \notin S
    <3>1. stakes'[v] = stakes[v] /\ slashed'[v] = slashed[v]
      BY <2>4
    <3>2. Accounted(v)' /\ Covered(v)'
      BY <2>1, <2>2, <3>1 DEF Accounted, Covered
    <3>3. Ranked(v)'
      BY <2>1, <3>1 DEF Ranked
    <3> QED
      BY <2>1, <3>1, <3>2, <3>3 DEF ValidatorInv
  <2> QED
    BY <2>3, <2>4
<1>2. stakes' \in [Validators -> ValidatorStake] /\ slashed' \in [Validators -> Nat]
  BY <1>1
<1>3. StakingTypeOK'
  BY <1>2 DEF Inv, StakingTypeOK
<1> QED
  BY <1>1, <1>3 DEF Inv

(* A won challenge: the proposal is slashed, so no other of it was won and  *)
(* none is left to be resolved.                                             *)
LEMMA ResolveWonInv ==
  ASSUME ConsensusInv, NEW caller, NEW c \in 1 .. Len(challenges),
         ResolveWon(caller, c)
  PROVE  ConsensusInv'
<1> PICK p : p = challenges[c].proposal
  OBVIOUS
<1> DEFINE new == [challenges[c] EXCEPT !.resolved = TRUE, !.won = TRUE]
           marked == [proposals[p] EXCEPT !.slashed = TRUE]
<1>1. /\ challenges' = [challenges EXCEPT ![c] = new] /\ ~challenges[c].resolved
      /\ proposals' = [proposals EXCEPT ![p] = marked]
      /\ UNCHANGED <<votes, active, settings>>
  BY DEF ResolveWon
<1>2. Inv /\ Arrays /\ SettingsInv /\ OneWins /\ ChallengeInv(c)
  BY DEF ConsensusInv
<1>3. p \in Ids /\ ProposalInv(p) /\ active[p] = c /\ ~proposals[p].slashed
  BY <1>1, <1>2 DEF ConsensusInv, ChallengeInv
<1>4. Inv' /\ SettingsInv'
  <2>1. \A v \in ToSlash(p) \cap Validators : SlashAmount(v) > 0 /\ stakes[v].isValidator
    BY DEF ResolveWon, CanSlash
  <2>2. Inv'
    BY <1>2, <2>1, SharesInv DEF ResolveWon
  <2> QED
    BY <1>1, <1>2, <2>2 DEF SettingsInv
<1>5. /\ {"proposal", "resolved", "won"} \subseteq DOMAIN new
      /\ new.proposal = p /\ new.resolved = TRUE /\ new.won = TRUE
  BY <1>2 DEF ChallengeInv
<1>6. /\ {"yes", "total", "finalized", "slashed"} \subseteq DOMAIN marked
      /\ marked.yes = proposals[p].yes /\ marked.total = proposals[p].total
      /\ marked.finalized = proposals[p].finalized /\ marked.slashed = TRUE
  BY <1>3 DEF ProposalInv
<1> HIDE DEF new, marked
<1>7. /\ IsArray(challenges') /\ Len(challenges') = Len(challenges)
      /\ challenges'[c] = new
      /\ \A d \in 1 .. Len(challenges) : d # c => challenges'[d] = challenges[d]
  <2>1. IsArray(challenges)
    BY <1>2 DEF Arrays
  <2>2. challenges' \in [DOMAIN challenges -> Range(challenges) \cup {new}]
    BY <1>1 DEF Range
  <2>3. /\ IsArray(challenges') /\ Len(challenges') = Len(challenges)
        /\ DOMAIN challenges = 1 .. Len(challenges)
    BY <2>1, <2>2, Write
  <2> QED
    BY <1>1, <2>3
<1>8. /\ IsArray(proposals') /\ Len(proposals') = Len(proposals)
      /\ proposals'[p] = marked
      /\ \A q \in Ids : q # p => proposals'[q] = proposals[q]
  <2>1. IsArray(proposals) /\ p \in 1 .. Len(proposals)
    BY <1>2, <1>3 DEF Arrays, Ids
  <2>2. proposals' \in [DOMAIN proposals -> Range(proposals) \cup {marked}]
    BY <1>1 DEF Range
  <2>3. /\ IsArray(proposals') /\ Len(proposals') = Len(proposals)
        /\ DOMAIN proposals = 1 .. Len(proposals)
    BY <2>1, <2>2, Write
  <2> QED
    BY <1>1, <2>1, <2>3 DEF Ids
<1>9. Arrays' /\ Ids' = Ids
  BY <1>1, <1>2, <1>7, <1>8 DEF Arrays, Ids
<1>10. ASSUME NEW q \in Ids PROVE (ProposalInv(q) /\ active[q] \in 0 .. Len(challenges))'
  <2>1. ProposalInv(q) /\ active[q] \in 0 .. Len(challenges)
    BY DEF ConsensusInv
  <2>2. YesVoters(q)' = YesVoters(q)
    BY <1>1 DEF YesVoters
  <2>3. CASE q = p
    BY <1>1, <1>6, <1>7, <1>8, <2>1, <2>2, <2>3 DEF ProposalInv
  <2>4. CASE q # p
    BY <1>1, <1>7, <1>8, <2>1, <2>2, <2>4 DEF ProposalInv
  <2> QED
    BY <2>3, <2>4
<1>11. ASSUME NEW d \in 1 .. Len(challenges) PROVE ChallengeInv(d)'
  <2>1. ChallengeInv(d) /\ challenges[d].proposal \in Ids
    BY DEF ConsensusInv, ChallengeInv
  <2>2. CASE d = c
    BY <1>3, <1>5, <1>6, <1>7, <1>8, <1>9, <2>2 DEF ChallengeInv
  <2>3. CASE d # c
    <3>1. challenges[d].proposal = p => challenges[d].resolved /\ ~challenges[d].won
      BY <1>3, <2>1, <2>3 DEF ChallengeInv
    <3> QED
      BY <1>1, <1>7, <1>8, <1>9, <2>1, <2>3, <3>1 DEF ChallengeInv
  <2> QED
    BY <2>2, <2>3
<1>12. OneWins'
  <2>1. \A d \in 1 .. Len(challenges) :
          d # c /\ challenges[d].proposal = p => ~challenges[d].won
    BY <1>3 DEF ConsensusInv, ChallengeInv
  <2> QED
    BY <1>2, <1>5, <1>7, <2>1 DEF OneWins
<1> QED
  BY <1>4, <1>7, <1>9, <1>10, <1>11, <1>12 DEF ConsensusInv

(* The calls of the owner that change a setting.                            *)
LEMMA SettersInv ==
  ASSUME ConsensusInv,
         \/ \E q \in Quorums : SetMinQuorum(q)
         \/ \E bps \in SlashPercents : SetSlashPercentBps(bps)
         \/ \E bond \in Bonds : SetChallengeBondMin(bond)
         \/ \E a \in Arbiters : TransferConsensusOwnership(a)
  PROVE  ConsensusInv'
<1>1. UNCHANGED <<stakingVars, proposals, votes, challenges, active>>
  BY DEF SetMinQuorum, SetSlashPercentBps, SetChallengeBondMin,
         TransferConsensusOwnership, Configure
<1>2. SettingsInv'
  <2>1. SettingsInv /\ SlashPercents \subseteq Nat
    BY ConsensusAssumption DEF ConsensusInv
  <2>2. CASE \E q \in Quorums : SetMinQuorum(q)
    BY <2>1, <2>2 DEF SettingsInv, SetMinQuorum, Configure
  <2>3. CASE \E bps \in SlashPercents : SetSlashPercentBps(bps)
    BY <2>1, <2>3 DEF SettingsInv, SetSlashPercentBps, Configure
  <2>4. CASE \E bond \in Bonds : SetChallengeBondMin(bond)
    BY <2>1, <2>4 DEF SettingsInv, SetChallengeBondMin, Configure
  <2>5. CASE \E a \in Arbiters : TransferConsensusOwnership(a)
    BY <2>1, <2>5 DEF SettingsInv, TransferConsensusOwnership, Configure
  <2> QED
    BY <2>2, <2>3, <2>4, <2>5
<1>3. Inv'
  BY <1>1, UnchangedStakes DEF ConsensusInv
<1> QED
  BY <1>1, <1>2, <1>3, ElsewhereInv

(* The calls that touch neither an array nor a setting.                     *)
LEMMA RestInv ==
  ASSUME ConsensusInv,
         \/ Elsewhere
         \/ \E p \in Ids : ExpireProposal(p)
         \/ \E a \in Amounts : Receive(a)
         \/ UNCHANGED vars
  PROVE  ConsensusInv'
<1>1. UNCHANGED <<proposals, votes, challenges, active, settings>>
  BY DEF Elsewhere, ExpireProposal, Receive, vars, consensusVars
<1>2. Inv'
  <2>1. \/ Tick \/ ValidatorStep \/ UNCHANGED stakingVars
    BY DEF Elsewhere, ExpireProposal, Receive, vars
  <2> QED
    BY <2>1, StepInv DEF StakingNext, ConsensusInv
<1>3. SettingsInv'
  BY <1>1 DEF ConsensusInv, SettingsInv
<1> QED
  BY <1>1, <1>2, <1>3, ElsewhereInv

LEMMA ConsensusInitInv == Init => ConsensusInv
<1> SUFFICES ASSUME Init PROVE ConsensusInv
  OBVIOUS
<1>1. Inv
  BY InitInv DEF Init
<1>2. /\ proposals = <<>> /\ votes = <<>> /\ active = <<>> /\ challenges = <<>>
      /\ SettingsInv
  <2>1. /\ proposals = <<>> /\ votes = <<>> /\ active = <<>> /\ challenges = <<>>
        /\ settings = [owner |-> InitialArbiter, minQuorum |-> MinQuorum,
                       slashPercentBps |-> SlashBps, challengeBondMin |-> BondMin]
    BY DEF Init
  <2>2. /\ SlashBps \in Nat /\ SlashBps <= 10000
        /\ InitialArbiter \in Arbiters /\ MinQuorum # 0
    BY ConsensusAssumption
  <2> QED
    BY <2>1, <2>2 DEF SettingsInv
<1>3. Arrays /\ Ids = {} /\ 1 .. Len(challenges) = {}
  BY <1>2, EmptyArray DEF Arrays, Ids
<1> QED
  BY <1>1, <1>2, <1>3 DEF ConsensusInv, OneWins

LEMMA ConsensusStepInv == ConsensusInv /\ [Next]_vars => ConsensusInv'
<1> SUFFICES ASSUME ConsensusInv, [Next]_vars PROVE ConsensusInv'
  OBVIOUS
<1>1. CASE Proposing
  BY <1>1, ProposeInv DEF Proposing
<1>2. CASE Judging
  BY <1>2, VoteInv, FinalizeInv, ChallengeKeepsInv, RestInv DEF Judging
<1>3. CASE \E caller \in Arbiters : Owning(caller)
  BY <1>3, ResolveWonInv, ResolveLostInv, SettersInv DEF Owning
<1>4. CASE Elsewhere \/ (\E a \in Amounts : Receive(a)) \/ UNCHANGED vars
  BY <1>4, RestInv
<1> QED
  BY <1>1, <1>2, <1>3, <1>4 DEF Next

(* The invariant of both contracts together.                                *)
THEOREM ConsensusInvariant == Spec => []ConsensusInv
<1> QED
  BY ConsensusInitInv, ConsensusStepInv, PTL DEF Spec

(* What is finalized keeps two thirds of the stake that voted and a voter in *)
(* favour, whatever is voted, staked, slashed or configured since.          *)
THEOREM FinalizationIsBacked == Spec => []FinalizedBySupermajority
<1>1. ConsensusInv => FinalizedBySupermajority
  BY DEF ConsensusInv, ProposalInv, FinalizedBySupermajority
<1> QED
  BY <1>1, ConsensusInvariant, PTL

(* The voters of a proposal are slashed at most once, however many          *)
(* challenges of it follow each other.                                      *)
THEOREM SlashedOnce == Spec => []SlashedAtMostOnce
<1>1. ConsensusInv => SlashedAtMostOnce
  BY DEF ConsensusInv, ChallengeInv, OneWins, SlashedAtMostOnce
<1> QED
  BY <1>1, ConsensusInvariant, PTL

(* Stakes stay sound when it is the consensus contract that slashes them.   *)
THEOREM StakesSoundUnderConsensus == Spec => []StakingSound
<1>1. ConsensusInv => StakingSound
  BY DEF ConsensusInv, Inv, ValidatorInv, Accounted, Ranked, Covered, StakingSound,
         EveryWeiAccounted, UnstakeWithinStake, ValidatorsHoldMinStake
<1> QED
  BY <1>1, ConsensusInvariant, PTL

(* Only a validator that voted for a proposal loses stake, and only when it  *)
(* is slashed for that proposal.                                            *)
THEOREM OnlyYesVotersLose == Spec => OnlyYesVotersSlashed
<1> DEFINE Fair ==
      \A v \in Validators : slashed'[v] > slashed[v] =>
        \E p \in Ids : v \in YesVoters(p) /\ ~proposals[p].slashed /\ proposals'[p].slashed
<1>1. ASSUME ConsensusInv, [Next]_vars PROVE [Fair]_vars
  <2>1. CASE slashed' = slashed
    <3>1. \A v \in Validators : slashed[v] \in Nat
      BY <1>1, Before DEF ConsensusInv
    <3> QED
      BY <2>1, <3>1
  <2>2. ASSUME NEW caller \in Arbiters, NEW c \in 1 .. Len(challenges),
               ResolveWon(caller, c)
        PROVE  Fair
    <3> PICK p : p = challenges[c].proposal
      OBVIOUS
    <3> SUFFICES ASSUME NEW v \in Validators, slashed'[v] > slashed[v]
                 PROVE  v \in YesVoters(p) /\ ~proposals[p].slashed /\ proposals'[p].slashed
                        /\ p \in Ids
      OBVIOUS
    <3>1. p \in Ids /\ ~proposals[p].slashed /\ ProposalInv(p) /\ Arrays
      BY <1>1, <2>2 DEF ConsensusInv, ChallengeInv, ResolveWon
    <3>2. v \in ToSlash(p)
      <4>1. slashed[v] \in Nat
        BY <1>1, Before DEF ConsensusInv
      <4>2. slashed'[v] = IF v \in ToSlash(p) THEN slashed[v] + SlashAmount(v) ELSE slashed[v]
        BY <2>2 DEF ResolveWon
      <4> QED
        BY <4>1, <4>2
    <3>3. proposals'[p].slashed
      <4>1. proposals' = [proposals EXCEPT ![p] = [proposals[p] EXCEPT !.slashed = TRUE]]
        BY <2>2 DEF ResolveWon
      <4>2. p \in DOMAIN proposals
        BY <3>1, Push DEF Arrays, Ids, IsArray
      <4> QED
        BY <3>1, <4>1, <4>2 DEF ProposalInv
    <3> QED
      BY <3>1, <3>2, <3>3 DEF ToSlash
  <2>3. \/ slashed' = slashed
        \/ \E caller \in Arbiters, c \in 1 .. Len(challenges) : ResolveWon(caller, c)
    <3>1. CASE Proposing
      BY <3>1 DEF Proposing, Propose, stakingVars, ledgerVars
    <3>2. CASE Judging
      BY <3>2 DEF Judging, Vote, Finalize, ExpireProposal, Challenge, stakingVars, ledgerVars
    <3>3. CASE \E caller \in Arbiters : Owning(caller)
      BY <3>3 DEF Owning, ResolveLost, SetMinQuorum, SetSlashPercentBps,
           SetChallengeBondMin, TransferConsensusOwnership, Configure, stakingVars,
           ledgerVars
    <3>4. CASE Elsewhere
      BY <3>4 DEF Elsewhere, Tick, ValidatorStep, Stake, RequestUnstake, Withdraw,
           stakingVars, ledgerVars
    <3>5. CASE (\E a \in Amounts : Receive(a)) \/ UNCHANGED vars
      BY <3>5 DEF Receive, vars, stakingVars, ledgerVars
    <3> QED
      BY <1>1, <3>1, <3>2, <3>3, <3>4, <3>5 DEF Next
  <2> QED
    BY <2>1, <2>2, <2>3
<1> QED
  BY <1>1, ConsensusInvariant, PTL DEF Spec, OnlyYesVotersSlashed

-----------------------------------------------------------------------------
(* The slots. A slot holds the last proposal made for it until it is freed; *)
(* a proposal still in time holds its slot unless an earlier one of the     *)
(* slot was expired: what can be expired is older than what is in time.     *)
Placed(p) ==
  /\ {"org", "start", "end", "body", "prev", "attestNonce", "createdAt"}
       \subseteq DOMAIN proposals[p]
  /\ proposals[p].org \in Orgs /\ proposals[p].attestNonce \in AttestNonces
  /\ proposals[p].createdAt \in Nat /\ proposals[p].createdAt <= now

SlotOf(p) == slot[proposals[p].org][proposals[p].attestNonce]

SameSlot(p, q) ==
  /\ proposals[p].org = proposals[q].org
  /\ proposals[p].attestNonce = proposals[q].attestNonce

Excused(p) == \E e \in expired : e < p /\ SameSlot(e, p)

SlotInv(p) ==
  /\ Placed(p)
  /\ SlotOf(p) # 0 => p <= SlotOf(p)
  /\ Expired(p) \/ SlotOf(p) = p \/ Excused(p)

SlotsInv ==
  /\ slot \in [Orgs -> [AttestNonces -> {0} \cup Ids]]
  /\ expired \subseteq Ids
  /\ \A p \in Ids : SlotInv(p)
  /\ \A p, q \in Ids : p < q => proposals[p].createdAt <= proposals[q].createdAt

(* Steps that neither propose nor expire leave the slots and age proposals. *)
LEMMA SlotsKept ==
  ASSUME SlotsInv, Ids' = Ids, now \in Nat, now' \in Nat, now <= now',
         UNCHANGED <<slot, expired>>,
         \A p \in Ids : /\ DOMAIN proposals'[p] = DOMAIN proposals[p]
                        /\ proposals'[p].org = proposals[p].org
                        /\ proposals'[p].attestNonce = proposals[p].attestNonce
                        /\ proposals'[p].createdAt = proposals[p].createdAt
  PROVE  SlotsInv'
<1>1. \A p, q \in Ids : SameSlot(p, q)' <=> SameSlot(p, q)
  BY DEF SameSlot
<1>2. ASSUME NEW p \in Ids PROVE SlotInv(p)'
  <2>1. SlotInv(p) /\ expired \subseteq Ids
    BY DEF SlotsInv
  <2>2. Placed(p)' /\ SlotOf(p)' = SlotOf(p)
    BY <2>1 DEF SlotInv, Placed, SlotOf
  <2>3. Excused(p) => Excused(p)'
    BY <1>1, <2>1 DEF Excused
  <2>4. Expired(p) => Expired(p)'
    <3>1. proposals[p].createdAt + PROPOSAL_TTL \in Nat
      BY <2>1, ConsensusAssumption DEF SlotInv, Placed
    <3> QED
      BY <3>1 DEF Expired
  <2> QED
    BY <2>1, <2>2, <2>3, <2>4 DEF SlotInv
<1> QED
  BY <1>2 DEF SlotsInv

(* Writing fields of a proposal other than those of its slot.               *)
LEMMA SlotsRewritten ==
  ASSUME SlotsInv, Arrays, Ids' = Ids, now \in Nat, NEW p \in Ids, NEW new,
         proposals' = [proposals EXCEPT ![p] = new],
         UNCHANGED <<slot, expired, now>>,
         DOMAIN new = DOMAIN proposals[p], new.org = proposals[p].org,
         new.attestNonce = proposals[p].attestNonce,
         new.createdAt = proposals[p].createdAt
  PROVE  SlotsInv'
<1>1. p \in DOMAIN proposals /\ \A q \in Ids : q \in DOMAIN proposals
  BY Push DEF Arrays, Ids, IsArray
<1> QED
  BY <1>1, SlotsKept

(* A new proposal takes a free slot: those in time had lost it.             *)
LEMMA SlotsProposed ==
  ASSUME ConsensusInv, SlotsInv, NEW v \in Validators, NEW o \in Orgs, NEW period,
         NEW body, NEW prev, NEW n \in AttestNonces,
         Propose(v, o, period, body, prev, n)
  PROVE  SlotsInv'
<1> DEFINE new == [org |-> o, start |-> period[1], end |-> period[2], body |-> body,
                   prev |-> prev, attestNonce |-> n, createdAt |-> now,
                   total |-> stakes[v].amount, yes |-> stakes[v].amount,
                   finalized |-> FALSE, slashed |-> FALSE]
<1> PICK k : k = Len(proposals) + 1
  OBVIOUS
<1>1. /\ proposals' = Append(proposals, new) /\ slot[o][n] = 0
      /\ slot' = [slot EXCEPT ![o][n] = k] /\ UNCHANGED <<expired, now>>
  BY DEF Propose, SlotFree, stakingVars
<1>2. Arrays /\ now \in Nat
  BY DEF ConsensusInv, Inv, StakingTypeOK
<1>3. /\ new.org = o /\ new.attestNonce = n /\ new.createdAt = now
      /\ {"org", "start", "end", "body", "prev", "attestNonce", "createdAt"}
           \subseteq DOMAIN new
  OBVIOUS
<1> HIDE DEF new
<1>4. /\ Len(proposals) \in Nat /\ k \in Nat /\ Len(proposals') = k
      /\ \A p \in Ids : proposals'[p] = proposals[p]
      /\ proposals'[k] = new
  BY <1>1, <1>2, Push DEF Arrays, Ids
<1>5. Ids' = Ids \cup {k} /\ k \notin Ids
      /\ \A p \in Ids : p \in Nat /\ p # 0 /\ p < k
  BY <1>4 DEF Ids
<1>6. /\ slot \in [Orgs -> [AttestNonces -> {0} \cup Ids]]
      /\ slot' \in [Orgs -> [AttestNonces -> {0} \cup Ids']] /\ slot'[o][n] = k
      /\ \A a \in Orgs, b \in AttestNonces : a # o \/ b # n => slot'[a][b] = slot[a][b]
  BY <1>1, <1>5 DEF SlotsInv
<1>7. ASSUME NEW p \in Ids PROVE SlotInv(p)'
  <2>1. SlotInv(p) /\ expired \subseteq Ids /\ proposals'[p] = proposals[p]
    BY <1>4 DEF SlotsInv
  <2>2. Placed(p)' /\ (Expired(p)' <=> Expired(p))
    BY <1>1, <2>1 DEF SlotInv, Placed, Expired
  <2>3. Excused(p) => Excused(p)'
    BY <1>1, <1>4, <2>1 DEF Excused, SameSlot
  <2>4. CASE proposals[p].org = o /\ proposals[p].attestNonce = n
    <3>1. SlotOf(p) = 0 /\ SlotOf(p)' = k
      BY <1>1, <1>6, <2>1, <2>4 DEF SlotOf
    <3> QED
      BY <1>4, <1>5, <2>1, <2>2, <2>3, <3>1 DEF SlotInv
  <2>5. CASE ~(proposals[p].org = o /\ proposals[p].attestNonce = n)
    <3>1. SlotOf(p)' = SlotOf(p)
      BY <1>6, <2>1, <2>5 DEF SlotOf, SlotInv, Placed
    <3> QED
      BY <2>1, <2>2, <2>3, <3>1 DEF SlotInv
  <2> QED
    BY <2>4, <2>5
<1>8. SlotInv(k)'
  BY <1>1, <1>2, <1>3, <1>4, <1>6 DEF SlotInv, Placed, SlotOf
<1>9. ASSUME NEW p \in Ids', NEW q \in Ids', p < q
      PROVE  proposals'[p].createdAt <= proposals'[q].createdAt
  <2>1. p \in Ids
    BY <1>5, <1>9
  <2>2. CASE q \in Ids
    BY <1>4, <1>9, <2>1, <2>2 DEF SlotsInv
  <2>3. CASE q = k
    BY <1>3, <1>4, <2>1, <2>3 DEF SlotsInv, SlotInv, Placed
  <2> QED
    BY <1>5, <2>2, <2>3
<1>10. (expired \subseteq Ids)'
  BY <1>1, <1>5 DEF SlotsInv
<1> QED
  BY <1>5, <1>6, <1>7, <1>8, <1>9, <1>10 DEF SlotsInv

(* What is expired frees its slot: a proposal of the slot that is still in  *)
(* time is younger, so excused from now on.                                 *)
LEMMA SlotsExpired ==
  ASSUME ConsensusInv, SlotsInv, NEW e \in Ids, ExpireProposal(e)
  PROVE  SlotsInv'
<1> PICK o, n : o = proposals[e].org /\ n = proposals[e].attestNonce
  OBVIOUS
<1>1. /\ slot' = [slot EXCEPT ![o][n] = 0] /\ expired' = expired \cup {e} /\ Expired(e)
      /\ UNCHANGED <<proposals, now>>
  BY DEF ExpireProposal, stakingVars
<1>2. Placed(e) /\ o \in Orgs /\ n \in AttestNonces
  BY DEF SlotsInv, SlotInv, Placed
<1>3. /\ slot' \in [Orgs -> [AttestNonces -> {0} \cup Ids]] /\ slot'[o][n] = 0
      /\ \A a \in Orgs, b \in AttestNonces : a # o \/ b # n => slot'[a][b] = slot[a][b]
  BY <1>1, <1>2 DEF SlotsInv
<1>4. ASSUME NEW p \in Ids PROVE SlotInv(p)'
  <2>1. SlotInv(p) /\ p \in Nat /\ e \in Nat
    BY DEF SlotsInv, Ids
  <2>2. Placed(p)' /\ (Expired(p)' <=> Expired(p))
    BY <1>1, <2>1 DEF SlotInv, Placed, Expired
  <2>3. Excused(p) => Excused(p)'
    BY <1>1, <2>1 DEF Excused, SameSlot
  <2>4. CASE SameSlot(e, p)
    <3>1. SlotOf(p)' = 0
      BY <1>1, <1>3, <2>4 DEF SlotOf, SameSlot
    <3>2. ~Expired(p) => e < p
      <4>1. p < e => proposals[p].createdAt <= proposals[e].createdAt
        BY DEF SlotsInv
      <4>2. /\ proposals[p].createdAt \in Nat /\ proposals[e].createdAt \in Nat
            /\ PROPOSAL_TTL \in Nat /\ now \in Nat
        BY <1>2, <2>1, ConsensusAssumption DEF SlotInv, Placed, ConsensusInv, Inv, StakingTypeOK
      <4> QED
        BY <1>1, <2>1, <4>1, <4>2 DEF Expired
    <3>3. ~Expired(p) => Excused(p)'
      BY <1>1, <2>4, <3>2 DEF Excused, SameSlot
    <3> QED
      BY <2>1, <2>2, <3>1, <3>3 DEF SlotInv
  <2>5. CASE ~SameSlot(e, p)
    <3>1. SlotOf(p)' = SlotOf(p)
      BY <1>1, <1>3, <2>1, <2>5 DEF SlotOf, SameSlot, SlotInv, Placed
    <3> QED
      BY <2>1, <2>2, <2>3, <3>1 DEF SlotInv
  <2> QED
    BY <2>4, <2>5
<1> QED
  BY <1>1, <1>3, <1>4 DEF SlotsInv, Ids

(* Votes, finalizations and won challenges write a proposal's other fields. *)
LEMMA SlotsJudged ==
  ASSUME ConsensusInv, ConsensusInv', SlotsInv,
         \/ \E p \in Ids, v \in Validators, inFavor \in BOOLEAN : Vote(v, p, inFavor)
         \/ \E p \in Ids : Finalize(p)
         \/ \E caller \in Arbiters, c \in 1 .. Len(challenges) : ResolveWon(caller, c)
  PROVE  SlotsInv'
<1>1. Arrays /\ now \in Nat
  BY DEF ConsensusInv, Inv, StakingTypeOK
<1>2. ASSUME NEW p \in Ids, NEW v \in Validators, NEW inFavor \in BOOLEAN,
             Vote(v, p, inFavor)
      PROVE  SlotsInv'
  <2> DEFINE total == proposals[p].total + stakes[v].amount
             yes == IF inFavor THEN proposals[p].yes + stakes[v].amount ELSE proposals[p].yes
             new == [proposals[p] EXCEPT !.total = total, !.yes = yes]
  <2>1. proposals' = [proposals EXCEPT ![p] = new] /\ UNCHANGED <<slot, expired, now>>
    BY <1>2 DEF Vote, stakingVars
  <2>2. /\ DOMAIN new = DOMAIN proposals[p] /\ new.org = proposals[p].org
        /\ new.attestNonce = proposals[p].attestNonce
        /\ new.createdAt = proposals[p].createdAt
    BY DEF SlotsInv, SlotInv, Placed
  <2> HIDE DEF new
  <2>3. Ids' = Ids
    BY <1>1, <2>1, OneWritten DEF Arrays, Ids
  <2> QED
    BY <1>1, <2>1, <2>2, <2>3, SlotsRewritten
<1>3. ASSUME NEW p \in Ids, Finalize(p) PROVE SlotsInv'
  <2> DEFINE new == [proposals[p] EXCEPT !.finalized = TRUE]
  <2>1. proposals' = [proposals EXCEPT ![p] = new] /\ UNCHANGED <<slot, expired, now>>
    BY <1>3 DEF Finalize, stakingVars
  <2>2. /\ DOMAIN new = DOMAIN proposals[p] /\ new.org = proposals[p].org
        /\ new.attestNonce = proposals[p].attestNonce
        /\ new.createdAt = proposals[p].createdAt
    BY DEF SlotsInv, SlotInv, Placed
  <2> HIDE DEF new
  <2>3. Ids' = Ids
    BY <1>1, <2>1, OneWritten DEF Arrays, Ids
  <2> QED
    BY <1>1, <2>1, <2>2, <2>3, SlotsRewritten
<1>4. ASSUME NEW caller \in Arbiters, NEW c \in 1 .. Len(challenges), ResolveWon(caller, c)
      PROVE  SlotsInv'
  <2> PICK p : p = challenges[c].proposal
    OBVIOUS
  <2> DEFINE new == [proposals[p] EXCEPT !.slashed = TRUE]
  <2>1. /\ proposals' = [proposals EXCEPT ![p] = new] /\ UNCHANGED <<slot, expired, now>>
        /\ p \in Ids
    BY <1>4 DEF ResolveWon, ConsensusInv, ChallengeInv
  <2>2. /\ DOMAIN new = DOMAIN proposals[p] /\ new.org = proposals[p].org
        /\ new.attestNonce = proposals[p].attestNonce
        /\ new.createdAt = proposals[p].createdAt
    BY <2>1 DEF SlotsInv, SlotInv, Placed
  <2> HIDE DEF new
  <2>3. Ids' = Ids
    BY <1>1, <2>1, OneWritten DEF Arrays, Ids
  <2> QED
    BY <1>1, <2>1, <2>2, <2>3, SlotsRewritten
<1> QED
  BY <1>2, <1>3, <1>4

LEMMA SlotsStep ==
  ASSUME ConsensusInv, ConsensusInv', SlotsInv, [Next]_vars
  PROVE  SlotsInv'
<1>1. CASE Proposing
  BY <1>1, SlotsProposed DEF Proposing
<1>2. CASE \E p \in Ids : ExpireProposal(p)
  BY <1>2, SlotsExpired
<1>3. CASE \/ \E p \in Ids, v \in Validators, inFavor \in BOOLEAN : Vote(v, p, inFavor)
           \/ \E p \in Ids : Finalize(p)
           \/ \E caller \in Arbiters, c \in 1 .. Len(challenges) : ResolveWon(caller, c)
  BY <1>3, SlotsJudged
<1>4. CASE UNCHANGED <<proposals, slot, expired>>
  <2>1. now \in Nat /\ now' \in Nat /\ Ids' = Ids
    BY <1>4 DEF ConsensusInv, Inv, StakingTypeOK, Ids
  <2>2. now <= now'
    <3>1. now' = now \/ now' = now + 1
      <4>1. CASE Proposing \/ Judging
        <5>1. CASE Proposing
          BY <5>1 DEF Proposing, Propose, ExpireProposal, stakingVars
        <5>2. CASE Judging
          BY <5>2 DEF Judging, Vote, Finalize, Challenge, ExpireProposal, stakingVars
        <5> QED BY <4>1, <5>1, <5>2
      <4>2. CASE \E caller \in Arbiters : Owning(caller)
        <5>1. \A caller, c : ResolveWon(caller, c) \/ ResolveLost(caller, c) => now' = now
          BY DEF ResolveWon, ResolveLost, stakingVars
        <5>2. ASSUME \/ \E q \in Quorums : SetMinQuorum(q)
                     \/ \E bps \in SlashPercents : SetSlashPercentBps(bps)
                     \/ \E bond \in Bonds : SetChallengeBondMin(bond)
                     \/ \E a \in Arbiters : TransferConsensusOwnership(a)
              PROVE  UNCHANGED stakingVars
          BY <5>2 DEF SetMinQuorum, SetSlashPercentBps, SetChallengeBondMin,
             TransferConsensusOwnership, Configure
        <5> QED
          BY <4>2, <5>1, <5>2 DEF Owning, stakingVars
      <4>3. CASE Elsewhere
        BY <4>3 DEF Elsewhere, Tick, ValidatorStep, Stake, RequestUnstake, Withdraw,
             stakingVars
      <4>4. CASE (\E a \in Amounts : Receive(a)) \/ UNCHANGED vars
        BY <4>4 DEF Receive, vars, stakingVars
      <4> QED
        BY <4>1, <4>2, <4>3, <4>4 DEF Next
    <3> QED
      BY <2>1, <3>1
  <2> QED
    BY <1>4, <2>1, <2>2, SlotsKept
<1>5. CASE Elsewhere \/ (\E a \in Amounts : Receive(a)) \/ UNCHANGED vars
  BY <1>4, <1>5 DEF Elsewhere, Receive, consensusVars, vars
<1>6. CASE \E p \in Ids, bond \in Amounts : Challenge(p, bond)
  BY <1>4, <1>6 DEF Challenge
<1>7. CASE \E caller \in Arbiters : Owning(caller)
  BY <1>3, <1>4, <1>7 DEF Owning, ResolveLost, SetMinQuorum, SetSlashPercentBps,
     SetChallengeBondMin, TransferConsensusOwnership, Configure
<1> QED
  BY <1>1, <1>2, <1>3, <1>5, <1>6, <1>7 DEF Next, Judging

(* The invariant of the slots.                                              *)
THEOREM SlotsInvariant == Spec => []SlotsInv
<1>1. Init => SlotsInv
  <2> SUFFICES ASSUME Init PROVE SlotsInv
    OBVIOUS
  <2>1. Ids = {}
    BY EmptyArray DEF Init, Ids
  <2> QED
    BY <2>1 DEF Init, SlotsInv
<1>2. ConsensusInv /\ ConsensusInv' /\ SlotsInv /\ [Next]_vars => SlotsInv'
  BY SlotsStep
<1> QED
  BY <1>1, <1>2, ConsensusInvariant, PTL DEF Spec

(* Two open proposals for one nonce of an organisation need one of the slot *)
(* that was expired before them, for any number of proposals and any time   *)
(* to live.                                                                 *)
THEOREM CompetitionIsExplained == Spec => []CompetitionNeedsExpiry
<1>1. SlotsInv => CompetitionNeedsExpiry
  <2> SUFFICES ASSUME SlotsInv, NEW p \in Ids, NEW q \in Ids, p < q, Open(p), Open(q),
                      SameSlot(p, q)
               PROVE  Excused(p)
    BY DEF CompetitionNeedsExpiry, SameSlot, Excused
  <2>1. SlotInv(p) /\ SlotInv(q) /\ p \in Nat /\ q \in Nat /\ p # 0 /\ q # 0
    BY DEF SlotsInv, Ids
  <2>2. SlotOf(p) = SlotOf(q)
    BY DEF SlotOf, SameSlot
  <2>3. SlotOf(p) # p
    BY <2>1, <2>2 DEF SlotInv
  <2> QED
    BY <2>1, <2>3 DEF SlotInv, Open
<1> QED
  BY <1>1, SlotsInvariant, PTL

-----------------------------------------------------------------------------
(* The registry implements the abstract chain. A ledger is the latest nonce *)
(* and the records of each organisation.                                    *)
LinkedAt(L, o, n) ==
  /\ L.att[o][n].nonce = n /\ L.att[o][n].org = o
  /\ L.att[o][n].prev = IF n = 1 THEN ZERO_HASH ELSE compute_chain_hash(L.att[o][n - 1])

LedgerInv(L) ==
  /\ DOMAIN L = {"nonce", "att"}
  /\ L.nonce \in [Orgs -> Nat]
  /\ DOMAIN L.att = Orgs /\ L.att = [o \in Orgs |-> L.att[o]]
  /\ \A o \in Orgs : DOMAIN L.att[o] = 1 .. L.nonce[o]
  /\ \A o \in Orgs : \A n \in 1 .. L.nonce[o] : LinkedAt(L, o, n)

(* K has the records of L, and maybe more.                                  *)
Grown(L, K) ==
  \A o \in Orgs : /\ L.nonce[o] <= K.nonce[o]
                  /\ \A n \in 1 .. L.nonce[o] : K.att[o][n] = L.att[o][n]

(* Growing is transitive.                                                   *)
LEMMA GrownTwice ==
  ASSUME NEW L, NEW K, NEW M, LedgerInv(L), LedgerInv(K), LedgerInv(M),
         Grown(L, K), Grown(K, M)
  PROVE  Grown(L, M)
<1> SUFFICES ASSUME NEW o \in Orgs
             PROVE  /\ L.nonce[o] <= M.nonce[o]
                    /\ \A n \in 1 .. L.nonce[o] : M.att[o][n] = L.att[o][n]
  BY DEF Grown
<1>1. L.nonce[o] \in Nat /\ K.nonce[o] \in Nat /\ M.nonce[o] \in Nat
  BY DEF LedgerInv
<1>2. L.nonce[o] <= K.nonce[o] /\ K.nonce[o] <= M.nonce[o]
  BY DEF Grown
<1>3. \A n \in 1 .. L.nonce[o] : n \in 1 .. K.nonce[o]
  BY <1>1, <1>2
<1> QED
  BY <1>1, <1>2, <1>3 DEF Grown

(* One record goes to the end of its organisation's history.                *)
LEMMA AttestedGrows ==
  ASSUME NEW L, LedgerInv(L), NEW in, in.org \in Orgs, CanAttest(L, in)
  PROVE  LedgerInv(Attested(L, in)) /\ Grown(L, Attested(L, in))
<1> PICK a, k : a = in.org /\ k = L.nonce[in.org] + 1
  OBVIOUS
<1> PICK K : K = Attested(L, in)
  OBVIOUS
<1> PICK r : r = Record(in, k)
  OBVIOUS
<1>1. a \in Orgs /\ L.nonce \in [Orgs -> Nat] /\ k \in Nat /\ k = L.nonce[a] + 1
  BY DEF LedgerInv
<1>2. /\ r.nonce = k /\ r.org = a
      /\ r.prev = IF k = 1 THEN ZERO_HASH ELSE compute_chain_hash(L.att[a][k - 1])
  <2>1. r.nonce = k /\ r.org = a /\ r.prev = in.prev
    BY DEF Record
  <2>2. in.prev = ExpectedPrev(L, a)
    BY DEF CanAttest
  <2> QED
    BY <1>1, <2>1, <2>2 DEF ExpectedPrev
<1>3. /\ K.nonce = [L.nonce EXCEPT ![a] = k]
      /\ K.att = [L.att EXCEPT ![a] =
                    [n \in DOMAIN L.att[a] \cup {k} |-> IF n = k THEN r ELSE L.att[a][n]]]
      /\ DOMAIN K = {"nonce", "att"}
  BY DEF Attested
<1>4. /\ K.nonce \in [Orgs -> Nat] /\ K.nonce[a] = k
      /\ \A o \in Orgs : o # a => K.nonce[o] = L.nonce[o]
  BY <1>1, <1>3
<1>5. /\ DOMAIN K.att = Orgs /\ K.att = [o \in Orgs |-> K.att[o]]
      /\ \A o \in Orgs : o # a => K.att[o] = L.att[o]
      /\ K.att[a] = [n \in DOMAIN L.att[a] \cup {k} |-> IF n = k THEN r ELSE L.att[a][n]]
  BY <1>1, <1>3 DEF LedgerInv
<1>6. DOMAIN L.att[a] = 1 .. k - 1
  BY <1>1 DEF LedgerInv
<1>7. /\ DOMAIN K.att[a] = 1 .. k /\ K.att[a][k] = r
      /\ \A n \in 1 .. k - 1 : K.att[a][n] = L.att[a][n]
  <2>1. /\ (1 .. k - 1) \cup {k} = 1 .. k /\ k \in 1 .. k
        /\ \A n \in 1 .. k - 1 : n # k /\ n \in 1 .. k
    BY <1>1
  <2>2. K.att[a] = [n \in 1 .. k |-> IF n = k THEN r ELSE L.att[a][n]]
    BY <1>5, <1>6, <2>1
  <2> QED
    BY <2>1, <2>2
<1>8. Grown(L, K)
  <2> SUFFICES ASSUME NEW o \in Orgs
               PROVE  /\ L.nonce[o] <= K.nonce[o]
                      /\ \A n \in 1 .. L.nonce[o] : K.att[o][n] = L.att[o][n]
    BY DEF Grown
  <2>1. CASE o = a
    BY <1>1, <1>4, <1>7, <2>1
  <2>2. CASE o # a
    BY <1>1, <1>4, <1>5, <2>2
  <2> QED
    BY <2>1, <2>2
<1>9. ASSUME NEW o \in Orgs
      PROVE  /\ DOMAIN K.att[o] = 1 .. K.nonce[o]
             /\ \A n \in 1 .. K.nonce[o] : LinkedAt(K, o, n)
  <2>1. /\ DOMAIN L.att[o] = 1 .. L.nonce[o]
        /\ \A n \in 1 .. L.nonce[o] : LinkedAt(L, o, n)
    BY DEF LedgerInv
  <2>2. CASE o # a
    BY <1>4, <1>5, <2>1, <2>2 DEF LinkedAt
  <2>3. CASE o = a
    <3>1. DOMAIN K.att[o] = 1 .. K.nonce[o]
      BY <1>4, <1>7, <2>3
    <3>2. LinkedAt(K, o, k)
      <4>1. k # 1 => k - 1 \in 1 .. k - 1
        BY <1>1
      <4> QED
        BY <1>2, <1>7, <2>3, <4>1 DEF LinkedAt
    <3>3. ASSUME NEW n \in 1 .. k - 1 PROVE LinkedAt(K, o, n)
      <4>1. LinkedAt(L, o, n)
        BY <1>1, <2>1, <2>3
      <4>2. n # 1 => n - 1 \in 1 .. k - 1
        BY <1>1
      <4> QED
        BY <1>7, <2>3, <4>1, <4>2 DEF LinkedAt
    <3>4. \A n \in 1 .. K.nonce[o] : n = k \/ n \in 1 .. k - 1
      BY <1>1, <1>4, <2>3
    <3> QED
      BY <3>1, <3>2, <3>3, <3>4
  <2> QED
    BY <2>2, <2>3
<1> QED
  BY <1>3, <1>4, <1>5, <1>8, <1>9 DEF LedgerInv

(* What a batch of two leaves behind.                                       *)
LEMMA AfterTwo ==
  ASSUME NEW a, NEW b
  PROVE  /\ LedgerAfter(<<a, b>>)[0] = Ledger
         /\ LedgerAfter(<<a, b>>)[1] = Attested(Ledger, a)
         /\ LedgerAfter(<<a, b>>)[2] = Attested(Attested(Ledger, a), b)
<1> DEFINE ins == <<a, b>>
           Step(f, i) == IF i = 0 THEN Ledger ELSE Attested(f[i - 1], ins[i])
           Sol(f) == f = [i \in 0 .. 2 |-> Step(f, i)]
           w == [i \in 0 .. 2 |-> IF i = 0 THEN Ledger
                                  ELSE IF i = 1 THEN Attested(Ledger, a)
                                  ELSE Attested(Attested(Ledger, a), b)]
<1>1. Len(ins) = 2 /\ ins[1] = a /\ ins[2] = b
  OBVIOUS
<1>2. \A i \in 0 .. 2 : w[i] = Step(w, i)
  <2>1. w[0] = Ledger /\ w[1] = Attested(Ledger, a) /\ w[2] = Attested(Attested(Ledger, a), b)
    OBVIOUS
  <2>2. w[0] = Step(w, 0) /\ w[1] = Step(w, 1) /\ w[2] = Step(w, 2)
    BY <1>1, <2>1
  <2> QED
    BY <2>2
<1>3. Sol(w)
  BY <1>2
<1>4. LedgerAfter(ins) = CHOOSE f : Sol(f)
  BY <1>1 DEF LedgerAfter
<1> PICK f : f = LedgerAfter(ins)
  OBVIOUS
<1>5. Sol(f)
  BY <1>3, <1>4
<1> HIDE DEF ins
<1>6. f[0] = Step(f, 0) /\ f[1] = Step(f, 1) /\ f[2] = Step(f, 2)
  BY <1>5
<1> QED
  BY <1>1, <1>6 DEF ins

(* A history is a sequence as long as the nonce, with the records in it.    *)
LEMMA HistoryOf ==
  ASSUME NEW k \in Nat, NEW f, NEW s, s = [n \in 1 .. k |-> f[n]]
  PROVE  Len(s) = k /\ \A n \in 1 .. k : s[n] = f[n]
<1> DEFINE S == {f[n] : n \in 1 .. k}
<1>1. s \in [1 .. k -> S]
  OBVIOUS
<1> HIDE DEF S
<1>2. s \in Seq(S)
  BY <1>1, SeqDef
<1>3. DOMAIN s = 1 .. k
  BY <1>1
<1> QED
  BY <1>2, <1>3

(* A ledger that grew is an extension of the abstract chain.                *)
LEMMA GrownExtends ==
  ASSUME LedgerInv(Ledger), LedgerInv(Ledger'), Grown(Ledger, Ledger')
  PROVE  Chain!Extend
<1> SUFFICES ASSUME NEW o \in Orgs
             PROVE  /\ Chain!Extends(history[o], history'[o])
                    /\ Chain!Linked(history'[o])
                    /\ \A n \in 1 .. Len(history'[o]) : history'[o][n].org = o
  BY DEF Chain!Extend, history
<1> PICK j, k : j = latestNonce[o] /\ k = latestNonce'[o]
  OBVIOUS
<1>1. j \in Nat /\ k \in Nat /\ j <= k
  BY DEF LedgerInv, Grown, Ledger
<1>2. /\ history[o] = [n \in 1 .. j |-> attestations[o][n]]
      /\ history'[o] = [n \in 1 .. k |-> attestations'[o][n]]
  BY DEF history
<1>3. /\ Len(history[o]) = j
      /\ \A n \in 1 .. j : history[o][n] = attestations[o][n]
      /\ Len(history'[o]) = k
      /\ \A n \in 1 .. k : history'[o][n] = attestations'[o][n]
  BY <1>1, <1>2, HistoryOf
<1>4. \A n \in 1 .. j : n \in 1 .. k /\ attestations'[o][n] = attestations[o][n]
  BY <1>1 DEF Grown, Ledger
<1>5. \A n \in 1 .. k :
        /\ attestations'[o][n].nonce = n /\ attestations'[o][n].org = o
        /\ attestations'[o][n].prev =
             IF n = 1 THEN ZERO_HASH ELSE compute_chain_hash(attestations'[o][n - 1])
  BY DEF LedgerInv, LinkedAt, Ledger
<1>6. Chain!Extends(history[o], history'[o])
  BY <1>1, <1>3, <1>4 DEF Chain!Extends
<1>7. Chain!Linked(history'[o])
  <2> SUFFICES ASSUME NEW n \in 1 .. k
               PROVE  /\ history'[o][n].nonce = n
                      /\ history'[o][n].prev \in Chain!PrevHashes(history'[o], n)
    BY <1>3 DEF Chain!Linked
  <2>1. n # 1 => n - 1 \in 1 .. k
    BY <1>1
  <2> QED
    BY <1>3, <1>5, <2>1 DEF Chain!PrevHashes, Chain!ZERO_HASH, Chain!compute_chain_hash,
       ZERO_HASH, compute_chain_hash
<1> QED
  BY <1>3, <1>5, <1>6, <1>7

(* A call of the registry extends every history or leaves it.               *)
LEMMA AttestGrows ==
  ASSUME LedgerInv(Ledger), NEW caller, NEW in, in.org \in Orgs, Attest(caller, in)
  PROVE  LedgerInv(Ledger') /\ Grown(Ledger, Ledger')
<1>1. CanAttest(Ledger, in) /\ Ledger' = Attested(Ledger, in)
  <2>1. Attested(Ledger, in) = [nonce |-> Attested(Ledger, in).nonce,
                                att |-> Attested(Ledger, in).att]
    BY DEF Attested
  <2> QED
    BY <2>1 DEF Attest, Commit, Ledger
<1> QED
  BY <1>1, AttestedGrows

(* A batch of two is two records, one after the other.                      *)
LEMMA BatchGrows ==
  ASSUME LedgerInv(Ledger), NEW caller, NEW a, NEW b, a.org \in Orgs, b.org \in Orgs,
         BatchAttest(caller, <<a, b>>)
  PROVE  LedgerInv(Ledger') /\ Grown(Ledger, Ledger')
<1> PICK K : K = Attested(Ledger, a)
  OBVIOUS
<1> PICK M : M = Attested(K, b)
  OBVIOUS
<1>1. /\ CanAttest(Ledger, a) /\ CanAttest(K, b)
      /\ latestNonce' = M.nonce /\ attestations' = M.att
  <2>1. Len(<<a, b>>) = 2 /\ <<a, b>>[1] = a /\ <<a, b>>[2] = b
    OBVIOUS
  <2>2. /\ CanAttest(LedgerAfter(<<a, b>>)[0], a)
        /\ CanAttest(LedgerAfter(<<a, b>>)[1], b)
    <3>1. \A i \in 1 .. 2 : CanAttest(LedgerAfter(<<a, b>>)[i - 1], <<a, b>>[i])
      BY <2>1 DEF BatchAttest, CanAttestAll
    <3> QED
      BY <2>1, <3>1
  <2> QED
    BY <2>1, <2>2, AfterTwo DEF BatchAttest, Commit
<1>2. Ledger' = M
  <2>1. M = [nonce |-> M.nonce, att |-> M.att]
    BY DEF Attested
  <2> QED
    BY <1>1, <2>1 DEF Ledger
<1>3. LedgerInv(K) /\ Grown(Ledger, K)
  BY <1>1, AttestedGrows
<1>4. LedgerInv(M) /\ Grown(K, M)
  BY <1>1, <1>3, AttestedGrows
<1> QED
  BY <1>2, <1>3, <1>4, GrownTwice

(* A step that writes no record keeps the ledger.                           *)
LEMMA LedgerKept ==
  ASSUME LedgerInv(Ledger), UNCHANGED <<latestNonce, attestations>>
  PROVE  LedgerInv(Ledger') /\ Grown(Ledger, Ledger')
<1>1. Ledger' = Ledger
  BY DEF Ledger
<1> QED
  BY <1>1 DEF Grown, LedgerInv

LEMMA CallGrows ==
  ASSUME LedgerInv(Ledger), NEW caller, CallRegistry(caller)
  PROVE  LedgerInv(Ledger') /\ Grown(Ledger, Ledger')
<1>1. CASE \E a \in Accounts \cup {ZeroAddress} :
             \/ GrantAttestor(caller, a)
             \/ RevokeAttestor(caller, a)
             \/ TransferOwnership(caller, a)
  BY <1>1, LedgerKept DEF GrantAttestor, RevokeAttestor, TransferOwnership
<1>2. ASSUME NEW in \in Inputs, Attest(caller, in)
      PROVE  LedgerInv(Ledger') /\ Grown(Ledger, Ledger')
  BY <1>2, AttestGrows DEF Inputs
<1>3. ASSUME NEW in \in Inputs, BatchOfTwo(caller, in)
      PROVE  LedgerInv(Ledger') /\ Grown(Ledger, Ledger')
  <2> PICK o \in Orgs :
        \E h : BatchAttest(caller, <<in, [in EXCEPT !.org = o, !.prev = h]>>)
    BY <1>3 DEF BatchOfTwo
  <2> PICK h : BatchAttest(caller, <<in, [in EXCEPT !.org = o, !.prev = h]>>)
    OBVIOUS
  <2>1. in.org \in Orgs /\ [in EXCEPT !.org = o, !.prev = h].org = o
    BY DEF Inputs
  <2> QED
    BY <2>1, BatchGrows
<1> QED
  BY <1>1, <1>2, <1>3 DEF CallRegistry

(* The registry starts as the empty chain.                                  *)
LEMMA EmptyLedger ==
  ASSUME latestNonce = [o \in Orgs |-> 0], attestations = [o \in Orgs |-> <<>>]
  PROVE  LedgerInv(Ledger) /\ Chain!ChainInit
<1>1. DOMAIN <<>> = 1 .. 0 /\ 1 .. 0 = {}
  OBVIOUS
<1>2. LedgerInv(Ledger)
  BY <1>1 DEF LedgerInv, Ledger
<1>3. \A o \in Orgs : history[o] = <<>>
  BY <1>1 DEF history
<1> QED
  BY <1>2, <1>3 DEF Chain!ChainInit, history

(* Whoever attests, alone or in batches, and however the roles change hands, *)
(* the registry implements the append-only chain.                           *)
THEOREM RegistryImplementsChain == ContractSpec => RefinesChain
<1>1. ContractInit => LedgerInv(Ledger) /\ Chain!ChainInit
  BY EmptyLedger DEF ContractInit
<1>2. LedgerInv(Ledger) /\ [ContractNext]_contractVars
        => LedgerInv(Ledger)' /\ [Chain!Extend]_history
  <2> SUFFICES ASSUME LedgerInv(Ledger), [ContractNext]_contractVars
               PROVE  LedgerInv(Ledger)' /\ Chain!Extend
    OBVIOUS
  <2>1. LedgerInv(Ledger') /\ Grown(Ledger, Ledger')
    BY CallGrows, LedgerKept DEF ContractNext, contractVars
  <2>2. LedgerInv(Ledger)'
    BY <2>1 DEF LedgerInv, LinkedAt
  <2> QED
    BY <2>1, <2>2, GrownExtends
<1> QED
  BY <1>1, <1>2, PTL DEF ContractSpec, RefinesChain, Chain!ChainSpec

(* The same, when the consensus contract writes finalized proposals to it   *)
(* between the calls of other attestors.                                    *)
LEMMA LedgerStep ==
  ASSUME LedgerInv(Ledger), SlotsInv, [Next]_vars
  PROVE  LedgerInv(Ledger') /\ Grown(Ledger, Ledger')
<1>1. ASSUME NEW p \in Ids, Finalize(p)
      PROVE  LedgerInv(Ledger') /\ Grown(Ledger, Ledger')
  <2>1. InputOf(p).org \in Orgs
    BY DEF InputOf, SlotsInv, SlotInv, Placed
  <2>2. Attest(Self, InputOf(p))
    BY <1>1 DEF Finalize
  <2> QED
    BY <2>1, <2>2, AttestGrows
<1>2. CASE Proposing
  BY <1>2, LedgerKept DEF Proposing, Propose, contractVars
<1>3. CASE Judging
  BY <1>1, <1>3, LedgerKept DEF Judging, Vote, ExpireProposal, Challenge, contractVars
<1>4. CASE Elsewhere
  BY <1>4, LedgerKept, CallGrows DEF Elsewhere, contractVars
<1>5. CASE \E caller \in Arbiters : Owning(caller)
  <2>1. \A caller, c : ResolveWon(caller, c) \/ ResolveLost(caller, c)
                        => UNCHANGED contractVars
    BY DEF ResolveWon, ResolveLost
  <2>2. ASSUME \/ \E q \in Quorums : SetMinQuorum(q)
               \/ \E bps \in SlashPercents : SetSlashPercentBps(bps)
               \/ \E bond \in Bonds : SetChallengeBondMin(bond)
               \/ \E a \in Arbiters : TransferConsensusOwnership(a)
        PROVE  UNCHANGED contractVars
    BY <2>2 DEF SetMinQuorum, SetSlashPercentBps, SetChallengeBondMin,
       TransferConsensusOwnership, Configure
  <2>3. UNCHANGED contractVars
    BY <1>5, <2>1, <2>2 DEF Owning
  <2> QED
    BY <2>3, LedgerKept DEF contractVars
<1>6. CASE (\E a \in Amounts : Receive(a)) \/ UNCHANGED vars
  BY <1>6, LedgerKept DEF Receive, vars, contractVars
<1> QED
  BY <1>2, <1>3, <1>4, <1>5, <1>6 DEF Next

(* The registry's records are linked and numbered in every reachable state. *)
THEOREM LedgerInvariant == Spec => []LedgerInv(Ledger)
<1>1. Init => LedgerInv(Ledger)
  BY EmptyLedger DEF Init
<1>2. LedgerInv(Ledger) /\ SlotsInv /\ [Next]_vars => LedgerInv(Ledger)'
  BY LedgerStep DEF LedgerInv, LinkedAt
<1> QED
  BY <1>1, <1>2, SlotsInvariant, PTL DEF Spec

(* The consensus contract keeps the registry an append-only chain.          *)
THEOREM ConsensusKeepsChain == Spec => RefinesChain
<1>1. Init => Chain!ChainInit
  BY EmptyLedger DEF Init
<1>2. LedgerInv(Ledger) /\ SlotsInv /\ [Next]_vars => [Chain!Extend]_history
  BY LedgerStep, GrownExtends
<1> QED
  BY <1>1, <1>2, LedgerInvariant, SlotsInvariant, PTL DEF Spec, RefinesChain, Chain!ChainSpec

(* The hash of a record holds its nonce, so that a history has one place    *)
(* for what is linked to it.                                                *)
LEMMA OnePlace ==
  ASSUME NEW L, LedgerInv(L), NEW in, NEW o \in Orgs,
         NEW m \in 1 .. L.nonce[o], NEW n \in 1 .. L.nonce[o],
         L.att[o][m].prev = L.att[o][n].prev
  PROVE  m = n
<1>1. L.nonce[o] \in Nat /\ LinkedAt(L, o, m) /\ LinkedAt(L, o, n)
  BY DEF LedgerInv
<1>2. ASSUME NEW i \in 1 .. L.nonce[o], i # 1
      PROVE  /\ Len(L.att[o][i].prev) = 6 /\ L.att[o][i].prev[6] = i - 1
  <2>1. i - 1 \in 1 .. L.nonce[o]
    BY <1>1, <1>2
  <2>2. LinkedAt(L, o, i) /\ LinkedAt(L, o, i - 1)
    BY <2>1 DEF LedgerInv
  <2> QED
    BY <1>2, <2>2 DEF LinkedAt, compute_chain_hash
<1>3. ASSUME NEW i \in 1 .. L.nonce[o], i = 1
      PROVE  Len(L.att[o][i].prev) = 0
  <2>1. LinkedAt(L, o, i)
    BY DEF LedgerInv
  <2> QED
    BY <1>3, <2>1 DEF LinkedAt, ZERO_HASH
<1>4. CASE m = 1 \/ n = 1
  BY <1>2, <1>3, <1>4
<1>5. CASE m # 1 /\ n # 1
  BY <1>1, <1>2, <1>5
<1> QED
  BY <1>4, <1>5

(* A recorded proposal is recorded at one place, which stays.               *)
LEMMA RecordedKept ==
  ASSUME LedgerInv(Ledger), LedgerInv(Ledger'), Grown(Ledger, Ledger'), NEW p \in Ids,
         proposals[p].org \in Orgs, proposals'[p].org = proposals[p].org,
         InputOf(p)' = InputOf(p), RecordedAt(p) # {}
  PROVE  RecordedAt(p)' = RecordedAt(p)
<1> PICK o, in : o = proposals[p].org /\ in = InputOf(p)
  OBVIOUS
<1>1. /\ RecordedAt(p) =
           {n \in 1 .. latestNonce[o] : Record(in, n) = attestations[o][n]}
      /\ RecordedAt(p)' =
           {n \in 1 .. latestNonce'[o] : Record(in, n) = attestations'[o][n]}
  BY DEF RecordedAt
<1>2. /\ latestNonce[o] \in Nat /\ latestNonce'[o] \in Nat
      /\ latestNonce[o] <= latestNonce'[o]
      /\ \A n \in 1 .. latestNonce[o] : attestations'[o][n] = attestations[o][n]
  BY DEF LedgerInv, Grown, Ledger
<1>3. RecordedAt(p) \subseteq RecordedAt(p)'
  BY <1>1, <1>2
<1>4. ASSUME NEW m \in RecordedAt(p)', NEW n \in RecordedAt(p)' PROVE m = n
  <2>1. attestations'[o][m].prev = in.prev /\ attestations'[o][n].prev = in.prev
    BY <1>1, <1>4 DEF Record
  <2>2. m \in 1 .. latestNonce'[o] /\ n \in 1 .. latestNonce'[o]
    BY <1>1, <1>4
  <2> PICK K : K = Ledger'
    OBVIOUS
  <2>3. LedgerInv(K) /\ K.nonce[o] = latestNonce'[o] /\ K.att[o] = attestations'[o]
    BY DEF Ledger
  <2> QED
    BY <2>1, <2>2, <2>3, OnePlace
<1> QED
  BY <1>3, <1>4

(* A proposal that is finalized goes to the end of the history, where no    *)
(* other is recorded.                                                       *)
LEMMA FinalizeRecords ==
  ASSUME LedgerInv(Ledger), SlotsInv, NEW p \in Ids, Finalize(p), InputOf(p)' = InputOf(p),
         proposals'[p].org = proposals[p].org
  PROVE  /\ RecordedAt(p)' # {}
         /\ \A n \in 1 .. latestNonce[proposals[p].org] : n \notin RecordedAt(p)'
<1> PICK o, in, k : /\ o = proposals[p].org /\ in = InputOf(p)
                    /\ k = latestNonce[o] + 1
  OBVIOUS
<1>1. in.org = o /\ o \in Orgs /\ latestNonce[o] \in Nat /\ k \in Nat
  BY DEF InputOf, SlotsInv, SlotInv, Placed, LedgerInv, Ledger
<1>2. LedgerInv(Ledger') /\ Grown(Ledger, Ledger') /\ CanAttest(Ledger, in)
  BY <1>1, AttestGrows DEF Finalize, Attest
<1>3. latestNonce'[o] = k /\ attestations'[o][k] = Record(in, k)
  <2>1. /\ latestNonce' = [latestNonce EXCEPT ![o] = k]
        /\ attestations' = [attestations EXCEPT ![o] =
             [n \in DOMAIN attestations[o] \cup {k} |->
                IF n = k THEN Record(in, k) ELSE attestations[o][n]]]
    BY <1>1 DEF Finalize, Attest, Commit, Attested, Ledger
  <2>2. o \in DOMAIN latestNonce /\ o \in DOMAIN attestations
    BY <1>1 DEF LedgerInv, Ledger
  <2> QED
    BY <2>1, <2>2
<1>4. RecordedAt(p)' = {n \in 1 .. k : Record(in, n) = attestations'[o][n]}
  BY <1>3 DEF RecordedAt
<1>5. k \in RecordedAt(p)'
  BY <1>1, <1>3, <1>4
<1>6. ASSUME NEW n \in 1 .. latestNonce[o] PROVE n \notin RecordedAt(p)'
  <2> SUFFICES ASSUME n \in RecordedAt(p)' PROVE FALSE
    OBVIOUS
  <2>1. attestations'[o][n].prev = in.prev /\ attestations'[o][k].prev = in.prev
    BY <1>3, <1>4 DEF Record
  <2> PICK K : K = Ledger'
    OBVIOUS
  <2>2. /\ LedgerInv(K) /\ K.nonce[o] = k /\ K.att[o] = attestations'[o]
        /\ n \in 1 .. k /\ k \in 1 .. k /\ n # k
    BY <1>1, <1>2, <1>3 DEF Ledger
  <2> QED
    BY <1>1, <2>1, <2>2, OnePlace
<1> QED
  BY <1>5, <1>6

(* No step changes what a proposal is about, and only Finalize finalizes.   *)
SameInput(p) ==
  InputOf(p)' = InputOf(p) /\ proposals'[p].org = proposals[p].org

OnlyFinalize ==
  /\ \A p \in Ids : SameInput(p)
  /\ \A p \in Ids : proposals'[p].finalized => proposals[p].finalized \/ Finalize(p)
  /\ \A p \in Ids' \ Ids : ~proposals'[p].finalized

(* Writing the other fields of one proposal.                                *)
LEMMA SameRewritten ==
  ASSUME ConsensusInv, SlotsInv, NEW p \in Ids, NEW new,
         proposals' = [proposals EXCEPT ![p] = new],
         \A f \in {"org", "start", "end", "body", "prev"} : new[f] = proposals[p][f],
         new.finalized => proposals[p].finalized \/ Finalize(p)
  PROVE  OnlyFinalize
<1>1. Arrays /\ IsArray(proposals) /\ Ids = DOMAIN proposals
  BY Push DEF ConsensusInv, Arrays, Ids, IsArray
<1>2. Ids' = Ids
  BY <1>1, OneWritten DEF Ids
<1>3. proposals'[p] = new /\ \A q \in Ids : q # p => proposals'[q] = proposals[q]
  BY <1>1
<1>4. new.org = proposals[p].org /\ InputOf(p)' = InputOf(p)
  <2>1. /\ new.org = proposals[p].org /\ new.start = proposals[p].start
        /\ new.end = proposals[p].end /\ new.body = proposals[p].body
        /\ new.prev = proposals[p].prev
    OBVIOUS
  <2> QED
    BY <1>3, <2>1 DEF InputOf
<1>5. ASSUME NEW q \in Ids PROVE SameInput(q)
  <2>1. CASE q = p
    BY <1>3, <1>4, <2>1 DEF SameInput
  <2>2. CASE q # p
    BY <1>3, <2>2 DEF SameInput, InputOf
  <2> QED
    BY <2>1, <2>2
<1>6. ASSUME NEW q \in Ids, proposals'[q].finalized
      PROVE  proposals[q].finalized \/ Finalize(q)
  BY <1>3, <1>6
<1> QED
  BY <1>2, <1>5, <1>6 DEF OnlyFinalize

LEMMA InputsStay ==
  ASSUME ConsensusInv, SlotsInv, [Next]_vars
  PROVE  OnlyFinalize
<1> DEFINE Fields == {"org", "start", "end", "body", "prev"}
<1>1. CASE UNCHANGED proposals
  BY <1>1 DEF OnlyFinalize, SameInput, InputOf, Ids
<1>2. CASE Proposing
  <2> PICK v \in Validators, o \in Orgs, period \in Periods, body \in Bodies,
           prev \in Hashes, n \in AttestNonces : Propose(v, o, period, body, prev, n)
    BY <1>2 DEF Proposing
  <2> DEFINE new == [org |-> o, start |-> period[1], end |-> period[2], body |-> body,
                     prev |-> prev, attestNonce |-> n, createdAt |-> now,
                     total |-> stakes[v].amount, yes |-> stakes[v].amount,
                     finalized |-> FALSE, slashed |-> FALSE]
  <2> PICK k : k = Len(proposals) + 1
    OBVIOUS
  <2>1. proposals' = Append(proposals, new) /\ new.finalized = FALSE
    BY DEF Propose
  <2> HIDE DEF new
  <2>2. /\ Len(proposals) \in Nat /\ Len(proposals') = k
        /\ \A p \in Ids : proposals'[p] = proposals[p]
        /\ proposals'[k] = new
    BY <2>1, Push DEF ConsensusInv, Arrays, Ids
  <2>3. Ids' = Ids \cup {k}
    BY <2>2 DEF Ids
  <2> QED
    BY <2>1, <2>2, <2>3 DEF OnlyFinalize, SameInput, InputOf
<1>3. ASSUME NEW p \in Ids, NEW v \in Validators, NEW inFavor \in BOOLEAN,
             Vote(v, p, inFavor)
      PROVE  OnlyFinalize
  <2> DEFINE total == proposals[p].total + stakes[v].amount
             yes == IF inFavor THEN proposals[p].yes + stakes[v].amount ELSE proposals[p].yes
             new == [proposals[p] EXCEPT !.total = total, !.yes = yes]
  <2>1. proposals' = [proposals EXCEPT ![p] = new]
    BY <1>3 DEF Vote
  <2>2. /\ \A f \in Fields : new[f] = proposals[p][f]
        /\ new.finalized = proposals[p].finalized
    BY DEF SlotsInv, SlotInv, Placed, ConsensusInv, ProposalInv
  <2> HIDE DEF new
  <2> QED
    BY <2>1, <2>2, SameRewritten
<1>4. ASSUME NEW p \in Ids, Finalize(p) PROVE OnlyFinalize
  <2> DEFINE new == [proposals[p] EXCEPT !.finalized = TRUE]
  <2>1. proposals' = [proposals EXCEPT ![p] = new]
    BY <1>4 DEF Finalize
  <2>2. \A f \in Fields : new[f] = proposals[p][f]
    BY DEF SlotsInv, SlotInv, Placed
  <2> HIDE DEF new
  <2> QED
    BY <1>4, <2>1, <2>2, SameRewritten
<1>5. ASSUME NEW caller \in Arbiters, NEW c \in 1 .. Len(challenges), ResolveWon(caller, c)
      PROVE  OnlyFinalize
  <2> PICK p : p = challenges[c].proposal
    OBVIOUS
  <2> DEFINE new == [proposals[p] EXCEPT !.slashed = TRUE]
  <2>1. proposals' = [proposals EXCEPT ![p] = new] /\ p \in Ids
    BY <1>5 DEF ResolveWon, ConsensusInv, ChallengeInv
  <2>2. /\ \A f \in Fields : new[f] = proposals[p][f]
        /\ new.finalized = proposals[p].finalized
    BY <2>1 DEF SlotsInv, SlotInv, Placed, ConsensusInv, ProposalInv
  <2> HIDE DEF new
  <2> QED
    BY <2>1, <2>2, SameRewritten
<1>6. CASE Judging
  BY <1>1, <1>3, <1>4, <1>6 DEF Judging, ExpireProposal, Challenge
<1>7. CASE \E caller \in Arbiters : Owning(caller)
  <2>1. \A caller, c : ResolveLost(caller, c) => UNCHANGED proposals
    BY DEF ResolveLost
  <2>2. ASSUME \/ \E q \in Quorums : SetMinQuorum(q)
               \/ \E bps \in SlashPercents : SetSlashPercentBps(bps)
               \/ \E bond \in Bonds : SetChallengeBondMin(bond)
               \/ \E a \in Arbiters : TransferConsensusOwnership(a)
        PROVE  UNCHANGED proposals
    BY <2>2 DEF SetMinQuorum, SetSlashPercentBps, SetChallengeBondMin,
       TransferConsensusOwnership, Configure
  <2> QED
    BY <1>1, <1>5, <1>7, <2>1, <2>2 DEF Owning
<1>8. CASE Elsewhere \/ (\E a \in Amounts : Receive(a)) \/ UNCHANGED vars
  BY <1>1, <1>8 DEF Elsewhere, Receive, vars, consensusVars
<1> QED
  BY <1>2, <1>6, <1>7, <1>8 DEF Next

(* Only a finalization adds a recorded proposal, at a new place.            *)
LEMMA RecordedStep ==
  ASSUME ConsensusInv, SlotsInv, LedgerInv(Ledger), FinalizedIsRecordedOnce, [Next]_vars
  PROVE  FinalizedIsRecordedOnce'
<1>1. OnlyFinalize /\ LedgerInv(Ledger') /\ Grown(Ledger, Ledger')
  BY InputsStay, LedgerStep
<1>2. ASSUME NEW p \in Ids', proposals'[p].finalized
      PROVE  /\ p \in Ids /\ SameInput(p) /\ proposals[p].org \in Orgs
             /\ proposals[p].finalized => RecordedAt(p) # {} /\ RecordedAt(p)' = RecordedAt(p)
             /\ ~proposals[p].finalized => Finalize(p)
  <2>1. p \in Ids /\ SameInput(p) /\ (~proposals[p].finalized => Finalize(p))
    BY <1>1, <1>2 DEF OnlyFinalize
  <2>2. proposals[p].org \in Orgs
    BY <2>1 DEF SlotsInv, SlotInv, Placed
  <2>3. proposals[p].finalized => RecordedAt(p) # {}
    BY <2>1 DEF FinalizedIsRecordedOnce
  <2>4. proposals[p].finalized => RecordedAt(p)' = RecordedAt(p)
    BY <1>1, <2>1, <2>2, <2>3, RecordedKept DEF SameInput
  <2> QED
    BY <2>1, <2>2, <2>3, <2>4
<1>3. ASSUME NEW p \in Ids', proposals'[p].finalized, ~proposals[p].finalized
      PROVE  /\ RecordedAt(p)' # {}
             /\ \A n \in 1 .. latestNonce[proposals[p].org] : n \notin RecordedAt(p)'
  BY <1>2, <1>3, FinalizeRecords DEF SameInput
<1>4. ASSUME NEW p \in Ids', NEW q \in Ids', p # q, proposals'[p].finalized,
             proposals'[q].finalized, proposals'[p].org = proposals'[q].org,
             proposals[p].finalized
      PROVE  RecordedAt(p)' \cap RecordedAt(q)' = {}
  <2>1. /\ p \in Ids /\ q \in Ids /\ proposals[p].org = proposals[q].org
        /\ RecordedAt(p)' = RecordedAt(p)
    BY <1>2, <1>4 DEF SameInput
  <2>2. CASE proposals[q].finalized
    <3>1. RecordedAt(q)' = RecordedAt(q)
      BY <1>2, <1>4, <2>2
    <3> QED
      BY <1>4, <2>1, <2>2, <3>1 DEF FinalizedIsRecordedOnce
  <2>3. CASE ~proposals[q].finalized
    <3>1. \A n \in RecordedAt(p) : n \in 1 .. latestNonce[proposals[q].org]
      BY <2>1 DEF RecordedAt
    <3> QED
      BY <1>3, <1>4, <2>1, <2>3, <3>1
  <2> QED
    BY <2>2, <2>3
<1>5. ASSUME NEW p \in Ids, NEW q \in Ids, Finalize(p), Finalize(q),
             ~proposals[p].finalized, ~proposals[q].finalized,
             proposals'[p].finalized, proposals'[q].finalized
      PROVE  p = q
  <2>1. Ids = DOMAIN proposals
    BY Push DEF ConsensusInv, Arrays, Ids, IsArray
  <2>2. proposals' = [proposals EXCEPT ![p] = [proposals[p] EXCEPT !.finalized = TRUE]]
    BY <1>5 DEF Finalize
  <2> QED
    BY <1>5, <2>1, <2>2
<1>6. ASSUME NEW p \in Ids', NEW q \in Ids', p # q, proposals'[p].finalized,
             proposals'[q].finalized, proposals'[p].org = proposals'[q].org
      PROVE  RecordedAt(p)' \cap RecordedAt(q)' = {}
  BY <1>2, <1>4, <1>5, <1>6
<1>7. ASSUME NEW p \in Ids', proposals'[p].finalized PROVE RecordedAt(p)' # {}
  BY <1>2, <1>3, <1>7
<1> QED
  BY <1>6, <1>7 DEF FinalizedIsRecordedOnce

(* A finalized proposal is recorded by the registry, and no two of an        *)
(* organisation are the same record: for any number of proposals, attestors  *)
(* and other records.                                                       *)
THEOREM FinalizedRecordedOnce == Spec => []FinalizedIsRecordedOnce
<1>1. Init => FinalizedIsRecordedOnce
  <2> SUFFICES ASSUME Init PROVE FinalizedIsRecordedOnce
    OBVIOUS
  <2>1. Ids = {}
    BY EmptyArray DEF Init, Ids
  <2> QED
    BY <2>1 DEF FinalizedIsRecordedOnce
<1>2. ConsensusInv /\ SlotsInv /\ LedgerInv(Ledger) /\ FinalizedIsRecordedOnce /\ [Next]_vars
        => FinalizedIsRecordedOnce'
  BY RecordedStep
<1> QED
  BY <1>1, <1>2, ConsensusInvariant, SlotsInvariant, LedgerInvariant, PTL DEF Spec

(* Types are kept: no vote, slash or configuration leads out of them.       *)
THEOREM ConsensusTypeCorrect == Spec => []TypeOK
<1>1. ConsensusInv /\ SlotsInv => TypeOK
  <2> SUFFICES ASSUME ConsensusInv, SlotsInv PROVE TypeOK
    OBVIOUS
  <2>1. Len(proposals) \in Nat /\ Len(votes) = Len(proposals) /\ Len(active) = Len(proposals)
    BY Push DEF ConsensusInv, Arrays
  <2>2. {0} \cup Ids = 0 .. Len(proposals)
    BY <2>1 DEF Ids
  <2>3. slot \in [Orgs -> [AttestNonces -> 0 .. Len(proposals)]]
    BY <2>2 DEF SlotsInv
  <2>4. /\ \A p \in Ids : active[p] \in 0 .. Len(challenges)
        /\ \A c \in 1 .. Len(challenges) : challenges[c].proposal \in Ids
    BY DEF ConsensusInv, ChallengeInv
  <2>5. \A p \in Ids : proposals[p].yes \in 0 .. proposals[p].total
    BY DEF ConsensusInv, ProposalInv
  <2>6. /\ StakingTypeOK /\ settings.owner \in Arbiters
        /\ settings.minQuorum # 0 /\ settings.slashPercentBps <= 10000
    BY DEF ConsensusInv, Inv, SettingsInv
  <2> QED
    BY <2>1, <2>3, <2>4, <2>5, <2>6 DEF TypeOK
<1> QED
  BY <1>1, ConsensusInvariant, SlotsInvariant, PTL

(* All that SlotsSound promises.                                            *)
THEOREM SlotsAreSound == Spec => []SlotsSound
<1>1. TypeOK /\ FinalizedIsRecordedOnce /\ CompetitionNeedsExpiry => SlotsSound
  BY DEF SlotsSound
<1> QED
  BY <1>1, ConsensusTypeCorrect, FinalizedRecordedOnce, CompetitionIsExplained, PTL

-----------------------------------------------------------------------------
(* The two purses. What the staking contract owes a validator is what it    *)
(* paid in and did not get back: a slash, by its owner or by a challenge,   *)
(* moves nothing, so that only deposits and withdrawals count.              *)
Owed == SumFunctionOnSet([v \in Validators |-> deposited[v] - withdrawn[v]], Validators)

OwedInv == held = Owed

(* One validator's deposit or withdrawal, or none.                          *)
LEMMA OwedMoves ==
  ASSUME Inv, Inv', OwedInv, NEW v \in Validators,
         \A u \in Validators \ {v} : /\ deposited'[u] = deposited[u]
                                     /\ withdrawn'[u] = withdrawn[u],
         held' = held + (deposited'[v] - deposited[v]) - (withdrawn'[v] - withdrawn[v])
  PROVE  OwedInv'
<1>1. PICK f : f = [u \in Validators |-> deposited[u] - withdrawn[u]]
  OBVIOUS
<1>2. PICK g : g = [u \in Validators |-> deposited'[u] - withdrawn'[u]]
  OBVIOUS
<1>3. \A u \in Validators : /\ deposited[u] \in Nat /\ withdrawn[u] \in Nat
                           /\ deposited'[u] \in Nat /\ withdrawn'[u] \in Nat
  BY DEF Inv, StakingTypeOK
<1>4. f \in [Validators -> Int] /\ g \in [Validators -> Int]
  BY <1>1, <1>2, <1>3
<1>5. \A u \in Validators \ {v} : f[u] = g[u]
  BY <1>1, <1>2
<1>6. /\ SumFunctionOnSet(f, Validators) \in Int
      /\ SumFunctionOnSet(g, Validators) = SumFunctionOnSet(f, Validators) + (g[v] - f[v])
  BY <1>4, <1>5, FiniteValidators, SumOneChanged
<1>7. Owed = SumFunctionOnSet(f, Validators) /\ Owed' = SumFunctionOnSet(g, Validators)
  BY <1>1, <1>2 DEF Owed
<1>8. f[v] = deposited[v] - withdrawn[v] /\ g[v] = deposited'[v] - withdrawn'[v]
  BY <1>1, <1>2
<1> QED
  BY <1>3, <1>6, <1>7, <1>8 DEF OwedInv

(* A step that pays nothing in or out.                                      *)
LEMMA OwedStays ==
  ASSUME OwedInv, UNCHANGED <<deposited, withdrawn, held>>
  PROVE  OwedInv'
  BY DEF OwedInv, Owed

LEMMA OwedInit ==
  ASSUME StakingInit
  PROVE  OwedInv
<1>1. PICK f : f = [u \in Validators |-> deposited[u] - withdrawn[u]]
  OBVIOUS
<1>2. \A u \in Validators : f[u] = 0
  BY <1>1 DEF StakingInit
<1>3. SumFunctionOnSet(f, Validators) = 0
  BY <1>2, FiniteValidators, SumZero
<1> QED
  BY <1>1, <1>3 DEF OwedInv, Owed, StakingInit

(* Only Stake and Withdraw move what is owed, each for one validator.       *)
LEMMA OwedStep == OwedInv /\ Inv /\ Inv' /\ [StakingNext]_stakingVars => OwedInv'
<1> SUFFICES ASSUME OwedInv, Inv, Inv', [StakingNext]_stakingVars PROVE OwedInv'
  OBVIOUS
<1>1. ASSUME NEW v \in Validators, NEW a \in Amounts, Stake(v, a) PROVE OwedInv'
  <2>1. /\ deposited[v] \in Nat /\ a \in Nat /\ v \in DOMAIN deposited /\ held \in Nat
        /\ withdrawn[v] \in Nat
    BY DEF Inv, StakingTypeOK
  <2>2. /\ \A u \in Validators \ {v} : deposited'[u] = deposited[u]
        /\ deposited'[v] = deposited[v] + a
        /\ withdrawn' = withdrawn /\ held' = held + a
    BY <1>1, <2>1 DEF Stake
  <2>3. held' = held + (deposited'[v] - deposited[v]) - (withdrawn'[v] - withdrawn[v])
    BY <2>1, <2>2
  <2> QED
    BY <2>2, <2>3, OwedMoves
<1>2. ASSUME NEW v \in Validators, Withdraw(v) PROVE OwedInv'
  <2>1. /\ withdrawn[v] \in Nat /\ v \in DOMAIN withdrawn /\ held \in Nat
        /\ deposited[v] \in Nat /\ stakes[v].unstake \in Nat
    BY Before DEF Inv, StakingTypeOK
  <2>2. /\ \A u \in Validators \ {v} : withdrawn'[u] = withdrawn[u]
        /\ withdrawn'[v] = withdrawn[v] + stakes[v].unstake
        /\ deposited' = deposited /\ held' = held - stakes[v].unstake
    BY <1>2, <2>1 DEF Withdraw
  <2>3. held' = held + (deposited'[v] - deposited[v]) - (withdrawn'[v] - withdrawn[v])
    BY <2>1, <2>2
  <2> QED
    BY <2>2, <2>3, OwedMoves
<1>3. CASE OwnerStep
  BY <1>3, OwedStays DEF OwnerStep, Slash, SetMinStake, TransferStakingOwnership, ledgerVars
<1>4. CASE Tick \/ UNCHANGED stakingVars
  BY <1>4, OwedStays DEF Tick, stakingVars, ledgerVars
<1>5. ASSUME NEW v \in Validators, NEW a \in Amounts, RequestUnstake(v, a) PROVE OwedInv'
  BY <1>5, OwedStays DEF RequestUnstake, ledgerVars
<1> QED
  BY <1>1, <1>2, <1>3, <1>4, <1>5 DEF StakingNext, ValidatorStep

(* Accounted for, what is owed is every stake and every slash.              *)
LEMMA OwedIsHeld ==
  ASSUME Inv, OwedInv
  PROVE  Solvent
<1>1. PICK f : f = [u \in Validators |-> deposited[u] - withdrawn[u]]
  OBVIOUS
<1>2. PICK g : g = [u \in Validators |-> stakes[u].amount + slashed[u]]
  OBVIOUS
<1>3. ASSUME NEW u \in Validators PROVE f[u] = g[u]
  BY <1>1, <1>2, Before DEF Accounted
<1>4. f = g
  BY <1>1, <1>2, <1>3
<1>5. DOMAIN g = Validators
  BY <1>2
<1> QED
  BY <1>1, <1>2, <1>4, <1>5 DEF OwedInv, Owed, Solvent, SumFunction

(* The contract holds every stake and what was slashed, for any number of   *)
(* validators: withdraw never finds it short, and no deposit is stranded.    *)
THEOREM StakesAreHeld == StakingSpec => []Solvent
<1>1. StakingInit => OwedInv
  BY OwedInit
<1>2. OwedInv /\ Inv /\ Inv' /\ [StakingNext]_stakingVars => OwedInv'
  BY OwedStep
<1>3. Inv /\ OwedInv => Solvent
  BY OwedIsHeld
<1> QED
  BY <1>1, <1>2, <1>3, StakingInvariant, PTL DEF StakingSpec

(* The consensus contract's own purse: bonds come in, rewards go out. Only   *)
(* validators vote, so that a reward is a sum over some of them.            *)
BondsInv ==
  \A c \in 1 .. Len(challenges) :
    {"bond"} \subseteq DOMAIN challenges[c] /\ challenges[c].bond \in Nat

VotersInv == \A p \in Ids : DOMAIN votes[p] \subseteq Validators

PurseInv == OwedInv /\ balance \in Nat /\ BondsInv /\ VotersInv

(* A reward is a bond and half of a sum of shares, none below zero.         *)
LEMMA RewardNat ==
  ASSUME ConsensusInv, PurseInv, NEW c \in 1 .. Len(challenges)
  PROVE  Reward(c) \in Nat
<1>1. PICK p : p = challenges[c].proposal
  OBVIOUS
<1>2. p \in Ids /\ challenges[c].bond \in Nat
  BY <1>1 DEF ConsensusInv, ChallengeInv, PurseInv, BondsInv
<1>3. PICK S : S = ToSlash(p)
  OBVIOUS
<1>4. S \in SUBSET Validators
  BY <1>2, <1>3 DEF ToSlash, YesVoters, PurseInv, VotersInv
<1>5. PICK f : f = [v \in Validators |-> SlashAmount(v)]
  OBVIOUS
<1>6. ASSUME NEW v \in S PROVE f[v] \in Nat
  <2>1. stakes[v].amount \in Nat
    BY <1>4, Before DEF ConsensusInv
  <2>2. settings.slashPercentBps \in Nat /\ settings.slashPercentBps <= 10000
    BY DEF ConsensusInv, SettingsInv
  <2>3. SlashAmount(v) \in Nat
    <3> PICK a, b : a = stakes[v].amount /\ b = settings.slashPercentBps
      OBVIOUS
    <3>1. (a * b) \div 10000 \in Nat
      BY <2>1, <2>2, Share
    <3> QED
      BY <3>1 DEF SlashAmount
  <2>4. f[v] = SlashAmount(v)
    BY <1>4, <1>5
  <2> QED
    BY <2>3, <2>4
<1>7. IsFiniteSet(S)
  BY <1>4, FiniteValidators, FS_Subset
<1>8. SumFunctionOnSet(f, S) \in Nat
  BY <1>6, <1>7, SumNat
<1>9. PICK total : total = SumFunctionOnSet(f, S)
  OBVIOUS
<1>10. total \in Nat /\ total \div 2 \in Nat
  BY <1>8, <1>9
<1>11. Reward(c) = challenges[c].bond + total \div 2
  BY <1>1, <1>3, <1>5, <1>9 DEF Reward
<1> QED
  BY <1>2, <1>10, <1>11

(* What the calls do to the purse.                                          *)
LEMMA PurseKept ==
  ASSUME ConsensusInv, PurseInv, OwedInv',
         balance' \in Nat, UNCHANGED <<challenges, votes, proposals>>
  PROVE  PurseInv'
  BY DEF PurseInv, BondsInv, VotersInv, Ids

(* The calls that leave the staking contract alone.                         *)
LEMMA UnchangedOwed ==
  ASSUME OwedInv, UNCHANGED stakingVars
  PROVE  OwedInv'
  BY OwedStays DEF stakingVars, ledgerVars

LEMMA PurseInit == Init => PurseInv
<1> SUFFICES ASSUME Init PROVE PurseInv
  OBVIOUS
<1>1. OwedInv
  BY OwedInit DEF Init
<1>2. balance = 0 /\ proposals = <<>> /\ challenges = <<>>
  BY DEF Init
<1>3. 1 .. Len(challenges) = {} /\ Ids = {}
  BY <1>2, EmptyArray DEF Ids
<1> QED
  BY <1>1, <1>2, <1>3 DEF PurseInv, BondsInv, VotersInv

(* The proposer is the first to have voted, and a vote adds its voter.      *)
LEMMA ProposePurse ==
  ASSUME ConsensusInv, PurseInv, NEW v \in Validators, NEW o, NEW period, NEW body,
         NEW prev, NEW n, Propose(v, o, period, body, prev, n)
  PROVE  PurseInv'
<1> PICK vote : vote = [u \in {v} |-> TRUE]
  OBVIOUS
<1>1. /\ votes' = Append(votes, vote) /\ DOMAIN vote = {v}
      /\ UNCHANGED <<stakingVars, challenges, balance>>
      /\ Len(proposals') = Len(proposals) + 1
  BY Push DEF Propose, ConsensusInv, Arrays
<1>2. /\ Len(votes) = Len(proposals) /\ Len(votes) \in Nat
      /\ \A i \in 1 .. Len(votes) : votes'[i] = votes[i]
      /\ votes'[Len(votes) + 1] = vote
  BY <1>1, Push DEF ConsensusInv, Arrays
<1>3. VotersInv'
  <2>1. ASSUME NEW q \in 1 .. Len(proposals) + 1 PROVE DOMAIN votes'[q] \subseteq Validators
    <3>1. CASE q \in 1 .. Len(proposals)
      BY <1>2, <3>1 DEF PurseInv, VotersInv, Ids
    <3>2. CASE q = Len(proposals) + 1
      BY <1>1, <1>2, <3>2
    <3> QED
      BY <1>2, <3>1, <3>2
  <2> QED
    BY <1>1, <2>1 DEF VotersInv, Ids
<1>4. OwedInv'
  BY <1>1, UnchangedOwed DEF PurseInv
<1> QED
  BY <1>1, <1>3, <1>4 DEF PurseInv, BondsInv

LEMMA VotePurse ==
  ASSUME ConsensusInv, ConsensusInv', PurseInv, NEW v \in Validators, NEW p \in Ids,
         NEW inFavor, Vote(v, p, inFavor)
  PROVE  PurseInv'
<1> PICK vote : vote = [u \in DOMAIN votes[p] \cup {v} |->
                          IF u = v THEN inFavor ELSE votes[p][u]]
  OBVIOUS
<1>1. /\ votes' = [votes EXCEPT ![p] = vote]
      /\ DOMAIN vote = DOMAIN votes[p] \cup {v}
      /\ UNCHANGED <<stakingVars, challenges, balance>>
  BY DEF Vote
<1>2. DOMAIN votes = Ids /\ Len(votes') = Len(votes) /\ Ids' = Ids
  <2>1. IsArray(votes) /\ Len(votes) = Len(proposals)
    BY DEF ConsensusInv, Arrays
  <2>2. votes' \in [DOMAIN votes -> Range(votes) \cup {vote}]
    BY <1>1 DEF Range
  <2>3. Len(votes') = Len(votes) /\ DOMAIN votes = 1 .. Len(votes)
    BY <2>1, <2>2, Write
  <2>4. Len(votes') = Len(proposals')
    BY DEF ConsensusInv, Arrays
  <2> QED
    BY <2>1, <2>3, <2>4 DEF Ids
<1>3. ASSUME NEW q \in Ids PROVE DOMAIN votes'[q] \subseteq Validators
  BY <1>1, <1>2 DEF PurseInv, VotersInv
<1>4. OwedInv'
  BY <1>1, UnchangedOwed DEF PurseInv
<1>5. VotersInv'
  BY <1>2, <1>3 DEF VotersInv
<1> QED
  BY <1>1, <1>4, <1>5 DEF PurseInv, BondsInv

(* The bond of a challenge comes with it.                                   *)
LEMMA ChallengePurse ==
  ASSUME ConsensusInv, PurseInv, NEW p \in Ids, NEW bond \in Nat, Challenge(p, bond)
  PROVE  PurseInv'
<1> PICK new : new = [proposal |-> p, bond |-> bond, resolved |-> FALSE, won |-> FALSE]
  OBVIOUS
<1>1. /\ challenges' = Append(challenges, new) /\ balance' = balance + bond
      /\ UNCHANGED <<stakingVars, proposals, votes>>
      /\ {"bond"} \subseteq DOMAIN new /\ new.bond = bond
  BY DEF Challenge
<1>2. /\ Len(challenges) \in Nat /\ Len(challenges') = Len(challenges) + 1
      /\ \A c \in 1 .. Len(challenges) : challenges'[c] = challenges[c]
      /\ challenges'[Len(challenges) + 1] = new
  BY <1>1, Push DEF ConsensusInv, Arrays
<1>3. BondsInv'
  <2>1. ASSUME NEW c \in 1 .. Len(challenges) + 1
        PROVE {"bond"} \subseteq DOMAIN challenges'[c] /\ challenges'[c].bond \in Nat
    <3>1. CASE c \in 1 .. Len(challenges)
      BY <1>2, <3>1 DEF PurseInv, BondsInv
    <3>2. CASE c = Len(challenges) + 1
      BY <1>1, <1>2, <3>2
    <3> QED
      BY <1>2, <3>1, <3>2
  <2> QED
    BY <1>2, <2>1 DEF BondsInv
<1>4. OwedInv'
  BY <1>1, UnchangedOwed DEF PurseInv
<1>5. VotersInv' /\ balance' \in Nat
  BY <1>1 DEF PurseInv, VotersInv, Ids
<1> QED
  BY <1>3, <1>4, <1>5 DEF PurseInv

(* Resolving a challenge keeps its bond, whoever wins.                      *)
LEMMA BondsKept ==
  ASSUME ConsensusInv, PurseInv, NEW c \in 1 .. Len(challenges), NEW new,
         {"bond"} \subseteq DOMAIN new, new.bond = challenges[c].bond,
         challenges' = [challenges EXCEPT ![c] = new]
  PROVE  BondsInv'
<1>1. IsArray(challenges)
  BY DEF ConsensusInv, Arrays
<1>2. challenges' \in [DOMAIN challenges -> Range(challenges) \cup {new}]
  BY DEF Range
<1>3. Len(challenges') = Len(challenges) /\ DOMAIN challenges = 1 .. Len(challenges)
  BY <1>1, <1>2, Write
<1>4. ASSUME NEW d \in 1 .. Len(challenges)
      PROVE {"bond"} \subseteq DOMAIN challenges'[d] /\ challenges'[d].bond \in Nat
  BY <1>3 DEF PurseInv, BondsInv
<1> QED
  BY <1>3, <1>4 DEF BondsInv

(* The challenger is paid at most what the contract has, and the slashed     *)
(* stakes stay where they were paid in.                                     *)
LEMMA ResolveWonPurse ==
  ASSUME ConsensusInv, ConsensusInv', PurseInv, NEW caller,
         NEW c \in 1 .. Len(challenges), ResolveWon(caller, c)
  PROVE  PurseInv'
<1> PICK new : new = [challenges[c] EXCEPT !.resolved = TRUE, !.won = TRUE]
  OBVIOUS
<1>1. /\ challenges' = [challenges EXCEPT ![c] = new]
      /\ balance' = balance - Reward(c) /\ Reward(c) <= balance
      /\ UNCHANGED <<deposited, withdrawn, held, votes>>
  BY DEF ResolveWon
<1>2. {"bond"} \subseteq DOMAIN new /\ new.bond = challenges[c].bond
  BY DEF PurseInv, BondsInv
<1>3. BondsInv'
  BY <1>1, <1>2, BondsKept
<1>4. Ids' = Ids
  BY <1>1 DEF ConsensusInv, Arrays, Ids
<1>5. VotersInv'
  BY <1>1, <1>4 DEF PurseInv, VotersInv
<1>6. balance' \in Nat
  BY <1>1, RewardNat DEF PurseInv
<1>7. OwedInv'
  BY <1>1, OwedStays DEF PurseInv
<1> QED
  BY <1>3, <1>5, <1>6, <1>7 DEF PurseInv

LEMMA ResolveLostPurse ==
  ASSUME ConsensusInv, PurseInv, NEW caller, NEW c \in 1 .. Len(challenges),
         ResolveLost(caller, c)
  PROVE  PurseInv'
<1> PICK new : new = [challenges[c] EXCEPT !.resolved = TRUE]
  OBVIOUS
<1>1. /\ challenges' = [challenges EXCEPT ![c] = new]
      /\ UNCHANGED <<stakingVars, balance, votes, proposals>>
  BY DEF ResolveLost
<1>2. {"bond"} \subseteq DOMAIN new /\ new.bond = challenges[c].bond
  BY DEF PurseInv, BondsInv
<1>3. BondsInv'
  BY <1>1, <1>2, BondsKept
<1>4. OwedInv'
  BY <1>1, UnchangedOwed DEF PurseInv
<1> QED
  BY <1>1, <1>3, <1>4 DEF PurseInv, VotersInv, Ids

(* Bonds are added and rewards are taken from what is there.                *)
LEMMA PurseStep ==
  ConsensusInv /\ ConsensusInv' /\ PurseInv /\ [Next]_vars => PurseInv'
<1> SUFFICES ASSUME ConsensusInv, ConsensusInv', PurseInv, [Next]_vars PROVE PurseInv'
  OBVIOUS
<1>1. CASE Proposing
  BY <1>1, ProposePurse DEF Proposing
<1>2. ASSUME NEW p \in Ids, Finalize(p) \/ ExpireProposal(p) PROVE PurseInv'
  <2>1. Ids' = Ids /\ UNCHANGED <<stakingVars, votes, challenges, balance>>
    BY <1>2 DEF Finalize, ExpireProposal, ConsensusInv, Arrays, Ids
  <2>2. OwedInv'
    BY <2>1, UnchangedOwed DEF PurseInv
  <2> QED
    BY <2>1, <2>2 DEF PurseInv, BondsInv, VotersInv
<1>3. CASE Judging
  BY <1>2, <1>3, VotePurse, ChallengePurse, StakingAssumption DEF Judging
<1>4. ASSUME UNCHANGED <<stakingVars, proposals, votes, challenges, balance>>
      PROVE  PurseInv'
  <2>1. OwedInv'
    BY <1>4, UnchangedOwed DEF PurseInv
  <2> QED
    BY <1>4, <2>1, PurseKept DEF PurseInv
<1>5. CASE \E caller \in Arbiters : Owning(caller)
  <2>1. ASSUME \/ \E q \in Quorums : SetMinQuorum(q)
               \/ \E bps \in SlashPercents : SetSlashPercentBps(bps)
               \/ \E bond \in Bonds : SetChallengeBondMin(bond)
               \/ \E a \in Arbiters : TransferConsensusOwnership(a)
        PROVE  UNCHANGED <<stakingVars, proposals, votes, challenges, balance>>
    BY <2>1 DEF SetMinQuorum, SetSlashPercentBps, SetChallengeBondMin,
                TransferConsensusOwnership, Configure
  <2> QED
    BY <1>4, <1>5, <2>1, ResolveWonPurse, ResolveLostPurse DEF Owning
<1>6. ASSUME NEW a \in Nat, Receive(a) PROVE PurseInv'
  <2>1. UNCHANGED <<stakingVars, proposals, votes, challenges>> /\ balance' = balance + a
    BY <1>6 DEF Receive
  <2>2. OwedInv'
    BY <2>1, UnchangedOwed DEF PurseInv
  <2> QED
    BY <2>1, <2>2, PurseKept DEF PurseInv
<1>7. CASE Elsewhere
  <2>1. UNCHANGED <<proposals, votes, challenges, balance>>
    BY <1>7 DEF Elsewhere, consensusVars
  <2>2. Tick \/ ValidatorStep \/ UNCHANGED stakingVars
    BY <1>7 DEF Elsewhere
  <2>3. OwedInv'
    BY <2>2, OwedStep DEF StakingNext, PurseInv, ConsensusInv
  <2> QED
    BY <2>1, <2>3, PurseKept DEF PurseInv
<1>8. CASE UNCHANGED vars
  BY <1>4, <1>8 DEF vars, consensusVars
<1> QED
  BY <1>1, <1>3, <1>5, <1>6, <1>7, <1>8, StakingAssumption DEF Next

(* Whatever is challenged, won, lost and paid: only voters for a slashed     *)
(* proposal lose stake, and each proposal slashes once; what was staked or   *)
(* slashed is still held, and no reward overdraws the consensus contract.    *)
THEOREM SlashingIsSound == Spec => SlashingSound
<1>1. Init => PurseInv
  BY PurseInit
<1>2. ConsensusInv /\ ConsensusInv' /\ PurseInv /\ [Next]_vars => PurseInv'
  BY PurseStep
<1>3. ConsensusInv /\ PurseInv => ConsensusSolvent
  <2> SUFFICES ASSUME ConsensusInv, PurseInv PROVE ConsensusSolvent
    OBVIOUS
  <2>1. Solvent
    BY OwedIsHeld DEF ConsensusInv, PurseInv
  <2>2. EveryWeiAccounted
    BY Before DEF ConsensusInv, EveryWeiAccounted, Accounted
  <2> QED
    BY <2>1, <2>2 DEF PurseInv, ConsensusSolvent
<1> QED
  BY <1>1, <1>2, <1>3, ConsensusInvariant, SlashedOnce, OnlyYesVotersLose, PTL
  DEF Spec, SlashingSound
=============================================================================
