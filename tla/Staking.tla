------------------------------ MODULE Staking ------------------------------
(***************************************************************************)
(* AgentProofStaking.sol: validators deposit ETH, take it back after a     *)
(* cooldown, and are slashed by the owner. Slashed ETH stays in the        *)
(* contract. A call is one step; a call that reverts is no step.           *)
(***************************************************************************)
EXTENDS Integers, FiniteSets, Functions

CONSTANTS
  Validators,       \* the addresses that stake
  Owners,           \* the addresses that may own the contract
  StakingDeployer,  \* the first owner
  InitialMinStake,  \* _minStake (0.1 ether as deployed; never zero here)
  MinStakes,        \* the values given to setMinStake
  CooldownPeriod,   \* cooldownPeriod, in ticks
  Amounts,          \* the amounts named in a call
  MaxDeposit,       \* bound on what a validator deposits
  MaxTime           \* bound on the clock

ASSUME StakingAssumption ==
  /\ StakingDeployer \in Owners
  /\ InitialMinStake \in Nat \ {0}
  /\ MinStakes \subseteq Nat
  /\ CooldownPeriod \in Nat
  /\ Amounts \subseteq Nat
  /\ MaxDeposit \in Nat /\ MaxTime \in Nat

(* Addresses are twenty bytes: a finite set.                                *)
ASSUME FiniteValidators == IsFiniteSet(Validators)

VARIABLES
  stakes,        \* validator -> ValidatorStake
  stakingOwner,  \* owner
  minStake,      \* minStake
  held,          \* the ETH of the contract
  now,           \* block.timestamp
  deposited,     \* history: what a validator paid in,
  withdrawn,     \*   was paid back,
  slashed,       \*   and was slashed
  retuned        \* history: setMinStake was called

ledgerVars == <<deposited, withdrawn, slashed>>
stakingVars == <<stakes, stakingOwner, minStake, held, now, ledgerVars, retuned>>

NoStake == [amount |-> 0, requestedAt |-> 0, unstake |-> 0, isValidator |-> FALSE]

StakingInit ==
  /\ stakes = [v \in Validators |-> NoStake]
  /\ stakingOwner = StakingDeployer
  /\ minStake = InitialMinStake
  /\ held = 0
  /\ now = 1
  /\ deposited = [v \in Validators |-> 0]
  /\ withdrawn = [v \in Validators |-> 0]
  /\ slashed = [v \in Validators |-> 0]
  /\ retuned = FALSE

-----------------------------------------------------------------------------
Tick ==
  /\ now < MaxTime
  /\ now' = now + 1
  /\ UNCHANGED <<stakes, stakingOwner, minStake, held, ledgerVars, retuned>>

Stake(v, a) ==
  /\ a > 0
  /\ deposited[v] + a <= MaxDeposit
  /\ stakes' = [stakes EXCEPT
       ![v].amount = @ + a,
       ![v].isValidator = @ \/ stakes[v].amount + a >= minStake]
  /\ held' = held + a
  /\ deposited' = [deposited EXCEPT ![v] = @ + a]
  /\ UNCHANGED <<stakingOwner, minStake, now, withdrawn, slashed, retuned>>

(* A new request replaces the amount and restarts the cooldown.             *)
RequestUnstake(v, a) ==
  /\ a > 0
  /\ stakes[v].isValidator
  /\ a <= stakes[v].amount
  /\ stakes' = [stakes EXCEPT ![v].requestedAt = now, ![v].unstake = a]
  /\ UNCHANGED <<stakingOwner, minStake, held, now, ledgerVars, retuned>>

(* Mutant: the pending request is not cleared.                              *)
MutWithdrawnKeepsRequest(s) ==
  [s EXCEPT !.amount = @ - s.unstake,
            !.isValidator = @ /\ s.amount - s.unstake >= minStake]

(* A stake after its withdrawal.                                            *)
Withdrawn(s) ==
  [s EXCEPT !.amount = @ - s.unstake,
            !.requestedAt = 0,
            !.unstake = 0,
            !.isValidator = @ /\ s.amount - s.unstake >= minStake]

(* The subtraction reverts when a slash left less than was requested.       *)
Withdraw(v) ==
  /\ stakes[v].requestedAt # 0
  /\ now >= stakes[v].requestedAt + CooldownPeriod
  /\ stakes[v].unstake <= stakes[v].amount
  /\ stakes[v].unstake <= held
  /\ stakes' = [stakes EXCEPT ![v] = Withdrawn(stakes[v])]
  /\ held' = held - stakes[v].unstake
  /\ withdrawn' = [withdrawn EXCEPT ![v] = @ + stakes[v].unstake]
  /\ UNCHANGED <<stakingOwner, minStake, now, deposited, slashed, retuned>>

(* The slash is capped at the stake; the status goes with the minimum.      *)
SlashedBy(s, a) == IF a > s.amount THEN s.amount ELSE a

AfterSlash(s, a) ==
  [s EXCEPT !.amount = @ - SlashedBy(s, a),
            !.isValidator = @ /\ s.amount - SlashedBy(s, a) >= minStake]

CanSlash(v, a) == a > 0 /\ stakes[v].isValidator

Slash(caller, v, a) ==
  /\ caller = stakingOwner
  /\ CanSlash(v, a)
  /\ stakes' = [stakes EXCEPT ![v] = AfterSlash(stakes[v], a)]
  /\ slashed' = [slashed EXCEPT ![v] = @ + SlashedBy(stakes[v], a)]
  /\ UNCHANGED <<stakingOwner, minStake, held, now, deposited, withdrawn, retuned>>

SetMinStake(caller, m) ==
  /\ caller = stakingOwner
  /\ minStake' = m
  /\ retuned' = TRUE
  /\ UNCHANGED <<stakes, stakingOwner, held, now, ledgerVars>>

TransferStakingOwnership(caller, a) ==
  /\ caller = stakingOwner
  /\ stakingOwner' = a
  /\ UNCHANGED <<stakes, minStake, held, now, ledgerVars, retuned>>

ValidatorStep ==
  \E v \in Validators :
    \/ \E a \in Amounts : Stake(v, a) \/ RequestUnstake(v, a)
    \/ Withdraw(v)

OwnerStep ==
  \E caller \in Owners :
    \/ \E v \in Validators, a \in Amounts : Slash(caller, v, a)
    \/ \E m \in MinStakes : SetMinStake(caller, m)
    \/ \E a \in Owners : TransferStakingOwnership(caller, a)

StakingNext == Tick \/ ValidatorStep \/ OwnerStep

StakingSpec == StakingInit /\ [][StakingNext]_stakingVars

-----------------------------------------------------------------------------
ValidatorStake ==
  [amount : Nat, requestedAt : Nat, unstake : Nat, isValidator : BOOLEAN]

StakingTypeOK ==
  /\ stakes \in [Validators -> ValidatorStake]
  /\ stakingOwner \in Owners
  /\ minStake \in Nat
  /\ held \in Nat
  /\ now \in Nat
  /\ deposited \in [Validators -> Nat]
  /\ withdrawn \in [Validators -> Nat]
  /\ slashed \in [Validators -> Nat]
  /\ retuned \in BOOLEAN

(* A validator's deposits are its stake, what it got back and what it lost:  *)
(* repeated requests, slashes during the cooldown and top-ups never pay it   *)
(* more than it deposited.                                                   *)
EveryWeiAccounted ==
  \A v \in Validators :
    stakes[v].amount + withdrawn[v] + slashed[v] = deposited[v]

(* The contract holds every stake and what was slashed: a withdrawal never   *)
(* finds it short.                                                           *)
Solvent ==
  held = SumFunction([v \in Validators |-> stakes[v].amount + slashed[v]])

(* Exactly those who hold the minimum stake are validators, through          *)
(* deposits, withdrawals and slashes, as long as the minimum is not changed. *)
ValidatorsHoldMinStake ==
  ~retuned => \A v \in Validators :
    stakes[v].isValidator <=> stakes[v].amount >= minStake

(* A pending request is for a validator's own stake unless it was slashed    *)
(* after the request.                                                        *)
UnstakeWithinStake ==
  \A v \in Validators : slashed[v] = 0 => stakes[v].unstake <= stakes[v].amount

(* No interleaving of requests, top-ups, withdrawals and slashes pays a     *)
(* validator twice, leaves a request beyond the stake, or keeps a rank      *)
(* without the stake for it.                                                *)
StakingSound ==
  StakingTypeOK /\ EveryWeiAccounted /\ UnstakeWithinStake /\ ValidatorsHoldMinStake
=============================================================================
