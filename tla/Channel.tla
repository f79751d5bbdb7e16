------------------------------ MODULE Channel ------------------------------
(***************************************************************************)
(* The payment channel contract, settling the states that a sender signs   *)
(* through its ChannelManager or, with its own key, past it. A client      *)
(* opens the channel on the chain and registers it, with the deposit it    *)
(* locked, at the manager; states signed off the chain may be claimed at   *)
(* any time and in any order.                                              *)
(*                                                                         *)
(* The channels are those of one pair: an id is the hash of the pair and   *)
(* the number of the block, so that it is named by the block; Ids bounds   *)
(* the blocks in which the pair opens one. The model has one block for     *)
(* each instant. Calls that revert are no steps.                           *)
(***************************************************************************)
EXTENDS ChannelManager, FiniteSets, Functions

CONSTANTS
  Durations,         \* lifetimes a sender may ask for
  CHALLENGE_PERIOD,  \* settlement delay
  AloneAmounts, AloneNonces,  \* of the states a sender signs past its manager
  MaxAlone,          \* bound on these states
  MaxTime            \* bound on the clock

ASSUME ChannelAssumption ==
  /\ Ids \subseteq 0 .. MaxTime
  /\ Durations \subseteq Nat
  /\ CHALLENGE_PERIOD \in Nat /\ MaxTime \in Nat
  /\ AloneAmounts \subseteq Nat /\ AloneNonces \subseteq Nat /\ MaxAlone \in Nat

VARIABLES
  now,       \* block.timestamp and block.number
  alone,     \* the states a sender signed past its manager, each with its channel
  chain,     \* channels
  escrow,    \* address(this).balance
  locked,    \* history: the deposit a channel was opened with
  paid,      \* history: what its receiver got
  refunded   \* history: what its sender got back

contractVars == <<chain, escrow, locked, paid, refunded>>
vars == <<managerVars, now, alone, contractVars>>

AloneStates == [amount : AloneAmounts, nonce : AloneNonces]

Unopened ==
  [deposit |-> 0, claimedAmount |-> 0, claimedNonce |-> 0, expiresAt |-> 0,
   challengeEnd |-> 0, isOpen |-> FALSE]

Init ==
  /\ ManagerInit
  /\ now = 0
  /\ alone = {}
  /\ chain = [id \in Ids |-> Unopened]
  /\ escrow = 0
  /\ locked = [id \in Ids |-> 0]
  /\ paid = [id \in Ids |-> 0]
  /\ refunded = [id \in Ids |-> 0]

Tick ==
  /\ now < MaxTime
  /\ now' = now + 1
  /\ UNCHANGED <<managerVars, alone, contractVars>>

(* openChannel: one channel of a pair in a block. A channel was opened, and   *)
(* has an openedAt, once its deposit was locked.                            *)
OpenChannel(deposit, duration) ==
  /\ deposit > 0 /\ duration > 0
  /\ now \in Ids
  /\ locked[now] = 0
  /\ chain' = [chain EXCEPT ![now] =
       [Unopened EXCEPT !.deposit = deposit, !.expiresAt = now + duration, !.isOpen = TRUE]]
  /\ escrow' = escrow + deposit
  /\ locked' = [locked EXCEPT ![now] = deposit]
  /\ UNCHANGED <<managerVars, now, alone, paid, refunded>>

(* Mutant: the sender is refunded the whole deposit.                        *)
MutRefundWhole(id, amount) == chain[id].deposit

Refund(id, amount) == chain[id].deposit - amount

(* _settle                                                                  *)
Settle(id, amount) ==
  /\ chain' = [chain EXCEPT ![id].isOpen = FALSE, ![id].deposit = 0]
  /\ paid' = [paid EXCEPT ![id] = amount]
  /\ refunded' = [refunded EXCEPT ![id] = Refund(id, amount)]
  /\ escrow' = escrow - amount - Refund(id, amount)
  /\ UNCHANGED <<managerVars, now, alone, locked>>

(* closeChannel, by a participant with a proof under both signatures.       *)
CloseChannel(id, state) ==
  /\ chain[id].isOpen
  /\ state \in proofs[id]
  /\ state.amount <= chain[id].deposit
  /\ Settle(id, state.amount)

(* Mutant: any claim replaces the one before.                               *)
MutSupersedesAlways(id, state) == TRUE

(* A claim replaces another only with a higher nonce.                       *)
Supersedes(id, state) ==
  chain[id].challengeEnd = 0 \/ state.nonce > chain[id].claimedNonce

(* What the sender's key signed for a channel, through the manager or not.  *)
Claimable(id) == signed[id] \cup {s \in AloneStates : <<id, s>> \in alone}

(* challengeClose, by a participant with a state the sender signed, with    *)
(* which the receiver need not have agreed.                                 *)
ChallengeClose(id, state) ==
  /\ chain[id].isOpen
  /\ state \in Claimable(id)
  /\ state.amount <= chain[id].deposit
  /\ Supersedes(id, state)
  /\ chain' = [chain EXCEPT ![id].claimedAmount = state.amount,
                            ![id].claimedNonce = state.nonce,
                            ![id].challengeEnd = now + CHALLENGE_PERIOD]
  /\ UNCHANGED <<managerVars, now, alone, escrow, locked, paid, refunded>>

(* Mutant: the receiver gets the whole deposit.                             *)
MutFinalizeChallengeWhole(id) ==
  /\ chain[id].isOpen
  /\ chain[id].challengeEnd # 0
  /\ now >= chain[id].challengeEnd
  /\ Settle(id, chain[id].deposit)

(* finalizeChallenge, by anybody.                                           *)
FinalizeChallenge(id) ==
  /\ chain[id].isOpen
  /\ chain[id].challengeEnd # 0
  /\ now >= chain[id].challengeEnd
  /\ Settle(id, chain[id].claimedAmount)

ExpiredAt(id) == now >= chain[id].expiresAt

(* reclaimExpired, by the sender, also during a challenge.                  *)
ReclaimExpired(id) ==
  /\ chain[id].isOpen
  /\ ExpiredAt(id)
  /\ chain' = [chain EXCEPT ![id].isOpen = FALSE, ![id].deposit = 0]
  /\ refunded' = [refunded EXCEPT ![id] = chain[id].deposit]
  /\ escrow' = escrow - chain[id].deposit
  /\ UNCHANGED <<managerVars, now, alone, locked, paid>>

(* The manager's steps, for channels of the chain.                          *)
OffChain(id) ==
  /\ ManagerStep(id) \/ (locked[id] > 0 /\ Register(id, locked[id]))
  /\ UNCHANGED <<now, alone, contractVars>>

(* The sender holds its key, and may sign any state without the manager: a  *)
(* smaller amount under a higher nonce included.                            *)
SignAlone(id, state) ==
  /\ locked[id] > 0 /\ Cardinality(alone) < MaxAlone
  /\ alone' = alone \cup {<<id, state>>}
  /\ UNCHANGED <<managerVars, now, contractVars>>

OnChain(id) ==
  \/ \E state \in proofs[id] : CloseChannel(id, state)
  \/ \E state \in Claimable(id) : ChallengeClose(id, state)
  \/ FinalizeChallenge(id)
  \/ ReclaimExpired(id)

Next ==
  \/ Tick
  \/ \E deposit \in Deposits, duration \in Durations : OpenChannel(deposit, duration)
  \/ \E id \in Ids : \/ OffChain(id) \/ OnChain(id)
                     \/ \E state \in AloneStates : SignAlone(id, state)

Spec == Init /\ [][Next]_vars

-----------------------------------------------------------------------------
TypeOK ==
  /\ ManagerTypeOK
  /\ now \in 0 .. MaxTime /\ alone \subseteq Ids \X AloneStates
  /\ chain \in [Ids -> [deposit : Nat, claimedAmount : Nat, claimedNonce : Nat,
                        expiresAt : Nat, challengeEnd : Nat, isOpen : BOOLEAN]]
  /\ escrow \in Nat
  /\ locked \in [Ids -> Nat] /\ paid \in [Ids -> Nat] /\ refunded \in [Ids -> Nat]

(* The contract holds the deposits of its open channels, over all of them:   *)
(* no settlement or reclaim pays from another channel's deposit.             *)
EscrowMatchesChannels == escrow = SumFunction([id \in Ids |-> chain[id].deposit])

(* What was locked in a channel is held, or went to its two parties, once.   *)
DepositAccounted ==
  \A id \in Ids : locked[id] = chain[id].deposit + paid[id] + refunded[id]

(* A receiver is never paid more than the sender has signed.                 *)
PaidWasSigned ==
  \A id \in Ids : paid[id] > 0 => \E s \in Claimable(id) : s.amount = paid[id]

(* Every state signed through the manager can be claimed on the chain: the   *)
(* deposit covers it as long as the channel is open.                         *)
SignedIsCovered ==
  \A id \in Ids : chain[id].isOpen => \A s \in signed[id] : s.amount <= chain[id].deposit

Claim(id) == [amount |-> chain[id].claimedAmount, nonce |-> chain[id].claimedNonce]

(* In a dispute a claim shrinks only where the sender signed past its        *)
(* manager: of two states that went through the manager, the higher nonce    *)
(* that the contract asks for carries at least the amount it replaces. The   *)
(* contract takes any state with a higher nonce for the newer one.           *)
ClaimsShrinkOnlyAlone ==
  [][\A id \in Ids : /\ chain[id].challengeEnd # 0
                     /\ chain'[id].claimedAmount < chain[id].claimedAmount
       => ~ ({Claim(id), Claim(id)'} \subseteq signed[id])]_vars

Disputed(id) == chain[id].isOpen /\ chain[id].challengeEnd # 0

(* Until the channel expires, however a disputed channel ends, its receiver  *)
(* gets at least the amount claimed, or what both agreed to settle for when  *)
(* the sender had signed the claim past its manager.                         *)
ClaimIsPaidBeforeExpiry ==
  [][\A id \in Ids : Disputed(id) /\ ~chain'[id].isOpen /\ now < chain[id].expiresAt
       => \/ paid'[id] >= chain[id].claimedAmount
          \/ Claim(id) \notin signed[id] /\ \E p \in proofs[id] : paid'[id] = p.amount]_vars

(* "if unchallenged, the channel settles at the claimed amount after         *)
(* CHALLENGE_PERIOD"                                                         *)
ClaimIsPaid ==
  [][\A id \in Ids : Disputed(id) /\ ~chain'[id].isOpen
       => paid'[id] >= chain[id].claimedAmount]_vars

(* The escrow of well-typed channels is exactly what they still owe.        *)
EscrowSound == TypeOK /\ EscrowMatchesChannels

(* Whatever order states are signed in through the manager, and a proof     *)
(* handed out and used later: they are covered, they only grow, and a proof *)
(* is the last of them.                                                     *)
SignedStatesSound == SignedIsCovered /\ SignedStatesAccumulate /\ ProofIsFinal

(* A claim is honoured: no later challenge with a state of the manager makes *)
(* a claim of one smaller, and before the expiry a dispute ends with payment *)
(* of the claim it has come to, but for a settlement both have signed.       *)
ClaimsHonoured == ClaimsShrinkOnlyAlone /\ ClaimIsPaidBeforeExpiry
=============================================================================
