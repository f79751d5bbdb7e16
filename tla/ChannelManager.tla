--------------------------- MODULE ChannelManager ---------------------------
(***************************************************************************)
(* The in-memory manager of payment channels. A channel is an accumulator: *)
(* every payment is a fresh state, the cumulative amount under the next    *)
(* nonce, signed by the sender; closing signs the last state by both.      *)
(* Sessions, workflows and settlements drive it through the same three     *)
(* operations. Amounts are counted in a unit small enough to be integers.  *)
(***************************************************************************)
EXTENDS Integers

CONSTANTS
  Ids,         \* channel ids
  Deposits,    \* deposits a client may lock
  Payments,    \* increments a client may pay
  MinDeposit,  \* ChannelConfig.min_deposit
  MaxPayments  \* bound on the payments of a channel

ASSUME ManagerAssumption ==
  /\ Deposits \subseteq Nat
  /\ Payments \subseteq Int
  /\ MinDeposit \in Nat /\ MaxPayments \in Nat

VARIABLES
  channels,  \* self._channels
  signed,    \* payment states under the sender's signature the manager made or received
  proofs     \* settlement proofs, by channel: final states signed by both

managerVars == <<channels, signed, proofs>>

NoChannel == [deposit |-> 0, spent |-> 0, nonce |-> 0, open |-> FALSE]

(* A payment update, also the final state of a channel.                     *)
State(ch) == [amount |-> ch.spent, nonce |-> ch.nonce]

Known(id) == channels[id] # NoChannel

ManagerInit ==
  /\ channels = [id \in Ids |-> NoChannel]
  /\ signed = [id \in Ids |-> {}]
  /\ proofs = [id \in Ids |-> {}]

(* open_channel                                                             *)
Register(id, deposit) ==
  /\ ~Known(id)
  /\ deposit >= MinDeposit
  /\ channels' = [channels EXCEPT ![id] = [NoChannel EXCEPT !.deposit = deposit, !.open = TRUE]]
  /\ UNCHANGED <<signed, proofs>>

(* The cumulative amount stays within the deposit.                          *)
Affordable(ch, amount) == amount > 0 /\ ch.spent + amount <= ch.deposit

(* Mutant: a closed channel goes on paying.                                 *)
MutCreatePaymentClosed(id, amount) ==
  LET ch == channels[id]
      next == [ch EXCEPT !.spent = @ + amount, !.nonce = @ + 1] IN
  /\ Affordable(ch, amount)
  /\ ch.nonce < MaxPayments
  /\ channels' = [channels EXCEPT ![id] = next]
  /\ signed' = [signed EXCEPT ![id] = @ \cup {State(next)}]
  /\ UNCHANGED proofs

(* create_payment: the next state is signed and kept.                       *)
CreatePayment(id, amount) ==
  LET ch == channels[id]
      next == [ch EXCEPT !.spent = @ + amount, !.nonce = @ + 1] IN
  /\ ch.open
  /\ Affordable(ch, amount)
  /\ ch.nonce < MaxPayments
  /\ channels' = [channels EXCEPT ![id] = next]
  /\ signed' = [signed EXCEPT ![id] = @ \cup {State(next)}]
  /\ UNCHANGED proofs

(* An update continues the channel: the next nonce, an amount that has not  *)
(* shrunk and that the deposit covers.                                      *)
Follows(ch, update) ==
  /\ update.nonce = ch.nonce + 1
  /\ ch.spent <= update.amount /\ update.amount <= ch.deposit

(* receive_payment: an update the sender signed itself, with its own key, and *)
(* handed over. States that it signs and keeps are not the manager's.        *)
ReceivePayment(id, update) ==
  /\ channels[id].open
  /\ Follows(channels[id], update)
  /\ channels[id].nonce < MaxPayments
  /\ channels' = [channels EXCEPT ![id].spent = update.amount, ![id].nonce = update.nonce]
  /\ signed' = [signed EXCEPT ![id] = @ \cup {update}]
  /\ UNCHANGED proofs

(* close_channel                                                            *)
Close(id) ==
  /\ channels[id].open
  /\ channels' = [channels EXCEPT ![id].open = FALSE]
  /\ signed' = [signed EXCEPT ![id] = @ \cup {State(channels[id])}]
  /\ proofs' = [proofs EXCEPT ![id] = {State(channels[id])}]

Updates == [amount : UNION {0 .. d : d \in Deposits}, nonce : 1 .. MaxPayments]

ManagerStep(id) ==
  \/ \E amount \in Payments : CreatePayment(id, amount)
  \/ \E update \in Updates : ReceivePayment(id, update)
  \/ Close(id)

-----------------------------------------------------------------------------
ManagerTypeOK ==
  /\ channels \in [Ids -> [deposit : Nat, spent : Nat, nonce : Nat, open : BOOLEAN]]
  /\ signed \in [Ids -> SUBSET [amount : Nat, nonce : Nat]]
  /\ proofs \in [Ids -> SUBSET [amount : Nat, nonce : Nat]]

(* "Nonces are strictly sequential": of the states of a channel that the     *)
(* manager made or received, the later nonce carries at least the amount of  *)
(* the earlier, and no nonce carries two, whichever of the two signed them.  *)
SignedStatesAccumulate ==
  \A id \in Ids : \A s, t \in signed[id] :
    /\ s.nonce < t.nonce => s.amount <= t.amount
    /\ s.nonce = t.nonce => s = t

(* A settlement proof is final: the manager has no newer state.              *)
ProofIsFinal ==
  \A id \in Ids : \A p \in proofs[id] : \A s \in signed[id] : s.nonce <= p.nonce
=============================================================================
