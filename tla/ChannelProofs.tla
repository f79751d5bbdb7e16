--------------------------- MODULE ChannelProofs ---------------------------
(***************************************************************************)
(* What the channel contract and the manager guarantee together, for any   *)
(* number of channels, deposits, payments and instants.                    *)
(***************************************************************************)
EXTENDS Channel, Sums

(* The types of what the argument about one channel is about; the escrow, a *)
(* sum over all channels, follows at the end (EscrowInv).                   *)
ChainChannel ==
  [deposit : Nat, claimedAmount : Nat, claimedNonce : Nat,
   expiresAt : Int, challengeEnd : Int, isOpen : BOOLEAN]

Types ==
  /\ ManagerTypeOK
  /\ now \in Int /\ alone \subseteq Ids \X AloneStates
  /\ chain \in [Ids -> ChainChannel]
  /\ locked \in [Ids -> Nat] /\ paid \in [Ids -> Nat] /\ refunded \in [Ids -> Nat]

(* Signed states lie behind the current one, and the amounts follow the     *)
(* nonces.                                                                  *)
Behind(s, ch) ==
  /\ s.amount <= ch.spent
  /\ s.nonce <= ch.nonce
  /\ s.nonce = ch.nonce => s.amount = ch.spent

Ordered(S) ==
  \A s, t \in S : /\ s.nonce < t.nonce => s.amount <= t.amount
                  /\ s.nonce = t.nonce => s = t

SignedInv(id) ==
  /\ channels[id].spent <= channels[id].deposit
  /\ \A s \in signed[id] : Behind(s, channels[id])
  /\ Ordered(signed[id])
  /\ channels[id].open \/ signed[id] # {} => channels[id].deposit > 0

ProofInv(id) ==
  \A p \in proofs[id] : /\ p = State(channels[id])
                        /\ p \in signed[id]
                        /\ ~channels[id].open

(* The manager's channel is one of the chain, with the deposit locked there. *)
LinkInv(id) ==
  /\ locked[id] = 0 => chain[id] = Unopened /\ channels[id].deposit = 0
  /\ channels[id].deposit > 0 => channels[id].deposit = locked[id]

ContractInv(id) ==
  /\ IF chain[id].isOpen
       THEN chain[id].deposit = locked[id] /\ paid[id] = 0 /\ refunded[id] = 0
       ELSE chain[id].deposit = 0 /\ locked[id] = paid[id] + refunded[id]
  /\ chain[id].challengeEnd # 0 => Claim(id) \in Claimable(id)
  /\ Disputed(id) => chain[id].claimedAmount <= chain[id].deposit
  /\ paid[id] > 0 => \E s \in Claimable(id) : s.amount = paid[id]

ChannelInv(id) == SignedInv(id) /\ ProofInv(id) /\ LinkInv(id) /\ ContractInv(id)

Inv == Types /\ \A id \in Ids : ChannelInv(id)

USE ManagerAssumption, ChannelAssumption

LEMMA InitInv == Init => Inv
  BY DEF Claim, Disputed, Init, ManagerInit, Inv, Types, ChainChannel, ManagerTypeOK, ChannelInv, SignedInv, ProofInv,
      LinkInv, ContractInv, NoChannel, Unopened, Ordered, Behind

(* A step that leaves a channel alone keeps its invariant.                  *)
LEMMA Untouched ==
  ASSUME NEW j \in Ids, ChannelInv(j),
         channels'[j] = channels[j], signed'[j] = signed[j], proofs'[j] = proofs[j],
         chain'[j] = chain[j], locked'[j] = locked[j], paid'[j] = paid[j],
         refunded'[j] = refunded[j], alone \subseteq alone'
  PROVE  ChannelInv(j)'
  BY DEF Claim, Claimable, Disputed, ChannelInv, SignedInv, ProofInv, LinkInv, ContractInv, Ordered, State

(* A state signed beyond all the others keeps them ordered.                 *)
LEMMA SignNext ==
  ASSUME NEW S, NEW u, NEW spent \in Nat, NEW nonce \in Nat,
         u \in [amount : Nat, nonce : Nat], S \subseteq [amount : Nat, nonce : Nat],
         Ordered(S),
         \A s \in S : s.amount <= spent /\ s.nonce <= nonce,
         spent <= u.amount, nonce < u.nonce
  PROVE  Ordered(S \cup {u})
<1> SUFFICES ASSUME NEW s \in S \cup {u}, NEW t \in S \cup {u}
             PROVE  /\ s.nonce < t.nonce => s.amount <= t.amount
                    /\ s.nonce = t.nonce => s = t
  BY DEF Ordered
<1>1. CASE s \in S /\ t \in S
  BY <1>1 DEF Ordered
<1>2. CASE s \in S /\ t = u
  BY <1>2
<1>3. CASE s = u
  BY <1>3
<1> QED BY <1>1, <1>2, <1>3

-----------------------------------------------------------------------------
(* A payment, whoever made it: the next state is signed.                    *)
LEMMA PaysInv ==
  ASSUME Inv, NEW id \in Ids, NEW u \in [amount : Nat, nonce : Nat],
         channels[id].open, u.nonce = channels[id].nonce + 1,
         channels[id].spent <= u.amount, u.amount <= channels[id].deposit,
         channels' = [channels EXCEPT ![id].spent = u.amount, ![id].nonce = u.nonce],
         signed' = [signed EXCEPT ![id] = @ \cup {u}],
         UNCHANGED <<proofs, now, alone, contractVars>>
  PROVE  Inv'
<1> USE DEF contractVars
<1>1. Types'
  BY DEF Inv, Types, ManagerTypeOK
<1>2. ChannelInv(id)'
  <2>1. /\ channels[id] \in [deposit : Nat, spent : Nat, nonce : Nat, open : BOOLEAN]
        /\ signed[id] \subseteq [amount : Nat, nonce : Nat]
        /\ channels'[id].spent = u.amount /\ channels'[id].nonce = u.nonce
        /\ channels'[id].deposit = channels[id].deposit
        /\ channels'[id].open = channels[id].open
        /\ signed'[id] = signed[id] \cup {u}
    BY DEF Inv, Types, ManagerTypeOK
  <2>2. SignedInv(id) /\ ProofInv(id) /\ LinkInv(id) /\ ContractInv(id)
    BY DEF Inv, ChannelInv
  <2>3. Ordered(signed'[id])
    BY <2>1, <2>2, SignNext DEF SignedInv, Behind
  <2>4. SignedInv(id)'
    <3>1. ASSUME NEW s \in signed'[id] PROVE Behind(s, channels'[id])
      <4>1. CASE s = u
        BY <2>1, <4>1 DEF Behind
      <4>2. CASE s \in signed[id]
        BY <2>1, <2>2, <4>2 DEF Behind, SignedInv
      <4> QED BY <2>1, <4>1, <4>2
    <3>2. /\ channels'[id].spent <= channels'[id].deposit
          /\ channels'[id].deposit > 0
      BY <2>1, <2>2 DEF SignedInv
    <3> QED BY <2>3, <3>1, <3>2 DEF SignedInv
  <2>5. ProofInv(id)'
    BY <2>1, <2>2 DEF ProofInv
  <2>6. LinkInv(id)'
    BY <2>1, <2>2 DEF LinkInv
  <2>7. ContractInv(id)'
    <3>1. Claimable(id) \subseteq Claimable(id)'
      BY <2>1 DEF Claimable
    <3> QED BY <2>2, <3>1 DEF ContractInv, Claim, Disputed
  <2> QED BY <2>4, <2>5, <2>6, <2>7 DEF ChannelInv
<1>3. ASSUME NEW j \in Ids, j # id PROVE ChannelInv(j)'
  BY <1>3, Untouched DEF Inv, Types, ManagerTypeOK
<1> QED BY <1>1, <1>2, <1>3 DEF Inv

LEMMA CreatePaymentInv ==
  ASSUME Inv, NEW id \in Ids, NEW amount \in Payments, CreatePayment(id, amount),
         UNCHANGED <<now, alone, contractVars>>
  PROVE  Inv'
<1> DEFINE u == [amount |-> channels[id].spent + amount, nonce |-> channels[id].nonce + 1]
<1>1. channels[id] \in [deposit : Nat, spent : Nat, nonce : Nat, open : BOOLEAN]
  BY DEF Inv, Types, ManagerTypeOK
<1>2. amount \in Nat
  BY DEF CreatePayment, Affordable
<1>3. /\ u \in [amount : Nat, nonce : Nat]
      /\ u.nonce = channels[id].nonce + 1
      /\ channels[id].spent <= u.amount
      /\ u.amount <= channels[id].deposit
  BY <1>1, <1>2 DEF CreatePayment, Affordable
<1>4. /\ channels' = [channels EXCEPT ![id].spent = u.amount, ![id].nonce = u.nonce]
      /\ signed' = [signed EXCEPT ![id] = @ \cup {u}]
  BY <1>1 DEF CreatePayment, State, Inv, Types, ManagerTypeOK
<1>5. channels[id].open /\ UNCHANGED proofs
  BY DEF CreatePayment
<1> HIDE DEF u
<1> QED BY <1>3, <1>4, <1>5, PaysInv

LEMMA ReceivePaymentInv ==
  ASSUME Inv, NEW id \in Ids, NEW u \in Updates, ReceivePayment(id, u),
         UNCHANGED <<now, alone, contractVars>>
  PROVE  Inv'
<1>1. u \in [amount : Nat, nonce : Nat]
  BY DEF Updates
<1> QED BY <1>1, PaysInv DEF ReceivePayment, Follows

LEMMA RegisterInv ==
  ASSUME Inv, NEW id \in Ids, locked[id] > 0, Register(id, locked[id]),
         UNCHANGED <<now, alone, contractVars>>
  PROVE  Inv'
<1> USE DEF contractVars, Register
<1>1. Types'
  BY DEF Inv, Types, ManagerTypeOK, NoChannel
<1>2. ChannelInv(id)'
  <2>1. /\ channels[id] = NoChannel
        /\ channels'[id] = [NoChannel EXCEPT !.deposit = locked[id], !.open = TRUE]
        /\ signed'[id] = signed[id] /\ proofs'[id] = proofs[id]
    BY DEF Inv, Types, ManagerTypeOK, Known
  <2>2. SignedInv(id) /\ ProofInv(id) /\ LinkInv(id) /\ ContractInv(id)
    BY DEF Inv, ChannelInv
  <2>3. signed[id] = {}
    BY <2>1, <2>2 DEF SignedInv, NoChannel
  <2>4. proofs[id] = {}
    BY <2>2, <2>3 DEF ProofInv
  <2>5. locked[id] \in Nat
    BY DEF Inv, Types
  <2>6. SignedInv(id)' /\ ProofInv(id)'
    BY <2>1, <2>3, <2>4, <2>5 DEF SignedInv, ProofInv, Ordered, NoChannel
  <2>7. LinkInv(id)' /\ ContractInv(id)'
    BY <2>1, <2>2, <2>5 DEF LinkInv, ContractInv, NoChannel, Claim, Claimable, Disputed
  <2> QED BY <2>6, <2>7 DEF ChannelInv
<1>3. ASSUME NEW j \in Ids, j # id PROVE ChannelInv(j)'
  BY <1>3, Untouched DEF Inv, Types, ManagerTypeOK
<1> QED BY <1>1, <1>2, <1>3 DEF Inv

LEMMA CloseInv ==
  ASSUME Inv, NEW id \in Ids, Close(id), UNCHANGED <<now, alone, contractVars>>
  PROVE  Inv'
<1> USE DEF contractVars, Close
<1> DEFINE final == State(channels[id])
<1>1. channels[id] \in [deposit : Nat, spent : Nat, nonce : Nat, open : BOOLEAN]
  BY DEF Inv, Types, ManagerTypeOK
<1>2. final \in [amount : Nat, nonce : Nat]
  BY <1>1 DEF State
<1>3. Types'
  BY <1>2 DEF Inv, Types, ManagerTypeOK
<1>4. ChannelInv(id)'
  <2>1. /\ channels'[id].spent = channels[id].spent
        /\ channels'[id].nonce = channels[id].nonce
        /\ channels'[id].deposit = channels[id].deposit
        /\ channels'[id].open = FALSE
        /\ signed'[id] = signed[id] \cup {final}
        /\ proofs'[id] = {final}
    BY DEF Inv, Types, ManagerTypeOK
  <2>2. SignedInv(id) /\ ProofInv(id) /\ LinkInv(id) /\ ContractInv(id)
    BY DEF Inv, ChannelInv
  <2>3. Behind(final, channels[id])
    BY <1>1 DEF Behind, State
  <2>4. ASSUME NEW s \in signed'[id] PROVE Behind(s, channels'[id])
    BY <2>1, <2>2, <2>3, <2>4 DEF SignedInv, Behind
  <2>5. Ordered(signed'[id])
    <3>1. ASSUME NEW s \in signed[id]
          PROVE  /\ s.nonce <= final.nonce /\ s.amount <= final.amount
                 /\ s.nonce = final.nonce => s = final
      <4>1. s \in [amount : Nat, nonce : Nat]
        BY DEF Inv, Types, ManagerTypeOK
      <4> QED BY <2>2, <4>1 DEF SignedInv, Behind, State
    <3>2. signed[id] \subseteq [amount : Nat, nonce : Nat]
      BY DEF Inv, Types, ManagerTypeOK
    <3>3. Ordered(signed[id])
      BY <2>2 DEF SignedInv
    <3> HIDE DEF final
    <3> QED BY <1>2, <2>1, <3>1, <3>2, <3>3 DEF Ordered
  <2>6. SignedInv(id)'
    <3>1. channels[id].open
      OBVIOUS
    <3> QED BY <2>1, <2>2, <2>4, <2>5, <3>1 DEF SignedInv
  <2>7. ProofInv(id)'
    BY <2>1 DEF ProofInv, State
  <2>8. LinkInv(id)'
    BY <2>1, <2>2 DEF LinkInv
  <2>9. ContractInv(id)'
    <3>1. Claimable(id) \subseteq Claimable(id)'
      BY <2>1 DEF Claimable
    <3> QED BY <2>2, <3>1 DEF ContractInv, Claim, Disputed
  <2> QED BY <2>6, <2>7, <2>8, <2>9 DEF ChannelInv
<1>5. ASSUME NEW j \in Ids, j # id PROVE ChannelInv(j)'
  BY <1>5, Untouched DEF Inv, Types, ManagerTypeOK
<1> QED BY <1>3, <1>4, <1>5 DEF Inv

-----------------------------------------------------------------------------
LEMMA OpenChannelInv ==
  ASSUME Inv, NEW deposit \in Deposits, NEW duration \in Durations,
         OpenChannel(deposit, duration)
  PROVE  Inv'
<1> USE DEF managerVars, OpenChannel
<1>1. now \in Ids /\ deposit \in Nat /\ duration \in Nat /\ now + duration \in Int
  BY DEF Inv, Types
<1>2. PICK opened : opened = [Unopened EXCEPT !.deposit = deposit,
                              !.expiresAt = now + duration, !.isOpen = TRUE]
  OBVIOUS
<1>3. /\ opened \in ChainChannel
      /\ opened.isOpen = TRUE /\ opened.deposit = deposit /\ opened.challengeEnd = 0
  <2>1. Unopened \in ChainChannel /\ Unopened.challengeEnd = 0
    BY DEF Unopened, ChainChannel
  <2>2. opened = [deposit |-> deposit, claimedAmount |-> Unopened.claimedAmount,
                  claimedNonce |-> Unopened.claimedNonce, expiresAt |-> now + duration,
                  challengeEnd |-> Unopened.challengeEnd, isOpen |-> TRUE]
    BY <1>2, <2>1 DEF ChainChannel
  <2>3. Unopened.claimedAmount \in Nat /\ Unopened.claimedNonce \in Nat
    BY <2>1 DEF ChainChannel
  <2> QED BY <1>1, <2>1, <2>2, <2>3 DEF ChainChannel
<1>4. chain' = [chain EXCEPT ![now] = opened]
  BY <1>2
<1>5. Types'
  <2>1. chain' \in [Ids -> ChainChannel]
    BY <1>3, <1>4 DEF Inv, Types
  <2> QED BY <1>1, <2>1 DEF Inv, Types, ManagerTypeOK
<1>6. ChannelInv(now)'
  <2>1. /\ locked[now] = 0
        /\ chain'[now] = opened
        /\ locked'[now] = deposit /\ deposit > 0
        /\ channels'[now] = channels[now] /\ signed'[now] = signed[now]
        /\ proofs'[now] = proofs[now]
        /\ paid'[now] = paid[now] /\ refunded'[now] = refunded[now]
    BY <1>1, <1>4 DEF Inv, Types
  <2>2. /\ SignedInv(now) /\ ProofInv(now) /\ LinkInv(now) /\ ContractInv(now)
        /\ paid[now] \in Nat /\ refunded[now] \in Nat
    BY <1>1 DEF Inv, ChannelInv, Types
  <2>3. paid[now] = 0 /\ refunded[now] = 0
    BY <2>1, <2>2 DEF ContractInv, LinkInv, Unopened
  <2>4. SignedInv(now)' /\ ProofInv(now)'
    BY <2>1, <2>2 DEF SignedInv, ProofInv, Ordered, State
  <2>5. /\ chain'[now].isOpen = TRUE /\ chain'[now].deposit = deposit
        /\ chain'[now].challengeEnd = 0
    BY <1>3, <2>1
  <2>6. channels[now].deposit = 0
    BY <2>1, <2>2 DEF LinkInv
  <2>7. LinkInv(now)'
    BY <2>1, <2>6 DEF LinkInv
  <2>8. ContractInv(now)'
    BY <2>1, <2>3, <2>5 DEF ContractInv, Disputed
  <2> QED BY <1>1, <2>4, <2>7, <2>8 DEF ChannelInv
<1>7. ASSUME NEW j \in Ids, j # now PROVE ChannelInv(j)'
  <2>1. /\ chain'[j] = chain[j] /\ locked'[j] = locked[j]
        /\ UNCHANGED <<channels, signed, proofs, alone, paid, refunded>>
    BY <1>4, <1>7 DEF Inv, Types
  <2> QED BY <1>7, <2>1, Untouched DEF Inv
<1>8. UNCHANGED now
  OBVIOUS
<1> QED BY <1>5, <1>6, <1>7, <1>8 DEF Inv

(* A settlement at an amount that was signed, or at nothing.                *)
LEMMA SettleInv ==
  ASSUME Inv, NEW id \in Ids, NEW amount \in Nat, chain[id].isOpen,
         amount <= chain[id].deposit,
         amount > 0 => \E s \in Claimable(id) : s.amount = amount,
         Settle(id, amount)
  PROVE  Inv'
<1> USE DEF managerVars, Settle
<1>1. chain[id].deposit \in Nat /\ Refund(id, amount) \in Nat
  BY DEF Inv, Types, ChainChannel, Refund
<1>2. Types'
  <2>1. chain' \in [Ids -> ChainChannel]
    BY DEF Inv, Types, ChainChannel
  <2> QED BY <1>1, <2>1 DEF Inv, Types, ManagerTypeOK
<1>3. ChannelInv(id)'
  <2>1. /\ chain'[id].isOpen = FALSE /\ chain'[id].deposit = 0
        /\ chain'[id].challengeEnd = chain[id].challengeEnd
        /\ chain'[id].claimedAmount = chain[id].claimedAmount
        /\ chain'[id].claimedNonce = chain[id].claimedNonce
        /\ paid'[id] = amount /\ refunded'[id] = chain[id].deposit - amount
        /\ locked'[id] = locked[id] /\ channels'[id] = channels[id]
        /\ signed'[id] = signed[id] /\ proofs'[id] = proofs[id]
        /\ Claimable(id)' = Claimable(id)
    BY DEF Inv, Types, ChainChannel, Refund, Claimable
  <2>2. SignedInv(id) /\ ProofInv(id) /\ LinkInv(id) /\ ContractInv(id)
    BY DEF Inv, ChannelInv
  <2>3. SignedInv(id)' /\ ProofInv(id)'
    BY <2>1, <2>2 DEF SignedInv, ProofInv, Ordered, State
  <2>4. LinkInv(id)'
    BY <2>1, <2>2 DEF LinkInv, Unopened
  <2>5. chain[id].deposit = locked[id] /\ chain[id].isOpen
    BY <2>2 DEF ContractInv
  <2>6. locked'[id] = paid'[id] + refunded'[id]
    BY <1>1, <2>1, <2>5
  <2>7. ContractInv(id)'
    BY <2>1, <2>2, <2>6 DEF ContractInv, Claim, Disputed
  <2> QED BY <2>3, <2>4, <2>7 DEF ChannelInv
<1>4. ASSUME NEW j \in Ids, j # id PROVE ChannelInv(j)'
  BY <1>4, Untouched DEF Inv, Types
<1> QED BY <1>2, <1>3, <1>4 DEF Inv

(* What can be claimed are states.                                          *)
LEMMA ClaimableStates ==
  ASSUME Types, NEW id \in Ids
  PROVE  Claimable(id) \subseteq [amount : Nat, nonce : Nat]
BY DEF Types, ManagerTypeOK, Claimable, AloneStates

LEMMA ChallengeCloseInv ==
  ASSUME Inv, NEW id \in Ids, NEW s \in Claimable(id), ChallengeClose(id, s)
  PROVE  Inv'
<1> USE DEF managerVars, ChallengeClose
<1>1. /\ s.amount \in Nat /\ s.nonce \in Nat /\ s \in [amount : Nat, nonce : Nat]
      /\ chain[id] \in ChainChannel /\ now + CHALLENGE_PERIOD \in Int
  BY ClaimableStates DEF Inv, Types
<1>2. PICK claimed : claimed = [chain[id] EXCEPT !.claimedAmount = s.amount,
                                !.claimedNonce = s.nonce,
                                !.challengeEnd = now + CHALLENGE_PERIOD]
  OBVIOUS
<1>3. /\ claimed \in ChainChannel
      /\ claimed.isOpen = chain[id].isOpen /\ claimed.deposit = chain[id].deposit
      /\ claimed.claimedAmount = s.amount /\ claimed.claimedNonce = s.nonce
  <2>1. claimed = [deposit |-> chain[id].deposit, claimedAmount |-> s.amount,
                   claimedNonce |-> s.nonce, expiresAt |-> chain[id].expiresAt,
                   challengeEnd |-> now + CHALLENGE_PERIOD, isOpen |-> chain[id].isOpen]
    BY <1>1, <1>2 DEF ChainChannel
  <2>2. chain[id].deposit \in Nat /\ chain[id].expiresAt \in Int /\ chain[id].isOpen \in BOOLEAN
    BY <1>1 DEF ChainChannel
  <2> QED BY <1>1, <2>1, <2>2 DEF ChainChannel
<1>4. chain' = [chain EXCEPT ![id] = claimed]
  BY <1>2
<1>5. Types'
  <2>1. chain' \in [Ids -> ChainChannel]
    BY <1>3, <1>4 DEF Inv, Types
  <2> QED BY <2>1 DEF Inv, Types, ManagerTypeOK
<1>6. ChannelInv(id)'
  <2>1. /\ chain'[id].isOpen = chain[id].isOpen /\ chain'[id].deposit = chain[id].deposit
        /\ chain'[id].claimedAmount = s.amount /\ chain'[id].claimedNonce = s.nonce
        /\ chain[id].isOpen
        /\ UNCHANGED <<locked, channels, signed, proofs, paid, refunded>>
        /\ Claimable(id)' = Claimable(id)
    BY <1>3, <1>4 DEF Inv, Types, Claimable
  <2>2. SignedInv(id) /\ ProofInv(id) /\ LinkInv(id) /\ ContractInv(id)
    BY DEF Inv, ChannelInv
  <2>3. SignedInv(id)' /\ ProofInv(id)'
    BY <2>1, <2>2 DEF SignedInv, ProofInv, Ordered, State
  <2>4. LinkInv(id)'
    BY <2>1, <2>2 DEF LinkInv, Unopened
  <2>5. Claim(id)' = s
    BY <1>1, <2>1 DEF Claim
  <2>6. ContractInv(id)'
    BY <2>1, <2>2, <2>5 DEF ContractInv, Disputed
  <2> QED BY <2>3, <2>4, <2>6 DEF ChannelInv
<1>7. ASSUME NEW j \in Ids, j # id PROVE ChannelInv(j)'
  BY <1>4, <1>7, Untouched DEF Inv, Types
<1> QED BY <1>5, <1>6, <1>7 DEF Inv

LEMMA CloseChannelInv ==
  ASSUME Inv, NEW id \in Ids, NEW p \in proofs[id], CloseChannel(id, p)
  PROVE  Inv'
<1>1. p \in [amount : Nat, nonce : Nat] /\ p \in Claimable(id)
  BY DEF Inv, Types, ManagerTypeOK, ChannelInv, ProofInv, Claimable
<1> QED BY <1>1, SettleInv DEF CloseChannel

LEMMA FinalizeChallengeInv ==
  ASSUME Inv, NEW id \in Ids, FinalizeChallenge(id)
  PROVE  Inv'
<1>1. Claim(id) \in Claimable(id) /\ chain[id].claimedAmount \in Nat
  BY DEF Inv, ChannelInv, ContractInv, FinalizeChallenge, Types, ChainChannel
<1>2. chain[id].claimedAmount <= chain[id].deposit
  BY DEF Inv, ChannelInv, ContractInv, FinalizeChallenge, Disputed
<1>3. Claim(id).amount = chain[id].claimedAmount
  BY DEF Claim
<1> QED BY <1>1, <1>2, <1>3, SettleInv DEF FinalizeChallenge

LEMMA ReclaimExpiredInv ==
  ASSUME Inv, NEW id \in Ids, ReclaimExpired(id)
  PROVE  Inv'
<1>1. paid' = [paid EXCEPT ![id] = 0]
  BY DEF Inv, ChannelInv, ContractInv, ReclaimExpired, Types
<1>2. Refund(id, 0) = chain[id].deposit /\ chain[id].deposit \in Nat
  BY DEF Inv, Types, ChainChannel, Refund
<1>3. ChannelInv(id)' /\ Types' /\ \A j \in Ids \ {id} : ChannelInv(j)'
  <2>1. Types'
    <3>1. chain' \in [Ids -> ChainChannel]
      BY DEF ReclaimExpired, Inv, Types, ChainChannel
    <3> QED BY <1>1, <1>2, <3>1 DEF ReclaimExpired, managerVars, Inv, Types, ManagerTypeOK
  <2>2. ChannelInv(id)'
    <3>1. /\ chain'[id].isOpen = FALSE /\ chain'[id].deposit = 0
          /\ chain'[id].challengeEnd = chain[id].challengeEnd
          /\ chain'[id].claimedAmount = chain[id].claimedAmount
          /\ chain'[id].claimedNonce = chain[id].claimedNonce
          /\ paid'[id] = 0 /\ refunded'[id] = chain[id].deposit
          /\ chain[id].isOpen
          /\ UNCHANGED <<locked, channels, signed, proofs>>
          /\ Claimable(id)' = Claimable(id)
      BY <1>1 DEF ReclaimExpired, managerVars, Inv, Types, Claimable
    <3>2. SignedInv(id) /\ ProofInv(id) /\ LinkInv(id) /\ ContractInv(id)
      BY DEF Inv, ChannelInv
    <3>3. SignedInv(id)' /\ ProofInv(id)'
      BY <3>1, <3>2 DEF SignedInv, ProofInv, Ordered, State
    <3>4. LinkInv(id)'
      BY <3>1, <3>2 DEF LinkInv, Unopened
    <3>5. ContractInv(id)'
      BY <1>2, <3>1, <3>2 DEF ContractInv, Claim, Disputed
    <3> QED BY <3>3, <3>4, <3>5 DEF ChannelInv
  <2>3. ASSUME NEW j \in Ids \ {id} PROVE ChannelInv(j)'
    BY <2>3, Untouched DEF ReclaimExpired, managerVars, Inv, Types
  <2> QED BY <2>1, <2>2, <2>3
<1> QED BY <1>3 DEF Inv

LEMMA OthersInv ==
  ASSUME Inv, Tick \/ UNCHANGED vars \/ (\E id \in Ids, s \in AloneStates : SignAlone(id, s))
  PROVE  Inv'
<1>1. /\ UNCHANGED <<managerVars, contractVars>> /\ now' \in Int
      /\ alone \subseteq alone' /\ alone' \subseteq Ids \X AloneStates
  BY DEF Tick, SignAlone, vars, Inv, Types
<1>2. Types'
  BY <1>1 DEF managerVars, contractVars, Inv, Types, ManagerTypeOK
<1>3. ASSUME NEW j \in Ids PROVE ChannelInv(j)'
  BY <1>1, <1>3, Untouched DEF managerVars, contractVars, Inv
<1> QED BY <1>2, <1>3 DEF Inv

LEMMA StepInv == Inv /\ [Next]_vars => Inv'
<1> SUFFICES ASSUME Inv, [Next]_vars PROVE Inv'
  OBVIOUS
<1>1. CASE Tick \/ UNCHANGED vars \/ (\E id \in Ids, s \in AloneStates : SignAlone(id, s))
  BY <1>1, OthersInv
<1>2. ASSUME NEW deposit \in Deposits, NEW duration \in Durations,
             OpenChannel(deposit, duration)
      PROVE  Inv'
  BY <1>2, OpenChannelInv
<1>3. ASSUME NEW id \in Ids, OffChain(id) PROVE Inv'
  BY <1>3, CreatePaymentInv, ReceivePaymentInv, CloseInv, RegisterInv
  DEF OffChain, ManagerStep
<1>4. ASSUME NEW id \in Ids, OnChain(id) PROVE Inv'
  BY <1>4, CloseChannelInv, ChallengeCloseInv, FinalizeChallengeInv, ReclaimExpiredInv
  DEF OnChain
<1> QED BY <1>1, <1>2, <1>3, <1>4 DEF Next

(* The invariant the other theorems rest on.                                *)
THEOREM ChannelInvariant == Spec => []Inv
<1>1. Init => Inv
  BY InitInv
<1>2. Inv /\ [Next]_vars => Inv'
  BY StepInv
<1> QED BY <1>1, <1>2, PTL DEF Spec

-----------------------------------------------------------------------------
(* The later of two states the manager has of a channel carries at least    *)
(* the amount of the earlier: create_payment and receive_payment accumulate. *)
THEOREM SignedAccumulate == Spec => []SignedStatesAccumulate
<1>1. Inv => SignedStatesAccumulate
  BY DEF Inv, ChannelInv, SignedInv, Ordered, SignedStatesAccumulate
<1> QED BY <1>1, ChannelInvariant, PTL

(* A settlement proof of close_channel is the newest state of the manager.  *)
THEOREM ProofsAreFinal == Spec => []ProofIsFinal
<1>1. Inv => ProofIsFinal
  BY DEF Inv, ChannelInv, SignedInv, ProofInv, Behind, State, ProofIsFinal
<1> QED BY <1>1, ChannelInvariant, PTL

(* Every deposit is held, or went to its two parties, once.                 *)
THEOREM DepositsAccounted == Spec => []DepositAccounted
<1>1. ASSUME Inv, NEW id \in Ids
      PROVE  locked[id] = chain[id].deposit + paid[id] + refunded[id]
  <2>1. locked[id] \in Nat /\ paid[id] \in Nat /\ refunded[id] \in Nat
    BY <1>1 DEF Inv, Types
  <2>2. ContractInv(id)
    BY <1>1 DEF Inv, ChannelInv
  <2>3. CASE chain[id].isOpen
    BY <2>1, <2>2, <2>3 DEF ContractInv
  <2>4. CASE ~chain[id].isOpen
    BY <2>1, <2>2, <2>4 DEF ContractInv
  <2> QED BY <2>3, <2>4
<1>2. Inv => DepositAccounted
  BY <1>1 DEF DepositAccounted
<1> QED BY <1>2, ChannelInvariant, PTL

(* What a receiver got was signed by the sender.                            *)
THEOREM PaymentsWereSigned == Spec => []PaidWasSigned
<1>1. Inv => PaidWasSigned
  BY DEF Inv, ChannelInv, ContractInv, PaidWasSigned
<1> QED BY <1>1, ChannelInvariant, PTL

(* What the manager has signed is covered by the deposit locked on the chain. *)
THEOREM SignedAreCovered == Spec => []SignedIsCovered
<1>1. ASSUME Inv, NEW id \in Ids, chain[id].isOpen, NEW s \in signed[id]
      PROVE  s.amount <= chain[id].deposit
  <2>1. /\ channels[id].deposit = locked[id] /\ chain[id].deposit = locked[id]
        /\ channels[id].spent <= channels[id].deposit /\ s.amount <= channels[id].spent
    BY <1>1 DEF Inv, ChannelInv, SignedInv, LinkInv, ContractInv, Behind
  <2> QED BY <1>1, <2>1 DEF Inv, Types, ManagerTypeOK
<1>2. Inv => SignedIsCovered
  BY <1>1 DEF SignedIsCovered
<1> QED BY <1>2, ChannelInvariant, PTL
-----------------------------------------------------------------------------
(* The steps of the contract keep a claim or replace it by one of a higher   *)
(* nonce, and before the expiry end a dispute only with its payment or with  *)
(* the settlement both have signed.                                          *)
Shrunk(id) == chain'[id].claimedAmount < chain[id].claimedAmount

LEMMA ClaimSteps ==
  ASSUME Inv, NEW id \in Ids, chain[id].challengeEnd # 0, [Next]_vars
  PROVE  /\ Shrunk(id) => ~ ({Claim(id), Claim(id)'} \subseteq signed[id])
         /\ Disputed(id) /\ ~chain'[id].isOpen /\ now < chain[id].expiresAt
              => \/ paid'[id] >= chain[id].claimedAmount
                 \/ Claim(id) \notin signed[id] /\ \E p \in proofs[id] : paid'[id] = p.amount
<1> DEFINE Paid == \/ paid'[id] >= chain[id].claimedAmount
                   \/ Claim(id) \notin signed[id] /\ \E p \in proofs[id] : paid'[id] = p.amount
<1> DEFINE Goal == /\ Shrunk(id) => ~ ({Claim(id), Claim(id)'} \subseteq signed[id])
                   /\ Disputed(id) /\ ~chain'[id].isOpen /\ now < chain[id].expiresAt => Paid
<1> SUFFICES Goal
  OBVIOUS
<1>1. /\ chain[id].claimedAmount \in Nat /\ chain[id].claimedNonce \in Nat
      /\ chain[id].expiresAt \in Int /\ now \in Int
      /\ signed[id] \subseteq [amount : Nat, nonce : Nat]
  BY DEF Inv, Types, ChainChannel, ManagerTypeOK
<1>2. /\ Ordered(signed[id])
      /\ Claim(id).amount = chain[id].claimedAmount /\ Claim(id).nonce = chain[id].claimedNonce
  BY DEF Inv, ChannelInv, SignedInv, Claim
<1>3. CASE chain'[id] = chain[id]
  BY <1>1, <1>3 DEF Disputed, Shrunk
<1>4. ASSUME NEW deposit \in Deposits, NEW duration \in Durations,
             OpenChannel(deposit, duration)
      PROVE  chain'[id] = chain[id]
  <2>1. id # now
    BY <1>4 DEF OpenChannel, Inv, ChannelInv, LinkInv, Unopened
  <2> QED BY <1>4, <2>1 DEF OpenChannel, Inv, Types
<1>5. ASSUME NEW amount \in Nat, Settle(id, amount),
             \/ amount >= chain[id].claimedAmount
             \/ Claim(id) \notin signed[id] /\ \E p \in proofs[id] : amount = p.amount
      PROVE  Goal
  <2>1. chain'[id].claimedAmount = chain[id].claimedAmount /\ paid'[id] = amount
    BY <1>5 DEF Settle, Inv, Types, ChainChannel
  <2> QED BY <1>1, <1>5, <2>1 DEF Shrunk
<1>6. ASSUME NEW p \in proofs[id], CloseChannel(id, p) PROVE Goal
  <2>1. p \in [amount : Nat, nonce : Nat] /\ p = State(channels[id])
    BY <1>6 DEF Inv, Types, ManagerTypeOK, ChannelInv, ProofInv
  <2>2. CASE Claim(id) \in signed[id]
    <3>1. Claim(id).amount <= channels[id].spent
      BY <2>2 DEF Inv, ChannelInv, SignedInv, Behind
    <3>2. p.amount >= chain[id].claimedAmount
      BY <1>1, <1>2, <2>1, <3>1 DEF State
    <3> QED BY <1>5, <1>6, <2>1, <3>2 DEF CloseChannel
  <2>3. CASE Claim(id) \notin signed[id]
    BY <1>5, <1>6, <2>1, <2>3 DEF CloseChannel
  <2> QED BY <2>2, <2>3
<1>7. ASSUME NEW s \in Claimable(id), ChallengeClose(id, s) PROVE Goal
  <2>1. /\ chain'[id].claimedAmount = s.amount /\ chain'[id].claimedNonce = s.nonce
        /\ chain'[id].isOpen = chain[id].isOpen
    BY <1>7 DEF ChallengeClose, Inv, Types, ChainChannel
  <2>2. chain[id].claimedNonce < s.nonce
    BY <1>1, <1>7 DEF ChallengeClose, Supersedes
  <2>3. s = Claim(id)'
    <3>1. s \in [amount : Nat, nonce : Nat]
      BY <1>7, ClaimableStates DEF Inv
    <3> QED BY <2>1, <3>1 DEF Claim
  <2>4. CASE Claim(id) \in signed[id] /\ s \in signed[id]
    <3>1. Claim(id).amount <= s.amount
      BY <1>2, <2>2, <2>4 DEF Ordered
    <3>2. s.amount \in Nat
      BY <1>1, <2>4
    <3>3. ~Shrunk(id)
      BY <1>1, <1>2, <2>1, <3>1, <3>2 DEF Shrunk
    <3>4. chain'[id].isOpen
      BY <1>7, <2>1 DEF ChallengeClose
    <3> QED BY <3>3, <3>4
  <2>5. CASE ~ ({Claim(id), s} \subseteq signed[id])
    BY <1>7, <2>1, <2>3, <2>5 DEF ChallengeClose
  <2> QED BY <2>4, <2>5
<1>8. CASE FinalizeChallenge(id)
  BY <1>1, <1>5, <1>8 DEF FinalizeChallenge
<1>9. CASE ReclaimExpired(id)
  <2>1. chain'[id].claimedAmount = chain[id].claimedAmount
    BY <1>9 DEF ReclaimExpired, Inv, Types, ChainChannel
  <2>2. ~(now < chain[id].expiresAt)
    BY <1>1, <1>9 DEF ReclaimExpired, ExpiredAt
  <2> QED BY <1>1, <2>1, <2>2 DEF Shrunk
<1>10. ASSUME NEW j \in Ids, j # id, OnChain(j) PROVE chain'[id] = chain[id]
  BY <1>10 DEF OnChain, CloseChannel, ChallengeClose, FinalizeChallenge, ReclaimExpired, Settle,
      Inv, Types
<1>11. CASE UNCHANGED chain
  BY <1>3, <1>11
<1>12. CASE \/ Tick \/ UNCHANGED vars \/ \E j \in Ids : OffChain(j)
            \/ \E j \in Ids, s \in AloneStates : SignAlone(j, s)
  BY <1>11, <1>12 DEF Tick, OffChain, SignAlone, contractVars, vars
<1>13. CASE \E deposit \in Deposits, duration \in Durations : OpenChannel(deposit, duration)
  BY <1>3, <1>4, <1>13
<1>14. CASE OnChain(id)
  BY <1>6, <1>7, <1>8, <1>9, <1>14 DEF OnChain
<1>15. CASE \E j \in Ids : j # id /\ OnChain(j)
  BY <1>3, <1>10, <1>15
<1> HIDE DEF Goal
<1> QED BY <1>12, <1>13, <1>14, <1>15 DEF Next

(* A claim shrinks only where the sender signed past its manager: of two    *)
(* states of the manager the higher nonce has at least the amount.          *)
THEOREM ClaimsShrinkAlone == Spec => ClaimsShrinkOnlyAlone
<1>1. Inv /\ [Next]_vars =>
        \A id \in Ids : /\ chain[id].challengeEnd # 0
                        /\ chain'[id].claimedAmount < chain[id].claimedAmount
          => ~ ({Claim(id), Claim(id)'} \subseteq signed[id])
  BY ClaimSteps DEF Shrunk
<1> QED BY <1>1, ChannelInvariant, PTL DEF Spec, ClaimsShrinkOnlyAlone

(* Before the channel expires its receiver gets the amount claimed, however *)
(* the dispute ends, or what both settled for in place of a claim that the  *)
(* sender had signed past its manager.                                      *)
THEOREM ClaimsArePaid == Spec => ClaimIsPaidBeforeExpiry
<1>1. Inv /\ [Next]_vars =>
        \A id \in Ids : Disputed(id) /\ ~chain'[id].isOpen /\ now < chain[id].expiresAt
          => \/ paid'[id] >= chain[id].claimedAmount
             \/ Claim(id) \notin signed[id] /\ \E p \in proofs[id] : paid'[id] = p.amount
  BY ClaimSteps DEF Disputed
<1> QED BY <1>1, ChannelInvariant, PTL DEF Spec, ClaimIsPaidBeforeExpiry

(* In every order of payments, closes and reopened channels the signed      *)
(* states are covered, ordered, and end with the settlement proof.          *)
THEOREM SignedStates == Spec => []SignedStatesSound
<1>1. SignedIsCovered /\ SignedStatesAccumulate /\ ProofIsFinal => SignedStatesSound
  BY DEF SignedStatesSound
<1> QED BY <1>1, SignedAreCovered, SignedAccumulate, ProofsAreFinal, PTL

(* States of the manager make claims grow, and before the expiry a claim is  *)
(* paid or was given up for a settlement both have signed.                   *)
THEOREM ClaimsAreHonoured == Spec => ClaimsHonoured
  BY ClaimsShrinkAlone, ClaimsArePaid, PTL DEF ClaimsHonoured

-----------------------------------------------------------------------------
(* The escrow, a sum over all channels: a step moves the deposit of at most *)
(* one of them, so that what the others hold stays as it is.                *)
Held == SumFunction([id \in Ids |-> chain[id].deposit])

(* The escrow is what the channels hold; the deadlines are times.           *)
EscrowInv ==
  /\ now \in 0 .. MaxTime
  /\ \A id \in Ids : chain[id].expiresAt \in Nat /\ chain[id].challengeEnd \in Nat
  /\ EscrowMatchesChannels

(* A channel is opened in one block, so that they are finitely many.        *)
LEMMA IdsFinite == IsFiniteSet(Ids)
<1>1. IsFiniteSet(0 .. MaxTime)
  BY FS_Interval
<1> QED BY <1>1, FS_Subset

(* What the channels hold is a number, and moves with one deposit.          *)
LEMMA HeldNat ==
  ASSUME Types
  PROVE  Held \in Nat
<1> DEFINE deposits == [id \in Ids |-> chain[id].deposit]
<1>1. \A id \in Ids : deposits[id] \in Nat
  BY DEF Types, ChainChannel
<1>2. DOMAIN deposits = Ids
  OBVIOUS
<1> HIDE DEF deposits
<1>3. SumFunctionOnSet(deposits, DOMAIN deposits) \in Nat
  BY <1>1, <1>2, IdsFinite, SumNat
<1> QED BY <1>3 DEF Held, SumFunction, deposits

LEMMA HeldChanges ==
  ASSUME Types, Types', NEW id \in Ids,
         \A j \in Ids : j # id => chain'[j].deposit = chain[j].deposit
  PROVE  Held' = Held + (chain'[id].deposit - chain[id].deposit)
<1>1. PICK f : f = [j \in Ids |-> chain[j].deposit]
  OBVIOUS
<1>2. PICK g : g = [j \in Ids |-> chain'[j].deposit]
  OBVIOUS
<1>3. f \in [Ids -> Int] /\ g \in [Ids -> Int]
  BY <1>1, <1>2 DEF Types, ChainChannel
<1>4. \A j \in Ids \ {id} : f[j] = g[j]
  BY <1>1, <1>2
<1>5. SumFunctionOnSet(g, Ids) = SumFunctionOnSet(f, Ids) + (g[id] - f[id])
  BY <1>3, <1>4, IdsFinite, SumOneChanged
<1>6. Held = SumFunctionOnSet(f, Ids) /\ Held' = SumFunctionOnSet(g, Ids)
  BY <1>1, <1>2 DEF Held, SumFunction
<1> QED BY <1>1, <1>2, <1>5, <1>6

(* No channel, no escrow.                                                   *)
LEMMA EscrowInit == Init => EscrowInv
<1> SUFFICES ASSUME Init PROVE EscrowInv
  OBVIOUS
<1>1. PICK f : f = [j \in Ids |-> chain[j].deposit]
  OBVIOUS
<1>2. \A j \in Ids : f[j] = 0
  BY <1>1 DEF Init, Unopened
<1>3. SumFunctionOnSet(f, Ids) = 0
  BY <1>2, IdsFinite, SumZero
<1>4. EscrowMatchesChannels
  BY <1>1, <1>3 DEF Init, EscrowMatchesChannels, SumFunction
<1> QED BY <1>4 DEF Init, EscrowInv, Unopened

(* A call about one channel settles what it moves with the escrow.          *)
LEMMA OneChannelMoves ==
  ASSUME EscrowInv, Types, Types', NEW id \in Ids,
         \A j \in Ids : j # id => chain'[j] = chain[j],
         chain'[id].expiresAt \in Nat, chain'[id].challengeEnd \in Nat,
         escrow' = escrow + (chain'[id].deposit - chain[id].deposit),
         now' = now
  PROVE  EscrowInv'
<1>1. Held' = Held + (chain'[id].deposit - chain[id].deposit)
  BY HeldChanges
<1>2. EscrowMatchesChannels'
  BY <1>1 DEF EscrowInv, EscrowMatchesChannels, Held
<1>3. \A j \in Ids : chain'[j].expiresAt \in Nat /\ chain'[j].challengeEnd \in Nat
  BY DEF EscrowInv
<1> QED BY <1>2, <1>3 DEF EscrowInv

(* A settlement takes the whole deposit out of the escrow.                  *)
LEMMA SettleMoves ==
  ASSUME EscrowInv, Types, Types', NEW id \in Ids, NEW amount \in Nat, Settle(id, amount)
  PROVE  EscrowInv'
<1>1. chain[id] \in ChainChannel /\ escrow \in Int
  BY HeldNat DEF Types, EscrowInv, EscrowMatchesChannels, Held
<1>2. /\ \A j \in Ids : j # id => chain'[j] = chain[j]
      /\ chain'[id].expiresAt = chain[id].expiresAt
      /\ chain'[id].challengeEnd = chain[id].challengeEnd
      /\ chain'[id].deposit = 0
  BY DEF Settle, Types, ChainChannel
<1>3. escrow' = escrow + (chain'[id].deposit - chain[id].deposit)
  BY <1>1, <1>2 DEF Settle, Refund, ChainChannel
<1>4. chain'[id].expiresAt \in Nat /\ chain'[id].challengeEnd \in Nat
  BY <1>2 DEF EscrowInv
<1>5. now' = now
  BY DEF Settle
<1> QED BY <1>2, <1>3, <1>4, <1>5, OneChannelMoves

(* Every step moves one deposit, or none.                                   *)
LEMMA EscrowStep == EscrowInv /\ Inv /\ Inv' /\ [Next]_vars => EscrowInv'
<1> SUFFICES ASSUME EscrowInv, Inv, Inv', [Next]_vars PROVE EscrowInv'
  OBVIOUS
<1>0. Types /\ Types' /\ escrow \in Nat
  BY HeldNat DEF Inv, EscrowInv, EscrowMatchesChannels, Held
<1>1. ASSUME chain' = chain, escrow' = escrow, now' \in 0 .. MaxTime
      PROVE  EscrowInv'
  BY <1>1 DEF EscrowInv, EscrowMatchesChannels
<1>2. CASE Tick
  BY <1>1, <1>2 DEF Tick, contractVars, EscrowInv
<1>3. ASSUME NEW deposit \in Deposits, NEW duration \in Durations,
             OpenChannel(deposit, duration)
      PROVE  EscrowInv'
  <2>1. now \in Ids /\ chain[now] = Unopened
    BY <1>3 DEF OpenChannel, Inv, ChannelInv, LinkInv
  <2>2. /\ \A j \in Ids : j # now => chain'[j] = chain[j]
        /\ chain'[now].expiresAt = now + duration
        /\ chain'[now].challengeEnd = 0
        /\ chain'[now].deposit = deposit
    BY <1>0, <1>3, <2>1 DEF OpenChannel, Types, Unopened
  <2>3. chain'[now].expiresAt \in Nat /\ chain'[now].challengeEnd \in Nat
    BY <2>2 DEF EscrowInv
  <2>4. escrow' = escrow + (chain'[now].deposit - chain[now].deposit) /\ now' = now
    BY <1>0, <1>3, <2>1, <2>2 DEF OpenChannel, Unopened
  <2> QED BY <1>0, <2>1, <2>2, <2>3, <2>4, OneChannelMoves
<1>4. ASSUME NEW id \in Ids, OffChain(id)
      PROVE  EscrowInv'
  BY <1>1, <1>4 DEF OffChain, contractVars, EscrowInv
<1>5. ASSUME NEW id \in Ids, NEW state \in proofs[id], CloseChannel(id, state)
      PROVE  EscrowInv'
  <2>1. state.amount \in Nat
    BY <1>0 DEF Types, ManagerTypeOK
  <2> QED BY <1>0, <1>5, <2>1, SettleMoves DEF CloseChannel
<1>6. ASSUME NEW id \in Ids, NEW state \in Claimable(id), ChallengeClose(id, state)
      PROVE  EscrowInv'
  <2>1. chain[id] \in ChainChannel
    BY <1>0 DEF Types
  <2>2. /\ \A j \in Ids : j # id => chain'[j] = chain[j]
        /\ chain'[id].expiresAt = chain[id].expiresAt
        /\ chain'[id].challengeEnd = now + CHALLENGE_PERIOD
        /\ chain'[id].deposit = chain[id].deposit
    BY <1>0, <1>6, <2>1 DEF ChallengeClose, Types, ChainChannel
  <2>3. chain'[id].expiresAt \in Nat /\ chain'[id].challengeEnd \in Nat
    <3>1. now \in Nat /\ chain[id].expiresAt \in Nat
      BY DEF EscrowInv
    <3> QED BY <2>2, <3>1
  <2>4. escrow' = escrow + (chain'[id].deposit - chain[id].deposit) /\ now' = now
    BY <1>0, <1>6, <2>1, <2>2 DEF ChallengeClose, ChainChannel
  <2> QED BY <1>0, <2>2, <2>3, <2>4, OneChannelMoves
<1>7. ASSUME NEW id \in Ids, FinalizeChallenge(id)
      PROVE  EscrowInv'
  <2>1. chain[id].claimedAmount \in Nat
    BY <1>0 DEF Types, ChainChannel
  <2> QED BY <1>0, <1>7, <2>1, SettleMoves DEF FinalizeChallenge
<1>8. ASSUME NEW id \in Ids, ReclaimExpired(id)
      PROVE  EscrowInv'
  <2>1. chain[id] \in ChainChannel
    BY <1>0 DEF Types
  <2>2. /\ \A j \in Ids : j # id => chain'[j] = chain[j]
        /\ chain'[id].expiresAt = chain[id].expiresAt
        /\ chain'[id].challengeEnd = chain[id].challengeEnd
        /\ chain'[id].deposit = 0
    BY <1>0, <1>8, <2>1 DEF ReclaimExpired, Types, ChainChannel
  <2>3. escrow' = escrow + (chain'[id].deposit - chain[id].deposit) /\ now' = now
    BY <1>0, <1>8, <2>1, <2>2 DEF ReclaimExpired, ChainChannel
  <2>4. chain'[id].expiresAt \in Nat /\ chain'[id].challengeEnd \in Nat
    BY <2>2 DEF EscrowInv
  <2> QED BY <1>0, <2>2, <2>3, <2>4, OneChannelMoves
<1>9. CASE UNCHANGED vars \/ (\E id \in Ids, state \in AloneStates : SignAlone(id, state))
  BY <1>1, <1>9 DEF vars, contractVars, SignAlone, EscrowInv
<1> QED BY <1>2, <1>3, <1>4, <1>5, <1>6, <1>7, <1>8, <1>9 DEF Next, OnChain

(* The contract holds the deposits of its open channels and nothing else,   *)
(* for any number of channels: no settlement, challenge or reclaim pays from *)
(* another channel's deposit, and each payment leaves the escrow once.      *)
THEOREM EscrowIsSound == Spec => []EscrowSound
<1>1. Init => EscrowInv
  BY EscrowInit
<1>2. EscrowInv /\ Inv /\ Inv' /\ [Next]_vars => EscrowInv'
  BY EscrowStep
<1>3. Inv /\ EscrowInv => EscrowSound
  <2> SUFFICES ASSUME Inv, EscrowInv PROVE TypeOK
    BY DEF EscrowSound, EscrowInv
  <2>1. escrow \in Nat
    BY HeldNat DEF Inv, EscrowInv, EscrowMatchesChannels, Held
  <2>2. \A id \in Ids : chain[id] \in [deposit : Nat, claimedAmount : Nat, claimedNonce : Nat,
                                      expiresAt : Nat, challengeEnd : Nat, isOpen : BOOLEAN]
    BY DEF Inv, Types, ChainChannel, EscrowInv
  <2> QED BY <2>1, <2>2 DEF Inv, Types, EscrowInv, TypeOK
<1> QED BY <1>1, <1>2, <1>3, ChannelInvariant, PTL DEF Spec
=============================================================================
