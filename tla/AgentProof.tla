----------------------------- MODULE AgentProof ------------------------------
(***************************************************************************)
(* The contracts beside the registry: the token and the contract that      *)
(* shares out the revenue of an execution (AgentProofToken.sol,            *)
(* AgentProofRevenue.sol), and, apart from them, the trust scores          *)
(* (AgentProofTrust.sol).  A call is one action; a call that reverts       *)
(* changes nothing and is no action.                                       *)
(***************************************************************************)
EXTENDS Integers, SequencesExt

CONSTANTS Holders,       \* accounts that act, the first owner among them
          FirstOwner, FirstTreasury,
          Spenders,      \* accounts that allowances are given to
          InitialSupply,
          MaxSupply,     \* bound on what mint may reach
          ExecutionIds,
          Payouts,       \* the lists of <<participant, amount>> that are settled
          Fees           \* the pairs <<protocol fee, burnt part>> that are settled

Dead == "0xdead"
Contract == "revenue"
Accounts == Holders \cup {Dead, Contract, FirstTreasury}

ASSUME RevenueAssumption ==
    /\ {FirstOwner, FirstTreasury} \subseteq Holders /\ IsFiniteSet(Holders)
    /\ Dead \notin Holders /\ Contract \notin Holders /\ Contract \in Spenders
    /\ InitialSupply \in Nat /\ MaxSupply \in Nat
    /\ Payouts \subseteq Seq(Holders \X Nat) /\ Fees \subseteq Nat \X Nat

VARIABLES ledger,      \* the token: balanceOf, allowance and totalSupply
          tokenOwner,
          revenue      \* settled, earnings, the three totals, treasury and owner

revenueVars == <<ledger, tokenOwner, revenue>>

RevenueInit ==
    /\ ledger = [balance |-> [a \in Accounts |-> IF a = FirstOwner THEN InitialSupply ELSE 0],
                 allowance |-> [a \in Holders |-> [s \in Spenders |-> 0]],
                 supply |-> InitialSupply]
    /\ tokenOwner = FirstOwner
    /\ revenue = [settled |-> {}, earnings |-> [a \in Holders |-> 0], protocol |-> 0,
                  burned |-> 0, settlements |-> 0, treasury |-> FirstTreasury, owner |-> FirstOwner]

-----------------------------------------------------------------------------
(* Both transfers subtract first and read the receiver's balance after it.  *)
Moved(balance, from, to, value) ==
    [[balance EXCEPT ![from] = @ - value] EXCEPT ![to] = @ + value]

Transfer(from, to, value) ==
    /\ ledger.balance[from] >= value
    /\ ledger' = [ledger EXCEPT !.balance = Moved(@, from, to, value)]
    /\ UNCHANGED <<tokenOwner, revenue>>

Approve(from, spender, value) ==
    /\ ledger' = [ledger EXCEPT !.allowance[from][spender] = value]
    /\ UNCHANGED <<tokenOwner, revenue>>

(* transferFrom, on a ledger that the earlier steps of a call may have left.*)
MayPull(l, by, from, value) == l.balance[from] >= value /\ l.allowance[from][by] >= value
Pulled(l, by, from, to, value) ==
    [l EXCEPT !.balance = Moved(@, from, to, value), !.allowance[from][by] = @ - value]

TransferFrom(by, from, to, value) ==
    /\ MayPull(ledger, by, from, value)
    /\ ledger' = Pulled(ledger, by, from, to, value)
    /\ UNCHANGED <<tokenOwner, revenue>>

Mint(by, to, value) ==
    /\ by = tokenOwner /\ ledger.supply + value <= MaxSupply
    /\ ledger' = [ledger EXCEPT !.supply = @ + value, !.balance[to] = @ + value]
    /\ UNCHANGED <<tokenOwner, revenue>>

BurnTokens(from, value) ==
    /\ ledger.balance[from] >= value
    /\ ledger' = [ledger EXCEPT !.supply = @ - value, !.balance[from] = @ - value]
    /\ UNCHANGED <<tokenOwner, revenue>>

TransferTokenOwnership(by, to) ==
    /\ by = tokenOwner /\ tokenOwner' = to /\ UNCHANGED <<ledger, revenue>>

-----------------------------------------------------------------------------
(* settle: the participants in turn, then the treasury and the dead address.*)
(* Any transfer that cannot be made reverts the whole call.                 *)
Owed(payout, fee) ==
    payout \o <<<<revenue.treasury, fee[1] - fee[2]>>, <<Dead, fee[2]>>>>
After(payer, owed) ==
    LET l[i \in 0..Len(owed)] ==
          IF i = 0 THEN [ok |-> TRUE, ledger |-> ledger]
          ELSE IF l[i - 1].ok /\ MayPull(l[i - 1].ledger, Contract, payer, owed[i][2])
               THEN [ok |-> TRUE,
                     ledger |-> Pulled(l[i - 1].ledger, Contract, payer, owed[i][1], owed[i][2])]
               ELSE [ok |-> FALSE, ledger |-> ledger]
    IN  l[Len(owed)]
ShareOf(payout, a) ==
    LET s[i \in 0..Len(payout)] ==
          IF i = 0 THEN 0 ELSE s[i - 1] + (IF payout[i][1] = a THEN payout[i][2] ELSE 0)
    IN  s[Len(payout)]

MutUnsettled(e) == TRUE
Unsettled(e) == e \notin revenue.settled

SettleExecution(payer, e, payout, fee) ==
    /\ Unsettled(e) /\ payout # <<>> /\ fee[2] <= fee[1]
    /\ LET done == After(payer, Owed(payout, fee)) IN done.ok /\ ledger' = done.ledger
    /\ revenue' = [revenue EXCEPT
                     !.settled = @ \cup {e}, !.settlements = @ + 1,
                     !.protocol = @ + fee[1], !.burned = @ + fee[2],
                     !.earnings = [a \in Holders |-> @[a] + ShareOf(payout, a)]]
    /\ UNCHANGED tokenOwner

SetTreasury(by, to) ==
    /\ by = revenue.owner
    /\ revenue' = [revenue EXCEPT !.treasury = to]
    /\ UNCHANGED <<ledger, tokenOwner>>
TransferRevenueOwnership(by, to) ==
    /\ by = revenue.owner
    /\ revenue' = [revenue EXCEPT !.owner = to]
    /\ UNCHANGED <<ledger, tokenOwner>>

RevenueNext ==
    \/ \E a \in Holders, b \in Accounts, v \in 1..MaxSupply : Transfer(a, b, v)
    \/ \E a \in Holders, s \in Spenders, v \in 0..MaxSupply : Approve(a, s, v)
    \/ \E s \in Spenders \cap Holders, a \in Holders, b \in Accounts, v \in 1..MaxSupply :
         TransferFrom(s, a, b, v)
    \/ \E a \in Holders, b \in Accounts, v \in 1..MaxSupply : Mint(a, b, v)
    \/ \E a \in Holders, v \in 1..MaxSupply : BurnTokens(a, v)
    \/ \E a, b \in Holders : TransferTokenOwnership(a, b)
    \/ \E a \in Holders, e \in ExecutionIds, p \in Payouts, f \in Fees : SettleExecution(a, e, p, f)
    \/ \E a, b \in Holders : SetTreasury(a, b) \/ TransferRevenueOwnership(a, b)

-----------------------------------------------------------------------------
(* The balances add up to the supply, also when an account pays itself, or  *)
(* is the payer, a participant and the treasury of one settlement.          *)
SupplyIsHeld == SumFunction(ledger.balance) = ledger.supply

(* What the contract reports burnt lies at the dead address and stays there:*)
(* no account spends from it.                                               *)
BurnedIsDead == revenue.burned <= ledger.balance[Dead] /\ revenue.burned <= revenue.protocol

(* A settlement moves exactly what it books, from one payer, whoever of the *)
(* participants, the treasury and the payer are the same account; and an    *)
(* execution is settled once.                                               *)
SettlesWhatItBooks ==
    [][revenue'.settlements > revenue.settlements =>
         /\ revenue'.settlements = Cardinality(revenue'.settled)
         /\ \E payer \in Holders : \A a \in Accounts \ {payer} :
              ledger'.balance[a] - ledger.balance[a] =
                  (IF a \in Holders THEN revenue'.earnings[a] - revenue.earnings[a] ELSE 0)
                + (IF a = revenue.treasury
                   THEN (revenue'.protocol - revenue'.burned) - (revenue.protocol - revenue.burned)
                   ELSE 0)
                + (IF a = Dead THEN revenue'.burned - revenue.burned ELSE 0)]_revenueVars

-----------------------------------------------------------------------------
(* The trust scores. A score stands for its composite: the four parts are   *)
(* checked and stored alike.                                                *)
CONSTANTS Callers, InitialOwner, AgentHashes, Composites, DefaultScore, MaxScore

ASSUME TrustScoresAssumption ==
    /\ InitialOwner \in Callers /\ IsFiniteSet(AgentHashes) /\ Composites \subseteq Nat
    /\ MaxScore \in Nat /\ DefaultScore \in 0..MaxScore

VARIABLES agentIds,   \* in the order of registration
          scores,     \* of the registered agents
          updaters, trustOwner

trustVars == <<agentIds, scores, updaters, trustOwner>>

TrustInit ==
    /\ agentIds = <<>> /\ scores = [h \in AgentHashes |-> 0]
    /\ updaters = {InitialOwner} /\ trustOwner = InitialOwner

GrantUpdater(by, who) ==
    /\ by = trustOwner /\ updaters' = updaters \cup {who}
    /\ UNCHANGED <<agentIds, scores, trustOwner>>
RevokeUpdater(by, who) ==
    /\ by = trustOwner /\ updaters' = updaters \ {who}
    /\ UNCHANGED <<agentIds, scores, trustOwner>>
TransferTrustOwnership(by, to) ==
    /\ by = trustOwner /\ trustOwner' = to
    /\ UNCHANGED <<agentIds, scores, updaters>>

IsRegistered(h) == h \in ToSet(agentIds)
MayRegister(h) == ~IsRegistered(h)

RegisterAgent(by, h) ==
    /\ by \in updaters /\ MayRegister(h)
    /\ Len(agentIds) <= Cardinality(AgentHashes)
    /\ agentIds' = Append(agentIds, h)
    /\ scores' = [scores EXCEPT ![h] = DefaultScore]
    /\ UNCHANGED <<updaters, trustOwner>>
UpdateScore(by, h, composite) ==
    /\ by \in updaters /\ IsRegistered(h) /\ composite <= MaxScore
    /\ scores' = [scores EXCEPT ![h] = composite]
    /\ UNCHANGED <<agentIds, updaters, trustOwner>>

(* getTopAgents: the best of those not picked yet, the first one of equals. *)
Best(picked) ==
    LET left == DOMAIN agentIds \ picked
    IN  CHOOSE i \in left : \A j \in left :
          \/ scores[agentIds[j]] < scores[agentIds[i]]
          \/ scores[agentIds[j]] = scores[agentIds[i]] /\ i <= j
TopAgents(limit) ==
    LET n == IF limit > Len(agentIds) THEN Len(agentIds) ELSE limit
        pick[k \in 0..n] ==
          IF k = 0 THEN <<>> ELSE Append(pick[k - 1], Best(ToSet(pick[k - 1])))
    IN  [k \in 1..n |-> agentIds[pick[n][k]]]

TrustNext ==
    \/ \E a, b \in Callers :
         GrantUpdater(a, b) \/ RevokeUpdater(a, b) \/ TransferTrustOwnership(a, b)
    \/ \E a \in Callers, h \in AgentHashes :
         RegisterAgent(a, h) \/ \E c \in Composites : UpdateScore(a, h, c)

(* Whatever was registered, updated and registered again in between, the    *)
(* ranking lists different agents, none of them worse than one it leaves    *)
(* out or lists later, agents with a score of zero included.                *)
TopIsRanked ==
    \A limit \in 0..Cardinality(AgentHashes) :
        LET top == TopAgents(limit)
            all == Cardinality(ToSet(agentIds))
        IN  /\ Len(top) = IF limit < all THEN limit ELSE all
            /\ Cardinality(ToSet(top)) = Len(top)
            /\ \A i \in DOMAIN top : \A h \in ToSet(agentIds) \ ToSet(SubSeq(top, 1, i)) :
                 scores[h] <= scores[top[i]]
=============================================================================
