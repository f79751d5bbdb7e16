------------------------------ MODULE Billing ------------------------------
(***************************************************************************)
(* Billing verification (blockthrough/billing): what was observed is       *)
(* reconciled with the lines of the providers' invoices, and the outcome   *)
(* is anchored on the organisation's attestation chain. Tokens of a line   *)
(* are one number, and money is counted in the same small units.           *)
(***************************************************************************)
EXTENDS Integers, Sequences, FiniteSets, SequencesExt

CONSTANTS
    Billers,       \* providers
    BilledModels,
    UsageAmounts,  \* [tokens, cost] of what was observed
    Charges,       \* [tokens, cost] of an invoice line: a credit costs less than nothing
    ThresholdPct,  \* NOTABLE_THRESHOLD_PCT, in percent
    MaxLines, MaxAnchors \* bounds: invoice lines, records on the chain

ASSUME BillingAssumption ==
    /\ ThresholdPct \in Nat /\ {MaxLines, MaxAnchors} \subseteq Nat
    /\ UsageAmounts \subseteq [tokens : Nat, cost : Nat]
    /\ Charges \subseteq [tokens : Int, cost : Int]

VARIABLES
    observed, \* (provider, model) -> what llm_events say of the period
    billed,   \* the invoice lines: [provider, model, tokens, cost]
    chain     \* the organisation's records at the provider: [nonce, kind]

billingVars == <<observed, billed, chain>>
AllModels == "all" \* model = None: the provider bills in one sum
Nothing == [tokens |-> 0, cost |-> 0]
SizeOf(n) == IF n < 0 THEN -n ELSE n

\* The members of S, numbered by the order R.
InOrder(S, R) ==
    [n \in 1..Cardinality(S) |->
        CHOOSE i \in S : Cardinality({j \in S : <<j, i>> \in R}) = n - 1]

ParseInvoice(provider, model, amount) ==
    [provider |-> provider, model |-> model, tokens |-> amount.tokens, cost |-> amount.cost]

(* Reconciliation. *)
ObservedOf(p) == {k \in DOMAIN observed : k[1] = p}
TokensSeen == [k \in DOMAIN observed |-> observed[k].tokens]
CostSeen == [k \in DOMAIN observed |-> observed[k].cost]
Aggregated(p) == [tokens |-> SumFunctionOnSet(TokensSeen, ObservedOf(p)),
                  cost |-> SumFunctionOnSet(CostSeen, ObservedOf(p))]
ObservedFor(line) ==
    IF line.model = AllModels THEN Aggregated(line.provider)
    ELSE IF <<line.provider, line.model>> \in DOMAIN observed
         THEN observed[<<line.provider, line.model>>] ELSE Nothing

\* More than the threshold apart, relative to what was billed.
Exceeds(seen, charged) ==
    IF charged > 0 THEN SizeOf(charged - seen) * 100 > ThresholdPct * charged ELSE seen > 0
BuildResult(provider, model, seen, charged) ==
    [provider |-> provider, model |-> model, observed |-> seen, billed |-> charged,
     discrepancy |-> charged.cost - seen.cost,
     notable |-> \/ Exceeds(seen.tokens, charged.tokens)
                 \/ Exceeds(seen.cost, charged.cost)]

\* What some line was compared with.
MutMatchedModels(lines) == {<<lines[i].provider, lines[i].model>> : i \in DOMAIN lines}
Matched(lines) ==
    {k \in DOMAIN observed : \E i \in DOMAIN lines :
        lines[i].provider = k[1] /\ lines[i].model \in {k[2], AllModels}}
LineResult(line) ==
    BuildResult(line.provider, line.model, ObservedFor(line),
                [tokens |-> line.tokens, cost |-> line.cost])
UnbilledResult(k) == BuildResult(k[1], k[2], observed[k], Nothing)

\* The largest discrepancy first; equal ones keep their order.
Larger(results) ==
    LET size(i) == SizeOf(results[i].discrepancy) IN
    {ij \in (DOMAIN results) \X (DOMAIN results) :
        \/ size(ij[1]) > size(ij[2])
        \/ size(ij[1]) = size(ij[2]) /\ ij[1] < ij[2]}
ByDiscrepancy(results) ==
    LET order == InOrder(DOMAIN results, Larger(results))
    IN  [n \in DOMAIN results |-> results[order[n]]]
Reconcile(lines) ==
    LET unmatched == SetToSeq(DOMAIN observed \ Matched(lines)) IN
    ByDiscrepancy([i \in DOMAIN lines |-> LineResult(lines[i])]
                  \o [i \in DOMAIN unmatched |-> UnbilledResult(unmatched[i])])

(* The attestation: totals, and a hash of the results sorted by provider and *)
(* model. The sort is stable: those of one key keep their order.             *)
KeyOf(result) == <<result.provider, result.model>>
Following(results) == {ij \in (DOMAIN results) \X (DOMAIN results) : ij[1] < ij[2]}
WithKey(results, k) ==
    LET order == InOrder({i \in DOMAIN results : KeyOf(results[i]) = k}, Following(results))
    IN  [n \in DOMAIN order |-> results[order[n]]]
HashReconciliations(results) ==
    [k \in {KeyOf(results[i]) : i \in DOMAIN results} |-> WithKey(results, k)]
Attestation(results) ==
    [observed |-> SumFunctionOnSet([i \in DOMAIN results |-> results[i].observed.cost],
                                   DOMAIN results),
     billed |-> SumFunctionOnSet([i \in DOMAIN results |-> results[i].billed.cost],
                                 DOMAIN results),
     hash |-> HashReconciliations(results)]

-----------------------------------------------------------------------------
BillingInit == observed = <<>> /\ billed = <<>> /\ chain = <<>>
Observe(p, m, amount) ==
    /\ <<p, m>> \notin DOMAIN observed
    /\ observed' = [k \in DOMAIN observed \cup {<<p, m>>} |->
                        IF k = <<p, m>> THEN amount ELSE observed[k]]
    /\ UNCHANGED <<billed, chain>>
Bill(p, m, amount) ==
    /\ Len(billed) < MaxLines
    /\ billed' = Append(billed, ParseInvoice(p, m, amount))
    /\ UNCHANGED <<observed, chain>>

\* provider.submit takes the next nonce only; the scheduler asks for it first, the
\* billing attestation always says 1 and links to nothing.
Accepted(record) == record.nonce = Len(chain) + 1 /\ Len(chain) < MaxAnchors
BillingRecord == [kind |-> "billing", nonce |-> 1]
SubmitBilling ==
    /\ Accepted(BillingRecord) /\ chain' = Append(chain, BillingRecord)
    /\ UNCHANGED <<observed, billed>>
AnchorPeriod ==
    /\ Len(chain) < MaxAnchors
    /\ chain' = Append(chain, [kind |-> "metrics", nonce |-> Len(chain) + 1])
    /\ UNCHANGED <<observed, billed>>

BillingNext ==
    \/ \E p \in Billers, m \in BilledModels, a \in UsageAmounts : Observe(p, m, a)
    \/ \E p \in Billers, m \in BilledModels \cup {AllModels}, c \in Charges : Bill(p, m, c)
    \/ SubmitBilling \/ AnchorPeriod

\* An invoice that bills each provider in one sum or each model once.
Clean(lines) ==
    \A i, j \in DOMAIN lines : (i # j /\ lines[i].provider = lines[j].provider) =>
        lines[i].model # lines[j].model /\ AllModels \notin {lines[i].model, lines[j].model}

\* However a clean invoice mixes providers billed by model and providers billed in
\* one sum, the results account for all that was observed, once, and all that was billed.
ReconciliationAddsUp ==
    Clean(billed) => LET a == Attestation(Reconcile(billed)) IN
        /\ a.observed = SumFunctionOnSet(CostSeen, DOMAIN observed)
        /\ a.billed = SumFunctionOnSet([i \in DOMAIN billed |-> billed[i].cost], DOMAIN billed)

\* When no line is notable the bill as a whole is within the threshold too, credits
\* apart: no discrepancy hides in traffic that nobody billed. A credit for what was
\* not observed is never notable, and may hide any discrepancy.
QuietMeansWithinThreshold ==
    LET results == Reconcile(billed)
        a == Attestation(results)
    IN  (/\ \A i \in DOMAIN results : ~results[i].notable
         /\ \A i \in DOMAIN billed : billed[i].cost >= 0) =>
            SizeOf(a.billed - a.observed) * 100 <= ThresholdPct * a.billed

\* The anchored hash does not depend on the order of a clean invoice's lines.
HashIgnoresOrder ==
    Clean(billed) => Attestation(Reconcile(billed)).hash = Attestation(Reconcile(Reverse(billed))).hash

\* One billing attestation opens a chain or none is ever on it: after the first record,
\* of whichever kind, the provider refuses every other reconciliation.
BillingOpensChain ==
    \A i \in DOMAIN chain : chain[i].kind = "billing" => i = 1

\* A reconciliation accounts for all usage and every invoice line, is quiet only when
\* they agree, and has a hash that does not depend on the order of the lines, with
\* which it opens a chain.
ReconciliationSound ==
    ReconciliationAddsUp /\ QuietMeansWithinThreshold /\ HashIgnoresOrder /\ BillingOpensChain
=============================================================================
