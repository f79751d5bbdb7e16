------------------------------ MODULE Routing ------------------------------
(***************************************************************************)
(* The routing engine of blockthrough/routing: the model catalog, the      *)
(* fitness matrix, policies and resolve().  Pure operators; qualities are  *)
(* percentages, costs and latencies integers.  Reasons are reduced to the  *)
(* branch that produced them.                                              *)
(***************************************************************************)
EXTENDS Integers, Sequences, FiniteSets, Functions, SequencesExt

CONSTANTS
    Catalog,    \* MODEL_CATALOG: model -> [tier, cost, tools, thinking, provider, quality]
    ModelOrder, \* every model, in the order of the catalog, unlisted ones last
    TaskOrder   \* the task types but UNKNOWN, in the order of the enum

Models == ToSet(ModelOrder)
Tasks == ToSet(TaskOrder)
NoModel == "none"
NoLimit == -1
CatchAll == "*"

QualityFloor == 30
HardTasks == {"code_generation", "code_review", "reasoning", "architecture",
              "debugging", "refactoring"}

\* Defaults of _TIER_DEFAULTS for a tier without task qualities.
TierQuality == <<93, 79, 56>>
TierLatency == <<2000, 1000, 500>>

Known(m) == m \in DOMAIN Catalog
QualityForTask(m, t) ==
    IF t \in DOMAIN Catalog[m].quality
    THEN Catalog[m].quality[t] ELSE TierQuality[Catalog[m].tier]
AnthropicModels == {m \in DOMAIN Catalog : Catalog[m].provider = "anthropic"}

Entry == [model: Models, task: Tasks, quality: 0..100, cost: Nat,
          latency: Nat, samples: Nat]

GenerateSynthetic ==
    {[model |-> m, task |-> t, quality |-> QualityForTask(m, t),
      cost |-> Catalog[m].cost, latency |-> TierLatency[Catalog[m].tier],
      samples |-> 0] : m \in DOMAIN Catalog, t \in Tasks}

SameKey(a, b) == a.model = b.model /\ a.task = b.task
MutMergeFitnessSynthetic(synthetic, real) == synthetic
MergeFitness(synthetic, real) ==
    LET measured == {[e EXCEPT !.cost = IF Known(e.model)
                                        THEN Catalog[e.model].cost ELSE e.cost] :
                       e \in {r \in real : r.samples > 0}}
    IN  {s \in synthetic : \A e \in measured : ~SameKey(s, e)} \cup measured

(* Policies. A rule's task may be the catch-all. *)
Criteria == {"cheapest", "fastest", "quality", "value"}
Rule == [task: Tasks \cup {CatchAll}, criteria: Criteria, minQuality: 0..100,
         maxCost: Nat \cup {NoLimit}, maxLatency: Nat \cup {NoLimit},
         fallback: Models]

MinOf(S) == CHOOSE x \in S : \A y \in S : x <= y
MaxTwo(a, b) == IF a > b THEN a ELSE b

ValidPolicy(policy) ==
    LET rules == policy.rules IN
    /\ \A i, j \in DOMAIN rules : rules[i].task = rules[j].task => i = j
    /\ \A i, j \in DOMAIN rules : i < j => rules[i].task # CatchAll
    /\ \A i \in DOMAIN rules :
         /\ Known(rules[i].fallback)
         /\ rules[i].maxCost = NoLimit \/ rules[i].maxCost > 0
         /\ rules[i].maxLatency = NoLimit \/ rules[i].maxLatency > 0

BootstrapPolicy(tiers, hasFitness) ==
    LET criteria == IF hasFitness THEN "value" ELSE "cheapest"
        RuleFor(t) ==
          [task |-> t, criteria |-> criteria,
           minQuality |-> IF t \in HardTasks THEN 70 ELSE 55,
           maxCost |-> NoLimit, maxLatency |-> NoLimit,
           fallback |-> IF t \in HardTasks \cup {CatchAll}
                        THEN tiers.mid ELSE tiers.low]
    IN  [version |-> 0,
         rules |-> [i \in 1..Len(TaskOrder) + 1 |->
                      RuleFor(IF i > Len(TaskOrder) THEN CatchAll ELSE TaskOrder[i])]]

MatchingRules(task, policy) ==
    {i \in DOMAIN policy.rules : policy.rules[i].task \in {task, CatchAll}}

(* What the criteria of a rule prefer. Ties keep the order of the cached     *)
(* list: by quality, then the order in which the matrix was built.           *)
IndexOf(m) == CHOOSE i \in DOMAIN ModelOrder : ModelOrder[i] = m
Earlier(a, b) ==
    \/ a.quality > b.quality
    \/ a.quality = b.quality /\ IndexOf(a.model) <= IndexOf(b.model)
AtLeastAsGood(criteria, a, b) ==
    CASE criteria = "cheapest" -> a.cost <= b.cost
      [] criteria = "fastest" -> a.latency <= b.latency
      [] criteria = "quality" -> TRUE
      [] criteria = "value" -> a.quality * MaxTwo(b.cost, 1) >= b.quality * MaxTwo(a.cost, 1)

ApplyCriteria(rule, candidates) ==
    LET viable == {e \in candidates :
                     /\ rule.maxCost = NoLimit \/ e.cost <= rule.maxCost
                     /\ rule.maxLatency = NoLimit \/ e.latency <= rule.maxLatency}
        best == {e \in viable : \A o \in viable : AtLeastAsGood(rule.criteria, e, o)}
    IN  {e \in best : \A o \in best : Earlier(e, o)}

(* Tier-1 preservation: a confident hard request for a frontier model is     *)
(* routed by quality first.                                                  *)
MutEffectiveRuleNever(rule, task, requested, confidence, tier1Threshold) == rule
EffectiveRule(rule, task, requested, confidence, tier1Threshold) ==
    IF /\ Known(requested) /\ Catalog[requested].tier = 1
       /\ rule.task # CatchAll /\ task \in HardTasks
       /\ confidence >= tier1Threshold
    THEN [rule EXCEPT !.criteria = "quality", !.maxCost = NoLimit,
                      !.minQuality = MaxTwo(@, 85)]
    ELSE rule

\* What may serve the request: allowed, good enough, able to use its tools.
Qualifies(e, rule, task, tools, allowed) ==
    /\ e.task = task
    /\ e.model \in allowed
    /\ e.quality >= MaxTwo(rule.minQuality, QualityFloor)
    /\ tools => Known(e.model) /\ Catalog[e.model].tools
Fallback(rule, requested, allowed) ==
    IF rule.fallback \in allowed THEN rule.fallback ELSE requested

\* allowed: the set of models the upstream serves, or all models.
Resolve(task, requested, entries, policy, tools, allowed, confidence, tier1) ==
    LET Pass(kind) == [model |-> requested, kind |-> kind, rule |-> 0]
        matching == MatchingRules(task, policy)
        i == MinOf(matching)
        rule == EffectiveRule(policy.rules[i], task, requested, confidence, tier1)
        qualified == {e \in entries : Qualifies(e, rule, task, tools, allowed)}
        best == ApplyCriteria(rule, qualified)
    IN  IF policy.rules = <<>> THEN Pass("empty policy")
        ELSE IF matching = {} THEN Pass("no rule")
        ELSE IF best = {} \/ entries = {}
             THEN [model |-> Fallback(rule, requested, allowed), kind |-> "fallback", rule |-> i]
        ELSE [model |-> (CHOOSE e \in best : TRUE).model, kind |-> "best", rule |-> i]

(* Dry run: what a policy would have decided for recorded calls. A call is   *)
(* [model, task, cost]; costs scale with the catalog's average costs.        *)
RoutedCost(call, model) ==
    IF ~Known(call.model) \/ ~Known(model) \/ Catalog[call.model].cost = 0
    THEN call.cost
    ELSE (call.cost * Catalog[model].cost) \div Catalog[call.model].cost
DryRun(calls, entries, policy, tier1) ==
    [i \in DOMAIN calls |->
       LET d == Resolve(calls[i].task, calls[i].model, entries, policy, FALSE,
                        Models, 100, tier1)
       IN  [model |-> d.model, cost |-> RoutedCost(calls[i], d.model),
            affected |-> d.model # calls[i].model]]
=============================================================================
