------------------------------- MODULE Waste -------------------------------
(***************************************************************************)
(* Waste analysis (blockthrough/waste, api/waste.py and their queries): a  *)
(* cheaper model for what a model was used for, and calls repeated for     *)
(* nothing. Two endpoints answer from the same tables: a score and a       *)
(* detailed report. Thresholds are percentages, wording is left out.       *)
(***************************************************************************)
EXTENDS Routing

CONSTANTS
    CallKinds,     \* what a call may be: [task, model, trace, args, prompt, cost]
    Evidence,      \* fitness matrices to answer from: sequences of entries
    CacheWindow,   \* window_hours, in units of time
    Pauses,        \* the time a call may come after the one before
    MaxWasted      \* bound on the calls of the period

ASSUME WasteAssumption ==
    /\ CacheWindow \in Nat /\ MaxWasted \in Nat /\ Pauses \subseteq Nat
    /\ \A kind \in CallKinds : kind.cost \in Nat
    /\ \A matrix \in Evidence : /\ DOMAIN matrix \subseteq Nat
                                 /\ \A i \in DOMAIN matrix : matrix[i].quality \in Nat

VARIABLES
    traffic, \* llm_events with their tool call, in order: a kind and its time
    fitness  \* get_fitness_matrix

wasteVars == <<traffic, fitness>>
NoCall == "none" \* no tool call
ScoreThreshold == 85
DetailThreshold == 90
LoopIterations == 3

SpentOn(S) == SumFunctionOnSet([i \in DOMAIN traffic |-> traffic[i].cost], S)

\* The cheapest of the models at the places I of a list, the first where prices tie.
Cheapest(models, I) ==
    LET least == Min({Catalog[models[i]].cost : i \in I})
    IN  models[Min({i \in I : Catalog[models[i]].cost = least})]

(* suggest.py: the cheapest model that measured well enough, or one by tier. *)
OfTier(tier) == {i \in DOMAIN ModelOrder : /\ Known(ModelOrder[i])
                                          /\ Catalog[ModelOrder[i]].tier = tier}
CheapestByTier == [tier \in 1..3 |-> Cheapest(ModelOrder, OfTier(tier))]
\* Each lower tier has a model that is cheaper than any above it.
ASSUME TiersAssumption ==
    /\ NoModel \notin DOMAIN Catalog /\ DOMAIN ModelOrder \subseteq Nat
    /\ \A m \in DOMAIN Catalog : Catalog[m].tier \in 1..3 /\ Catalog[m].cost \in Nat \ {0}
    /\ \A m \in DOMAIN Catalog : \A tier \in Catalog[m].tier + 1 .. 3 :
          \E i \in OfTier(tier) : Catalog[ModelOrder[i]].cost < Catalog[m].cost
HeuristicTier(task, tier) ==
    CASE task \in {"classification", "extraction", "conversation"} /\ tier \in {1, 2} -> 3
      [] task \in {"summarization", "code_generation", "code_review", "reasoning"} /\ tier = 1 -> 2
      [] task = "tool_selection" /\ tier = 1 -> 3
      [] OTHER -> 0
Qualified(task, model, threshold) ==
    {i \in DOMAIN fitness : /\ fitness[i].task = task /\ fitness[i].quality >= threshold
                            /\ Known(fitness[i].model)
                            /\ Catalog[fitness[i].model].cost < Catalog[model].cost}
CheapestQualified(task, model, threshold) ==
    LET candidates == Qualified(task, model, threshold)
    IN  IF candidates = {} THEN NoModel
        ELSE Cheapest([i \in DOMAIN fitness |-> fitness[i].model], candidates)
SuggestAlternative(task, model, threshold) ==
    LET measured == IF Known(model) THEN CheapestQualified(task, model, threshold) ELSE NoModel
        tier == IF Known(model) THEN HeuristicTier(task, Catalog[model].tier) ELSE 0
    IN  IF measured # NoModel THEN [model |-> measured, source |-> "fitness"]
        ELSE IF tier # 0 THEN [model |-> CheapestByTier[tier], source |-> "heuristic"]
        ELSE [model |-> NoModel, source |-> "none"]

\* get_waste_analysis: the pairs of a task and a model, and what a pair saves.
UsageRows == {<<traffic[i].task, traffic[i].model>> : i \in DOMAIN traffic}
RowCalls(row) == {i \in DOMAIN traffic : <<traffic[i].task, traffic[i].model>> = row}
Saved(row, suggested) ==
    LET cost == SpentOn(RowCalls(row))
    IN  cost - (cost * Catalog[suggested].cost) \div Catalog[row[2]].cost

\* /waste-score, and the detector of the report that takes measured evidence only.
WasteScore ==
    LET Advice(row) == SuggestAlternative(row[1], row[2], ScoreThreshold).model
    IN  [row \in {r \in UsageRows : Advice(r) # NoModel} |-> Saved(row, Advice(row))]
DetectModelOverkill ==
    LET Advice(row) == SuggestAlternative(row[1], row[2], DetailThreshold)
    IN  [row \in {r \in UsageRows : /\ fitness # <<>> /\ Advice(r).source = "fitness"
                                    /\ Saved(r, Advice(r).model) > 0} |-> Saved(row, Advice(row).model)]

\* The calls of S in groups that agree on f, a group being a set of calls.
Grouped(S, f) == {{i \in S : f[i] = f[j]} : j \in S}
ToolCalls == {i \in DOMAIN traffic : traffic[i].args # NoCall}

(* Tool calls repeated in a trace. *)
GetDuplicateToolCalls ==
    {S \in Grouped(ToolCalls, [i \in ToolCalls |-> <<traffic[i].trace, traffic[i].args>>]) : Cardinality(S) >= 2}
RepeatSavings(S) == SpentOn(S) - SpentOn(S) \div Cardinality(S)
DetectRedundantCalls ==
    {[calls |-> S, savings |-> RepeatSavings(S)] : S \in GetDuplicateToolCalls}
GetTraceToolPatterns ==
    {S \in Grouped(ToolCalls, [i \in ToolCalls |-> traffic[i].trace]) : Cardinality(S) >= LoopIterations}

\* The run of one hash that ends at each place, and the longest.
Runs(hashes) ==
    LET run[i \in 0..Len(hashes)] ==
            IF i = 0 THEN 0 ELSE IF i > 1 /\ hashes[i] = hashes[i - 1] THEN run[i - 1] + 1 ELSE 1
    IN  run
FindLoopLength(hashes) == LET run == Runs(hashes) IN Max({run[i] : i \in 0..Len(hashes)})
HashesOf(S) == [n \in 1..Cardinality(S) |->
    traffic[CHOOSE i \in S : Cardinality({j \in S : j <= i}) = n].args]
LoopSavings(S) == SpentOn(S) - (2 * SpentOn(S)) \div Cardinality(S)
DetectAgentLoops ==
    {[calls |-> S, savings |-> LoopSavings(S)] :
        S \in {P \in GetTraceToolPatterns : /\ FindLoopLength(HashesOf(P)) >= LoopIterations
                                            /\ LoopSavings(P) > 0}}

\* Prompts sent again: every call of the period with the prompt, all in one window.
Prompts == [i \in DOMAIN traffic |-> traffic[i].prompt]
MutPromptDuplicatesAnywhen ==
    {S \in Grouped(DOMAIN traffic, Prompts) : Cardinality(S) >= 2}
PromptDuplicates ==
    {S \in Grouped(DOMAIN traffic, Prompts) :
        Cardinality(S) >= 2 /\ \A i, j \in S : traffic[i].at - traffic[j].at <= CacheWindow}
CacheSavings(S) ==
    LET cost == SpentOn(S) \div Cardinality(S) IN (Cardinality(S) - 1) * (cost - cost \div 10)
DetectCacheMisses ==
    {[calls |-> S, savings |-> CacheSavings(S)] : S \in {D \in PromptDuplicates : CacheSavings(D) > 0}}

\* The report: the findings of every detector, and their share of the spend.
Total(findings) == SumFunctionOnSet([f \in findings |-> f.savings], findings)
Analyze ==
    LET savings == SumFunctionOnSet(DetectModelOverkill, DOMAIN DetectModelOverkill)
                   + Total(DetectRedundantCalls) + Total(DetectCacheMisses) + Total(DetectAgentLoops)
        spend == SpentOn(DOMAIN traffic)
    IN  [savings |-> savings, spend |-> spend, capped |-> IF savings > spend THEN spend ELSE savings]

-----------------------------------------------------------------------------
WasteInit == traffic = <<>> /\ fitness = <<>>
\* A benchmark run changes what is measured.
Remeasure(matrix) == fitness' = matrix /\ UNCHANGED traffic
WasteCall(kind, pause) ==
    /\ Len(traffic) < MaxWasted
    /\ traffic' = Append(traffic,
           [at |-> pause + IF traffic = <<>> THEN 0 ELSE Last(traffic).at,
            task |-> kind.task, model |-> kind.model, trace |-> kind.trace,
            args |-> kind.args, prompt |-> kind.prompt, cost |-> kind.cost])
    /\ UNCHANGED fitness
WasteNext ==
    \/ \E matrix \in Evidence : Remeasure(matrix)
    \/ \E kind \in CallKinds, pause \in Pauses : WasteCall(kind, pause)

\* What the score advises always saves: neither a tier nor a measurement ever leads
\* to a model that costs as much as the one in use.
AdviceSaves ==
    \A row \in DOMAIN WasteScore :
        /\ Catalog[SuggestAlternative(row[1], row[2], ScoreThreshold).model].cost < Catalog[row[2]].cost
        /\ WasteScore[row] \in 0..SpentOn(RowCalls(row))

\* The two endpoints never contradict each other about a pair: what the report would
\* save by another model the score saves too, at least, though it asks for less quality.
ScoreCoversOverkill ==
    \A row \in DOMAIN DetectModelOverkill :
        row \in DOMAIN WasteScore /\ WasteScore[row] >= DetectModelOverkill[row]

\* A loop is three calls in a row whose arguments have the same hash and cost something,
\* and only that, although the detector is said to look for "similar (not identical)"
\* ones: the threshold it takes is never used. So each loop of the report is there a second time among its redundant calls,
\* and counted twice.
LoopsAreRuns ==
    \A P \in GetTraceToolPatterns :
        LET h == HashesOf(P)
            looping == \E i \in 1..Len(h) - 2 : h[i] = h[i + 1] /\ h[i + 1] = h[i + 2]
        IN  /\ looping /\ SpentOn(P) > 0 <=> \E f \in DetectAgentLoops : f.calls = P
            /\ \A f \in DetectAgentLoops : f.calls = P =>
                  \E g \in DetectRedundantCalls :
                      g.calls \subseteq P /\ Analyze.savings >= f.savings + g.savings

\* Every reported cache miss could have been served from the cache: each call of it
\* comes within the window of an earlier one, but the first.
MissesAreCacheable ==
    \A f \in DetectCacheMisses : \A i \in f.calls :
        (\A j \in f.calls : i <= j) \/ \E j \in f.calls : j < i /\ traffic[i].at - traffic[j].at <= CacheWindow
=============================================================================
