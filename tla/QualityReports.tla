--------------------------- MODULE QualityReports ---------------------------
(***************************************************************************)
(* Drift of benchmark quality and the accountability reports made of it    *)
(* (benchmarking/drift.py, accountability.py, api/routes/benchmarks.py).   *)
(* Scores of all organisations feed the drift, the spend of one the        *)
(* report; both grow while a report waits for its second query. The t-test *)
(* is a choice: of two windows with any variance it may say either.        *)
(***************************************************************************)
EXTENDS Integers, Sequences, FiniteSets, SequencesExt

CONSTANTS
    Qualities,         \* of benchmark results, in percent
    ReportOrgs,
    Rolling, Lookback, \* days of the current window and of both
    MinSample,         \* MIN_SAMPLE_SIZE
    CallCost,
    MaxDays, MaxResults, MaxEvents, MaxReports \* bounds

ASSUME WindowAssumption == 0 < Rolling /\ Rolling < Lookback /\ MinSample > 0

VARIABLES
    today,
    results,    \* benchmark_results of a model and task type: [quality, day]
    usage,      \* llm_events of the same: [org, day]
    generating, \* requests between the two queries: [org, drift], drift in percent
    reports     \* _generated_reports: [org, impact, spend]

reportVars == <<today, results, usage, generating, reports>>

ReportsInit == today = 0 /\ results = <<>> /\ usage = <<>> /\ generating = {} /\ reports = <<>>

DayPasses == /\ today < MaxDays /\ today' = today + 1
             /\ UNCHANGED <<results, usage, generating, reports>>
Benchmark(q) == /\ Len(results) < MaxResults
                /\ results' = Append(results, [quality |-> q, day |-> today])
                /\ UNCHANGED <<today, usage, generating, reports>>
Call(org) == /\ Len(usage) < MaxEvents
             /\ usage' = Append(usage, [org |-> org, day |-> today])
             /\ UNCHANGED <<today, results, generating, reports>>

\* detect_drift: the rolling window against the rest of the lookback.
Age(r) == today - r.day
Current == SelectSeq(results, LAMBDA r : Age(r) < Rolling)
MutBaselineUnbounded == SelectSeq(results, LAMBDA r : Rolling <= Age(r))
Baseline == SelectSeq(results, LAMBDA r : Rolling <= Age(r) /\ Age(r) < Lookback)
Sum(s) == FoldLeft(+, 0, [i \in DOMAIN s |-> s[i].quality])
Varies(s) == \E i, j \in DOMAIN s : s[i].quality # s[j].quality
\* The drop of the means in percent of the baseline; five of them are no drift.
Drop(base, now) ==
    LET b == Sum(base) * Len(now)
    IN  IF b = 0 THEN 0 ELSE (100 * (b - Sum(now) * Len(base))) \div b
Degraded(base, now) ==
    /\ Len(base) >= MinSample /\ Len(now) >= MinSample
    /\ 100 * Sum(now) * Len(base) < 95 * Sum(base) * Len(now)
    /\ Varies(base) \/ Varies(now)

\* POST /accountability-reports/generate, first query; the drift may be nothing.
Detect(org, significant) ==
    /\ Cardinality(generating) + Len(reports) < MaxReports
    /\ significant => Degraded(Baseline, Current)
    /\ generating' = generating \cup
         {[org |-> org, drift |-> IF significant THEN Drop(Baseline, Current) ELSE 0]}
    /\ UNCHANGED <<today, results, usage, reports>>

\* _bulk_get_call_volumes and the cost impact: the spend of the week on worse answers.
Spend(org) ==
    CallCost * Len(SelectSeq(usage, LAMBDA u : u.org = org /\ Age(u) < Rolling))
Generate(g) ==
    /\ generating' = generating \ {g}
    /\ reports' = Append(reports, [org |-> g.org, drift |-> g.drift, day |-> today,
                                   impact |-> (Spend(g.org) * g.drift) \div 100])
    /\ UNCHANGED <<today, results, usage>>

ReportsNext ==
    \/ DayPasses
    \/ \E q \in Qualities : Benchmark(q)
    \/ \E org \in ReportOrgs : Call(org) \/ \E significant \in BOOLEAN : Detect(org, significant)
    \/ \E g \in generating : Generate(g)

\* A drift is always somebody's drop within the lookback: a model whose answers
\* have been as good ever since is not accused for what it did before.
DriftIsRecent ==
    [][\A g \in generating' \ generating : g.drift > 0 =>
         \E c, b \in DOMAIN results :
           /\ Age(results[c]) < Rolling
           /\ Rolling <= Age(results[b]) /\ Age(results[b]) < Lookback
           /\ results[c].quality < results[b].quality]_reportVars

\* The impact a report claims is never more than what its own organisation spent
\* on calls made within the window before it, however late the second query ran.
ImpactWithinSpend ==
    \A i \in DOMAIN reports :
        LET own == {k \in DOMAIN usage : /\ usage[k].org = reports[i].org
                                         /\ usage[k].day <= reports[i].day
                                         /\ reports[i].day - usage[k].day < Rolling}
        IN  reports[i].impact <= CallCost * Cardinality(own)
=============================================================================
