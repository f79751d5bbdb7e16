--------------------------- MODULE BenchmarkRuns ---------------------------
(***************************************************************************)
(* The offline benchmark (benchmarking/runner.py, eval_set.py, judge.py):  *)
(* every prompt of the eval set is replayed on every model, judged against *)
(* a reference answer and written in batches; a run that died is resumed   *)
(* from what the table holds. Scores are percentages.                      *)
(***************************************************************************)
EXTENDS Integers, Sequences, FiniteSets, Functions

CONSTANTS
    Lines,        \* the fixture, in order: [hash, task]; malformed lines are left out
    BenchModels,  \* benchmark_models, in order
    Verdicts,     \* answers of the judge: a score for each criterion, <<>> unreadable
    BatchSize,
    MaxProcesses, MaxRuns \* bounds: processes, runs of them all

ASSUME BenchAssumption ==
    /\ Lines \in Seq(Range(Lines)) /\ BenchModels \in Seq(Range(BenchModels))
    /\ BatchSize \in Nat \ {0} /\ Verdicts \subseteq Seq(Int)
    \* a model is benchmarked under its name, once
    /\ \A i, j \in DOMAIN BenchModels : BenchModels[i] = BenchModels[j] => i = j

VARIABLES
    rows,   \* benchmark_results of the eval organisation: [pair, quality, run]
    known,  \* _completed_pairs; Unread before load_resume_state
    cached, \* _reference_cache
    job,    \* the run: [phase, work, scores, stats]
    made    \* counts [processes, runs, again], again: runs of a runner that had run

benchVars == <<rows, known, cached, job, made>>
Unread == [read |-> FALSE, pairs |-> {}]

\* The elements of a sequence at some positions, in their order.
Nth(positions, n) == CHOOSE i \in positions : Cardinality({k \in positions : k <= i}) = n
At(s, positions) == [n \in 1..Cardinality(positions) |-> s[Nth(positions, n)]]

\* load_eval_set: a prompt is known by its hash, the first line with it counts.
EvalSet == At(Lines, {i \in DOMAIN Lines : \A j \in 1..i - 1 : Lines[j].hash # Lines[i].hash})
Pairs == [i \in 1..Len(EvalSet) * Len(BenchModels) |->
            LET p == EvalSet[((i - 1) \div Len(BenchModels)) + 1]
            IN  [hash |-> p.hash, task |-> p.task, model |-> BenchModels[((i - 1) % Len(BenchModels)) + 1]]]

(* The weights of the criteria of each task, in percent; UNKNOWN has none.   *)
RubricsOfWork ==
    [code_review |-> <<40, 35, 25>>, code_generation |-> <<50, 30, 20>>,
     classification |-> <<100>>, summarization |-> <<40, 30, 30>>,
     extraction |-> <<50, 50>>, reasoning |-> <<60, 40>>]
RubricsOfTalk ==
    [conversation |-> <<50, 50>>, tool_selection |-> <<100>>, architecture |-> <<50, 50>>,
     debugging |-> <<60, 40>>, refactoring |-> <<50, 50>>, documentation |-> <<50, 50>>,
     testing |-> <<50, 50>>]
Rubrics == [t \in DOMAIN RubricsOfWork \cup DOMAIN RubricsOfTalk |->
              IF t \in DOMAIN RubricsOfWork THEN RubricsOfWork[t] ELSE RubricsOfTalk[t]]

(* _parse_judge_response and compute_weighted_score: scores are clamped, a   *)
(* missing one is zero, and so is every score of an answer nobody can read.  *)
Clamped(x) == IF x < 0 THEN 0 ELSE IF x > 100 THEN 100 ELSE x
Weighted(task, verdict) ==
    LET weights == Rubrics[task]
        term(i) == IF i \in DOMAIN verdict THEN weights[i] * Clamped(verdict[i]) ELSE 0
    IN  SumFunction([i \in DOMAIN weights |-> term(i)]) \div 100

Idle == [phase |-> "idle", work |-> <<>>, scores |-> <<>>, done |-> 0, failed |-> 0, skipped |-> 0]
BenchInit ==
    /\ rows = <<>> /\ known = Unread /\ cached = {} /\ job = Idle
    /\ made = [processes |-> 1, runs |-> 0, again |-> 0]

\* run(): resume state is read once in the life of the runner.
Key(pair) == [hash |-> pair.hash, model |-> pair.model]
Recorded(table) == {Key(table[i].pair) : i \in DOMAIN table}
MutCompletedNever(k) == [read |-> TRUE, pairs |-> {}]
Completed(k) == IF k.read THEN k ELSE [read |-> TRUE, pairs |-> Recorded(rows)]
StartRun ==
    /\ job.phase \in {"idle", "ended"} /\ made.runs < MaxRuns
    /\ known' = Completed(known)
    /\ LET work == At(Pairs, {i \in DOMAIN Pairs : Key(Pairs[i]) \notin known'.pairs})
       IN  job' = [Idle EXCEPT !.phase = IF work = <<>> THEN "ended" ELSE "references",
                               !.work = work, !.skipped = Len(Pairs) - Len(work)]
    /\ made' = [made EXCEPT !.runs = @ + 1, !.again = @ + IF known.read THEN 1 ELSE 0]
    /\ UNCHANGED <<rows, cached>>

\* One reference answer after the other; a call that fails ends the run.
Reference ==
    LET missing == {i \in DOMAIN job.work : job.work[i].hash \notin cached} IN
    /\ job.phase = "references"
    /\ IF missing = {} THEN job' = [job EXCEPT !.phase = "pairs"] /\ UNCHANGED cached
       ELSE /\ cached' = cached \cup {job.work[CHOOSE i \in missing : \A j \in missing : i <= j].hash}
            /\ UNCHANGED job
    /\ UNCHANGED <<rows, known, made>>
ReferenceFails ==
    /\ job.phase = "references" /\ \E i \in DOMAIN job.work : job.work[i].hash \notin cached
    /\ job' = Idle
    /\ UNCHANGED <<rows, known, cached, made>>

\* _benchmark_one for pair i. The tasks of gather end in any order. A task
\* without a rubric raises, and any exception makes the pair a failure.
Scored(i, score) == [j \in DOMAIN job.scores \cup {i} |-> IF j = i THEN score ELSE job.scores[j]]
PairScored(i, verdict) ==
    /\ job.phase = "pairs" /\ i \notin DOMAIN job.scores /\ job.work[i].task \in DOMAIN Rubrics
    /\ job' = [job EXCEPT !.scores = Scored(i, Weighted(job.work[i].task, verdict)), !.done = @ + 1]
    /\ UNCHANGED <<rows, known, cached, made>>
PairFails(i) ==
    /\ job.phase = "pairs" /\ i \notin DOMAIN job.scores
    /\ job' = [job EXCEPT !.scores = Scored(i, -1), !.failed = @ + 1]
    /\ UNCHANGED <<rows, known, cached, made>>

\* gather returned: the results, in the order of the work.
Gathered ==
    /\ job.phase = "pairs" /\ DOMAIN job.scores = DOMAIN job.work
    /\ LET ok == {i \in DOMAIN job.work : job.scores[i] >= 0} IN
       job' = [job EXCEPT !.phase = "writing",
                 !.work = At([i \in DOMAIN job.work |->
                     [pair |-> job.work[i], quality |-> job.scores[i], run |-> made.runs]], ok)]
    /\ UNCHANGED <<rows, known, cached, made>>

\* _write_batch: one transaction; if it raises the batch is counted as failed,
\* also when it had been committed.
Batch == SubSeq(job.work, 1, IF Len(job.work) < BatchSize THEN Len(job.work) ELSE BatchSize)
Left == SubSeq(job.work, Len(Batch) + 1, Len(job.work))
WriteBatch(answered, stored) ==
    /\ job.phase = "writing" /\ job.work # <<>> /\ (answered => stored)
    /\ rows' = IF stored THEN rows \o Batch ELSE rows
    /\ job' = [job EXCEPT !.work = Left, !.done = @ - IF answered THEN 0 ELSE Len(Batch),
                          !.failed = @ + IF answered THEN 0 ELSE Len(Batch)]
    /\ UNCHANGED <<known, cached, made>>
RunEnds ==
    /\ job.phase = "writing" /\ job.work = <<>>
    /\ job' = [job EXCEPT !.phase = "ended", !.scores = <<>>]
    /\ cached' = {}
    /\ UNCHANGED <<rows, known, made>>

\* The process dies; another one starts.
Crash ==
    /\ made.processes < MaxProcesses
    /\ known' = Unread /\ cached' = {} /\ job' = Idle
    /\ made' = [made EXCEPT !.processes = @ + 1]
    /\ UNCHANGED rows

BenchNext ==
    \/ StartRun \/ Reference \/ ReferenceFails \/ Gathered \/ RunEnds \/ Crash
    \/ \E i \in DOMAIN job.work : PairFails(i) \/ \E v \in Verdicts : PairScored(i, v)
    \/ \E answered, stored \in BOOLEAN : WriteBatch(answered, stored)

\* The statistics of a run that ended account for every pair of a prompt and a
\* model, and never claim a result the table does not hold: the results of a batch
\* that failed move from completed to failed.
StatsMatchTable ==
    job.phase = "ended" =>
        /\ job.done + job.failed + job.skipped = Len(Pairs)
        /\ job.done <= Cardinality({i \in DOMAIN rows : rows[i].run = made.runs})
        /\ {job.done, job.failed, job.skipped} \subseteq Nat

\* A resumed benchmark pays for no pair twice: over any number of crashes a pair
\* is in the table once, and once more for each time a runner was used again.
ResumeSkipsDone ==
    \A i \in DOMAIN rows :
        Cardinality({j \in DOMAIN rows : rows[j].pair = rows[i].pair}) <= 1 + made.again

\* Qualities of different tasks are on one scale, as the fitness matrix compares
\* them: a judge that gives one score for every criterion gives that quality under
\* the rubric of any task.
QualitiesShareAScale ==
    \A i \in DOMAIN rows, t \in DOMAIN Rubrics :
        Weighted(t, [c \in DOMAIN Rubrics[t] |-> rows[i].quality]) = rows[i].quality

\* No prompt is benchmarked twice in one run, however often the fixture repeats it,
\* and whatever the judge answers its score is a fraction.
RowsAreScores ==
    \A i \in DOMAIN rows :
        /\ rows[i].quality \in 0..100
        /\ \A j \in DOMAIN rows : rows[j].pair = rows[i].pair /\ rows[j].run = rows[i].run => i = j

\* A run that is resumed does what is left, counts what the table holds, and stores
\* scores that can be compared.
RunsResume == StatsMatchTable /\ ResumeSkipsDone /\ RowsAreScores /\ QualitiesShareAScale
=============================================================================
