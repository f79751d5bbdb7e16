---------------------------- MODULE FitnessLoop ----------------------------
(***************************************************************************)
(* The loop that keeps routing informed: the fitness matrix in the process *)
(* (routing/router.py FitnessCache), the task that refreshes it from the   *)
(* database (_refresh_fitness_cache in api/app.py) with the feedback       *)
(* applied on the way (feedback/adjuster.py) and the policy derived from   *)
(* it, the benchmark worker (benchmarking/mirror.py) that replays sampled  *)
(* requests and writes results, and the operators who change policies and  *)
(* tiers (api/routes/routing.py) meanwhile.  asyncio yields only at        *)
(* awaits: the refresh reads the matrix in one step and installs the       *)
(* result in a later one.                                                  *)
(***************************************************************************)
EXTENDS Routing

CONSTANTS
    Alpha,           \* feedback_ema_alpha, in percent
    MinSamples,      \* feedback_min_samples
    MaxAdjustment,   \* feedback_max_adjustment, in percent
    Measurements,  \* rows the matrix may show for what a benchmark wrote
    Feedbacks,     \* what get_feedback_aggregates may return: sets of [model, task, delta, count]
    UserPolicies,  \* policies an operator posts
    TierConfigs,   \* tier configurations an operator sets
    QueueCapacity,
    MaxPosts, MaxToggles \* bounds: policies posted, toggles

ASSUME QueueAssumption == QueueCapacity \in Nat \ {0}
\* A catalogued model is of one of three tiers; its qualities are in percent.
ASSUME CatalogAssumption ==
    /\ DOMAIN Catalog \subseteq Models
    /\ \A m \in DOMAIN Catalog :
         /\ Catalog[m].tier \in 1..3 /\ Catalog[m].cost \in Nat
         /\ \A t \in DOMAIN Catalog[m].quality : Catalog[m].quality[t] \in 0..100
\* A row of the matrix averages at least one result; settings are fractions.
ASSUME FeedbackAssumption ==
    /\ Measurements \subseteq Entry /\ \A m \in Measurements : m.samples > 0
    /\ Alpha \in 0..100 /\ MaxAdjustment \in Nat /\ MinSamples \in Nat
    /\ \A feedback \in Feedbacks : \A f \in feedback :
         f.model \in Models /\ f.task \in Tasks /\ f.delta \in Int /\ f.count \in Nat
    /\ \A p \in UserPolicies : p.version \in Nat

VARIABLES
    matrix,    \* rows of the fitness_matrix view of the database
    cache,     \* app.state.fitness_cache, NoCache before it exists
    refresher, \* the refresh task: [pc, rows]
    policy,    \* app.state.routing_policy, NoPolicy before it exists
    tiers,     \* the models configured for the three tiers
    ema,       \* app.state.feedback_ema_state: smoothed delta per (model, task)
    enabled, started,  \* routing_enabled now, and at startup
    posting,           \* policy being persisted by POST /routing/policy
    posts, toggles,    \* counters of the bounds
    benchQueue,        \* tasks of the sampled requests
    worker,            \* [pc, item]; pc "idle", "busy", "draining", "closed", "aborted"
    life,              \* lifespan: "serving", "stopping", "cancelled"
    lost               \* items in flight when the worker was cancelled

cacheVars == <<matrix, cache, refresher, policy, tiers, ema>>

NoCache == [present |-> FALSE, entries |-> {}, stale |-> FALSE]
NoPolicy == [version |-> -1, rules |-> <<>>]

\* FitnessCache.update: the new entries replace the old, the mark is cleared.
Update(entries) == [present |-> TRUE, entries |-> entries, stale |-> FALSE]

DefaultPolicy(c) == BootstrapPolicy(tiers, c.entries # {})

(* Feedback: an exponential average per (model, task), clamped; the adjusted *)
(* quality is floored at the synthetic one and capped at 100.                *)
Clamp(x) == IF x > MaxAdjustment THEN MaxAdjustment
            ELSE IF x < -MaxAdjustment THEN -MaxAdjustment ELSE x
Heard(feedback) == {f \in feedback : f.count >= MinSamples}
Smoothed(e, feedback) ==
    [k \in DOMAIN e |->
       IF \E f \in Heard(feedback) : <<f.model, f.task>> = k
       THEN LET f == CHOOSE f \in Heard(feedback) : <<f.model, f.task>> = k
            IN  (Alpha * f.delta + (100 - Alpha) * e[k]) \div 100
       ELSE e[k]]
ApplyFeedback(entries, feedback, e) ==
    {IF ~\E f \in Heard(feedback) : SameKey(f, x) THEN x
     ELSE LET floor == {s.quality : s \in {s \in GenerateSynthetic : SameKey(s, x)}}
              raised == x.quality + Clamp(e[<<x.model, x.task>>])
              floored == MaxTwo(raised, IF floor = {} THEN 0 ELSE MinOf(floor))
          IN  [x EXCEPT !.quality = IF floored > 100 THEN 100 ELSE floored] :
     x \in entries}

\* The task waits at most the TTL, less when the cache is stale, then reads.
RefreshRead ==
    /\ refresher.pc = "waiting"
    /\ refresher' = [pc |-> "read", rows |-> matrix]
    /\ UNCHANGED <<matrix, cache, policy, tiers, ema>>

\* A policy the system generated is generated anew.
Regenerates == policy.version = 0

\* The rest of the cycle, after the last await before cache.update().
RefreshUpdate(feedback) ==
    LET merged == MergeFitness(GenerateSynthetic, refresher.rows)
        smoothed == Smoothed(ema, feedback)
        entries == ApplyFeedback(merged, feedback, smoothed)
    IN  /\ refresher.pc = "read"
        /\ cache' = Update(entries)
        /\ ema' = smoothed
        /\ policy' = IF Regenerates THEN DefaultPolicy(cache') ELSE policy
        /\ refresher' = [pc |-> "waiting", rows |-> {}]
        /\ UNCHANGED <<matrix, tiers>>

\* A query raises: logged, and the loop starts again.
RefreshFails ==
    /\ refresher.pc = "read"
    /\ refresher' = [pc |-> "waiting", rows |-> {}]
    /\ UNCHANGED <<matrix, cache, policy, tiers, ema>>

\* The benchmark worker commits results and marks the cache it was given;
\* a worker built while routing was off has none.
NewRows(row) == {r \in matrix : ~SameKey(r, row)} \cup {row}
Benchmarked(row, marks) ==
    /\ row \notin matrix
    /\ matrix' = NewRows(row)
    /\ cache' = IF marks THEN [cache EXCEPT !.stale = TRUE] ELSE cache
    /\ UNCHANGED <<refresher, policy, tiers, ema>>

MutMeasuredForgotten(c) == {}
Measured(c) == {e \in c.entries : e.samples > 0}

\* PUT /routing/tier-config: new tier models, the matrix rebuilt from the
\* synthetic entries and the measured ones the cache already has.
UpdateTierConfig(new) ==
    /\ new # tiers
    /\ {new.high, new.mid, new.low} \subseteq DOMAIN Catalog
    /\ tiers' = new
    /\ cache' = Update(MergeFitness(GenerateSynthetic, Measured(cache)))
    /\ UNCHANGED <<matrix, refresher, policy, ema>>

admin == <<enabled, started, posting, posts, toggles>>
work == <<benchQueue, worker, life, lost>>
loopVars == <<cacheVars, admin, work>>

Init ==
    /\ started \in BOOLEAN
    /\ enabled = started
    /\ matrix \in {{}} \cup {{m} : m \in Measurements}
    /\ ema = [k \in Models \X Tasks |-> 0]
    /\ tiers \in TierConfigs
    \* Seeded with the matrix, or with the synthetic entries if the read fails.
    /\ cache \in IF started
                 THEN {Update(GenerateSynthetic), Update(MergeFitness(GenerateSynthetic, matrix))}
                 ELSE {NoCache}
    \* From the database, else a file, else the bootstrap.
    /\ policy \in IF started THEN UserPolicies \cup {DefaultPolicy(cache)} ELSE {NoPolicy}
    /\ refresher = [pc |-> IF started THEN "waiting" ELSE "absent", rows |-> {}]
    /\ posting = NoPolicy /\ posts = 0 /\ toggles = 0
    /\ benchQueue = <<>> /\ worker = [pc |-> "idle", item |-> "none"]
    /\ life = "serving" /\ lost = 0

(* ------------------------------------------------------------------------- *)
(* The refresh task                                                          *)

Read == RefreshRead /\ UNCHANGED <<admin, work>>
Install(feedback) == RefreshUpdate(feedback) /\ UNCHANGED <<admin, work>>
Fail == RefreshFails /\ UNCHANGED <<admin, work>>

(* ------------------------------------------------------------------------- *)
(* The operators                                                             *)

SetTiers(new) == life = "serving" /\ UpdateTierConfig(new) /\ UNCHANGED <<admin, work>>

\* POST /routing/policy: validated, persisted (an await), then installed
\* whether or not it could be persisted.
PostPolicy(new) ==
    /\ life = "serving" /\ posting = NoPolicy /\ posts < MaxPosts
    /\ ValidPolicy(new)
    /\ posting' = new
    /\ posts' = posts + 1
    /\ UNCHANGED <<cacheVars, enabled, started, toggles, work>>
InstallPolicy ==
    /\ posting # NoPolicy
    /\ policy' = posting
    /\ posting' = NoPolicy
    /\ UNCHANGED <<matrix, cache, refresher, tiers, ema, enabled, started, posts, toggles, work>>

\* POST /routing/toggle: turning on creates what is missing and replaces a
\* policy the system generated.
SystemPolicy == policy.version <= 0
Toggle ==
    /\ life = "serving" /\ toggles < MaxToggles
    /\ toggles' = toggles + 1
    /\ enabled' = ~enabled
    /\ IF enabled THEN UNCHANGED <<cache, policy>>
       ELSE /\ cache' = IF cache.entries = {} THEN Update(GenerateSynthetic) ELSE cache
            /\ policy' = IF SystemPolicy THEN DefaultPolicy(cache') ELSE policy
    /\ UNCHANGED <<matrix, refresher, tiers, ema, started, posting, posts, work>>

(* ------------------------------------------------------------------------- *)
(* The benchmark worker                                                      *)

Sample(task) ==
    /\ life = "serving" /\ Len(benchQueue) < QueueCapacity
    /\ benchQueue' = Append(benchQueue, task)
    /\ UNCHANGED <<cacheVars, admin, worker, life, lost>>

\* The loop takes an item, or after the shutdown drains what is left.
TakeItem ==
    /\ worker.pc \in {"idle", "draining"} /\ worker.item = "none"
    /\ benchQueue # <<>>
    /\ worker' = [pc |-> IF worker.pc = "idle" /\ life = "serving" THEN "busy" ELSE "draining",
                  item |-> Head(benchQueue)]
    /\ benchQueue' = Tail(benchQueue)
    /\ UNCHANGED <<cacheVars, admin, life, lost>>

\* The replays and the judge are done. Results are written, which may fail
\* unnoticed; only the loop marks the cache it was built with.
AfterItem == [pc |-> IF worker.pc = "busy" THEN "idle" ELSE "draining", item |-> "none"]
ItemWritten(row) ==
    /\ worker.item = row.task
    /\ Benchmarked(row, started /\ worker.pc = "busy")
    /\ worker' = AfterItem
    /\ UNCHANGED <<admin, benchQueue, life, lost>>
ItemUnwritten ==
    /\ worker.item # "none"
    /\ cache' = IF started /\ worker.pc = "busy" THEN [cache EXCEPT !.stale = TRUE] ELSE cache
    /\ worker' = AfterItem
    /\ UNCHANGED <<matrix, refresher, policy, tiers, ema, admin, benchQueue, life, lost>>
ItemFails ==
    /\ worker.item # "none"
    /\ worker' = AfterItem
    /\ UNCHANGED <<cacheVars, admin, benchQueue, life, lost>>
WorkerCloses ==
    /\ life # "serving" /\ worker.pc \in {"idle", "draining"} /\ worker.item = "none"
    /\ benchQueue = <<>>
    /\ worker' = [worker EXCEPT !.pc = "closed"]
    /\ UNCHANGED <<cacheVars, admin, benchQueue, life, lost>>

(* ------------------------------------------------------------------------- *)
(* Shutdown                                                                  *)

\* The refresh task is cancelled first, then the worker is told to stop.
Shutdown ==
    /\ life = "serving" /\ posting = NoPolicy
    /\ life' = "stopping"
    /\ refresher' = [pc |-> "absent", rows |-> {}]
    /\ UNCHANGED <<matrix, cache, policy, tiers, ema, admin, benchQueue, worker, lost>>
\* The worker did not end in time. Its loop catches the cancellation and drains
\* the queue; the drain does not, and leaves the rest of it.
Cancel ==
    /\ life = "stopping" /\ worker.pc # "closed"
    /\ life' = "cancelled"
    /\ worker' = [pc |-> IF worker.pc = "draining" THEN "aborted" ELSE "draining", item |-> "none"]
    /\ lost' = IF worker.item = "none" THEN lost ELSE lost + 1
    /\ UNCHANGED <<cacheVars, admin, benchQueue>>

Refresh == Read \/ (\E f \in Feedbacks : Install(f)) \/ Fail
Operate ==
    \/ \E new \in TierConfigs : SetTiers(new)
    \/ \E new \in UserPolicies : PostPolicy(new)
    \/ InstallPolicy
    \/ Toggle
Work ==
    \/ TakeItem
    \/ \E row \in Measurements : ItemWritten(row)
    \/ ItemUnwritten
    \/ ItemFails
    \/ WorkerCloses
Next ==
    \/ Refresh \/ Operate \/ Work
    \/ \E task \in {m.task : m \in Measurements} : Sample(task)
    \/ Shutdown \/ Cancel

\* Sleeps are bounded by the interval, calls of models and of the database by
\* their timeouts; queries do not fail for ever.
Spec == /\ Init /\ [][Next]_loopVars
        /\ WF_loopVars(Read) /\ SF_loopVars(\E f \in Feedbacks : Install(f))
        /\ WF_loopVars(InstallPolicy) /\ WF_loopVars(Work)

(* ------------------------------------------------------------------------- *)
(* Properties                                                                *)

Policies == {NoPolicy} \cup UserPolicies
              \cup {BootstrapPolicy(t, b) : t \in TierConfigs, b \in BOOLEAN}

\* The type invariant: every variable holds a value of the program's types.
TypeOK ==
    /\ cache.entries \subseteq Entry /\ matrix \subseteq Entry
    /\ policy \in Policies
    /\ worker.pc \in {"idle", "busy", "draining", "closed", "aborted"}
    /\ Len(benchQueue) <= QueueCapacity

\* A policy an operator posted stays until another one is posted: neither the
\* refresh nor a toggle replaces it.
UserPolicyKept ==
    [][policy.version > 0 /\ policy' # policy => posting # NoPolicy]_loopVars

\* What was measured for a model and task stays measured in the cache: no
\* refresh and no tier change falls back to the synthetic guess.
MeasuredStaysMeasured ==
    [][\A e \in cache.entries : e.samples > 0 =>
         \E n \in cache'.entries : SameKey(n, e) /\ n.samples > 0]_loopVars

\* However long the same feedback is smoothed into the average, the refresh
\* moves a quality by at most the maximal adjustment, never above 100, and down
\* to the synthetic quality at most.
FeedbackBounded ==
    [][refresher.pc = "read" /\ refresher'.pc = "waiting" /\ cache' # cache =>
         LET merged == MergeFitness(GenerateSynthetic, refresher.rows) IN
         \A m \in merged : \E n \in cache'.entries :
           /\ SameKey(m, n)
           /\ n.quality >= m.quality - MaxAdjustment /\ n.quality <= 100
           /\ n.quality <= m.quality + MaxAdjustment
              \/ \E s \in GenerateSynthetic : SameKey(s, n) /\ n.quality = s.quality
           /\ n.quality # m.quality =>
                \A s \in GenerateSynthetic : SameKey(s, n) => n.quality >= s.quality]_loopVars

\* Results of the benchmark reach the cache of a router that was on at startup,
\* also when the stale mark is overwritten by a refresh that read before them.
MeasurementsArrive ==
    \A m \in Measurements :
      (started /\ m \in matrix) ~>
        (life # "serving" \/ \E e \in cache.entries : SameKey(e, m) /\ e.samples > 0)

\* New tiers take effect on the policy the system generates.
TiersTakeEffect ==
    \A t \in TierConfigs :
      (started /\ tiers = t) ~>
        (tiers # t \/ life # "serving" \/ policy.version # 0
         \/ \E b \in BOOLEAN : policy = BootstrapPolicy(t, b))

\* The cancellation of the worker loses at most the item in flight, and a
\* worker that closed has processed everything that was sampled.
CancelLosesOneItem ==
    /\ lost <= 1
    /\ worker.pc = "closed" => benchQueue = <<>> /\ worker.item = "none"

\* The worker comes to an end after the lifespan asked it to.
WorkerEnds == (life # "serving") ~> (worker.pc \in {"closed", "aborted"})

\* What was measured or decided by a user survives every refresh, toggle and change
\* of tiers, feedback moves it within its bounds only, and of what was sampled the
\* shutdown loses at most the item in flight.
KnowledgeKept ==
    /\ []TypeOK /\ []CancelLosesOneItem
    /\ UserPolicyKept /\ MeasuredStaysMeasured /\ FeedbackBounded

\* The loop closes: measurements and tiers reach the router, and the worker ends
\* with the process.
LoopSettles == MeasurementsArrive /\ TiersTakeEffect /\ WorkerEnds
=============================================================================
