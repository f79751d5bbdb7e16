------------------------------ MODULE Gateway ------------------------------
(***************************************************************************)
(* The LLM proxy (api/routes/proxy.py): routing, session phases, capture.  *)
(* A request is a coroutine: it yields while it is classified, while the   *)
(* upstream answers and while the answer is streamed, and the matrix and   *)
(* the policy (module FitnessLoop) may be replaced at each yield.          *)
(***************************************************************************)
EXTENDS Routing

CONSTANTS
    Requests,      \* identifiers of the proxied requests
    Profiles,      \* what a request may be: [endpoint, tools, forced, plan, session, model]
    Sessions,      \* session identifiers
    NoSession,
    Answers,       \* what the classifier may answer: [task, confidence]
    Confident,     \* classifier_confidence_threshold
    ReEscalation,  \* re_escalation_confidence of the step-down policy
    Tier1Confidence,
    MinWindow, Window, \* of the step-down policy
    Matrices,      \* what the fitness cache may hold: sets of entries
    Policies,      \* the policies that may be active
    Upstreams,     \* what GET /v1/models gave at startup: {list of models}, or {} for no answer
    EventCapacity, DecisionCapacity, SampleCapacity,
    MaxChanges     \* bound: changes of the matrix, the policy or the switch

ASSUME ProfilesAssumption ==
    /\ Profiles # {} /\ "claude-opus-4-6" \in Models
    /\ \A p \in Profiles : /\ p.model \in Models /\ p.forced \in Models \cup {NoModel}
                          /\ p.session \in Sessions \cup {NoSession}
ASSUME RoutingAssumption ==
    /\ \A matrix \in Matrices : matrix \subseteq Entry
    /\ \A p \in Policies : p.rules \in Seq(Rule)
    /\ \A a \in Answers : a.confidence \in 0..100
    /\ {Confident, ReEscalation, Tier1Confidence} \subseteq 0..100
ASSUME WindowAssumption == Window \in Nat /\ MinWindow \in 1..Window
ASSUME CapacityAssumption == {EventCapacity, DecisionCapacity, SampleCapacity} \subseteq Nat \ {0}

VARIABLES
    enabled, entries, policy, changes, \* routing_enabled, fitness_cache, routing_policy
    upstream,      \* app.state.upstream_models
    history,       \* session tracker: session -> recent tasks
    req,           \* request -> its progress
    events, decisions, samples, \* the queues the writers and the benchmark worker consume
    drops,         \* requests whose event was refused, and counted, by a full queue
    written        \* history: requests whose event the writer took

settings == <<enabled, entries, policy, changes, upstream>>
queues == <<events, decisions, samples, drops, written>>
vars == <<settings, history, req, queues>>

NoPolicy == [version |-> -1, rules |-> <<>>]

(* Session phases, from TASK_TO_PHASE and PHASE_REPRESENTATIVE.              *)
PhaseOf(t) ==
    CASE t \in {"architecture", "reasoning", "code_review"} -> "planning"
      [] t \in {"code_generation", "refactoring", "testing"} -> "implementing"
      [] t \in {"summarization", "documentation", "extraction", "classification"} -> "finishing"
      [] OTHER -> "iterating"
Representative == [planning |-> "architecture", implementing |-> "code_generation",
                   iterating |-> "debugging", finishing |-> "summarization"]

\* The phases a majority vote may return: the most common ones, in any order.
DetectPhase(h) ==
    LET Count(p) == Cardinality({i \in DOMAIN h : PhaseOf(h[i]) = p})
        seen == {PhaseOf(h[i]) : i \in DOMAIN h}
    IN  IF Len(h) < MinWindow THEN {"planning"}
        ELSE {p \in seen : \A q \in seen : Count(p) >= Count(q)}
Recorded(h, task) == LET all == Append(h, task)
                     IN  SubSeq(all, MaxTwo(1, Len(all) - Window + 1), Len(all))

NoAnswer == [task |-> "none", confidence |-> 0]
NoDecision == [model |-> NoModel, kind |-> "none", rule |-> 0]
Local(pc) == [pc |-> pc, profile |-> CHOOSE p \in Profiles : TRUE, model |-> NoModel,
              policy |-> NoPolicy, answer |-> NoAnswer, task |-> "none",
              status |-> "none", decision |-> NoDecision, depth |-> 0]
New == Local("new")

\* The models a request may be routed to.
Allowed(profile) ==
    IF profile.endpoint = "chat" THEN Models
    ELSE IF upstream = {} THEN AnthropicModels ELSE UNION upstream

Init ==
    /\ enabled \in BOOLEAN
    /\ entries \in Matrices
    /\ policy \in Policies
    /\ changes = 0
    /\ upstream \in Upstreams
    /\ history = [s \in Sessions |-> <<>>]
    /\ req = [r \in Requests |-> New]
    /\ events = <<>> /\ decisions = <<>> /\ samples = <<>> /\ drops = {} /\ written = {}

\* put_nowait: a full queue refuses, and the refusal is counted.
Put(queue, capacity, item) == IF Len(queue) < capacity THEN Append(queue, item) ELSE queue

(* ------------------------------------------------------------------------- *)
(* A request                                                                 *)

\* A request arrives. A forced model and plan mode bypass routing; otherwise
\* the classifier is awaited with the policy of this moment in hand.
Arrive(r, p) ==
    LET straight == p.forced # NoModel \/ p.plan \/ ~enabled
    IN  /\ req[r].pc = "new"
        /\ req' = [req EXCEPT ![r] =
             [@ EXCEPT !.profile = p,
                       !.pc = IF straight THEN "sending" ELSE "classifying",
                       !.policy = IF straight THEN NoPolicy ELSE policy,
                       !.model = IF p.forced # NoModel THEN p.forced
                                 ELSE IF p.plan THEN "claude-opus-4-6" ELSE p.model]]
        /\ UNCHANGED <<settings, history, queues>>

\* The row of the decision: written with the policy that was in hand.
MutDecisionRecordLate(r, task) == [req |-> r, task |-> task, version |-> policy.version]
DecisionRecord(r, task) == [req |-> r, task |-> task, version |-> req[r].policy.version]

\* The classifier answers: session phase, confidence gate, resolve(). The
\* decision is queued with the version of the policy in hand.
Route(r, a, phase, task) ==
    LET p == req[r].profile
        tracked == p.session # NoSession
        h == IF tracked THEN Recorded(history[p.session], a.task) ELSE <<>>
        d == IF a.confidence < Confident
             THEN [model |-> p.model, kind |-> "low confidence", rule |-> 0]
             ELSE Resolve(task, p.model, entries, req[r].policy, p.tools,
                          Allowed(p), a.confidence, Tier1Confidence)
    IN  /\ req[r].pc = "classifying"
        /\ phase \in IF tracked THEN DetectPhase(h) ELSE {"planning"}
        /\ task = IF phase = "planning" \/ a.confidence >= ReEscalation
                  THEN a.task ELSE Representative[phase]
        /\ history' = IF tracked THEN [history EXCEPT ![p.session] = h] ELSE history
        /\ req' = [req EXCEPT ![r] =
             [@ EXCEPT !.pc = "sending", !.model = d.model, !.answer = a,
                       !.task = task, !.decision = d, !.depth = Len(h)]]
        /\ decisions' = Put(decisions, DecisionCapacity, DecisionRecord(r, task))
        /\ UNCHANGED <<settings, events, samples, drops, written>>

\* Where the handler sends it: messages for other providers are converted.
Converted(q) == /\ q.profile.endpoint = "messages"
                /\ Known(q.model) => Catalog[q.model].provider # "anthropic"

\* Mutant: an event that a full queue refuses is not counted.
MutEnqueueUncounted(r, status, sampled) ==
    LET bench == sampled /\ status = "success"
    IN  /\ events' = Put(events, EventCapacity, r)
        /\ samples' = IF bench THEN Put(samples, SampleCapacity, r) ELSE samples
        /\ UNCHANGED <<drops, decisions, written, settings, history>>
\* _enqueue: the event, and a sample for the benchmark worker when the answer
\* was a success and the draw says so, also when the event was refused.
Enqueue(r, status, sampled) ==
    LET bench == sampled /\ status = "success"
    IN  /\ events' = Put(events, EventCapacity, r)
        /\ samples' = IF bench THEN Put(samples, SampleCapacity, r) ELSE samples
        /\ drops' = IF Len(events) < EventCapacity THEN drops ELSE drops \cup {r}
        /\ UNCHANGED <<decisions, written, settings, history>>

\* The coroutine goes on waiting, or ends and its locals with it.
Await(r, pc, status) ==
    /\ req' = [req EXCEPT ![r].pc = pc, ![r].status = status]
    /\ UNCHANGED <<settings, history, queues>>
End(r, pc) == req' = [req EXCEPT ![r] = Local(pc)]

\* The upstream answers with a status, "success" or "failure" (not 2xx). A request
\* that was not classified for its routing is classified now, and captured then.
\* What the body asked for shows only here: an answer of one of three handlers,
\* or a stream of one of three.
Answered(r, status, sampled) ==
    /\ req[r].pc = "sending"
    /\ IF req[r].answer # NoAnswer
         THEN End(r, "done") /\ Enqueue(r, status, sampled)
         ELSE Await(r, "capturing", status)
Chat(r) == req[r].profile.endpoint = "chat"
ChatAnswered(r, status, sampled) == Chat(r) /\ Answered(r, status, sampled)
MessagesAnswered(r, status, sampled) ==
    ~Chat(r) /\ ~Converted(req[r]) /\ Answered(r, status, sampled)
ConvertedAnswered(r, status, sampled) == Converted(req[r]) /\ Answered(r, status, sampled)
StreamStarts(r) == req[r].pc = "sending" /\ Await(r, "streaming", "none")

\* The connection fails or times out: the exception leaves the handler.
Unreachable(r) ==
    /\ req[r].pc = "sending"
    /\ End(r, "failed")
    /\ UNCHANGED <<settings, history, queues>>

\* The stream ends or breaks off; the generator's finally clause closes it. Only
\* a broken stream is a failure, whatever the status of the upstream's answer.
Streamed(r, broken) ==
    /\ req[r].pc = "streaming"
    /\ Await(r, "closing", IF broken THEN "failure" ELSE "success")
ChatStreamed(r, broken) == Chat(r) /\ Streamed(r, broken)
MessagesStreamed(r, broken) == ~Chat(r) /\ ~Converted(req[r]) /\ Streamed(r, broken)
ConvertedStreamed(r, broken) == Converted(req[r]) /\ Streamed(r, broken)

\* The client leaves, and the generator is cancelled: it closes the stream like
\* one that came to its end. The awaits of its finally clause may be cancelled
\* again, before the event; a converted stream yields in that clause, which a
\* generator that is being closed may not do.
ClientLeaves(r) == ~Converted(req[r]) /\ Streamed(r, FALSE)
ClientLeavesUncaptured(r) ==
    /\ req[r].pc = "closing" \/ (req[r].pc = "streaming" /\ Converted(req[r]))
    /\ End(r, "left")
    /\ UNCHANGED <<settings, history, queues>>

\* The classifier has answered, the stream is closed: the event is captured.
Captured(r, sampled) ==
    /\ req[r].pc \in {"capturing", "closing"}
    /\ End(r, "done")
    /\ Enqueue(r, req[r].status, sampled)

AnswerComes(r) ==
    \E status \in {"success", "failure"}, sampled \in BOOLEAN :
      \/ ChatAnswered(r, status, sampled)
      \/ MessagesAnswered(r, status, sampled)
      \/ ConvertedAnswered(r, status, sampled)
StreamGoesOn(r) ==
    \/ StreamStarts(r)
    \/ \E broken \in BOOLEAN :
         \/ ChatStreamed(r, broken)
         \/ MessagesStreamed(r, broken)
         \/ ConvertedStreamed(r, broken)
    \/ ClientLeaves(r)
    \/ ClientLeavesUncaptured(r)

Proceed(r) ==
    \/ \E a \in Answers, ph \in DOMAIN Representative :
         \E t \in {a.task, Representative[ph]} : Route(r, a, ph, t)
    \/ AnswerComes(r)
    \/ StreamGoesOn(r)
    \/ Unreachable(r)
    \/ \E sampled \in BOOLEAN : Captured(r, sampled)

(* ------------------------------------------------------------------------- *)
(* Everything else                                                           *)

\* The refresh task installs another matrix or policy, an operator posts a
\* policy or throws the switch (module FitnessLoop).
Change ==
    /\ changes < MaxChanges
    /\ changes' = changes + 1
    /\ enabled' \in BOOLEAN /\ entries' \in Matrices /\ policy' \in Policies
    /\ UNCHANGED <<upstream, history, req, queues>>

\* The refresh cycle forgets the sessions that were silent too long.
Prune(s) ==
    /\ history[s] # <<>>
    /\ history' = [history EXCEPT ![s] = <<>>]
    /\ UNCHANGED <<settings, req, queues>>

\* The consumers take what is queued (module QueueWorker).
Drain ==
    /\ events # <<>> \/ decisions # <<>> \/ samples # <<>>
    /\ written' = written \cup {events[i] : i \in DOMAIN events}
    /\ events' = <<>> /\ decisions' = <<>> /\ samples' = <<>>
    /\ UNCHANGED <<settings, history, req, drops>>

Next ==
    \/ \E r \in Requests, p \in Profiles : Arrive(r, p)
    \/ \E r \in Requests : Proceed(r)
    \/ Change
    \/ \E s \in Sessions : Prune(s)
    \/ Drain

Spec == Init /\ [][Next]_vars

(* ------------------------------------------------------------------------- *)
(* Properties                                                                *)

\* The type invariant: every variable holds a value of the program's types.
TypeOK ==
    /\ entries \subseteq Entry
    /\ \A r \in Requests :
         /\ req[r].pc \in {"new", "classifying", "sending", "capturing",
                           "streaming", "closing", "done", "failed", "left"}
         /\ req[r].model \in Models \cup {NoModel}
    /\ \A s \in Sessions : Len(history[s]) <= Window
    /\ Len(events) <= EventCapacity /\ Len(decisions) <= DecisionCapacity
    /\ Len(samples) <= SampleCapacity

\* Where a request that was routed may wait.
Routed == {"sending", "capturing", "streaming", "closing"}

\* The decision written for a request names the policy that made it, although
\* the policy may be replaced while the request is being classified.
VersionExplainsDecision ==
    \A i \in DOMAIN decisions :
      LET d == decisions[i]
          q == req[d.req] IN
      q.pc \in Routed =>
        /\ d.version = q.policy.version
        /\ q.decision.rule # 0 => q.policy.rules[q.decision.rule].task \in {d.task, CatchAll}

\* A session replaces the task of a request only after it has seen the
\* minimal window of requests since the tracker last forgot it.
StepDownNeedsHistory ==
    \A r \in Requests :
      req[r].task \notin {req[r].answer.task, "none"} => req[r].depth >= MinWindow

\* On /v1/messages a routed request goes to a model the upstream serves, by
\* the best candidate and by the fallback alike, unless it already asked for
\* another one.
RoutedWhereServed ==
    \A r \in Requests :
      /\ req[r].decision.kind \in {"best", "fallback"}
      /\ req[r].profile.endpoint = "messages"
      => req[r].model \in Allowed(req[r].profile) \cup {req[r].profile.model}

\* The best candidate of a routed request is good enough for its task and can
\* use the tools of the request, by the matrix of the moment it is chosen.
BestIsGoodEnough ==
    [][\A r \in Requests :
         (req[r].pc = "classifying" /\ req'[r].decision.kind = "best") =>
           /\ \E e \in entries :
                /\ e.model = req'[r].model /\ e.task = req'[r].task
                /\ e.quality >= QualityFloor
           /\ req[r].profile.tools => Catalog[req'[r].model].tools]_vars

\* A confident request for a frontier model and a hard task is never sent to
\* a model of lower quality than the rule for such requests asks for, unless
\* nothing qualifies.
FrontierPreserved ==
    [][\A r \in Requests :
         LET q == req[r] IN
         (/\ q.pc = "classifying" /\ req'[r].decision.kind = "best"
          /\ Known(q.profile.model) /\ Catalog[q.profile.model].tier = 1
          /\ req'[r].task \in HardTasks
          /\ req'[r].answer.confidence >= Tier1Confidence
          /\ q.policy.rules[req'[r].decision.rule].task # CatchAll) =>
            \E e \in entries : /\ e.model = req'[r].model /\ e.task = req'[r].task
                                /\ e.quality >= 85]_vars

\* A dry run of a confident chat request without tools, under the policy it was
\* routed by, predicts the model it went to and calls it affected if it moved.
DryRunPredicts ==
    [][\A r \in Requests :
         LET p == req[r].profile
             call == [task |-> req'[r].task, model |-> p.model, cost |-> 10]
             replay == DryRun(<<call>>, entries, req[r].policy, Tier1Confidence)[1]
         IN  (/\ req[r].pc = "classifying" /\ req'[r].pc = "sending"
              /\ p.endpoint = "chat" /\ ~p.tools
              /\ req'[r].answer.confidence >= MaxTwo(Confident, Tier1Confidence)) =>
               /\ replay.model = req'[r].model
               /\ replay.affected <=> req'[r].model # p.model]_vars

\* The engine's promise as its documentation states it: a request is never
\* routed below the quality floor, whatever the policy.
NeverBelowFloor ==
    [][\A r \in Requests :
         (/\ req[r].pc = "classifying" /\ req'[r].pc = "sending"
          /\ req'[r].model # req[r].profile.model) =>
           \E e \in entries :
             /\ e.model = req'[r].model /\ e.task = req'[r].task
             /\ e.quality >= QualityFloor]_vars

\* Every recorded decision is explained by the policy of its version, a phase that
\* replaced a task by enough history, and the model by an upstream that serves it.
DecisionsExplained ==
    TypeOK /\ VersionExplainsDecision /\ StepDownNeedsHistory /\ RoutedWhereServed

\* What a request is routed to respects its rule at that moment, keeps frontier tasks
\* on models good enough, and is what a dry run over the same data foretells.
RulesHonoured == BestIsGoodEnough /\ FrontierPreserved /\ DryRunPredicts

\* The requests whose handling is complete, and no others, are each captured in
\* exactly one way: their event is queued, was taken by the writer, or was refused
\* by a full queue and counted. None is captured twice, by a generator that is
\* closed again or by a client that leaves, and none that failed before its answer
\* or was given up uncaptured. A sample is of such a request too, and the only one
\* of it; it is kept although its event was refused, so that a benchmark may name
\* an event that is not there, but only one that was counted.
CapturesExact ==
    LET queued == {events[i] : i \in DOMAIN events}
        complete == {r \in Requests : req[r].pc = "done"} IN
    /\ \A i, j \in DOMAIN events : events[i] = events[j] => i = j
    /\ \A i, j \in DOMAIN samples : samples[i] = samples[j] => i = j
    /\ queued \cap written = {} /\ queued \cap drops = {} /\ written \cap drops = {}
    /\ queued \cup written \cup drops = complete
    /\ \A i \in DOMAIN samples : samples[i] \in complete
=============================================================================
