---------------------------- MODULE GatewayProofs ----------------------------
(***************************************************************************)
(* What is proved of the LLM proxy: what a decision was made by, what a    *)
(* model was chosen for, that every answer is captured exactly once, and   *)
(* that the conversations it repairs and converts are valid.               *)
(***************************************************************************)
EXTENDS Gateway, Conversation, Sums, SequenceTheorems

-----------------------------------------------------------------------------
(* The routing engine. The first rule that matches decides.                  *)
LEMMA FirstExists ==
  ASSUME NEW n \in Nat, NEW S \in SUBSET (1 .. n), S # {}
  PROVE  MinOf(S) \in S
<1> DEFINE F == {m \in 0 .. n : (\E i \in S : i <= m) => \E i \in S : \A j \in S : i <= j}
<1>0. \A i \in S : i \in Int /\ 1 <= i /\ i <= n
  OBVIOUS
<1>1. 0 \in F
  <2>1. ~\E i \in S : i <= 0
    BY <1>0
  <2> QED BY <2>1
<1>2. ASSUME NEW m \in 1 .. n, m - 1 \in F
      PROVE  m \in F
  <2>1. CASE \E i \in S : i <= m - 1
    <3>1. \E i \in S : \A j \in S : i <= j
      BY <1>2, <2>1
    <3> QED BY <3>1
  <2>2. CASE ~\E i \in S : i <= m - 1
    <3>1. \A j \in S : m <= j
      BY <1>0, <2>2
    <3>2. ASSUME NEW i \in S, i <= m
          PROVE  \E k \in S : \A j \in S : k <= j
      <4>1. i = m
        BY <1>0, <3>1, <3>2
      <4> QED BY <3>1, <4>1
    <3> QED BY <3>2
  <2> QED BY <2>1, <2>2
<1>3. n \in F
  <2>1. 0 .. n \subseteq F
    <3> HIDE DEF F
    <3> QED BY <1>1, <1>2, RangeInduction
  <2> QED BY <2>1
<1>4. \E i \in S : \A j \in S : i <= j
  BY <1>0, <1>3
<1> QED BY <1>4 DEF MinOf

(* A policy's rules are typed, and a rule that is sharpened for a frontier   *)
(* request asks for more quality and keeps its task and fallback.            *)
IsPolicy(p) == p.rules \in Seq(Rule)
LEMMA Sharpened ==
  ASSUME NEW rule \in Rule, NEW task, NEW requested, NEW confidence, NEW tier1
  PROVE  /\ EffectiveRule(rule, task, requested, confidence, tier1).fallback = rule.fallback
         /\ EffectiveRule(rule, task, requested, confidence, tier1).task = rule.task
         /\ EffectiveRule(rule, task, requested, confidence, tier1).minQuality \in Nat
         /\ (/\ Known(requested) /\ Catalog[requested].tier = 1
             /\ rule.task # CatchAll /\ task \in HardTasks /\ confidence >= tier1) =>
              EffectiveRule(rule, task, requested, confidence, tier1).minQuality >= 85
  BY DEF EffectiveRule, Rule, MaxTwo

LEMMA Candidates ==
  ASSUME NEW rule, NEW candidates
  PROVE  ApplyCriteria(rule, candidates) \subseteq candidates
  BY DEF ApplyCriteria

(* What resolve() may answer.                                                *)
Outcome(d, task, requested, entriesOf, policyOf, tools, allowed, confidence, tier1) ==
    \/ /\ d.kind \in {"empty policy", "no rule"} /\ d.model = requested /\ d.rule = 0
    \/ /\ d.kind = "fallback" /\ d.rule \in MatchingRules(task, policyOf)
       /\ \/ d.model = requested
          \/ d.model = policyOf.rules[d.rule].fallback /\ d.model \in allowed
    \/ /\ d.kind = "best" /\ d.rule \in MatchingRules(task, policyOf)
       /\ \E e \in entriesOf :
            /\ Qualifies(e, EffectiveRule(policyOf.rules[d.rule], task, requested,
                                          confidence, tier1),
                         task, tools, allowed)
            /\ d.model = e.model
LEMMA ResolveOutcome ==
  ASSUME NEW task, NEW requested, NEW entriesOf, NEW policyOf, IsPolicy(policyOf),
         NEW tools, NEW allowed, NEW confidence, NEW tier1
  PROVE  Outcome(Resolve(task, requested, entriesOf, policyOf, tools, allowed, confidence, tier1),
                 task, requested, entriesOf, policyOf, tools, allowed, confidence, tier1)
<1>d. PICK d : d = Resolve(task, requested, entriesOf, policyOf, tools, allowed, confidence, tier1)
  OBVIOUS
<1>m. PICK matching : matching = MatchingRules(task, policyOf)
  OBVIOUS
<1>i. PICK i : i = MinOf(matching)
  OBVIOUS
<1>r. PICK rule : rule = EffectiveRule(policyOf.rules[i], task, requested, confidence, tier1)
  OBVIOUS
<1>b. PICK best :
        best = ApplyCriteria(rule, {e \in entriesOf : Qualifies(e, rule, task, tools, allowed)})
  OBVIOUS
<1>1. PICK n \in Nat : /\ DOMAIN policyOf.rules = 1 .. n
                       /\ \A k \in 1 .. n : policyOf.rules[k] \in Rule
  BY DEF IsPolicy
<1>2. matching \in SUBSET (1 .. n)
  BY <1>m, <1>1 DEF MatchingRules
<1>3. matching # {} => i \in matching /\ policyOf.rules[i] \in Rule
  BY <1>i, <1>1, <1>2, FirstExists
<1>4. d = IF policyOf.rules = <<>> THEN [model |-> requested, kind |-> "empty policy", rule |-> 0]
          ELSE IF matching = {} THEN [model |-> requested, kind |-> "no rule", rule |-> 0]
          ELSE IF best = {} \/ entriesOf = {}
               THEN [model |-> Fallback(rule, requested, allowed), kind |-> "fallback", rule |-> i]
          ELSE [model |-> (CHOOSE e \in best : TRUE).model, kind |-> "best", rule |-> i]
  BY <1>d, <1>m, <1>i, <1>r, <1>b DEF Resolve
<1>5. CASE policyOf.rules = <<>> \/ matching = {}
  <2>1. d.kind \in {"empty policy", "no rule"} /\ d.model = requested /\ d.rule = 0
    BY <1>4, <1>5
  <2> QED BY <1>d, <2>1 DEF Outcome
<1>6. CASE policyOf.rules # <<>> /\ matching # {} /\ (best = {} \/ entriesOf = {})
  <2>1. d.kind = "fallback" /\ d.rule = i /\ d.model = Fallback(rule, requested, allowed)
    BY <1>4, <1>6
  <2>2. rule.fallback = policyOf.rules[i].fallback
    BY <1>r, <1>3, <1>6, Sharpened
  <2>3. d.model = requested \/ (d.model = policyOf.rules[i].fallback /\ d.model \in allowed)
    BY <2>1, <2>2 DEF Fallback
  <2> QED BY <1>d, <1>m, <1>3, <1>6, <2>1, <2>3 DEF Outcome
<1>7. CASE policyOf.rules # <<>> /\ matching # {} /\ best # {} /\ entriesOf # {}
  <2>1. PICK c : c = CHOOSE e \in best : TRUE
    OBVIOUS
  <2>2. c \in best
    BY <1>7, <2>1
  <2>3. c \in entriesOf /\ Qualifies(c, rule, task, tools, allowed)
    BY <1>b, <2>2, Candidates
  <2>4. d.kind = "best" /\ d.rule = i /\ d.model = c.model
    BY <1>4, <1>7, <2>1
  <2> QED BY <1>d, <1>m, <1>r, <1>3, <1>7, <2>3, <2>4 DEF Outcome
<1> QED BY <1>5, <1>6, <1>7

-----------------------------------------------------------------------------
(* What holds of a request by itself: until it was routed there is no        *)
(* decision, a task that was replaced had history, and a model it was sent   *)
(* to is served.                                                             *)
IsReq(q) == q = [pc |-> q.pc, profile |-> q.profile, model |-> q.model, policy |-> q.policy,
                 answer |-> q.answer, task |-> q.task, status |-> q.status,
                 decision |-> q.decision, depth |-> q.depth]
Pcs == {"new", "classifying", "done", "failed", "left"} \cup Routed
SteppedDown(q) == q.task \notin {q.answer.task, "none"} => q.depth >= MinWindow
Served(q) ==
    q.decision.kind \in {"best", "fallback"} /\ q.profile.endpoint = "messages"
      => q.model \in Allowed(q.profile) \cup {q.profile.model}
ReqInv(q) ==
    /\ IsReq(q) /\ q.pc \in Pcs /\ q.profile \in Profiles
    /\ q.model \in Models \cup {NoModel}
    /\ q.pc = "classifying" => q.policy \in Policies
    /\ q.pc \in {"new", "classifying"} => q.decision = NoDecision
    /\ q.pc = "new" => q.task = "none"
    /\ q.pc = "classifying" => q.task = "none" /\ q.model = q.profile.model
    /\ SteppedDown(q) /\ Served(q)

TaskNames == {a.task : a \in Answers} \cup {Representative[ph] : ph \in DOMAIN Representative}
DecisionRows == [req: Requests, task: TaskNames, version: {p.version : p \in Policies}]
Explained(d) ==
    /\ req[d.req].pc \notin {"new", "classifying"}
    /\ req[d.req].pc \in Routed =>
         /\ d.version = req[d.req].policy.version
         /\ req[d.req].decision.rule # 0 =>
              req[d.req].policy.rules[req[d.req].decision.rule].task \in {d.task, CatchAll}

SettingsInv == entries \in Matrices /\ policy \in Policies
ReqsInv == /\ req = [r \in Requests |-> req[r]]
           /\ \A r \in Requests : ReqInv(req[r])
SessionsInv == /\ history = [s \in Sessions |-> history[s]]
               /\ \A s \in Sessions : history[s] \in Seq(TaskNames) /\ Len(history[s]) <= Window
DecisionsInv == /\ decisions \in Seq(DecisionRows) /\ Len(decisions) <= DecisionCapacity
                /\ \A i \in DOMAIN decisions : Explained(decisions[i])
SamplesInv == samples \in Seq(Requests) /\ Len(samples) <= SampleCapacity
IsDone(r) == req[r].pc = "done"
CaptureInv == /\ events \in Seq(Requests) /\ Len(events) <= EventCapacity
              /\ \A i, j \in DOMAIN events : events[i] = events[j] => i = j
              /\ \A i, j \in DOMAIN samples : samples[i] = samples[j] => i = j
              /\ \A i \in DOMAIN samples : IsDone(samples[i])
              /\ \A i \in DOMAIN events : events[i] \notin drops \cup written /\ IsDone(events[i])
              /\ drops \cap written = {}
              /\ \A r \in drops \cup written : r \in Requests /\ IsDone(r)
              /\ \A r \in Requests :
                   IsDone(r) => r \in drops \cup written \/ \E i \in DOMAIN events : events[i] = r
GatewayInv == /\ SettingsInv /\ ReqsInv /\ SessionsInv /\ DecisionsInv
              /\ SamplesInv /\ CaptureInv

LEMMA LocalInv ==
  ASSUME NEW pc \in Pcs \ {"classifying"}
  PROVE  ReqInv(Local(pc)) /\ Local(pc).pc = pc /\ Local(pc).decision = NoDecision
<1>1. (CHOOSE p \in Profiles : TRUE) \in Profiles
  BY ProfilesAssumption
<1>2. Local(pc) = [pc |-> pc, profile |-> CHOOSE p \in Profiles : TRUE, model |-> NoModel,
                   policy |-> NoPolicy, answer |-> NoAnswer, task |-> "none",
                   status |-> "none", decision |-> NoDecision, depth |-> 0]
  BY DEF Local
<1>3. IsReq(Local(pc))
  BY <1>2 DEF IsReq
<1>4. SteppedDown(Local(pc)) /\ Served(Local(pc))
  BY <1>2 DEF SteppedDown, Served, NoDecision
<1> QED BY <1>1, <1>2, <1>3, <1>4 DEF ReqInv

LEMMA GatewayStarts == Init => GatewayInv
<1> SUFFICES ASSUME Init PROVE GatewayInv
  OBVIOUS
<1>1. SettingsInv
  BY DEF Init, SettingsInv
<1>2. ReqsInv
  <2>1. "new" \in Pcs \ {"classifying"}
    BY DEF Pcs
  <2>2. ReqInv(New)
    BY <2>1, LocalInv DEF New
  <2> QED BY <2>2 DEF Init, ReqsInv
<1>3. SessionsInv
  <2>1. <<>> \in Seq(TaskNames) /\ Len(<<>>) <= Window
    BY WindowAssumption
  <2> QED BY <2>1 DEF Init, SessionsInv
<1>4. \A T : <<>> \in Seq(T) /\ Len(<<>>) = 0 /\ DOMAIN <<>> = {}
  OBVIOUS
<1>5. EventCapacity \in Nat /\ DecisionCapacity \in Nat /\ SampleCapacity \in Nat
  BY CapacityAssumption
<1>6. DecisionsInv /\ SamplesInv
  BY <1>4, <1>5 DEF Init, DecisionsInv, SamplesInv
<1>7. CaptureInv
  <2>1. \A r \in Requests : ~IsDone(r)
    BY DEF Init, New, Local, IsDone
  <2> QED BY <1>4, <1>5, <2>1 DEF Init, CaptureInv
<1> QED BY <1>1, <1>2, <1>3, <1>6, <1>7 DEF GatewayInv

(* A step of one request leaves the others as they are.                      *)
LEMMA RequestMoves ==
  ASSUME ReqsInv, NEW r \in Requests, NEW q, req' = [req EXCEPT ![r] = q],
         upstream' = upstream, ReqInv(q)
  PROVE  ReqsInv' /\ req'[r] = q /\ \A s \in Requests : s # r => req'[s] = req[s]
<1>1. DOMAIN req = Requests
  BY DEF ReqsInv
<1>2. req' = [s \in Requests |-> IF s = r THEN q ELSE req[s]]
  BY <1>1
<1>3. \A x : ReqInv(x)' <=> ReqInv(x)
  BY DEF ReqInv, Served, Allowed
<1>4. req'[r] = q /\ \A s \in Requests : s # r => req'[s] = req[s]
  BY <1>2
<1>5. \A s \in Requests : ReqInv(req'[s])
  BY <1>4 DEF ReqsInv
<1>6. \A s \in Requests : ReqInv(req[s])'
  BY <1>3, <1>5
<1>7. req' = [s \in Requests |-> req'[s]]
  BY <1>2
<1> QED BY <1>4, <1>6, <1>7 DEF ReqsInv

(* What a queue holds after an item was offered to it.                       *)
Offered(q, T, queue, capacity, item) ==
    /\ q \in Seq(T) /\ Len(q) <= capacity
    /\ \A i \in DOMAIN q :
         \/ i \in DOMAIN queue /\ q[i] = queue[i]
         \/ i = Len(queue) + 1 /\ q[i] = item /\ Len(queue) < capacity
    /\ Len(queue) < capacity => Len(queue) + 1 \in DOMAIN q /\ q[Len(queue) + 1] = item
LEMMA PutKeeps ==
  ASSUME NEW T, NEW queue, queue \in Seq(T), NEW item, item \in T, NEW capacity, capacity \in Nat,
         Len(queue) <= capacity
  PROVE  Offered(Put(queue, capacity, item), T, queue, capacity, item)
<1>1. PICK n \in Nat : n = Len(queue) /\ DOMAIN queue = 1 .. n
  OBVIOUS
<1>2. CASE n < capacity
  <2>1. Put(queue, capacity, item) = Append(queue, item)
    BY <1>1, <1>2 DEF Put
  <2>2. /\ Append(queue, item) \in Seq(T) /\ Len(Append(queue, item)) = n + 1
        /\ DOMAIN Append(queue, item) = 1 .. n + 1
        /\ \A i \in 1 .. n : Append(queue, item)[i] = queue[i]
        /\ Append(queue, item)[n + 1] = item
    BY <1>1
  <2>3. \A i \in 1 .. n + 1 : i \in 1 .. n \/ i = n + 1
    OBVIOUS
  <2> QED BY <1>1, <1>2, <2>1, <2>2, <2>3 DEF Offered
<1>3. CASE ~(n < capacity)
  BY <1>1, <1>3 DEF Put, Offered
<1> QED BY <1>2, <1>3

LEMMA DecisionsKept ==
  ASSUME DecisionsInv, NEW r \in Requests, decisions' = decisions,
         \A s \in Requests : s # r => req'[s] = req[s],
         \/ req[r].pc \in {"new", "classifying"}
         \/ req'[r].pc \in {"done", "failed", "left"}
         \/ /\ {req[r].pc, req'[r].pc} \subseteq Routed
            /\ req'[r].policy = req[r].policy /\ req'[r].decision = req[r].decision
  PROVE  DecisionsInv'
<1>1. ASSUME NEW i \in DOMAIN decisions
      PROVE  Explained(decisions[i])'
  <2>1. PICK d : d = decisions[i]
    OBVIOUS
  <2>2. d \in DecisionRows /\ Explained(d)
    BY <2>1 DEF DecisionsInv
  <2>3. d.req \in Requests
    BY <2>2 DEF DecisionRows
  <2>4. CASE d.req # r
    BY <2>1, <2>2, <2>3, <2>4 DEF Explained
  <2>5. CASE d.req = r
    BY <2>1, <2>2, <2>5 DEF Explained, Routed
  <2> QED BY <2>4, <2>5
<1> QED BY <1>1 DEF DecisionsInv

LEMMA CapturesKept ==
  ASSUME CaptureInv, SamplesInv, NEW r \in Requests,
         UNCHANGED <<events, samples, drops, written>>,
         \A s \in Requests : s # r => req'[s] = req[s], ~IsDone(r), req'[r].pc # "done"
  PROVE  CaptureInv'
<1>1. \A s \in Requests : IsDone(s)' <=> IsDone(s)
  BY DEF IsDone
<1>2. /\ \A i \in DOMAIN events : events[i] \in Requests
      /\ \A i \in DOMAIN samples : samples[i] \in Requests
  BY DEF CaptureInv, SamplesInv
<1>3. /\ \A i \in DOMAIN samples' : IsDone(samples[i])'
      /\ \A i \in DOMAIN events' : IsDone(events[i])'
      /\ \A s \in drops' \cup written' : IsDone(s)'
  <2>1. /\ \A i \in DOMAIN samples : req'[samples[i]].pc = "done"
        /\ \A i \in DOMAIN events : req'[events[i]].pc = "done"
        /\ \A s \in drops \cup written : req'[s].pc = "done"
    BY <1>1, <1>2 DEF CaptureInv, IsDone
  <2> QED BY <2>1 DEF IsDone
<1> QED BY <1>1, <1>3 DEF CaptureInv

LEMMA ArriveKeeps ==
  ASSUME GatewayInv, NEW r \in Requests, NEW p \in Profiles, Arrive(r, p)
  PROVE  GatewayInv'
<1>s. PICK straight : straight = (p.forced # NoModel \/ p.plan \/ ~enabled)
  OBVIOUS
<1>q. PICK q : q = [req[r] EXCEPT !.profile = p,
                       !.pc = IF straight THEN "sending" ELSE "classifying",
                       !.policy = IF straight THEN NoPolicy ELSE policy,
                       !.model = IF p.forced # NoModel THEN p.forced
                                 ELSE IF p.plan THEN "claude-opus-4-6" ELSE p.model]
  OBVIOUS
<1>1. req[r].pc = "new" /\ req' = [req EXCEPT ![r] = q] /\ UNCHANGED <<settings, history, queues>>
  BY <1>s, <1>q, Zenon DEF Arrive
<1>2. ReqInv(req[r])
  BY DEF GatewayInv, ReqsInv
<1>3. /\ IsReq(q) /\ q.pc = (IF straight THEN "sending" ELSE "classifying")
      /\ q.profile = p /\ q.policy = (IF straight THEN NoPolicy ELSE policy)
      /\ q.model = (IF p.forced # NoModel THEN p.forced
                    ELSE IF p.plan THEN "claude-opus-4-6" ELSE p.model)
      /\ q.task = req[r].task /\ q.decision = req[r].decision
      /\ q.answer = req[r].answer /\ q.depth = req[r].depth
  BY <1>q, <1>2 DEF ReqInv, IsReq
<1>4. q.task = "none" /\ q.decision = NoDecision
  BY <1>1, <1>2, <1>3 DEF ReqInv
<1>5. q.model \in Models /\ (~straight => q.model = p.model)
  BY <1>s, <1>3, ProfilesAssumption
<1>6. SteppedDown(q) /\ Served(q)
  BY <1>4 DEF SteppedDown, Served, NoDecision
<1>7. ReqInv(q)
  BY <1>3, <1>4, <1>5, <1>6 DEF ReqInv, Pcs, Routed, GatewayInv, SettingsInv
<1>8. ReqsInv' /\ \A s \in Requests : s # r => req'[s] = req[s]
  BY <1>1, <1>7, RequestMoves DEF GatewayInv, settings
<1>9. DecisionsInv' /\ CaptureInv'
  <2>1. ~IsDone(r) /\ req'[r].pc # "done"
    BY <1>1, <1>3, RequestMoves, <1>7 DEF IsDone, GatewayInv, settings
  <2> QED BY <1>1, <1>8, <2>1, DecisionsKept, CapturesKept DEF GatewayInv, queues
<1> QED BY <1>1, <1>8, <1>9
        DEF GatewayInv, SettingsInv, SessionsInv, SamplesInv, settings, queues

LEMMA AwaitKeeps ==
  ASSUME GatewayInv, NEW r \in Requests, NEW pc \in Routed, NEW status,
         req[r].pc \in Routed, Await(r, pc, status)
  PROVE  /\ GatewayInv' /\ req'[r].pc = pc
         /\ \A s \in Requests : s # r => req'[s] = req[s]
<1>q. PICK q : q = [req[r] EXCEPT !.pc = pc, !.status = status]
  OBVIOUS
<1>2. ReqInv(req[r]) /\ req = [s \in Requests |-> req[s]]
  BY DEF GatewayInv, ReqsInv
<1>1. req' = [req EXCEPT ![r] = q] /\ UNCHANGED <<settings, history, queues>>
  BY <1>q, <1>2 DEF Await
<1>3. /\ IsReq(q) /\ q.pc = pc /\ q.profile = req[r].profile
      /\ q.policy = req[r].policy /\ q.model = req[r].model
      /\ q.task = req[r].task /\ q.decision = req[r].decision
      /\ q.answer = req[r].answer /\ q.depth = req[r].depth
  BY <1>q, <1>2 DEF ReqInv, IsReq
<1>6. SteppedDown(q) /\ Served(q)
  BY <1>2, <1>3 DEF SteppedDown, Served, ReqInv
<1>7. ReqInv(q)
  BY <1>2, <1>3, <1>6 DEF ReqInv, Pcs, Routed
<1>8. ReqsInv' /\ req'[r] = q /\ \A s \in Requests : s # r => req'[s] = req[s]
  BY <1>1, <1>7, RequestMoves DEF GatewayInv, settings
<1>9. DecisionsInv'
  BY <1>1, <1>3, <1>8, DecisionsKept DEF GatewayInv, queues
<1>10. CaptureInv'
  <2>1. ~IsDone(r) /\ req'[r].pc # "done"
    BY <1>3, <1>8 DEF IsDone, Routed
  <2> QED BY <1>1, <1>8, <2>1, CapturesKept DEF GatewayInv, queues
<1> QED BY <1>1, <1>3, <1>8, <1>9, <1>10
        DEF GatewayInv, SettingsInv, SessionsInv, SamplesInv, settings, queues

(* The steps of an answer and of a stream that wait for what comes next.     *)
LEMMA Waits ==
  ASSUME NEW r \in Requests, StreamGoesOn(r) \/ AnswerComes(r)
  PROVE  \/ req[r].pc \in Routed /\ \E status : \E pc \in Routed : Await(r, pc, status)
         \/ ClientLeavesUncaptured(r)
         \/ \E status \in {"success", "failure"}, sampled \in BOOLEAN :
              req[r].pc \in Routed /\ End(r, "done") /\ Enqueue(r, status, sampled)
<1>1. \A broken \in BOOLEAN :
        Streamed(r, broken) => /\ req[r].pc \in Routed
                               /\ \E status : \E pc \in Routed : Await(r, pc, status)
  BY DEF Streamed, Routed
<1>2. StreamStarts(r) => req[r].pc \in Routed /\ \E status : \E pc \in Routed : Await(r, pc, status)
  BY DEF StreamStarts, Routed
<1>3. CASE StreamGoesOn(r)
  BY <1>1, <1>2, <1>3 DEF StreamGoesOn, ChatStreamed, MessagesStreamed, ConvertedStreamed,
                          ClientLeaves
<1>4. CASE AnswerComes(r)
  <2>1. PICK status \in {"success", "failure"}, sampled \in BOOLEAN : Answered(r, status, sampled)
    BY <1>4 DEF AnswerComes, ChatAnswered, MessagesAnswered, ConvertedAnswered
  <2> QED BY <2>1 DEF Answered, Routed
<1> QED BY <1>3, <1>4

(* A request that ends takes its locals with it, captured or not.            *)
LEMMA EndKeeps ==
  ASSUME GatewayInv, NEW r \in Requests, NEW pc \in {"done", "failed", "left"},
         req[r].pc \in Routed, End(r, pc),
         decisions' = decisions, UNCHANGED <<settings, history>>
  PROVE  /\ SettingsInv' /\ ReqsInv' /\ SessionsInv' /\ DecisionsInv'
         /\ req'[r].pc = pc /\ \A s \in Requests : s # r => req'[s] = req[s]
<1>1. ReqInv(Local(pc)) /\ Local(pc).pc = pc
  BY LocalInv DEF Pcs, Routed
<1>2. req' = [req EXCEPT ![r] = Local(pc)]
  BY DEF End
<1>3. ReqsInv' /\ req'[r] = Local(pc) /\ \A s \in Requests : s # r => req'[s] = req[s]
  BY <1>1, <1>2, RequestMoves DEF GatewayInv, settings
<1>4. DecisionsInv'
  BY <1>1, <1>3, DecisionsKept DEF GatewayInv
<1> QED BY <1>1, <1>3, <1>4 DEF GatewayInv, SettingsInv, SessionsInv, settings

LEMMA UncapturedKeeps ==
  ASSUME GatewayInv, NEW r \in Requests, Unreachable(r) \/ ClientLeavesUncaptured(r)
  PROVE  GatewayInv' /\ req'[r].pc \in {"failed", "left"}
         /\ \A s \in Requests : s # r => req'[s] = req[s]
<1>1. PICK pc \in {"failed", "left"} :
        /\ req[r].pc \in Routed /\ End(r, pc)
        /\ UNCHANGED <<settings, history, queues>>
  BY DEF Unreachable, ClientLeavesUncaptured, Routed
<1>2. /\ SettingsInv' /\ ReqsInv' /\ SessionsInv' /\ DecisionsInv'
      /\ req'[r].pc = pc /\ \A s \in Requests : s # r => req'[s] = req[s]
  BY <1>1, EndKeeps DEF queues
<1>3. CaptureInv'
  <2>1. ~IsDone(r) /\ req'[r].pc # "done"
    BY <1>1, <1>2 DEF IsDone, Routed
  <2> QED BY <1>1, <1>2, <2>1, CapturesKept DEF GatewayInv, queues
<1> QED BY <1>1, <1>2, <1>3 DEF GatewayInv, SamplesInv, queues

(* A request that is captured is offered to the queues, and then complete.   *)
LEMMA EnqueueKeeps ==
  ASSUME GatewayInv, NEW r \in Requests, ~IsDone(r), NEW status, NEW sampled,
         Enqueue(r, status, sampled), req'[r].pc = "done",
         \A s \in Requests : s # r => req'[s] = req[s]
  PROVE  SamplesInv' /\ CaptureInv'
<1>1. EventCapacity \in Nat /\ SampleCapacity \in Nat
  BY CapacityAssumption
<1>2. /\ events' = Put(events, EventCapacity, r) /\ written' = written
      /\ samples' = samples \/ samples' = Put(samples, SampleCapacity, r)
      /\ drops' = IF Len(events) < EventCapacity THEN drops ELSE drops \cup {r}
  BY DEF Enqueue
<1>s. samples \in Seq(Requests) /\ Len(samples) <= SampleCapacity
  BY DEF GatewayInv, SamplesInv
<1>3. SamplesInv' /\ \A i \in DOMAIN samples' :
                        \/ i \in DOMAIN samples /\ samples'[i] = samples[i]
                        \/ i = Len(samples) + 1 /\ samples'[i] = r
  <2>2. Offered(Put(samples, SampleCapacity, r), Requests, samples, SampleCapacity, r)
    BY <1>1, <1>s, PutKeeps
  <2>3. CASE samples' = samples
    BY <1>s, <2>3 DEF SamplesInv
  <2>4. CASE samples' = Put(samples, SampleCapacity, r)
    BY <2>2, <2>4 DEF SamplesInv, Offered
  <2> QED BY <1>2, <2>3, <2>4
<1>4. Offered(events', Requests, events, EventCapacity, r)
  <2>1. events \in Seq(Requests) /\ Len(events) <= EventCapacity
    BY DEF GatewayInv, CaptureInv
  <2>2. Offered(Put(events, EventCapacity, r), Requests, events, EventCapacity, r)
    BY <1>1, <2>1, PutKeeps
  <2> QED BY <1>2, <2>2
<1>5. CaptureInv
  BY DEF GatewayInv
<1>6. /\ r \notin drops \cup written
      /\ \A i \in DOMAIN events : events[i] # r /\ events[i] \in Requests
      /\ \A i \in DOMAIN samples : samples[i] # r /\ samples[i] \in Requests
  BY <1>5, <1>s DEF CaptureInv
<1>7. /\ \A i, j \in DOMAIN events' : events'[i] = events'[j] => i = j
      /\ \A i, j \in DOMAIN samples' : samples'[i] = samples'[j] => i = j
  BY <1>3, <1>4, <1>5, <1>6 DEF CaptureInv, Offered
<1>8. \A s \in Requests : req'[s].pc = "done" <=> s = r \/ req[s].pc = "done"
  OBVIOUS
<1>9. \A i \in DOMAIN events' : events'[i] \notin drops' \cup written'
  BY <1>2, <1>4, <1>5, <1>6 DEF CaptureInv, Offered
<1>10. drops' \cap written' = {}
  BY <1>2, <1>5, <1>6 DEF CaptureInv
<1>11. \A s \in drops' \cup written' : s \in Requests /\ req'[s].pc = "done"
  BY <1>2, <1>5, <1>8 DEF CaptureInv, IsDone
<1>12. \A i \in DOMAIN samples' : req'[samples'[i]].pc = "done"
  BY <1>3, <1>5, <1>6, <1>8 DEF CaptureInv, IsDone
<1>13. \A i \in DOMAIN events' : req'[events'[i]].pc = "done"
  BY <1>4, <1>5, <1>6, <1>8 DEF CaptureInv, IsDone, Offered
<1>14. ASSUME NEW s \in Requests, req'[s].pc = "done"
       PROVE  s \in drops' \cup written' \/ \E i \in DOMAIN events' : events'[i] = s
  <2>1. CASE s = r
    BY <1>2, <1>4, <2>1 DEF Offered
  <2>2. CASE s # r
    <3>1. s \in drops \cup written \/ \E i \in DOMAIN events : events[i] = s
      BY <1>5, <1>8, <1>14, <2>2 DEF CaptureInv, IsDone
    <3>2. CASE s \in drops \cup written
      BY <1>2, <3>2
    <3>3. CASE \E i \in DOMAIN events : events[i] = s
      <4>1. PICK i \in DOMAIN events : events[i] = s
        BY <3>3
      <4>2. i \in DOMAIN events' /\ events'[i] = s
        BY <1>1, <1>2, <1>5, <4>1 DEF Put, CaptureInv
      <4> QED BY <4>2
    <3> QED BY <3>1, <3>2, <3>3
  <2> QED BY <2>1, <2>2
<1>15. CaptureInv'
  BY <1>4, <1>7, <1>9, <1>10, <1>11, <1>12, <1>13, <1>14 DEF CaptureInv, IsDone, Offered
<1> QED BY <1>3, <1>15

LEMMA CapturesKeep ==
  ASSUME GatewayInv, NEW r \in Requests, NEW status, NEW sampled,
         req[r].pc \in Routed, End(r, "done"), Enqueue(r, status, sampled)
  PROVE  GatewayInv' /\ \A s \in Requests : s # r => req'[s] = req[s]
<1>2. decisions' = decisions /\ UNCHANGED <<settings, history>>
  BY DEF Enqueue
<1>3. /\ SettingsInv' /\ ReqsInv' /\ SessionsInv' /\ DecisionsInv'
      /\ req'[r].pc = "done" /\ \A s \in Requests : s # r => req'[s] = req[s]
  BY <1>2, EndKeeps
<1>4. ~IsDone(r)
  BY DEF IsDone, Routed
<1>5. SamplesInv' /\ CaptureInv'
  BY <1>3, <1>4, EnqueueKeeps
<1> QED BY <1>3, <1>5 DEF GatewayInv

(* Whatever a request does that is neither to arrive nor to be routed.       *)
LEMMA OnwardKeeps ==
  ASSUME GatewayInv, NEW r \in Requests,
         \/ AnswerComes(r) \/ StreamGoesOn(r) \/ Unreachable(r)
         \/ \E sampled \in BOOLEAN : Captured(r, sampled)
  PROVE  /\ GatewayInv' /\ req[r].pc \in Routed
         /\ \A s \in Requests : s # r => req'[s] = req[s]
<1>1. CASE req[r].pc \in Routed /\ \E status : \E pc \in Routed : Await(r, pc, status)
  BY <1>1, AwaitKeeps
<1>2. CASE Unreachable(r) \/ ClientLeavesUncaptured(r)
  <2>1. req[r].pc \in Routed
    BY <1>2 DEF Unreachable, ClientLeavesUncaptured, Routed
  <2> QED BY <1>2, <2>1, UncapturedKeeps
<1>3. ASSUME NEW status, NEW sampled, req[r].pc \in Routed, End(r, "done"),
             Enqueue(r, status, sampled)
      PROVE  /\ GatewayInv' /\ req[r].pc \in Routed
             /\ \A s \in Requests : s # r => req'[s] = req[s]
  BY <1>3, CapturesKeep
<1>4. CASE \E sampled \in BOOLEAN : Captured(r, sampled)
  <2>1. PICK sampled \in BOOLEAN : Captured(r, sampled)
    BY <1>4
  <2>2. req[r].pc \in Routed /\ End(r, "done") /\ Enqueue(r, req[r].status, sampled)
    BY <2>1 DEF Captured, Routed
  <2> QED BY <1>3, <2>2
<1> QED BY <1>1, <1>2, <1>3, <1>4, Waits

(* The tracker keeps at most a window of the tasks a session asked for.      *)
LEMMA RecordedKeeps ==
  ASSUME NEW h, h \in Seq(TaskNames), NEW task, task \in TaskNames
  PROVE  Recorded(h, task) \in Seq(TaskNames) /\ Len(Recorded(h, task)) <= Window
<1>a. PICK all : all = Append(h, task)
  OBVIOUS
<1>n. PICK n : n = Len(h) + 1
  OBVIOUS
<1>m. PICK m : m = MaxTwo(1, n - Window + 1)
  OBVIOUS
<1>1. n \in Nat /\ all \in Seq(TaskNames) /\ Len(all) = n
  BY <1>a, <1>n
<1>2. Window \in Nat /\ 1 <= Window
  BY WindowAssumption
<1>3. m \in Int /\ 1 <= m /\ n - m + 1 <= Window
  BY <1>m, <1>1, <1>2 DEF MaxTwo
<1>4. Recorded(h, task) = SubSeq(all, m, n)
  BY <1>a, <1>m, <1>1 DEF Recorded
<1>5. Len(SubSeq(all, m, n)) = IF m <= n THEN n - m + 1 ELSE 0
  BY <1>1, <1>3
<1>6. SubSeq(all, m, n) \in Seq(TaskNames)
  <2>1. \A i \in m .. n : all[i] \in TaskNames
    <3>1. \A i \in 1 .. Len(all) : all[i] \in TaskNames
      BY <1>1
    <3> QED BY <1>1, <1>3, <3>1
  <2> QED BY <1>1, <1>3, <2>1
<1> QED BY <1>2, <1>3, <1>4, <1>5, <1>6

(* What a routing step leaves in the request.                                *)
Decided(d, q, a, task) ==
    \/ a.confidence < Confident
       /\ d = [model |-> q.profile.model, kind |-> "low confidence", rule |-> 0]
    \/ ~(a.confidence < Confident)
       /\ d = Resolve(task, q.profile.model, entries, q.policy, q.profile.tools,
                      Allowed(q.profile), a.confidence, Tier1Confidence)
RoutedTo(r, a, task) ==
    /\ req[r].pc = "classifying" /\ req'[r].pc = "sending"
    /\ req'[r].profile = req[r].profile /\ req'[r].policy = req[r].policy
    /\ req'[r].answer = a /\ req'[r].task = task /\ a \in Answers /\ task \in TaskNames
    /\ Decided(req'[r].decision, req[r], a, task)
    /\ req'[r].model = req'[r].decision.model
    /\ req[r].policy \in Policies
    /\ \A s \in Requests : s # r => req'[s] = req[s]
LEMMA RouteIs ==
  ASSUME ReqsInv, NEW r \in Requests, NEW a \in Answers, NEW ph \in DOMAIN Representative,
         NEW t \in {a.task, Representative[ph]}, Route(r, a, ph, t)
  PROVE  RoutedTo(r, a, t)
<1>h. PICK h : h = (IF req[r].profile.session # NoSession
                    THEN Recorded(history[req[r].profile.session], a.task) ELSE <<>>)
  OBVIOUS
<1>d. PICK d : d = (IF a.confidence < Confident
             THEN [model |-> req[r].profile.model, kind |-> "low confidence", rule |-> 0]
             ELSE Resolve(t, req[r].profile.model, entries, req[r].policy, req[r].profile.tools,
                          Allowed(req[r].profile), a.confidence, Tier1Confidence))
  OBVIOUS
<1>q. PICK q : q = [req[r] EXCEPT !.pc = "sending", !.model = d.model, !.answer = a,
                                  !.task = t, !.decision = d, !.depth = Len(h)]
  OBVIOUS
<1>1. req[r].pc = "classifying" /\ req' = [req EXCEPT ![r] = q]
  BY <1>h, <1>d, <1>q, Zenon DEF Route
<1>2. ReqInv(req[r]) /\ DOMAIN req = Requests
  BY DEF ReqsInv
<1>3. /\ q.pc = "sending" /\ q.profile = req[r].profile /\ q.policy = req[r].policy
      /\ q.model = d.model /\ q.answer = a /\ q.task = t /\ q.decision = d
  BY <1>q, <1>2 DEF ReqInv, IsReq
<1>4. req'[r] = q /\ \A s \in Requests : s # r => req'[s] = req[s]
  BY <1>1, <1>2
<1>5. Decided(d, req[r], a, t)
  BY <1>d DEF Decided
<1>6. t \in TaskNames
  BY DEF TaskNames
<1> QED BY <1>1, <1>2, <1>3, <1>4, <1>5, <1>6 DEF RoutedTo, ReqInv

LEMMA DecidedWell ==
  ASSUME SettingsInv, NEW q, q.profile \in Profiles, q.policy \in Policies,
         NEW a, NEW task, NEW d, Decided(d, q, a, task)
  PROVE  /\ d.model \in Models \cup {NoModel}
         /\ d.kind \in {"best", "fallback"} => d.model \in Allowed(q.profile) \cup {q.profile.model}
         /\ d.rule # 0 => q.policy.rules[d.rule].task \in {task, CatchAll}
<1>1. q.profile.model \in Models /\ IsPolicy(q.policy) /\ entries \subseteq Entry
  BY ProfilesAssumption, RoutingAssumption DEF IsPolicy, SettingsInv
<1>2. CASE d = [model |-> q.profile.model, kind |-> "low confidence", rule |-> 0]
  BY <1>1, <1>2
<1>3. CASE Outcome(d, task, q.profile.model, entries, q.policy, q.profile.tools,
                   Allowed(q.profile), a.confidence, Tier1Confidence)
  <2>1. CASE d.kind \in {"empty policy", "no rule"} /\ d.model = q.profile.model /\ d.rule = 0
    BY <1>1, <2>1
  <2>2. CASE /\ d.kind = "fallback" /\ d.rule \in MatchingRules(task, q.policy)
             /\ \/ d.model = q.profile.model
                \/ d.model = q.policy.rules[d.rule].fallback /\ d.model \in Allowed(q.profile)
    <3>1. /\ q.policy.rules[d.rule].task \in {task, CatchAll}
          /\ q.policy.rules[d.rule] \in Rule
      BY <1>1, <2>2 DEF MatchingRules, IsPolicy
    <3> QED BY <1>1, <2>2, <3>1 DEF Rule
  <2>3. CASE /\ d.kind = "best" /\ d.rule \in MatchingRules(task, q.policy)
             /\ \E e \in entries :
                  /\ Qualifies(e, EffectiveRule(q.policy.rules[d.rule], task, q.profile.model,
                                                a.confidence, Tier1Confidence),
                               task, q.profile.tools, Allowed(q.profile))
                  /\ d.model = e.model
    <3>1. q.policy.rules[d.rule].task \in {task, CatchAll}
      BY <2>3 DEF MatchingRules
    <3>2. PICK e \in entries : e.model \in Allowed(q.profile) /\ d.model = e.model
      BY <2>3 DEF Qualifies
    <3>3. e.model \in Models
      BY <1>1 DEF Entry
    <3> QED BY <3>1, <3>2, <3>3
  <2> QED BY <1>3, <2>1, <2>2, <2>3 DEF Outcome
<1>4. \/ a.confidence < Confident
      \/ Outcome(d, task, q.profile.model, entries, q.policy, q.profile.tools,
                 Allowed(q.profile), a.confidence, Tier1Confidence)
  BY <1>1, ResolveOutcome DEF Decided
<1> QED BY <1>2, <1>3, <1>4 DEF Decided

(* A phase other than planning, so a task that was replaced, takes a window.  *)
LEMMA StepsDownLate ==
  ASSUME ReqsInv, SessionsInv, NEW r \in Requests, NEW a \in Answers,
         NEW ph \in DOMAIN Representative, NEW t \in {a.task, Representative[ph]},
         Route(r, a, ph, t)
  PROVE  SteppedDown(req'[r])
<1>p. PICK p : p = req[r].profile
  OBVIOUS
<1>h. PICK h : h = (IF p.session # NoSession THEN Recorded(history[p.session], a.task) ELSE <<>>)
  OBVIOUS
<1>1. /\ ph \in IF p.session # NoSession THEN DetectPhase(h) ELSE {"planning"}
      /\ t = IF ph = "planning" \/ a.confidence >= ReEscalation
             THEN a.task ELSE Representative[ph]
      /\ req'[r].depth = Len(h) /\ req'[r].answer = a /\ req'[r].task = t
  <2>d. PICK d : d = (IF a.confidence < Confident
             THEN [model |-> req[r].profile.model, kind |-> "low confidence", rule |-> 0]
             ELSE Resolve(t, req[r].profile.model, entries, req[r].policy, req[r].profile.tools,
                          Allowed(req[r].profile), a.confidence, Tier1Confidence))
    OBVIOUS
  <2>q. PICK q : q = [req[r] EXCEPT !.pc = "sending", !.model = d.model, !.answer = a,
                                    !.task = t, !.decision = d, !.depth = Len(h)]
    OBVIOUS
  <2>1. /\ ph \in IF p.session # NoSession THEN DetectPhase(h) ELSE {"planning"}
        /\ t = IF ph = "planning" \/ a.confidence >= ReEscalation
               THEN a.task ELSE Representative[ph]
        /\ req' = [req EXCEPT ![r] = q]
    BY <1>p, <1>h, <2>d, <2>q, Zenon DEF Route
  <2>2. ReqInv(req[r]) /\ DOMAIN req = Requests
    BY DEF ReqsInv
  <2>3. q.depth = Len(h) /\ q.answer = a /\ q.task = t
    BY <2>q, <2>2 DEF ReqInv, IsReq
  <2>4. req'[r] = q
    BY <2>1, <2>2
  <2> QED BY <2>1, <2>3, <2>4
<1>2. CASE ph = "planning"
  BY <1>1, <1>2 DEF SteppedDown
<1>3. CASE ph # "planning"
  <2>1. ph \in DetectPhase(h)
    BY <1>1, <1>3
  <2>2. ~(Len(h) < MinWindow)
    BY <1>3, <2>1 DEF DetectPhase
  <2>3. Len(h) >= MinWindow
    <3>1. h \in Seq(TaskNames)
      <4>1. CASE p.session = NoSession
        BY <1>1, <1>3, <4>1
      <4>2. CASE p.session # NoSession
        <5>1. p.session \in Sessions
          BY <1>p, <4>2, ProfilesAssumption DEF ReqsInv, ReqInv
        <5>2. history[p.session] \in Seq(TaskNames)
          BY <5>1 DEF SessionsInv
        <5>3. a.task \in TaskNames
          BY DEF TaskNames
        <5> QED BY <1>h, <4>2, <5>2, <5>3, RecordedKeeps
      <4> QED BY <4>1, <4>2
    <3> QED BY <2>2, <3>1, WindowAssumption
  <2> QED BY <1>1, <2>3 DEF SteppedDown
<1> QED BY <1>2, <1>3

LEMMA RouteKeeps ==
  ASSUME GatewayInv, NEW r \in Requests, NEW a \in Answers, NEW ph \in DOMAIN Representative,
         NEW t \in {a.task, Representative[ph]}, Route(r, a, ph, t)
  PROVE  GatewayInv'
<1>1. RoutedTo(r, a, t) /\ SteppedDown(req'[r])
  BY RouteIs, StepsDownLate DEF GatewayInv
<1>o. PICK o : o = req[r]
  OBVIOUS
<1>q. PICK q : q = req'[r]
  OBVIOUS
<1>2. /\ ReqInv(o) /\ o.pc = "classifying" /\ o.policy \in Policies
      /\ q.pc = "sending" /\ q.profile = o.profile /\ q.policy = o.policy
      /\ q.answer = a /\ q.task = t /\ q.model = q.decision.model
      /\ Decided(q.decision, o, a, t) /\ t \in TaskNames
  BY <1>1, <1>o, <1>q DEF RoutedTo, GatewayInv, ReqsInv
<1>3. /\ upstream' = upstream /\ UNCHANGED <<settings, events, samples, drops, written>>
      /\ decisions' = Put(decisions, DecisionCapacity, DecisionRecord(r, t))
  BY DEF Route, settings
<1>4. /\ q.model \in Models \cup {NoModel}
      /\ q.decision.kind \in {"best", "fallback"} =>
           q.model \in Allowed(q.profile) \cup {q.profile.model}
      /\ q.decision.rule # 0 => q.policy.rules[q.decision.rule].task \in {t, CatchAll}
  <2>1. o.profile \in Profiles /\ SettingsInv
    BY <1>2 DEF ReqInv, GatewayInv
  <2>2. PICK d : d = q.decision
    OBVIOUS
  <2>3. /\ d.model \in Models \cup {NoModel}
        /\ d.kind \in {"best", "fallback"} => d.model \in Allowed(o.profile) \cup {o.profile.model}
        /\ d.rule # 0 => o.policy.rules[d.rule].task \in {t, CatchAll}
    BY <1>2, <2>1, <2>2, DecidedWell
  <2> QED BY <1>2, <2>2, <2>3
<1>5. /\ IsReq(q) /\ req' = [s \in Requests |-> req'[s]]
      /\ \A s \in Requests : s # r => req'[s] = req[s]
  <2>h. PICK h : h = (IF o.profile.session # NoSession
                      THEN Recorded(history[o.profile.session], a.task) ELSE <<>>)
    OBVIOUS
  <2>d. PICK d : d = (IF a.confidence < Confident
             THEN [model |-> o.profile.model, kind |-> "low confidence", rule |-> 0]
             ELSE Resolve(t, o.profile.model, entries, o.policy, o.profile.tools,
                          Allowed(o.profile), a.confidence, Tier1Confidence))
    OBVIOUS
  <2>w. PICK w : w = [o EXCEPT !.pc = "sending", !.model = d.model, !.answer = a,
                               !.task = t, !.decision = d, !.depth = Len(h)]
    OBVIOUS
  <2>1. req' = [req EXCEPT ![r] = w]
    BY <1>o, <2>h, <2>d, <2>w, Zenon DEF Route
  <2>2. IsReq(w)
    BY <1>2, <2>w DEF ReqInv, IsReq
  <2>3. DOMAIN req = Requests
    BY DEF GatewayInv, ReqsInv
  <2>4. w = q
    BY <1>q, <2>1, <2>3
  <2>5. req' = [s \in Requests |-> req'[s]]
    BY <2>1, <2>3
  <2> QED BY <1>1, <2>2, <2>4, <2>5 DEF RoutedTo
<1>6. ReqInv(q)
  <2>1. q.profile \in Profiles
    BY <1>2 DEF ReqInv
  <2>2. Served(q) /\ SteppedDown(q)
    BY <1>1, <1>4, <1>q DEF Served
  <2> QED BY <1>2, <1>4, <1>5, <2>1, <2>2 DEF ReqInv, Pcs, Routed
<1>7. ReqsInv'
  <2>1. \A x : ReqInv(x)' <=> ReqInv(x)
    BY <1>3 DEF ReqInv, Served, Allowed
  <2>2. \A s \in Requests : ReqInv(req'[s])
    BY <1>q, <1>5, <1>6 DEF GatewayInv, ReqsInv
  <2>3. \A s \in Requests : ReqInv(req[s])'
    BY <2>1, <2>2
  <2> QED BY <1>5, <2>3 DEF ReqsInv
<1>8. SessionsInv'
  <2>p. PICK session : session = o.profile.session
    OBVIOUS
  <2>0. PICK h : /\ h = (IF session # NoSession THEN Recorded(history[session], a.task) ELSE <<>>)
                 /\ history' = IF session # NoSession
                               THEN [history EXCEPT ![session] = h] ELSE history
    BY <1>o, <2>p, Zenon DEF Route
  <2>1. CASE session = NoSession
    BY <2>0, <2>1 DEF GatewayInv, SessionsInv
  <2>2. CASE session # NoSession
    <3>1. session \in Sessions
      BY <1>2, <2>p, <2>2, ProfilesAssumption DEF ReqInv
    <3>2. history[session] \in Seq(TaskNames) /\ a.task \in TaskNames
      BY <3>1 DEF GatewayInv, SessionsInv, TaskNames
    <3>3. h \in Seq(TaskNames) /\ Len(h) <= Window
      BY <2>0, <2>2, <3>2, RecordedKeeps
    <3>4. history' = [history EXCEPT ![session] = h]
      BY <2>0, <2>2
    <3>5. history = [s \in Sessions |-> history[s]]
          /\ \A s \in Sessions : history[s] \in Seq(TaskNames) /\ Len(history[s]) <= Window
      BY DEF GatewayInv, SessionsInv
    <3>6. history' = [s \in Sessions |-> history'[s]]
      BY <3>4, <3>5
    <3>7. \A s \in Sessions : history'[s] = IF s = session THEN h ELSE history[s]
      BY <3>4, <3>5
    <3>8. \A s \in Sessions : history'[s] \in Seq(TaskNames) /\ Len(history'[s]) <= Window
      BY <3>3, <3>5, <3>7
    <3> QED BY <3>6, <3>8 DEF SessionsInv
  <2> QED BY <2>1, <2>2
<1>9. DecisionsInv'
  <2>d. PICK row : row = DecisionRecord(r, t)
    OBVIOUS
  <2>1. row.req = r /\ row.task = t /\ row.version = o.policy.version /\ row \in DecisionRows
    BY <1>o, <1>2, <2>d DEF DecisionRecord, DecisionRows
  <2>2. DecisionsInv /\ DecisionCapacity \in Nat
    BY CapacityAssumption DEF GatewayInv
  <2>3. Offered(decisions', DecisionRows, decisions, DecisionCapacity, row)
    <3>1. Offered(Put(decisions, DecisionCapacity, row), DecisionRows, decisions,
                  DecisionCapacity, row)
      BY <2>1, <2>2, PutKeeps DEF DecisionsInv
    <3> QED BY <1>3, <2>d, <3>1
  <2>4. ASSUME NEW i \in DOMAIN decisions'
        PROVE  Explained(decisions[i])'
    <3>1. CASE i \in DOMAIN decisions /\ decisions'[i] = decisions[i]
      <4>1. PICK d : d = decisions[i]
        OBVIOUS
      <4>2. d \in DecisionRows /\ Explained(d)
        BY <2>2, <3>1, <4>1 DEF DecisionsInv
      <4>3. d.req \in Requests /\ d.req # r
        BY <1>2, <1>o, <4>2 DEF DecisionRows, Explained
      <4> QED BY <1>5, <3>1, <4>1, <4>2, <4>3 DEF Explained
    <3>2. CASE decisions'[i] = row
      <4>1. /\ q.pc = "sending" /\ row.version = q.policy.version
            /\ q.decision.rule # 0 => q.policy.rules[q.decision.rule].task \in {row.task, CatchAll}
        BY <1>2, <1>4, <2>1
      <4> QED BY <1>q, <2>1, <3>2, <4>1 DEF Explained
    <3> QED BY <2>3, <3>1, <3>2 DEF Offered
  <2> QED BY <2>3, <2>4 DEF DecisionsInv, Offered
<1>10. CaptureInv'
  <2>1. ~IsDone(r) /\ req'[r].pc # "done" /\ UNCHANGED <<events, samples, drops, written>>
    BY <1>2, <1>3, <1>o, <1>q DEF IsDone
  <2> QED BY <1>5, <2>1, CapturesKept DEF GatewayInv
<1>11. SettingsInv' /\ SamplesInv'
  BY <1>3 DEF GatewayInv, SettingsInv, SamplesInv, settings
<1> QED BY <1>7, <1>8, <1>9, <1>10, <1>11 DEF GatewayInv

-----------------------------------------------------------------------------
LEMMA ChangeKeeps ==
  ASSUME GatewayInv, Change \/ Drain \/ (\E s \in Sessions : Prune(s)) \/ UNCHANGED vars
  PROVE  GatewayInv' /\ req' = req /\ (Drain \/ decisions' = decisions)
<1>1. \A x : upstream' = upstream => (ReqInv(x)' <=> ReqInv(x))
  BY DEF ReqInv, Served, Allowed
<1>2. CASE Change
  <2>1. /\ req' = req /\ upstream' = upstream /\ history' = history /\ UNCHANGED queues
        /\ SettingsInv'
    BY <1>2 DEF Change, SettingsInv
  <2>2. ReqsInv' /\ SessionsInv' /\ SamplesInv'
    BY <1>1, <2>1 DEF GatewayInv, ReqsInv, SessionsInv, SamplesInv, queues
  <2>3. DecisionsInv' /\ CaptureInv'
    BY <2>1 DEF GatewayInv, DecisionsInv, Explained, CaptureInv, IsDone, queues
  <2> QED BY <2>1, <2>2, <2>3 DEF GatewayInv, queues
<1>3. CASE \E s \in Sessions : Prune(s)
  <2>1. PICK s \in Sessions : Prune(s)
    BY <1>3
  <2>2. /\ req' = req /\ UNCHANGED settings /\ UNCHANGED queues
        /\ history' = [history EXCEPT ![s] = <<>>]
    BY <2>1 DEF Prune
  <2>3. SettingsInv' /\ ReqsInv' /\ SamplesInv'
    BY <1>1, <2>2 DEF GatewayInv, SettingsInv, ReqsInv, SamplesInv, queues, settings
  <2>4. DecisionsInv' /\ CaptureInv'
    BY <2>2 DEF GatewayInv, DecisionsInv, Explained, CaptureInv, IsDone, queues
  <2>5. SessionsInv'
    <3>1. history = [x \in Sessions |-> history[x]]
          /\ \A x \in Sessions : history[x] \in Seq(TaskNames) /\ Len(history[x]) <= Window
      BY DEF GatewayInv, SessionsInv
    <3>2. <<>> \in Seq(TaskNames) /\ Len(<<>>) <= Window
      BY WindowAssumption
    <3>3. /\ history' = [x \in Sessions |-> history'[x]]
          /\ \A x \in Sessions : history'[x] = IF x = s THEN <<>> ELSE history[x]
      BY <2>2, <3>1
    <3>4. \A x \in Sessions : history'[x] \in Seq(TaskNames) /\ Len(history'[x]) <= Window
      BY <3>1, <3>2, <3>3
    <3> QED BY <3>3, <3>4 DEF SessionsInv
  <2> QED BY <2>2, <2>3, <2>4, <2>5 DEF GatewayInv, queues
<1>4. CASE Drain
  <2>1. /\ req' = req /\ UNCHANGED settings /\ history' = history /\ drops' = drops
        /\ events' = <<>> /\ decisions' = <<>> /\ samples' = <<>>
    BY <1>4 DEF Drain
  <2>2. SettingsInv' /\ ReqsInv' /\ SessionsInv'
    BY <1>1, <2>1 DEF GatewayInv, SettingsInv, ReqsInv, SessionsInv, settings
  <2>3. \A T : <<>> \in Seq(T) /\ Len(<<>>) = 0 /\ DOMAIN <<>> = {}
    OBVIOUS
  <2>4. EventCapacity \in Nat /\ DecisionCapacity \in Nat /\ SampleCapacity \in Nat
    BY CapacityAssumption
  <2>5. DecisionsInv' /\ SamplesInv'
    BY <2>1, <2>3, <2>4 DEF DecisionsInv, SamplesInv
  <2>6. CaptureInv'
    <3>1. CaptureInv /\ written' = written \cup {events[i] : i \in DOMAIN events}
      BY <1>4 DEF Drain, GatewayInv
    <3>2. \A s \in Requests : IsDone(s) => s \in drops' \cup written'
      BY <2>1, <3>1 DEF CaptureInv
    <3>3. \A s \in drops' \cup written' : s \in Requests /\ IsDone(s)
      BY <2>1, <3>1 DEF CaptureInv
    <3>4. drops' \cap written' = {}
      BY <2>1, <3>1 DEF CaptureInv
    <3> QED BY <2>1, <2>3, <2>4, <3>2, <3>3, <3>4 DEF CaptureInv, IsDone
  <2> QED BY <1>4, <2>1, <2>2, <2>5, <2>6 DEF GatewayInv
<1>5. CASE UNCHANGED vars
  <2>1. /\ req' = req /\ UNCHANGED settings /\ history' = history /\ UNCHANGED queues
    BY <1>5 DEF vars
  <2>2. SettingsInv' /\ ReqsInv' /\ SessionsInv' /\ SamplesInv'
    BY <1>1, <2>1 DEF GatewayInv, SettingsInv, ReqsInv, SessionsInv, SamplesInv, settings, queues
  <2>3. DecisionsInv' /\ CaptureInv'
    BY <2>1 DEF GatewayInv, DecisionsInv, Explained, CaptureInv, IsDone, queues
  <2> QED BY <2>1, <2>2, <2>3 DEF GatewayInv, queues
<1> QED BY <1>2, <1>3, <1>4, <1>5

(* The steps, by what they do to the requests.                               *)
GatewaySteps ==
    \/ \E r \in Requests, p \in Profiles : Arrive(r, p)
    \/ \E r \in Requests, a \in Answers, ph \in DOMAIN Representative :
         \E t \in {a.task, Representative[ph]} : Route(r, a, ph, t)
    \/ \E r \in Requests :
         \/ AnswerComes(r) \/ StreamGoesOn(r) \/ Unreachable(r)
         \/ \E sampled \in BOOLEAN : Captured(r, sampled)
    \/ Change \/ Drain \/ (\E s \in Sessions : Prune(s)) \/ UNCHANGED vars
LEMMA GatewayStep == [Next]_vars => GatewaySteps
  BY DEF Next, Proceed, GatewaySteps

LEMMA GatewayKept == GatewayInv /\ [Next]_vars => GatewayInv'
<1> SUFFICES ASSUME GatewayInv, GatewaySteps PROVE GatewayInv'
  BY GatewayStep
<1>1. ASSUME NEW r \in Requests, NEW p \in Profiles, Arrive(r, p) PROVE GatewayInv'
  BY <1>1, ArriveKeeps
<1>2. ASSUME NEW r \in Requests, NEW a \in Answers, NEW ph \in DOMAIN Representative,
             NEW t \in {a.task, Representative[ph]}, Route(r, a, ph, t)
      PROVE  GatewayInv'
  BY <1>2, RouteKeeps
<1>3. ASSUME NEW r \in Requests,
             \/ AnswerComes(r) \/ StreamGoesOn(r) \/ Unreachable(r)
             \/ \E sampled \in BOOLEAN : Captured(r, sampled)
      PROVE  GatewayInv'
  BY <1>3, OnwardKeeps
<1>6. CASE Change \/ Drain \/ (\E s \in Sessions : Prune(s)) \/ UNCHANGED vars
  BY <1>6, ChangeKeeps
<1> QED BY <1>1, <1>2, <1>3, <1>6 DEF GatewaySteps

LEMMA GatewayIsInvariant == Spec => []GatewayInv
  BY GatewayStarts, GatewayKept, PTL DEF Spec

LEMMA GatewayExplains == GatewayInv => DecisionsExplained
<1> SUFFICES ASSUME GatewayInv PROVE DecisionsExplained
  OBVIOUS
<1>1. \A r \in Requests : ReqInv(req[r])
  BY DEF GatewayInv, ReqsInv
<1>2. TypeOK
  <2>1. entries \subseteq Entry
    BY RoutingAssumption DEF GatewayInv, SettingsInv
  <2>2. /\ \A s \in Sessions : Len(history[s]) <= Window
        /\ Len(events) <= EventCapacity /\ Len(decisions) <= DecisionCapacity
        /\ Len(samples) <= SampleCapacity
    BY DEF GatewayInv, SessionsInv, CaptureInv, DecisionsInv, SamplesInv
  <2>3. \A r \in Requests : req[r].pc \in Pcs /\ req[r].model \in Models \cup {NoModel}
    BY <1>1 DEF ReqInv
  <2> QED BY <2>1, <2>2, <2>3 DEF TypeOK, Pcs, Routed
<1>3. VersionExplainsDecision
  BY DEF GatewayInv, DecisionsInv, Explained, VersionExplainsDecision
<1>4. StepDownNeedsHistory /\ RoutedWhereServed
  BY <1>1 DEF ReqInv, SteppedDown, Served, StepDownNeedsHistory, RoutedWhereServed
<1> QED BY <1>2, <1>3, <1>4 DEF DecisionsExplained

(* Every queued decision was made by the policy of the version it names,     *)
(* with a rule for its task or for all tasks, however often the policy was   *)
(* replaced while the request was classified; a session replaces a task      *)
(* only after a window of its requests, and a routed request goes where the  *)
(* upstream serves it.                                                       *)
THEOREM DecisionsAreExplained == Spec => []DecisionsExplained
  BY GatewayIsInvariant, GatewayExplains, PTL

-----------------------------------------------------------------------------
(* Whatever the interleaving of answers, streams, clients that leave and     *)
(* consumers, and whatever is sampled: the requests that are complete, and   *)
(* no others, have one event that is queued, one the writer took, or one     *)
(* drop that was counted, and at most one sample.                            *)
THEOREM CapturesAreExact == Spec => []CapturesExact
<1>1. GatewayInv => CapturesExact
  <2> SUFFICES ASSUME GatewayInv PROVE CapturesExact
    OBVIOUS
  <2>1. CaptureInv /\ SamplesInv
    BY DEF GatewayInv
  <2>2. /\ \A i \in DOMAIN events : events[i] \in Requests
        /\ \A i \in DOMAIN samples : samples[i] \in Requests
    BY <2>1 DEF CaptureInv, SamplesInv
  <2> DEFINE queued == {events[i] : i \in DOMAIN events}
             complete == {r \in Requests : req[r].pc = "done"}
  <2>3. queued \cap written = {} /\ queued \cap drops = {} /\ written \cap drops = {}
    BY <2>1 DEF CaptureInv
  <2>4. queued \cup written \cup drops \subseteq complete
    BY <2>1, <2>2 DEF CaptureInv, IsDone
  <2>5. complete \subseteq queued \cup written \cup drops
    BY <2>1 DEF CaptureInv, IsDone
  <2>6. \A i \in DOMAIN samples : samples[i] \in complete
    BY <2>1, <2>2 DEF CaptureInv, IsDone
  <2> QED BY <2>1, <2>3, <2>4, <2>5, <2>6 DEF CaptureInv, CapturesExact
<1> QED BY <1>1, GatewayIsInvariant, PTL

(* A request that is being classified changes only by being routed.          *)
LEMMA OnlyRouting ==
  ASSUME GatewayInv, [Next]_vars, NEW r \in Requests, req[r].pc = "classifying"
  PROVE  \/ req'[r] = req[r] /\ req[r].decision = NoDecision
         \/ \E a \in Answers, t \in TaskNames : RoutedTo(r, a, t)
<1>0. DOMAIN req = Requests /\ req[r].decision = NoDecision
  BY DEF GatewayInv, ReqsInv, ReqInv
<1>1. ASSUME NEW s \in Requests, NEW p \in Profiles, Arrive(s, p) PROVE req'[r] = req[r]
  <2>1. req[s].pc = "new" /\ \E q : req' = [req EXCEPT ![s] = q]
    BY <1>1, Zenon DEF Arrive
  <2> QED BY <1>0, <2>1
<1>2. ASSUME NEW s \in Requests, NEW a \in Answers, NEW ph \in DOMAIN Representative,
             NEW t \in {a.task, Representative[ph]}, Route(s, a, ph, t)
      PROVE  req'[r] = req[r] \/ RoutedTo(r, a, t)
  BY <1>2, RouteIs DEF RoutedTo, GatewayInv
<1>3. ASSUME NEW s \in Requests,
             \/ AnswerComes(s) \/ StreamGoesOn(s) \/ Unreachable(s)
             \/ \E sampled \in BOOLEAN : Captured(s, sampled)
      PROVE  req'[r] = req[r]
  <2>1. /\ req[s].pc \in Routed
        /\ \A x \in Requests : x # s => req'[x] = req[x]
    BY <1>3, OnwardKeeps
  <2> QED BY <2>1 DEF Routed
<1>6. CASE Change \/ Drain \/ (\E s \in Sessions : Prune(s)) \/ UNCHANGED vars
  BY <1>0, <1>6, ChangeKeeps
<1>7. ASSUME NEW a \in Answers, NEW ph \in DOMAIN Representative,
             NEW t \in {a.task, Representative[ph]}
      PROVE  t \in TaskNames
  BY DEF TaskNames
<1> QED BY <1>0, <1>1, <1>2, <1>3, <1>6, <1>7, GatewayStep DEF GatewaySteps

LEMMA ChosenWell ==
  ASSUME GatewayInv, NEW r \in Requests, NEW a, NEW t, RoutedTo(r, a, t),
         req'[r].decision.kind = "best"
  PROVE  LET rule == req[r].policy.rules[req'[r].decision.rule] IN
         /\ rule \in Rule
         /\ \E e \in entries :
              /\ Qualifies(e, EffectiveRule(rule, t, req[r].profile.model, a.confidence,
                                            Tier1Confidence),
                           t, req[r].profile.tools, Allowed(req[r].profile))
              /\ req'[r].model = e.model
<1>o. PICK o : o = req[r]
  OBVIOUS
<1>d. PICK d : d = req'[r].decision
  OBVIOUS
<1>1. /\ Decided(d, o, a, t) /\ req'[r].model = d.model /\ o.policy \in Policies
      /\ d.kind = "best"
  BY <1>o, <1>d DEF RoutedTo
<1>2. IsPolicy(o.policy)
  BY <1>1, RoutingAssumption DEF IsPolicy
<1>3. d = Resolve(t, o.profile.model, entries, o.policy, o.profile.tools,
                  Allowed(o.profile), a.confidence, Tier1Confidence)
  <2>1. ASSUME d = [model |-> o.profile.model, kind |-> "low confidence", rule |-> 0]
        PROVE  FALSE
    <3>1. d.kind = "low confidence"
      BY <2>1, Zenon
    <3>2. "low confidence" # "best"
      OBVIOUS
    <3> QED BY <1>1, <3>1, <3>2, Zenon
  <2> QED BY <1>1, <2>1, Zenon DEF Decided
<1>4. Outcome(d, t, o.profile.model, entries, o.policy, o.profile.tools,
              Allowed(o.profile), a.confidence, Tier1Confidence)
  BY <1>2, <1>3, ResolveOutcome
<1>5. /\ d.rule \in MatchingRules(t, o.policy)
      /\ \E e \in entries :
           /\ Qualifies(e, EffectiveRule(o.policy.rules[d.rule], t, o.profile.model,
                                         a.confidence, Tier1Confidence),
                        t, o.profile.tools, Allowed(o.profile))
           /\ d.model = e.model
  BY <1>1, <1>4 DEF Outcome
<1>6. o.policy.rules[d.rule] \in Rule
  BY <1>2, <1>5 DEF MatchingRules, IsPolicy
<1> QED BY <1>o, <1>d, <1>1, <1>5, <1>6

LEMMA BestStep ==
  ASSUME GatewayInv, [Next]_vars, NEW r \in Requests,
         req[r].pc = "classifying", req'[r].decision.kind = "best"
  PROVE  /\ \E e \in entries : /\ e.model = req'[r].model /\ e.task = req'[r].task
                               /\ e.quality >= QualityFloor
         /\ req[r].profile.tools => Catalog[req'[r].model].tools
         /\ (/\ Known(req[r].profile.model) /\ Catalog[req[r].profile.model].tier = 1
             /\ req'[r].task \in HardTasks
             /\ req'[r].answer.confidence >= Tier1Confidence
             /\ req[r].policy.rules[req'[r].decision.rule].task # CatchAll) =>
              \E e \in entries : /\ e.model = req'[r].model /\ e.task = req'[r].task
                                 /\ e.quality >= 85
<1>1. PICK a \in Answers, t \in TaskNames : RoutedTo(r, a, t)
  BY OnlyRouting DEF NoDecision
<1>2. req'[r].answer = a /\ req'[r].task = t
  BY <1>1 DEF RoutedTo
<1>r. PICK rule : rule = req[r].policy.rules[req'[r].decision.rule]
  OBVIOUS
<1>s. PICK sharp :
        sharp = EffectiveRule(rule, t, req[r].profile.model, a.confidence, Tier1Confidence)
  OBVIOUS
<1>3. /\ rule \in Rule
      /\ \E e \in entries : /\ Qualifies(e, sharp, t, req[r].profile.tools, Allowed(req[r].profile))
                            /\ req'[r].model = e.model
  BY <1>1, <1>r, <1>s, ChosenWell
<1>4. PICK e \in entries : /\ Qualifies(e, sharp, t, req[r].profile.tools, Allowed(req[r].profile))
                           /\ req'[r].model = e.model
  BY <1>3
<1>5. entries \subseteq Entry
  BY RoutingAssumption DEF GatewayInv, SettingsInv
<1>6. /\ e.task = t /\ e.quality >= MaxTwo(sharp.minQuality, QualityFloor)
      /\ req[r].profile.tools => Catalog[e.model].tools
  BY <1>4 DEF Qualifies
<1>7. e.quality \in Nat /\ sharp.minQuality \in Nat
  BY <1>3, <1>5, <1>s, Sharpened DEF Entry
<1>8. e.quality >= QualityFloor /\ e.quality >= sharp.minQuality
  BY <1>6, <1>7 DEF MaxTwo, QualityFloor
<1>9. (/\ Known(req[r].profile.model) /\ Catalog[req[r].profile.model].tier = 1
       /\ t \in HardTasks /\ a.confidence >= Tier1Confidence
       /\ rule.task # CatchAll) => sharp.minQuality >= 85
  BY <1>3, <1>s, Sharpened
<1>10. sharp.minQuality >= 85 => e.quality >= 85
  BY <1>7, <1>8
<1> QED BY <1>2, <1>r, <1>4, <1>6, <1>8, <1>9, <1>10

(* A confidence matters to the engine only by reaching the threshold.        *)
AsConfident(task, requested, entriesOf, policyOf, tools, allowed, confidence, tier1) ==
    Resolve(task, requested, entriesOf, policyOf, tools, allowed, confidence, tier1)
      = Resolve(task, requested, entriesOf, policyOf, FALSE, allowed, 100, tier1)
LEMMA ConfidenceThreshold ==
  ASSUME NEW task, NEW requested, NEW entriesOf, NEW policyOf, NEW tools, ~tools, NEW allowed,
         NEW confidence \in 0 .. 100, NEW tier1 \in 0 .. 100, confidence >= tier1
  PROVE  AsConfident(task, requested, entriesOf, policyOf, tools, allowed, confidence, tier1)
<1>m. PICK matching : matching = MatchingRules(task, policyOf)
  OBVIOUS
<1>i. PICK i : i = MinOf(matching)
  OBVIOUS
<1>r. PICK rule : rule = EffectiveRule(policyOf.rules[i], task, requested, confidence, tier1)
  OBVIOUS
<1>1. rule = EffectiveRule(policyOf.rules[i], task, requested, 100, tier1)
  <2>1. confidence >= tier1 /\ 100 >= tier1
    OBVIOUS
  <2> QED BY <1>r, <2>1 DEF EffectiveRule
<1>b. PICK best :
        best = ApplyCriteria(rule, {e \in entriesOf : Qualifies(e, rule, task, tools, allowed)})
  OBVIOUS
<1>2. best = ApplyCriteria(rule, {e \in entriesOf : Qualifies(e, rule, task, FALSE, allowed)})
  <2>1. {e \in entriesOf : Qualifies(e, rule, task, tools, allowed)}
          = {e \in entriesOf : Qualifies(e, rule, task, FALSE, allowed)}
    BY DEF Qualifies
  <2> QED BY <1>b, <2>1
<1>e. PICK d : d = (
          IF policyOf.rules = <<>> THEN [model |-> requested, kind |-> "empty policy", rule |-> 0]
          ELSE IF matching = {} THEN [model |-> requested, kind |-> "no rule", rule |-> 0]
          ELSE IF best = {} \/ entriesOf = {}
               THEN [model |-> Fallback(rule, requested, allowed), kind |-> "fallback", rule |-> i]
          ELSE [model |-> (CHOOSE e \in best : TRUE).model, kind |-> "best", rule |-> i])
  OBVIOUS
<1>3. d = Resolve(task, requested, entriesOf, policyOf, tools, allowed, confidence, tier1)
  BY <1>m, <1>i, <1>r, <1>b, <1>e DEF Resolve
<1>4. d = Resolve(task, requested, entriesOf, policyOf, FALSE, allowed, 100, tier1)
  BY <1>m, <1>i, <1>1, <1>2, <1>e DEF Resolve
<1> QED BY <1>3, <1>4 DEF AsConfident

Replayed(call, entriesOf, policyOf, tier1, d) ==
    DryRun(<<call>>, entriesOf, policyOf, tier1)[1]
      = [model |-> d.model, cost |-> RoutedCost(call, d.model),
         affected |-> d.model # call.model]
LEMMA ReplayOne ==
  ASSUME NEW call, NEW entriesOf, NEW policyOf, NEW tier1, NEW d,
         d = Resolve(call.task, call.model, entriesOf, policyOf, FALSE, Models, 100, tier1)
  PROVE  Replayed(call, entriesOf, policyOf, tier1, d)
<1>c. PICK calls : calls = <<call>>
  OBVIOUS
<1>1. 1 \in DOMAIN calls /\ calls[1] = call
  BY <1>c
<1>2. DryRun(calls, entriesOf, policyOf, tier1)[1]
        = LET w == Resolve(calls[1].task, calls[1].model, entriesOf, policyOf, FALSE,
                           Models, 100, tier1)
          IN  [model |-> w.model, cost |-> RoutedCost(calls[1], w.model),
               affected |-> w.model # calls[1].model]
  BY <1>1, Zenon DEF DryRun
<1> QED BY <1>c, <1>1, <1>2, Zenon DEF Replayed

LEMMA ReplayStep ==
  ASSUME GatewayInv, [Next]_vars, NEW r \in Requests,
         req[r].pc = "classifying", req'[r].pc = "sending",
         req[r].profile.endpoint = "chat", ~req[r].profile.tools,
         req'[r].answer.confidence >= MaxTwo(Confident, Tier1Confidence),
         NEW call, call = [task |-> req'[r].task, model |-> req[r].profile.model, cost |-> 10],
         NEW replay,
         replay = DryRun(<<call>>, entries, req[r].policy, Tier1Confidence)[1]
  PROVE  /\ replay.model = req'[r].model
         /\ replay.affected <=> req'[r].model # req[r].profile.model
<1>1. PICK a \in Answers, t \in TaskNames : RoutedTo(r, a, t)
  BY OnlyRouting
<1>o. PICK o : o = req[r]
  OBVIOUS
<1>2. /\ req'[r].answer = a /\ req'[r].task = t /\ req'[r].model = req'[r].decision.model
      /\ Decided(req'[r].decision, o, a, t)
  BY <1>1, <1>o DEF RoutedTo
<1>3. a.confidence \in 0 .. 100 /\ Confident \in 0 .. 100 /\ Tier1Confidence \in 0 .. 100
  BY RoutingAssumption
<1>4. a.confidence >= Confident /\ a.confidence >= Tier1Confidence
  BY <1>2, <1>3 DEF MaxTwo
<1>5. Allowed(o.profile) = Models
  BY <1>o DEF Allowed
<1>6. req'[r].decision = Resolve(t, o.profile.model, entries, o.policy, o.profile.tools,
                                 Models, a.confidence, Tier1Confidence)
  <2>1. ~(a.confidence < Confident)
    BY <1>3, <1>4
  <2> QED BY <1>2, <1>5, <2>1, Zenon DEF Decided
<1>d. PICK d : d = Resolve(t, o.profile.model, entries, o.policy, FALSE, Models, 100,
                           Tier1Confidence)
  OBVIOUS
<1>7. req'[r].decision = d
  <2>1. ~o.profile.tools
    BY <1>o
  <2>2. Resolve(t, o.profile.model, entries, o.policy, o.profile.tools, Models,
                a.confidence, Tier1Confidence) = d
    <3>1. PICK c, tier : c = a.confidence /\ tier = Tier1Confidence
      OBVIOUS
    <3>2. c \in 0 .. 100 /\ tier \in 0 .. 100 /\ c >= tier
      BY <1>3, <1>4, <3>1
    <3>3. PICK tools : tools = o.profile.tools /\ ~tools
      BY <2>1
    <3>4. AsConfident(t, o.profile.model, entries, o.policy, tools, Models, c, tier)
      BY <3>2, <3>3, ConfidenceThreshold
    <3> QED BY <1>d, <3>1, <3>3, <3>4, Zenon DEF AsConfident
  <2> QED BY <1>6, <2>2, Zenon
<1>8. call.task = t /\ call.model = o.profile.model
  BY <1>2, <1>o
<1>9. replay = [model |-> d.model, cost |-> RoutedCost(call, d.model),
                affected |-> d.model # call.model]
  <2>1. DryRun(<<call>>, entries, o.policy, Tier1Confidence)[1]
          = [model |-> d.model, cost |-> RoutedCost(call, d.model),
             affected |-> d.model # call.model]
    <3>1. d = Resolve(call.task, call.model, entries, o.policy, FALSE, Models, 100,
                      Tier1Confidence)
      BY <1>d, <1>8, Zenon
    <3>2. Replayed(call, entries, o.policy, Tier1Confidence, d)
      BY <3>1, ReplayOne
    <3> QED BY <3>2, Zenon DEF Replayed
  <2>2. replay = DryRun(<<call>>, entries, o.policy, Tier1Confidence)[1]
    BY <1>o
  <2> QED BY <2>1, <2>2, Zenon
<1>10. replay.model = d.model /\ (replay.affected <=> d.model # call.model)
  <2>1. PICK cost, affected : /\ cost = RoutedCost(call, d.model)
                              /\ affected = (d.model # call.model)
    OBVIOUS
  <2>2. replay = [model |-> d.model, cost |-> cost, affected |-> affected]
    BY <1>9, <2>1, Zenon
  <2>3. replay.model = d.model /\ replay.affected = affected
    BY <2>2
  <2> QED BY <2>1, <2>3
<1> QED BY <1>2, <1>o, <1>7, <1>8, <1>10

(* Whatever the policies, the matrices and the answers of the classifier:    *)
(* the best candidate is above the quality floor and has the tools, a        *)
(* confident hard request for a frontier model gets what its rule sharpens   *)
(* to, and a dry run over the same data foretells the choice.                *)
THEOREM RulesAreHonoured == Spec => RulesHonoured
<1>1. ASSUME GatewayInv, [Next]_vars
      PROVE  [\A r \in Requests :
               (req[r].pc = "classifying" /\ req'[r].decision.kind = "best") =>
                 /\ \E e \in entries :
                      /\ e.model = req'[r].model /\ e.task = req'[r].task
                      /\ e.quality >= QualityFloor
                 /\ req[r].profile.tools => Catalog[req'[r].model].tools]_vars
  BY <1>1, BestStep
<1>2. ASSUME GatewayInv, [Next]_vars
      PROVE  [\A r \in Requests :
               LET q == req[r] IN
               (/\ q.pc = "classifying" /\ req'[r].decision.kind = "best"
                /\ Known(q.profile.model) /\ Catalog[q.profile.model].tier = 1
                /\ req'[r].task \in HardTasks
                /\ req'[r].answer.confidence >= Tier1Confidence
                /\ q.policy.rules[req'[r].decision.rule].task # CatchAll) =>
                  \E e \in entries : /\ e.model = req'[r].model /\ e.task = req'[r].task
                                      /\ e.quality >= 85]_vars
  BY <1>2, BestStep
<1>3. ASSUME GatewayInv, [Next]_vars
      PROVE  [\A r \in Requests :
               LET p == req[r].profile
                   call == [task |-> req'[r].task, model |-> p.model, cost |-> 10]
                   replay == DryRun(<<call>>, entries, req[r].policy, Tier1Confidence)[1]
               IN  (/\ req[r].pc = "classifying" /\ req'[r].pc = "sending"
                    /\ p.endpoint = "chat" /\ ~p.tools
                    /\ req'[r].answer.confidence >= MaxTwo(Confident, Tier1Confidence)) =>
                     /\ replay.model = req'[r].model
                     /\ replay.affected <=> req'[r].model # p.model]_vars
  BY <1>3, ReplayStep
<1> QED BY <1>1, <1>2, <1>3, GatewayIsInvariant, PTL
        DEF Spec, RulesHonoured, BestIsGoodEnough, FrontierPreserved, DryRunPredicts

-----------------------------------------------------------------------------
(* Conversations.                                                            *)
(* Sequences joined to one: what follows an element is what follows it in    *)
(* its own sequence, or the first of the next one.                           *)
FlatEquation(seqs, g) ==
  g = [i \in 1 .. Len(seqs) |-> IF i = 1 THEN seqs[i] ELSE g[i - 1] \o seqs[i]]

LEMMA FlatUnfold ==
  ASSUME NEW seqs, Len(seqs) # 0
  PROVE  FlattenSeq(seqs) = (CHOOSE g : FlatEquation(seqs, g))[Len(seqs)]
BY DEF FlattenSeq, FlatEquation

LEMMA FlatExists ==
  ASSUME NEW S, NEW seqs \in Seq(Seq(S))
  PROVE  \E g : FlatEquation(seqs, g)
<1> DEFINE N == Len(seqs)
           T == Seq(S)
           step == [n \in 1 .. N |-> [x \in T |-> x \o seqs[n]]]
<1>1. N \in Nat /\ \A n \in 1 .. N : seqs[n] \in T
  OBVIOUS
<1>2. /\ step \in [1 .. N -> [T -> T]]
      /\ \A n \in 1 .. N, x \in T : step[n][x] = x \o seqs[n]
  BY <1>1
<1>3. <<>> \in T
  OBVIOUS
<1> HIDE DEF step, T, N
<1>4. PICK f : IsOrbit(f, N, T, <<>>, step)
  BY <1>1, <1>2, <1>3, RecursionExists
<1>5. /\ f \in [0 .. N -> T] /\ f[0] = <<>>
      /\ \A n \in 1 .. N : f[n] = step[n][f[n - 1]]
  BY <1>4 DEF IsOrbit
<1>6. \A n \in 1 .. N : f[n - 1] \in T /\ f[n] = f[n - 1] \o seqs[n]
  <2> SUFFICES ASSUME NEW n \in 1 .. N  PROVE f[n - 1] \in T /\ f[n] = f[n - 1] \o seqs[n]
    OBVIOUS
  <2>1. n - 1 \in 0 .. N
    BY <1>1
  <2>2. f[n - 1] \in T /\ f[n] = step[n][f[n - 1]]
    BY <1>5, <2>1
  <2> QED BY <1>2, <2>2
<1> DEFINE g == [i \in 1 .. N |-> f[i]]
<1>7. ASSUME NEW i \in 1 .. N
      PROVE  g[i] = IF i = 1 THEN seqs[i] ELSE g[i - 1] \o seqs[i]
  <2>1. CASE i = 1
    <3>1. g[1] = f[0] \o seqs[1]
      <4>1. 1 \in 1 .. N /\ 1 - 1 = 0
        BY <2>1
      <4>2. f[1] = f[1 - 1] \o seqs[1]
        BY <1>6, <4>1
      <4> QED BY <4>1, <4>2
    <3>2. <<>> \o seqs[1] = seqs[1]
      BY <1>1, <2>1 DEF T
    <3> QED BY <1>5, <2>1, <3>1, <3>2
  <2>2. CASE i # 1
    <3>1. i - 1 \in 1 .. N
      BY <1>1, <2>2
    <3> QED BY <1>6, <2>2, <3>1
  <2> QED BY <2>1, <2>2
<1>8. g = [i \in 1 .. N |-> IF i = 1 THEN seqs[i] ELSE g[i - 1] \o seqs[i]]
  BY <1>7
<1> QED BY <1>8 DEF FlatEquation, N

(* The first m sequences joined.                                             *)
Behind(size, seqs, l, m, j, i, k, flat) ==
  /\ flat[j] = seqs[i][k]
  /\ \/ k < size[i] /\ j < l /\ flat[j + 1] = seqs[i][k + 1]
     \/ k = size[i] /\ i < m /\ j < l /\ flat[j + 1] = seqs[i + 1][1]
     \/ k = size[i] /\ i = m /\ j = l

Sizes(seqs) == [i \in DOMAIN seqs |-> Len(seqs[i])]
Joined(flat, seqs, m) ==
  /\ Len(flat) # 0 /\ Len(flat) \in Nat
  /\ \A j \in 1 .. Len(flat) : \E i \in 1 .. m : \E k \in 1 .. Sizes(seqs)[i] :
       Behind(Sizes(seqs), seqs, Len(flat), m, j, i, k, flat)
  /\ \A i \in 1 .. m : \A k \in 1 .. Sizes(seqs)[i] : \E j \in 1 .. Len(flat) : flat[j] = seqs[i][k]

LEMMA JoinedOne ==
  ASSUME NEW S, NEW seqs \in Seq(Seq(S)), Len(seqs) > 0, Len(seqs[1]) > 0
  PROVE  Joined(seqs[1], seqs, 1)
<1>1. 1 \in 1 .. Len(seqs) /\ seqs[1] \in Seq(S)
  OBVIOUS
<1>2. Len(seqs[1]) \in Nat \ {0}
  BY <1>1
<1>3. Sizes(seqs)[1] = Len(seqs[1])
  BY <1>1 DEF Sizes
<1>4. PICK p, s, size : p = Len(seqs[1]) /\ s = seqs[1] /\ size = Sizes(seqs)
  OBVIOUS
<1>5. \A j \in 1 .. p : Behind(size, seqs, p, 1, j, 1, j, s)
  BY <1>2, <1>3, <1>4 DEF Behind
<1>6. \A j \in 1 .. p : j \in 1 .. size[1] /\ 1 \in 1 .. 1
  BY <1>2, <1>3, <1>4
<1>7. \A i \in 1 .. 1 : i = 1
  OBVIOUS
<1>8. \A j \in 1 .. p : \E i \in 1 .. 1 : \E k \in 1 .. size[i] : Behind(size, seqs, p, 1, j, i, k, s)
  BY <1>5, <1>6
<1>9. \A i \in 1 .. 1 : \A k \in 1 .. size[i] : \E j \in 1 .. p : s[j] = seqs[i][k]
  BY <1>3, <1>4, <1>7
<1> QED BY <1>2, <1>4, <1>8, <1>9 DEF Joined

LEMMA PiecesAre ==
  ASSUME NEW S, NEW a \in Seq(S), NEW b \in Seq(S)
  PROVE  /\ a \o b \in Seq(S) /\ Len(a) \in Nat /\ Len(b) \in Nat
         /\ Len(a \o b) = Len(a) + Len(b)
         /\ \A j \in 1 .. Len(a) : (a \o b)[j] = a[j]
         /\ \A k \in 1 .. Len(b) : (a \o b)[Len(a) + k] = b[k]
OBVIOUS

LEMMA JoinedStep ==
  ASSUME NEW m \in Nat, NEW l \in Nat, NEW p \in Nat, l # 0, p # 0,
         NEW seqs, NEW size, size[m + 1] = p, NEW flat, NEW new,
         \A j \in 1 .. l : new[j] = flat[j],
         \A k \in 1 .. p : new[l + k] = seqs[m + 1][k],
         NEW j \in 1 .. l + p,
         \A h \in 1 .. l : \E i \in 1 .. m : \E k \in 1 .. size[i] :
           Behind(size, seqs, l, m, h, i, k, flat)
  PROVE  \E i \in 1 .. m + 1 : \E k \in 1 .. size[i] :
           Behind(size, seqs, l + p, m + 1, j, i, k, new)
<1>1. CASE j <= l
  <2>0. j \in 1 .. l
    BY <1>1
  <2>1. PICK i \in 1 .. m : \E k \in 1 .. size[i] : Behind(size, seqs, l, m, j, i, k, flat)
    BY <2>0
  <2>2. PICK k \in 1 .. size[i] : Behind(size, seqs, l, m, j, i, k, flat)
    BY <2>1
  <2>3. i \in 1 .. m + 1 /\ new[j] = flat[j] /\ j < l + p /\ i < m + 1
    BY <2>0
  <2>4. CASE j < l
    <3>1. j + 1 \in 1 .. l
      BY <2>0, <2>4
    <3>2. new[j + 1] = flat[j + 1]
      BY <3>1
    <3> QED BY <2>2, <2>3, <2>4, <3>2 DEF Behind
  <2>5. CASE j = l
    <3>1. 1 \in 1 .. p
      OBVIOUS
    <3>2. new[l + 1] = seqs[m + 1][1]
      BY <3>1
    <3>3. k = size[i] /\ i = m
      BY <2>2, <2>5 DEF Behind
    <3> QED BY <2>2, <2>3, <2>5, <3>2, <3>3 DEF Behind
  <2> QED BY <2>0, <2>4, <2>5
<1>2. CASE ~(j <= l)
  <2>1. PICK k \in 1 .. p : j = l + k
    <3>1. j - l \in 1 .. p /\ j = l + (j - l)
      BY <1>2
    <3> QED BY <3>1
  <2>2. new[j] = seqs[m + 1][k] /\ m + 1 \in 1 .. m + 1
    BY <2>1
  <2>3. CASE k < p
    <3>1. k + 1 \in 1 .. p /\ j + 1 = l + (k + 1) /\ j < l + p
      BY <2>1, <2>3
    <3>2. new[l + (k + 1)] = seqs[m + 1][k + 1]
      BY <3>1
    <3> QED BY <2>1, <2>2, <2>3, <3>1, <3>2 DEF Behind
  <2>4. CASE k = p
    BY <2>1, <2>2, <2>4 DEF Behind
  <2> QED BY <2>1, <2>3, <2>4
<1> QED BY <1>1, <1>2

LEMMA JoinedMore ==
  ASSUME NEW S, NEW seqs \in Seq(Seq(S)), NEW m \in 1 .. Len(seqs) - 1, Len(seqs[m + 1]) > 0,
         NEW flat \in Seq(S), Joined(flat, seqs, m)
  PROVE  Joined(flat \o seqs[m + 1], seqs, m + 1)
<1>1. seqs[m + 1] \in Seq(S) /\ m \in Nat
  OBVIOUS
<1>2. PICK l, p, new, size :
        /\ l = Len(flat) /\ p = Len(seqs[m + 1]) /\ new = flat \o seqs[m + 1]
        /\ size = Sizes(seqs)
  OBVIOUS
<1>3. /\ l \in Nat /\ p \in Nat /\ Len(new) = l + p
      /\ \A j \in 1 .. l : new[j] = flat[j]
      /\ \A k \in 1 .. p : new[l + k] = seqs[m + 1][k]
  BY <1>1, <1>2, PiecesAre
<1>4. l # 0 /\ p # 0
  BY <1>2 DEF Joined
<1>5. size[m + 1] = p
  BY <1>1, <1>2 DEF Sizes
<1>6. /\ \A j \in 1 .. l : \E i \in 1 .. m : \E k \in 1 .. size[i] :
           Behind(size, seqs, l, m, j, i, k, flat)
      /\ \A i \in 1 .. m : \A k \in 1 .. size[i] : \E j \in 1 .. l : flat[j] = seqs[i][k]
  BY <1>2 DEF Joined
<1>7. \A j \in 1 .. l + p : \E i \in 1 .. m + 1 : \E k \in 1 .. size[i] :
           Behind(size, seqs, l + p, m + 1, j, i, k, new)
  BY <1>1, <1>3, <1>4, <1>5, <1>6, JoinedStep
<1>8. ASSUME NEW i \in 1 .. m + 1, NEW k \in 1 .. size[i]
      PROVE  \E j \in 1 .. l + p : new[j] = seqs[i][k]
  <2>1. CASE i = m + 1
    <3>1. k \in 1 .. p
      BY <1>5, <2>1
    <3>2. l + k \in 1 .. l + p
      BY <1>3, <3>1
    <3>3. new[l + k] = seqs[i][k]
      BY <1>3, <2>1, <3>1
    <3> QED BY <3>2, <3>3
  <2>2. CASE i # m + 1
    <3>1. i \in 1 .. m
      BY <1>1, <2>2
    <3>2. PICK j \in 1 .. l : flat[j] = seqs[i][k]
      BY <1>6, <3>1
    <3>3. j \in 1 .. l + p /\ new[j] = seqs[i][k]
      BY <1>3, <3>2
    <3> QED BY <3>3
  <2> QED BY <2>1, <2>2
<1>9. l + p = Len(new) /\ l + p # 0 /\ l + p \in Nat
  BY <1>3, <1>4
<1>10. PICK q : q = l + p
  OBVIOUS
<1>11. Joined(new, seqs, m + 1)
  <2>1. q = Len(new) /\ q # 0 /\ q \in Nat
    BY <1>9, <1>10
  <2>2. /\ \A j \in 1 .. q : \E i \in 1 .. m + 1 : \E k \in 1 .. size[i] :
              Behind(size, seqs, q, m + 1, j, i, k, new)
        /\ \A i \in 1 .. m + 1 : \A k \in 1 .. size[i] : \E j \in 1 .. q : new[j] = seqs[i][k]
    BY <1>7, <1>8, <1>10
  <2> QED BY <1>2, <2>1, <2>2 DEF Joined
<1> QED BY <1>2, <1>11

LEMMA FlatIs ==
  ASSUME NEW S, NEW seqs \in Seq(Seq(S)), Len(seqs) > 0,
         \A i \in 1 .. Len(seqs) : Len(seqs[i]) > 0
  PROVE  FlattenSeq(seqs) \in Seq(S) /\ Joined(FlattenSeq(seqs), seqs, Len(seqs))
<1> DEFINE N == Len(seqs)
<1>1. PICK g : g = CHOOSE h : FlatEquation(seqs, h)
  OBVIOUS
<1>2. FlatEquation(seqs, g)
  BY <1>1, FlatExists
<1>3. FlattenSeq(seqs) = g[N]
  BY <1>1, FlatUnfold
<1>4. N \in Nat \ {0} /\ \A i \in 1 .. N : seqs[i] \in Seq(S) /\ Len(seqs[i]) > 0
  OBVIOUS
<1>5. /\ g[1] = seqs[1]
      /\ \A i \in 2 .. N : g[i] = g[i - 1] \o seqs[i]
  <2>1. \A i \in 1 .. N : g[i] = IF i = 1 THEN seqs[i] ELSE g[i - 1] \o seqs[i]
    BY <1>2, Zenon DEF FlatEquation
  <2> HIDE DEF N
  <2>2. 1 \in 1 .. N /\ \A i \in 2 .. N : i \in 1 .. N /\ i # 1
    BY <1>4
  <2> QED BY <2>1, <2>2
<1> HIDE DEF N
<1> DEFINE F == {n \in 0 .. N : n > 0 => g[n] \in Seq(S) /\ Joined(g[n], seqs, n)}
<1>6. 0 \in F
  BY <1>4
<1>7. ASSUME NEW n \in 1 .. N, n - 1 \in F
      PROVE  n \in F
  <2>1. CASE n = 1
    <3>1. Joined(seqs[1], seqs, 1) /\ seqs[1] \in Seq(S)
      BY <1>4, <2>1, JoinedOne DEF N
    <3> QED BY <1>5, <2>1, <3>1
  <2>2. CASE n # 1
    <3>1. PICK m : m = n - 1
      OBVIOUS
    <3>2. m \in 1 .. N - 1 /\ m + 1 = n /\ n \in 2 .. N
      BY <1>4, <2>2, <3>1
    <3>3. g[m] \in Seq(S) /\ Joined(g[m], seqs, m) /\ g[n] = g[m] \o seqs[m + 1]
      <4>1. m > 0 /\ m \in F
        BY <1>7, <3>1, <3>2
      <4>2. g[n] = g[n - 1] \o seqs[n]
        BY <1>5, <3>2
      <4> QED BY <3>1, <3>2, <4>1, <4>2
    <3>4. Joined(g[m] \o seqs[m + 1], seqs, m + 1)
      <4>1. m \in 1 .. Len(seqs) - 1 /\ Len(seqs[m + 1]) > 0
        BY <1>4, <3>2 DEF N
      <4> QED BY <3>3, <4>1, JoinedMore
    <3>5. g[m] \o seqs[m + 1] \in Seq(S)
      BY <1>4, <3>2, <3>3
    <3>6. g[n] \in Seq(S) /\ Joined(g[n], seqs, n)
      BY <3>2, <3>3, <3>4, <3>5
    <3> QED BY <3>6
  <2> QED BY <2>1, <2>2
<1>8. 0 .. N \subseteq F
  <2> HIDE DEF F
  <2> QED BY <1>4, <1>6, <1>7, RangeInduction
<1>9. N \in F
  BY <1>4, <1>8
<1> QED BY <1>3, <1>4, <1>9 DEF N

(* The messages of a history, and what is true of one the client may have.   *)
Forms == {"", "toolu", "call", "proxy"}
Kinds == {"text", "thinking", "tool_use", "tool_result"}
Blk == [kind : Kinds, n : Nat, id : Forms \X Nat]
Msgs == [role : {"user", "assistant"}, blocks : SUBSET Blk]

(* Calls come in order and are an assistant's; every answer names a call of  *)
(* the message before it, or one that was dropped with the oldest messages.  *)
CallsInOrder(ms) ==
  \A i, j \in 1 .. Len(ms) : \A b \in Of(ms[i], "tool_use"), c \in Of(ms[j], "tool_use") :
    /\ i < j => b.n < c.n
    /\ b.n = c.n => b = c
AnswersMatch(ms) ==
  /\ \A i \in 2 .. Len(ms) : \A r \in Of(ms[i], "tool_result") :
       \E c \in Of(ms[i - 1], "tool_use") : r.id = c.id /\ r.n = c.n
  /\ Len(ms) > 0 => \A r \in Of(ms[1], "tool_result") :
       \A i \in 1 .. Len(ms) : \A c \in Of(ms[i], "tool_use") : r.n < c.n
TurnsAlternate(ms) ==
  /\ Len(ms) > 0 => ms[1].role = "user"
  /\ \A i \in 1 .. Len(ms) - 1 : ms[i].role # ms[i + 1].role
  /\ \A i \in 1 .. Len(ms) :
       /\ Of(ms[i], "tool_use") # {} => ms[i].role = "assistant"
       /\ Of(ms[i], "tool_result") # {} => ms[i].role = "user"
NumberedUpTo(b, latest) == b.id[2] = b.n /\ b.id[1] \in {"toolu", "call"} /\ b.n \in 1 .. latest
History(ms, latest) ==
  /\ ms \in Seq(Msgs)
  /\ TurnsAlternate(ms) /\ CallsInOrder(ms) /\ AnswersMatch(ms)
  /\ \A i \in 1 .. Len(ms) : \A b \in Of(ms[i], "tool_use") : NumberedUpTo(b, latest)
  /\ \A i \in 1 .. Len(ms) : \A b \in Of(ms[i], "tool_result") : NumberedUpTo(b, latest)

(* Numbering anew keeps identifiers apart.                                   *)
LEMMA RanksDiffer ==
  ASSUME NEW F, IsFiniteSet(F), F \subseteq Forms \X Nat, NEW x \in F, NEW y \in F, x[2] < y[2]
  PROVE  /\ Cardinality({o \in F : o[2] <= x[2]}) \in Nat
         /\ Cardinality({o \in F : o[2] <= y[2]}) \in Nat
         /\ Cardinality({o \in F : o[2] <= x[2]}) < Cardinality({o \in F : o[2] <= y[2]})
<1> DEFINE A == {o \in F : o[2] <= x[2]}
           B == {o \in F : o[2] <= y[2]}
<1>0. \A o \in F : o[2] \in Nat
  OBVIOUS
<1>1. A \subseteq B /\ y \in B /\ y \notin A /\ B \subseteq F
  BY <1>0
<1>2. IsFiniteSet(B) /\ A # B
  BY <1>1, FS_Subset
<1> HIDE DEF A, B
<1>3. IsFiniteSet(A) /\ Cardinality(A) <= Cardinality(B) /\ Cardinality(B) # Cardinality(A)
  BY <1>1, <1>2, FS_Subset
<1>4. Cardinality(A) \in Nat /\ Cardinality(B) \in Nat
  BY <1>2, <1>3, FS_CardinalityType
<1>5. Cardinality(A) < Cardinality(B)
  BY <1>3, <1>4
<1> QED BY <1>4, <1>5 DEF A, B

(* What identifies the calls of a history can be renamed.                    *)
Apart(ids) ==
  /\ IsFiniteSet(ids) /\ ids \subseteq Forms \X Nat
  /\ \A x \in ids : x[1] \in {"toolu", "call"}
  /\ \A x, y \in ids : x[2] = y[2] => x = y

LEMMA RenamedApart ==
  ASSUME NEW ms, Apart(IdsOf(ms, "tool_use")),
         NEW x \in IdsOf(ms, "tool_use"), NEW y \in IdsOf(ms, "tool_use"),
         Renamed(ms, x) = Renamed(ms, y)
  PROVE  x = y
<1> DEFINE ids == IdsOf(ms, "tool_use")
           F == Foreign(ms)
<1>1. IsFiniteSet(F) /\ F \subseteq ids /\ \A z \in ids : z \in F <=> z[1] # "toolu"
  BY FS_Subset DEF Apart, Foreign
<1>2. F \subseteq Forms \X Nat /\ x[2] \in Nat /\ y[2] \in Nat
  BY <1>1 DEF Apart
<1> HIDE DEF F
<1>3. x \in F => Renamed(ms, x) = <<"proxy", Cardinality({o \in F : o[2] <= x[2]})>>
  BY DEF Renamed, F
<1>4. y \in F => Renamed(ms, y) = <<"proxy", Cardinality({o \in F : o[2] <= y[2]})>>
  BY DEF Renamed, F
<1>5. x \notin F => Renamed(ms, x) = x /\ x[1] = "toolu"
  BY <1>1 DEF Renamed, F
<1>6. y \notin F => Renamed(ms, y) = y /\ y[1] = "toolu"
  BY <1>1 DEF Renamed, F
<1>7. CASE x \in F /\ y \in F
  <2>1. PICK p, q : p = Cardinality({o \in F : o[2] <= x[2]}) /\ q = Cardinality({o \in F : o[2] <= y[2]})
    OBVIOUS
  <2>2. <<"proxy", p>> = <<"proxy", q>>
    BY <1>3, <1>4, <1>7, <2>1
  <2>3. p = q
    BY <2>2
  <2>4. ~(x[2] < y[2])
    <3> SUFFICES ASSUME x[2] < y[2]  PROVE FALSE
      OBVIOUS
    <3>1. p \in Nat /\ q \in Nat /\ p < q
      BY <1>1, <1>2, <1>7, <2>1, RanksDiffer
    <3> QED BY <2>3, <3>1
  <2>5. ~(y[2] < x[2])
    <3> SUFFICES ASSUME y[2] < x[2]  PROVE FALSE
      OBVIOUS
    <3>1. p \in Nat /\ q \in Nat /\ q < p
      BY <1>1, <1>2, <1>7, <2>1, RanksDiffer
    <3> QED BY <2>3, <3>1
  <2>6. x[2] = y[2]
    BY <1>2, <2>4, <2>5
  <2> QED BY <2>6 DEF Apart
<1>8. CASE x \in F /\ y \notin F
  <2>1. PICK p : y = <<"proxy", p>>
    BY <1>3, <1>6, <1>8
  <2> QED BY <1>6, <1>8, <2>1
<1>9. CASE x \notin F /\ y \in F
  <2>1. PICK p : x = <<"proxy", p>>
    BY <1>4, <1>5, <1>9
  <2> QED BY <1>5, <1>9, <2>1
<1>10. CASE x \notin F /\ y \notin F
  BY <1>5, <1>6, <1>10
<1> QED BY <1>7, <1>8, <1>9, <1>10

LEMMA RenamedTyped ==
  ASSUME NEW ms, Apart(IdsOf(ms, "tool_use")), NEW id \in Forms \X Nat
  PROVE  Renamed(ms, id) \in Forms \X Nat
<1> DEFINE F == Foreign(ms)
           A == {o \in F : o[2] <= id[2]}
<1>1. IsFiniteSet(F)
  BY FS_Subset DEF Apart, Foreign
<1>2. A \subseteq F
  OBVIOUS
<1> HIDE DEF A, F
<1>3. Cardinality(A) \in Nat
  BY <1>1, <1>2, FS_Subset, FS_CardinalityType
<1>4. <<"proxy", Cardinality(A)>> \in Forms \X Nat
  <2>1. PICK p \in Nat : p = Cardinality(A)
    BY <1>3
  <2>2. PICK form \in Forms : form = "proxy"
    BY DEF Forms
  <2>3. <<form, p>> \in Forms \X Nat
    OBVIOUS
  <2> QED BY <2>1, <2>2, <2>3
<1> QED BY <1>4 DEF Renamed, A, F

(* The calls of a history are apart, and each is one call.                   *)
LEMMA HistoryApart ==
  ASSUME NEW ms, NEW latest \in Nat, History(ms, latest)
  PROVE  /\ Apart(IdsOf(ms, "tool_use"))
         /\ \A b, c \in AllOf(ms, "tool_use") : b.id = c.id \/ b.n = c.n => b = c
<1>1. ms \in Seq(Msgs) /\ DOMAIN ms = 1 .. Len(ms)
  BY DEF History
<1>2. \A b \in AllOf(ms, "tool_use") :
        b \in Blk /\ b.id[2] = b.n /\ b.id[1] \in {"toolu", "call"} /\ b.n \in 1 .. latest
  <2> SUFFICES ASSUME NEW i \in 1 .. Len(ms), NEW b \in Of(ms[i], "tool_use")
               PROVE  b \in Blk /\ b.id[2] = b.n /\ b.id[1] \in {"toolu", "call"} /\ b.n \in 1 .. latest
    BY <1>1 DEF AllOf
  <2>1. ms[i] \in Msgs
    BY <1>1
  <2>2. b \in Blk
    BY <2>1 DEF Of, Msgs
  <2> QED BY <2>2 DEF History, NumberedUpTo
<1>3. \A b, c \in AllOf(ms, "tool_use") : b.n = c.n => b = c
  BY <1>1 DEF AllOf, History, CallsInOrder
<1>4. \A b, c \in AllOf(ms, "tool_use") : b.id = c.id => b.n = c.n
  BY <1>2
<1>5. IdsOf(ms, "tool_use") \subseteq {"toolu", "call"} \X (1 .. latest)
  <2> SUFFICES ASSUME NEW b \in AllOf(ms, "tool_use")  PROVE b.id \in {"toolu", "call"} \X (1 .. latest)
    BY DEF IdsOf, IdsIn
  <2>1. b.id \in Forms \X Nat
    BY <1>2 DEF Blk
  <2> QED BY <1>2, <2>1
<1>6. IsFiniteSet(IdsOf(ms, "tool_use"))
  <2>1. IsFiniteSet({"toolu", "call"})
    <3>1. IsFiniteSet({"toolu"} \cup {"call"})
      BY FS_Singleton, FS_AddElement
    <3>2. {"toolu"} \cup {"call"} = {"toolu", "call"}
      OBVIOUS
    <3> QED BY <3>1, <3>2
  <2>2. IsFiniteSet(1 .. latest)
    BY FS_Interval
  <2>3. IsFiniteSet({"toolu", "call"} \X (1 .. latest))
    BY <2>1, <2>2, FS_Product
  <2> QED BY <1>5, <2>3, FS_Subset
<1>7. IdsOf(ms, "tool_use") \subseteq Forms \X Nat
  BY <1>2 DEF IdsOf, IdsIn, Blk
<1>8. \A x \in IdsOf(ms, "tool_use") : x[1] \in {"toolu", "call"}
  BY <1>5
<1>9. \A x, y \in IdsOf(ms, "tool_use") : x[2] = y[2] => x = y
  <2> SUFFICES ASSUME NEW b \in AllOf(ms, "tool_use"), NEW c \in AllOf(ms, "tool_use"), b.id[2] = c.id[2]
               PROVE  b.id = c.id
    BY DEF IdsOf, IdsIn
  <2>1. b.n = c.n
    BY <1>2
  <2> QED BY <1>3, <2>1
<1> QED BY <1>3, <1>4, <1>6, <1>7, <1>8, <1>9 DEF Apart

(* What is kept of a history: its answers, and the calls they name.          *)
AnsweredNext(ms) ==
  \A i \in 1 .. Len(ms) : \A c \in Of(ms[i], "tool_use") :
    i + 1 \in 1 .. Len(ms) /\ \E r \in Of(ms[i + 1], "tool_result") : r.id = c.id
KeptOf(ms, kept) ==
  /\ kept \in Seq(Msgs) /\ Len(kept) = Len(ms)
  /\ \A i \in 1 .. Len(ms) :
       /\ kept[i].role = ms[i].role
       /\ Of(kept[i], "tool_result") = Of(ms[i], "tool_result")
       /\ Of(kept[i], "tool_use") = {c \in Of(ms[i], "tool_use") : c.id \in IdsOf(ms, "tool_result")}

LEMMA SanitizedIs ==
  ASSUME NEW ms \in Seq(Msgs), NEW target
  PROVE  /\ Sanitized(ms, target) \in Seq(Msgs) /\ Len(Sanitized(ms, target)) = Len(ms)
         /\ \A i \in 1 .. Len(ms) :
              /\ Sanitized(ms, target)[i].role = ms[i].role
              /\ Of(Sanitized(ms, target)[i], "tool_result") = Of(ms[i], "tool_result")
              /\ Of(Sanitized(ms, target)[i], "tool_use") = Of(ms[i], "tool_use")
<1>1. CASE target = "anthropic"
  BY <1>1 DEF Sanitized
<1>2. CASE target # "anthropic"
  <2> DEFINE new == [i \in 1 .. Len(ms) |-> [ms[i] EXCEPT !.blocks = {b \in @ : b.kind # "thinking"}]]
  <2>1. Sanitized(ms, target) = new /\ Len(ms) \in Nat
    BY <1>2 DEF Sanitized
  <2>2. ASSUME NEW i \in 1 .. Len(ms)
        PROVE  /\ new[i] \in Msgs /\ new[i].role = ms[i].role
               /\ new[i].blocks = {b \in ms[i].blocks : b.kind # "thinking"}
    <3>1. ms[i] \in Msgs
      OBVIOUS
    <3> QED BY <3>1 DEF Msgs
  <2> HIDE DEF new
  <2>3. new \in Seq(Msgs) /\ Len(new) = Len(ms)
    BY <2>1, <2>2 DEF new
  <2>4. \A i \in 1 .. Len(ms) : Of(new[i], "tool_result") = Of(ms[i], "tool_result")
    BY <2>2 DEF Of
  <2>5. \A i \in 1 .. Len(ms) : Of(new[i], "tool_use") = Of(ms[i], "tool_use")
    BY <2>2 DEF Of
  <2> QED BY <2>1, <2>2, <2>3, <2>4, <2>5
<1> QED BY <1>1, <1>2

LEMMA WithoutOrphansIs ==
  ASSUME NEW ms \in Seq(Msgs)
  PROVE  KeptOf(ms, WithoutOrphans(ms))
<1> DEFINE answered == IdsOf(ms, "tool_result")
           new == [i \in 1 .. Len(ms) |->
                     [ms[i] EXCEPT !.blocks = {b \in @ : b.kind = "tool_use" => b.id \in answered}]]
<1>1. WithoutOrphans(ms) = new /\ Len(ms) \in Nat
  BY DEF WithoutOrphans
<1> HIDE DEF answered
<1>2. ASSUME NEW i \in 1 .. Len(ms)
      PROVE  /\ new[i] \in Msgs /\ new[i].role = ms[i].role
             /\ new[i].blocks = {b \in ms[i].blocks : b.kind = "tool_use" => b.id \in answered}
  <2>1. ms[i] \in Msgs
    OBVIOUS
  <2> QED BY <2>1 DEF Msgs
<1> HIDE DEF new
<1>3. new \in Seq(Msgs) /\ Len(new) = Len(ms)
  BY <1>1, <1>2 DEF new
<1>4. \A i \in 1 .. Len(ms) : Of(new[i], "tool_result") = Of(ms[i], "tool_result")
  BY <1>2 DEF Of
<1>5. \A i \in 1 .. Len(ms) : Of(new[i], "tool_use") = {c \in Of(ms[i], "tool_use") : c.id \in answered}
  BY <1>2 DEF Of
<1> QED BY <1>1, <1>2, <1>3, <1>4, <1>5 DEF KeptOf, answered

LEMMA KeptIs ==
  ASSUME NEW ms \in Seq(Msgs), NEW target
  PROVE  KeptOf(ms, WithoutOrphans(Sanitized(ms, target)))
<1>1. PICK s : s = Sanitized(ms, target)
  OBVIOUS
<1>2. /\ s \in Seq(Msgs) /\ Len(s) = Len(ms)
      /\ \A i \in 1 .. Len(ms) :
           /\ s[i].role = ms[i].role
           /\ Of(s[i], "tool_result") = Of(ms[i], "tool_result")
           /\ Of(s[i], "tool_use") = Of(ms[i], "tool_use")
  BY <1>1, SanitizedIs
<1>3. KeptOf(s, WithoutOrphans(s))
  BY <1>2, WithoutOrphansIs
<1>4. IdsOf(s, "tool_result") = IdsOf(ms, "tool_result")
  <2>1. DOMAIN s = 1 .. Len(ms) /\ DOMAIN ms = 1 .. Len(ms)
    BY <1>2
  <2>2. AllOf(s, "tool_result") = AllOf(ms, "tool_result")
    BY <1>2, <2>1 DEF AllOf
  <2> QED BY <2>2 DEF IdsOf
<1> QED BY <1>1, <1>2, <1>3, <1>4 DEF KeptOf

(* A call that is kept has its answer in the next message.                   *)
LEMMA KeptAnswered ==
  ASSUME NEW ms, NEW latest \in Nat, History(ms, latest), NEW kept, KeptOf(ms, kept)
  PROVE  AnsweredNext(kept)
<1>1. ms \in Seq(Msgs) /\ DOMAIN ms = 1 .. Len(ms) /\ Len(ms) \in Nat /\ Len(kept) = Len(ms)
  BY DEF History, KeptOf
<1> SUFFICES ASSUME NEW i \in 1 .. Len(ms), NEW c \in Of(kept[i], "tool_use")
             PROVE  i + 1 \in 1 .. Len(ms) /\ \E r \in Of(kept[i + 1], "tool_result") : r.id = c.id
  BY <1>1 DEF AnsweredNext
<1>2. c \in Of(ms[i], "tool_use") /\ c.id \in IdsOf(ms, "tool_result")
  BY DEF KeptOf
<1>3. PICK j \in 1 .. Len(ms) : \E r \in Of(ms[j], "tool_result") : r.id = c.id
  BY <1>1, <1>2 DEF IdsOf, IdsIn, AllOf
<1>4. PICK r \in Of(ms[j], "tool_result") : r.id = c.id
  BY <1>3
<1>5. r.n = c.n /\ c.n \in Nat
  BY <1>2, <1>4 DEF History, NumberedUpTo
<1>6. j # 1
  <2> SUFFICES ASSUME j = 1  PROVE FALSE
    OBVIOUS
  <2>1. r.n < c.n
    BY <1>1, <1>2, <1>4 DEF History, AnswersMatch
  <2> QED BY <1>5, <2>1
<1>7. j \in 2 .. Len(ms) /\ j - 1 \in 1 .. Len(ms)
  BY <1>1, <1>6
<1>8. PICK d \in Of(ms[j - 1], "tool_use") : r.id = d.id /\ r.n = d.n
  BY <1>7 DEF History, AnswersMatch
<1>9. ~(i < j - 1) /\ ~(j - 1 < i)
  <2>1. d.n = c.n
    BY <1>5, <1>8
  <2>2. i < j - 1 => c.n < d.n
    BY <1>2, <1>7, <1>8 DEF History, CallsInOrder
  <2>3. j - 1 < i => d.n < c.n
    BY <1>2, <1>7, <1>8 DEF History, CallsInOrder
  <2> QED BY <1>5, <2>1, <2>2, <2>3
<1>10. j = i + 1
  BY <1>1, <1>9
<1>11. r \in Of(kept[i + 1], "tool_result")
  BY <1>4, <1>10 DEF KeptOf
<1> QED BY <1>4, <1>10, <1>11

(* What is kept is a history as well.                                        *)
LEMMA KeptHistory ==
  ASSUME NEW ms, NEW latest \in Nat, History(ms, latest), NEW kept, KeptOf(ms, kept)
  PROVE  History(kept, latest)
<1>1. ms \in Seq(Msgs) /\ DOMAIN ms = 1 .. Len(ms) /\ Len(ms) \in Nat
      /\ kept \in Seq(Msgs) /\ Len(kept) = Len(ms)
  BY DEF History, KeptOf
<1>2. \A i \in 1 .. Len(ms) :
        /\ kept[i].role = ms[i].role
        /\ Of(kept[i], "tool_result") = Of(ms[i], "tool_result")
        /\ Of(kept[i], "tool_use") \subseteq Of(ms[i], "tool_use")
  BY DEF KeptOf
<1>3. TurnsAlternate(kept)
  <2>1. Len(ms) > 0 => ms[1].role = "user" /\ kept[1].role = ms[1].role
    <3>1. Len(ms) > 0 => 1 \in 1 .. Len(ms)
      BY <1>1
    <3> QED BY <1>2, <3>1 DEF History, TurnsAlternate
  <2>2. \A i \in 1 .. Len(ms) - 1 : kept[i].role # kept[i + 1].role
    <3>1. \A i \in 1 .. Len(ms) - 1 : i \in 1 .. Len(ms) /\ i + 1 \in 1 .. Len(ms)
      BY <1>1
    <3> QED BY <1>2, <3>1 DEF History, TurnsAlternate
  <2>3. \A i \in 1 .. Len(ms) :
          /\ Of(kept[i], "tool_use") # {} => kept[i].role = "assistant"
          /\ Of(kept[i], "tool_result") # {} => kept[i].role = "user"
    BY <1>2 DEF History, TurnsAlternate
  <2> QED BY <1>1, <2>1, <2>2, <2>3 DEF TurnsAlternate
<1>4. CallsInOrder(kept)
  BY <1>1, <1>2 DEF History, CallsInOrder
<1>5. AnswersMatch(kept)
  <2>1. ASSUME NEW i \in 2 .. Len(ms), NEW r \in Of(kept[i], "tool_result")
        PROVE  \E c \in Of(kept[i - 1], "tool_use") : r.id = c.id /\ r.n = c.n
    <3>1. i \in 1 .. Len(ms) /\ i - 1 \in 1 .. Len(ms) /\ r \in Of(ms[i], "tool_result")
      BY <1>1, <1>2
    <3>2. PICK c \in Of(ms[i - 1], "tool_use") : r.id = c.id /\ r.n = c.n
      BY <3>1 DEF History, AnswersMatch
    <3>3. c.id \in IdsOf(ms, "tool_result")
      BY <1>1, <3>1, <3>2 DEF IdsOf, IdsIn, AllOf
    <3>4. c \in Of(kept[i - 1], "tool_use")
      BY <3>1, <3>2, <3>3 DEF KeptOf
    <3> QED BY <3>2, <3>4
  <2>2. ASSUME Len(ms) > 0, NEW r \in Of(kept[1], "tool_result"),
               NEW i \in 1 .. Len(ms), NEW c \in Of(kept[i], "tool_use")
        PROVE  r.n < c.n
    <3>1. 1 \in 1 .. Len(ms)
      BY <1>1
    <3> QED BY <1>2, <2>2, <3>1 DEF History, AnswersMatch
  <2> QED BY <1>1, <2>1, <2>2 DEF AnswersMatch
<1> QED BY <1>1, <1>2, <1>3, <1>4, <1>5 DEF History

(* The identifiers written anew: the same messages with other names.         *)
Anew(ms, b) == [b EXCEPT !.id = Renamed(ms, b.id)]
LEMMA NormalizedIs ==
  ASSUME NEW ms \in Seq(Msgs), Apart(IdsOf(ms, "tool_use"))
  PROVE  /\ Normalized(ms) \in Seq(Msgs) /\ Len(Normalized(ms)) = Len(ms)
         /\ \A i \in 1 .. Len(ms) : Normalized(ms)[i].role = ms[i].role
         /\ \A i \in 1 .. Len(ms), kind \in Kinds :
              Of(Normalized(ms)[i], kind) = {Anew(ms, b) : b \in Of(ms[i], kind)}
<1> DEFINE new == [i \in 1 .. Len(ms) |-> [ms[i] EXCEPT !.blocks = {Anew(ms, b) : b \in ms[i].blocks}]]
<1>1. Normalized(ms) = new /\ Len(ms) \in Nat
  BY DEF Normalized, Anew
<1>2. ASSUME NEW b \in Blk
      PROVE  Anew(ms, b) \in Blk /\ Anew(ms, b).kind = b.kind
  <2>1. Renamed(ms, b.id) \in Forms \X Nat
    BY RenamedTyped DEF Blk
  <2> QED BY <2>1 DEF Anew, Blk
<1>3. ASSUME NEW i \in 1 .. Len(ms)
      PROVE  /\ new[i] \in Msgs /\ new[i].role = ms[i].role
             /\ new[i].blocks = {Anew(ms, b) : b \in ms[i].blocks}
             /\ ms[i].blocks \subseteq Blk
  <2>1. ms[i] \in Msgs
    OBVIOUS
  <2>2. {Anew(ms, b) : b \in ms[i].blocks} \in SUBSET Blk
    BY <1>2, <2>1 DEF Msgs
  <2>3. PICK made \in SUBSET Blk : made = {Anew(ms, b) : b \in ms[i].blocks}
    BY <2>2
  <2>4. new[i] = [ms[i] EXCEPT !.blocks = made]
    BY <2>3
  <2> QED BY <2>1, <2>3, <2>4 DEF Msgs
<1> HIDE DEF new
<1>4. new \in Seq(Msgs) /\ Len(new) = Len(ms)
  BY <1>1, <1>3 DEF new
<1>5. ASSUME NEW i \in 1 .. Len(ms), NEW kind \in Kinds
      PROVE  Of(new[i], kind) = {Anew(ms, b) : b \in Of(ms[i], kind)}
  BY <1>2, <1>3 DEF Of
<1> QED BY <1>1, <1>3, <1>4, <1>5

(* What leaves the repair, before and after messages are split.              *)
Fit(ms) ==
  /\ ms \in Seq(Msgs) /\ TurnsAlternate(ms) /\ AnsweredNext(ms)
  /\ \A b, c \in AllOf(ms, "tool_use") : b.id = c.id => b.n = c.n
AnswersNamed(ms) == IdsOf(ms, "tool_result") \subseteq IdsOf(ms, "tool_use")

LEMMA NormalizedFit ==
  ASSUME NEW ms, NEW latest \in Nat, History(ms, latest), AnsweredNext(ms)
  PROVE  /\ Fit(Normalized(ms)) /\ Len(Normalized(ms)) = Len(ms)
         /\ (Len(ms) > 0 => Of(ms[1], "tool_result") = {}) => AnswersNamed(Normalized(ms))
<1>1. PICK new : new = Normalized(ms)
  OBVIOUS
<1>2. ms \in Seq(Msgs) /\ DOMAIN ms = 1 .. Len(ms) /\ Len(ms) \in Nat
  BY DEF History
<1>3. Apart(IdsOf(ms, "tool_use")) /\ \A b, c \in AllOf(ms, "tool_use") : b.id = c.id \/ b.n = c.n => b = c
  BY HistoryApart
<1>4. /\ new \in Seq(Msgs) /\ Len(new) = Len(ms)
      /\ \A i \in 1 .. Len(ms) : new[i].role = ms[i].role
      /\ \A i \in 1 .. Len(ms), kind \in Kinds : Of(new[i], kind) = {Anew(ms, b) : b \in Of(ms[i], kind)}
  BY <1>1, <1>2, <1>3, NormalizedIs
<1>5. \A i \in 1 .. Len(ms) :
        /\ Of(new[i], "tool_use") = {Anew(ms, b) : b \in Of(ms[i], "tool_use")}
        /\ Of(new[i], "tool_result") = {Anew(ms, b) : b \in Of(ms[i], "tool_result")}
  BY <1>4 DEF Kinds
<1>6. \A i \in 1 .. Len(ms) : \A b : b \in Of(ms[i], "tool_use") \/ b \in Of(ms[i], "tool_result") =>
        b \in Blk /\ Anew(ms, b).id = Renamed(ms, b.id) /\ Anew(ms, b).n = b.n
  <2> SUFFICES ASSUME NEW i \in 1 .. Len(ms), NEW b, b \in Of(ms[i], "tool_use") \/ b \in Of(ms[i], "tool_result")
               PROVE  b \in Blk /\ Anew(ms, b).id = Renamed(ms, b.id) /\ Anew(ms, b).n = b.n
    OBVIOUS
  <2>1. b \in Blk
    <3>1. ms[i] \in Msgs
      BY <1>2
    <3> QED BY <3>1 DEF Of, Msgs
  <2> QED BY <2>1 DEF Anew, Blk
<1>7. TurnsAlternate(new)
  <2>1. Len(ms) > 0 => new[1].role = "user"
    <3>1. Len(ms) > 0 => 1 \in 1 .. Len(ms)
      BY <1>2
    <3> QED BY <1>4, <3>1 DEF History, TurnsAlternate
  <2>2. \A i \in 1 .. Len(ms) - 1 : new[i].role # new[i + 1].role
    <3>1. \A i \in 1 .. Len(ms) - 1 : i \in 1 .. Len(ms) /\ i + 1 \in 1 .. Len(ms)
      BY <1>2
    <3> QED BY <1>4, <3>1 DEF History, TurnsAlternate
  <2>3. ASSUME NEW i \in 1 .. Len(ms)
        PROVE  /\ Of(new[i], "tool_use") # {} => new[i].role = "assistant"
               /\ Of(new[i], "tool_result") # {} => new[i].role = "user"
    <3>1. Of(new[i], "tool_use") # {} => Of(ms[i], "tool_use") # {}
      BY <1>5
    <3>2. Of(new[i], "tool_result") # {} => Of(ms[i], "tool_result") # {}
      BY <1>5
    <3> QED BY <1>4, <3>1, <3>2 DEF History, TurnsAlternate
  <2> QED BY <1>4, <2>1, <2>2, <2>3 DEF TurnsAlternate
<1>8. AnsweredNext(new)
  <2> SUFFICES ASSUME NEW i \in 1 .. Len(ms), NEW c \in Of(new[i], "tool_use")
               PROVE  i + 1 \in 1 .. Len(ms) /\ \E r \in Of(new[i + 1], "tool_result") : r.id = c.id
    BY <1>4 DEF AnsweredNext
  <2>1. PICK b \in Of(ms[i], "tool_use") : c = Anew(ms, b)
    BY <1>5
  <2>2. PICK r \in Of(ms[i + 1], "tool_result") : r.id = b.id /\ i + 1 \in 1 .. Len(ms)
    BY DEF AnsweredNext
  <2>3. Anew(ms, r) \in Of(new[i + 1], "tool_result")
    BY <1>5, <2>2
  <2>4. Anew(ms, r).id = c.id
    BY <1>6, <2>1, <2>2
  <2> QED BY <2>2, <2>3, <2>4
<1>9. ASSUME NEW b \in AllOf(new, "tool_use"), NEW c \in AllOf(new, "tool_use"), b.id = c.id
      PROVE  b.n = c.n
  <2>1. DOMAIN new = 1 .. Len(ms)
    BY <1>4
  <2>2. PICK i \in 1 .. Len(ms) : \E x \in Of(ms[i], "tool_use") : b = Anew(ms, x)
    BY <1>5, <2>1 DEF AllOf
  <2>20. PICK x \in Of(ms[i], "tool_use") : b = Anew(ms, x)
    BY <2>2
  <2>3. PICK j \in 1 .. Len(ms) : \E y \in Of(ms[j], "tool_use") : c = Anew(ms, y)
    BY <1>5, <2>1 DEF AllOf
  <2>30. PICK y \in Of(ms[j], "tool_use") : c = Anew(ms, y)
    BY <2>3
  <2>4. x \in AllOf(ms, "tool_use") /\ y \in AllOf(ms, "tool_use")
    BY <1>2, <2>20, <2>30 DEF AllOf
  <2>5. x.id \in IdsOf(ms, "tool_use") /\ y.id \in IdsOf(ms, "tool_use")
    BY <2>4 DEF IdsOf, IdsIn
  <2>6. Renamed(ms, x.id) = Renamed(ms, y.id)
    BY <1>6, <1>9, <2>20, <2>30
  <2>7. x.id = y.id
    BY <1>3, <2>5, <2>6, RenamedApart
  <2>8. x = y
    BY <1>3, <2>4, <2>7
  <2> QED BY <2>20, <2>30, <2>8
<1>10. ASSUME Len(ms) > 0 => Of(ms[1], "tool_result") = {}
       PROVE  AnswersNamed(new)
  <2> SUFFICES ASSUME NEW r \in AllOf(new, "tool_result")
               PROVE  \E c \in AllOf(new, "tool_use") : c.id = r.id
    BY DEF AnswersNamed, IdsOf, IdsIn
  <2>1. DOMAIN new = 1 .. Len(ms)
    BY <1>4
  <2>2. PICK i \in 1 .. Len(ms) : \E x \in Of(ms[i], "tool_result") : r = Anew(ms, x)
    BY <1>5, <2>1 DEF AllOf
  <2>20. PICK x \in Of(ms[i], "tool_result") : r = Anew(ms, x)
    BY <2>2
  <2>3. i \in 2 .. Len(ms) /\ i - 1 \in 1 .. Len(ms)
    BY <1>2, <1>10
  <2>4. PICK y \in Of(ms[i - 1], "tool_use") : x.id = y.id
    BY <2>3, <2>20 DEF History, AnswersMatch
  <2>5. Anew(ms, y) \in Of(new[i - 1], "tool_use")
    BY <1>5, <2>3, <2>4
  <2>6. Anew(ms, y) \in AllOf(new, "tool_use")
    BY <2>1, <2>3, <2>5 DEF AllOf
  <2>7. Anew(ms, y).id = r.id
    BY <1>6, <2>20, <2>3, <2>4
  <2> QED BY <2>6, <2>7
<1> QED BY <1>1, <1>4, <1>7, <1>8, <1>9, <1>10 DEF Fit

(* Splitting a message: its results, then its other blocks.                  *)
LEMMA PartsAre ==
  ASSUME NEW m \in Msgs, Of(m, "tool_result") # {} => m.role = "user"
  PROVE  /\ Parts(m) \in Seq(Msgs) /\ Len(Parts(m)) \in {1, 2}
         /\ \A k \in 1 .. Len(Parts(m)) :
              Parts(m)[k].role = m.role /\ Parts(m)[k].blocks \subseteq m.blocks
         /\ \A b \in m.blocks : \E k \in 1 .. Len(Parts(m)) : b \in Parts(m)[k].blocks
         /\ m.role = "assistant" => Len(Parts(m)) = 1 /\ Parts(m)[1] = m
         /\ Of(m, "tool_result") # {} => Parts(m)[1].blocks = Of(m, "tool_result")
<1> DEFINE results == Of(m, "tool_result")
           rest == m.blocks \ results
<1>1. results \subseteq m.blocks /\ m.blocks \subseteq Blk
  BY DEF Of, Msgs
<1> HIDE DEF results
<1>2. CASE m.role # "user" \/ results = {} \/ rest = {}
  <2>1. Parts(m) = <<m>>
    BY <1>2 DEF Parts, results
  <2>2. results # {} => m.blocks = results
    BY <1>1, <1>2 DEF results
  <2>3. Len(Parts(m)) = 1 /\ Parts(m)[1] = m /\ Parts(m) \in Seq(Msgs)
    BY <2>1
  <2>4. 1 .. Len(Parts(m)) = {1}
    BY <2>3
  <2> QED BY <2>2, <2>3, <2>4 DEF results
<1>3. CASE ~(m.role # "user" \/ results = {} \/ rest = {})
  <2> DEFINE a == [role |-> "user", blocks |-> results]
             c == [role |-> "user", blocks |-> rest]
  <2>1. Parts(m) = <<a, c>>
    BY <1>3 DEF Parts, results
  <2>2. a \in Msgs /\ c \in Msgs
    BY <1>1 DEF Msgs
  <2>3. a.role = m.role /\ c.role = m.role /\ a.blocks = results /\ c.blocks = rest
    BY <1>3
  <2> HIDE DEF a, c
  <2>4. Len(Parts(m)) = 2 /\ Parts(m)[1] = a /\ Parts(m)[2] = c /\ Parts(m) \in Seq(Msgs)
    BY <2>1, <2>2
  <2>5. \A k \in 1 .. Len(Parts(m)) : k = 1 \/ k = 2
    BY <2>4
  <2>6. 1 \in 1 .. Len(Parts(m)) /\ 2 \in 1 .. Len(Parts(m))
    BY <2>4
  <2>7. \A b \in m.blocks : b \in a.blocks \/ b \in c.blocks
    BY <2>3
  <2>8. \A b \in m.blocks : \E k \in 1 .. Len(Parts(m)) : b \in Parts(m)[k].blocks
    BY <2>4, <2>6, <2>7
  <2>9. \A k \in 1 .. Len(Parts(m)) : Parts(m)[k].role = m.role /\ Parts(m)[k].blocks \subseteq m.blocks
    BY <1>1, <2>3, <2>4, <2>5
  <2> QED BY <1>3, <2>3, <2>4, <2>8, <2>9 DEF results
<1> QED BY <1>2, <1>3

(* The messages after the split: an answer with calls is followed by the     *)
(* results of these calls, in a message of their own.                        *)
Followed(ms) ==
  \A i \in 1 .. Len(ms) : Of(ms[i], "tool_use") # {} =>
    /\ ms[i].role = "assistant" /\ i + 1 \in 1 .. Len(ms)
    /\ ms[i + 1].role = "user" /\ ms[i + 1].blocks = Of(ms[i + 1], "tool_result")
    /\ IdsIn(Of(ms[i], "tool_use")) \subseteq IdsIn(Of(ms[i + 1], "tool_result"))

LEMMA SplitIs ==
  ASSUME NEW ms, Fit(ms), Len(ms) > 0
  PROVE  /\ Split(ms) \in Seq(Msgs) /\ Len(Split(ms)) \in Nat /\ Len(Split(ms)) # 0
         /\ \A kind \in Kinds : AllOf(Split(ms), kind) = AllOf(ms, kind)
         /\ Followed(Split(ms))
<1> DEFINE seqs == [i \in 1 .. Len(ms) |-> Parts(ms[i])]
           N == Len(ms)
<1>1. ms \in Seq(Msgs) /\ N \in Nat /\ DOMAIN ms = 1 .. N
  BY DEF Fit
<1>2. ASSUME NEW i \in 1 .. N
      PROVE  /\ ms[i] \in Msgs /\ seqs[i] = Parts(ms[i])
             /\ Of(ms[i], "tool_result") # {} => ms[i].role = "user"
             /\ Of(ms[i], "tool_use") # {} => ms[i].role = "assistant"
  BY <1>1 DEF Fit, TurnsAlternate
<1>3. \A i \in 1 .. N :
        /\ seqs[i] \in Seq(Msgs) /\ Len(seqs[i]) \in {1, 2}
        /\ \A k \in 1 .. Len(seqs[i]) :
             seqs[i][k].role = ms[i].role /\ seqs[i][k].blocks \subseteq ms[i].blocks
        /\ \A b \in ms[i].blocks : \E k \in 1 .. Len(seqs[i]) : b \in seqs[i][k].blocks
        /\ ms[i].role = "assistant" => Len(seqs[i]) = 1 /\ seqs[i][1] = ms[i]
        /\ Of(ms[i], "tool_result") # {} => seqs[i][1].blocks = Of(ms[i], "tool_result")
  BY <1>2, PartsAre
<1>4. PICK flat : flat = Split(ms)
  OBVIOUS
<1>5. flat = FlattenSeq(seqs)
  BY <1>1, <1>4 DEF Split
<1> HIDE DEF seqs, N
<1>6. seqs \in Seq(Seq(Msgs)) /\ Len(seqs) = N
  BY <1>1, <1>3 DEF seqs, N
<1>7. flat \in Seq(Msgs) /\ Joined(flat, seqs, N)
  <2>1. Len(seqs) > 0
    BY <1>6 DEF N
  <2>2. ASSUME NEW i \in 1 .. Len(seqs)  PROVE Len(seqs[i]) > 0
    <3>1. PICK n \in {1, 2} : n = Len(seqs[i])
      BY <1>3, <1>6
    <3>2. n > 0
      OBVIOUS
    <3> QED BY <3>1, <3>2
  <2> QED BY <1>5, <1>6, <2>1, <2>2, FlatIs
<1>8. PICK l, size : l = Len(flat) /\ size = Sizes(seqs)
  OBVIOUS
<1>9. /\ l \in Nat /\ l # 0
      /\ \A j \in 1 .. l : \E i \in 1 .. N : \E k \in 1 .. size[i] : Behind(size, seqs, l, N, j, i, k, flat)
      /\ \A i \in 1 .. N : \A k \in 1 .. size[i] : \E j \in 1 .. l : flat[j] = seqs[i][k]
  BY <1>7, <1>8 DEF Joined
<1>10. \A i \in 1 .. N : size[i] = Len(seqs[i])
  BY <1>6, <1>8 DEF Sizes
<1>11. DOMAIN flat = 1 .. l
  BY <1>7, <1>8
<1>12. ASSUME NEW kind \in Kinds
       PROVE  AllOf(flat, kind) = AllOf(ms, kind)
  <2>1. ASSUME NEW j \in 1 .. l, NEW b \in Of(flat[j], kind)
        PROVE  b \in AllOf(ms, kind)
    <3>1. PICK i \in 1 .. N : \E k \in 1 .. size[i] : Behind(size, seqs, l, N, j, i, k, flat)
      BY <1>9
    <3>2. PICK k \in 1 .. size[i] : flat[j] = seqs[i][k]
      BY <3>1 DEF Behind
    <3>3. flat[j].blocks \subseteq ms[i].blocks
      BY <1>3, <1>10, <3>2
    <3>4. b \in Of(ms[i], kind)
      BY <3>3 DEF Of
    <3> QED BY <1>1, <3>4 DEF AllOf
  <2>2. ASSUME NEW i \in 1 .. N, NEW b \in Of(ms[i], kind)
        PROVE  b \in AllOf(flat, kind)
    <3>1. PICK k \in 1 .. size[i] : b \in seqs[i][k].blocks
      BY <1>3, <1>10 DEF Of
    <3>2. PICK j \in 1 .. l : flat[j] = seqs[i][k]
      BY <1>9
    <3>3. b \in Of(flat[j], kind)
      BY <3>1, <3>2 DEF Of
    <3> QED BY <1>11, <3>3 DEF AllOf
  <2>3. AllOf(flat, kind) \subseteq AllOf(ms, kind)
    BY <1>11, <2>1 DEF AllOf
  <2>4. AllOf(ms, kind) \subseteq AllOf(flat, kind)
    BY <1>1, <2>2 DEF AllOf
  <2> QED BY <2>3, <2>4
<1>13. Followed(flat)
  <2> SUFFICES ASSUME NEW j \in 1 .. l, Of(flat[j], "tool_use") # {}
               PROVE  /\ flat[j].role = "assistant" /\ j + 1 \in 1 .. l
                      /\ flat[j + 1].role = "user" /\ flat[j + 1].blocks = Of(flat[j + 1], "tool_result")
                      /\ IdsIn(Of(flat[j], "tool_use")) \subseteq IdsIn(Of(flat[j + 1], "tool_result"))
    BY <1>8 DEF Followed
  <2>1. PICK i \in 1 .. N : \E k \in 1 .. size[i] : Behind(size, seqs, l, N, j, i, k, flat)
    BY <1>9
  <2>2. PICK k \in 1 .. size[i] : Behind(size, seqs, l, N, j, i, k, flat)
    BY <2>1
  <2>3. flat[j] = seqs[i][k]
    BY <2>2 DEF Behind
  <2>4. ms[i].role = "assistant" /\ Of(ms[i], "tool_use") # {}
    <3>1. flat[j].blocks \subseteq ms[i].blocks
      BY <1>3, <1>10, <2>3
    <3>2. Of(ms[i], "tool_use") # {}
      BY <3>1 DEF Of
    <3> QED BY <1>2, <3>2
  <2>5. size[i] = 1 /\ k = 1 /\ flat[j] = ms[i]
    <3>1. Len(seqs[i]) = 1 /\ seqs[i][1] = ms[i]
      BY <1>3, <2>4
    <3>2. size[i] = 1
      BY <1>10, <3>1
    <3>3. k = 1
      BY <3>2
    <3> QED BY <2>3, <3>1, <3>2, <3>3
  <2>6. i + 1 \in 1 .. N /\ \A c \in Of(ms[i], "tool_use") : \E r \in Of(ms[i + 1], "tool_result") : r.id = c.id
    BY <2>4 DEF Fit, AnsweredNext, N
  <2>7. Of(ms[i + 1], "tool_result") # {}
    BY <2>4, <2>6
  <2>8. j < l /\ flat[j + 1] = seqs[i + 1][1]
    <3>1. ~(k < size[i]) /\ i < N
      BY <1>1, <2>5, <2>6
    <3> QED BY <2>2, <3>1 DEF Behind
  <2>9. flat[j + 1].blocks = Of(ms[i + 1], "tool_result") /\ flat[j + 1].role = "user"
    <3>1. seqs[i + 1][1].blocks = Of(ms[i + 1], "tool_result")
      BY <1>3, <2>6, <2>7
    <3>2. 1 \in 1 .. Len(seqs[i + 1])
      BY <1>3, <2>6
    <3>3. seqs[i + 1][1].role = ms[i + 1].role /\ ms[i + 1].role = "user"
      BY <1>2, <1>3, <2>6, <2>7, <3>2
    <3> QED BY <2>8, <3>1, <3>3
  <2>10. Of(flat[j + 1], "tool_result") = Of(ms[i + 1], "tool_result")
    BY <2>9 DEF Of
  <2>11. IdsIn(Of(ms[i], "tool_use")) \subseteq IdsIn(Of(ms[i + 1], "tool_result"))
    BY <2>6 DEF IdsIn
  <2>12. j + 1 \in 1 .. l
    <3>1. l \in Nat /\ j < l
      BY <1>9, <2>8
    <3> QED BY <3>1
  <2>13. IdsIn(Of(flat[j], "tool_use")) \subseteq IdsIn(Of(flat[j + 1], "tool_result"))
    BY <2>5, <2>10, <2>11
  <2>14. flat[j].role = "assistant"
    BY <2>4, <2>5
  <2>15. flat[j + 1].blocks = Of(flat[j + 1], "tool_result")
    BY <2>9, <2>10
  <2> QED BY <2>9, <2>12, <2>13, <2>14, <2>15
<1> QED BY <1>4, <1>7, <1>8, <1>9, <1>12, <1>13

(* A conversion of each message, joined: uses are followed by their answers *)
(* if the form of an assistant's message is its uses alone and the form of  *)
(* a message of results begins with the tool messages.                       *)
Wire == [role : {"user", "assistant", "tool"}, ids : SUBSET (Forms \X Nat)]
Converts(m, form) ==
  /\ form \in Seq(Wire) /\ Len(form) > 0
  /\ \A k \in 1 .. Len(form) : form[k].role = "assistant" => Len(form) = 1 /\ form[k] = CallsOf(m)
  /\ Of(m, "tool_result") # {} /\ m.role = "user" /\ m.blocks = Of(m, "tool_result") =>
       form[1].role = "tool" /\ form[1].ids = IdsIn(Of(m, "tool_result"))

LEMMA JoinedAnswers ==
  ASSUME NEW ms \in Seq(Msgs), Len(ms) > 0, Followed(ms), NEW seqs, DOMAIN seqs = 1 .. Len(ms),
         seqs = [i \in 1 .. Len(ms) |-> seqs[i]],
         \A i \in 1 .. Len(ms) : Converts(ms[i], seqs[i])
  PROVE  CallsAreAnswered(FlattenSeq(seqs))
<1>1. PICK N : N = Len(ms)
  OBVIOUS
<1>2. N \in Nat /\ N > 0
  BY <1>1
<1>3. seqs \in Seq(Seq(Wire)) /\ Len(seqs) = N
  <2>1. \A i \in 1 .. N : seqs[i] \in Seq(Wire)
    BY <1>1 DEF Converts
  <2> QED BY <1>1, <1>2, <2>1
<1>4. \A i \in 1 .. Len(seqs) : Len(seqs[i]) > 0
  BY <1>1, <1>3 DEF Converts
<1>5. PICK flat : flat = FlattenSeq(seqs)
  OBVIOUS
<1>6. flat \in Seq(Wire) /\ Joined(flat, seqs, N)
  BY <1>2, <1>3, <1>4, <1>5, FlatIs
<1>7. PICK l, size : l = Len(flat) /\ size = Sizes(seqs)
  OBVIOUS
<1>8. /\ l \in Nat /\ l # 0
      /\ \A j \in 1 .. l : \E i \in 1 .. N : \E k \in 1 .. size[i] : Behind(size, seqs, l, N, j, i, k, flat)
  BY <1>6, <1>7 DEF Joined
<1>9. \A i \in 1 .. N : size[i] = Len(seqs[i])
  BY <1>1, <1>7 DEF Sizes
<1>10. DOMAIN flat = 1 .. l
  BY <1>6, <1>7
<1> SUFFICES ASSUME NEW j \in 1 .. l, flat[j].role = "assistant", flat[j].ids # {}
             PROVE  /\ j + 1 \in 1 .. l
                    /\ flat[j + 1].role = "tool" /\ flat[j].ids \subseteq flat[j + 1].ids
  BY <1>5, <1>10 DEF CallsAreAnswered
<1>11. PICK i \in 1 .. N : \E k \in 1 .. size[i] : Behind(size, seqs, l, N, j, i, k, flat)
  BY <1>8
<1>12. PICK k \in 1 .. size[i] : Behind(size, seqs, l, N, j, i, k, flat)
  BY <1>11
<1>13. flat[j] = seqs[i][k]
  BY <1>12 DEF Behind
<1>14. Converts(ms[i], seqs[i])
  BY <1>1
<1>15. size[i] = 1 /\ k = 1 /\ flat[j] = CallsOf(ms[i])
  <2>1. Len(seqs[i]) = 1 /\ seqs[i][k] = CallsOf(ms[i])
    BY <1>9, <1>13, <1>14 DEF Converts
  <2>2. size[i] = 1
    BY <1>9, <2>1
  <2> QED BY <1>13, <2>1, <2>2
<1>16. flat[j].ids = IdsIn(Of(ms[i], "tool_use"))
  BY <1>15 DEF CallsOf
<1>17. Of(ms[i], "tool_use") # {}
  BY <1>16 DEF IdsIn
<1>18. /\ i + 1 \in 1 .. N
       /\ ms[i + 1].role = "user" /\ ms[i + 1].blocks = Of(ms[i + 1], "tool_result")
       /\ IdsIn(Of(ms[i], "tool_use")) \subseteq IdsIn(Of(ms[i + 1], "tool_result"))
  BY <1>1, <1>17 DEF Followed
<1>19. Of(ms[i + 1], "tool_result") # {}
  BY <1>17, <1>18 DEF IdsIn
<1>20. j < l /\ flat[j + 1] = seqs[i + 1][1]
  <2>1. ~(k < size[i]) /\ i < N
    BY <1>2, <1>15, <1>18
  <2> QED BY <1>12, <2>1 DEF Behind
<1>21. Converts(ms[i + 1], seqs[i + 1])
  BY <1>1, <1>18
<1>22. flat[j + 1].role = "tool" /\ flat[j + 1].ids = IdsIn(Of(ms[i + 1], "tool_result"))
  BY <1>18, <1>19, <1>20, <1>21 DEF Converts
<1>23. j + 1 \in 1 .. l
  BY <1>8, <1>20
<1> QED BY <1>16, <1>18, <1>22, <1>23

(* Both conversions are such.                                                *)
LEMMA FormsAre ==
  ASSUME NEW m \in Msgs
  PROVE  /\ CallsOf(m) \in Wire /\ Plain("user") \in Wire
         /\ CallsOf(m).role = "assistant" /\ Plain("user").role = "user"
         /\ \E tool \in Wire :
              /\ tool.role = "tool" /\ tool.ids = IdsIn(Of(m, "tool_result"))
              /\ ToolMessages(m) = <<>> \/ ToolMessages(m) = <<tool>>
         /\ Of(m, "tool_result") # {} <=> ToolMessages(m) # <<>>
         /\ Says(m) = <<>> \/ Says(m) = <<Plain("user")>>
         /\ m.blocks = Of(m, "tool_result") => Says(m) = <<>>
<1>1. \A kind : IdsIn(Of(m, kind)) \in SUBSET (Forms \X Nat)
  BY DEF IdsIn, Of, Msgs, Blk
<1>2. PICK uses \in SUBSET (Forms \X Nat), results \in SUBSET (Forms \X Nat) :
        uses = IdsIn(Of(m, "tool_use")) /\ results = IdsIn(Of(m, "tool_result"))
  BY <1>1
<1>3. CallsOf(m) = [role |-> "assistant", ids |-> uses]
  BY <1>2 DEF CallsOf
<1>4. CallsOf(m) \in Wire /\ CallsOf(m).role = "assistant"
  BY <1>3 DEF Wire
<1>5. Plain("user") \in Wire /\ Plain("user").role = "user"
  BY DEF Plain, Wire
<1>6. PICK tool : tool = [role |-> "tool", ids |-> results]
  OBVIOUS
<1>7. tool \in Wire /\ tool.role = "tool" /\ tool.ids = results
  BY <1>6 DEF Wire
<1>8. ToolMessages(m) = IF Of(m, "tool_result") = {} THEN <<>> ELSE <<tool>>
  BY <1>2, <1>6 DEF ToolMessages
<1>9. /\ ToolMessages(m) = <<>> \/ ToolMessages(m) = <<tool>>
      /\ Of(m, "tool_result") # {} <=> ToolMessages(m) # <<>>
  BY <1>8
<1>10. m.blocks = Of(m, "tool_result") => Text \notin m.blocks
  BY DEF Of, Text, Block
<1> QED BY <1>2, <1>4, <1>5, <1>7, <1>9, <1>10 DEF Says

LEMMA TwoJoined ==
  ASSUME NEW S, NEW a \in S, NEW b \in S
  PROVE  <<a>> \o <<b>> = <<a, b>>
<1>1. <<a>> \in Seq(S) /\ <<b>> \in Seq(S) /\ <<a, b>> \in Seq(S)
  OBVIOUS
<1>2. Len(<<a>>) = 1 /\ Len(<<b>>) = 1 /\ Len(<<a, b>>) = 2
  OBVIOUS
<1>3. PICK c : c = <<a>> \o <<b>>
  OBVIOUS
<1>4. c \in Seq(S) /\ Len(c) = 2 /\ c[1] = a /\ c[1 + 1] = b
  <2>1. /\ \A j \in 1 .. Len(<<a>>) : c[j] = <<a>>[j]
        /\ \A j \in 1 .. Len(<<b>>) : c[Len(<<a>>) + j] = <<b>>[j]
        /\ c \in Seq(S) /\ Len(c) = Len(<<a>>) + Len(<<b>>)
    BY <1>1, <1>3, PiecesAre
  <2>2. 1 \in 1 .. Len(<<a>>) /\ 1 \in 1 .. Len(<<b>>)
    BY <1>2
  <2>3. c[1] = <<a>>[1] /\ c[Len(<<a>>) + 1] = <<b>>[1]
    BY <2>1, <2>2
  <2>4. <<a>>[1] = a /\ <<b>>[1] = b
    OBVIOUS
  <2>5. c[1] = a /\ c[1 + 1] = b
    BY <1>2, <2>3, <2>4
  <2>6. Len(c) = 2
    BY <1>2, <2>1
  <2> QED BY <2>1, <2>5, <2>6
<1>5. \A j \in 1 .. 2 : c[j] = <<a, b>>[j]
  BY <1>4
<1> QED BY <1>1, <1>2, <1>3, <1>4, <1>5, SeqEqual

LEMMA ConvertedIs ==
  ASSUME NEW m \in Msgs
  PROVE  Converts(m, OpenAIForm(m)) /\ Converts(m, ReplayForm(m))
<1>1. PICK uses, plain, tools, says :
        /\ uses \in Wire /\ plain \in Wire
        /\ uses = CallsOf(m) /\ plain = Plain("user") /\ tools = ToolMessages(m) /\ says = Says(m)
        /\ uses.role = "assistant" /\ plain.role = "user"
  BY FormsAre
<1>2. PICK tool \in Wire :
        /\ tool.role = "tool" /\ tool.ids = IdsIn(Of(m, "tool_result"))
        /\ tools = <<>> \/ tools = <<tool>>
  BY <1>1, FormsAre
<1>3. /\ Of(m, "tool_result") # {} <=> tools # <<>>
      /\ says = <<>> \/ says = <<plain>>
      /\ m.blocks = Of(m, "tool_result") => says = <<>>
  BY <1>1, FormsAre
<1>4. ASSUME m.role = "assistant"  PROVE Converts(m, <<uses>>)
  <2>1. <<uses>> \in Seq(Wire) /\ Len(<<uses>>) = 1 /\ <<uses>>[1] = uses
    BY <1>1
  <2>2. \A k \in 1 .. Len(<<uses>>) : k = 1
    BY <2>1
  <2> QED BY <1>1, <1>4, <2>1, <2>2 DEF Converts
<1>5. ASSUME NEW form, m.role # "assistant",
             \/ form = <<plain>> /\ tools = <<>>
             \/ form = <<tool>> /\ tools # <<>>
             \/ form = <<tool, plain>> /\ tools # <<>>
             \/ form = <<plain, tool>> /\ tools # <<>> /\ says # <<>>
      PROVE  Converts(m, form)
  <2>1. form \in Seq(Wire) /\ Len(form) > 0
    <3>1. /\ <<plain>> \in Seq(Wire) /\ Len(<<plain>>) > 0
          /\ <<tool>> \in Seq(Wire) /\ Len(<<tool>>) > 0
      BY <1>1
    <3>2. <<tool, plain>> \in Seq(Wire) /\ Len(<<tool, plain>>) > 0
      BY <1>1
    <3>3. <<plain, tool>> \in Seq(Wire) /\ Len(<<plain, tool>>) > 0
      BY <1>1
    <3> QED BY <1>5, <3>1, <3>2, <3>3, Zenon
  <2>2. \A k \in 1 .. Len(form) : form[k] = plain \/ (form[k] = tool /\ tools # <<>>)
    BY <1>5
  <2>3. \A k \in 1 .. Len(form) : form[k].role # "assistant"
    BY <1>1, <1>2, <2>2
  <2>4. Of(m, "tool_result") # {} /\ m.blocks = Of(m, "tool_result") => form[1] = tool
    BY <1>3, <1>5
  <2>5. Of(m, "tool_result") # {} => tool.role = "tool" /\ tool.ids = IdsIn(Of(m, "tool_result"))
    BY <1>2, <1>3
  <2> QED BY <2>1, <2>3, <2>4, <2>5 DEF Converts
<1>6. m.role # "assistant" =>
        /\ OpenAIForm(m) = IF tools \o says = <<>> THEN <<plain>> ELSE tools \o says
        /\ ReplayForm(m) = IF says \o tools = <<>> THEN <<plain>> ELSE says \o tools
  BY <1>1 DEF OpenAIForm, ReplayForm
<1>7. m.role = "assistant" => OpenAIForm(m) = <<uses>> /\ ReplayForm(m) = <<uses>>
  BY <1>1 DEF OpenAIForm, ReplayForm
<1>8. CASE m.role = "assistant"
  BY <1>4, <1>7, <1>8
<1>9. CASE m.role # "assistant" /\ tools = <<>> /\ says = <<>>
  <2>1. tools \o says = <<>> /\ says \o tools = <<>>
    BY <1>9
  <2> QED BY <1>5, <1>6, <1>9, <2>1
<1>10. CASE m.role # "assistant" /\ tools = <<>> /\ says = <<plain>>
  <2>1. tools \o says = <<plain>> /\ says \o tools = <<plain>> /\ <<plain>> # <<>>
    BY <1>10
  <2> QED BY <1>5, <1>6, <1>10, <2>1
<1>11. CASE m.role # "assistant" /\ tools = <<tool>> /\ says = <<>>
  <2>1. tools \o says = <<tool>> /\ says \o tools = <<tool>> /\ <<tool>> # <<>>
    BY <1>11
  <2> QED BY <1>5, <1>6, <1>11, <2>1
<1>12. CASE m.role # "assistant" /\ tools = <<tool>> /\ says = <<plain>>
  <2>1. <<tool>> \o <<plain>> = <<tool, plain>> /\ <<plain>> \o <<tool>> = <<plain, tool>>
    BY <1>1, TwoJoined
  <2>2. OpenAIForm(m) = <<tool, plain>> /\ ReplayForm(m) = <<plain, tool>>
    BY <1>6, <1>12, <2>1
  <2>3. tools # <<>> /\ says # <<>>
    BY <1>12
  <2> QED BY <1>5, <1>12, <2>2, <2>3
<1> QED BY <1>2, <1>3, <1>8, <1>9, <1>10, <1>11, <1>12

LEMMA ConversionsAnswer ==
  ASSUME NEW ms \in Seq(Msgs), Len(ms) > 0, Followed(ms)
  PROVE  CallsAreAnswered(ToOpenAI(ms)) /\ CallsAreAnswered(ToReplay(ms))
<1>1. DOMAIN ms = 1 .. Len(ms) /\ \A i \in 1 .. Len(ms) : ms[i] \in Msgs
  OBVIOUS
<1> DEFINE sent == [i \in 1 .. Len(ms) |-> OpenAIForm(ms[i])]
           replay == [i \in 1 .. Len(ms) |-> ReplayForm(ms[i])]
<1>2. ToOpenAI(ms) = FlattenSeq(sent) /\ ToReplay(ms) = FlattenSeq(replay)
  BY <1>1 DEF ToOpenAI, ToReplay
<1>3. /\ \A i \in 1 .. Len(ms) : Converts(ms[i], sent[i])
      /\ \A i \in 1 .. Len(ms) : Converts(ms[i], replay[i])
  BY <1>1, ConvertedIs
<1>4. /\ DOMAIN sent = 1 .. Len(ms) /\ sent = [i \in 1 .. Len(ms) |-> sent[i]]
      /\ DOMAIN replay = 1 .. Len(ms) /\ replay = [i \in 1 .. Len(ms) |-> replay[i]]
  OBVIOUS
<1> HIDE DEF sent, replay
<1> QED BY <1>2, <1>3, <1>4, JoinedAnswers

(* A repaired history, sent and replayed.                                    *)
LEMMA RepairedIs ==
  ASSUME NEW ms, NEW latest \in Nat, History(ms, latest), Len(ms) > 0, NEW target
  PROVE  /\ Repaired(ms, target) \in Seq(Msgs) /\ Len(Repaired(ms, target)) > 0
         /\ Followed(Repaired(ms, target))
         /\ \A b, c \in AllOf(Repaired(ms, target), "tool_use") : b.id = c.id => b.n = c.n
         /\ Of(ms[1], "tool_result") = {} => AnswersNamed(Repaired(ms, target))
<1>1. PICK kept : kept = WithoutOrphans(Sanitized(ms, target))
  OBVIOUS
<1>2. KeptOf(ms, kept) /\ ms \in Seq(Msgs) /\ Len(kept) = Len(ms)
  BY <1>1, KeptIs DEF History, KeptOf
<1>3. History(kept, latest) /\ AnsweredNext(kept)
  BY <1>2, KeptHistory, KeptAnswered
<1>4. Of(kept[1], "tool_result") = Of(ms[1], "tool_result")
  <2>1. 1 \in 1 .. Len(ms)
    BY <1>2
  <2> QED BY <1>2, <2>1 DEF KeptOf
<1>5. PICK named : named = Normalized(kept)
  OBVIOUS
<1>6. /\ Fit(named) /\ Len(named) = Len(ms)
      /\ Of(ms[1], "tool_result") = {} => AnswersNamed(named)
  BY <1>2, <1>3, <1>4, <1>5, NormalizedFit
<1>7. PICK split : split = Split(named)
  OBVIOUS
<1>8. /\ split \in Seq(Msgs) /\ Len(split) \in Nat /\ Len(split) # 0
      /\ \A kind \in Kinds : AllOf(split, kind) = AllOf(named, kind)
      /\ Followed(split)
  BY <1>6, <1>7, SplitIs
<1>9. /\ AllOf(split, "tool_use") = AllOf(named, "tool_use")
      /\ AllOf(split, "tool_result") = AllOf(named, "tool_result")
  BY <1>8 DEF Kinds
<1>10. Repaired(ms, target) = split
  BY <1>1, <1>5, <1>7 DEF Repaired
<1>11. AnswersNamed(named) => AnswersNamed(split)
  BY <1>9 DEF AnswersNamed, IdsOf
<1>12. \A b, c \in AllOf(split, "tool_use") : b.id = c.id => b.n = c.n
  BY <1>6, <1>9 DEF Fit
<1> QED BY <1>6, <1>8, <1>10, <1>11, <1>12

(* The inductive invariant.                                                  *)
TalkInv ==
  /\ requests \in Nat
  /\ History(talk, requests * MaxToolUses)
  /\ ~cut /\ Len(talk) > 0 => Of(talk[1], "tool_result") = {}
  /\ ConversationsValid

(* A message more.                                                           *)
LEMMA AppendedIs ==
  ASSUME NEW ms \in Seq(Msgs), NEW m \in Msgs
  PROVE  /\ Append(ms, m) \in Seq(Msgs) /\ Len(ms) \in Nat /\ Len(Append(ms, m)) = Len(ms) + 1
         /\ \A i \in 1 .. Len(ms) : Append(ms, m)[i] = ms[i]
         /\ Append(ms, m)[Len(ms) + 1] = m
OBVIOUS

LEMMA HistoryGrows ==
  ASSUME NEW ms, NEW latest \in Nat, NEW later \in Nat, latest <= later,
         History(ms, latest), NEW m \in Msgs,
         Len(ms) = 0 => m.role = "user" /\ Of(m, "tool_result") = {},
         Len(ms) > 0 => m.role # ms[Len(ms)].role,
         Of(m, "tool_use") # {} => m.role = "assistant",
         Of(m, "tool_result") # {} => m.role = "user",
         \A c \in Of(m, "tool_use") : NumberedUpTo(c, later) /\ latest < c.n,
         \A b, c \in Of(m, "tool_use") : b.n = c.n => b = c,
         Len(ms) > 0 => \A r \in Of(m, "tool_result") :
           NumberedUpTo(r, latest) /\ \E c \in Of(ms[Len(ms)], "tool_use") : r.id = c.id /\ r.n = c.n
  PROVE  History(Append(ms, m), later)
<1>1. ms \in Seq(Msgs)
  BY DEF History
<1>2. PICK new, l : new = Append(ms, m) /\ l = Len(ms)
  OBVIOUS
<1>3. /\ new \in Seq(Msgs) /\ l \in Nat /\ Len(new) = l + 1
      /\ \A i \in 1 .. l : new[i] = ms[i]
      /\ new[l + 1] = m
  BY <1>1, <1>2, AppendedIs
<1>4. \A i \in 1 .. l + 1 : i \in 1 .. l \/ i = l + 1
  BY <1>3
<1>5. l = 0 => Of(m, "tool_result") = {}
  BY <1>2
<1>6. TurnsAlternate(new)
  <2>1. new[1].role = "user"
    <3>1. CASE l = 0
      BY <1>2, <1>3, <3>1
    <3>2. CASE l # 0
      <4>1. 1 \in 1 .. l
        BY <1>3, <3>2
      <4> QED BY <1>2, <1>3, <4>1 DEF History, TurnsAlternate
    <3> QED BY <3>1, <3>2
  <2>2. ASSUME NEW i \in 1 .. l
        PROVE  new[i].role # new[i + 1].role
    <3>1. CASE i = l
      BY <1>2, <1>3, <3>1
    <3>2. CASE i # l
      <4>1. i \in 1 .. l - 1 /\ i + 1 \in 1 .. l
        BY <1>3, <3>2
      <4> QED BY <1>2, <1>3, <4>1 DEF History, TurnsAlternate
    <3> QED BY <3>1, <3>2
  <2>3. ASSUME NEW i \in 1 .. l + 1
        PROVE  /\ Of(new[i], "tool_use") # {} => new[i].role = "assistant"
               /\ Of(new[i], "tool_result") # {} => new[i].role = "user"
    BY <1>2, <1>3, <1>4 DEF History, TurnsAlternate
  <2>4. (l + 1) - 1 = l
    BY <1>3
  <2> QED BY <1>3, <2>1, <2>2, <2>3, <2>4 DEF TurnsAlternate
<1>7. \A i \in 1 .. l : /\ \A b \in Of(ms[i], "tool_use") : b.n \in 1 .. latest
                        /\ \A r \in Of(ms[i], "tool_result") : r.n \in 1 .. latest
  BY <1>2 DEF History, NumberedUpTo
<1>8. CallsInOrder(new)
  <2> SUFFICES ASSUME NEW i \in 1 .. l + 1, NEW j \in 1 .. l + 1,
                      NEW b \in Of(new[i], "tool_use"), NEW c \in Of(new[j], "tool_use")
               PROVE  (i < j => b.n < c.n) /\ (b.n = c.n => b = c)
    BY <1>3 DEF CallsInOrder
  <2>1. CASE i \in 1 .. l /\ j \in 1 .. l
    BY <1>2, <1>3, <2>1 DEF History, CallsInOrder
  <2>2. CASE i \in 1 .. l /\ j = l + 1
    <3>1. b.n \in 1 .. latest /\ latest < c.n /\ c.n \in 1 .. later
      BY <1>3, <1>7, <2>2 DEF NumberedUpTo
    <3> QED BY <3>1
  <2>3. CASE i = l + 1 /\ j \in 1 .. l
    <3>1. c.n \in 1 .. latest /\ latest < b.n /\ b.n \in 1 .. later
      BY <1>3, <1>7, <2>3 DEF NumberedUpTo
    <3> QED BY <1>3, <2>3, <3>1
  <2>4. CASE i = l + 1 /\ j = l + 1
    BY <1>3, <2>4
  <2> QED BY <1>4, <2>1, <2>2, <2>3, <2>4
<1>9. AnswersMatch(new)
  <2>1. ASSUME NEW i \in 2 .. l + 1, NEW r \in Of(new[i], "tool_result")
        PROVE  \E c \in Of(new[i - 1], "tool_use") : r.id = c.id /\ r.n = c.n
    <3>1. CASE i = l + 1
      <4>1. l > 0 /\ i - 1 = l /\ l \in 1 .. l
        BY <1>3, <3>1
      <4> QED BY <1>2, <1>3, <2>1, <3>1, <4>1
    <3>2. CASE i # l + 1
      <4>1. i \in 2 .. l /\ i \in 1 .. l /\ i - 1 \in 1 .. l
        BY <1>3, <3>2
      <4> QED BY <1>2, <1>3, <4>1 DEF History, AnswersMatch
    <3> QED BY <3>1, <3>2
  <2>2. ASSUME NEW r \in Of(new[1], "tool_result"),
               NEW i \in 1 .. l + 1, NEW c \in Of(new[i], "tool_use")
        PROVE  r.n < c.n
    <3>1. l # 0
      BY <1>3, <1>5
    <3>2. 1 \in 1 .. l
      BY <1>3, <3>1
    <3>3. r \in Of(ms[1], "tool_result") /\ r.n \in 1 .. latest
      BY <1>3, <1>7, <3>2
    <3>4. CASE i \in 1 .. l
      BY <1>2, <1>3, <3>3, <3>2, <3>4 DEF History, AnswersMatch
    <3>5. CASE i = l + 1
      <4>1. latest < c.n /\ c.n \in 1 .. later
        BY <1>3, <3>5 DEF NumberedUpTo
      <4> QED BY <3>3, <4>1
    <3> QED BY <1>4, <3>4, <3>5
  <2> QED BY <1>3, <2>1, <2>2 DEF AnswersMatch
<1>10. \A b : NumberedUpTo(b, latest) => NumberedUpTo(b, later)
  BY DEF NumberedUpTo
<1>11. ASSUME NEW i \in 1 .. l + 1
       PROVE  /\ \A b \in Of(new[i], "tool_use") : NumberedUpTo(b, later)
              /\ \A b \in Of(new[i], "tool_result") : NumberedUpTo(b, later)
  <2>1. CASE i \in 1 .. l
    BY <1>2, <1>3, <1>10, <2>1 DEF History
  <2>2. CASE i = l + 1
    <3>1. \A b \in Of(m, "tool_result") : NumberedUpTo(b, latest)
      <4>1. l = 0 \/ l > 0
        BY <1>3
      <4> QED BY <1>2, <1>5, <4>1
    <3> QED BY <1>3, <1>10, <2>2, <3>1
  <2> QED BY <1>4, <2>1, <2>2
<1> QED BY <1>2, <1>3, <1>6, <1>8, <1>9, <1>11 DEF History

(* The oldest messages dropped.                                              *)
LEMMA DroppedIs ==
  ASSUME NEW ms \in Seq(Msgs), Len(ms) > 2
  PROVE  /\ SubSeq(ms, 3, Len(ms)) \in Seq(Msgs) /\ Len(SubSeq(ms, 3, Len(ms))) = Len(ms) - 2
         /\ \A i \in 1 .. Len(ms) - 2 : SubSeq(ms, 3, Len(ms))[i] = ms[i + 2]
<1>1. Len(ms) \in Nat /\ 3 \in 1 .. Len(ms) /\ \A i \in 3 .. Len(ms) : ms[i] \in Msgs
  OBVIOUS
<1>2. \A i \in 1 .. Len(ms) - 2 : i + 3 - 1 = i + 2
  BY <1>1
<1> QED BY <1>1, <1>2, SubSeqProperties

LEMMA HistoryDropped ==
  ASSUME NEW ms, NEW latest \in Nat, History(ms, latest), Len(ms) > 2
  PROVE  History(SubSeq(ms, 3, Len(ms)), latest)
<1>1. ms \in Seq(Msgs)
  BY DEF History
<1>2. PICK new, l : new = SubSeq(ms, 3, Len(ms)) /\ l = Len(ms) - 2
  OBVIOUS
<1>3. /\ new \in Seq(Msgs) /\ Len(new) = l /\ l \in Nat /\ l > 0 /\ Len(ms) = l + 2
      /\ \A i \in 1 .. l : new[i] = ms[i + 2]
  BY <1>1, <1>2, DroppedIs
<1>4. \A i \in 1 .. l : i + 2 \in 2 .. Len(ms) /\ i + 2 \in 1 .. Len(ms)
  BY <1>3
<1>5. TurnsAlternate(new)
  <2>1. new[1].role = "user"
    <3>1. 1 \in 1 .. Len(ms) - 1 /\ 2 \in 1 .. Len(ms) - 1 /\ 3 \in 1 .. Len(ms)
          /\ 2 \in 1 .. Len(ms) /\ 1 \in 1 .. Len(ms)
      BY <1>3
    <3>2. ms[1].role = "user" /\ ms[1].role # ms[1 + 1].role /\ ms[2].role # ms[2 + 1].role
      BY <3>1, <1>3 DEF History, TurnsAlternate
    <3>3. ms[1] \in Msgs /\ ms[2] \in Msgs /\ ms[3] \in Msgs
      BY <1>1, <3>1
    <3>4. ms[2].role = "assistant" /\ ms[3].role = "user"
      BY <3>2, <3>3 DEF Msgs
    <3>5. new[1] = ms[1 + 2]
      BY <1>3
    <3> QED BY <3>4, <3>5
  <2>2. ASSUME NEW i \in 1 .. l - 1
        PROVE  new[i].role # new[i + 1].role
    <3>1. i \in 1 .. l /\ i + 1 \in 1 .. l /\ i + 2 \in 1 .. Len(ms) - 1 /\ (i + 1) + 2 = (i + 2) + 1
      BY <1>3
    <3>2. ms[i + 2].role # ms[(i + 2) + 1].role
      BY <3>1 DEF History, TurnsAlternate
    <3>3. new[i] = ms[i + 2] /\ new[i + 1] = ms[(i + 1) + 2]
      BY <1>3, <3>1
    <3> QED BY <3>1, <3>2, <3>3
  <2>3. \A i \in 1 .. l :
          /\ Of(new[i], "tool_use") # {} => new[i].role = "assistant"
          /\ Of(new[i], "tool_result") # {} => new[i].role = "user"
    BY <1>3, <1>4 DEF History, TurnsAlternate
  <2> QED BY <1>3, <2>1, <2>2, <2>3 DEF TurnsAlternate
<1>6. CallsInOrder(new)
  <2>1. \A i, j \in 1 .. l : i < j => i + 2 < j + 2
    BY <1>3
  <2> QED BY <1>3, <1>4, <2>1 DEF History, CallsInOrder
<1>7. AnswersMatch(new)
  <2>1. ASSUME NEW i \in 2 .. l, NEW r \in Of(new[i], "tool_result")
        PROVE  \E c \in Of(new[i - 1], "tool_use") : r.id = c.id /\ r.n = c.n
    <3>1. /\ i \in 1 .. l /\ i - 1 \in 1 .. l /\ (i - 1) + 2 = (i + 2) - 1 /\ i + 2 \in 2 .. Len(ms)
          /\ i + 2 \in Int
      BY <1>3
    <3>2. new[i] = ms[i + 2] /\ new[i - 1] = ms[(i + 2) - 1]
      <4>1. new[i - 1] = ms[(i - 1) + 2]
        BY <1>3, <3>1
      <4> QED BY <1>3, <3>1, <4>1
    <3>3. PICK c \in Of(ms[(i + 2) - 1], "tool_use") : r.id = c.id /\ r.n = c.n
      BY <2>1, <3>1, <3>2 DEF History, AnswersMatch
    <3> QED BY <3>2, <3>3
  <2>2. ASSUME NEW r \in Of(new[1], "tool_result"),
               NEW i \in 1 .. l, NEW c \in Of(new[i], "tool_use")
        PROVE  r.n < c.n
    <3>1. /\ 3 \in 2 .. Len(ms) /\ 3 - 1 = 2 /\ 2 \in 1 .. Len(ms) /\ 1 \in 1 .. l /\ 1 + 2 = 3
          /\ i + 2 \in 1 .. Len(ms) /\ 2 < i + 2
      BY <1>3
    <3>2. r \in Of(ms[3], "tool_result") /\ c \in Of(ms[i + 2], "tool_use")
      <4>1. new[1] = ms[1 + 2] /\ new[i] = ms[i + 2]
        BY <1>3, <3>1
      <4> QED BY <2>2, <3>1, <4>1
    <3>3. PICK d \in Of(ms[3 - 1], "tool_use") : r.n = d.n
      BY <3>1, <3>2 DEF History, AnswersMatch
    <3>4. d \in Of(ms[2], "tool_use")
      BY <3>1, <3>3
    <3>5. d.n < c.n
      BY <3>1, <3>2, <3>4 DEF History, CallsInOrder
    <3> QED BY <3>3, <3>5
  <2> QED BY <1>3, <2>1, <2>2 DEF AnswersMatch
<1>8. \A i \in 1 .. l : /\ \A b \in Of(new[i], "tool_use") : NumberedUpTo(b, latest)
                        /\ \A b \in Of(new[i], "tool_result") : NumberedUpTo(b, latest)
  BY <1>3, <1>4 DEF History
<1> QED BY <1>2, <1>3, <1>5, <1>6, <1>7, <1>8 DEF History

LEMMA TalkStarts == TalkInit => TalkInv
<1> SUFFICES ASSUME TalkInit  PROVE TalkInv
  OBVIOUS
<1>1. talk = <<>> /\ requests = 0
  BY DEF TalkInit
<1>2. talk \in Seq(Msgs) /\ Len(talk) = 0 /\ requests * MaxToolUses = 0
  BY <1>1, ConversationAssumption
<1>3. History(talk, requests * MaxToolUses)
  BY <1>2 DEF History, TurnsAlternate, CallsInOrder, AnswersMatch
<1>4. ConversationsValid
  <2>1. wire.sent = <<>> /\ wire.replay = <<>> /\ wire.repaired = <<>>
    BY DEF TalkInit
  <2>2. DOMAIN wire.sent = {} /\ DOMAIN wire.replay = {} /\ DOMAIN wire.repaired = {}
    BY <2>1
  <2>3. \A kind : AllOf(wire.repaired, kind) = {}
    BY <2>2 DEF AllOf
  <2> QED BY <2>2, <2>3 DEF ConversationsValid, AnswersFollowCalls, ReplaysFollowCalls,
                            CallsAreAnswered, NoStrayAnswers, IdsOf, IdsIn
<1> QED BY <1>1, <1>2, <1>3, <1>4 DEF TalkInv

LEMMA LatestIs ==
  ASSUME TalkInv
  PROVE  /\ requests * MaxToolUses \in Nat /\ (requests + 1) * MaxToolUses \in Nat
         /\ (requests + 1) * MaxToolUses = requests * MaxToolUses + MaxToolUses
BY ConversationAssumption DEF TalkInv

LEMMA UserSaysKeeps ==
  ASSUME TalkInv, NEW several \in SUBSET LastCalls, NEW text \in BOOLEAN, UserSays(several, text)
  PROVE  TalkInv'
<1> DEFINE said == {[c EXCEPT !.kind = "tool_result"] : c \in several} \cup (IF text THEN {Text} ELSE {})
<1>1. PICK m : m = [role |-> "user", blocks |-> said]
  OBVIOUS
<1>2. talk' = Append(talk, m)
  BY <1>1 DEF UserSays
<1>3. PICK latest \in Nat : latest = requests * MaxToolUses
  BY LatestIs
<1>4. History(talk, latest) /\ talk \in Seq(Msgs) /\ Len(talk) \in Nat
  BY <1>3 DEF TalkInv, History
<1>5. Text \in Blk /\ Text.kind = "text"
  BY DEF Text, Block, Blk, Kinds, Forms
<1>6. talk = <<>> => several = {}
  BY DEF LastCalls
<1>7. Len(talk) > 0 => talk # <<>> /\ Len(talk) \in 1 .. Len(talk)
  BY <1>4
<1>8. Len(talk) = 0 => talk = <<>>
  BY <1>4
<1>9. ASSUME NEW c \in several
      PROVE  /\ c \in Of(talk[Len(talk)], "tool_use") /\ c \in Blk /\ NumberedUpTo(c, latest)
             /\ [c EXCEPT !.kind = "tool_result"] \in Blk
             /\ [c EXCEPT !.kind = "tool_result"].kind = "tool_result"
             /\ [c EXCEPT !.kind = "tool_result"].id = c.id
             /\ [c EXCEPT !.kind = "tool_result"].n = c.n
             /\ NumberedUpTo([c EXCEPT !.kind = "tool_result"], latest)
  <2>1. talk # <<>> /\ c \in Of(talk[Len(talk)], "tool_use")
    BY <1>6 DEF LastCalls
  <2>2. Len(talk) \in 1 .. Len(talk)
    BY <1>4, <1>7, <1>8, <2>1
  <2>3. talk[Len(talk)] \in Msgs
    BY <1>4, <2>2
  <2>4. c \in Blk
    BY <2>1, <2>3 DEF Of, Msgs
  <2>5. NumberedUpTo(c, latest)
    BY <1>4, <2>1, <2>2 DEF History
  <2>6. PICK r : r = [c EXCEPT !.kind = "tool_result"]
    OBVIOUS
  <2>7. r \in Blk /\ r.kind = "tool_result" /\ r.id = c.id /\ r.n = c.n
    BY <2>4, <2>6 DEF Blk, Kinds
  <2>8. NumberedUpTo(r, latest)
    BY <2>5, <2>7 DEF NumberedUpTo
  <2> QED BY <2>1, <2>4, <2>5, <2>6, <2>7, <2>8
<1>10. \A b \in said : \/ b = Text
                         \/ \E c \in several : b = [c EXCEPT !.kind = "tool_result"]
  OBVIOUS
<1> HIDE DEF said
<1>11. said \subseteq Blk
  BY <1>5, <1>9, <1>10
<1>12. m \in Msgs /\ m.role = "user" /\ m.blocks = said
  BY <1>1, <1>11 DEF Msgs
<1>13. Of(m, "tool_use") = {}
  <2>1. \A b \in said : b.kind = "text" \/ b.kind = "tool_result"
    BY <1>5, <1>9, <1>10
  <2> QED BY <1>12, <2>1 DEF Of
<1>14. ASSUME NEW r \in Of(m, "tool_result")
       PROVE  \E c \in several : r = [c EXCEPT !.kind = "tool_result"]
  BY <1>5, <1>10, <1>12 DEF Of
<1>15. ASSUME NEW r \in Of(m, "tool_result")
       PROVE  NumberedUpTo(r, latest) /\ \E c \in Of(talk[Len(talk)], "tool_use") : r.id = c.id /\ r.n = c.n
  BY <1>9, <1>14
<1>16. Len(talk) = 0 => Of(m, "tool_result") = {}
  BY <1>6, <1>8, <1>14
<1>17. Len(talk) > 0 => m.role # talk[Len(talk)].role
  BY <1>7, <1>12 DEF UserSays
<1>18. History(talk', latest)
  BY <1>2, <1>4, <1>12, <1>13, <1>15, <1>16, <1>17, HistoryGrows
<1>19. requests' = requests /\ cut' = cut /\ wire' = wire
  BY DEF UserSays
<1>20. ASSUME ~cut  PROVE Of(talk'[1], "tool_result") = {}
  <2>1. /\ \A i \in 1 .. Len(talk) : talk'[i] = talk[i]
        /\ talk'[Len(talk) + 1] = m
    BY <1>2, <1>4, <1>12, AppendedIs
  <2>2. CASE Len(talk) = 0
    BY <1>16, <2>1, <2>2
  <2>3. CASE Len(talk) # 0
    <3>1. 1 \in 1 .. Len(talk) /\ Len(talk) > 0
      BY <1>4, <2>3
    <3> QED BY <1>20, <2>1, <3>1 DEF TalkInv
  <2> QED BY <2>2, <2>3
<1>21. ConversationsValid'
  BY <1>19 DEF TalkInv, ConversationsValid, AnswersFollowCalls, ReplaysFollowCalls, NoStrayAnswers
<1> QED BY <1>3, <1>18, <1>19, <1>20, <1>21 DEF TalkInv

LEMMA DropOldestKeeps ==
  ASSUME TalkInv, DropOldest
  PROVE  TalkInv'
<1>1. PICK latest \in Nat : latest = requests * MaxToolUses
  BY LatestIs
<1>2. History(talk, latest) /\ Len(talk) > 2
  BY <1>1 DEF TalkInv, DropOldest
<1>3. talk' = SubSeq(talk, 3, Len(talk)) /\ cut' = TRUE /\ requests' = requests /\ wire' = wire
  BY DEF DropOldest
<1>4. History(talk', latest)
  BY <1>2, <1>3, HistoryDropped
<1>5. ConversationsValid'
  BY <1>3 DEF TalkInv, ConversationsValid, AnswersFollowCalls, ReplaysFollowCalls, NoStrayAnswers
<1> QED BY <1>1, <1>3, <1>4, <1>5 DEF TalkInv

LEMMA AnswerIs ==
  ASSUME requests \in Nat, NEW target, NEW thinks, NEW says, NEW several \in 0 .. MaxToolUses,
         NEW latest \in Nat, latest = requests * MaxToolUses
  PROVE  /\ Answer(target, thinks, says, several) \in Msgs
         /\ Answer(target, thinks, says, several).role = "assistant"
         /\ Of(Answer(target, thinks, says, several), "tool_result") = {}
         /\ \A c \in Of(Answer(target, thinks, says, several), "tool_use") :
              NumberedUpTo(c, latest + MaxToolUses) /\ latest < c.n
         /\ \A b, c \in Of(Answer(target, thinks, says, several), "tool_use") : b.n = c.n => b = c
<1>1. MaxToolUses \in Nat /\ several \in Nat /\ several <= MaxToolUses
  BY ConversationAssumption
<1>2. PICK form \in {"toolu", "call"} : form = IF target = "anthropic" THEN "toolu" ELSE "call"
  OBVIOUS
<1> DEFINE uses == {Block("tool_use", n, <<form, n>>) : n \in latest + 1 .. latest + several}
           rest == (IF thinks /\ target = "anthropic" THEN {Thinking} ELSE {})
                     \cup (IF says \/ several = 0 THEN {Text} ELSE {})
<1>3. Answer(target, thinks, says, several) = [role |-> "assistant", blocks |-> rest \cup uses]
  BY <1>2 DEF Answer
<1>4. Text \in Blk /\ Text.kind = "text" /\ Thinking \in Blk /\ Thinking.kind = "thinking"
  BY DEF Text, Thinking, Block, Blk, Kinds, Forms
<1>5. \A b \in rest : b = Text \/ b = Thinking
  OBVIOUS
<1>6. ASSUME NEW b \in uses
      PROVE  /\ b \in Blk /\ b.kind = "tool_use" /\ b = Block("tool_use", b.n, <<form, b.n>>)
             /\ NumberedUpTo(b, latest + MaxToolUses) /\ latest < b.n
  <2>1. PICK n \in latest + 1 .. latest + several : b = Block("tool_use", n, <<form, n>>)
    OBVIOUS
  <2>2. n \in Nat /\ latest < n /\ n \in 1 .. latest + MaxToolUses
    BY <1>1
  <2>3. PICK id : id = <<form, n>>
    OBVIOUS
  <2>4. id \in Forms \X Nat /\ id[1] = form /\ id[2] = n
    BY <1>2, <2>2, <2>3 DEF Forms
  <2>5. b = [kind |-> "tool_use", n |-> n, id |-> id]
    BY <2>1, <2>3 DEF Block
  <2>6. b \in Blk /\ b.kind = "tool_use" /\ b.n = n /\ b.id = id
    BY <2>2, <2>4, <2>5 DEF Blk, Kinds
  <2>7. NumberedUpTo(b, latest + MaxToolUses)
    BY <1>2, <2>2, <2>4, <2>6 DEF NumberedUpTo
  <2> QED BY <2>1, <2>2, <2>6, <2>7
<1> HIDE DEF uses, rest
<1>7. PICK m : m = Answer(target, thinks, says, several)
  OBVIOUS
<1>8. rest \cup uses \in SUBSET Blk
  BY <1>4, <1>5, <1>6
<1>9. m \in Msgs /\ m.role = "assistant" /\ m.blocks = rest \cup uses
  BY <1>3, <1>7, <1>8 DEF Msgs
<1>10. \A c \in Of(m, "tool_use") : c \in uses
  BY <1>4, <1>5, <1>9 DEF Of
<1>11. Of(m, "tool_result") = {}
  BY <1>4, <1>5, <1>6, <1>9 DEF Of
<1>12. \A b, c \in Of(m, "tool_use") : b.n = c.n => b = c
  BY <1>6, <1>10
<1> QED BY <1>6, <1>7, <1>9, <1>10, <1>11, <1>12

LEMMA ProxyMessagesKeeps ==
  ASSUME TalkInv, NEW target, NEW thinks, NEW says, NEW several \in 0 .. MaxToolUses,
         ProxyMessages(target, thinks, says, several)
  PROVE  TalkInv'
<1>1. PICK latest \in Nat : latest = requests * MaxToolUses
  BY LatestIs
<1>2. /\ History(talk, latest) /\ talk \in Seq(Msgs) /\ Len(talk) \in Nat /\ requests \in Nat
      /\ MaxToolUses \in Nat
  BY <1>1, ConversationAssumption DEF TalkInv, History
<1>3. Len(talk) > 0 /\ talk[Len(talk)].role = "user"
  BY <1>2 DEF ProxyMessages
<1>4. PICK m : m = Answer(target, thinks, says, several)
  OBVIOUS
<1>5. /\ m \in Msgs /\ m.role = "assistant" /\ Of(m, "tool_result") = {}
      /\ \A c \in Of(m, "tool_use") : NumberedUpTo(c, latest + MaxToolUses) /\ latest < c.n
      /\ \A b, c \in Of(m, "tool_use") : b.n = c.n => b = c
  BY <1>1, <1>2, <1>4, AnswerIs
<1>6. talk' = Append(talk, m) /\ requests' = requests + 1 /\ cut' = cut
  BY <1>4 DEF ProxyMessages
<1>7. PICK later \in Nat : later = latest + MaxToolUses
  BY <1>2
<1>8. History(talk', later)
  <2>1. latest <= later
    BY <1>2, <1>7
  <2> QED BY <1>2, <1>3, <1>5, <1>6, <1>7, <2>1, HistoryGrows
<1>9. later = (requests + 1) * MaxToolUses
  BY <1>1, <1>7, LatestIs
<1>10. 1 \in 1 .. Len(talk)
  BY <1>2, <1>3
<1>11. talk'[1] = talk[1]
  BY <1>2, <1>5, <1>6, <1>10, AppendedIs
<1>12. PICK rep : rep = Repaired(talk, target)
  OBVIOUS
<1>13. /\ rep \in Seq(Msgs) /\ Len(rep) > 0 /\ Followed(rep)
       /\ \A b, c \in AllOf(rep, "tool_use") : b.id = c.id => b.n = c.n
       /\ Of(talk[1], "tool_result") = {} => AnswersNamed(rep)
  BY <1>2, <1>3, <1>12, RepairedIs
<1>14. CallsAreAnswered(ToOpenAI(rep)) /\ CallsAreAnswered(ToReplay(rep))
  BY <1>13, ConversionsAnswer
<1>15. /\ wire'.repaired = rep /\ wire'.replay = ToReplay(rep)
       /\ wire'.sent = IF target = "anthropic" THEN <<>> ELSE ToOpenAI(rep)
  BY <1>12 DEF ProxyMessages
<1>16. CallsAreAnswered(<<>>)
  BY DEF CallsAreAnswered
<1>17. AnswersFollowCalls' /\ ReplaysFollowCalls'
  BY <1>14, <1>15, <1>16 DEF AnswersFollowCalls, ReplaysFollowCalls
<1>18. ~cut => AnswersNamed(rep)
  BY <1>3, <1>13 DEF TalkInv
<1>19. NoStrayAnswers'
  BY <1>6, <1>13, <1>15, <1>18 DEF NoStrayAnswers, AnswersNamed
<1>20. ConversationsValid'
  BY <1>17, <1>19 DEF ConversationsValid
<1>21. History(talk', requests' * MaxToolUses)
  BY <1>6, <1>8, <1>9
<1>22. ~cut' => Of(talk'[1], "tool_result") = {}
  BY <1>3, <1>6, <1>11 DEF TalkInv
<1> QED BY <1>2, <1>6, <1>20, <1>21, <1>22 DEF TalkInv

LEMMA TalkKeeps == TalkInv /\ [TalkNext]_talkVars => TalkInv'
<1> SUFFICES ASSUME TalkInv, [TalkNext]_talkVars  PROVE TalkInv'
  OBVIOUS
<1>1. ASSUME NEW several \in SUBSET LastCalls, NEW text \in BOOLEAN, UserSays(several, text)  PROVE TalkInv'
  BY <1>1, UserSaysKeeps
<1>2. ASSUME DropOldest  PROVE TalkInv'
  BY <1>2, DropOldestKeeps
<1>3. ASSUME NEW p \in Providers, NEW thinks \in BOOLEAN, NEW says \in BOOLEAN,
             NEW n \in 0 .. MaxToolUses, ProxyMessages(p, thinks, says, n)
      PROVE  TalkInv'
  BY <1>3, ProxyMessagesKeeps
<1>4. ASSUME UNCHANGED talkVars  PROVE TalkInv'
  BY <1>4 DEF talkVars, TalkInv, ConversationsValid, AnswersFollowCalls, ReplaysFollowCalls, NoStrayAnswers
<1> QED BY <1>1, <1>2, <1>3, <1>4 DEF TalkNext

(* What goes to a provider is a conversation it accepts, and so is what is   *)
(* replayed: every call of an answer is followed at once by the messages     *)
(* that answer it, no two several have one identifier, and while the client    *)
(* keeps its whole history no answer stands without its call; for any        *)
(* providers, however long the conversation and however many several an answer *)
(* makes.                                                                    *)
THEOREM ConversationsAreValid == TalkInit /\ [][TalkNext]_talkVars => []ConversationsValid
<1>1. TalkInv => ConversationsValid
  BY DEF TalkInv
<1> QED BY <1>1, TalkStarts, TalkKeeps, PTL
=============================================================================
