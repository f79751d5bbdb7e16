----------------------------- MODULE Classifier -----------------------------
(***************************************************************************)
(* Task classification (classifier/, and its callers in api/routes/proxy.py *)
(* and pipeline/callback.py): a request is reduced to structural signals,  *)
(* which a table of rules or a small model turns into a task; and the      *)
(* harness that measures the rules. Scores are hundredths, confidences     *)
(* percentages. A text is the set of keywords found in it, and marks.      *)
(***************************************************************************)
EXTENDS Integers, Sequences, FiniteSets, SequencesExt

CONSTANTS
    TaskKeywords, \* TASK_KEYWORDS: task -> set of keywords
    Messages,     \* what a message may be: [role, keywords, fence, schema, json, calls, plan]
    ToolCounts,   \* lengths of the tools array
    TokenCounts,  \* [prompt, completion] of an answer
    LlmAnswers,   \* answers of the classifying model: [clean, names]
    Examples,     \* the data set: [request, tokens, expected]
    MaxMessages,  \* bound: messages of a request
    MaxExamples   \* bound: examples evaluated

TaskTypes ==
    <<"code_generation", "code_review", "classification", "summarization", "extraction",
      "reasoning", "conversation", "tool_selection", "architecture", "debugging", "refactoring",
      "documentation", "testing", "unknown">>

ASSUME ClassifierAssumption ==
    /\ ToolCounts \subseteq Nat /\ \A n \in TokenCounts : n.prompt \in Nat /\ n.completion \in Nat
    /\ \A a \in LlmAnswers : a.clean => Cardinality(a.names) = 1
    /\ \A i \in 1..Len(TaskTypes) - 1 : IsFiniteSet(TaskKeywords[TaskTypes[i]])
    /\ \A e \in Examples : e.tokens.prompt \in Nat /\ e.tokens.completion \in Nat

VARIABLES
    call,   \* a request of the proxy: [phase, request, toolUse, called, pre, label]
    scored  \* an evaluation: [seen, tp, fp, fn]

classifierVars == <<call, scored>>
SysKeywordBoostTypes == {"code_review", "reasoning", "summarization", "architecture", "debugging"}
NoLabel == [task |-> "none", confidence |-> 0, by |-> "nobody"]
Failed == [clean |-> FALSE, names |-> {"failed"}] \* llm_classify raised, or is not in use

-----------------------------------------------------------------------------
(* classify: signals add to the scores of tasks, the highest score wins.     *)
RatioLow(inp) == 10 * inp.completion < inp.prompt \/ inp.prompt = 0
RatioHigh(inp) == inp.prompt > 0 /\ inp.completion > 2 * inp.prompt
Keyed(inp, task) ==
    LET Found(text) == Cardinality(text \cap TaskKeywords[task])
    IN  IF task = "unknown" THEN 0
        ELSE Found(inp.system) * (IF task \in SysKeywordBoostTypes THEN 30 ELSE 15) + 50 * Found(inp.user)
Review(inp) == Keyed(inp, "code_review") > 0

Worth(on, tasks, task, plus) == IF on /\ task \in tasks THEN plus ELSE 0
ToolSignals(inp, task) ==
    Worth(inp.tools > 0, {"tool_selection"}, task, 15) + Worth(inp.tools > 3, {"tool_selection"}, task, 5)
    + Worth(inp.calls, {"tool_selection"}, task, 40)
ShapeSignals(inp, task) ==
    Worth(inp.schema, {"classification", "extraction"}, task, 30)
    + Worth(RatioLow(inp) /\ inp.completion < 50, {"classification"}, task, 30)
    + Worth(RatioHigh(inp), {"code_generation", "reasoning"}, task, 20)
    + Worth(inp.hint = "json", {"extraction", "classification"}, task, 20)
    + Worth(inp.hint = "markdown", {"summarization", "reasoning"}, task, 10)
CodeSignals(inp, task) ==
    Worth(inp.fence, {"code_generation"}, task, 40)
    + Worth(inp.fence /\ Review(inp), {"code_review"}, task, 30)
    + Worth(inp.fence /\ Review(inp), {"code_generation"}, task, -20)
    + Worth(inp.hint = "code" /\ Review(inp), {"code_review"}, task, 20)
    + Worth(inp.hint = "code" /\ ~Review(inp), {"code_generation"}, task, 40)
Score(inp, task) ==
    Keyed(inp, task) + ToolSignals(inp, task) + ShapeSignals(inp, task) + CodeSignals(inp, task)

\* Nothing strong is small talk; what still scores too low is unknown.
ConversationFallback == 35
Classify(inp) ==
    LET plain == [i \in DOMAIN TaskTypes |-> Score(inp, TaskTypes[i])]
        strong == \E i \in DOMAIN plain : plain[i] >= 30
        scores == [i \in DOMAIN plain |-> plain[i] +
                     IF ~strong /\ TaskTypes[i] = "conversation" THEN ConversationFallback ELSE 0]
        highest == Max({scores[i] : i \in DOMAIN scores})
        best == Min({i \in DOMAIN scores : scores[i] = highest})
        confidence == IF highest >= 150 THEN 100 ELSE (2 * highest) \div 3
    IN  [task |-> IF confidence < 20 THEN "unknown" ELSE TaskTypes[best],
        confidence |-> confidence, by |-> "rules"]

\* _parse_response: a clean label, or any of those an answer mentions; none is
\* an answer too, and no failure.
ParseResponse(answer) ==
    IF answer.names = {} THEN {[task |-> "unknown", confidence |-> 0, by |-> "model"]}
    ELSE {[task |-> t, confidence |-> IF answer.clean THEN 85 ELSE 70, by |-> "model"] : t \in answer.names}

-----------------------------------------------------------------------------
(* The signals of a request. Anthropic's tool use is in blocks of messages,  *)
(* which has_tool_calls does not look at.                                    *)
SystemsOf(r) == SelectSeq(r.messages, LAMBDA m : m.role = "system")
Keywords(r, role) == UNION {r.messages[i].keywords : i \in {j \in DOMAIN r.messages : r.messages[j].role = role}}
IsPlanMode(r) == SystemsOf(r) # <<>> /\ Head(SystemsOf(r)).plan
RequestUsesTools(r) == r.tools > 0 \/ \E i \in DOMAIN r.messages : r.messages[i].calls
HasToolCalls(r) ==
    ~r.anthropic /\ \E i \in DOMAIN r.messages : r.messages[i].role = "assistant" /\ r.messages[i].calls
FormatHint(r) ==
    LET telling == SelectSeq(SystemsOf(r), LAMBDA m : m.json \/ m.fence)
    IN  IF telling = <<>> THEN "none" ELSE IF Head(telling).json THEN "json" ELSE "code"
Input(r, tokens) ==
    [tools |-> r.tools, calls |-> HasToolCalls(r), hint |-> FormatHint(r),
     fence |-> \E i \in DOMAIN SystemsOf(r) : SystemsOf(r)[i].fence,
     schema |-> \E i \in DOMAIN SystemsOf(r) : SystemsOf(r)[i].schema,
     system |-> Keywords(r, "system"), user |-> Keywords(r, "user"),
     prompt |-> tokens.prompt, completion |-> tokens.completion]
\* The capture callback looks at the calls of the answer instead.
CallbackInput(r, tokens, called) == [Input(r, tokens) EXCEPT !.calls = called]

ClassifyRequest(r, tokens, answer) ==
    IF answer = Failed THEN {Classify(Input(r, tokens))} ELSE ParseResponse(answer)

Unknown == [prompt |-> 0, completion |-> 0]
Idle == [phase |-> "idle", request |-> <<>>, toolUse |-> FALSE, called |-> FALSE,
         pre |-> NoLabel, label |-> NoLabel]
ClassifierInit ==
    /\ call = Idle
    /\ scored = [seen |-> <<>>, tp |-> <<>>, fp |-> <<>>, fn |-> <<>>]

\* One request, or the harness, which is a program of its own.
\* Plan mode, a forced model and routing switched off all go straight upstream.
Arrive(r, straight) ==
    /\ call.phase = "idle" /\ scored.seen = <<>>
    /\ call' = [Idle EXCEPT !.phase = IF straight \/ IsPlanMode(r) THEN "upstream" ELSE "routing",
                             !.request = r, !.toolUse = RequestUsesTools(r)]
    /\ UNCHANGED scored
PreClassify(answer) ==
    /\ call.phase = "routing"
    /\ \E label \in ClassifyRequest(call.request, Unknown, answer) :
          call' = [call EXCEPT !.phase = "upstream", !.pre = label]
    /\ UNCHANGED scored
\* _resolve_classification, once the answer is there.
MutResolvedAfresh(pre, label) == label
Resolved(pre, label) == IF pre # NoLabel THEN pre ELSE label
Record(tokens, answer) ==
    /\ call.phase = "upstream"
    /\ \E label \in ClassifyRequest(call.request, tokens, answer) :
          call' = [call EXCEPT !.phase = "recorded", !.label = Resolved(call.pre, label)]
    /\ UNCHANGED scored
\* A completion seen by the callback: the rules classify it, once, at the end.
Callback(r, tokens, called) ==
    /\ call.phase = "idle" /\ scored.seen = <<>>
    /\ call' = [Idle EXCEPT !.phase = "recorded", !.request = r, !.called = called,
                             !.label = Classify(CallbackInput(r, tokens, called))]
    /\ UNCHANGED scored

-----------------------------------------------------------------------------
(* evaluator.py: examples are classified one after the other.                *)
CountOf(f, t) == IF t \in DOMAIN f THEN f[t] ELSE 0
Plus(f, t) == [u \in DOMAIN f \cup {t} |-> CountOf(f, u) + IF u = t THEN 1 ELSE 0]
Accumulate(s, predicted, expected) ==
    [s EXCEPT !.seen = Append(@, [predicted |-> predicted, expected |-> expected]),
              !.tp = IF predicted.task = expected THEN Plus(@, expected) ELSE @,
              !.fp = IF predicted.task = expected THEN @ ELSE Plus(@, predicted.task),
              !.fn = IF predicted.task = expected THEN @ ELSE Plus(@, expected)]
Evaluate(r, tokens, expected) ==
    /\ call.phase = "idle" /\ Len(scored.seen) < MaxExamples
    /\ scored' = Accumulate(scored, Classify(Input(r, tokens)), expected)
    /\ UNCHANGED call

\* calibration_curve with ten buckets, by int(confidence / 0.1): in binary
\* arithmetic .3, .6 and .7 land one bucket low. The last bucket takes 1.0 too.
Bucket(confidence) ==
    IF confidence \in {30, 60, 70} THEN (confidence \div 10) - 1
    ELSE IF confidence >= 90 THEN 9 ELSE confidence \div 10
CalibrationCurve(s) ==
    [b \in {Bucket(s.seen[i].predicted.confidence) : i \in DOMAIN s.seen} |->
        [count |-> Cardinality({i \in DOMAIN s.seen : Bucket(s.seen[i].predicted.confidence) = b}),
         right |-> Cardinality({i \in DOMAIN s.seen :
                       /\ Bucket(s.seen[i].predicted.confidence) = b
                       /\ s.seen[i].predicted.task = s.seen[i].expected})]]

Requests ==
    {[messages |-> ms, tools |-> n, anthropic |-> a] :
        ms \in UNION {[1..k -> Messages] : k \in 0..MaxMessages}, n \in ToolCounts, a \in BOOLEAN}
\* Anthropic's system text is a field of its own, put before the messages.
Served(r) == r.anthropic => /\ Len(SystemsOf(r)) <= 1
                            /\ \A i \in DOMAIN r.messages : r.messages[i].role = "system" => i = 1
ClassifierNext ==
    \/ \E r \in {q \in Requests : Served(q)} :
          \/ \E straight \in BOOLEAN : Arrive(r, straight)
          \/ \E tokens \in TokenCounts, called \in BOOLEAN : Callback(r, tokens, called)
    \/ \E e \in Examples : Evaluate(e.request, e.tokens, e.expected)
    \/ \E answer \in LlmAnswers \cup {Failed} :
          PreClassify(answer) \/ \E tokens \in TokenCounts : Record(tokens, answer)

\* The rules decide about every request: "unknown" is recorded only for an answer of
\* the model nobody can read, never by the rules, whose fallback always scores enough.
RulesAlwaysDecide ==
    \A label \in {call.pre, call.label} \cup {scored.seen[i].predicted : i \in DOMAIN scored.seen} :
        label.by = "rules" => label.task # "unknown" /\ label.confidence >= 20

\* The event carries the classification the request was routed by, although the tokens
\* counted since would give the rules another answer.
LabelIsKept ==
    call.phase = "recorded" /\ call.pre # NoLabel => call.label = call.pre

\* Before the answer is there its length counts as short, so that the rules route no
\* request as small talk that has no keyword of it.
KeywordOf(r, task) == (Keywords(r, "system") \cup Keywords(r, "user")) \cap TaskKeywords[task] # {}
NoSmallTalkBeforehand ==
    call.pre.by = "rules" /\ call.pre.task = "conversation" => KeywordOf(call.request, "conversation")

\* "Agents always send tools": the array alone never makes a request one of selecting
\* tools. That takes a keyword or calls, which routing knows of as tool use, or which
\* the callback saw in the answer.
ToolsAloneDecideNothing ==
    call.label.by = "rules" /\ call.label.task = "tool_selection" =>
        \/ KeywordOf(call.request, "tool_selection") \/ call.called
        \/ HasToolCalls(call.request) /\ call.toolUse

\* The metrics account for every example: a wrong one is a false positive of what was
\* predicted and a false negative of what was expected, and so they differ by task.
Predicted(s, t) == {i \in DOMAIN s.seen : s.seen[i].predicted.task = t}
Expected(s, t) == {i \in DOMAIN s.seen : s.seen[i].expected = t}
EvaluationAddsUp ==
    \A i \in DOMAIN TaskTypes :
        LET t == TaskTypes[i] IN
        /\ CountOf(scored.tp, t) = Cardinality(Predicted(scored, t) \cap Expected(scored, t))
        /\ CountOf(scored.tp, t) + CountOf(scored.fp, t) = Cardinality(Predicted(scored, t))
        /\ CountOf(scored.tp, t) + CountOf(scored.fn, t) = Cardinality(Expected(scored, t))

\* The calibration curve has ten buckets at most and every example in one of them,
\* though three confidences are counted in the bucket below their own.
CalibrationCountsAll ==
    LET curve == CalibrationCurve(scored)
        counts == [b \in DOMAIN curve |-> curve[b].count]
    IN  /\ DOMAIN curve \subseteq 0..9
        /\ SumFunctionOnSet(counts, DOMAIN curve) = Len(scored.seen)
        /\ \A i \in DOMAIN scored.seen :
              LET c == scored.seen[i].predicted.confidence
              IN  \E b \in DOMAIN curve : c \in 10 * b..10 * (b + 1)

\* Every request ends with one task that its signals explain, kept for the event that is
\* captured later, and an evaluation counts every example once.
ClassificationSound ==
    /\ RulesAlwaysDecide /\ LabelIsKept /\ NoSmallTalkBeforehand /\ ToolsAloneDecideNothing
    /\ EvaluationAddsUp /\ CalibrationCountsAll
=============================================================================
