---------------------------- MODULE Conversation ----------------------------
(***************************************************************************)
(* What becomes of an agent's conversation on its way through              *)
(* /v1/messages (routing/sanitize.py, routing/convert.py,                  *)
(* benchmarking/convert.py): the client keeps the history in Anthropic     *)
(* form, each request repairs a copy of it for the provider routing chose, *)
(* and the answer comes back with that provider's tool identifiers.  Texts *)
(* are left out; a block keeps its kind, the identifier it carries and     *)
(* which call of the history it makes or answers.  A message has a set of  *)
(* them: the conversions gather its results and its texts in any order.    *)
(***************************************************************************)
EXTENDS Integers, FiniteSets, SequencesExt

CONSTANTS Providers,    \* providers of the models that routing may choose
          MaxRequests,  \* bound on the requests of one conversation
          MaxToolUses   \* bound on the tool calls of one answer

ASSUME ConversationAssumption ==
    /\ "anthropic" \in Providers
    /\ MaxRequests \in Nat /\ MaxToolUses \in Nat

VARIABLES talk,      \* the client's history: messages [role, blocks]
          requests,  \* how many requests were made
          cut,       \* whether the client ever dropped its oldest messages
          wire       \* the last request: where to, repaired, as sent, as replayed

talkVars == <<talk, requests, cut, wire>>

Block(kind, n, id) == [kind |-> kind, n |-> n, id |-> id]
Text == Block("text", 0, <<"", 0>>)
Thinking == Block("thinking", 0, <<"", 0>>)

(* The blocks of one kind, of a message and of all; and what they identify. *)
Of(m, kind) == {b \in m.blocks : b.kind = kind}
AllOf(msgs, kind) == UNION {Of(msgs[i], kind) : i \in DOMAIN msgs}
IdsIn(blocks) == {b.id : b \in blocks}
IdsOf(msgs, kind) == IdsIn(AllOf(msgs, kind))

-----------------------------------------------------------------------------
(* sanitize_for_target: leaving Anthropic drops the thinking blocks.        *)
Sanitized(msgs, target) ==
    IF target = "anthropic" THEN msgs
    ELSE [i \in DOMAIN msgs |-> [msgs[i] EXCEPT !.blocks = {b \in @ : b.kind # "thinking"}]]

(* _repair_anthropic_tool_pairing: a call nobody answered is taken out.     *)
WithoutOrphans(msgs) ==
    LET answered == IdsOf(msgs, "tool_result")
    IN  [i \in DOMAIN msgs |->
            [msgs[i] EXCEPT !.blocks = {b \in @ : b.kind = "tool_use" => b.id \in answered}]]

(* _normalize_tool_use_ids: the identifiers of other providers are numbered *)
(* anew through the whole conversation, and their results follow.           *)
Foreign(msgs) == {id \in IdsOf(msgs, "tool_use") : id[1] # "toolu"}
Renamed(msgs, id) ==
    IF id \in Foreign(msgs)
    THEN <<"proxy", Cardinality({other \in Foreign(msgs) : other[2] <= id[2]})>>
    ELSE id
Normalized(msgs) ==
    [i \in DOMAIN msgs |->
        [msgs[i] EXCEPT !.blocks = {[b EXCEPT !.id = Renamed(msgs, @)] : b \in @}]]

(* _split_mixed_tool_result_messages: results first, the rest after.        *)
MutSplitNot(msgs) == msgs
Parts(m) ==
    LET results == Of(m, "tool_result")
        others == m.blocks \ results
    IN  IF m.role # "user" \/ results = {} \/ others = {} THEN <<m>>
        ELSE <<[role |-> "user", blocks |-> results], [role |-> "user", blocks |-> others]>>
Split(msgs) == FlattenSeq([i \in DOMAIN msgs |-> Parts(msgs[i])])

Repaired(msgs, target) == Split(Normalized(WithoutOrphans(Sanitized(msgs, target))))

-----------------------------------------------------------------------------
(* The OpenAI form: [role, ids], where ids are the calls of an assistant    *)
(* message; the tool messages of one message, which answer a call each and  *)
(* follow one another, are one.                                             *)
Plain(role) == [role |-> role, ids |-> {}]
CallsOf(m) == [role |-> "assistant", ids |-> IdsIn(Of(m, "tool_use"))]
ToolMessages(m) ==
    IF Of(m, "tool_result") = {} THEN <<>>
    ELSE <<[role |-> "tool", ids |-> IdsIn(Of(m, "tool_result"))]>>
Says(m) == IF Text \in m.blocks THEN <<Plain("user")>> ELSE <<>>

(* anthropic_to_openai_request puts the answers before the user's text, the *)
(* replay's convert_anthropic_to_openai puts them after it.                 *)
OpenAIForm(m) ==
    IF m.role = "assistant" THEN <<CallsOf(m)>>
    ELSE IF ToolMessages(m) \o Says(m) = <<>> THEN <<Plain("user")>>
    ELSE ToolMessages(m) \o Says(m)
ToOpenAI(msgs) == FlattenSeq([i \in DOMAIN msgs |-> OpenAIForm(msgs[i])])
ReplayForm(m) ==
    IF m.role = "assistant" THEN <<CallsOf(m)>>
    ELSE IF Says(m) \o ToolMessages(m) = <<>> THEN <<Plain("user")>>
    ELSE Says(m) \o ToolMessages(m)
ToReplay(msgs) == FlattenSeq([i \in DOMAIN msgs |-> ReplayForm(msgs[i])])

-----------------------------------------------------------------------------
TalkInit ==
    /\ talk = <<>> /\ requests = 0 /\ cut = FALSE
    /\ wire = [target |-> "none", repaired |-> <<>>, sent |-> <<>>, replay |-> <<>>]

(* The client: it answers some calls of the last answer, perhaps with a     *)
(* text, or interrupts them; it may drop its two oldest messages.           *)
LastCalls == IF talk = <<>> THEN {} ELSE Of(talk[Len(talk)], "tool_use")
UserSays(calls, text) ==
    /\ requests < MaxRequests
    /\ talk # <<>> => talk[Len(talk)].role = "assistant"
    /\ LET blocks == {[c EXCEPT !.kind = "tool_result"] : c \in calls}
                       \cup (IF text THEN {Text} ELSE {})
       IN  /\ blocks # {}
           /\ talk' = Append(talk, [role |-> "user", blocks |-> blocks])
    /\ UNCHANGED <<requests, cut, wire>>

DropOldest ==
    /\ requests < MaxRequests /\ Len(talk) > 2 /\ talk[Len(talk)].role = "user"
    /\ talk' = SubSeq(talk, 3, Len(talk)) /\ cut' = TRUE
    /\ UNCHANGED <<requests, wire>>

(* openai_to_anthropic_response, or the answer of Anthropic as it is. The   *)
(* identifiers of a provider are its own and new.                           *)
Answer(target, thinks, says, calls) ==
    LET form == IF target = "anthropic" THEN "toolu" ELSE "call"
    IN  [role |-> "assistant",
         blocks |-> (IF thinks /\ target = "anthropic" THEN {Thinking} ELSE {})
                      \cup (IF says \/ calls = 0 THEN {Text} ELSE {})
                      \cup {Block("tool_use", n, <<form, n>>) :
                              n \in requests * MaxToolUses + 1..requests * MaxToolUses + calls}]

ProxyMessages(target, thinks, says, calls) ==
    /\ requests < MaxRequests /\ talk # <<>> /\ talk[Len(talk)].role = "user"
    /\ LET repaired == Repaired(talk, target)
       IN  wire' = [target |-> target, repaired |-> repaired,
                    sent |-> IF target = "anthropic" THEN <<>> ELSE ToOpenAI(repaired),
                    replay |-> ToReplay(repaired)]
    /\ requests' = requests + 1
    /\ talk' = Append(talk, Answer(target, thinks, says, calls))
    /\ UNCHANGED cut

TalkNext ==
    \/ \E calls \in SUBSET LastCalls, text \in BOOLEAN : UserSays(calls, text)
    \/ DropOldest
    \/ \E p \in Providers, thinks, says \in BOOLEAN, n \in 0..MaxToolUses :
         ProxyMessages(p, thinks, says, n)

-----------------------------------------------------------------------------
(* In what is sent to an OpenAI model, and in what the benchmark worker     *)
(* replays, the calls of an answer are followed at once by the tool         *)
(* messages that answer each of them: the two conversions order a mixed     *)
(* message differently and are right only after the split.                  *)
CallsAreAnswered(msgs) ==
    \A i \in DOMAIN msgs :
        msgs[i].role = "assistant" /\ msgs[i].ids # {} =>
          /\ i + 1 \in DOMAIN msgs
          /\ msgs[i + 1].role = "tool" /\ msgs[i].ids \subseteq msgs[i + 1].ids
AnswersFollowCalls == CallsAreAnswered(wire.sent)
ReplaysFollowCalls == CallsAreAnswered(wire.replay)

(* As long as the client keeps its whole history, no tool message answers a *)
(* call that is not in the request; and no two calls have one identifier,   *)
(* whichever providers answered before.                                     *)
NoStrayAnswers ==
    /\ ~cut => IdsOf(wire.repaired, "tool_result") \subseteq IdsOf(wire.repaired, "tool_use")
    /\ \A b, c \in AllOf(wire.repaired, "tool_use") : b.id = c.id => b.n = c.n

\* What goes to a provider is a conversation it accepts: every answer follows the call it
\* names, also when it is replayed elsewhere, and none stands without its call.
ConversationsValid == AnswersFollowCalls /\ ReplaysFollowCalls /\ NoStrayAnswers
=============================================================================
