---------------------------- MODULE StreamBridge ----------------------------
(***************************************************************************)
(* The streamed answer of an OpenAI model on its way to a client that      *)
(* speaks Anthropic's protocol: the generator of                           *)
(* _handle_messages_via_openai_streaming turns deltas into block events,   *)
(* _StreamAccumulator notes what the captured event will say, and the      *)
(* client assembles blocks as _AnthropicStreamAccumulator does.            *)
(***************************************************************************)
EXTENDS Integers, FiniteSets, Sequences

CONSTANTS ToolIndexes, \* the indexes upstream gives to tool calls
          MaxDeltas    \* bound on the deltas of one answer

ASSUME BridgeAssumption == ToolIndexes \subseteq Nat /\ MaxDeltas \in Nat

VARIABLES upstream, \* at "streaming", "finished", then a stop reason or "broken"; the deltas
                    \* so far, and whether text followed a tool call
          acc,      \* tool_calls_by_index of the accumulator, as the set of its keys
          bridge,   \* the generator: block_idx and text_block_started
          client    \* the client: its blocks by index, those open, and whether it lost its way

bridgeVars == <<upstream, acc, bridge, client>>

BridgeInit ==
    /\ upstream = [at |-> "streaming", deltas |-> 0, mixed |-> FALSE]
    /\ acc = {}
    /\ bridge = [idx |-> 0, text |-> FALSE]
    /\ client = [blocks |-> {}, open |-> {}, confused |-> FALSE]

(* What the client makes of an event: a delta must address an open block, a *)
(* new block needs a free index and no other block open.                    *)
Starts(c, idx, kind) ==
    [blocks |-> c.blocks \cup {<<idx, kind>>}, open |-> c.open \cup {idx},
     confused |-> c.confused \/ c.open # {} \/ \E b \in c.blocks : b[1] = idx]
Hears(c, idx) == [c EXCEPT !.confused = @ \/ idx \notin c.open]
Stops(c, idx) == [c EXCEPT !.open = @ \ {idx}, !.confused = @ \/ idx \notin c.open]

Delta(mixed) ==
    /\ upstream.at = "streaming" /\ upstream.deltas < MaxDeltas
    /\ upstream' = [upstream EXCEPT !.deltas = @ + 1, !.mixed = mixed]

(* Text starts a block at block_idx if no text block is open. A tool block   *)
(* is open there once a call was named, and nothing closes it.               *)
TextDelta ==
    /\ Delta(upstream.mixed \/ acc # {})
    /\ bridge' = [bridge EXCEPT !.text = TRUE]
    /\ client' = Hears(IF bridge.text THEN client ELSE Starts(client, bridge.idx, "text"), bridge.idx)
    /\ UNCHANGED acc

(* The first delta of a call bears its name: an open text block is closed.  *)
MutNextBlockStays == bridge
NextBlock == IF bridge.text THEN [idx |-> bridge.idx + 1, text |-> FALSE] ELSE bridge
ToolNamed(i) ==
    /\ i \notin acc /\ Delta(upstream.mixed)
    /\ acc' = acc \cup {i}
    /\ bridge' = NextBlock
    /\ client' = Starts(IF bridge.text THEN Stops(client, bridge.idx) ELSE client, bridge'.idx, "tool")

ToolArguments(i) ==
    /\ i \in acc /\ Delta(upstream.mixed)
    /\ client' = Hears(client, bridge.idx)
    /\ UNCHANGED <<acc, bridge>>

(* finish_reason closes the block at block_idx if there was any; then the   *)
(* usage, whose stop reason the accumulator decides, and the end.           *)
Closes == bridge.text \/ bridge.idx > 0 \/ acc # {}
Finish ==
    /\ upstream.at = "streaming"
    /\ upstream' = [upstream EXCEPT !.at = "finished"]
    /\ client' = IF Closes THEN Stops(client, bridge.idx) ELSE client
    /\ UNCHANGED <<acc, bridge>>

Usage ==
    /\ upstream.at = "finished"
    /\ upstream' = [upstream EXCEPT !.at = IF acc # {} THEN "tool_use" ELSE "end_turn"]
    /\ UNCHANGED <<acc, bridge, client>>

StreamBreaks ==
    /\ upstream.at \notin {"tool_use", "end_turn", "broken"}
    /\ upstream' = [upstream EXCEPT !.at = "broken"]
    /\ UNCHANGED <<acc, bridge, client>>

BridgeNext ==
    \/ TextDelta \/ Finish \/ Usage \/ StreamBreaks
    \/ \E i \in ToolIndexes : ToolNamed(i) \/ ToolArguments(i)

-----------------------------------------------------------------------------
(* The client loses its way in exactly the answers that name a second tool   *)
(* call or send text after a call. Every other answer reaches it as blocks   *)
(* that are opened once, one at a time, and fed only while open, also when   *)
(* the stream breaks off, and none is left open by one that finished.        *)
TextThenACall == Cardinality(acc) <= 1 /\ ~upstream.mixed
BlocksNest ==
    /\ client.confused <=> ~TextThenACall
    /\ TextThenACall /\ upstream.at \in {"tool_use", "end_turn"} => client.open = {}
=============================================================================
