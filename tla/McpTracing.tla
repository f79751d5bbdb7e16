----------------------------- MODULE McpTracing -----------------------------
(***************************************************************************)
(* MCP tool calls of responses (pipeline/callback.py, mcp/extractor.py)    *)
(* and the worker that stores them with the edges of their execution graph *)
(* (mcp/writer.py). It overrides the loop of module QueueWorker: two       *)
(* queues, batches of calls with whatever edges there are, one transaction *)
(* for both. A call is <<n>>, an edge a pair of numbers.                   *)
(***************************************************************************)
EXTENDS Integers, Sequences, FiniteSets, SequencesExt

CONSTANTS
    CallCapacity, EdgeCapacity, McpBatch, MaxAttempts,
    BadCalls,               \* calls the database refuses
    MaxToolCalls, MaxPerResponse, MaxFaults \* bounds

ASSUME McpAssumption == CallCapacity \in Nat /\ EdgeCapacity \in Nat /\ McpBatch \in Nat

VARIABLES
    next,        \* the number of the next call
    callQueue, edgeQueue,
    callBatch, edgeBatch,
    writer,      \* [pc, attempt, stop, cut]: stop: the shutdown event, cut: was cancelled
    stored,      \* rows of mcp_calls and mcp_execution_graph
    reportedLost, \* calls and edges a log line names as dropped
    links,       \* edges of every response, for the properties
    faults

mcpVars == <<next, callQueue, edgeQueue, callBatch, edgeBatch, writer, stored, reportedLost, links, faults>>
batches == <<callBatch, edgeBatch>>
mcpQueues == <<callQueue, edgeQueue>>

McpInit ==
    /\ next = 1 /\ callQueue = <<>> /\ edgeQueue = <<>> /\ callBatch = <<>> /\ edgeBatch = <<>>
    /\ writer = [pc |-> "wait", attempt |-> 0, stop |-> FALSE, cut |-> FALSE]
    /\ stored = {} /\ reportedLost = {} /\ links = {} /\ faults = 0

\* A response with n MCP calls. build_execution_graph chains them, also those the
\* full queue drops.
Chain(calls) == [i \in 1..Len(calls) - 1 |-> calls[i] \o calls[i + 1]]
Fits(queue, capacity, items) ==
    SubSeq(items, 1, IF capacity - Len(queue) < Len(items) THEN capacity - Len(queue) ELSE Len(items))
Response(n) ==
    LET calls == [i \in 1..n |-> <<next + i - 1>>]
        edges == Chain(calls)
        taken == Fits(callQueue, CallCapacity, calls)
        linked == Fits(edgeQueue, EdgeCapacity, edges)
    IN  /\ next + n - 1 <= MaxToolCalls
        /\ next' = next + n
        /\ callQueue' = callQueue \o taken /\ edgeQueue' = edgeQueue \o linked
        /\ reportedLost' = reportedLost \cup (ToSet(calls) \ ToSet(taken)) \cup (ToSet(edges) \ ToSet(linked))
        /\ links' = links \cup {<<next + i - 1, next + i>> : i \in 1..n - 1}
        /\ UNCHANGED <<batches, writer, stored, faults>>

\* The loop: calls up to the batch size, every edge; then the flush.
Gather ==
    LET free == McpBatch - Len(callBatch)
        k == IF free < Len(callQueue) THEN free ELSE Len(callQueue)
    IN  /\ writer.pc = "wait" /\ ~writer.stop
        /\ callQueue # <<>> \/ edgeQueue # <<>>
        /\ callBatch' = callBatch \o SubSeq(callQueue, 1, k)
        /\ callQueue' = SubSeq(callQueue, k + 1, Len(callQueue))
        /\ edgeBatch' = edgeBatch \o edgeQueue /\ edgeQueue' = <<>>
        /\ writer' = [writer EXCEPT !.pc = "flush", !.attempt = 1]
        /\ UNCHANGED <<next, stored, reportedLost, links, faults>>
MutDrainFirstCall ==
    /\ writer.pc = "wait" /\ writer.stop /\ callQueue # <<>>
    /\ callBatch' = callBatch \o callQueue /\ edgeBatch' = edgeBatch \o edgeQueue
    /\ callQueue' = <<>> /\ edgeQueue' = <<>>
    /\ writer' = [writer EXCEPT !.pc = "last", !.attempt = 1]
    /\ UNCHANGED <<next, stored, reportedLost, links, faults>>
\* After the loop: everything, whatever its size, is one last batch.
Drain ==
    /\ writer.pc = "wait" /\ writer.stop
    /\ callBatch' = callBatch \o callQueue /\ edgeBatch' = edgeBatch \o edgeQueue
    /\ callQueue' = <<>> /\ edgeQueue' = <<>>
    /\ writer' = [writer EXCEPT !.pc = "last", !.attempt = 1]
    /\ UNCHANGED <<next, stored, reportedLost, links, faults>>

Flushing == writer.pc \in {"flush", "last"}
Rows == ToSet(callBatch) \cup ToSet(edgeBatch)
Done == [writer EXCEPT !.pc = IF writer.pc = "flush" THEN "wait" ELSE "ended", !.attempt = 0]
Acceptable(rows) == rows \cap (BadCalls \cup stored) = {}
Flushed ==
    /\ Flushing /\ writer.attempt <= MaxAttempts /\ Acceptable(Rows)
    /\ stored' = stored \cup Rows
    /\ callBatch' = <<>> /\ edgeBatch' = <<>> /\ writer' = Done
    /\ UNCHANGED <<next, mcpQueues, reportedLost, links, faults>>
\* The connection fails, before the commit or after it.
FlushFails(committed) ==
    /\ Flushing /\ writer.attempt <= MaxAttempts /\ faults < MaxFaults
    /\ committed => Acceptable(Rows)
    /\ stored' = IF committed THEN stored \cup Rows ELSE stored
    /\ writer' = [writer EXCEPT !.attempt = @ + 1]
    /\ faults' = faults + 1
    /\ UNCHANGED <<next, mcpQueues, batches, reportedLost, links>>
\* Attempts used up, or refused: each row by itself, what fails is dropped.
OneByOne(lost) == Rows \ (BadCalls \cup lost)
FallBack(lost) ==
    /\ Flushing
    /\ writer.attempt > MaxAttempts \/ ~Acceptable(Rows)
    /\ faults + Cardinality(lost) <= MaxFaults
    /\ stored' = stored \cup OneByOne(lost)
    /\ reportedLost' = reportedLost \cup (Rows \cap (BadCalls \cup stored \cup lost))
    /\ faults' = faults + Cardinality(lost)
    /\ callBatch' = <<>> /\ edgeBatch' = <<>> /\ writer' = Done
    /\ UNCHANGED <<next, mcpQueues, links>>

\* close(): the event, and after the timeout a cancellation, once; a flush that is
\* cut off keeps its batches for the drain, also in the
\* middle of the fallback.
Close ==
    /\ ~writer.stop /\ writer' = [writer EXCEPT !.stop = TRUE]
    /\ UNCHANGED <<next, mcpQueues, batches, stored, reportedLost, links, faults>>
MutCutOffForgets(written) ==
    /\ writer.stop /\ ~writer.cut /\ writer.pc = "flush"
    /\ writer' = [writer EXCEPT !.pc = "wait", !.cut = TRUE]
    /\ callBatch' = <<>> /\ edgeBatch' = <<>>
    /\ UNCHANGED <<next, mcpQueues, stored, reportedLost, links, faults>>
CutOff(written) ==
    /\ writer.stop /\ ~writer.cut /\ writer.pc = "flush"
    /\ written \in {{}, Rows} \/ writer.attempt > MaxAttempts \/ ~Acceptable(Rows)
    /\ stored' = stored \cup (written \ BadCalls)
    /\ writer' = [writer EXCEPT !.pc = "wait", !.cut = TRUE]
    /\ UNCHANGED <<next, mcpQueues, batches, reportedLost, links, faults>>
\* A second cut, in the last flush, ends the task with an exception.
CutOffDrain ==
    /\ writer.stop /\ ~writer.cut /\ writer.pc = "last"
    /\ writer' = [writer EXCEPT !.pc = "aborted", !.cut = TRUE]
    /\ UNCHANGED <<next, mcpQueues, batches, stored, reportedLost, links, faults>>

WriterStep ==
    \/ Gather \/ Drain \/ Flushed
    \/ \E committed \in BOOLEAN : FlushFails(committed)
    \/ \E lost \in SUBSET Rows : FallBack(lost)
McpNext ==
    \/ \E n \in 1..MaxPerResponse : Response(n)
    \/ WriterStep \/ Close \/ CutOffDrain
    \/ \E written \in SUBSET Rows : CutOff(written)

\* The database answers: the worker is never stuck in a flush.
McpFairness == WF_mcpVars(WriterStep)

\* Calls and edges are queued, in the batch of the worker, stored, or named as
\* dropped: over retries, the fallback, shutdown and one cancellation.
McpAccounted ==
    \A x \in {<<n>> : n \in 1..next - 1} \cup links :
        \/ x \in ToSet(callQueue) \cup ToSet(edgeQueue) \cup Rows
        \/ x \in stored \cup reportedLost

\* Once the worker is idle, and nothing was dropped, the graph of a trace shows
\* each response as one chain of all its calls, however they were batched.
ChainsAreWhole ==
    (callQueue = <<>> /\ edgeQueue = <<>> /\ Rows = {} /\ reportedLost = {})
      => stored = {<<n>> : n \in 1..next - 1} \cup links

\* A worker asked to stop comes to an end.
McpWriterEnds == writer.stop ~> writer.pc \in {"ended", "aborted"}

\* No call and no edge disappears silently, so that an undisturbed trace is whole.
CallGraphsKept == McpAccounted /\ ChainsAreWhole
=============================================================================
