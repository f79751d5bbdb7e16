----------------------------- MODULE SdkTracing -----------------------------
(***************************************************************************)
(* Instrumented programs (sdk/decorators.py, sdk/client.py) and the route  *)
(* that takes their events (api/routes/ingest.py). A program has tasks,    *)
(* each with its own context variable; trace blocks nest; a report may     *)
(* fail, or its answer be lost, and nothing of that reaches the program.   *)
(***************************************************************************)
EXTENDS Integers, Sequences, FiniteSets

CONSTANTS
    ProgramTasks, MainTask, \* asyncio tasks; the others are spawned
    Clients,      \* kinds of client given to the decorator: "sync", "async", "none"
    Wraps,        \* times the provider's client has been patched
    IngestQueue,  \* capacity of the event queue of the server
    MaxTraces, MaxCalls \* bounds

ASSUME TracingAssumption == MainTask \in ProgramTasks /\ Wraps \in Nat

NoTrace == 0

VARIABLES
    context,  \* _active_trace of each task
    blocks,   \* open blocks of each task: [trace, token], the token is the value before
    spawned,  \* tasks that exist
    recorded, \* trace -> calls whose event ids are in its events list
    tracked,  \* calls: [task, by, pc, trace], by "decorator" or "patch"
    ingested, \* events the server took, in order: [call, trace]
    backlog   \* of them, how many are still queued

sdkVars == <<context, blocks, spawned, recorded, tracked, ingested, backlog>>

SdkInit ==
    /\ context = [t \in ProgramTasks |-> NoTrace] /\ blocks = [t \in ProgramTasks |-> <<>>]
    /\ spawned = {MainTask}
    /\ recorded = <<>> /\ tracked = <<>> /\ ingested = <<>> /\ backlog = 0

Busy(t) == \E c \in DOMAIN tracked : tracked[c].task = t /\ tracked[c].pc # "returned"

\* blockthrough_trace; a task that is created copies the context, not the blocks.
EnterTrace(t) ==
    /\ t \in spawned /\ ~Busy(t) /\ Len(recorded) < MaxTraces
    /\ recorded' = Append(recorded, {})
    /\ blocks' = [blocks EXCEPT ![t] = Append(@, [trace |-> Len(recorded'), token |-> context[t]])]
    /\ context' = [context EXCEPT ![t] = Len(recorded')]
    /\ UNCHANGED <<spawned, tracked, ingested, backlog>>
MutRestoredNone(block) == NoTrace
Restored(block) == block.token
ExitTrace(t) ==
    /\ blocks[t] # <<>> /\ ~Busy(t)
    /\ context' = [context EXCEPT ![t] = Restored(blocks[t][Len(blocks[t])])]
    /\ blocks' = [blocks EXCEPT ![t] = SubSeq(@, 1, Len(@) - 1)]
    /\ UNCHANGED <<spawned, recorded, tracked, ingested, backlog>>
Spawn(t, child) ==
    /\ t \in spawned /\ child \notin spawned
    /\ spawned' = spawned \cup {child}
    /\ context' = [context EXCEPT ![child] = context[t]]
    /\ UNCHANGED <<blocks, recorded, tracked, ingested, backlog>>

\* The function runs; its exception passes through and nothing is tracked.
FunctionCalled(t, by) ==
    /\ t \in spawned /\ ~Busy(t) /\ Len(tracked) < MaxCalls
    /\ tracked' = Append(tracked, [task |-> t, by |-> by, pc |-> "running", trace |-> NoTrace,
                                   left |-> 0])
    /\ UNCHANGED <<context, blocks, spawned, recorded, ingested, backlog>>
FunctionRaises(c) ==
    /\ tracked[c].pc = "running"
    /\ tracked' = [tracked EXCEPT ![c].pc = "returned"]
    /\ UNCHANGED <<context, blocks, spawned, recorded, ingested, backlog>>

\* _record_from_result and the reports of a patched client: the trace is the one
\* of the task when the function has returned. A decorated call is noted in the
\* trace before it is reported; a patch around a patch reports once more. The
\* coroutine of an asynchronous client is never awaited.
Noted(c, trace) ==
    IF tracked[c].by = "decorator" /\ trace # NoTrace
    THEN [recorded EXCEPT ![trace] = @ \cup {c}] ELSE recorded
FunctionReturns(c, client) ==
    LET reports == IF client # "sync" THEN 0 ELSE IF tracked[c].by = "patch" THEN Wraps ELSE 1
    IN  /\ tracked[c].pc = "running"
        /\ recorded' = Noted(c, context[tracked[c].task])
        /\ tracked' = [tracked EXCEPT ![c].trace = context[tracked[c].task], ![c].left = reports,
                                      ![c].pc = IF reports = 0 THEN "returned" ELSE "reporting"]
        /\ UNCHANGED <<context, blocks, spawned, ingested, backlog>>

\* track and POST /events/ingest. Connecting is retried, a request is not; any
\* error, a full queue's 503 too, is swallowed.
Reported(c, stored, answered) ==
    [tracked EXCEPT ![c].left = @ - 1,
                    ![c].pc = IF tracked[c].left = 1 THEN "returned" ELSE @]
Report(c, stored, answered) ==
    /\ tracked[c].pc = "reporting"
    /\ stored => backlog < IngestQueue
    /\ tracked' = Reported(c, stored, answered)
    /\ ingested' = IF stored THEN Append(ingested, [call |-> c, trace |-> tracked[c].trace])
                   ELSE ingested
    /\ backlog' = backlog + IF stored THEN 1 ELSE 0
    /\ UNCHANGED <<context, blocks, spawned, recorded>>
\* The writer takes an event (module QueueWorker).
EventTaken == /\ backlog > 0 /\ backlog' = backlog - 1
              /\ UNCHANGED <<context, blocks, spawned, recorded, tracked, ingested>>

SdkNext ==
    \/ EventTaken
    \/ \E t \in ProgramTasks :
         \/ EnterTrace(t) \/ ExitTrace(t)
         \/ \E child \in ProgramTasks : Spawn(t, child)
         \/ \E by \in {"decorator", "patch"} : FunctionCalled(t, by)
    \/ \E c \in DOMAIN tracked :
         \/ FunctionRaises(c)
         \/ \E client \in Clients : FunctionReturns(c, client)
         \/ \E stored, answered \in BOOLEAN : Report(c, stored, answered)

\* An event is filed under the innermost block open in the task that made the call,
\* also after inner blocks have been left.
InnermostTrace ==
    \A t \in ProgramTasks :
        blocks[t] # <<>> => context[t] = blocks[t][Len(blocks[t])].trace

\* A call reaches the server at most once for each wrapping of its client, although
\* answers are lost: nothing is sent again.
ReportedAtMostOnce ==
    \A c \in DOMAIN tracked :
        Cardinality({i \in DOMAIN ingested : ingested[i].call = c})
          <= IF tracked[c].by = "patch" THEN Wraps ELSE 1

\* A decorated call the server has in a trace was counted by the program in that
\* trace, whether or not its report was answered. (The reverse fails by design:
\* a trace counts what was lost.)
StoredIsCounted ==
    \A i \in DOMAIN ingested :
        LET c == ingested[i].call
        IN  tracked[c].by = "decorator" /\ ingested[i].trace # NoTrace
              => c \in recorded[ingested[i].trace]

\* Each recorded call belongs to the innermost trace around it, is counted there, and is
\* reported at most once.
TracesSound == InnermostTrace /\ ReportedAtMostOnce /\ StoredIsCounted
=============================================================================
