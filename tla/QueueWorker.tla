---------------------------- MODULE QueueWorker ----------------------------
(***************************************************************************)
(* The capture pipeline: producers put events on a bounded asyncio queue   *)
(* without blocking, and one AsyncQueueWorker (EventWriter, or the routing *)
(* decision writer) drains it in batches into the database, with retries,  *)
(* a one-by-one fallback, and a drain on shutdown.                         *)
(*                                                                         *)
(* Everything between two awaits of the worker is one step, because the    *)
(* event loop is single-threaded; every await is a place where producers,  *)
(* shutdown() and the cancellation of close() interleave.                  *)
(***************************************************************************)
EXTENDS Integers, Sequences, FiniteSets, Functions

CONSTANTS
  Events,        \* the items offered to the queue, each one once
  Bad,           \* the items whose row the database always rejects
  QueueMax,      \* asyncio.Queue(maxsize=...)
  BatchSize,     \* self._batch_size
  MaxRetries,    \* MAX_RETRIES
  Kinds,         \* the workers considered
  StartCanFail,  \* create_pool may raise
  MaxFaults      \* bound on the connection faults of a behaviour

ASSUME WorkerAssumption ==
  /\ Bad \subseteq Events
  /\ QueueMax \in Nat \ {0}
  /\ BatchSize \in Nat \ {0}
  /\ MaxRetries \in Nat \ {0}
  /\ MaxFaults \in Nat
  /\ Kinds \subseteq {"callback", "application", "decisions"}
  /\ StartCanFail \in BOOLEAN

VARIABLES
  kind,       \* which worker this is: of a callback, of the application, of decisions
  pc,         \* where run() is suspended
  phase,      \* "loop" before, "drain" after the main loop
  queue,      \* self._queue
  batch,      \* the local variable batch of run()
  todo,       \* the items the fallback loop has still to insert
  attempt,    \* attempt of _flush_with_retry
  rows,       \* database: item -> number of rows written for it
  shutdown,   \* self._shutdown_event
  cancelled,  \* close() ran into its timeout and cancelled the task
  offered,    \* history: items handed to _enqueue
  overflow,   \* history: items refused by a full queue
  failed,     \* history: items logged as "dropping"
  abandoned,  \* history: items in the batch of a task cancelled while draining
  interrupted, \* history: a task was cancelled while it was writing
  faults      \* history: number of connection faults so far

memory == <<queue, batch, todo>>
history == <<offered, overflow, failed, abandoned, interrupted, faults>>
vars == <<kind, pc, phase, memory, attempt, rows, shutdown, cancelled, history>>

PCs == {"none", "start", "get", "drain", "flush", "fallback", "closed", "dead"}

(* In callback mode the first event starts the writer.                      *)
lazy == kind = "callback"

(* An event's row has the event's own id as its key; the row of a routing   *)
(* decision gets a new id and the time of the insert with each attempt.     *)
Keyed == kind # "decisions"

TypeOK ==
  /\ pc \in PCs
  /\ phase \in {"loop", "drain"}
  /\ queue \in Seq(Events) /\ Len(queue) <= QueueMax
  /\ batch \in Seq(Events)
  /\ todo \in Seq(Events)
  /\ attempt \in 0 .. MaxRetries - 1
  /\ rows \in [Events -> Nat]
  /\ shutdown \in BOOLEAN /\ cancelled \in BOOLEAN
  /\ offered \subseteq Events
  /\ overflow \subseteq Events
  /\ failed \subseteq Events
  /\ abandoned \subseteq Events
  /\ interrupted \in BOOLEAN
  /\ faults \in Nat

-----------------------------------------------------------------------------
(* The database.                                                           *)

Stored == {e \in Events : rows[e] > 0}

(* One COPY in one transaction: all rows or none. It is rejected when a row *)
(* is bad, or when the primary key of a row is already there.               *)
CanInsert(S) ==
  /\ S \cap Bad = {}
  /\ Keyed => S \cap Stored = {}

Inserted(S) == [e \in Events |-> IF e \in S THEN rows[e] + 1 ELSE rows[e]]

(* What a broken connection leaves behind: the transaction was committed   *)
(* and only the answer was lost, or it was rolled back.                    *)
MaybeInserted(S) ==
  \/ CanInsert(S) /\ rows' = Inserted(S)
  \/ rows' = rows

-----------------------------------------------------------------------------
Init ==
  /\ kind \in Kinds
  /\ pc = IF lazy THEN "none" ELSE "start"
  /\ phase = "loop"
  /\ queue = <<>> /\ batch = <<>> /\ todo = <<>>
  /\ attempt = 0
  /\ rows = [e \in Events |-> 0]
  /\ shutdown = FALSE /\ cancelled = FALSE
  /\ offered = {} /\ overflow = {} /\ failed = {} /\ abandoned = {}
  /\ interrupted = FALSE /\ faults = 0

(* _ensure_writer: a callback without a writer task starts a fresh one.    *)
EnsureWriter ==
  IF lazy /\ pc \in {"none", "closed"}
    THEN /\ pc' = "start"
         /\ phase' = "loop"
         /\ shutdown' = FALSE
         /\ cancelled' = FALSE
    ELSE UNCHANGED <<pc, phase, shutdown, cancelled>>

(* put_nowait: accepted, or dropped when the queue is full.                *)
Enqueue(e) ==
  IF Len(queue) < QueueMax
    THEN queue' = Append(queue, e) /\ UNCHANGED overflow
    ELSE overflow' = overflow \cup {e} /\ UNCHANGED queue

(* One captured call. In proxy mode the server has finished its requests    *)
(* before the lifespan shuts the writer down; a callback may log any time.  *)
LogEvent(e) ==
  /\ e \notin offered
  /\ lazy \/ ~shutdown
  /\ offered' = offered \cup {e}
  /\ EnsureWriter
  /\ Enqueue(e)
  /\ UNCHANGED <<batch, todo, attempt, rows, failed, abandoned, interrupted, faults>>

(* _ensure_pool answers; run() enters its loop unless already shut down.    *)
StartOk ==
  /\ pc = "start"
  /\ pc' = IF shutdown THEN "drain" ELSE "get"
  /\ UNCHANGED <<phase, memory, attempt, rows, shutdown, cancelled, history>>

(* create_pool raises: the task ends with the exception, and nobody starts  *)
(* another one, because the task object is still there.                     *)
StartFail ==
  /\ StartCanFail
  /\ pc = "start"
  /\ pc' = "dead"
  /\ UNCHANGED <<phase, memory, attempt, rows, shutdown, cancelled, history>>

(* The wait for the first item ends; whatever else is ready is taken too.   *)
Collect ==
  /\ pc = "get"
  /\ queue # <<>>
  /\ LET n == IF Len(queue) < BatchSize THEN Len(queue) ELSE BatchSize IN
       /\ batch' = SubSeq(queue, 1, n)
       /\ queue' = SubSeq(queue, n + 1, Len(queue))
  /\ pc' = "flush"
  /\ attempt' = 0
  /\ UNCHANGED <<phase, todo, rows, shutdown, cancelled, history>>

(* The wait times out with nothing queued and shutdown requested.           *)
LeaveLoop ==
  /\ pc = "get"
  /\ queue = <<>>
  /\ shutdown
  /\ pc' = "drain"
  /\ UNCHANGED <<phase, memory, attempt, rows, shutdown, cancelled, history>>

(* Mutant: the drain starts a new batch and forgets the interrupted one.    *)
MutDrainForgetsBatch ==
  /\ pc = "drain"
  /\ batch' = queue
  /\ queue' = <<>>
  /\ phase' = "drain"
  /\ attempt' = 0
  /\ pc' = IF batch' = <<>> THEN "closed" ELSE "flush"
  /\ UNCHANGED <<todo, rows, shutdown, cancelled, history>>

(* Mutant: the task ends with the interrupted batch, the queue is not read. *)
MutDrainSkipsQueue ==
  /\ pc = "drain"
  /\ phase' = "drain"
  /\ attempt' = 0
  /\ pc' = IF batch = <<>> THEN "closed" ELSE "flush"
  /\ UNCHANGED <<memory, rows, shutdown, cancelled, history>>

(* After the loop: everything queued joins the batch, which is flushed.     *)
Drain ==
  /\ pc = "drain"
  /\ batch' = batch \o queue
  /\ queue' = <<>>
  /\ phase' = "drain"
  /\ attempt' = 0
  /\ pc' = IF batch' = <<>> THEN "closed" ELSE "flush"
  /\ UNCHANGED <<todo, rows, shutdown, cancelled, history>>

(* Mutant: the loop goes on with the batch it has just written.             *)
MutFlushReturnsKeepsBatch ==
  /\ UNCHANGED batch
  /\ pc' = CASE phase = "drain" -> "closed"
             [] phase = "loop" /\ shutdown -> "drain"
             [] OTHER -> "get"

(* _flush_with_retry returned: the loop starts over with an empty batch, or *)
(* the drained task closes its pool and ends.                               *)
FlushReturns ==
  /\ batch' = <<>>
  /\ pc' = CASE phase = "drain" -> "closed"
             [] phase = "loop" /\ shutdown -> "drain"
             [] OTHER -> "get"

FlushOk ==
  /\ pc = "flush"
  /\ CanInsert(Range(batch))
  /\ rows' = Inserted(Range(batch))
  /\ FlushReturns
  /\ UNCHANGED <<phase, queue, todo, attempt, shutdown, cancelled, history>>

(* Mutant: one attempt too few before the fallback.                         *)
MutFlushTransientEarly ==
  /\ pc = "flush"
  /\ faults < MaxFaults
  /\ faults' = faults + 1
  /\ MaybeInserted(Range(batch))
  /\ IF attempt + 2 < MaxRetries
       THEN attempt' = attempt + 1 /\ UNCHANGED <<pc, todo>>
       ELSE pc' = "fallback" /\ todo' = batch /\ UNCHANGED attempt
  /\ UNCHANGED <<phase, queue, batch, shutdown, cancelled, offered, overflow,
                 failed, abandoned, interrupted>>

(* PostgresConnectionError or OSError: back off and try again, until the    *)
(* attempts are used up and the items are inserted one by one.              *)
FlushTransient ==
  /\ pc = "flush"
  /\ faults < MaxFaults
  /\ faults' = faults + 1
  /\ MaybeInserted(Range(batch))
  /\ IF attempt + 1 < MaxRetries
       THEN attempt' = attempt + 1 /\ UNCHANGED <<pc, todo>>
       ELSE pc' = "fallback" /\ todo' = batch /\ UNCHANGED attempt
  /\ UNCHANGED <<phase, queue, batch, shutdown, cancelled, offered, overflow,
                 failed, abandoned, interrupted>>

(* Any other exception ends the attempts at once.                           *)
FlushRejected ==
  /\ pc = "flush"
  /\ ~CanInsert(Range(batch))
  /\ pc' = "fallback"
  /\ todo' = batch
  /\ UNCHANGED <<phase, queue, batch, attempt, rows, shutdown, cancelled, history>>

(* The fallback loop moves on to the next item, or returns.                 *)
NextItem ==
  /\ todo' = Tail(todo)
  /\ IF Tail(todo) = <<>> THEN FlushReturns ELSE UNCHANGED <<batch, pc>>

ItemOk ==
  /\ pc = "fallback"
  /\ CanInsert({Head(todo)})
  /\ rows' = Inserted({Head(todo)})
  /\ NextItem
  /\ UNCHANGED <<phase, queue, attempt, shutdown, cancelled, history>>

(* One item cannot be written: rejected, or the connection broke. It is     *)
(* logged as dropped; a single insert is never retried.                     *)
ItemFails ==
  /\ pc = "fallback"
  /\ failed' = failed \cup {Head(todo)}
  /\ \/ ~CanInsert({Head(todo)}) /\ UNCHANGED <<rows, faults>>
     \/ /\ faults < MaxFaults
        /\ faults' = faults + 1
        /\ MaybeInserted({Head(todo)})
  /\ NextItem
  /\ UNCHANGED <<phase, queue, attempt, shutdown, cancelled, offered,
                 overflow, abandoned, interrupted>>

(* close() / the end of the lifespan: the event is set, then the task is    *)
(* awaited with a timeout.                                                  *)
Shutdown ==
  /\ ~shutdown
  /\ pc # "none"
  /\ shutdown' = TRUE
  /\ UNCHANGED <<pc, phase, memory, attempt, rows, cancelled, history>>

(* What the insert in flight leaves behind when its task is cancelled.      *)
InFlight ==
  CASE pc = "flush"    -> MaybeInserted(Range(batch))
    [] pc = "fallback" -> MaybeInserted({Head(todo)})
    [] OTHER           -> UNCHANGED rows

(* The timeout of close() cancels the task at its await, once. In the loop  *)
(* the cancellation is caught and leads to the drain, with the batch kept;  *)
(* anywhere else it ends the task.                                          *)
CancelTask ==
  /\ shutdown /\ ~cancelled
  /\ pc \in {"start", "get", "flush", "fallback"}
  /\ cancelled' = TRUE
  /\ interrupted' = (interrupted \/ pc \in {"flush", "fallback"})
  /\ InFlight
  /\ todo' = <<>>
  /\ IF pc # "start" /\ phase = "loop"
       THEN pc' = "drain" /\ UNCHANGED <<batch, abandoned>>
       ELSE /\ pc' = "closed"
            /\ abandoned' = abandoned \cup Range(batch)
            /\ batch' = <<>>
  /\ UNCHANGED <<phase, queue, attempt, shutdown, offered, overflow, failed, faults>>

Flush == FlushOk \/ FlushTransient \/ FlushRejected
Fallback == ItemOk \/ ItemFails

WorkerStep == StartOk \/ StartFail \/ Collect \/ LeaveLoop \/ Drain \/ Flush \/ Fallback

Next ==
  /\ \/ \E e \in Events : LogEvent(e)
     \/ WorkerStep
     \/ Shutdown
     \/ CancelTask
  /\ UNCHANGED kind

Spec == Init /\ [][Next]_vars

(* The event loop runs every ready task, and an await on the database or on *)
(* a timeout ends; producers, shutdown and the cancellation may never come. *)
FairSpec == Spec /\ WF_vars(WorkerStep /\ UNCHANGED kind)

-----------------------------------------------------------------------------
InMemory == Range(queue) \cup Range(batch)
Settled == Stored \cup overflow \cup failed \cup abandoned

(* No event disappears without a trace: an event handed to _enqueue is in    *)
(* the queue, in the batch being written, in the database, or was reported   *)
(* as dropped, through retries, fallback, cancellation and drain.            *)
NoSilentLoss == offered \subseteq InMemory \cup Settled

(* A flush repeated after a lost answer or a cancellation can write again    *)
(* what the first attempt had written: a routing decision has no key of its  *)
(* own that would refuse it. Nothing else repeats a row: each row beyond the *)
(* first is owed to a connection fault or to the one cancelled write, and a  *)
(* worker that meets neither writes every item once, through batches,        *)
(* fallback, shutdown and drain.                                             *)
RepeatsAreExplained ==
  \A e \in Events : rows[e] <= 1 + faults + (IF interrupted THEN 1 ELSE 0)

(* The fallback isolates bad rows: without connection faults, no event other *)
(* than the rejected ones is reported as dropped unless it is already stored. *)
FallbackIsolatesBadRows == faults = 0 => failed \subseteq Bad \cup Stored

(* Up to MaxRetries connection faults are masked: as long as no bad item was *)
(* offered, an event reported as dropped is in the database all the same. A  *)
(* cancelled flush voids this: its rows may be there, so that the drain is   *)
(* rejected as a whole and falls back to single inserts, not retried.        *)
RetriesMaskFaults ==
  offered \cap Bad = {} /\ ~interrupted /\ faults <= MaxRetries => failed \subseteq Stored

(* Every event the application's worker accepts is eventually written or     *)
(* reported, whether it runs on, is shut down, or is cancelled: the ways to  *)
(* leave it queued are a task that never had its pool, because it failed to  *)
(* connect or was cancelled before.                                          *)
EventuallySettled ==
  \A e \in Events :
    ~lazy /\ e \in Range(queue) ~>
      e \in Settled \/ pc = "dead" \/ (pc = "closed" /\ phase = "loop")

(* Shutting a worker down ends it, in either mode.                           *)
ShutdownEnds == shutdown ~> pc \in {"closed", "dead"}

(* Faults stay where they are: while the connection recovers within its     *)
(* retries nothing is reported lost, and a bad row takes no other row of its *)
(* batch with it.                                                           *)
FaultsStayLocal == RetriesMaskFaults /\ FallbackIsolatesBadRows

(* The worker settles: each event it may read is written or reported, and a *)
(* worker told to stop comes to an end.                                     *)
WriterSettles == EventuallySettled /\ ShutdownEnds
=============================================================================
