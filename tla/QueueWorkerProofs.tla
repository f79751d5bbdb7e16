------------------------- MODULE QueueWorkerProofs -------------------------
(***************************************************************************)
(* Proofs about QueueWorker, for every set of events, queue size, batch    *)
(* size and number of attempts, and for any number of faults.              *)
(***************************************************************************)
EXTENDS QueueWorker, SequenceTheorems, TLAPS

-----------------------------------------------------------------------------
(* What the sequence operators of the worker do to the set of its items.    *)

(* append and put_nowait add one item.                                      *)
LEMMA RangeAppend ==
  ASSUME NEW S, NEW s \in Seq(S), NEW e \in S
  PROVE  Range(Append(s, e)) = Range(s) \cup {e}
<1>1. /\ Append(s, e) \in Seq(S)
      /\ Len(Append(s, e)) = Len(s) + 1
      /\ \A i \in 1 .. Len(s) : Append(s, e)[i] = s[i]
      /\ Append(s, e)[Len(s) + 1] = e
  OBVIOUS
<1>2. DOMAIN s = 1 .. Len(s) /\ DOMAIN Append(s, e) = 1 .. Len(s) + 1
  BY <1>1
<1>3. Len(s) \in Nat
  OBVIOUS
<1> QED
  BY <1>1, <1>2, <1>3 DEF Range

(* batch.extend joins the items of both lists.                              *)
LEMMA RangeConcat ==
  ASSUME NEW S, NEW s \in Seq(S), NEW t \in Seq(S)
  PROVE  Range(s \o t) = Range(s) \cup Range(t)
<1>1. /\ Len(s) \in Nat /\ Len(t) \in Nat
      /\ DOMAIN s = 1 .. Len(s) /\ DOMAIN t = 1 .. Len(t)
  OBVIOUS
<1>2. /\ Len(s \o t) = Len(s) + Len(t)
      /\ DOMAIN (s \o t) = 1 .. Len(s) + Len(t)
      /\ \A i \in 1 .. Len(s) + Len(t) :
           (s \o t)[i] = IF i <= Len(s) THEN s[i] ELSE t[i - Len(s)]
  BY <1>1
<1>3. \A i \in 1 .. Len(t) : (s \o t)[Len(s) + i] = t[i]
  BY <1>1, <1>2
<1>4. Range(s \o t) \subseteq Range(s) \cup Range(t)
  BY <1>1, <1>2 DEF Range
<1>5. Range(s) \subseteq Range(s \o t)
  BY <1>1, <1>2 DEF Range
<1>6. Range(t) \subseteq Range(s \o t)
  <2>1. SUFFICES ASSUME NEW i \in 1 .. Len(t)
                 PROVE  t[i] \in Range(s \o t)
    BY <1>1 DEF Range
  <2>2. Len(s) + i \in DOMAIN (s \o t)
    BY <1>1, <1>2
  <2> QED
    BY <1>3, <2>2 DEF Range
<1> QED
  BY <1>4, <1>5, <1>6

(* The length of what is left when n of k items are taken.                  *)
LEMMA CountLeft ==
  \A k, n \in Nat : n <= k => (IF n + 1 <= k THEN k - (n + 1) + 1 ELSE 0) = k - n
  OBVIOUS

(* Taking the first n items splits the items between taken and left.        *)
LEMMA RangeSplit ==
  ASSUME NEW S, NEW s \in Seq(S), NEW n \in 0 .. Len(s)
  PROVE  /\ SubSeq(s, 1, n) \in Seq(S)
         /\ SubSeq(s, n + 1, Len(s)) \in Seq(S)
         /\ Len(SubSeq(s, 1, n)) = n
         /\ Len(SubSeq(s, n + 1, Len(s))) = Len(s) - n
         /\ Range(s) = Range(SubSeq(s, 1, n)) \cup Range(SubSeq(s, n + 1, Len(s)))
<1> DEFINE a == SubSeq(s, 1, n)
           b == SubSeq(s, n + 1, Len(s))
<1>1. Len(s) \in Nat /\ DOMAIN s = 1 .. Len(s) /\ n \in Nat /\ n <= Len(s)
  OBVIOUS
<1>2. /\ a \in Seq(S) /\ Len(a) = n /\ DOMAIN a = 1 .. n
      /\ \A i \in 1 .. n : a[i] = s[i]
  BY <1>1
<1>3. /\ b \in Seq(S) /\ Len(b) = Len(s) - n /\ DOMAIN b = 1 .. Len(s) - n
      /\ \A i \in 1 .. Len(s) - n : b[i] = s[n + i]
  <2>1. \A i \in n + 1 .. Len(s) : s[i] \in S
    BY <1>1
  <2>2. n + 1 \in Int /\ Len(s) \in Int
    BY <1>1
  <2>3. /\ b \in Seq(S)
        /\ Len(b) = IF n + 1 <= Len(s) THEN Len(s) - (n + 1) + 1 ELSE 0
        /\ \A i \in 1 .. Len(s) - (n + 1) + 1 : b[i] = s[(n + 1) + i - 1]
    BY <2>1, <2>2, SubSeqProperties
  <2>4. \A i \in 1 .. Len(s) - n : /\ i \in 1 .. Len(s) - (n + 1) + 1
                                  /\ (n + 1) + i - 1 = n + i
    BY <1>1
  <2> HIDE DEF b
  <2>5. Len(b) = Len(s) - n
    BY <1>1, <2>3, CountLeft
  <2> QED
    BY <2>3, <2>4, <2>5
<1>4. Range(s) \subseteq Range(a) \cup Range(b)
  <2>1. SUFFICES ASSUME NEW i \in 1 .. Len(s)
                 PROVE  s[i] \in Range(a) \cup Range(b)
    BY <1>1 DEF Range
  <2> HIDE DEF a, b
  <2>2. CASE i <= n
    <3>1. i \in 1 .. n
      BY <1>1, <2>2
    <3> QED
      BY <1>2, <3>1 DEF Range
  <2>3. CASE i > n
    <3>1. i - n \in 1 .. Len(s) - n /\ n + (i - n) = i
      BY <1>1, <2>3
    <3>2. b[i - n] = s[i]
      BY <1>3, <3>1
    <3> QED
      BY <1>3, <3>1, <3>2 DEF Range
  <2> QED
    BY <1>1, <2>2, <2>3
<1>5. Range(a) \subseteq Range(s)
  BY <1>1, <1>2 DEF Range
<1>6. Range(b) \subseteq Range(s)
  <2>1. \A i \in 1 .. Len(s) - n : n + i \in 1 .. Len(s)
    BY <1>1
  <2> QED
    BY <1>1, <1>3, <2>1 DEF Range
<1> QED
  BY <1>2, <1>3, <1>4, <1>5, <1>6

(* The loop over the batch handles its head and goes on with the tail.      *)
LEMMA RangeHeadTail ==
  ASSUME NEW S, NEW s \in Seq(S), s # <<>>
  PROVE  /\ Head(s) \in S
         /\ Tail(s) \in Seq(S)
         /\ Range(s) = {Head(s)} \cup Range(Tail(s))
<1> DEFINE t == Tail(s)
<1>1. /\ Len(s) \in Nat \ {0} /\ DOMAIN s = 1 .. Len(s)
      /\ Head(s) = s[1] /\ Head(s) \in S
  OBVIOUS
<1>2. /\ t \in Seq(S) /\ Len(t) = Len(s) - 1 /\ DOMAIN t = 1 .. Len(s) - 1
      /\ \A i \in 1 .. Len(s) - 1 : t[i] = s[i + 1]
  BY <1>1
<1>3. Range(s) \subseteq {Head(s)} \cup Range(t)
  <2>1. SUFFICES ASSUME NEW i \in 1 .. Len(s), i # 1
                 PROVE  s[i] \in Range(t)
    BY <1>1 DEF Range
  <2>2. i - 1 \in 1 .. Len(s) - 1 /\ t[i - 1] = s[i]
    BY <1>1, <1>2, <2>1
  <2> QED
    BY <1>2, <2>2 DEF Range
<1>4. {Head(s)} \subseteq Range(s)
  BY <1>1 DEF Range
<1>5. Range(t) \subseteq Range(s)
  <2>1. \A i \in 1 .. Len(s) - 1 : i + 1 \in 1 .. Len(s)
    BY <1>1
  <2> QED
    BY <1>1, <1>2, <2>1 DEF Range
<1> QED
  BY <1>1, <1>2, <1>3, <1>4, <1>5

(* The items of a sequence are in the set it is over; none, if it is empty. *)
LEMMA RangeTyped ==
  ASSUME NEW S, NEW s \in Seq(S)
  PROVE  Range(s) \subseteq S /\ (s = <<>> => Range(s) = {})
  BY DEF Range
-----------------------------------------------------------------------------
(* The inductive invariant. The flags below tie the local variables of      *)
(* run() to the place where it is suspended: a flush has something to       *)
(* write, nothing is left in the batch elsewhere, and during the fallback   *)
(* the batch is split into the items still to do and the items settled.     *)
BatchWhenFlushing == pc \in {"flush", "fallback"} => batch # <<>>
BatchEmptyOutside == pc \in {"none", "start", "get", "closed", "dead"} => batch = <<>>
FallbackSplitsBatch ==
  pc = "fallback" => /\ todo # <<>>
                     /\ Range(batch) \subseteq Range(todo) \cup Stored \cup failed

IInv ==
  /\ TypeOK
  /\ BatchWhenFlushing
  /\ BatchEmptyOutside
  /\ FallbackSplitsBatch
  /\ NoSilentLoss

(* Only rows are added: what is stored stays stored.                        *)
LEMMA InsertedStored ==
  ASSUME TypeOK, NEW S \in SUBSET Events, rows' = Inserted(S)
  PROVE  rows' \in [Events -> Nat] /\ Stored' = Stored \cup S
<1>1. rows' = [e \in Events |-> IF e \in S THEN rows[e] + 1 ELSE rows[e]]
  BY DEF Inserted
<1>2. rows \in [Events -> Nat]
  BY DEF TypeOK
<1>3. rows' \in [Events -> Nat]
  BY <1>1, <1>2
<1>4. \A e \in Events : rows'[e] > 0 <=> (rows[e] > 0 \/ e \in S)
  BY <1>1, <1>2
<1> QED
  BY <1>3, <1>4 DEF Stored

(* An insert that may have been lost stores nothing else.                   *)
LEMMA MaybeInsertedStored ==
  ASSUME TypeOK, NEW S \in SUBSET Events, MaybeInserted(S)
  PROVE  /\ rows' \in [Events -> Nat]
         /\ Stored \subseteq Stored'
<1>1. CASE rows' = Inserted(S)
  BY <1>1, InsertedStored
<1>2. CASE rows' = rows
  BY <1>2 DEF TypeOK, Stored
<1> QED
  BY <1>1, <1>2 DEF MaybeInserted

(* The initial state satisfies the invariant.                               *)
LEMMA InitIInv == Init => IInv
<1> SUFFICES ASSUME Init PROVE IInv
  OBVIOUS
<1> USE WorkerAssumption
<1>1. TypeOK
  <2>1. /\ queue \in Seq(Events) /\ Len(queue) <= QueueMax
        /\ batch \in Seq(Events) /\ todo \in Seq(Events)
        /\ rows \in [Events -> Nat]
    BY DEF Init
  <2>2. attempt \in 0 .. MaxRetries - 1 /\ faults \in Nat
    BY DEF Init
  <2>3. pc \in PCs /\ phase \in {"loop", "drain"}
    BY DEF Init, PCs
  <2>4. shutdown \in BOOLEAN /\ cancelled \in BOOLEAN
    BY DEF Init
  <2> QED
    BY <2>1, <2>2, <2>3, <2>4 DEF Init, TypeOK
<1>2. BatchWhenFlushing /\ BatchEmptyOutside /\ FallbackSplitsBatch
  BY DEF Init, BatchWhenFlushing, BatchEmptyOutside, FallbackSplitsBatch
<1>3. NoSilentLoss
  BY DEF Init, NoSilentLoss
<1> QED
  BY <1>1, <1>2, <1>3 DEF IInv

(* Logging an event: it enters the queue, or is reported.                   *)
LEMMA LogEventIInv ==
  ASSUME IInv, NEW e \in Events, LogEvent(e)
  PROVE  IInv'
<1> USE WorkerAssumption DEF IInv
<1>1. UNCHANGED <<batch, todo, attempt, rows, failed, abandoned, interrupted, faults>>
      /\ offered' = offered \cup {e}
  BY DEF LogEvent
<1>2. TypeOK'
  <2>3. /\ pc' \in PCs /\ phase' \in {"loop", "drain"}
        /\ shutdown' \in BOOLEAN /\ cancelled' \in BOOLEAN
    BY DEF TypeOK, LogEvent, EnsureWriter, PCs
  <2>1. CASE Len(queue) < QueueMax
    <3>1. queue' = Append(queue, e) /\ overflow' = overflow
      BY <2>1 DEF LogEvent, Enqueue
    <3>2. queue' \in Seq(Events) /\ Len(queue') = Len(queue) + 1
      BY <3>1 DEF TypeOK
    <3> QED
      BY <1>1, <2>1, <2>3, <3>1, <3>2 DEF TypeOK
  <2>2. CASE ~(Len(queue) < QueueMax)
    <3>1. queue' = queue /\ overflow' = overflow \cup {e}
      BY <2>2 DEF LogEvent, Enqueue
    <3> QED
      BY <1>1, <2>3, <3>1 DEF TypeOK
  <2> QED
    BY <2>1, <2>2
<1>3. pc' = pc \/ (pc \in {"none", "closed"} /\ pc' = "start")
  BY DEF LogEvent, EnsureWriter
<1>4. BatchWhenFlushing' /\ BatchEmptyOutside' /\ FallbackSplitsBatch'
  BY <1>1, <1>3 DEF BatchWhenFlushing, BatchEmptyOutside, FallbackSplitsBatch, Stored
<1>5. NoSilentLoss'
  <2>1. CASE Len(queue) < QueueMax
    <3>1. queue' = Append(queue, e) /\ overflow' = overflow
      BY <2>1 DEF LogEvent, Enqueue
    <3>2. Range(queue') = Range(queue) \cup {e}
      BY <3>1, RangeAppend DEF TypeOK
    <3> QED
      BY <1>1, <3>1, <3>2 DEF NoSilentLoss, InMemory, Settled, Stored
  <2>2. CASE ~(Len(queue) < QueueMax)
    BY <1>1, <2>2 DEF LogEvent, Enqueue, NoSilentLoss, InMemory, Settled, Stored
  <2> QED
    BY <2>1, <2>2
<1> QED
  BY <1>2, <1>4, <1>5

(* Steps that move the worker on without touching an item: starting, a      *)
(* failed start, leaving the loop, and the shutdown request.                *)
LEMMA QuietIInv ==
  ASSUME IInv,
         UNCHANGED <<phase, memory, attempt, rows, history>>,
         \/ pc' = pc
         \/ pc \in {"start", "get"} /\ pc' = "drain"
         \/ pc = "start" /\ pc' \in {"get", "dead"},
         shutdown' \in BOOLEAN, cancelled' = cancelled
  PROVE  IInv'
<1> USE DEF IInv, memory, history
<1>1. TypeOK'
  <2>1. cancelled' \in BOOLEAN
    BY DEF TypeOK
  <2>2. pc' \in PCs
    BY DEF TypeOK, PCs
  <2> QED
    BY <2>1, <2>2 DEF TypeOK
<1>2. BatchWhenFlushing' /\ BatchEmptyOutside' /\ FallbackSplitsBatch'
  BY DEF BatchWhenFlushing, BatchEmptyOutside, FallbackSplitsBatch, Stored
<1>3. NoSilentLoss'
  BY DEF NoSilentLoss, InMemory, Settled, Stored
<1> QED
  BY <1>1, <1>2, <1>3

(* Taking a batch: the queue's items are split between batch and queue.     *)
LEMMA CollectIInv ==
  ASSUME IInv, Collect
  PROVE  IInv'
<1> USE DEF IInv
<1> DEFINE n == IF Len(queue) < BatchSize THEN Len(queue) ELSE BatchSize
<1>1. /\ pc = "get" /\ pc' = "flush" /\ attempt' = 0
      /\ batch' = SubSeq(queue, 1, n)
      /\ queue' = SubSeq(queue, n + 1, Len(queue))
      /\ UNCHANGED <<phase, todo, rows, shutdown, cancelled>>
      /\ UNCHANGED <<offered, overflow, failed, abandoned, interrupted, faults>>
  BY DEF Collect, history
<1>2. n \in 0 .. Len(queue) /\ n > 0 /\ Len(queue) \in Nat
  <2>1. queue \in Seq(Events) /\ queue # <<>>
    BY DEF Collect, TypeOK
  <2>2. Len(queue) \in Nat /\ Len(queue) # 0
    BY <2>1
  <2> QED
    BY <2>2, WorkerAssumption DEF WorkerAssumption
<1> HIDE DEF n
<1>3. /\ batch' \in Seq(Events) /\ queue' \in Seq(Events)
      /\ Len(batch') = n /\ Len(queue') = Len(queue) - n
      /\ Range(queue) = Range(batch') \cup Range(queue')
  BY <1>1, <1>2, RangeSplit DEF TypeOK
<1>4. batch' # <<>>
  BY <1>2, <1>3
<1>5. batch = <<>> /\ Range(batch) = {}
  BY <1>1, RangeTyped DEF BatchEmptyOutside, TypeOK
<1>6. TypeOK'
  <2>1. Len(queue') <= QueueMax
    BY <1>2, <1>3, WorkerAssumption DEF WorkerAssumption, TypeOK
  <2>2. attempt' \in 0 .. MaxRetries - 1
    BY <1>1, WorkerAssumption DEF WorkerAssumption
  <2>3. shutdown' \in BOOLEAN /\ cancelled' \in BOOLEAN /\ pc' \in PCs
    BY <1>1 DEF TypeOK, PCs
  <2> QED
    BY <1>1, <1>3, <2>1, <2>2, <2>3 DEF TypeOK
<1>7. BatchWhenFlushing' /\ BatchEmptyOutside' /\ FallbackSplitsBatch'
  BY <1>1, <1>4 DEF BatchWhenFlushing, BatchEmptyOutside, FallbackSplitsBatch
<1>8. NoSilentLoss'
  BY <1>1, <1>3, <1>5 DEF NoSilentLoss, InMemory, Settled, Stored
<1> QED
  BY <1>6, <1>7, <1>8

(* Draining: the interrupted batch and the queue become one batch.          *)
LEMMA DrainIInv ==
  ASSUME IInv, Drain
  PROVE  IInv'
<1> USE DEF IInv
<1>1. /\ batch' = batch \o queue /\ queue' = <<>> /\ phase' = "drain" /\ attempt' = 0
      /\ pc' = IF batch' = <<>> THEN "closed" ELSE "flush"
      /\ UNCHANGED <<todo, rows, shutdown, cancelled>>
      /\ UNCHANGED <<offered, overflow, failed, abandoned, interrupted, faults>>
  BY DEF Drain, history
<1>2. batch' \in Seq(Events)
  BY <1>1, ConcatProperties DEF TypeOK
<1>3. Range(batch') = Range(batch) \cup Range(queue)
  BY <1>1, RangeConcat DEF TypeOK
<1>4. TypeOK'
  <2>1. queue' \in Seq(Events) /\ Len(queue') <= QueueMax
    BY <1>1, WorkerAssumption DEF WorkerAssumption
  <2>2. attempt' \in 0 .. MaxRetries - 1
    BY <1>1, WorkerAssumption DEF WorkerAssumption
  <2>3. shutdown' \in BOOLEAN /\ cancelled' \in BOOLEAN /\ pc' \in PCs
    BY <1>1 DEF TypeOK, PCs
  <2> QED
    BY <1>1, <1>2, <2>1, <2>2, <2>3 DEF TypeOK
<1>5. BatchWhenFlushing' /\ BatchEmptyOutside' /\ FallbackSplitsBatch'
  BY <1>1 DEF BatchWhenFlushing, BatchEmptyOutside, FallbackSplitsBatch
<1>6. NoSilentLoss'
  BY <1>1, <1>3 DEF NoSilentLoss, InMemory, Settled, Stored
<1> QED
  BY <1>4, <1>5, <1>6

(* The end of a flush: the batch is given up once its items are settled.    *)
LEMMA FlushReturnsIInv ==
  ASSUME IInv, FlushReturns,
         Range(batch) \subseteq Settled',
         Stored \subseteq Stored', failed \subseteq failed', failed' \subseteq Events,
         rows' \in [Events -> Nat], todo' \in Seq(Events), faults' \in Nat,
         UNCHANGED <<phase, queue, attempt, shutdown, cancelled>>,
         UNCHANGED <<offered, overflow, abandoned, interrupted>>
  PROVE  IInv'
<1> USE DEF IInv
<1>1. batch' = <<>> /\ pc' \in {"closed", "drain", "get"}
  BY DEF FlushReturns
<1>2. TypeOK'
  <2>1. shutdown' \in BOOLEAN /\ cancelled' \in BOOLEAN /\ pc' \in PCs
    BY <1>1 DEF TypeOK, PCs
  <2>2. batch' \in Seq(Events)
    BY <1>1
  <2> QED
    BY <2>1, <2>2 DEF TypeOK
<1>3. BatchWhenFlushing' /\ BatchEmptyOutside' /\ FallbackSplitsBatch'
  BY <1>1 DEF BatchWhenFlushing, BatchEmptyOutside, FallbackSplitsBatch
<1>4. NoSilentLoss'
  BY DEF NoSilentLoss, InMemory, Settled
<1> QED
  BY <1>2, <1>3, <1>4

(* A successful COPY stores the whole batch.                                *)
LEMMA FlushOkIInv ==
  ASSUME IInv, FlushOk
  PROVE  IInv'
<1> USE DEF IInv
<1>1. Range(batch) \subseteq Events
  BY RangeTyped DEF TypeOK
<1>2. rows' \in [Events -> Nat] /\ Stored' = Stored \cup Range(batch)
  BY <1>1, InsertedStored DEF FlushOk
<1>3. /\ UNCHANGED <<phase, queue, todo, attempt, shutdown, cancelled>>
      /\ UNCHANGED <<offered, overflow, failed, abandoned, interrupted, faults>>
  BY DEF FlushOk, history
<1>4. Range(batch) \subseteq Settled' /\ Stored \subseteq Stored'
  BY <1>2 DEF Settled
<1>5. failed' \subseteq Events /\ todo' \in Seq(Events) /\ faults' \in Nat
  BY <1>3 DEF TypeOK
<1> QED
  BY <1>2, <1>3, <1>4, <1>5, FlushReturnsIInv DEF FlushOk

(* A failed COPY: the batch stays, for another attempt or for the fallback. *)
LEMMA FlushFailsIInv ==
  ASSUME IInv, pc = "flush",
         \/ pc' = pc /\ todo' = todo
         \/ pc' = "fallback" /\ todo' = batch,
         rows' \in [Events -> Nat], Stored \subseteq Stored',
         attempt' \in 0 .. MaxRetries - 1, faults' \in Nat,
         UNCHANGED <<phase, queue, batch, shutdown, cancelled>>,
         UNCHANGED <<offered, overflow, failed, abandoned, interrupted>>
  PROVE  IInv'
<1> USE DEF IInv
<1>1. TypeOK'
  <2>1. shutdown' \in BOOLEAN /\ cancelled' \in BOOLEAN /\ pc' \in PCs
    BY DEF TypeOK, PCs
  <2>2. todo' \in Seq(Events)
    BY DEF TypeOK
  <2> QED
    BY <2>1, <2>2 DEF TypeOK
<1>2. batch # <<>>
  BY DEF BatchWhenFlushing
<1>3. BatchWhenFlushing' /\ BatchEmptyOutside' /\ FallbackSplitsBatch'
  BY <1>2 DEF BatchWhenFlushing, BatchEmptyOutside, FallbackSplitsBatch
<1>4. NoSilentLoss'
  BY DEF NoSilentLoss, InMemory, Settled
<1> QED
  BY <1>1, <1>3, <1>4

(* A connection fault during the COPY.                                      *)
LEMMA FlushTransientIInv ==
  ASSUME IInv, FlushTransient
  PROVE  IInv'
<1> USE DEF IInv
<1>1. Range(batch) \subseteq Events
  BY RangeTyped DEF TypeOK
<1>2. rows' \in [Events -> Nat] /\ Stored \subseteq Stored'
  BY <1>1, MaybeInsertedStored DEF FlushTransient
<1>3. attempt' \in 0 .. MaxRetries - 1
  BY WorkerAssumption DEF FlushTransient, TypeOK, WorkerAssumption
<1>4. faults' \in Nat
  BY DEF FlushTransient, TypeOK
<1>5. \/ pc' = pc /\ todo' = todo
      \/ pc' = "fallback" /\ todo' = batch
  BY DEF FlushTransient
<1> QED
  BY <1>2, <1>3, <1>4, <1>5, FlushFailsIInv DEF FlushTransient

(* A COPY rejected by the database.                                         *)
LEMMA FlushRejectedIInv ==
  ASSUME IInv, FlushRejected
  PROVE  IInv'
<1> USE DEF IInv
<1>1. rows' \in [Events -> Nat] /\ Stored \subseteq Stored'
  BY DEF FlushRejected, TypeOK, Stored
<1>2. attempt' \in 0 .. MaxRetries - 1 /\ faults' \in Nat
  BY DEF FlushRejected, TypeOK, history
<1> QED
  BY <1>1, <1>2, FlushFailsIInv DEF FlushRejected, history

(* One item of the fallback: stored, or reported as dropped.                *)
LEMMA ItemIInv ==
  ASSUME IInv, pc = "fallback", NextItem,
         rows' \in [Events -> Nat], Stored \subseteq Stored',
         failed \subseteq failed', failed' \subseteq Events,
         Head(todo) \in Stored' \cup failed', faults' \in Nat,
         UNCHANGED <<phase, queue, attempt, shutdown, cancelled>>,
         UNCHANGED <<offered, overflow, abandoned, interrupted>>
  PROVE  IInv'
<1> USE DEF IInv
<1>1. todo # <<>> /\ Range(batch) \subseteq Range(todo) \cup Stored \cup failed
  BY DEF FallbackSplitsBatch
<1>2. /\ Tail(todo) \in Seq(Events)
      /\ Range(todo) = {Head(todo)} \cup Range(Tail(todo))
  BY <1>1, RangeHeadTail DEF TypeOK
<1>3. todo' = Tail(todo)
  BY DEF NextItem
<1>4. CASE Tail(todo) = <<>>
  <2>1. Range(Tail(todo)) = {}
    BY <1>2, <1>4, RangeTyped
  <2>2. Range(batch) \subseteq Settled'
    BY <1>1, <1>2, <2>1 DEF Settled
  <2>3. FlushReturns
    BY <1>4 DEF NextItem
  <2> QED
    BY <1>2, <1>3, <2>2, <2>3, FlushReturnsIInv
<1>5. CASE Tail(todo) # <<>>
  <2>1. batch' = batch /\ pc' = pc
    BY <1>5 DEF NextItem
  <2>2. TypeOK'
    <3>1. shutdown' \in BOOLEAN /\ cancelled' \in BOOLEAN
      BY DEF TypeOK
    <3> QED
      BY <1>2, <1>3, <2>1, <3>1 DEF TypeOK
  <2>3. BatchWhenFlushing' /\ BatchEmptyOutside'
    BY <2>1 DEF BatchWhenFlushing, BatchEmptyOutside
  <2>4. FallbackSplitsBatch'
    BY <1>1, <1>2, <1>3, <1>5, <2>1 DEF FallbackSplitsBatch
  <2>5. NoSilentLoss'
    BY <2>1 DEF NoSilentLoss, InMemory, Settled
  <2> QED
    BY <2>2, <2>3, <2>4, <2>5
<1> QED
  BY <1>4, <1>5

(* A single insert that succeeds.                                           *)
LEMMA ItemOkIInv ==
  ASSUME IInv, ItemOk
  PROVE  IInv'
<1> USE DEF IInv
<1>1. pc = "fallback" /\ todo # <<>> /\ Head(todo) \in Events
  BY RangeHeadTail DEF ItemOk, FallbackSplitsBatch, TypeOK
<1>2. rows' \in [Events -> Nat] /\ Stored' = Stored \cup {Head(todo)}
  BY <1>1, InsertedStored DEF ItemOk
<1>3. /\ UNCHANGED <<phase, queue, attempt, shutdown, cancelled>>
      /\ UNCHANGED <<offered, overflow, failed, abandoned, interrupted, faults>>
  BY DEF ItemOk, history
<1>4. failed' \subseteq Events /\ faults' \in Nat
  BY <1>3 DEF TypeOK
<1> QED
  BY <1>1, <1>2, <1>3, <1>4, ItemIInv DEF ItemOk

(* A single insert that fails, whatever the broken connection left behind.  *)
LEMMA ItemFailsIInv ==
  ASSUME IInv, ItemFails
  PROVE  IInv'
<1> USE DEF IInv
<1>1. pc = "fallback" /\ todo # <<>> /\ Head(todo) \in Events
  BY RangeHeadTail DEF ItemFails, FallbackSplitsBatch, TypeOK
<1>2. /\ UNCHANGED <<phase, queue, attempt, shutdown, cancelled>>
      /\ UNCHANGED <<offered, overflow, abandoned, interrupted>>
      /\ failed' = failed \cup {Head(todo)}
  BY DEF ItemFails
<1>3. rows' \in [Events -> Nat] /\ Stored \subseteq Stored' /\ faults' \in Nat
  <2>1. CASE UNCHANGED <<rows, faults>>
    BY <2>1 DEF TypeOK, Stored
  <2>2. CASE faults' = faults + 1 /\ MaybeInserted({Head(todo)})
    <3>1. rows' \in [Events -> Nat] /\ Stored \subseteq Stored'
      BY <1>1, <2>2, MaybeInsertedStored
    <3> QED
      BY <2>2, <3>1 DEF TypeOK
  <2> QED
    BY <2>1, <2>2 DEF ItemFails
<1>4. failed' \subseteq Events /\ failed \subseteq failed' /\ Head(todo) \in failed'
  BY <1>1, <1>2 DEF TypeOK
<1> QED
  BY <1>1, <1>2, <1>3, <1>4, ItemIInv DEF ItemFails

(* Cancellation: the batch is kept for the drain, or reported as abandoned. *)
LEMMA CancelTaskIInv ==
  ASSUME IInv, CancelTask
  PROVE  IInv'
<1> USE DEF IInv
<1>1. /\ cancelled' = TRUE /\ todo' = <<>> /\ interrupted' \in BOOLEAN
      /\ UNCHANGED <<phase, queue, attempt, shutdown>>
      /\ UNCHANGED <<offered, overflow, failed, faults>>
  BY DEF CancelTask
<1>2. rows' \in [Events -> Nat] /\ Stored \subseteq Stored'
  <2>1. CASE pc = "flush"
    <3>1. Range(batch) \subseteq Events
      BY RangeTyped DEF TypeOK
    <3> QED
      BY <2>1, <3>1, MaybeInsertedStored DEF CancelTask, InFlight
  <2>2. CASE pc = "fallback"
    <3>1. Head(todo) \in Events
      BY <2>2, RangeHeadTail DEF FallbackSplitsBatch, TypeOK
    <3> QED
      BY <2>2, <3>1, MaybeInsertedStored DEF CancelTask, InFlight
  <2>3. CASE pc \notin {"flush", "fallback"}
    BY <2>3 DEF CancelTask, InFlight, TypeOK, Stored
  <2> QED
    BY <2>1, <2>2, <2>3
<1>3. CASE pc # "start" /\ phase = "loop"
  <2>1. pc' = "drain" /\ batch' = batch /\ abandoned' = abandoned
    BY <1>3 DEF CancelTask
  <2>2. TypeOK'
    <3>1. /\ shutdown' \in BOOLEAN /\ cancelled' \in BOOLEAN /\ pc' \in PCs
          /\ interrupted' \in BOOLEAN
      BY <1>1, <2>1 DEF TypeOK, PCs
    <3>2. todo' \in Seq(Events)
      BY <1>1
    <3> QED
      BY <1>1, <1>2, <2>1, <3>1, <3>2 DEF TypeOK
  <2>3. BatchWhenFlushing' /\ BatchEmptyOutside' /\ FallbackSplitsBatch'
    BY <2>1 DEF BatchWhenFlushing, BatchEmptyOutside, FallbackSplitsBatch
  <2>4. NoSilentLoss'
    BY <1>1, <1>2, <2>1 DEF NoSilentLoss, InMemory, Settled
  <2> QED
    BY <2>2, <2>3, <2>4
<1>4. CASE ~(pc # "start" /\ phase = "loop")
  <2>1. pc' = "closed" /\ batch' = <<>> /\ abandoned' = abandoned \cup Range(batch)
    BY <1>4 DEF CancelTask
  <2>2. TypeOK'
    <3>1. /\ shutdown' \in BOOLEAN /\ cancelled' \in BOOLEAN /\ pc' \in PCs
          /\ interrupted' \in BOOLEAN
      BY <1>1, <2>1 DEF TypeOK, PCs
    <3>2. todo' \in Seq(Events) /\ batch' \in Seq(Events)
      BY <1>1, <2>1
    <3>3. abandoned' \subseteq Events
      BY <2>1, RangeTyped DEF TypeOK
    <3> QED
      BY <1>1, <1>2, <3>1, <3>2, <3>3 DEF TypeOK
  <2>3. BatchWhenFlushing' /\ BatchEmptyOutside' /\ FallbackSplitsBatch'
    BY <2>1 DEF BatchWhenFlushing, BatchEmptyOutside, FallbackSplitsBatch
  <2>4. NoSilentLoss'
    BY <1>1, <1>2, <2>1 DEF NoSilentLoss, InMemory, Settled
  <2> QED
    BY <2>2, <2>3, <2>4
<1> QED
  BY <1>3, <1>4

(* Every step keeps the invariant.                                          *)
LEMMA NextIInv == IInv /\ [Next]_vars => IInv'
<1> SUFFICES ASSUME IInv, [Next]_vars PROVE IInv'
  OBVIOUS
<1>1. ASSUME NEW e \in Events, LogEvent(e) PROVE IInv'
  BY <1>1, LogEventIInv
<1>2. CASE StartOk \/ StartFail \/ LeaveLoop
  <2>1. shutdown' \in BOOLEAN
    BY <1>2 DEF StartOk, StartFail, LeaveLoop, IInv, TypeOK
  <2> QED
    BY <1>2, <2>1, QuietIInv DEF StartOk, StartFail, LeaveLoop
<1>3. CASE Shutdown
  BY <1>3, QuietIInv DEF Shutdown
<1>4. CASE UNCHANGED vars
  <2>1. shutdown' \in BOOLEAN
    BY <1>4 DEF vars, IInv, TypeOK
  <2> QED
    BY <1>4, <2>1, QuietIInv DEF vars
<1>5. CASE Collect \/ Drain
  BY <1>5, CollectIInv, DrainIInv
<1>6. CASE Flush
  BY <1>6, FlushOkIInv, FlushTransientIInv, FlushRejectedIInv DEF Flush
<1>7. CASE Fallback
  BY <1>7, ItemOkIInv, ItemFailsIInv DEF Fallback
<1>8. CASE CancelTask
  BY <1>8, CancelTaskIInv
<1> QED
  BY <1>1, <1>2, <1>3, <1>4, <1>5, <1>6, <1>7, <1>8 DEF Next, WorkerStep

(* The worker's invariant holds in every reachable state.                   *)
THEOREM WorkerInvariant == Spec => []IInv
  BY InitIInv, NextIInv, PTL DEF Spec

(* Types, and with them the bound on the queue: put_nowait never lets the   *)
(* queue grow beyond its maxsize.                                           *)
THEOREM TypeCorrect == Spec => []TypeOK
<1>1. IInv => TypeOK
  BY DEF IInv
<1> QED
  BY <1>1, WorkerInvariant, PTL

(* No event handed to the pipeline disappears without being stored or       *)
(* reported, for any sizes, any number of retries and any faults.           *)
THEOREM NothingLostSilently == Spec => []NoSilentLoss
<1>1. IInv => NoSilentLoss
  BY DEF IInv
<1> QED
  BY <1>1, WorkerInvariant, PTL

-----------------------------------------------------------------------------
(* That retries mask faults rests on where an item can be: in the queue at  *)
(* most once, and not there once it was taken or stored; and the fallback   *)
(* works on items of the batch.                                             *)
NoRepetition(s) == \A i, j \in DOMAIN s : s[i] = s[j] => i = j

ItemsApart ==
  /\ Range(queue) \cup Range(batch) \cup Stored \subseteq offered
  /\ NoRepetition(queue)
  /\ Range(queue) \cap (Range(batch) \cup Stored) = {}
  /\ pc = "fallback" => Range(todo) \subseteq Range(batch)

(* A new item does not repeat one.                                          *)
LEMMA AppendNew ==
  ASSUME NEW S, NEW s \in Seq(S), NEW e \in S, NoRepetition(s), e \notin Range(s)
  PROVE  NoRepetition(Append(s, e))
<1> DEFINE t == Append(s, e)
<1>1. /\ Len(s) \in Nat /\ DOMAIN s = 1 .. Len(s) /\ DOMAIN t = 1 .. Len(s) + 1
      /\ \A i \in 1 .. Len(s) : t[i] = s[i]
      /\ t[Len(s) + 1] = e
  OBVIOUS
<1>2. \A i \in 1 .. Len(s) : s[i] # e
  BY <1>1 DEF Range
<1> HIDE DEF t
<1> SUFFICES ASSUME NEW i \in 1 .. Len(s) + 1, NEW j \in 1 .. Len(s) + 1, t[i] = t[j]
             PROVE  i = j
  BY <1>1 DEF NoRepetition, t
<1>3. CASE i \in 1 .. Len(s) /\ j \in 1 .. Len(s)
  BY <1>1, <1>3 DEF NoRepetition
<1>4. CASE i = Len(s) + 1 \/ j = Len(s) + 1
  BY <1>1, <1>2, <1>4
<1> QED
  BY <1>1, <1>3, <1>4

(* What is taken from a queue without repetitions is not left in it.        *)
LEMMA SplitApart ==
  ASSUME NEW S, NEW s \in Seq(S), NEW n \in 0 .. Len(s), NoRepetition(s)
  PROVE  /\ NoRepetition(SubSeq(s, n + 1, Len(s)))
         /\ Range(SubSeq(s, 1, n)) \cap Range(SubSeq(s, n + 1, Len(s))) = {}
<1> DEFINE a == SubSeq(s, 1, n)
           b == SubSeq(s, n + 1, Len(s))
<1>1. Len(s) \in Nat /\ DOMAIN s = 1 .. Len(s) /\ n \in Nat /\ n <= Len(s)
  OBVIOUS
<1>2. DOMAIN a = 1 .. n /\ \A i \in 1 .. n : a[i] = s[i]
  BY <1>1
<1>3. b \in Seq(S) /\ Len(b) = Len(s) - n
  BY RangeSplit
<1>4. \A i \in 1 .. Len(s) - n : b[i] = s[n + i]
  <2>1. \A i \in n + 1 .. Len(s) : s[i] \in S
    BY <1>1
  <2>2. n + 1 \in Int /\ Len(s) \in Int
    BY <1>1
  <2>3. \A i \in 1 .. Len(s) - (n + 1) + 1 : b[i] = s[(n + 1) + i - 1]
    BY <2>1, <2>2, SubSeqProperties
  <2>4. \A i \in 1 .. Len(s) - n : /\ i \in 1 .. Len(s) - (n + 1) + 1
                                  /\ (n + 1) + i - 1 = n + i
    BY <1>1
  <2> HIDE DEF b
  <2> QED
    BY <2>3, <2>4
<1> HIDE DEF a, b
<1>5. DOMAIN b = 1 .. Len(s) - n
  BY <1>3
<1>6. NoRepetition(b)
  <2> SUFFICES ASSUME NEW i \in 1 .. Len(s) - n, NEW j \in 1 .. Len(s) - n, b[i] = b[j]
               PROVE  i = j
    BY <1>5 DEF NoRepetition
  <2>1. n + i \in DOMAIN s /\ n + j \in DOMAIN s /\ s[n + i] = s[n + j]
    BY <1>1, <1>4
  <2>2. n + i = n + j
    BY <2>1 DEF NoRepetition
  <2> QED
    BY <1>1, <2>2
<1>7. Range(a) \cap Range(b) = {}
  <2> SUFFICES ASSUME NEW i \in 1 .. n, NEW j \in 1 .. Len(s) - n, a[i] = b[j]
               PROVE  FALSE
    BY <1>2, <1>5 DEF Range
  <2>1. i \in DOMAIN s /\ n + j \in DOMAIN s /\ s[i] = s[n + j]
    BY <1>1, <1>2, <1>4
  <2>2. i = n + j
    BY <2>1 DEF NoRepetition
  <2> QED
    BY <1>1, <2>2
<1> QED
  BY <1>6, <1>7 DEF a, b

(* An insert that may have been lost stores its items or nothing.           *)
LEMMA MaybeInsertedAll ==
  ASSUME TypeOK, NEW S \in SUBSET Events, MaybeInserted(S)
  PROVE  Stored' = Stored \/ Stored' = Stored \cup S
<1>1. CASE rows' = Inserted(S)
  BY <1>1, InsertedStored
<1>2. CASE rows' = rows
  BY <1>2 DEF Stored
<1> QED
  BY <1>1, <1>2 DEF MaybeInserted

(* What the types say of the items a step writes.                           *)
LEMMA ItemsTyped ==
  ASSUME IInv
  PROVE  /\ TypeOK
         /\ Range(batch) \subseteq Events /\ Range(queue) \subseteq Events
         /\ Range(todo) \subseteq Events
         /\ pc = "fallback" => /\ todo # <<>> /\ Head(todo) \in Events
                               /\ Range(todo) = {Head(todo)} \cup Range(Tail(todo))
<1>1. TypeOK
  BY DEF IInv
<1>2. Range(batch) \subseteq Events /\ Range(queue) \subseteq Events /\ Range(todo) \subseteq Events
  BY <1>1, RangeTyped DEF TypeOK
<1>3. pc = "fallback" => todo # <<>>
  BY DEF IInv, FallbackSplitsBatch
<1> QED
  BY <1>1, <1>2, <1>3, RangeHeadTail DEF TypeOK

(* A step that writes leaves the queue alone, stores items of the batch     *)
(* only, and keeps the batch or gives it up.                                *)
LEMMA WritingApart ==
  ASSUME IInv, ItemsApart, UNCHANGED <<queue, offered>>,
         Stored' \subseteq Stored \cup Range(batch),
         batch' = batch \/ batch' = <<>>,
         pc' = "fallback" => batch' = batch /\ Range(todo') \subseteq Range(batch)
  PROVE  ItemsApart'
<1>1. Range(batch') \subseteq Range(batch)
  BY RangeTyped, batch' = <<>> => batch' \in Seq(Events)
<1> QED
  BY <1>1 DEF ItemsApart

LEMMA NextItemApart ==
  ASSUME IInv, pc = "fallback", NextItem, Range(todo) \subseteq Range(batch)
  PROVE  /\ batch' = batch \/ batch' = <<>>
         /\ pc' = "fallback" => batch' = batch /\ Range(todo') \subseteq Range(batch)
         /\ Range(todo') \subseteq Range(todo)
<1>1. Range(Tail(todo)) \subseteq Range(todo)
  BY ItemsTyped
<1>2. todo' = Tail(todo)
  BY DEF NextItem
<1>3. CASE Tail(todo) = <<>>
  BY <1>1, <1>2, <1>3 DEF NextItem, FlushReturns
<1>4. CASE Tail(todo) # <<>>
  BY <1>1, <1>2, <1>4 DEF NextItem
<1> QED
  BY <1>3, <1>4

LEMMA NextApart == IInv /\ ItemsApart /\ [Next]_vars => ItemsApart'
<1> SUFFICES ASSUME IInv, ItemsApart, [Next]_vars PROVE ItemsApart'
  OBVIOUS
<1>1. ASSUME NEW e \in Events, LogEvent(e) PROVE ItemsApart'
  <2>1. /\ e \notin offered /\ offered' = offered \cup {e}
        /\ UNCHANGED <<batch, todo, rows>> /\ Stored' = Stored
    BY <1>1 DEF LogEvent, Stored
  <2>2. pc' = "fallback" => pc = "fallback"
    BY <1>1 DEF LogEvent, EnsureWriter
  <2>3. e \notin Range(queue) /\ e \notin Range(batch) /\ e \notin Stored
    BY <2>1 DEF ItemsApart
  <2>4. CASE queue' = queue
    BY <2>1, <2>2, <2>4 DEF ItemsApart
  <2>5. CASE queue' = Append(queue, e)
    <3>1. queue \in Seq(Events)
      BY DEF IInv, TypeOK
    <3>2. Range(queue') = Range(queue) \cup {e} /\ NoRepetition(queue')
      BY <2>3, <2>5, <3>1, RangeAppend, AppendNew DEF ItemsApart
    <3> QED
      BY <2>1, <2>2, <2>3, <3>2 DEF ItemsApart
  <2> QED
    BY <1>1, <2>4, <2>5 DEF LogEvent, Enqueue
<1>2. CASE \/ StartOk \/ StartFail \/ LeaveLoop \/ Shutdown \/ UNCHANGED vars
  <2>1. UNCHANGED <<queue, batch, todo, rows, offered>> /\ Stored' = Stored
    BY <1>2 DEF StartOk, StartFail, LeaveLoop, Shutdown, vars, memory, history, Stored
  <2>2. pc' = "fallback" => pc = "fallback"
    BY <1>2 DEF StartOk, StartFail, LeaveLoop, Shutdown, vars
  <2> QED
    BY <2>1, <2>2 DEF ItemsApart
<1>3. CASE Collect
  <2> DEFINE n == IF Len(queue) < BatchSize THEN Len(queue) ELSE BatchSize
  <2>1. /\ batch' = SubSeq(queue, 1, n) /\ queue' = SubSeq(queue, n + 1, Len(queue))
        /\ pc' = "flush" /\ offered' = offered /\ Stored' = Stored
    BY <1>3 DEF Collect, history, Stored
  <2>2. queue \in Seq(Events) /\ n \in 0 .. Len(queue)
    BY WorkerAssumption DEF IInv, TypeOK, WorkerAssumption
  <2> HIDE DEF n
  <2>3. /\ Range(queue) = Range(batch') \cup Range(queue')
        /\ NoRepetition(queue') /\ Range(batch') \cap Range(queue') = {}
    BY <2>1, <2>2, RangeSplit, SplitApart DEF ItemsApart
  <2> QED
    BY <2>1, <2>3 DEF ItemsApart
<1>4. CASE Drain
  <2>1. /\ Range(batch') = Range(batch) \cup Range(queue) /\ queue' = <<>>
        /\ pc' # "fallback" /\ offered' = offered /\ Stored' = Stored
    BY <1>4, RangeConcat DEF Drain, history, Stored, IInv, TypeOK
  <2>2. Range(queue') = {} /\ NoRepetition(queue')
    BY <2>1 DEF NoRepetition, Range
  <2> QED
    BY <2>1, <2>2 DEF ItemsApart
<1>5. CASE FlushOk
  <2>1. Stored' = Stored \cup Range(batch)
    BY <1>5, ItemsTyped, InsertedStored DEF FlushOk
  <2>2. batch' = <<>> /\ pc' # "fallback" /\ UNCHANGED <<queue, offered>>
    BY <1>5 DEF FlushOk, FlushReturns, history
  <2> QED
    BY <2>1, <2>2, WritingApart
<1>6. CASE FlushTransient
  <2>1. Stored' \subseteq Stored \cup Range(batch)
    BY <1>6, ItemsTyped, MaybeInsertedAll DEF FlushTransient
  <2>2. /\ batch' = batch /\ UNCHANGED <<queue, offered>>
        /\ pc' = "fallback" => todo' = batch
    BY <1>6 DEF FlushTransient
  <2> QED
    BY <2>1, <2>2, WritingApart
<1>7. CASE FlushRejected
  <2>1. /\ batch' = batch /\ todo' = batch /\ UNCHANGED <<queue, offered>> /\ Stored' = Stored
    BY <1>7 DEF FlushRejected, history, Stored
  <2> QED
    BY <2>1, WritingApart
<1>8. CASE ItemOk \/ ItemFails
  <2>1. /\ pc = "fallback" /\ Head(todo) \in Events /\ Head(todo) \in Range(batch)
        /\ Range(todo) \subseteq Range(batch)
    BY <1>8, ItemsTyped DEF ItemOk, ItemFails, ItemsApart
  <2>2. Stored' \subseteq Stored \cup {Head(todo)}
    <3>1. CASE ItemOk
      BY <2>1, <3>1, ItemsTyped, InsertedStored DEF ItemOk
    <3>2. CASE ItemFails /\ UNCHANGED <<rows, faults>>
      BY <3>2 DEF Stored
    <3>3. CASE ItemFails /\ MaybeInserted({Head(todo)})
      BY <2>1, <3>3, ItemsTyped, MaybeInsertedAll
    <3> QED
      BY <1>8, <3>1, <3>2, <3>3 DEF ItemFails
  <2>3. NextItem /\ UNCHANGED <<queue, offered>>
    BY <1>8 DEF ItemOk, ItemFails, history
  <2> QED
    BY <2>1, <2>2, <2>3, NextItemApart, WritingApart
<1>9. CASE CancelTask
  <2>1. Stored' \subseteq Stored \cup Range(batch)
    <3>1. CASE pc = "flush"
      BY <1>9, <3>1, ItemsTyped, MaybeInsertedAll DEF CancelTask, InFlight
    <3>2. CASE pc = "fallback"
      <4>1. Head(todo) \in Events /\ Head(todo) \in Range(batch)
        BY <3>2, ItemsTyped DEF ItemsApart
      <4>2. MaybeInserted({Head(todo)})
        BY <1>9, <3>2 DEF CancelTask, InFlight
      <4> QED
        BY <4>1, <4>2, ItemsTyped, MaybeInsertedAll
    <3>3. CASE pc \notin {"flush", "fallback"}
      BY <1>9, <3>3 DEF CancelTask, InFlight, Stored
    <3> QED
      BY <3>1, <3>2, <3>3
  <2>2. /\ batch' = batch \/ batch' = <<>>
        /\ pc' # "fallback" /\ UNCHANGED <<queue, offered>>
    BY <1>9 DEF CancelTask
  <2> QED
    BY <2>1, <2>2, WritingApart
<1> QED
  BY <1>1, <1>2, <1>3, <1>4, <1>5, <1>6, <1>7, <1>8, <1>9
  DEF Next, WorkerStep, Flush, Fallback

-----------------------------------------------------------------------------
(* Under a key of the item's own an insert never adds a second row.         *)
OneRow == Keyed => \A e \in Events : rows[e] <= 1

LEMMA InsertOnce ==
  ASSUME TypeOK, OneRow, kind' = kind, NEW S \in SUBSET Events, CanInsert(S), rows' = Inserted(S)
  PROVE  OneRow'
<1> SUFFICES ASSUME Keyed, NEW e \in Events PROVE rows'[e] <= 1
  BY DEF OneRow, Keyed
<1>1. rows'[e] = IF e \in S THEN rows[e] + 1 ELSE rows[e]
  BY DEF Inserted
<1>2. rows[e] \in Nat /\ rows[e] <= 1
  BY DEF TypeOK, OneRow
<1>3. e \in S => rows[e] = 0
  <2>1. e \in S => ~(rows[e] > 0)
    BY DEF CanInsert, Stored
  <2> QED
    BY <1>2, <2>1
<1> QED
  BY <1>1, <1>2, <1>3

(* The same for an insert whose answer may have been lost.                  *)
LEMMA MaybeInsertOnce ==
  ASSUME TypeOK, OneRow, kind' = kind, NEW S \in SUBSET Events, MaybeInserted(S)
  PROVE  OneRow'
<1>1. CASE rows' = rows
  BY <1>1 DEF OneRow, Keyed
<1>2. CASE CanInsert(S) /\ rows' = Inserted(S)
  BY <1>2, InsertOnce
<1> QED
  BY <1>1, <1>2 DEF MaybeInserted

LEMMA NextOneRow == IInv /\ OneRow /\ [Next]_vars => OneRow'
<1> SUFFICES ASSUME IInv, OneRow, [Next]_vars PROVE OneRow'
  OBVIOUS
<1>0. kind' = kind
  BY DEF Next, vars
<1>1. TypeOK /\ Range(batch) \subseteq Events
  BY RangeTyped DEF IInv, TypeOK
<1>2. pc = "fallback" => Head(todo) \in Events
  BY RangeHeadTail DEF IInv, FallbackSplitsBatch, TypeOK
<1>3. CASE rows' = rows
  BY <1>0, <1>3 DEF OneRow, Keyed
<1>4. CASE FlushOk
  BY <1>1, <1>4, InsertOnce, <1>0 DEF FlushOk
<1>5. CASE FlushTransient
  BY <1>1, <1>5, MaybeInsertOnce, <1>0 DEF FlushTransient
<1>6. CASE ItemOk
  BY <1>1, <1>2, <1>6, InsertOnce, <1>0 DEF ItemOk
<1>7. CASE ItemFails
  BY <1>1, <1>2, <1>3, <1>7, MaybeInsertOnce, <1>0 DEF ItemFails
<1>8. CASE CancelTask
  <2>1. CASE pc = "flush"
    BY <1>1, <1>8, <2>1, MaybeInsertOnce, <1>0 DEF CancelTask, InFlight
  <2>2. CASE pc = "fallback"
    BY <1>1, <1>2, <1>8, <2>2, MaybeInsertOnce, <1>0 DEF CancelTask, InFlight
  <2>3. CASE pc \notin {"flush", "fallback"}
    BY <1>3, <1>8, <2>3 DEF CancelTask, InFlight
  <2> QED
    BY <2>1, <2>2, <2>3
<1>9. CASE \/ \E e \in Events : LogEvent(e)
           \/ StartOk \/ StartFail \/ Collect \/ LeaveLoop \/ Drain
           \/ FlushRejected \/ Shutdown \/ UNCHANGED vars
  BY <1>3, <1>9 DEF LogEvent, StartOk, StartFail, Collect, LeaveLoop, Drain,
                   FlushRejected, Shutdown, vars
<1> QED
  BY <1>4, <1>5, <1>6, <1>7, <1>8, <1>9 DEF Next, WorkerStep, Flush, Fallback
-----------------------------------------------------------------------------
(* That repeated rows are owed to faults: an item still to be written is    *)
(* counted with its rows, and batch and fallback list no item twice.        *)
Pending(e) ==
  \/ e \in Range(queue)
  \/ pc \in {"flush", "drain"} /\ e \in Range(batch)
  \/ pc = "fallback" /\ e \in Range(todo)

Owed == 1 + faults + (IF interrupted THEN 1 ELSE 0)
Rows(e) == rows[e] + (IF Pending(e) THEN 1 ELSE 0)

RepeatInv ==
  /\ NoRepetition(batch)
  /\ NoRepetition(todo)
  /\ OneRow
  /\ ~Keyed => /\ interrupted => cancelled
               /\ \A e \in Events : Rows(e) <= Owed

(* What is taken from, or left of, a list without repetitions has none.     *)
LEMMA PartsRepeatNothing ==
  ASSUME NEW S, NEW s \in Seq(S), NoRepetition(s)
  PROVE  /\ \A n \in 0 .. Len(s) : NoRepetition(SubSeq(s, 1, n))
         /\ s # <<>> => NoRepetition(Tail(s)) /\ Head(s) \notin Range(Tail(s))
<1>1. Len(s) \in Nat /\ DOMAIN s = 1 .. Len(s)
  OBVIOUS
<1>2. ASSUME NEW n \in 0 .. Len(s) PROVE NoRepetition(SubSeq(s, 1, n))
  <2> DEFINE a == SubSeq(s, 1, n)
  <2>1. DOMAIN a = 1 .. n /\ (\A i \in 1 .. n : a[i] = s[i]) /\ 1 .. n \subseteq 1 .. Len(s)
    BY <1>1
  <2> HIDE DEF a
  <2>2. NoRepetition(a)
    BY <1>1, <2>1 DEF NoRepetition
  <2> QED BY <2>2 DEF a
<1>3. ASSUME s # <<>> PROVE NoRepetition(Tail(s)) /\ Head(s) \notin Range(Tail(s))
  <2> DEFINE t == Tail(s)
  <2>1. /\ t \in Seq(S) /\ Len(t) = Len(s) - 1 /\ DOMAIN t = 1 .. Len(s) - 1
        /\ \A i \in 1 .. Len(s) - 1 : t[i] = s[i + 1] /\ i + 1 \in 1 .. Len(s)
        /\ Head(s) = s[1] /\ 1 \in 1 .. Len(s)
    BY <1>1, <1>3
  <2> HIDE DEF t
  <2>2. NoRepetition(t)
    <3> SUFFICES ASSUME NEW i \in 1 .. Len(s) - 1, NEW j \in 1 .. Len(s) - 1, t[i] = t[j]
                 PROVE  i = j
      BY <2>1 DEF NoRepetition
    <3>0. i + 1 \in DOMAIN s /\ j + 1 \in DOMAIN s /\ s[i + 1] = s[j + 1]
      BY <1>1, <2>1
    <3>1. i + 1 = j + 1
      BY <3>0 DEF NoRepetition
    <3> QED BY <1>1, <3>1
  <2>3. Head(s) \notin Range(t)
    <3> SUFFICES ASSUME NEW i \in 1 .. Len(s) - 1, t[i] = Head(s) PROVE FALSE
      BY <2>1 DEF Range
    <3>1. i + 1 = 1
      BY <1>1, <2>1 DEF NoRepetition
    <3> QED BY <1>1, <3>1
  <2> QED BY <2>2, <2>3 DEF t
<1> QED BY <1>2, <1>3

(* Two lists that share nothing are joined without a repetition.            *)
LEMMA JoinRepeatsNothing ==
  ASSUME NEW S, NEW s \in Seq(S), NEW t \in Seq(S), NoRepetition(s), NoRepetition(t),
         Range(s) \cap Range(t) = {}
  PROVE  NoRepetition(s \o t)
<1> DEFINE u == s \o t
           m == Len(s)
           n == Len(t)
<1>1. /\ m \in Nat /\ n \in Nat /\ DOMAIN s = 1 .. m /\ DOMAIN t = 1 .. n
      /\ DOMAIN u = 1 .. m + n
      /\ \A i \in 1 .. m + n : u[i] = IF i <= m THEN s[i] ELSE t[i - m]
  OBVIOUS
<1> HIDE DEF u, m, n
<1>2. \A i \in 1 .. m : \A j \in 1 .. n : s[i] # t[j]
  BY <1>1 DEF Range
<1>3. \A i \in 1 .. m + n : i \in 1 .. m \/ i - m \in 1 .. n
  BY <1>1
<1>4. NoRepetition(u)
  <2> SUFFICES ASSUME NEW i \in 1 .. m + n, NEW j \in 1 .. m + n, u[i] = u[j]
               PROVE  i = j
    BY <1>1 DEF NoRepetition
  <2>1. CASE i <= m /\ j <= m
    BY <1>1, <2>1 DEF NoRepetition
  <2>2. CASE ~(i <= m) /\ ~(j <= m)
    <3>1. i - m \in 1 .. n /\ j - m \in 1 .. n /\ t[i - m] = t[j - m]
      BY <1>1, <2>2
    <3>2. i - m = j - m
      BY <1>1, <3>1 DEF NoRepetition
    <3> QED BY <1>1, <3>2
  <2>3. CASE i <= m /\ ~(j <= m)
    BY <1>1, <1>2, <1>3, <2>3
  <2>4. CASE ~(i <= m) /\ j <= m
    BY <1>1, <1>2, <1>3, <2>4
  <2> QED BY <2>1, <2>2, <2>3, <2>4
<1> QED BY <1>4 DEF u

(* Types of what the invariant adds up.                                     *)
LEMMA OwedTyped ==
  ASSUME TypeOK
  PROVE  faults \in Nat /\ Owed \in Nat /\ \A e \in Events : rows[e] \in Nat
  BY DEF TypeOK, Owed

(* A step that writes nothing and leaves no new item to be written.         *)
LEMMA StillExplained ==
  ASSUME IInv, RepeatInv, OneRow', kind' = kind,
         UNCHANGED <<rows, faults, interrupted>>,
         NoRepetition(batch'), NoRepetition(todo'),
         cancelled' = cancelled \/ cancelled' = TRUE \/ lazy,
         ~Keyed => \A e \in Events : Pending(e)' => Pending(e) \/ rows[e] = 0
  PROVE  RepeatInv'
<1>1. Keyed' = Keyed /\ (lazy => Keyed)
  BY DEF Keyed, lazy
<1>2. ASSUME ~Keyed PROVE interrupted' => cancelled'
  BY <1>1, <1>2 DEF RepeatInv
<1>3. ASSUME ~Keyed, NEW e \in Events PROVE Rows(e)' <= Owed'
  <2>1. rows[e] \in Nat /\ rows'[e] = rows[e] /\ Owed' = Owed /\ Owed \in Nat /\ Owed >= 1
    BY OwedTyped DEF IInv, TypeOK, Owed
  <2>2. Rows(e) <= Owed
    BY <1>3 DEF RepeatInv
  <2>3. CASE Pending(e)' => Pending(e)
    BY <2>1, <2>2, <2>3 DEF Rows
  <2>4. CASE rows[e] = 0
    BY <2>1, <2>4 DEF Rows
  <2> QED BY <1>3, <2>3, <2>4
<1> QED BY <1>1, <1>2, <1>3 DEF RepeatInv

(* A write without a fault: what is stored is not pending any more.         *)
LEMMA WrittenExplained ==
  ASSUME IInv, RepeatInv, OneRow', kind' = kind, NEW S \in SUBSET Events,
         rows' = Inserted(S), UNCHANGED <<faults, interrupted, cancelled>>,
         NoRepetition(batch'), NoRepetition(todo'),
         \A e \in S : Pending(e) /\ ~Pending(e)',
         \A e \in Events : Pending(e)' => Pending(e)
  PROVE  RepeatInv'
<1>1. Keyed' = Keyed
  BY DEF Keyed
<1>2. ASSUME ~Keyed, NEW e \in Events PROVE Rows(e)' <= Owed'
  <2>1. rows[e] \in Nat /\ Owed' = Owed /\ Owed \in Nat
    BY OwedTyped DEF IInv, Owed
  <2>2. Rows(e) <= Owed
    BY <1>2 DEF RepeatInv
  <2>3. rows'[e] = IF e \in S THEN rows[e] + 1 ELSE rows[e]
    BY DEF Inserted
  <2> QED BY <2>1, <2>2, <2>3 DEF Rows
<1> QED BY <1>1, <1>2 DEF RepeatInv

(* A fault or a cancelled write: at most one row more of what was pending,  *)
(* or what was written already is pending again, for one more that is owed. *)
LEMMA FaultExplained ==
  ASSUME IInv, RepeatInv, OneRow', kind' = kind, NEW S \in SUBSET Events,
         rows' = Inserted(S) \/ rows' = rows,
         ~Keyed => Owed' = Owed + 1,
         ~Keyed => (interrupted' => cancelled'),
         NoRepetition(batch'), NoRepetition(todo'),
         \A e \in S : Pending(e),
         \A e \in Events : Pending(e)' => Pending(e) \/ e \notin S
  PROVE  RepeatInv'
<1>1. Keyed' = Keyed
  BY DEF Keyed
<1>2. ASSUME ~Keyed, NEW e \in Events PROVE Rows(e)' <= Owed'
  <2>1. rows[e] \in Nat /\ Owed' = Owed + 1 /\ Owed \in Nat
    BY <1>2, OwedTyped DEF IInv
  <2>2. Rows(e) <= Owed
    BY <1>2 DEF RepeatInv
  <2>3. rows'[e] = rows[e] \/ (e \in S /\ rows'[e] = rows[e] + 1)
    BY DEF Inserted
  <2>4. CASE rows'[e] = rows[e]
    BY <2>1, <2>2, <2>4 DEF Rows
  <2>5. CASE e \in S /\ rows'[e] = rows[e] + 1
    <3>1. Pending(e)
      BY <2>5
    <3> QED BY <2>1, <2>2, <2>5, <3>1 DEF Rows
  <2> QED BY <2>3, <2>4, <2>5
<1> QED BY <1>1, <1>2 DEF RepeatInv

(* The end of a flush leaves only the queue to be written.                  *)
LEMMA AfterFlush ==
  ASSUME FlushReturns, queue' = queue
  PROVE  /\ NoRepetition(batch')
         /\ \A e \in Events : Pending(e)' => e \in Range(queue)
<1>1. batch' = <<>> /\ pc' \in {"closed", "drain", "get"}
  BY DEF FlushReturns
<1>2. Range(batch') = {} /\ NoRepetition(batch')
  BY <1>1 DEF Range, NoRepetition
<1> QED BY <1>1, <1>2 DEF Pending

(* The fallback moves on: its head is not to be written any more.           *)
LEMMA AfterItem ==
  ASSUME IInv, ItemsApart, RepeatInv, pc = "fallback", NextItem, queue' = queue,
         NEW h, h = Head(todo)
  PROVE  /\ NoRepetition(batch') /\ NoRepetition(todo')
         /\ h \in Events /\ Pending(h) /\ ~Pending(h)'
         /\ \A e \in Events : Pending(e)' => Pending(e)
<1>1. /\ todo \in Seq(Events) /\ todo # <<>> /\ h \in Events
      /\ Range(todo) = {h} \cup Range(Tail(todo)) /\ NoRepetition(todo)
      /\ Range(todo) \subseteq Range(batch) /\ Range(queue) \cap Range(batch) = {}
  BY ItemsTyped DEF TypeOK, ItemsApart, RepeatInv
<1>2. todo' = Tail(todo) /\ NoRepetition(Tail(todo)) /\ h \notin Range(Tail(todo))
  BY <1>1, PartsRepeatNothing DEF NextItem
<1>3. CASE Tail(todo) = <<>>
  <2>1. FlushReturns
    BY <1>3 DEF NextItem
  <2>2. NoRepetition(batch') /\ \A e \in Events : Pending(e)' => e \in Range(queue)
    BY <2>1, AfterFlush
  <2>3. h \notin Range(queue)
    BY <1>1
  <2>4. Pending(h) /\ \A e \in Events : e \in Range(queue) => Pending(e)
    BY <1>1 DEF Pending
  <2> QED BY <1>1, <1>2, <2>2, <2>3, <2>4
<1>4. CASE Tail(todo) # <<>>
  <2>1. batch' = batch /\ pc' = pc
    BY <1>4 DEF NextItem
  <2>2. Pending(h) /\ ~Pending(h)'
    BY <1>1, <1>2, <2>1 DEF Pending
  <2>3. \A e \in Events : Pending(e)' => Pending(e)
    BY <1>1, <1>2, <2>1 DEF Pending
  <2> QED BY <1>1, <1>2, <2>1, <2>2, <2>3 DEF RepeatInv
<1> QED BY <1>3, <1>4

LEMMA FlushExplained ==
  ASSUME IInv, ItemsApart, RepeatInv, OneRow', kind' = kind, Flush
  PROVE  RepeatInv'
<1>1. /\ pc = "flush" /\ Range(batch) \subseteq Events /\ NoRepetition(batch) /\ NoRepetition(todo)
      /\ Range(queue) \cap Range(batch) = {} /\ TypeOK
  BY ItemsTyped DEF Flush, FlushOk, FlushTransient, FlushRejected, RepeatInv, ItemsApart
<1>2. \A e \in Range(batch) : Pending(e)
  BY <1>1 DEF Pending
<1>3. CASE FlushOk
  <2>1. /\ rows' = Inserted(Range(batch)) /\ FlushReturns
        /\ UNCHANGED <<queue, todo, faults, interrupted, cancelled>>
    BY <1>3 DEF FlushOk, history
  <2>2. NoRepetition(batch') /\ \A e \in Events : Pending(e)' => e \in Range(queue)
    BY <2>1, AfterFlush
  <2>3. \A e \in Events : Pending(e)' => Pending(e)
    BY <2>2 DEF Pending
  <2>4. \A e \in Range(batch) : ~Pending(e)'
    BY <1>1, <2>2
  <2> QED BY <1>1, <1>2, <2>1, <2>2, <2>3, <2>4, WrittenExplained
<1>4. CASE FlushTransient
  <2>1. /\ rows' = Inserted(Range(batch)) \/ rows' = rows
        /\ UNCHANGED <<queue, batch, cancelled, interrupted>> /\ faults' = faults + 1
        /\ \/ pc' = "flush" /\ todo' = todo
           \/ pc' = "fallback" /\ todo' = batch
    BY <1>1, <1>4 DEF FlushTransient, MaybeInserted
  <2>2. Owed' = Owed + 1
    BY <1>1, <2>1, OwedTyped DEF Owed
  <2>3. \A e \in Events : Pending(e)' => Pending(e)
    BY <1>1, <2>1 DEF Pending
  <2>4. ~Keyed => (interrupted' => cancelled')
    BY <2>1 DEF RepeatInv
  <2> QED BY <1>1, <1>2, <2>1, <2>2, <2>3, <2>4, FaultExplained
<1>5. CASE FlushRejected
  <2>1. /\ pc' = "fallback" /\ todo' = batch
        /\ UNCHANGED <<queue, batch, rows, faults, interrupted, cancelled>>
    BY <1>5 DEF FlushRejected, history
  <2>2. \A e \in Events : Pending(e)' => Pending(e)
    BY <1>1, <2>1 DEF Pending
  <2> QED BY <1>1, <2>1, <2>2, StillExplained
<1> QED BY <1>3, <1>4, <1>5 DEF Flush

LEMMA FallbackExplained ==
  ASSUME IInv, ItemsApart, RepeatInv, OneRow', kind' = kind, Fallback
  PROVE  RepeatInv'
<1>1. /\ pc = "fallback" /\ NextItem /\ TypeOK
      /\ UNCHANGED <<queue, cancelled, interrupted>>
  BY ItemsTyped DEF Fallback, ItemOk, ItemFails, history
<1>0. PICK h : h = Head(todo)
  OBVIOUS
<1>2. /\ NoRepetition(batch') /\ NoRepetition(todo')
      /\ h \in Events /\ Pending(h) /\ ~Pending(h)'
      /\ \A e \in Events : Pending(e)' => Pending(e)
  BY <1>0, <1>1, AfterItem
<1>3. CASE ItemOk
  <2>1. rows' = Inserted({h}) /\ faults' = faults
    BY <1>0, <1>3 DEF ItemOk, history
  <2> QED BY <1>1, <1>2, <2>1, WrittenExplained
<1>4. CASE ItemFails /\ UNCHANGED <<rows, faults>>
  BY <1>1, <1>2, <1>4, StillExplained
<1>5. CASE faults' = faults + 1 /\ MaybeInserted({h})
  <2>1. Owed' = Owed + 1
    BY <1>1, <1>5, OwedTyped DEF Owed
  <2>2. ~Keyed => (interrupted' => cancelled')
    BY <1>1 DEF RepeatInv
  <2>3. rows' = Inserted({h}) \/ rows' = rows
    BY <1>5 DEF MaybeInserted
  <2> QED BY <1>2, <2>1, <2>2, <2>3, FaultExplained
<1> QED BY <1>0, <1>3, <1>4, <1>5 DEF Fallback, ItemFails

LEMMA CancelExplained ==
  ASSUME IInv, ItemsApart, RepeatInv, OneRow', kind' = kind, CancelTask
  PROVE  RepeatInv'
<1>1. /\ ~cancelled /\ cancelled' = TRUE /\ todo' = <<>> /\ UNCHANGED <<queue, faults>>
      /\ TypeOK /\ Range(batch) \subseteq Events /\ pc' \in {"drain", "closed"}
      /\ batch' = batch \/ batch' = <<>>
      /\ pc' = "closed" => batch' = <<>>
  BY ItemsTyped DEF CancelTask
<1>2. Range(<<>>) = {} /\ NoRepetition(<<>>)
  BY DEF Range, NoRepetition
<1>3. NoRepetition(batch') /\ NoRepetition(todo')
  BY <1>1, <1>2 DEF RepeatInv
<1>4. \A e \in Events : Pending(e)' => e \in Range(queue) \/ e \in Range(batch)
  BY <1>1, <1>2 DEF Pending
<1>5. CASE pc \in {"flush", "fallback"}
  <2>1. interrupted' = TRUE /\ (~Keyed => ~interrupted)
    BY <1>1, <1>5 DEF CancelTask, RepeatInv
  <2>2. ~Keyed => Owed' = Owed + 1
    BY <1>1, <2>1, OwedTyped DEF Owed
  <2>3. CASE pc = "flush"
    <3>1. rows' = Inserted(Range(batch)) \/ rows' = rows
      BY <2>3 DEF CancelTask, InFlight, MaybeInserted
    <3>2. \A e \in Range(batch) : Pending(e)
      BY <2>3 DEF Pending
    <3>3. \A e \in Events : Pending(e)' => Pending(e)
      BY <1>4, <3>2 DEF Pending
    <3> QED BY <1>1, <1>3, <2>2, <3>1, <3>2, <3>3, FaultExplained
  <2>4. CASE pc = "fallback"
    <3>1. rows' = Inserted({Head(todo)}) \/ rows' = rows
      BY <2>4 DEF CancelTask, InFlight, MaybeInserted
    <3>2. Head(todo) \in Events /\ Pending(Head(todo))
      BY <2>4, ItemsTyped DEF Pending
    <3>3. \A e \in Events : Pending(e)' => Pending(e) \/ e \notin {Head(todo)}
      BY <3>2
    <3> QED BY <1>1, <1>3, <2>2, <3>1, <3>2, <3>3, FaultExplained
  <2> QED BY <1>5, <2>3, <2>4
<1>6. CASE pc \notin {"flush", "fallback"}
  <2>1. rows' = rows /\ interrupted' = interrupted /\ batch = <<>>
    BY <1>6 DEF CancelTask, InFlight, IInv, BatchEmptyOutside, TypeOK
  <2>2. \A e \in Events : Pending(e)' => Pending(e)
    BY <1>2, <1>4, <2>1 DEF Pending
  <2> QED BY <1>1, <1>3, <2>1, <2>2, StillExplained
<1> QED BY <1>5, <1>6

(* Every step keeps repeated rows explained.                                *)
LEMMA NextExplained ==
  IInv /\ ItemsApart /\ RepeatInv /\ [Next]_vars => RepeatInv'
<1> SUFFICES ASSUME IInv, ItemsApart, RepeatInv, [Next]_vars PROVE RepeatInv'
  OBVIOUS
<1>0. OneRow' /\ kind' = kind /\ NoRepetition(batch) /\ NoRepetition(todo)
  BY NextOneRow DEF RepeatInv, Next, vars
<1>1. ASSUME NEW e \in Events, LogEvent(e) PROVE RepeatInv'
  <2>1. /\ UNCHANGED <<batch, todo, rows, faults, interrupted>>
        /\ e \notin offered
        /\ cancelled' = cancelled \/ lazy
        /\ pc' = pc \/ pc' = "start"
        /\ queue' = queue \/ queue' = Append(queue, e)
    BY <1>1 DEF LogEvent, EnsureWriter, Enqueue
  <2>2. rows[e] = 0
    <3>1. e \notin Stored /\ rows[e] \in Nat
      BY <2>1 DEF ItemsApart, IInv, TypeOK
    <3> QED BY <3>1 DEF Stored
  <2>3. Range(queue') \subseteq Range(queue) \cup {e}
    BY <2>1, RangeAppend DEF IInv, TypeOK
  <2>4. \A f \in Events : Pending(f)' => Pending(f) \/ rows[f] = 0
    BY <2>1, <2>2, <2>3 DEF Pending
  <2> QED BY <1>0, <2>1, <2>4, StillExplained
<1>2. CASE \/ StartOk \/ StartFail \/ LeaveLoop \/ Shutdown \/ UNCHANGED vars
  <2>1. UNCHANGED <<queue, batch, todo, rows, faults, interrupted, cancelled>>
    BY <1>2 DEF StartOk, StartFail, LeaveLoop, Shutdown, vars, memory, history
  <2>2. pc' = pc \/ pc' \in {"get", "dead"} \/ (pc' = "drain" /\ batch = <<>>)
    BY <1>2 DEF StartOk, StartFail, LeaveLoop, Shutdown, vars, IInv, BatchEmptyOutside
  <2>3. Range(<<>>) = {}
    BY DEF Range
  <2>4. \A f \in Events : Pending(f)' => Pending(f)
    BY <2>1, <2>2, <2>3 DEF Pending
  <2> QED BY <1>0, <2>1, <2>4, StillExplained
<1>3. CASE Collect
  <2> DEFINE n == IF Len(queue) < BatchSize THEN Len(queue) ELSE BatchSize
  <2>1. /\ batch' = SubSeq(queue, 1, n) /\ queue' = SubSeq(queue, n + 1, Len(queue))
        /\ pc' = "flush" /\ UNCHANGED <<todo, rows, faults, interrupted, cancelled>>
    BY <1>3 DEF Collect, history
  <2>2. queue \in Seq(Events) /\ n \in 0 .. Len(queue) /\ NoRepetition(queue)
    BY WorkerAssumption DEF IInv, TypeOK, WorkerAssumption, ItemsApart
  <2> HIDE DEF n
  <2>3. Range(queue) = Range(batch') \cup Range(queue') /\ NoRepetition(batch')
    BY <2>1, <2>2, RangeSplit, PartsRepeatNothing
  <2>4. \A f \in Events : Pending(f)' => Pending(f)
    BY <2>1, <2>3 DEF Pending
  <2> QED BY <1>0, <2>1, <2>3, <2>4, StillExplained
<1>4. CASE Drain
  <2>1. /\ batch' = batch \o queue /\ queue' = <<>> /\ pc = "drain"
        /\ pc' \in {"closed", "flush"}
        /\ UNCHANGED <<todo, rows, faults, interrupted, cancelled>>
    BY <1>4 DEF Drain, history
  <2>2. Range(batch') = Range(batch) \cup Range(queue) /\ Range(queue') = {}
    <3>1. batch \in Seq(Events) /\ queue \in Seq(Events)
      BY DEF IInv, TypeOK
    <3>2. Range(<<>>) = {}
      BY DEF Range
    <3> QED BY <2>1, <3>1, <3>2, RangeConcat
  <2>3. NoRepetition(batch')
    BY <1>0, <2>1, JoinRepeatsNothing DEF IInv, TypeOK, ItemsApart
  <2>4. \A f \in Events : Pending(f)' => Pending(f)
    BY <2>1, <2>2 DEF Pending
  <2> QED BY <1>0, <2>1, <2>3, <2>4, StillExplained
<1>5. CASE Flush
  BY <1>0, <1>5, FlushExplained
<1>6. CASE Fallback
  BY <1>0, <1>6, FallbackExplained
<1>7. CASE CancelTask
  BY <1>0, <1>7, CancelExplained
<1> QED BY <1>1, <1>2, <1>3, <1>4, <1>5, <1>6, <1>7 DEF Next, WorkerStep

(* Rows repeat only where a fault or the cancelled write explains it: for   *)
(* any sizes and any number of faults, also in a table whose rows have no   *)
(* key of their own.                                                        *)
THEOREM RowsAreRepeatedByFaults == Spec => []RepeatsAreExplained
<1>1. Init => ItemsApart /\ RepeatInv
  <2> SUFFICES ASSUME Init PROVE ItemsApart /\ RepeatInv
    OBVIOUS
  <2>1. /\ Range(queue) = {} /\ Range(batch) = {} /\ Stored = {}
        /\ NoRepetition(queue) /\ NoRepetition(batch) /\ NoRepetition(todo)
    BY DEF Init, Range, Stored, NoRepetition
  <2>2. pc \notin {"drain", "flush", "fallback"}
    BY DEF Init
  <2>3. \A e \in Events : rows[e] = 0 /\ ~Pending(e)
    BY <2>1, <2>2 DEF Init, Pending
  <2>4. Owed = 1 /\ ~interrupted
    BY DEF Init, Owed
  <2> QED BY <2>1, <2>2, <2>3, <2>4 DEF ItemsApart, RepeatInv, OneRow, Rows
<1>2. IInv /\ ItemsApart /\ RepeatInv /\ [Next]_vars => ItemsApart' /\ RepeatInv'
  BY NextApart, NextExplained
<1>3. IInv /\ RepeatInv => RepeatsAreExplained
  <2> SUFFICES ASSUME IInv, RepeatInv, NEW e \in Events PROVE rows[e] <= Owed
    BY DEF RepeatsAreExplained, Owed
  <2>1. rows[e] \in Nat /\ Owed \in Nat /\ Owed >= 1
    BY OwedTyped DEF IInv, TypeOK, Owed
  <2>2. CASE Keyed
    BY <2>1, <2>2 DEF RepeatInv, OneRow
  <2>3. CASE ~Keyed
    BY <2>1, <2>3 DEF RepeatInv, Rows
  <2> QED BY <2>2, <2>3
<1> QED
  BY <1>1, <1>2, <1>3, WorkerInvariant, PTL DEF Spec

-----------------------------------------------------------------------------
(* While no bad item was offered and no write was cancelled, every attempt  *)
(* beyond the first has cost a fault, a batch is stored as a whole or not   *)
(* at all, and before the attempts are used up the fallback meets stored    *)
(* items only.                                                              *)
Undisturbed == offered \cap Bad = {} /\ ~interrupted

AttemptsInv ==
  /\ faults <= MaxRetries => failed \subseteq Stored
  /\ pc = "drain" => batch = <<>>
  /\ pc = "flush" => /\ attempt <= faults
                     /\ Range(batch) \cap Stored = {} \/ Range(batch) \subseteq Stored
  /\ pc = "fallback" /\ faults < MaxRetries => Range(todo) \subseteq Stored

FaultInv == FallbackIsolatesBadRows /\ (Undisturbed => AttemptsInv)

(* Steps that store nothing, report nothing and are not at a flush.         *)
LEMMA StillMasked ==
  ASSUME FaultInv, UNCHANGED <<rows, failed, faults>>,
         offered \subseteq offered', interrupted => interrupted',
         pc' \notin {"drain", "flush", "fallback"}
           \/ (pc' = pc /\ UNCHANGED <<batch, todo, attempt>>)
           \/ (pc' = "drain" /\ batch' = <<>>)
  PROVE  FaultInv'
<1>1. Stored' = Stored
  BY DEF Stored
<1>2. FallbackIsolatesBadRows'
  BY <1>1 DEF FaultInv, FallbackIsolatesBadRows
<1>3. ASSUME Undisturbed' PROVE AttemptsInv'
  <2>1. AttemptsInv
    BY <1>3 DEF FaultInv, Undisturbed
  <2> QED
    BY <1>1, <2>1 DEF AttemptsInv
<1> QED
  BY <1>2, <1>3 DEF FaultInv

(* A new batch is of items that are not stored.                             *)
LEMMA StartsBatch ==
  ASSUME FaultInv, UNCHANGED <<rows, failed, faults, offered, interrupted>>, faults \in Nat,
         pc' \notin {"drain", "fallback"}, attempt' = 0,
         Undisturbed => Range(batch') \cap Stored = {}
  PROVE  FaultInv'
<1>1. Stored' = Stored
  BY DEF Stored
<1>2. FallbackIsolatesBadRows'
  BY <1>1 DEF FaultInv, FallbackIsolatesBadRows
<1>3. ASSUME Undisturbed' PROVE AttemptsInv'
  <2>1. Undisturbed /\ AttemptsInv
    BY <1>3 DEF FaultInv, Undisturbed
  <2> QED
    BY <1>1, <2>1 DEF AttemptsInv
<1> QED
  BY <1>2, <1>3 DEF FaultInv

LEMMA FlushMasked ==
  ASSUME IInv, ItemsApart, FaultInv, Flush
  PROVE  FaultInv'
<1>1. pc = "flush" /\ failed' = failed /\ offered' = offered /\ interrupted' = interrupted
  BY DEF Flush, FlushOk, FlushTransient, FlushRejected, history
<1>2. faults \in Nat /\ attempt \in Nat /\ MaxRetries \in Nat
  BY WorkerAssumption DEF IInv, TypeOK, WorkerAssumption
<1>3. Stored' = Stored \/ Stored' = Stored \cup Range(batch)
  <2>1. CASE FlushOk
    BY <2>1, ItemsTyped, InsertedStored DEF FlushOk
  <2>2. CASE FlushTransient
    BY <2>2, ItemsTyped, MaybeInsertedAll DEF FlushTransient
  <2>3. CASE FlushRejected
    BY <2>3 DEF FlushRejected, Stored
  <2> QED
    BY <2>1, <2>2, <2>3 DEF Flush
<1>4. FallbackIsolatesBadRows'
  <2>1. faults' = 0 => faults = 0
    BY <1>2 DEF Flush, FlushOk, FlushTransient, FlushRejected, history
  <2> QED
    BY <1>1, <1>3, <2>1 DEF FaultInv, FallbackIsolatesBadRows
<1>5. ASSUME Undisturbed' PROVE AttemptsInv'
  <2>1. Undisturbed /\ AttemptsInv
    BY <1>1, <1>5 DEF FaultInv, Undisturbed
  <2>2. /\ attempt <= faults
        /\ Range(batch) \cap Stored = {} \/ Range(batch) \subseteq Stored
        /\ faults <= MaxRetries => failed \subseteq Stored
    BY <1>1, <2>1 DEF AttemptsInv
  <2>3. CASE FlushOk
    <3>1. pc' \in {"closed", "drain", "get"} /\ batch' = <<>> /\ faults' = faults
      BY <2>3 DEF FlushOk, FlushReturns, history
    <3> QED
      BY <1>1, <1>3, <2>2, <3>1 DEF AttemptsInv
  <2>4. CASE FlushTransient
    <3>1. faults' = faults + 1 /\ batch' = batch
      BY <2>4 DEF FlushTransient
    <3>2. faults' <= MaxRetries => failed' \subseteq Stored'
      BY <1>1, <1>2, <1>3, <2>2, <3>1
    <3>3. Range(batch') \cap Stored' = {} \/ Range(batch') \subseteq Stored'
      BY <1>3, <2>2, <3>1
    <3>4. CASE attempt + 1 < MaxRetries
      <4>1. pc' = "flush" /\ attempt' = attempt + 1
        BY <1>1, <2>4, <3>4 DEF FlushTransient
      <4>2. attempt' <= faults'
        BY <1>2, <2>2, <3>1, <4>1
      <4> QED
        BY <3>2, <3>3, <4>1, <4>2 DEF AttemptsInv
    <3>5. CASE ~(attempt + 1 < MaxRetries)
      <4>1. pc' = "fallback"
        BY <2>4, <3>5 DEF FlushTransient
      <4>2. ~(faults' < MaxRetries)
        BY <1>2, <2>2, <3>1, <3>5
      <4> QED
        BY <3>2, <4>1, <4>2 DEF AttemptsInv
    <3> QED
      BY <3>4, <3>5
  <2>5. CASE FlushRejected
    <3>1. /\ pc' = "fallback" /\ todo' = batch /\ faults' = faults /\ Stored' = Stored
      BY <2>5 DEF FlushRejected, history, Stored
    <3>2. Range(batch) \cap Bad = {}
      BY <2>1 DEF Undisturbed, ItemsApart
    <3>3. Range(batch) \cap Stored # {}
      BY <2>5, <3>2 DEF FlushRejected, CanInsert
    <3> QED
      BY <1>1, <2>2, <3>1, <3>3 DEF AttemptsInv
  <2> QED
    BY <2>3, <2>4, <2>5 DEF Flush
<1> QED
  BY <1>4, <1>5 DEF FaultInv

LEMMA FallbackMasked ==
  ASSUME IInv, ItemsApart, FaultInv, Fallback
  PROVE  FaultInv'
<1> DEFINE x == Head(todo)
<1>1. /\ pc = "fallback" /\ offered' = offered /\ interrupted' = interrupted
      /\ NextItem /\ x \in Events
      /\ Range(todo) = {x} \cup Range(Tail(todo)) /\ Range(todo) \subseteq Range(batch)
  BY ItemsTyped DEF Fallback, ItemOk, ItemFails, history, ItemsApart
<1> HIDE DEF x
<1>2. faults \in Nat /\ MaxRetries \in Nat
  BY WorkerAssumption DEF IInv, TypeOK, WorkerAssumption
<1>3. \/ /\ failed' = failed /\ faults' = faults /\ x \in Stored' /\ Stored \subseteq Stored'
      \/ /\ failed' = failed \cup {x} /\ faults' = faults /\ ~CanInsert({x}) /\ Stored' = Stored
      \/ /\ failed' = failed \cup {x} /\ faults' = faults + 1 /\ Stored \subseteq Stored'
  <2>1. CASE ItemOk
    <3>1. Stored' = Stored \cup {x}
      BY <1>1, <2>1, ItemsTyped, InsertedStored DEF ItemOk, x
    <3> QED
      BY <2>1, <3>1 DEF ItemOk, history
  <2>2. CASE ItemFails /\ ~CanInsert({x}) /\ UNCHANGED <<rows, faults>>
    BY <2>2 DEF ItemFails, Stored, x
  <2>3. CASE ItemFails /\ faults' = faults + 1 /\ MaybeInserted({x})
    <3>1. Stored \subseteq Stored'
      BY <1>1, <2>3, ItemsTyped, MaybeInsertedAll
    <3> QED
      BY <2>3, <3>1 DEF ItemFails, x
  <2> QED
    BY <2>1, <2>2, <2>3 DEF Fallback, ItemFails, x
<1>4. ~CanInsert({x}) => x \in Bad \cup Stored
  BY DEF CanInsert
<1>5. FallbackIsolatesBadRows'
  BY <1>2, <1>3, <1>4 DEF FaultInv, FallbackIsolatesBadRows
<1>6. ASSUME Undisturbed' PROVE AttemptsInv'
  <2>1. Undisturbed /\ AttemptsInv
    BY <1>1, <1>6 DEF FaultInv, Undisturbed
  <2>2. /\ faults <= MaxRetries => failed \subseteq Stored
        /\ faults < MaxRetries => Range(todo) \subseteq Stored
    BY <1>1, <2>1 DEF AttemptsInv
  <2>3. x \notin Bad
    BY <1>1, <2>1 DEF Undisturbed, ItemsApart
  <2>4. faults' <= MaxRetries => failed' \subseteq Stored'
    <3>1. CASE faults' = faults
      BY <1>2, <1>3, <1>4, <2>2, <2>3, <3>1
    <3>2. CASE faults' = faults + 1 /\ failed' = failed \cup {x} /\ Stored \subseteq Stored'
      <4>1. faults' <= MaxRetries => faults < MaxRetries /\ faults <= MaxRetries
        BY <1>2, <3>2
      <4> QED
        BY <1>1, <2>2, <3>2, <4>1
    <3> QED
      BY <1>3, <3>1, <3>2
  <2>5. faults' < MaxRetries => Range(todo') \subseteq Stored'
    <3>1. faults' < MaxRetries => faults < MaxRetries
      BY <1>2, <1>3
    <3>2. Range(todo') \subseteq Range(todo)
      BY <1>1, NextItemApart
    <3> QED
      BY <1>3, <2>2, <3>1, <3>2
  <2>6. (pc' \in {"closed", "drain", "get"} /\ batch' = <<>>) \/ pc' = "fallback"
    BY <1>1 DEF NextItem, FlushReturns
  <2> QED
    BY <2>4, <2>5, <2>6 DEF AttemptsInv
<1> QED
  BY <1>5, <1>6 DEF FaultInv

LEMMA CancelMasked ==
  ASSUME IInv, FaultInv, CancelTask
  PROVE  FaultInv'
<1>1. UNCHANGED <<offered, failed, faults>> /\ Stored \subseteq Stored'
  <2>1. CASE pc = "flush"
    BY <2>1, ItemsTyped, MaybeInsertedStored DEF CancelTask, InFlight
  <2>2. CASE pc = "fallback"
    BY <2>2, ItemsTyped, MaybeInsertedStored DEF CancelTask, InFlight
  <2>3. CASE pc \notin {"flush", "fallback"}
    BY <2>3 DEF CancelTask, InFlight, Stored
  <2> QED
    BY <2>1, <2>2, <2>3 DEF CancelTask
<1>2. FallbackIsolatesBadRows'
  BY <1>1 DEF FaultInv, FallbackIsolatesBadRows
<1>3. CASE pc \in {"flush", "fallback"}
  <2>1. ~Undisturbed'
    BY <1>3 DEF CancelTask, Undisturbed
  <2> QED
    BY <1>2, <2>1 DEF FaultInv
<1>4. CASE pc \notin {"flush", "fallback"}
  <2>1. batch = <<>> /\ rows' = rows
    BY <1>4 DEF CancelTask, InFlight, IInv, BatchEmptyOutside
  <2>2. pc' \in {"drain", "closed"} /\ (pc' = "drain" => batch' = <<>>)
    BY <2>1 DEF CancelTask
  <2>3. interrupted => interrupted'
    BY DEF CancelTask
  <2> QED
    BY <1>1, <2>1, <2>2, <2>3, StillMasked
<1> QED
  BY <1>3, <1>4

(* A fault stays where it is, for any number of items, retries and faults:  *)
(* what the retries cover loses nothing, a bad row takes none with it.      *)
THEOREM FaultsStayWhereTheyAre == Spec => []FaultsStayLocal
<1>1. Init => ItemsApart /\ FaultInv
  <2> SUFFICES ASSUME Init PROVE ItemsApart /\ FaultInv
    OBVIOUS
  <2>1. Range(queue) = {} /\ Range(batch) = {} /\ Stored = {}
    BY DEF Init, Range, Stored
  <2>2. NoRepetition(queue)
    BY DEF Init, NoRepetition
  <2>3. pc \notin {"drain", "flush", "fallback"} /\ failed = {}
    BY DEF Init
  <2> QED
    BY <2>1, <2>2, <2>3 DEF ItemsApart, FaultInv, FallbackIsolatesBadRows, AttemptsInv
<1>2. IInv /\ ItemsApart /\ FaultInv /\ [Next]_vars => ItemsApart' /\ FaultInv'
  <2> SUFFICES ASSUME IInv, ItemsApart, FaultInv, [Next]_vars PROVE FaultInv'
    BY NextApart
  <2>0. faults \in Nat
    BY DEF IInv, TypeOK
  <2>1. ASSUME NEW e \in Events, LogEvent(e) PROVE FaultInv'
    <3>1. /\ UNCHANGED <<batch, todo, attempt, rows, failed, interrupted, faults>>
          /\ offered \subseteq offered'
      BY <2>1 DEF LogEvent
    <3>2. pc' = pc \/ pc' = "start"
      BY <2>1 DEF LogEvent, EnsureWriter
    <3> QED
      BY <3>1, <3>2, StillMasked
  <2>2. CASE \/ StartOk \/ StartFail \/ LeaveLoop \/ Shutdown \/ UNCHANGED vars
    <3>1. UNCHANGED <<batch, todo, attempt, rows, failed, faults, offered, interrupted>>
      BY <2>2 DEF StartOk, StartFail, LeaveLoop, Shutdown, vars, memory, history
    <3>2. pc' = pc \/ pc' \in {"get", "dead"} \/ (pc' = "drain" /\ batch = <<>>)
      BY <2>2 DEF StartOk, StartFail, LeaveLoop, Shutdown, vars, IInv, BatchEmptyOutside
    <3> QED
      BY <3>1, <3>2, StillMasked
  <2>3. CASE Collect
    <3>1. /\ UNCHANGED <<rows, failed, faults, offered, interrupted>>
          /\ pc' = "flush" /\ attempt' = 0
      BY <2>3 DEF Collect, history
    <3>2. Range(batch') \subseteq Range(queue)
      <4> DEFINE n == IF Len(queue) < BatchSize THEN Len(queue) ELSE BatchSize
      <4>1. queue \in Seq(Events) /\ n \in 0 .. Len(queue) /\ batch' = SubSeq(queue, 1, n)
        BY <2>3, WorkerAssumption DEF Collect, IInv, TypeOK, WorkerAssumption
      <4> HIDE DEF n
      <4> QED
        BY <4>1, RangeSplit
    <3> QED
      BY <2>0, <3>1, <3>2, StartsBatch DEF ItemsApart
  <2>4. CASE Drain
    <3>1. /\ UNCHANGED <<rows, failed, faults, offered, interrupted>>
          /\ pc' \in {"closed", "flush"} /\ attempt' = 0 /\ pc = "drain"
      BY <2>4 DEF Drain, history
    <3>2. Range(batch') = Range(batch) \cup Range(queue)
      BY <2>4, RangeConcat DEF Drain, IInv, TypeOK
    <3>3. Undisturbed => Range(batch) = {}
      BY <3>1, RangeTyped DEF FaultInv, AttemptsInv, IInv, TypeOK
    <3> QED
      BY <2>0, <3>1, <3>2, <3>3, StartsBatch DEF ItemsApart
  <2>5. CASE Flush
    BY <2>5, FlushMasked
  <2>6. CASE Fallback
    BY <2>6, FallbackMasked
  <2>7. CASE CancelTask
    BY <2>7, CancelMasked
  <2> QED
    BY <2>1, <2>2, <2>3, <2>4, <2>5, <2>6, <2>7 DEF Next, WorkerStep
<1>3. IInv /\ FaultInv => FaultsStayLocal
  <2> SUFFICES ASSUME FaultInv PROVE FaultsStayLocal
    OBVIOUS
  <2>1. RetriesMaskFaults
    BY DEF FaultInv, Undisturbed, AttemptsInv, RetriesMaskFaults
  <2> QED
    BY <2>1 DEF FaultInv, FaultsStayLocal
<1> QED
  BY <1>1, <1>2, <1>3, WorkerInvariant, PTL DEF Spec
=============================================================================
