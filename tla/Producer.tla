------------------------------- MODULE Producer -------------------------------
(***************************************************************************)
(* The buffering producer of kafka/producer.go composed with its overflow  *)
(* store (drivers/local_store.go).                                         *)
(*                                                                         *)
(* Goroutines and their program counters:                                  *)
(*   main      the caller of Start and Close;                              *)
(*   callers   Send / SendUseKey, any number, no program counter;          *)
(*   loop      LocalStore.Loop, the replay ticker;                         *)
(*   wpc[w]    doMessage of worker w; its doSuccess and doError            *)
(*             goroutines are the HandleSuccess(w) / HandleError(w)        *)
(*             actions, and the sarama AsyncProducer of w is              *)
(*             inflight[w], succ[w] (Successes()) and errs[w] (Errors()). *)
(* History variables sent, delivered, dropped and lost say where every     *)
(* message ended up.                                                       *)
(***************************************************************************)
EXTENDS Naturals, Sequences, FiniteSets, FiniteSetsExt

CONSTANTS
    Workers,       \* p.works: one producerWorker each
    Msgs,          \* the messages callers hand to Send, each at most once
    Big,           \* messages larger than the broker accepts
    QueueSize,     \* cap(p.queue)
    BufSize,       \* messages a sarama AsyncProducer takes before Input() blocks
    CachePaths,    \* cachePath != "" for the producers NewProducer may build
    StoreMayFail,  \* leveldb Put and Delete may return an error
    MaxFailures,   \* bound on transient broker failures
    MaxTicks,      \* bound on firings of the replay ticker
    PriorMsgs,     \* messages a previous run left in the store
    None

ASSUME /\ Workers # {}
       /\ Big \subseteq Msgs /\ PriorMsgs \subseteq Msgs
       /\ QueueSize \in Nat \ {0} /\ BufSize \in Nat \ {0}
       /\ CachePaths \subseteq BOOLEAN /\ StoreMayFail \in BOOLEAN
       /\ MaxFailures \in Nat /\ MaxTicks \in Nat
       /\ None \notin Msgs

VARIABLES
    hasCache,      \* p.localCache != nil
    main, queue, queueClosed,
    db, index, dbOpen, snap, loop, exitClosed, ticks,
    wpc, hold, inflight, succ, errs, failures,
    sent, delivered, dropped, lost, panicked,
    obs,           \* p.monitor / pw.monitor: the KafkaVec count of each status
    dequeued,      \* messages doMessage has taken from p.queue
    uncounted      \* answers pw.close() read itself, so no handler counted

metrics == <<obs, dequeued, uncounted>>

vars == <<hasCache, main, queue, queueClosed, db, index, dbOpen, snap, loop, exitClosed,
          ticks, wpc, hold, inflight, succ, errs, failures,
          sent, delivered, dropped, lost, panicked, metrics>>

\* The store's record operators; the producer's own goroutines are its
\* writers and it keeps no history of its own.
LS == INSTANCE LocalStore
        WITH Writers <- {}, Corrupt <- None, MaxRestarts <- 0,
             pending <- <<>>, scanning <- FALSE, restarts <- 0,
             used <- {}, written <- {}, handed <- {}

LossReason == {"noCache", "putError", "storeClosed", "drained"}

\* The status labels Send, SendUseKey, Retry, doSuccess and doError give
\* KafkaVec.Inc; topic and partition are left out.
Statuses == {"sent", "queuefull", "retry", "ok", "error", "errorcache"}

\* KafkaVec.Inc(&KafkaLabels{Status: s}) on the counters c.
Observe(c, s) == [c EXCEPT ![s] = @ + 1]

-----------------------------------------------------------------------------
(* Store operations shared by several goroutines.                         *)

\* Fault variant of WriteToLocal: a failed write is neither logged nor
\* counted.
WriteToLocalErrorIgnored(m) ==
    IF hasCache /\ dbOpen
    THEN {[db |-> LS!PutRecord(db, index + 1, m), index |-> index + 1, lost |-> lost]}
         \cup (IF StoreMayFail THEN {[db |-> db, index |-> index + 1, lost |-> lost]} ELSE {})
    ELSE {[db |-> db, index |-> index, lost |-> lost]}

\* producerWriteToLocal(d, msg) and the caller's log of its error: the
\* possible [db, index, lost] after writing m.  LocalStore.Put increments
\* the index before db.Put, so a failed write still consumes a number.
WriteToLocal(m) ==
    LET loss(why) == lost \cup {[msg |-> m, why |-> why]}
        put       == [db |-> LS!PutRecord(db, index + 1, m),
                      index |-> index + 1, lost |-> lost]
        fail(why) == [db |-> db, index |-> index + 1, lost |-> loss(why)]
    IN  CASE ~hasCache   -> {[db |-> db, index |-> index, lost |-> loss("noCache")]}
          [] ~dbOpen     -> {fail("storeClosed")}
          [] StoreMayFail -> {put, fail("putError")}
          [] OTHER       -> {put}

\* db.Delete(iter.Key()) after the visit; a failure is only logged.
DeleteResults(d, k) ==
    IF dbOpen THEN {LS!DeleteKey(d, k)} \cup (IF StoreMayFail THEN {d} ELSE {})
              ELSE {d}

-----------------------------------------------------------------------------
(* Producer.Send / SendUseKey: non-blocking enqueue, else the store.      *)

\* Fault variant of Send: the capacity of p.queue is not respected.
SendPastCapacity(m) ==
    /\ hasCache \in BOOLEAN
    /\ main \in {"new", "startScan", "running"}
    /\ m \in Msgs \ sent
    /\ sent' = sent \cup {m}
    /\ queue' = Append(queue, m)
    /\ UNCHANGED <<hasCache, main, queueClosed, db, index, lost, dbOpen, snap, loop,
                   exitClosed, ticks, wpc, hold, inflight, succ, errs,
                   failures, delivered, dropped, panicked>>
    /\ UNCHANGED metrics

Send(m) ==
    /\ hasCache \in BOOLEAN
    /\ main \in {"new", "startScan", "running"}
    /\ m \in Msgs \ sent
    /\ sent' = sent \cup {m}
    /\ \/ /\ Len(queue) < QueueSize
          /\ queue' = Append(queue, m)
          /\ obs' = Observe(obs, "sent")
          /\ UNCHANGED <<db, index, lost>>
       \/ /\ Len(queue) = QueueSize
          /\ obs' = Observe(obs, "queuefull")
          /\ \E o \in WriteToLocal(m) :
                db' = o.db /\ index' = o.index /\ lost' = o.lost
          /\ UNCHANGED queue
    /\ UNCHANGED <<hasCache, main, queueClosed, dbOpen, snap, loop, exitClosed, ticks,
                   wpc, hold, inflight, succ, errs, failures,
                   delivered, dropped, panicked, dequeued, uncounted>>

-----------------------------------------------------------------------------
(* LocalStore.ProcessAll, run by main inside Start and by the loop.        *)
(* snap is the iterator's snapshot: records written during the scan are    *)
(* not visited by it.                                                      *)

\* Producer.Retry(topic, data) (p.process) for the visited record r, then
\* the db.Delete of r.  The select sends on p.queue, which panics once the
\* queue is closed.
RetryThenDelete(r) ==
    /\ panicked' = queueClosed
    /\ \/ /\ Len(queue) < QueueSize
          /\ queue' = Append(queue, r.msg)
          /\ obs' = Observe(obs, "retry")
          /\ db' \in DeleteResults(db, r.seq)
          /\ UNCHANGED <<index, lost>>
       \/ /\ Len(queue) = QueueSize
          /\ obs' = Observe(obs, "queuefull")
          /\ \E o \in WriteToLocal(r.msg) :
                /\ db' \in DeleteResults(o.db, r.seq)
                /\ index' = o.index
                /\ lost' = o.lost
          /\ UNCHANGED queue

ScanVisit ==
    /\ main = "startScan" \/ loop = "scan"
    /\ snap # {}
    /\ \E r \in snap :
          /\ \A q \in snap : r.seq <= q.seq
          /\ snap' = snap \ {r}
          /\ RetryThenDelete(r)
    /\ UNCHANGED <<hasCache, main, queueClosed, dbOpen, loop, exitClosed, ticks,
                   wpc, hold, inflight, succ, errs, failures,
                   sent, delivered, dropped, dequeued, uncounted>>

-----------------------------------------------------------------------------
(* Producer.Start and Producer.Close, run by main.                         *)

\* LocalStore.Start: ProcessAll runs synchronously before anything else.
StartWithCache ==
    /\ main = "new" /\ hasCache
    /\ main' = "startScan"
    /\ snap' = db
    /\ UNCHANGED <<hasCache, queue, queueClosed, db, index, dbOpen, loop, exitClosed,
                   ticks, wpc, hold, inflight, succ, errs, failures,
                   sent, delivered, dropped, lost, panicked>>
    /\ UNCHANGED metrics

\* The rest of Start: go p.Loop() when there is a store, then every
\* worker's start() spawns doMessage, doSuccess and doError.
StartWorkers ==
    /\ \/ main = "new" /\ ~hasCache /\ UNCHANGED loop
       \/ main = "startScan" /\ snap = {} /\ loop' = "wait"
    /\ main' = "running"
    /\ wpc' = [w \in Workers |-> "recv"]
    /\ UNCHANGED <<hasCache, queue, queueClosed, db, index, dbOpen, snap, exitClosed,
                   ticks, hold, inflight, succ, errs, failures,
                   sent, delivered, dropped, lost, panicked>>
    /\ UNCHANGED metrics

\* Close: LocalStore.Stop closes p.exit; without a store, close(p.queue).
CloseBegin ==
    /\ main = "running"
    /\ \/ hasCache /\ exitClosed' = TRUE /\ main' = "stopping"
          /\ UNCHANGED queueClosed
       \/ ~hasCache /\ queueClosed' = TRUE /\ main' = "waiting"
          /\ UNCHANGED exitClosed
    /\ UNCHANGED <<hasCache, queue, db, index, dbOpen, snap, loop, ticks, wpc, hold,
                   inflight, succ, errs, failures,
                   sent, delivered, dropped, lost, panicked>>
    /\ UNCHANGED metrics

\* Fault variant of StopReturned: Stop does not wait for Loop.
StopReturnedWithoutWait ==
    /\ main = "stopping"
    /\ queueClosed' = TRUE
    /\ main' = "waiting"
    /\ UNCHANGED <<hasCache, queue, db, index, dbOpen, snap, loop, exitClosed, ticks,
                   wpc, hold, inflight, succ, errs, failures,
                   sent, delivered, dropped, lost, panicked>>
    /\ UNCHANGED metrics

\* Stop's wg.Wait returns once Loop has exited; then close(p.queue).
StopReturned ==
    /\ main = "stopping"
    /\ loop = "exited"
    /\ queueClosed' = TRUE
    /\ main' = "waiting"
    /\ UNCHANGED <<hasCache, queue, db, index, dbOpen, snap, loop, exitClosed, ticks,
                   wpc, hold, inflight, succ, errs, failures,
                   sent, delivered, dropped, lost, panicked>>
    /\ UNCHANGED metrics

\* Fault variant of CloseEnd: the db is closed without p.wg.Wait().
CloseEndWithoutWait ==
    /\ main = "waiting"
    /\ main' = "closed"
    /\ dbOpen' = FALSE
    /\ UNCHANGED <<hasCache, queue, queueClosed, db, index, snap, loop, exitClosed,
                   ticks, wpc, hold, inflight, succ, errs, failures,
                   sent, delivered, dropped, lost, panicked>>
    /\ UNCHANGED metrics

\* p.wg.Wait() returns when every worker goroutine is done; then
\* localCache.Close() closes the db.
CloseEnd ==
    /\ main = "waiting"
    /\ \A w \in Workers : wpc[w] = "done"
    /\ main' = "closed"
    /\ dbOpen' = FALSE
    /\ UNCHANGED <<hasCache, queue, queueClosed, db, index, snap, loop, exitClosed,
                   ticks, wpc, hold, inflight, succ, errs, failures,
                   sent, delivered, dropped, lost, panicked>>
    /\ UNCHANGED metrics

-----------------------------------------------------------------------------
(* LocalStore.Loop                                                         *)

LoopVars == <<hasCache, main, queue, queueClosed, db, index, dbOpen, exitClosed, wpc,
              hold, inflight, succ, errs, failures,
              sent, delivered, dropped, lost, panicked, metrics>>

Tick ==
    /\ loop = "wait"
    /\ ticks < MaxTicks
    /\ ticks' = ticks + 1
    /\ loop' = "scan"
    /\ snap' = db
    /\ UNCHANGED LoopVars

LoopScanEnd ==
    /\ loop = "scan"
    /\ snap = {}
    /\ loop' = "wait"
    /\ UNCHANGED <<snap, ticks>> /\ UNCHANGED LoopVars

LoopExit ==
    /\ loop = "wait"
    /\ exitClosed
    /\ loop' = "exited"
    /\ UNCHANGED <<snap, ticks>> /\ UNCHANGED LoopVars

-----------------------------------------------------------------------------
(* A producerWorker: doMessage, its AsyncProducer, doSuccess and doError. *)

WorkerVars == <<hasCache, main, queueClosed, dbOpen, snap, loop, exitClosed, ticks,
                sent, panicked>>

\* doMessage: e, ok := <-pw.queue with a message waiting.
Recv(w) ==
    /\ wpc[w] = "recv"
    /\ queue # <<>>
    /\ hold' = [hold EXCEPT ![w] = Head(queue)]
    /\ queue' = Tail(queue)
    /\ wpc' = [wpc EXCEPT ![w] = "input"]
    /\ dequeued' = dequeued + 1
    /\ UNCHANGED <<db, index, inflight, succ, errs, failures,
                   delivered, dropped, lost, obs, uncounted>> /\ UNCHANGED WorkerVars

\* doMessage: pw.producer.Input() <- e, blocking while sarama is full.
Input(w) ==
    /\ wpc[w] = "input"
    /\ Cardinality(inflight[w]) < BufSize
    /\ inflight' = [inflight EXCEPT ![w] = @ \cup {hold[w]}]
    /\ hold' = [hold EXCEPT ![w] = None]
    /\ wpc' = [wpc EXCEPT ![w] = "recv"]
    /\ UNCHANGED <<queue, db, index, succ, errs, failures,
                   delivered, dropped, lost>> /\ UNCHANGED WorkerVars
    /\ UNCHANGED metrics

\* Fault variant of WorkerClose: on !ok doMessage continues its loop
\* instead of closing the producer and returning.
WorkerCloseContinue(w) ==
    /\ wpc[w] = "recv"
    /\ queueClosed
    /\ queue = <<>>
    /\ UNCHANGED <<queue, db, index, wpc, hold, inflight, succ, errs, failures,
                   delivered, dropped, lost>> /\ UNCHANGED WorkerVars
    /\ UNCHANGED metrics

\* doMessage: !ok, the queue is closed and drained; pw.close() calls the
\* AsyncProducer's Close, which flushes and itself reads Successes() and
\* Errors() until sarama closes them.
WorkerClose(w) ==
    /\ wpc[w] = "recv"
    /\ queueClosed
    /\ queue = <<>>
    /\ wpc' = [wpc EXCEPT ![w] = "closing"]
    /\ UNCHANGED <<queue, db, index, hold, inflight, succ, errs, failures,
                   delivered, dropped, lost>> /\ UNCHANGED WorkerVars
    /\ UNCHANGED metrics

\* The broker's answer for m: a success, ErrMessageSizeTooLarge for an
\* oversized message, or a transient error.
Resolve(w, m) ==
    /\ m \in inflight[w]
    /\ inflight' = [inflight EXCEPT ![w] = @ \ {m}]
    /\ \/ /\ m \notin Big
          /\ succ' = [succ EXCEPT ![w] = @ \cup {m}]
          /\ delivered' = delivered \cup {m}
          /\ UNCHANGED <<errs, failures>>
       \/ /\ m \in Big
          /\ errs' = [errs EXCEPT ![w] = @ \cup {m}]
          /\ UNCHANGED <<succ, failures, delivered>>
       \/ /\ m \notin Big
          /\ failures < MaxFailures
          /\ failures' = failures + 1
          /\ errs' = [errs EXCEPT ![w] = @ \cup {m}]
          /\ UNCHANGED <<succ, delivered>>
    /\ UNCHANGED <<queue, db, index, wpc, hold, dropped, lost>>
    /\ UNCHANGED WorkerVars
    /\ UNCHANGED metrics

\* doSuccess: one message from Successes(), counted "ok".
HandleSuccess(w) ==
    /\ \E m \in succ[w] : succ' = [succ EXCEPT ![w] = @ \ {m}]
    /\ obs' = Observe(obs, "ok")
    /\ UNCHANGED <<queue, db, index, wpc, hold, inflight, errs, failures,
                   delivered, dropped, lost, dequeued, uncounted>> /\ UNCHANGED WorkerVars

\* Fault variant of HandleError: every error is treated as
\* ErrMessageSizeTooLarge and nothing is written to the store.
HandleErrorNeverPersists(w) ==
    /\ \E m \in errs[w] : errs' = [errs EXCEPT ![w] = @ \ {m}]
    /\ UNCHANGED <<queue, db, index, wpc, hold, inflight, succ, failures,
                   delivered, dropped, lost>> /\ UNCHANGED WorkerVars
    /\ UNCHANGED metrics

\* doError: one message from Errors().  An oversized one is discarded,
\* any other is written to the store ("errorcache").
\* Fault variant of HandleError: "error" is counted only after the size
\* check, so a discarded oversized message is never counted.
HandleErrorCountedLate(w) ==
    /\ \E m \in errs[w] :
          /\ errs' = [errs EXCEPT ![w] = @ \ {m}]
          /\ \/ /\ m \in Big
                /\ dropped' = dropped \cup {m}
                /\ UNCHANGED <<db, index, lost, obs>>
             \/ /\ m \notin Big
                /\ obs' = Observe(Observe(obs, "error"), "errorcache")
                /\ \E o \in WriteToLocal(m) :
                      db' = o.db /\ index' = o.index /\ lost' = o.lost
                /\ UNCHANGED dropped
    /\ UNCHANGED <<queue, wpc, hold, inflight, succ, failures, delivered,
                   dequeued, uncounted>>
    /\ UNCHANGED WorkerVars

HandleError(w) ==
    /\ \E m \in errs[w] :
          /\ errs' = [errs EXCEPT ![w] = @ \ {m}]
          /\ \/ /\ m \in Big
                /\ obs' = Observe(obs, "error")
                /\ dropped' = dropped \cup {m}
                /\ UNCHANGED <<db, index, lost>>
             \/ /\ m \notin Big
                /\ obs' = Observe(Observe(obs, "error"), "errorcache")
                /\ \E o \in WriteToLocal(m) :
                      db' = o.db /\ index' = o.index /\ lost' = o.lost
                /\ UNCHANGED dropped
    /\ UNCHANGED <<queue, wpc, hold, inflight, succ, failures, delivered,
                   dequeued, uncounted>>
    /\ UNCHANGED WorkerVars

\* AsyncProducer.Close, called by pw.close(), ranges over Successes() and
\* Errors() itself, in competition with doSuccess and doError; the errors
\* it collects are returned to doMessage, which discards them.
CloseDrain(w) ==
    /\ wpc[w] = "closing"
    /\ \/ \E m \in succ[w] :
             /\ succ' = [succ EXCEPT ![w] = @ \ {m}]
             /\ UNCHANGED <<errs, lost>>
       \/ \E m \in errs[w] :
             /\ errs' = [errs EXCEPT ![w] = @ \ {m}]
             /\ lost' = lost \cup {[msg |-> m, why |-> "drained"]}
             /\ UNCHANGED succ
    /\ uncounted' = uncounted + 1
    /\ UNCHANGED <<queue, db, index, wpc, hold, inflight, failures,
                   delivered, dropped, obs, dequeued>> /\ UNCHANGED WorkerVars

\* Everything flushed: sarama closes Successes() and Errors(), doSuccess
\* and doError leave their range loops, Close returns to doMessage, and
\* the three goroutines call wg.Done().
WorkerDone(w) ==
    /\ wpc[w] = "closing"
    /\ inflight[w] = {} /\ succ[w] = {} /\ errs[w] = {}
    /\ wpc' = [wpc EXCEPT ![w] = "done"]
    /\ UNCHANGED <<queue, db, index, hold, inflight, succ, errs, failures,
                   delivered, dropped, lost>> /\ UNCHANGED WorkerVars
    /\ UNCHANGED metrics

-----------------------------------------------------------------------------

Init ==
    /\ hasCache \in CachePaths
    /\ main = "new"
    /\ queue = <<>>
    /\ queueClosed = FALSE
    /\ db \in LS!StoredInSomeOrder(IF hasCache THEN PriorMsgs ELSE {})
    /\ index = LS!Recover(db)
    /\ dbOpen = hasCache
    /\ snap = {}
    /\ loop = "off"
    /\ exitClosed = FALSE
    /\ ticks = 0
    /\ wpc = [w \in Workers |-> "off"]
    /\ hold = [w \in Workers |-> None]
    /\ inflight = [w \in Workers |-> {}]
    /\ succ = [w \in Workers |-> {}]
    /\ errs = [w \in Workers |-> {}]
    /\ failures = 0
    /\ sent = IF hasCache THEN PriorMsgs ELSE {}
    /\ delivered = {}
    /\ dropped = {}
    /\ lost = {}
    /\ panicked = FALSE
    /\ obs = [s \in Statuses |-> 0]
    /\ dequeued = 0
    /\ uncounted = 0

\* After Close has returned the program no longer changes this state.
Closed ==
    /\ main = "closed"
    /\ UNCHANGED vars

\* A panic (panicked) ends the process; NoSendOnClosedQueue reports the
\* first state in which it happened.
Next ==
    \/ \E m \in Msgs : Send(m)
    \/ ScanVisit
    \/ StartWithCache \/ StartWorkers
    \/ CloseBegin \/ StopReturned \/ CloseEnd
    \/ Tick \/ LoopScanEnd \/ LoopExit
    \/ \E w \in Workers : Recv(w) \/ Input(w) \/ WorkerClose(w)
    \/ \E w \in Workers, m \in Msgs : Resolve(w, m)
    \/ \E w \in Workers : HandleSuccess(w) \/ HandleError(w)
    \/ \E w \in Workers : CloseDrain(w) \/ WorkerDone(w)
    \/ Closed

\* Every goroutine of the library keeps running while it can; the caller
\* (Send, Start, Close) is under no obligation.  The broker answers every
\* message sarama has accepted, and the ticker fires every loopTime.
Fairness ==
    /\ WF_vars(ScanVisit) /\ WF_vars(StartWorkers)
    /\ WF_vars(StopReturned) /\ WF_vars(CloseEnd)
    /\ WF_vars(Tick) /\ WF_vars(LoopScanEnd) /\ WF_vars(LoopExit)
    /\ \A w \in Workers :
          /\ WF_vars(Recv(w)) /\ WF_vars(Input(w)) /\ WF_vars(WorkerClose(w))
          /\ WF_vars(\E m \in Msgs : Resolve(w, m))
          /\ WF_vars(HandleSuccess(w)) /\ WF_vars(HandleError(w))
          /\ WF_vars(CloseDrain(w)) /\ WF_vars(WorkerDone(w))

Spec == Init /\ [][Next]_vars
FairSpec == Spec /\ Fairness

-----------------------------------------------------------------------------
(* Properties                                                              *)

TypeOK ==
    /\ hasCache \in BOOLEAN
    /\ main \in {"new", "startScan", "running", "stopping", "waiting", "closed"}
    /\ queue \in Seq(Msgs) /\ Len(queue) <= QueueSize
    /\ queueClosed \in BOOLEAN /\ dbOpen \in BOOLEAN /\ exitClosed \in BOOLEAN
    /\ db \subseteq LS!Record /\ index \in Nat
    /\ snap \subseteq LS!Record
    /\ loop \in {"off", "wait", "scan", "exited"}
    /\ ticks \in 0..MaxTicks /\ failures \in 0..MaxFailures
    /\ wpc \in [Workers -> {"off", "recv", "input", "closing", "done"}]
    /\ hold \in [Workers -> Msgs \cup {None}]
    /\ inflight \in [Workers -> SUBSET Msgs]
    /\ succ \in [Workers -> SUBSET Msgs] /\ errs \in [Workers -> SUBSET Msgs]
    /\ sent \subseteq Msgs /\ delivered \subseteq Msgs /\ dropped \subseteq Big
    /\ lost \subseteq [msg : Msgs, why : LossReason]
    /\ panicked \in BOOLEAN
    /\ obs \in [Statuses -> Nat] /\ dequeued \in Nat /\ uncounted \in Nat

\* Where a message can be: in memory (p.queue, a worker, sarama), in the
\* store, or at one of its ends.
InMemory(m) ==
    \/ \E i \in 1..Len(queue) : queue[i] = m
    \/ \E w \in Workers : hold[w] = m \/ m \in inflight[w] \/ m \in errs[w]

Tracked(m) ==
    \/ InMemory(m)
    \/ \E r \in db : r.msg = m
    \/ m \in delivered \/ m \in dropped
    \/ \E l \in lost : l.msg = m

\* Conservation across the hand-offs of Send, Retry, ProcessAll and
\* doError: every message a caller has sent is, in every state, still in
\* memory, in the store, delivered to the broker, discarded as oversized,
\* or in lost with its reason.  The logged reasons are noCache, putError
\* and storeClosed; "drained" is the unlogged error _ = pw.close()
\* discards, which NoSilentLoss (run producer_drain_loss) reports, so this
\* property says nothing about that path and is about every other one:
\* nothing vanishes between the queue, the workers, the broker's answers,
\* the replay and the store without being one of these.
AtLeastOnce == \A m \in sent : Tracked(m)


\* Producer.Close waits for Loop (LocalStore.Stop) before close(p.queue),
\* so Retry, called from ProcessAll, never sends on the closed queue
\* (which would panic).
NoSendOnClosedQueue == ~panicked

\* The completion barrier of Close (p.wg.Wait): once Close has returned,
\* no message is left in p.queue, in a worker, in sarama or in an
\* unread answer.
ShutdownDrained ==
    main = "closed" =>
        /\ queue = <<>>
        /\ \A w \in Workers : /\ hold[w] = None /\ inflight[w] = {}
                              /\ succ[w] = {} /\ errs[w] = {}

\* Close closes the db only after every doError has finished: no message
\* is lost because it was written to an already closed store.
StoreNotUsedAfterClose == \A l \in lost : l.why # "storeClosed"

\* Spec 4.2: closing must not miss any asynchronous outcome; every error
\* sarama reports is handled by doError (persisted or, if oversized,
\* discarded), none is swallowed by pw.close().
NoSilentLoss == \A l \in lost : l.why # "drained"

\* Spec 8 asks that after Close every message a worker dequeued has one
\* outcome observation.  What the code gives: doSuccess counts "ok" and
\* doError counts "error" for every answer it reads (and "errorcache" on
\* top for a transient one), so once Close has returned the "ok" and
\* "error" counts plus the answers pw.close() read itself account for
\* every dequeued message exactly once, across replays and re-sends.
MetricsAccountForDequeued ==
    main = "closed" => obs["ok"] + obs["error"] + uncounted = dequeued

\* Close returns: once Close has begun, the loop exits, every worker
\* drains its queue share and its sarama answers, and the db is closed.
Termination == (main \in {"stopping", "waiting"}) ~> (main = "closed")

=============================================================================
