------------------------------- MODULE Consumer -------------------------------
(***************************************************************************)
(* The Consumer interface of kafka/consumer.go and its three               *)
(* implementations: Consumer2 (sarama ConsumerGroup, Kafka >= 2.0),        *)
(* Consumer11 (sarama-cluster, Kafka >= 1.0) and Consumer08 (zookeeper     *)
(* consumergroup).  NewConsumer picks one from the version string.         *)
(*                                                                         *)
(* Goroutines of the wrapper, with program counter pc[g]:                  *)
(*   "msg"     Consumer2's Consume loop and its ConsumeClaim handler,      *)
(*             doMessages of Consumer11 and Consumer08;                    *)
(*   "err"     doErrors;                                                   *)
(*   "notice"  doNotice (Consumer11 only).                                 *)
(* The client library is abstracted to an open/closed flag, the messages   *)
(* it has ready on Messages() (one partition claim), and a count of        *)
(* errors ready on Errors().  Close waits as the libraries do: sarama's    *)
(* ConsumerGroup.Close takes the lock Consume holds for a whole session,   *)
(* consumergroup.Close waits for the last delivered offset to be           *)
(* CommitUpto'd, or for Offsets.ProcessingTimeout.                         *)
(***************************************************************************)
EXTENDS Naturals, FiniteSets

CONSTANTS
    Msgs,            \* messages the broker holds for the group
    Versions,        \* version strings, as [major, parses]
    MaxErrors,       \* bound on errors the client reports
    MaxRebalances,   \* bound on sessions ended by a rebalance
    None

Goroutines == {"msg", "err", "notice"}
Impls == {"Consumer2", "Consumer11", "Consumer08"}

VARIABLES
    impl,          \* the implementation NewConsumer returned
    user,          \* the caller: "new", "started", "closing", "closed"
    exitClosed,    \* k.exit has been closed
    lib,           \* the client: "open", "closing" (Consumer2's c.closed) or "closed"
    avail,         \* messages ready on Messages()
    fetched,       \* history: messages the client has delivered
    errq,          \* errors ready on Errors()
    errs,          \* errors reported so far
    pc,            \* pc[g] for g \in Goroutines
    cur,           \* the message the "msg" goroutine is processing
    processed,     \* history: messages passed to process
    marked,        \* messages marked (MarkMessage / MarkOffset / CommitUpto)
    committed,     \* offsets Consumer11.Close committed
    rebalances

vars == <<impl, user, exitClosed, lib, avail, fetched, errq, errs, pc, cur,
          processed, marked, committed, rebalances>>

\* kafkaVersion: the error of sarama.ParseKafkaVersion is ignored, so a
\* string that does not parse yields the zero version.
KafkaVersionMajor(v) == IF v.parses THEN v.major ELSE 0

\* NewConsumer: the first implementation whose minimum version v reaches.
NewConsumerImpl(major) ==
    CASE major >= 2 -> "Consumer2"
      [] major >= 1 -> "Consumer11"
      [] OTHER      -> "Consumer08"

\* The goroutines each Start spawns.
Spawned(i) ==
    CASE i = "Consumer11" -> Goroutines
      [] OTHER            -> {"msg", "err"}

libVars == <<fetched, errs>>

-----------------------------------------------------------------------------
(* The client library and the caller.                                      *)

\* The client delivers a new message on Messages().
Fetch(m) ==
    /\ lib = "open" /\ m \in Msgs \ fetched
    /\ fetched' = fetched \cup {m}
    /\ avail' = avail \cup {m}
    /\ UNCHANGED <<impl, user, exitClosed, lib, errq, errs, pc, cur,
                   processed, marked, committed, rebalances>>

\* The client reports an error on Errors().
LibError ==
    /\ lib = "open" /\ errs < MaxErrors
    /\ errs' = errs + 1 /\ errq' = errq + 1
    /\ UNCHANGED <<impl, user, exitClosed, lib, avail, fetched, pc, cur,
                   processed, marked, committed, rebalances>>

\* Start: Consumer2 and Consumer11 make k.exit; each spawns its goroutines.
Start ==
    /\ user = "new"
    /\ user' = "started"
    /\ pc' = [g \in Goroutines |-> IF g \in Spawned(impl) THEN "select" ELSE "off"]
    /\ UNCHANGED <<impl, exitClosed, lib, avail, errq, cur, processed, marked,
                   committed, rebalances>> /\ UNCHANGED libVars

\* Close of Consumer2 and Consumer11, first statement: close(k.exit).
CloseExit ==
    /\ user = "started" /\ impl # "Consumer08"
    /\ exitClosed' = TRUE
    /\ user' = "closing"
    /\ UNCHANGED <<impl, lib, avail, errq, pc, cur, processed, marked,
                   committed, rebalances>> /\ UNCHANGED libVars

\* Consumer2.Close: k.client.Close() first closes c.closed, which ends the
\* running session.
ClientCloseBegin ==
    /\ impl = "Consumer2" /\ user = "closing" /\ lib = "open"
    /\ lib' = "closing"
    /\ UNCHANGED <<impl, user, exitClosed, avail, errq, pc, cur, processed,
                   marked, committed, rebalances>> /\ UNCHANGED libVars

\* Then it takes c.lock, which Consume holds until ConsumeClaim (and so
\* process) has returned, drains Errors() and closes the client.
\* Consumer08.Close: k.cg.Close() closes its stopper and waits until the
\* offset last delivered on Messages() has been CommitUpto'd, or until
\* Offsets.ProcessingTimeout (timedOut) has passed; it then closes
\* Messages() and Errors(), whose buffered contents the goroutines still read.
ClientClose ==
    /\ \/ /\ impl = "Consumer2" /\ user = "closing" /\ lib = "closing"
          /\ pc["msg"] \notin {"consume", "process"}
          /\ errq' = 0
       \/ /\ impl = "Consumer08" /\ user = "started"
          /\ \E timedOut \in BOOLEAN :
                timedOut \/ (avail = {} /\ pc["msg"] # "process")
          /\ UNCHANGED errq
    /\ lib' = "closed"
    /\ user' = "closed"
    /\ UNCHANGED <<impl, exitClosed, avail, pc, cur, processed, marked,
                   committed, rebalances>> /\ UNCHANGED libVars

\* Fault variant of Close11Return: CommitOffsets does not wait for wg.
Close11ReturnWithoutWait ==
    /\ impl = "Consumer11" /\ user = "closing"
    /\ committed' = marked
    /\ lib' = "closed" /\ errq' = 0
    /\ user' = "closed"
    /\ UNCHANGED <<impl, exitClosed, avail, pc, cur, processed, marked,
                   rebalances>> /\ UNCHANGED libVars

\* Consumer11.Close after close(k.exit): k.wg.Wait(), then CommitOffsets
\* of what was marked, then k.consumer.Close().
Close11Return ==
    /\ impl = "Consumer11" /\ user = "closing"
    /\ \A g \in Goroutines : pc[g] \in {"off", "done"}
    /\ committed' = marked
    /\ lib' = "closed" /\ errq' = 0
    /\ user' = "closed"
    /\ UNCHANGED <<impl, exitClosed, avail, pc, cur, processed, marked,
                   rebalances>> /\ UNCHANGED libVars

-----------------------------------------------------------------------------
(* The "msg" goroutine.                                                    *)

\* Take m from Messages(): the select case of Consumer11.doMessages, the
\* range of Consumer08.doMessages, the range over claim.Messages() in
\* Consumer2.ConsumeClaim (a closed group's claim delivers nothing).
Take(m) ==
    /\ m \in avail
    /\ \/ impl = "Consumer11" /\ pc["msg"] = "select"
       \/ impl = "Consumer08" /\ pc["msg"] = "select"
       \/ impl = "Consumer2"  /\ pc["msg"] = "consume" /\ lib # "closed"
    /\ avail' = avail \ {m}
    /\ cur' = m
    /\ pc' = [pc EXCEPT !["msg"] = "process"]
    /\ UNCHANGED <<impl, user, exitClosed, lib, errq, processed, marked,
                   committed, rebalances>> /\ UNCHANGED libVars

\* k.process(msg), its error only logged, then the mark: MarkOffset,
\* session.MarkMessage or cg.CommitUpto.
Process ==
    /\ pc["msg"] = "process"
    /\ processed' = processed \cup {cur}
    /\ marked' = marked \cup {cur}
    /\ cur' = None
    /\ pc' = [pc EXCEPT !["msg"] = IF impl = "Consumer2" THEN "consume" ELSE "select"]
    /\ UNCHANGED <<impl, user, exitClosed, lib, avail, errq, committed,
                   rebalances>> /\ UNCHANGED libVars

\* Consumer08.doMessages: the range ends when cg.Close has closed and
\* emptied Messages().
RangeEnd08 ==
    /\ impl = "Consumer08" /\ pc["msg"] = "select"
    /\ lib = "closed" /\ avail = {}
    /\ pc' = [pc EXCEPT !["msg"] = "done"]
    /\ UNCHANGED <<impl, user, exitClosed, lib, avail, errq, cur, processed,
                   marked, committed, rebalances>> /\ UNCHANGED libVars

\* Fault variant of Select2: the loop never looks at k.exit.
Select2IgnoringExit ==
    /\ impl = "Consumer2" /\ pc["msg"] = "select"
    /\ pc' = [pc EXCEPT !["msg"] = "call"]
    /\ UNCHANGED <<impl, user, exitClosed, lib, avail, errq, cur, processed,
                   marked, committed, rebalances>> /\ UNCHANGED libVars

\* Consumer2.Start's loop: select { case <-k.exit: return; default: }.
Select2 ==
    /\ impl = "Consumer2" /\ pc["msg"] = "select"
    /\ pc' = [pc EXCEPT !["msg"] = IF exitClosed THEN "done" ELSE "call"]
    /\ UNCHANGED <<impl, user, exitClosed, lib, avail, errq, cur, processed,
                   marked, committed, rebalances>> /\ UNCHANGED libVars

\* k.client.Consume: a closed group returns ErrClosedConsumerGroup at
\* once (logged); an open one sets up a session, runs Setup and the
\* ConsumeClaim handler.
Consume2 ==
    /\ impl = "Consumer2" /\ pc["msg"] = "call"
    /\ pc' = [pc EXCEPT !["msg"] = IF lib = "open" THEN "consume" ELSE "select"]
    /\ UNCHANGED <<impl, user, exitClosed, lib, avail, errq, cur, processed,
                   marked, committed, rebalances>> /\ UNCHANGED libVars

\* The session ends, by a rebalance or because the group closed: the
\* claim's channel closes, Cleanup runs and Consume returns to the loop.
SessionEnd2 ==
    /\ impl = "Consumer2" /\ pc["msg"] = "consume"
    /\ \/ lib # "open" /\ UNCHANGED rebalances
       \/ lib = "open" /\ rebalances < MaxRebalances
          /\ rebalances' = rebalances + 1
    /\ pc' = [pc EXCEPT !["msg"] = "select"]
    /\ UNCHANGED <<impl, user, exitClosed, lib, avail, errq, cur, processed,
                   marked, committed>> /\ UNCHANGED libVars

-----------------------------------------------------------------------------
(* doErrors and doNotice.                                                  *)

\* One error read from Errors() and logged.
HandleError ==
    /\ pc["err"] = "select" /\ errq > 0
    /\ errq' = errq - 1
    /\ UNCHANGED <<impl, user, exitClosed, lib, avail, pc, cur, processed,
                   marked, committed, rebalances>> /\ UNCHANGED libVars

\* Consumer2 and Consumer08: the range over Errors() ends once the client
\* has closed it.
ErrorsRangeEnd ==
    /\ impl # "Consumer11" /\ pc["err"] = "select"
    /\ lib = "closed" /\ errq = 0
    /\ pc' = [pc EXCEPT !["err"] = "done"]
    /\ UNCHANGED <<impl, user, exitClosed, lib, avail, errq, cur, processed,
                   marked, committed, rebalances>> /\ UNCHANGED libVars

\* Consumer11's doMessages, doErrors and doNotice: case <-k.exit: return.
Exit11(g) ==
    /\ impl = "Consumer11" /\ pc[g] = "select" /\ exitClosed
    /\ pc' = [pc EXCEPT ![g] = "done"]
    /\ UNCHANGED <<impl, user, exitClosed, lib, avail, errq, cur, processed,
                   marked, committed, rebalances>> /\ UNCHANGED libVars

-----------------------------------------------------------------------------

\* NewConsumer with one of the version strings.
Init ==
    /\ \E v \in Versions : impl = NewConsumerImpl(KafkaVersionMajor(v))
    /\ user = "new" /\ exitClosed = FALSE /\ lib = "open"
    /\ avail = {} /\ fetched = {} /\ errq = 0 /\ errs = 0
    /\ pc = [g \in Goroutines |-> "off"]
    /\ cur = None /\ processed = {} /\ marked = {} /\ committed = {}
    /\ rebalances = 0

\* Once Close has returned and every goroutine is done, nothing changes.
Stopped ==
    /\ user = "closed" /\ \A g \in Goroutines : pc[g] \in {"off", "done"}
    /\ UNCHANGED vars

Next ==
    \/ \E m \in Msgs : Fetch(m) \/ Take(m)
    \/ LibError \/ Start \/ CloseExit \/ ClientCloseBegin \/ ClientClose
    \/ Close11Return
    \/ Process \/ RangeEnd08 \/ Select2 \/ Consume2 \/ SessionEnd2
    \/ HandleError \/ ErrorsRangeEnd
    \/ \E g \in Goroutines : Exit11(g)
    \/ Stopped

\* The wrapper's goroutines and the rest of a Close already called make
\* progress; the broker (Fetch, LibError, rebalances) and the caller
\* (Start, CloseExit) owe nothing.
Fairness ==
    /\ WF_vars(\E m \in Msgs : Take(m)) /\ WF_vars(Process)
    /\ WF_vars(RangeEnd08) /\ WF_vars(Select2) /\ WF_vars(Consume2)
    /\ WF_vars(HandleError) /\ WF_vars(ErrorsRangeEnd)
    /\ WF_vars(ClientCloseBegin) /\ WF_vars(ClientClose /\ user = "closing")
    /\ WF_vars(Close11Return)
    /\ WF_vars(SessionEnd2 /\ lib # "open")
    /\ \A g \in Goroutines : WF_vars(Exit11(g))

Spec == Init /\ [][Next]_vars
FairSpec == Spec /\ Fairness

-----------------------------------------------------------------------------

\* Consumer11.Close commits only after wg.Wait: when it returns, every
\* message ever passed to process has its offset committed, so none is
\* redelivered to the group because a handler was still running.
CommitCoversProcessed ==
    (impl = "Consumer11" /\ user = "closed") => committed = processed

\* Close of any implementation returns only when no process call is still
\* running in a goroutine the wrapper started, whose mark would otherwise
\* act on a closed client.
NoProcessAfterClose ==
    user = "closed" => pc["msg"] # "process"

\* Once Close has begun it returns, and every goroutine Start spawned
\* (Consume loop, doMessages, doErrors, doNotice) exits.
ShutdownCompletes ==
    (user \in {"closing", "closed"}) ~>
        (user = "closed" /\ \A g \in Goroutines : pc[g] \in {"off", "done"})

=============================================================================
