-------------------------- MODULE ExecutorSidecar --------------------------
(***************************************************************************)
(* The runtimes of external executors: the threads that drain the events   *)
(* of their turns, the sidecar process all of them share with the thread   *)
(* that reads its output (adapters/executors/codex_stdio_transport.py), the *)
(* approvals the sidecar asks for, and the operator who answers, restarts   *)
(* and interrupts (kernel/runtime_coordination.py).                         *)
(*                                                                         *)
(* These are operating system threads: a step is what a thread does between *)
(* two accesses to state others write.  Each runtime has one turn, drained  *)
(* by one thread.                                                           *)
(***************************************************************************)
EXTENDS Naturals, Sequences, FiniteSets

CONSTANTS
    Runtime,        \* executor runtimes, one per assignment
    Request,        \* approval requests of the sidecar
    RuntimeOf,      \* the runtime whose thread a request is about
    None,           \* no process, no queue, no decision
    MaxProgress,    \* bound on the progress events of a stream
    MaxFaults       \* bound on the crashes of the process and the operator's restarts

\* A process starts when there is none, at first and after a restart; each
\* runtime restarts the sidecar at most once.
Process == 1..(1 + Cardinality(Runtime) + MaxFaults)

ASSUME RuntimeAssumption ==
    /\ IsFiniteSet(Runtime)
    /\ RuntimeOf \in [Request -> Runtime]
    /\ None \notin Process /\ None \notin {"approved", "rejected"}
    /\ None \notin Seq({"completed", "failed", "progress", "end"})
    /\ {"none", "reading", "ended"} \cap Request = {}
    /\ {MaxProgress, MaxFaults} \subseteq Nat

VARIABLES
    status,     \* the stored status of each runtime
    bound,      \* runtimes whose thread is mapped to them
    drain,      \* where the drain thread of each runtime is
    outcome,    \* the outcome it has read or found
    sawAny,     \* runtimes whose present stream yielded an event
    tried,      \* runtimes that have used their one recovery
    process,    \* the transport's process, or None
    alive,      \* processes that run
    reader,     \* per process, what its reader thread does
    readerError,\* a reader ended with an error since the last restart
    queue,      \* the event queues in the transport's table
    orphan,     \* per drain, the queue it reads once the table dropped it
    reported,   \* runtimes whose executor has reported an outcome
    auto,       \* requests of risk level "auto"
    pending,    \* the table of approvals that wait
    handler,    \* where the handler of each request is
    mark,       \* per request and writer, how far that one is
    answer,     \* the decision stored in the approval
    said,       \* what the operator said
    told,       \* what the handler returned to be sent to the sidecar
    restarting, \* where the operator's restart is
    listed,     \* runtimes it has still to mark
    crashes, restarts,  \* how many so far
    overtaken   \* history: runtimes that ended while a write was on its way

drains == <<bound, drain, outcome, sawAny, tried>>
sidecar == <<process, alive, reader, readerError>>
events == <<queue, orphan, reported>>
approvals == <<auto, pending, handler, mark, answer, said, told>>
operator == <<restarting, listed, restarts>>
vars == <<status, drains, sidecar, events, approvals, operator, crashes, overtaken>>

-----------------------------------------------------------------------------
Active == {"starting", "restarting", "ready"}
Terminal == {"completed", "stopped", "failed"}
Status == {"none"} \cup Active \cup Terminal

Outcome == {"completed", "failed"}
Item == Outcome \cup {"progress", "end"}   \* "end" is the close sentinel

Decision == {"approved", "rejected"}

\* Who writes the state of an approval into its runtime: the handler when it
\* registers the request ("notice"), and whoever resolves it.
Resolver == {"handler", "operator", "drain"}
Writer == {"notice"} \cup Resolver

\* It has the approval, it has decided it, it has removed it from the table,
\* it has chosen the status to write, it is done.
Mark == {"nothing", "taken", "decided", "stored", "ready", "done"} \cup Terminal

Drain == {"off", "starting", "subscribe", "read", "decide", "crash", "shutdown", "signal",
          "reset", "recorded", "end", "collect", "reject", "done"}
Over == {"collect", "reject", "done"}      \* the outcome has been stored

Handler == {"none", "bound", "open", "resolving", "answered"}

Init ==
    /\ status = [r \in Runtime |-> "none"] /\ bound = {}
    /\ drain = [r \in Runtime |-> "off"] /\ outcome = [r \in Runtime |-> "failed"]
    /\ sawAny = {} /\ tried = {}
    /\ process = None /\ alive = {}
    /\ reader = [p \in Process |-> "none"] /\ readerError = FALSE
    /\ queue = [r \in Runtime |-> None] /\ orphan = [r \in Runtime |-> None]
    /\ reported = {}
    /\ auto = {} /\ pending = {} /\ handler = [x \in Request |-> "none"]
    /\ mark = [x \in Request |-> [v \in Writer |-> "nothing"]]
    /\ answer = [x \in Request |-> None]
    /\ said = [x \in Request |-> None] /\ told = [x \in Request |-> None]
    /\ restarting = "idle" /\ listed = {}
    /\ crashes = 0 /\ restarts = 0
    /\ overtaken = {}

-----------------------------------------------------------------------------
(* The transport.                                                           *)

\* A process is started when there is none; one that died unseen stays.
EnsureConnection ==
    IF process # None
    THEN UNCHANGED sidecar
    ELSE \E p \in Process :
            /\ \A q \in Process : (reader[q] = "none") <=> (q >= p)
            /\ process' = p /\ alive' = alive \cup {p}
            /\ reader' = [reader EXCEPT ![p] = "reading"]
            /\ UNCHANGED readerError

\* The close sentinel goes to the queues of the table.  The queue of a drain
\* that has read its last event is not represented any more.
Signalled == [r \in Runtime |-> IF queue[r] = None THEN None ELSE Append(queue[r], "end")]

\* A restart: the process is terminated and waited for, ...
ShutdownProcess ==
    /\ process' = None /\ alive' = alive \ {process}
    /\ UNCHANGED <<reader, readerError>>

\* ... the error of the reader is forgotten and the queues are closed, ...
SignalShutdown ==
    /\ readerError' = FALSE
    /\ queue' = Signalled
    /\ UNCHANGED <<process, alive, reader, orphan, reported>>

\* ... and dropped.  A drain that reads one keeps it, and nobody writes it again.
ResetQueues ==
    /\ queue' = [r \in Runtime |-> None]
    /\ orphan' = [r \in Runtime |->
                    IF drain[r] = "read" /\ orphan[r] = None THEN queue[r] ELSE orphan[r]]
    /\ UNCHANGED reported

Contents(r) == IF queue[r] = None THEN <<>> ELSE queue[r]

\* The reader reads an event of a thread.  The outcome of a turn is reported
\* once; what is in the pipe is read even when the process is dead.
Deliver(p, r, e) ==
    /\ reader[p] = "reading"
    /\ drain[r] \notin {"off", "recorded", "end"} \cup Over /\ r \notin reported
    /\ e = "progress" =>
         /\ r \notin sawAny
         /\ Cardinality({i \in 1..Len(Contents(r)) : Contents(r)[i] = e}) < MaxProgress
    /\ queue' = [queue EXCEPT ![r] = Append(Contents(r), e)]
    /\ reported' = IF e \in Outcome THEN reported \cup {r} ELSE reported
    /\ UNCHANGED <<status, drains, sidecar, orphan, approvals, operator, crashes, overtaken>>

\* The end of the output of a dead process ends its reader.
ReaderEnds(p) ==
    /\ reader[p] = "reading" /\ p \notin alive
    /\ reader' = [reader EXCEPT ![p] = "ended"]
    /\ queue' = Signalled
    /\ UNCHANGED <<status, drains, process, alive, readerError, orphan, reported, approvals,
                   operator, crashes, overtaken>>

Crash ==
    /\ process \in alive /\ crashes + restarts < MaxFaults
    /\ alive' = alive \ {process} /\ crashes' = crashes + 1
    /\ UNCHANGED <<status, drains, process, reader, readerError, events, approvals, operator,
                   overtaken>>

-----------------------------------------------------------------------------
(* A runtime, from the start of its turn to its end.                        *)

At(r, place) == drain[r] = place
Goes(r, place) == drain' = [drain EXCEPT ![r] = place]
Stores(r, s) == status' = [status EXCEPT ![r] = s]

\* Somebody who saw the runtime active has still to write its status.
WritesLate(r) ==
    \/ r \in listed
    \/ \E x \in Request, v \in Writer : RuntimeOf[x] = r /\ mark[x][v] = "ready"

\* A runtime ends.
Ends(r, s) ==
    /\ Stores(r, s)
    /\ overtaken' = IF WritesLate(r) THEN overtaken \cup {r} ELSE overtaken

Start(r) ==
    /\ At(r, "off") /\ Goes(r, "starting") /\ Stores(r, "starting")
    /\ EnsureConnection
    /\ UNCHANGED <<bound, outcome, sawAny, tried, events, approvals, operator, crashes, overtaken>>

\* The answers to thread/start and turn/start come through the reader.  A
\* turn with another model than the selected one is stored as a failure, but
\* its thread is bound and its events are drained all the same.
Started(r) ==
    /\ At(r, "starting") /\ \E p \in Process : reader[p] = "reading"
    /\ Goes(r, "subscribe") /\ \E s \in {"ready", "failed"} : Stores(r, s)
    /\ bound' = bound \cup {r}
    /\ UNCHANGED <<outcome, sawAny, tried, sidecar, events, approvals, operator, crashes,
                   overtaken>>

\* No answer, an error, or the wait for it ended.
StartFailed(r) ==
    /\ At(r, "starting") /\ Goes(r, "done") /\ Ends(r, "failed")
    /\ queue' = [queue EXCEPT ![r] = None]
    /\ UNCHANGED <<bound, outcome, sawAny, tried, sidecar, orphan, reported, approvals, operator,
                   crashes>>

Subscribe(r) ==
    /\ At(r, "subscribe") /\ Goes(r, "read")
    /\ EnsureConnection
    /\ queue' = [queue EXCEPT ![r] = Contents(r)]
    /\ sawAny' = sawAny \ {r}
    /\ UNCHANGED <<status, bound, outcome, tried, orphan, reported, approvals, operator, crashes,
                   overtaken>>

Stream(r) == IF orphan[r] = None THEN queue[r] ELSE orphan[r]

\* An event is recorded and stored as progress of the runtime, which makes it
\* "ready".  The recording of an outcome stores its status already and ends the
\* drain; the close sentinel ends the stream.
Take(r) ==
    /\ At(r, "read") /\ Stream(r) \notin {<<>>, None}
    /\ LET item == Head(Stream(r))
           place == IF item = "end" THEN "decide" ELSE IF item \in Outcome THEN "recorded" ELSE "read"
       IN
       /\ Goes(r, place)
       /\ orphan' = [orphan EXCEPT ![r] = IF orphan[r] = None \/ place # "read" THEN None
                                         ELSE Tail(orphan[r])]
       /\ queue' = [queue EXCEPT ![r] = IF place = "recorded" THEN None
                                       ELSE IF orphan[r] = None THEN Tail(queue[r]) ELSE queue[r]]
       /\ IF item = "end"
          THEN UNCHANGED <<status, sawAny>>
          ELSE /\ Stores(r, IF item \in Outcome THEN item ELSE "ready")
               /\ sawAny' = sawAny \cup {r}
       /\ outcome' = [outcome EXCEPT ![r] = IF item \in Outcome THEN item ELSE outcome[r]]
    /\ UNCHANGED <<bound, tried, sidecar, reported, approvals, operator, crashes, overtaken>>

\* An empty queue is polled until a reader has ended with an error.
StreamFails(r) ==
    /\ At(r, "read") /\ Stream(r) = <<>> /\ readerError
    /\ Goes(r, "crash") /\ orphan' = [orphan EXCEPT ![r] = None]
    /\ UNCHANGED <<status, bound, outcome, sawAny, tried, sidecar, queue, reported, approvals,
                   operator, crashes, overtaken>>

\* A stream that ended before any event while the sidecar looks connected is
\* subscribed again.
Decide(r) ==
    /\ At(r, "decide")
    /\ Goes(r, IF r \notin sawAny /\ process \in alive /\ ~readerError
               THEN "subscribe" ELSE "crash")
    /\ UNCHANGED <<status, bound, outcome, sawAny, tried, sidecar, events, approvals, operator,
                   crashes, overtaken>>

\* The first time, the sidecar is restarted.
Recover(r) ==
    /\ At(r, "crash") /\ r \notin tried
    /\ Goes(r, "shutdown") /\ Stores(r, "restarting")
    /\ tried' = tried \cup {r}
    /\ UNCHANGED <<bound, outcome, sawAny, sidecar, events, approvals, operator, crashes,
                   overtaken>>

\* The second time, a failure is recorded and ends the drain.
GiveUp(r) ==
    /\ At(r, "crash") /\ r \in tried
    /\ Goes(r, "recorded") /\ Stores(r, "failed")
    /\ outcome' = [outcome EXCEPT ![r] = "failed"]
    /\ queue' = [queue EXCEPT ![r] = None]
    /\ UNCHANGED <<bound, sawAny, tried, sidecar, orphan, reported, approvals, operator, crashes,
                   overtaken>>

RestartStep(r) ==
    /\ \/ At(r, "shutdown") /\ Goes(r, "signal") /\ ShutdownProcess /\ UNCHANGED events
       \/ At(r, "signal") /\ Goes(r, "reset") /\ SignalShutdown
       \/ At(r, "reset") /\ Goes(r, "subscribe") /\ ResetQueues /\ UNCHANGED sidecar
    /\ UNCHANGED <<status, bound, outcome, sawAny, tried, approvals, operator, crashes, overtaken>>

\* Then the outcome counts as progress.
Progress(r) ==
    /\ At(r, "recorded") /\ Goes(r, "end") /\ Stores(r, "ready")
    /\ UNCHANGED <<bound, outcome, sawAny, tried, sidecar, events, approvals, operator, crashes,
                   overtaken>>

\* The outcome is stored for good, and what the drain knew is of no use any more, ...
End(r) ==
    /\ At(r, "end") /\ Goes(r, "collect") /\ Ends(r, outcome[r])
    /\ outcome' = [outcome EXCEPT ![r] = "failed"]
    /\ sawAny' = sawAny \ {r} /\ tried' = tried \ {r}
    /\ UNCHANGED <<bound, sidecar, events, approvals, operator, crashes>>

\* ... then the approvals that wait for it are collected ...
Collect(r) ==
    /\ At(r, "collect") /\ Goes(r, "reject")
    /\ mark' = [x \in Request |->
                    IF x \in pending /\ RuntimeOf[x] = r THEN [mark[x] EXCEPT !["drain"] = "taken"]
                    ELSE mark[x]]
    /\ UNCHANGED <<status, bound, outcome, sawAny, tried, sidecar, events, auto, pending, handler,
                   answer, said, told, operator, crashes, overtaken>>

\* ... and rejected, and its thread is forgotten.
Unbind(r) ==
    /\ At(r, "reject") /\ Goes(r, "done")
    /\ \A x \in Request : RuntimeOf[x] = r => mark[x]["drain"] \in {"nothing", "done"}
    /\ bound' = bound \ {r}
    /\ UNCHANGED <<status, outcome, sawAny, tried, sidecar, events, approvals, operator, crashes,
                   overtaken>>

-----------------------------------------------------------------------------
(* An approval request, handled in the thread that reads the sidecar.       *)

\* A request about a thread that is not bound is rejected at once.
Ask(p, x) ==
    /\ reader[p] = "reading" /\ handler[x] = "none" /\ drain[RuntimeOf[x]] # "off"
    /\ reader' = [reader EXCEPT ![p] = x]
    /\ IF RuntimeOf[x] \in bound
       THEN handler' = [handler EXCEPT ![x] = "bound"] /\ UNCHANGED told
       ELSE /\ handler' = [handler EXCEPT ![x] = "answered"]
            /\ told' = [told EXCEPT ![x] = "rejected"]
    /\ UNCHANGED <<status, drains, process, alive, readerError, events, auto, pending, mark, answer,
                   said, operator, crashes, overtaken>>

\* The sidecar, or the assignment, says how risky the request is.
Register(x) ==
    /\ handler[x] = "bound"
    /\ handler' = [handler EXCEPT ![x] = "open"]
    /\ pending' = pending \cup {x}
    /\ mark' = [mark EXCEPT ![x]["notice"] = "stored"]
    /\ auto' \in {auto, auto \cup {x}}
    /\ UNCHANGED <<status, drains, sidecar, events, answer, said, told, operator, crashes,
                   overtaken>>

\* A bug: the state of an approval makes its runtime "ready", ended or not.
KeptReady(s) == "ready"

\* A writer reads the status of the runtime: one that has ended is kept, any
\* other becomes "ready".
Kept(s) == IF s \in Terminal THEN s ELSE "ready"

Look(x, v) ==
    /\ mark[x][v] = "stored"
    /\ mark' = [mark EXCEPT ![x][v] = Kept(status[RuntimeOf[x]])]
    /\ UNCHANGED <<status, drains, sidecar, events, auto, pending, handler, answer, said, told,
                   operator, crashes, overtaken>>

Write(x, v) ==
    /\ mark[x][v] \in {"ready"} \cup Terminal
    /\ Stores(RuntimeOf[x], mark[x][v])
    /\ mark' = [mark EXCEPT ![x][v] = "done"]
    /\ UNCHANGED <<drains, sidecar, events, auto, pending, handler, answer, said, told, operator,
                   crashes, overtaken>>

\* A bug: an approval that nobody answers counts as granted.
VerdictGranting(x, v) == IF v = "operator" THEN said[x] ELSE "approved"

\* What a resolver stores.
Verdict(x, v) ==
    CASE v = "operator" -> said[x]
      [] v = "handler" -> IF x \in auto THEN "approved" ELSE "rejected"
      [] v = "drain" -> "rejected"

\* A decision is stored in the approval, over any other and without the lock:
\* the approval is still in the table, ...
Resolves(x, v) ==
    /\ answer' = [answer EXCEPT ![x] = Verdict(x, v)]
    /\ mark' = [mark EXCEPT ![x][v] = "decided"]

\* A bug: the approval stays in the table.
KeepsListed(x, v) ==
    /\ mark[x][v] = "decided"
    /\ mark' = [mark EXCEPT ![x][v] = "stored"]
    /\ UNCHANGED <<status, drains, sidecar, events, auto, pending, handler, answer, said, told,
                   operator, crashes, overtaken>>

\* ... and leaves it in a second step, under the lock.
Unlist(x, v) ==
    /\ mark[x][v] = "decided"
    /\ pending' = pending \ {x}
    /\ mark' = [mark EXCEPT ![x][v] = "stored"]
    /\ UNCHANGED <<status, drains, sidecar, events, auto, handler, answer, said, told, operator,
                   crashes, overtaken>>

\* Whoever has taken an approval from the table resolves it, the drain one
\* after the other.
Resolve(x, v) ==
    /\ mark[x][v] = "taken"
    /\ v = "drain" => \A y \in Request \ {x} :
                        RuntimeOf[y] = RuntimeOf[x] => mark[y][v] \in {"nothing", "taken", "done"}
    /\ Resolves(x, v)
    /\ UNCHANGED <<status, drains, sidecar, events, auto, pending, handler, said, told, operator,
                   crashes, overtaken>>

Open(x) == handler[x] = "open" /\ mark[x]["notice"] = "done"
Woken(x) == \E v \in {"operator", "drain"} : mark[x][v] = "done"

\* A request of risk level "auto" is approved.
AutoApprove(x) ==
    /\ Open(x) /\ x \in auto
    /\ handler' = [handler EXCEPT ![x] = "resolving"]
    /\ Resolves(x, "handler")
    /\ UNCHANGED <<status, drains, sidecar, events, auto, pending, said, told, operator, crashes,
                   overtaken>>

\* Any other waits for whoever resolves it, and rejects it after a while.
TimeOut(x) ==
    /\ Open(x) /\ x \notin auto /\ ~Woken(x)
    /\ handler' = [handler EXCEPT ![x] = "resolving"]
    /\ Resolves(x, "handler")
    /\ UNCHANGED <<status, drains, sidecar, events, auto, pending, said, told, operator, crashes,
                   overtaken>>

\* The handler returns the decision the approval holds by now.
Return(x) ==
    /\ \/ Open(x) /\ x \notin auto /\ Woken(x)
       \/ handler[x] = "resolving" /\ mark[x]["handler"] = "done"
    /\ handler' = [handler EXCEPT ![x] = "answered"]
    /\ told' = [told EXCEPT ![x] = answer[x]]
    /\ UNCHANGED <<status, drains, sidecar, events, auto, pending, mark, answer, said, operator,
                   crashes, overtaken>>

\* The reader sends it to the process of the moment.  A send that fails ends
\* the reader with an error.
Send(p, x) ==
    /\ reader[p] = x /\ handler[x] = "answered"
    /\ IF process \in alive
       THEN /\ reader' = [reader EXCEPT ![p] = "reading"]
            /\ UNCHANGED <<readerError, queue>>
       ELSE /\ reader' = [reader EXCEPT ![p] = "ended"]
            /\ readerError' = TRUE /\ queue' = Signalled
    /\ UNCHANGED <<status, drains, process, alive, orphan, reported, approvals, operator, crashes,
                   overtaken>>

-----------------------------------------------------------------------------
(* The operator.                                                            *)

Respond(x, d) ==
    /\ x \in pending /\ said[x] = None
    /\ said' = [said EXCEPT ![x] = d]
    /\ mark' = [mark EXCEPT ![x]["operator"] = "taken"]
    /\ UNCHANGED <<status, drains, sidecar, events, auto, pending, handler, answer, told, operator,
                   crashes, overtaken>>

\* The active runtimes are listed, marked one after the other, and the sidecar
\* is restarted.
BeginRestart ==
    /\ restarting = "idle" /\ crashes + restarts < MaxFaults
    /\ restarting' = "marking" /\ restarts' = restarts + 1
    /\ listed' = {r \in Runtime : status[r] \in Active}
    /\ UNCHANGED <<status, drains, sidecar, events, approvals, crashes, overtaken>>

MarkRestarting(r) ==
    /\ restarting = "marking" /\ r \in listed
    /\ Stores(r, "restarting")
    /\ listed' = listed \ {r}
    /\ UNCHANGED <<drains, sidecar, events, approvals, restarting, restarts, crashes,
                   overtaken>>

OperatorRestartStep ==
    /\ \/ /\ restarting = "marking" /\ listed = {} /\ restarting' = "signal"
          /\ ShutdownProcess /\ UNCHANGED events
       \/ restarting = "signal" /\ restarting' = "reset" /\ SignalShutdown
       \/ restarting = "reset" /\ restarting' = "idle" /\ ResetQueues /\ UNCHANGED sidecar
    /\ UNCHANGED <<status, drains, approvals, listed, restarts, crashes, overtaken>>

\* An interrupt that the sidecar acknowledges, through its reader, stores the
\* runtime as stopped.  It may name a runtime that has ended.
Interrupt(r) ==
    /\ drain[r] \notin {"off", "starting"}
    /\ process \in alive /\ reader[process] = "reading"
    /\ Stores(r, "stopped")
    /\ UNCHANGED <<drains, sidecar, events, approvals, operator, crashes, overtaken>>

-----------------------------------------------------------------------------
DrainStep(r) ==
    \/ Started(r) \/ StartFailed(r) \/ Subscribe(r) \/ Take(r) \/ StreamFails(r) \/ Decide(r)
    \/ Recover(r) \/ GiveUp(r) \/ Progress(r) \/ RestartStep(r) \/ End(r) \/ Collect(r) \/ Unbind(r)

HandlerStep(x) ==
    \/ Register(x) \/ AutoApprove(x) \/ TimeOut(x) \/ Return(x)

WriterStep(x, v) ==
    \/ v \in Resolver /\ (Resolve(x, v) \/ Unlist(x, v))
    \/ Look(x, v) \/ Write(x, v)

ReaderStep(p) == ReaderEnds(p) \/ \E x \in Request : Send(p, x)

OperatorStep ==
    \/ OperatorRestartStep
    \/ \E r \in Runtime : MarkRestarting(r)

\* What the threads do by themselves.
ThreadStep ==
    \/ \E r \in Runtime : DrainStep(r)
    \/ \E x \in Request : HandlerStep(x)
    \/ \E x \in Request, v \in Writer : WriterStep(x, v)
    \/ \E p \in Process : ReaderStep(p)
    \/ OperatorStep

\* What the executor, the operator and the callers may do.
Environment ==
    \/ \E r \in Runtime : Start(r) \/ Interrupt(r)
    \/ \E p \in Process, r \in Runtime, e \in Outcome \cup {"progress"} : Deliver(p, r, e)
    \/ \E p \in Process, x \in Request : Ask(p, x)
    \/ \E x \in Request, d \in Decision : Respond(x, d)
    \/ BeginRestart \/ Crash

Next == ThreadStep \/ Environment

Spec == Init /\ [][Next]_vars

\* Every thread that can go on does, and a wait with a timeout ends.
FairSpec ==
    /\ Spec
    /\ \A r \in Runtime : WF_vars(DrainStep(r))
    /\ \A x \in Request : WF_vars(HandlerStep(x))
    /\ \A x \in Request, v \in Writer : WF_vars(WriterStep(x, v))
    /\ \A p \in Process : WF_vars(ReaderStep(p))
    /\ WF_vars(OperatorStep)

-----------------------------------------------------------------------------
TypeOK ==
    /\ status \in [Runtime -> Status] /\ bound \subseteq Runtime
    /\ drain \in [Runtime -> Drain] /\ outcome \in [Runtime -> Outcome]
    /\ sawAny \subseteq Runtime /\ tried \subseteq Runtime
    /\ process \in Process \cup {None} /\ alive \subseteq Process
    /\ reader \in [Process -> {"none", "reading", "ended"} \cup Request]
    /\ readerError \in BOOLEAN
    /\ queue \in [Runtime -> Seq(Item) \cup {None}] /\ orphan \in [Runtime -> Seq(Item) \cup {None}]
    /\ reported \subseteq Runtime
    /\ auto \subseteq Request /\ pending \subseteq Request /\ handler \in [Request -> Handler]
    /\ mark \in [Request -> [Writer -> Mark]]
    /\ answer \in [Request -> Decision \cup {None}]
    /\ said \in [Request -> Decision \cup {None}] /\ told \in [Request -> Decision \cup {None}]
    /\ restarting \in {"idle", "marking", "signal", "reset"} /\ listed \subseteq Runtime
    /\ crashes \in 0..MaxFaults /\ restarts \in 0..MaxFaults
    /\ overtaken \subseteq Runtime
    \* A drain that reads has a queue, and reads a dropped one only then.
    /\ \A r \in Runtime : /\ drain[r] = "read" => Stream(r) # None
                          /\ orphan[r] # None => drain[r] = "read"

\* A runtime whose outcome has been stored stays ended: an approval that is
\* registered or resolved afterwards, a restart and an interrupt do not make it
\* active again.  Only a write by someone who had read its status before it
\* ended may (kernel/runtime_coordination.py 793-815, 619-653).
EndedStaysEnded ==
    \A r \in Runtime : drain[r] \in Over => status[r] \in Terminal \/ r \in overtaken

\* The sidecar is told that a request is approved only if its risk level is
\* "auto" or the operator approved it: whatever times out, ends or crosses
\* with an answer never turns into an approval.
ApprovalNeedsOperator ==
    \A x \in Request : told[x] = "approved" => x \in auto \/ said[x] = "approved"

\* An approval in the table is one its handler has not returned yet, and no
\* decision is left in it: whoever decided it is just about to remove it.  (In
\* between, the operator still sees it listed and may overrule the decision.)
ListedIsOpen ==
    \A x \in pending :
        /\ handler[x] \in {"open", "resolving"} /\ told[x] = None
        /\ answer[x] # None => \E v \in Resolver : mark[x][v] = "decided"

\* When the sidecar dies, a drain that reads its events notices and restarts
\* it or gives up: it does not read on for ever.
CrashNoticed ==
    \A r \in Runtime : drain[r] = "read" /\ process \notin alive ~> drain[r] # "read"
=============================================================================
