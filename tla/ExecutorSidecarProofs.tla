----------------------- MODULE ExecutorSidecarProofs -----------------------
(***************************************************************************)
(* Theorems about ExecutorSidecar, for any number of runtimes, requests,   *)
(* processes, crashes and restarts.                                         *)
(***************************************************************************)
EXTENDS ExecutorSidecar, TLAPS

\* Contents, Signalled and the streams are queues of items; None is no queue.
LEMMA NoneIsNoQueue == None \notin Seq(Item)
<1>1. Item = {"completed", "failed", "progress", "end"}
  BY DEF Item, Outcome
<1> QED
  BY <1>1, RuntimeAssumption

LEMMA QueueTypes ==
    ASSUME TypeOK
    PROVE  /\ \A r \in Runtime : Contents(r) \in Seq(Item)
           /\ Signalled \in [Runtime -> Seq(Item) \cup {None}]
           /\ \A r \in Runtime, e \in Item : Append(Contents(r), e) \in Seq(Item)
           /\ \A r \in Runtime : Signalled[r] = None <=> queue[r] = None
<1> USE NoneIsNoQueue
<1>1. "end" \in Item
  BY DEF Item
<1>2. ASSUME NEW r \in Runtime PROVE Contents(r) \in Seq(Item)
  BY DEF TypeOK, Contents
<1>3. ASSUME NEW r \in Runtime, NEW e \in Item PROVE Append(Contents(r), e) \in Seq(Item)
  BY <1>2
<1>4. ASSUME NEW r \in Runtime, queue[r] # None
      PROVE  Append(queue[r], "end") \in Seq(Item) /\ Append(queue[r], "end") # None
  BY <1>1, <1>3, <1>4 DEF Contents
<1>5. Signalled \in [Runtime -> Seq(Item) \cup {None}]
  BY <1>4 DEF Signalled
<1>6. \A r \in Runtime : Signalled[r] = None <=> queue[r] = None
  BY <1>4 DEF Signalled
<1> QED
  BY <1>2, <1>3, <1>5, <1>6

LEMMA StreamTypes ==
    ASSUME TypeOK, NEW r \in Runtime, Stream(r) \notin {<<>>, None}
    PROVE  Stream(r) \in Seq(Item) /\ Head(Stream(r)) \in Item /\ Tail(Stream(r)) \in Seq(Item)
  BY DEF TypeOK, Stream

-----------------------------------------------------------------------------
(* Type correctness.                                                        *)

\* What taking an event may store.
LEMMA TakeStores ==
    ASSUME NEW r \in Runtime, Take(r)
    PROVE  status' = status \/ \E s \in Status : Stores(r, s)
<1> DEFINE item == Head(Stream(r))
<1>1. IF item = "end" THEN status' = status
      ELSE Stores(r, IF item \in Outcome THEN item ELSE "ready")
  BY DEF Take
<1> HIDE DEF item
<1>2. item \in Outcome => item \in Status
  BY DEF Outcome, Status, Terminal
<1>3. "ready" \in Status
  BY DEF Status, Active
<1> QED
  BY <1>1, <1>2, <1>3

LEMMA TypeInit == Init => TypeOK
<1> SUFFICES ASSUME Init PROVE TypeOK
  OBVIOUS
<1> USE RuntimeAssumption DEF Init
<1>1. None \notin Seq(Item)
  BY NoneIsNoQueue
<1>2. MaxFaults \in Nat /\ 0 \in 0..MaxFaults
  OBVIOUS
<1> QED
  BY <1>1, <1>2 DEF TypeOK, Status, Drain, Outcome, Handler, Writer, Resolver, Mark, Stream

\* An action that changes the transport's process and its readers only.
LEMMA ConnectionTypes ==
    ASSUME TypeOK, EnsureConnection
    PROVE  /\ process' \in Process \cup {None} /\ alive' \subseteq Process
           /\ reader' \in [Process -> {"none", "reading", "ended"} \cup Request]
           /\ readerError' \in BOOLEAN
  BY DEF TypeOK, EnsureConnection, sidecar

LEMMA TypeStep == TypeOK /\ [Next]_vars => TypeOK'
<1> SUFFICES ASSUME TypeOK, [Next]_vars PROVE TypeOK'
  OBVIOUS
<1> USE NoneIsNoQueue DEF drains, sidecar, events, approvals, operator, Stream
<1>0. CASE UNCHANGED vars
  BY <1>0 DEF TypeOK, vars
<1>1. ASSUME NEW p \in Process, NEW r \in Runtime, NEW e \in Outcome \cup {"progress"},
             Deliver(p, r, e)
      PROVE  TypeOK'
  <2>1. e \in Item
    BY DEF Item
  <2>2. Append(Contents(r), e) \in Seq(Item)
    BY <2>1, QueueTypes
  <2>3. Append(Contents(r), e) # None
    BY <2>2
  <2>4. queue' \in [Runtime -> Seq(Item) \cup {None}]
    BY <1>1, <2>2 DEF Deliver, TypeOK
  <2>5. ASSUME NEW s \in Runtime PROVE queue'[s] = None => queue[s] = None
    BY <1>1, <2>3 DEF Deliver, TypeOK
  <2> QED
    BY <1>1, <2>4, <2>5 DEF TypeOK, Deliver
<1>2. ASSUME NEW p \in Process, ReaderEnds(p) PROVE TypeOK'
  BY <1>2, QueueTypes DEF TypeOK, ReaderEnds
<1>3. CASE Crash
  BY <1>3, RuntimeAssumption DEF TypeOK, Crash
<1>4. ASSUME NEW r \in Runtime, Start(r) PROVE TypeOK'
  BY <1>4, ConnectionTypes DEF TypeOK, Start, At, Goes, Stores, Status, Active, Drain
<1>5. ASSUME NEW r \in Runtime, Started(r) PROVE TypeOK'
  BY <1>5 DEF TypeOK, Started, At, Goes, Stores, Status, Active, Terminal, Drain
<1>6. ASSUME NEW r \in Runtime, StartFailed(r) PROVE TypeOK'
  BY <1>6 DEF TypeOK, StartFailed, At, Goes, Ends, Stores, Status, Terminal, Drain
<1>7. ASSUME NEW r \in Runtime, Subscribe(r) PROVE TypeOK'
  BY <1>7, ConnectionTypes, QueueTypes DEF TypeOK, Subscribe, At, Goes, Drain
<1>8. ASSUME NEW r \in Runtime, Take(r) PROVE TypeOK'
  <2> DEFINE item == Head(Stream(r))
             place == IF item = "end" THEN "decide" ELSE IF item \in Outcome THEN "recorded" ELSE "read"
  <2>1. /\ Stream(r) \in Seq(Item) /\ Tail(Stream(r)) \in Seq(Item)
        /\ Tail(Stream(r)) # None
    BY <1>8, StreamTypes DEF Take
  <2>2. /\ At(r, "read") /\ Goes(r, place)
        /\ orphan' = [orphan EXCEPT ![r] = IF orphan[r] = None \/ place # "read" THEN None
                                          ELSE Tail(orphan[r])]
        /\ queue' = [queue EXCEPT ![r] = IF place = "recorded" THEN None
                                        ELSE IF orphan[r] = None THEN Tail(queue[r]) ELSE queue[r]]
    BY <1>8 DEF Take
  <2>3. place \in {"decide", "recorded", "read"}
    OBVIOUS
  <2> HIDE DEF item, place
  <2>4. /\ queue' \in [Runtime -> Seq(Item) \cup {None}]
        /\ orphan' \in [Runtime -> Seq(Item) \cup {None}]
    BY <2>1, <2>2 DEF TypeOK
  <2>5. ASSUME NEW s \in Runtime
        PROVE  /\ drain'[s] = "read" => Stream(s)' # None
               /\ orphan'[s] # None => drain'[s] = "read"
    <3>1. CASE s # r
      BY <2>2, <3>1 DEF TypeOK, Goes
    <3>2. CASE s = r
      BY <2>1, <2>2, <2>3, <3>2 DEF TypeOK, Goes, At
    <3> QED
      BY <3>1, <3>2
  <2>6. /\ status' \in [Runtime -> Status] /\ sawAny' \subseteq Runtime
        /\ outcome' \in [Runtime -> Outcome]
    <3>1. status' = status \/ \E s \in Status : Stores(r, s)
      BY <1>8, TakeStores
    <3>2. status' \in [Runtime -> Status]
      BY <3>1 DEF TypeOK, Stores
    <3>3. sawAny' \subseteq Runtime /\ outcome' \in [Runtime -> Outcome]
      BY <1>8 DEF TypeOK, Take
    <3> QED
      BY <3>2, <3>3
  <2>7. drain' \in [Runtime -> Drain]
    BY <2>2, <2>3 DEF TypeOK, Goes, Drain
  <2> QED
    BY <1>8, <2>4, <2>5, <2>6, <2>7 DEF TypeOK, Take
<1>9. ASSUME NEW r \in Runtime, StreamFails(r) PROVE TypeOK'
  BY <1>9 DEF TypeOK, StreamFails, At, Goes, Drain
<1>10. ASSUME NEW r \in Runtime, Decide(r) PROVE TypeOK'
  BY <1>10 DEF TypeOK, Decide, At, Goes, Drain
<1>11. ASSUME NEW r \in Runtime, Recover(r) PROVE TypeOK'
  BY <1>11 DEF TypeOK, Recover, At, Goes, Stores, Status, Active, Drain
<1>12. ASSUME NEW r \in Runtime, GiveUp(r) PROVE TypeOK'
  BY <1>12 DEF TypeOK, GiveUp, At, Goes, Stores, Status, Terminal, Drain, Outcome
<1>12a. ASSUME NEW r \in Runtime, Progress(r) PROVE TypeOK'
  BY <1>12a DEF TypeOK, Progress, At, Goes, Stores, Status, Active, Drain
<1>13. ASSUME NEW r \in Runtime, RestartStep(r) PROVE TypeOK'
  <2>1. CASE At(r, "shutdown") /\ Goes(r, "signal") /\ ShutdownProcess /\ UNCHANGED events
    BY <1>13, <2>1 DEF TypeOK, RestartStep, At, Goes, ShutdownProcess, Drain
  <2>2. CASE At(r, "signal") /\ Goes(r, "reset") /\ SignalShutdown
    BY <1>13, <2>2, QueueTypes DEF TypeOK, RestartStep, At, Goes, SignalShutdown, Drain
  <2>3. CASE At(r, "reset") /\ Goes(r, "subscribe") /\ ResetQueues /\ UNCHANGED sidecar
    BY <1>13, <2>3 DEF TypeOK, RestartStep, At, Goes, ResetQueues, Drain
  <2> QED
    BY <1>13, <2>1, <2>2, <2>3 DEF RestartStep
<1>14. ASSUME NEW r \in Runtime, End(r) PROVE TypeOK'
  BY <1>14 DEF TypeOK, End, At, Goes, Ends, Stores, Status, Terminal, Outcome, Drain
<1>15. ASSUME NEW r \in Runtime, Collect(r) PROVE TypeOK'
  BY <1>15 DEF TypeOK, Collect, At, Goes, Drain, Mark, Writer, Resolver
<1>16. ASSUME NEW r \in Runtime, Unbind(r) PROVE TypeOK'
  BY <1>16 DEF TypeOK, Unbind, At, Goes, Drain
<1>17. ASSUME NEW p \in Process, NEW x \in Request, Ask(p, x) PROVE TypeOK'
  BY <1>17 DEF TypeOK, Ask, Handler, Decision
<1>18. ASSUME NEW x \in Request, Register(x) PROVE TypeOK'
  BY <1>18 DEF TypeOK, Register, Handler, Mark, Writer, Resolver
<1>19. ASSUME NEW x \in Request, NEW v \in Writer, Look(x, v) PROVE TypeOK'
  BY <1>19, RuntimeAssumption DEF TypeOK, Look, Kept, Mark
<1>20. ASSUME NEW x \in Request, NEW v \in Writer, Write(x, v) PROVE TypeOK'
  BY <1>20, RuntimeAssumption DEF TypeOK, Write, Stores, Status, Active, Mark
<1>21. ASSUME NEW x \in Request, NEW v \in Resolver, Resolves(x, v)
       PROVE  /\ answer' \in [Request -> Decision \cup {None}]
              /\ mark' \in [Request -> [Writer -> Mark]]
  BY <1>21 DEF TypeOK, Resolves, Verdict, Resolver, Writer, Decision, Mark
<1>22. ASSUME NEW x \in Request, NEW v \in Resolver, Resolve(x, v) PROVE TypeOK'
  BY <1>22, <1>21 DEF TypeOK, Resolve
<1>22a. ASSUME NEW x \in Request, NEW v \in Resolver, Unlist(x, v) PROVE TypeOK'
  BY <1>22a DEF TypeOK, Unlist, Resolver, Writer, Mark
<1>23. ASSUME NEW x \in Request, AutoApprove(x) \/ TimeOut(x) PROVE TypeOK'
  <2>1. "handler" \in Resolver
    BY DEF Resolver
  <2> QED
    BY <1>23, <1>21, <2>1 DEF TypeOK, AutoApprove, TimeOut, Handler
<1>24. ASSUME NEW x \in Request, Return(x) PROVE TypeOK'
  BY <1>24 DEF TypeOK, Return, Handler
<1>25. ASSUME NEW p \in Process, NEW x \in Request, Send(p, x) PROVE TypeOK'
  BY <1>25, QueueTypes DEF TypeOK, Send
<1>26. ASSUME NEW x \in Request, NEW d \in Decision, Respond(x, d) PROVE TypeOK'
  BY <1>26 DEF TypeOK, Respond, Mark, Writer, Resolver
<1>27. CASE BeginRestart
  BY <1>27, RuntimeAssumption DEF TypeOK, BeginRestart
<1>28. ASSUME NEW r \in Runtime, MarkRestarting(r) \/ Interrupt(r) PROVE TypeOK'
  BY <1>28 DEF TypeOK, MarkRestarting, Interrupt, Stores, Status, Active, Terminal
<1>29. CASE OperatorRestartStep
  <2>1. CASE restarting = "marking"
    BY <1>29, <2>1 DEF TypeOK, OperatorRestartStep, ShutdownProcess
  <2>2. CASE restarting = "signal"
    BY <1>29, <2>2, QueueTypes DEF TypeOK, OperatorRestartStep, SignalShutdown
  <2>3. CASE restarting = "reset"
    BY <1>29, <2>3 DEF TypeOK, OperatorRestartStep, ResetQueues
  <2> QED
    BY <1>29, <2>1, <2>2, <2>3 DEF OperatorRestartStep
<1> QED
  BY <1>0, <1>1, <1>2, <1>3, <1>4, <1>5, <1>6, <1>7, <1>8, <1>9, <1>10, <1>11, <1>12, <1>12a, <1>13,
     <1>14, <1>15, <1>16, <1>17, <1>18, <1>19, <1>20, <1>22, <1>22a, <1>23, <1>24, <1>25, <1>26,
     <1>27, <1>28, <1>29
  DEF Next, ThreadStep, Environment, DrainStep, HandlerStep, WriterStep, ReaderStep, OperatorStep

\* Every state and every action keeps the types, whatever the number of
\* runtimes and requests.
THEOREM TypeCorrect == Spec => []TypeOK
<1>1. Init => TypeOK
  BY TypeInit
<1>2. TypeOK /\ [Next]_vars => TypeOK'
  BY TypeStep
<1> QED
  BY <1>1, <1>2, PTL DEF Spec

-----------------------------------------------------------------------------
(* A runtime that has ended stays ended: whoever could still make it active *)
(* had looked at it before.                                                 *)

EndInv ==
    /\ EndedStaysEnded
    /\ \A r \in Runtime : drain[r] \in Over /\ WritesLate(r) => r \in overtaken

LEMMA EndInit == Init => EndInv
  BY RuntimeAssumption DEF Init, EndInv, EndedStaysEnded, WritesLate, Over

\* A step that leaves the end of every runtime, its status and what is on its
\* way to it as they are.
LEMMA EndKept ==
    ASSUME EndInv, UNCHANGED <<status, overtaken, listed>>,
           \A r \in Runtime : drain'[r] \in Over => drain[r] \in Over,
           \A x \in Request, v \in Writer : mark'[x][v] = "ready" => mark[x][v] = "ready"
    PROVE  EndInv'
  BY DEF EndInv, EndedStaysEnded, WritesLate

\* A drain that has not ended stores a status and goes on.
LEMMA EndGoesOn ==
    ASSUME TypeOK, EndInv, NEW r \in Runtime, NEW place \in Drain \ Over, NEW s \in Status,
           drain[r] \notin Over, Goes(r, place), status' = status \/ Stores(r, s),
           UNCHANGED <<overtaken, listed, mark>>
    PROVE  EndInv'
<1>1. \A q \in Runtime : drain'[q] \in Over => q # r /\ drain[q] \in Over
  BY DEF TypeOK, Goes
<1>2. \A q \in Runtime : q # r => status'[q] = status[q]
  BY DEF TypeOK, Stores
<1> QED
  BY <1>1, <1>2 DEF EndInv, EndedStaysEnded, WritesLate

\* It ends, and whoever writes late overtakes it.
LEMMA EndEnds ==
    ASSUME TypeOK, EndInv, NEW r \in Runtime, NEW place \in Drain, NEW s \in Terminal,
           Goes(r, place), Ends(r, s), UNCHANGED <<listed, mark>>
    PROVE  EndInv'
<1>1. \A q \in Runtime : q # r => drain'[q] = drain[q] /\ status'[q] = status[q]
  BY DEF TypeOK, Goes, Ends, Stores
<1>2. status'[r] \in Terminal
  BY DEF TypeOK, Ends, Stores
<1>3. overtaken \subseteq overtaken' /\ (WritesLate(r) => r \in overtaken')
  BY DEF Ends
<1> QED
  BY <1>1, <1>2, <1>3 DEF EndInv, EndedStaysEnded, WritesLate

LEMMA EndStep == TypeOK /\ EndInv /\ [Next]_vars => EndInv'
<1> SUFFICES ASSUME TypeOK, EndInv, [Next]_vars PROVE EndInv'
  OBVIOUS
<1> USE DEF drains, sidecar, events, approvals, operator
<1>0. CASE UNCHANGED vars
  BY <1>0, EndKept DEF vars
<1>1. ASSUME NEW p \in Process, NEW r \in Runtime, NEW e \in Outcome \cup {"progress"},
             Deliver(p, r, e)
      PROVE  EndInv'
  BY <1>1, EndKept DEF Deliver
<1>2. ASSUME NEW p \in Process, ReaderEnds(p) PROVE EndInv'
  BY <1>2, EndKept DEF ReaderEnds
<1>3. CASE Crash
  BY <1>3, EndKept DEF Crash
<1>4. ASSUME NEW r \in Runtime,
             Start(r) \/ Started(r) \/ Subscribe(r) \/ Take(r) \/ StreamFails(r) \/ Decide(r)
                \/ Recover(r) \/ GiveUp(r) \/ Progress(r) \/ RestartStep(r)
      PROVE  EndInv'
  <2>1. drain[r] \notin Over /\ UNCHANGED <<overtaken, listed, mark>>
    BY <1>4 DEF Start, Started, Subscribe, Take, StreamFails, Decide, Recover, GiveUp, Progress,
                RestartStep, At, Over
  <2>2. \E place \in Drain \ Over : Goes(r, place)
    BY <1>4 DEF Start, Started, Subscribe, Take, StreamFails, Decide, Recover, GiveUp, Progress,
                RestartStep, Goes, Drain, Over
  <2>3. status' = status \/ \E s \in Status : Stores(r, s)
    BY <1>4, TakeStores DEF Start, Started, Subscribe, StreamFails, Decide, Recover, GiveUp,
                            Progress, RestartStep, Stores, Status, Active, Terminal
  <2>4. PICK place \in Drain \ Over : Goes(r, place)
    BY <2>2
  <2>5. \E s \in Status : status' = status \/ Stores(r, s)
    BY <2>3 DEF Status
  <2> QED
    BY <2>1, <2>4, <2>5, EndGoesOn
<1>5. ASSUME NEW r \in Runtime, StartFailed(r) PROVE EndInv'
  BY <1>5, EndEnds DEF StartFailed, Terminal, Drain
<1>6. ASSUME NEW r \in Runtime, End(r) PROVE EndInv'
  <2>1. outcome[r] \in Terminal
    BY DEF TypeOK, Outcome, Terminal
  <2> QED
    BY <1>6, <2>1, EndEnds DEF End, Drain
<1>7. ASSUME NEW r \in Runtime, Collect(r) \/ Unbind(r) PROVE EndInv'
  <2>1. \A q \in Runtime : drain'[q] \in Over => drain[q] \in Over
    BY <1>7 DEF TypeOK, Collect, Unbind, At, Goes, Over
  <2>2. \A x \in Request, v \in Writer : mark'[x][v] = "ready" => mark[x][v] = "ready"
    <3>1. CASE Unbind(r)
      BY <3>1 DEF Unbind
    <3>2. CASE Collect(r)
      <4>1. ASSUME NEW x \in Request, NEW v \in Writer
            PROVE  mark'[x][v] \in {mark[x][v], "taken"}
        BY <3>2 DEF TypeOK, Collect
      <4> QED
        BY <4>1
    <3> QED
      BY <1>7, <3>1, <3>2
  <2> QED
    BY <1>7, <2>1, <2>2, EndKept DEF Collect, Unbind
<1>8. ASSUME NEW p \in Process, NEW x \in Request, Ask(p, x) \/ Send(p, x) PROVE EndInv'
  BY <1>8, EndKept DEF Ask, Send
<1>9. ASSUME NEW x \in Request, Register(x) \/ AutoApprove(x) \/ TimeOut(x) \/ Return(x)
      PROVE  EndInv'
  <2>1. \A y \in Request, v \in Writer : mark'[y][v] = "ready" => mark[y][v] = "ready"
    BY <1>9 DEF TypeOK, Register, AutoApprove, TimeOut, Return, Resolves
  <2> QED
    BY <1>9, <2>1, EndKept DEF Register, AutoApprove, TimeOut, Return
<1>10. ASSUME NEW x \in Request, NEW v \in Resolver, Resolve(x, v) \/ Unlist(x, v)
       PROVE  EndInv'
  <2>1. \A y \in Request, w \in Writer : mark'[y][w] = "ready" => mark[y][w] = "ready"
    <3>1. mark' = [mark EXCEPT ![x][v] = "decided"] \/ mark' = [mark EXCEPT ![x][v] = "stored"]
      BY <1>10 DEF Resolve, Resolves, Unlist
    <3> QED
      BY <3>1 DEF TypeOK
  <2> QED
    BY <1>10, <2>1, EndKept DEF Resolve, Unlist
<1>11. ASSUME NEW x \in Request, NEW v \in Writer, Look(x, v) PROVE EndInv'
  <2>1. /\ UNCHANGED <<status, drain, overtaken, listed>>
        /\ \A y \in Request, w \in Writer :
              mark'[y][w] = "ready" =>
                \/ mark[y][w] = "ready"
                \/ RuntimeOf[y] = RuntimeOf[x] /\ status[RuntimeOf[x]] \notin Terminal
    BY <1>11 DEF TypeOK, Look, Kept, Terminal
  <2> QED
    BY <2>1, RuntimeAssumption DEF EndInv, EndedStaysEnded, WritesLate
<1>12. ASSUME NEW x \in Request, NEW v \in Writer, Write(x, v) PROVE EndInv'
  <2>1. /\ mark[x][v] \in {"ready"} \cup Terminal
        /\ status' = [status EXCEPT ![RuntimeOf[x]] = mark[x][v]]
        /\ UNCHANGED <<drain, overtaken, listed>>
    BY <1>12 DEF Write, Stores
  <2>2. \A y \in Request, w \in Writer : mark'[y][w] = "ready" => mark[y][w] = "ready"
    BY <1>12 DEF TypeOK, Write
  <2>3. \A r \in Runtime : \/ status'[r] = status[r]
                           \/ status'[r] \in Terminal
                           \/ r = RuntimeOf[x] /\ mark[x][v] = "ready"
    BY <2>1, RuntimeAssumption DEF TypeOK
  <2> QED
    BY <2>1, <2>2, <2>3 DEF EndInv, EndedStaysEnded, WritesLate
<1>13. ASSUME NEW x \in Request, NEW d \in Decision, Respond(x, d) PROVE EndInv'
  <2>1. \A y \in Request, v \in Writer : mark'[y][v] = "ready" => mark[y][v] = "ready"
    BY <1>13 DEF TypeOK, Respond
  <2> QED
    BY <1>13, <2>1, EndKept DEF Respond
<1>14. CASE BeginRestart
  <2>1. \A r \in Runtime : r \in listed' => status[r] \notin Terminal
    BY <1>14 DEF BeginRestart, Active, Terminal
  <2> QED
    BY <1>14, <2>1 DEF BeginRestart, EndInv, EndedStaysEnded, WritesLate
<1>15. ASSUME NEW r \in Runtime, MarkRestarting(r) PROVE EndInv'
  <2>1. \A q \in Runtime : q # r => status'[q] = status[q]
    BY <1>15 DEF TypeOK, MarkRestarting, Stores
  <2> QED
    BY <1>15, <2>1 DEF MarkRestarting, EndInv, EndedStaysEnded, WritesLate
<1>16. ASSUME NEW r \in Runtime, Interrupt(r) PROVE EndInv'
  <2>1. \A q \in Runtime : status'[q] = status[q] \/ status'[q] \in Terminal
    BY <1>16 DEF TypeOK, Interrupt, Stores, Terminal
  <2> QED
    BY <1>16, <2>1 DEF Interrupt, EndInv, EndedStaysEnded, WritesLate
<1>17. CASE OperatorRestartStep
  BY <1>17, EndKept DEF OperatorRestartStep
<1> QED
  BY <1>0, <1>1, <1>2, <1>3, <1>4, <1>5, <1>6, <1>7, <1>8, <1>9, <1>10, <1>11, <1>12, <1>13,
     <1>14, <1>15, <1>16, <1>17
  DEF Next, ThreadStep, Environment, DrainStep, HandlerStep, WriterStep, ReaderStep, OperatorStep

\* Approvals, restarts and interrupts that come after the end of a runtime
\* leave it ended, however many threads are at it.
THEOREM EndsAreFinal == Spec => []EndedStaysEnded
<1>1. TypeOK /\ TypeOK' /\ EndInv /\ [Next]_vars => EndInv'
  BY EndStep
<1>2. EndInv => EndedStaysEnded
  BY DEF EndInv
<1> QED
  BY <1>1, <1>2, EndInit, TypeCorrect, PTL DEF Spec

-----------------------------------------------------------------------------
(* An approval is granted by its risk level or by the operator.             *)

Granted(x) == x \in auto \/ said[x] = "approved"

GrantInv ==
    /\ ApprovalNeedsOperator
    /\ \A x \in Request : answer[x] = "approved" => Granted(x)

LEMMA GrantInit == Init => GrantInv
<1> SUFFICES ASSUME Init PROVE GrantInv
  OBVIOUS
<1>1. None # "approved"
  BY RuntimeAssumption
<1> QED
  BY <1>1 DEF Init, GrantInv, ApprovalNeedsOperator

\* What is granted stays granted, and a decision comes from someone who may
\* grant it.
LEMMA GrantKept ==
    ASSUME GrantInv,
           \A x \in Request : Granted(x) => Granted(x)',
           \A x \in Request : answer'[x] # answer[x] => (answer'[x] = "approved" => Granted(x)'),
           \A x \in Request : told'[x] # told[x] => told'[x] \in {"rejected", answer[x]}
    PROVE  GrantInv'
<1>1. ASSUME NEW x \in Request, answer'[x] = "approved" PROVE Granted(x)'
  BY <1>1 DEF GrantInv
<1>2. ASSUME NEW x \in Request, told'[x] = "approved" PROVE Granted(x)'
  BY <1>2 DEF GrantInv, ApprovalNeedsOperator, Granted
<1> QED
  BY <1>1, <1>2 DEF GrantInv, ApprovalNeedsOperator, Granted

LEMMA GrantStep == TypeOK /\ GrantInv /\ [Next]_vars => GrantInv'
<1> SUFFICES ASSUME TypeOK, GrantInv, [Next]_vars PROVE GrantInv'
  OBVIOUS
<1> USE DEF drains, sidecar, events, approvals, operator
<1>0. CASE UNCHANGED <<auto, said, answer, told>>
  BY <1>0, GrantKept DEF Granted
<1>1. ASSUME NEW p \in Process, NEW x \in Request, Ask(p, x) PROVE GrantInv'
  <2>1. /\ UNCHANGED <<auto, said, answer>>
        /\ \A y \in Request : told'[y] \in {told[y], "rejected"}
    BY <1>1 DEF TypeOK, Ask
  <2> QED
    BY <2>1, GrantKept DEF Granted
<1>2. ASSUME NEW x \in Request, Register(x) PROVE GrantInv'
  BY <1>2, GrantKept DEF Register, Granted
<1>3. ASSUME NEW x \in Request, NEW v \in Resolver, Resolves(x, v),
             v = "handler" \/ v = "operator" \/ v = "drain",
             UNCHANGED <<auto, said, told>>
      PROVE  GrantInv'
  <2>1. Verdict(x, v) = "approved" => Granted(x)
    BY <1>3 DEF Verdict, Granted
  <2>2. answer' = [answer EXCEPT ![x] = Verdict(x, v)]
    BY <1>3 DEF Resolves
  <2>3. \A y \in Request : answer'[y] # answer[y] => y = x /\ answer'[y] = Verdict(x, v)
    BY <2>2 DEF TypeOK
  <2> QED
    BY <1>3, <2>1, <2>3, GrantKept DEF Granted
<1>4. ASSUME NEW x \in Request, NEW v \in Resolver, Resolve(x, v) PROVE GrantInv'
  BY <1>3, <1>4 DEF Resolve, Resolver
<1>5. ASSUME NEW x \in Request, AutoApprove(x) \/ TimeOut(x) PROVE GrantInv'
  BY <1>3, <1>5 DEF AutoApprove, TimeOut, Resolver
<1>6. ASSUME NEW x \in Request, Return(x) PROVE GrantInv'
  <2>1. UNCHANGED <<auto, said, answer>> /\ told' = [told EXCEPT ![x] = answer[x]]
    BY <1>6 DEF Return
  <2>2. \A y \in Request : told'[y] # told[y] => told'[y] = answer[y]
    BY <2>1 DEF TypeOK
  <2> QED
    BY <2>1, <2>2, GrantKept DEF Granted
<1>7. ASSUME NEW x \in Request, NEW d \in Decision, Respond(x, d) PROVE GrantInv'
  <2>1. UNCHANGED <<auto, answer, told>> /\ said[x] = None /\ said' = [said EXCEPT ![x] = d]
    BY <1>7 DEF Respond
  <2>2. \A y \in Request : Granted(y) => Granted(y)'
    BY <2>1, RuntimeAssumption DEF TypeOK, Granted
  <2> QED
    BY <2>1, <2>2, GrantKept
<1>8. ASSUME NEW x \in Request, NEW v \in Writer, Look(x, v) \/ Write(x, v) \/ Unlist(x, v)
      PROVE  GrantInv'
  BY <1>0, <1>8 DEF Look, Write, Unlist
<1>9. ASSUME NEW r \in Runtime, DrainStep(r) \/ Start(r) PROVE GrantInv'
  BY <1>0, <1>9 DEF DrainStep, Start, Started, StartFailed, Subscribe, Take, StreamFails, Decide,
     Recover, GiveUp, Progress, RestartStep, End, Collect, Unbind
<1>10. ASSUME NEW p \in Process, ReaderStep(p) PROVE GrantInv'
  BY <1>0, <1>10 DEF ReaderStep, ReaderEnds, Send
<1>11. ASSUME NEW p \in Process, NEW r \in Runtime, NEW e \in Outcome \cup {"progress"},
              Deliver(p, r, e)
       PROVE  GrantInv'
  BY <1>0, <1>11 DEF Deliver
<1>12. CASE OperatorStep \/ BeginRestart \/ Crash \/ \E r \in Runtime : Interrupt(r)
  BY <1>0, <1>12 DEF OperatorStep, OperatorRestartStep, MarkRestarting, BeginRestart, Crash,
     Interrupt
<1>13. CASE UNCHANGED vars
  BY <1>0, <1>13 DEF vars
<1> QED
  BY <1>1, <1>2, <1>4, <1>5, <1>6, <1>7, <1>8, <1>9, <1>10, <1>11, <1>12, <1>13
  DEF Next, ThreadStep, Environment, HandlerStep, WriterStep

\* Whatever times out, ends or crosses with an answer, the sidecar is told
\* "approved" only for an "auto" request or one the operator approved.
THEOREM ApprovalsAreGranted == Spec => []ApprovalNeedsOperator
<1>1. TypeOK /\ TypeOK' /\ GrantInv /\ [Next]_vars => GrantInv'
  BY GrantStep
<1>2. GrantInv => ApprovalNeedsOperator
  BY DEF GrantInv
<1> QED
  BY <1>1, <1>2, GrantInit, TypeCorrect, PTL DEF Spec

-----------------------------------------------------------------------------
(* An approval in the table is open.                                        *)

\* The operator and the drain take an approval at most once each: the operator
\* answers once, and a drain that has taken one is past the collecting.
OnceInv ==
    \A x \in Request :
        /\ mark[x]["operator"] # "nothing" => said[x] # None
        /\ mark[x]["drain"] # "nothing" => drain[RuntimeOf[x]] \in {"reject", "done"}

LEMMA OnceInit == Init => OnceInv
  BY DEF Init, OnceInv, Writer, Resolver

LEMMA OnceKept ==
    ASSUME OnceInv,
           \A r \in Runtime : drain[r] \in {"reject", "done"} => drain'[r] \in {"reject", "done"},
           \A x \in Request : said[x] # None => said'[x] # None,
           \A x \in Request, v \in {"operator", "drain"} :
                mark'[x][v] # "nothing" => mark[x][v] # "nothing"
    PROVE  OnceInv'
<1>1. \A x \in Request : RuntimeOf[x] \in Runtime
  BY RuntimeAssumption
<1> QED
  BY <1>1 DEF OnceInv

LEMMA OnceStep == TypeOK /\ OnceInv /\ [Next]_vars => OnceInv'
<1> SUFFICES ASSUME TypeOK, OnceInv, [Next]_vars PROVE OnceInv'
  OBVIOUS
<1> USE DEF drains, sidecar, events, approvals, operator
<1>0. CASE UNCHANGED <<drain, said, mark>>
  BY <1>0, OnceKept
<1>1. ASSUME NEW x \in Request, Register(x) \/ AutoApprove(x) \/ TimeOut(x) \/ Return(x)
      PROVE  OnceInv'
  <2>1. UNCHANGED <<drain, said>>
    BY <1>1 DEF Register, AutoApprove, TimeOut, Return
  <2>2. \A y \in Request, v \in {"operator", "drain"} : mark'[y][v] = mark[y][v]
    <3>1. \/ mark' = mark \/ mark' = [mark EXCEPT ![x]["notice"] = "stored"]
          \/ mark' = [mark EXCEPT ![x]["handler"] = "decided"]
      BY <1>1 DEF Register, AutoApprove, TimeOut, Return, Resolves
    <3>2. \A y \in Request : mark[y] \in [Writer -> Mark]
      BY DEF TypeOK
    <3>3. "operator" \in Writer /\ "drain" \in Writer
      BY DEF Writer, Resolver
    <3>4. mark \in [Request -> [Writer -> Mark]]
      BY DEF TypeOK
    <3> QED
      BY <3>1, <3>2, <3>3, <3>4
  <2> QED
    BY <2>1, <2>2, OnceKept
<1>2. ASSUME NEW x \in Request, NEW v \in Writer,
             Resolve(x, v) \/ Unlist(x, v) \/ Look(x, v) \/ Write(x, v)
      PROVE  OnceInv'
  <2>1. mark[x][v] # "nothing" /\ UNCHANGED <<drain, said>>
    BY <1>2 DEF Resolve, Unlist, Look, Write, Terminal
  <2>2. \A y \in Request, w \in Writer : mark'[y][w] = mark[y][w] \/ (y = x /\ w = v)
    BY <1>2 DEF TypeOK, Resolve, Resolves, Unlist, Look, Write
  <2>3. "operator" \in Writer /\ "drain" \in Writer
    BY DEF Writer, Resolver
  <2> QED
    BY <2>1, <2>2, <2>3, OnceKept
<1>3. ASSUME NEW x \in Request, NEW d \in Decision, Respond(x, d) PROVE OnceInv'
  <2>1. d # None
    BY RuntimeAssumption DEF Decision
  <2>2. /\ drain' = drain /\ said'[x] = d /\ mark'[x]["drain"] = mark[x]["drain"]
        /\ \A y \in Request \ {x} : said'[y] = said[y] /\ mark'[y] = mark[y]
    BY <1>3 DEF TypeOK, Respond, Writer, Resolver
  <2> QED
    BY <2>1, <2>2 DEF OnceInv
<1>4. ASSUME NEW r \in Runtime, Collect(r) PROVE OnceInv'
  <2>1. /\ said' = said /\ drain'[r] = "reject" /\ \A q \in Runtime \ {r} : drain'[q] = drain[q]
    BY <1>4 DEF TypeOK, Collect, Goes
  <2>2. ASSUME NEW x \in Request
        PROVE  /\ mark'[x]["operator"] = mark[x]["operator"]
               /\ RuntimeOf[x] # r => mark'[x] = mark[x]
    BY <1>4 DEF TypeOK, Collect, Writer, Resolver
  <2> QED
    BY <2>1, <2>2, RuntimeAssumption DEF OnceInv
<1>5. ASSUME NEW r \in Runtime, DrainStep(r) \/ Start(r), ~Collect(r) PROVE OnceInv'
  <2>1. UNCHANGED <<said, mark>>
    BY <1>5 DEF DrainStep, Start, Started, StartFailed, Subscribe, Take, StreamFails, Decide,
       Recover, GiveUp, Progress, RestartStep, End, Unbind
  <2>2. \E place \in Drain : Goes(r, place) /\ (drain[r] \in {"reject", "done"} => place = "done")
    BY <1>5 DEF DrainStep, Start, Started, StartFailed, Subscribe, Take, StreamFails, Decide,
       Recover, GiveUp, Progress, RestartStep, End, Unbind, At, Goes, Drain
  <2>3. \A q \in Runtime : drain[q] \in {"reject", "done"} => drain'[q] \in {"reject", "done"}
    BY <2>2 DEF TypeOK, Goes
  <2> QED
    BY <2>1, <2>3, OnceKept
<1>6. ASSUME NEW p \in Process, NEW x \in Request, Ask(p, x) PROVE OnceInv'
  BY <1>0, <1>6 DEF Ask
<1>7. ASSUME NEW p \in Process, ReaderStep(p) PROVE OnceInv'
  BY <1>0, <1>7 DEF ReaderStep, ReaderEnds, Send
<1>8. ASSUME NEW p \in Process, NEW r \in Runtime, NEW e \in Outcome \cup {"progress"},
             Deliver(p, r, e)
      PROVE  OnceInv'
  BY <1>0, <1>8 DEF Deliver
<1>9. CASE OperatorStep \/ BeginRestart \/ Crash \/ \E r \in Runtime : Interrupt(r)
  BY <1>0, <1>9 DEF OperatorStep, OperatorRestartStep, MarkRestarting, BeginRestart, Crash,
     Interrupt
<1>10. CASE UNCHANGED vars
  BY <1>0, <1>10 DEF vars
<1> QED
  BY <1>1, <1>2, <1>3, <1>4, <1>5, <1>6, <1>7, <1>8, <1>9, <1>10
  DEF Next, ThreadStep, Environment, HandlerStep, WriterStep

Untouched(x) ==
    /\ x \notin pending /\ answer[x] = None /\ told[x] = None
    /\ \A v \in Writer : mark[x][v] = "nothing"

\* A request nobody registered is untouched, and whoever resolves an approval
\* that is in the table has not removed it yet.
TableInv ==
    /\ ListedIsOpen
    /\ \A x \in Request : handler[x] \in {"none", "bound"} => Untouched(x)
    /\ \A x \in pending, v \in Resolver : mark[x][v] \in {"nothing", "taken", "decided"}

LEMMA TableInit == Init => TableInv
  BY DEF Init, TableInv, ListedIsOpen, Untouched

LEMMA TableStep == TypeOK /\ OnceInv /\ TableInv /\ [Next]_vars => TableInv'
<1> SUFFICES ASSUME TypeOK, OnceInv, TableInv, [Next]_vars PROVE TableInv'
  OBVIOUS
<1> USE DEF drains, sidecar, events, approvals, operator
<1>0. CASE UNCHANGED <<pending, handler, mark, answer, told>>
  BY <1>0 DEF TableInv, ListedIsOpen, Untouched
<1>1. ASSUME NEW p \in Process, NEW x \in Request, Ask(p, x) PROVE TableInv'
  <2>1. x \notin pending
    BY <1>1 DEF Ask, TableInv, Untouched
  <2>2. UNCHANGED <<pending, mark, answer>>
    BY <1>1 DEF Ask
  <2>3. /\ \A y \in Request \ {x} : handler'[y] = handler[y] /\ told'[y] = told[y]
        /\ handler[x] = "none"
        /\ handler'[x] = "bound" => told'[x] = told[x]
        /\ handler'[x] # "none"
    BY <1>1 DEF TypeOK, Ask
  <2> QED
    BY <2>1, <2>2, <2>3 DEF TypeOK, TableInv, ListedIsOpen, Untouched
<1>2. ASSUME NEW x \in Request, Register(x) PROVE TableInv'
  <2>1. /\ Untouched(x) /\ pending' = pending \cup {x} /\ UNCHANGED <<answer, told>>
        /\ handler'[x] = "open" /\ \A y \in Request \ {x} : handler'[y] = handler[y]
    BY <1>2 DEF TypeOK, Register, TableInv
  <2>2. /\ \A y \in Request \ {x} : mark'[y] = mark[y]
        /\ \A v \in Resolver : mark'[x][v] = mark[x][v]
    BY <1>2 DEF TypeOK, Register, Resolver, Writer
  <2>3. ListedIsOpen'
    <3>1. ASSUME NEW y \in pending
          PROVE  y # x /\ y \in Request /\ \A v \in Resolver : mark'[y][v] = mark[y][v]
      BY <2>1, <2>2 DEF TypeOK, Untouched
    <3> QED
      BY <2>1, <3>1 DEF TypeOK, TableInv, ListedIsOpen, Untouched
  <2>4. \A y \in Request : handler'[y] \in {"none", "bound"} => Untouched(y)'
    BY <2>1, <2>2 DEF TableInv, Untouched
  <2>5. ASSUME NEW y \in pending', NEW v \in Resolver
        PROVE  mark'[y][v] \in {"nothing", "taken", "decided"}
    <3>1. v \in Writer
      BY DEF Writer
    <3>2. CASE y = x
      BY <2>1, <2>2, <3>1, <3>2 DEF Untouched
    <3>3. CASE y # x
      <4>1. y \in pending /\ y \in Request
        BY <2>1, <3>3 DEF TypeOK
      <4>2. mark'[y] = mark[y]
        BY <2>2, <3>3, <4>1
      <4> QED
        BY <4>1, <4>2 DEF TableInv
    <3> QED
      BY <3>2, <3>3
  <2> QED
    BY <2>3, <2>4, <2>5 DEF TableInv
<1>3. ASSUME NEW x \in Request, NEW v \in Writer, Look(x, v) \/ Write(x, v) PROVE TableInv'
  <2>1. /\ mark[x][v] \notin {"nothing", "taken", "decided"}
        /\ UNCHANGED <<pending, handler, answer, told>>
        /\ \A y \in Request, w \in Writer : mark'[y][w] = mark[y][w] \/ (y = x /\ w = v)
    BY <1>3 DEF TypeOK, Look, Write, Terminal
  <2>2. v \in Resolver => x \notin pending
    BY <2>1 DEF TableInv
  <2>3. handler[x] \notin {"none", "bound"}
    BY <2>1 DEF TableInv, Untouched
  <2>4. \A y \in pending', w \in Resolver : mark'[y][w] = mark[y][w]
    BY <2>1, <2>2 DEF TypeOK, Writer
  <2>5. \A y \in Request : handler'[y] \in {"none", "bound"} => Untouched(y)'
    BY <2>1, <2>3 DEF TableInv, Untouched
  <2>6. ListedIsOpen'
    BY <2>1, <2>4 DEF TableInv, ListedIsOpen
  <2>7. \A y \in pending', w \in Resolver : mark'[y][w] \in {"nothing", "taken", "decided"}
    BY <2>1, <2>4 DEF TableInv
  <2> QED
    BY <2>5, <2>6, <2>7 DEF TableInv
<1>4. ASSUME NEW x \in Request, NEW v \in Resolver, Resolves(x, v), UNCHANGED <<pending, told>>,
             handler[x] \notin {"none", "bound"}, handler'[x] \in {handler[x], "resolving"},
             \A y \in Request \ {x} : handler'[y] = handler[y]
      PROVE  TableInv'
  <2>1. /\ \A y \in Request \ {x} : answer'[y] = answer[y] /\ mark'[y] = mark[y]
        /\ mark'[x][v] = "decided" /\ \A w \in Writer \ {v} : mark'[x][w] = mark[x][w]
    BY <1>4 DEF TypeOK, Resolves, Writer
  <2>2. ASSUME NEW y \in pending
        PROVE  /\ handler'[y] \in {"open", "resolving"} /\ told'[y] = None
               /\ answer'[y] # None => \E w \in Resolver : mark'[y][w] = "decided"
    <3>1. CASE y = x
      BY <1>4, <2>1, <3>1 DEF TableInv, ListedIsOpen
    <3>2. CASE y # x
      BY <1>4, <2>1, <3>2 DEF TypeOK, TableInv, ListedIsOpen
    <3> QED
      BY <3>1, <3>2
  <2>3. \A y \in Request : handler'[y] \in {"none", "bound"} => Untouched(y)'
    BY <1>4, <2>1 DEF TableInv, Untouched
  <2>4. ASSUME NEW y \in pending, NEW w \in Resolver
        PROVE  mark'[y][w] \in {"nothing", "taken", "decided"}
    <3>1. w \in Writer /\ y \in Request
      BY DEF TypeOK, Writer
    <3>2. mark'[y][w] \in {mark[y][w], "decided"}
      BY <2>1, <3>1
    <3> QED
      BY <3>2 DEF TableInv
  <2> QED
    BY <1>4, <2>2, <2>3, <2>4 DEF TableInv, ListedIsOpen
<1>4a. ASSUME NEW x \in Request, NEW v \in Resolver, Unlist(x, v) PROVE TableInv'
  <2>1. /\ pending' = pending \ {x} /\ UNCHANGED <<handler, answer, told>>
        /\ \A y \in Request \ {x} : mark'[y] = mark[y]
    BY <1>4a DEF TypeOK, Unlist
  <2>2. handler[x] \notin {"none", "bound"}
    BY <1>4a DEF Unlist, TableInv, Untouched, Writer
  <2> QED
    BY <2>1, <2>2 DEF TypeOK, TableInv, ListedIsOpen, Untouched
<1>5. ASSUME NEW x \in Request, NEW v \in Resolver, Resolve(x, v) PROVE TableInv'
  <2>1. handler[x] \notin {"none", "bound"}
    BY <1>5 DEF Resolve, TableInv, Untouched, Writer
  <2> QED
    BY <1>4, <1>5, <2>1 DEF Resolve
<1>6. ASSUME NEW x \in Request, AutoApprove(x) \/ TimeOut(x) PROVE TableInv'
  <2>1. Resolves(x, "handler") /\ UNCHANGED <<pending, told>>
    BY <1>6 DEF AutoApprove, TimeOut
  <2>2. /\ handler[x] = "open" /\ handler'[x] = "resolving"
        /\ \A y \in Request \ {x} : handler'[y] = handler[y]
    BY <1>6 DEF TypeOK, AutoApprove, TimeOut, Open
  <2> QED
    BY <1>4, <2>1, <2>2 DEF Resolver
<1>7. ASSUME NEW x \in Request, Return(x) PROVE TableInv'
  <2>1. x \notin pending
    <3>1. CASE mark[x]["handler"] = "done"
      BY <3>1 DEF TableInv, Resolver
    <3>2. CASE Woken(x)
      BY <3>2 DEF Woken, TableInv, Resolver
    <3> QED
      BY <1>7, <3>1, <3>2 DEF Return
  <2>2. /\ UNCHANGED <<pending, mark, answer>> /\ handler'[x] = "answered"
        /\ \A y \in Request \ {x} : handler'[y] = handler[y] /\ told'[y] = told[y]
    BY <1>7 DEF TypeOK, Return
  <2> QED
    BY <2>1, <2>2 DEF TypeOK, TableInv, ListedIsOpen, Untouched
<1>8. ASSUME UNCHANGED <<pending, handler, answer, told>>,
             \A y \in Request, v \in Writer :
                \/ mark'[y][v] = mark[y][v]
                \/ y \in pending /\ mark[y][v] # "decided" /\ mark'[y][v] = "taken"
      PROVE  TableInv'
  <2>1. \A y \in Request : handler[y] \in {"none", "bound"} => y \notin pending
    BY DEF TableInv, Untouched
  <2>2. \A y \in Request : handler'[y] \in {"none", "bound"} => Untouched(y)'
    BY <1>8, <2>1 DEF TableInv, Untouched
  <2>3. \A y \in pending, v \in Resolver : mark'[y][v] \in {mark[y][v], "taken"}
    BY <1>8 DEF TypeOK, Writer
  <2>4. \A y \in pending, v \in Resolver : mark[y][v] = "decided" => mark'[y][v] = "decided"
    BY <1>8 DEF TypeOK, Writer
  <2>5. ListedIsOpen'
    BY <1>8, <2>4 DEF TableInv, ListedIsOpen
  <2>6. \A y \in pending', v \in Resolver : mark'[y][v] \in {"nothing", "taken", "decided"}
    BY <1>8, <2>3 DEF TableInv
  <2> QED
    BY <2>2, <2>5, <2>6 DEF TableInv
<1>9. ASSUME NEW x \in Request, NEW d \in Decision, Respond(x, d) PROVE TableInv'
  <2>1. \A y \in Request, v \in Writer :
            \/ mark'[y][v] = mark[y][v]
            \/ y \in pending /\ mark[y][v] # "decided" /\ mark'[y][v] = "taken"
    BY <1>9 DEF TypeOK, OnceInv, Respond
  <2> QED
    BY <1>8, <1>9, <2>1 DEF Respond
<1>10. ASSUME NEW r \in Runtime, Collect(r) PROVE TableInv'
  <2>1. ASSUME NEW y \in Request, NEW v \in Writer
        PROVE  \/ mark'[y][v] = mark[y][v]
               \/ y \in pending /\ mark[y][v] # "decided" /\ mark'[y][v] = "taken"
    BY <1>10 DEF TypeOK, OnceInv, Collect, At
  <2> QED
    BY <1>8, <1>10, <2>1 DEF Collect
<1>11. ASSUME NEW r \in Runtime, DrainStep(r) \/ Start(r) PROVE TableInv'
  BY <1>0, <1>10, <1>11 DEF DrainStep, Start, Started, StartFailed, Subscribe, Take, StreamFails,
     Decide, Recover, GiveUp, Progress, RestartStep, End, Unbind
<1>12. ASSUME NEW p \in Process, ReaderStep(p) PROVE TableInv'
  BY <1>0, <1>12 DEF ReaderStep, ReaderEnds, Send
<1>13. ASSUME NEW p \in Process, NEW r \in Runtime, NEW e \in Outcome \cup {"progress"},
              Deliver(p, r, e)
       PROVE  TableInv'
  BY <1>0, <1>13 DEF Deliver
<1>14. CASE OperatorStep \/ BeginRestart \/ Crash \/ \E r \in Runtime : Interrupt(r)
  BY <1>0, <1>14 DEF OperatorStep, OperatorRestartStep, MarkRestarting, BeginRestart, Crash,
     Interrupt
<1>15. CASE UNCHANGED vars
  BY <1>0, <1>15 DEF vars
<1> QED
  BY <1>1, <1>2, <1>3, <1>4a, <1>5, <1>6, <1>7, <1>9, <1>11, <1>12, <1>13, <1>14, <1>15
  DEF Next, ThreadStep, Environment, HandlerStep, WriterStep

\* What the operator sees listed is open: its handler has not returned, and
\* whoever has decided it is just about to remove it.
THEOREM TableIsOpen == Spec => []ListedIsOpen
<1>1. TypeOK /\ OnceInv /\ [Next]_vars => OnceInv'
  BY OnceStep
<1>2. TypeOK /\ OnceInv /\ TableInv /\ [Next]_vars => TableInv'
  BY TableStep
<1>3. TableInv => ListedIsOpen
  BY DEF TableInv
<1> QED
  BY <1>1, <1>2, <1>3, OnceInit, TableInit, TypeCorrect, PTL DEF Spec
=============================================================================
