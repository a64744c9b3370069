--------------------------- MODULE ChannelManager ---------------------------
(***************************************************************************)
(* The queue of one channel, the workers that consume it, and what stops,  *)
(* starts and replaces the channel (app/channels/manager.py).  Messages of *)
(* a session (a debounce key) are numbered in the order they come; a       *)
(* payload is a session with the messages merged into it.  Each start      *)
(* makes a queue and the workers that read it: a generation.  Steps end    *)
(* where the code awaits: the lookup of the channel suspends only while    *)
(* the manager's lock is taken or waited for, and the lock is held across  *)
(* an await only by replace_channel.  The per-key lock guards code that    *)
(* never awaits, so it is never found taken and has no state here.         *)
(***************************************************************************)
EXTENDS Naturals, Sequences, SequencesExt

CONSTANTS
    Session,      \* debounce keys
    Worker,       \* consumer tasks of the channel
    Home,         \* the generation a worker belongs to
    Swapper,      \* the task that replaces channels, among lock waiters
    Swaps,        \* whether a channel may be replaced
    Capacity,     \* maxsize of the queue
    MaxMessages,  \* bound: messages per session
    MaxStarts     \* bound: times the channel is started again

ASSUME ChannelAssumption == /\ Swapper \notin Worker
                            /\ Swaps \in BOOLEAN
                            /\ Capacity \in Nat \ {0}
                            /\ MaxMessages \in [Session -> Nat]
                            /\ MaxStarts \in Nat
                            /\ Home \in [Worker -> 0 .. MaxStarts]

VARIABLES
    arrived,      \* messages that came, per session
    gen,          \* the generation that _queues and start_all know
    mode,         \* whether _queues has the queue, stop_all is waiting, or not
    tasks,        \* _consumer_tasks: the workers that stop_all knows
    queue,        \* the asyncio queue of each generation: payloads
    inProgress,   \* _in_progress
    pending,      \* _pending: messages kept for a session in progress
    stage,        \* per worker: waiting for a payload, for the lock, busy or gone
    job,          \* per worker: the payload it holds or processes
    line,         \* waiters of the manager's lock, in order
    swapping,     \* replace_channel holds the lock and stops the old channel
    handed,       \* messages handed to the channel, in order, per session
    discarded     \* history: messages that came before the last stop ended

vars == <<arrived, gen, mode, tasks, queue, inProgress, pending, stage, job,
          line, swapping, handed, discarded>>

opened == <<gen, mode, tasks, discarded>>
Generation == 0 .. MaxStarts
Crew(g) == {w \in Worker : Home[w] = g}

Payload == [key : Session, items : Seq(Nat)]
Idle == <<>>

(* The elements of q that are in S, in their order.                        *)
Kept(q, S) ==
    LET kept[i \in 0 .. Len(q)] ==
            IF i = 0 THEN <<>>
            ELSE IF q[i] \in S THEN Append(kept[i - 1], q[i]) ELSE kept[i - 1]
    IN  kept[Len(q)]

(* A queue never outgrows its maxsize, and a worker has a payload in its   *)
(* hands exactly when it waits for the lock or is busy.                    *)
TypeOK ==
    /\ arrived \in [Session -> Nat]
    /\ gen \in Generation /\ mode \in {"open", "stopping", "shut"}
    /\ tasks \subseteq Worker
    /\ queue \in [Generation -> Seq(Payload)]
    /\ \A g \in Generation : Len(queue[g]) <= Capacity
    /\ inProgress \subseteq Session
    /\ pending \in [Session -> Seq(Nat)]
    /\ stage \in [Worker -> {"getting", "lookup", "busy", "gone"}]
    /\ \A w \in Worker : IF stage[w] \in {"lookup", "busy"} THEN job[w] \in Payload
                                                         ELSE job[w] = Idle
    /\ line \in Seq(Worker \cup {Swapper})
    /\ swapping \in BOOLEAN
    /\ handed \in [Session -> Seq(Nat)]
    /\ discarded \in [Session -> Nat]

Init ==
    /\ arrived = [s \in Session |-> 0]
    /\ gen = 0 /\ mode = "open"
    /\ tasks = Crew(0)
    /\ queue = [g \in Generation |-> <<>>]
    /\ inProgress = {}
    /\ pending = [s \in Session |-> <<>>]
    /\ stage = [w \in Worker |-> IF w \in Crew(0) THEN "getting" ELSE "gone"]
    /\ job = [w \in Worker |-> Idle]
    /\ line = <<>>
    /\ swapping = FALSE
    /\ handed = [s \in Session |-> <<>>]
    /\ discarded = [s \in Session |-> 0]
-----------------------------------------------------------------------------
(* Enqueueing, on the event loop.  put_nowait on a full queue raises: the  *)
(* payload is gone.  What comes while _queues has no queue is dropped and  *)
(* not counted.                                                            *)

(* A bug: the queue is made without a maxsize.                             *)
PutUnbounded(q, p) == Append(q, p)

Put(q, p) == IF Len(q) < Capacity THEN Append(q, p) ELSE q

(* A bug: the mark of a session in progress is not consulted.              *)
ArriveUnmarked(s) ==
    /\ mode # "shut" /\ arrived[s] < MaxMessages[s]
    /\ arrived' = [arrived EXCEPT ![s] = @ + 1]
    /\ queue' = [queue EXCEPT ![gen] = Put(@, [key |-> s,
                                               items |-> <<arrived[s] + 1>>])]
    /\ UNCHANGED <<opened, inProgress, pending, stage, job, line, swapping,
                   handed>>

Arrive(s) ==
    /\ mode # "shut" /\ arrived[s] < MaxMessages[s]
    /\ arrived' = [arrived EXCEPT ![s] = @ + 1]
    /\ \/ /\ s \in inProgress
          /\ pending' = [pending EXCEPT ![s] = Append(@, arrived[s] + 1)]
          /\ UNCHANGED queue
       \/ /\ s \notin inProgress
          /\ queue' = [queue EXCEPT ![gen] = Put(@, [key |-> s,
                                                     items |-> <<arrived[s] + 1>>])]
          /\ UNCHANGED pending
    /\ UNCHANGED <<opened, inProgress, stage, job, line, swapping, handed>>
-----------------------------------------------------------------------------
(* A worker claims the session of the payload it holds: it marks it in     *)
(* progress and takes what the queue holds of it into one batch.           *)

OfSession(s, q) == Kept(q, {p \in Payload : p.key = s})
Others(s, q) == Kept(q, {p \in Payload : p.key # s})
Messages(ps) == FlattenSeq([i \in DOMAIN ps |-> ps[i].items])
Backlog(s, q) == Messages(OfSession(s, q))

(* A bug: what was drained comes before the payload that was popped.       *)
BatchReversed(p, q) == Backlog(p.key, q) \o p.items

(* A bug: the worker processes the payload it popped and drops the rest.   *)
BatchFirstOnly(p, q) == p.items

Batch(p, q) == p.items \o Backlog(p.key, q)

Claim(w, p, q) ==
    LET batch == Batch(p, q)
    IN  /\ stage' = [stage EXCEPT ![w] = "busy"]
        /\ job' = [job EXCEPT ![w] = [key |-> p.key, items |-> batch]]
        /\ queue' = [queue EXCEPT ![Home[w]] = Others(p.key, q)]
        /\ inProgress' = inProgress \cup {p.key}
        /\ handed' = [handed EXCEPT ![p.key] = @ \o batch]

(* The lock is free: popping, looking the channel up and claiming are one  *)
(* step of the event loop.                                                 *)
TakeAndClaim(w) ==
    /\ stage[w] = "getting"
    /\ queue[Home[w]] # <<>>
    /\ ~swapping /\ line = <<>>
    /\ Claim(w, Head(queue[Home[w]]), Tail(queue[Home[w]]))
    /\ UNCHANGED <<arrived, opened, pending, line, swapping>>

(* The lock is taken or waited for: the worker waits, holding a payload of *)
(* a session nobody has marked.                                            *)
TakeAndWait(w) ==
    /\ stage[w] = "getting"
    /\ queue[Home[w]] # <<>>
    /\ swapping \/ line # <<>>
    /\ stage' = [stage EXCEPT ![w] = "lookup"]
    /\ job' = [job EXCEPT ![w] = Head(queue[Home[w]])]
    /\ queue' = [queue EXCEPT ![Home[w]] = Tail(@)]
    /\ line' = Append(line, w)
    /\ UNCHANGED <<arrived, opened, inProgress, pending, swapping, handed>>

ClaimHeld(w) ==
    /\ stage[w] = "lookup"
    /\ ~swapping
    /\ line # <<>> /\ Head(line) = w
    /\ Claim(w, job[w], queue[Home[w]])
    /\ line' = Tail(line)
    /\ UNCHANGED <<arrived, opened, pending, swapping>>

(* The batch is processed, or processing it failed or was cancelled and    *)
(* the turn made an error of it: the mark goes, and what came meanwhile is *)
(* merged and queued where this worker reads, who goes on.                 *)
Flushed(s, q) ==
    IF pending[s] = <<>> THEN q
    ELSE Put(q, [key |-> s, items |-> pending[s]])

(* A bug: the mark is removed but what came meanwhile is not queued.       *)
FinishUnflushed(w) ==
    /\ stage[w] = "busy"
    /\ inProgress' = inProgress \ {job[w].key}
    /\ stage' = [stage EXCEPT ![w] = "getting"]
    /\ job' = [job EXCEPT ![w] = Idle]
    /\ UNCHANGED <<arrived, opened, queue, pending, line, swapping, handed>>

(* A bug: the mark stays when nothing came meanwhile.                      *)
FinishMarked(w) ==
    LET s == job[w].key
    IN  /\ stage[w] = "busy"
        /\ inProgress' = IF pending[s] = <<>> THEN inProgress
                                              ELSE inProgress \ {s}
        /\ queue' = [queue EXCEPT ![Home[w]] = Flushed(s, @)]
        /\ pending' = [pending EXCEPT ![s] = <<>>]
        /\ stage' = [stage EXCEPT ![w] = "getting"]
        /\ job' = [job EXCEPT ![w] = Idle]
        /\ UNCHANGED <<arrived, opened, line, swapping, handed>>

Finish(w) ==
    LET s == job[w].key
    IN  /\ stage[w] = "busy"
        /\ inProgress' = inProgress \ {s}
        /\ queue' = [queue EXCEPT ![Home[w]] = Flushed(s, @)]
        /\ pending' = [pending EXCEPT ![s] = <<>>]
        /\ stage' = [stage EXCEPT ![w] = "getting"]
        /\ job' = [job EXCEPT ![w] = Idle]
        /\ UNCHANGED <<arrived, opened, line, swapping, handed>>
-----------------------------------------------------------------------------
(* Starting and stopping.                                                  *)

(* A queue and its workers, beside those that still run.                   *)
Open ==
    /\ gen < MaxStarts
    /\ gen' = gen + 1 /\ mode' = "open"
    /\ tasks' = tasks \cup Crew(gen + 1)
    /\ stage' = [w \in Worker |-> IF w \in Crew(gen + 1) THEN "getting"
                                                        ELSE stage[w]]

(* start_all, which a resume calls also when a restart or a replaced       *)
(* channel has opened the queue already.                                   *)
StartAll ==
    /\ mode # "stopping"
    /\ Open
    /\ UNCHANGED <<arrived, queue, inProgress, pending, job, line, swapping,
                   handed, discarded>>

(* stop_all up to its wait: a worker that waits for a payload or for the   *)
(* lock ends, a busy one when its turn lets the cancellation through.      *)
StopBegin ==
    /\ mode = "open" /\ gen < MaxStarts
    /\ mode' = "stopping"
    /\ inProgress' = {}
    /\ pending' = [s \in Session |-> <<>>]
    /\ discarded' = arrived
    /\ \E gone \in SUBSET tasks :
           /\ \A w \in tasks \ gone : stage[w] = "busy"
           /\ stage' = [w \in Worker |-> IF w \in gone THEN "gone" ELSE stage[w]]
           /\ job' = [w \in Worker |-> IF w \in gone THEN Idle ELSE job[w]]
           /\ line' = Kept(line, (Worker \cup {Swapper}) \ gone)
    /\ UNCHANGED <<arrived, gen, tasks, queue, swapping, handed>>

(* The workers have ended or five seconds have passed.                     *)
StopEnd ==
    /\ mode = "stopping"
    /\ mode' = "shut"
    /\ tasks' = {}
    /\ discarded' = arrived
    /\ UNCHANGED <<arrived, gen, queue, inProgress, pending, stage, job, line,
                   swapping, handed>>
-----------------------------------------------------------------------------
(* Replacing the channel: where there is no queue one is opened, the new   *)
(* channel is started outside the lock, then the swap waits for the lock   *)
(* and keeps it while the old one stops.                                   *)

RequestSwap ==
    /\ Swaps
    /\ ~swapping
    /\ \A i \in DOMAIN line : line[i] # Swapper
    /\ line' = Append(line, Swapper)
    /\ IF mode = "shut" THEN Open ELSE UNCHANGED <<gen, mode, tasks, stage>>
    /\ UNCHANGED <<arrived, queue, inProgress, pending, job, swapping, handed,
                   discarded>>

BeginSwap ==
    /\ ~swapping
    /\ line # <<>> /\ Head(line) = Swapper
    /\ swapping' = TRUE
    /\ line' = Tail(line)
    /\ UNCHANGED <<arrived, opened, queue, inProgress, pending, stage, job,
                   handed>>

EndSwap ==
    /\ swapping
    /\ swapping' = FALSE
    /\ UNCHANGED <<arrived, opened, queue, inProgress, pending, stage, job, line,
                   handed>>
-----------------------------------------------------------------------------
Next ==
    \/ \E s \in Session : Arrive(s)
    \/ \E w \in Worker : \/ TakeAndClaim(w) \/ TakeAndWait(w)
                         \/ ClaimHeld(w) \/ Finish(w)
    \/ StartAll \/ StopBegin \/ StopEnd
    \/ RequestSwap \/ BeginSwap \/ EndSwap

Spec == Init /\ [][Next]_vars

(* Consumers are tasks the event loop keeps scheduling; a turn and the     *)
(* stop of a channel end, with an answer or an error; stop_all waits for   *)
(* five seconds at most; asyncio locks are fair.  Nothing makes messages   *)
(* arrive or channels start, stop or be replaced.                          *)
Fairness ==
    /\ \A w \in Worker : /\ WF_vars(TakeAndClaim(w) \/ TakeAndWait(w))
                         /\ WF_vars(ClaimHeld(w))
                         /\ WF_vars(Finish(w))
    /\ WF_vars(StopEnd) /\ WF_vars(BeginSwap) /\ WF_vars(EndSwap)

FairSpec == Spec /\ Fairness
-----------------------------------------------------------------------------
Busy(s) == {w \in Worker : stage[w] = "busy" /\ job[w].key = s}
Holding(s) == {w \in Worker : stage[w] = "lookup" /\ job[w].key = s}

(* One worker at a time processes a session: what the marks and the key    *)
(* locks of the manager are for.                                           *)
OneWorkerPerSession == \A s \in Session : \A v, w \in Busy(s) : v = w

(* No message that came since the last stop is lost while the queue has    *)
(* room, whatever workers of an earlier start still run: each is handed    *)
(* over, held by a worker, queued, or kept for the end of the turn; and    *)
(* none is handed over twice.                                              *)
NothingLost ==
    \A s \in Session :
        /\ (discarded[s] + 1) .. arrived[s] \subseteq
               ToSet(handed[s]) \cup ToSet(pending[s])
               \cup (UNION {ToSet(Backlog(s, queue[g])) : g \in Generation})
               \cup (UNION {ToSet(job[w].items) : w \in Holding(s)})
        /\ IsInjective(handed[s])

(* Messages wait for the end of a turn only while the session is marked,   *)
(* so that there is an end to wait for, even where workers overlap.        *)
NoStrandedPending ==
    \A s \in Session : pending[s] # <<>> => s \in inProgress /\ Busy(s) # {}

(* Every message is handed over in the end, unless a stop discards it,     *)
(* also by workers that a stop did not end, each out of its own queue.     *)
EveryMessageServed ==
    \A s \in Session : \A n \in 1 .. MaxMessages[s] :
        arrived[s] >= n ~> n \in ToSet(handed[s]) \cup 1 .. discarded[s]

(* While no channel is replaced or started again, the queue, the marks and *)
(* the pending lists together are a mailbox per session, through merging,  *)
(* draining and flushing, and also when the queue is full.                 *)
Mailbox == INSTANCE SessionMailbox WITH
               inbox <- [s \in Session |->
                            Backlog(s, queue[gen]) \o pending[s]],
               answered <- handed,
               inTurn <- {s \in Session : Busy(s) # {}}

ImplementsMailbox == Mailbox!Spec
=============================================================================
