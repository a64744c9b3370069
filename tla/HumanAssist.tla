----------------------------- MODULE HumanAssist -----------------------------
(***************************************************************************)
(* The asks a chat thread puts to its user while a host is handed over to  *)
(* a person: the human assist tasks (state/human_assist_task_service.py),  *)
(* issued and closed by the admission of work (kernel/governance.py),      *)
(* answered by chat messages and followed by a resume of the blocked work  *)
(* (app/routers/runtime_center_routes_core.py), over crashes.              *)
(*                                                                         *)
(* One thread with one host.  All of it runs on the event loop and only    *)
(* the resume, a background task of the response, is ever suspended: every *)
(* admission, answer and status read is one step.  Records whose listing   *)
(* is cut off at 50 are out of the bound.                                  *)
(***************************************************************************)
EXTENDS FiniteSets

CONSTANTS
    Task,     \* records, each issued once (bound)
    Ask,      \* what work is refused for: [profile, task], either may be None
    ByResume, \* the ask of a resume, which names neither
    Fresh,    \* records that look like the handoff of a fresh recovery
    None

ASSUME AskAssumption ==
    /\ \A a \in Ask : DOMAIN a = {"profile", "task"}
    /\ ByResume \in Ask
    /\ Fresh \subseteq Task

VARIABLES
    thread,    \* the records: status, ask, and which was updated after which
    host,      \* what its detail says, or that it cannot be read
    resume,    \* the background task of each record
    rewarded,  \* records that grant their reward
    recorded,  \* records whose acceptance is in the evidence ledger
    lost,      \* history: records whose resume a crash ended
    torn       \* history: records whose verification a crash cut short

vars == <<thread, host, resume, rewarded, recorded, lost, torn>>

Open == {"issued", "submitted", "need_more_evidence", "rejected"}
Finished == {"resume_queued", "closed"}
Status == Open \cup Finished
            \cup {"none", "verifying", "accepted", "handoff_blocked"}

Unfinished(s) == {t \in Task : s.status[t] \notin Finished \cup {"none"}}

(* Listing by updated_at: the last updated of a set of unfinished records. *)
Newest(s, S) == {t \in S : \A u \in S \ {t} : <<t, u>> \in s.newer}

Clash(a, b) ==
    /\ a.profile = b.profile
    /\ a.task = None \/ b.task = None \/ a.task = b.task

TypeOK ==
    /\ thread \in [status : [Task -> Status], ask : [Task -> Ask],
                   newer : SUBSET (Task \X Task)]
    /\ host \in {"ready", "handoff", "unknown"}
    /\ resume \in [Task -> {"none", "queued", "running", "waiting", "rerunning"}]
    /\ rewarded \subseteq Task /\ recorded \subseteq Task
    /\ lost \subseteq Task /\ torn \subseteq Task

Init ==
    /\ thread = [status |-> [t \in Task |-> "none"],
                 ask |-> [t \in Task |-> ByResume],
                 newer |-> {}]
    /\ host = "ready"
    /\ resume = [t \in Task |-> "none"]
    /\ rewarded = {} /\ recorded = {}
    /\ lost = {} /\ torn = {}
-----------------------------------------------------------------------------
(* Writing a record makes it the last updated; the order is kept among     *)
(* unfinished records.                                                     *)

Drop(newer, S) == {p \in newer : p[1] \notin S /\ p[2] \notin S}

Put(s, t, x) ==
    [s EXCEPT !.status = [@ EXCEPT ![t] = x],
              !.newer = Drop(@, {t}) \cup
                  IF x \in Finished THEN {}
                  ELSE {t} \X (Unfinished(s) \ {t})]

CloseAll(s, S) ==
    [s EXCEPT !.status = [t \in Task |-> IF t \in S THEN "closed" ELSE @[t]],
              !.newer = Drop(@, S)]

(* A bug: the scan does not skip what waits for its resume.                *)
ClosableAll(s) == {t \in Task : s.status[t] \notin {"none", "closed"}}

(* The records that a scan closes once their host is not in handoff.       *)
Closable(s) == Unfinished(s)

(* A bug: a record without a task is not the same ask.                     *)
SameTask(s, a) ==
    {t \in Unfinished(s) : s.ask[t].profile = a.profile /\ s.ask[t].task = a.task}

(* ensure_host_handoff_task: the unfinished records of the same ask.       *)
Matching(s, a) == {t \in Unfinished(s) : Clash(s.ask[t], a)}

(* It updates the newest of them or issues another; if it raises, the      *)
(* governance service logs that and refuses all the same.                  *)
Ensured(s, a) ==
    {s} \cup
    IF Matching(s, a) # {}
    THEN {Put(s, t, s.status[t]) : t \in Newest(s, Matching(s, a))}
    ELSE {Put([s EXCEPT !.ask = [@ EXCEPT ![t] = a]], t, "issued") :
             t \in {u \in Task : s.status[u] = "none"}}

(* What the admission of work leaves of the thread.  A stop of emergency   *)
(* refuses before it looks, and a host that cannot be read closes nothing. *)
Admission(s, a) ==
    {s} \cup CASE host = "handoff" -> Ensured(s, a)
               [] host = "ready" -> {CloseAll(s, Closable(s))}
               [] OTHER -> {}

(* Work goes on if neither the host nor an unfinished record is in its way.*)
Admitted(s) == host # "handoff" /\ Unfinished(s) = {}
-----------------------------------------------------------------------------
HostChanges ==
    /\ host' \in {"ready", "handoff", "unknown"} \ {host}
    /\ UNCHANGED <<thread, resume, rewarded, recorded, lost, torn>>

(* Work of the thread is submitted, or the governance status read, which   *)
(* closes stale handoffs as an admission does.                             *)
Work(a) ==
    /\ thread' \in Admission(thread, a)
    /\ UNCHANGED <<host, resume, rewarded, recorded, lost, torn>>

(* get_current_task, which passes over fresh recoveries.                   *)
Current == Newest(thread, Unfinished(thread) \ Fresh)

Answerable(t) == t \in Current /\ thread.status[t] \in Open

(* The answer lacks an anchor or evidence, or has what must not be in it.  *)
Decline(t) ==
    /\ Answerable(t)
    /\ \E x \in {"rejected", "need_more_evidence"} : thread' = Put(thread, t, x)
    /\ UNCHANGED <<host, resume, rewarded, recorded, lost, torn>>

(* A bug: the record that could not be entered in the ledger keeps the     *)
(* reward of its acceptance.                                               *)
RecordFailsKeepsReward(t) ==
    /\ Answerable(t)
    /\ thread' = Put(thread, t, "submitted")
    /\ rewarded' = rewarded \cup {t}
    /\ UNCHANGED <<host, resume, recorded, lost, torn>>

(* A bug: it goes back to the status from which it was verified.           *)
RecordFailsVerifying(t) ==
    /\ Answerable(t)
    /\ thread' = Put(thread, t, "verifying")
    /\ UNCHANGED <<host, resume, rewarded, recorded, lost, torn>>

(* The ledger refuses the verdict: the record is put back as it was when   *)
(* the answer came in, without a reward.                                   *)
RecordFails(t) ==
    /\ Answerable(t)
    /\ thread' = Put(thread, t, "submitted")
    /\ UNCHANGED <<host, resume, rewarded, recorded, lost, torn>>

(* The answer is accepted, rewarded and recorded, and the resume handed to *)
(* the response as its background task.                                    *)
Accept(t) ==
    /\ Answerable(t)
    /\ thread' = Put(thread, t, "resume_queued")
    /\ resume' = [resume EXCEPT ![t] = "queued"]
    /\ rewarded' = rewarded \cup {t}
    /\ recorded' = recorded \cup {t}
    /\ UNCHANGED <<host, lost, torn>>
-----------------------------------------------------------------------------
(* The resume submits a query under the same admission as other work, and  *)
(* tries twice.                                                            *)

(* A bug: a second failure leaves the record as it is.                     *)
MissUnmarked(t, s) ==
    IF resume[t] \in {"queued", "running"}
    THEN thread' = s /\ resume' = [resume EXCEPT ![t] = "waiting"]
    ELSE thread' = s /\ UNCHANGED resume

(* An attempt came to nothing, the thread being s.                         *)
Miss(t, s) ==
    IF resume[t] \in {"queued", "running"}
    THEN thread' = s /\ resume' = [resume EXCEPT ![t] = "waiting"]
    ELSE /\ thread' = Put(s, t, "handoff_blocked")
         /\ resume' = [resume EXCEPT ![t] = "none"]

Refused(t) ==
    /\ resume[t] \in {"queued", "waiting"}
    /\ \E s \in Admission(thread, ByResume) : Miss(t, s)
    /\ UNCHANGED <<host, rewarded, recorded, lost, torn>>

Resumes(t) ==
    /\ resume[t] \in {"queued", "waiting"}
    /\ \E s \in Admission(thread, ByResume) : Admitted(s) /\ thread' = s
    /\ resume' = [resume EXCEPT ![t] = IF @ = "queued" THEN "running" ELSE "rerunning"]
    /\ UNCHANGED <<host, rewarded, recorded, lost, torn>>

ResumeFails(t) ==
    /\ resume[t] \in {"running", "rerunning"}
    /\ Miss(t, thread)
    /\ UNCHANGED <<host, rewarded, recorded, lost, torn>>

ResumeEnds(t) ==
    /\ resume[t] \in {"running", "rerunning"}
    /\ thread' = Put(thread, t, "closed")
    /\ resume' = [resume EXCEPT ![t] = "none"]
    /\ UNCHANGED <<host, rewarded, recorded, lost, torn>>
-----------------------------------------------------------------------------
(* The process ends with its background tasks, which nothing starts again. *)
EndProcess(late) ==
    /\ resume' = [t \in Task |-> "none"]
    /\ lost' = lost \cup late \cup {t \in Task : resume[t] # "none"}
    /\ UNCHANGED host

Crash ==
    /\ EndProcess({})
    /\ UNCHANGED <<thread, rewarded, recorded, torn>>

(* It ends between two writes of a verification, or before the background  *)
(* task starts.                                                            *)
CrashInVerification(t) ==
    /\ Answerable(t)
    /\ torn' = torn \cup {t}
    /\ \/ /\ \E x \in {"submitted", "verifying"} : thread' = Put(thread, t, x)
          /\ EndProcess({})
          /\ UNCHANGED <<rewarded, recorded>>
       \/ /\ thread' = Put(thread, t, "accepted")
          /\ EndProcess({})
          /\ rewarded' = rewarded \cup {t}
          /\ recorded' \in {recorded, recorded \cup {t}}
       \/ /\ thread' = Put(thread, t, "resume_queued")
          /\ EndProcess({t})
          /\ rewarded' = rewarded \cup {t}
          /\ recorded' = recorded \cup {t}
-----------------------------------------------------------------------------
Next ==
    \/ HostChanges
    \/ \E a \in Ask : Work(a)
    \/ \E t \in Task :
         \/ Decline(t) \/ RecordFails(t) \/ Accept(t)
         \/ Refused(t) \/ Resumes(t) \/ ResumeFails(t) \/ ResumeEnds(t)
         \/ CrashInVerification(t)
    \/ Crash

Spec == Init /\ [][Next]_vars

(* The event loop runs a background task on, and the query that it made    *)
(* ends.                                                                   *)
FairSpec ==
    /\ Spec
    /\ \A t \in Task : WF_vars(Refused(t) \/ Resumes(t))
                       /\ WF_vars(ResumeFails(t) \/ ResumeEnds(t))
-----------------------------------------------------------------------------
(* Properties.                                                             *)

(* resume_queued says that a background task is at work on the record and  *)
(* is its only writer, unless a crash ended it (routes_core 785, 836;      *)
(* governance scans skip the status).                                      *)
QueuedIsWorked ==
    \A t \in Task :
        /\ resume[t] # "none" => thread.status[t] = "resume_queued"
        /\ thread.status[t] = "resume_queued" => resume[t] # "none" \/ t \in lost

(* A reward is granted only with the acceptance in the evidence ledger,    *)
(* unless a crash came between the two; nothing is resumed without both,   *)
(* and a rewarded record never takes a second answer.                      *)
RewardEarned ==
    \A t \in Task :
        /\ t \in rewarded => t \in recorded \cup torn
        /\ thread.status[t] \in {"resume_queued", "handoff_blocked"} =>
               t \in rewarded \cap recorded
        /\ thread.status[t] \in Open => t \notin rewarded

(* The user is not asked the same twice: two unfinished records are of     *)
(* different asks, unless one is a resume that was given up, whatever work *)
(* and resumes are refused and in whatever order.                          *)
LiveAsksDiffer ==
    \A t, u \in Unfinished(thread) :
        Clash(thread.ask[t], thread.ask[u]) =>
            t = u \/ "handoff_blocked" \in {thread.status[t], thread.status[u]}

(* What the thread presents as its current record takes an answer, unless  *)
(* it is a resume that was given up or a crash cut its verification short. *)
CurrentTakesAnswer ==
    \A t \in Current :
        Answerable(t) \/ thread.status[t] = "handoff_blocked" \/ t \in torn

(* An accepted answer comes to its end, work going on or given up, unless  *)
(* a crash loses it.                                                       *)
EveryResumeSettles ==
    \A t \in Task :
        thread.status[t] = "resume_queued" ~>
            thread.status[t] \in {"closed", "handoff_blocked"} \/ t \in lost
=============================================================================
