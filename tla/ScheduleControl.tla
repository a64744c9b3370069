-------------------------- MODULE ScheduleControl --------------------------
(***************************************************************************)
(* Who may start a scheduled job: the cron manager with its in-memory      *)
(* scheduler (app/crons/manager.py), the schedule records it is loaded     *)
(* from (app/crons/repo/state_repo.py), the runs of its jobs, and the      *)
(* emergency stop and resume of the governance service                     *)
(* (kernel/governance.py), over restarts of the process and over restarts  *)
(* of the managers within it (runtime_lifecycle.py and                     *)
(* runtime_manager_stack.py), which may fail.                              *)
(*                                                                         *)
(* The repository is synchronous and the manager's lock is never held      *)
(* across a suspension, so every operation on a schedule is one step; the  *)
(* governance operations are suspended while channels stop or start, and   *)
(* a run is while it waits for its semaphore and while it executes.  A     *)
(* restart of the managers stops the old ones, suspends, and loads new     *)
(* ones; no other operation waits for it or excludes it.  The columns      *)
(* status and enabled of a record are only shown, never read back by the   *)
(* manager, and are left out; deleted is kept.                             *)
(***************************************************************************)
CONSTANTS
    Job,        \* schedules
    Run,        \* runs of jobs; each happens once (bound)
    JobOf,      \* the schedule that a run is of (bound)
    Refusable,  \* schedules that may be given a spec CronTrigger rejects (bound)
    Team,       \* schedules of an industry instance
    None

ASSUME NoneAssumption ==
    /\ None \notin Run /\ None \notin Job
    /\ None \notin [ids : SUBSET Job, own : BOOLEAN]

ASSUME RunsAssumption ==
    /\ JobOf \in [Run -> Job]
    /\ Refusable \subseteq Job /\ Team \subseteq Job

VARIABLES
    kept,      \* schedules whose record exists and is not deleted
    spec,      \* schedules whose stored spec_payload says enabled
    bad,       \* schedules whose stored spec CronTrigger rejects
    active,    \* the scheduler's jobs that fire
    paused,    \* the scheduler's jobs that do not
    stray,     \* jobs that fire in schedulers of failed rebuilds
    sem,       \* per job, its semaphore, named after the first run to enter
    run,       \* the runs: their job, stage and semaphore
    control,   \* the persisted governance control
    channels,  \* channels are running
    stopping,  \* an emergency stop awaiting the channels, or None
    resuming,  \* a governance resume awaiting the channels, or None
    managers,  \* running, stopped within the process, or dead with it
    past       \* history: what the properties make exceptions for

vars == <<kept, spec, bad, active, paused, stray, sem, run, control,
          channels, stopping, resuming, managers, past>>

schedules == <<kept, spec, bad, active, paused, stray>>
governed == <<control, channels, stopping, resuming>>

NoRun == [stage |-> "idle", job |-> None, timed |-> FALSE, own |-> None]

(* A governance operation that waits has read its ids, and the channel     *)
(* manager it waits for is still that of the process, or no longer.        *)
Waiting == [ids : SUBSET Job, own : BOOLEAN]

(* renewed: jobs whose semaphore was renewed over a run in flight; off:    *)
(* enabled schedules that were told to pause; started: timers started      *)
(* since the stop that is on paused the others; left: those paused where   *)
(* the resume under way will not find them; rebooted and replaced:         *)
(* channels started beside the stop by a restart or an edit.               *)
NoPast == [renewed |-> {}, off |-> {}, started |-> {}, left |-> {},
           rebooted |-> FALSE, replaced |-> FALSE]

(* A job of the scheduler either fires or is paused, a run in flight knows *)
(* its job, and the control holds ids of schedules.                        *)
TypeOK ==
    /\ kept \subseteq Job /\ spec \subseteq Job /\ bad \subseteq kept
    /\ active \subseteq Job /\ paused \subseteq Job \ active
    /\ stray \subseteq Job
    /\ sem \in [Job -> Run \cup {None}]
    /\ run \in [Run -> [stage : {"idle", "starting", "waiting", "executing",
                                 "done"},
                        job : Job \cup {None}, timed : BOOLEAN,
                        own : Run \cup {None}]]
    /\ \A r \in Run : run[r].job = None => run[r].stage \in {"idle", "done"}
    /\ control \in [active : BOOLEAN, ids : SUBSET Job, shut : BOOLEAN]
    /\ channels \in BOOLEAN
    /\ stopping \in Waiting \cup {None}
    /\ resuming \in Waiting \cup {None}
    /\ managers \in {"running", "stopped", "dead"}
    /\ past \in [renewed : SUBSET Job, off : SUBSET Job,
                 started : SUBSET Job, left : SUBSET Job, rebooted : BOOLEAN, replaced : BOOLEAN]

Init ==
    /\ kept = {} /\ spec = {} /\ bad = {}
    /\ active = {} /\ paused = {} /\ stray = {}
    /\ sem = [j \in Job |-> None]
    /\ run = [r \in Run |-> NoRun]
    /\ control = [active |-> FALSE, ids |-> {}, shut |-> FALSE]
    /\ channels = TRUE
    /\ stopping = None /\ resuming = None
    /\ managers = "running"
    /\ past = NoPast
-----------------------------------------------------------------------------
(* Runs.                                                                   *)

Stage(s) == {r \in Run : run[r].stage = s}
InFlight(j) == {r \in Stage("waiting") \cup Stage("executing") : run[r].job = j}
Queue(s) == {r \in Stage("waiting") \cup Stage("executing") : run[r].own = s}

(* The semaphore a run enters: that of the manager it was started by, if   *)
(* that is no longer the present one, or else the job's, made if need be.  *)
Semaphore(r, j) ==
    IF run[r].own # None THEN run[r].own
    ELSE IF sem[j] # None THEN sem[j] ELSE r

Made(r, j) == IF run[r].own # None THEN sem ELSE [sem EXCEPT ![j] = Semaphore(r, j)]

(* A bug: the semaphore is made, but not waited for.                       *)
EnterFreely(r, j, timed) ==
    /\ sem' = Made(r, j)
    /\ run' = [run EXCEPT ![r] =
                  [stage |-> "executing", job |-> j, timed |-> timed,
                   own |-> Semaphore(r, j)]]

EnterSemaphore(r, j, timed) ==
    LET s == Semaphore(r, j)
    IN  /\ sem' = Made(r, j)
        /\ run' = [run EXCEPT ![r] =
                      [stage |-> IF Queue(s) = {} THEN "executing" ELSE "waiting",
                       job |-> j, timed |-> timed, own |-> s]]

(* The timer of an active job fires; the scheduler runs one instance of    *)
(* its callback per job.                                                   *)
Fire(r, j) ==
    /\ managers = "running" /\ j \in active /\ j \in kept
    /\ run[r] = NoRun /\ j = JobOf[r]
    /\ \A w \in InFlight(j) : ~run[w].timed
    /\ EnterSemaphore(r, j, TRUE)
    /\ UNCHANGED <<schedules, governed, managers, past>>

(* The scheduler of a rebuild that failed was started, and nothing stops   *)
(* it: its callback asks for the record, and for no governance, and enters *)
(* a semaphore of its own manager; there is one for each such rebuild.     *)
FireStray(r, j) ==
    /\ managers # "dead" /\ j \in stray /\ j \in kept
    /\ run[r] = NoRun /\ j = JobOf[r]
    /\ run' = [run EXCEPT ![r] = [stage |-> "executing", job |-> j,
                                 timed |-> FALSE, own |-> r]]
    /\ UNCHANGED <<schedules, sem, governed, managers, past>>

(* run_job creates a task, which starts later with the job as it was read. *)
RunNow(r, j) ==
    /\ managers # "dead" /\ j \in kept
    /\ run[r] = NoRun /\ j = JobOf[r]
    /\ run' = [run EXCEPT ![r] = [NoRun EXCEPT !.stage = "starting", !.job = j]]
    /\ UNCHANGED <<schedules, sem, governed, managers, past>>

Begin(r) ==
    /\ run[r].stage = "starting"
    /\ EnterSemaphore(r, run[r].job, FALSE)
    /\ UNCHANGED <<schedules, governed, managers, past>>

Proceed(r) ==
    /\ run[r].stage = "waiting"
    /\ \A w \in Stage("executing") : run[w].own # run[r].own
    /\ run' = [run EXCEPT ![r].stage = "executing"]
    /\ UNCHANGED <<schedules, sem, governed, managers, past>>

(* A bug: the state of a run is recorded over a deleted record too.        *)
EndRecorded(r) ==
    /\ run[r].stage = "executing"
    /\ run' = [run EXCEPT ![r] = [NoRun EXCEPT !.stage = "done"]]
    /\ kept' = kept \cup {run[r].job}
    /\ UNCHANGED <<spec, bad, active, paused, stray, sem, governed,
                   managers, past>>

(* What the run records of its end leaves a deleted record alone.          *)
End(r) ==
    /\ run[r].stage = "executing"
    /\ run' = [run EXCEPT ![r] = [NoRun EXCEPT !.stage = "done"]]
    /\ UNCHANGED <<schedules, sem, governed, managers, past>>
-----------------------------------------------------------------------------
(* Operations on schedules.  While the managers are stopped, the former    *)
(* cron manager still serves them, without its timers.                     *)

Timers == active \cup paused

Renewed(js) ==
    past.renewed \cup {j \in js : InFlight(j) \cup
                                  {r \in Stage("starting") : run[r].job = j} # {}}

(* What the history keeps of telling a schedule to be enabled or not.      *)
Told(j, on) ==
    [past EXCEPT !.started = IF on /\ (control.active \/ stopping # None)
                             THEN @ \cup {j} ELSE @ \ {j},
                 !.left = @ \ {j},
                 !.off = @ \ {j}]

(* upsert_job: the record and its spec, whose cron expression is checked   *)
(* for its number of fields only.                                          *)
Store(j, on, valid) ==
    /\ kept' = kept \cup {j}
    /\ spec' = IF on THEN spec \cup {j} ELSE spec \ {j}
    /\ bad' = IF valid THEN bad \ {j} ELSE bad \cup {j}

Renew(j, on) ==
    /\ sem' = [sem EXCEPT ![j] = None]
    /\ past' = [Told(j, on) EXCEPT !.renewed = Renewed({j})]

(* create_or_replace_job: the record, a new semaphore and the scheduler's  *)
(* job.                                                                    *)
Save(j, on) ==
    /\ managers = "running"
    /\ Store(j, on, TRUE)
    /\ Renew(j, on)
    /\ active' = IF on THEN active \cup {j} ELSE active \ {j}
    /\ paused' = IF on THEN paused \ {j} ELSE paused \cup {j}
    /\ UNCHANGED <<stray, run, governed, managers>>

(* When the trigger cannot be built, the record and the semaphore have     *)
(* been replaced already, and the scheduler keeps the job it had, if any.  *)
SaveRejected(j, on) ==
    /\ managers = "running" /\ j \in Refusable
    /\ Store(j, on, FALSE)
    /\ Renew(j, on)
    /\ UNCHANGED <<active, paused, stray, run, governed, managers>>

(* A manager that is not started stores the record only.                   *)
SaveUnstarted(j, on, valid) ==
    /\ managers = "stopped" /\ (valid \/ j \in Refusable)
    /\ Store(j, on, valid)
    /\ past' = Told(j, on)
    /\ UNCHANGED <<active, paused, stray, sem, run, governed, managers>>

Delete(j) ==
    /\ managers # "dead" /\ j \in kept
    /\ kept' = kept \ {j}
    /\ spec' = spec \ {j}
    /\ bad' = bad \ {j}
    /\ active' = active \ {j}
    /\ paused' = paused \ {j}
    /\ Renew(j, FALSE)
    /\ UNCHANGED <<stray, run, governed, managers>>

(* pause_job and resume_job change the scheduler, not the stored spec, and *)
(* raise when the scheduler has no such job.                               *)
Pause(j) ==
    /\ managers = "running" /\ j \in Timers
    /\ active' = active \ {j}
    /\ paused' = paused \cup {j}
    /\ past' = [Told(j, FALSE) EXCEPT !.off = @ \cup ({j} \cap spec)]
    /\ UNCHANGED <<kept, spec, bad, stray, sem, run, governed, managers>>

Resume(j) ==
    /\ managers = "running" /\ j \in Timers
    /\ active' = active \cup {j}
    /\ paused' = paused \ {j}
    /\ past' = Told(j, TRUE)
    /\ UNCHANGED <<kept, spec, bad, stray, sem, run, governed, managers>>

(* The industry service pauses the schedules of a team that another has    *)
(* superseded and resumes those of one that waited; it writes the stored   *)
(* spec itself, whether or not the scheduler had the job.                  *)
PauseInstance(j) ==
    /\ managers # "dead" /\ j \in kept \cap Team
    /\ active' = active \ {j}
    /\ paused' = paused \cup (Timers \cap {j})
    /\ spec' = spec \ {j}
    /\ past' = Told(j, FALSE)
    /\ UNCHANGED <<kept, bad, stray, sem, run, governed, managers>>

ResumeInstance(j) ==
    /\ managers # "dead" /\ j \in kept \cap Team
    /\ active' = active \cup (Timers \cap {j})
    /\ paused' = paused \ {j}
    /\ spec' = spec \cup {j}
    /\ past' = Told(j, TRUE)
    /\ UNCHANGED <<kept, bad, stray, sem, run, governed, managers>>
-----------------------------------------------------------------------------
(* Governance.  At most one stop and one resume are under way (bound).     *)
(* While the managers are stopped it still has the former ones.            *)

Stoppable == kept \cap spec    \* list_jobs reads the stored spec

(* emergency_stop up to its await, which is skipped when the control says  *)
(* that the channels are shut: the schedules that the scheduler does not   *)
(* have fail to be paused, and are not listed.                             *)
StopBegin ==
    LET hit == Stoppable \cap Timers
        ids == control.ids \cup hit
    IN  /\ managers # "dead" /\ stopping = None
        /\ active' = active \ hit
        /\ paused' = paused \cup hit
        /\ past' = [past EXCEPT !.started = {},
                                !.left = IF resuming = None THEN {}
                                         ELSE hit \ resuming.ids,
                                !.rebooted = @ /\ control.shut,
                                !.replaced = @ /\ control.shut]
        /\ IF control.shut
           THEN /\ control' = [control EXCEPT !.active = TRUE, !.ids = ids]
                /\ UNCHANGED stopping
           ELSE /\ stopping' = [ids |-> ids, own |-> TRUE]
                /\ UNCHANGED control
        /\ UNCHANGED <<kept, spec, bad, stray, sem, run, channels,
                       resuming, managers>>

(* A bug: the shutdown of the channels is noted, not done.                 *)
StopEndNoted ==
    /\ stopping # None
    /\ control' = [active |-> TRUE, ids |-> stopping.ids, shut |-> TRUE]
    /\ stopping' = None
    /\ UNCHANGED <<schedules, sem, run, channels, resuming, managers, past>>

(* A channel put in while stop_all waits is stopped with the others, or    *)
(* comes after the list that stop_all goes through was read.  The stop of  *)
(* a manager that a restart has replaced leaves the present channels be,   *)
(* and is recorded as if it had not.                                       *)
StopEnd ==
    /\ stopping # None
    /\ channels' \in IF stopping.own THEN {FALSE, past.replaced /\ channels}
                     ELSE {channels}
    /\ control' = [active |-> TRUE, ids |-> stopping.ids, shut |-> TRUE]
    /\ stopping' = None
    /\ UNCHANGED <<schedules, sem, run, resuming, managers, past>>

Released == [active |-> FALSE, ids |-> {}, shut |-> FALSE]

(* resume up to its await; outside a stop it only writes the control.      *)
ResumeBegin ==
    /\ managers # "dead" /\ resuming = None
    /\ IF control.active
       THEN resuming' = [ids |-> control.ids, own |-> TRUE] /\ UNCHANGED control
       ELSE control' = Released /\ UNCHANGED resuming
    /\ UNCHANGED <<schedules, sem, run, channels, stopping, managers, past>>

(* The end of a resume, for the schedules that it finds.                   *)
Restore(found) ==
    /\ resuming # None
    /\ channels' = (channels \/ (resuming.own /\ managers = "running"))
    /\ active' = active \cup found
    /\ paused' = paused \ found
    /\ control' = Released
    /\ resuming' = None
    /\ past' = [past EXCEPT !.started = {}, !.rebooted = FALSE, !.replaced = FALSE]
    /\ UNCHANGED <<kept, spec, bad, stray, sem, run, stopping, managers>>

(* A bug: the control is released, the schedules are forgotten.            *)
ResumeEndForgetful == Restore({})

(* The ids read before the await are resumed, in the cron manager that is  *)
(* there by now; those that its scheduler does not have fail one by one.   *)
ResumeEnd == resuming # None /\ Restore(resuming.ids \cap paused)

(* The configuration watcher, which no stop stops, finds that a channel's  *)
(* configuration was edited: replace_channel starts the channel anew.      *)
ReplaceChannel ==
    /\ managers = "running"
    /\ channels' = TRUE
    /\ past' = [past EXCEPT !.replaced = control.active \/ stopping # None]
    /\ UNCHANGED <<schedules, sem, run, control, stopping, resuming, managers>>
-----------------------------------------------------------------------------
(* Restarts.                                                               *)

(* The process ends, with everything it had in memory.                     *)
Crash ==
    /\ managers # "dead"
    /\ managers' = "dead"
    /\ active' = {} /\ paused' = {} /\ stray' = {}
    /\ channels' = FALSE
    /\ stopping' = None /\ resuming' = None
    /\ sem' = [j \in Job |-> None]
    /\ run' = [r \in Run |-> IF run[r] = NoRun THEN NoRun
                             ELSE [NoRun EXCEPT !.stage = "done"]]
    /\ past' = NoPast
    /\ UNCHANGED <<kept, spec, bad, control>>

(* A restart of the managers in the process stops the old ones: their      *)
(* scheduler cancels the runs it started, those started by hand go on, and *)
(* so does a stop or a resume that waits.                                  *)
Reload ==
    /\ managers = "running"
    /\ managers' = "stopped"
    /\ active' = {} /\ paused' = {}
    /\ channels' = FALSE
    /\ run' = [r \in Run |-> IF run[r].timed THEN [NoRun EXCEPT !.stage = "done"]
                             ELSE run[r]]
    /\ UNCHANGED <<kept, spec, bad, stray, sem, control, stopping,
                   resuming, past>>

(* The records are loaded in the order of the repository up to the first   *)
(* whose trigger cannot be built: the old managers stay, stopped, and so   *)
(* does, running, the scheduler that was being loaded.                     *)
RebuildFails ==
    /\ managers = "stopped" /\ bad # {}
    /\ \E loaded \in SUBSET (Stoppable \ bad) :
           /\ stray' = stray \cup loaded
           /\ past' = [past EXCEPT !.renewed = @ \cup loaded]
    /\ UNCHANGED <<kept, spec, bad, active, paused, sem, run, governed,
                   managers>>

(* Managers are new: what waits, waits for those before them, and so does  *)
(* a run that has not begun.                                               *)
Outlived(op) == IF op = None THEN None ELSE [op EXCEPT !.own = FALSE]

Rebuilt ==
    /\ managers # "running" /\ bad = {}
    /\ managers' = "running"
    /\ channels' = TRUE
    /\ sem' = [j \in Job |-> None]
    /\ run' = [r \in Run |-> IF run[r].stage = "starting"
                             THEN [run[r] EXCEPT !.own = Semaphore(r, run[r].job)]
                             ELSE run[r]]
    /\ stopping' = Outlived(stopping) /\ resuming' = Outlived(resuming)
    /\ past' = [past EXCEPT !.renewed = Renewed(Job),
                            !.off = {},
                            !.started = IF stopping # None THEN Stoppable ELSE {},
                            !.left = IF resuming # None THEN Stoppable \ resuming.ids
                                     ELSE {},
                            !.rebooted = control.active \/ stopping # None]
    /\ UNCHANGED <<kept, spec, bad, stray>>

(* A bug: the emergency stop is not applied again after a restart.         *)
StartupUnreconciled ==
    /\ Rebuilt
    /\ active' = Stoppable /\ paused' = kept \ spec
    /\ UNCHANGED control

(* Channels start, the records are loaded, and reconcile_runtime_state     *)
(* applies an emergency stop again that the control has by then, but for   *)
(* the channels, which the control says are shut.                          *)
Startup ==
    /\ Rebuilt
    /\ IF control.active
       THEN /\ active' = {} /\ paused' = kept
            /\ control' = [control EXCEPT !.ids = @ \cup Stoppable]
       ELSE /\ active' = Stoppable /\ paused' = kept \ spec
            /\ UNCHANGED control
-----------------------------------------------------------------------------
Next ==
    \/ \E r \in Run : \/ \E j \in Job : Fire(r, j) \/ FireStray(r, j) \/ RunNow(r, j)
                      \/ Begin(r) \/ Proceed(r) \/ End(r)
    \/ \E j \in Job : \/ \E on \in BOOLEAN : \/ Save(j, on) \/ SaveRejected(j, on)
                                             \/ \E valid \in BOOLEAN :
                                                    SaveUnstarted(j, on, valid)
                      \/ Delete(j) \/ Pause(j) \/ Resume(j)
                      \/ PauseInstance(j) \/ ResumeInstance(j)
    \/ StopBegin \/ StopEnd \/ ResumeBegin \/ ResumeEnd \/ ReplaceChannel
    \/ Crash \/ Reload \/ RebuildFails \/ Startup

Spec == Init /\ [][Next]_vars
-----------------------------------------------------------------------------
(* Properties.                                                             *)

(* The scheduler has, firing or paused, no schedule whose record is gone,  *)
(* whatever runs end after a deletion, and every other one whose trigger   *)
(* can be built: an expression refused after it was stored leaves the      *)
(* record with the timer it had or with none, until it is saved again.     *)
TimersFollowRecords ==
    managers = "running" => Timers \subseteq kept /\ kept \ bad \subseteq Timers

(* With max_concurrency 1 a job has one run executing at a time, as long   *)
(* as its semaphore was not renewed (by saving or deleting the job or      *)
(* rebuilding the managers) while a run of it was in flight, and no        *)
(* scheduler of a failed rebuild fires it too.                             *)
OneRunAtATime ==
    \A j \in Job \ past.renewed : \A v, w \in Stage("executing") \cap InFlight(j) : v = w

(* While the emergency stop is on, through restarts too, no timer of the   *)
(* cron manager fires but those told to run since, those that a restart    *)
(* loaded while the stop was still waiting for the channels, and those     *)
(* running against a stored spec that says disabled, which the stop does   *)
(* not see.  Timers of failed rebuilds are out of its reach altogether.    *)
StopHolds ==
    managers = "running" /\ control.active =>
        active \subseteq past.started \cup (kept \ spec)

(* An emergency stop keeps the channels shut until a restart or an edit of *)
(* a channel's configuration, which start channels again, after which no   *)
(* further stop shuts them; a restart counts from when the stop begins to  *)
(* wait for the channels of the managers it replaces.                      *)
ChannelsShut ==
    managers = "running" /\ control.active =>
        ~channels \/ past.rebooted \/ past.replaced

(* When no emergency stop is on or under way, none of its pauses is left:  *)
(* every schedule whose stored spec says enabled fires, if its trigger can *)
(* be built and it was not told to pause since it was last saved or        *)
(* loaded; but for those that a stop or a restart paused while a resume    *)
(* was under way, whose list of schedules was read before.                 *)
NothingLeftPaused ==
    managers = "running" /\ ~control.active /\ stopping = None =>
        Stoppable \ (bad \cup past.off) \subseteq active \cup past.left
=============================================================================
