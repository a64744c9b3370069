----------------------- MODULE ScheduleControlProofs -----------------------
(***************************************************************************)
(* What ScheduleControl guarantees for any number of schedules and runs.   *)
(***************************************************************************)
EXTENDS ScheduleControl, TLAPS

(* What the emergency stop holds: the ids that the resume under way has    *)
(* read, those of the control while the stop is on, or those of the stop   *)
(* that is under way before that.                                          *)
Held == IF resuming # None THEN resuming.ids
        ELSE IF control.active THEN control.ids
        ELSE IF stopping # None THEN stopping.ids ELSE {}

(* A stop waits for the channels only while the control is off, a resume   *)
(* only while it is on, so that the two never wait together, restarts of   *)
(* the managers or not; and neither outlives the process.                  *)
Turns ==
    /\ control.shut = control.active
    /\ stopping # None => ~control.active
    /\ resuming # None => control.active
    /\ managers = "dead" => stopping = None /\ resuming = None

(* From the moment the schedules are paused, not only once the control     *)
(* says so.                                                                *)
StopTakes ==
    managers = "running" /\ (control.active \/ stopping # None) =>
        active \subseteq past.started \cup (kept \ spec)

(* A stop that waits for channels no longer those of the process has been  *)
(* overtaken by a restart.                                                 *)
Overtaken ==
    managers = "running" /\ stopping # None /\ ~stopping.own => past.rebooted

(* Whatever should fire and does not is known to the stop, or left.        *)
PausesKnown ==
    managers = "running" =>
        Stoppable \ (bad \cup past.off \cup active) \subseteq Held \cup past.left

IInv == TypeOK /\ TimersFollowRecords /\ Turns /\ StopTakes /\ ChannelsShut
        /\ Overtaken /\ PausesKnown
-----------------------------------------------------------------------------
PastType == [renewed : SUBSET Job, off : SUBSET Job, started : SUBSET Job,
             left : SUBSET Job, rebooted : BOOLEAN, replaced : BOOLEAN]

(* An operation that waits is not None.                                    *)
LEMMA WaitingIs ==
    ASSUME NEW ids \in SUBSET Job, NEW own \in BOOLEAN
    PROVE /\ [ids |-> ids, own |-> own] \in Waiting
          /\ [ids |-> ids, own |-> own] # None
BY NoneAssumption DEF Waiting

(* What telling a schedule does to the history.                            *)
LEMMA TellingTyped ==
    ASSUME TypeOK, NEW j \in Job, NEW on \in BOOLEAN
    PROVE /\ Told(j, on) \in PastType
          /\ [Told(j, on) EXCEPT !.renewed = Renewed({j})] \in PastType
          /\ [Told(j, on) EXCEPT !.off = @ \cup ({j} \cap spec)] \in PastType
<1>1. past \in PastType
    BY DEF TypeOK, PastType
<1>2. Told(j, on) \in PastType
    BY <1>1 DEF Told, PastType
<1>3. Renewed({j}) \subseteq Job
    BY <1>1 DEF Renewed, PastType
<1> QED
    BY <1>2, <1>3 DEF PastType, TypeOK

LEMMA TellingTold ==
    ASSUME TypeOK, NEW j \in Job, NEW on \in BOOLEAN
    PROVE /\ Told(j, on).started =
                 IF on /\ (control.active \/ stopping # None)
                 THEN past.started \cup {j} ELSE past.started \ {j}
          /\ Told(j, on).left = past.left \ {j}
          /\ Told(j, on).off = past.off \ {j}
          /\ Told(j, on).renewed = past.renewed
          /\ Told(j, on).rebooted = past.rebooted
          /\ Told(j, on).replaced = past.replaced
BY DEF Told, TypeOK

(* A run that enters a semaphore keeps the types.                          *)
LEMMA EnteringTyped ==
    ASSUME TypeOK, NEW r \in Run, NEW j \in Job, NEW timed \in BOOLEAN,
           EnterSemaphore(r, j, timed),
           UNCHANGED <<schedules, governed, managers, past>>
    PROVE TypeOK'
<1>1. Semaphore(r, j) \in Run
    BY NoneAssumption DEF Semaphore, TypeOK
<1>2. sem' \in [Job -> Run \cup {None}]
    BY <1>1 DEF EnterSemaphore, Made, TypeOK
<1>3. run' \in [Run -> [stage : {"idle", "starting", "waiting", "executing",
                                 "done"},
                        job : Job \cup {None}, timed : BOOLEAN,
                        own : Run \cup {None}]]
    BY <1>1 DEF EnterSemaphore, TypeOK
<1>4. \A v \in Run : run'[v].job = None => run'[v].stage \in {"idle", "done"}
    BY NoneAssumption DEF EnterSemaphore, TypeOK
<1> QED
    BY <1>2, <1>3, <1>4 DEF TypeOK, schedules, governed

RunType == [Run -> [stage : {"idle", "starting", "waiting", "executing", "done"},
                    job : Job \cup {None}, timed : BOOLEAN,
                    own : Run \cup {None}]]

(* Every variable keeps its type.                                          *)
LEMMA TypeStep == TypeOK /\ [Next]_vars => TypeOK'
<1> SUFFICES ASSUME TypeOK, [Next]_vars PROVE TypeOK'
    OBVIOUS
<1>1. ASSUME NEW r \in Run, NEW j \in Job, Fire(r, j) PROVE TypeOK'
    BY <1>1, EnteringTyped DEF Fire
<1>2. ASSUME NEW r \in Run, NEW j \in Job, FireStray(r, j) PROVE TypeOK'
    BY <1>2, NoneAssumption DEF FireStray, schedules, governed, TypeOK
<1>3. ASSUME NEW r \in Run, NEW j \in Job, RunNow(r, j) PROVE TypeOK'
    BY <1>3, NoneAssumption DEF RunNow, NoRun, schedules, governed, TypeOK
<1>4. ASSUME NEW r \in Run, Begin(r) PROVE TypeOK'
  <2>1. run[r].job \in Job
    BY <1>4 DEF Begin, TypeOK
  <2> QED
    BY <1>4, <2>1, EnteringTyped DEF Begin
<1>5. ASSUME NEW r \in Run, Proceed(r) PROVE TypeOK'
    BY <1>5 DEF Proceed, schedules, governed, TypeOK
<1>6. ASSUME NEW r \in Run, End(r) PROVE TypeOK'
    BY <1>6 DEF End, NoRun, schedules, governed, TypeOK
<1>7. ASSUME NEW j \in Job, NEW on \in BOOLEAN,
             \/ Save(j, on) \/ SaveRejected(j, on)
             \/ \E valid \in BOOLEAN : SaveUnstarted(j, on, valid)
      PROVE TypeOK'
  <2>1. past' \in PastType
    BY <1>7, TellingTyped DEF Save, SaveRejected, SaveUnstarted, Renew
  <2>2. sem' \in [Job -> Run \cup {None}]
    BY <1>7 DEF Save, SaveRejected, SaveUnstarted, Renew, TypeOK
  <2>3. kept' \subseteq Job /\ spec' \subseteq Job /\ bad' \subseteq kept'
    BY <1>7 DEF Save, SaveRejected, SaveUnstarted, Store, TypeOK
  <2>4. active' \subseteq Job /\ paused' \subseteq Job \ active'
    BY <1>7 DEF Save, SaveRejected, SaveUnstarted, TypeOK
  <2>5. UNCHANGED <<stray, run, governed, managers>>
    BY <1>7 DEF Save, SaveRejected, SaveUnstarted
  <2> QED
    BY <2>1, <2>2, <2>3, <2>4, <2>5 DEF TypeOK, PastType, governed
<1>8. ASSUME NEW j \in Job, Delete(j) PROVE TypeOK'
  <2>1. past' \in PastType
    BY <1>8, TellingTyped DEF Delete, Renew
  <2> QED
    BY <1>8, <2>1 DEF Delete, Renew, TypeOK, PastType, governed
<1>9. ASSUME NEW j \in Job,
             Pause(j) \/ Resume(j) \/ PauseInstance(j) \/ ResumeInstance(j)
      PROVE TypeOK'
  <2>1. past' \in PastType
    BY <1>9, TellingTyped DEF Pause, Resume, PauseInstance, ResumeInstance
  <2>2. active' \subseteq Job /\ paused' \subseteq Job \ active'
    BY <1>9 DEF Pause, Resume, PauseInstance, ResumeInstance, Timers, TypeOK
  <2>3. /\ spec' \subseteq Job
        /\ UNCHANGED <<kept, bad, stray, sem, run, governed, managers>>
    BY <1>9 DEF Pause, Resume, PauseInstance, ResumeInstance, TypeOK
  <2> QED
    BY <2>1, <2>2, <2>3 DEF TypeOK, PastType, governed
<1>10. CASE StopBegin
  <2> DEFINE hit == Stoppable \cap Timers
             ids == control.ids \cup hit
  <2>1. hit \subseteq Job /\ ids \subseteq Job
    BY DEF Stoppable, TypeOK
  <2>2. active' \subseteq Job /\ paused' \subseteq Job \ active'
    BY <1>10 DEF StopBegin, TypeOK, Stoppable
  <2>3. past' \in PastType
    BY <1>10, <2>1 DEF StopBegin, TypeOK, PastType
  <2>4. control' \in [active : BOOLEAN, ids : SUBSET Job, shut : BOOLEAN]
    BY <1>10, <2>1 DEF StopBegin, TypeOK
  <2>5. stopping' \in Waiting \cup {None}
    <3>1. [ids |-> ids, own |-> TRUE] \in Waiting
      BY <2>1, WaitingIs
    <3>2. stopping' = stopping \/ stopping' = [ids |-> ids, own |-> TRUE]
      BY <1>10 DEF StopBegin
    <3> QED
      BY <3>1, <3>2 DEF TypeOK
  <2>6. UNCHANGED <<kept, spec, bad, stray, sem, run, channels, resuming, managers>>
    BY <1>10 DEF StopBegin
  <2> QED
    BY <2>2, <2>3, <2>4, <2>5, <2>6 DEF TypeOK, PastType
<1>11. CASE StopEnd
  <2>1. stopping.ids \subseteq Job
    BY <1>11 DEF StopEnd, TypeOK, Waiting
  <2> QED
    BY <1>11, <2>1 DEF StopEnd, schedules, TypeOK
<1>12. CASE ResumeBegin
  <2>1. CASE control.active
    <3>1. resuming' \in Waiting
      BY <1>12, <2>1, WaitingIs DEF ResumeBegin, TypeOK
    <3> QED
      BY <1>12, <2>1, <3>1 DEF ResumeBegin, schedules, TypeOK
  <2>2. CASE ~control.active
    <3>1. /\ control' = Released
          /\ UNCHANGED <<schedules, sem, run, channels, stopping, resuming, managers, past>>
      BY <1>12, <2>2 DEF ResumeBegin
    <3> QED
      BY <3>1 DEF Released, schedules, TypeOK
  <2> QED
    BY <2>1, <2>2
<1>13. CASE ResumeEnd
  <2>1. past' \in PastType
    BY <1>13 DEF ResumeEnd, Restore, TypeOK, PastType
  <2>2. active' \subseteq Job /\ paused' \subseteq Job \ active'
    BY <1>13 DEF ResumeEnd, Restore, TypeOK
  <2> QED
    BY <1>13, <2>1, <2>2 DEF ResumeEnd, Restore, Released, TypeOK, PastType
<1>14. CASE Crash
    BY <1>14 DEF Crash, NoRun, NoPast, TypeOK
<1>15. CASE Reload
  <2>1. run' \in RunType
    BY <1>15 DEF Reload, NoRun, TypeOK, RunType
  <2>2. \A r \in Run : run'[r].job = None => run'[r].stage \in {"idle", "done"}
    BY <1>15 DEF Reload, NoRun, TypeOK
  <2> QED
    BY <1>15, <2>1, <2>2 DEF Reload, TypeOK, RunType
<1>16. CASE RebuildFails
  <2>1. past' \in PastType /\ stray' \subseteq Job
    BY <1>16 DEF RebuildFails, Stoppable, TypeOK, PastType
  <2> QED
    BY <1>16, <2>1 DEF RebuildFails, TypeOK, PastType, governed
<1>17. CASE Startup
  <2>1. Rebuilt
    BY <1>17 DEF Startup
  <2>2. \A r \in Run, j \in Job : Semaphore(r, j) \in Run
    BY NoneAssumption DEF Semaphore, TypeOK
  <2>3. run' \in RunType
    <3> SUFFICES ASSUME NEW r \in Run
                 PROVE (IF run[r].stage = "starting"
                        THEN [run[r] EXCEPT !.own = Semaphore(r, run[r].job)]
                        ELSE run[r]) \in [stage : {"idle", "starting", "waiting", "executing", "done"},
                    job : Job \cup {None}, timed : BOOLEAN,
                    own : Run \cup {None}]
      BY <2>1 DEF Rebuilt, RunType
    <3>1. run[r] \in [stage : {"idle", "starting", "waiting", "executing", "done"},
                    job : Job \cup {None}, timed : BOOLEAN,
                    own : Run \cup {None}]
      BY DEF TypeOK
    <3>2. CASE run[r].stage = "starting"
      <4>1. run[r].job \in Job
        BY <3>2 DEF TypeOK
      <4>2. Semaphore(r, run[r].job) \in Run
        BY <2>2, <4>1
      <4> QED
        BY <3>1, <3>2, <4>2
    <3> QED
      BY <3>1, <3>2
  <2>4. \A r \in Run : run'[r].job = None => run'[r].stage \in {"idle", "done"}
    <3> TAKE r \in Run
    <3>1. run'[r].job = run[r].job /\ run'[r].stage = run[r].stage
      BY <2>1 DEF Rebuilt, TypeOK
    <3> QED
      BY <3>1 DEF TypeOK
  <2>5. past' \in PastType
    <3>1. Renewed(Job) \subseteq Job /\ Stoppable \subseteq Job
      BY DEF Renewed, Stoppable, TypeOK
    <3>2. past \in PastType /\ control.active \in BOOLEAN
      BY DEF TypeOK, PastType
    <3> QED
      BY <2>1, <3>1, <3>2 DEF Rebuilt, PastType
  <2>6. stopping' \in Waiting \cup {None} /\ resuming' \in Waiting \cup {None}
    BY <2>1 DEF Rebuilt, Outlived, Waiting, TypeOK
  <2>7. /\ control' \in [active : BOOLEAN, ids : SUBSET Job, shut : BOOLEAN]
        /\ active' \subseteq Job /\ paused' \subseteq Job \ active'
    BY <1>17 DEF Startup, Stoppable, TypeOK
  <2>8. /\ UNCHANGED <<kept, spec, bad, stray>>
        /\ managers' = "running" /\ channels' = TRUE
        /\ sem' = [j \in Job |-> None]
    BY <2>1 DEF Rebuilt
  <2> QED
    BY <2>3, <2>4, <2>5, <2>6, <2>7, <2>8 DEF TypeOK, RunType, PastType
<1>18. CASE ReplaceChannel
    BY <1>18 DEF ReplaceChannel, schedules, TypeOK
<1>19. CASE UNCHANGED vars
    BY <1>19 DEF vars, TypeOK
<1> QED
    BY <1>1, <1>2, <1>3, <1>4, <1>5, <1>6, <1>7, <1>8, <1>9, <1>10, <1>11,
       <1>12, <1>13, <1>14, <1>15, <1>16, <1>17, <1>18, <1>19 DEF Next

LEMMA Initially == Init => IInv
BY DEF Init, IInv, TypeOK, NoRun, NoPast, TimersFollowRecords, Timers, Turns,
       StopTakes, ChannelsShut, Overtaken, PausesKnown, Held, Stoppable

(* The control and the two governance operations take turns.               *)
LEMMA TurnsStep == TypeOK /\ Turns /\ [Next]_vars => Turns'
<1> SUFFICES ASSUME TypeOK, Turns, [Next]_vars PROVE Turns'
    OBVIOUS
<1> USE DEF Turns
<1>1. CASE UNCHANGED <<control, stopping, resuming, managers>>
    BY <1>1
<1>2. CASE StopBegin
    BY <1>2 DEF StopBegin, TypeOK
<1>3. CASE StopEnd
    BY <1>3 DEF StopEnd
<1>4. CASE ResumeBegin
  <2>1. CASE control.active
    BY <1>4, <2>1 DEF ResumeBegin
  <2>2. CASE ~control.active
    <3>1. control' = Released /\ UNCHANGED <<stopping, resuming, managers>>
      BY <1>4, <2>2 DEF ResumeBegin
    <3> QED
      BY <2>2, <3>1 DEF Released
  <2> QED
    BY <2>1, <2>2
<1>5. CASE ResumeEnd
    BY <1>5 DEF ResumeEnd, Restore, Released
<1>6. CASE Crash \/ Reload \/ RebuildFails
    BY <1>6 DEF Crash, Reload, RebuildFails, governed
<1>7. CASE Startup
  <2>1. control'.active = control.active /\ control'.shut = control.shut
    BY <1>7 DEF Startup, TypeOK
  <2>2. /\ managers' = "running"
        /\ stopping' # None => stopping # None
        /\ resuming' # None => resuming # None
    BY <1>7 DEF Startup, Rebuilt, Outlived
  <2> QED
    BY <2>1, <2>2
<1> QED
    BY <1>1, <1>2, <1>3, <1>4, <1>5, <1>6, <1>7
    DEF Next, vars, governed, Fire, FireStray, RunNow, Begin, Proceed, End,
        Save, SaveRejected, SaveUnstarted, Delete, Pause, Resume,
        PauseInstance, ResumeInstance, ReplaceChannel

(* Only operations on schedules, governance and restarts touch what the    *)
(* invariants speak of.                                                    *)
LEMMA RunsApart ==
    ASSUME NEW r \in Run,
           \/ \E j \in Job : Fire(r, j) \/ FireStray(r, j) \/ RunNow(r, j)
           \/ Begin(r) \/ Proceed(r) \/ End(r)
    PROVE UNCHANGED <<schedules, governed, managers, past>>
BY DEF Fire, FireStray, RunNow, Begin, Proceed, End, schedules, governed

LEMMA Inductive == IInv /\ [Next]_vars => IInv'
<1> SUFFICES ASSUME IInv, [Next]_vars PROVE IInv'
    OBVIOUS
<1>t. TypeOK /\ TypeOK' /\ Turns /\ Turns'
    BY TypeStep, TurnsStep DEF IInv
<1> DEFINE Rest == TimersFollowRecords /\ StopTakes /\ ChannelsShut
                   /\ Overtaken /\ PausesKnown
<1>r. Rest
    BY DEF IInv
<1> SUFFICES Rest'
    BY <1>t DEF IInv
<1> USE DEF TimersFollowRecords, StopTakes, ChannelsShut, Overtaken,
            PausesKnown, Held, Stoppable, Timers
<1>1. CASE UNCHANGED <<schedules, governed, managers, past>>
    BY <1>1, <1>r DEF schedules, governed
<1>2. ASSUME NEW j \in Job, NEW on \in BOOLEAN, Save(j, on) PROVE Rest'
  <2>1. /\ past'.started = Told(j, on).started /\ past'.left = past.left \ {j}
        /\ past'.off = past.off \ {j} /\ past'.rebooted = past.rebooted
        /\ past'.replaced = past.replaced
    BY <1>2, <1>t, TellingTyped, TellingTold DEF Save, Renew, PastType
  <2>2. /\ UNCHANGED <<control, channels, stopping, resuming, managers>>
        /\ kept' = kept \cup {j} /\ bad' = bad \ {j}
        /\ active' = IF on THEN active \cup {j} ELSE active \ {j}
        /\ paused' = IF on THEN paused \ {j} ELSE paused \cup {j}
        /\ spec' = IF on THEN spec \cup {j} ELSE spec \ {j}
    BY <1>2 DEF Save, Store, governed
  <2>3. TimersFollowRecords' /\ ChannelsShut' /\ Overtaken'
    BY <2>1, <2>2, <1>r
  <2>4. StopTakes'
    <3>1. past'.started = IF on /\ (control.active \/ stopping # None)
                          THEN past.started \cup {j} ELSE past.started \ {j}
      BY <2>1, <1>t, TellingTold
    <3>2. CASE on
      BY <2>2, <3>1, <3>2, <1>r
    <3>3. CASE ~on
      BY <2>2, <3>1, <3>3, <1>r
    <3> QED
      BY <3>2, <3>3
  <2>5. PausesKnown'
    <3>1. CASE on
      BY <2>1, <2>2, <3>1, <1>r
    <3>2. CASE ~on
      BY <2>1, <2>2, <3>2, <1>r
    <3> QED
      BY <3>1, <3>2
  <2> QED
    BY <2>2, <2>3, <2>4, <2>5
<1>3. ASSUME NEW j \in Job, NEW on \in BOOLEAN, SaveRejected(j, on) PROVE Rest'
  <2>1. /\ past'.started = Told(j, on).started /\ past'.left = past.left \ {j}
        /\ past'.off = past.off \ {j} /\ past'.rebooted = past.rebooted
        /\ past'.replaced = past.replaced
    BY <1>3, <1>t, TellingTyped, TellingTold DEF SaveRejected, Renew, PastType
  <2>2. /\ UNCHANGED <<control, channels, stopping, resuming, managers, active, paused>>
        /\ kept' = kept \cup {j} /\ bad' = bad \cup {j}
        /\ spec' = IF on THEN spec \cup {j} ELSE spec \ {j}
    BY <1>3 DEF SaveRejected, Store, governed
  <2>3. TimersFollowRecords' /\ ChannelsShut' /\ Overtaken'
    BY <2>1, <2>2, <1>r
  <2>4. StopTakes'
    <3>1. past'.started = IF on /\ (control.active \/ stopping # None)
                          THEN past.started \cup {j} ELSE past.started \ {j}
      BY <2>1, <1>t, TellingTold
    <3>2. CASE on
      BY <2>2, <3>1, <3>2, <1>r
    <3>3. CASE ~on
      BY <2>2, <3>1, <3>3, <1>r
    <3> QED
      BY <3>2, <3>3
  <2>5. PausesKnown'
    <3>1. CASE on
      BY <2>1, <2>2, <3>1, <1>r
    <3>2. CASE ~on
      BY <2>1, <2>2, <3>2, <1>r
    <3> QED
      BY <3>1, <3>2
  <2> QED
    BY <2>2, <2>3, <2>4, <2>5
<1>4. ASSUME NEW j \in Job, Delete(j) PROVE Rest'
  <2>1. /\ past'.started = past.started \ {j} /\ past'.left = past.left \ {j}
        /\ past'.off = past.off \ {j} /\ past'.rebooted = past.rebooted
        /\ past'.replaced = past.replaced
    BY <1>4, <1>t, TellingTyped, TellingTold DEF Delete, Renew, PastType
  <2> QED
    BY <1>4, <2>1, <1>t, <1>r DEF Delete, governed
<1>5. ASSUME NEW j \in Job, Pause(j) \/ PauseInstance(j) PROVE Rest'
  <2>1. /\ past'.started = past.started \ {j} /\ past'.left = past.left \ {j}
        /\ past.off \ {j} \subseteq past'.off
        /\ j \in spec' => j \in past'.off
        /\ past'.rebooted = past.rebooted /\ past'.replaced = past.replaced
    <3>1. CASE Pause(j)
      <4>1. /\ past' = [Told(j, FALSE) EXCEPT !.off = @ \cup ({j} \cap spec)]
            /\ spec' = spec
        BY <3>1 DEF Pause
      <4>2. Told(j, FALSE) \in PastType
        BY <1>t, TellingTyped
      <4>3. /\ past'.off = Told(j, FALSE).off \cup ({j} \cap spec)
            /\ past'.started = Told(j, FALSE).started
            /\ past'.left = Told(j, FALSE).left
            /\ past'.rebooted = Told(j, FALSE).rebooted
            /\ past'.replaced = Told(j, FALSE).replaced
        BY <4>1, <4>2 DEF PastType
      <4> QED
        BY <4>1, <4>3, <1>t, TellingTold
    <3>2. CASE PauseInstance(j)
      <4>1. past' = Told(j, FALSE) /\ spec' = spec \ {j}
        BY <3>2 DEF PauseInstance
      <4> QED
        BY <4>1, <1>t, TellingTold
    <3> QED
      BY <1>5, <3>1, <3>2
  <2>2. /\ UNCHANGED <<kept, bad, control, channels, stopping, resuming, managers>>
        /\ active' = active \ {j} /\ Timers' = Timers
        /\ spec' \subseteq spec /\ spec \ {j} \subseteq spec'
    BY <1>5 DEF Pause, PauseInstance, governed
  <2>3. TimersFollowRecords' /\ ChannelsShut' /\ Overtaken'
    BY <2>1, <2>2, <1>r
  <2>4. StopTakes'
    BY <2>1, <2>2, <1>r
  <2>5. PausesKnown'
    BY <2>1, <2>2, <1>r
  <2> QED
    BY <2>3, <2>4, <2>5
<1>6. ASSUME NEW j \in Job, Resume(j) \/ ResumeInstance(j) PROVE Rest'
  <2>1. /\ past'.started = (IF control.active \/ stopping # None
                            THEN past.started \cup {j} ELSE past.started \ {j})
        /\ past'.left = past.left \ {j} /\ past'.off = past.off \ {j}
        /\ past'.rebooted = past.rebooted /\ past'.replaced = past.replaced
    <3>1. past' = Told(j, TRUE)
      BY <1>6 DEF Resume, ResumeInstance
    <3> QED
      BY <3>1, <1>t, TellingTold
  <2>2. /\ UNCHANGED <<kept, bad, control, channels, stopping, resuming, managers>>
        /\ active' = active \cup (Timers \cap {j}) /\ Timers' = Timers
        /\ spec \subseteq spec' /\ spec' \subseteq spec \cup {j}
        /\ managers = "running" /\ j \in kept' \ bad' => j \in active'
    BY <1>6, <1>r DEF Resume, ResumeInstance, governed
  <2>3. TimersFollowRecords' /\ ChannelsShut' /\ Overtaken'
    BY <2>1, <2>2, <1>r
  <2>4. StopTakes'
    BY <2>1, <2>2, <1>r
  <2>5. PausesKnown'
    BY <2>1, <2>2, <1>r
  <2> QED
    BY <2>3, <2>4, <2>5
<1>7. CASE StopBegin
  <2> DEFINE hit == Stoppable \cap Timers
  <2>1. /\ active' = active \ hit /\ paused' = paused \cup hit
        /\ UNCHANGED <<kept, spec, bad, managers, channels, resuming>>
    BY <1>7 DEF StopBegin
  <2>2. /\ past'.started = {} /\ past'.off = past.off
        /\ past'.left = (IF resuming = None THEN {} ELSE hit \ resuming.ids)
        /\ past'.rebooted = (past.rebooted /\ control.shut)
        /\ past'.replaced = (past.replaced /\ control.shut)
    BY <1>7, <1>t DEF StopBegin, TypeOK
  <2>3. stopping = None
    BY <1>7 DEF StopBegin
  <2>4. CASE control.shut
    <3>1. /\ control'.active /\ control'.ids = control.ids \cup hit
          /\ stopping' = stopping
      BY <1>7, <2>4, <1>t DEF StopBegin, TypeOK
    <3> QED
      BY <2>1, <2>2, <2>3, <2>4, <3>1, <1>t, <1>r DEF Turns
  <2>5. CASE ~control.shut
    <3>1. control' = control /\ stopping' = [ids |-> control.ids \cup hit, own |-> TRUE]
      BY <1>7, <2>5 DEF StopBegin
    <3>2. ~control.active /\ resuming = None
      BY <2>5, <1>t DEF Turns
    <3>3. stopping' # None /\ stopping'.ids = control.ids \cup hit /\ stopping'.own
      BY <3>1, <1>t, WaitingIs DEF TypeOK
    <3> QED
      BY <2>1, <2>2, <2>3, <3>1, <3>2, <3>3, <1>r
  <2> QED
    BY <2>4, <2>5
<1>8. CASE StopEnd
  <2>1. /\ stopping # None /\ stopping' = None
        /\ control'.active /\ control'.ids = stopping.ids
        /\ UNCHANGED <<kept, spec, bad, active, paused, managers, resuming, past>>
    BY <1>8 DEF StopEnd, schedules
  <2>2. channels' => ~stopping.own \/ past.replaced
    BY <1>8, <1>t DEF StopEnd, TypeOK
  <2> QED
    BY <2>1, <2>2, <1>t, <1>r DEF Turns
<1>9. CASE ResumeBegin
  <2>1. CASE control.active
    <3>1. /\ resuming' # None /\ resuming'.ids = control.ids /\ resuming = None
          /\ UNCHANGED <<kept, spec, bad, active, paused, managers, control, channels,
                         stopping, past>>
      <4>1. /\ resuming' = [ids |-> control.ids, own |-> TRUE] /\ resuming = None
            /\ UNCHANGED <<schedules, control, channels, stopping, managers, past>>
        BY <1>9, <2>1 DEF ResumeBegin
      <4>2. control.ids \in SUBSET Job
        BY <1>t DEF TypeOK
      <4>3. resuming' # None
        BY <4>1, <4>2, WaitingIs
      <4> QED
        BY <4>1, <4>3 DEF schedules
    <3> QED
      BY <2>1, <3>1, <1>r
  <2>2. CASE ~control.active
    <3>1. /\ ~control'.active
          /\ UNCHANGED <<kept, spec, bad, active, paused, managers, resuming, channels,
                         stopping, past>>
      BY <1>9, <2>2 DEF ResumeBegin, schedules, Released
    <3> QED
      BY <2>2, <3>1, <1>t, <1>r DEF Turns
  <2> QED
    BY <2>1, <2>2
<1>10. CASE ResumeEnd
  <2>1. /\ resuming # None /\ resuming' = None /\ ~control'.active
        /\ active' = active \cup (resuming.ids \cap paused)
        /\ paused' = paused \ (resuming.ids \cap paused)
        /\ UNCHANGED <<kept, spec, bad, managers, stopping>>
    BY <1>10 DEF ResumeEnd, Restore, Released
  <2>2. past'.off = past.off /\ past'.left = past.left
    BY <1>10, <1>t DEF ResumeEnd, Restore, TypeOK
  <2>3. stopping = None
    BY <2>1, <1>t DEF Turns
  <2> QED
    BY <2>1, <2>2, <2>3, <1>r
<1>11. CASE Crash \/ Reload \/ RebuildFails
  <2>1. managers' # "running"
    BY <1>11 DEF Crash, Reload, RebuildFails
  <2> QED
    BY <2>1
<1>12. ASSUME NEW j \in Job, NEW on \in BOOLEAN, NEW valid \in BOOLEAN,
              SaveUnstarted(j, on, valid)
       PROVE Rest'
  <2>1. managers' # "running"
    BY <1>12 DEF SaveUnstarted
  <2> QED
    BY <2>1
<1>13. CASE Startup
  <2>1. /\ managers' = "running" /\ bad = {}
        /\ UNCHANGED <<kept, spec, bad>>
        /\ stopping # None <=> stopping' # None
        /\ resuming # None <=> resuming' # None
        /\ resuming # None => resuming'.ids = resuming.ids
    <3>1. stopping' = Outlived(stopping) /\ resuming' = Outlived(resuming)
      BY <1>13 DEF Startup, Rebuilt
    <3>2. /\ stopping # None => stopping' \in Waiting
          /\ resuming # None => resuming' \in Waiting /\ resuming'.ids = resuming.ids
      BY <3>1, <1>t DEF Outlived, Waiting, TypeOK
    <3>3. None \notin Waiting
      BY NoneAssumption DEF Waiting
    <3> QED
      BY <1>13, <3>1, <3>2, <3>3 DEF Startup, Rebuilt, Outlived
  <2>2. /\ past'.off = {}
        /\ past'.started = (IF stopping # None THEN Stoppable ELSE {})
        /\ past'.left = (IF resuming # None THEN Stoppable \ resuming.ids ELSE {})
        /\ past'.rebooted = (control.active \/ stopping # None)
    BY <1>13, <1>t DEF Startup, Rebuilt, TypeOK
  <2>3. CASE control.active
    <3>1. /\ control'.active /\ control'.ids = control.ids \cup Stoppable
          /\ active' = {} /\ paused' = kept
      BY <1>13, <2>3, <1>t DEF Startup, TypeOK
    <3> QED
      BY <2>1, <2>2, <2>3, <3>1, <1>t DEF Turns
  <2>4. CASE ~control.active
    <3>1. control' = control /\ active' = Stoppable /\ paused' = kept \ spec
      BY <1>13, <2>4 DEF Startup
    <3> QED
      BY <2>1, <2>2, <2>4, <3>1, <1>t DEF Turns
  <2> QED
    BY <2>3, <2>4
<1>14. CASE ReplaceChannel
  <2>1. /\ past'.replaced = (control.active \/ stopping # None)
        /\ past'.off = past.off /\ past'.left = past.left
        /\ past'.started = past.started /\ past'.rebooted = past.rebooted
    BY <1>14, <1>t DEF ReplaceChannel, TypeOK
  <2> QED
    BY <1>14, <2>1, <1>r DEF ReplaceChannel, schedules
<1>15. CASE UNCHANGED vars
    BY <1>15, <1>1 DEF vars, schedules, governed
<1> QED
    BY <1>1, <1>2, <1>3, <1>4, <1>5, <1>6, <1>7, <1>8, <1>9, <1>10, <1>11,
       <1>12, <1>13, <1>14, <1>15, RunsApart DEF Next

LEMMA Invariance == Spec => []IInv
BY Initially, Inductive, PTL DEF Spec
-----------------------------------------------------------------------------
(* Every variable keeps its type.                                          *)
THEOREM TypeCorrect == Spec => []TypeOK
BY Invariance, PTL DEF IInv

(* The scheduler and the records never disagree, but for a refused spec.   *)
THEOREM RecordsFollowed == Spec => []TimersFollowRecords
BY Invariance, PTL DEF IInv

(* The emergency stop holds, through restarts that may overtake it, for    *)
(* every timer it saw.                                                     *)
THEOREM EmergencyStopHolds == Spec => []StopHolds
<1>1. IInv => StopHolds
    BY DEF IInv, StopTakes, StopHolds
<1> QED
    BY <1>1, Invariance, PTL

(* Only a restart or an edited configuration starts channels while the     *)
(* emergency stop is on.                                                   *)
THEOREM ChannelsStayShut == Spec => []ChannelsShut
BY Invariance, PTL DEF IInv

(* The end of an emergency stop leaves no schedule paused by it, but those *)
(* that the resume could not find.                                         *)
THEOREM StopIsUndone == Spec => []NothingLeftPaused
<1>1. IInv => NothingLeftPaused
    BY DEF IInv, PausesKnown, Held, NothingLeftPaused, Turns
<1> QED
    BY <1>1, Invariance, PTL
-----------------------------------------------------------------------------
(* A semaphore lets one run execute, and the runs in flight of a job whose *)
(* semaphore was not renewed over them share its present semaphore.        *)
OneHolder ==
    \A v, w \in Stage("executing") : run[v].own = run[w].own => v = w

CurrentSemaphore ==
    \A r \in Run : run[r].stage \in {"waiting", "executing"} =>
        /\ run[r].own # None
        /\ run[r].job \notin past.renewed => run[r].own = sem[run[r].job]

(* A semaphore is named after a run that has come to it, a run that has    *)
(* not begun is bound to one only by a rebuild, and only failed rebuilds   *)
(* leave strays.                                                           *)
Named ==
    /\ \A v, w \in Run : run[v].own = w => run[w].stage # "idle"
    /\ \A j \in Job, w \in Run : sem[j] = w => run[w].stage # "idle"

Bound ==
    /\ \A r \in Run : run[r].stage = "idle" => run[r].own = None
    /\ \A r \in Run : run[r].stage = "starting" /\ run[r].own # None =>
           run[r].job \in past.renewed
    /\ stray \subseteq past.renewed

Locks == OneHolder /\ CurrentSemaphore /\ Named /\ Bound

SInv == TypeOK /\ Locks

(* Entering keeps them, whoever enters.                                    *)
LEMMA Entering ==
    ASSUME SInv, NEW r \in Run, NEW j \in Job, NEW timed \in BOOLEAN,
           run[r].stage \in {"idle", "starting"},
           run[r].stage = "starting" => run[r].job = j,
           EnterSemaphore(r, j, timed), past' = past, stray' = stray
    PROVE Locks'
<1> DEFINE s == Semaphore(r, j)
<1>1. s \in Run /\ s # None
    BY NoneAssumption DEF SInv, TypeOK, Semaphore
<1>2. /\ \A i \in Job \ {j} : sem'[i] = sem[i]
      /\ j \notin past.renewed => sem'[j] = s
      /\ sem'[j] \in {sem[j], s}
    BY <1>1 DEF EnterSemaphore, Made, SInv, Locks, Bound, TypeOK
<1>3. /\ \A v \in Run \ {r} : run'[v] = run[v]
      /\ run'[r].job = j /\ run'[r].own = s
      /\ run'[r].stage \in {"waiting", "executing"}
      /\ run'[r].stage = "executing" => Queue(s) = {}
    BY DEF EnterSemaphore, SInv, TypeOK
<1>4. OneHolder'
    BY <1>1, <1>3 DEF OneHolder, SInv, Locks, Queue, Stage
<1>5. CurrentSemaphore'
  <2> SUFFICES ASSUME NEW v \in Run, run'[v].stage \in {"waiting", "executing"}
               PROVE /\ run'[v].own # None
                     /\ run'[v].job \notin past.renewed =>
                            run'[v].own = sem'[run'[v].job]
    BY DEF CurrentSemaphore
  <2>1. CASE v = r
    BY <1>1, <1>2, <1>3, <2>1
  <2>2. CASE v # r
    <3>1. /\ run'[v] = run[v] /\ run[v].own # None /\ run[v].job \in Job
          /\ run[v].job \notin past.renewed => run[v].own = sem[run[v].job]
      BY <1>3, <2>2, NoneAssumption DEF SInv, Locks, CurrentSemaphore, TypeOK
    <3>2. ASSUME run[v].job = j, j \notin past.renewed PROVE sem'[j] = sem[j]
      <4>1. sem[j] # None /\ run[r].own = None
        BY <3>1, <3>2 DEF SInv, Locks, Bound
      <4> QED
        BY <4>1 DEF EnterSemaphore, Made, Semaphore, SInv, TypeOK
    <3> QED
      BY <1>2, <3>1, <3>2
  <2> QED
    BY <2>1, <2>2
<1>6. Named'
  <2>1. run[s].stage # "idle" \/ s = r
    BY <1>1 DEF Semaphore, SInv, Locks, Named
  <2>2. \A w \in Run : run[w].stage # "idle" => run'[w].stage # "idle"
    BY <1>3
  <2>3. run'[s].stage # "idle"
    BY <1>1, <1>3, <2>1, <2>2
  <2>4. ASSUME NEW v \in Run, NEW w \in Run, run'[v].own = w
        PROVE run'[w].stage # "idle"
    BY <1>3, <2>2, <2>3, <2>4 DEF SInv, Locks, Named
  <2>5. ASSUME NEW i \in Job, NEW w \in Run, sem'[i] = w
        PROVE run'[w].stage # "idle"
    BY <1>2, <2>2, <2>3, <2>5 DEF SInv, Locks, Named
  <2> QED
    BY <2>4, <2>5 DEF Named
<1>7. Bound'
    BY <1>3 DEF Bound, SInv, Locks
<1> QED
    BY <1>4, <1>5, <1>6, <1>7 DEF Locks

(* A run that ends, by itself or with its scheduler or process.            *)
Done == [NoRun EXCEPT !.stage = "done"]

LEMMA DoneIs == Done.stage = "done" /\ Done.own = None
BY DEF Done, NoRun

LEMMA SemaphoreStep == SInv /\ [Next]_vars => SInv'
<1> SUFFICES ASSUME SInv, [Next]_vars PROVE SInv'
    OBVIOUS
<1>t. TypeOK /\ TypeOK'
    BY TypeStep DEF SInv
<1>l. Locks
    BY DEF SInv
<1> SUFFICES Locks'
    BY <1>t DEF SInv
<1>1. ASSUME NEW r \in Run, NEW j \in Job, Fire(r, j) PROVE Locks'
  <2>1. /\ run[r] = NoRun /\ EnterSemaphore(r, j, TRUE)
        /\ past' = past /\ stray' = stray
    BY <1>1 DEF Fire, schedules
  <2>2. run[r].stage = "idle"
    BY <2>1 DEF NoRun
  <2> QED
    BY <2>1, <2>2, Entering
<1>2. ASSUME NEW r \in Run, Begin(r) PROVE Locks'
  <2>1. run[r].job \in Job
    BY <1>2, <1>t DEF Begin, TypeOK
  <2>2. past' = past /\ stray' = stray
    BY <1>2 DEF Begin, schedules
  <2> QED
    BY <1>2, <2>1, <2>2, Entering DEF Begin
<1>3. ASSUME NEW r \in Run, NEW j \in Job, FireStray(r, j) PROVE Locks'
  <2>1. /\ \A v \in Run \ {r} : run'[v] = run[v]
        /\ run'[r].stage = "executing" /\ run'[r].job = j /\ run'[r].own = r
        /\ run[r].stage = "idle"
        /\ sem' = sem /\ past' = past /\ stray' = stray
    BY <1>3, <1>t DEF FireStray, NoRun, TypeOK, schedules
  <2>2. \A v \in Run : run[v].own # r
    BY <2>1, <1>l DEF Locks, Named
  <2>3. j \in past.renewed
    BY <1>3, <1>l DEF FireStray, Locks, Bound
  <2>4. OneHolder'
    BY <2>1, <2>2, <1>l DEF Locks, OneHolder, Stage
  <2>5. CurrentSemaphore'
    BY <2>1, <2>3, <1>l, NoneAssumption DEF Locks, CurrentSemaphore
  <2>6. Named' /\ Bound'
    BY <2>1, <1>l DEF Locks, Named, Bound
  <2> QED
    BY <2>4, <2>5, <2>6 DEF Locks
<1>4. ASSUME NEW r \in Run, NEW j \in Job, RunNow(r, j) PROVE Locks'
    BY <1>4, <1>l, <1>t DEF RunNow, NoRun, Locks, OneHolder, CurrentSemaphore,
                            Named, Bound, Stage, TypeOK, schedules
<1>5. ASSUME NEW r \in Run, Proceed(r) PROVE Locks'
    BY <1>5, <1>l, <1>t DEF Proceed, Locks, OneHolder, CurrentSemaphore,
                            Named, Bound, Stage, TypeOK, schedules
<1>7. ASSUME NEW r \in Run, End(r) PROVE Locks'
  <2>1. \A v \in Run : run'[v] \in {run[v], Done}
    BY <1>7, <1>t DEF End, Done, TypeOK
  <2>2. /\ sem' = sem /\ past' = past /\ stray' = stray
    BY <1>7 DEF End, schedules
  <2> QED
    BY <1>l, <2>1, <2>2, DoneIs
    DEF Locks, OneHolder, CurrentSemaphore, Named, Bound, Stage
<1>8. CASE Reload
  <2>1. \A r \in Run : run'[r] \in {run[r], Done}
    BY <1>8 DEF Reload, Done
  <2>2. /\ sem' = sem /\ past' = past /\ stray' = stray
    BY <1>8 DEF Reload
  <2> QED
    BY <1>l, <2>1, <2>2, DoneIs
    DEF Locks, OneHolder, CurrentSemaphore, Named, Bound, Stage
<1>9. CASE Crash
  <2>1. /\ \A r \in Run : run'[r] \in {NoRun, Done}
        /\ sem' = [j \in Job |-> None] /\ past'.renewed = {} /\ stray' = {}
    BY <1>9 DEF Crash, Done, NoPast
  <2>2. NoRun.stage = "idle" /\ NoRun.own = None
    BY DEF NoRun
  <2> QED
    BY <2>1, <2>2, DoneIs, NoneAssumption
    DEF Locks, OneHolder, CurrentSemaphore, Named, Bound, Stage
<1>10. ASSUME NEW j \in Job, NEW on \in BOOLEAN, Renew(j, on), run' = run,
              stray' = stray
       PROVE Locks'
  <2>1. sem' = [sem EXCEPT ![j] = None] /\ past'.renewed = Renewed({j})
    BY <1>10, <1>t, TellingTyped DEF Renew, PastType, Told
  <2>2. OneHolder' /\ Named'
    BY <1>10, <2>1, <1>l, <1>t, NoneAssumption DEF Locks, OneHolder, Named, Stage, TypeOK
  <2>3. CurrentSemaphore'
    BY <1>10, <2>1, <1>l, <1>t DEF Renewed, InFlight, Locks, CurrentSemaphore, Stage, TypeOK
  <2>4. Bound'
    BY <1>10, <2>1, <1>l DEF Renewed, Locks, Bound
  <2> QED
    BY <2>2, <2>3, <2>4 DEF Locks
<1>11. ASSUME NEW j \in Job,
              Delete(j) \/ \E on \in BOOLEAN : Save(j, on) \/ SaveRejected(j, on)
       PROVE Locks'
    BY <1>10, <1>11 DEF Delete, Save, SaveRejected
<1>12. CASE run' = run /\ sem' = sem /\ past'.renewed = past.renewed /\ stray' = stray
    BY <1>12, <1>l DEF Locks, OneHolder, CurrentSemaphore, Named, Bound, Stage
<1>13. ASSUME NEW j \in Job,
              \/ Pause(j) \/ Resume(j) \/ PauseInstance(j) \/ ResumeInstance(j)
              \/ \E on, valid \in BOOLEAN : SaveUnstarted(j, on, valid)
       PROVE Locks'
  <2>1. past'.renewed = past.renewed
    <3>1. CASE Pause(j)
      <4>1. /\ past' = [Told(j, FALSE) EXCEPT !.off = @ \cup ({j} \cap spec)]
            /\ Told(j, FALSE) \in PastType
        BY <3>1, <1>t, TellingTyped DEF Pause
      <4>2. past'.renewed = Told(j, FALSE).renewed
        BY <4>1 DEF PastType
      <4> QED
        BY <4>2, <1>t, TellingTold
    <3>2. ASSUME NEW on \in BOOLEAN, past' = Told(j, on)
          PROVE past'.renewed = past.renewed
      BY <3>2, <1>t, TellingTold
    <3> QED
      BY <1>13, <3>1, <3>2 DEF Resume, PauseInstance, ResumeInstance, SaveUnstarted
  <2> QED
    BY <1>12, <1>13, <2>1
    DEF Pause, Resume, PauseInstance, ResumeInstance, SaveUnstarted
<1>14. CASE RebuildFails
  <2>1. PICK loaded \in SUBSET (Stoppable \ bad) :
            /\ stray' = stray \cup loaded
            /\ past' = [past EXCEPT !.renewed = @ \cup loaded]
    BY <1>14 DEF RebuildFails
  <2>2. past'.renewed = past.renewed \cup loaded /\ run' = run /\ sem' = sem
    BY <1>14, <2>1, <1>t DEF RebuildFails, TypeOK
  <2> QED
    BY <2>1, <2>2, <1>l DEF Locks, OneHolder, CurrentSemaphore, Named, Bound, Stage
<1>15. CASE Startup
  <2>1. /\ sem' = [j \in Job |-> None] /\ stray' = stray
        /\ past'.renewed = Renewed(Job)
    BY <1>15, <1>t DEF Startup, Rebuilt, TypeOK
  <2>2. \A r \in Run : run[r].stage # "starting" => run'[r] = run[r]
    BY <1>15 DEF Startup, Rebuilt
  <2>3. \A r \in Run : run[r].stage = "starting" =>
            /\ run'[r].stage = "starting" /\ run'[r].job = run[r].job
            /\ run'[r].own = Semaphore(r, run[r].job)
            /\ run[r].job \in Job
    BY <1>15, <1>t DEF Startup, Rebuilt, TypeOK
  <2>4. \A r \in Run : run'[r].stage = run[r].stage
    BY <2>2, <2>3
  <2>5. OneHolder'
    BY <2>2, <2>4, <1>l DEF Locks, OneHolder, Stage
  <2>6. CurrentSemaphore'
    <3> SUFFICES ASSUME NEW r \in Run, run'[r].stage \in {"waiting", "executing"}
                 PROVE run'[r].own # None /\ run'[r].job \in past'.renewed
      BY DEF CurrentSemaphore
    <3>1. run'[r] = run[r] /\ run[r].own # None /\ run[r].job \in Job
      BY <2>2, <2>4, <1>l, <1>t, NoneAssumption DEF Locks, CurrentSemaphore, TypeOK
    <3> QED
      BY <2>1, <2>4, <3>1 DEF Renewed, InFlight, Stage
  <2>7. Named'
    <3>1. ASSUME NEW v \in Run, NEW w \in Run, run'[v].own = w
          PROVE run[w].stage # "idle"
      <4>1. CASE run[v].stage # "starting"
        BY <2>2, <3>1, <4>1, <1>l DEF Locks, Named
      <4>2. CASE run[v].stage = "starting"
        BY <2>3, <3>1, <4>2, <1>l DEF Semaphore, Locks, Named
      <4> QED
        BY <4>1, <4>2
    <3> QED
      BY <2>1, <2>4, <3>1, NoneAssumption DEF Named
  <2>8. Bound'
    <3>1. \A r \in Run : run[r].stage = "starting" => run[r].job \in Renewed(Job)
      BY <2>3 DEF Renewed, Stage
    <3>2. stray \subseteq Renewed(Job)
      BY <1>l DEF Renewed, Locks, Bound
    <3> QED
      BY <2>1, <2>2, <2>3, <2>4, <3>1, <3>2, <1>l DEF Locks, Bound
  <2> QED
    BY <2>5, <2>6, <2>7, <2>8 DEF Locks
<1>16. CASE \/ StopBegin \/ StopEnd \/ ResumeBegin \/ ResumeEnd
            \/ ReplaceChannel \/ UNCHANGED vars
    BY <1>12, <1>16, <1>t DEF StopBegin, StopEnd, ResumeBegin, ResumeEnd, Restore,
                        ReplaceChannel, schedules, vars, TypeOK
<1> QED
    BY <1>1, <1>2, <1>3, <1>4, <1>5, <1>7, <1>8, <1>9, <1>11, <1>13, <1>14,
       <1>15, <1>16 DEF Next

(* Runs of a job never overlap unless its semaphore was renewed over them, *)
(* or a rebuild failed after it had loaded the job.                        *)
THEOREM RunsExclude == Spec => []OneRunAtATime
<1>1. Init => SInv
    BY Initially, NoneAssumption
    DEF IInv, SInv, Init, NoRun, NoPast, Locks, OneHolder, CurrentSemaphore,
        Named, Bound, Stage
<1>2. SInv => OneRunAtATime
    BY DEF SInv, Locks, OneHolder, CurrentSemaphore, OneRunAtATime, InFlight, Stage
<1> QED
    BY <1>1, <1>2, SemaphoreStep, PTL DEF Spec
=============================================================================
