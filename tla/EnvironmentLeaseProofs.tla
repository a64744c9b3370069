----------------------- MODULE EnvironmentLeaseProofs -----------------------
(***************************************************************************)
(* Proofs about the writer lease, for every set of runs and agents, under  *)
(* every fault.                                                            *)
(***************************************************************************)
EXTENDS EnvironmentLease, TLAPS

(* What the safety properties rest on: the write of the environment mount  *)
(* that is still to come agrees with the session, as the mount does when   *)
(* no such write was cut off; a token is kept only by a lease, of the      *)
(* agent whose run it is and until that run ends; and nothing of a process *)
(* is left while it is down.                                               *)
LeaseInv ==
    /\ TypeOK
    /\ \A m \in sync : Agrees(m)
    /\ sync = {} /\ ~torn => Agrees(mount)
    /\ Free /\ torn => session.status # "leased"
    /\ HandleFollowsLease
    /\ NoLeakedLease
    /\ session.token # None => /\ session.status = "leased"
                               /\ session.owner = Owner[session.token]
                               /\ stage[session.token] \in {"writing", "lost"}
    /\ ~up => handle = {} /\ Writing = {} /\ sync = {}

(* A release, whoever makes it, writes leases.                             *)
LEMMA ReleaseTyped ==
    ASSUME TypeOK, NEW status \in {"released", "expired"}, Release(status)
    PROVE  /\ session' \in [status : Statuses, owner : Agent \cup {None},
                            token : Run \cup {None}, lapsed : BOOLEAN]
           /\ mount' = mount /\ handle' = {} /\ torn' = torn
           /\ sync' \subseteq Mounts
  <1>1. session' \in [status : Statuses, owner : Agent \cup {None},
                      token : Run \cup {None}, lapsed : BOOLEAN]
    BY DEF TypeOK, Release, Statuses
  <1>2. [status |-> status, owner |-> None, token |-> None] \in Mounts
    BY DEF Mounts, Statuses
  <1> QED
    BY <1>1, <1>2 DEF Release

(* Every variable stays in its type.                                       *)
LEMMA TypePreserved == TypeOK /\ [Next]_vars => TypeOK'
  <1> SUFFICES ASSUME TypeOK, [Next]_vars PROVE TypeOK'
    OBVIOUS
  <1> USE RunAssumption, RestoreAssumption
      DEF TypeOK, Statuses, Stages, FaultKinds
  <1>0. \A o \in Agent \cup {None}, t \in Run \cup {None} :
           {[status |-> "leased", owner |-> o, token |-> t]} \subseteq Mounts
    BY DEF Mounts
  <1>1. ASSUME NEW r \in Run, Acquire(r) PROVE TypeOK'
    BY <1>0, <1>1 DEF Acquire, Noting
  <1>2. ASSUME NEW r \in Run, Refuse(r) PROVE TypeOK'
    BY <1>2 DEF Refuse
  <1>3. ASSUME NEW r \in Run, Heartbeat(r) PROVE TypeOK'
    <2>1. handle' \subseteq Run \cup {None} /\ sync' \subseteq Mounts
      BY <1>0, <1>3 DEF Heartbeat
    <2>2. session' \in [status : Statuses, owner : Agent \cup {None},
                        token : Run \cup {None}, lapsed : BOOLEAN]
      BY <1>3 DEF Heartbeat
    <2> QED
      BY <1>3, <2>1, <2>2 DEF Heartbeat
  <1>4. ASSUME NEW r \in Run, Finish(r) PROVE TypeOK'
    BY <1>4, ReleaseTyped DEF Finish
  <1>5. ASSUME NEW r \in Run, FinishRaises(r) PROVE TypeOK'
    BY <1>5 DEF FinishRaises
  <1>6. CASE Lapse
    BY <1>6 DEF Lapse, Noting
  <1>7. CASE ForceRelease
    BY <1>7, ReleaseTyped DEF ForceRelease, Noting
  <1>8. CASE Reap
    BY <1>8, ReleaseTyped DEF Reap
  <1>9. CASE Crash
    BY <1>9 DEF Crash
  <1>10. CASE Startup
    <2>1. CASE Release("expired")
      BY <1>10, <2>1, ReleaseTyped DEF Startup
    <2>2. CASE handle' = {session.token} /\ UNCHANGED session
               /\ sync' = {[status |-> "leased", owner |-> session.owner,
                            token |-> session.token]}
               /\ UNCHANGED <<mount, torn>>
      BY <1>0, <1>10, <2>2 DEF Startup
    <2>3. CASE UNCHANGED <<session, mount, handle, sync, torn>>
      BY <1>10, <2>3 DEF Startup
    <2> QED
      BY <1>10, <2>1, <2>2, <2>3 DEF Startup, RecoverOrphan
  <1>11. CASE Sync
    BY <1>11 DEF Sync
  <1>12. CASE UNCHANGED vars
    BY <1>12 DEF vars
  <1> QED
    BY <1>1, <1>2, <1>3, <1>4, <1>5, <1>6, <1>7, <1>8, <1>9, <1>10, <1>11,
       <1>12 DEF Next

(* A release, whoever makes it, ends the lease of the session and is about *)
(* to write an environment mount that agrees.                              *)
LEMMA ReleaseFrees ==
    ASSUME TypeOK, NEW status \in {"released", "expired"}, Release(status)
    PROVE  /\ HandleFollowsLease' /\ NoLeakedLease'
           /\ sync' # {} /\ (\A m \in sync' : Agrees(m)')
           /\ session'.token = None /\ session'.status = status /\ handle' = {}
  BY DEF TypeOK, Release, Agrees, HandleFollowsLease, NoLeakedLease

(* Every step keeps the two records, the live handle and the runs in step. *)
LEMMA LeaseInvPreserved == LeaseInv /\ [Next]_vars => LeaseInv'
  <1> SUFFICES ASSUME LeaseInv, [Next]_vars PROVE LeaseInv'
    OBVIOUS
  <1> DEFINE Kept == /\ \A m \in sync' : Agrees(m)'
                     /\ sync' = {} /\ ~torn' => Agrees(mount)'
                     /\ up' /\ sync' = {} /\ torn' => session'.status # "leased"
                     /\ HandleFollowsLease' /\ NoLeakedLease'
                     /\ session'.token # None =>
                           /\ session'.status = "leased"
                           /\ session'.owner = Owner[session'.token]
                           /\ stage'[session'.token] \in {"writing", "lost"}
                     /\ ~up' => handle' = {} /\ Writing' = {} /\ sync' = {}
  <1>0. TypeOK /\ TypeOK'
    BY TypePreserved DEF LeaseInv
  <1> SUFFICES Kept
    BY <1>0 DEF LeaseInv, Free
  <1> USE <1>0, RunAssumption, RestoreAssumption DEF TypeOK
  <1>1. ASSUME NEW r \in Run, Acquire(r) PROVE Kept
    BY <1>1 DEF Acquire, Agrees, HandleFollowsLease,
                NoLeakedLease, Latest, Free, Writing
  <1>2. ASSUME NEW r \in Run, Refuse(r) PROVE Kept
    BY <1>2 DEF Refuse, LeaseInv, Agrees, HandleFollowsLease,
                NoLeakedLease, Latest, Free, Writing
  <1>3. ASSUME NEW r \in Run, Heartbeat(r) PROVE Kept
    BY <1>3 DEF Heartbeat, Accepted, LeaseInv, Agrees, HandleFollowsLease,
                NoLeakedLease, Latest, Free, Writing
  <1>4. ASSUME NEW r \in Run, Finish(r) PROVE Kept
    BY <1>4, ReleaseFrees DEF Finish, Free
  <1>5. ASSUME NEW r \in Run, FinishRaises(r) PROVE Kept
    BY <1>5 DEF FinishRaises, Accepted, LeaseInv, Agrees, Latest, Free,
                HandleFollowsLease, NoLeakedLease, Writing
  <1>6. CASE Lapse
    BY <1>6 DEF Lapse, LeaseInv, Agrees, HandleFollowsLease,
                NoLeakedLease, Latest, Free, Writing
  <1>7. CASE ForceRelease
    BY <1>7, ReleaseFrees DEF ForceRelease, Free
  <1>8. CASE Reap
    BY <1>8, ReleaseFrees DEF Reap, Free
  <1>9. CASE Crash
    <2>1. /\ ~up' /\ sync' = {} /\ handle' = {} /\ Writing' = {}
          /\ session' = session /\ mount' = mount
      BY <1>9 DEF Crash, Writing
    <2>2. ~torn' => Agrees(mount)
      BY <1>9 DEF Crash, LeaseInv
    <2>3. session.token # None => stage'[session.token] \in {"writing", "lost"}
      BY <1>9 DEF Crash, LeaseInv
    <2> QED
      BY <2>1, <2>2, <2>3
      DEF LeaseInv, Agrees, HandleFollowsLease, NoLeakedLease
  <1>10. CASE Startup
    <2>1. up' /\ Writing' = {} /\ handle = {} /\ sync = {} /\ stage' = stage
      BY <1>10 DEF Startup, LeaseInv, Writing
    <2>2. CASE Release("expired")
      BY <2>1, <2>2, ReleaseFrees
    <2>3. CASE /\ session.status = "leased" /\ Restorable
               /\ handle' = {session.token} /\ UNCHANGED session
               /\ sync' = {[status |-> "leased", owner |-> session.owner,
                            token |-> session.token]}
               /\ UNCHANGED <<mount, torn>>
      <3>1. session.token # None => stage[session.token] = "lost"
        BY <1>10 DEF Startup, LeaseInv, Writing
      <3> QED
        BY <2>1, <2>3, <3>1
        DEF LeaseInv, Agrees, HandleFollowsLease, NoLeakedLease, Latest, Free
    <2>4. CASE /\ session.status = "leased" => ~session.lapsed /\ ~Orphaned
               /\ UNCHANGED <<session, mount, handle, sync, torn>>
      <3>1. session.status # "leased"
        BY <2>1, <2>4 DEF Orphaned
      <3> QED
        BY <2>1, <2>4, <3>1 DEF LeaseInv, Agrees, HandleFollowsLease,
                                NoLeakedLease, Latest, Free
    <2> QED
      BY <1>10, <2>2, <2>3, <2>4 DEF Startup, RecoverOrphan
  <1>11. CASE Sync
    BY <1>11 DEF Sync, LeaseInv, Agrees, HandleFollowsLease, NoLeakedLease,
                 Latest, Free, Writing
  <1>12. CASE UNCHANGED vars
    BY <1>12 DEF vars, LeaseInv, Agrees, HandleFollowsLease, NoLeakedLease,
                 Latest, Free, Writing
  <1> QED
    BY <1>1, <1>2, <1>3, <1>4, <1>5, <1>6, <1>7, <1>8, <1>9, <1>10, <1>11,
       <1>12 DEF Next

LEMMA LeaseInvHolds == Spec => []LeaseInv
  <1>1. Init => LeaseInv
    <2>1. Init => TypeOK
      <3>1. [status |-> "absent", owner |-> None, token |-> None] \in Mounts
        BY DEF Mounts, Statuses
      <3>2. Init => session \in [status : Statuses, owner : Agent \cup {None},
                                 token : Run \cup {None}, lapsed : BOOLEAN]
        BY DEF Init, Statuses
      <3>3. Init => stage \in [Run -> Stages]
        BY DEF Init, Stages
      <3> QED
        BY <3>1, <3>2, <3>3 DEF Init, TypeOK
    <2> QED
      BY <2>1 DEF Init, LeaseInv, Agrees, HandleFollowsLease, NoLeakedLease,
                  Latest, Free, Writing
  <1> QED
    BY <1>1, LeaseInvPreserved, PTL DEF Spec

(* Every variable of the lease keeps its type.                             *)
THEOREM TypeCorrect == Spec => []TypeOK
  <1>1. LeaseInv => TypeOK
    BY DEF LeaseInv
  <1> QED
    BY <1>1, LeaseInvHolds, PTL

(* The mounts of the session and of its environment tell the same story of *)
(* the lease between operations, through heartbeats that come late,        *)
(* takeovers and crashes between the two writes; a mount left behind by a  *)
(* release that was cut off never belongs to a session that is leased.     *)
THEOREM MountsAgree == Spec => []Mirrored
  <1>1. LeaseInv => Mirrored
    BY DEF LeaseInv, Mirrored, Free
  <1> QED
    BY <1>1, LeaseInvHolds, PTL

(* The live handle in memory is there exactly while the scope is leased.   *)
THEOREM HandlesFollow == Spec => []HandleFollowsLease
  <1>1. LeaseInv => HandleFollowsLease
    BY DEF LeaseInv
  <1> QED
    BY <1>1, LeaseInvHolds, PTL

(* A lease that is held belongs to a run that is still writing, or is one  *)
(* a restorer keeps for a run that a crash ended.                          *)
THEOREM LeasesHeld == Spec => []NoLeakedLease
  <1>1. LeaseInv => NoLeakedLease
    BY DEF LeaseInv
  <1> QED
    BY <1>1, LeaseInvHolds, PTL
-----------------------------------------------------------------------------
(* A step that takes the lease from the run that holds it is one of the    *)
(* three that may.                                                         *)
Fenced ==
    \A r \in Run :
        Keeps(r) /\ stage'[r] = "writing" =>
           \/ Keeps(r)'
           \/ session.lapsed
           \/ ForceRelease
           \/ \E w \in Run : /\ stage[w] = "idle" /\ stage'[w] = "writing"
                             /\ Owner[w] = Owner[r]

LEMMA FencedStep == LeaseInv /\ [Next]_vars => Fenced
  <1> SUFFICES ASSUME LeaseInv, [Next]_vars, NEW r \in Run,
                      Keeps(r), stage'[r] = "writing",
                      ~session.lapsed, ~ForceRelease
               PROVE  \/ Keeps(r)'
                      \/ \E w \in Run : /\ stage[w] = "idle"
                                        /\ stage'[w] = "writing"
                                        /\ Owner[w] = Owner[r]
    BY DEF Fenced
  <1>0. /\ TypeOK /\ up /\ session.token = r /\ session.owner = Owner[r]
        /\ session.status = "leased" /\ stage[r] = "writing"
    BY RunAssumption DEF LeaseInv, Keeps, Writing
  <1> USE <1>0, RunAssumption DEF TypeOK, Keeps
  <1>1. ASSUME NEW w \in Run, Acquire(w)
        PROVE  stage[w] = "idle" /\ stage'[w] = "writing" /\ Owner[w] = Owner[r]
    BY <1>1 DEF Acquire, Conflict
  <1>2. ASSUME NEW w \in Run, Refuse(w) PROVE Keeps(r)'
    BY <1>2 DEF Refuse
  <1>3. ASSUME NEW w \in Run, Heartbeat(w) PROVE Keeps(r)'
    BY <1>3 DEF Heartbeat
  <1>4. ASSUME NEW w \in Run, Finish(w) PROVE FALSE
    <2>1. w = r
      BY <1>4 DEF Finish, Accepted
    <2> QED
      BY <1>4, <2>1 DEF Finish
  <1>5. ASSUME NEW w \in Run, FinishRaises(w) PROVE Keeps(r)'
    BY <1>5 DEF FinishRaises
  <1>6. CASE Lapse
    BY <1>6 DEF Lapse
  <1>7. CASE Reap
    BY <1>7 DEF Reap
  <1>8. CASE Crash
    BY <1>8 DEF Crash
  <1>9. CASE Startup
    BY <1>9 DEF Startup
  <1>10. CASE Sync
    BY <1>10 DEF Sync
  <1>11. CASE UNCHANGED vars
    BY <1>11 DEF vars
  <1> QED
    BY <1>1, <1>2, <1>3, <1>4, <1>5, <1>6, <1>7, <1>8, <1>9, <1>10, <1>11
    DEF Next

(* The run whose token the lease holds keeps it until it ends, its time    *)
(* runs out, an operator takes it or its own agent takes it over: the      *)
(* fencing of heartbeat_session_lease and release_session_lease.           *)
THEOREM HoldersFenced == Spec => FencedHolder
  <1>1. LeaseInv /\ [Next]_vars => [Fenced]_vars
    BY FencedStep
  <1> QED
    BY <1>1, LeaseInvHolds, PTL DEF Spec, FencedHolder, Fenced
-----------------------------------------------------------------------------
(* While nothing has gone wrong, a run that writes holds the lease.        *)
HolderWrites ==
    faults = {} =>
        \A r \in Writing : /\ session.status = "leased" /\ ~session.lapsed
                           /\ session.token = r /\ session.owner = Owner[r]

LEMMA HolderPreserved ==
    LeaseInv /\ HolderWrites /\ [Next]_vars => HolderWrites'
  <1> SUFFICES ASSUME LeaseInv, HolderWrites, [Next]_vars, faults' = {}
               PROVE  HolderWrites'
    BY DEF HolderWrites
  <1>0. TypeOK
    BY DEF LeaseInv
  <1> USE <1>0, RunAssumption DEF TypeOK, Writing
  <1>1. ASSUME NEW w \in Run, Acquire(w) PROVE HolderWrites'
    <2>1. faults = {} /\ \A v \in Writing : Owner[v] # Owner[w]
      BY <1>1 DEF Acquire, Noting
    <2>2. Writing = {}
      BY <1>1, <2>1 DEF Acquire, Conflict, HolderWrites
    <2> QED
      BY <1>1, <2>2 DEF Acquire, HolderWrites
  <1>2. ASSUME NEW w \in Run, Refuse(w) PROVE HolderWrites'
    BY <1>2 DEF Refuse, HolderWrites
  <1>3. ASSUME NEW w \in Run, Heartbeat(w) PROVE HolderWrites'
    BY <1>3 DEF Heartbeat, HolderWrites
  <1>4. ASSUME NEW w \in Run, Finish(w) PROVE HolderWrites'
    <2>1. \A r \in Writing : r = w
      BY <1>4 DEF Finish, Accepted, HolderWrites
    <2> QED
      BY <1>4, <2>1 DEF Finish, HolderWrites
  <1>5. ASSUME NEW w \in Run, FinishRaises(w) PROVE HolderWrites'
    BY <1>5 DEF FinishRaises, HolderWrites
  <1>6. CASE Lapse
    <2>1. faults = {} /\ \A r \in Writing : ~Accepted(r)
      BY <1>6 DEF Lapse, Noting
    <2>2. Writing = {}
      BY <2>1 DEF HolderWrites, Accepted
    <2> QED
      BY <1>6, <2>2 DEF Lapse, HolderWrites
  <1>7. CASE ForceRelease
    BY <1>7 DEF ForceRelease, Noting
  <1>8. CASE Reap
    BY <1>8 DEF Reap, HolderWrites
  <1>9. CASE Crash
    BY <1>9 DEF Crash, HolderWrites
  <1>10. CASE Startup
    BY <1>10 DEF Startup, LeaseInv, HolderWrites
  <1>11. CASE Sync
    BY <1>11 DEF Sync, HolderWrites
  <1>12. CASE UNCHANGED vars
    BY <1>12 DEF vars, HolderWrites
  <1> QED
    BY <1>1, <1>2, <1>3, <1>4, <1>5, <1>6, <1>7, <1>8, <1>9, <1>10, <1>11,
       <1>12 DEF Next

(* Two agents never write in one scope at once, through restarts too, as   *)
(* long as agents have one writer at a time, heartbeats are on time and no *)
(* operator interferes: what child_run_shell takes the lease for.  (With   *)
(* nested writers it fails: the inner run releases the outer one's lease.) *)
THEOREM AgentsExclude == Spec => []AgentsExcluded
  <1>1. Init => HolderWrites
    BY DEF Init, HolderWrites, Writing
  <1>2. HolderWrites => AgentsExcluded
    BY DEF HolderWrites, AgentsExcluded, OneAgentWrites
  <1> QED
    BY <1>1, <1>2, HolderPreserved, LeaseInvHolds, PTL DEF Spec
=============================================================================
