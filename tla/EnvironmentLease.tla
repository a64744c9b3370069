-------------------------- MODULE EnvironmentLease --------------------------
(***************************************************************************)
(* The exclusive writer lease of one writer scope: the persisted session   *)
(* mount and environment mount that carry the lease                        *)
(* (environments/lease_service.py), the live handle that exists only in    *)
(* the memory of the process (environments/registry.py), and the child     *)
(* runs that acquire, heartbeat and release it around their work           *)
(* (kernel/child_run_shell.py, kernel/lease_heartbeat.py).                 *)
(*                                                                         *)
(* Scopes share no state, so one is modelled.  A run asks once, and every  *)
(* acquisition mints a fresh token, so a run stands for its token.  The    *)
(* clock is abstracted to whether expires_at has passed.                   *)
(*                                                                         *)
(* Every operation of the lease writes two rows that SQLite commits        *)
(* separately: the session mount first, then the environment mount         *)
(* (_sync_environment_lease).  Nothing else of the process runs between    *)
(* them, but a crash may fall there and cut the second one off.            *)
(***************************************************************************)
CONSTANTS
    Run,         \* child runs that write in the scope
    Agent,       \* the agents that own them
    None,        \* no token, no owner
    Owner,       \* owner_agent_id of each run
    Restorable   \* a handle restorer is registered for the channel

FaultKinds == { "reentry",    \* an agent had two runs in the scope at once
                "stall",      \* heartbeats missed the time to live
                "operator" }  \* an operator force-released the lease

ASSUME RunAssumption == /\ Owner \in [Run -> Agent]
                        /\ None \notin Run /\ None \notin Agent
ASSUME RestoreAssumption == Restorable \in BOOLEAN

Statuses == {"absent", "leased", "released", "expired"}
Stages == {"idle", "refused", "writing", "done", "raised", "lost"}

VARIABLES
    stage,     \* where each run stands
    session,   \* lease columns of the session mount
    mount,     \* lease columns of the environment mount
    handle,    \* tokens of the live handle: {} when there is none
    sync,      \* the write of the environment mount still to come, if any
    up,        \* the process runs
    torn,      \* history: a crash cut such a write off, none came since
    faults     \* history: what has gone wrong so far

vars == <<stage, session, mount, handle, sync, up, torn, faults>>

Mounts == [status : Statuses, owner : Agent \cup {None},
           token : Run \cup {None}]

Writing == {r \in Run : stage[r] = "writing"}

(* The lease columns hold a lease status, an owner and a token of a run;   *)
(* the live handle has at most the tokens of runs.                         *)
TypeOK ==
    /\ stage \in [Run -> Stages]
    /\ session \in [status : Statuses, owner : Agent \cup {None},
                    token : Run \cup {None}, lapsed : BOOLEAN]
    /\ mount \in Mounts
    /\ handle \subseteq Run \cup {None}
    /\ sync \subseteq Mounts
    /\ up \in BOOLEAN
    /\ torn \in BOOLEAN
    /\ faults \subseteq FaultKinds

Init ==
    /\ stage = [r \in Run |-> "idle"]
    /\ session = [status |-> "absent", owner |-> None, token |-> None,
                  lapsed |-> FALSE]
    /\ mount = [status |-> "absent", owner |-> None, token |-> None]
    /\ handle = {}
    /\ sync = {}
    /\ up = TRUE
    /\ torn = FALSE
    /\ faults = {}
-----------------------------------------------------------------------------
(* The second write of an operation.  Until it is done nothing else of the *)
(* process takes a step: the operations are synchronous.                   *)
Free == up /\ sync = {}

Sync ==
    /\ up
    /\ mount' \in sync
    /\ sync' = {}
    /\ torn' = FALSE
    /\ UNCHANGED <<stage, session, handle, up, faults>>
-----------------------------------------------------------------------------
(* Acquisition.  The lease of another agent blocks only while it is        *)
(* leased and unexpired; the agent's own lease is taken over with a new    *)
(* token.                                                                  *)

(* A bug: the comparison of owners is swapped.                             *)
ConflictWithSelf(r) ==
    /\ session.status = "leased"
    /\ ~session.lapsed
    /\ session.owner = Owner[r]

Conflict(r) ==
    /\ session.status = "leased"
    /\ ~session.lapsed
    /\ session.owner # None
    /\ session.owner # Owner[r]

Noting(fault, when) == faults' = IF when THEN faults \cup {fault} ELSE faults

(* Nothing keeps an agent from having several runs in the scope: those     *)
(* delegated to it and its own direct capability writes.                   *)
Acquire(r) ==
    /\ Free
    /\ stage[r] = "idle"
    /\ ~Conflict(r)
    /\ stage' = [stage EXCEPT ![r] = "writing"]
    /\ handle' = {r}
    /\ session' = [status |-> "leased", owner |-> Owner[r], token |-> r,
                   lapsed |-> FALSE]
    /\ sync' = {[status |-> "leased", owner |-> Owner[r], token |-> r]}
    /\ Noting("reentry", \E w \in Writing : Owner[w] = Owner[r])
    /\ UNCHANGED <<mount, up, torn>>

Refuse(r) ==
    /\ Free
    /\ stage[r] = "idle"
    /\ Conflict(r)
    /\ stage' = [stage EXCEPT ![r] = "refused"]
    /\ UNCHANGED <<session, mount, handle, sync, up, torn, faults>>
-----------------------------------------------------------------------------
(* Heartbeat.  The token is compared only when the session still has one:  *)
(* on a released or expired lease any run's heartbeat leases it again, for *)
(* the owner the session last had and without a session token.             *)

(* A bug: the token is not compared.                                       *)
AnyToken(r) == stage[r] = "writing"

Accepted(r) == session.token # None => session.token = r

Heartbeat(r) ==
    /\ Free
    /\ stage[r] = "writing"
    /\ Accepted(r)
    /\ handle' = IF handle = {} THEN {r} ELSE handle
    /\ session' = [session EXCEPT !.status = "leased", !.lapsed = FALSE]
    /\ sync' = {[status |-> "leased", owner |-> session.owner, token |-> r]}
    /\ UNCHANGED <<stage, mount, up, torn, faults>>

(* The time to live passes without a renewal.  Heartbeats come three or    *)
(* more times per time to live, so while a run can renew it this needs a   *)
(* stalled event loop.                                                     *)
Lapse ==
    /\ session.status = "leased"
    /\ ~session.lapsed
    /\ Noting("stall", \E r \in Writing : Accepted(r))
    /\ session' = [session EXCEPT !.lapsed = TRUE]
    /\ UNCHANGED <<stage, mount, handle, sync, up, torn>>
-----------------------------------------------------------------------------
(* Release.  The session keeps its last owner, the environment mount does  *)
(* not; the live handle is detached.                                       *)

(* A bug: a release that forgets the environment mount.                    *)
ReleaseSessionOnly(status) ==
    /\ handle' = {}
    /\ session' = [session EXCEPT !.status = status, !.token = None,
                                  !.lapsed = TRUE]
    /\ UNCHANGED <<mount, sync, torn>>

Release(status) ==
    /\ handle' = {}
    /\ session' = [session EXCEPT !.status = status, !.token = None,
                                  !.lapsed = TRUE]
    /\ sync' = {[status |-> status, owner |-> None, token |-> None]}
    /\ UNCHANGED <<mount, torn>>

(* A bug: the release is not in a finally, and the body raised.            *)
FinishUnreleased(r) ==
    /\ Free
    /\ stage[r] = "writing"
    /\ stage' = [stage EXCEPT ![r] = "raised"]
    /\ UNCHANGED <<session, mount, handle, sync, up, torn, faults>>

(* The body of the run ends, whichever way.  The release validates the     *)
(* token as the heartbeat does; on a mismatch its ValueError replaces the  *)
(* outcome of the run.                                                     *)
Finish(r) ==
    /\ Free
    /\ stage[r] = "writing"
    /\ Accepted(r)
    /\ stage' = [stage EXCEPT ![r] = "done"]
    /\ Release("released")
    /\ UNCHANGED <<up, faults>>

FinishRaises(r) ==
    /\ Free
    /\ stage[r] = "writing"
    /\ ~Accepted(r)
    /\ stage' = [stage EXCEPT ![r] = "raised"]
    /\ UNCHANGED <<session, mount, handle, sync, up, torn, faults>>

(* An operator's force-release carries no token and is not validated.      *)
ForceRelease ==
    /\ Free
    /\ session.status # "absent"
    /\ Release("released")
    /\ Noting("operator", TRUE)
    /\ UNCHANGED <<stage, up>>
-----------------------------------------------------------------------------
(* Upkeep: leases whose time has passed are released as expired, leased    *)
(* sessions whose live handle is gone are restored or released.            *)

(* A bug: only the persisted handle reference is looked at.                *)
Unreferenced == session.status # "leased"

Orphaned == handle = {} \/ (session.token # None
                            /\ handle \cap {None, session.token} = {})

(* Reading sessions recovers and then reaps; within one process every      *)
(* leased session has its handle, so only the reaping does anything.       *)
Reap ==
    /\ Free
    /\ session.status = "leased"
    /\ session.lapsed
    /\ Release("expired")
    /\ UNCHANGED <<stage, up, faults>>

Crash ==
    /\ up
    /\ up' = FALSE
    /\ stage' = [r \in Run |-> IF stage[r] = "writing" THEN "lost"
                                                     ELSE stage[r]]
    /\ handle' = {}
    /\ sync' = {}
    /\ torn' = (torn \/ sync \ {mount} # {})
    /\ UNCHANGED <<session, mount, faults>>

RecoverOrphan ==
    \/ /\ Restorable
       /\ handle' = {session.token}
       /\ sync' = {[status |-> "leased", owner |-> session.owner,
                    token |-> session.token]}
       /\ UNCHANGED <<session, mount, torn>>
    \/ Release("expired")

(* Startup reaps, then recovers across processes.                          *)
Startup ==
    /\ ~up
    /\ up' = TRUE
    /\ UNCHANGED <<stage, faults>>
    /\ \/ /\ session.status = "leased" /\ session.lapsed
          /\ Release("expired")
       \/ /\ session.status = "leased" /\ ~session.lapsed /\ Orphaned
          /\ RecoverOrphan
       \/ /\ session.status = "leased" => ~session.lapsed /\ ~Orphaned
          /\ UNCHANGED <<session, mount, handle, sync, torn>>
-----------------------------------------------------------------------------
Next ==
    \/ \E r \in Run : \/ Acquire(r) \/ Refuse(r) \/ Heartbeat(r)
                      \/ Finish(r) \/ FinishRaises(r)
    \/ Sync \/ Lapse \/ ForceRelease \/ Reap \/ Crash \/ Startup

Spec == Init /\ [][Next]_vars
-----------------------------------------------------------------------------
(* The two persisted records tell the same story of a lease.  (They may    *)
(* differ the other way: after a heartbeat renewed a released lease only   *)
(* the mount has a token.)                                                 *)
Agrees(m) ==
    /\ m.status = session.status
    /\ session.status = "leased" => m.owner = session.owner
    /\ session.token # None => m.token = session.token

(* The two records tell the same story whenever no operation is between    *)
(* its two writes: both are leased or neither, a lease has the same owner  *)
(* in both, and a token the session still holds is the one the environment *)
(* mount shows.  Only a release that a crash cut off may leave the         *)
(* environment mount behind, until the next lease operation of the scope:  *)
(* startup looks at the sessions that are leased, and puts those right.    *)
Mirrored ==
    Free => Agrees(mount) \/ (torn /\ session.status # "leased")

(* The in-memory handle is there exactly while the lease is held, under    *)
(* the token the session holds: a release always detaches it, and whatever *)
(* the process lost in a crash startup puts right.                         *)
HandleFollowsLease ==
    up => /\ handle # {} <=> session.status = "leased"
          /\ session.token # None => handle = {session.token}

(* What the environment mount shows once the operation under way is done.  *)
Latest == IF sync = {} THEN {mount} ELSE sync

(* No lease outlives its run: a lease that is held was last renewed by a   *)
(* run that is still writing, whatever takeovers, late heartbeats, forced  *)
(* releases and restarts came before; only a restorer keeps the lease of a *)
(* run that was lost in a crash (one renewed without a token then has none *)
(* at all).                                                                *)
NoLeakedLease ==
    up /\ session.status = "leased" =>
        \A m \in Latest :
            \/ m.token \in Writing
            \/ Restorable /\ (m.token = None \/ stage[m.token] = "lost")

(* Two agents never write in one scope at the same time, through restarts  *)
(* too, as long as no agent had two writers at once, no heartbeat missed   *)
(* the time to live and no operator took the lease.                        *)
OneAgentWrites == \A r, w \in Writing : Owner[r] = Owner[w]

AgentsExcluded == faults = {} => OneAgentWrites

(* The same where agents may have two writers at once, nested or beside    *)
(* each other, as the lease lets them.                                     *)
NestedAgentsExcluded == faults \subseteq {"reentry"} => OneAgentWrites

(* Fencing: the run whose token the lease holds keeps it until it ends,    *)
(* unless its time ran out, an operator took it away, or another run of    *)
(* its own agent took it over; a run that lost the lease can renew or      *)
(* release nothing of its successor's.                                     *)
Keeps(r) == session.status = "leased" /\ session.token = r
            /\ stage[r] = "writing"

FencedHolder ==
    [][\A r \in Run :
          Keeps(r) /\ stage'[r] = "writing" =>
             \/ Keeps(r)'
             \/ session.lapsed
             \/ ForceRelease
             \/ \E w \in Run : /\ stage[w] = "idle" /\ stage'[w] = "writing"
                               /\ Owner[w] = Owner[r]]_vars
=============================================================================
