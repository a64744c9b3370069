-------------------------- MODULE McpClientsProofs --------------------------
(***************************************************************************)
(* Proofs about the MCP clients, for any number of clients and callers.    *)
(***************************************************************************)
EXTENDS McpClients, TLAPS

(* The watcher replaces a client only as its reload says, and never one it *)
(* has given up.                                                           *)
WatcherInv ==
    /\ waiting \subseteq Named(boot)
    /\ op["watcher"] # None =>
           /\ reload # None
           /\ op["watcher"].setting \in Version
           /\ op["watcher"].stage = "connecting" =>
                  /\ op["watcher"].key \in reload.updates
                  /\ op["watcher"].setting = reload.new[op["watcher"].key]
                  /\ ~GivenUp(op["watcher"].key, op["watcher"].setting)

TypeInv == TypeOK /\ WatcherInv

LEMMA TypeInit == Init => TypeInv
  BY ConstantsAssumption DEF Init, TypeInv, TypeOK, WatcherInv, Named, Setting, Unloaded,
     Unrecorded, Record, Statuses, NoFailure, Actor, Reload, Replacement, Connectable

(* The steps of a replacement keep the manager's variables in their types. *)
LEMMA BeginTypes ==
  ASSUME TypeOK, NEW a \in Actor, NEW k \in Key, NEW s \in Connectable, BeginReplace(a, k, s)
  PROVE  /\ op' \in [Actor -> Replacement \cup {None}]
         /\ client' \in [Key -> Connectable \cup {None}]
         /\ config' \in [Key -> Connectable \cup {None}]
         /\ record' \in [Key -> [status : Statuses, dirty : BOOLEAN, enabled : BOOLEAN]]
  BY ConstantsAssumption DEF TypeOK, BeginReplace, Replacement, Known, Record, Statuses,
     Connectable, Actor

LEMMA InstallTypes ==
  ASSUME TypeOK, NEW a \in Actor, op[a] # None, Install(a)
  PROVE  /\ op' \in [Actor -> Replacement \cup {None}]
         /\ client' \in [Key -> Connectable \cup {None}]
         /\ config' \in [Key -> Connectable \cup {None}]
         /\ record' \in [Key -> [status : Statuses, dirty : BOOLEAN, enabled : BOOLEAN]]
<1>1. op[a] \in Replacement
  BY DEF TypeOK
<1>2. /\ op[a].key \in Key /\ op[a].setting \in Connectable
      /\ [op[a] EXCEPT !.stage = "closing"] \in Replacement
  BY <1>1 DEF Replacement
<1> QED BY <1>2 DEF TypeOK, Install, Record, Statuses

LEMMA EndTypes ==
  ASSUME TypeOK, NEW a \in Actor, op[a] # None, CloseOld(a) \/ FailReplace(a) \/ Cancelled(a)
  PROVE  /\ op' \in [Actor -> Replacement \cup {None}]
         /\ client' \in [Key -> Connectable \cup {None}]
         /\ config' \in [Key -> Connectable \cup {None}]
         /\ record' \in [Key -> [status : Statuses, dirty : BOOLEAN, enabled : BOOLEAN]]
<1>1. op[a].key \in Key /\ op[a].setting \in Connectable
  BY DEF TypeOK, Replacement
<1>2. CASE CloseOld(a)
  <2>1. [record EXCEPT ![op[a].key] = Record("ready", FALSE, op[a].setting)]
            \in [Key -> [status : Statuses, dirty : BOOLEAN, enabled : BOOLEAN]]
    BY <1>1 DEF TypeOK, Record, Statuses
  <2> QED BY <1>2, <2>1 DEF TypeOK, CloseOld
<1>3. CASE FailReplace(a)
  BY <1>1, <1>3 DEF TypeOK, FailReplace, SteadyRecord, Record, Statuses
<1>4. CASE Cancelled(a)
  BY <1>4 DEF TypeOK, Cancelled
<1> QED BY <1>2, <1>3, <1>4

LEMMA TypeStep == TypeInv /\ [Next]_vars => TypeInv'
<1> SUFFICES ASSUME TypeInv, [Next]_vars PROVE TypeInv'
  OBVIOUS
<1> USE DEF TypeInv
<1>1. CASE Edit
  <2>1. stamp' \in 0..MaxEdits /\ seen \in 0..stamp' /\ file' \in [Key -> Setting]
        /\ (reload # None => reload.stamp \leq stamp')
    BY <1>1, ConstantsAssumption DEF Edit, TypeOK, Reload
  <2> QED BY <1>1, <2>1 DEF Edit, TypeOK, WatcherInv, startup, watcher, manager, GivenUp
<1>2. ASSUME NEW k \in Key, InitClient(k) PROVE TypeInv'
  <2>1. boot[k] \in Connectable
    BY <1>2 DEF InitClient, WatcherInv, Named, TypeOK, Setting, Connectable
  <2>2. TypeOK'
    <3>1. /\ client' \in [Key -> Connectable \cup {None}]
          /\ config' \in [Key -> Connectable \cup {None}]
          /\ phase' \in {"loading", "running", "down"}
      BY <1>2, <2>1 DEF InitClient, TypeOK
    <3>2. \E st \in {"disabled", "ready", "failed"} :
              record' = [record EXCEPT ![k] = Record(st, FALSE, boot[k])]
      BY <1>2 DEF InitClient
    <3>3. record' \in [Key -> [status : Statuses, dirty : BOOLEAN, enabled : BOOLEAN]]
      BY <3>2 DEF TypeOK, Record, Statuses
    <3> QED BY <1>2, <3>1, <3>3 DEF InitClient, TypeOK, watcher
  <2>3. WatcherInv'
    BY <1>2 DEF InitClient, WatcherInv, watcher, GivenUp, Named
  <2> QED BY <2>2, <2>3
<1>3. CASE StartWatcher
  BY <1>3 DEF StartWatcher, TypeOK, WatcherInv, manager, GivenUp, Named
<1>4. CASE Restart
  <2>1. op'["watcher"] = None
    BY <1>4 DEF Restart, Actor
  <2>2. TypeOK'
    <3>1. /\ restarts' \in 0..MaxRestarts /\ seen' \in 0..stamp
          /\ waiting' \subseteq Key /\ op' \in [Actor -> Replacement \cup {None}]
      BY <1>4, ConstantsAssumption DEF Restart, TypeOK, Named
    <3>2. /\ record' \in [Key -> [status : Statuses, dirty : BOOLEAN, enabled : BOOLEAN]]
          /\ client' \in [Key -> Connectable \cup {None}]
          /\ config' \in [Key -> Connectable \cup {None}]
          /\ failures' \in [Key -> [of : Version \cup {None}, count : 0..GiveUpAfter]]
      BY <1>4, ConstantsAssumption DEF Restart, Unloaded, Unrecorded, Record, Statuses, NoFailure
    <3> QED BY <1>4, <2>1, <3>1, <3>2 DEF Restart, TypeOK
  <2>3. WatcherInv'
    BY <1>4, <2>1 DEF Restart, WatcherInv
  <2> QED BY <2>2, <2>3
<1>5. CASE PollSame
  BY <1>5 DEF PollSame, TypeOK, WatcherInv, startup, manager, GivenUp
<1>6. CASE PollBusy
  BY <1>6 DEF PollBusy, TypeOK, WatcherInv, startup, watcher, GivenUp, Pending, Record, Statuses
<1>7. CASE PollReload
  <2>1. reload' \in Reload
    BY <1>7 DEF PollReload, TypeOK, Reload, Updates, Gone, Named
  <2>2. op["watcher"] = None
    BY <1>7 DEF PollReload, TypeOK
  <2> QED BY <1>7, <2>1, <2>2 DEF PollReload, TypeOK, WatcherInv, startup, manager
<1>8. ASSUME NEW k \in Key, SkipGivenUp(k) PROVE TypeInv'
  BY <1>8 DEF SkipGivenUp, Reloading, ReloadFailed, TypeOK, WatcherInv, Reload, startup, manager
<1>9. ASSUME NEW k \in Key, ReloadClient(k) PROVE TypeInv'
  <2> "watcher" \in Actor
    BY DEF Actor
  <2>1. reload.new[k] \in Connectable
    BY <1>9 DEF ReloadClient, Connectable
  <2>2. op'["watcher"] = [key |-> k, setting |-> reload.new[k], stage |-> "connecting",
                          steady |-> IF client[k] # None THEN Known(k, reload.new[k]) ELSE None]
    BY <1>9 DEF ReloadClient, BeginReplace, TypeOK
  <2>3. TypeOK'
    BY <1>9, <2>1, BeginTypes DEF ReloadClient, Reloading, TypeOK, startup, watcher
  <2>4. WatcherInv'
    BY <1>9, <2>2 DEF ReloadClient, Reloading, WatcherInv, startup, watcher, GivenUp, Named
  <2> QED BY <2>3, <2>4
<1>10. ASSUME NEW k \in Key, RemoveClient(k) PROVE TypeInv'
  <2>1. op["watcher"] = None /\ reload # None
    BY <1>10 DEF RemoveClient, Reloading
  <2>2. reload' \in Reload /\ reload'.stamp = reload.stamp
    BY <1>10, <2>1 DEF RemoveClient, ReloadDid, TypeOK, Reload
  <2>3. /\ client' \in [Key -> Connectable \cup {None}]
        /\ config' \in [Key -> Connectable \cup {None}]
        /\ record' \in [Key -> [status : Statuses, dirty : BOOLEAN, enabled : BOOLEAN]]
        /\ failures' \in [Key -> [of : Version \cup {None}, count : 0..GiveUpAfter]]
        /\ partial' \subseteq Key /\ strayed' \subseteq Key
    BY <1>10, ConstantsAssumption DEF RemoveClient, Remove, Settled, TypeOK, NoFailure, Record, Statuses
  <2> QED BY <1>10, <2>1, <2>2, <2>3 DEF RemoveClient, TypeOK, WatcherInv, startup, Named
<1>11. CASE WatcherInstall
  <2> "watcher" \in Actor
    BY DEF Actor
  <2>1. op'["watcher"] = None \/ /\ op'["watcher"].stage = "closing"
                                 /\ op'["watcher"].setting = op["watcher"].setting
    BY <1>11 DEF WatcherInstall, Install, TypeOK, Replacement
  <2>2. op["watcher"].key \in Key /\ reload \in Reload
    BY <1>11 DEF WatcherInstall, TypeOK, Replacement
  <2>3. reload' \in Reload /\ reload'.stamp = reload.stamp
    BY <1>11, <2>2 DEF WatcherInstall, ReloadDid, Reload
  <2>4. /\ failures' \in [Key -> [of : Version \cup {None}, count : 0..GiveUpAfter]]
        /\ partial' \subseteq Key /\ strayed' \subseteq Key
    BY <1>11, <2>2, ConstantsAssumption DEF WatcherInstall, Settled, TypeOK, NoFailure
  <2>5. /\ op' \in [Actor -> Replacement \cup {None}]
        /\ client' \in [Key -> Connectable \cup {None}]
        /\ config' \in [Key -> Connectable \cup {None}]
        /\ record' \in [Key -> [status : Statuses, dirty : BOOLEAN, enabled : BOOLEAN]]
    BY <1>11, InstallTypes DEF WatcherInstall
  <2>6. TypeOK'
    BY <1>11, <2>2, <2>3, <2>4, <2>5, ConstantsAssumption DEF WatcherInstall, TypeOK, startup
  <2>7. WatcherInv'
    BY <1>11, <2>1, <2>3, ConstantsAssumption DEF WatcherInstall, WatcherInv, startup, Named
  <2> QED BY <2>6, <2>7
<1>12. CASE WatcherClose
  <2> "watcher" \in Actor
    BY DEF Actor
  <2>1. op'["watcher"] = None
    BY <1>12 DEF WatcherClose, CloseOld, TypeOK
  <2>2. TypeOK'
    BY <1>12, EndTypes DEF WatcherClose, CloseOld, TypeOK, startup, watcher
  <2> QED BY <1>12, <2>1, <2>2 DEF WatcherClose, WatcherInv, startup, watcher
<1>13. CASE WatcherFail
  <2> "watcher" \in Actor
    BY DEF Actor
  <2>1. op'["watcher"] = None
    BY <1>13 DEF WatcherFail, FailReplace, TypeOK
  <2>2. reload' \in Reload /\ reload'.stamp = reload.stamp /\ op["watcher"].key \in Key
    BY <1>13 DEF WatcherFail, ReloadFailed, TypeOK, Reload, Replacement
  <2>3. Tracked(op["watcher"].key, op["watcher"].setting)
            \in [of : Version \cup {None}, count : 0..GiveUpAfter]
    <3> DEFINE k == op["watcher"].key  s == op["watcher"].setting
    <3>1. s \in Version /\ failures[k] # [of |-> s, count |-> GiveUpAfter]
      BY <1>13 DEF WatcherFail, FailReplace, WatcherInv, GivenUp
    <3>2. failures[k] \in [of : Version \cup {None}, count : 0..GiveUpAfter]
      BY <2>2 DEF TypeOK
    <3>3. failures[k].of = s => failures[k].count # GiveUpAfter
      BY <3>1, <3>2
    <3> QED BY <3>1, <3>2, <3>3, ConstantsAssumption DEF Tracked
  <2>4. TypeOK'
    BY <1>13, <2>1, <2>2, <2>3, EndTypes DEF WatcherFail, FailReplace, TypeOK, startup
  <2> QED BY <1>13, <2>1, <2>4 DEF WatcherFail, WatcherInv, startup
<1>14. CASE ReloadEnd
  BY <1>14 DEF ReloadEnd, Reloading, Loaded, TypeOK, WatcherInv, Reload, startup, manager
<1>15. ASSUME NEW c \in Caller, Activate(c) PROVE TypeInv'
  <2>1. c \in Actor /\ c # "watcher" /\ Target[c] \in Key
    BY ConstantsAssumption DEF Actor
  <2>2. Known(Target[c], file[Target[c]]) \in Connectable
    BY <1>15, <2>1 DEF Activate, Known, TypeOK, Connectable
  <2>3. op'["watcher"] = op["watcher"]
    BY <1>15, <2>1 DEF Activate, BeginReplace, TypeOK, Actor
  <2>4. TypeOK'
    BY <1>15, <2>1, <2>2, <2>3, BeginTypes DEF Activate, TypeOK, startup, watcher
  <2> QED BY <1>15, <2>3, <2>4 DEF Activate, WatcherInv, startup, watcher, GivenUp
<1>16. ASSUME NEW c \in Caller, CallerStep(c) PROVE TypeInv'
  <2>1. c \in Actor /\ c # "watcher"
    BY ConstantsAssumption DEF Actor
  <2>2. op'["watcher"] = op["watcher"]
    BY <1>16, <2>1 DEF CallerStep, Install, CloseOld, FailReplace, Cancelled, TypeOK, Actor
  <2>3. TypeOK'
    BY <1>16, <2>1, <2>2, InstallTypes, EndTypes DEF CallerStep, TypeOK, startup, watcher
  <2> QED BY <1>16, <2>2, <2>3 DEF CallerStep, WatcherInv, startup, watcher, GivenUp
<1>17. CASE UNCHANGED vars
  BY <1>17 DEF vars, TypeOK, WatcherInv, startup, watcher, manager, GivenUp, Named
<1> QED
  BY <1>1, <1>2, <1>3, <1>4, <1>5, <1>6, <1>7, <1>8, <1>9, <1>10, <1>11, <1>12, <1>13, <1>14,
     <1>15, <1>16, <1>17 DEF Next, Poll

LEMMA TypeInvariant == Spec => []TypeInv
  BY TypeInit, TypeStep, PTL DEF Spec

\* Every variable keeps its type, whatever is edited, called and restarted.
THEOREM TypeCorrect == Spec => []TypeOK
<1>1. TypeInv => TypeOK
  BY DEF TypeInv
<1> QED BY TypeInvariant, <1>1, PTL
-----------------------------------------------------------------------------
(* No edit is missed: what was seen was loaded, and a reload carries the    *)
(* time of the file it was started for.                                     *)

SeenInv ==
    /\ seen = stamp => snapshot = file
    /\ reload # None => (reload.stamp = stamp => reload.new = file)

LEMMA SeenStep == TypeInv /\ SeenInv /\ [Next]_vars => SeenInv'
<1> SUFFICES ASSUME TypeInv, SeenInv, [Next]_vars PROVE SeenInv'
  OBVIOUS
<1> USE DEF SeenInv
<1>1. CASE Edit
  <2>1. seen \in Nat /\ stamp \in Nat /\ seen \leq stamp /\ stamp' = stamp + 1
    BY <1>1, ConstantsAssumption DEF Edit, TypeInv, TypeOK
  <2>2. reload # None => reload.stamp \in Nat /\ reload.stamp \leq stamp
    BY DEF TypeInv, TypeOK, Reload
  <2> QED BY <1>1, <2>1, <2>2 DEF Edit, watcher
<1>2. CASE StartWatcher \/ Restart \/ (\E k \in Key : InitClient(k))
  BY <1>2 DEF StartWatcher, Restart, InitClient, watcher, TypeInv, TypeOK
<1>3. CASE Poll
  BY <1>3 DEF Poll, PollSame, PollBusy, PollReload, watcher
<1>4. ASSUME NEW k \in Key, SkipGivenUp(k) \/ ReloadClient(k) \/ RemoveClient(k)
      PROVE  SeenInv'
  <2>1. reload' # None => reload'.stamp = reload.stamp /\ reload'.new = reload.new
    BY <1>4 DEF SkipGivenUp, ReloadClient, RemoveClient, ReloadFailed, ReloadDid, Reloading,
       watcher, TypeInv, TypeOK, Reload
  <2> QED BY <1>4, <2>1 DEF SkipGivenUp, ReloadClient, RemoveClient, Reloading, watcher
<1>5. CASE WatcherInstall \/ WatcherClose \/ WatcherFail
  <2>1. reload # None
    BY <1>5 DEF WatcherInstall, WatcherClose, WatcherFail, TypeInv, TypeOK
  <2>2. reload'.stamp = reload.stamp /\ reload'.new = reload.new
    BY <1>5, <2>1 DEF WatcherInstall, WatcherClose, WatcherFail, ReloadFailed, ReloadDid, watcher,
       TypeInv, TypeOK, Reload
  <2> QED BY <1>5, <2>1, <2>2 DEF WatcherInstall, WatcherClose, WatcherFail, watcher
<1>6. CASE ReloadEnd
  BY <1>6 DEF ReloadEnd, Reloading, Loaded
<1>7. ASSUME NEW c \in Caller, Activate(c) \/ CallerStep(c) PROVE SeenInv'
  BY <1>7 DEF Activate, CallerStep, watcher
<1>8. CASE UNCHANGED vars
  BY <1>8 DEF vars, watcher
<1> QED BY <1>1, <1>2, <1>3, <1>4, <1>5, <1>6, <1>7, <1>8 DEF Next

\* No edit of the file is lost to a poll or a reload that crosses it.
THEOREM EditsSeen == Spec => []NoMissedEdit
<1>1. Init => SeenInv
  BY DEF Init, SeenInv
<1>2. SeenInv => NoMissedEdit
  BY DEF SeenInv, NoMissedEdit
<1> QED BY <1>1, <1>2, SeenStep, TypeInvariant, PTL DEF Spec
-----------------------------------------------------------------------------
(* What a reload has left to do.                                            *)

ReloadInv ==
    reload # None =>
        /\ phase = "running"
        /\ reload.updates \subseteq Updates(reload.new) \ reload.changed
        /\ reload.gone \subseteq Gone(reload.new)
        /\ reload.ok => Updates(reload.new) \cup Gone(reload.new)
                            \subseteq reload.updates \cup reload.gone \cup reload.changed

LEMMA ReloadStepInv == TypeInv /\ ReloadInv /\ [Next]_vars => ReloadInv'
<1> SUFFICES ASSUME TypeInv, ReloadInv, [Next]_vars PROVE ReloadInv'
  OBVIOUS
<1> USE DEF ReloadInv, Updates, Gone, Named
<1>1. CASE Edit
  BY <1>1 DEF Edit, watcher, startup
<1>2. CASE StartWatcher \/ Restart \/ (\E k \in Key : InitClient(k))
  BY <1>2 DEF StartWatcher, Restart, InitClient, watcher
<1>3. CASE PollSame \/ PollBusy
  BY <1>3 DEF PollSame, PollBusy, watcher, startup
<1>4. CASE PollReload
  BY <1>4 DEF PollReload, Changed, startup
<1>5. ASSUME NEW k \in Key, SkipGivenUp(k) PROVE ReloadInv'
  BY <1>5 DEF SkipGivenUp, ReloadFailed, Reloading, startup, TypeInv, TypeOK, Reload
<1>6. ASSUME NEW k \in Key, ReloadClient(k) PROVE ReloadInv'
  BY <1>6 DEF ReloadClient, watcher, startup
<1>7. ASSUME NEW k \in Key, RemoveClient(k) PROVE ReloadInv'
  BY <1>7 DEF RemoveClient, ReloadDid, Reloading, startup, TypeInv, TypeOK, Reload
<1>8. CASE WatcherInstall
  BY <1>8 DEF WatcherInstall, ReloadDid, startup, TypeInv, TypeOK, Reload
<1>9. CASE WatcherClose
  BY <1>9 DEF WatcherClose, watcher, startup
<1>10. CASE WatcherFail
  BY <1>10 DEF WatcherFail, ReloadFailed, startup, TypeInv, TypeOK, Reload
<1>11. CASE ReloadEnd
  BY <1>11 DEF ReloadEnd
<1>12. ASSUME NEW c \in Caller, Activate(c) \/ CallerStep(c) PROVE ReloadInv'
  BY <1>12 DEF Activate, CallerStep, watcher, startup
<1>13. CASE UNCHANGED vars
  BY <1>13 DEF vars, watcher, startup
<1> QED BY <1>1, <1>2, <1>3, <1>4, <1>5, <1>6, <1>7, <1>8, <1>9, <1>10, <1>11, <1>12, <1>13
        DEF Next, Poll
-----------------------------------------------------------------------------
(* The clients while the manager is built.                                  *)

Held(setting) == IF setting \in Version THEN setting ELSE None

LoadInv ==
    phase = "loading" =>
        /\ \A a \in Actor : op[a] = None
        /\ partial = {}
        /\ \A k \in waiting : client[k] = None
        /\ \A k \in Key \ waiting :
               record[k].status # "failed" =>
                   /\ client[k] = Wanted(boot, k)
                   /\ client[k] = Held(config[k])
                   /\ client[k] # None <=> record[k].status = "ready"

LEMMA LoadInit == Init => LoadInv
  BY ConstantsAssumption
     DEF Init, LoadInv, Wanted, Held, Named, Unloaded, Unrecorded, Record, Setting

LEMMA LoadStep == TypeInv /\ LoadInv /\ [Next]_vars => LoadInv'
<1> SUFFICES ASSUME TypeInv, LoadInv, [Next]_vars, phase' = "loading" PROVE LoadInv'
  BY DEF LoadInv
<1> USE DEF LoadInv
<1>1. CASE Edit \/ UNCHANGED vars
  BY <1>1 DEF Edit, vars, startup, manager, Wanted
<1>2. ASSUME NEW k \in Key, InitClient(k) PROVE LoadInv'
  <2>1. /\ k \in waiting /\ phase = "loading" /\ waiting' = waiting \ {k}
        /\ boot' = boot /\ op' = op /\ partial' = partial /\ client[k] = None
        /\ config'[k] = boot[k]
    BY <1>2 DEF InitClient, TypeInv, TypeOK
  <2>2. \A j \in Key \ {k} : client'[j] = client[j] /\ config'[j] = config[j] /\ record'[j] = record[j]
    BY <1>2 DEF InitClient, TypeInv, TypeOK
  <2>3. \/ boot[k] = "disabled" /\ client'[k] = None /\ record'[k].status = "disabled"
        \/ boot[k] \in Version /\ client'[k] = boot[k] /\ record'[k].status = "ready"
        \/ record'[k].status = "failed"
    BY <1>2, <2>1 DEF InitClient, TypeInv, TypeOK, Record
  <2>4. record'[k].status # "failed" =>
            /\ client'[k] = Wanted(boot, k)
            /\ client'[k] = Held(config'[k])
            /\ client'[k] # None <=> record'[k].status = "ready"
    BY <2>1, <2>3, ConstantsAssumption DEF Wanted, Held, Setting
  <2> QED BY <2>1, <2>2, <2>4 DEF Wanted, TypeInv, TypeOK
<1>3. CASE Restart
  BY <1>3, ConstantsAssumption
     DEF Restart, Wanted, Held, Named, Unloaded, Unrecorded, Record, TypeInv, TypeOK, Setting
<1>4. CASE StartWatcher
  BY <1>4 DEF StartWatcher
<1>5. ASSUME NEW k \in Key, SkipGivenUp(k) \/ ReloadClient(k) \/ RemoveClient(k) PROVE FALSE
  BY <1>5 DEF SkipGivenUp, ReloadClient, RemoveClient, Reloading, startup
<1>6. CASE Poll
  BY <1>6 DEF Poll, PollSame, PollBusy, PollReload, Changed, startup
<1>7. CASE ReloadEnd
  BY <1>7 DEF ReloadEnd, Reloading, startup
<1>8. CASE WatcherInstall \/ WatcherClose \/ WatcherFail
  BY <1>8 DEF WatcherInstall, WatcherClose, WatcherFail, startup, Actor
<1>9. ASSUME NEW c \in Caller, Activate(c) \/ CallerStep(c) PROVE FALSE
  BY <1>9 DEF Activate, CallerStep, startup, Actor
<1> QED BY <1>1, <1>2, <1>3, <1>4, <1>5, <1>6, <1>7, <1>8, <1>9 DEF Next
-----------------------------------------------------------------------------
(* A key that has not strayed: the client it has, how the manager's tables  *)
(* and the one actor that may work on it relate.                            *)

On(a, k) == op[a] # None /\ op[a].key = k

Applied(k) ==
    IF reload # None /\ k \in reload.changed THEN Wanted(reload.new, k) ELSE Wanted(snapshot, k)

\* The record says whether there is a client, or that it is being reloaded.
Told(k) ==
    \/ client[k] # None <=> record[k].status = "ready"
    \/ record[k].status = "reloading"

Work(a, k) ==
    /\ \A b \in Actor : On(b, k) => b = a
    /\ op[a].stage = "connecting" =>
           /\ op[a].steady # None <=> client[k] # None
           /\ a \in Caller => op[a].setting = client[k]
           /\ Told(k)
    /\ op[a].stage = "closing" => client[k] # None /\ record[k].status = "ready"

KeyInv(k) ==
    /\ k \notin partial => client[k] = Applied(k)
    /\ client[k] = Held(config[k])
    /\ \A a \in Actor : On(a, k) => Work(a, k)
    /\ (\A a \in Actor : ~On(a, k)) => Told(k)

RunInv == phase = "running" => \A k \in Key \ strayed : KeyInv(k)

Inv == TypeInv /\ ReloadInv /\ LoadInv /\ RunInv

(* A step that leaves k and those who work on it alone.                     *)
LEMMA KeyFrame ==
  ASSUME NEW k \in Key, KeyInv(k),
         client'[k] = client[k], config'[k] = config[k], record'[k] = record[k],
         k \in partial => k \in partial',
         k \notin partial' => Applied(k)' = Applied(k),
         \A a \in Actor : op'[a] = op[a] \/ (~On(a, k) /\ ~On(a, k)')
  PROVE  KeyInv(k)'
<1>1. \A a \in Actor : On(a, k)' <=> On(a, k)
  BY DEF On
<1>2. \A a \in Actor : On(a, k)' => op'[a] = op[a]
  BY DEF On
<1>3. ASSUME NEW a \in Actor, On(a, k)' PROVE Work(a, k)'
  BY <1>1, <1>2, <1>3 DEF KeyInv, Work, Told
<1> QED BY <1>1, <1>3 DEF KeyInv, Told

LEMMA StartRun ==
  ASSUME Inv, StartWatcher
  PROVE  RunInv'
<1> SUFFICES ASSUME NEW k \in Key, k \notin strayed' PROVE KeyInv(k)'
  BY DEF RunInv
<1>1. /\ boot[k] = file[k] /\ record[k].status # "failed" /\ reload' = None
      /\ snapshot' = file /\ op' = op /\ client' = client /\ config' = config /\ record' = record
  BY ConstantsAssumption DEF StartWatcher, manager, Inv, ReloadInv
<1>2. /\ client[k] = Wanted(boot, k) /\ client[k] = Held(config[k])
      /\ client[k] # None <=> record[k].status = "ready"
      /\ \A a \in Actor : op[a] = None
  BY <1>1 DEF StartWatcher, Inv, LoadInv
<1> QED BY <1>1, <1>2 DEF KeyInv, Applied, On, Wanted, Told

LEMMA PollBusyRun ==
  ASSUME Inv, PollBusy, NEW k \in Key, KeyInv(k)
  PROVE  KeyInv(k)'
<1>1. /\ client' = client /\ config' = config /\ op' = op /\ partial' = partial
      /\ reload' = reload /\ snapshot' = snapshot
      /\ record'[k] = record[k] \/ record'[k] = Pending(k)
  BY DEF PollBusy, watcher
<1>2. Pending(k).status = "ready" <=> (client[k] # None \/ record[k].status = "ready")
  BY DEF Pending, Record
<1>3. ASSUME NEW a \in Actor, On(a, k)' PROVE Work(a, k)'
  BY <1>1, <1>2, <1>3 DEF KeyInv, On, Work, Told
<1>4. Applied(k)' = Applied(k)
  BY <1>1 DEF Applied, Wanted
<1> QED BY <1>1, <1>2, <1>3, <1>4 DEF KeyInv, On, Told

(* A replacement begins on a key nobody works on.                           *)
LEMMA BeginRun ==
  ASSUME Inv, NEW a \in Actor, NEW j \in Key, NEW s \in Connectable, BeginReplace(a, j, s),
         op[a] = None, strayed' = strayed \/ strayed' = strayed \cup {j},
         j \notin strayed' =>
             /\ \A b \in Actor : ~On(b, j)
             /\ a \in Caller => s = client[j],
         partial' = partial, reload' = reload, snapshot' = snapshot,
         NEW k \in Key, k \notin strayed', KeyInv(k)
  PROVE  KeyInv(k)'
<1> DEFINE work == [key |-> j, setting |-> s, stage |-> "connecting",
                    steady |-> IF client[j] # None THEN Known(j, s) ELSE None]
<1>1. /\ op' = [op EXCEPT ![a] = work] /\ op'[a] = work
      /\ \A b \in Actor \ {a} : op'[b] = op[b]
      /\ client' = client /\ config' = config
  BY DEF BeginReplace, Inv, TypeInv, TypeOK
<1>2. Applied(k)' = Applied(k)
  BY DEF Applied, Wanted
<1>3. CASE k # j
  <2>1. record'[k] = record[k] /\ ~On(a, k) /\ ~On(a, k)'
    BY <1>1, <1>3 DEF BeginReplace, On, Inv, TypeInv, TypeOK
  <2> QED BY <1>1, <1>2, <2>1, KeyFrame
<1>4. CASE k = j
  <2>1. \A b \in Actor : On(b, k)' => b = a
    BY <1>1, <1>4 DEF On
  <2>2. On(a, k)'
    <3>1. work \in Replacement
      BY DEF Replacement, Known, Inv, TypeInv, TypeOK
    <3>2. work # None
      BY <3>1, ConstantsAssumption
    <3> QED BY <1>1, <1>4, <3>2 DEF On
  <2>3. record'[k].status = "reloading"
    BY <1>4 DEF BeginReplace, Record, Inv, TypeInv, TypeOK
  <2>4. (op'[a].steady # None) <=> (client[k] # None)
    <3>1. client[k] # None => config[k] # None
      BY ConstantsAssumption DEF KeyInv, Held
    <3>2. client[k] # None => Known(k, s) # None
      BY <3>1 DEF Known
    <3> QED BY <1>1, <1>4, <3>2
  <2>5. Work(a, k)'
    BY <1>1, <1>4, <2>1, <2>3, <2>4 DEF Work, Told
  <2> QED BY <1>1, <1>2, <2>1, <2>2, <2>5 DEF KeyInv
<1> QED BY <1>3, <1>4

(* An actor's replacement on another key disturbs nothing.                  *)
LEMMA OtherKey ==
  ASSUME Inv, NEW a \in Actor, op[a] # None,
         Install(a) \/ CloseOld(a) \/ FailReplace(a) \/ Cancelled(a),
         NEW k \in Key, k # op[a].key
  PROVE  /\ client'[k] = client[k] /\ config'[k] = config[k] /\ record'[k] = record[k]
         /\ \A b \in Actor : op'[b] = op[b] \/ (~On(b, k) /\ ~On(b, k)')
<1>1. op[a].key \in Key /\ op[a] \in Replacement
  BY DEF Inv, TypeInv, TypeOK, Replacement
<1>2. /\ client'[k] = client[k] /\ config'[k] = config[k] /\ record'[k] = record[k]
      /\ \A b \in Actor \ {a} : op'[b] = op[b]
  BY <1>1 DEF Install, CloseOld, FailReplace, Cancelled, Inv, TypeInv, TypeOK
<1>3. op'[a] = None \/ op'[a].key = op[a].key
  <2>1. [op[a] EXCEPT !.stage = "closing"].key = op[a].key
    BY <1>1 DEF Replacement
  <2>2. CASE Install(a)
    BY <2>1, <2>2 DEF Install, Inv, TypeInv, TypeOK
  <2>3. CASE CloseOld(a) \/ FailReplace(a) \/ Cancelled(a)
    BY <2>3 DEF CloseOld, FailReplace, Cancelled, Inv, TypeInv, TypeOK
  <2> QED BY <2>2, <2>3
<1> QED BY <1>2, <1>3 DEF On

(* The end of a replacement on a key whose table entries it leaves alone.   *)
LEMMA EndRun ==
  ASSUME Inv, NEW a \in Actor, op[a] # None, CloseOld(a) \/ FailReplace(a) \/ Cancelled(a),
         partial' = partial, NEW k \in Key, KeyInv(k), Applied(k)' = Applied(k)
  PROVE  KeyInv(k)'
<1>1. CASE k # op[a].key
  BY <1>1, OtherKey, KeyFrame
<1>2. CASE k = op[a].key
  <2>1. On(a, k) /\ Work(a, k)
    BY <1>2 DEF On, KeyInv
  <2>2. /\ client' = client /\ config' = config /\ op'[a] = None
        /\ \A b \in Actor \ {a} : op'[b] = op[b]
    BY DEF CloseOld, FailReplace, Cancelled, Inv, TypeInv, TypeOK
  <2>3. \A b \in Actor : ~On(b, k)'
    BY <2>1, <2>2 DEF On, Work
  <2>4. (client[k] # None <=> record'[k].status = "ready") \/ record'[k].status = "reloading"
    <3>1. CASE CloseOld(a)
      BY <1>2, <2>1, <3>1 DEF CloseOld, Work, Record, Inv, TypeInv, TypeOK, Told
    <3>2. CASE FailReplace(a)
      BY <1>2, <2>1, <3>2 DEF FailReplace, SteadyRecord, Work, Record, Inv, TypeInv, TypeOK, Told
    <3>3. CASE Cancelled(a)
      BY <2>1, <3>3 DEF Cancelled, Work, Told
    <3> QED BY <3>1, <3>2, <3>3
  <2> QED BY <2>2, <2>3, <2>4 DEF KeyInv, Told
<1> QED BY <1>1, <1>2

(* A client installed on a key where the installing actor is alone.         *)
LEMMA InstallWork ==
  ASSUME Inv, NEW a \in Actor, op[a] # None, Install(a), NEW k \in Key, k = op[a].key,
         \A b \in Actor : On(b, k) => b = a
  PROVE  /\ \A b \in Actor : On(b, k)' => Work(b, k)'
         /\ client'[k] = op[a].setting /\ client'[k] # None
         /\ config'[k] = op[a].setting /\ record'[k].status = "ready"
<1>1. op[a] \in Replacement
  BY DEF Inv, TypeInv, TypeOK
<1>2. /\ client'[k] = op[a].setting /\ config'[k] = op[a].setting /\ op[a].setting # None
      /\ record'[k].status = "ready"
  BY <1>1, ConstantsAssumption
     DEF Install, Record, Replacement, Connectable, Setting, Inv, TypeInv, TypeOK
<1>3. /\ op'[a] = None \/ op'[a].stage = "closing"
      /\ \A b \in Actor \ {a} : op'[b] = op[b]
  BY <1>1 DEF Install, Replacement, Inv, TypeInv, TypeOK
<1>4. \A b \in Actor : On(b, k)' => b = a
  BY <1>3 DEF On
<1>5. ASSUME On(a, k)' PROVE Work(a, k)'
  BY <1>2, <1>3, <1>4, <1>5 DEF On, Work, Told
<1> QED BY <1>2, <1>4, <1>5

LEMMA CallerInstallRun ==
  ASSUME Inv, NEW a \in Caller, op[a] # None, Install(a), partial' = partial,
         NEW k \in Key, KeyInv(k), Applied(k)' = Applied(k)
  PROVE  KeyInv(k)'
<1> a \in Actor
  BY DEF Actor
<1>1. CASE k # op[a].key
  BY <1>1, OtherKey, KeyFrame
<1>2. CASE k = op[a].key
  <2>1. On(a, k) /\ Work(a, k)
    BY <1>2 DEF On, KeyInv
  <2>2. op[a].setting = client[k] /\ \A b \in Actor : On(b, k) => b = a
    BY <2>1 DEF Work, Install
  <2>3. client[k] \in Version \cup {None}
    BY DEF KeyInv, Held
  <2>4. /\ \A b \in Actor : On(b, k)' => Work(b, k)'
        /\ client'[k] = client[k] /\ client'[k] # None
        /\ config'[k] = client[k] /\ record'[k].status = "ready"
    BY <1>2, <2>2, InstallWork
  <2>5. client'[k] = Held(config'[k])
    BY <2>3, <2>4 DEF Held
  <2> QED BY <2>4, <2>5 DEF KeyInv, Told
<1> QED BY <1>1, <1>2

LEMMA WatcherInstallRun ==
  ASSUME Inv, WatcherInstall, NEW k \in Key, k \notin strayed', k \notin strayed => KeyInv(k)
  PROVE  KeyInv(k)'
<1> DEFINE a == "watcher"  j == op[a].key
<1> a \in Actor /\ op[a] # None /\ Install(a)
  BY DEF Actor, WatcherInstall
<1>1. /\ j \in Key /\ j \in reload.updates /\ op[a].setting = reload.new[j]
      /\ op[a].setting \in Version /\ reload \in Reload /\ reload # None
  BY DEF Install, Inv, TypeInv, TypeOK, WatcherInv, Replacement
<1>2. /\ reload' \in Reload /\ reload'.new = reload.new /\ reload' # None
      /\ reload'.changed = reload.changed \cup {j} /\ snapshot' = snapshot
  <2>1. reload' = [reload EXCEPT !.updates = @ \ {j}, !.gone = @ \ {j}, !.changed = @ \cup {j}]
    BY DEF WatcherInstall, ReloadDid
  <2>2. reload' \in Reload
    BY <1>1, <2>1 DEF Reload
  <2>3. reload' # None
    BY <2>2, ConstantsAssumption
  <2>4. reload'.new = reload.new /\ reload'.changed = reload.changed \cup {j}
    BY <1>1, <2>1 DEF Reload
  <2> QED BY <2>2, <2>3, <2>4 DEF WatcherInstall
<1>3. CASE k # j
  <2>1. k \notin strayed /\ (k \in partial => k \in partial')
    BY <1>3 DEF WatcherInstall, Settled
  <2>2. Applied(k)' = Applied(k)
    BY <1>1, <1>2, <1>3 DEF Applied, Wanted
  <2> QED BY <1>3, <2>1, <2>2, OtherKey, KeyFrame
<1>4. CASE k = j
  <2>1. Busy(k) \subseteq {a}
    BY <1>4 DEF WatcherInstall, Settled
  <2>2. \A b \in Actor : On(b, k) => b = a
    BY <2>1 DEF Busy, On
  <2>3. /\ \A b \in Actor : On(b, k)' => Work(b, k)'
        /\ client'[k] = op[a].setting /\ client'[k] # None
        /\ config'[k] = op[a].setting /\ record'[k].status = "ready"
    BY <1>4, <2>2, InstallWork
  <2>4. client'[k] = Held(config'[k])
    BY <1>1, <2>3 DEF Held
  <2>5. Applied(k)' = client'[k]
    BY <1>1, <1>2, <1>4, <2>3 DEF Applied, Wanted
  <2> QED BY <2>3, <2>4, <2>5 DEF KeyInv, Told
<1> QED BY <1>3, <1>4

LEMMA RemoveRun ==
  ASSUME Inv, NEW j \in Key, RemoveClient(j),
         NEW k \in Key, k \notin strayed', k \notin strayed => KeyInv(k)
  PROVE  KeyInv(k)'
<1>1. /\ reload \in Reload /\ reload # None /\ op' = op /\ op["watcher"] = None
      /\ reload.new[j] \notin Version /\ snapshot' = snapshot
  BY ConstantsAssumption
     DEF RemoveClient, Reloading, Inv, TypeInv, TypeOK, ReloadInv, Gone, Named, Setting
<1>2. /\ reload'.new = reload.new /\ reload' # None /\ reload'.changed = reload.changed \cup {j}
  <2>1. reload' \in Reload
    BY <1>1 DEF RemoveClient, ReloadDid, Reload
  <2> QED BY <1>1, <2>1, ConstantsAssumption DEF RemoveClient, ReloadDid, Reload
<1>3. CASE k # j
  <2>1. k \notin strayed /\ (k \in partial => k \in partial')
    BY <1>3 DEF RemoveClient, Settled
  <2>2. Applied(k)' = Applied(k)
    BY <1>1, <1>2, <1>3 DEF Applied, Wanted
  <2>3. client'[k] = client[k] /\ config'[k] = config[k] /\ record'[k] = record[k]
    BY <1>3 DEF RemoveClient, Remove, Inv, TypeInv, TypeOK
  <2> QED BY <1>1, <2>1, <2>2, <2>3, KeyFrame
<1>4. CASE k = j
  <2>1. /\ client'[k] = None /\ config'[k] = None
        /\ record'[k] = IF record[k].status = "none" \/ config[k] = None THEN record[k]
                        ELSE Record("removed", FALSE, config[k])
    BY <1>4 DEF RemoveClient, Remove, Inv, TypeInv, TypeOK
  <2>2. Busy(k) \subseteq {"watcher"}
    BY <1>4 DEF RemoveClient, Settled
  <2>3. \A a \in Actor : ~On(a, k) /\ ~On(a, k)'
    BY <1>1, <2>2 DEF Busy, On
  <2>4. Applied(k)' = None
    BY <1>1, <1>2, <1>4 DEF Applied, Wanted
  <2>5. config[k] = None => k \notin strayed
    BY <1>4, <2>1, <2>2 DEF RemoveClient, Settled
  <2>6. record'[k].status # "ready"
    <3>1. CASE config[k] = None
      <4>1. KeyInv(k) /\ client[k] = None
        BY <2>5, <3>1 DEF KeyInv, Held
      <4> QED BY <2>1, <2>3, <3>1, <4>1 DEF KeyInv, Told
    <3>2. CASE config[k] # None
      BY <2>1, <3>2 DEF Record
    <3> QED BY <3>1, <3>2
  <2>7. client'[k] = Held(config'[k])
    BY <2>1 DEF Held
  <2> QED BY <2>1, <2>3, <2>4, <2>6, <2>7 DEF KeyInv, Told
<1> QED BY <1>3, <1>4

LEMMA ReloadEndRun ==
  ASSUME Inv, ReloadEnd, NEW k \in Key, KeyInv(k)
  PROVE  KeyInv(k)'
<1>1. /\ reload # None /\ reload \in Reload /\ reload' = None
      /\ client' = client /\ config' = config /\ record' = record /\ op' = op
  BY DEF ReloadEnd, Reloading, manager, Inv, TypeInv, TypeOK
<1>2. ASSUME k \notin partial' PROVE k \notin partial /\ Applied(k)' = Applied(k)
  <2>1. CASE Advances
    <3>1. snapshot' = reload.new /\ partial' = partial
      BY <2>1 DEF ReloadEnd, Loaded
    <3>2. k \notin reload.changed => k \notin Updates(reload.new) \cup Gone(reload.new)
      BY <1>1, <2>1 DEF Advances, ReloadEnd, Inv, ReloadInv
    <3>3. k \notin reload.changed => Wanted(reload.new, k) = Wanted(snapshot, k)
      BY <1>1, <3>2 DEF Updates, Gone, Named, Wanted, Inv, TypeInv, TypeOK, Reload, Setting
    <3> QED BY <1>1, <1>2, <3>1, <3>3 DEF Applied, Wanted
  <2>2. CASE ~Advances
    <3>1. snapshot' = snapshot /\ partial' = partial \cup reload.changed
      BY <2>2 DEF ReloadEnd
    <3> QED BY <1>1, <1>2, <3>1 DEF Applied, Wanted
  <2> QED BY <2>1, <2>2
<1> QED BY <1>1, <1>2, KeyFrame DEF On

(* A reload that failed for a key goes on as it was.                        *)
LEMMA FailedReload ==
  ASSUME Inv, reload # None, NEW k \in Key, ReloadFailed(k)
  PROVE  reload' # None /\ reload'.new = reload.new /\ reload'.changed = reload.changed
<1>1. reload \in Reload
  BY DEF Inv, TypeInv, TypeOK
<1>2. reload' = [reload EXCEPT !.updates = @ \ {k}, !.ok = FALSE]
  BY DEF ReloadFailed
<1>3. reload' \in Reload
  BY <1>1, <1>2 DEF Reload
<1>4. reload'.new = reload.new /\ reload'.changed = reload.changed
  BY <1>1, <1>2 DEF Reload
<1> QED BY <1>3, <1>4, ConstantsAssumption

LEMMA RunStep == Inv /\ [Next]_vars => RunInv'
<1> SUFFICES ASSUME Inv, [Next]_vars, phase' = "running" PROVE RunInv'
  BY DEF RunInv
<1>1. CASE StartWatcher
  BY <1>1, StartRun
<1>2. CASE Restart
  BY <1>2 DEF Restart
<1>3. ASSUME NEW k \in Key, InitClient(k) PROVE FALSE
  BY <1>3 DEF InitClient
<1> SUFFICES ASSUME ~StartWatcher, ~Restart, \A k \in Key : ~InitClient(k),
                    NEW k \in Key, k \notin strayed'
             PROVE  KeyInv(k)'
  BY <1>1, <1>2, <1>3 DEF RunInv
<1>4. k \notin strayed => KeyInv(k)
  <2>1. phase = "running"
    BY DEF Next, Edit, Poll, PollSame, PollBusy, PollReload, SkipGivenUp, ReloadClient,
       RemoveClient, WatcherInstall, WatcherClose, WatcherFail, ReloadEnd, Activate, CallerStep,
       vars, startup
  <2> QED BY <2>1 DEF Inv, RunInv
<1>5. CASE Edit \/ PollSame \/ PollReload \/ UNCHANGED vars
  <2>1. /\ client' = client /\ config' = config /\ record' = record /\ op' = op
        /\ partial' = partial /\ strayed' = strayed
    BY <1>5 DEF Edit, PollSame, PollReload, vars, manager
  <2>2. Applied(k)' = Applied(k)
    BY <1>5, ConstantsAssumption DEF Edit, PollSame, PollReload, vars, watcher, Applied, Wanted
  <2> QED BY <1>4, <2>1, <2>2, KeyFrame
<1>6. CASE PollBusy
  BY <1>4, <1>6, PollBusyRun DEF PollBusy
<1>7. ASSUME NEW j \in Key, SkipGivenUp(j) PROVE KeyInv(k)'
  <2>1. /\ client' = client /\ config' = config /\ record' = record /\ op' = op
        /\ partial' = partial /\ strayed' = strayed /\ snapshot' = snapshot
    BY <1>7 DEF SkipGivenUp, manager
  <2>2. reload # None /\ reload' # None /\ reload'.new = reload.new
        /\ reload'.changed = reload.changed
    BY <1>7, FailedReload DEF SkipGivenUp, Reloading
  <2>3. Applied(k)' = Applied(k)
    BY <2>1, <2>2 DEF Applied, Wanted
  <2> QED BY <1>4, <2>1, <2>3, KeyFrame
<1>8. ASSUME NEW j \in Key, ReloadClient(j) PROVE KeyInv(k)'
  <2>1. /\ BeginReplace("watcher", j, reload.new[j]) /\ op["watcher"] = None
        /\ reload.new[j] \in Connectable
        /\ partial' = partial /\ reload' = reload /\ snapshot' = snapshot
    BY <1>8 DEF ReloadClient, Reloading, watcher, Connectable
  <2>2. strayed' = strayed \/ strayed' = strayed \cup {j}
    BY <1>8 DEF ReloadClient
  <2>3. j \notin strayed' => \A b \in Actor : ~On(b, j)
    BY <1>8 DEF ReloadClient, Busy, On
  <2>4. "watcher" \in Actor /\ "watcher" \notin Caller
    BY ConstantsAssumption DEF Actor
  <2>5. KeyInv(k)
    BY <1>4, <2>2
  <2> QED BY <2>1, <2>2, <2>3, <2>4, <2>5, BeginRun
<1>9. ASSUME NEW j \in Key, RemoveClient(j) PROVE KeyInv(k)'
  BY <1>4, <1>9, RemoveRun
<1>10. CASE WatcherInstall
  BY <1>4, <1>10, WatcherInstallRun
<1>11. CASE WatcherClose
  <2>1. Applied(k)' = Applied(k)
    BY <1>11 DEF WatcherClose, watcher, Applied, Wanted
  <2>2. "watcher" \in Actor
    BY DEF Actor
  <2> QED BY <1>4, <1>11, <2>1, <2>2, EndRun DEF WatcherClose
<1>12. CASE WatcherFail
  <2>1. /\ op["watcher"] # None /\ FailReplace("watcher") /\ partial' = partial
        /\ strayed' = strayed /\ snapshot' = snapshot
        /\ ReloadFailed(op["watcher"].key)
    BY <1>12 DEF WatcherFail
  <2>2. reload # None /\ op["watcher"].key \in Key
    BY <2>1 DEF Inv, TypeInv, TypeOK, Replacement, Actor
  <2>3. reload' # None /\ reload'.new = reload.new /\ reload'.changed = reload.changed
    BY <2>1, <2>2, FailedReload
  <2>4. Applied(k)' = Applied(k)
    BY <2>1, <2>2, <2>3 DEF Applied, Wanted
  <2>5. "watcher" \in Actor
    BY DEF Actor
  <2> QED BY <1>4, <2>1, <2>4, <2>5, EndRun
<1>13. CASE ReloadEnd
  BY <1>4, <1>13, ReloadEndRun DEF ReloadEnd
<1>14. ASSUME NEW c \in Caller, Activate(c) PROVE KeyInv(k)'
  <2> DEFINE j == Target[c]  s == Known(j, file[j])
  <2>1. /\ BeginReplace(c, j, s) /\ op[c] = None /\ phase = "running" /\ file[j] \in Version
        /\ partial' = partial /\ reload' = reload /\ snapshot' = snapshot
    BY <1>14 DEF Activate, watcher
  <2>2. c \in Actor /\ j \in Key
    BY ConstantsAssumption DEF Actor
  <2>3. s \in Connectable
    BY <2>1, <2>2 DEF Known, Connectable, Inv, TypeInv, TypeOK
  <2>4. strayed' = strayed \/ strayed' = strayed \cup {j}
    BY <1>14 DEF Activate
  <2>5. j \notin strayed' => (\A b \in Actor : ~On(b, j)) /\ s = client[j]
    <3> HAVE j \notin strayed'
    <3>1. j \notin strayed /\ Busy(j) = {} /\ config[j] \in Version
      BY <1>14 DEF Activate
    <3>2. KeyInv(j)
      BY <2>1, <2>2, <3>1 DEF Inv, RunInv
    <3>3. s = config[j]
      BY <3>1, ConstantsAssumption DEF Known, Setting
    <3> QED BY <3>1, <3>2, <3>3 DEF KeyInv, Held, Busy, On
  <2>6. KeyInv(k)
    BY <1>4, <2>4
  <2> HIDE DEF j, s
  <2> QED BY <2>1, <2>2, <2>3, <2>4, <2>5, <2>6, BeginRun
<1>15. ASSUME NEW c \in Caller, CallerStep(c) PROVE KeyInv(k)'
  <2>1. /\ op[c] # None /\ partial' = partial /\ strayed' = strayed
        /\ Applied(k)' = Applied(k)
    BY <1>15 DEF CallerStep, watcher, Applied, Wanted
  <2>2. CASE Install(c)
    BY <1>4, <2>1, <2>2, CallerInstallRun
  <2>3. CASE CloseOld(c) \/ FailReplace(c) \/ Cancelled(c)
    BY <1>4, <2>1, <2>3, EndRun DEF Actor
  <2> QED BY <1>15, <2>2, <2>3 DEF CallerStep
<1> QED BY <1>5, <1>6, <1>7, <1>8, <1>9, <1>10, <1>11, <1>12, <1>13, <1>14, <1>15 DEF Next, Poll

LEMMA Invariant == Spec => []Inv
<1>1. Init => ReloadInv /\ RunInv
  BY DEF Init, ReloadInv, RunInv
<1>2. Inv /\ [Next]_vars => Inv'
  BY TypeStep, ReloadStepInv, LoadStep, RunStep DEF Inv
<1>3. Init => Inv
  BY <1>1, TypeInit, LoadInit DEF Inv
<1> QED BY <1>2, <1>3, PTL DEF Spec

\* At rest the clients are those the configuration asks for, except where a
\* reload failed or the key strayed.
THEOREM ClientsFaithful == Spec => []Faithful
<1>1. Inv => Faithful
  BY DEF Inv, RunInv, KeyInv, Applied, Faithful, AtRest, Wanted
<1> QED BY <1>1, Invariant, PTL

\* The record of a key nobody works on says "ready" exactly when there is a
\* client.
THEOREM RecordsTruthful == Spec => []RecordTruthful
<1>1. ASSUME Inv PROVE RecordTruthful
  <2> SUFFICES ASSUME phase = "running", NEW k \in Key, k \notin strayed, Busy(k) = {}
               PROVE  \/ client[k] # None <=> record[k].status = "ready"
                      \/ record[k].status = "reloading"
    BY DEF RecordTruthful
  <2>1. KeyInv(k)
    BY <1>1 DEF Inv, RunInv
  <2>2. \A a \in Actor : ~On(a, k)
    BY DEF Busy, On
  <2> QED BY <2>1, <2>2 DEF KeyInv, Told
<1> QED BY <1>1, Invariant, PTL

\* Only a reload that applies a configuration without the client, or the end
\* of the manager, takes a client away.
THEOREM ClientsKept == Spec => SteadyKept
<1>1. ASSUME Inv, [Next]_vars, NEW k \in Key, client[k] # None, client'[k] = None
      PROVE  phase' = "loading" \/ (reload # None /\ reload.new[k] \notin Version)
  <2>1. CASE \E j \in Key : RemoveClient(j)
    <3> PICK j \in Key : RemoveClient(j)
      BY <2>1
    <3>1. reload # None /\ reload.new[j] \notin Version
      BY <1>1, ConstantsAssumption
         DEF RemoveClient, Reloading, Inv, TypeInv, TypeOK, ReloadInv, Gone, Named, Setting
    <3>2. j = k
      BY <1>1 DEF RemoveClient, Remove, Inv, TypeInv, TypeOK
    <3> QED BY <3>1, <3>2
  <2>2. CASE Restart
    BY <2>2 DEF Restart
  <2>3. ASSUME NEW a \in Actor, op[a] # None, Install(a) PROVE FALSE
    <3>1. op[a].setting # None
      BY <1>1, <2>3, ConstantsAssumption
         DEF Inv, TypeInv, TypeOK, Replacement, Connectable, Setting
    <3> QED BY <1>1, <2>3, <3>1 DEF Install, Inv, TypeInv, TypeOK
  <2>4. ASSUME NEW j \in Key, InitClient(j) PROVE FALSE
    BY <1>1, <2>4, ConstantsAssumption DEF InitClient, Inv, TypeInv, TypeOK, Setting
  <2>5. CASE client' = client
    BY <1>1, <2>5
  <2>6. ~(\E j \in Key : RemoveClient(j) \/ InitClient(j)) /\ ~Restart
        /\ ~(\E a \in Actor : op[a] # None /\ Install(a)) => client' = client
    BY <1>1 DEF Next, Edit, StartWatcher, Poll, PollSame, PollBusy, PollReload, SkipGivenUp,
       ReloadClient, WatcherInstall, WatcherClose, WatcherFail, ReloadEnd, Activate, CallerStep,
       BeginReplace, CloseOld, FailReplace, Cancelled, manager, vars, Actor
  <2> QED BY <2>1, <2>2, <2>3, <2>4, <2>5, <2>6
<1> DEFINE Kept == \A k \in Key :
          client[k] # None /\ client'[k] = None =>
              \/ phase' = "loading"
              \/ reload # None /\ reload.new[k] \notin Version
<1>2. Inv /\ [Next]_vars => [Kept]_vars
  BY <1>1
<1> QED BY <1>2, Invariant, PTL DEF SteadyKept, Spec

\* A client that runs the setting asked for is not reconnected by a reload,
\* except after a failed one.
THEOREM ReloadsNeeded == Spec => NoNeedlessReload
<1>1. ASSUME Inv, NEW k \in Key, k \notin partial, k \notin strayed, ReloadClient(k)
      PROVE  client[k] # reload.new[k]
  <2>1. /\ reload # None /\ k \in reload.updates /\ reload.new[k] \in Version
        /\ phase = "running"
    BY <1>1 DEF ReloadClient, Reloading
  <2>2. KeyInv(k) /\ k \notin reload.changed /\ k \in Updates(reload.new)
    BY <1>1, <2>1 DEF Inv, RunInv, ReloadInv
  <2>3. client[k] = Wanted(snapshot, k)
    BY <1>1, <2>2 DEF KeyInv, Applied
  <2> QED BY <2>1, <2>2, <2>3, ConstantsAssumption DEF Updates, Wanted, Setting
<1> DEFINE Needed == \A k \in Key \ (partial \cup strayed) :
                         ReloadClient(k) => client[k] # reload.new[k]
<1>2. Inv /\ [Next]_vars => [Needed]_vars
  BY <1>1
<1> QED BY <1>2, Invariant, PTL DEF NoNeedlessReload, Spec
=============================================================================
