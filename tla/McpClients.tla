----------------------------- MODULE McpClients -----------------------------
(***************************************************************************)
(* The MCP clients of the process: the manager that connects, replaces and *)
(* removes them, the watcher that reloads them when the configuration file *)
(* changes, the activations that reconnect a client that is not ready, and *)
(* the restart that builds manager and watcher anew.                       *)
(*                                                                         *)
(* Everything runs on one event loop and the sections under the manager's  *)
(* lock never await, so a step is what runs between two awaits: the awaits *)
(* are the connecting of a client and the closing of an old one.  Scoped   *)
(* overlays are not part of this module.                                   *)
(***************************************************************************)
EXTENDS Naturals

CONSTANTS
    Key,          \* clients the configuration may name
    Version,      \* enabled configurations of a client
    Caller,       \* concurrent calls of tools that may activate a client
    Target,       \* the client whose tool a caller calls
    Configs,      \* contents the file may have, of [Key -> Setting]
    GiveUpAfter,  \* failures after which a client is skipped: 3 in the code
    None,         \* no client, no configuration, no work
    MaxEdits,     \* bound on the edits of the file
    MaxRestarts   \* bound on the restarts of the services

\* What the file says of a client; what a client may be made from.
Setting == Version \cup {"disabled", "absent"}
Connectable == Version \cup {"disabled"}

\* A replacement under way: its new client, whether that is connecting or the
\* old one closing, and the configuration of the client it found.
Replacement ==
    [key : Key, setting : Connectable, stage : {"connecting", "closing"},
     steady : Connectable \cup {None}]

\* A reload: the configuration and the time it goes to, the keys it has yet
\* to update and to remove, whether all went well, and what it changed.
Reload ==
    [new : [Key -> Setting], stamp : Nat, updates : SUBSET Key, gone : SUBSET Key,
     ok : BOOLEAN, changed : SUBSET Key]

ASSUME ConstantsAssumption ==
    /\ None \notin Setting \cup Replacement \cup Reload
    /\ {"absent", "disabled"} \cap Version = {}
    /\ "watcher" \notin Caller /\ Target \in [Caller -> Key]
    /\ Configs \subseteq [Key -> Setting]
    /\ GiveUpAfter \in Nat \ {0}
    /\ MaxEdits \in Nat /\ MaxRestarts \in Nat

VARIABLES
    file,       \* the MCP section of the configuration file
    stamp,      \* its modification time, as the number of edits
    phase,      \* "loading", "running", or "down" after a restart that failed
    boot,       \* the configuration the manager is built from
    waiting,    \* keys of boot not initialised yet
    restarts,   \* restarts so far
    snapshot,   \* the watcher's last fully loaded configuration
    seen,       \* the modification time it goes with
    failures,   \* per key: the setting that failed and how often
    reload,     \* the watcher's background reload
    client,     \* the connected client of a key, named by its setting
    config,     \* the configuration the manager remembers for a key
    record,     \* the runtime record of a key
    op,         \* the replacement each actor has under way
    partial,    \* history: keys changed by a reload that did not succeed
    strayed     \* history: keys changed by other means than one reload at a time

manager == <<client, config, record>>
watcher == <<snapshot, seen, failures, reload>>
startup == <<phase, boot, waiting, restarts>>
vars == <<file, stamp, startup, watcher, manager, op, partial, strayed>>

-----------------------------------------------------------------------------
Actor == Caller \cup {"watcher"}

\* A record's status, whether it is marked dirty or pending, and whether the
\* configuration it was made from is an enabled one.
Record(status, dirty, setting) ==
    [status |-> status, dirty |-> dirty, enabled |-> setting # "disabled"]
Statuses == {"none", "disabled", "ready", "failed", "reloading", "removed"}

\* The client a configuration asks for.
Wanted(mcp, k) == IF mcp[k] \in Version THEN mcp[k] ELSE None

NoFailure == [of |-> None, count |-> 0]
Unloaded == [k \in Key |-> None]
Unrecorded == [k \in Key |-> Record("none", FALSE, None)]
Named(mcp) == {k \in Key : mcp[k] # "absent"}

Init ==
    /\ file \in Configs /\ stamp = 0
    /\ phase = "loading" /\ boot = file /\ waiting = Named(file) /\ restarts = 0
    /\ snapshot = file /\ seen = 0 /\ failures = [k \in Key |-> NoFailure] /\ reload = None
    /\ client = Unloaded /\ config = Unloaded
    /\ record = Unrecorded
    /\ op = [a \in Actor |-> None]
    /\ partial = {} /\ strayed = {}

-----------------------------------------------------------------------------
(* The configuration file: an operator's edit of any number of clients, or *)
(* of a section that is none of the watcher's business.                    *)

Edit ==
    /\ stamp < MaxEdits
    /\ stamp' = stamp + 1
    /\ file' \in Configs
    /\ UNCHANGED <<startup, watcher, manager, op, partial, strayed>>

-----------------------------------------------------------------------------
(* Start and restart.                                                      *)

\* The clients are initialised one after the other; one that does not
\* connect is recorded as failed, and at a restart, which is strict, its
\* error ends the restart with nothing running.
InitClient(k) ==
    /\ phase = "loading" /\ k \in waiting
    /\ waiting' = waiting \ {k}
    /\ config' = [config EXCEPT ![k] = boot[k]]
    /\ \/ /\ boot[k] = "disabled"
          /\ record' = [record EXCEPT ![k] = Record("disabled", FALSE, boot[k])]
          /\ UNCHANGED <<phase, client>>
       \/ /\ boot[k] \in Version
          /\ client' = [client EXCEPT ![k] = boot[k]]
          /\ record' = [record EXCEPT ![k] = Record("ready", FALSE, boot[k])]
          /\ UNCHANGED phase
       \/ /\ boot[k] \in Version
          /\ record' = [record EXCEPT ![k] = Record("failed", FALSE, boot[k])]
          /\ phase' = IF restarts > 0 THEN "down" ELSE phase
          /\ UNCHANGED client
    /\ UNCHANGED <<file, stamp, boot, restarts, watcher, op, partial, strayed>>

\* The watcher takes its snapshot from the file as it is when it starts,
\* which may no longer be the configuration the clients were built from.
StartWatcher ==
    /\ phase = "loading" /\ waiting = {}
    /\ phase' = "running"
    /\ snapshot' = file /\ seen' = stamp
    /\ strayed' = {k \in Key : boot[k] # file[k] \/ record[k].status = "failed"}
    /\ UNCHANGED <<file, stamp, boot, waiting, restarts, failures, reload, manager, op, partial>>

\* The services are restarted: the configuration is loaded, the watcher is
\* stopped with its reload, the manager is closed, and a new one is built.
\* Calls still under way end in the old manager, which nothing reads again.
Restart ==
    /\ phase \in {"running", "down"} /\ restarts < MaxRestarts
    /\ restarts' = restarts + 1
    /\ phase' = "loading" /\ boot' = file /\ waiting' = Named(file)
    /\ snapshot' = file /\ seen' = stamp
    /\ failures' = [k \in Key |-> NoFailure] /\ reload' = None
    /\ client' = Unloaded /\ config' = Unloaded /\ record' = Unrecorded
    /\ op' = [a \in Actor |-> None]
    /\ partial' = {} /\ strayed' = {}
    /\ UNCHANGED <<file, stamp>>

-----------------------------------------------------------------------------
(* The manager: replace_client, in the steps of its awaits, and            *)
(* remove_client.                                                          *)

Busy(k) == {a \in Actor : op[a] # None /\ op[a].key = k}

\* The configuration the manager remembers, or else the one it is given.
Known(k, setting) == IF config[k] # None THEN config[k] ELSE setting

\* A bug: the old client is dropped before the new one is connected.
BeginReplaceDropping(a, k, setting) ==
    /\ op' = [op EXCEPT ![a] = [key |-> k, setting |-> setting, stage |-> "connecting",
                                steady |-> IF client[k] # None THEN Known(k, setting) ELSE None]]
    /\ record' = [record EXCEPT ![k] = Record("reloading", client[k] # None, Known(k, setting))]
    /\ client' = [client EXCEPT ![k] = None]
    /\ UNCHANGED config

BeginReplace(a, k, setting) ==
    /\ op' = [op EXCEPT ![a] = [key |-> k, setting |-> setting, stage |-> "connecting",
                                steady |-> IF client[k] # None THEN Known(k, setting) ELSE None]]
    /\ record' = [record EXCEPT ![k] = Record("reloading", client[k] # None, Known(k, setting))]
    /\ UNCHANGED <<client, config>>

\* The new client is connected: it takes the place of the one that is there
\* now, which is then closed.
Install(a) ==
    LET k == op[a].key IN
    /\ op[a].stage = "connecting"
    /\ client' = [client EXCEPT ![k] = op[a].setting]
    /\ config' = [config EXCEPT ![k] = op[a].setting]
    /\ record' = [record EXCEPT ![k] = Record("ready", FALSE, op[a].setting)]
    /\ op' = [op EXCEPT ![a] = IF client[k] = None THEN None
                               ELSE [op[a] EXCEPT !.stage = "closing"]]

\* Closing the old client may fail, and is then noted in the record.
CloseOld(a) ==
    LET k == op[a].key IN
    /\ op[a].stage = "closing"
    /\ op' = [op EXCEPT ![a] = None]
    /\ record' \in {record, [record EXCEPT ![k] = Record("ready", FALSE, op[a].setting)]}
    /\ UNCHANGED <<client, config>>

\* A bug: a failed replacement is recorded as if there had been no client.
FailedRecord(a) == Record("failed", TRUE, op[a].setting)

\* The record after a client did not connect, or not in time: it says what
\* was there when the replacement began.
SteadyRecord(a) ==
    IF op[a].steady # None THEN Record("ready", TRUE, op[a].steady)
    ELSE Record("failed", TRUE, op[a].setting)

FailReplace(a) ==
    LET k == op[a].key IN
    /\ op[a].stage = "connecting"
    /\ op' = [op EXCEPT ![a] = None]
    /\ record' = [record EXCEPT ![k] = SteadyRecord(a)]
    /\ UNCHANGED <<client, config>>

Remove(k) ==
    /\ client' = [client EXCEPT ![k] = None]
    /\ config' = [config EXCEPT ![k] = None]
    /\ record' = IF record[k].status = "none" \/ config[k] = None THEN record
                 ELSE [record EXCEPT ![k] = Record("removed", FALSE, config[k])]

\* A client whose reload has to wait is marked, whatever its status.
Pending(k) ==
    Record(IF client[k] # None THEN "ready"
           ELSE IF record[k].status = "none" THEN "failed" ELSE record[k].status,
           TRUE, Known(k, file[k]))

-----------------------------------------------------------------------------
(* The watcher's poll.                                                     *)

Changed == phase = "running" /\ stamp # seen

\* The file was written but its MCP section is the one last loaded.
PollSame ==
    /\ Changed /\ file = snapshot
    /\ seen' = stamp
    /\ UNCHANGED <<file, stamp, startup, snapshot, failures, reload, manager, op, partial, strayed>>

\* A bug: the difference found during a reload counts as seen.
PollBusySeen ==
    /\ Changed /\ file # snapshot /\ reload # None
    /\ seen' = stamp
    /\ UNCHANGED <<file, stamp, startup, snapshot, failures, reload, manager, op, partial, strayed>>

\* A reload is still running: the clients concerned are marked, and the next
\* poll will find the same difference.
PollBusy ==
    /\ Changed /\ file # snapshot /\ reload # None
    /\ record' = [k \in Key |-> IF file[k] \in Version /\ file[k] # snapshot[k]
                                THEN Pending(k) ELSE record[k]]
    /\ UNCHANGED <<file, stamp, startup, watcher, client, config, op, partial, strayed>>

\* What a reload has to do: replace the clients enabled under a new setting,
\* remove those disabled, then remove those no longer named.

\* A bug: a client that was disabled is not a changed one.
UpdatesOfEnabled(mcp) ==
    {k \in Key : snapshot[k] \in Version /\ mcp[k] \in Setting \ {"absent", snapshot[k]}}

Updates(mcp) ==
    {k \in Key : \/ mcp[k] \in Version /\ mcp[k] # snapshot[k]
                 \/ mcp[k] = "disabled" /\ snapshot[k] \in Version}
Gone(mcp) == Named(snapshot) \ Named(mcp)

PollReload ==
    /\ Changed /\ file # snapshot /\ reload = None
    /\ reload' = [new |-> file, stamp |-> stamp, updates |-> Updates(file),
                  gone |-> Gone(file), ok |-> TRUE, changed |-> {}]
    /\ UNCHANGED <<file, stamp, startup, snapshot, seen, failures, manager, op, partial, strayed>>

Poll == PollSame \/ PollBusy \/ PollReload

-----------------------------------------------------------------------------
(* The background reload, one client at a time.                            *)

Reloading == phase = "running" /\ reload # None /\ op["watcher"] = None

\* The reload is done with k, whose client it changed.
ReloadDid(k) ==
    reload' = [reload EXCEPT !.updates = @ \ {k}, !.gone = @ \ {k}, !.changed = @ \cup {k}]
ReloadFailed(k) ==
    reload' = [reload EXCEPT !.updates = @ \ {k}, !.ok = FALSE]

\* The client failed too often under this very setting.
GivenUp(k, setting) == failures[k] = [of |-> setting, count |-> GiveUpAfter]
Tracked(k, setting) ==
    IF failures[k].of = setting
    THEN [of |-> setting, count |-> failures[k].count + 1]
    ELSE [of |-> setting, count |-> 1]

\* History: the watcher changed k; unless another actor is changing it too,
\* or there was nothing to change, the key is again where the reload put it.
Settled(k) ==
    /\ partial' = partial \ {k}
    /\ strayed' = IF ~(Busy(k) \subseteq {"watcher"}) THEN strayed \cup {k}
                  ELSE IF config'[k] = config[k] /\ config[k] = None THEN strayed
                  ELSE strayed \ {k}

SkipGivenUp(k) ==
    /\ Reloading /\ k \in reload.updates
    /\ reload.new[k] \in Version /\ GivenUp(k, reload.new[k])
    /\ ReloadFailed(k)
    /\ UNCHANGED <<file, stamp, startup, snapshot, seen, failures, manager, op, partial, strayed>>

ReloadClient(k) ==
    /\ Reloading /\ k \in reload.updates
    /\ reload.new[k] \in Version /\ ~GivenUp(k, reload.new[k])
    /\ BeginReplace("watcher", k, reload.new[k])
    /\ strayed' = IF Busy(k) = {} THEN strayed ELSE strayed \cup {k}
    /\ UNCHANGED <<file, stamp, startup, watcher, partial>>

RemoveClient(k) ==
    /\ Reloading
    /\ \/ k \in reload.updates /\ reload.new[k] = "disabled"
       \/ k \in reload.gone /\ reload.updates = {}
    /\ Remove(k)
    /\ failures' = [failures EXCEPT ![k] = NoFailure]
    /\ ReloadDid(k)
    /\ Settled(k)
    /\ UNCHANGED <<file, stamp, startup, snapshot, seen, op>>

\* The replacement the watcher waits for: installed, and then done with or
\* done once the old client is closed; or failed.
WatcherInstall ==
    LET k == op["watcher"].key IN
    /\ op["watcher"] # None /\ Install("watcher")
    /\ failures' = [failures EXCEPT ![k] = NoFailure]
    /\ ReloadDid(k)
    /\ Settled(k)
    /\ UNCHANGED <<file, stamp, startup, snapshot, seen>>

WatcherClose ==
    /\ op["watcher"] # None /\ CloseOld("watcher")
    /\ UNCHANGED <<file, stamp, startup, watcher, partial, strayed>>

WatcherFail ==
    LET k == op["watcher"].key IN
    /\ op["watcher"] # None /\ FailReplace("watcher")
    /\ failures' = [failures EXCEPT ![k] = Tracked(k, op["watcher"].setting)]
    /\ ReloadFailed(k)
    /\ UNCHANGED <<file, stamp, startup, snapshot, seen, partial, strayed>>

\* A bug: the snapshot advances although a client failed.
AdvancesAlways == TRUE

\* A bug: the snapshot stays what it was, and is compared with again.
LoadedBefore == snapshot

Loaded == reload.new

\* Only a reload that did everything becomes the snapshot.
Advances == reload.ok

ReloadEnd ==
    /\ Reloading /\ reload.updates = {} /\ reload.gone = {}
    /\ reload' = None
    /\ \/ /\ Advances
          /\ snapshot' = Loaded /\ seen' = reload.stamp
          /\ UNCHANGED partial
       \/ /\ ~Advances
          /\ partial' = partial \cup reload.changed
          /\ UNCHANGED <<snapshot, seen>>
    /\ UNCHANGED <<file, stamp, startup, failures, manager, op, strayed>>

-----------------------------------------------------------------------------
(* Activation: a call of a tool of k finds the record not ready, or marked *)
(* dirty, and reconnects the client under the configuration the manager    *)
(* remembers, or else the one the catalog reads from the file.             *)

Unready(k) ==
    /\ record[k].enabled /\ record[k].status # "disabled"
    /\ record[k].status # "ready" \/ record[k].dirty

Activate(c) ==
    LET k == Target[c] IN
    /\ phase = "running" /\ op[c] = None
    /\ file[k] \in Version
    /\ Unready(k)
    /\ BeginReplace(c, k, Known(k, file[k]))
    /\ strayed' = IF Busy(k) = {} /\ config[k] \in Version THEN strayed ELSE strayed \cup {k}
    /\ UNCHANGED <<file, stamp, startup, watcher, partial>>

\* The call is cancelled while it connects, by its own timeout or with its
\* turn: no handler runs, and the record keeps saying "reloading".
Cancelled(c) ==
    /\ op[c].stage = "connecting"
    /\ op' = [op EXCEPT ![c] = None]
    /\ UNCHANGED <<client, config, record>>

CallerStep(c) ==
    /\ op[c] # None
    /\ Install(c) \/ CloseOld(c) \/ FailReplace(c) \/ Cancelled(c)
    /\ UNCHANGED <<file, stamp, startup, watcher, partial, strayed>>

-----------------------------------------------------------------------------
Next ==
    \/ Edit
    \/ \E k \in Key : InitClient(k)
    \/ StartWatcher \/ Restart
    \/ Poll
    \/ \E k \in Key : SkipGivenUp(k) \/ ReloadClient(k) \/ RemoveClient(k)
    \/ WatcherInstall \/ WatcherClose \/ WatcherFail
    \/ ReloadEnd
    \/ \E c \in Caller : Activate(c) \/ CallerStep(c)

Spec == Init /\ [][Next]_vars

ReloadStep ==
    \/ \E k \in Key : SkipGivenUp(k) \/ ReloadClient(k) \/ RemoveClient(k)
    \/ WatcherInstall \/ WatcherClose \/ WatcherFail
    \/ ReloadEnd

\* The loop runs: initialisation goes on, the file is polled every two
\* seconds, a reload goes on, and a connection or a closing ends, by its
\* timeout at the latest.  Edits, calls and restarts need not come.
FairSpec ==
    /\ Spec
    /\ WF_vars(StartWatcher \/ \E k \in Key : InitClient(k))
    /\ WF_vars(Poll) /\ WF_vars(ReloadStep)
    /\ \A c \in Caller : WF_vars(CallerStep(c))

-----------------------------------------------------------------------------
\* Every variable keeps its type; only the watcher's own reload has it
\* replace a client.
TypeOK ==
    /\ file \in [Key -> Setting] /\ stamp \in 0..MaxEdits
    /\ phase \in {"loading", "running", "down"}
    /\ boot \in [Key -> Setting] /\ waiting \subseteq Key /\ restarts \in 0..MaxRestarts
    /\ snapshot \in [Key -> Setting] /\ seen \in 0..stamp
    /\ failures \in [Key -> [of : Version \cup {None}, count : 0..GiveUpAfter]]
    /\ reload \in Reload \cup {None}
    /\ reload # None => reload.stamp \leq stamp
    /\ client \in [Key -> Connectable \cup {None}]
    /\ config \in [Key -> Connectable \cup {None}]
    /\ record \in [Key -> [status : Statuses, dirty : BOOLEAN, enabled : BOOLEAN]]
    /\ op \in [Actor -> Replacement \cup {None}]
    /\ op["watcher"] # None => reload # None
    /\ partial \subseteq Key /\ strayed \subseteq Key

\* When the watcher has nothing left to do for the file as it is, it has
\* loaded exactly that file: no edit is lost to a poll that came during a
\* reload, or to a reload that ends after the file moved on.
NoMissedEdit ==
    phase = "running" /\ seen = stamp => snapshot = file

AtRest == phase = "running" /\ reload = None /\ snapshot = file

\* At rest under the configuration last loaded, the clients are those it
\* asks for, except for keys a failed reload changed and keys that strayed:
\* not connected at start, edited during the start, or activated during
\* their reload or before it.  The exception for a failed reload is needed when
\* the file is put back after it: its hash is then the one of the snapshot, and
\* the keys that were changed stay as the failed reload left them.
Faithful ==
    AtRest => \A k \in Key \ (partial \cup strayed) : client[k] = Wanted(file, k)

\* What the record says of a key nobody is working on is true of its client,
\* so that a call is refused, or heals, exactly when there is no client; only
\* a cancelled call leaves a record that says its key is reloading.
RecordTruthful ==
    phase = "running" =>
        \A k \in Key \ strayed :
            Busy(k) = {} => \/ client[k] # None <=> record[k].status = "ready"
                            \/ record[k].status = "reloading"

\* A client goes only because a reload applies a configuration that does not
\* enable it, or with its manager: neither a replacement that fails nor the
\* failure of another client takes it away.
SteadyKept ==
    [][\A k \in Key :
          client[k] # None /\ client'[k] = None =>
              \/ phase' = "loading"
              \/ reload # None /\ reload.new[k] \notin Version]_vars

\* The watcher reconnects a client that already runs the setting asked for
\* only when an earlier reload failed, or the key strayed: a working client
\* is not cut off by a poll that has nothing new for it.
NoNeedlessReload ==
    [][\A k \in Key \ (partial \cup strayed) :
          ReloadClient(k) => client[k] # reload.new[k]]_vars

\* Once edits stop, every key is served as the file says, unless it has
\* failed three times as it is, or strayed, or was put back to the setting
\* last loaded after a reload that failed, or a failed restart left nothing
\* running; whether other clients connect or not.
EveryKeyServed ==
    \A k \in Key :
        <>[](\/ phase = "down"
             \/ GivenUp(k, file[k])
             \/ k \in strayed
             \/ k \in partial /\ Wanted(file, k) = Wanted(snapshot, k)
             \/ client[k] = Wanted(file, k))
=============================================================================
