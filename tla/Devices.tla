------------------------------ MODULE Devices ------------------------------
(***************************************************************************)
(* One WhatsApp device: its row and runtime lock in the database           *)
(* (src/lib/session-runtime-lock.ts), the manager of every application     *)
(* process (src/modules/whatsapp/manager.ts) and the instances it makes,   *)
(* with their sockets and timers (src/modules/whatsapp/instance.ts).       *)
(*                                                                         *)
(* A process runs three tasks at once: the loading of devices at the       *)
(* start and afterwards the reconciliation; one call of the owner, or of   *)
(* the message dispatcher, which starts a device it does not find; and     *)
(* the heartbeat of the lock.  Beside them every event of a socket runs a  *)
(* handler whose last step is a write to the database.  A step is what     *)
(* happens between two awaits.  Devices do not interact.                   *)
(***************************************************************************)
EXTENDS Integers, FiniteSets

CONSTANTS
  Processes,     \* application processes, in whatever order they start
  Perishable,    \* those that may be killed or shut down
  NoProcess,     \* no row in SessionRuntimeLock
  Instances,     \* bound on the WhatsAppInstance objects of a process
  NoInstance,
  MaxReconnects, \* MAX_RECONNECT_ATTEMPTS
  OwnerCalls,    \* bound on calls of the owner and the dispatcher
  Troubles       \* bound on what goes wrong: disconnects, failing calls, missed heartbeats

ASSUME DevicesAssumption ==
  /\ IsFiniteSet(Processes) /\ Perishable \subseteq Processes /\ NoProcess \notin Processes
  /\ IsFiniteSet(Instances) /\ NoInstance \notin Instances
  /\ MaxReconnects \in Nat /\ OwnerCalls \in Nat /\ Troubles \in Nat

VARIABLES
  device,     \* Session.status, and whether AuthState has credentials
  runtime,    \* the SessionRuntimeLock row: workerId, and whether it has expired
  manager,    \* per process: the entry of its map of instances, and of its lease timers
  instance,   \* per process: its instance objects
  task,       \* per process: how far each of its tasks is
  handlers,   \* steps that handlers and timers have still to take
  spent       \* what of the bounds is used up

deviceVars == <<device, runtime, manager, instance, task, handlers, spent>>

Tasks == {"load", "call", "heartbeat"}
NoLock == [holder |-> NoProcess, lease |-> "none"]
NewInstance == [stopped |-> FALSE, socket |-> "none", retries |-> 0]
Resting == [pc |-> "rest", instance |-> NoInstance]

DeviceInit ==
  /\ device \in {[status |-> "STOPPED", credentials |-> FALSE], [status |-> "CONNECTED", credentials |-> TRUE]}
  /\ runtime = NoLock
  /\ manager = [p \in Processes |-> [up |-> "down", kept |-> NoInstance, leased |-> FALSE]]
  /\ instance = [p \in Processes |-> [i \in Instances |-> NewInstance]]
  /\ task = [p \in Processes |-> [t \in Tasks |-> Resting]]
  /\ handlers = {}
  /\ spent = [calls |-> 0, troubles |-> 0]
-----------------------------------------------------------------------------
Trouble == spent.troubles < Troubles /\ spent' = [spent EXCEPT !.troubles = @ + 1]
TaskGoes(p, t, pc) == task' = [task EXCEPT ![p][t].pc = pc]
TaskRests(p, t) == task' = [task EXCEPT ![p][t] = Resting]
Status(s) == device' = [device EXCEPT !.status = s]
Step(p, i, what) == [process |-> p, instance |-> i, what |-> what]
Of(p, i) == {h \in handlers : h.process = p /\ h.instance = i}

(* An object nobody refers to any more: a new instance takes its place. *)
Unused(p, i) ==
  /\ manager[p].kept # i /\ instance[p][i].socket = "none" /\ Of(p, i) = {}
  /\ \A t \in Tasks : task[p][t].instance # i

(* clearLeaseTimer and sessionDbIds.delete, the first half of releaseLease; the
   statement that deletes the lock is a step of its own, Unlocked. *)
Unlocked(p) == IF runtime.holder = p THEN NoLock ELSE runtime
Forgets(p, i) == manager' = [manager EXCEPT ![p].kept = i, ![p].leased = FALSE]

(* acquireSessionRuntimeLock: an expired row is deleted, a row of one's own renewed. *)
LockFree(p) == runtime.lease # "live" \/ runtime.holder = p

Locks(p) == runtime' = [holder |-> p, lease |-> "live"]
-----------------------------------------------------------------------------
(* The process starts.  A code to scan does not survive a restart. *)
BootDevices(p) ==
  /\ manager[p].up = "down"
  /\ manager' = [manager EXCEPT ![p].up = "loading"]
  /\ Status(IF device.status = "PAIRING" THEN "STOPPED" ELSE device.status)
  /\ TaskGoes(p, "load", "read")
  /\ UNCHANGED <<runtime, instance, handlers, spent>>

(* loadSessions reads the device: it recovers one with credentials that was in use. *)
ReadDevice(p) ==
  /\ task[p]["load"].pc = "read"
  /\ LET used == device.status \in {"CONNECTED", "CONNECTING", "RECONNECTING"}
     IN TaskGoes(p, "load", IF ~used THEN "rest" ELSE IF device.credentials THEN "load" ELSE "idle row")
  /\ UNCHANGED <<device, runtime, manager, instance, handlers, spent>>

IdleDevice(p) ==
  /\ task[p]["load"].pc = "idle row"
  /\ Status("STOPPED")
  /\ TaskGoes(p, "load", "rest")
  /\ UNCHANGED <<runtime, manager, instance, handlers, spent>>

(* Only then the server listens, and the workers and the reconciliation run (the
   minute before its first turn is longer than the loading). *)
ServeDevices(p) ==
  /\ manager[p].up = "loading" /\ task[p]["load"].pc = "rest"
  /\ manager' = [manager EXCEPT ![p].up = "up"]
  /\ UNCHANGED <<device, runtime, instance, task, handlers, spent>>

(* Faulty variant of Reconcilable: a device that has FAILED is left alone. *)
ReconcilableConnected(p) == device.status = "CONNECTED" /\ device.credentials /\ manager[p].kept = NoInstance

(* Every minute: a device that should be up and is not in the map is started. *)
Reconcilable(p) ==
  device.status \in {"CONNECTED", "FAILED"} /\ device.credentials /\ manager[p].kept = NoInstance

Reconcile(p) ==
  /\ manager[p].up = "up" /\ task[p]["load"].pc = "rest" /\ Reconcilable(p)
  /\ TaskGoes(p, "load", "lock")
  /\ UNCHANGED <<device, runtime, manager, instance, handlers, spent>>

(* startSession, called by the owner or by the dispatch of a message. *)
CallStart(p) ==
  /\ manager[p].up = "up" /\ task[p]["call"].pc = "rest"
  /\ spent.calls < OwnerCalls
  /\ LET i == manager[p].kept IN i # NoInstance => instance[p][i].stopped
  /\ TaskGoes(p, "call", "lock")
  /\ spent' = [spent EXCEPT !.calls = @ + 1]
  /\ UNCHANGED <<device, runtime, manager, instance, handlers>>

(* acquireLease: the lock is taken, the heartbeat timer set, and the instance in the map used
   again, or a new one put there; another process that holds the lock ends the call. *)
LockDevice(p, t) ==
  /\ task[p][t].pc \in {"load", "lock"}
  /\ \/ /\ LockFree(p) /\ Locks(p)
        /\ \E i \in Instances :
             /\ IF manager[p].kept # NoInstance THEN i = manager[p].kept ELSE Unused(p, i)
             /\ manager' = [manager EXCEPT ![p].kept = i, ![p].leased = TRUE]
             /\ instance' = [instance EXCEPT ![p][i] =
                  IF manager[p].kept = i THEN [@ EXCEPT !.stopped = FALSE] ELSE NewInstance]
             /\ task' = [task EXCEPT ![p][t] =
                  [pc |-> IF task[p][t].pc = "load" THEN "init" ELSE "mark", instance |-> i]]
     \/ ~LockFree(p) /\ TaskRests(p, t) /\ UNCHANGED <<runtime, manager, instance>>
  /\ UNCHANGED <<device, handlers, spent>>

(* status: CONNECTING, and init, which ends with a new socket; where one of them
   throws, the instance leaves the map, the lock is released and FAILED written. *)
MarkConnecting(p, t) ==
  /\ task[p][t].pc = "mark"
  /\ Status("CONNECTING")
  /\ TaskGoes(p, t, "init")
  /\ UNCHANGED <<runtime, manager, instance, handlers, spent>>

Connects(p, i) == instance' = [instance EXCEPT ![p][i].socket = "opening"]

InitDevice(p, t) ==
  /\ task[p][t].pc = "init"
  /\ Connects(p, task[p][t].instance)
  /\ TaskRests(p, t)
  /\ UNCHANGED <<device, runtime, manager, handlers, spent>>

StartFails(p, t) ==
  /\ task[p][t].pc \in {"mark", "init"} /\ Trouble
  /\ Forgets(p, IF manager[p].up = "loading" THEN manager[p].kept ELSE NoInstance)
  /\ TaskGoes(p, t, IF manager[p].leased THEN "unlock failed" ELSE "failed")
  /\ UNCHANGED <<device, runtime, instance, handlers>>

WriteFailed(p, t) ==
  /\ task[p][t].pc = "failed"
  /\ Status("FAILED")
  /\ manager' = IF manager[p].up = "loading" THEN [manager EXCEPT ![p].kept = NoInstance] ELSE manager
  /\ TaskRests(p, t)
  /\ UNCHANGED <<runtime, instance, handlers, spent>>

UnlockDevice(p, t) ==
  /\ task[p][t].pc \in {"unlock", "unlock failed"}
  /\ runtime' = Unlocked(p)
  /\ IF task[p][t].pc = "unlock failed" THEN TaskGoes(p, t, "failed") ELSE TaskRests(p, t)
  /\ UNCHANGED <<device, manager, instance, handlers, spent>>
-----------------------------------------------------------------------------
(* shutdown of an instance.  Whether the end of its socket still reaches the
   handler of the instance is up to the library; if it does, it writes STOPPED. *)
ShutDown(p, i) ==
  /\ instance' = [instance EXCEPT ![p][i] = [stopped |-> TRUE, socket |-> "none", retries |-> 0]]
  /\ \/ UNCHANGED handlers
     \/ instance[p][i].socket = "open" /\ handlers' = handlers \cup {Step(p, i, "STOPPED")}

CallStop(p) ==
  /\ manager[p].up = "up" /\ task[p]["call"].pc = "rest"
  /\ spent.calls < OwnerCalls /\ spent' = [spent EXCEPT !.calls = @ + 1]
  /\ IF manager[p].kept # NoInstance
     THEN ShutDown(p, manager[p].kept) /\ TaskGoes(p, "call", "stop")
     ELSE TaskGoes(p, "call", "stopped") /\ UNCHANGED <<instance, handlers>>
  /\ UNCHANGED <<device, runtime, manager>>

(* STOPPED is written, the map cleared; it is written again, and the lock released. *)
StopInMap(p) ==
  /\ task[p]["call"].pc = "stop"
  /\ Status("STOPPED")
  /\ manager' = [manager EXCEPT ![p].kept = NoInstance]
  /\ TaskGoes(p, "call", "stopped")
  /\ UNCHANGED <<runtime, instance, handlers, spent>>

StopInDatabase(p) ==
  /\ task[p]["call"].pc = "stopped"
  /\ Status("STOPPED")
  /\ Forgets(p, manager[p].kept)
  /\ TaskGoes(p, "call", IF manager[p].leased THEN "unlock" ELSE "rest")
  /\ UNCHANGED <<runtime, instance, handlers, spent>>

(* logoutSession: the socket is told to log out, and the event that follows deletes
   the credentials; without a socket the database is written here. *)
CallLogout(p) ==
  /\ manager[p].up = "up" /\ task[p]["call"].pc = "rest"
  /\ spent.calls < OwnerCalls /\ spent' = [spent EXCEPT !.calls = @ + 1]
  /\ LET i == manager[p].kept
     IN IF i # NoInstance /\ instance[p][i].socket \in {"opening", "open"}
        THEN /\ instance' = [instance EXCEPT ![p][i].socket = "none"]
             /\ handlers' = handlers \cup {Step(p, i, "LOGGED_OUT")}
             /\ UNCHANGED device
        ELSE /\ device' = [status |-> "LOGGED_OUT", credentials |-> FALSE]
             /\ UNCHANGED <<instance, handlers>>
  /\ TaskGoes(p, "call", "leave")
  /\ UNCHANGED <<runtime, manager>>

LeaveDevice(p) ==
  /\ task[p]["call"].pc = "leave"
  /\ Forgets(p, NoInstance)
  /\ TaskGoes(p, "call", IF manager[p].leased THEN "unlock" ELSE "rest")
  /\ UNCHANGED <<device, runtime, instance, handlers, spent>>
-----------------------------------------------------------------------------
(* The heartbeat of the lock, every 15 seconds: it renews the row it holds, expired or
   not.  Where the row is another's, or the call throws, the local instance is shut
   down and FAILED written, unless the database is out for all three tries. *)
RenewLock(p) ==
  /\ manager[p].leased /\ task[p]["heartbeat"].pc = "rest"
  /\ runtime = [holder |-> p, lease |-> "expired"] /\ Locks(p)
  /\ UNCHANGED <<device, manager, instance, task, handlers, spent>>

LoseLock(p) ==
  /\ manager[p].leased /\ task[p]["heartbeat"].pc = "rest"
  /\ IF runtime.holder = p THEN Trouble ELSE UNCHANGED spent
  /\ IF manager[p].kept # NoInstance THEN ShutDown(p, manager[p].kept) ELSE UNCHANGED <<instance, handlers>>
  /\ Forgets(p, NoInstance)
  /\ TaskGoes(p, "heartbeat", "failed")
  /\ UNCHANGED <<device, runtime>>

FailureUnwritten(p) ==
  /\ task[p]["heartbeat"].pc = "failed" /\ Trouble
  /\ TaskRests(p, "heartbeat")
  /\ UNCHANGED <<device, runtime, manager, instance, handlers>>
-----------------------------------------------------------------------------
(* handleConnectionUpdate.  A device without credentials shows a code, *)
ShowCode(p, i) ==
  /\ instance[p][i].socket = "opening" /\ ~instance[p][i].stopped /\ ~device.credentials
  /\ Step(p, i, "PAIRING") \notin handlers /\ device.status # "PAIRING"
  /\ instance' = [instance EXCEPT ![p][i].retries = 0]
  /\ handlers' = handlers \cup {Step(p, i, "PAIRING")}
  /\ UNCHANGED <<device, runtime, manager, task, spent>>

(* and when it is scanned, creds.update stores credentials. *)
ScanCode(p, i) ==
  /\ instance[p][i].socket = "opening" /\ ~device.credentials /\ device.status = "PAIRING"
  /\ device' = [device EXCEPT !.credentials = TRUE]
  /\ UNCHANGED <<runtime, manager, instance, task, handlers, spent>>

SocketOpens(p, i) ==
  /\ instance[p][i].socket = "opening" /\ device.credentials
  /\ instance' = [instance EXCEPT ![p][i] = [stopped |-> FALSE, socket |-> "open", retries |-> 0]]
  /\ handlers' = handlers \cup {Step(p, i, "CONNECTED")}
  /\ UNCHANGED <<device, runtime, manager, task, spent>>

(* An unexpected end is followed by a bounded number of attempts to connect again. *)
SocketCloses(p, i) ==
  /\ instance[p][i].socket \in {"opening", "open"} /\ Trouble
  /\ LET again == ~instance[p][i].stopped /\ instance[p][i].retries < MaxReconnects
     IN /\ instance' = [instance EXCEPT ![p][i] =
             IF again THEN [@ EXCEPT !.socket = "closed", !.retries = @ + 1]
             ELSE [stopped |-> TRUE, socket |-> "none", retries |-> 0]]
        /\ handlers' = handlers \cup {Step(p, i, IF again THEN "RECONNECTING" ELSE "STOPPED")}
  /\ UNCHANGED <<device, runtime, manager, task>>

DeviceUnlinked(p, i) ==
  /\ instance[p][i].socket \in {"opening", "open"} /\ Trouble
  /\ instance' = [instance EXCEPT ![p][i].socket = "none"]
  /\ handlers' = handlers \cup {Step(p, i, "LOGGED_OUT")}
  /\ UNCHANGED <<device, runtime, manager, task>>

(* checkHealth finds the connection silent: recoverSilentConnection drops the socket. *)
SocketSilent(p, i) ==
  /\ instance[p][i].socket = "open" /\ ~instance[p][i].stopped /\ Trouble
  /\ instance' = [instance EXCEPT ![p][i].socket = "none"]
  /\ handlers' = handlers \cup {Step(p, i, "SILENT")}
  /\ UNCHANGED <<device, runtime, manager, task>>

(* The steps of handlers after their awaits, whatever has happened meanwhile: the
   status is written; an ended instance is removed from the map by the name of the
   device (removeInstance), and the lock deleted later. *)
Following(h) ==
  CASE h.what = "RECONNECTING" -> {[h EXCEPT !.what = "timer"]}
    [] h.what = "SILENT" -> {[h EXCEPT !.what = "again"]}
    [] h.what \in {"STOPPED", "LOGGED_OUT"} /\ manager[h.process].leased -> {[h EXCEPT !.what = "unlock"]}
    [] OTHER -> {}

HandlerWrites(h) ==
  /\ h.what \in {"PAIRING", "CONNECTED", "RECONNECTING", "SILENT", "STOPPED", "LOGGED_OUT", "FAILED"}
  /\ device' = [status |-> IF h.what = "SILENT" THEN "RECONNECTING" ELSE h.what,
                credentials |-> device.credentials /\ h.what # "LOGGED_OUT"]
  /\ IF h.what \in {"STOPPED", "LOGGED_OUT"} THEN Forgets(h.process, NoInstance) ELSE UNCHANGED manager
  /\ handlers' = (handlers \ {h}) \cup Following(h)
  /\ UNCHANGED <<runtime, instance, task, spent>>

HandlerUnlocks(h) ==
  /\ h.what = "unlock"
  /\ runtime' = Unlocked(h.process)
  /\ handlers' = handlers \ {h}
  /\ UNCHANGED <<device, manager, instance, task, spent>>

(* The timer of a reconnect looks whether the instance was stopped, and calls init. *)
TimerFires(h) ==
  /\ h.what = "timer"
  /\ handlers' = (handlers \ {h}) \cup
       (IF instance[h.process][h.instance].stopped THEN {} ELSE {[h EXCEPT !.what = "init"]})
  /\ UNCHANGED <<device, runtime, manager, instance, task, spent>>

(* init without a task that waits for it; after a failed health check its failure is
   written, and nothing is removed. *)
HandlerInits(h) ==
  /\ h.what \in {"init", "again"}
  /\ \/ /\ Connects(h.process, h.instance)
        /\ handlers' = handlers \ {h}
        /\ UNCHANGED spent
     \/ /\ Trouble
        /\ handlers' = (handlers \ {h}) \cup (IF h.what = "again" THEN {[h EXCEPT !.what = "FAILED"]} ELSE {})
        /\ UNCHANGED instance
  /\ UNCHANGED <<device, runtime, manager, task>>
-----------------------------------------------------------------------------
ProcessEnds(p) ==
  /\ manager' = [manager EXCEPT ![p] = [up |-> "gone", kept |-> NoInstance, leased |-> FALSE]]
  /\ instance' = [instance EXCEPT ![p] = [i \in Instances |-> NewInstance]]
  /\ task' = [task EXCEPT ![p] = [t \in Tasks |-> Resting]]
  /\ handlers' = {h \in handlers : h.process # p}
  /\ UNCHANGED spent

KillProcess(p) ==
  /\ p \in Perishable /\ manager[p].up \in {"loading", "up"}
  /\ ProcessEnds(p)
  /\ UNCHANGED <<device, runtime>>

(* shutdownAll: every instance is shut down and its lock released; a handler whose
   socket it ends may still write before the process exits. *)
ShutDownProcess(p) ==
  /\ p \in Perishable /\ manager[p].up = "up"
  /\ runtime' = IF manager[p].leased THEN Unlocked(p) ELSE runtime
  /\ \/ UNCHANGED device
     \/ /\ manager[p].kept # NoInstance /\ instance[p][manager[p].kept].socket = "open"
        /\ Status("STOPPED")
  /\ ProcessEnds(p)

(* SESSION_LOCK_TTL_MS pass without a heartbeat. *)
Unattended == \A p \in Processes : runtime.holder = p => ~manager[p].leased
LockExpires ==
  /\ runtime.lease = "live"
  /\ IF Unattended THEN UNCHANGED spent ELSE Trouble
  /\ runtime' = [runtime EXCEPT !.lease = "expired"]
  /\ UNCHANGED <<device, manager, instance, task, handlers>>

TaskStep(p, t) ==
  LockDevice(p, t) \/ MarkConnecting(p, t) \/ InitDevice(p, t) \/ WriteFailed(p, t) \/ UnlockDevice(p, t)
LoadStep(p) == ReadDevice(p) \/ IdleDevice(p) \/ ServeDevices(p)
CallStep(p) == StopInMap(p) \/ StopInDatabase(p) \/ LeaveDevice(p)
HandlerStep(h) == HandlerWrites(h) \/ HandlerUnlocks(h) \/ TimerFires(h) \/ HandlerInits(h)

DeviceNext ==
  \/ \E p \in Processes :
       \/ BootDevices(p) \/ LoadStep(p) \/ Reconcile(p) \/ RenewLock(p) \/ LoseLock(p) \/ FailureUnwritten(p)
       \/ CallStart(p) \/ CallStop(p) \/ CallLogout(p) \/ CallStep(p)
       \/ KillProcess(p) \/ ShutDownProcess(p)
       \/ \E t \in Tasks : TaskStep(p, t) \/ StartFails(p, t)
       \/ \E i \in Instances : \/ ShowCode(p, i) \/ ScanCode(p, i) \/ SocketOpens(p, i)
                                \/ SocketCloses(p, i) \/ DeviceUnlinked(p, i) \/ SocketSilent(p, i)
  \/ \E h \in handlers : HandlerStep(h)
  \/ LockExpires

(* A process that runs goes on with its tasks and handlers, reconciles every minute and
   renews its lock; a socket that connects gets there, unless it is closed; a process
   that does not perish is started; and a lock nobody renews runs out. *)
DeviceFairness ==
  /\ \A p \in Processes :
       /\ WF_deviceVars(LoadStep(p)) /\ WF_deviceVars(CallStep(p)) /\ WF_deviceVars(Reconcile(p))
       /\ WF_deviceVars(RenewLock(p)) /\ WF_deviceVars(runtime.holder # p /\ LoseLock(p))
       /\ \A t \in Tasks : WF_deviceVars(TaskStep(p, t))
       /\ \A i \in Instances : WF_deviceVars(SocketOpens(p, i))
  /\ \A p \in Processes \ Perishable : WF_deviceVars(BootDevices(p))
  /\ WF_deviceVars(\E h \in handlers : HandlerStep(h))
  /\ WF_deviceVars(Unattended /\ LockExpires)

DeviceSpec == DeviceInit /\ [][DeviceNext]_deviceVars
FairDeviceSpec == DeviceSpec /\ DeviceFairness
-----------------------------------------------------------------------------
DeviceTypeOK ==
  /\ device \in [status : {"STOPPED", "CONNECTING", "PAIRING", "CONNECTED", "RECONNECTING", "FAILED", "LOGGED_OUT"},
                 credentials : BOOLEAN]
  /\ runtime \in [holder : Processes \cup {NoProcess}, lease : {"none", "live", "expired"}]
  /\ (runtime.holder = NoProcess) <=> (runtime.lease = "none")
  /\ \A p \in Processes : manager[p].kept \in Instances \cup {NoInstance}

(* A device that was up, or that FAILED by itself, and that no process has an instance
   of, comes back: some process makes an instance, or its status says that the owner
   has something to do, or that an attempt is under way. *)
Absent == \A p \in Processes : manager[p].kept = NoInstance
Wanted == device.status \in {"CONNECTED", "FAILED"} /\ device.credentials
DeviceComesBack == (Wanted /\ Absent) ~> ~(Wanted /\ Absent)

=============================================================================
