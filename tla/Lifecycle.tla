------------------------------ MODULE Lifecycle ------------------------------
(***************************************************************************)
(* src/src/server.rs with src/src/registry.rs: how projects come and go.   *)
(* The processes are the main task (Server::run), one task per admin       *)
(* connection (handle_admin_connection: register and unregister), one      *)
(* accept loop per registration (run_project_socket) and the connection    *)
(* tasks each loop spawned.                                                *)
(*                                                                         *)
(* A registration is an instance: one Project with its Notify, listener    *)
(* and accept loop.  A socket path holds the instance whose bind created   *)
(* the file there.  Notify::notify_waiters reaches only a Notified future  *)
(* that exists at that moment: a loop that is between two `select!'s does  *)
(* not see it.  A step of the model ends where another task can observe    *)
(* the state: at an await, or between two separately locked maps.          *)
(* Requests that are answered with an error and change nothing (unknown or *)
(* existing project, unusable manifest) are stuttering steps.              *)
(***************************************************************************)
EXTENDS Integers, FiniteSets

CONSTANTS Names,       \* project names
          Handlers,    \* admin connections that can be open at a time
          Owns,        \* Owns[h]: the names the client of h manages
          MaxInst,     \* bound: registrations ever made
          MaxConns,    \* bound: open connections per project
          MaxCrashes,  \* bound: times the daemon is killed and restarted
          IOErrors     \* whether bind and chmod of a project socket may fail
                       \* (removing its file at the end is taken to succeed)

ASSUME LifecycleAssumption ==
  /\ Owns \in [Handlers -> SUBSET Names]
  /\ MaxInst \in Nat /\ MaxConns \in Nat /\ MaxCrashes \in Nat
  /\ IOErrors \in BOOLEAN

Inst  == 1..MaxInst
None  == 0
Stale == -1            \* a socket file no listener of this process is behind

VARIABLES
  registry,       \* ProjectRegistry.inner
  project_tasks,  \* Server.project_tasks: whose JoinHandle is stored
  sockfile,       \* the file at <socket_dir>/<name>.sock
  loop,           \* where each accept loop is
  notified,       \* its current Notified future has fired
  conns,          \* its connection tasks (aborted ones, once it is done)
  op,             \* the request each admin connection works on
  main,           \* where Server::run is
  sigterm,        \* "none", or whether the signal was "caught" or "lost"
  pending,        \* the handles drain_project_loops took and still awaits
  unlink,         \* the names whose sockets the shutdown is about to remove
  expired,        \* shutdown_deadline has passed
  late,           \* ghost: an admin request overlapped the shutdown
  used, crashes   \* registrations and crashes so far

tables   == <<registry, project_tasks, sockfile>>
insts    == <<loop, notified, conns, used>>
mainVars == <<main, sigterm, pending, unlink, expired>>
ghosts   == <<late, crashes>>
vars     == <<tables, insts, op, mainVars, ghosts>>

Idle == [pc |-> "idle", name |-> None, inst |-> None]
Off  == [pc |-> "off", name |-> None, inst |-> None]

Running == main \in {"busy", "select"}
Live    == {"spawned", "select", "busy", "drain"}
InFlight(h) == op[h].pc \notin {"off", "idle"}

\* A first start; Crash leads to the later ones, which find old sockets.
Init ==
  /\ registry = [n \in Names |-> None]
  /\ project_tasks = [n \in Names |-> None]
  /\ sockfile = [n \in Names |-> None]
  /\ loop = [i \in Inst |-> "none"]
  /\ notified = [i \in Inst |-> FALSE]
  /\ conns = [i \in Inst |-> 0]
  /\ op = [h \in Handlers |-> Off]
  /\ main = "busy" /\ sigterm = "none"
  /\ pending = {} /\ unlink = {}
  /\ expired = FALSE /\ late = FALSE
  /\ used = 0 /\ crashes = 0
-----------------------------------------------------------------------------
(* notify_waiters on the stop of the instances in S: what is not waiting   *)
(* in its select! does not hear it.                                        *)
notify_waiters(S) ==
  notified' = [i \in Inst |-> notified[i] \/ (i \in S /\ loop[i] = "select")]

(* JoinHandle::abort, then awaiting the handle: the loop is gone, and its  *)
(* JoinSet with it, whose connection tasks are cancelled but may still run *)
(* to their next await.                                                    *)
AbortLoop(i) == loop' = [loop EXCEPT ![i] = "done"]
-----------------------------------------------------------------------------
(* The accept loop of an instance. *)

\* A fresh Notified future, enabled before the select!.
LoopIterate(i) ==
  /\ loop[i] \in {"spawned", "busy"}
  /\ loop' = [loop EXCEPT ![i] = "select"]
  /\ notified' = [notified EXCEPT ![i] = FALSE]
  /\ UNCHANGED <<tables, conns, used, op, mainVars, ghosts>>

\* A client connected, now or earlier; the select! is biased towards stop.
LoopAccept(i) ==
  /\ loop[i] = "select" /\ ~notified[i]
  /\ conns[i] < MaxConns
  /\ conns' = [conns EXCEPT ![i] = @ + 1]
  /\ loop' = [loop EXCEPT ![i] = "busy"]
  /\ UNCHANGED <<tables, notified, used, op, mainVars, ghosts>>

LoopAcceptError(i) ==
  /\ loop[i] = "select" /\ ~notified[i]
  /\ loop' = [loop EXCEPT ![i] = "busy"]
  /\ UNCHANGED <<tables, conns, notified, used, op, mainVars, ghosts>>

LoopStop(i) ==
  /\ loop[i] = "select" /\ notified[i]
  /\ loop' = [loop EXCEPT ![i] = "drain"]
  /\ UNCHANGED <<tables, conns, notified, used, op, mainVars, ghosts>>

\* drain_join_set: wait for the connections, or abort them at the deadline.
LoopDrained(i) ==
  /\ loop[i] = "drain" /\ conns[i] = 0
  /\ loop' = [loop EXCEPT ![i] = "done"]
  /\ UNCHANGED <<tables, conns, notified, used, op, mainVars, ghosts>>

LoopDrainTimeout(i) ==
  /\ loop[i] = "drain" /\ conns[i] > 0
  /\ loop' = [loop EXCEPT ![i] = "done"]
  /\ conns' = [conns EXCEPT ![i] = 0]
  /\ UNCHANGED <<tables, notified, used, op, mainVars, ghosts>>

\* A client hangs up, or a cancelled connection task reaches an await.
ConnEnd(i) ==
  /\ conns[i] > 0
  /\ conns' = [conns EXCEPT ![i] = @ - 1]
  /\ UNCHANGED <<tables, loop, notified, used, op, mainVars, ghosts>>
-----------------------------------------------------------------------------
(* Admin connections. *)

\* dispatch_register up to the spawn: under the registry's write lock the
\* name is checked, the socket bound over any old file and the project
\* inserted; the accept loop is spawned, its handle not yet stored.
register(h, n) ==
  /\ op[h].pc = "idle" /\ n \in Owns[h]
  /\ registry[n] = None
  /\ used < MaxInst
  /\ LET i == used + 1
     IN /\ used' = i
        /\ registry' = [registry EXCEPT ![n] = i]
        /\ sockfile' = [sockfile EXCEPT ![n] = i]
        /\ loop' = [loop EXCEPT ![i] = "spawned"]
        /\ op' = [op EXCEPT ![h] = [pc |-> "store_handle", name |-> n, inst |-> i]]
  /\ late' = (late \/ ~Running)
  /\ UNCHANGED <<project_tasks, conns, notified, mainVars, crashes>>

\* bind_project_socket fails after the old file is gone (bind), or after
\* the new file exists (set_permissions; the listener is dropped).  When
\* the old file cannot be removed nothing changes.
bind_fails(h, n) ==
  /\ IOErrors
  /\ op[h].pc = "idle" /\ n \in Owns[h]
  /\ registry[n] = None
  /\ sockfile' \in {[sockfile EXCEPT ![n] = None], [sockfile EXCEPT ![n] = Stale]}
  /\ UNCHANGED <<registry, project_tasks, insts, op, mainVars, ghosts>>

\* A handle that was stored under the name is dropped, which detaches it.
store_handle(h) ==
  /\ op[h].pc = "store_handle"
  /\ project_tasks' = [project_tasks EXCEPT ![op[h].name] = op[h].inst]
  /\ op' = [op EXCEPT ![h] = Idle]
  /\ UNCHANGED <<registry, sockfile, insts, mainVars, ghosts>>

MutUnregisterKeeps(h, n) ==
  /\ op[h].pc = "idle" /\ n \in Owns[h]
  /\ registry[n] # None
  /\ notify_waiters({registry[n]})
  /\ op' = [op EXCEPT ![h] = [pc |-> "take_handle", name |-> n, inst |-> None]]
  /\ late' = (late \/ ~Running)
  /\ UNCHANGED <<tables, loop, conns, used, mainVars, crashes>>

\* dispatch_unregister: the project leaves the registry and its stop is
\* notified.
unregister(h, n) ==
  /\ op[h].pc = "idle" /\ n \in Owns[h]
  /\ registry[n] # None
  /\ registry' = [registry EXCEPT ![n] = None]
  /\ notify_waiters({registry[n]})
  /\ op' = [op EXCEPT ![h] = [pc |-> "take_handle", name |-> n, inst |-> None]]
  /\ late' = (late \/ ~Running)
  /\ UNCHANGED <<project_tasks, sockfile, loop,
                conns, used, mainVars, crashes>>

MutTakeHandleDetaches(h) ==
  /\ op[h].pc = "take_handle"
  /\ project_tasks' = [project_tasks EXCEPT ![op[h].name] = None]
  /\ op' = [op EXCEPT ![h].pc = "remove_socket"]
  /\ UNCHANGED <<registry, sockfile, insts, mainVars, ghosts>>

MutTakeHandleUnchecked(h) ==
  /\ op[h].pc = "take_handle"
  /\ op' = [op EXCEPT ![h].inst = project_tasks[op[h].name], ![h].pc = "await_loop"]
  /\ project_tasks' = [project_tasks EXCEPT ![op[h].name] = None]
  /\ UNCHANGED <<registry, sockfile, insts, mainVars, ghosts>>

take_handle(h) ==
  /\ op[h].pc = "take_handle"
  /\ LET i == project_tasks[op[h].name]
     IN op' = [op EXCEPT ![h] =
                 [pc   |-> IF i = None THEN "remove_socket" ELSE "await_loop",
                  name |-> op[h].name,
                  inst |-> i]]
  /\ project_tasks' = [project_tasks EXCEPT ![op[h].name] = None]
  /\ UNCHANGED <<registry, sockfile, insts, mainVars, ghosts>>

loop_exited(h) ==
  /\ op[h].pc = "await_loop" /\ loop[op[h].inst] = "done"
  /\ op' = [op EXCEPT ![h].pc = "remove_socket"]
  /\ UNCHANGED <<tables, insts, mainVars, ghosts>>

MutUnregisterWaitsForEver(h) ==
  /\ op[h].pc = "await_loop" /\ loop[op[h].inst] = "done"
  /\ op' = [op EXCEPT ![h].pc = "remove_socket"]
  /\ UNCHANGED <<tables, insts, mainVars, ghosts>>

unregister_timeout(h) ==
  /\ op[h].pc = "await_loop" /\ loop[op[h].inst] # "done"
  /\ AbortLoop(op[h].inst)
  /\ op' = [op EXCEPT ![h].pc = "remove_socket"]
  /\ UNCHANGED <<tables, notified, conns, used, mainVars, ghosts>>

\* remove_file of the path, whichever listener created the file there.
remove_socket(h) ==
  /\ op[h].pc = "remove_socket"
  /\ sockfile' = [sockfile EXCEPT ![op[h].name] = None]
  /\ op' = [op EXCEPT ![h] = Idle]
  /\ UNCHANGED <<registry, project_tasks, insts, mainVars, ghosts>>

\* The client hangs up between two requests.
disconnect(h) ==
  /\ op[h].pc = "idle"
  /\ op' = [op EXCEPT ![h] = Off]
  /\ UNCHANGED <<tables, insts, mainVars, ghosts>>
-----------------------------------------------------------------------------
(* Server::run. *)

AdminIterate ==
  /\ main = "busy"
  /\ main' = "select"
  /\ UNCHANGED <<tables, insts, op, sigterm, pending, unlink, expired, ghosts>>

AdminAccept(h) ==
  /\ main = "select" /\ sigterm # "caught"
  /\ op[h].pc = "off"
  /\ main' = "busy"
  /\ op' = [op EXCEPT ![h] = Idle]
  /\ UNCHANGED <<tables, insts, sigterm, pending, unlink, expired, ghosts>>

AdminAcceptError ==
  /\ main = "select" /\ sigterm # "caught"
  /\ main' = "busy"
  /\ UNCHANGED <<tables, insts, op, sigterm, pending, unlink, expired, ghosts>>

\* install_sigterm's task calls notify_waiters once, and ends.
Sigterm ==
  /\ sigterm = "none" /\ main # "exited"
  /\ sigterm' = IF main = "select" THEN "caught" ELSE "lost"
  /\ UNCHANGED <<tables, insts, op, main, pending, unlink, expired, ghosts>>

\* The loop breaks; drain_project_loops notifies the registered projects.
BeginDrain ==
  /\ main = "select" /\ sigterm = "caught"
  /\ notify_waiters({registry[n] : n \in Names})
  /\ main' = "take_tasks"
  /\ late' = \E h \in Handlers : InFlight(h)
  /\ UNCHANGED <<tables, loop, conns, used, op,
                sigterm, pending, unlink, expired, crashes>>

MutTakeNoTasks ==
  /\ main = "take_tasks"
  /\ pending' = {}
  /\ project_tasks' = [n \in Names |-> None]
  /\ main' = "await_loops"
  /\ UNCHANGED <<registry, sockfile, insts, op,
                sigterm, unlink, expired, ghosts>>

TakeTasks ==
  /\ main = "take_tasks"
  /\ pending' = {project_tasks[n] : n \in Names} \ {None}
  /\ project_tasks' = [n \in Names |-> None]
  /\ main' = "await_loops"
  /\ UNCHANGED <<registry, sockfile, insts, op,
                sigterm, unlink, expired, ghosts>>

Deadline ==
  /\ main \in {"await_loops", "drain_admin"} /\ ~expired
  /\ expired' = TRUE
  /\ UNCHANGED <<tables, insts, op, main, sigterm, pending, unlink, ghosts>>

AwaitLoop(i) ==
  /\ main = "await_loops" /\ i \in pending
  /\ loop[i] = "done"
  /\ pending' = pending \ {i}
  /\ UNCHANGED <<tables, insts, op, main, sigterm, unlink, expired, ghosts>>

MutDrainWaitsForEver(i) ==
  /\ main = "await_loops" /\ i \in pending
  /\ loop[i] = "done" /\ expired
  /\ pending' = pending \ {i}
  /\ UNCHANGED <<tables, insts, op, main, sigterm, unlink, expired, ghosts>>

AwaitLoopTimeout(i) ==
  /\ main = "await_loops" /\ i \in pending
  /\ loop[i] # "done" /\ expired
  /\ AbortLoop(i)
  /\ pending' = pending \ {i}
  /\ UNCHANGED <<tables, notified, conns, used, op,
                main, sigterm, unlink, expired, ghosts>>

\* The sockets of the projects registered now are about to be removed.
SnapshotSockets ==
  /\ main = "await_loops" /\ pending = {}
  /\ unlink' = {n \in Names : registry[n] # None}
  /\ main' = "unlink"
  /\ UNCHANGED <<tables, insts, op, sigterm, pending, expired, ghosts>>

MutKeepSockets ==
  /\ main = "unlink"
  /\ unlink' = {}
  /\ main' = "drain_admin"
  /\ UNCHANGED <<tables, insts, op, sigterm, pending, expired, ghosts>>

RemoveSockets ==
  /\ main = "unlink"
  /\ sockfile' = [n \in Names |-> IF n \in unlink THEN None ELSE sockfile[n]]
  /\ unlink' = {}
  /\ main' = "drain_admin"
  /\ UNCHANGED <<registry, project_tasks, insts, op,
                sigterm, pending, expired, ghosts>>

\* drain_join_set aborts the admin connections: one that is at an await
\* ends there, and the handle it may hold is dropped with it.
AbortAdmin(h) ==
  /\ main = "drain_admin" /\ expired
  /\ op[h].pc \in {"idle", "store_handle", "take_handle", "await_loop"}
  /\ op' = [op EXCEPT ![h] = Off]
  /\ UNCHANGED <<tables, insts, mainVars, ghosts>>

\* The admin socket is removed, the Shutdown event recorded and this
\* task's audit sender dropped; main then awaits the audit writer.
Finish ==
  /\ main = "drain_admin"
  /\ \A h \in Handlers : op[h].pc = "off"
  /\ main' = "await_audit"
  /\ UNCHANGED <<tables, insts, op, sigterm, pending, unlink, expired, ghosts>>

\* Every accept loop and connection task holds an Arc<Server>, and with it
\* an audit sender.
ServerHolders == {i \in Inst : loop[i] \in Live \/ conns[i] > 0}

\* The audit writer ends when its last sender is gone.
Exit ==
  /\ main = "await_audit"
  /\ ServerHolders = {}
  /\ main' = "exited"
  /\ UNCHANGED <<tables, insts, op, sigterm, pending, unlink, expired, ghosts>>

\* The process is killed and started again: files stay, nothing else does.
Crash ==
  /\ crashes < MaxCrashes /\ main # "exited"
  /\ crashes' = crashes + 1
  /\ sockfile' = [n \in Names |-> IF sockfile[n] = None THEN None ELSE Stale]
  /\ registry' = [n \in Names |-> None]
  /\ project_tasks' = [n \in Names |-> None]
  /\ loop' = [i \in Inst |-> IF i <= used THEN "done" ELSE "none"]
  /\ notified' = [i \in Inst |-> FALSE]
  /\ conns' = [i \in Inst |-> 0]
  /\ op' = [h \in Handlers |-> Off]
  /\ main' = "busy" /\ sigterm' = "none"
  /\ pending' = {} /\ unlink' = {}
  /\ expired' = FALSE /\ late' = FALSE
  /\ UNCHANGED <<used>>
-----------------------------------------------------------------------------
LoopNext(i) ==
  \/ LoopIterate(i) \/ LoopAccept(i) \/ LoopAcceptError(i) \/ LoopStop(i)
  \/ LoopDrained(i) \/ LoopDrainTimeout(i) \/ ConnEnd(i)

AdminNext(h) ==
  \/ \E n \in Names : register(h, n) \/ bind_fails(h, n) \/ unregister(h, n)
  \/ store_handle(h) \/ take_handle(h) \/ loop_exited(h)
  \/ unregister_timeout(h) \/ remove_socket(h) \/ disconnect(h)
  \/ AdminAccept(h) \/ AbortAdmin(h)

MainNext ==
  \/ AdminIterate \/ AdminAcceptError \/ Sigterm \/ BeginDrain \/ TakeTasks
  \/ Deadline \/ (\E i \in Inst : AwaitLoop(i) \/ AwaitLoopTimeout(i))
  \/ SnapshotSockets \/ RemoveSockets \/ Finish \/ Exit \/ Crash

Next ==
  \/ \E i \in Inst : LoopNext(i)
  \/ \E h \in Handlers : AdminNext(h)
  \/ MainNext

Spec == Init /\ [][Next]_vars

(* Tasks that can run do run, timers fire and cancelled tasks end.  No     *)
(* client is ever obliged to connect, ask or hang up, and no signal to     *)
(* come.                                                                   *)
LoopFair(i) ==
  /\ WF_vars(LoopIterate(i)) /\ WF_vars(LoopStop(i))
  /\ WF_vars(LoopDrained(i)) /\ WF_vars(LoopDrainTimeout(i))
  /\ WF_vars(loop[i] = "done" /\ ConnEnd(i))
  /\ WF_vars(AwaitLoop(i)) /\ WF_vars(AwaitLoopTimeout(i))

AdminFair(h) ==
  /\ WF_vars(store_handle(h)) /\ WF_vars(take_handle(h))
  /\ WF_vars(loop_exited(h)) /\ WF_vars(unregister_timeout(h))
  /\ WF_vars(remove_socket(h)) /\ WF_vars(AbortAdmin(h))

MainFair ==
  /\ WF_vars(AdminIterate) /\ WF_vars(BeginDrain) /\ WF_vars(TakeTasks)
  /\ WF_vars(Deadline) /\ WF_vars(SnapshotSockets) /\ WF_vars(RemoveSockets)
  /\ WF_vars(Finish) /\ WF_vars(Exit)

Fairness ==
  /\ \A i \in Inst : LoopFair(i)
  /\ \A h \in Handlers : AdminFair(h)
  /\ MainFair

FairSpec == Spec /\ Fairness
-----------------------------------------------------------------------------
TypeOK ==
  /\ registry \in [Names -> Inst \cup {None}]
  /\ project_tasks \in [Names -> Inst \cup {None}]
  /\ sockfile \in [Names -> Inst \cup {None, Stale}]
  /\ loop \in [Inst -> Live \cup {"none", "done"}]
  /\ notified \in [Inst -> BOOLEAN]
  /\ conns \in [Inst -> 0..MaxConns]
  /\ op \in [Handlers -> {Off, Idle}
       \cup [pc : {"store_handle", "await_loop"}, name : Names, inst : Inst]
       \cup [pc : {"take_handle", "remove_socket"}, name : Names, inst : Inst \cup {None}]]
  /\ main \in {"busy", "select", "take_tasks", "await_loops", "unlink",
               "drain_admin", "await_audit", "exited"}
  /\ sigterm \in {"none", "caught", "lost"}
  /\ pending \subseteq Inst /\ unlink \subseteq Names
  /\ expired \in BOOLEAN /\ late \in BOOLEAN
  /\ used \in 0..MaxInst /\ crashes \in 0..MaxCrashes

Unregistering(h, n) ==
  op[h].name = n /\ op[h].pc \in {"take_handle", "await_loop", "remove_socket"}

(* While the daemon serves, a registered project is reachable: its socket  *)
(* path leads to its own listener, its accept loop has not been told to    *)
(* stop, and the daemon holds the loop's handle or the request that is     *)
(* registering it is about to store it (dispatch_register stores it after  *)
(* the registry's lock is released).                                       *)
RegisteredIsServed ==
  Running => \A n \in Names : registry[n] # None =>
    LET i == registry[n]
    IN /\ sockfile[n] = i
       /\ loop[i] \in {"spawned", "select", "busy"} /\ ~notified[i]
       /\ \/ project_tasks[n] = i
          \/ \E h \in Handlers : op[h].pc = "store_handle" /\ op[h].inst = i

(* While the daemon serves, nothing of a project outlives its unregister:  *)
(* an accept loop that runs, and a socket file with a listener behind it,  *)
(* belong to a registered project or to one whose dispatch_unregister has  *)
(* not answered yet.                                                       *)
NothingOutlivesUnregister ==
  Running => \A i \in Inst :
    (loop[i] \in Live \/ \E n \in Names : sockfile[n] = i) =>
      \E n \in Names :
        \/ registry[n] = i
        \/ \E h \in Handlers :
             Unregistering(h, n) /\ i \in {project_tasks[n], op[h].inst, sockfile[n]}

(* A shutdown no admin request overlapped leaves the socket of no project  *)
(* of this daemon behind (FR-008): what Server::run snapshots after the    *)
(* drain is everything that it registered.  A file without a project, from *)
(* a failed chmod or a killed predecessor, may stay.                       *)
CleanExit ==
  (main = "exited" /\ ~late) => \A n \in Names : sockfile[n] \notin Inst

\* The step a request's task, or its timer, can take next.
CanStep(h) ==
  /\ op[h].pc = "store_handle"  => ENABLED <<store_handle(h)>>_vars
  /\ op[h].pc = "take_handle"   => ENABLED <<take_handle(h)>>_vars
  /\ op[h].pc = "await_loop"    => IF loop[op[h].inst] = "done"
                                   THEN ENABLED <<loop_exited(h)>>_vars
                                   ELSE ENABLED <<unregister_timeout(h)>>_vars
  /\ op[h].pc = "remove_socket" => ENABLED <<remove_socket(h)>>_vars

CanAllStep == \A h \in Handlers : CanStep(h)
NeverStuck == ~<>~CanAllStep

RequestFinishes(h) == InFlight(h) ~> ~InFlight(h)

(* Every register and unregister is answered: also when the notification   *)
(* of stop was lost or a connection hangs, because dispatch_unregister     *)
(* aborts the loop after SHUTDOWN_DRAIN.  The request never lacks a step.  *)
AdminRequestsFinish ==
  /\ NeverStuck
  /\ \A h \in Handlers : RequestFinishes(h)

\* The wait for an accept loop, or the deadline of it, can take a step.
CanAwait(i) ==
  i \in pending =>
    IF loop[i] = "done" THEN ENABLED <<AwaitLoop(i)>>_vars
    ELSE IF expired THEN ENABLED <<AwaitLoopTimeout(i)>>_vars
    ELSE ENABLED <<Deadline>>_vars

CanAllAwait == \A i \in Inst : CanAwait(i)
DrainNeverStuck == ~<>~CanAllAwait

(* Once the accept loop has seen the signal, the drain ends: whatever the  *)
(* clients of either plane do, Server::run reaches the audit flush, unless *)
(* the process is killed (and runs again).  Its wait for the accept loops  *)
(* never lacks a step.                                                     *)
DrainEnds ==
  /\ DrainNeverStuck
  /\ (main = "take_tasks") ~> (main = "await_audit" \/ Running)

(* The process then exits, unless an admin request overlapped the drain:   *)
(* every loop that holds an audit sender was awaited or aborted.           *)
QuietShutdownExits ==
  (main = "take_tasks") ~> (main = "exited" \/ late \/ Running)
-----------------------------------------------------------------------------
(* FR-022 of specs/001-broker-daemon/spec.md: "The daemon MUST handle      *)
(* SIGTERM by closing listening sockets (refusing new connections)".       *)
SigtermIsHandled == (sigterm # "none") ~> ~Running

(* The comment on drain_project_loops: the loops are aborted, "otherwise   *)
(* the audit writer in main would never observe the last sender drop and   *)
(* would hang the daemon on shutdown".                                     *)
ShutdownNeverHangs == (main = "await_audit") ~> (main = "exited")

(* FR-007: "On admin `register`, the daemon MUST create the project socket *)
(* at `/run/remo-broker/<name>.sock`": a project that is registered has a  *)
(* socket leading to it.                                                   *)
RegisteredHasSocket ==
  Running => \A n \in Names : registry[n] # None => sockfile[n] = registry[n]
=============================================================================
