--------------------------- MODULE LifecycleProofs ----------------------------
(***************************************************************************)
(* Proofs about Lifecycle: for any projects, admin clients, connections,   *)
(* registrations and crashes.                                              *)
(***************************************************************************)
EXTENDS Lifecycle, TLAPS

\* The leaves are Zenon's, except those that say SMT.
USE Zenon

LEMMA Constants ==
  /\ None \notin Inst /\ Stale \notin Inst /\ Stale # None
  /\ \A i \in 0..MaxInst : i < MaxInst => i + 1 \in Inst /\ i + 1 \in 0..MaxInst /\ i + 1 # None
  /\ Inst \subseteq 0..MaxInst
BY LifecycleAssumption, SMT DEF None, Stale, Inst

LEMMA OffIdle ==
  /\ Off.pc = "off" /\ Idle.pc = "idle" /\ Off # Idle
  /\ Off.name = None /\ Idle.name = None
BY SMT DEF Off, Idle
-----------------------------------------------------------------------------
(* Types. *)

Ops == {Off, Idle}
       \cup [pc : {"store_handle", "await_loop"}, name : Names, inst : Inst]
       \cup [pc : {"take_handle", "remove_socket"}, name : Names, inst : Inst \cup {None}]

LEMMA OpType ==
  ASSUME TypeOK, NEW h \in Handlers
  PROVE  /\ op[h] \in Ops
         /\ op[h].pc \in {"off", "idle", "store_handle", "await_loop", "take_handle", "remove_socket"}
         /\ op[h].pc = "off" => op[h] = Off
         /\ op[h].pc = "idle" => op[h] = Idle
         /\ op[h].pc \in {"store_handle", "await_loop"} => op[h].name \in Names /\ op[h].inst \in Inst
         /\ op[h].pc \in {"take_handle", "remove_socket"} =>
              op[h].name \in Names /\ op[h].inst \in Inst \cup {None}
<1>1. op[h] \in Ops
  BY DEF TypeOK, Ops
<1> QED BY <1>1, OffIdle, SMT DEF Ops

LEMMA LoopType ==
  ASSUME TypeOK, NEW i \in Inst, LoopNext(i)
  PROVE  TypeOK'
<1>1. /\ UNCHANGED <<registry, project_tasks, sockfile, used, op, main, sigterm, pending, unlink>>
      /\ UNCHANGED <<expired, late, crashes>>
  BY DEF LoopNext, LoopIterate, LoopAccept, LoopAcceptError, LoopStop, LoopDrained, LoopDrainTimeout,
       ConnEnd, tables, insts, mainVars, ghosts
<1>2. loop' \in [Inst -> Live \cup {"none", "done"}]
  BY SMT DEF TypeOK, LoopNext, LoopIterate, LoopAccept, LoopAcceptError, LoopStop, LoopDrained,
       LoopDrainTimeout, ConnEnd, Live
<1>3. notified' \in [Inst -> BOOLEAN]
  BY DEF TypeOK, LoopNext, LoopIterate, LoopAccept, LoopAcceptError, LoopStop, LoopDrained,
       LoopDrainTimeout, ConnEnd
<1>4. conns' \in [Inst -> 0..MaxConns]
  BY LifecycleAssumption, SMT DEF TypeOK, LoopNext, LoopIterate, LoopAccept, LoopAcceptError, LoopStop,
       LoopDrained, LoopDrainTimeout, ConnEnd
<1> QED BY <1>1, <1>2, <1>3, <1>4 DEF TypeOK

(* The request an admin connection goes to next is well formed.            *)
LEMMA OpsOf ==
  ASSUME NEW n \in Names, NEW i \in Inst
  PROVE  /\ Off \in Ops /\ Idle \in Ops
         /\ [pc |-> "store_handle", name |-> n, inst |-> i] \in Ops
         /\ [pc |-> "take_handle", name |-> n, inst |-> None] \in Ops
BY SMT DEF Ops

LEMMA AdminType ==
  ASSUME TypeOK, NEW h \in Handlers, AdminNext(h)
  PROVE  TypeOK'
<1> DEFINE Goal == TypeOK'
<1> SUFFICES Goal
  OBVIOUS
<1> HIDE DEF Goal
<1>1. ASSUME op' \in [Handlers -> Ops], registry' \in [Names -> Inst \cup {None}],
             project_tasks' \in [Names -> Inst \cup {None}],
             sockfile' \in [Names -> Inst \cup {None, Stale}],
             loop' \in [Inst -> Live \cup {"none", "done"}], notified' \in [Inst -> BOOLEAN],
             used' \in 0..MaxInst, main' \in {main, "busy"}, late' \in BOOLEAN,
             UNCHANGED <<conns, sigterm, pending, unlink, expired, crashes>>
      PROVE  Goal
  BY <1>1 DEF TypeOK, Goal, Ops
<1>2. ASSUME NEW o \in Ops, op' = [op EXCEPT ![h] = o] PROVE op' \in [Handlers -> Ops]
  BY <1>2 DEF TypeOK, Ops
<1>3. op \in [Handlers -> Ops] /\ op[h] \in Ops
  BY OpType DEF TypeOK, Ops
<1>4. ASSUME NEW n \in Names, register(h, n) PROVE Goal
  <2> DEFINE i == used + 1
             o == [pc |-> "store_handle", name |-> n, inst |-> i]
  <2>1. /\ used' = i /\ registry' = [registry EXCEPT ![n] = i]
        /\ sockfile' = [sockfile EXCEPT ![n] = i] /\ loop' = [loop EXCEPT ![i] = "spawned"]
        /\ op' = [op EXCEPT ![h] = o] /\ late' = (late \/ ~Running) /\ used < MaxInst
        /\ UNCHANGED <<project_tasks, conns, notified, main, sigterm, pending, unlink, expired, crashes>>
    BY <1>4 DEF register, mainVars
  <2>2. i \in Inst /\ i \in 0..MaxInst
    BY <2>1, Constants DEF TypeOK
  <2>3. o \in Ops
    BY <2>2, OpsOf
  <2> HIDE DEF i, o
  <2>4. registry' \in [Names -> Inst \cup {None}] /\ sockfile' \in [Names -> Inst \cup {None, Stale}]
    BY <2>1, <2>2 DEF TypeOK
  <2>5. loop' \in [Inst -> Live \cup {"none", "done"}]
    BY <2>1, <2>2 DEF TypeOK, Live
  <2>6. late' \in BOOLEAN
    BY <2>1
  <2> QED BY <1>1, <1>2, <2>1, <2>2, <2>3, <2>4, <2>5, <2>6 DEF TypeOK
<1>5. ASSUME NEW n \in Names, bind_fails(h, n) PROVE Goal
  <2>1. /\ sockfile' \in {[sockfile EXCEPT ![n] = None], [sockfile EXCEPT ![n] = Stale]}
        /\ UNCHANGED <<registry, project_tasks, loop, notified, conns, used, op, main, sigterm, pending>>
        /\ UNCHANGED <<unlink, expired, late, crashes>>
    BY <1>5 DEF bind_fails, insts, mainVars, ghosts
  <2>2. sockfile' \in [Names -> Inst \cup {None, Stale}]
    BY <2>1 DEF TypeOK
  <2> QED BY <1>1, <1>3, <2>1, <2>2 DEF TypeOK
<1>6. ASSUME NEW n \in Names, unregister(h, n) PROVE Goal
  <2> DEFINE o == [pc |-> "take_handle", name |-> n, inst |-> None]
  <2>1. /\ registry' = [registry EXCEPT ![n] = None] /\ notify_waiters({registry[n]})
        /\ op' = [op EXCEPT ![h] = o] /\ late' = (late \/ ~Running) /\ registry[n] # None
        /\ UNCHANGED <<project_tasks, sockfile, loop, conns, used, main, sigterm, pending, unlink, expired, crashes>>
    BY <1>6 DEF unregister, mainVars
  <2>2. o \in Ops
    <3>1. registry[n] \in Inst
      BY <2>1 DEF TypeOK
    <3> QED BY <3>1, OpsOf
  <2> HIDE DEF o
  <2>3. registry' \in [Names -> Inst \cup {None}] /\ late' \in BOOLEAN
    BY <2>1 DEF TypeOK
  <2>4. notified' \in [Inst -> BOOLEAN]
    BY <2>1 DEF TypeOK, notify_waiters
  <2> QED BY <1>1, <1>2, <2>1, <2>2, <2>3, <2>4 DEF TypeOK
<1>7. ASSUME store_handle(h) PROVE Goal
  <2>1. /\ project_tasks' = [project_tasks EXCEPT ![op[h].name] = op[h].inst]
        /\ op' = [op EXCEPT ![h] = Idle] /\ op[h].pc = "store_handle"
        /\ UNCHANGED <<registry, sockfile, loop, notified, conns, used, main, sigterm, pending>>
        /\ UNCHANGED <<unlink, expired, late, crashes>>
    BY <1>7 DEF store_handle, insts, mainVars, ghosts
  <2>2. project_tasks' \in [Names -> Inst \cup {None}]
    BY <2>1, OpType DEF TypeOK
  <2>3. Idle \in Ops
    BY DEF Ops
  <2> QED BY <1>1, <1>2, <2>1, <2>2, <2>3 DEF TypeOK
<1>8. ASSUME take_handle(h) PROVE Goal
  <2> DEFINE i == project_tasks[op[h].name]
             c == IF i = None THEN "remove_socket" ELSE "await_loop"
             o == [pc |-> c, name |-> op[h].name, inst |-> i]
  <2>0. op' = [op EXCEPT ![h] = o] /\ op[h].pc = "take_handle"
    BY <1>8 DEF take_handle
  <2>2. op[h].name \in Names /\ op[h] \in [pc : {"take_handle"}, name : Names, inst : Inst \cup {None}]
    BY <1>3, <2>0, OffIdle, SMT DEF Ops
  <2>3. i \in Inst \cup {None}
    BY <2>2 DEF TypeOK
  <2> HIDE DEF i
  <2>5. (i = None => c = "remove_socket") /\ (i # None => c = "await_loop")
    OBVIOUS
  <2> HIDE DEF c
  <2>1. /\ op' = [op EXCEPT ![h] = o] /\ op[h].pc = "take_handle"
        /\ project_tasks' = [project_tasks EXCEPT ![op[h].name] = None]
        /\ UNCHANGED <<registry, sockfile, loop, notified, conns, used, main, sigterm, pending>>
        /\ UNCHANGED <<unlink, expired, late, crashes>>
    BY <1>8, <2>0 DEF take_handle, insts, mainVars, ghosts
  <2>4. o \in Ops
    <3>1. CASE i = None
      BY <2>2, <3>1, <2>5, SMT DEF Ops
    <3>2. CASE i # None
      BY <2>2, <2>3, <3>2, <2>5, SMT DEF Ops
    <3> QED BY <3>1, <3>2
  <2> HIDE DEF o
  <2>6. project_tasks' \in [Names -> Inst \cup {None}]
    BY <2>1, <2>2 DEF TypeOK
  <2> QED BY <1>1, <1>2, <2>1, <2>4, <2>6 DEF TypeOK
<1>9. ASSUME loop_exited(h) \/ unregister_timeout(h) PROVE Goal
  <2> DEFINE o == [op[h] EXCEPT !.pc = "remove_socket"]
  <2>1. /\ op' = [op EXCEPT ![h] = o] /\ op[h].pc = "await_loop"
        /\ loop' \in {loop, [loop EXCEPT ![op[h].inst] = "done"]}
        /\ UNCHANGED <<registry, project_tasks, sockfile, notified, conns, used, main, sigterm, pending>>
        /\ UNCHANGED <<unlink, expired, late, crashes>>
    <3>1. op' = [op EXCEPT ![h].pc = "remove_socket"]
      BY <1>9 DEF loop_exited, unregister_timeout
    <3>2. op' = [op EXCEPT ![h] = o]
      BY <1>3, <3>1, SMT
    <3> QED
      BY <1>9, <3>2 DEF loop_exited, unregister_timeout, AbortLoop, tables, insts, mainVars, ghosts
  <2>2. op[h] \in [pc : {"await_loop"}, name : Names, inst : Inst]
    BY <1>3, <2>1, OffIdle, SMT DEF Ops
  <2>3. o \in Ops
    BY <2>2, SMT DEF Ops
  <2> HIDE DEF o
  <2>4. loop' \in [Inst -> Live \cup {"none", "done"}]
    BY <2>1 DEF TypeOK
  <2> QED BY <1>1, <1>2, <2>1, <2>3, <2>4 DEF TypeOK
<1>10. ASSUME remove_socket(h) PROVE Goal
  <2>1. /\ sockfile' = [sockfile EXCEPT ![op[h].name] = None]
        /\ op' = [op EXCEPT ![h] = Idle]
        /\ UNCHANGED <<registry, project_tasks, loop, notified, conns, used, main, sigterm, pending>>
        /\ UNCHANGED <<unlink, expired, late, crashes>>
    BY <1>10 DEF remove_socket, insts, mainVars, ghosts
  <2>2. sockfile' \in [Names -> Inst \cup {None, Stale}]
    BY <2>1 DEF TypeOK
  <2>3. Idle \in Ops
    BY DEF Ops
  <2> QED BY <1>1, <1>2, <2>1, <2>2, <2>3 DEF TypeOK
<1>11. ASSUME disconnect(h) \/ AdminAccept(h) \/ AbortAdmin(h) PROVE Goal
  <2>1. /\ op' \in {[op EXCEPT ![h] = Off], [op EXCEPT ![h] = Idle]}
        /\ main' \in {main, "busy"}
        /\ UNCHANGED <<registry, project_tasks, sockfile, loop, notified, conns, used, sigterm, pending>>
        /\ UNCHANGED <<unlink, expired, late, crashes>>
    BY <1>11 DEF disconnect, AdminAccept, AbortAdmin, tables, insts, mainVars, ghosts
  <2>2. Idle \in Ops /\ Off \in Ops
    BY DEF Ops
  <2> QED BY <1>1, <1>2, <2>1, <2>2 DEF TypeOK
<1> QED BY <1>4, <1>5, <1>6, <1>7, <1>8, <1>9, <1>10, <1>11 DEF AdminNext

LEMMA MainType ==
  ASSUME TypeOK, MainNext
  PROVE  TypeOK'
<1> DEFINE Goal == TypeOK'
<1> SUFFICES Goal
  OBVIOUS
<1> HIDE DEF Goal
<1>1. ASSUME main' \in {"busy", "select", "take_tasks", "await_loops", "unlink",
                        "drain_admin", "await_audit", "exited"},
             sigterm' \in {"none", "caught", "lost"}, expired' \in BOOLEAN, late' \in BOOLEAN,
             project_tasks' \in [Names -> Inst \cup {None}],
             sockfile' \in [Names -> Inst \cup {None, Stale}],
             loop' \in [Inst -> Live \cup {"none", "done"}], notified' \in [Inst -> BOOLEAN],
             pending' \subseteq Inst, unlink' \subseteq Names,
             UNCHANGED <<registry, conns, op, used, crashes>>
      PROVE  Goal
  BY <1>1 DEF TypeOK, Goal
<1>2. ASSUME AdminIterate \/ AdminAcceptError \/ Sigterm \/ Deadline \/ Finish \/ Exit PROVE Goal
  BY <1>1, <1>2 DEF TypeOK, AdminIterate, AdminAcceptError, Sigterm, Deadline, Finish, Exit, tables,
       insts, ghosts
<1>3. ASSUME BeginDrain PROVE Goal
  <2>1. notified' \in [Inst -> BOOLEAN] /\ late' \in BOOLEAN
    BY <1>3 DEF TypeOK, BeginDrain, notify_waiters
  <2> QED BY <1>1, <1>3, <2>1 DEF TypeOK, BeginDrain, tables
<1>4. ASSUME TakeTasks PROVE Goal
  <2>1. pending' \subseteq Inst
    <3>1. \A n \in Names : project_tasks[n] \in Inst \cup {None}
      BY DEF TypeOK
    <3> QED BY <1>4, <3>1 DEF TakeTasks
  <2>2. project_tasks' \in [Names -> Inst \cup {None}]
    BY <1>4 DEF TakeTasks
  <2> QED BY <1>1, <1>4, <2>1, <2>2 DEF TypeOK, TakeTasks, insts, ghosts
<1>5. ASSUME NEW i \in Inst, AwaitLoop(i) \/ AwaitLoopTimeout(i) PROVE Goal
  BY <1>1, <1>5 DEF TypeOK, AwaitLoop, AwaitLoopTimeout, AbortLoop, tables, insts, ghosts
<1>6. ASSUME SnapshotSockets \/ RemoveSockets PROVE Goal
  BY <1>1, <1>6 DEF TypeOK, SnapshotSockets, RemoveSockets, tables, insts, ghosts
<1>7. ASSUME Crash PROVE Goal
  <2>1. crashes' \in 0..MaxCrashes
    BY <1>7, LifecycleAssumption, SMT DEF TypeOK, Crash
  <2>2. /\ registry' \in [Names -> Inst \cup {None}] /\ project_tasks' \in [Names -> Inst \cup {None}]
        /\ sockfile' \in [Names -> Inst \cup {None, Stale}]
    BY <1>7 DEF Crash
  <2>3. loop' \in [Inst -> Live \cup {"none", "done"}] /\ notified' \in [Inst -> BOOLEAN]
    BY <1>7 DEF Crash
  <2>4. conns' \in [Inst -> 0..MaxConns]
    BY <1>7, LifecycleAssumption, SMT DEF Crash
  <2>5. op' \in [Handlers -> Ops]
    BY <1>7 DEF Crash, Ops
  <2> QED BY <1>7, <2>1, <2>2, <2>3, <2>4, <2>5 DEF Goal, TypeOK, Crash, Ops
<1> QED BY <1>2, <1>3, <1>4, <1>5, <1>6, <1>7 DEF MainNext

LEMMA TypeStep ==
  ASSUME TypeOK, [Next]_vars
  PROVE  TypeOK'
<1>1. CASE UNCHANGED vars
  BY <1>1 DEF TypeOK, vars, tables, insts, mainVars, ghosts
<1> QED BY <1>1, LoopType, AdminType, MainType DEF Next

LEMMA InitType == Init => TypeOK
<1> SUFFICES ASSUME Init PROVE TypeOK
  OBVIOUS
<1>1. used \in 0..MaxInst /\ crashes \in 0..MaxCrashes /\ conns \in [Inst -> 0..MaxConns]
  BY LifecycleAssumption, SMT DEF Init
<1> QED BY <1>1 DEF Init, TypeOK, Ops

(* The tables, accept loops, admin requests and the shutdown of the daemon *)
(* stay in their domains: a request that stores or awaits a handle has a   *)
(* registration to do it for (Server, ProjectRegistry).                    *)
THEOREM TypeCorrect == Spec => []TypeOK
<1>1. TypeOK /\ [Next]_vars => TypeOK'
  BY TypeStep
<1> QED BY <1>1, InitType, PTL DEF Spec
-----------------------------------------------------------------------------
(* The inductive invariant behind the three safety properties.  It needs   *)
(* that no two admin clients manage the same project: with shared names    *)
(* the properties fail (see RegisteredHasSocket).                          *)

DisjointOwners == \A g, h \in Handlers : g # h => Owns[g] \cap Owns[h] = {}

\* Connection h works on a request for project n.
Works(h, n) == InFlight(h) /\ op[h].name = n

\* The accept loop of i runs and has not been told to stop.
Serving(i) == loop[i] \in {"spawned", "select", "busy"} /\ ~notified[i]

\* What a request leaves at each of its steps.
AtStep(h) ==
  LET n == op[h].name
      i == op[h].inst
  IN /\ sockfile[n] \in Inst
     /\ op[h].pc = "store_handle" =>
          registry[n] = i /\ sockfile[n] = i /\ project_tasks[n] = None /\ Serving(i)
     /\ op[h].pc = "take_handle" =>
          registry[n] = None /\ project_tasks[n] = sockfile[n]
     /\ op[h].pc = "await_loop" =>
          registry[n] = None /\ project_tasks[n] = None /\ sockfile[n] = i
     /\ op[h].pc = "remove_socket" =>
          registry[n] = None /\ project_tasks[n] = None /\ sockfile[n] = i /\ loop[i] = "done"

\* A project is free, served, or in the hands of one request.
Free(n) ==
  /\ registry[n] = None /\ project_tasks[n] = None /\ sockfile[n] \notin Inst
  /\ \A h \in Handlers : ~Works(h, n)

Served(n) ==
  /\ registry[n] \in Inst /\ project_tasks[n] = registry[n] /\ sockfile[n] = registry[n]
  /\ Serving(registry[n])
  /\ \A h \in Handlers : ~Works(h, n)

Phase(n) == Free(n) \/ Served(n) \/ \E h \in Handlers : Works(h, n) /\ AtStep(h)

OwnInv == \A h \in Handlers : InFlight(h) => op[h].name \in Owns[h]

\* Instances are used in order, and a new one is new everywhere.
FreshInv ==
  /\ \A i \in Inst : i > used => loop[i] \notin Live /\ ~notified[i]
  /\ \A n \in Names : sockfile[n] <= used

\* A listener is at one path, and a running loop has one.
PathInv ==
  /\ \A m, n \in Names : sockfile[m] \in Inst /\ sockfile[m] = sockfile[n] => m = n
  /\ \A i \in Inst : loop[i] \in Live => \E n \in Names : sockfile[n] = i

ServeInv == Running => PathInv /\ \A n \in Names : Phase(n)

\* The shutdown is still going to remove the socket of n.
Listed(n) ==
  \/ main \in {"take_tasks", "await_loops"} /\ registry[n] # None
  \/ main = "unlink" /\ n \in unlink

\* A shutdown that no request overlaps has every socket on its list.
DrainInv ==
  (~Running /\ ~late) =>
    /\ \A h \in Handlers : ~InFlight(h)
    /\ \A n \in Names : sockfile[n] \in Inst => Listed(n)

IInv == TypeOK /\ OwnInv /\ FreshInv /\ ServeInv /\ DrainInv
-----------------------------------------------------------------------------
(* Requests and projects. *)

(* Only one request works on a project.                                    *)
LEMMA OneWorker ==
  ASSUME DisjointOwners, OwnInv, NEW g \in Handlers, NEW h \in Handlers, NEW n \in Names,
         Works(g, n), Works(h, n) \/ n \in Owns[h]
  PROVE  g = h
BY DEF DisjointOwners, OwnInv, Works

LEMMA WorkerAt ==
  ASSUME DisjointOwners, IInv, Running, NEW h \in Handlers, InFlight(h)
  PROVE  op[h].name \in Names /\ Works(h, op[h].name) /\ AtStep(h)
<1>1. op[h].name \in Names /\ Works(h, op[h].name)
  BY OpType DEF IInv, InFlight, Works
<1>2. Phase(op[h].name)
  BY <1>1 DEF IInv, ServeInv
<1>3. PICK g \in Handlers : Works(g, op[h].name) /\ AtStep(g)
  BY <1>1, <1>2 DEF Phase, Free, Served
<1>4. g = h
  BY <1>1, <1>3, OneWorker DEF IInv
<1> QED BY <1>1, <1>3, <1>4

(* A client that is not waiting for an answer finds its projects free or   *)
(* served.                                                                 *)
LEMMA IdleOwner ==
  ASSUME DisjointOwners, IInv, Running, NEW h \in Handlers, op[h].pc = "idle",
         NEW n \in Names, n \in Owns[h]
  PROVE  /\ registry[n] = None => Free(n)
         /\ registry[n] # None => Served(n)
<1>1. ~InFlight(h)
  BY DEF InFlight
<1>2. \A g \in Handlers : ~Works(g, n)
  BY <1>1, OneWorker DEF IInv, Works
<1>3. Free(n) \/ Served(n)
  BY <1>2 DEF IInv, ServeInv, Phase
<1> QED BY <1>3, Constants DEF Free, Served

(* A project none of whose tables, loop and requests a step touches stays  *)
(* where it is.                                                            *)
LEMMA Undisturbed ==
  ASSUME NEW n \in Names, Phase(n),
         registry'[n] = registry[n], project_tasks'[n] = project_tasks[n],
         sockfile'[n] = sockfile[n],
         \A j \in Inst : j = sockfile[n] =>
           (Serving(j) => Serving(j)') /\ (loop[j] = "done" => loop'[j] = "done"),
         \A h \in Handlers : Works(h, n) \/ Works(h, n)' => op'[h] = op[h]
  PROVE  Phase(n)'
<1>1. \A h \in Handlers : Works(h, n)' => Works(h, n)
  BY DEF Works, InFlight
<1>2. CASE Free(n)
  BY <1>1, <1>2 DEF Phase, Free
<1>3. CASE Served(n)
  <2>1. Serving(registry[n])'
    BY <1>3 DEF Served, Serving
  <2> QED BY <1>1, <1>3, <2>1 DEF Phase, Served
<1>4. ASSUME NEW h \in Handlers, Works(h, n), AtStep(h) PROVE Phase(n)'
  <2>1. op'[h] = op[h] /\ op[h].name = n
    BY <1>4 DEF Works
  <2>2. Works(h, n)'
    BY <1>4, <2>1 DEF Works, InFlight
  <2>3. AtStep(h)'
    BY <1>4, <2>1 DEF AtStep, Serving
  <2> QED BY <2>2, <2>3 DEF Phase
<1> QED BY <1>2, <1>3, <1>4 DEF Phase

(* A step of a request for one project leaves the others where they are.   *)
LEMMA OthersKeep ==
  ASSUME NEW h \in Handlers, NEW n, NEW m \in Names, m # n, Phase(m),
         \A g \in Handlers : g # h => op'[g] = op[g],
         InFlight(h) => op[h].name = n, InFlight(h)' => op'[h].name = n,
         registry'[m] = registry[m], project_tasks'[m] = project_tasks[m],
         sockfile'[m] = sockfile[m],
         \A j \in Inst : j = sockfile[m] =>
           (Serving(j) => Serving(j)') /\ (loop[j] = "done" => loop'[j] = "done")
  PROVE  Phase(m)'
<1>1. ~Works(h, m) /\ ~Works(h, m)'
  BY DEF Works
<1>2. \A g \in Handlers : Works(g, m) \/ Works(g, m)' => op'[g] = op[g]
  BY <1>1
<1> QED BY <1>2, Undisturbed
-----------------------------------------------------------------------------
(* What the requests work on, and new instances. *)

LEMMA OwnStep ==
  ASSUME TypeOK, OwnInv, [Next]_vars
  PROVE  OwnInv'
<1> DEFINE Goal == OwnInv'
<1> SUFFICES Goal
  OBVIOUS
<1>1. ASSUME UNCHANGED op PROVE Goal
  BY <1>1 DEF OwnInv, InFlight
<1> DEFINE Moves(h) ==
      /\ \A g \in Handlers : g # h => op'[g] = op[g]
      /\ op'[h].pc \notin {"off", "idle"} => op'[h].name \in Owns[h]
<1>2. ASSUME NEW h \in Handlers, Moves(h) PROVE Goal
  BY <1>2 DEF OwnInv, InFlight
<1> HIDE DEF Goal
<1>3. ASSUME NEW h \in Handlers, NEW n \in Names, register(h, n) \/ unregister(h, n) PROVE Goal
  <2>1. n \in Owns[h] /\ op'[h].name = n /\ \A g \in Handlers : g # h => op'[g] = op[g]
    BY <1>3, SMT DEF register, unregister, TypeOK
  <2> QED BY <1>2, <2>1
<1>4. ASSUME NEW h \in Handlers, take_handle(h) \/ loop_exited(h) \/ unregister_timeout(h) PROVE Goal
  <2>1. /\ op[h].pc \in {"take_handle", "await_loop"} /\ op'[h].name = op[h].name
        /\ \A g \in Handlers : g # h => op'[g] = op[g]
    <3>1. CASE take_handle(h)
      BY <3>1, SMT DEF take_handle, TypeOK
    <3>2. CASE loop_exited(h) \/ unregister_timeout(h)
      <4>1. op[h] \in Ops /\ op \in [Handlers -> Ops]
        BY OpType DEF TypeOK, Ops
      <4>2. op[h].pc = "await_loop" /\ op' = [op EXCEPT ![h].pc = "remove_socket"]
        BY <3>2 DEF loop_exited, unregister_timeout
      <4> QED BY <4>1, <4>2, SMT
    <3> QED BY <1>4, <3>1, <3>2
  <2>2. op[h].name \in Owns[h]
    BY <2>1 DEF OwnInv, InFlight
  <2> QED BY <1>2, <2>1, <2>2
<1>5. ASSUME NEW h \in Handlers, store_handle(h) \/ remove_socket(h) \/ disconnect(h)
                                   \/ AdminAccept(h) \/ AbortAdmin(h)
      PROVE  Goal
  <2>1. op' \in {[op EXCEPT ![h] = Off], [op EXCEPT ![h] = Idle]}
    BY <1>5 DEF store_handle, remove_socket, disconnect, AdminAccept, AbortAdmin
  <2>2. Moves(h)
    BY <2>1, OffIdle DEF TypeOK
  <2> QED BY <1>2, <2>2
<1>6. ASSUME Crash PROVE Goal
  <2>1. \A h \in Handlers : op'[h].pc = "off"
    BY <1>6, OffIdle DEF Crash
  <2> QED BY <2>1 DEF Goal, OwnInv, InFlight
<1>7. ASSUME NEW i \in Inst, LoopNext(i) \/ AwaitLoop(i) \/ AwaitLoopTimeout(i) PROVE Goal
  BY <1>1, <1>7 DEF LoopNext, LoopIterate, LoopAccept, LoopAcceptError, LoopStop, LoopDrained,
       LoopDrainTimeout, ConnEnd, AwaitLoop, AwaitLoopTimeout
<1>8. ASSUME \/ AdminIterate \/ AdminAcceptError \/ Sigterm \/ BeginDrain \/ TakeTasks \/ Deadline
             \/ SnapshotSockets \/ RemoveSockets \/ Finish \/ Exit \/ UNCHANGED vars
      PROVE  Goal
  BY <1>1, <1>8 DEF AdminIterate, AdminAcceptError, Sigterm, BeginDrain, TakeTasks, Deadline,
       SnapshotSockets, RemoveSockets, Finish, Exit, vars
<1>9. ASSUME NEW h \in Handlers, NEW n \in Names, bind_fails(h, n) PROVE Goal
  BY <1>1, <1>9 DEF bind_fails
<1> QED BY <1>3, <1>4, <1>5, <1>6, <1>7, <1>8, <1>9 DEF Next, AdminNext, MainNext

LEMMA FreshStep ==
  ASSUME TypeOK, FreshInv, [Next]_vars
  PROVE  FreshInv'
<1> DEFINE Goal == FreshInv'
<1> SUFFICES Goal
  OBVIOUS
<1>1. ASSUME used' = used,
             \A i \in Inst : loop[i] \notin Live => loop'[i] \notin Live,
             \A i \in Inst : loop[i] \notin Live /\ ~notified[i] => ~notified'[i],
             \A n \in Names : sockfile'[n] = sockfile[n] \/ sockfile'[n] = None \/ sockfile'[n] = Stale
      PROVE  Goal
  <2>1. None <= used /\ Stale <= used
    BY SMT DEF TypeOK, None, Stale
  <2> QED BY <1>1, <2>1 DEF FreshInv
<1> HIDE DEF Goal
<1>2. ASSUME NEW i \in Inst, LoopNext(i) PROVE Goal
  BY <1>1, <1>2 DEF TypeOK, LoopNext, LoopIterate, LoopAccept, LoopAcceptError, LoopStop,
       LoopDrained, LoopDrainTimeout, ConnEnd, tables, Live
<1>3. ASSUME NEW h \in Handlers, NEW n \in Names, register(h, n) PROVE Goal
  <2>1. /\ used' = used + 1 /\ notified' = notified
        /\ sockfile' = [sockfile EXCEPT ![n] = used + 1] /\ loop' = [loop EXCEPT ![used + 1] = "spawned"]
    BY <1>3 DEF register
  <2>2. \A i \in Inst : i > used' => loop'[i] \notin Live /\ ~notified'[i]
    <3> TAKE i \in Inst
    <3> HAVE i > used'
    <3>1. i > used /\ i # used + 1
      BY <2>1, SMT DEF TypeOK, Inst
    <3> QED BY <2>1, <3>1 DEF FreshInv, TypeOK
  <2>3. \A m \in Names : sockfile'[m] <= used'
    <3> TAKE m \in Names
    <3>1. sockfile[m] <= used /\ sockfile[m] \in Int
      BY LifecycleAssumption, SMT DEF FreshInv, TypeOK, Inst, None, Stale
    <3>2. sockfile'[m] = sockfile[m] \/ sockfile'[m] = used + 1
      BY <2>1 DEF TypeOK
    <3> QED BY <2>1, <3>1, <3>2, SMT DEF TypeOK
  <2> QED BY <2>2, <2>3 DEF Goal, FreshInv
<1>4. ASSUME NEW h \in Handlers, NEW n \in Names, bind_fails(h, n) \/ unregister(h, n) PROVE Goal
  <2>1. \A i \in Inst : loop[i] \notin Live /\ ~notified[i] => ~notified'[i]
    BY <1>4 DEF bind_fails, unregister, notify_waiters, insts, Live
  <2> QED BY <1>1, <1>4, <2>1 DEF TypeOK, bind_fails, unregister, insts
<1>5. ASSUME NEW h \in Handlers,
             \/ store_handle(h) \/ take_handle(h) \/ loop_exited(h) \/ unregister_timeout(h)
             \/ remove_socket(h) \/ disconnect(h) \/ AdminAccept(h) \/ AbortAdmin(h)
      PROVE  Goal
  <2>1. /\ loop' = loop \/ loop' = [loop EXCEPT ![op[h].inst] = "done"]
        /\ sockfile' = sockfile \/ sockfile' = [sockfile EXCEPT ![op[h].name] = None]
        /\ used' = used /\ notified' = notified
    BY <1>5 DEF store_handle, take_handle, loop_exited, unregister_timeout, remove_socket, disconnect,
         AdminAccept, AbortAdmin, AbortLoop, tables, insts
  <2> QED BY <1>1, <2>1 DEF TypeOK, Live
<1>6. ASSUME BeginDrain PROVE Goal
  <2>1. \A i \in Inst : loop[i] \notin Live /\ ~notified[i] => ~notified'[i]
    BY <1>6 DEF BeginDrain, notify_waiters, Live
  <2> QED BY <1>1, <1>6, <2>1 DEF BeginDrain, tables
<1>7. ASSUME NEW i \in Inst, AwaitLoop(i) \/ AwaitLoopTimeout(i) PROVE Goal
  BY <1>1, <1>7 DEF TypeOK, AwaitLoop, AwaitLoopTimeout, AbortLoop, tables, insts, Live
<1>8. ASSUME \/ AdminIterate \/ AdminAcceptError \/ Sigterm \/ TakeTasks \/ Deadline
             \/ SnapshotSockets \/ RemoveSockets \/ Finish \/ Exit \/ UNCHANGED vars
      PROVE  Goal
  BY <1>1, <1>8 DEF TypeOK, AdminIterate, AdminAcceptError, Sigterm, TakeTasks, Deadline,
       SnapshotSockets, RemoveSockets, Finish, Exit, vars, tables, insts
<1>9. ASSUME Crash PROVE Goal
  <2>1. \A i \in Inst : loop'[i] \in {"none", "done"} /\ ~notified'[i]
    BY <1>9 DEF Crash
  <2>2. \A n \in Names : sockfile'[n] = None \/ sockfile'[n] = Stale
    BY <1>9 DEF Crash
  <2>3. used' = used
    BY <1>9 DEF Crash
  <2> QED BY <1>1, <2>1, <2>2, <2>3 DEF Live
<1> QED BY <1>2, <1>3, <1>4, <1>5, <1>6, <1>7, <1>8, <1>9 DEF Next, AdminNext, MainNext
-----------------------------------------------------------------------------
(* While the daemon serves. *)

LEMMA LoopServe ==
  ASSUME IInv, Running, NEW i \in Inst, LoopNext(i)
  PROVE  ServeInv'
<1>1. UNCHANGED <<registry, project_tasks, sockfile, op>>
  BY DEF LoopNext, LoopIterate, LoopAccept, LoopAcceptError, LoopStop, LoopDrained, LoopDrainTimeout,
       ConnEnd, tables
<1>2. \A j \in Inst : Serving(j) => Serving(j)'
  <2> TAKE j \in Inst
  <2> HAVE Serving(j)
  <2> QED BY DEF IInv, TypeOK, Serving, LoopNext, LoopIterate, LoopAccept, LoopAcceptError, LoopStop,
            LoopDrained, LoopDrainTimeout, ConnEnd
<1>3. \A j \in Inst : loop[j] \notin Live => loop'[j] = loop[j]
  BY DEF IInv, TypeOK, Live, LoopNext, LoopIterate, LoopAccept, LoopAcceptError, LoopStop, LoopDrained,
       LoopDrainTimeout, ConnEnd
<1>4. PathInv'
  BY <1>1, <1>3 DEF IInv, ServeInv, PathInv
<1>5. ASSUME NEW n \in Names PROVE Phase(n)'
  <2>1. Phase(n)
    BY DEF IInv, ServeInv
  <2>2. \A j \in Inst : loop[j] = "done" => loop'[j] = "done"
    BY <1>3 DEF Live
  <2> QED BY <1>1, <1>2, <2>1, <2>2, Undisturbed
<1> QED BY <1>4, <1>5 DEF ServeInv

LEMMA RegisterServe ==
  ASSUME DisjointOwners, IInv, Running, NEW h \in Handlers, NEW n \in Names, register(h, n)
  PROVE  ServeInv'
<1> DEFINE i == used + 1
<1>1. /\ n \in Owns[h] /\ op[h].pc = "idle" /\ registry[n] = None
      /\ registry' = [registry EXCEPT ![n] = i] /\ sockfile' = [sockfile EXCEPT ![n] = i]
      /\ loop' = [loop EXCEPT ![i] = "spawned"] /\ UNCHANGED <<project_tasks, notified>>
      /\ op' = [op EXCEPT ![h] = [pc |-> "store_handle", name |-> n, inst |-> i]]
  BY DEF register
<1>2. i \in Inst /\ i > used
  BY LifecycleAssumption, SMT DEF IInv, TypeOK, register, Inst
<1>3. \A m \in Names : sockfile[m] # i
  BY LifecycleAssumption, SMT DEF IInv, TypeOK, FreshInv, Inst, None, Stale
<1>4. ~notified[i] /\ loop[i] \notin Live
  BY <1>2 DEF IInv, FreshInv
<1> HIDE DEF i
<1>5. Free(n)
  BY <1>1, IdleOwner
<1>6. op'[h].pc = "store_handle" /\ op'[h].name = n /\ op'[h].inst = i
  BY <1>1, SMT DEF IInv, TypeOK
<1>7. \A g \in Handlers : g # h => op'[g] = op[g]
  BY <1>1 DEF IInv, TypeOK
<1>8. Phase(n)'
  <2>1. Works(h, n)'
    BY <1>6 DEF Works, InFlight
  <2>2. /\ registry'[n] = i /\ sockfile'[n] = i /\ project_tasks'[n] = None
        /\ loop'[i] = "spawned" /\ ~notified'[i]
    BY <1>1, <1>2, <1>4, <1>5 DEF IInv, TypeOK, Free
  <2>3. AtStep(h)'
    BY <1>2, <1>6, <2>2 DEF AtStep, Serving
  <2> QED BY <2>1, <2>3 DEF Phase
<1>9. ASSUME NEW m \in Names, m # n PROVE Phase(m)'
  <2>1. Phase(m)
    BY DEF IInv, ServeInv
  <2>2. \A j \in Inst : j = sockfile[m] =>
          (Serving(j) => Serving(j)') /\ (loop[j] = "done" => loop'[j] = "done")
    BY <1>1, <1>3 DEF IInv, TypeOK, Serving
  <2>3. registry'[m] = registry[m] /\ project_tasks'[m] = project_tasks[m] /\ sockfile'[m] = sockfile[m]
    BY <1>1, <1>9 DEF IInv, TypeOK
  <2>4. ~InFlight(h)
    BY <1>1 DEF InFlight
  <2> QED BY <1>6, <1>7, <1>9, <2>1, <2>2, <2>3, <2>4, OthersKeep
<1>10. PathInv'
  <2>1. \A m \in Names : sockfile'[m] = IF m = n THEN i ELSE sockfile[m]
    BY <1>1 DEF IInv, TypeOK
  <2>2. \A l, m \in Names : sockfile'[l] \in Inst /\ sockfile'[l] = sockfile'[m] => l = m
    BY <1>3, <2>1 DEF IInv, ServeInv, PathInv
  <2>3. ASSUME NEW j \in Inst, loop'[j] \in Live PROVE \E m \in Names : sockfile'[m] = j
    <3>1. CASE j = i
      BY <2>1, <3>1
    <3>2. CASE j # i
      <4>1. loop[j] \in Live
        BY <1>1, <2>3, <3>2 DEF IInv, TypeOK
      <4>2. PICK m \in Names : sockfile[m] = j
        BY <4>1 DEF IInv, ServeInv, PathInv
      <4>3. m # n
        BY <1>5, <4>2 DEF Free
      <4> QED BY <2>1, <4>2, <4>3
    <3> QED BY <3>1, <3>2
  <2> QED BY <2>2, <2>3 DEF PathInv
<1> QED BY <1>8, <1>9, <1>10 DEF ServeInv

LEMMA BindFailsServe ==
  ASSUME DisjointOwners, IInv, Running, NEW h \in Handlers, NEW n \in Names, bind_fails(h, n)
  PROVE  ServeInv'
<1>1. /\ n \in Owns[h] /\ op[h].pc = "idle" /\ registry[n] = None
      /\ sockfile' \in {[sockfile EXCEPT ![n] = None], [sockfile EXCEPT ![n] = Stale]}
      /\ UNCHANGED <<registry, project_tasks, loop, notified, op>>
  BY DEF bind_fails, insts
<1>2. Free(n)
  BY <1>1, IdleOwner
<1>3. sockfile'[n] \notin Inst /\ \A m \in Names : m # n => sockfile'[m] = sockfile[m]
  BY <1>1, Constants DEF IInv, TypeOK
<1>4. Phase(n)'
  BY <1>1, <1>2, <1>3 DEF Phase, Free, Works, InFlight
<1>5. ASSUME NEW m \in Names, m # n PROVE Phase(m)'
  <2>1. Phase(m)
    BY DEF IInv, ServeInv
  <2>2. \A j \in Inst : Serving(j) => Serving(j)'
    BY <1>1 DEF Serving
  <2> QED BY <1>1, <1>3, <1>5, <2>1, <2>2, Undisturbed
<1>6. PathInv'
  BY <1>1, <1>2, <1>3 DEF IInv, ServeInv, PathInv, Free
<1> QED BY <1>4, <1>5, <1>6 DEF ServeInv

(* A request that stays on its project disturbs no other, when it touches  *)
(* no other path's loop.                                                   *)
LEMMA OwnProject ==
  ASSUME IInv, Running, NEW h \in Handlers, NEW n \in Names,
         InFlight(h) => op[h].name = n, InFlight(h)' => op'[h].name = n,
         \A g \in Handlers : g # h => op'[g] = op[g],
         \A m \in Names : m # n =>
           registry'[m] = registry[m] /\ project_tasks'[m] = project_tasks[m] /\ sockfile'[m] = sockfile[m],
         \A j \in Inst : j # sockfile[n] => loop'[j] = loop[j] /\ notified'[j] = notified[j],
         sockfile[n] \in Inst, Phase(n)', PathInv'
  PROVE  ServeInv'
<1>1. ASSUME NEW m \in Names, m # n PROVE Phase(m)'
  <2>1. Phase(m)
    BY DEF IInv, ServeInv
  <2>2. sockfile[m] # sockfile[n]
    BY <1>1 DEF IInv, ServeInv, PathInv
  <2>3. \A j \in Inst : j = sockfile[m] =>
          (Serving(j) => Serving(j)') /\ (loop[j] = "done" => loop'[j] = "done")
    BY <2>2 DEF Serving
  <2> QED BY <1>1, <2>1, <2>3, OthersKeep
<1> QED BY <1>1 DEF ServeInv

LEMMA StoreServe ==
  ASSUME DisjointOwners, IInv, Running, NEW h \in Handlers, store_handle(h)
  PROVE  ServeInv'
<1>1. /\ op[h].pc = "store_handle"
      /\ project_tasks' = [project_tasks EXCEPT ![op[h].name] = op[h].inst]
      /\ op' = [op EXCEPT ![h] = Idle] /\ UNCHANGED <<registry, sockfile, loop, notified>>
  BY DEF store_handle, insts
<1>2. InFlight(h)
  BY <1>1 DEF InFlight
<1>3. PICK n \in Names : op[h].name = n /\ Works(h, n) /\ AtStep(h)
  BY <1>2, WorkerAt
<1>4. /\ registry[n] = op[h].inst /\ sockfile[n] = op[h].inst /\ sockfile[n] \in Inst
      /\ Serving(op[h].inst)
  BY <1>1, <1>3 DEF AtStep
<1>5. /\ ~InFlight(h)' /\ \A g \in Handlers : g # h => op'[g] = op[g]
  BY <1>1, OffIdle DEF IInv, TypeOK, InFlight
<1>6. Phase(n)'
  <2>1. \A g \in Handlers : ~Works(g, n)'
    <3> SUFFICES ASSUME NEW g \in Handlers, Works(g, n)' PROVE FALSE
      OBVIOUS
    <3>1. g # h
      BY <1>5 DEF Works
    <3>2. Works(g, n)
      BY <1>5, <3>1 DEF Works, InFlight
    <3> QED BY <1>3, <3>1, <3>2, OneWorker DEF IInv
  <2>2. project_tasks'[n] = op[h].inst
    BY <1>1, <1>3 DEF IInv, TypeOK
  <2> QED BY <1>1, <1>4, <2>1, <2>2 DEF Phase, Served, Serving
<1>7. PathInv'
  BY <1>1 DEF IInv, ServeInv, PathInv
<1>8. \A m \in Names : m # n => project_tasks'[m] = project_tasks[m]
  BY <1>1, <1>3 DEF IInv, TypeOK
<1> QED BY <1>1, <1>3, <1>4, <1>5, <1>6, <1>7, <1>8, OwnProject DEF Works

LEMMA UnregisterServe ==
  ASSUME DisjointOwners, IInv, Running, NEW h \in Handlers, NEW n \in Names, unregister(h, n)
  PROVE  ServeInv'
<1>1. /\ n \in Owns[h] /\ op[h].pc = "idle" /\ registry[n] # None
      /\ registry' = [registry EXCEPT ![n] = None] /\ UNCHANGED <<project_tasks, sockfile, loop>>
      /\ op' = [op EXCEPT ![h] = [pc |-> "take_handle", name |-> n, inst |-> None]]
      /\ notify_waiters({registry[n]})
  BY DEF unregister
<1>2. Served(n)
  BY <1>1, IdleOwner
<1>3. op'[h].pc = "take_handle" /\ op'[h].name = n
  BY <1>1, SMT DEF IInv, TypeOK
<1>4. ~InFlight(h) /\ \A g \in Handlers : g # h => op'[g] = op[g]
  BY <1>1 DEF IInv, TypeOK, InFlight
<1>5. Phase(n)'
  <2>1. Works(h, n)'
    BY <1>3 DEF Works, InFlight
  <2>2. registry'[n] = None
    BY <1>1 DEF IInv, TypeOK
  <2>3. AtStep(h)'
    BY <1>1, <1>2, <1>3, <2>2 DEF AtStep, Served
  <2> QED BY <2>1, <2>3 DEF Phase
<1>6. PathInv'
  BY <1>1 DEF IInv, ServeInv, PathInv
<1>7. \A j \in Inst : j # sockfile[n] => notified'[j] = notified[j]
  BY <1>1, <1>2 DEF IInv, TypeOK, Served, notify_waiters
<1>8. \A m \in Names : m # n => registry'[m] = registry[m]
  BY <1>1 DEF IInv, TypeOK
<1>9. sockfile[n] \in Inst
  BY <1>2 DEF Served
<1> QED BY <1>1, <1>3, <1>4, <1>5, <1>6, <1>7, <1>8, <1>9, OwnProject

LEMMA TakeServe ==
  ASSUME DisjointOwners, IInv, Running, NEW h \in Handlers, take_handle(h)
  PROVE  ServeInv'
<1>1. op[h].pc = "take_handle"
  BY DEF take_handle
<1>2. InFlight(h)
  BY <1>1 DEF InFlight
<1>3. PICK n \in Names : op[h].name = n /\ Works(h, n) /\ AtStep(h)
  BY <1>2, WorkerAt
<1>4. PICK i \in Inst : registry[n] = None /\ i = project_tasks[n] /\ i = sockfile[n] /\ i # None
  BY <1>1, <1>3, Constants DEF AtStep
<1>5. op' = [op EXCEPT ![h] = [pc |-> "await_loop", name |-> n, inst |-> i]]
  BY <1>3, <1>4 DEF take_handle
<1>6. /\ project_tasks' = [project_tasks EXCEPT ![n] = None]
      /\ UNCHANGED <<registry, sockfile, loop, notified>>
  BY <1>3 DEF take_handle, insts
<1>7. op'[h].pc = "await_loop" /\ op'[h].name = n /\ op'[h].inst = i
  BY <1>5, SMT DEF IInv, TypeOK
<1>8. \A g \in Handlers : g # h => op'[g] = op[g]
  BY <1>5 DEF IInv, TypeOK
<1>9. Phase(n)'
  <2>1. Works(h, n)'
    BY <1>7 DEF Works, InFlight
  <2>2. project_tasks'[n] = None
    BY <1>3, <1>6 DEF IInv, TypeOK
  <2>3. AtStep(h)'
    BY <1>4, <1>6, <1>7, <2>2 DEF AtStep
  <2> QED BY <2>1, <2>3 DEF Phase
<1>10. PathInv'
  BY <1>6 DEF IInv, ServeInv, PathInv
<1>11. \A m \in Names : m # n => project_tasks'[m] = project_tasks[m]
  BY <1>6 DEF IInv, TypeOK
<1> QED BY <1>3, <1>4, <1>6, <1>7, <1>8, <1>9, <1>10, <1>11, OwnProject DEF Works

LEMMA LoopEndServe ==
  ASSUME DisjointOwners, IInv, Running, NEW h \in Handlers, loop_exited(h) \/ unregister_timeout(h)
  PROVE  ServeInv'
<1>1. op[h].pc = "await_loop" /\ op' = [op EXCEPT ![h].pc = "remove_socket"]
  BY DEF loop_exited, unregister_timeout
<1>2. InFlight(h)
  BY <1>1 DEF InFlight
<1>3. PICK n \in Names : op[h].name = n /\ Works(h, n) /\ AtStep(h)
  BY <1>2, WorkerAt
<1>4. PICK i \in Inst : op[h].inst = i /\ sockfile[n] = i /\ registry[n] = None /\ project_tasks[n] = None
  BY <1>1, <1>3 DEF AtStep
<1>5. /\ UNCHANGED <<registry, project_tasks, sockfile, notified>>
      /\ \A j \in Inst : loop'[j] = IF j = i THEN "done" ELSE loop[j]
  <2>1. CASE loop_exited(h)
    BY <1>4, <2>1 DEF loop_exited, tables, insts
  <2>2. CASE unregister_timeout(h)
    BY <1>4, <2>2 DEF IInv, TypeOK, unregister_timeout, AbortLoop, tables
  <2> QED BY <2>1, <2>2
<1>6. /\ op'[h].pc = "remove_socket" /\ op'[h].name = n /\ op'[h].inst = i
      /\ \A g \in Handlers : g # h => op'[g] = op[g]
  <2>1. op[h] \in Ops /\ op \in [Handlers -> Ops]
    BY OpType DEF IInv, TypeOK, Ops
  <2> QED BY <1>1, <1>3, <1>4, <2>1, SMT
<1>7. Phase(n)'
  <2>1. Works(h, n)'
    BY <1>6 DEF Works, InFlight
  <2>2. AtStep(h)'
    BY <1>4, <1>5, <1>6 DEF AtStep
  <2> QED BY <2>1, <2>2 DEF Phase
<1>8. PathInv'
  <2>1. \A j \in Inst : loop'[j] \in Live => loop[j] \in Live
    BY <1>5 DEF Live
  <2> QED BY <1>5, <2>1 DEF IInv, ServeInv, PathInv
<1> QED BY <1>3, <1>4, <1>5, <1>6, <1>7, <1>8, OwnProject DEF Works

LEMMA RemoveServe ==
  ASSUME DisjointOwners, IInv, Running, NEW h \in Handlers, remove_socket(h)
  PROVE  ServeInv'
<1>1. /\ op[h].pc = "remove_socket" /\ sockfile' = [sockfile EXCEPT ![op[h].name] = None]
      /\ op' = [op EXCEPT ![h] = Idle] /\ UNCHANGED <<registry, project_tasks, loop, notified>>
  BY DEF remove_socket, insts
<1>2. InFlight(h)
  BY <1>1 DEF InFlight
<1>3. PICK n \in Names : op[h].name = n /\ Works(h, n) /\ AtStep(h)
  BY <1>2, WorkerAt
<1>4. /\ sockfile[n] \in Inst /\ loop[sockfile[n]] = "done"
      /\ registry[n] = None /\ project_tasks[n] = None
  BY <1>1, <1>3 DEF AtStep
<1>5. ~InFlight(h)' /\ \A g \in Handlers : g # h => op'[g] = op[g]
  BY <1>1, OffIdle DEF IInv, TypeOK, InFlight
<1>6. sockfile'[n] = None /\ \A m \in Names : m # n => sockfile'[m] = sockfile[m]
  BY <1>1, <1>3 DEF IInv, TypeOK
<1>7. Phase(n)'
  <2>1. \A g \in Handlers : ~Works(g, n)'
    <3> SUFFICES ASSUME NEW g \in Handlers, Works(g, n)' PROVE FALSE
      OBVIOUS
    <3>1. g # h
      BY <1>5 DEF Works
    <3>2. Works(g, n)
      BY <1>5, <3>1 DEF Works, InFlight
    <3> QED BY <1>3, <3>1, <3>2, OneWorker DEF IInv
  <2> QED BY <1>1, <1>4, <1>6, <2>1, Constants DEF Phase, Free
<1>8. PathInv'
  <2>1. \A l, m \in Names : sockfile'[l] \in Inst /\ sockfile'[l] = sockfile'[m] => l = m
    BY <1>6, Constants DEF IInv, ServeInv, PathInv
  <2>2. ASSUME NEW j \in Inst, loop'[j] \in Live PROVE \E m \in Names : sockfile'[m] = j
    <3>1. PICK m \in Names : sockfile[m] = j
      BY <1>1, <2>2 DEF IInv, ServeInv, PathInv
    <3>2. m # n
      BY <1>1, <1>4, <2>2, <3>1 DEF Live
    <3> QED BY <1>6, <3>1, <3>2
  <2> QED BY <2>1, <2>2 DEF PathInv
<1> QED BY <1>1, <1>3, <1>4, <1>5, <1>6, <1>7, <1>8, OwnProject DEF Works

(* The steps that change no table and no request.                          *)
LEMMA QuietServe ==
  ASSUME IInv, Running, UNCHANGED <<registry, project_tasks, sockfile, loop, notified>>,
         \A g \in Handlers : InFlight(g) \/ InFlight(g)' => op'[g] = op[g]
  PROVE  ServeInv'
<1>1. PathInv'
  BY DEF IInv, ServeInv, PathInv
<1>2. ASSUME NEW n \in Names PROVE Phase(n)'
  <2>1. Phase(n)
    BY DEF IInv, ServeInv
  <2>2. \A j \in Inst : Serving(j) => Serving(j)'
    BY DEF Serving
  <2>3. \A g \in Handlers : Works(g, n) \/ Works(g, n)' => op'[g] = op[g]
    BY DEF Works
  <2> QED BY <2>1, <2>2, <2>3, Undisturbed
<1> QED BY <1>1, <1>2 DEF ServeInv

LEMMA CrashServe ==
  ASSUME Crash
  PROVE  ServeInv'
<1>1. \A n \in Names : registry'[n] = None /\ project_tasks'[n] = None /\ sockfile'[n] \notin Inst
  BY Constants DEF Crash
<1>2. \A i \in Inst : loop'[i] \in {"done", "none"}
  BY DEF Crash
<1>3. \A h \in Handlers : ~InFlight(h)'
  BY OffIdle DEF Crash, InFlight
<1>4. \A n \in Names : Free(n)'
  BY <1>1, <1>3 DEF Free, Works
<1>5. PathInv'
  BY <1>1, <1>2 DEF PathInv, Live
<1> QED BY <1>4, <1>5 DEF ServeInv, Phase

LEMMA ServeStep ==
  ASSUME DisjointOwners, IInv, [Next]_vars
  PROVE  ServeInv'
<1> DEFINE Goal == ServeInv'
<1> SUFFICES Goal
  OBVIOUS
<1>0. ASSUME ~Running' PROVE Goal
  BY <1>0 DEF ServeInv
<1> HIDE DEF Goal
<1>1. ASSUME NEW i \in Inst, LoopNext(i) PROVE Goal
  <2>1. main' = main
    BY <1>1 DEF LoopNext, LoopIterate, LoopAccept, LoopAcceptError, LoopStop, LoopDrained,
         LoopDrainTimeout, ConnEnd, mainVars
  <2> QED BY <1>0, <1>1, <2>1, LoopServe DEF Running, Goal
<1>2. ASSUME NEW h \in Handlers, NEW n \in Names, register(h, n) \/ bind_fails(h, n) \/ unregister(h, n)
      PROVE  Goal
  <2>1. main' = main
    BY <1>2 DEF register, bind_fails, unregister, mainVars
  <2> QED BY <1>0, <1>2, <2>1, RegisterServe, BindFailsServe, UnregisterServe DEF Running, Goal
<1>3. ASSUME NEW h \in Handlers,
             \/ store_handle(h) \/ take_handle(h) \/ loop_exited(h) \/ unregister_timeout(h)
             \/ remove_socket(h)
      PROVE  Goal
  <2>1. main' = main
    BY <1>3 DEF store_handle, take_handle, loop_exited, unregister_timeout, remove_socket, mainVars
  <2> QED BY <1>0, <1>3, <2>1, StoreServe, TakeServe, LoopEndServe, RemoveServe DEF Running, Goal
<1>4. ASSUME NEW h \in Handlers, disconnect(h) \/ AdminAccept(h) PROVE Goal
  <2>1. /\ op[h].pc \in {"off", "idle"} /\ op' \in {[op EXCEPT ![h] = Off], [op EXCEPT ![h] = Idle]}
        /\ UNCHANGED <<registry, project_tasks, sockfile, loop, notified>>
        /\ main' = main \/ Running
    BY <1>4 DEF disconnect, AdminAccept, tables, insts, mainVars, Running
  <2>2. ~InFlight(h) /\ ~InFlight(h)' /\ \A g \in Handlers : g # h => op'[g] = op[g]
    BY <2>1, OffIdle DEF IInv, TypeOK, InFlight
  <2> QED BY <1>0, <2>1, <2>2, QuietServe DEF Running, Goal
<1>5. ASSUME NEW h \in Handlers, AbortAdmin(h) PROVE Goal
  BY <1>0, <1>5 DEF AbortAdmin, mainVars, Running
<1>6. ASSUME AdminIterate \/ AdminAcceptError \/ Sigterm \/ UNCHANGED vars PROVE Goal
  <2>1. /\ UNCHANGED <<registry, project_tasks, sockfile, loop, notified, op>>
        /\ main' = main \/ Running
    BY <1>6 DEF AdminIterate, AdminAcceptError, Sigterm, vars, tables, insts, mainVars, Running
  <2> QED BY <1>0, <2>1, QuietServe DEF Running, Goal
<1>7. ASSUME BeginDrain \/ TakeTasks \/ Deadline \/ SnapshotSockets \/ RemoveSockets \/ Finish \/ Exit
      PROVE  Goal
  BY <1>0, <1>7 DEF BeginDrain, TakeTasks, Deadline, SnapshotSockets, RemoveSockets, Finish, Exit, Running
<1>8. ASSUME NEW i \in Inst, AwaitLoop(i) \/ AwaitLoopTimeout(i) PROVE Goal
  BY <1>0, <1>8 DEF AwaitLoop, AwaitLoopTimeout, Running
<1>9. ASSUME Crash PROVE Goal
  BY <1>9, CrashServe DEF Goal
<1> QED
  BY <1>1, <1>2, <1>3, <1>4, <1>5, <1>6, <1>7, <1>8, <1>9 DEF Next, AdminNext, MainNext
-----------------------------------------------------------------------------
(* The shutdown. *)

(* When the drain begins with no request in flight, a path with a listener *)
(* behind it is that of a registered project.                              *)
LEMMA BeginDrainStep ==
  ASSUME IInv, BeginDrain
  PROVE  DrainInv'
<1> SUFFICES ASSUME ~late' PROVE /\ \A h \in Handlers : ~InFlight(h)'
                                 /\ \A n \in Names : sockfile'[n] \in Inst =>
                                      main' \in {"take_tasks", "await_loops"} /\ registry'[n] # None
  BY DEF DrainInv, Listed
<1>1. Running /\ UNCHANGED <<registry, sockfile, op>> /\ main' = "take_tasks"
  BY DEF BeginDrain, Running, tables
<1>2. \A h \in Handlers : ~InFlight(h)
  BY DEF BeginDrain
<1>3. ASSUME NEW n \in Names, sockfile[n] \in Inst PROVE registry[n] # None
  <2>1. Phase(n)
    BY <1>1 DEF IInv, ServeInv
  <2> QED BY <1>2, <1>3, <2>1, Constants DEF Phase, Free, Served, Works
<1> QED BY <1>1, <1>2, <1>3 DEF InFlight

LEMMA DrainStep ==
  ASSUME IInv, [Next]_vars
  PROVE  DrainInv'
<1> DEFINE Goal == DrainInv'
<1> SUFFICES Goal
  OBVIOUS
<1>0. ASSUME Running' \/ late' PROVE Goal
  BY <1>0 DEF DrainInv
\* A step that begins no request, keeps the registry and creates no listener.
<1>1. ASSUME main' = main, late' = late, registry' = registry, unlink' = unlink,
             \A h \in Handlers : InFlight(h)' => InFlight(h),
             \A n \in Names : sockfile'[n] \in Inst => sockfile[n] = sockfile'[n]
      PROVE  Goal
  BY <1>1 DEF IInv, DrainInv, Running, Listed
<1>2. ASSUME ~Running => late, late' = late, main' = main PROVE Goal
  BY <1>2 DEF DrainInv, Running
<1>3. ASSUME ~Running, late' = late, UNCHANGED <<registry, op>>,
             \A n \in Names : Listed(n) /\ sockfile'[n] \in Inst => Listed(n)',
             \A n \in Names : sockfile'[n] \in Inst => sockfile[n] \in Inst
      PROVE  Goal
  BY <1>3 DEF IInv, DrainInv, InFlight
<1> HIDE DEF Goal
<1>4. ASSUME NEW i \in Inst, LoopNext(i) \/ AwaitLoop(i) \/ AwaitLoopTimeout(i) PROVE Goal
  <2>1. UNCHANGED <<main, late, registry, unlink, op, sockfile>>
    BY <1>4 DEF LoopNext, LoopIterate, LoopAccept, LoopAcceptError, LoopStop, LoopDrained,
         LoopDrainTimeout, ConnEnd, AwaitLoop, AwaitLoopTimeout, tables, mainVars, ghosts
  <2> QED BY <1>1, <2>1 DEF InFlight
<1>5. ASSUME NEW h \in Handlers, NEW n \in Names, register(h, n) \/ unregister(h, n) PROVE Goal
  <2>1. late' = (late \/ ~Running) /\ main' = main
    BY <1>5 DEF register, unregister, mainVars
  <2> QED BY <1>0, <2>1 DEF Running
<1>6. ASSUME NEW h \in Handlers, NEW n \in Names, bind_fails(h, n) PROVE Goal
  <2>1. \A m \in Names : sockfile'[m] \in Inst => sockfile[m] = sockfile'[m]
    BY <1>6, Constants DEF bind_fails, IInv, TypeOK
  <2> QED BY <1>1, <1>6, <2>1 DEF bind_fails, mainVars, ghosts, InFlight
<1>7. ASSUME NEW h \in Handlers,
             \/ store_handle(h) \/ take_handle(h) \/ loop_exited(h) \/ unregister_timeout(h)
             \/ remove_socket(h)
      PROVE  Goal
  <2>1. InFlight(h) /\ main' = main /\ late' = late
    BY <1>7 DEF store_handle, take_handle, loop_exited, unregister_timeout, remove_socket, mainVars,
         ghosts, InFlight
  <2>2. ~Running => late
    BY <2>1 DEF IInv, DrainInv
  <2> QED BY <1>2, <2>1, <2>2
<1>8. ASSUME NEW h \in Handlers, disconnect(h) \/ AbortAdmin(h) PROVE Goal
  <2>1. op' = [op EXCEPT ![h] = Off] /\ UNCHANGED <<main, late, registry, unlink, sockfile>>
    BY <1>8 DEF disconnect, AbortAdmin, tables, mainVars, ghosts
  <2>2. \A g \in Handlers : InFlight(g)' => InFlight(g)
    BY <2>1, OffIdle DEF IInv, TypeOK, InFlight
  <2> QED BY <1>1, <2>1, <2>2
<1>9. ASSUME (\E h \in Handlers : AdminAccept(h)) \/ AdminIterate \/ AdminAcceptError \/ Crash PROVE Goal
  BY <1>0, <1>9 DEF AdminAccept, AdminIterate, AdminAcceptError, Crash, Running
<1>10. ASSUME Sigterm \/ Deadline \/ UNCHANGED vars PROVE Goal
  <2>1. UNCHANGED <<main, late, registry, unlink, op, sockfile>>
    BY <1>10 DEF Sigterm, Deadline, vars, tables, mainVars, ghosts
  <2> QED BY <1>1, <2>1 DEF InFlight
<1>11. ASSUME BeginDrain PROVE Goal
  BY <1>11, BeginDrainStep DEF Goal
<1>12. ASSUME TakeTasks \/ SnapshotSockets PROVE Goal
  BY <1>3, <1>12 DEF TakeTasks, SnapshotSockets, tables, ghosts, Running, Listed
<1>13. ASSUME RemoveSockets PROVE Goal
  <2>1. /\ main = "unlink" /\ UNCHANGED <<registry, op, late>>
        /\ \A n \in Names : sockfile'[n] = IF n \in unlink THEN None ELSE sockfile[n]
    BY <1>13 DEF RemoveSockets, ghosts
  <2> QED BY <1>3, <2>1, Constants DEF Running, Listed
<1>14. ASSUME Finish \/ Exit PROVE Goal
  BY <1>3, <1>14 DEF Finish, Exit, tables, ghosts, Running, Listed
<1> QED
  BY <1>4, <1>5, <1>6, <1>7, <1>8, <1>9, <1>10, <1>11, <1>12, <1>13, <1>14
     DEF Next, AdminNext, MainNext
-----------------------------------------------------------------------------
LEMMA InitInv == Init => IInv
<1> SUFFICES ASSUME Init PROVE IInv
  OBVIOUS
<1>1. \A h \in Handlers : ~InFlight(h)
  BY OffIdle DEF Init, InFlight
<1>2. FreshInv
  <2>1. \A n \in Names : sockfile[n] <= used
    BY SMT DEF Init, None
  <2> QED BY <2>1 DEF Init, FreshInv, Live
<1>3. Running
  BY DEF Init, Running
<1>4. PathInv /\ \A n \in Names : Phase(n)
  BY <1>1, Constants DEF Init, PathInv, Phase, Free, Works, Live
<1> QED BY <1>1, <1>2, <1>3, <1>4, InitType DEF IInv, OwnInv, ServeInv, DrainInv

LEMMA Invariant ==
  ASSUME DisjointOwners
  PROVE  Spec => []IInv
<1>1. IInv /\ [Next]_vars => IInv'
  BY TypeStep, OwnStep, FreshStep, ServeStep, DrainStep DEF IInv
<1> QED BY <1>1, InitInv, PTL DEF Spec

LEMMA ServedHolds == IInv => RegisteredIsServed
<1> SUFFICES ASSUME IInv, Running, NEW n \in Names, registry[n] # None
             PROVE  LET i == registry[n]
                    IN /\ sockfile[n] = i
                       /\ loop[i] \in {"spawned", "select", "busy"} /\ ~notified[i]
                       /\ \/ project_tasks[n] = i
                          \/ \E h \in Handlers : op[h].pc = "store_handle" /\ op[h].inst = i
  BY DEF RegisteredIsServed
<1>1. Phase(n)
  BY DEF IInv, ServeInv
<1>2. CASE Served(n)
  BY <1>2 DEF Served, Serving
<1>3. ASSUME NEW h \in Handlers, Works(h, n), AtStep(h)
      PROVE  /\ op[h].pc = "store_handle" /\ op[h].inst = registry[n]
             /\ sockfile[n] = registry[n] /\ Serving(registry[n])
  <2>1. op[h].pc \in {"store_handle", "await_loop", "take_handle", "remove_socket"}
    BY <1>3, OpType DEF IInv, Works, InFlight
  <2> QED BY <1>3, <2>1 DEF Works, AtStep
<1>4. CASE \E h \in Handlers : Works(h, n) /\ AtStep(h)
  BY <1>3, <1>4 DEF Serving
<1> QED BY <1>1, <1>2, <1>4 DEF Phase, Free

LEMMA NothingHolds == IInv => NothingOutlivesUnregister
<1> SUFFICES ASSUME IInv, Running, NEW i \in Inst,
                    loop[i] \in Live \/ \E n \in Names : sockfile[n] = i
             PROVE  \E n \in Names :
                      \/ registry[n] = i
                      \/ \E h \in Handlers :
                           Unregistering(h, n) /\ i \in {project_tasks[n], op[h].inst, sockfile[n]}
  BY DEF NothingOutlivesUnregister
<1>1. PICK n \in Names : sockfile[n] = i
  BY DEF IInv, ServeInv, PathInv
<1>2. Phase(n)
  BY DEF IInv, ServeInv
<1>3. ASSUME NEW h \in Handlers, Works(h, n), AtStep(h)
      PROVE  registry[n] = i \/ Unregistering(h, n)
  <2>1. op[h].pc \in {"store_handle", "await_loop", "take_handle", "remove_socket"}
    BY <1>3, OpType DEF IInv, Works, InFlight
  <2> QED BY <1>1, <1>3, <2>1 DEF Works, AtStep, Unregistering
<1> QED BY <1>1, <1>2, <1>3 DEF Phase, Free, Served

LEMMA CleanHolds == IInv => CleanExit
BY DEF IInv, DrainInv, CleanExit, Running, Listed

(* When no two admin clients manage the same project, a registered project *)
(* is reachable as long as the daemon serves, for any number of projects,  *)
(* clients, registrations, failing binds and crashes.                      *)
THEOREM RegisteredServed ==
  ASSUME DisjointOwners
  PROVE  Spec => []RegisteredIsServed
BY Invariant, ServedHolds, PTL

(* Under the same condition, no accept loop and no listening socket        *)
(* outlives dispatch_unregister's answer.                                  *)
THEOREM NothingOutlives ==
  ASSUME DisjointOwners
  PROVE  Spec => []NothingOutlivesUnregister
BY Invariant, NothingHolds, PTL

(* Under the same condition, a shutdown that no admin request overlaps     *)
(* leaves the socket of none of the daemon's projects behind               *)
(* (Server::run's snapshot of the registry after the drain).               *)
THEOREM CleanExitHolds ==
  ASSUME DisjointOwners
  PROVE  Spec => []CleanExit
BY Invariant, CleanHolds, PTL
-----------------------------------------------------------------------------
(* Requests finish.  An accept loop that has ended stays so, since a new   *)
(* registration starts a loop that no request and no drain waits for yet.  *)

BornInv ==
  /\ \A n \in Names : project_tasks[n] <= used
  /\ \A h \in Handlers : op[h].inst <= used
  /\ \A i \in pending : i <= used

LEMMA BornStep ==
  ASSUME TypeOK, BornInv, [Next]_vars
  PROVE  BornInv'
<1> DEFINE Goal == BornInv'
<1> SUFFICES Goal
  OBVIOUS
<1>0. /\ None <= used /\ used <= used /\ used \in Nat /\ used <= used + 1
      /\ \A i \in Inst \cup {None} : i <= used => i <= used + 1
      /\ Idle.inst = None /\ Off.inst = None
      /\ \A h \in Handlers : op[h].inst \in Inst \cup {None}
  <2>1. None <= used /\ used <= used /\ used \in Nat /\ used <= used + 1
    BY LifecycleAssumption, SMT DEF TypeOK, None
  <2>2. \A i \in Inst \cup {None} : i <= used => i <= used + 1
    BY <2>1, LifecycleAssumption, SMT DEF Inst, None
  <2>3. Idle.inst = None /\ Off.inst = None
    BY SMT DEF Idle, Off
  <2>4. \A h \in Handlers : op[h].inst \in Inst \cup {None}
    BY <2>3, OpType
  <2> QED BY <2>1, <2>2, <2>3, <2>4
<1>1. ASSUME used' = used, \A n \in Names : project_tasks'[n] <= used,
             \A h \in Handlers : op'[h].inst <= used, \A i \in pending' : i <= used
      PROVE  Goal
  BY <1>1 DEF BornInv
<1> HIDE DEF Goal
<1>2. ASSUME UNCHANGED <<project_tasks, op, used>>, pending' \subseteq pending PROVE Goal
  BY <1>1, <1>2 DEF BornInv
<1>3. ASSUME NEW i \in Inst, LoopNext(i) PROVE Goal
  BY <1>2, <1>3 DEF LoopNext, LoopIterate, LoopAccept, LoopAcceptError, LoopStop, LoopDrained,
       LoopDrainTimeout, ConnEnd, tables, mainVars
<1>4. ASSUME NEW h \in Handlers, NEW n \in Names, register(h, n) PROVE Goal
  <2>1. /\ used' = used + 1 /\ project_tasks' = project_tasks /\ pending' = pending
        /\ op' = [op EXCEPT ![h] = [pc |-> "store_handle", name |-> n, inst |-> used + 1]]
    BY <1>4 DEF register, mainVars
  <2>2. \A m \in Names : project_tasks'[m] <= used'
    BY <1>0, <2>1 DEF BornInv, TypeOK
  <2>3. \A i \in pending' : i <= used'
    BY <1>0, <2>1 DEF BornInv, TypeOK
  <2>4. [pc |-> "store_handle", name |-> n, inst |-> used + 1].inst <= used + 1
    BY <1>0, SMT
  <2>5. \A g \in Handlers : op'[g].inst <= used'
    BY <1>0, <2>1, <2>4 DEF BornInv, TypeOK
  <2> QED BY <2>2, <2>3, <2>5 DEF Goal, BornInv
<1>5. ASSUME NEW h \in Handlers, UNCHANGED <<used, pending>>,
             project_tasks' = project_tasks
               \/ project_tasks' = [project_tasks EXCEPT ![op[h].name] = None]
               \/ project_tasks' = [project_tasks EXCEPT ![op[h].name] = op[h].inst],
             NEW o, op' = [op EXCEPT ![h] = o], o.inst <= used
      PROVE  Goal
  <2>1. \A g \in Handlers : op'[g].inst <= used
    BY <1>5 DEF BornInv, TypeOK
  <2>2. \A n \in Names : project_tasks'[n] <= used
    BY <1>0, <1>5 DEF BornInv, TypeOK
  <2> QED BY <1>1, <1>5, <2>1, <2>2 DEF BornInv
<1>6. ASSUME NEW h \in Handlers, NEW n \in Names, bind_fails(h, n) PROVE Goal
  BY <1>2, <1>6 DEF bind_fails, insts, mainVars
<1>7. ASSUME NEW h \in Handlers, NEW n \in Names, unregister(h, n) PROVE Goal
  <2>1. [pc |-> "take_handle", name |-> n, inst |-> None].inst <= used
    BY <1>0, SMT
  <2> QED BY <1>5, <1>7, <2>1 DEF unregister, mainVars
<1>8. ASSUME NEW h \in Handlers, store_handle(h) \/ remove_socket(h) PROVE Goal
  <2>1. Idle.inst <= used
    BY <1>0
  <2> QED BY <1>5, <1>8, <2>1 DEF store_handle, remove_socket, insts, mainVars
<1>9. ASSUME NEW h \in Handlers, disconnect(h) \/ AdminAccept(h) \/ AbortAdmin(h) PROVE Goal
  <2>1. Idle.inst <= used /\ Off.inst <= used
    BY <1>0
  <2> QED BY <1>5, <1>9, <2>1 DEF disconnect, AdminAccept, AbortAdmin, tables, insts, mainVars
<1>10. ASSUME NEW h \in Handlers, take_handle(h) PROVE Goal
  <2> DEFINE i == project_tasks[op[h].name]
             o == [pc |-> IF i = None THEN "remove_socket" ELSE "await_loop",
                   name |-> op[h].name, inst |-> i]
  <2>1. op[h].name \in Names
    BY <1>10, OpType DEF take_handle
  <2>2. i <= used
    BY <2>1 DEF BornInv
  <2>3. o.inst = i
    BY SMT
  <2>4. op' = [op EXCEPT ![h] = o]
    BY <1>10 DEF take_handle
  <2> HIDE DEF i, o
  <2> QED BY <1>5, <1>10, <2>2, <2>3, <2>4 DEF take_handle, insts, mainVars
<1>11. ASSUME NEW h \in Handlers, loop_exited(h) \/ unregister_timeout(h) PROVE Goal
  <2> DEFINE o == [op[h] EXCEPT !.pc = "remove_socket"]
  <2>1. op' = [op EXCEPT ![h].pc = "remove_socket"] /\ op[h].pc = "await_loop"
    BY <1>11 DEF loop_exited, unregister_timeout
  <2>2. op[h] \in [pc : {"store_handle", "await_loop"}, name : Names, inst : Inst]
    BY <2>1, OpType, OffIdle, SMT DEF Ops
  <2>3. o.inst = op[h].inst
    BY <2>2, SMT
  <2>4. op' = [op EXCEPT ![h] = o]
    BY <2>1, SMT DEF TypeOK
  <2>5. o.inst <= used
    BY <2>3 DEF BornInv
  <2> HIDE DEF o
  <2> QED BY <1>5, <1>11, <2>4, <2>5 DEF loop_exited, unregister_timeout, tables, insts, mainVars
<1>12. ASSUME TakeTasks PROVE Goal
  <2>1. \A n \in Names : project_tasks'[n] <= used
    BY <1>0, <1>12 DEF TakeTasks
  <2>2. \A i \in pending' : i <= used
    BY <1>12 DEF TakeTasks, BornInv
  <2> QED BY <1>1, <1>12, <2>1, <2>2 DEF TakeTasks, BornInv, insts
<1>13. ASSUME Crash PROVE Goal
  BY <1>0, <1>1, <1>13 DEF Crash
<1>14. ASSUME \/ AdminIterate \/ AdminAcceptError \/ Sigterm \/ BeginDrain \/ Deadline
              \/ (\E i \in Inst : AwaitLoop(i) \/ AwaitLoopTimeout(i))
              \/ SnapshotSockets \/ RemoveSockets \/ Finish \/ Exit \/ UNCHANGED vars
       PROVE  Goal
  BY <1>2, <1>14 DEF AdminIterate, AdminAcceptError, Sigterm, BeginDrain, Deadline, AwaitLoop,
       AwaitLoopTimeout, SnapshotSockets, RemoveSockets, Finish, Exit, vars, tables, insts, mainVars
<1> QED
  BY <1>3, <1>4, <1>6, <1>7, <1>8, <1>9, <1>10, <1>11, <1>12, <1>13, <1>14
     DEF Next, AdminNext, MainNext

(* An accept loop that has ended stays so.                                 *)
LEMMA DoneStays ==
  ASSUME TypeOK, [Next]_vars, NEW i \in Inst, i <= used, loop[i] = "done"
  PROVE  loop'[i] = "done"
<1> DEFINE Goal == loop'[i] = "done"
<1> SUFFICES Goal
  OBVIOUS
<1>1. ASSUME NEW j, loop' = loop \/ loop' = [loop EXCEPT ![j] = "done"] PROVE Goal
  BY <1>1 DEF TypeOK
<1>2. ASSUME NEW j \in Inst, LoopNext(j) PROVE Goal
  BY <1>2 DEF TypeOK, LoopNext, LoopIterate, LoopAccept, LoopAcceptError, LoopStop, LoopDrained,
       LoopDrainTimeout, ConnEnd
<1>3. ASSUME NEW h \in Handlers, NEW n \in Names, register(h, n) PROVE Goal
  <2>1. i # used + 1
    BY LifecycleAssumption, SMT DEF TypeOK, Inst
  <2> QED BY <1>3, <2>1 DEF register, TypeOK
<1>4. ASSUME Crash PROVE Goal
  BY <1>4 DEF Crash
<1> HIDE DEF Goal
<1>5. ASSUME NEW h \in Handlers, NEW n \in Names, bind_fails(h, n) \/ unregister(h, n) PROVE Goal
  BY <1>1, <1>5 DEF bind_fails, unregister, insts
<1>6. ASSUME NEW h \in Handlers,
             \/ store_handle(h) \/ take_handle(h) \/ loop_exited(h) \/ unregister_timeout(h)
             \/ remove_socket(h) \/ disconnect(h) \/ AdminAccept(h) \/ AbortAdmin(h)
      PROVE  Goal
  BY <1>1, <1>6 DEF store_handle, take_handle, loop_exited, unregister_timeout, remove_socket,
       disconnect, AdminAccept, AbortAdmin, AbortLoop, insts
<1>7. ASSUME \/ AdminIterate \/ AdminAcceptError \/ Sigterm \/ BeginDrain \/ TakeTasks \/ Deadline
             \/ (\E j \in Inst : AwaitLoop(j) \/ AwaitLoopTimeout(j))
             \/ SnapshotSockets \/ RemoveSockets \/ Finish \/ Exit \/ UNCHANGED vars
      PROVE  Goal
  BY <1>1, <1>7 DEF AdminIterate, AdminAcceptError, Sigterm, BeginDrain, TakeTasks, Deadline, AwaitLoop,
       AwaitLoopTimeout, AbortLoop, SnapshotSockets, RemoveSockets, Finish, Exit, vars, insts
<1> QED BY <1>2, <1>3, <1>4, <1>5, <1>6, <1>7 DEF Next, AdminNext, MainNext

(* A request is moved on by its own task and its timer, or cut short by    *)
(* the end of the daemon.                                                  *)
LEMMA RequestMoves ==
  ASSUME TypeOK, [Next]_vars, NEW h \in Handlers, InFlight(h)
  PROVE  \/ op'[h] = op[h] \/ op'[h] = Off
         \/ store_handle(h) \/ take_handle(h) \/ loop_exited(h) \/ unregister_timeout(h)
         \/ remove_socket(h)
<1> DEFINE Goal == \/ op'[h] = op[h] \/ op'[h] = Off
                   \/ store_handle(h) \/ take_handle(h) \/ loop_exited(h) \/ unregister_timeout(h)
                   \/ remove_socket(h)
<1> SUFFICES Goal
  OBVIOUS
<1>1. ASSUME op' = op PROVE Goal
  BY <1>1
<1>2. ASSUME NEW g \in Handlers, AdminNext(g) PROVE Goal
  <2>1. CASE g = h
    BY <1>2, <2>1 DEF AdminNext, register, bind_fails, unregister, disconnect, AdminAccept, AbortAdmin,
         InFlight, TypeOK
  <2>2. CASE g # h
    <3>1. op'[h] = op[h]
      BY <1>2, <2>2 DEF AdminNext, register, bind_fails, unregister, store_handle, take_handle, loop_exited,
           unregister_timeout, remove_socket, disconnect, AdminAccept, AbortAdmin, TypeOK
    <3> QED BY <3>1
  <2> QED BY <2>1, <2>2
<1>3. ASSUME Crash PROVE Goal
  BY <1>3 DEF Crash
<1> HIDE DEF Goal
<1>4. ASSUME NEW i \in Inst, LoopNext(i) PROVE Goal
  BY <1>1, <1>4 DEF LoopNext, LoopIterate, LoopAccept, LoopAcceptError, LoopStop, LoopDrained,
       LoopDrainTimeout, ConnEnd
<1>5. ASSUME \/ AdminIterate \/ AdminAcceptError \/ Sigterm \/ BeginDrain \/ TakeTasks \/ Deadline
             \/ (\E i \in Inst : AwaitLoop(i) \/ AwaitLoopTimeout(i))
             \/ SnapshotSockets \/ RemoveSockets \/ Finish \/ Exit \/ UNCHANGED vars
      PROVE  Goal
  BY <1>1, <1>5 DEF AdminIterate, AdminAcceptError, Sigterm, BeginDrain, TakeTasks, Deadline, AwaitLoop,
       AwaitLoopTimeout, SnapshotSockets, RemoveSockets, Finish, Exit, vars
<1> QED BY <1>2, <1>3, <1>4, <1>5 DEF Next, MainNext

(* Where each step takes it.                                               *)
LEMMA RequestSteps ==
  ASSUME TypeOK, NEW h \in Handlers
  PROVE  /\ store_handle(h) => op[h].pc = "store_handle" /\ op'[h].pc = "idle"
         /\ take_handle(h) => op[h].pc = "take_handle" /\ op'[h].pc \in {"await_loop", "remove_socket"}
         /\ loop_exited(h) => op[h].pc = "await_loop" /\ op'[h].pc = "remove_socket"
         /\ unregister_timeout(h) => op[h].pc = "await_loop" /\ op'[h].pc = "remove_socket"
         /\ remove_socket(h) => op[h].pc = "remove_socket" /\ op'[h].pc = "idle"
<1>1. store_handle(h) => op[h].pc = "store_handle" /\ op'[h].pc = "idle"
  BY OffIdle DEF store_handle, TypeOK
<1>2. take_handle(h) => op[h].pc = "take_handle" /\ op'[h].pc \in {"await_loop", "remove_socket"}
  BY SMT DEF take_handle, TypeOK
<1>3. loop_exited(h) \/ unregister_timeout(h) => op[h].pc = "await_loop" /\ op'[h].pc = "remove_socket"
  <2> SUFFICES ASSUME loop_exited(h) \/ unregister_timeout(h)
               PROVE  op[h].pc = "await_loop" /\ op'[h].pc = "remove_socket"
    OBVIOUS
  <2>1. op' = [op EXCEPT ![h].pc = "remove_socket"] /\ op[h].pc = "await_loop"
    BY DEF loop_exited, unregister_timeout
  <2>2. op[h] \in [pc : {"store_handle", "await_loop"}, name : Names, inst : Inst]
    BY <2>1, OpType, OffIdle, SMT DEF Ops
  <2>3. op'[h] = [op[h] EXCEPT !.pc = "remove_socket"]
    BY <2>1 DEF TypeOK
  <2> QED BY <2>1, <2>2, <2>3, SMT
<1>4. remove_socket(h) => op[h].pc = "remove_socket" /\ op'[h].pc = "idle"
  BY OffIdle DEF remove_socket, TypeOK
<1> QED BY <1>1, <1>2, <1>3, <1>4

LEMMA BornInvHolds == Spec => [](TypeOK /\ BornInv)
<1>1. Init => BornInv
  <2>1. None <= 0 /\ Off.inst = None
    BY SMT DEF None, Off
  <2> QED BY <2>1 DEF Init, BornInv
<1>2. TypeOK /\ BornInv /\ [Next]_vars => TypeOK' /\ BornInv'
  BY TypeStep, BornStep
<1> QED BY <1>1, <1>2, InitType, PTL DEF Spec

LEMMA RequestEnds ==
  ASSUME NEW h \in Handlers
  PROVE  Spec /\ []CanAllStep /\ AdminFair(h) => RequestFinishes(h)
<1> DEFINE Storing  == op[h].pc = "store_handle"
           Taking   == op[h].pc = "take_handle"
           Waiting  == op[h].pc = "await_loop" /\ loop[op[h].inst] # "done"
           Woken    == op[h].pc = "await_loop" /\ loop[op[h].inst] = "done"
           Removing == op[h].pc = "remove_socket"
           Over     == ~InFlight(h)
           I        == TypeOK /\ BornInv
<1>1. I => Storing \/ Taking \/ Waiting \/ Woken \/ Removing \/ Over
  BY OpType DEF InFlight
<1>2. CanAllStep => /\ Storing => ENABLED <<store_handle(h)>>_vars
                    /\ Taking => ENABLED <<take_handle(h)>>_vars
                    /\ Waiting => ENABLED <<unregister_timeout(h)>>_vars
                    /\ Woken => ENABLED <<loop_exited(h)>>_vars
                    /\ Removing => ENABLED <<remove_socket(h)>>_vars
  BY DEF CanAllStep, CanStep
<1>3. I /\ [Next]_vars /\ Storing => Storing' \/ Over'
  BY RequestMoves, RequestSteps, OffIdle DEF InFlight
<1>4. I /\ [Next]_vars /\ Taking => Taking' \/ Waiting' \/ Woken' \/ Removing' \/ Over'
  BY RequestMoves, RequestSteps, OffIdle DEF InFlight
<1>5. I /\ [Next]_vars /\ Waiting => Waiting' \/ Woken' \/ Removing' \/ Over'
  BY RequestMoves, RequestSteps, OffIdle DEF InFlight
<1>6. I /\ [Next]_vars /\ Woken => Woken' \/ Removing' \/ Over'
  <2> SUFFICES ASSUME I, [Next]_vars, Woken PROVE Woken' \/ Removing' \/ Over'
    OBVIOUS
  <2>1. op[h].inst \in Inst /\ op[h].inst <= used
    BY OpType DEF BornInv
  <2>2. loop'[op[h].inst] = "done"
    BY <2>1, DoneStays
  <2> QED BY <2>2, RequestMoves, RequestSteps, OffIdle DEF InFlight
<1>7. I /\ [Next]_vars /\ Removing => Removing' \/ Over'
  BY RequestMoves, RequestSteps, OffIdle DEF InFlight
<1>8. I /\ <<store_handle(h)>>_vars => Over'
  BY RequestSteps DEF InFlight
<1>9. I /\ <<take_handle(h)>>_vars => Waiting' \/ Woken' \/ Removing'
  BY RequestSteps
<1>10. I /\ (<<loop_exited(h)>>_vars \/ <<unregister_timeout(h)>>_vars) => Removing'
  BY RequestSteps
<1>11. I /\ <<remove_socket(h)>>_vars => Over'
  BY RequestSteps DEF InFlight
<1>12. Spec => []I
  BY BornInvHolds
<1> HIDE DEF Storing, Taking, Waiting, Woken, Removing, I
<1> QED
  BY <1>1, <1>2, <1>3, <1>4, <1>5, <1>6, <1>7, <1>8, <1>9, <1>10, <1>11, <1>12, PTL
     DEF RequestFinishes, AdminFair, Spec

(* Every register and unregister is answered, or cut short by the end of   *)
(* the daemon: for any number of admin connections, whatever they manage,  *)
(* and any lost notification, because the timer of dispatch_unregister     *)
(* ends a loop that does not stop and an ended loop stays so.  That each   *)
(* stage can take its step is the hypothesis, since ENABLED is beyond the  *)
(* provers; MCLifecycleFair checks it.                                     *)
THEOREM RequestsEnd == FairSpec /\ []CanAllStep => AdminRequestsFinish
<1>1. Spec /\ []CanAllStep /\ (\A h \in Handlers : AdminFair(h))
        => \A h \in Handlers : RequestFinishes(h)
  BY RequestEnds
<1> QED BY <1>1, PTL DEF FairSpec, Fairness, NeverStuck, AdminRequestsFinish
-----------------------------------------------------------------------------
(* The drain of the accept loops. *)

PendingInv == pending # {} => main = "await_loops"

(* What drain_project_loops waits for leaves its list only by its own      *)
(* steps, and a deadline that has passed stays so.                         *)
LEMMA PendingStep ==
  ASSUME PendingInv, [Next]_vars
  PROVE  /\ PendingInv'
         /\ \A i \in pending : \/ i \in pending' /\ (expired => expired')
                               \/ i \notin pending'
<1> DEFINE Goal == /\ PendingInv'
                   /\ \A i \in pending : \/ i \in pending' /\ (expired => expired')
                                         \/ i \notin pending'
<1> SUFFICES Goal
  OBVIOUS
<1>1. ASSUME pending' = pending, expired => expired',
             main' = main \/ main # "await_loops" \/ pending = {}
      PROVE  Goal
  BY <1>1 DEF PendingInv
<1>2. ASSUME NEW i \in Inst, AwaitLoop(i) \/ AwaitLoopTimeout(i) PROVE Goal
  <2>1. main' = main /\ expired' = expired /\ pending' \subseteq pending
    BY <1>2 DEF AwaitLoop, AwaitLoopTimeout
  <2> QED BY <2>1 DEF PendingInv
<1>3. ASSUME TakeTasks PROVE Goal
  BY <1>3 DEF TakeTasks, PendingInv
<1>4. ASSUME Crash PROVE Goal
  BY <1>4 DEF Crash, PendingInv
<1> HIDE DEF Goal
<1>5. ASSUME NEW i \in Inst, LoopNext(i) PROVE Goal
  BY <1>1, <1>5 DEF LoopNext, LoopIterate, LoopAccept, LoopAcceptError, LoopStop, LoopDrained,
       LoopDrainTimeout, ConnEnd, mainVars
<1>6. ASSUME NEW h \in Handlers, AdminNext(h) PROVE Goal
  BY <1>1, <1>6 DEF AdminNext, register, bind_fails, unregister, store_handle, take_handle, loop_exited,
       unregister_timeout, remove_socket, disconnect, AdminAccept, AbortAdmin, mainVars
<1>7. ASSUME AdminIterate \/ AdminAcceptError \/ Sigterm \/ BeginDrain PROVE Goal
  BY <1>1, <1>7 DEF AdminIterate, AdminAcceptError, Sigterm, BeginDrain
<1>8. ASSUME Deadline PROVE Goal
  <2>1. pending' = pending /\ main' = main /\ expired'
    BY <1>8 DEF Deadline
  <2> QED BY <1>1, <2>1
<1>9. ASSUME SnapshotSockets \/ RemoveSockets \/ Finish \/ Exit \/ UNCHANGED vars PROVE Goal
  <2>1. pending' = pending /\ expired' = expired /\ (main' = main \/ main # "await_loops" \/ pending = {})
    BY <1>9 DEF SnapshotSockets, RemoveSockets, Finish, Exit, vars, mainVars
  <2> QED BY <1>1, <2>1
<1> QED BY <1>2, <1>3, <1>4, <1>5, <1>6, <1>7, <1>8, <1>9 DEF Next, MainNext

LoopReleased(i) == (i \in pending) ~> (i \notin pending)

LEMMA LoopIsReleased ==
  ASSUME NEW i \in Inst
  PROVE  Spec /\ []CanAllAwait /\ LoopFair(i) /\ MainFair => LoopReleased(i)
<1> DEFINE Early == i \in pending /\ loop[i] # "done" /\ ~expired
           Late  == i \in pending /\ loop[i] # "done" /\ expired
           Ended == i \in pending /\ loop[i] = "done"
           Out   == i \notin pending
           I     == TypeOK /\ BornInv /\ PendingInv
<1>1. Early \/ Late \/ Ended \/ Out
  OBVIOUS
<1>2. CanAllAwait => /\ Early => ENABLED <<Deadline>>_vars
                     /\ Late => ENABLED <<AwaitLoopTimeout(i)>>_vars
                     /\ Ended => ENABLED <<AwaitLoop(i)>>_vars
  BY DEF CanAllAwait, CanAwait
<1>3. I /\ [Next]_vars /\ Late => Late' \/ Ended' \/ Out'
  BY PendingStep
<1>4. I /\ [Next]_vars /\ Ended => Ended' \/ Out'
  BY DoneStays DEF BornInv
<1>5. I /\ <<Deadline>>_vars /\ Early => Late' \/ Ended' \/ Out'
  BY DEF Deadline
<1>6. I /\ (<<AwaitLoop(i)>>_vars \/ <<AwaitLoopTimeout(i)>>_vars) => Out'
  BY DEF AwaitLoop, AwaitLoopTimeout
<1>7. Spec => []I
  <2>1. Init => PendingInv
    BY DEF Init, PendingInv
  <2>2. PendingInv /\ [Next]_vars => PendingInv'
    BY PendingStep
  <2> QED BY <2>1, <2>2, BornInvHolds, PTL DEF Spec
<1>8. (i \in pending => Early \/ Late \/ Ended) /\ (Out <=> i \notin pending)
  OBVIOUS
<1> HIDE DEF Early, Late, Ended, Out, I
<1> QED
  BY <1>1, <1>2, <1>3, <1>4, <1>5, <1>6, <1>7, <1>8, PTL
     DEF LoopReleased, LoopFair, MainFair, Spec

(* The drain holds on to no accept loop: whichever of them                 *)
(* drain_project_loops waits for ends in time or is aborted at             *)
(* shutdown_deadline, and leaves the list, for any number of projects.     *)
(* That the wait can take a step is the hypothesis, since ENABLED is       *)
(* beyond the provers; MCLifecycleFair checks it.                          *)
THEOREM LoopsReleased == FairSpec /\ []CanAllAwait => \A i \in Inst : LoopReleased(i)
<1>1. Spec /\ []CanAllAwait /\ (\A i \in Inst : LoopFair(i)) /\ MainFair
        => \A i \in Inst : LoopReleased(i)
  BY LoopIsReleased
<1> QED BY <1>1, PTL DEF FairSpec, Fairness
=============================================================================
