---------------------------- MODULE StartupProofs -----------------------------
(***************************************************************************)
(* Proofs about Startup: the invariants of the run `startup' for any       *)
(* machine, any files and any answers of the metadata service.             *)
(***************************************************************************)
EXTENDS Startup, TLAPS

-----------------------------------------------------------------------------
(* Configuration. *)

(* The result of resolve is in its ranges and layered as documented.       *)
LEMMA ResolveResult ==
  ASSUME NEW raw, NEW overrides, resolve(raw, overrides).error = "none"
  PROVE  /\ Legal(resolve(raw, overrides).config)
         /\ resolve(raw, overrides).config = Over(overrides, Over(raw, DEFAULT_CONFIG))
BY DEF resolve, ConfigError, Legal

(* What load yields, key by key (Config::load, Cli::into_overrides).       *)
LEMMA LoadResult ==
  ASSUME NEW fl, NEW file \in ConfigFiles,
         file.kind \in {"toml", "garbage", "unreadable", "absent"},
         load(into_overrides(fl), file).error = "none"
  PROVE  LET c == load(into_overrides(fl), file).config
         IN /\ Legal(c)
            /\ \A k \in Keys : c[k] = Layered(fl, file, k)
<1> DEFINE ov == into_overrides(fl).overrides
<1>1. DOMAIN ov = DOMAIN fl \cap Keys /\ \A k \in DOMAIN fl \cap Keys : ov[k] = fl[k]
  BY DEF into_overrides
<1>2. DOMAIN DEFAULT_CONFIG = Keys
  BY ConfigAssumption
<1> HIDE DEF ov
<1>3. ASSUME NEW raw, resolve(raw, ov).error = "none"
      PROVE  LET c == resolve(raw, ov).config
             IN /\ Legal(c)
                /\ \A k \in Keys : c[k] = IF k \in DOMAIN fl THEN fl[k]
                                          ELSE IF k \in DOMAIN raw THEN raw[k] ELSE DEFAULT_CONFIG[k]
  <2> DEFINE c == resolve(raw, ov).config
  <2>1. Legal(c) /\ c = Over(ov, Over(raw, DEFAULT_CONFIG))
    BY <1>3, ResolveResult
  <2>2. \A k \in Keys : c[k] = IF k \in DOMAIN ov THEN ov[k]
                               ELSE IF k \in DOMAIN raw THEN raw[k] ELSE DEFAULT_CONFIG[k]
    BY <2>1, <1>2 DEF Over
  <2> QED BY <2>1, <2>2, <1>1
<1>4. CASE file.kind = "toml"
  <2>1. load(into_overrides(fl), file) = resolve(file.raw, ov)
    BY <1>4 DEF load, ov
  <2> QED BY <2>1, <1>3, <1>4 DEF Layered
<1>5. CASE file.kind = "absent"
  <2>1. load(into_overrides(fl), file) = resolve(<< >>, ov)
    BY <1>5 DEF load, ov, ConfigError
  <2>2. DOMAIN << >> = {}
    OBVIOUS
  <2> QED BY <2>1, <2>2, <1>3, <1>5 DEF Layered
<1>6. file.kind \notin {"garbage", "unreadable"}
  BY DEF load, ConfigError
<1> QED BY <1>4, <1>5, <1>6
-----------------------------------------------------------------------------
(* Types. *)

\* The part of the type invariant a fetch changes.
FetchType ==
  /\ fetch \in {"idle", "connect", "io", "done"}
  /\ request \in 1..3 /\ timer \in 0..IMDS_TIMEOUT /\ spent \in Nat

\* The part that is about rotations, and the rest.  TypeOK is not
\* inductive: that a session stays one when it is replaced takes that a
\* rotation adopts a session it has built, after it was asked for.
RotateType ==
  /\ rotate \in [Rotators -> {"idle", "token", "build", "adopt"}]
  /\ built \in [Rotators -> 0..sessions] /\ since \in [Rotators -> 0..sessions]
  /\ \A r \in Rotators : /\ rotate[r] # "idle" => Up /\ session # 0
                         /\ rotate[r] = "adopt" => since[r] < built[r]

CoreType ==
  /\ flags \in Clis /\ config_file \in ConfigFiles /\ fnox_ok \in BOOLEAN
  /\ token_file \in TokenFiles /\ env_var \in EnvVars
  /\ edits \in 0..MaxEdits /\ faults \in 0..MaxFaults /\ rotations \in 0..MaxRotations
  /\ starts \in 0..MaxStarts /\ admin_sock \in 0..starts
  /\ pc \in {"down", "config", "token", "backend", "dir", "bind", "ready", "handler",
             "serving", "stopping"}
  /\ FetchType
  /\ fetch # "idle" => Fetching
  /\ sessions \in Nat /\ session \in 0..sessions /\ ready \in BOOLEAN

LEMMA TypeParts == CoreType /\ RotateType => TypeOK
BY Zenon DEF TypeOK, CoreType, RotateType, FetchType

(* The timeout is a positive number of ticks, so a timer may start at 0.   *)
LEMMA TimerRange == IMDS_TIMEOUT \in Nat /\ 0 \in 0..IMDS_TIMEOUT
BY BootstrapAssumption

(* What the callers of fetch_token find when its locals are dropped.       *)
LEMMA ResetResult ==
  ASSUME FetchReset
  PROVE  fetch' = "idle" /\ FetchType'
<1>1. fetch' = "idle" /\ request' = 1 /\ timer' = 0 /\ spent' = 0
  BY DEF FetchReset
<1> QED BY <1>1, TimerRange DEF FetchType

LEMMA TickType ==
  ASSUME FetchType, Tick
  PROVE  FetchType'
<1>1. timer < IMDS_TIMEOUT /\ timer' = timer + 1 /\ spent' = spent + 1 /\ UNCHANGED <<fetch, request>>
  BY DEF Tick
<1>2. timer' \in 0..IMDS_TIMEOUT /\ spent' \in Nat
  BY <1>1, TimerRange DEF FetchType
<1> QED BY <1>1, <1>2 DEF FetchType

(* A process that is gone leaves a state of the right type, if the socket  *)
(* file and the count of faults are (every way main can end).              *)
LEMMA GoneType ==
  ASSUME CoreType, NEW why, Gone(why), admin_sock' \in 0..starts, faults' \in 0..MaxFaults
  PROVE  CoreType'
<1>1. fetch' = "idle" /\ FetchType'
  BY ResetResult DEF Gone
<1>2. ready' \in BOOLEAN /\ session' = 0 /\ sessions' = 0 /\ pc' = "down"
      /\ UNCHANGED <<envVars, sourceVars, starts, rotations>>
  BY Zenon DEF Gone
<1>3. sessions' \in Nat /\ session' \in 0..sessions'
  BY <1>2
<1> QED BY <1>1, <1>2, <1>3 DEF CoreType, envVars, sourceVars, Fetching

LEMMA FaultType ==
  ASSUME CoreType, NEW file \in 0..starts, Fault(file)
  PROVE  CoreType'
BY GoneType, StartupAssumption DEF Fault, CoreType

(* Each step of main, of a fetch and of a rotation keeps the types.        *)
LEMMA CoreStep ==
  ASSUME CoreType, RotateType, [Next]_vars
  PROVE  CoreType'
<1> USE StartupAssumption, TimerRange
<1> DEFINE Goal == CoreType'
<1> SUFFICES Goal OBVIOUS
<1> HIDE DEF Goal
<1>1. ASSUME Start PROVE Goal
  BY <1>1 DEF Goal, Start, CoreType, FetchType, envVars, sourceVars, fetchVars, rotVars, Fetching
<1>2. ASSUME Edit PROVE Goal
  <2>1. /\ config_file' \in ConfigFiles /\ token_file' \in TokenFiles /\ fnox_ok' \in BOOLEAN
        /\ edits' \in 0..MaxEdits
    <3>1. edits' \in 0..MaxEdits
      BY <1>2 DEF Edit, CoreType
    <3>2. config_file' \in ConfigFiles /\ token_file' \in TokenFiles
      BY <1>2 DEF Edit, CoreType
    <3>3. fnox_ok' \in BOOLEAN
      BY <1>2, Zenon DEF Edit, CoreType
    <3> QED BY <3>1, <3>2, <3>3
  <2>2. UNCHANGED <<flags, env_var, fetchVars, procVars, faults, rotVars>>
    BY <1>2 DEF Edit
  <2> QED BY <2>1, <2>2 DEF Goal, CoreType, FetchType, fetchVars, procVars, rotVars, Fetching
<1>3. ASSUME LoadConfig PROVE Goal
  <2>1. CASE load(into_overrides(flags), config_file).error # "none"
    BY <1>3, <2>1, GoneType DEF Goal, LoadConfig, KeepFiles, CoreType
  <2>2. CASE load(into_overrides(flags), config_file).error = "none"
    BY <1>3, <2>2 DEF Goal, LoadConfig, Go, CoreType, FetchType, envVars, sourceVars, fetchVars, rotVars, Fetching
  <2> QED BY <2>1, <2>2
<1>4. ASSUME TokenChecked PROVE Goal
  <2>1. CASE result.error # "none"
    BY <1>4, <2>1, GoneType DEF Goal, TokenChecked, KeepFiles, CoreType
  <2>2. CASE result.error = "none"
    <3>1. fetch' = "idle" /\ FetchType'
      BY <1>4, <2>2, ResetResult DEF TokenChecked
    <3>2. /\ pc = "token" /\ pc' = "backend"
          /\ UNCHANGED <<envVars, sourceVars, starts, faults, rotVars, session, sessions, ready, admin_sock>>
      BY <1>4, <2>2 DEF TokenChecked, Go
    <3> QED BY <3>1, <3>2 DEF Goal, FetchType, CoreType, FetchType, envVars, sourceVars, rotVars, Fetching
  <2> QED BY <2>1, <2>2
<1>5. ASSUME OpenSession PROVE Goal
  <2>1. CASE ~fnox_ok /\ config.config.fnox_config_path # None
    BY <1>5, <2>1, GoneType DEF Goal, OpenSession, KeepFiles, CoreType
  <2>2. CASE ~(~fnox_ok /\ config.config.fnox_config_path # None)
    <3>1. UNCHANGED <<envVars, sourceVars, fetchVars, starts, faults, rotVars, ready, admin_sock>>
          /\ pc' = "dir" /\ pc = "backend"
      BY <1>5, <2>2 DEF OpenSession, Go
    <3>2. sessions' \in Nat /\ session' \in 0..sessions'
      BY <1>5, <2>2 DEF OpenSession, CoreType
    <3> QED BY <3>1, <3>2 DEF Goal, CoreType, FetchType, envVars, sourceVars, fetchVars, rotVars, Fetching
  <2> QED BY <2>1, <2>2
<1>6. ASSUME ensure_socket_dir PROVE Goal
  <2>1. CASE Fault(admin_sock)
    BY <2>1, FaultType DEF Goal, CoreType
  <2>2. CASE ~Fault(admin_sock)
    BY <1>6, <2>2 DEF Goal, ensure_socket_dir, Go, CoreType, FetchType, envVars, sourceVars, fetchVars, rotVars, Fetching
  <2> QED BY <2>1, <2>2
<1>7. ASSUME bind_admin_socket PROVE Goal
  <2>1. ASSUME NEW file \in {admin_sock, 0, starts}, Fault(file) PROVE Goal
    <3>1. file \in 0..starts
      BY DEF CoreType
    <3> QED BY <2>1, <3>1, FaultType DEF Goal
  <2>2. ASSUME Go("ready"), admin_sock' = starts,
               UNCHANGED <<fetchVars, config, token, session, sessions, ready>>
        PROVE  Goal
    BY <1>7, <2>2 DEF Goal, bind_admin_socket, Go, CoreType, FetchType, envVars, sourceVars, fetchVars, rotVars, Fetching
  <2> QED BY <1>7, <2>1, <2>2 DEF bind_admin_socket
<1>8. ASSUME sd_notify_ready PROVE Goal
  BY <1>8 DEF Goal, sd_notify_ready, Go, CoreType, FetchType, envVars, sourceVars, fetchVars, rotVars, Fetching
<1>9. ASSUME install_sigterm PROVE Goal
  <2>1. CASE Fault(admin_sock)
    BY <2>1, FaultType DEF Goal, CoreType
  <2>2. CASE ~Fault(admin_sock)
    BY <1>9, <2>2 DEF Goal, install_sigterm, Go, CoreType, FetchType, envVars, sourceVars, fetchVars, rotVars, Fetching
  <2> QED BY <2>1, <2>2
<1>10. ASSUME Fetching, FetchType', UNCHANGED <<envVars, sourceVars, procVars, faults, rotVars>>
       PROVE  Goal
  BY <1>10 DEF Goal, CoreType, FetchType, envVars, sourceVars, procVars, rotVars, Fetching
<1>11. ASSUME FetchToken PROVE Goal
  <2>1. FetchType'
    BY <1>11 DEF FetchToken, fetch_token, Return, BeginRequest, FetchType, CoreType
  <2> QED BY <1>10, <1>11, <2>1 DEF FetchToken
<1>12. ASSUME FetchImds PROVE Goal
  <2>1. ASSUME NEW r, Return(r) PROVE FetchType'
    BY <2>1 DEF Return, FetchType, CoreType
  <2>2. ASSUME NEW k \in 1..3, NEW m, NEW r, BeginRequest(k, m, r), UNCHANGED <<spent, result>>
        PROVE  FetchType'
    BY <2>2 DEF BeginRequest, FetchType, CoreType
  <2>3. ASSUME Connected PROVE FetchType'
    BY <2>3 DEF Connected, FetchType, CoreType
  <2>4. ASSUME NEW raw \in Responses, fetch_imds_metadata_token(raw) PROVE FetchType'
    BY <2>1, <2>2, <2>4 DEF fetch_imds_metadata_token
  <2>5. ASSUME NEW raw \in Responses, fetch_imds_role_name(raw) PROVE FetchType'
    BY <2>1, <2>2, <2>5 DEF fetch_imds_role_name
  <2>6. ASSUME NEW raw \in Responses, fetch_imds_role_credentials(raw) PROVE FetchType'
    BY <2>1, <2>6 DEF fetch_imds_role_credentials
  <2>7. FetchType'
    BY <1>12, <2>1, <2>3, <2>4, <2>5, <2>6 DEF FetchImds, ImdsStep, ConnectFails, IoFails
  <2> QED BY <1>10, <1>12, <2>7 DEF FetchImds
<1>13. ASSUME FetchTime PROVE Goal
  <2>1. FetchType'
    <3>1. ASSUME Tick PROVE FetchType'
      <4>1. FetchType
        BY DEF FetchType, CoreType
      <4> QED BY <3>1, <4>1, TickType
    <3>2. ASSUME Timeout PROVE FetchType'
      BY <3>2 DEF Timeout, Return, FetchType, CoreType
    <3> QED BY <1>13, <3>1, <3>2 DEF FetchTime
  <2> QED BY <1>10, <1>13, <2>1 DEF FetchTime
<1>14. ASSUME NEW r \in Rotators, RotateBootstrap(r) PROVE Goal
  <2>1. rotations' \in 0..MaxRotations /\ (Fetching => Fetching')
    BY <1>14 DEF RotateBootstrap, CoreType, RotateType, Fetching, procVars
  <2>2. UNCHANGED <<envVars, sourceVars, fetchVars, procVars, faults>>
    BY <1>14, Zenon DEF RotateBootstrap
  <2> QED BY <2>1, <2>2 DEF Goal, CoreType, FetchType, envVars, sourceVars, fetchVars, procVars
<1>15. ASSUME NEW r \in Rotators, RotateToken(r) PROVE Goal
  <2>1. UNCHANGED <<envVars, sourceVars, procVars, faults, rotations>>
    BY <1>15, Zenon DEF RotateToken
  <2>2. CASE FetchReset
    <3>1. fetch' = "idle" /\ FetchType'
      BY <2>2, ResetResult
    <3> QED BY <2>1, <3>1 DEF Goal, CoreType, FetchType, envVars, sourceVars, procVars
  <2>3. CASE r # Followed /\ UNCHANGED fetchVars
    <3>1. rotate'[Followed] = rotate[Followed]
      BY <1>15, <2>3 DEF RotateToken, Answer, RotateType
    <3> QED BY <2>1, <2>3, <3>1 DEF Goal, CoreType, FetchType, Fetching, envVars, sourceVars, fetchVars,
              procVars
  <2> QED BY <1>15, <2>2, <2>3, Zenon DEF RotateToken
<1>16. ASSUME NEW r \in Rotators, RotateBuild(r) \/ RotateAdopt(r) PROVE Goal
  <2>1. sessions' \in Nat /\ session' \in 0..sessions'
    BY <1>16 DEF RotateBuild, RotateAdopt, CoreType, RotateType
  <2>2. rotate[Followed] = "token" => rotate'[Followed] = "token"
    BY <1>16 DEF RotateBuild, RotateAdopt, Answer, RotateType
  <2>3. UNCHANGED <<envVars, sourceVars, fetchVars, starts, pc, ready, admin_sock, faults, rotations>>
    BY <1>16, Zenon DEF RotateBuild, RotateAdopt
  <2> QED BY <2>1, <2>2, <2>3 DEF Goal, CoreType, FetchType, envVars, sourceVars, fetchVars, Fetching
<1>17. ASSUME Sigterm PROVE Goal
  <2>1. ASSUME Gone("killed"), KeepFiles PROVE Goal
    BY <2>1, GoneType DEF Goal, KeepFiles, CoreType
  <2>2. ASSUME pc = "serving", Go("stopping"),
               UNCHANGED <<fetchVars, config, token, session, sessions, ready, admin_sock>>
        PROVE  Goal
    BY <2>2 DEF Goal, Go, CoreType, FetchType, envVars, sourceVars, fetchVars, rotVars, Fetching
  <2> QED BY <1>17, <2>1, <2>2 DEF Sigterm
<1>18. ASSUME Shutdown PROVE Goal
  <2>1. admin_sock' \in 0..starts /\ faults' \in 0..MaxFaults
    BY <1>18 DEF Shutdown, CoreType
  <2> QED BY <1>18, <2>1, GoneType DEF Goal, Shutdown
<1>19. ASSUME Kill PROVE Goal
  BY <1>19, GoneType DEF Goal, Kill, KeepFiles, CoreType
<1>20. ASSUME UNCHANGED vars PROVE Goal
  BY <1>20 DEF Goal, vars, CoreType, FetchType, envVars, sourceVars, fetchVars, procVars, rotVars, Fetching
<1> QED
  BY <1>1, <1>2, <1>3, <1>4, <1>5, <1>6, <1>7, <1>8, <1>9, <1>11, <1>12, <1>13, <1>14, <1>15,
     <1>16, <1>17, <1>18, <1>19, <1>20 DEF Next, Main, Rotation

(* A rotation is in progress only in a daemon that is up and has a         *)
(* session, and the session it has built is one of this process.           *)
LEMMA RotateStep ==
  ASSUME CoreType, RotateType, [Next]_vars
  PROVE  RotateType'
<1>1. ASSUME NEW why, Gone(why) PROVE RotateType'
  <2>1. sessions' = 0 /\ rotate' = [r \in Rotators |-> "idle"]
        /\ built' = [r \in Rotators |-> 0] /\ since' = [r \in Rotators |-> 0]
    BY <1>1, Zenon DEF Gone
  <2> QED BY <2>1 DEF RotateType
<1>2. ASSUME UNCHANGED rotVars, sessions' \in Nat, sessions <= sessions',
             Up => pc' \in {"serving", "stopping"} /\ session' = session
      PROVE  RotateType'
  <2>1. 0..sessions \subseteq 0..sessions'
    BY <1>2 DEF CoreType
  <2>2. built' \in [Rotators -> 0..sessions'] /\ since' \in [Rotators -> 0..sessions']
    BY <1>2, <2>1 DEF RotateType, rotVars
  <2> QED BY <1>2, <2>2 DEF RotateType, rotVars, Up
<1>3. ASSUME UNCHANGED rotVars, UNCHANGED <<pc, session, sessions>> PROVE RotateType'
  BY <1>3 DEF RotateType, rotVars, Up
<1>4. ASSUME NEW r \in Rotators, RotateBootstrap(r) PROVE RotateType'
  BY <1>4 DEF RotateBootstrap, RotateType, CoreType, procVars, Up
<1>5. ASSUME NEW r \in Rotators, RotateToken(r) PROVE RotateType'
  <2>1. UNCHANGED <<pc, session, sessions>>
    BY <1>5, Zenon DEF RotateToken, procVars
  <2>2. CASE Answer(r)
    BY <2>1, <2>2 DEF Answer, RotateType, CoreType, Up
  <2>3. CASE rotate' = [rotate EXCEPT ![r] = "build"] /\ UNCHANGED <<built, since>>
    BY <1>5, <2>1, <2>3 DEF RotateToken, RotateType, Up
  <2> QED BY <1>5, <2>2, <2>3, Zenon DEF RotateToken
<1>6. ASSUME NEW r \in Rotators, RotateBuild(r) PROVE RotateType'
  <2>1. UNCHANGED <<pc, session>> /\ rotate[r] = "build"
    BY <1>6, Zenon DEF RotateBuild
  <2>2. CASE Answer(r) /\ UNCHANGED sessions
    BY <2>1, <2>2 DEF Answer, RotateType, CoreType, Up
  <2>3. CASE /\ sessions' = sessions + 1 /\ built' = [built EXCEPT ![r] = sessions + 1]
             /\ rotate' = [rotate EXCEPT ![r] = "adopt"] /\ UNCHANGED since
    <3>1. 0..sessions \subseteq 0..sessions' /\ sessions + 1 \in 0..sessions'
      BY <2>3 DEF CoreType
    <3>2. built' \in [Rotators -> 0..sessions'] /\ since' \in [Rotators -> 0..sessions']
      BY <2>3, <3>1 DEF RotateType
    <3>3. since[r] < built'[r]
      BY <2>3 DEF RotateType, CoreType
    <3> QED BY <2>1, <2>3, <3>2, <3>3 DEF RotateType, Up
  <2> QED BY <1>6, <2>2, <2>3, Zenon DEF RotateBuild
<1>7. ASSUME NEW r \in Rotators, RotateAdopt(r) PROVE RotateType'
  <2>1. UNCHANGED <<pc, sessions>> /\ session' = built[r] /\ Answer(r) /\ rotate[r] = "adopt"
    BY <1>7, Zenon DEF RotateAdopt
  <2>2. session' # 0
    BY <2>1 DEF RotateType, CoreType
  <2> QED BY <2>1, <2>2 DEF Answer, RotateType, CoreType, Up
<1>8. ASSUME OpenSession PROVE RotateType'
  <2>1. CASE Gone("backend")
    BY <1>1, <2>1
  <2>2. CASE ~Gone("backend")
    <3>1. UNCHANGED rotVars
      BY <1>8, <2>2, Zenon DEF OpenSession, Go
    <3>2. sessions' \in Nat /\ sessions <= sessions' /\ ~Up
      BY <1>8, <2>2 DEF OpenSession, CoreType, Up
    <3> QED BY <1>2, <3>1, <3>2
  <2> QED BY <2>1, <2>2
<1>9. ASSUME Start PROVE RotateType'
  <2>1. UNCHANGED rotVars /\ UNCHANGED sessions /\ ~Up
    BY <1>9 DEF Start, Up
  <2> QED BY <1>2, <2>1 DEF CoreType
<1>10. ASSUME Main, ~OpenSession PROVE RotateType'
  <2>1. CASE \E why : Gone(why)
    BY <1>1, <2>1
  <2>2. CASE ~\E why : Gone(why)
    <3>1. UNCHANGED rotVars /\ UNCHANGED sessions
      BY <1>10, <2>2, Zenon DEF Main, LoadConfig, TokenChecked, ensure_socket_dir, bind_admin_socket,
         sd_notify_ready, install_sigterm, Go, Fault
    <3>2. ~Up
      BY <1>10 DEF Main, LoadConfig, TokenChecked, ensure_socket_dir, bind_admin_socket,
         sd_notify_ready, install_sigterm, Up
    <3> QED BY <1>2, <3>1, <3>2 DEF CoreType
  <2> QED BY <2>1, <2>2
<1>11. ASSUME Sigterm PROVE RotateType'
  <2>1. CASE Gone("killed")
    BY <1>1, <2>1
  <2>2. CASE ~Gone("killed")
    <3>1. UNCHANGED rotVars /\ UNCHANGED <<session, sessions>> /\ pc' = "stopping"
      BY <1>11, <2>2, Zenon DEF Sigterm, Go
    <3> QED BY <1>2, <3>1 DEF CoreType
  <2> QED BY <2>1, <2>2
<1>12. ASSUME Shutdown \/ Kill PROVE RotateType'
  BY <1>1, <1>12, Zenon DEF Shutdown, Kill
<1>13. ASSUME Edit \/ FetchToken \/ FetchImds \/ FetchTime \/ UNCHANGED vars PROVE RotateType'
  BY <1>3, <1>13, Zenon DEF Edit, FetchToken, FetchImds, FetchTime, vars, procVars
<1> QED
  BY <1>4, <1>5, <1>6, <1>7, <1>8, <1>9, <1>10, <1>11, <1>12, <1>13, Zenon DEF Next, Rotation

LEMMA TypeInvariant == Spec => [](CoreType /\ RotateType)
<1>1. Init => CoreType /\ RotateType
  <2> SUFFICES ASSUME Init PROVE CoreType /\ RotateType
    OBVIOUS
  <2>1. FetchType /\ fetch = "idle"
    <3>1. fetch = "idle" /\ request = 1 /\ timer = 0 /\ spent = 0
      BY DEF Init, FetchInit
    <3> QED BY <3>1, TimerRange DEF FetchType
  <2>2. /\ flags \in Clis /\ config_file \in ConfigFiles /\ fnox_ok \in BOOLEAN
        /\ token_file \in TokenFiles /\ env_var \in EnvVars
    BY StartupAssumption DEF Init
  <2>3. /\ edits \in 0..MaxEdits /\ faults \in 0..MaxFaults /\ rotations \in 0..MaxRotations
        /\ starts \in 0..MaxStarts /\ admin_sock \in 0..starts
        /\ sessions \in Nat /\ session \in 0..sessions
    BY StartupAssumption DEF Init
  <2>4. pc = "down" /\ ready \in BOOLEAN
    BY Zenon DEF Init
  <2>5. RotateType
    <3>1. /\ sessions = 0 /\ rotate = [r \in Rotators |-> "idle"]
          /\ built = [r \in Rotators |-> 0] /\ since = [r \in Rotators |-> 0]
      BY Zenon DEF Init
    <3> QED BY <3>1 DEF RotateType
  <2> QED BY <2>1, <2>2, <2>3, <2>4, <2>5 DEF CoreType
<1> QED BY <1>1, CoreStep, RotateStep, PTL DEF Spec

(* The type invariant of the run `startup' (main, fetch_token,             *)
(* dispatch_rotate_bootstrap): a fetch is only ever in progress for a      *)
(* start or a rotation, and rotations only in a daemon with a session,     *)
(* however many there are at once and however they overlap.                *)
THEOREM TypeCorrect == Spec => []TypeOK
BY TypeInvariant, TypeParts, PTL
-----------------------------------------------------------------------------
(* What a start has established by the time it gets to a step. *)

\* A token main goes on with.
Usable(t) ==
  /\ t.error = "none"
  /\ source = "file" => t.token.lines # << >>
  /\ source = "env" => t.token # Empty

PastBind    == {"ready", "handler", "serving", "stopping"}
PastSession == {"dir", "bind"} \cup PastBind
PastToken   == {"backend"} \cup PastSession

\* ReadyMeansReady is not inductive: READY=1 comes after the steps it is
\* about, so what each has established must be known while `ready' is FALSE.
StageInv ==
  /\ fetch = "done" /\ result.error = "none" => Usable(result)
  /\ fetch \in {"connect", "io"} => source = "imds"
  /\ pc \in PastToken => Usable(token)
  /\ pc \in PastSession /\ session = 0 => config.config.fnox_config_path = None
  /\ session # 0 => pc \in PastSession
  /\ pc \in PastBind => admin_sock = starts
  /\ ready => pc \in {"handler", "serving", "stopping"}

LEMMA StageGives == StageInv => ReadyMeansReady
BY DEF StageInv, ReadyMeansReady, Usable, PastToken, PastSession, PastBind

LEMMA GoneStage ==
  ASSUME NEW why, Gone(why)
  PROVE  StageInv'
<1>1. fetch' = "idle" /\ pc' = "down" /\ session' = 0 /\ ready' = FALSE
  BY DEF Gone, FetchReset
<1> QED BY <1>1 DEF StageInv, PastToken, PastSession, PastBind

(* A file's token that is accepted has a line, an accepted variable is not *)
(* the empty text (fetch_file, fetch_env_with_var).                        *)
LEMMA SourcesUsable ==
  /\ fetch_file(token_file).error = "none" => fetch_file(token_file).token.lines # << >>
  /\ fetch_env_with_var(env_var).error = "none" => fetch_env_with_var(env_var).token # Empty
<1>1. fetch_env_with_var(env_var).error = "none" => fetch_env_with_var(env_var).token # Empty
  BY DEF fetch_env_with_var, Err, Ok
<1>2. ASSUME fetch_file(token_file).error = "none"
      PROVE  fetch_file(token_file).token.lines # << >>
  <2>1. trim(token_file.text) # Empty /\ fetch_file(token_file).token = trim(token_file.text)
    BY <1>2 DEF fetch_file, Err, Ok
  <2>2. trim(token_file.text) = [lines |-> token_file.text.lines, pad |-> FALSE]
    BY DEF trim
  <2>3. token_file.text.lines # << >>
    BY <2>1, <2>2, Zenon DEF Empty
  <2> QED BY <2>1, <2>2, <2>3
<1> QED BY <1>1, <1>2

LEMMA StageStep ==
  ASSUME CoreType, RotateType, StageInv, [Next]_vars
  PROVE  StageInv'
<1> DEFINE Goal == StageInv'
<1> SUFFICES Goal OBVIOUS
<1> HIDE DEF Goal
<1> USE DEF PastToken, PastSession, PastBind
<1>1. ASSUME NEW file, Fault(file) PROVE Goal
  BY <1>1, GoneStage DEF Goal, Fault
<1>2. ASSUME Start PROVE Goal
  BY <1>2 DEF Goal, Start, StageInv, Usable, source, fetchVars
<1>3. ASSUME Edit PROVE Goal
  BY <1>3 DEF Goal, Edit, StageInv, Usable, source, fetchVars, procVars
<1>4. ASSUME LoadConfig PROVE Goal
  <2>1. ASSUME Gone("config") PROVE Goal
    BY <2>1, GoneStage DEF Goal
  <2>2. ASSUME pc = "config", Go("token"), UNCHANGED <<fetchVars, session, ready>> PROVE Goal
    <3>1. fetch = "idle"
      BY <2>2, StartupAssumption DEF CoreType, RotateType, Fetching, Up
    <3> QED BY <2>2, <3>1 DEF Goal, Go, StageInv, fetchVars
  <2> QED BY <1>4, <2>1, <2>2 DEF LoadConfig
<1>5. ASSUME TokenChecked PROVE Goal
  <2>1. ASSUME Gone("token") PROVE Goal
    BY <2>1, GoneStage DEF Goal
  <2>2. ASSUME pc = "token", fetch = "done", result.error = "none", Go("backend"), FetchReset,
               token' = result, UNCHANGED <<config, session, ready>>
        PROVE  Goal
    <3>1. Usable(token)'
      BY <2>2 DEF StageInv, Usable, source
    <3>2. fetch' = "idle"
      BY <2>2 DEF FetchReset
    <3> QED BY <2>2, <3>1, <3>2 DEF Goal, Go, StageInv
  <2> QED BY <1>5, <2>1, <2>2 DEF TokenChecked
<1>6. ASSUME OpenSession PROVE Goal
  <2>1. ASSUME Gone("backend") PROVE Goal
    BY <2>1, GoneStage DEF Goal
  <2>2. ASSUME pc = "backend", ~(~fnox_ok /\ config.config.fnox_config_path # None), Go("dir"),
               session' = IF fnox_ok THEN sessions + 1 ELSE 0,
               UNCHANGED <<fetchVars, config, token, ready>>
        PROVE  Goal
    <3>1. session' = 0 => config.config.fnox_config_path = None
      BY <2>2 DEF CoreType
    <3> QED BY <2>2, <3>1 DEF Goal, Go, StageInv, Usable, source, fetchVars
  <2> QED BY <1>6, <2>1, <2>2 DEF OpenSession
<1>7. ASSUME ensure_socket_dir PROVE Goal
  <2>1. ASSUME pc = "dir", Go("bind"), UNCHANGED <<fetchVars, config, token, session, ready>> PROVE Goal
    BY <2>1 DEF Goal, Go, StageInv, Usable, source, fetchVars
  <2> QED BY <1>1, <1>7, <2>1 DEF ensure_socket_dir
<1>8. ASSUME bind_admin_socket PROVE Goal
  <2>1. ASSUME pc = "bind", Go("ready"), admin_sock' = starts,
               UNCHANGED <<fetchVars, config, token, session, ready>>
        PROVE  Goal
    BY <2>1 DEF Goal, Go, StageInv, Usable, source, fetchVars
  <2> QED BY <1>1, <1>8, <2>1 DEF bind_admin_socket
<1>9. ASSUME sd_notify_ready PROVE Goal
  BY <1>9 DEF Goal, sd_notify_ready, Go, StageInv, Usable, source, fetchVars
<1>10. ASSUME install_sigterm PROVE Goal
  <2>1. ASSUME pc = "handler", Go("serving"),
               UNCHANGED <<fetchVars, config, token, session, ready, admin_sock>>
        PROVE  Goal
    BY <2>1 DEF Goal, Go, StageInv, Usable, source, fetchVars
  <2> QED BY <1>1, <1>10, <2>1 DEF install_sigterm
<1>11. ASSUME UNCHANGED procVars, fetch' \in {"connect", "io"} => source = "imds",
              fetch' = "done" /\ result'.error = "none" => Usable(result')
       PROVE  Goal
  BY <1>11 DEF Goal, StageInv, Usable, source, procVars
<1>12. ASSUME FetchToken PROVE Goal
  <2>1. ASSUME source = "file", Return(fetch_file(token_file)) PROVE Goal
    <3>1. fetch' = "done" /\ result' = fetch_file(token_file)
      BY <2>1 DEF Return
    <3> QED BY <1>11, <1>12, <2>1, <3>1, SourcesUsable DEF FetchToken, Usable
  <2>2. ASSUME source = "env", Return(fetch_env_with_var(env_var)) PROVE Goal
    <3>1. fetch' = "done" /\ result' = fetch_env_with_var(env_var)
      BY <2>2 DEF Return
    <3> QED BY <1>11, <1>12, <2>2, <3>1, SourcesUsable DEF FetchToken, Usable
  <2>3. ASSUME source = "imds", BeginRequest(1, Empty, NoLine) PROVE Goal
    BY <1>11, <1>12, <2>3 DEF FetchToken, BeginRequest
  <2> QED BY <1>12, <2>1, <2>2, <2>3 DEF FetchToken, fetch_token
<1>13. ASSUME FetchImds \/ FetchTime PROVE Goal
  <2>1. fetch \in {"connect", "io"}
    BY <1>13 DEF FetchImds, FetchTime, ImdsStep, Connected, ConnectFails, IoFails,
       fetch_imds_metadata_token, fetch_imds_role_name, fetch_imds_role_credentials,
       Tick, Timeout, Waiting
  <2>2. source = "imds"
    BY <2>1 DEF StageInv
  <2>3. UNCHANGED procVars
    BY <1>13 DEF FetchImds, FetchTime
  <2> QED BY <1>11, <2>2, <2>3 DEF Usable
<1>14. ASSUME NEW r \in Rotators, RotateBootstrap(r) PROVE Goal
  BY <1>11, <1>14 DEF RotateBootstrap, fetchVars, StageInv
<1>15. ASSUME NEW r \in Rotators, RotateToken(r) PROVE Goal
  <2>1. UNCHANGED procVars /\ (FetchReset \/ UNCHANGED fetchVars)
    BY <1>15, Zenon DEF RotateToken
  <2> QED BY <1>11, <2>1 DEF FetchReset, fetchVars, StageInv
<1>16. ASSUME NEW r \in Rotators, RotateBuild(r) \/ RotateAdopt(r) PROVE Goal
  <2>1. session' # 0 /\ pc \in PastSession
    BY <1>16 DEF RotateBuild, RotateAdopt, CoreType, RotateType, Up
  <2>2. UNCHANGED <<fetchVars, starts, pc, config, token, ready, admin_sock>>
    BY <1>16, Zenon DEF RotateBuild, RotateAdopt
  <2> QED BY <2>1, <2>2 DEF Goal, StageInv, Usable, source, fetchVars
<1>17. ASSUME Sigterm PROVE Goal
  <2>1. ASSUME Gone("killed") PROVE Goal
    BY <2>1, GoneStage DEF Goal
  <2>2. ASSUME pc = "serving", Go("stopping"),
               UNCHANGED <<fetchVars, config, token, session, ready, admin_sock>>
        PROVE  Goal
    BY <2>2 DEF Goal, Go, StageInv, Usable, source, fetchVars
  <2> QED BY <1>17, <2>1, <2>2 DEF Sigterm
<1>18. ASSUME Shutdown \/ Kill PROVE Goal
  BY <1>18, GoneStage DEF Goal, Shutdown, Kill
<1>19. ASSUME UNCHANGED vars PROVE Goal
  BY <1>11, <1>19 DEF vars, fetchVars, StageInv
<1> QED
  BY <1>2, <1>3, <1>4, <1>5, <1>6, <1>7, <1>8, <1>9, <1>10, <1>12, <1>13, <1>14, <1>15,
     <1>16, <1>17, <1>18, <1>19 DEF Next, Main, Rotation

(* Every step of main finds what the steps before it established.          *)
LEMMA StageInvariant == Spec => []StageInv
<1>1. Init => StageInv
  BY DEF Init, FetchInit, StageInv, PastToken, PastSession, PastBind
<1> QED BY <1>1, TypeInvariant, StageStep, PTL DEF Spec

(* A daemon that has notified READY=1 (sd_notify_ready) listens on the     *)
(* file at the admin path, has a token from its own start and has a        *)
(* session unless no fnox file was named.                                  *)
THEOREM ReadyCorrect == Spec => []ReadyMeansReady
BY StageInvariant, StageGives, PTL
-----------------------------------------------------------------------------
(* The configuration in force. *)

\* Nothing is loaded before the file is read, nor after the end.
ConfigStage == pc \in {"down", "config"} => config = NoConfig

(* Only loading brings in a configuration.                                 *)
LEMMA ConfigChanges ==
  ASSUME [Next]_vars, ~LoadConfig
  PROVE  config' = config \/ (config' = NoConfig /\ pc' = "down")
BY Zenon DEF Next, Main, Rotation, Start, Edit, TokenChecked, OpenSession, ensure_socket_dir,
   bind_admin_socket, sd_notify_ready, install_sigterm, FetchToken, FetchImds, FetchTime,
   RotateBootstrap, RotateToken, RotateBuild, RotateAdopt, Sigterm, Shutdown, Kill, Fault, Gone, Go,
   vars, procVars

(* main leaves the stage of loading for good.                              *)
LEMMA EarlyStages ==
  ASSUME [Next]_vars, pc' \in {"down", "config"}
  PROVE  pc \in {"down", "config"} \/ \E why : Gone(why)
<1>1. ASSUME Main PROVE pc = "config" \/ \E why : Gone(why)
  <2>1. ASSUME NEW to \in {"token", "backend", "dir", "bind", "ready", "handler", "serving", "stopping"},
               Go(to)
        PROVE  FALSE
    BY <2>1 DEF Go
  <2> QED BY <1>1, <2>1, Zenon DEF Main, LoadConfig, TokenChecked, OpenSession, ensure_socket_dir,
         bind_admin_socket, sd_notify_ready, install_sigterm, Fault
<1>2. ASSUME Sigterm PROVE \E why : Gone(why)
  BY <1>2 DEF Sigterm, Go
<1>3. ASSUME Shutdown \/ Kill PROVE \E why : Gone(why)
  BY <1>3, Zenon DEF Shutdown, Kill
<1>4. ASSUME Start PROVE pc = "down"
  BY <1>4, Zenon DEF Start
<1>5. ASSUME Edit \/ FetchToken \/ FetchImds \/ FetchTime \/ UNCHANGED vars PROVE pc' = pc
  BY <1>5, Zenon DEF Edit, FetchToken, FetchImds, FetchTime, vars, procVars
<1>6. ASSUME NEW r \in Rotators, RotateBootstrap(r) \/ Rotation(r) PROVE pc' = pc
  BY <1>6, Zenon DEF RotateBootstrap, Rotation, RotateToken, RotateBuild, RotateAdopt, procVars
<1> QED BY <1>1, <1>2, <1>3, <1>4, <1>5, <1>6, Zenon DEF Next

LEMMA ConfigInvariant == Spec => []ConfigStage
<1>1. Init => ConfigStage
  BY Zenon DEF Init, ConfigStage
<1>2. ConfigStage /\ [Next]_vars => ConfigStage'
  <2> SUFFICES ASSUME ConfigStage, [Next]_vars, pc' \in {"down", "config"} PROVE config' = NoConfig
    BY Zenon DEF ConfigStage
  <2>1. CASE \E why : Gone(why)
    BY <2>1, Zenon DEF Gone
  <2>2. CASE pc \in {"down", "config"} /\ ~\E why : Gone(why)
    <3>1. ~LoadConfig
      BY <2>2 DEF LoadConfig, Go
    <3> QED BY <2>2, <3>1, ConfigChanges DEF ConfigStage
  <2> QED BY <2>1, <2>2, EarlyStages
<1> QED BY <1>1, <1>2, PTL DEF Spec

(* Config::load: whatever the flags and the file, a daemon runs on one     *)
(* configuration from its start to its end, within the ranges, each key    *)
(* the flag's, else the file's, else the default.                          *)
THEOREM ConfigCorrect == Spec => ConfigInForce
<1> DEFINE Once == config = NoConfig
                   /\ Legal(config'.config)
                   /\ \A k \in Keys : config'.config[k] = Layered(flags, config_file, k)
<1>1. CoreType /\ StageInv /\ ConfigStage /\ [Next]_vars
      => [config' # config /\ config' # NoConfig => Once]_vars
  <2> SUFFICES ASSUME CoreType, ConfigStage, Next, config' # config, config' # NoConfig
               PROVE  Once
    BY DEF vars
  <2>1. LoadConfig
    BY ConfigChanges
  <2>2. config = NoConfig
    BY <2>1 DEF LoadConfig, ConfigStage
  <2> DEFINE c == load(into_overrides(flags), config_file)
  <2>3. c.error = "none" /\ config' = c
    BY <2>1, Zenon DEF LoadConfig, Gone
  <2>4. /\ config_file \in ConfigFiles
        /\ config_file.kind \in {"toml", "garbage", "unreadable", "absent"}
    BY StartupAssumption, Zenon DEF CoreType
  <2>5. Legal(c.config) /\ \A k \in Keys : c.config[k] = Layered(flags, config_file, k)
    <3>1. c.error = "none"
      BY <2>3, Zenon
    <3> QED BY <2>4, <3>1, LoadResult, Zenon
  <2> HIDE DEF c
  <2> QED BY <2>2, <2>3, <2>5, Zenon
<1>2. Spec => [](CoreType /\ StageInv /\ ConfigStage)
  BY TypeInvariant, StageInvariant, ConfigInvariant, PTL
<1> QED BY <1>1, <1>2, PTL DEF Spec, ConfigInForce

-----------------------------------------------------------------------------
(* The session. *)

(* dispatch_rotate_bootstrap constructs before it adopts: however many     *)
(* rotations there are at once, no step but the end of the process takes a *)
(* session away, and none changes it to one that was constructed before    *)
(* the rotation that does was asked for.                                   *)
THEOREM SessionNeverLost == Spec => SessionKept
<1> DEFINE Fresh == /\ session' # 0
                    /\ session' # session =>
                         \E r \in Rotators : /\ rotate[r] # "idle" /\ rotate'[r] = "idle"
                                             /\ session' > since[r]
<1>1. CoreType /\ RotateType /\ StageInv /\ [Next]_vars
      => [session # 0 /\ pc' # "down" => Fresh]_vars
  <2> SUFFICES ASSUME CoreType, RotateType, StageInv, Next, session # 0, pc' # "down"
               PROVE  Fresh
    BY DEF vars
  <2>1. ~OpenSession
    BY DEF OpenSession, StageInv, PastSession, PastBind
  <2>2. ASSUME NEW r \in Rotators, RotateAdopt(r) PROVE Fresh
    <3>1. rotate[r] = "adopt" /\ session' = built[r] /\ rotate'[r] = "idle"
      BY <2>2 DEF RotateAdopt, Answer, RotateType
    <3>2. since[r] < built[r] /\ since[r] \in Nat /\ built[r] \in Nat
      BY <3>1 DEF RotateType, CoreType
    <3> QED BY <3>1, <3>2
  <2>3. ASSUME ~\E r \in Rotators : RotateAdopt(r) PROVE session' = session
    BY <2>1, <2>3, ZenonT(30) DEF Next, Main, Rotation, Start, Edit, LoadConfig, TokenChecked,
       ensure_socket_dir, bind_admin_socket, sd_notify_ready, install_sigterm, FetchToken,
       FetchImds, FetchTime, RotateBootstrap, RotateToken, RotateBuild, Sigterm, Shutdown, Kill,
       Fault, Gone, procVars
  <2> QED BY <2>2, <2>3
<1>2. Spec => [](CoreType /\ RotateType /\ StageInv)
  BY TypeInvariant, StageInvariant, PTL
<1> QED BY <1>1, <1>2, PTL DEF Spec, SessionKept
-----------------------------------------------------------------------------
(* The exchange with the metadata service. *)

\* The time the requests before this one can have taken.
Earlier ==
  IF request = 1 THEN 0 ELSE IF request = 2 THEN 2 * IMDS_TIMEOUT ELSE 4 * IMDS_TIMEOUT

\* FetchBounded is not inductive: the time a fetch has left depends on the
\* request it is at, and within it on which of the two timeouts is running.
ExchangeInv ==
  /\ fetch = "idle" => spent = 0
  /\ fetch = "connect" => spent <= Earlier + timer
  /\ fetch = "io" => spent <= Earlier + IMDS_TIMEOUT + timer
  /\ fetch = "done" => spent <= 6 * IMDS_TIMEOUT
  /\ ImdsInOrder

LEMMA ExchangeGives ==
  ASSUME TypeOK, ExchangeInv
  PROVE  FetchBounded /\ ImdsInOrder
BY TimerRange DEF TypeOK, ExchangeInv, Earlier, FetchBounded

LEMMA ResetExchange ==
  ASSUME FetchReset
  PROVE  ExchangeInv'
<1>1. fetch' = "idle" /\ spent' = 0
  BY DEF FetchReset
<1> QED BY <1>1 DEF ExchangeInv, ImdsInOrder

(* A fetch may return at any time.                                         *)
LEMMA ReturnExchange ==
  ASSUME TypeOK, ExchangeInv, NEW r, Return(r)
  PROVE  ExchangeInv'
<1>1. fetch' = "done" /\ spent' = spent
  BY DEF Return
<1>2. spent <= 6 * IMDS_TIMEOUT
  BY ExchangeGives DEF FetchBounded
<1> QED BY <1>1, <1>2 DEF ExchangeInv, ImdsInOrder

(* A response that is accepted has a text for a body.                      *)
LEMMA ResponseBody ==
  ASSUME NEW raw \in Responses, parse_http_response(raw).error = "none"
  PROVE  parse_http_response(raw).token \in Texts
<1>1. parse_http_response(raw) = Ok(raw.body)
  BY DEF parse_http_response, Err
<1> QED BY <1>1, BootstrapAssumption DEF Ok

(* The three requests, each begun with what the one before it yielded.     *)
LEMMA ImdsExchange ==
  ASSUME TypeOK, ExchangeInv, ImdsStep
  PROVE  ExchangeInv'
<1>1. ASSUME Connected PROVE ExchangeInv'
  <2>1. fetch = "connect" /\ fetch' = "io" /\ timer' = 0 /\ UNCHANGED <<request, metadata, role, spent>>
    BY <1>1 DEF Connected
  <2>2. spent' <= Earlier' + IMDS_TIMEOUT + timer'
    BY <2>1, TimerRange DEF ExchangeInv, Earlier, TypeOK
  <2>3. ImdsInOrder'
    BY <2>1 DEF ExchangeInv, ImdsInOrder
  <2> QED BY <2>1, <2>2, <2>3 DEF ExchangeInv
<1>2. ASSUME ConnectFails \/ IoFails PROVE ExchangeInv'
  BY <1>2, ReturnExchange DEF ConnectFails, IoFails
<1>3. ASSUME NEW k \in 2..3, NEW m, NEW r, BeginRequest(k, m, r), UNCHANGED spent,
             fetch = "io", request = k - 1, m # Empty, k = 3 <=> r # NoLine
      PROVE  ExchangeInv'
  <2>1. fetch' = "connect" /\ request' = k /\ timer' = 0 /\ spent' = spent /\ metadata' = m /\ role' = r
    BY <1>3 DEF BeginRequest
  <2>2. spent' <= Earlier' + timer'
    BY <1>3, <2>1, TimerRange DEF ExchangeInv, Earlier, TypeOK
  <2>3. ImdsInOrder'
    BY <1>3, <2>1 DEF ImdsInOrder
  <2> QED BY <2>1, <2>2, <2>3 DEF ExchangeInv
<1>4. ASSUME NEW raw \in Responses, fetch_imds_metadata_token(raw) PROVE ExchangeInv'
  <2>1. ASSUME NEW r, Return(r) PROVE ExchangeInv'
    BY <2>1, ReturnExchange
  <2>2. ASSUME NEW t, t # Empty, BeginRequest(2, t, NoLine), UNCHANGED spent PROVE ExchangeInv'
    BY <1>3, <1>4, <2>2 DEF fetch_imds_metadata_token
  <2> QED BY <1>4, <2>1, <2>2 DEF fetch_imds_metadata_token
<1>5. ASSUME NEW raw \in Responses, fetch_imds_role_name(raw) PROVE ExchangeInv'
  <2> DEFINE r == parse_http_response(raw)
  <2>1. ASSUME NEW e, Return(e) PROVE ExchangeInv'
    BY <2>1, ReturnExchange
  <2>2. ASSUME r.error = "none", r.token.lines # << >>,
               BeginRequest(3, metadata, Head(r.token.lines)), UNCHANGED spent
        PROVE  ExchangeInv'
    <3>1. r.token.lines \in Seq(Lines)
      BY <2>2, ResponseBody DEF Texts
    <3>2. Head(r.token.lines) # NoLine
      BY <2>2, <3>1, BootstrapAssumption
    <3>3. fetch = "io" /\ request = 2
      BY <1>5 DEF fetch_imds_role_name
    <3>4. metadata # Empty
      BY <3>3 DEF ExchangeInv, ImdsInOrder
    <3> QED BY <1>3, <2>2, <3>2, <3>3, <3>4
  <2> QED BY <1>5, <2>1, <2>2 DEF fetch_imds_role_name
<1>6. ASSUME NEW raw \in Responses, fetch_imds_role_credentials(raw) PROVE ExchangeInv'
  BY <1>6, ReturnExchange DEF fetch_imds_role_credentials
<1> QED BY <1>1, <1>2, <1>4, <1>5, <1>6 DEF ImdsStep

LEMMA ExchangeStep ==
  ASSUME TypeOK, ExchangeInv, [Next]_vars
  PROVE  ExchangeInv'
<1>1. ASSUME UNCHANGED fetchVars PROVE ExchangeInv'
  BY <1>1 DEF ExchangeInv, ImdsInOrder, Earlier, fetchVars
<1>2. ASSUME FetchToken PROVE ExchangeInv'
  <2>1. ASSUME NEW r, Return(r) PROVE ExchangeInv'
    BY <2>1, ReturnExchange
  <2>2. ASSUME BeginRequest(1, Empty, NoLine), spent' = 0 PROVE ExchangeInv'
    BY <2>2 DEF BeginRequest, ExchangeInv, ImdsInOrder, Earlier
  <2> QED BY <1>2, <2>1, <2>2 DEF FetchToken, fetch_token
<1>3. ASSUME FetchImds PROVE ExchangeInv'
  BY <1>3, ImdsExchange DEF FetchImds
<1>4. ASSUME Tick PROVE ExchangeInv'
  <2>1. fetch' = fetch /\ timer' = timer + 1 /\ spent' = spent + 1 /\ UNCHANGED <<request, metadata, role>>
        /\ fetch \in {"connect", "io"}
    BY <1>4 DEF Tick, Waiting
  <2>2. ImdsInOrder'
    BY <2>1 DEF ExchangeInv, ImdsInOrder
  <2> QED BY <2>1, <2>2, TimerRange DEF ExchangeInv, Earlier, TypeOK
<1>5. ASSUME Timeout PROVE ExchangeInv'
  BY <1>5, ReturnExchange, SMTT(30) DEF Timeout
<1>6. ASSUME Next, ~FetchToken, ~FetchImds, ~Tick, ~Timeout PROVE UNCHANGED fetchVars \/ FetchReset
  BY <1>6, Zenon DEF Next, Main, Rotation, Start, Edit, LoadConfig, TokenChecked, OpenSession,
     ensure_socket_dir, bind_admin_socket, sd_notify_ready, install_sigterm, FetchTime,
     RotateBootstrap, RotateToken, RotateBuild, RotateAdopt, Sigterm, Shutdown, Kill, Fault, Gone
<1> QED BY <1>1, <1>2, <1>3, <1>4, <1>5, <1>6, ResetExchange DEF vars

LEMMA ExchangeInvariant == Spec => []ExchangeInv
<1>1. Init => ExchangeInv
  BY DEF Init, FetchInit, ExchangeInv, ImdsInOrder
<1> QED BY <1>1, TypeCorrect, ExchangeStep, PTL DEF Spec

(* imds_round_trip: however the service behaves, a fetch waits for the two *)
(* timeouts of its three requests and no longer.                           *)
THEOREM FetchTimeBounded == Spec => []FetchBounded
BY TypeCorrect, ExchangeInvariant, ExchangeGives, PTL

(* fetch_imds_at: no request goes out before the one it builds on has      *)
(* yielded something, within the same exchange.                            *)
THEOREM ExchangeInOrder == Spec => []ImdsInOrder
BY TypeCorrect, ExchangeInvariant, ExchangeGives, PTL
-----------------------------------------------------------------------------
(* Starts and rotations end. *)

Starting == pc \notin {"down", "serving", "stopping"}

Killed == pc' = "down" /\ cause' = "killed"

(* No rotation is in progress in a daemon that is not up.                  *)
LEMMA NotRotating ==
  ASSUME TypeOK, Starting
  PROVE  rotate[Followed] = "idle" /\ ~Rotation(Followed)
<1>1. rotate[Followed] = "idle"
  BY StartupAssumption, Zenon DEF TypeOK, Starting, Up
<1> QED BY <1>1, Zenon DEF Rotation, RotateToken, RotateBuild, RotateAdopt

(* Until it serves, only main, the fetch it awaits, an edit of the files   *)
(* and a signal concern a start: a rotation needs a daemon that serves.    *)
LEMMA WhileStarting ==
  ASSUME TypeOK, [Next]_vars, Starting
  PROVE  \/ Main \/ FetchToken \/ FetchImds \/ FetchTime
         \/ Edit \/ Killed \/ UNCHANGED vars
<1>1. ASSUME NEW r \in Rotators PROVE rotate[r] = "idle" /\ ~RotateBootstrap(r) /\ ~Rotation(r)
  <2>1. rotate[r] = "idle" /\ ~Up
    BY DEF TypeOK, Starting, Up
  <2> QED BY <2>1 DEF RotateBootstrap, Rotation, RotateToken, RotateBuild, RotateAdopt
<1>2. ~Start /\ ~Shutdown
  BY DEF Starting, Start, Shutdown
<1>3. ASSUME Sigterm \/ Kill PROVE Killed
  BY <1>3 DEF Sigterm, Kill, Gone, Killed, Starting
<1> QED BY <1>1, <1>2, <1>3, Zenon DEF Next

(* What main does at each stage.                                           *)
LEMMA MainSteps ==
  ASSUME Main
  PROVE  /\ pc = "config" => LoadConfig
         /\ pc = "token" => TokenChecked
         /\ pc = "backend" => OpenSession
         /\ pc = "dir" => pc' = "bind" \/ (pc' = "down" /\ cause' = "fault")
         /\ pc = "bind" => pc' = "ready" \/ (pc' = "down" /\ cause' = "fault")
         /\ pc = "ready" => pc' = "handler"
         /\ pc = "handler" => pc' = "serving" \/ (pc' = "down" /\ cause' = "fault")
         /\ Starting
<1>1. \/ pc = "config" /\ LoadConfig
      \/ pc = "token" /\ TokenChecked
      \/ pc = "backend" /\ OpenSession
      \/ pc = "dir" /\ (pc' = "bind" \/ (pc' = "down" /\ cause' = "fault"))
      \/ pc = "bind" /\ (pc' = "ready" \/ (pc' = "down" /\ cause' = "fault"))
      \/ pc = "ready" /\ pc' = "handler"
      \/ pc = "handler" /\ (pc' = "serving" \/ (pc' = "down" /\ cause' = "fault"))
  BY ZenonT(30) DEF Main, LoadConfig, TokenChecked, OpenSession, ensure_socket_dir, bind_admin_socket,
     sd_notify_ready, install_sigterm, Go, Fault, Gone
<1> QED BY <1>1, ZenonT(30) DEF Starting

(* A fetch leaves main where it is, and an edit does too.                  *)
LEMMA OthersWait ==
  ASSUME FetchToken \/ FetchImds \/ FetchTime \/ Edit \/ UNCHANGED vars
  PROVE  UNCHANGED <<procVars, rotVars>>
BY DEF FetchToken, FetchImds, FetchTime, Edit, vars

(* The stages after the session have only main to wait for.                *)
LEMMA SetUpStep ==
  ASSUME TypeOK, [Next]_vars, NEW to, NEW from \in {"dir", "bind", "ready", "handler"}, pc = from,
         Main => pc' = to \/ (pc' = "down" /\ cause' = "fault")
  PROVE  \/ pc' = from \/ pc' = to
         \/ pc' = "down" /\ cause' \in {"killed", "fault"}
<1>1. Starting
  BY DEF Starting
<1> QED BY <1>1, WhileStarting, OthersWait DEF Killed, procVars

(* What a start reads stays sound unless it is changed.                    *)
LEMMA SoundStays ==
  ASSUME UNCHANGED <<pc, flags, config_file, config, token_file, env_var, fnox_ok>>
  PROVE  Sound' <=> Sound
BY Zenon DEF Sound

\* The stages of a start with sound files.
Reads   == pc = "config" /\ Sound
Fetches == pc = "token" /\ Sound /\ fetch = "idle"
Fetched == pc = "token" /\ Sound /\ fetch = "done" /\ result.error = "none"
Opens   == pc = "backend" /\ Sound

\* How a start with sound files can end.
CutOff  == pc = "down" /\ cause \in {"killed", "fault"}
Spoilt  == pc # "down" /\ ~Sound

(* Load, check, open: with sound files each of them succeeds.              *)
LEMMA SoundLoad ==
  ASSUME TypeOK, Reads, LoadConfig
  PROVE  Fetches'
<1> DEFINE c == load(into_overrides(flags), config_file)
<1>1. c.error = "none"
  BY Zenon DEF Reads, Sound
<1>2. Go("token") /\ config' = c /\ UNCHANGED fetchVars
  BY <1>1, Zenon DEF LoadConfig
<1>3. pc' = "token" /\ UNCHANGED <<flags, config_file, fnox_ok, token_file, env_var>> /\ fetch' = fetch
  BY <1>2, Zenon DEF Go, envVars, sourceVars, fetchVars
<1>4. fetch = "idle"
  BY NotRotating DEF TypeOK, Reads, Starting, Fetching
<1>5. Sound'
  BY <1>2, <1>3, Zenon DEF Reads, Sound
<1> QED BY <1>3, <1>4, <1>5, Zenon DEF Fetches

LEMMA SoundFetch ==
  ASSUME Fetches, FetchToken
  PROVE  Fetched'
<1>1. \/ source = "file" /\ fetch_file(token_file).error = "none"
      \/ source = "env" /\ fetch_env_with_var(env_var).error = "none"
  BY Zenon DEF Fetches, Sound, source
<1>2. \E r : Return(r) /\ r.error = "none"
  BY <1>1, Zenon DEF FetchToken, fetch_token
<1>3. fetch' = "done" /\ result'.error = "none"
  BY <1>2, Zenon DEF Return
<1>4. UNCHANGED <<pc, flags, config_file, config, token_file, env_var, fnox_ok>>
  BY Zenon DEF FetchToken, envVars, sourceVars, procVars
<1>5. Sound'
  BY <1>4, SoundStays, Zenon DEF Fetches
<1> QED BY <1>3, <1>4, <1>5, Zenon DEF Fetched, Fetches

LEMMA SoundCheck ==
  ASSUME Fetched, TokenChecked
  PROVE  Opens'
<1>1. Go("backend") /\ config' = config
  BY Zenon DEF Fetched, TokenChecked
<1>2. pc' = "backend" /\ UNCHANGED <<flags, config_file, fnox_ok, token_file, env_var>>
  BY <1>1, Zenon DEF Go, envVars, sourceVars
<1>3. Sound'
  BY <1>1, <1>2, Zenon DEF Fetched, Sound
<1> QED BY <1>2, <1>3, Zenon DEF Opens

LEMMA SoundOpen ==
  ASSUME Opens, OpenSession
  PROVE  pc' = "dir"
<1>1. fnox_ok \/ config.config.fnox_config_path = None
  BY Zenon DEF Opens, Sound
<1> QED BY <1>1, Zenon DEF OpenSession, Go

(* An edit leaves a start with sound files, or spoils them.                *)
LEMMA SoundEdit ==
  ASSUME Edit
  PROVE  /\ Reads => Reads' \/ Spoilt'
         /\ Fetches => Fetches' \/ Spoilt'
         /\ Fetched => Fetched' \/ Spoilt'
         /\ Opens => Opens' \/ Spoilt'
<1>1. pc' = pc /\ fetch' = fetch /\ result' = result
  BY Zenon DEF Edit, fetchVars, procVars
<1> QED BY <1>1, Zenon DEF Reads, Fetches, Fetched, Opens, Spoilt

(* A start with sound files only moves forward, is cut off or spoilt.      *)
LEMMA SoundMoves ==
  ASSUME TypeOK, [Next]_vars
  PROVE  /\ Reads => Reads' \/ Fetches' \/ CutOff' \/ Spoilt'
         /\ Fetches => Fetches' \/ Fetched' \/ CutOff' \/ Spoilt'
         /\ Fetched => Fetched' \/ Opens' \/ CutOff' \/ Spoilt'
         /\ Opens => Opens' \/ pc' = "dir" \/ CutOff' \/ Spoilt'
<1>1. Killed => CutOff'
  BY Zenon DEF Killed, CutOff
<1>2. UNCHANGED vars => (Sound' <=> Sound) /\ pc' = pc /\ fetch' = fetch /\ result' = result
  BY SoundStays, ZenonT(30) DEF vars, envVars, sourceVars, fetchVars, procVars
<1>3. Fetches => ~FetchImds /\ ~FetchTime
  BY ZenonT(30) DEF Fetches, FetchImds, ImdsStep, Connected, ConnectFails, IoFails, fetch_imds_metadata_token,
     fetch_imds_role_name, fetch_imds_role_credentials, FetchTime, Tick, Timeout, Waiting
<1>4. Fetched => ~FetchToken /\ ~FetchImds /\ ~FetchTime
  BY Zenon DEF Fetched, FetchToken, fetch_token, FetchImds, ImdsStep, Connected, ConnectFails, IoFails,
     fetch_imds_metadata_token, fetch_imds_role_name, fetch_imds_role_credentials, FetchTime, Tick,
     Timeout, Waiting
<1>5. Reads \/ Opens => rotate[Followed] = "idle" /\ ~Fetching /\ Starting
  BY StartupAssumption DEF Reads, Opens, TypeOK, Fetching, Starting, Up
<1>6. Reads \/ Opens => ~FetchToken /\ ~FetchImds /\ ~FetchTime
  BY <1>5, Zenon DEF FetchToken, FetchImds, FetchTime
<1>7. Fetches \/ Fetched => Starting
  BY DEF Fetches, Fetched, Starting
<1>8. Fetches => ~TokenChecked
  BY DEF Fetches, TokenChecked
<1>9. Reads => Reads' \/ Fetches' \/ CutOff' \/ Spoilt'
  <2> SUFFICES ASSUME Reads PROVE Reads' \/ Fetches' \/ CutOff' \/ Spoilt'
    OBVIOUS
  <2>1. CASE Main
    BY <2>1, MainSteps, SoundLoad, Zenon DEF Reads
  <2>2. CASE UNCHANGED vars
    BY <1>2, <2>2, Zenon DEF Reads
  <2> QED BY <1>1, <1>5, <1>6, <2>1, <2>2, WhileStarting, SoundEdit, Zenon
<1>10. Fetches => Fetches' \/ Fetched' \/ CutOff' \/ Spoilt'
  <2> SUFFICES ASSUME Fetches PROVE Fetches' \/ Fetched' \/ CutOff' \/ Spoilt'
    OBVIOUS
  <2>1. CASE Main
    BY <1>8, <2>1, MainSteps, Zenon DEF Fetches
  <2>2. CASE UNCHANGED vars
    BY <1>2, <2>2, Zenon DEF Fetches
  <2> QED BY <1>1, <1>3, <1>7, <2>1, <2>2, WhileStarting, SoundEdit, SoundFetch, Zenon
<1>11. Fetched => Fetched' \/ Opens' \/ CutOff' \/ Spoilt'
  <2> SUFFICES ASSUME Fetched PROVE Fetched' \/ Opens' \/ CutOff' \/ Spoilt'
    OBVIOUS
  <2>1. CASE Main
    BY <2>1, MainSteps, SoundCheck, Zenon DEF Fetched
  <2>2. CASE UNCHANGED vars
    BY <1>2, <2>2, Zenon DEF Fetched
  <2> QED BY <1>1, <1>4, <1>7, <2>1, <2>2, WhileStarting, SoundEdit, Zenon
<1>12. Opens => Opens' \/ pc' = "dir" \/ CutOff' \/ Spoilt'
  <2> SUFFICES ASSUME Opens PROVE Opens' \/ pc' = "dir" \/ CutOff' \/ Spoilt'
    OBVIOUS
  <2>1. CASE Main
    BY <2>1, MainSteps, SoundOpen, Zenon DEF Opens
  <2>2. CASE UNCHANGED vars
    BY <1>2, <2>2, Zenon DEF Opens
  <2> QED BY <1>1, <1>5, <1>6, <2>1, <2>2, WhileStarting, SoundEdit, Zenon
<1> QED BY <1>9, <1>10, <1>11, <1>12, Zenon

(* The daemon's own step takes it forward.                                 *)
LEMMA SoundProgress ==
  ASSUME TypeOK, Daemon
  PROVE  /\ Reads => Fetches'
         /\ Fetches => Fetched'
         /\ Fetched => Opens'
         /\ Opens => pc' = "dir"
<1>1. Starting => ~Rotation(Followed)
  BY NotRotating
<1>2. Reads \/ Fetches \/ Fetched \/ Opens => Starting
  BY DEF Reads, Fetches, Fetched, Opens, Starting
<1>3. Reads \/ Opens => ~Fetching
  BY NotRotating DEF Reads, Opens, Starting, Fetching
<1>4. Reads \/ Opens => ~FetchToken /\ ~FetchTime
  BY <1>3, Zenon DEF FetchToken, FetchTime
<1>5. Fetches => ~FetchTime /\ ~TokenChecked
  BY DEF Fetches, FetchTime, Tick, Timeout, Waiting, TokenChecked
<1>6. Fetched => ~FetchToken /\ ~FetchTime
  BY DEF Fetched, FetchToken, fetch_token, FetchTime, Tick, Timeout, Waiting
<1>7. Reads => Fetches'
  BY <1>1, <1>2, <1>4, MainSteps, SoundLoad, Zenon DEF Daemon, Reads
<1>8. Fetches => Fetched'
  <2>1. Fetches => pc = "token"
    BY DEF Fetches
  <2> QED BY <1>1, <1>2, <1>5, <2>1, MainSteps, SoundFetch, Zenon DEF Daemon
<1>9. Fetched => Opens'
  <2>1. Fetched => pc = "token"
    BY DEF Fetched
  <2> QED BY <1>1, <1>2, <1>6, <2>1, MainSteps, SoundCheck, Zenon DEF Daemon
<1>10. Opens => pc' = "dir"
  <2>1. Opens => pc = "backend"
    BY DEF Opens
  <2> QED BY <1>1, <1>2, <1>4, <2>1, MainSteps, SoundOpen, Zenon DEF Daemon
<1> QED BY <1>7, <1>8, <1>9, <1>10, Zenon

(* From the socket directory to the handler of SIGTERM.                    *)
LEMMA SetUpMoves ==
  ASSUME TypeOK, [Next]_vars
  PROVE  /\ pc = "dir" => pc' = "dir" \/ pc' = "bind" \/ CutOff'
         /\ pc = "bind" => pc' = "bind" \/ pc' = "ready" \/ CutOff'
         /\ pc = "ready" => pc' = "ready" \/ pc' = "handler" \/ CutOff'
         /\ pc = "handler" => pc' = "handler" \/ pc' = "serving" \/ CutOff'
BY MainSteps, SetUpStep, Zenon DEF CutOff

LEMMA SetUpProgress ==
  ASSUME TypeOK, Daemon
  PROVE  /\ pc = "dir" => pc' = "bind" \/ CutOff'
         /\ pc = "bind" => pc' = "ready" \/ CutOff'
         /\ pc = "ready" => pc' = "handler" \/ CutOff'
         /\ pc = "handler" => pc' = "serving" \/ CutOff'
<1>1. ASSUME pc \in {"dir", "bind", "ready", "handler"} PROVE Main
  <2>1. Starting
    BY <1>1 DEF Starting
  <2>2. ~Fetching
    BY <1>1, <2>1, NotRotating DEF Fetching
  <2> QED BY <2>1, <2>2, NotRotating, Zenon DEF Daemon, FetchToken, FetchTime
<1> QED BY <1>1, MainSteps, Zenon DEF CutOff

(* A start with sound files comes up, over whatever socket file an earlier *)
(* process left, unless it is killed, a system call fails or the files are *)
(* spoilt under it: for any files, any number of edits, crashes and        *)
(* starts, under weak fairness of the daemon's own steps.  That the daemon *)
(* can take a step is the hypothesis, since ENABLED is beyond the provers; *)
(* MCStartup checks it (main, bind_admin_socket).                          *)
THEOREM RestartsClean == FairSpec /\ []CanProceed => CleanRestart
<1> DEFINE In(p) == pc = p
<1>1. TypeOK /\ [Next]_vars =>
        /\ Reads => Reads' \/ Fetches' \/ CutOff' \/ Spoilt'
        /\ Fetches => Fetches' \/ Fetched' \/ CutOff' \/ Spoilt'
        /\ Fetched => Fetched' \/ Opens' \/ CutOff' \/ Spoilt'
        /\ Opens => Opens' \/ In("dir")' \/ CutOff' \/ Spoilt'
  BY SoundMoves, Zenon
<1>2. TypeOK /\ <<Daemon>>_vars =>
        (Reads => Fetches') /\ (Fetches => Fetched') /\ (Fetched => Opens') /\ (Opens => In("dir")')
  BY SoundProgress, Zenon
<1>3. TypeOK /\ [Next]_vars =>
        /\ In("dir") => In("dir")' \/ In("bind")' \/ CutOff'
        /\ In("bind") => In("bind")' \/ In("ready")' \/ CutOff'
        /\ In("ready") => In("ready")' \/ In("handler")' \/ CutOff'
        /\ In("handler") => In("handler")' \/ In("serving")' \/ CutOff'
  BY SetUpMoves, Zenon
<1>4. TypeOK /\ <<Daemon>>_vars =>
        /\ In("dir") => In("bind")' \/ CutOff'
        /\ In("bind") => In("ready")' \/ CutOff'
        /\ In("ready") => In("handler")' \/ CutOff'
        /\ In("handler") => In("serving")' \/ CutOff'
  BY SetUpProgress, Zenon
<1>5. Reads \/ Fetches \/ Fetched \/ Opens \/ In("dir") \/ In("bind") \/ In("ready") \/ In("handler")
        => Busy
  BY DEF Reads, Fetches, Fetched, Opens, Busy
<1>6. Reads \/ Fetches \/ Fetched \/ Opens \/ In("dir") \/ In("bind") \/ In("ready") \/ In("handler")
        => (CanProceed => ENABLED <<Daemon>>_vars)
  BY <1>5, Zenon DEF CanProceed
<1>7. /\ pc = "config" /\ Sound => Reads
      /\ In("serving") \/ CutOff \/ Spoilt =>
           \/ pc = "serving"
           \/ pc = "down" /\ cause \in {"killed", "fault"}
           \/ pc # "down" /\ ~Sound
  BY Zenon DEF Reads, CutOff, Spoilt
<1> HIDE DEF In
<1> QED BY TypeCorrect, <1>1, <1>2, <1>3, <1>4, <1>6, <1>7, PTL DEF FairSpec, Spec, CleanRestart

\* The six waits of an exchange: two timeouts for each of three requests.
Phase == IF fetch = "connect" THEN 2 * request - 1 ELSE 2 * request
At(i) == Waiting /\ Phase = i
Due   == Waiting => timer = IMDS_TIMEOUT

(* Each wait is followed by the next one or by the end of the fetch.       *)
LEMMA WaitMoves ==
  ASSUME TypeOK, [Next]_vars, NEW i \in 1..6, At(i)
  PROVE  \/ At(i)' /\ (Due => Due')
         \/ i < 6 /\ At(i + 1)'
         \/ ~Waiting'
<1>1. CASE UNCHANGED fetchVars
  BY <1>1 DEF fetchVars, At, Phase, Due, Waiting
<1>2. CASE FetchReset \/ \E r : Return(r)
  BY <1>2 DEF FetchReset, Return, Waiting
<1>3. CASE Connected
  BY <1>3 DEF Connected, At, Phase, Waiting, TypeOK
<1>4. CASE Tick
  BY <1>4, TimerRange DEF Tick, At, Phase, Due, Waiting, TypeOK
<1>5. ASSUME NEW k \in 2..3, NEW m, NEW r, BeginRequest(k, m, r), fetch = "io", request = k - 1
      PROVE  i < 6 /\ At(i + 1)'
  BY <1>5 DEF BeginRequest, At, Phase, Waiting
<1>6. ASSUME NEW raw \in Responses, fetch_imds_metadata_token(raw) \/ fetch_imds_role_name(raw)
      PROVE  (i < 6 /\ At(i + 1)') \/ ~Waiting'
  <2>1. ASSUME fetch_imds_metadata_token(raw)
        PROVE  (\E r : Return(r)) \/ \E m, r : BeginRequest(2, m, r) /\ fetch = "io" /\ request = 1
    BY <2>1, Zenon DEF fetch_imds_metadata_token
  <2>2. ASSUME fetch_imds_role_name(raw)
        PROVE  (\E r : Return(r)) \/ \E m, r : BeginRequest(3, m, r) /\ fetch = "io" /\ request = 2
    BY <2>2, Zenon DEF fetch_imds_role_name
  <2>3. 2 \in 2..3 /\ 3 \in 2..3 /\ 1 = 2 - 1 /\ 2 = 3 - 1
    BY SMT
  <2>4. (\E r : Return(r)) => ~Waiting'
    BY SMTT(30) DEF Return, Waiting
  <2> QED BY <1>5, <1>6, <2>1, <2>2, <2>3, <2>4, Zenon
<1>7. ~FetchToken
  BY SMTT(30) DEF FetchToken, fetch_token, At, Waiting
<1>8. ASSUME Next, ~FetchImds, ~FetchTime PROVE UNCHANGED fetchVars \/ FetchReset
  BY <1>7, <1>8, Zenon DEF Next, Main, Rotation, Start, Edit, LoadConfig, TokenChecked, OpenSession,
     ensure_socket_dir, bind_admin_socket, sd_notify_ready, install_sigterm,
     RotateBootstrap, RotateToken, RotateBuild, RotateAdopt, Sigterm, Shutdown, Kill, Fault, Gone
<1>9. FetchImds => Connected \/ (\E r : Return(r)) \/ \E raw \in Responses :
                      fetch_imds_metadata_token(raw) \/ fetch_imds_role_name(raw)
  BY DEF FetchImds, ImdsStep, ConnectFails, IoFails, fetch_imds_role_credentials
<1>10. FetchTime => Tick \/ \E r : Return(r)
  BY DEF FetchTime, Timeout
<1> QED BY <1>1, <1>2, <1>3, <1>4, <1>6, <1>8, <1>9, <1>10 DEF vars

(* A timeout that is due leaves the daemon nothing else to do.             *)
LEMMA DueFires ==
  ASSUME TypeOK, Daemon, Waiting, Due
  PROVE  ~Waiting'
<1>1. ~FetchToken /\ ~Rotation(Followed) /\ ~Main
  <2>1. Fetching /\ fetch # "idle" /\ fetch # "done"
    BY DEF TypeOK, Waiting
  <2>2. pc = "token" \/ (rotate[Followed] = "token" /\ Up)
    BY <2>1, StartupAssumption DEF TypeOK, Fetching
  <2>3. ~FetchToken
    BY <2>1 DEF FetchToken, fetch_token
  <2>4. ~Rotation(Followed)
    <3>1. CASE pc = "token"
      BY <3>1, NotRotating DEF Starting
    <3>2. CASE rotate[Followed] = "token"
      BY <2>1, <3>2 DEF Rotation, RotateToken, RotateBuild, RotateAdopt
    <3> QED BY <2>2, <3>1, <3>2
  <2>5. ~Main
    BY <2>1, <2>2 DEF Up, Main, LoadConfig, TokenChecked, OpenSession, ensure_socket_dir,
       bind_admin_socket, sd_notify_ready, install_sigterm
  <2> QED BY <2>3, <2>4, <2>5
<1>2. ~Tick
  BY TimerRange DEF Tick, Due
<1>3. Timeout
  BY <1>1, <1>2 DEF Daemon, FetchTime
<1> QED BY <1>3, ZenonT(30) DEF Timeout, Return, Waiting

LEMMA Phases == TypeOK /\ Waiting => At(1) \/ At(2) \/ At(3) \/ At(4) \/ At(5) \/ At(6)
BY DEF TypeOK, At, Phase, Waiting

(* imds_round_trip: the exchange with the metadata service ends however    *)
(* the service behaves, silence included.                                  *)
LEMMA ExchangeEnds == FairSpec /\ []CanProceed /\ ClockRuns => WaitsEnd
<1>1. TypeOK /\ [Next]_vars =>
        /\ At(1) => (At(1)' /\ (Due => Due')) \/ At(2)' \/ ~Waiting'
        /\ At(2) => (At(2)' /\ (Due => Due')) \/ At(3)' \/ ~Waiting'
        /\ At(3) => (At(3)' /\ (Due => Due')) \/ At(4)' \/ ~Waiting'
        /\ At(4) => (At(4)' /\ (Due => Due')) \/ At(5)' \/ ~Waiting'
        /\ At(5) => (At(5)' /\ (Due => Due')) \/ At(6)' \/ ~Waiting'
        /\ At(6) => (At(6)' /\ (Due => Due')) \/ ~Waiting'
  <2> SUFFICES ASSUME TypeOK, [Next]_vars, NEW i \in 1..6, At(i)
               PROVE  \/ At(i)' /\ (Due => Due')
                      \/ i < 6 /\ At(i + 1)'
                      \/ ~Waiting'
    OBVIOUS
  <2> QED BY WaitMoves
<1>2. TypeOK /\ <<Daemon>>_vars /\ Waiting /\ Due => ~Waiting'
  BY DueFires
<1>3. Waiting => (CanProceed => (TypeOK => ENABLED <<Daemon>>_vars))
  <2>1. Waiting /\ TypeOK => Busy
    BY DEF Waiting, TypeOK, Fetching, Busy
  <2> QED BY <2>1, Zenon DEF CanProceed
<1>4. (At(1) \/ At(2) \/ At(3) \/ At(4) \/ At(5) \/ At(6) => Waiting) /\ (Due <=> (Waiting => timer = IMDS_TIMEOUT))
  BY Zenon DEF At, Due
<1> QED BY TypeCorrect, Phases, <1>1, <1>2, <1>3, <1>4, PTL DEF FairSpec, Spec, ClockRuns, WaitsEnd

\* Where a start, or a rotation, is with its token.
Asks(p)    == p /\ fetch = "idle"
Awaits(p)  == p /\ Waiting
Has(p)     == p /\ fetch = "done"
Ended      == pc \in {"serving", "down"}

(* How a fetch goes: it waits, and has a result.                           *)
LEMMA FetchMoves ==
  /\ FetchToken => fetch = "idle" /\ (Waiting' \/ fetch' = "done")
  /\ FetchImds \/ FetchTime => Waiting /\ (Waiting' \/ fetch' = "done")
<1>1. FetchToken => fetch = "idle" /\ (Waiting' \/ fetch' = "done")
  BY DEF FetchToken, fetch_token, Return, BeginRequest, Waiting
<1>2. FetchTime => Waiting /\ (Waiting' \/ fetch' = "done")
  BY SMTT(30) DEF FetchTime, Tick, Timeout, Return, Waiting
<1>3. FetchImds => Waiting /\ (Waiting' \/ fetch' = "done")
  BY Zenon DEF FetchImds, ImdsStep, Connected, ConnectFails, IoFails, fetch_imds_metadata_token,
     fetch_imds_role_name, fetch_imds_role_credentials, Return, BeginRequest, Waiting
<1> QED BY <1>1, <1>2, <1>3, Zenon

LEMMA FetchStages ==
  TypeOK => /\ fetch = "idle" \/ Waiting \/ fetch = "done"
            /\ ~(fetch = "idle" /\ Waiting) /\ ~(fetch = "done" /\ Waiting)
BY DEF TypeOK, Waiting

(* What main does with the result, and with the configuration.             *)
LEMMA MainEffects ==
  ASSUME TypeOK
  PROVE  /\ LoadConfig => (pc' = "token" /\ fetch' = "idle") \/ pc' = "down"
         /\ TokenChecked => fetch = "done" /\ (pc' = "backend" \/ pc' = "down")
         /\ OpenSession => pc' = "dir" \/ pc' = "down"
<1>1. LoadConfig => (pc' = "token" /\ fetch' = fetch) \/ pc' = "down"
  BY Zenon DEF LoadConfig, Gone, Go, fetchVars
<1>2. LoadConfig => fetch = "idle"
  BY NotRotating DEF LoadConfig, TypeOK, Starting, Fetching
<1>3. TokenChecked => fetch = "done" /\ (pc' = "backend" \/ pc' = "down")
  BY Zenon DEF TokenChecked, Gone, Go
<1>4. OpenSession => pc' = "dir" \/ pc' = "down"
  BY Zenon DEF OpenSession, Gone, Go
<1> QED BY <1>1, <1>2, <1>3, <1>4, Zenon

(* A start goes from stage to stage or is over.                            *)
LEMMA StartMoves ==
  ASSUME TypeOK, [Next]_vars
  PROVE  /\ pc = "config" => pc' = "config" \/ Asks(pc = "token")' \/ Ended'
         /\ Asks(pc = "token") => \/ Asks(pc = "token")' \/ Awaits(pc = "token")'
                                  \/ Has(pc = "token")' \/ Ended'
         /\ Awaits(pc = "token") => Awaits(pc = "token")' \/ Has(pc = "token")' \/ Ended'
         /\ Has(pc = "token") => Has(pc = "token")' \/ pc' = "backend" \/ Ended'
         /\ pc = "backend" => pc' = "backend" \/ pc' = "dir" \/ Ended'
<1> SUFFICES ASSUME pc \in {"config", "token", "backend"}
             PROVE  /\ pc = "config" => pc' = "config" \/ (pc' = "token" /\ fetch' = "idle") \/ Ended'
                    /\ pc = "token" =>
                         \/ Ended'
                         \/ pc' = "token" /\ fetch = "idle" /\ (fetch' = "idle" \/ Waiting' \/ fetch' = "done")
                         \/ pc' = "token" /\ Waiting /\ (Waiting' \/ fetch' = "done")
                         \/ pc' = "token" /\ fetch = "done" /\ fetch' = "done"
                         \/ fetch = "done" /\ pc' = "backend"
                    /\ pc = "backend" => pc' = "backend" \/ pc' = "dir" \/ Ended'
  BY FetchStages, Zenon DEF Asks, Awaits, Has
<1>1. Starting
  BY DEF Starting
<1>2. CASE Main
  BY <1>2, MainSteps, MainEffects, Zenon DEF Ended
<1>3. CASE FetchToken \/ FetchImds \/ FetchTime
  <2>1. pc' = pc
    BY <1>3, OthersWait, Zenon DEF procVars
  <2> QED BY <1>3, <2>1, FetchMoves, Zenon
<1>4. CASE Edit \/ UNCHANGED vars
  <2>1. pc' = pc /\ fetch' = fetch
    BY <1>4, OthersWait, Zenon DEF procVars, Edit, fetchVars, vars
  <2>2. Waiting' <=> Waiting
    BY <2>1, Zenon DEF Waiting
  <2> QED BY <2>1, <2>2, FetchStages, Zenon
<1>5. CASE Killed
  BY <1>5, Zenon DEF Killed, Ended
<1> QED BY <1>1, <1>2, <1>3, <1>4, <1>5, WhileStarting, Zenon

(* The daemon's own step ends the stage, but for a tick of the clock.      *)
LEMMA StartProgress ==
  ASSUME TypeOK, Daemon
  PROVE  /\ pc = "config" => Asks(pc = "token")' \/ Ended'
         /\ Asks(pc = "token") => Awaits(pc = "token")' \/ Has(pc = "token")'
         /\ Has(pc = "token") => pc' = "backend" \/ Ended'
         /\ pc = "backend" => pc' = "dir" \/ Ended'
<1>1. Starting => ~Rotation(Followed)
  BY NotRotating
<1>2. pc \in {"config", "token", "backend"} => Starting
  BY DEF Starting
<1>3. pc \in {"config", "backend"} => ~FetchToken /\ ~FetchTime
  <2>1. pc \in {"config", "backend"} => ~Fetching
    BY NotRotating DEF Starting, Fetching
  <2> QED BY <2>1, Zenon DEF FetchToken, FetchTime
<1>4. FetchToken => pc' = pc
  BY OthersWait, Zenon DEF procVars
<1>5. pc \in {"config", "backend"} => Main
  BY <1>1, <1>2, <1>3, Zenon DEF Daemon
<1>6. ASSUME Asks(pc = "token") PROVE FetchToken
  BY <1>1, <1>2, <1>6, MainSteps, MainEffects, FetchMoves, FetchStages, Zenon DEF Asks, Daemon
<1>7. ASSUME Has(pc = "token") PROVE TokenChecked
  BY <1>1, <1>2, <1>7, MainSteps, FetchMoves, FetchStages, Zenon DEF Has, Daemon
<1>8. pc = "config" => Asks(pc = "token")' \/ Ended'
  BY <1>5, MainSteps, MainEffects, Zenon DEF Asks, Ended
<1>9. pc = "backend" => pc' = "dir" \/ Ended'
  BY <1>5, MainSteps, MainEffects, Zenon DEF Ended
<1>10. Asks(pc = "token") => Awaits(pc = "token")' \/ Has(pc = "token")'
  BY <1>4, <1>6, FetchMoves, Zenon DEF Asks, Awaits, Has
<1>11. Has(pc = "token") => pc' = "backend" \/ Ended'
  BY <1>7, MainEffects, Zenon DEF Ended
<1> QED BY <1>8, <1>9, <1>10, <1>11, Zenon

(* A rotation goes the same way beside whatever main does, and the end of  *)
(* the process is the end of it.                                           *)
LEMMA WhileRotating ==
  ASSUME TypeOK, [Next]_vars, rotate[Followed] # "idle"
  PROVE  \/ FetchToken \/ FetchImds \/ FetchTime \/ Rotation(Followed)
         \/ rotate'[Followed] = "idle" \/ (rotate'[Followed] = rotate[Followed] /\ fetch' = fetch)
<1>1. pc \in {"serving", "stopping"}
  BY StartupAssumption DEF TypeOK, Up
<1>2. ~Main
  BY <1>1, MainSteps, Zenon DEF Starting
<1>3. ASSUME Edit PROVE rotate'[Followed] = rotate[Followed] /\ fetch' = fetch
  BY <1>3, Zenon DEF Edit, rotVars, fetchVars
<1>4. ~Start /\ ~RotateBootstrap(Followed)
  BY <1>1 DEF Start, RotateBootstrap
<1>7. ASSUME NEW r \in Rotators, r # Followed, RotateBootstrap(r) \/ Rotation(r)
      PROVE  rotate'[Followed] = rotate[Followed] /\ fetch' = fetch
  <2>1. UNCHANGED fetchVars
    BY <1>7, Zenon DEF RotateBootstrap, Rotation, RotateToken, RotateBuild, RotateAdopt
  <2>2. \E p : rotate' = [rotate EXCEPT ![r] = p]
    BY <1>7, Zenon DEF RotateBootstrap, Rotation, RotateToken, RotateBuild, RotateAdopt, Answer
  <2> QED BY <1>7, <2>1, <2>2, StartupAssumption DEF TypeOK, fetchVars
<1>5. ASSUME Sigterm \/ Shutdown \/ Kill
      PROVE  rotate'[Followed] = "idle" \/ (rotate'[Followed] = rotate[Followed] /\ fetch' = fetch)
  <2>1. rotate' = [r \in Rotators |-> "idle"] \/ (rotate' = rotate /\ fetch' = fetch)
    BY <1>5, Zenon DEF Sigterm, Shutdown, Kill, Gone, Go, rotVars, fetchVars
  <2> QED BY <2>1, StartupAssumption
<1>6. ASSUME UNCHANGED vars PROVE rotate'[Followed] = rotate[Followed] /\ fetch' = fetch
  BY <1>6, Zenon DEF vars, rotVars, fetchVars
<1> QED BY <1>2, <1>3, <1>4, <1>5, <1>6, <1>7, Zenon DEF Next

LEMMA RotationEffects ==
  ASSUME TypeOK, Rotation(Followed)
  PROVE  \/ rotate[Followed] = "token" /\ fetch = "done" /\ rotate'[Followed] \in {"idle", "build"}
         \/ rotate[Followed] = "build" /\ rotate'[Followed] \in {"idle", "adopt"}
         \/ rotate[Followed] = "adopt" /\ rotate'[Followed] = "idle"
<1>1. \/ /\ rotate[Followed] = "token" /\ fetch = "done"
         /\ \E p \in {"idle", "build"} : rotate' = [rotate EXCEPT ![Followed] = p]
      \/ /\ rotate[Followed] = "build"
         /\ \E p \in {"idle", "adopt"} : rotate' = [rotate EXCEPT ![Followed] = p]
      \/ rotate[Followed] = "adopt" /\ rotate' = [rotate EXCEPT ![Followed] = "idle"]
  BY ZenonT(30) DEF Rotation, RotateToken, RotateBuild, RotateAdopt, Answer
<1> QED BY <1>1, StartupAssumption DEF TypeOK

LEMMA RotationMoves ==
  ASSUME TypeOK, [Next]_vars
  PROVE  /\ Asks(rotate[Followed] = "token") => \/ Asks(rotate[Followed] = "token")' \/ Awaits(rotate[Followed] = "token")'
                                      \/ Has(rotate[Followed] = "token")' \/ rotate'[Followed] = "idle"
         /\ Awaits(rotate[Followed] = "token") => \/ Awaits(rotate[Followed] = "token")' \/ Has(rotate[Followed] = "token")'
                                        \/ rotate'[Followed] = "idle"
         /\ Has(rotate[Followed] = "token") => Has(rotate[Followed] = "token")' \/ rotate'[Followed] = "build" \/ rotate'[Followed] = "idle"
         /\ rotate[Followed] = "build" => rotate'[Followed] \in {"build", "adopt", "idle"}
         /\ rotate[Followed] = "adopt" => rotate'[Followed] \in {"adopt", "idle"}
<1> SUFFICES ASSUME rotate[Followed] \in {"token", "build", "adopt"}
             PROVE  \/ rotate'[Followed] = "idle"
                    \/ rotate[Followed] = "build" /\ rotate'[Followed] = "adopt"
                    \/ rotate[Followed] = "token" /\ fetch = "done" /\ rotate'[Followed] = "build"
                    \/ rotate'[Followed] = rotate[Followed] /\ fetch = "idle" /\ (fetch' = "idle" \/ Waiting' \/ fetch' = "done")
                    \/ rotate'[Followed] = rotate[Followed] /\ Waiting /\ (Waiting' \/ fetch' = "done")
                    \/ rotate'[Followed] = rotate[Followed] /\ fetch = "done" /\ fetch' = "done"
  BY FetchStages, Zenon DEF Asks, Awaits, Has
<1>1. CASE FetchToken \/ FetchImds \/ FetchTime
  <2>1. rotate'[Followed] = rotate[Followed]
    BY <1>1, OthersWait, Zenon DEF rotVars
  <2> QED BY <1>1, <2>1, FetchMoves, Zenon
<1>2. CASE Rotation(Followed)
  BY <1>2, RotationEffects, Zenon
<1>3. CASE rotate'[Followed] = rotate[Followed] /\ fetch' = fetch
  <2>1. Waiting' <=> Waiting
    BY <1>3, Zenon DEF Waiting
  <2> QED BY <1>3, <2>1, FetchStages, Zenon
<1>4. rotate[Followed] # "idle"
  OBVIOUS
<1> QED BY <1>1, <1>2, <1>3, <1>4, WhileRotating, Zenon

LEMMA RotationProgress ==
  ASSUME TypeOK, Daemon
  PROVE  /\ Asks(rotate[Followed] = "token") => Awaits(rotate[Followed] = "token")' \/ Has(rotate[Followed] = "token")'
         /\ Has(rotate[Followed] = "token") => rotate'[Followed] = "build" \/ rotate'[Followed] = "idle"
         /\ rotate[Followed] = "build" => rotate'[Followed] \in {"adopt", "idle"}
         /\ rotate[Followed] = "adopt" => rotate'[Followed] = "idle"
<1>1. rotate[Followed] # "idle" => ~Main
  BY MainSteps, NotRotating, Zenon
<1>2. rotate[Followed] \in {"build", "adopt"} => ~FetchToken /\ ~FetchTime
  <2>1. rotate[Followed] \in {"build", "adopt"} => ~Fetching
    BY StartupAssumption DEF TypeOK, Up, Fetching
  <2> QED BY <2>1, ZenonT(30) DEF FetchToken, FetchTime
<1>3. FetchToken => rotate'[Followed] = rotate[Followed]
  BY OthersWait, Zenon DEF rotVars
<1>4. ASSUME Asks(rotate[Followed] = "token") PROVE FetchToken
  <2>1. ~Rotation(Followed)
    BY <1>4, RotationEffects DEF Asks
  <2>2. ~FetchTime
    BY <1>4, FetchMoves, FetchStages, Zenon DEF Asks
  <2>3. rotate[Followed] # "idle"
    BY <1>4 DEF Asks
  <2> QED BY <1>1, <2>1, <2>2, <2>3, Zenon DEF Daemon
<1>5. ASSUME Has(rotate[Followed] = "token") PROVE Rotation(Followed)
  <2>1. ~FetchTime /\ ~FetchToken
    BY <1>5, FetchMoves, FetchStages DEF Has
  <2>2. rotate[Followed] # "idle"
    BY <1>5 DEF Has
  <2> QED BY <1>1, <2>1, <2>2, Zenon DEF Daemon
<1>6. Asks(rotate[Followed] = "token") => Awaits(rotate[Followed] = "token")' \/ Has(rotate[Followed] = "token")'
  BY <1>3, <1>4, FetchMoves, Zenon DEF Asks, Awaits, Has
<1>7. Has(rotate[Followed] = "token") => rotate'[Followed] = "build" \/ rotate'[Followed] = "idle"
  BY <1>5, RotationEffects DEF Has
<1>8. /\ rotate[Followed] = "build" => rotate'[Followed] \in {"adopt", "idle"}
      /\ rotate[Followed] = "adopt" => rotate'[Followed] = "idle"
  <2>1. rotate[Followed] \in {"build", "adopt"} => Rotation(Followed)
    BY <1>1, <1>2, Zenon DEF Daemon
  <2> QED BY <2>1, RotationEffects
<1> QED BY <1>6, <1>7, <1>8, Zenon

(* A start comes to its end.                                               *)
LEMMA StartEnds == FairSpec /\ []CanProceed /\ WaitsEnd => (pc = "config" ~> pc \in {"serving", "down"})
<1> DEFINE In(p) == pc = p
           Ask   == Asks(pc = "token")
           Wait  == Awaits(pc = "token")
           Got   == Has(pc = "token")
<1>1. TypeOK /\ [Next]_vars =>
        /\ In("config") => In("config")' \/ Ask' \/ Ended'
        /\ Ask => Ask' \/ Wait' \/ Got' \/ Ended'
        /\ Wait => Wait' \/ Got' \/ Ended'
        /\ Got => Got' \/ In("backend")' \/ Ended'
        /\ In("backend") => In("backend")' \/ In("dir")' \/ Ended'
  BY StartMoves, Zenon
<1>2. TypeOK /\ <<Daemon>>_vars =>
        /\ In("config") => Ask' \/ Ended'
        /\ Ask => Wait' \/ Got'
        /\ Got => In("backend")' \/ Ended'
        /\ In("backend") => In("dir")' \/ Ended'
  BY StartProgress, Zenon
<1>3. TypeOK /\ [Next]_vars =>
        /\ In("dir") => In("dir")' \/ In("bind")' \/ Ended'
        /\ In("bind") => In("bind")' \/ In("ready")' \/ Ended'
        /\ In("ready") => In("ready")' \/ In("handler")' \/ Ended'
        /\ In("handler") => In("handler")' \/ Ended'
  BY SetUpMoves, Zenon DEF CutOff, Ended
<1>4. TypeOK /\ <<Daemon>>_vars =>
        /\ In("dir") => In("bind")' \/ Ended'
        /\ In("bind") => In("ready")' \/ Ended'
        /\ In("ready") => In("handler")' \/ Ended'
        /\ In("handler") => Ended'
  BY SetUpProgress, Zenon DEF CutOff, Ended
<1>5. In("config") \/ Ask \/ Got \/ In("backend") \/ In("dir") \/ In("bind") \/ In("ready") \/ In("handler")
        => Busy
  BY DEF Asks, Has, Busy
<1>6. In("config") \/ Ask \/ Got \/ In("backend") \/ In("dir") \/ In("bind") \/ In("ready") \/ In("handler")
        => (CanProceed => ENABLED <<Daemon>>_vars)
  BY <1>5, Zenon DEF CanProceed
<1>7. (pc = "config" => In("config")) /\ (Wait => Waiting) /\ (Ended => pc \in {"serving", "down"})
  BY Zenon DEF Awaits, Ended
<1>8. TypeOK => (Got => ~Waiting)
  BY FetchStages, Zenon DEF Has
<1> HIDE DEF In, Ask, Wait, Got
<1> QED BY TypeCorrect, <1>1, <1>2, <1>3, <1>4, <1>6, <1>7, <1>8, PTL DEF FairSpec, Spec, WaitsEnd

LEMMA RotationEnds == FairSpec /\ []CanProceed /\ WaitsEnd => (rotate[Followed] = "token" ~> rotate[Followed] = "idle")
<1> DEFINE Ask   == Asks(rotate[Followed] = "token")
           Wait  == Awaits(rotate[Followed] = "token")
           Got   == Has(rotate[Followed] = "token")
           Build == rotate[Followed] = "build"
           Adopt == rotate[Followed] = "adopt"
           Idle  == rotate[Followed] = "idle"
<1>1. TypeOK /\ [Next]_vars =>
        /\ Ask => Ask' \/ Wait' \/ Got' \/ Idle'
        /\ Wait => Wait' \/ Got' \/ Idle'
        /\ Got => Got' \/ Build' \/ Idle'
        /\ Build => Build' \/ Adopt' \/ Idle'
        /\ Adopt => Adopt' \/ Idle'
  BY RotationMoves, Zenon
<1>2. TypeOK /\ <<Daemon>>_vars =>
        (Ask => Wait' \/ Got') /\ (Got => Build' \/ Idle') /\ (Build => Adopt' \/ Idle')
        /\ (Adopt => Idle')
  BY RotationProgress, Zenon
<1>3. Ask \/ Got \/ Build \/ Adopt => Busy
  BY DEF Asks, Has, Busy
<1>4. Ask \/ Got \/ Build \/ Adopt => (CanProceed => ENABLED <<Daemon>>_vars)
  BY <1>3, Zenon DEF CanProceed
<1>5. (Wait => Waiting) /\ (Idle => rotate[Followed] = "idle")
  BY Zenon DEF Awaits
<1>6. TypeOK => (rotate[Followed] = "token" => Ask \/ Wait \/ Got)
  BY FetchStages, Zenon DEF Asks, Awaits, Has
<1> HIDE DEF Ask, Wait, Got, Build, Adopt, Idle
<1> QED BY TypeCorrect, <1>1, <1>2, <1>4, <1>5, <1>6, PTL DEF FairSpec, Spec, WaitsEnd

(* Every start comes up or exits and every rotation is answered, for any   *)
(* files, services, timeouts and numbers of starts, under weak fairness of *)
(* the daemon's own steps.  Two hypotheses are left to TLC: that a busy    *)
(* daemon can take a step, since ENABLED is beyond the provers, and that   *)
(* an armed timeout comes due, which is a count up to IMDS_TIMEOUT (main,  *)
(* fetch_token, imds_round_trip, dispatch_rotate_bootstrap).               *)
THEOREM StartsEnd == FairSpec /\ []CanProceed /\ ClockRuns => StartsAndRotationsEnd
BY ExchangeEnds, StartEnds, RotationEnds, PTL DEF NeverStuck, StartsAndRotationsEnd
=============================================================================
