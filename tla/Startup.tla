------------------------------- MODULE Startup -------------------------------
(***************************************************************************)
(* src/src/main.rs and the set-up half of Server::run: one daemon, started *)
(* again and again by its supervisor (Type=notify, Restart=on-failure).    *)
(*                                                                         *)
(*   config -> token -> backend -> dir -> bind -> ready -> handler ->      *)
(*   serving -> stopping -> down                                           *)
(*                                                                         *)
(* Every step before `serving' can fail and take the process down, and the *)
(* process can be killed between any two.  Only the file system survives:  *)
(* the admin socket's file, whose inode is named by the start that bound   *)
(* it.  While serving, each admin connection may ask for rotate-bootstrap, *)
(* which fetches the token again, builds a session and puts it in force;   *)
(* nothing keeps the rotations of two connections apart.  The exchange     *)
(* with the metadata service is followed step by step for one of them, any *)
(* one; that of the others takes a step of any length.  What the           *)
(* connections do otherwise, and the drain of a shutdown, are in Requests, *)
(* FetchPath and Lifecycle.                                                *)
(***************************************************************************)
EXTENDS Config, Bootstrap

CONSTANTS Hosts,        \* the machines it may be deployed on, see Init
          Clis,         \* the command lines: a value for each flag that is given
          ConfigFiles,  \* what can be at the configuration path
          TokenFiles,   \* what can be at the token path
          EditedConfigs, EditedTokens,   \* what an edit can put there
          EnvVars,      \* what can be in the environment variable
          Rotators,     \* the admin connections that ask for rotations
          Followed,     \* the one whose fetch of the token is followed
          MaxStarts, MaxEdits, MaxFaults, MaxRotations   \* bounds of the model

ASSUME StartupAssumption ==
  /\ \A n \in {MaxStarts, MaxEdits, MaxFaults, MaxRotations} : n \in Nat
  /\ EditedConfigs \subseteq ConfigFiles /\ EditedTokens \subseteq TokenFiles
  /\ Followed \in Rotators
  /\ \A f \in ConfigFiles : f.kind \in {"toml", "garbage", "unreadable", "absent"}
  /\ \A f \in TokenFiles : f.kind \in {"absent", "unreadable"} \/ f.text \in Texts
  /\ \A v \in EnvVars : v.kind \in {"unset", "not_unicode"} \/ v.text \in Texts
  /\ Hosts \subseteq [flags : Clis, config_file : ConfigFiles, token_file : TokenFiles,
                      env_var : EnvVars, fnox_ok : BOOLEAN]

VARIABLES
  flags,        \* the flags in the unit file
  config_file,  \* what is at the configuration path now
  fnox_ok,      \* whether fnox-core can open its configuration now
  edits,        \* changes the operator has made to the files
  starts,       \* starts so far; the current process is number `starts'
  pc,           \* where main is
  cause,        \* why the last process ended
  config,       \* the configuration in force
  token,        \* what fetch_token yielded to this start
  session,      \* 0: none; else the number of the Fnox session in force
  sessions,     \* sessions this process has constructed
  ready,        \* whether this process has notified READY=1
  admin_sock,   \* 0: no file; else the start that bound the one there
  faults,       \* system calls that have failed
  rotate,       \* where each rotation is: "idle", "token", "build" or "adopt"
  built,        \* the session it has constructed
  since,        \* ghost: `sessions' when it was asked for
  rotations     \* rotations asked for

envVars  == <<flags, config_file, fnox_ok, edits>>
procVars == <<starts, pc, cause, config, token, session, sessions, ready, admin_sock>>
rotVars  == <<rotate, built, since, rotations>>
vars     == <<envVars, sourceVars, fetchVars, procVars, faults, rotVars>>

NoConfig == [error |-> "none yet"]   \* also of a token

Init ==
  /\ \E h \in Hosts : /\ flags = h.flags /\ config_file = h.config_file
                      /\ token_file = h.token_file /\ env_var = h.env_var
                      /\ fnox_ok = h.fnox_ok
  /\ edits = 0 /\ faults = 0
  /\ starts = 0 /\ pc = "down" /\ cause = "fresh"
  /\ config = NoConfig /\ token = NoConfig /\ session = 0 /\ sessions = 0
  /\ ready = FALSE /\ admin_sock = 0
  /\ rotate = [r \in Rotators |-> "idle"] /\ rotations = 0
  /\ built = [r \in Rotators |-> 0] /\ since = [r \in Rotators |-> 0]
  /\ FetchInit
-----------------------------------------------------------------------------
\* The supervisor restarts the daemon when it failed, the operator otherwise.
Start ==
  /\ pc = "down" /\ starts < MaxStarts
  /\ pc' = "config" /\ starts' = starts + 1
  /\ UNCHANGED <<envVars, sourceVars, fetchVars, cause, config, token, session, sessions,
                 ready, admin_sock, faults, rotVars>>

\* The operator changes one of the files the daemon reads.
Edit ==
  /\ edits < MaxEdits
  /\ edits' = edits + 1
  /\ \/ config_file' \in EditedConfigs \ {config_file} /\ UNCHANGED <<token_file, fnox_ok>>
     \/ token_file' \in EditedTokens \ {token_file} /\ UNCHANGED <<config_file, fnox_ok>>
     \/ fnox_ok' = ~fnox_ok /\ UNCHANGED <<config_file, token_file>>
  /\ UNCHANGED <<flags, env_var, fetchVars, procVars, faults, rotVars>>

\* The process is gone: all that was in memory is.
Gone(why) ==
  /\ pc' = "down" /\ cause' = why
  /\ config' = NoConfig /\ token' = NoConfig /\ ready' = FALSE
  /\ session' = 0 /\ sessions' = 0
  /\ rotate' = [r \in Rotators |-> "idle"]
  /\ built' = [r \in Rotators |-> 0] /\ since' = [r \in Rotators |-> 0]
  /\ FetchReset
  /\ UNCHANGED <<envVars, sourceVars, starts, rotations>>

\* A system call of the step fails, and the error ends main.
Fault(file) ==
  /\ faults < MaxFaults
  /\ faults' = faults + 1
  /\ Gone("fault")
  /\ admin_sock' = file

\* main.rs from one step to the next.
Go(to) ==
  /\ pc' = to
  /\ UNCHANGED <<envVars, sourceVars, starts, cause, faults, rotVars>>

KeepFiles == UNCHANGED <<admin_sock, faults>>
-----------------------------------------------------------------------------
LoadConfig ==
  /\ pc = "config"
  /\ LET c == load(into_overrides(flags), config_file)
     IN IF c.error # "none" THEN Gone("config") /\ KeepFiles
        ELSE /\ Go("token") /\ config' = c
             /\ UNCHANGED <<fetchVars, token, session, sessions, ready, admin_sock>>

source == config.config.bootstrap_source

\* fetch_token(&config.bootstrap).await, here and in a rotation.
Fetching == pc = "token" \/ rotate[Followed] = "token"

FetchToken ==
  /\ Fetching
  /\ fetch_token(source)
  /\ UNCHANGED <<envVars, sourceVars, procVars, faults, rotVars>>

FetchImds ==
  /\ Fetching
  /\ ImdsStep
  /\ UNCHANGED <<envVars, sourceVars, procVars, faults, rotVars>>

FetchTime ==
  /\ Fetching
  /\ Tick \/ Timeout
  /\ UNCHANGED <<envVars, sourceVars, procVars, faults, rotVars>>

\* FR-003: no usable token, no start.
TokenChecked ==
  /\ pc = "token" /\ fetch = "done"
  /\ IF result.error # "none" THEN Gone("token") /\ KeepFiles
     ELSE /\ Go("backend") /\ FetchReset /\ token' = result
          /\ UNCHANGED <<config, session, sessions, ready, admin_sock>>

\* BackendSession::open of a named file must succeed; ::discover need not.
OpenSession ==
  /\ pc = "backend"
  /\ IF ~fnox_ok /\ config.config.fnox_config_path # None
     THEN Gone("backend") /\ KeepFiles
     ELSE /\ Go("dir")
          /\ session' = IF fnox_ok THEN sessions + 1 ELSE 0
          /\ sessions' = sessions + (IF fnox_ok THEN 1 ELSE 0)
          /\ UNCHANGED <<fetchVars, config, token, ready, admin_sock>>

MutNotifyEarly ==
  /\ pc = "dir"
  /\ Go("bind") /\ ready' = TRUE
  /\ UNCHANGED <<fetchVars, config, token, session, sessions, admin_sock>>

ensure_socket_dir ==
  /\ pc = "dir"
  /\ \/ Go("bind") /\ UNCHANGED <<fetchVars, config, token, session, sessions, ready, admin_sock>>
     \/ Fault(admin_sock)

MutKeepStale ==
  /\ pc = "bind"
  /\ IF admin_sock # 0 THEN Gone("bind") /\ KeepFiles
     ELSE /\ Go("ready") /\ admin_sock' = starts
          /\ UNCHANGED <<fetchVars, config, token, session, sessions, ready>>

\* Remove whatever file is there, bind, set the mode; each can fail, and
\* leaves the old file, no file, or a file nobody listens on.
bind_admin_socket ==
  /\ pc = "bind"
  /\ \/ /\ Go("ready") /\ admin_sock' = starts
        /\ UNCHANGED <<fetchVars, config, token, session, sessions, ready>>
     \/ \E file \in {admin_sock, 0, starts} : Fault(file)

sd_notify_ready ==
  /\ pc = "ready"
  /\ Go("handler") /\ ready' = TRUE
  /\ UNCHANGED <<fetchVars, config, token, session, sessions, admin_sock>>

install_sigterm ==
  /\ pc = "handler"
  /\ \/ Go("serving") /\ UNCHANGED <<fetchVars, config, token, session, sessions, ready, admin_sock>>
     \/ Fault(admin_sock)
-----------------------------------------------------------------------------
Up == pc \in {"serving", "stopping"}

MutRotateDegraded(r) ==
  /\ Up /\ rotate[r] = "idle" /\ rotations < MaxRotations
  /\ rotate' = [rotate EXCEPT ![r] = "token"] /\ rotations' = rotations + 1
  /\ since' = [since EXCEPT ![r] = sessions]
  /\ UNCHANGED <<envVars, sourceVars, fetchVars, procVars, faults, built>>

\* dispatch_rotate_bootstrap, the only caller of fetch_token once up; a
\* draining daemon still serves the connections it has.  Without a session
\* it answers bootstrap_error and changes nothing.
RotateBootstrap(r) ==
  /\ Up /\ rotate[r] = "idle" /\ rotations < MaxRotations
  /\ session # 0
  /\ rotate' = [rotate EXCEPT ![r] = "token"] /\ rotations' = rotations + 1
  /\ since' = [since EXCEPT ![r] = sessions]
  /\ UNCHANGED <<envVars, sourceVars, fetchVars, procVars, faults, built>>

\* Whether a fetch that is not followed yields a token.
Yields ==
  IF source = "file" THEN {fetch_file(token_file).error = "none"}
  ELSE IF source = "env" THEN {fetch_env_with_var(env_var).error = "none"}
  ELSE BOOLEAN

\* The rotation is answered; its locals are dropped.
Answer(r) ==
  /\ rotate' = [rotate EXCEPT ![r] = "idle"]
  /\ built' = [built EXCEPT ![r] = 0] /\ since' = [since EXCEPT ![r] = 0]

\* Only whether there is a token matters: the token itself is dropped.
RotateToken(r) ==
  /\ rotate[r] = "token"
  /\ \E ok \in BOOLEAN :
       /\ \/ r = Followed /\ fetch = "done" /\ ok = (result.error = "none") /\ FetchReset
          \/ r # Followed /\ ok \in Yields /\ UNCHANGED fetchVars
       /\ \/ ok /\ rotate' = [rotate EXCEPT ![r] = "build"] /\ UNCHANGED <<built, since>>
          \/ ~ok /\ Answer(r)
  /\ UNCHANGED <<envVars, sourceVars, procVars, faults, rotations>>

MutTearDownFirst(r) ==
  /\ rotate[r] = "build"
  /\ \/ /\ fnox_ok
        /\ sessions' = sessions + 1
        /\ built' = [built EXCEPT ![r] = sessions + 1]
        /\ rotate' = [rotate EXCEPT ![r] = "adopt"]
        /\ UNCHANGED <<session, since>>
     \/ ~fnox_ok /\ Answer(r) /\ session' = 0 /\ UNCHANGED sessions
  /\ UNCHANGED <<envVars, sourceVars, fetchVars, starts, pc, cause, config, token, ready,
                 admin_sock, faults, rotations>>

\* BackendSession::open or ::discover; a failure keeps the session there is.
RotateBuild(r) ==
  /\ rotate[r] = "build"
  /\ \/ /\ fnox_ok
        /\ sessions' = sessions + 1
        /\ built' = [built EXCEPT ![r] = sessions + 1]
        /\ rotate' = [rotate EXCEPT ![r] = "adopt"]
        /\ UNCHANGED since
     \/ ~fnox_ok /\ Answer(r) /\ UNCHANGED sessions
  /\ UNCHANGED <<envVars, sourceVars, fetchVars, starts, pc, cause, config, token, session, ready,
                 admin_sock, faults, rotations>>

\* backend.adopt(&new): the swap, whatever was adopted in the meantime.
RotateAdopt(r) ==
  /\ rotate[r] = "adopt"
  /\ session' = built[r]
  /\ Answer(r)
  /\ UNCHANGED <<envVars, sourceVars, fetchVars, starts, pc, cause, config, token, sessions, ready,
                 admin_sock, faults, rotations>>
-----------------------------------------------------------------------------
\* SIGTERM: handled from `serving' on, deadly before.  A rotation in
\* progress goes on while the connections drain, and is aborted by the end.
Sigterm ==
  \/ /\ pc = "serving"
     /\ Go("stopping")
     /\ UNCHANGED <<fetchVars, config, token, session, sessions, ready, admin_sock>>
  \/ /\ pc \notin {"down", "serving", "stopping"}
     /\ Gone("killed") /\ KeepFiles

\* The end of Server::run: the admin socket's file is removed; a failure
\* of that is only logged.
Shutdown ==
  /\ pc = "stopping"
  /\ Gone("exit")
  /\ \/ admin_sock' = 0 /\ UNCHANGED faults
     \/ faults < MaxFaults /\ faults' = faults + 1 /\ UNCHANGED admin_sock

\* SIGKILL, the OOM killer, a panic=abort.
Kill ==
  /\ pc # "down"
  /\ Gone("killed") /\ KeepFiles

Main ==
  \/ LoadConfig \/ TokenChecked \/ OpenSession
  \/ ensure_socket_dir \/ bind_admin_socket \/ sd_notify_ready \/ install_sigterm

Rotation(r) == RotateToken(r) \/ RotateBuild(r) \/ RotateAdopt(r)

Next ==
  \/ Start \/ Edit \/ Main \/ FetchToken \/ FetchImds \/ FetchTime
  \/ \E r \in Rotators : RotateBootstrap(r) \/ Rotation(r)
  \/ Sigterm \/ Shutdown \/ Kill

Spec == Init /\ [][Next]_vars

\* The runtime keeps running main and the task of the rotation that is
\* followed, and the time they wait passes.  Nothing is assumed of the metadata service; starting,
\* editing, signals and asking for rotations are up to others.
Daemon == Main \/ FetchToken \/ FetchTime \/ Rotation(Followed)

FairSpec == Spec /\ WF_vars(Daemon)
-----------------------------------------------------------------------------
TypeOK ==
  /\ flags \in Clis /\ config_file \in ConfigFiles /\ fnox_ok \in BOOLEAN
  /\ token_file \in TokenFiles /\ env_var \in EnvVars
  /\ edits \in 0..MaxEdits /\ faults \in 0..MaxFaults /\ rotations \in 0..MaxRotations
  /\ starts \in 0..MaxStarts /\ admin_sock \in 0..starts
  /\ pc \in {"down", "config", "token", "backend", "dir", "bind", "ready", "handler",
             "serving", "stopping"}
  /\ fetch \in {"idle", "connect", "io", "done"}
  /\ fetch # "idle" => Fetching
  /\ request \in 1..3 /\ timer \in 0..IMDS_TIMEOUT /\ spent \in Nat
  /\ sessions \in Nat /\ session \in 0..sessions /\ ready \in BOOLEAN
  /\ rotate \in [Rotators -> {"idle", "token", "build", "adopt"}]
  /\ built \in [Rotators -> 0..sessions] /\ since \in [Rotators -> 0..sessions]
  /\ \A r \in Rotators : rotate[r] # "idle" => Up /\ session # 0

\* Who is told READY=1 gets a daemon.  From then to its end it is the one
\* that listens on the file at the admin path, whatever earlier starts left
\* there and as long as no project is registered under that socket's name,
\* which Requests models (FR-021, `signal readiness once all sockets are
\* bound', server.rs:141); its token source yielded a token in this very
\* start, a file's with a word in it (FR-003); and it has a session unless
\* no fnox file was named (the comment at main.rs:125).
ReadyMeansReady ==
  ready => /\ admin_sock = starts
           /\ token.error = "none"
           /\ source = "file" => token.token.lines # << >>
           /\ source = "env" => token.token # Empty
           /\ session = 0 => config.config.fnox_config_path = None

\* What each key is documented to be: the flag's value, else the file's,
\* else the default.
Layered(fl, file, k) ==
  IF k \in DOMAIN fl THEN fl[k]
  ELSE IF file.kind = "toml" /\ k \in DOMAIN file.raw THEN file.raw[k]
  ELSE DEFAULT_CONFIG[k]

\* Config::load, main: a daemon runs from its start to its end on one
\* configuration, which is within its ranges and gives every key the value
\* of the first layer that has it, as the file was when it was read,
\* whatever is edited afterwards.
ConfigInForce ==
  [][config' # config /\ config' # NoConfig =>
       /\ config = NoConfig
       /\ Legal(config'.config)
       /\ \A k \in Keys : config'.config[k] = Layered(flags, config_file, k)]_vars

\* fetch_imds_at: the role is asked for with a metadata token and the
\* credentials for a role, both obtained in the same exchange, whatever the
\* service answers and however often the exchange was started before.
ImdsInOrder ==
  fetch \in {"connect", "io"} =>
    /\ request = 1 <=> metadata = Empty
    /\ request = 3 <=> role # NoLine

\* imds_round_trip: the two timeouts of the three requests are all that a
\* fetch ever waits for, 12 s in all; nothing is tried twice.
FetchBounded == spent <= 6 * IMDS_TIMEOUT

\* User Story 5, scenario 3, with rotations that overlap in any way: a
\* daemon that has a session has one until it ends, whatever becomes of a
\* rotation; and a rotation changes it to a session that was constructed
\* after that rotation was asked for.  So a rotation may put an older
\* session in force than the one it finds only if it was asked for before
\* that one was constructed (dispatch_rotate_bootstrap has no lock).
SessionKept ==
  [][session # 0 /\ pc' # "down" =>
       /\ session' # 0
       /\ session' # session => \E r \in Rotators : /\ rotate[r] # "idle" /\ rotate'[r] = "idle"
                                                    /\ session' > since[r]]_vars

\* A start or the rotation is under way, and has a step to take.
Busy == pc \notin {"down", "serving", "stopping"} \/ rotate[Followed] # "idle"

CanProceed == Busy => ENABLED <<Daemon>>_vars
NeverStuck == ~<>~CanProceed

\* Time passes: again and again no timeout of an exchange with the metadata
\* service is armed, or the one that is has come due.
ClockRuns == []<>(Waiting => timer = IMDS_TIMEOUT)

\* No exchange with the metadata service lasts for ever.
WaitsEnd == Waiting ~> ~Waiting

\* Every start ends up serving or exits, and every rotation is answered: no
\* source of a token and no step of the set-up holds them for ever, a silent
\* metadata service included (fetch_token, imds_round_trip, main).
StartsAndRotationsEnd ==
  /\ NeverStuck
  /\ ClockRuns
  /\ WaitsEnd
  /\ pc = "config" ~> pc \in {"serving", "down"}
  /\ rotate[Followed] = "token" ~> rotate[Followed] = "idle"

\* What main reads, or has read, lets it start.
Sound ==
  LET c == IF pc = "config" THEN load(into_overrides(flags), config_file) ELSE config
  IN /\ c.error = "none"
     /\ \/ c.config.bootstrap_source = "file" /\ fetch_file(token_file).error = "none"
        \/ c.config.bootstrap_source = "env" /\ fetch_env_with_var(env_var).error = "none"
     /\ fnox_ok \/ c.config.fnox_config_path = None

\* FR-009 and the restart test of examples/killtest.rs: over whatever file
\* an earlier process left (killed, or failed half way through binding), a
\* start with sound files comes up, unless it is killed, a system call
\* fails again, or what it reads is spoilt under it.
CleanRestart ==
  pc = "config" /\ Sound ~>
    \/ pc = "serving"
    \/ pc = "down" /\ cause \in {"killed", "fault"}
    \/ pc # "down" /\ ~Sound
=============================================================================
