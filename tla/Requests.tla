------------------------------ MODULE Requests -------------------------------
(***************************************************************************)
(* Requests on both planes, from the bytes on a connection to the answer:  *)
(* the request loops of src/src/server.rs (handle_admin_connection,        *)
(* handle_project_connection) with read_line_capped, the dispatch of every *)
(* operation, and register, unregister and reload of src/src/registry.rs   *)
(* with the manifest files they read.  Lifecycle has the accept loops and  *)
(* the drain behind register and unregister, FetchPath what a get does.    *)
(*                                                                         *)
(* A message has a size in bytes, without its newline.  A client sends     *)
(* whole lines, and may hang up in the middle of the last one.  Chunks     *)
(* need no steps of their own: read_until waits for the newline, the cap   *)
(* or the end, whatever the chunks.                                        *)
(***************************************************************************)
EXTENDS Manifest

CONSTANTS Names,              \* project names that occur in requests
          AdminStem,          \* the name whose socket path is that of admin.sock
          Raws,               \* the manifests that occur in files
          Contents,           \* Contents[i]: what the file of candidate i can be
          Deployed,           \* Deployed[d]: the manifest files d may start with
          Edited,             \* bound: directories whose files are edited
          Conns,              \* connections that clients make over time
          Script,             \* Script[c]: the messages the client of c may send
          MAX_MESSAGE_BYTES,
          MaxLines,           \* bound: MaxLines[c], the lines the client of c sends
          Cuts,               \* bound: Cuts[c], after how many bytes of a line the
                              \* client of c may hang up
          MaxProjects,        \* bound: registrations ever made
          MaxEdits            \* bound: changes of manifest files

AdminRequest   == {"register", "unregister", "reload", "status", "rotate-bootstrap"}
ProjectRequest == {"get", "ping", "info"}

Malformed == [op |-> "malformed", name |-> None, dir |-> None]

\* What the manifest files of a directory can be.
Layouts ==
  {f \in [MANIFEST_CANDIDATES -> UNION {Contents[i] : i \in MANIFEST_CANDIDATES}] :
     \A i \in MANIFEST_CANDIDATES : f[i] \in Contents[i]}

Reqs == {m.req : m \in UNION {Script[c] : c \in Conns}} \cup {Malformed}

ASSUME RequestsAssumption ==
  /\ Names \subseteq Texts /\ Raws \subseteq RawManifest
  /\ \A i \in MANIFEST_CANDIDATES :
       Contents[i] \subseteq [kind : {"absent", "unreadable", "garbage"}]
                               \cup [kind : {"toml"}, raw : Raws]
  /\ Deployed \in [Dirs -> SUBSET Layouts] /\ Edited \subseteq Dirs
  /\ \A c \in Conns : \A m \in Script[c] : m.size \in Nat /\ m.req.op \in STRING
  /\ \A c \in Conns : \A m \in Script[c] :
       /\ m.req.op \in {"register", "unregister", "reload"} => m.req.name \in Names
       /\ m.req.op = "register" => m.req.dir \in Dirs
  /\ MAX_MESSAGE_BYTES \in Nat \ {0} /\ Cuts \in [Conns -> SUBSET Nat]
  /\ MaxLines \in [Conns -> Nat] /\ MaxProjects \in Nat /\ MaxEdits \in Nat

VARIABLES
  disk, edits,   \* the manifest files, and how often they were changed
  registry,      \* per name: the number of its project, 0 without one
  projects,      \* every Project ever registered: [dir, manifest, bounds]
  admin_sock,    \* whose listener is behind the file admin.sock
  plane,         \* per connection: "admin", "project", or "new"
  closed,        \* the daemon has closed it
  sent,          \* the lines its client has sent
  stream,        \* what of them is still to be read
  hungup,        \* the client will send nothing more
  pc, req,       \* the request loop: where it is, and the request it handles
  inst,          \* the project of the connection, or of the reload
  path,          \* the manifest file discover found
  loaded,        \* the validated manifest
  reply,         \* the response to write
  outbox         \* the responses written: [to, code]

daemonVars == <<registry, projects, admin_sock>>
wireVars   == <<plane, closed, sent, stream, hungup, outbox>>
taskVars   == <<pc, req, inst, path, loaded, reply>>
vars       == <<disk, edits, daemonVars, wireVars, taskVars>>

NoReply == [to |-> Malformed, code |-> "none", data |-> {}]

Init ==
  /\ disk \in [Dirs -> Layouts] /\ (\A d \in Dirs : disk[d] \in Deployed[d])
  /\ edits = 0
  /\ registry = [n \in Names |-> 0] /\ projects = << >>
  /\ admin_sock = "admin"
  /\ plane = [c \in Conns |-> "new"] /\ closed = [c \in Conns |-> FALSE]
  /\ sent = [c \in Conns |-> << >>] /\ stream = [c \in Conns |-> << >>]
  /\ hungup = [c \in Conns |-> FALSE]
  /\ pc = [c \in Conns |-> "read"] /\ req = [c \in Conns |-> Malformed]
  /\ inst = [c \in Conns |-> 0] /\ path = [c \in Conns |-> None]
  /\ loaded = [c \in Conns |-> None]
  /\ reply = [c \in Conns |-> NoReply]
  /\ outbox = [c \in Conns |-> << >>]
-----------------------------------------------------------------------------
(* Clients, and whoever edits manifests. *)

Connect(c) ==
  /\ plane[c] = "new" /\ admin_sock = "admin"
  /\ plane' = [plane EXCEPT ![c] = "admin"]
  /\ UNCHANGED <<disk, edits, daemonVars, closed, sent, stream, hungup, outbox, taskVars>>

ConnectProject(c, n) ==
  /\ plane[c] = "new" /\ registry[n] # 0
  /\ plane' = [plane EXCEPT ![c] = "project"]
  /\ inst' = [inst EXCEPT ![c] = registry[n]]
  /\ UNCHANGED <<disk, edits, daemonVars, closed, sent, stream, hungup, outbox,
                pc, req, path, loaded, reply>>

Open(c) == plane[c] # "new" /\ ~closed[c]

Line(m, got, newline) == [msg |-> m, got |-> got, newline |-> newline]

Transmit(c, line) ==
  /\ Open(c) /\ ~hungup[c] /\ Len(sent[c]) < MaxLines[c]
  /\ sent' = [sent EXCEPT ![c] = Append(@, line)]
  /\ stream' = [stream EXCEPT ![c] = Append(@, line)]
  /\ UNCHANGED <<disk, edits, daemonVars, plane, closed, outbox, taskVars>>

Send(c, m) == Transmit(c, Line(m, m.size, TRUE)) /\ UNCHANGED hungup

\* The client goes away after `got' bytes of a message and no newline.
HangUpWithin(c, m, got) ==
  /\ got \in 1..m.size
  /\ Transmit(c, Line(m, got, FALSE))
  /\ hungup' = [hungup EXCEPT ![c] = TRUE]

HangUp(c) ==
  /\ Open(c) /\ ~hungup[c] /\ 0 \in Cuts[c]
  /\ hungup' = [hungup EXCEPT ![c] = TRUE]
  /\ UNCHANGED <<disk, edits, daemonVars, plane, closed, sent, stream, outbox, taskVars>>

Edit(d, i, content) ==
  /\ edits < MaxEdits /\ disk[d][i] # content
  /\ disk' = [disk EXCEPT ![d][i] = content]
  /\ edits' = edits + 1
  /\ UNCHANGED <<daemonVars, wireVars, taskVars>>
-----------------------------------------------------------------------------
(* The request loop. *)

MutCapOffByOne(s, eof) ==
  IF s = << >> THEN IF eof THEN "eof" ELSE "wait"
  ELSE IF Head(s).got > MAX_MESSAGE_BYTES THEN "too_long" ELSE "line"

(* read_until on at most MAX_MESSAGE_BYTES bytes: they hold the newline,   *)
(* or they are that many without one, or the stream ended first.           *)
read_line_capped(s, eof) ==
  IF s = << >> THEN IF eof THEN "eof" ELSE "wait"
  ELSE IF Head(s).got >= MAX_MESSAGE_BYTES THEN "too_long" ELSE "line"

\* serde_json::from_slice: only the whole text of a message is valid JSON,
\* and only an operation of the plane is a request.
from_slice(p, line) ==
  IF line.got = line.msg.size /\ line.msg.req.op \in (IF p = "admin" THEN AdminRequest ELSE ProjectRequest)
  THEN line.msg.req ELSE Malformed

\* The task ends and drops the stream.
Close(c) ==
  /\ closed' = [closed EXCEPT ![c] = TRUE]
  /\ stream' = [stream EXCEPT ![c] = << >>]
  /\ pc' = [pc EXCEPT ![c] = "read"]
  /\ req' = [req EXCEPT ![c] = Malformed]
  /\ inst' = [inst EXCEPT ![c] = 0]
  /\ path' = [path EXCEPT ![c] = None]
  /\ loaded' = [loaded EXCEPT ![c] = None]
  /\ reply' = [reply EXCEPT ![c] = NoReply]
  /\ UNCHANGED <<disk, edits, daemonVars, plane, sent, hungup, outbox>>

Reading(c) == Open(c) /\ pc[c] = "read"

ReadRequest(c) ==
  /\ Reading(c) /\ read_line_capped(stream[c], hungup[c]) = "line"
  /\ req' = [req EXCEPT ![c] = from_slice(plane[c], Head(stream[c]))]
  /\ stream' = [stream EXCEPT ![c] = Tail(@)]
  /\ pc' = [pc EXCEPT ![c] = "dispatch"]
  /\ UNCHANGED <<disk, edits, daemonVars, plane, closed, sent, hungup, outbox, inst, path, loaded, reply>>

ReadEof(c) ==
  /\ Reading(c) /\ read_line_capped(stream[c], hungup[c]) = "eof"
  /\ Close(c)

\* The error closes the connection, and no response is written.
ReadTooLong(c) ==
  /\ Reading(c) /\ read_line_capped(stream[c], hungup[c]) = "too_long"
  /\ Close(c)

\* The handler returns: its locals are gone, the response is to be written.
Respond(c, code, data) ==
  /\ pc' = [pc EXCEPT ![c] = "write"]
  /\ path' = [path EXCEPT ![c] = None]
  /\ loaded' = [loaded EXCEPT ![c] = None]
  /\ inst' = IF plane[c] = "project" THEN inst ELSE [inst EXCEPT ![c] = 0]
  /\ reply' = [reply EXCEPT ![c] = [to |-> req[c], code |-> code, data |-> data]]

Write(c) ==
  /\ Open(c) /\ pc[c] = "write"
  /\ outbox' = [outbox EXCEPT ![c] = Append(@, [to |-> reply[c].to, code |-> reply[c].code])]
  /\ pc' = [pc EXCEPT ![c] = "read"]
  /\ req' = [req EXCEPT ![c] = Malformed]
  /\ reply' = [reply EXCEPT ![c] = NoReply]
  /\ UNCHANGED <<disk, edits, daemonVars, plane, closed, sent, stream, hungup, inst, path, loaded>>

WriteFails(c) ==
  /\ Open(c) /\ pc[c] = "write" /\ hungup[c]
  /\ Close(c)

Dispatch(c, op) == pc[c] = "dispatch" /\ req[c].op = op

MutIgnoreMalformed(c) ==
  /\ Dispatch(c, "malformed")
  /\ pc' = [pc EXCEPT ![c] = "read"]
  /\ UNCHANGED <<disk, edits, daemonVars, wireVars, req, inst, path, loaded, reply>>

protocol_error(c) ==
  /\ Dispatch(c, "malformed")
  /\ Respond(c, "protocol_error", {})
  /\ UNCHANGED <<disk, edits, daemonVars, wireVars, req>>
-----------------------------------------------------------------------------
(* dispatch_admin. *)

Allowlist(m) == {m.secrets[i] : i \in DOMAIN m.secrets}

admin_error_for(e) ==
  IF e = "ProjectExists" THEN "project_exists"
  ELSE IF e = "ProjectUnknown" THEN "project_unknown"
  ELSE IF e = "ManifestNotFound" THEN "manifest_not_found"
  ELSE IF e = "ManifestInvalid" THEN "manifest_invalid"
  ELSE "internal_error"   \* BindSocket, SocketPerms

Fail(c, e) ==
  /\ Respond(c, admin_error_for(e), {})
  /\ UNCHANGED req

\* The directory whose manifest is loaded: the request's, or the project's.
LoadDir(c) == IF req[c].op = "register" THEN req[c].dir ELSE projects[inst[c]].dir

\* Manifest::load, first half; register has looked at nothing before it.
Discover(c) ==
  /\ pc[c] = "discover" \/ Dispatch(c, "register")
  /\ LET found == discover(disk[LoadDir(c)])
     IN IF found = None
        THEN Fail(c, load_manifest("NotFound"))
        ELSE /\ path' = [path EXCEPT ![c] = found]
             /\ pc' = [pc EXCEPT ![c] = "read_file"]
             /\ UNCHANGED <<req, inst, loaded, reply>>
  /\ UNCHANGED <<disk, edits, daemonVars, wireVars>>

\* Second half, and the comparison with the name in the request.
ReadFile(c) ==
  /\ pc[c] = "read_file"
  /\ LET r == read_manifest(disk[LoadDir(c)][path[c]], file_name[LoadDir(c)])
     IN IF r.error # "none"
        THEN Fail(c, load_manifest(r.error))
        ELSE IF r.manifest.name # req[c].name
        THEN Fail(c, "ManifestInvalid")
        ELSE /\ loaded' = [loaded EXCEPT ![c] = r.manifest]
             /\ pc' = [pc EXCEPT ![c] = IF req[c].op = "register" THEN "insert" ELSE "set_config"]
             /\ UNCHANGED <<req, inst, path, reply>>
  /\ UNCHANGED <<disk, edits, daemonVars, wireVars>>

\* bind_project_socket removes the file at socket_path_for(name) and binds
\* there, which is where the admin socket is when the name is AdminStem.
BoundOver(n, owner) == IF n = AdminStem THEN owner ELSE admin_sock

MutInsertOver(c) ==
  /\ pc[c] = "insert"
  /\ Len(projects) < MaxProjects
  /\ projects' = Append(projects, [dir |-> req[c].dir, manifest |-> loaded[c],
                                   bounds |-> resolve_cache_bounds(loaded[c])])
  /\ registry' = [registry EXCEPT ![req[c].name] = Len(projects) + 1]
  /\ admin_sock' = BoundOver(req[c].name, "project")
  /\ Respond(c, "ok", {})
  /\ UNCHANGED <<disk, edits, wireVars, req>>

\* Under the write lock: check, bind, insert; then the answer.
Insert(c) ==
  /\ pc[c] = "insert" /\ registry[req[c].name] = 0
  /\ Len(projects) < MaxProjects
  /\ projects' = Append(projects, [dir |-> req[c].dir, manifest |-> loaded[c],
                                   bounds |-> resolve_cache_bounds(loaded[c])])
  /\ registry' = [registry EXCEPT ![req[c].name] = Len(projects) + 1]
  /\ admin_sock' = BoundOver(req[c].name, "project")
  /\ Respond(c, "ok", {})
  /\ UNCHANGED <<disk, edits, wireVars, req>>

Exists(c) ==
  /\ pc[c] = "insert" /\ registry[req[c].name] # 0
  /\ Fail(c, "ProjectExists")
  /\ UNCHANGED <<disk, edits, daemonVars, wireVars>>

\* The old file could not be removed and stays; or it was removed, and bind
\* failed or its result was dropped.
BindFails(c) ==
  /\ pc[c] = "insert" /\ registry[req[c].name] = 0
  /\ \/ admin_sock' = admin_sock /\ Fail(c, "BindSocket")
     \/ /\ admin_sock' = BoundOver(req[c].name, "none")
        /\ \E e \in {"BindSocket", "SocketPerms"} : Fail(c, e)
  /\ UNCHANGED <<disk, edits, registry, projects, wireVars>>

Unknown(c) ==
  /\ Dispatch(c, "unregister") \/ Dispatch(c, "reload")
  /\ registry[req[c].name] = 0
  /\ Fail(c, "ProjectUnknown")
  /\ UNCHANGED <<disk, edits, daemonVars, wireVars>>

Unregister(c) ==
  /\ Dispatch(c, "unregister") /\ registry[req[c].name] # 0
  /\ registry' = [registry EXCEPT ![req[c].name] = 0]
  /\ pc' = [pc EXCEPT ![c] = "remove_socket"]
  /\ UNCHANGED <<disk, edits, projects, admin_sock, wireVars, req, inst, path, loaded, reply>>

\* After the drain, which Lifecycle models; that the file cannot be removed
\* is logged and no error.
RemoveSocket(c) ==
  /\ pc[c] = "remove_socket"
  /\ admin_sock' \in {admin_sock, BoundOver(req[c].name, "none")}
  /\ Respond(c, "ok", {})
  /\ UNCHANGED <<disk, edits, registry, projects, wireVars, req>>

\* reload takes its handle of the project under the read lock ...
Lookup(c) ==
  /\ Dispatch(c, "reload") /\ registry[req[c].name] # 0
  /\ inst' = [inst EXCEPT ![c] = registry[req[c].name]]
  /\ pc' = [pc EXCEPT ![c] = "discover"]
  /\ UNCHANGED <<disk, edits, daemonVars, wireVars, req, path, loaded, reply>>

\* ... and works on it even if it leaves the registry.
SetConfig(c) ==
  /\ pc[c] = "set_config"
  /\ projects' = [projects EXCEPT ![inst[c]].bounds = resolve_cache_bounds(loaded[c])]
  /\ pc' = [pc EXCEPT ![c] = "store"]
  /\ UNCHANGED <<disk, edits, registry, admin_sock, wireVars, req, inst, path, loaded, reply>>

StoreManifest(c) ==
  /\ pc[c] = "store"
  /\ projects' = [projects EXCEPT ![inst[c]].manifest = loaded[c]]
  /\ Respond(c, "ok", Allowlist(loaded[c]))
  /\ UNCHANGED <<disk, edits, registry, admin_sock, wireVars, req>>

\* The projects of one snapshot; the sizes reported with them are left out.
status(c) ==
  /\ Dispatch(c, "status")
  /\ Respond(c, "ok", {n \in Names : registry[n] # 0})
  /\ UNCHANGED <<disk, edits, daemonVars, wireVars, req>>

\* The session is FetchPath's and Startup's; here it succeeds or fails.
rotate_bootstrap(c) ==
  /\ Dispatch(c, "rotate-bootstrap")
  /\ \E code \in {"ok", "bootstrap_error"} : Respond(c, code, {})
  /\ UNCHANGED <<disk, edits, daemonVars, wireVars, req>>
-----------------------------------------------------------------------------
(* dispatch_project, on the connection's own handle of the project. *)

ping(c) ==
  /\ Dispatch(c, "ping")
  /\ Respond(c, "ok", {})
  /\ UNCHANGED <<disk, edits, daemonVars, wireVars, req>>

info(c) ==
  /\ Dispatch(c, "info")
  /\ Respond(c, "ok", Allowlist(projects[inst[c]].manifest))
  /\ UNCHANGED <<disk, edits, daemonVars, wireVars, req>>

get(c) ==
  /\ Dispatch(c, "get")
  /\ IF req[c].name \in Allowlist(projects[inst[c]].manifest)
     THEN \E code \in {"ok", "not_found", "backend_error"} : Respond(c, code, {})
     ELSE Respond(c, "denied", {})
  /\ UNCHANGED <<disk, edits, daemonVars, wireVars, req>>

\* The accept loop of an unregistered project ends its connections.
Drained(c) ==
  /\ plane[c] = "project" /\ Open(c) /\ \A n \in Names : registry[n] # inst[c]
  /\ Close(c)
-----------------------------------------------------------------------------
Loop(c) == ReadRequest(c) \/ ReadEof(c) \/ ReadTooLong(c) \/ Write(c) \/ protocol_error(c)

dispatch_admin(c) ==
  \/ Discover(c) \/ ReadFile(c) \/ Insert(c) \/ Exists(c) \/ BindFails(c)
  \/ Unknown(c) \/ Unregister(c) \/ RemoveSocket(c)
  \/ Lookup(c) \/ SetConfig(c) \/ StoreManifest(c)
  \/ status(c) \/ rotate_bootstrap(c)

Client(c) ==
  \/ Connect(c) \/ HangUp(c)
  \/ \E n \in Names : ConnectProject(c, n)
  \/ \E m \in Script[c] : Send(c, m) \/ \E got \in Cuts[c] : HangUpWithin(c, m, got)

Next ==
  \/ \E c \in Conns :
       \/ Loop(c) \/ WriteFails(c) \/ dispatch_admin(c)
       \/ ping(c) \/ info(c) \/ get(c) \/ Drained(c) \/ Client(c)
  \/ \E d \in Edited, i \in MANIFEST_CANDIDATES : \E f \in Contents[i] : Edit(d, i, f)

Spec == Init /\ [][Next]_vars

\* The daemon's tasks run.  Nothing is assumed of clients, editors of
\* manifests, or the backend call of a get.
Task(c) == Loop(c) \/ dispatch_admin(c) \/ ping(c) \/ info(c)

TaskFair(c) == WF_vars(Task(c))

FairSpec == Spec /\ \A c \in Conns : TaskFair(c)
-----------------------------------------------------------------------------
Bounds == [max_entries : 1..CACHE_MAX_ENTRIES_MAX, ttl : 1..CACHE_TTL_MAX]

Lines == [msg : UNION {Script[c] : c \in Conns}, got : Nat, newline : BOOLEAN]

Codes ==
  {"none", "ok", "protocol_error", "project_exists", "project_unknown", "manifest_not_found",
   "manifest_invalid", "internal_error", "bootstrap_error", "denied", "not_found", "backend_error"}

TypeOK ==
  /\ disk \in [Dirs -> Layouts]
  /\ edits \in 0..MaxEdits
  /\ projects \in Seq([dir : Dirs, manifest : Raws, bounds : Bounds])
  /\ registry \in [Names -> 0..Len(projects)]
  /\ admin_sock \in {"admin", "project", "none"}
  /\ plane \in [Conns -> {"new", "admin", "project"}]
  /\ closed \in [Conns -> BOOLEAN]
  /\ sent \in [Conns -> Seq(Lines)] /\ stream \in [Conns -> Seq(Lines)]
  /\ hungup \in [Conns -> BOOLEAN]
  /\ pc \in [Conns -> {"read", "dispatch", "discover", "read_file", "insert",
                       "remove_socket", "set_config", "store", "write"}]
  /\ req \in [Conns -> Reqs]
  /\ inst \in [Conns -> 0..Len(projects)]
  /\ path \in [Conns -> MANIFEST_CANDIDATES \cup {None}]
  /\ loaded \in [Conns -> Raws \cup {None}]
  /\ reply \in [Conns -> [to : Reqs, code : Codes, data : SUBSET Texts]]
  /\ outbox \in [Conns -> Seq([to : Reqs, code : Codes])]

(* The i-th response on a connection answers the i-th line, also when the  *)
(* client sent several before reading; and a line that does not fit        *)
(* MAX_MESSAGE_BYTES with its newline is not taken for a request, nor is   *)
(* its tail: the one answer it may have is the one to a malformed line     *)
(* (read_line_capped, handle_admin_connection, handle_project_connection). *)
AnsweredInOrder ==
  \A c \in Conns : \A i \in DOMAIN outbox[c] :
    /\ i <= Len(sent[c])
    /\ outbox[c][i].to = IF sent[c][i].got < MAX_MESSAGE_BYTES
                         THEN from_slice(plane[c], sent[c][i]) ELSE Malformed

(* docs/wire-protocol.md: "Larger messages are rejected with an `error`    *)
(* response and the connection is closed."  An admin connection that the   *)
(* daemon closes on a client that did not hang up was closed over such a   *)
(* message, and has the error response to it (read_line_capped,            *)
(* handle_admin_connection).                                               *)
OversizedIsAnswered ==
  \A c \in Conns : plane[c] = "admin" /\ closed[c] /\ ~hungup[c] =>
    \E i \in DOMAIN outbox[c] :
      sent[c][i].got >= MAX_MESSAGE_BYTES /\ outbox[c][i].code = "protocol_error"

(* What a project runs on was validated: the manifest in force obeys the   *)
(* rules that Manifest::validate has for its directory, its name is the    *)
(* one the project is registered under, and the cache bounds are within    *)
(* the allowed ranges, whatever is edited while a register or a reload     *)
(* reads it (Manifest::load, register, reload).  That the bounds stay      *)
(* below the daemon-wide defaults, as manifest-schema.md has it, is not    *)
(* part of it: the code does not check that.                               *)
RegisteredIsValid ==
  /\ \A i \in DOMAIN projects :
       /\ Rules(projects[i].manifest, file_name[projects[i].dir])
       /\ projects[i].bounds \in Bounds
  /\ \A n \in Names : registry[n] # 0 => projects[registry[n]].manifest.name = n
-----------------------------------------------------------------------------
(* The requests have their effect on the registry at one instant each, and *)
(* a refused one has none (RegistryService): with two clients on the same  *)
(* name, one register wins and the other is told project_exists; a reload  *)
(* whose manifest went bad in between changes nothing; a reload of a       *)
(* project that is unregistered meanwhile touches no later one.            *)
Stage(c) ==
  IF pc[c] = "read" THEN [at |-> "quiet"]
  ELSE IF pc[c] \in {"write", "remove_socket"}
  THEN [at |-> "done", code |-> IF pc[c] = "write" THEN reply[c].code ELSE "ok",
        data |-> reply[c].data]
  ELSE [at |-> "asked", req |-> req[c],
        project |-> IF req[c].op \in {"reload", "get", "ping", "info"} THEN inst[c] ELSE 0]

Service == INSTANCE RegistryService
             WITH manifests <- [i \in DOMAIN projects |-> projects[i].manifest],
                  stage <- [c \in Conns |-> Stage(c)],
                  Accepts <- [n \in Names |-> {m \in Raws : m.name = n /\ Rules(m, n)}]

ImplementsService == Service!Spec

\* A line waits for its answer, and the task of the connection can go on.
Owed(c) == Open(c) /\ Len(outbox[c]) < Len(sent[c]) /\ req[c].op # "get"

CanStep(c) == Owed(c) => ENABLED <<Task(c)>>_vars
CanAllStep == \A c \in Conns : CanStep(c)
NeverStuck == ~<>~CanAllStep

\* When the lines before it are answered, line number n is.
LineAnswered(c, n) ==
  (Len(outbox[c]) = n - 1 /\ n <= Len(sent[c])) ~> (Len(outbox[c]) >= n \/ closed[c] \/ req[c].op = "get")

(* No request is left unanswered: line by line, what was sent is answered, *)
(* unless the connection closes or a get waits for the backend; and until  *)
(* then the task of the connection is never stuck (handle_admin_connection,*)
(* handle_project_connection).                                             *)
Answered ==
  /\ NeverStuck
  /\ \A c \in Conns : \A n \in 1..MaxLines[c] : LineAnswered(c, n)
=============================================================================
