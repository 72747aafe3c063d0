---------------------------- MODULE RequestsProofs ----------------------------
(***************************************************************************)
(* Proofs about Manifest and Requests: what is registered is valid, for    *)
(* any clients, any manifests and any edits of them.  AnswersProofs goes   *)
(* on from here.                                                           *)
(***************************************************************************)
EXTENDS Requests, SequenceTheorems, TLAPS

\* The leaves are Zenon's, except those that say SMT.
USE Zenon

-----------------------------------------------------------------------------
(* Manifests. *)

(* The loop over the allowlist stops nowhere exactly if every name is      *)
(* valid and none occurs twice.                                            *)
LEMMA SecretsChecked ==
  ASSUME NEW secrets \in Seq(Texts)
  PROVE  BadSecrets(secrets) = {} <=>
           /\ \A i \in DOMAIN secrets : is_valid_secret_name(secrets[i])
           /\ \A i, j \in DOMAIN secrets : i # j => secrets[i] # secrets[j]
<1>1. DOMAIN secrets = 1..Len(secrets) /\ Len(secrets) \in Nat
  BY SMT
<1>2. ASSUME BadSecrets(secrets) = {}, NEW i \in DOMAIN secrets, NEW j \in DOMAIN secrets, i # j
      PROVE  secrets[i] # secrets[j]
  <2>1. ASSUME NEW k \in DOMAIN secrets, NEW l \in 1..(k - 1) PROVE secrets[l] # secrets[k]
    BY <1>2, <2>1 DEF BadSecrets
  <2>2. i \in 1..(j - 1) \/ j \in 1..(i - 1)
    BY <1>1, <1>2, SMT
  <2> QED BY <2>1, <2>2
<1>3. ASSUME BadSecrets(secrets) = {}
      PROVE  \A i \in DOMAIN secrets : is_valid_secret_name(secrets[i])
  BY <1>3 DEF BadSecrets
<1>4. ASSUME \A i \in DOMAIN secrets : is_valid_secret_name(secrets[i]),
             \A i, j \in DOMAIN secrets : i # j => secrets[i] # secrets[j]
      PROVE  BadSecrets(secrets) = {}
  <2> SUFFICES ASSUME NEW i \in DOMAIN secrets, NEW j \in 1..(i - 1), secrets[j] = secrets[i]
               PROVE  FALSE
    BY <1>4 DEF BadSecrets
  <2>1. j \in DOMAIN secrets /\ i # j
    BY <1>1, SMT
  <2> QED BY <1>4, <2>1
<1> QED BY <1>2, <1>3, <1>4

(* The early returns of Manifest::validate, in their order, accept exactly *)
(* the manifests that satisfy Rules: every check is made and none refuses  *)
(* more, for every limit and every directory; and what is accepted is not  *)
(* changed.  A cache key above the daemon-wide default is accepted.        *)
THEOREM ValidateExact ==
  ASSUME NEW raw \in RawManifest, NEW dir
  PROVE  /\ validate(raw, dir).error = "none" <=> Rules(raw, dir)
         /\ validate(raw, dir).error = "none" => validate(raw, dir).manifest = raw
<1>1. raw.secrets \in Seq(Texts) /\ raw.description \in Nat \cup {None}
  BY DEF RawManifest
<1>2. raw.description = None \/ raw.description <= DESCRIPTION_MAX_LEN
      <=> ~(raw.description # None /\ raw.description > DESCRIPTION_MAX_LEN)
  BY <1>1, ManifestAssumption, SMT
<1>3. BadSecrets(raw.secrets) = {} <=>
        /\ \A i \in DOMAIN raw.secrets : is_valid_secret_name(raw.secrets[i])
        /\ \A i, j \in DOMAIN raw.secrets : i # j => raw.secrets[i] # raw.secrets[j]
  BY <1>1, SecretsChecked
<1>4. \A max : /\ OutOfRange(raw.ttl_seconds, max) <=> raw.ttl_seconds \notin (1..max) \cup {None}
               /\ OutOfRange(raw.max_entries, max) <=> raw.max_entries \notin (1..max) \cup {None}
  BY DEF OutOfRange
<1>5. Rules(raw, dir) <=>
        /\ raw.schema_version \in SUPPORTED_SCHEMA_VERSIONS
        /\ is_valid_project_name(raw.name)
        /\ ~(dir # None /\ raw.name # dir)
        /\ ~(raw.description # None /\ raw.description > DESCRIPTION_MAX_LEN)
        /\ BadSecrets(raw.secrets) = {}
        /\ ~OutOfRange(raw.ttl_seconds, CACHE_TTL_MAX)
        /\ ~OutOfRange(raw.max_entries, CACHE_MAX_ENTRIES_MAX)
  BY <1>2, <1>3, <1>4 DEF Rules
<1>6. SecretError(raw.secrets) # "none"
  BY DEF SecretError
<1>7. CASE Rules(raw, dir)
  <2>1. validate(raw, dir) = Ok(raw)
    BY <1>5, <1>7 DEF validate
  <2> QED BY <1>7, <2>1, SMT DEF Ok
<1>8. CASE ~Rules(raw, dir)
  <2>1. \E e : e # "none" /\ validate(raw, dir) = Err(e)
    BY <1>5, <1>6, <1>8, SMT DEF validate
  <2> QED BY <1>8, <2>1, SMT DEF Err
<1> QED BY <1>7, <1>8

(* discover yields one of the candidates or None.                          *)
LEMMA DiscoverResult ==
  ASSUME NEW files
  PROVE  discover(files) \in MANIFEST_CANDIDATES \cup {None}
<1> DEFINE present == {i \in MANIFEST_CANDIDATES : files[i].kind # "absent"}
<1>1. CASE present = {}
  BY <1>1 DEF discover
<1>2. CASE present # {}
  <2>1. present \subseteq {1, 2}
    BY SMT DEF MANIFEST_CANDIDATES
  <2>2. \E i \in present : \A j \in present : i <= j
    BY <1>2, <2>1, SMT
  <2>3. (CHOOSE i \in present : \A j \in present : i <= j) \in present
    BY <2>2
  <2> QED BY <1>2, <2>3 DEF discover
<1> QED BY <1>1, <1>2

(* A file that is read without an error held a manifest that obeys the     *)
(* rules, and that is what is loaded (Manifest::load).                     *)
LEMMA ReadResult ==
  ASSUME NEW i \in MANIFEST_CANDIDATES, NEW file \in Contents[i], NEW dir,
         read_manifest(file, dir).error = "none"
  PROVE  /\ read_manifest(file, dir).manifest \in Raws
         /\ Rules(read_manifest(file, dir).manifest, dir)
<1>1. file.kind \notin {"absent", "unreadable", "garbage"}
  BY DEF read_manifest, Err
<1>2. file \in [kind : {"toml"}, raw : Raws]
  BY <1>1, RequestsAssumption
<1>3. file.raw \in Raws /\ file.raw \in RawManifest
  BY <1>2, RequestsAssumption
<1>4. read_manifest(file, dir) = validate(file.raw, dir)
  BY <1>1 DEF read_manifest
<1> QED BY <1>3, <1>4, ValidateExact

(* The bounds of a cache are in range: the manifest's keys were checked,   *)
(* and the defaults were by Config::resolve.                               *)
LEMMA BoundsInRange ==
  ASSUME NEW m, NEW dir, Rules(m, dir)
  PROVE  resolve_cache_bounds(m) \in Bounds
BY ManifestAssumption DEF Rules, resolve_cache_bounds, Bounds

LEMMA RequestFields ==
  ASSUME NEW r \in Reqs
  PROVE  /\ r.op \in {"register", "unregister", "reload"} => r.name \in Names
         /\ r.op = "register" => r.dir \in Dirs
BY RequestsAssumption, SMT DEF Reqs, Malformed

LEMMA AllowlistType ==
  ASSUME NEW m \in Raws
  PROVE  Allowlist(m) \in SUBSET Texts
<1>1. m.secrets \in Seq(Texts)
  BY RequestsAssumption DEF RawManifest
<1> QED BY <1>1, SMT DEF Allowlist
-----------------------------------------------------------------------------
(* Types and tasks. *)

DaemonType ==
  /\ disk \in [Dirs -> Layouts]
  /\ edits \in 0..MaxEdits
  /\ projects \in Seq([dir : Dirs, manifest : Raws, bounds : Bounds])
  /\ registry \in [Names -> 0..Len(projects)]
  /\ admin_sock \in {"admin", "project", "none"}

WireType ==
  /\ plane \in [Conns -> {"new", "admin", "project"}]
  /\ closed \in [Conns -> BOOLEAN]
  /\ sent \in [Conns -> Seq(Lines)] /\ stream \in [Conns -> Seq(Lines)]
  /\ hungup \in [Conns -> BOOLEAN]
  /\ outbox \in [Conns -> Seq([to : Reqs, code : Codes])]

TaskType ==
  /\ pc \in [Conns -> {"read", "dispatch", "discover", "read_file", "insert",
                       "remove_socket", "set_config", "store", "write"}]
  /\ req \in [Conns -> Reqs]
  /\ inst \in [Conns -> 0..Len(projects)]
  /\ path \in [Conns -> MANIFEST_CANDIDATES \cup {None}]
  /\ loaded \in [Conns -> Raws \cup {None}]
  /\ reply \in [Conns -> [to : Reqs, code : Codes, data : SUBSET Texts]]

LEMMA TypeParts == TypeOK <=> DaemonType /\ WireType /\ TaskType
BY DEF TypeOK, DaemonType, WireType, TaskType

LEMMA ProjectType ==
  ASSUME TypeOK, NEW i \in DOMAIN projects
  PROVE  projects[i] \in [dir : Dirs, manifest : Raws, bounds : Bounds]
<1> DEFINE P == [dir : Dirs, manifest : Raws, bounds : Bounds]
<1>1. projects \in Seq(P)
  BY DEF TypeOK
<1> HIDE DEF P
<1>2. projects[i] \in P
  BY <1>1, SMT
<1> QED BY <1>2 DEF P

\* The task of c works on a project registered under the name it was asked for.
Bound(c) ==
  /\ inst[c] \in DOMAIN projects
  /\ projects[inst[c]].manifest.name = req[c].name

\* It has loaded a valid manifest of that name from dir.
Accepted(c, dir) ==
  /\ loaded[c] \in Raws
  /\ Rules(loaded[c], file_name[dir])
  /\ loaded[c].name = req[c].name

\* What a task knows at each of its steps: RegisteredIsValid rests on what
\* register and reload have checked before they change a project.
TaskInv(c) ==
  /\ plane[c] = "new" => pc[c] = "read"
  /\ plane[c] = "project" /\ ~closed[c] => inst[c] \in DOMAIN projects
  /\ pc[c] = "dispatch" /\ req[c].op \in ProjectRequest => plane[c] = "project" /\ ~closed[c]
  /\ pc[c] = "discover" => req[c].op = "reload" /\ Bound(c)
  /\ pc[c] = "read_file" => /\ path[c] \in MANIFEST_CANDIDATES
                            /\ \/ req[c].op = "register"
                               \/ req[c].op = "reload" /\ Bound(c)
  /\ pc[c] = "insert" => req[c].op = "register" /\ Accepted(c, req[c].dir)
  /\ pc[c] = "remove_socket" => req[c].op = "unregister"
  /\ pc[c] \in {"set_config", "store"} =>
       req[c].op = "reload" /\ Bound(c) /\ Accepted(c, projects[inst[c]].dir)

\* No step takes a project out of `projects', moves or renames it.
ProjectsKept ==
  \A i \in DOMAIN projects :
    /\ i \in DOMAIN projects'
    /\ projects'[i].dir = projects[i].dir
    /\ projects'[i].manifest.name = projects[i].manifest.name

TaskKept(c) ==
  /\ plane'[c] = plane[c] /\ closed'[c] = closed[c]
  /\ pc'[c] = pc[c] /\ req'[c] = req[c] /\ inst'[c] = inst[c]
  /\ path'[c] = path[c] /\ loaded'[c] = loaded[c]

(* A task that does not move keeps what it knows whatever another does.    *)
LEMMA KeptTask ==
  ASSUME NEW c \in Conns, TaskInv(c), TaskKept(c), ProjectsKept
  PROVE  TaskInv(c)'
<1>1. Bound(c) => Bound(c)'
  BY DEF Bound, TaskKept, ProjectsKept
<1>2. ASSUME NEW dir, Accepted(c, dir) PROVE Accepted(c, dir)'
  BY <1>2 DEF Accepted, TaskKept
<1>3. inst[c] \in DOMAIN projects => inst'[c] \in DOMAIN projects'
                                   /\ projects'[inst'[c]].dir = projects[inst[c]].dir
  BY DEF TaskKept, ProjectsKept
<1> QED BY <1>1, <1>2, <1>3 DEF TaskInv, TaskKept, Bound

Others(c) == \A b \in Conns \ {c} : TaskKept(b)

(* The handler returns with an answer.                                     *)
LEMMA RespondTask ==
  ASSUME TypeOK, NEW c \in Conns, TaskInv(c), pc[c] # "read", NEW code \in Codes, NEW data \in SUBSET Texts,
         Respond(c, code, data), UNCHANGED <<req, plane, closed>>, ProjectsKept,
         Len(projects') \in Nat, Len(projects') >= Len(projects)
  PROVE  TaskType' /\ TaskInv(c)' /\ Others(c)
<1>1. /\ pc' = [pc EXCEPT ![c] = "write"]
      /\ path' = [path EXCEPT ![c] = None]
      /\ loaded' = [loaded EXCEPT ![c] = None]
      /\ inst' = IF plane[c] = "project" THEN inst ELSE [inst EXCEPT ![c] = 0]
      /\ reply' = [reply EXCEPT ![c] = [to |-> req[c], code |-> code, data |-> data]]
  BY DEF Respond
<1>2. inst' \in [Conns -> 0..Len(projects)]
  BY <1>1, SMT DEF TypeOK
<1>3. Len(projects) \in Nat
  BY SMT DEF TypeOK
<1>4. inst' \in [Conns -> 0..Len(projects')]
  BY <1>2, <1>3, SMT
<1>5. TaskType'
  BY <1>1, <1>4 DEF TypeOK, TaskType
<1>6. TaskInv(c)'
  BY <1>1 DEF TypeOK, TaskInv, ProjectsKept
<1>7. Others(c)
  BY <1>1 DEF Others, TaskKept, TypeOK
<1> QED BY <1>5, <1>6, <1>7

Tasks == \A c \in Conns : TaskInv(c)

\* The inductive invariant.
IInv == TypeOK /\ Tasks /\ RegisteredIsValid

LEMMA OneTaskMoved ==
  ASSUME NEW c \in Conns, Tasks, TaskInv(c)', Others(c), ProjectsKept
  PROVE  Tasks'
<1> SUFFICES ASSUME NEW b \in Conns PROVE TaskInv(b)'
  BY DEF Tasks
<1>1. CASE b = c
  BY <1>1
<1>2. CASE b # c
  BY <1>2, KeptTask DEF Tasks, Others
<1> QED BY <1>1, <1>2

(* A step of one task that changes nothing of the daemon's state.          *)
LEMMA LocalStep ==
  ASSUME IInv, NEW c \in Conns, WireType', TaskType', TaskInv(c)', Others(c),
         UNCHANGED <<disk, edits, daemonVars>>
  PROVE  IInv'
<1>1. UNCHANGED <<disk, edits, registry, projects, admin_sock>>
  BY DEF daemonVars
<1>2. DaemonType' /\ ProjectsKept
  BY <1>1, TypeParts DEF IInv, DaemonType, ProjectsKept
<1>3. TypeOK'
  BY <1>2, TypeParts DEF TypeOK, DaemonType, WireType, TaskType
<1>4. Tasks'
  BY <1>2, OneTaskMoved DEF IInv
<1>5. RegisteredIsValid'
  BY <1>1 DEF IInv, RegisteredIsValid
<1> QED BY <1>3, <1>4, <1>5 DEF IInv

LEMMA ResponseStep ==
  ASSUME IInv, NEW c \in Conns, pc[c] # "read", NEW code \in Codes, NEW data \in SUBSET Texts,
         Respond(c, code, data), UNCHANGED <<disk, edits, daemonVars, wireVars, req>>
  PROVE  IInv'
<1>1. UNCHANGED <<projects, plane, closed, sent, stream, hungup, outbox, req>>
  BY DEF daemonVars, wireVars
<1>2. TypeOK /\ TaskInv(c)
  BY DEF IInv, Tasks
<1>3. ProjectsKept /\ Len(projects') \in Nat /\ Len(projects') >= Len(projects)
  BY <1>1, <1>2, SMT DEF ProjectsKept, TypeOK
<1>4. TaskType' /\ TaskInv(c)' /\ Others(c)
  BY <1>1, <1>2, <1>3, RespondTask
<1>5. WireType'
  BY <1>1, <1>2, TypeParts DEF WireType
<1> QED BY <1>4, <1>5, LocalStep

LEMMA FailStep ==
  ASSUME IInv, NEW c \in Conns, pc[c] # "read", NEW e, Fail(c, e),
         UNCHANGED <<disk, edits, daemonVars, wireVars>>
  PROVE  IInv'
<1>1. admin_error_for(e) \in Codes
  BY DEF admin_error_for, Codes
<1>2. Respond(c, admin_error_for(e), {}) /\ UNCHANGED <<disk, edits, daemonVars, wireVars, req>>
  BY DEF Fail
<1>3. {} \in SUBSET Texts
  OBVIOUS
<1> QED BY <1>1, <1>2, <1>3, ResponseStep

LEMMA NoneYet ==
  Malformed \in Reqs /\ NoReply \in [to : Reqs, code : Codes, data : SUBSET Texts]
<1>1. Malformed \in Reqs
  BY DEF Reqs
<1> QED BY <1>1 DEF NoReply, Codes

LEMMA CloseStep ==
  ASSUME IInv, NEW c \in Conns, Close(c)
  PROVE  IInv'
<1>1. TypeOK /\ TaskInv(c)
  BY DEF IInv, Tasks
<1>2. /\ closed' = [closed EXCEPT ![c] = TRUE] /\ stream' = [stream EXCEPT ![c] = << >>]
      /\ pc' = [pc EXCEPT ![c] = "read"] /\ req' = [req EXCEPT ![c] = Malformed]
      /\ inst' = [inst EXCEPT ![c] = 0] /\ path' = [path EXCEPT ![c] = None]
      /\ loaded' = [loaded EXCEPT ![c] = None] /\ reply' = [reply EXCEPT ![c] = NoReply]
      /\ UNCHANGED <<disk, edits, daemonVars, plane, sent, hungup, outbox>>
      /\ projects' = projects
  BY DEF Close, daemonVars
<1>3. WireType'
  <2>1. closed' \in [Conns -> BOOLEAN]
    BY <1>1, <1>2 DEF TypeOK
  <2>2. stream' \in [Conns -> Seq(Lines)]
    BY <1>1, <1>2, SMT DEF TypeOK
  <2> QED BY <1>1, <1>2, <2>1, <2>2 DEF TypeOK, WireType
<1>5. TaskType'
  BY <1>1, <1>2, NoneYet, SMT DEF TypeOK, TaskType
<1>6. TaskInv(c)' /\ Others(c)
  <2>1. closed'[c] = TRUE /\ pc'[c] = "read"
    BY <1>1, <1>2 DEF TypeOK
  <2>2. TaskInv(c)'
    BY <2>1 DEF TaskInv
  <2>3. Others(c)
    BY <1>1, <1>2 DEF TypeOK, Others, TaskKept
  <2> QED BY <2>2, <2>3
<1> QED BY <1>2, <1>3, <1>5, <1>6, LocalStep

(* The client writes, or goes away.                                        *)
LEMMA TransmitStep ==
  ASSUME IInv, NEW c \in Conns, NEW line \in Lines, Transmit(c, line),
         hungup' \in {hungup, [hungup EXCEPT ![c] = TRUE]}
  PROVE  IInv'
<1>1. TypeOK /\ TaskInv(c)
  BY DEF IInv, Tasks
<1>2. /\ sent' = [sent EXCEPT ![c] = Append(sent[c], line)]
      /\ stream' = [stream EXCEPT ![c] = Append(stream[c], line)]
      /\ UNCHANGED <<disk, edits, daemonVars, plane, closed, outbox, taskVars>>
      /\ UNCHANGED <<projects, pc, req, inst, path, loaded, reply>>
  BY DEF Transmit, daemonVars, taskVars
<1>3. Append(sent[c], line) \in Seq(Lines) /\ Append(stream[c], line) \in Seq(Lines)
  BY <1>1, SMT DEF TypeOK
<1>4. sent' \in [Conns -> Seq(Lines)] /\ stream' \in [Conns -> Seq(Lines)]
  BY <1>1, <1>2, <1>3 DEF TypeOK
<1>5. hungup' \in [Conns -> BOOLEAN]
  BY <1>1 DEF TypeOK
<1>6. WireType'
  BY <1>1, <1>2, <1>4, <1>5 DEF TypeOK, WireType
<1>7. TaskType' /\ TaskInv(c)' /\ Others(c)
  BY <1>1, <1>2 DEF TypeOK, TaskType, TaskInv, Bound, Accepted, Others, TaskKept
<1> QED BY <1>2, <1>6, <1>7, LocalStep

LEMMA ClientStep ==
  ASSUME IInv, NEW c \in Conns, Client(c)
  PROVE  IInv'
<1>1. TypeOK /\ TaskInv(c)
  BY DEF IInv, Tasks
<1>2. ASSUME Connect(c) PROVE IInv'
  <2>1. /\ plane[c] = "new" /\ plane' = [plane EXCEPT ![c] = "admin"]
        /\ UNCHANGED <<disk, edits, daemonVars, closed, sent, stream, hungup, outbox>>
        /\ UNCHANGED <<projects, pc, req, inst, path, loaded, reply>>
    BY <1>2 DEF Connect, daemonVars, taskVars
  <2>2. WireType' /\ TaskType' /\ Others(c)
    BY <1>1, <2>1 DEF TypeOK, WireType, TaskType, Others, TaskKept
  <2>3. TaskInv(c)'
    BY <1>1, <2>1 DEF TypeOK, TaskInv, Bound, Accepted
  <2> QED BY <2>1, <2>2, <2>3, LocalStep
<1>3. ASSUME NEW n \in Names, ConnectProject(c, n) PROVE IInv'
  <2>1. /\ plane[c] = "new" /\ plane' = [plane EXCEPT ![c] = "project"]
        /\ registry[n] # 0 /\ inst' = [inst EXCEPT ![c] = registry[n]]
        /\ UNCHANGED <<disk, edits, daemonVars, closed, sent, stream, hungup, outbox>>
        /\ UNCHANGED <<projects, pc, req, path, loaded, reply>>
    BY <1>3 DEF ConnectProject, daemonVars
  <2>2. registry[n] \in DOMAIN projects /\ registry[n] \in 0..Len(projects)
    BY <1>1, <2>1, SMT DEF TypeOK
  <2>3. WireType' /\ TaskType' /\ Others(c)
    BY <1>1, <2>1, <2>2 DEF TypeOK, WireType, TaskType, Others, TaskKept
  <2>4. pc[c] = "read"
    BY <1>1, <2>1 DEF TaskInv
  <2>5. TaskInv(c)'
    BY <1>1, <2>1, <2>2, <2>4 DEF TypeOK, TaskInv
  <2> QED BY <2>1, <2>3, <2>5, LocalStep
<1>4. ASSUME NEW m \in Script[c], Send(c, m) PROVE IInv'
  <2>1. Line(m, m.size, TRUE) \in Lines
    BY RequestsAssumption DEF Line, Lines
  <2> QED BY <1>4, <2>1, TransmitStep DEF Send
<1>5. ASSUME NEW m \in Script[c], NEW got \in Cuts[c], HangUpWithin(c, m, got) PROVE IInv'
  <2>1. Line(m, got, FALSE) \in Lines
    BY RequestsAssumption DEF Line, Lines
  <2> QED BY <1>5, <2>1, TransmitStep DEF HangUpWithin
<1>6. ASSUME HangUp(c) PROVE IInv'
  <2>1. /\ hungup' = [hungup EXCEPT ![c] = TRUE]
        /\ UNCHANGED <<disk, edits, daemonVars, plane, closed, sent, stream, outbox>>
        /\ UNCHANGED <<projects, pc, req, inst, path, loaded, reply>>
    BY <1>6 DEF HangUp, daemonVars, taskVars
  <2>2. hungup' \in [Conns -> BOOLEAN]
    BY <1>1, <2>1 DEF TypeOK
  <2>3. WireType'
    BY <1>1, <2>1, <2>2 DEF TypeOK, WireType
  <2>4. TaskType' /\ TaskInv(c)' /\ Others(c)
    BY <1>1, <2>1 DEF TypeOK, TaskType, TaskInv, Bound, Accepted, Others, TaskKept
  <2> QED BY <2>1, <2>3, <2>4, LocalStep
<1> QED BY <1>2, <1>3, <1>4, <1>5, <1>6 DEF Client

(* handle_admin_connection and handle_project_connection.                  *)
LEMMA LoopStep ==
  ASSUME IInv, NEW c \in Conns,
         Loop(c) \/ WriteFails(c) \/ Drained(c) \/ ping(c) \/ info(c) \/ get(c)
  PROVE  IInv'
<1>1. TypeOK /\ TaskInv(c)
  BY DEF IInv, Tasks
<1>2. ASSUME ReadRequest(c) PROVE IInv'
  <2>1. /\ Open(c) /\ read_line_capped(stream[c], hungup[c]) = "line"
        /\ req' = [req EXCEPT ![c] = from_slice(plane[c], Head(stream[c]))]
        /\ stream' = [stream EXCEPT ![c] = Tail(stream[c])]
        /\ pc' = [pc EXCEPT ![c] = "dispatch"]
        /\ UNCHANGED <<disk, edits, daemonVars, plane, closed, sent, hungup, outbox>>
        /\ UNCHANGED <<projects, inst, path, loaded, reply>>
    BY <1>2 DEF ReadRequest, Reading, daemonVars
  <2>2. stream[c] \in Seq(Lines) /\ stream[c] # << >>
    BY <1>1, <2>1 DEF TypeOK, read_line_capped
  <2>3. Head(stream[c]) \in Lines /\ Tail(stream[c]) \in Seq(Lines)
    BY <2>2, SMT
  <2>4. from_slice(plane[c], Head(stream[c])) \in Reqs
    BY <2>3 DEF from_slice, Lines, Reqs
  <2>5. WireType' /\ TaskType' /\ Others(c)
    BY <1>1, <2>1, <2>3, <2>4 DEF TypeOK, WireType, TaskType, Others, TaskKept
  <2>6. from_slice(plane[c], Head(stream[c])).op \in ProjectRequest => plane[c] = "project"
    BY <1>1, <2>1 DEF TypeOK, Open, from_slice, Malformed, AdminRequest, ProjectRequest
  <2>7. TaskInv(c)'
    BY <1>1, <2>1, <2>6 DEF TypeOK, TaskInv, Open
  <2> QED BY <2>1, <2>5, <2>7, LocalStep
<1>3. ASSUME ReadEof(c) \/ ReadTooLong(c) \/ WriteFails(c) \/ Drained(c) PROVE IInv'
  BY <1>3, CloseStep DEF ReadEof, ReadTooLong, WriteFails, Drained
<1>4. ASSUME Write(c) PROVE IInv'
  <2> DEFINE answer == [to |-> reply[c].to, code |-> reply[c].code]
  <2>1. /\ outbox' = [outbox EXCEPT ![c] = Append(outbox[c], answer)]
        /\ pc' = [pc EXCEPT ![c] = "read"] /\ req' = [req EXCEPT ![c] = Malformed]
        /\ reply' = [reply EXCEPT ![c] = NoReply]
        /\ UNCHANGED <<disk, edits, daemonVars, plane, closed, sent, stream, hungup>>
        /\ UNCHANGED <<projects, inst, path, loaded>>
    BY <1>4 DEF Write, daemonVars
  <2>2. reply[c] \in [to : Reqs, code : Codes, data : SUBSET Texts]
    BY <1>1 DEF TypeOK
  <2>3. answer \in [to : Reqs, code : Codes]
    BY <2>2
  <2> HIDE DEF answer
  <2> DEFINE A == [to : Reqs, code : Codes]
  <2>4. Append(outbox[c], answer) \in Seq(A)
    <3>1. outbox[c] \in Seq(A)
      BY <1>1 DEF TypeOK
    <3>2. answer \in A
      BY <2>3
    <3> HIDE DEF A
    <3> QED BY <3>1, <3>2, SMT
  <2>5. outbox' \in [Conns -> Seq([to : Reqs, code : Codes])]
    BY <1>1, <2>1, <2>4 DEF TypeOK
  <2>6. WireType'
    BY <1>1, <2>1, <2>5 DEF TypeOK, WireType
  <2>7. TaskType' /\ Others(c)
    BY <1>1, <2>1, NoneYet DEF TypeOK, TaskType, Others, TaskKept
  <2>8. TaskInv(c)'
    BY <1>1, <2>1 DEF TypeOK, TaskInv
  <2> QED BY <2>1, <2>6, <2>7, <2>8, LocalStep
<1>5. ASSUME protocol_error(c) PROVE IInv'
  BY <1>5, ResponseStep, SMT DEF protocol_error, Dispatch, Codes
<1>6. ASSUME ping(c) PROVE IInv'
  BY <1>6, ResponseStep, SMT DEF ping, Dispatch, Codes
<1>7. ASSUME info(c) PROVE IInv'
  <2>1. inst[c] \in DOMAIN projects
    BY <1>1, <1>7 DEF info, Dispatch, TaskInv, ProjectRequest
  <2>2. projects[inst[c]].manifest \in Raws
    BY <1>1, <2>1, ProjectType
  <2> QED BY <1>7, <2>2, AllowlistType, ResponseStep DEF info, Dispatch, Codes
<1>8. ASSUME get(c) PROVE IInv'
  BY <1>8, ResponseStep, SMT DEF get, Dispatch, Codes
<1> QED BY <1>2, <1>3, <1>4, <1>5, <1>6, <1>7, <1>8 DEF Loop

(* A step of a task that changes the registry or a project.                *)
LEMMA DaemonStep ==
  ASSUME IInv, NEW c \in Conns, DaemonType', TaskType', TaskInv(c)', Others(c), ProjectsKept,
         RegisteredIsValid', UNCHANGED wireVars
  PROVE  IInv'
<1>1. WireType'
  BY TypeParts DEF IInv, WireType, wireVars
<1>2. TypeOK'
  BY <1>1 DEF TypeOK, DaemonType, WireType, TaskType
<1>3. Tasks'
  BY OneTaskMoved DEF IInv
<1> QED BY <1>2, <1>3 DEF IInv

(* Where a register or a reload reads is a project directory.              *)
LEMMA LoadDirType ==
  ASSUME TypeOK, NEW c \in Conns, req[c].op = "register" \/ Bound(c)
  PROVE  LoadDir(c) \in Dirs
<1>1. CASE req[c].op = "register"
  <2>1. req[c] \in Reqs
    BY DEF TypeOK
  <2> QED BY <1>1, <2>1, RequestFields DEF LoadDir
<1>2. CASE req[c].op # "register"
  <2>1. projects[inst[c]] \in [dir : Dirs, manifest : Raws, bounds : Bounds]
    BY <1>2, ProjectType DEF Bound
  <2> QED BY <1>2, <2>1 DEF LoadDir
<1> QED BY <1>1, <1>2

(* The two halves of Manifest::load.                                       *)
LEMMA LoadStep ==
  ASSUME IInv, NEW c \in Conns, Discover(c) \/ ReadFile(c)
  PROVE  IInv'
<1>1. TypeOK /\ TaskInv(c)
  BY DEF IInv, Tasks
<1>2. ASSUME Discover(c) PROVE IInv'
  <2> DEFINE found == discover(disk[LoadDir(c)])
  <2>1. CASE found = None
    BY <1>2, <2>1, FailStep DEF Discover, Dispatch
  <2>2. CASE found # None
    <3>1. /\ path' = [path EXCEPT ![c] = found] /\ pc' = [pc EXCEPT ![c] = "read_file"]
          /\ UNCHANGED <<req, inst, loaded, reply, disk, edits, daemonVars>>
          /\ UNCHANGED <<plane, closed, sent, stream, hungup, outbox, projects>>
      BY <1>2, <2>2 DEF Discover, daemonVars, wireVars
    <3>2. found \in MANIFEST_CANDIDATES
      BY <2>2, DiscoverResult
    <3> HIDE DEF found
    <3>3. WireType' /\ TaskType' /\ Others(c)
      BY <1>1, <3>1, <3>2 DEF TypeOK, WireType, TaskType, Others, TaskKept
    <3>4. TaskInv(c)'
      BY <1>1, <1>2, <3>1, <3>2 DEF Discover, Dispatch, TypeOK, TaskInv, Bound
    <3> QED BY <3>1, <3>3, <3>4, LocalStep
  <2> QED BY <2>1, <2>2
<1>3. ASSUME ReadFile(c) PROVE IInv'
  <2> DEFINE r == read_manifest(disk[LoadDir(c)][path[c]], file_name[LoadDir(c)])
  <2>1. pc[c] = "read_file"
    BY <1>3 DEF ReadFile
  <2>2. ASSUME NEW e, Fail(c, e) PROVE IInv'
    BY <1>3, <2>1, <2>2, FailStep DEF ReadFile
  <2>3. ASSUME r.error = "none", r.manifest.name = req[c].name,
               loaded' = [loaded EXCEPT ![c] = r.manifest],
               pc' = [pc EXCEPT ![c] = IF req[c].op = "register" THEN "insert" ELSE "set_config"],
               UNCHANGED <<req, inst, path, reply>>
        PROVE  IInv'
    <3>1. /\ path[c] \in MANIFEST_CANDIDATES
          /\ req[c].op = "register" \/ (req[c].op = "reload" /\ Bound(c))
      BY <1>1, <2>1 DEF TaskInv
    <3>2. LoadDir(c) \in Dirs
      BY <1>1, <3>1, LoadDirType
    <3>3. disk[LoadDir(c)][path[c]] \in Contents[path[c]]
      <4>1. disk[LoadDir(c)] \in Layouts
        BY <1>1, <3>2 DEF TypeOK
      <4> QED BY <3>1, <4>1 DEF Layouts
    <3>4. r.manifest \in Raws /\ Rules(r.manifest, file_name[LoadDir(c)])
      BY <2>3, <3>1, <3>3, ReadResult
    <3>5. UNCHANGED <<disk, edits, daemonVars, plane, closed, sent, stream, hungup, outbox, projects>>
      BY <1>3 DEF ReadFile, daemonVars, wireVars
    <3> HIDE DEF r
    <3>6. WireType' /\ TaskType' /\ Others(c)
      BY <1>1, <2>3, <3>4, <3>5 DEF TypeOK, WireType, TaskType, Others, TaskKept
    <3>7. loaded'[c] = r.manifest /\ req'[c] = req[c] /\ inst'[c] = inst[c] /\ plane'[c] = plane[c]
          /\ closed'[c] = closed[c]
          /\ pc'[c] = (IF req[c].op = "register" THEN "insert" ELSE "set_config")
      BY <1>1, <2>3, <3>5 DEF TypeOK
    <3>8. Accepted(c, LoadDir(c))'
      <4>1. LoadDir(c)' = LoadDir(c)
        BY <3>5, <3>7 DEF LoadDir
      <4> QED BY <2>3, <3>4, <3>7, <4>1 DEF Accepted
    <3>9. TaskInv(c)'
      BY <1>1, <2>1, <3>1, <3>5, <3>7, <3>8 DEF TaskInv, Bound, LoadDir
    <3> QED BY <3>5, <3>6, <3>9, LocalStep
  <2> QED BY <1>3, <2>2, <2>3 DEF ReadFile
<1> QED BY <1>2, <1>3

(* ProjectRegistry::register, under the write lock.                        *)
LEMMA InsertStep ==
  ASSUME IInv, NEW c \in Conns, Insert(c)
  PROVE  IInv'
<1> DEFINE P == [dir : Dirs, manifest : Raws, bounds : Bounds]
<1> DEFINE p == [dir |-> req[c].dir, manifest |-> loaded[c], bounds |-> resolve_cache_bounds(loaded[c])]
<1>1. TypeOK /\ TaskInv(c)
  BY DEF IInv, Tasks
<1>2. pc[c] = "insert" /\ req[c].op = "register" /\ Accepted(c, req[c].dir) /\ req[c] \in Reqs
  BY <1>1 DEF Insert, TaskInv, TypeOK
<1>3. /\ projects' = Append(projects, p)
      /\ registry' = [registry EXCEPT ![req[c].name] = Len(projects) + 1]
      /\ admin_sock' = BoundOver(req[c].name, "project")
      /\ Respond(c, "ok", {})
      /\ UNCHANGED <<disk, edits, wireVars, req, plane, closed>>
  BY DEF Insert, wireVars
<1>4. p \in P /\ Rules(p.manifest, file_name[p.dir]) /\ p.bounds \in Bounds
      /\ p.manifest.name = req[c].name /\ req[c].name \in Names
  BY <1>2, RequestFields, BoundsInRange DEF Accepted
<1>5. projects \in Seq(P) /\ registry \in [Names -> 0..Len(projects)]
  BY <1>1 DEF TypeOK
<1> HIDE DEF p, P
<1>6. /\ projects' \in Seq(P) /\ Len(projects') = Len(projects) + 1 /\ Len(projects) \in Nat
      /\ DOMAIN projects = 1..Len(projects) /\ DOMAIN projects' = 1..(Len(projects) + 1)
      /\ \A i \in 1..Len(projects) : projects'[i] = projects[i]
      /\ projects'[Len(projects) + 1] = p
  BY <1>3, <1>4, <1>5, SMT
<1>7. ProjectsKept
  BY <1>6, SMT DEF ProjectsKept
<1>8. registry' \in [Names -> 0..Len(projects')]
  BY <1>3, <1>4, <1>5, <1>6, SMT
<1>9. DaemonType'
  BY <1>1, <1>3, <1>6, <1>8 DEF TypeOK, DaemonType, P, BoundOver
<1>10. TaskType' /\ TaskInv(c)' /\ Others(c)
  <2>1. Len(projects') \in Nat /\ Len(projects') >= Len(projects) /\ pc[c] # "read"
    BY <1>2, <1>6, SMT
  <2>2. "ok" \in Codes /\ {} \in SUBSET Texts
    BY DEF Codes
  <2> QED BY <1>1, <1>3, <1>7, <2>1, <2>2, RespondTask
<1>11. RegisteredIsValid'
  <2>1. ASSUME NEW i \in DOMAIN projects'
        PROVE  Rules(projects'[i].manifest, file_name[projects'[i].dir]) /\ projects'[i].bounds \in Bounds
    <3>1. i \in 1..Len(projects) \/ i = Len(projects) + 1
      BY <1>6, SMT
    <3> QED BY <1>4, <1>6, <3>1 DEF IInv, RegisteredIsValid
  <2>2. ASSUME NEW n \in Names, registry'[n] # 0
        PROVE  projects'[registry'[n]].manifest.name = n
    <3>1. CASE n = req[c].name
      BY <1>3, <1>4, <1>5, <1>6, <3>1
    <3>2. CASE n # req[c].name
      <4>1. registry'[n] = registry[n] /\ registry[n] \in 1..Len(projects)
        BY <1>3, <1>5, <1>6, <2>2, <3>2, SMT
      <4> QED BY <1>6, <2>2, <4>1 DEF IInv, RegisteredIsValid
    <3> QED BY <3>1, <3>2
  <2> QED BY <2>1, <2>2 DEF RegisteredIsValid
<1> QED BY <1>3, <1>7, <1>9, <1>10, <1>11, DaemonStep

(* ProjectRegistry::reload, when the manifest is loaded: bounds, then      *)
(* manifest, of a project that keeps its directory and its name.           *)
LEMMA ReloadStep ==
  ASSUME IInv, NEW c \in Conns, SetConfig(c) \/ StoreManifest(c)
  PROVE  IInv'
<1> DEFINE P == [dir : Dirs, manifest : Raws, bounds : Bounds]
<1> DEFINE i == inst[c]
<1>1. TypeOK /\ TaskInv(c)
  BY DEF IInv, Tasks
<1>2. /\ pc[c] \in {"set_config", "store"} /\ req[c].op = "reload" /\ Bound(c)
      /\ Accepted(c, projects[i].dir)
  BY <1>1 DEF SetConfig, StoreManifest, TaskInv
<1>3. projects \in Seq(P) /\ i \in DOMAIN projects /\ projects[i] \in P
  BY <1>1, <1>2, ProjectType DEF TypeOK, Bound
<1>4. resolve_cache_bounds(loaded[c]) \in Bounds
  BY <1>2, BoundsInRange DEF Accepted
<1>5. ASSUME NEW p \in P, projects' = [projects EXCEPT ![i] = p], p.dir = projects[i].dir,
             p.manifest \in {projects[i].manifest, loaded[c]},
             UNCHANGED <<disk, edits, registry, admin_sock>>
      PROVE  ProjectsKept /\ DaemonType' /\ RegisteredIsValid' /\ Len(projects') = Len(projects)
  <2>1. p.manifest.name = projects[i].manifest.name /\ Rules(p.manifest, file_name[p.dir])
    BY <1>2, <1>3, <1>5 DEF Bound, Accepted, IInv, RegisteredIsValid
  <2>2. p.bounds \in Bounds
    BY DEF P
  <2> HIDE DEF P, i
  <2>3. /\ projects' \in Seq(P) /\ Len(projects') = Len(projects) /\ DOMAIN projects' = DOMAIN projects
        /\ projects'[i] = p
        /\ \A j \in DOMAIN projects : j # i => projects'[j] = projects[j]
    BY <1>3, <1>5, ExceptSeq, SMT
  <2>4. ProjectsKept
    BY <1>5, <2>1, <2>3 DEF ProjectsKept
  <2>5. DaemonType'
    BY <1>1, <1>5, <2>3 DEF TypeOK, DaemonType, P
  <2>6. ASSUME NEW j \in DOMAIN projects'
        PROVE  Rules(projects'[j].manifest, file_name[projects'[j].dir]) /\ projects'[j].bounds \in Bounds
    BY <2>1, <2>2, <2>3 DEF IInv, RegisteredIsValid
  <2>7. ASSUME NEW n \in Names, registry'[n] # 0
        PROVE  projects'[registry'[n]].manifest.name = n
    <3>1. registry'[n] = registry[n] /\ registry[n] \in DOMAIN projects
      BY <1>1, <1>5, <2>7, SMT DEF TypeOK
    <3> QED BY <2>1, <2>3, <2>7, <3>1 DEF IInv, RegisteredIsValid
  <2> QED BY <2>3, <2>4, <2>5, <2>6, <2>7 DEF RegisteredIsValid
<1>6. ASSUME SetConfig(c) PROVE IInv'
  <2> DEFINE p == [projects[i] EXCEPT !.bounds = resolve_cache_bounds(loaded[c])]
  <2>1. /\ projects' = [projects EXCEPT ![i] = p] /\ pc' = [pc EXCEPT ![c] = "store"]
        /\ UNCHANGED <<disk, edits, registry, admin_sock, wireVars, req, inst, path, loaded, reply>>
        /\ UNCHANGED <<plane, closed>>
    BY <1>6 DEF SetConfig, wireVars
  <2>2. p \in P /\ p.dir = projects[i].dir /\ p.manifest = projects[i].manifest
    BY <1>3, <1>4
  <2> HIDE DEF p
  <2>3. ProjectsKept /\ DaemonType' /\ RegisteredIsValid' /\ Len(projects') = Len(projects)
    BY <1>5, <2>1, <2>2
  <2>4. TaskType' /\ Others(c)
    BY <1>1, <2>1, <2>3 DEF TypeOK, TaskType, Others, TaskKept
  <2>5. Bound(c)' /\ Accepted(c, projects[inst[c]].dir)'
    BY <1>2, <2>1, <2>3 DEF Bound, Accepted, ProjectsKept
  <2>6. TaskInv(c)'
    BY <1>1, <1>2, <2>1, <2>5 DEF TypeOK, TaskInv, Bound
  <2> QED BY <2>1, <2>3, <2>4, <2>6, DaemonStep
<1>7. ASSUME StoreManifest(c) PROVE IInv'
  <2> DEFINE p == [projects[i] EXCEPT !.manifest = loaded[c]]
  <2>1. /\ projects' = [projects EXCEPT ![i] = p] /\ Respond(c, "ok", Allowlist(loaded[c]))
        /\ UNCHANGED <<disk, edits, registry, admin_sock, wireVars, req, plane, closed>>
    BY <1>7 DEF StoreManifest, wireVars
  <2>2. p \in P /\ p.dir = projects[i].dir /\ p.manifest = loaded[c]
    BY <1>2, <1>3 DEF Accepted
  <2> HIDE DEF p
  <2>3. ProjectsKept /\ DaemonType' /\ RegisteredIsValid' /\ Len(projects') = Len(projects)
    BY <1>5, <2>1, <2>2
  <2>4. Len(projects') \in Nat /\ Len(projects') >= Len(projects) /\ pc[c] # "read"
    BY <1>2, <1>3, <2>3, SMT
  <2>5. "ok" \in Codes /\ Allowlist(loaded[c]) \in SUBSET Texts
    BY <1>2, AllowlistType DEF Codes, Accepted
  <2>6. TaskType' /\ TaskInv(c)' /\ Others(c)
    BY <1>1, <2>1, <2>3, <2>4, <2>5, RespondTask
  <2> QED BY <2>1, <2>3, <2>6, DaemonStep
<1> QED BY <1>6, <1>7

(* The other steps of dispatch_admin.                                      *)
LEMMA AdminStep ==
  ASSUME IInv, NEW c \in Conns, dispatch_admin(c)
  PROVE  IInv'
<1>1. TypeOK /\ TaskInv(c) /\ req[c] \in Reqs
  BY DEF IInv, Tasks, TypeOK
<1>2. "ok" \in Codes /\ "bootstrap_error" \in Codes /\ {} \in SUBSET Texts
  BY DEF Codes
<1>3. ASSUME Exists(c) \/ Unknown(c) PROVE IInv'
  BY <1>3, FailStep DEF Exists, Unknown, Dispatch
<1>4. ASSUME NEW code \in Codes, Respond(c, code, {}), pc[c] # "read", UNCHANGED req,
             admin_sock' \in {admin_sock, "none"},
             UNCHANGED <<disk, edits, registry, projects, wireVars>>
      PROVE  IInv'
  <2>1. DaemonType'
    BY <1>1, <1>4 DEF TypeOK, DaemonType
  <2>2. ProjectsKept /\ Len(projects') \in Nat /\ Len(projects') >= Len(projects)
    BY <1>1, <1>4, SMT DEF TypeOK, ProjectsKept
  <2>3. UNCHANGED <<req, plane, closed>>
    BY <1>4 DEF wireVars
  <2>4. TaskType' /\ TaskInv(c)' /\ Others(c)
    BY <1>1, <1>2, <1>4, <2>2, <2>3, RespondTask
  <2>5. RegisteredIsValid'
    BY <1>4 DEF IInv, RegisteredIsValid
  <2> QED BY <1>4, <2>1, <2>2, <2>4, <2>5, DaemonStep
<1>5. ASSUME BindFails(c) PROVE IInv'
  <2>1. PICK e : Fail(c, e)
    BY <1>5 DEF BindFails
  <2>2. admin_error_for(e) \in Codes
    BY DEF admin_error_for, Codes
  <2>3. Respond(c, admin_error_for(e), {}) /\ UNCHANGED req
    BY <2>1 DEF Fail
  <2> QED BY <1>4, <1>5, <2>2, <2>3 DEF BindFails, BoundOver
<1>6. ASSUME RemoveSocket(c) PROVE IInv'
  BY <1>2, <1>4, <1>6 DEF RemoveSocket, BoundOver
<1>7. ASSUME Unregister(c) PROVE IInv'
  <2>1. /\ req[c].op = "unregister" /\ pc[c] = "dispatch"
        /\ registry' = [registry EXCEPT ![req[c].name] = 0]
        /\ pc' = [pc EXCEPT ![c] = "remove_socket"]
        /\ UNCHANGED <<disk, edits, projects, admin_sock, wireVars, req, inst, path, loaded, reply>>
        /\ UNCHANGED <<plane, closed>>
    BY <1>7 DEF Unregister, Dispatch, wireVars
  <2>2. DaemonType' /\ ProjectsKept
    <3>1. Len(projects) \in Nat /\ registry \in [Names -> 0..Len(projects)]
      BY <1>1, SMT DEF TypeOK
    <3>2. registry' \in [Names -> 0..Len(projects)]
      <4> DEFINE N == 0..Len(projects)
      <4>1. 0 \in N /\ registry \in [Names -> N]
        BY <3>1, SMT
      <4> HIDE DEF N
      <4>2. registry' \in [Names -> N]
        BY <2>1, <4>1
      <4> QED BY <4>2 DEF N
    <3>3. ProjectsKept
      BY <2>1 DEF ProjectsKept
    <3>4. DaemonType'
      BY <1>1, <2>1, <3>2 DEF TypeOK, DaemonType
    <3> QED BY <3>3, <3>4
  <2>3. TaskType' /\ Others(c)
    BY <1>1, <2>1 DEF TypeOK, TaskType, Others, TaskKept
  <2>4. TaskInv(c)'
    BY <1>1, <2>1 DEF TypeOK, TaskInv
  <2>5. RegisteredIsValid'
    <3>1. \A n \in Names : registry'[n] \in {registry[n], 0}
      BY <1>1, <2>1 DEF TypeOK
    <3> QED BY <2>1, <3>1 DEF IInv, RegisteredIsValid
  <2> QED BY <2>1, <2>2, <2>3, <2>4, <2>5, DaemonStep
<1>8. ASSUME Lookup(c) PROVE IInv'
  <2> DEFINE n == req[c].name
  <2>1. /\ req[c].op = "reload" /\ pc[c] = "dispatch" /\ registry[n] # 0
        /\ inst' = [inst EXCEPT ![c] = registry[n]]
        /\ pc' = [pc EXCEPT ![c] = "discover"]
        /\ UNCHANGED <<disk, edits, daemonVars, req, path, loaded, reply, projects>>
        /\ UNCHANGED <<plane, closed, sent, stream, hungup, outbox>>
    BY <1>8 DEF Lookup, Dispatch, wireVars, daemonVars
  <2>2. n \in Names /\ registry[n] \in 0..Len(projects) /\ registry[n] \in DOMAIN projects
    BY <1>1, <2>1, RequestFields, SMT DEF TypeOK
  <2>3. projects[registry[n]].manifest.name = n
    BY <2>1, <2>2 DEF IInv, RegisteredIsValid
  <2>4. WireType' /\ TaskType' /\ Others(c)
    BY <1>1, <2>1, <2>2 DEF TypeOK, WireType, TaskType, Others, TaskKept
  <2>5. TaskInv(c)'
    BY <1>1, <2>1, <2>2, <2>3 DEF TypeOK, TaskInv, Bound
  <2> QED BY <2>1, <2>4, <2>5, LocalStep
<1>9. ASSUME status(c) PROVE IInv'
  <2>1. {n \in Names : registry[n] # 0} \in SUBSET Texts
    BY RequestsAssumption
  <2> QED BY <1>2, <1>9, <2>1, ResponseStep DEF status, Dispatch
<1>10. ASSUME rotate_bootstrap(c) PROVE IInv'
  BY <1>2, <1>10, ResponseStep DEF rotate_bootstrap, Dispatch
<1> QED
  BY <1>3, <1>5, <1>6, <1>7, <1>8, <1>9, <1>10, LoadStep, InsertStep, ReloadStep DEF dispatch_admin

(* A manifest is edited.                                                   *)
LEMMA EditStep ==
  ASSUME IInv, NEW d \in Edited, NEW k \in MANIFEST_CANDIDATES, NEW f \in Contents[k], Edit(d, k, f)
  PROVE  IInv'
<1>1. /\ disk' = [disk EXCEPT ![d][k] = f] /\ edits < MaxEdits /\ edits' = edits + 1
      /\ UNCHANGED <<daemonVars, wireVars, taskVars>>
      /\ UNCHANGED <<registry, projects, admin_sock, plane, closed, sent, stream, hungup, outbox,
                     pc, req, inst, path, loaded, reply>>
  BY DEF Edit, daemonVars, wireVars, taskVars
<1>2. disk' \in [Dirs -> Layouts]
  <2>1. disk \in [Dirs -> Layouts]
    BY DEF IInv, TypeOK
  <2>2. [disk[d] EXCEPT ![k] = f] \in Layouts
    <3>1. disk[d] \in Layouts
      BY <2>1, RequestsAssumption
    <3> QED BY <3>1 DEF Layouts
  <2> QED BY <1>1, <2>1, <2>2
<1>3. edits' \in 0..MaxEdits
  BY <1>1, RequestsAssumption, SMT DEF IInv, TypeOK
<1>4. TypeOK'
  BY <1>1, <1>2, <1>3 DEF IInv, TypeOK
<1>5. ASSUME NEW c \in Conns PROVE TaskInv(c)'
  BY <1>1 DEF IInv, Tasks, TaskInv, Bound, Accepted
<1>6. RegisteredIsValid'
  BY <1>1 DEF IInv, RegisteredIsValid
<1> QED BY <1>4, <1>5, <1>6 DEF IInv, Tasks

LEMMA StutterStep ==
  ASSUME IInv, UNCHANGED vars
  PROVE  IInv'
<1>1. UNCHANGED <<disk, edits, registry, projects, admin_sock, plane, closed, sent, stream, hungup,
                  outbox, pc, req, inst, path, loaded, reply>>
  BY DEF vars, daemonVars, wireVars, taskVars
<1>2. TypeOK'
  BY <1>1 DEF IInv, TypeOK
<1>3. ASSUME NEW c \in Conns PROVE TaskInv(c)'
  BY <1>1 DEF IInv, Tasks, TaskInv, Bound, Accepted
<1>4. RegisteredIsValid'
  BY <1>1 DEF IInv, RegisteredIsValid
<1> QED BY <1>2, <1>3, <1>4 DEF IInv, Tasks

LEMMA Initially == Init => IInv
<1> SUFFICES ASSUME Init PROVE IInv
  OBVIOUS
<1>1. projects = << >> /\ registry = [n \in Names |-> 0] /\ Len(projects) = 0 /\ DOMAIN projects = {}
  BY SMT DEF Init
<1>2. DaemonType
  BY <1>1, RequestsAssumption, SMT DEF Init, DaemonType
<1>3. WireType
  BY SMT DEF Init, WireType
<1>4. TaskType
  BY <1>1, NoneYet, SMT DEF Init, TaskType
<1>5. Tasks
  BY DEF Init, Tasks, TaskInv
<1>6. RegisteredIsValid
  BY <1>1 DEF RegisteredIsValid
<1> QED BY <1>2, <1>3, <1>4, <1>5, <1>6, TypeParts DEF IInv

LEMMA Invariant == Spec => []IInv
<1>1. ASSUME IInv, [Next]_vars PROVE IInv'
  BY <1>1, LoopStep, AdminStep, ClientStep, EditStep, StutterStep DEF Next
<1> QED BY <1>1, Initially, PTL DEF Spec

(* The type invariant of the run `requests': the state of every request    *)
(* loop, handler and project stays in its domain, the cache bounds of      *)
(* resolve_cache_bounds included.                                          *)
THEOREM TypeCorrect == Spec => []TypeOK
<1>1. IInv => TypeOK
  BY DEF IInv
<1> QED BY <1>1, Invariant, PTL

(* What a project runs on was validated (Manifest::load, register,         *)
(* reload), for any clients, any manifests and any edits of them.          *)
THEOREM OnlyValidRegistered == Spec => []RegisteredIsValid
<1>1. IInv => RegisteredIsValid
  BY DEF IInv
<1> QED BY <1>1, Invariant, PTL
=============================================================================
