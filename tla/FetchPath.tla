------------------------------ MODULE FetchPath ------------------------------
(***************************************************************************)
(* One registered project: the gets of its connections (dispatch_get in    *)
(* src/src/server.rs) against its cache (BoundedCache), concurrent reloads *)
(* of its manifest (ProjectRegistry::reload) and rotations of the backend  *)
(* session (dispatch_rotate_bootstrap, src/src/backend.rs).                *)
(*                                                                         *)
(* The runtime is multi-threaded: between two accesses to different shared *)
(* objects (manifest ArcSwap, cache mutex, session ArcSwap) any other task *)
(* may run, and so may the clock.  A manifest is what the code reads of it *)
(* here: the allowlist and the two optional [cache] keys.                  *)
(***************************************************************************)
EXTENDS Integers, Sequences, FiniteSets

CONSTANTS Names, Values, Caps, TTLs, TicksPerSec, MaxTime,  \* of the cache
          Conns,        \* connections of the project socket
          Reloaders,    \* admin connections that reload this project
          Rotators,     \* admin connections that send rotate-bootstrap
          Manifests,    \* manifests that pass validation
          Defaults,     \* CacheDefaults: [max_entries, ttl]
          MaxVersions   \* bound: versions of fnox's configuration over time

Absent == 0             \* a [cache] key the manifest does not give
None   == "none"

ASSUME FetchAssumption ==
  /\ Caps \subseteq Nat \ {0} /\ TTLs \subseteq Nat \ {0}
  /\ TicksPerSec \in Nat \ {0} /\ MaxTime \in Nat
  /\ Defaults \in [max_entries : Caps, ttl : TTLs]
  /\ Manifests \subseteq [secrets : SUBSET Names,
                          max_entries : Caps \cup {Absent},
                          ttl : TTLs \cup {Absent}]
  /\ MaxVersions \in Nat \ {0}

VARIABLES
  map, max_entries, default_ttl, now,   \* the project's cache, and the clock
  disk,       \* the manifest file: {m}, or {} when missing or invalid
  manifest,   \* Project.manifest
  fnox_config, \* version of the configuration that BackendSession opens
  session,    \* the version behind the active session, Absent without one
  pc, name,   \* per connection: progress of its get and the name asked for
  held,       \* the session (its version) the backend call runs on
  value,      \* the plaintext the backend returned
  reply,      \* the response
  events,     \* the audit events of this get
  reload,     \* per reloader: [pc, m], the manifest it loaded
  rotate,     \* per rotator: the session (its version) it built, or Absent
  floor,      \* ghost: newest session whose rotation had ended by the request
  rotated,    \* ghost: newest session whose rotation has ended
  synced      \* ghost: a reload since the last edit has ended

Cache == INSTANCE BoundedCache

cacheVars == <<map, max_entries, default_ttl, now>>
fileVars  == <<disk, fnox_config>>
connVars  == <<pc, name, held, value, reply, events, floor>>
adminVars == <<manifest, session, reload, rotate, rotated, synced>>
vars      == <<cacheVars, fileVars, connVars, adminVars>>

NoReply == [code |-> "none"]
NoLoad  == [pc |-> "idle", m |-> {}]

resolve_cache_bounds(m) ==
  [max_entries |-> IF m.max_entries = Absent THEN Defaults.max_entries ELSE m.max_entries,
   ttl |-> IF m.ttl = Absent THEN Defaults.ttl ELSE m.ttl]

\* The project as register leaves it, with a session or in degraded mode.
Init ==
  /\ \E m \in Manifests :
       /\ disk = {m} /\ manifest = m
       /\ max_entries = resolve_cache_bounds(m).max_entries
       /\ default_ttl = resolve_cache_bounds(m).ttl
  /\ map = << >> /\ now = 0
  /\ fnox_config = 1
  /\ session \in {Absent, 1} /\ rotated = session
  /\ pc = [c \in Conns |-> "idle"]
  /\ name = [c \in Conns |-> None]
  /\ held = [c \in Conns |-> Absent]
  /\ value = [c \in Conns |-> None]
  /\ reply = [c \in Conns |-> NoReply]
  /\ events = [c \in Conns |-> << >>]
  /\ reload = [r \in Reloaders |-> NoLoad]
  /\ rotate = [r \in Rotators |-> Absent]
  /\ floor = [c \in Conns |-> Absent]
  /\ synced = TRUE
-----------------------------------------------------------------------------
(* A get.  dispatch_get emits one audit event (emit_fetch) and returns the *)
(* response, which handle_project_connection then writes.                  *)

Respond(c, response, event) ==
  /\ pc' = [pc EXCEPT ![c] = "answered"]
  /\ reply' = [reply EXCEPT ![c] = response]
  /\ events' = [events EXCEPT ![c] = Append(@, event)]

Event(decision, outcome, backend) ==
  [decision |-> decision, outcome |-> outcome, backend |-> backend]

Error(code) == [code |-> code]

Value(v, secs) == [code |-> "ok", value |-> v, ttl_seconds |-> secs]

\* The request line arrived.
Ask(c, n) ==
  /\ pc[c] = "idle"
  /\ pc' = [pc EXCEPT ![c] = "asked"]
  /\ name' = [name EXCEPT ![c] = n]
  /\ floor' = [floor EXCEPT ![c] = rotated]
  /\ UNCHANGED <<cacheVars, fileVars, adminVars, held, value, reply, events>>

MutServeCachedFirst(c) ==
  /\ pc[c] = "asked"
  /\ IF name[c] \in manifest.secrets \cup DOMAIN map
     THEN pc' = [pc EXCEPT ![c] = "lookup"] /\ UNCHANGED <<reply, events>>
     ELSE Respond(c, Error("denied"), Event("deny", "ok", None))
  /\ UNCHANGED <<cacheVars, fileVars, adminVars, name, held, value, floor>>

\* project.manifest() and the allowlist test.
CheckAllowlist(c) ==
  /\ pc[c] = "asked"
  /\ IF name[c] \in manifest.secrets
     THEN pc' = [pc EXCEPT ![c] = "lookup"] /\ UNCHANGED <<reply, events>>
     ELSE Respond(c, Error("denied"), Event("deny", "ok", None))
  /\ UNCHANGED <<cacheVars, fileVars, adminVars, name, held, value, floor>>

MutHitUnaudited(c) ==
  /\ pc[c] = "lookup"
  /\ Cache!Lookup(name[c]).hit
  /\ LET hit == Cache!Lookup(name[c])
     IN reply' = [reply EXCEPT ![c] = Value(hit.value, hit.ttl_seconds)]
  /\ pc' = [pc EXCEPT ![c] = "answered"]
  /\ Cache!get(name[c])
  /\ UNCHANGED <<fileVars, adminVars, name, held, value, events, floor>>

CacheHit(c) ==
  /\ pc[c] = "lookup"
  /\ Cache!Lookup(name[c]).hit
  /\ LET hit == Cache!Lookup(name[c])
     IN Respond(c, Value(hit.value, hit.ttl_seconds), Event("allow", "ok", "cache"))
  /\ Cache!get(name[c])
  /\ UNCHANGED <<fileVars, adminVars, name, held, value, floor>>

\* An expired entry is dropped by the lookup.
CacheMiss(c) ==
  /\ pc[c] = "lookup"
  /\ ~Cache!Lookup(name[c]).hit
  /\ Cache!get(name[c])
  /\ pc' = [pc EXCEPT ![c] = "missed"]
  /\ UNCHANGED <<fileVars, adminVars, name, held, value, reply, events, floor>>

NoBackend(c) ==
  /\ pc[c] = "missed" /\ session = Absent
  /\ Respond(c, Error("backend_error"), Event("allow", "backend_error", None))
  /\ UNCHANGED <<cacheVars, fileVars, adminVars, name, held, value, floor>>

\* BackendSession::get runs on the session active now, to its end.
LoadSession(c) ==
  /\ pc[c] = "missed" /\ session # Absent
  /\ pc' = [pc EXCEPT ![c] = "fetch"]
  /\ held' = [held EXCEPT ![c] = session]
  /\ UNCHANGED <<cacheVars, fileVars, adminVars, name, value, reply, events, floor>>

MutValueMovedToCache(c, v) ==
  /\ pc[c] = "fetch"
  /\ Cache!insert(name[c], v, Cache!NoTTL)
  /\ pc' = [pc EXCEPT ![c] = "cached"]
  /\ UNCHANGED <<fileVars, adminVars, name, held, value, reply, events, floor>>

\* backend.get returned a value, which is cached before the response.
BackendFound(c, v) ==
  /\ pc[c] = "fetch"
  /\ Cache!insert(name[c], v, Cache!NoTTL)
  /\ value' = [value EXCEPT ![c] = v]
  /\ pc' = [pc EXCEPT ![c] = "cached"]
  /\ UNCHANGED <<fileVars, adminVars, name, held, reply, events, floor>>

BackendFailed(c, code) ==
  /\ pc[c] = "fetch"
  /\ Respond(c, Error(code), Event("allow", code, "fnox"))
  /\ UNCHANGED <<cacheVars, fileVars, adminVars, name, held, value, floor>>

MutReportFromCache(c) ==
  /\ pc[c] = "cached"
  /\ Cache!Lookup(name[c]).hit
  /\ Respond(c, Value(value[c], Cache!Lookup(name[c]).ttl_seconds),
             Event("allow", "ok", "fnox"))
  /\ UNCHANGED <<cacheVars, fileVars, adminVars, name, held, value, floor>>

\* ttl_seconds is read from the cache again, under its lock.
ReportFetched(c) ==
  /\ pc[c] = "cached"
  /\ Respond(c, Value(value[c], default_ttl \div TicksPerSec),
             Event("allow", "ok", "fnox"))
  /\ UNCHANGED <<cacheVars, fileVars, adminVars, name, held, value, floor>>

\* The response is written and the connection reads the next line.
NextRequest(c) ==
  /\ pc[c] = "answered"
  /\ pc' = [pc EXCEPT ![c] = "idle"]
  /\ name' = [name EXCEPT ![c] = None]
  /\ held' = [held EXCEPT ![c] = Absent]
  /\ value' = [value EXCEPT ![c] = None]
  /\ reply' = [reply EXCEPT ![c] = NoReply]
  /\ events' = [events EXCEPT ![c] = << >>]
  /\ floor' = [floor EXCEPT ![c] = Absent]
  /\ UNCHANGED <<cacheVars, fileVars, adminVars>>

\* A drain deadline cancels the task at the only await of dispatch_get.
Abort(c) ==
  /\ pc[c] = "fetch"
  /\ pc' = [pc EXCEPT ![c] = "gone"]
  /\ UNCHANGED <<cacheVars, fileVars, adminVars, name, held, value, reply, events, floor>>
-----------------------------------------------------------------------------
(* ProjectRegistry::reload. *)

\* load_manifest; when it fails nothing changes.
LoadManifest(r) ==
  /\ reload[r].pc = "idle"
  /\ disk # {}
  /\ reload' = [reload EXCEPT ![r] = [pc |-> "loaded", m |-> disk]]
  /\ UNCHANGED <<cacheVars, fileVars, connVars, manifest, session, rotate, rotated, synced>>

MutKeepConfig(r) ==
  /\ reload[r].pc = "loaded"
  /\ reload' = [reload EXCEPT ![r].pc = "configured"]
  /\ UNCHANGED <<cacheVars, fileVars, connVars, manifest, session, rotate, rotated, synced>>

SetConfig(r) ==
  /\ reload[r].pc = "loaded"
  /\ \E m \in reload[r].m :
       Cache!set_config(resolve_cache_bounds(m).max_entries, resolve_cache_bounds(m).ttl)
  /\ reload' = [reload EXCEPT ![r].pc = "configured"]
  /\ UNCHANGED <<fileVars, connVars, manifest, session, rotate, rotated, synced>>

MutStoreForgotten(r) ==
  /\ reload[r].pc = "configured"
  /\ synced' = (synced \/ reload[r].m = disk)
  /\ reload' = [reload EXCEPT ![r] = NoLoad]
  /\ UNCHANGED <<cacheVars, fileVars, connVars, manifest, session, rotate, rotated>>

StoreManifest(r) ==
  /\ reload[r].pc = "configured"
  /\ manifest' \in reload[r].m
  /\ synced' = (synced \/ reload[r].m = disk)
  /\ reload' = [reload EXCEPT ![r] = NoLoad]
  /\ UNCHANGED <<cacheVars, fileVars, connVars, session, rotate, rotated>>

(* dispatch_rotate_bootstrap: with a session to replace, a new one is      *)
(* built from fnox's configuration as it is now, and then adopted.  The    *)
(* bootstrap token is fetched only to see that there is one: nothing of it *)
(* goes into the session.  Failures change nothing (Startup has them).     *)
BuildSession(r) ==
  /\ session # Absent
  /\ rotate[r] = Absent
  /\ rotate' = [rotate EXCEPT ![r] = fnox_config]
  /\ UNCHANGED <<cacheVars, fileVars, connVars, manifest, session, reload, rotated, synced>>

MutAdoptBackwards(r) ==
  /\ rotate[r] # Absent
  /\ rotated' = IF rotate[r] > rotated THEN rotate[r] ELSE rotated
  /\ rotate' = [rotate EXCEPT ![r] = Absent]
  /\ UNCHANGED <<cacheVars, fileVars, connVars, manifest, session, reload, synced>>

adopt(r) ==
  /\ rotate[r] # Absent
  /\ session' = rotate[r]
  /\ rotated' = IF rotate[r] > rotated THEN rotate[r] ELSE rotated
  /\ rotate' = [rotate EXCEPT ![r] = Absent]
  /\ UNCHANGED <<cacheVars, fileVars, connVars, manifest, reload, synced>>

\* Outside the daemon: the manifest is edited, broken or removed, fnox's
\* configuration is edited, and time passes.
EditManifest(d) ==
  /\ d # disk
  /\ disk' = d
  /\ synced' = FALSE
  /\ UNCHANGED <<cacheVars, fnox_config, connVars, manifest, session, reload, rotate, rotated>>

EditFnox ==
  /\ fnox_config < MaxVersions
  /\ fnox_config' = fnox_config + 1
  /\ UNCHANGED <<cacheVars, disk, connVars, adminVars>>

Tick == Cache!Tick /\ UNCHANGED <<fileVars, connVars, adminVars>>
-----------------------------------------------------------------------------
GetStep(c) ==
  \/ CheckAllowlist(c) \/ CacheHit(c) \/ CacheMiss(c) \/ NoBackend(c)
  \/ LoadSession(c) \/ ReportFetched(c) \/ NextRequest(c)

BackendAnswers(c) ==
  \/ \E v \in Values : BackendFound(c, v)
  \/ \E code \in {"not_found", "backend_error"} : BackendFailed(c, code)

Next ==
  \/ \E c \in Conns : GetStep(c) \/ BackendAnswers(c) \/ Abort(c)
  \/ \E c \in Conns, n \in Names : Ask(c, n)
  \/ \E r \in Reloaders : LoadManifest(r) \/ SetConfig(r) \/ StoreManifest(r)
  \/ \E r \in Rotators : BuildSession(r) \/ adopt(r)
  \/ \E d \in {{m} : m \in Manifests} \cup {{}} : EditManifest(d)
  \/ EditFnox
  \/ Tick

Spec == Init /\ [][Next]_vars

\* The daemon's own steps happen; nothing is assumed of the backend.
FairSpec == Spec /\ \A c \in Conns : WF_vars(GetStep(c))
-----------------------------------------------------------------------------
TypeOK ==
  /\ Cache!TypeOK
  /\ disk \in {{m} : m \in Manifests} \cup {{}}
  /\ manifest \in Manifests
  /\ fnox_config \in 1..MaxVersions
  /\ session \in 0..fnox_config /\ rotated \in 0..fnox_config
  /\ pc \in [Conns -> {"idle", "asked", "lookup", "missed", "fetch", "cached",
                       "answered", "gone"}]
  /\ \A c \in Conns : pc[c] # "idle" => name[c] \in Names
  /\ \A c \in Conns : pc[c] = "cached" => value[c] \in Values
  /\ held \in [Conns -> 0..fnox_config] /\ floor \in [Conns -> 0..fnox_config]
  /\ reply \in [Conns -> [code : {"none", "denied", "not_found", "backend_error"}]
                   \cup [code : {"ok"}, value : Values, ttl_seconds : Nat]]
  /\ reload \in [Reloaders -> {NoLoad} \cup
                [pc : {"loaded", "configured"}, m : {{m} : m \in Manifests}]]
  /\ rotate \in [Rotators -> 0..fnox_config]
  /\ synced \in BOOLEAN

(* Every get that is answered was audited exactly once, before the answer, *)
(* and the event tells the same story: deny for denied, allow with outcome *)
(* ok for a value, and the failure's own outcome otherwise (emit_fetch on  *)
(* every branch of dispatch_get).                                          *)
AuditMatchesReply ==
  \A c \in Conns : pc[c] = "answered" =>
    \E e \in {Event("deny", "ok", None), Event("allow", "ok", "cache"),
             Event("allow", "ok", "fnox"), Event("allow", "not_found", "fnox"),
             Event("allow", "backend_error", "fnox"),
             Event("allow", "backend_error", None)} :
      /\ events[c] = <<e>>
      /\ reply[c].code = IF e.decision = "deny" THEN "denied" ELSE e.outcome

(* With one reload at a time, the cache bounds are those of the manifest   *)
(* in force whenever no reload is between its set_config and its store,    *)
(* whatever was edited, broken or reloaded before.                         *)
BoundsFollowManifest ==
  (\A r \in Reloaders : reload[r].pc # "configured") =>
    resolve_cache_bounds(manifest) = [max_entries |-> max_entries, ttl |-> default_ttl]

(* User Story 3: "When the manifest is edited and admin sends `reload      *)
(* foo`, Then the new allowlist is in effect for subsequent fetches".      *)
ReloadTakesEffect ==
  (synced /\ \A r \in Reloaders : reload[r] = NoLoad) => manifest \in disk

(* User Story 5: "Given rotation succeeds, When subsequent fetches occur,  *)
(* Then they use the new backend session".                                 *)
RotationTakesEffect ==
  \A c \in Conns : pc[c] = "fetch" => held[c] >= floor[c]

(* FetchPath implements AllowlistGate: each get is decided against the     *)
(* allowlist of one instant after the request, a name outside it reaches   *)
(* neither the cache nor the backend, and no reload is ever half visible   *)
(* (FR-011, FR-012).                                                       *)
Stage(c) ==
  CASE pc[c] = "idle"     -> [at |-> "quiet"]
    [] pc[c] = "asked"    -> [at |-> "asked", name |-> name[c]]
    [] pc[c] = "answered" -> [at |-> IF reply[c].code = "denied"
                                     THEN "denied" ELSE "served"]
    [] pc[c] = "gone"     -> [at |-> "gone"]
    [] OTHER              -> [at |-> "admitted"]

Gate == INSTANCE AllowlistGate
          WITH allow <- manifest.secrets, stage <- [c \in Conns |-> Stage(c)]

ImplementsGate == Gate!Spec

\* A get between its request and its answer, the backend call apart.
OwnWork == {"asked", "lookup", "missed", "cached"}

CanStep(c) == pc[c] \in OwnWork => ENABLED <<GetStep(c)>>_vars

CanAllStep == \A c \in Conns : CanStep(c)
NeverStuck == ~<>~CanAllStep

GetFinishes(c) ==
  /\ (pc[c] = "asked") ~> (pc[c] \in {"answered", "fetch", "gone"})
  /\ (pc[c] = "cached") ~> (pc[c] = "answered")

(* The backend call is the only place where a get can wait: up to it and   *)
(* after it the get has a step to take whatever reload, rotation, expiry   *)
(* or eviction comes in between (the TTL that ReportFetched reads is the   *)
(* default one, not that of the entry, which may be gone), and proceeds to *)
(* its answer.                                                             *)
GetsFinish ==
  /\ NeverStuck
  /\ \A c \in Conns : GetFinishes(c)
=============================================================================
