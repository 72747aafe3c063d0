-------------------------- MODULE FetchPathProofs ---------------------------
(***************************************************************************)
(* What FetchPath guarantees for every number of connections, reloaders    *)
(* and rotators and every set of names and manifests.                      *)
(***************************************************************************)
EXTENDS FetchPath, TLAPS

PCs == {"idle", "asked", "lookup", "missed", "fetch", "cached", "answered", "gone"}

(* What the refinement needs to know of a state: manifests are legal       *)
(* wherever one is held, and a connection that was asked knows a name.     *)
GateInv ==
  /\ disk \subseteq Manifests
  /\ manifest \in Manifests
  /\ DOMAIN reload = Reloaders
  /\ \A r \in Reloaders : reload[r].m \subseteq Manifests
  /\ pc \in [Conns -> PCs]
  /\ name \in [Conns -> Names \cup {None}]
  /\ \A c \in Conns : pc[c] = "asked" => name[c] \in Names
  /\ DOMAIN reply = Conns

(* A step that concerns one connection moves its stage only. *)
LEMMA OneStageMoves ==
  ASSUME NEW c \in Conns, NEW s,
         \A d \in Conns \ {c} :
           pc'[d] = pc[d] /\ name'[d] = name[d] /\ reply'[d] = reply[d],
         Stage(c)' = s
  PROVE  [d \in Conns |-> Stage(d)]' = [[d \in Conns |-> Stage(d)] EXCEPT ![c] = s]
<1>1. \A d \in Conns \ {c} : Stage(d)' = Stage(d)
  BY DEF Stage
<1> QED
  BY <1>1, Zenon

LEMMA StagesStay ==
  ASSUME pc' = pc, name' = name, reply' = reply
  PROVE  [d \in Conns |-> Stage(d)]' = [d \in Conns |-> Stage(d)]
BY DEF Stage

(* GateInv is inductive. *)
LEMMA GateInvStep ==
  ASSUME GateInv, [Next]_vars
  PROVE  GateInv'
<1> USE DEF GateInv, PCs
<1>1. ASSUME NEW c \in Conns, GetStep(c) PROVE GateInv'
  <2>1. CASE CheckAllowlist(c)
    BY <2>1 DEF CheckAllowlist, Respond, fileVars, adminVars
  <2>2. CASE CacheHit(c)
    BY <2>2 DEF CacheHit, Respond, fileVars, adminVars
  <2>3. CASE CacheMiss(c)
    BY <2>3 DEF CacheMiss, fileVars, adminVars
  <2>4. CASE NoBackend(c)
    BY <2>4 DEF NoBackend, Respond, fileVars, adminVars
  <2>5. CASE LoadSession(c)
    BY <2>5 DEF LoadSession, fileVars, adminVars
  <2>6. CASE ReportFetched(c)
    BY <2>6 DEF ReportFetched, Respond, fileVars, adminVars
  <2>7. CASE NextRequest(c)
    BY <2>7 DEF NextRequest, fileVars, adminVars
  <2> QED
    BY <1>1, <2>1, <2>2, <2>3, <2>4, <2>5, <2>6, <2>7 DEF GetStep
<1>2. ASSUME NEW c \in Conns, BackendAnswers(c) \/ Abort(c) PROVE GateInv'
  <2>1. ASSUME NEW v \in Values, BackendFound(c, v) PROVE GateInv'
    BY <2>1 DEF BackendFound, fileVars, adminVars
  <2>2. ASSUME NEW code, BackendFailed(c, code) PROVE GateInv'
    BY <2>2 DEF BackendFailed, Respond, fileVars, adminVars
  <2>3. CASE Abort(c)
    BY <2>3 DEF Abort, fileVars, adminVars
  <2> QED
    BY <1>2, <2>1, <2>2, <2>3 DEF BackendAnswers
<1>3. ASSUME NEW c \in Conns, NEW n \in Names, Ask(c, n) PROVE GateInv'
  BY <1>3 DEF Ask, fileVars, adminVars
<1>4. ASSUME NEW r \in Reloaders, LoadManifest(r) \/ SetConfig(r) \/ StoreManifest(r)
      PROVE  GateInv'
  <2>1. CASE LoadManifest(r)
    BY <2>1 DEF LoadManifest, fileVars, connVars
  <2>2. CASE SetConfig(r)
    BY <2>2 DEF SetConfig, fileVars, connVars
  <2>3. CASE StoreManifest(r)
    BY <2>3 DEF StoreManifest, NoLoad, fileVars, connVars
  <2> QED
    BY <1>4, <2>1, <2>2, <2>3
<1>5. ASSUME NEW r \in Rotators, BuildSession(r) \/ adopt(r) PROVE GateInv'
  BY <1>5 DEF BuildSession, adopt, fileVars, connVars
<1>6. ASSUME NEW d \in {{m} : m \in Manifests} \cup {{}}, EditManifest(d) PROVE GateInv'
  BY <1>6 DEF EditManifest, connVars
<1>7. CASE EditFnox \/ Tick
  BY <1>7 DEF EditFnox, Tick, fileVars, connVars, adminVars
<1>8. CASE UNCHANGED vars
  BY <1>8, Zenon DEF vars, fileVars, connVars, adminVars
<1> QED
  BY <1>1, <1>2, <1>3, <1>4, <1>5, <1>6, <1>7, <1>8 DEF Next

(* Where the stages of a state are those of the abstract specification.    *)
Stages == [d \in Conns |-> Stage(d)]

(* What the abstract actions amount to under the refinement mapping. *)
LEMMA GateActions ==
  ASSUME NEW c \in Conns
  PROVE  /\ \A n \in Names :
              /\ Stages[c] = [at |-> "quiet"]
              /\ Stages' = [Stages EXCEPT ![c] = [at |-> "asked", name |-> n]]
              /\ manifest'.secrets = manifest.secrets
              => Gate!Next
         /\ \A n \in Names :
              /\ Stages[c] = [at |-> "asked", name |-> n]
              /\ Stages' = [Stages EXCEPT ![c] =
                   [at |-> IF n \in manifest.secrets THEN "admitted" ELSE "denied"]]
              /\ manifest'.secrets = manifest.secrets
              => Gate!Next
         /\ \A how \in {"served", "gone"} :
              /\ Stages[c] = [at |-> "admitted"]
              /\ Stages' = [Stages EXCEPT ![c] = [at |-> how]]
              /\ manifest'.secrets = manifest.secrets
              => Gate!Next
         /\ /\ Stages[c].at \in {"denied", "served"}
            /\ Stages' = [Stages EXCEPT ![c] = [at |-> "quiet"]]
            /\ manifest'.secrets = manifest.secrets
            => Gate!Next
BY Zenon DEF Stages, Gate!Next, Gate!Ask, Gate!Decide, Gate!Conclude, Gate!Return,
       Gate!Quiet, Gate!Asked

(* Every step of FetchPath is a step of AllowlistGate or leaves its state  *)
(* alone.                                                                  *)
LEMMA GateStep ==
  ASSUME GateInv, [Next]_vars
  PROVE  [Gate!Next]_(Gate!gateVars)
<1> DEFINE Goal == [Gate!Next]_(Gate!gateVars)
<1> SUFFICES Goal
  OBVIOUS
<1> HIDE DEF Goal
<1> USE DEF GateInv
<1>1. ASSUME NEW c \in Conns, NEW n \in Names, Ask(c, n) PROVE Goal
  <2>1. Stages[c] = [at |-> "quiet"] /\ Stage(c)' = [at |-> "asked", name |-> n]
    BY <1>1 DEF Ask, Stages, Stage
  <2>2. Stages' = [Stages EXCEPT ![c] = [at |-> "asked", name |-> n]]
    BY <1>1, <2>1, OneStageMoves DEF Ask, Stages
  <2> QED
    BY <1>1, <2>1, <2>2, GateActions, Zenon DEF Ask, adminVars, Goal
<1>2. ASSUME NEW c \in Conns, CheckAllowlist(c) PROVE Goal
  <2> DEFINE s == [at |-> IF name[c] \in manifest.secrets THEN "admitted" ELSE "denied"]
  <2>1. Stages[c] = [at |-> "asked", name |-> name[c]] /\ Stage(c)' = s
    BY <1>2 DEF CheckAllowlist, Respond, Error, Stages, Stage
  <2>2. Stages' = [Stages EXCEPT ![c] = s]
    BY <1>2, <2>1, OneStageMoves DEF CheckAllowlist, Respond, Stages
  <2> QED
    BY <1>2, <2>1, <2>2, GateActions, Zenon DEF CheckAllowlist, adminVars, Goal
<1>3. ASSUME NEW c \in Conns, NEW event, NEW r, Respond(c, r, event),
             pc[c] \in {"lookup", "missed", "fetch", "cached"},
             r.code # "denied", name' = name, manifest' = manifest
      PROVE  Goal
  <2>1. Stages[c] = [at |-> "admitted"] /\ Stage(c)' = [at |-> "served"]
    BY <1>3 DEF Respond, Stages, Stage
  <2>2. Stages' = [Stages EXCEPT ![c] = [at |-> "served"]]
    BY <1>3, <2>1, OneStageMoves DEF Respond, Stages
  <2> QED
    BY <1>3, <2>1, <2>2, GateActions, Zenon DEF Goal
<1>4. ASSUME NEW c \in Conns, CacheHit(c) PROVE Goal
  BY <1>3, <1>4 DEF CacheHit, Value, adminVars
<1>5. ASSUME NEW c \in Conns, NoBackend(c) PROVE Goal
  BY <1>3, <1>5 DEF NoBackend, Error, adminVars
<1>6. ASSUME NEW c \in Conns, ReportFetched(c) PROVE Goal
  BY <1>3, <1>6 DEF ReportFetched, Value, adminVars
<1>7. ASSUME NEW c \in Conns, NEW code \in {"not_found", "backend_error"},
             BackendFailed(c, code)
      PROVE  Goal
  BY <1>3, <1>7 DEF BackendFailed, Error, adminVars
<1>8. ASSUME NEW c \in Conns, NextRequest(c) PROVE Goal
  <2>1. Stages[c].at \in {"denied", "served"} /\ Stage(c)' = [at |-> "quiet"]
    BY <1>8 DEF NextRequest, Stages, Stage
  <2>2. Stages' = [Stages EXCEPT ![c] = [at |-> "quiet"]]
    BY <1>8, <2>1, OneStageMoves DEF NextRequest, Stages
  <2> QED
    BY <1>8, <2>1, <2>2, GateActions, Zenon DEF NextRequest, adminVars, Goal
<1>9. ASSUME NEW c \in Conns, Abort(c) PROVE Goal
  <2>1. Stages[c] = [at |-> "admitted"] /\ Stage(c)' = [at |-> "gone"]
    BY <1>9 DEF Abort, Stages, Stage
  <2>2. Stages' = [Stages EXCEPT ![c] = [at |-> "gone"]]
    BY <1>9, <2>1, OneStageMoves DEF Abort, Stages
  <2> QED
    BY <1>9, <2>1, <2>2, GateActions, Zenon DEF Abort, adminVars, Goal
<1>10. ASSUME NEW c \in Conns, NEW q \in {"missed", "fetch", "cached"},
              pc[c] \in {"lookup", "missed", "fetch"},
              pc' = [pc EXCEPT ![c] = q],
              name' = name, reply' = reply, manifest' = manifest
       PROVE  Goal
  <2>1. \A d \in Conns : Stage(d)' = Stage(d)
    BY <1>10 DEF Stage
  <2> QED
    BY <1>10, <2>1 DEF Gate!gateVars, Goal
<1>11. ASSUME NEW c \in Conns, CacheMiss(c) \/ LoadSession(c) PROVE Goal
  BY <1>10, <1>11 DEF CacheMiss, LoadSession, adminVars
<1>12. ASSUME NEW c \in Conns, NEW v \in Values, BackendFound(c, v) PROVE Goal
  BY <1>10, <1>12, Zenon DEF BackendFound, adminVars
<1>13. ASSUME NEW r \in Reloaders, StoreManifest(r) PROVE Goal
  <2>1. manifest' \in Manifests /\ Stages' = Stages
    BY <1>13, StagesStay DEF StoreManifest, connVars, Stages
  <2>2. manifest'.secrets \in SUBSET Names
    BY <2>1, FetchAssumption
  <2> QED
    BY <2>1, <2>2 DEF Gate!Next, Gate!Replace, Stages, Goal
<1>14. ASSUME connVars' = connVars, manifest' = manifest PROVE Goal
  BY <1>14, StagesStay DEF connVars, Gate!gateVars, Goal
<1>15. ASSUME NEW r \in Reloaders, LoadManifest(r) \/ SetConfig(r) PROVE Goal
  BY <1>14, <1>15 DEF LoadManifest, SetConfig
<1>16. ASSUME NEW r \in Rotators, BuildSession(r) \/ adopt(r) PROVE Goal
  BY <1>14, <1>16 DEF BuildSession, adopt
<1>17. ASSUME NEW d, EditManifest(d) PROVE Goal
  BY <1>14, <1>17 DEF EditManifest
<1>18. ASSUME EditFnox \/ Tick \/ UNCHANGED vars PROVE Goal
  BY <1>14, <1>18 DEF EditFnox, Tick, vars, adminVars
<1> QED
  BY <1>1, <1>2, <1>4, <1>5, <1>6, <1>7, <1>8, <1>9, <1>11, <1>12, <1>13, <1>15,
     <1>16, <1>17, <1>18 DEF Next, GetStep, BackendAnswers

(* The initial states satisfy GateInv and are those of AllowlistGate. *)
LEMMA GateInit ==
  ASSUME Init
  PROVE  GateInv /\ Gate!Init
<1>1. GateInv
  BY DEF Init, GateInv, PCs, NoLoad
<1>2. manifest.secrets \in SUBSET Names
  BY <1>1, FetchAssumption DEF GateInv
<1>3. \A c \in Conns : Stage(c) = [at |-> "quiet"]
  BY DEF Init, Stage
<1> QED
  BY <1>1, <1>2, <1>3 DEF Gate!Init, Gate!Quiet

(* FetchPath implements AllowlistGate, whatever the connections, names and *)
(* manifests: a get is decided once, against one whole allowlist.          *)
THEOREM Refinement == Spec => ImplementsGate
<1>1. Init => GateInv /\ Gate!Init
  BY GateInit
<1>2. GateInv /\ [Next]_vars => GateInv'
  BY GateInvStep
<1>3. GateInv /\ [Next]_vars => [Gate!Next]_(Gate!gateVars)
  BY GateStep
<1> QED
  BY <1>1, <1>2, <1>3, PTL DEF Spec, ImplementsGate, Gate!Spec

(* The audit events of a get are recorded together with its answer. *)
AuditInv ==
  /\ pc \in [Conns -> PCs]
  /\ DOMAIN reply = Conns /\ DOMAIN events = Conns
  /\ \A c \in Conns : pc[c] # "answered" => events[c] = << >>
  /\ AuditMatchesReply

(* Every way out of dispatch_get emits one event, and the matching one. *)
LEMMA RespondAudits ==
  ASSUME AuditInv, NEW c \in Conns, pc[c] # "answered",
         NEW response, NEW decision, NEW outcome, NEW backend,
         Respond(c, response, Event(decision, outcome, backend)),
         <<decision, outcome, backend>> \in
           {<<"deny", "ok", None>>, <<"allow", "ok", "cache">>,
            <<"allow", "ok", "fnox">>, <<"allow", "not_found", "fnox">>,
            <<"allow", "backend_error", "fnox">>, <<"allow", "backend_error", None>>},
         response.code = IF decision = "deny" THEN "denied" ELSE outcome
  PROVE  AuditInv'
<1> DEFINE e == Event(decision, outcome, backend)
<1>1. /\ pc' = [pc EXCEPT ![c] = "answered"]
      /\ reply' = [reply EXCEPT ![c] = response]
      /\ events' = [events EXCEPT ![c] = <<e>>]
  <2>1. events[c] = << >>
    BY DEF AuditInv
  <2>2. \A x : Append(<< >>, x) = <<x>>
    OBVIOUS
  <2>3. events' = [events EXCEPT ![c] = Append(events[c], e)]
    BY DEF Respond
  <2> QED
    BY <2>1, <2>2, <2>3 DEF Respond
<1>2. e \in {Event("deny", "ok", None), Event("allow", "ok", "cache"),
             Event("allow", "ok", "fnox"), Event("allow", "not_found", "fnox"),
             Event("allow", "backend_error", "fnox"),
             Event("allow", "backend_error", None)}
  OBVIOUS
<1>3. reply'[c].code = IF e.decision = "deny" THEN "denied" ELSE e.outcome
  BY <1>1 DEF AuditInv, Event
<1> HIDE DEF e
<1>4. \A d \in Conns \ {c} :
        pc'[d] = pc[d] /\ reply'[d] = reply[d] /\ events'[d] = events[d]
  BY <1>1 DEF AuditInv
<1>5. pc'[c] = "answered" /\ events'[c] = <<e>>
  BY <1>1 DEF AuditInv
<1>6. pc' \in [Conns -> PCs] /\ DOMAIN reply' = Conns /\ DOMAIN events' = Conns
  BY <1>1 DEF AuditInv, PCs
<1> QED
  BY <1>2, <1>3, <1>4, <1>5, <1>6 DEF AuditInv, AuditMatchesReply

(* AuditInv is inductive. *)
LEMMA AuditInvStep ==
  ASSUME AuditInv, [Next]_vars
  PROVE  AuditInv'
<1>1. ASSUME NEW c \in Conns, NEW q \in PCs \ {"answered"}, pc[c] # "answered",
             pc' = [pc EXCEPT ![c] = q], reply' = reply, events' = events
      PROVE  AuditInv'
  BY <1>1 DEF AuditInv, AuditMatchesReply
<1>2. ASSUME pc' = pc, reply' = reply, events' = events PROVE AuditInv'
  BY <1>2 DEF AuditInv, AuditMatchesReply
<1>3. ASSUME NEW c \in Conns, GetStep(c) PROVE AuditInv'
  <2>1. CASE CheckAllowlist(c)
    <3>1. CASE name[c] \in manifest.secrets
      BY <1>1, <2>1, <3>1 DEF CheckAllowlist, PCs
    <3>2. CASE name[c] \notin manifest.secrets
      BY <2>1, <3>2, RespondAudits DEF CheckAllowlist, Error
    <3> QED
      BY <3>1, <3>2
  <2>2. CASE CacheHit(c)
    BY <2>2, RespondAudits DEF CacheHit, Value
  <2>3. CASE CacheMiss(c)
    BY <1>1, <2>3, Zenon DEF CacheMiss, PCs
  <2>4. CASE NoBackend(c)
    BY <2>4, RespondAudits DEF NoBackend, Error
  <2>5. CASE LoadSession(c)
    BY <1>1, <2>5, Zenon DEF LoadSession, PCs
  <2>6. CASE ReportFetched(c)
    BY <2>6, RespondAudits DEF ReportFetched, Value
  <2>7. CASE NextRequest(c)
    BY <2>7 DEF NextRequest, AuditInv, AuditMatchesReply, PCs
  <2> QED
    BY <1>3, <2>1, <2>2, <2>3, <2>4, <2>5, <2>6, <2>7 DEF GetStep
<1>4. ASSUME NEW c \in Conns, NEW v \in Values, BackendFound(c, v) PROVE AuditInv'
  BY <1>1, <1>4, Zenon DEF BackendFound, PCs
<1>5. ASSUME NEW c \in Conns, NEW code \in {"not_found", "backend_error"},
             BackendFailed(c, code)
      PROVE  AuditInv'
  BY <1>5, RespondAudits DEF BackendFailed, Error
<1>6. ASSUME NEW c \in Conns, Abort(c) PROVE AuditInv'
  BY <1>1, <1>6, Zenon DEF Abort, PCs
<1>7. ASSUME NEW c \in Conns, NEW n \in Names, Ask(c, n) PROVE AuditInv'
  BY <1>1, <1>7, Zenon DEF Ask, PCs
<1>8. ASSUME NEW r, LoadManifest(r) \/ SetConfig(r) \/ StoreManifest(r) PROVE AuditInv'
  BY <1>2, <1>8 DEF LoadManifest, SetConfig, StoreManifest, connVars
<1>9. ASSUME NEW r, BuildSession(r) \/ adopt(r) PROVE AuditInv'
  BY <1>2, <1>9 DEF BuildSession, adopt, connVars
<1>10. ASSUME NEW d, EditManifest(d) PROVE AuditInv'
  BY <1>2, <1>10 DEF EditManifest, connVars
<1>11. CASE EditFnox \/ Tick \/ UNCHANGED vars
  BY <1>2, <1>11 DEF EditFnox, Tick, vars, connVars
<1> QED
  BY <1>3, <1>4, <1>5, <1>6, <1>7, <1>8, <1>9, <1>10, <1>11 DEF Next, BackendAnswers

(* Whatever the interleaving, an answered get has exactly one audit event, *)
(* and it tells what the answer tells.                                     *)
THEOREM Audited == Spec => []AuditMatchesReply
<1>1. Init => AuditInv
  BY DEF Init, AuditInv, AuditMatchesReply, PCs
<1>2. AuditInv /\ [Next]_vars => AuditInv'
  BY AuditInvStep
<1>3. AuditInv => AuditMatchesReply
  BY DEF AuditInv
<1> QED
  BY <1>1, <1>2, <1>3, PTL DEF Spec

(* One reload of the project at a time. *)
OneReloader == \A r, s \in Reloaders : r = s

(* Between set_config and the store the bounds are already those of the    *)
(* manifest about to be stored; and as long as no edit came after the last *)
(* reload, a reload in progress has read what is on disk.                  *)
ReloadInv ==
  /\ disk \in {{m} : m \in Manifests} \cup {{}}
  /\ reload \in [Reloaders -> {NoLoad} \cup
                   [pc : {"loaded", "configured"}, m : {{m} : m \in Manifests}]]
  /\ BoundsFollowManifest
  /\ \A r \in Reloaders : reload[r].pc = "configured" =>
       \A m \in reload[r].m :
         resolve_cache_bounds(m) = [max_entries |-> max_entries, ttl |-> default_ttl]
  /\ synced => /\ manifest \in disk
               /\ \A r \in Reloaders : reload[r].pc # "idle" => reload[r].m = disk

(* ReloadInv is inductive with one reloader. *)
LEMMA ReloadInvStep ==
  ASSUME OneReloader, ReloadInv, [Next]_vars
  PROVE  ReloadInv'
<1>1. ASSUME UNCHANGED <<disk, reload, manifest, max_entries, default_ttl, synced>>
      PROVE  ReloadInv'
  BY <1>1 DEF ReloadInv, BoundsFollowManifest, resolve_cache_bounds
<1>2. ASSUME NEW c \in Conns, GetStep(c) \/ BackendAnswers(c) \/ Abort(c)
      PROVE  ReloadInv'
  <2>1. UNCHANGED <<fileVars, adminVars, max_entries, default_ttl>>
    BY <1>2, Zenon DEF GetStep, BackendAnswers, CheckAllowlist, CacheHit, CacheMiss, NoBackend,
         LoadSession, ReportFetched, NextRequest, BackendFound, BackendFailed, Abort,
         cacheVars, Cache!get, Cache!insert
  <2> QED
    BY <1>1, <2>1, Zenon DEF fileVars, adminVars
<1>3. ASSUME NEW c, NEW n, Ask(c, n) PROVE ReloadInv'
  BY <1>1, <1>3, Zenon DEF Ask, cacheVars, fileVars, adminVars
<1>4. ASSUME NEW r \in Reloaders, LoadManifest(r) PROVE ReloadInv'
  <2>1. /\ reload[r].pc = "idle" /\ disk # {}
        /\ reload' = [reload EXCEPT ![r] = [pc |-> "loaded", m |-> disk]]
        /\ UNCHANGED <<disk, manifest, max_entries, default_ttl, synced>>
    BY <1>4 DEF LoadManifest, cacheVars, fileVars
  <2>2. \A s \in Reloaders : s = r
    BY DEF OneReloader
  <2> QED
    BY <2>1, <2>2, Zenon DEF ReloadInv, BoundsFollowManifest, resolve_cache_bounds, NoLoad
<1>5. ASSUME NEW r \in Reloaders, SetConfig(r) PROVE ReloadInv'
  <2>1. PICK m \in reload[r].m :
          /\ max_entries' = resolve_cache_bounds(m).max_entries
          /\ default_ttl' = resolve_cache_bounds(m).ttl
    BY <1>5 DEF SetConfig, Cache!set_config
  <2>2. /\ reload[r].m = {m} /\ m \in Manifests /\ reload[r].pc = "loaded"
        /\ reload' = [reload EXCEPT ![r] = [pc |-> "configured", m |-> {m}]]
        /\ UNCHANGED <<disk, manifest, synced>>
    <3>1. /\ reload[r].pc = "loaded"
          /\ reload' = [reload EXCEPT ![r] = [reload[r] EXCEPT !.pc = "configured"]]
          /\ UNCHANGED <<disk, manifest, synced>>
      BY <1>5 DEF SetConfig, fileVars
    <3>2. reload[r] \in [pc : {"loaded", "configured"}, m : {{x} : x \in Manifests}]
      BY <3>1 DEF ReloadInv, NoLoad
    <3>3. [reload[r] EXCEPT !.pc = "configured"] = [pc |-> "configured", m |-> reload[r].m]
      BY <3>2
    <3> QED
      BY <2>1, <3>1, <3>2, <3>3, Zenon
  <2>3. \A s \in Reloaders : s = r
    BY DEF OneReloader
  <2>4. resolve_cache_bounds(m)' = [max_entries |-> max_entries', ttl |-> default_ttl']
    BY <2>1 DEF resolve_cache_bounds
  <2> QED
    BY <2>2, <2>3, <2>4 DEF ReloadInv, BoundsFollowManifest, resolve_cache_bounds
<1>6. ASSUME NEW r \in Reloaders, StoreManifest(r) PROVE ReloadInv'
  <2>1. /\ manifest' \in reload[r].m /\ reload[r].pc = "configured"
        /\ synced' => reload[r].m = disk
        /\ reload' = [reload EXCEPT ![r] = NoLoad]
        /\ UNCHANGED <<disk, max_entries, default_ttl>>
    BY <1>6, Zenon DEF StoreManifest, cacheVars, fileVars, ReloadInv
  <2>2. \A s \in Reloaders : s = r
    BY DEF OneReloader
  <2> QED
    BY <2>1, <2>2 DEF ReloadInv, BoundsFollowManifest, resolve_cache_bounds, NoLoad
<1>7. ASSUME NEW r, BuildSession(r) \/ adopt(r) PROVE ReloadInv'
  BY <1>1, <1>7 DEF BuildSession, adopt, cacheVars, fileVars
<1>8. ASSUME NEW d \in {{m} : m \in Manifests} \cup {{}}, EditManifest(d) PROVE ReloadInv'
  BY <1>8 DEF EditManifest, cacheVars, ReloadInv, BoundsFollowManifest,
       resolve_cache_bounds
<1>9. CASE EditFnox \/ Tick \/ UNCHANGED vars
  BY <1>1, <1>9 DEF EditFnox, Tick, Cache!Tick, vars, cacheVars, fileVars, adminVars
<1> QED
  BY <1>2, <1>3, <1>4, <1>5, <1>6, <1>7, <1>8, <1>9 DEF Next

LEMMA ReloadInvInit ==
  ASSUME Init
  PROVE  ReloadInv
BY DEF Init, ReloadInv, BoundsFollowManifest, resolve_cache_bounds, NoLoad

(* With one reload at a time the cache bounds are those of the manifest in *)
(* force, outside the window between set_config and the store.             *)
THEOREM BoundsFollow ==
  ASSUME OneReloader
  PROVE  Spec => []BoundsFollowManifest
<1>1. Init => ReloadInv
  BY ReloadInvInit
<1>2. ReloadInv /\ [Next]_vars => ReloadInv'
  BY ReloadInvStep
<1>3. ReloadInv => BoundsFollowManifest
  BY DEF ReloadInv
<1> QED
  BY <1>1, <1>2, <1>3, PTL DEF Spec

(* With one reload at a time a reload that read the manifest on disk has   *)
(* put it in force when it ends.                                           *)
THEOREM ReloadsTakeEffect ==
  ASSUME OneReloader
  PROVE  Spec => []ReloadTakesEffect
<1>1. Init => ReloadInv
  BY ReloadInvInit
<1>2. ReloadInv /\ [Next]_vars => ReloadInv'
  BY ReloadInvStep
<1>3. ReloadInv => ReloadTakesEffect
  BY DEF ReloadInv, ReloadTakesEffect
<1> QED
  BY <1>1, <1>2, <1>3, PTL DEF Spec

(* One rotation at a time. *)
OneRotator == \A r, s \in Rotators : r = s

(* The session never goes back: the one a rotation has built is at least   *)
(* as new as the one in use, which is the newest that was ever adopted.    *)
RotationInv ==
  /\ fnox_config \in Nat /\ session \in Nat /\ session <= fnox_config /\ rotated = session
  /\ rotate \in [Rotators -> Nat] /\ floor \in [Conns -> Nat] /\ held \in [Conns -> Nat]
  /\ pc \in [Conns -> PCs]
  /\ \A r \in Rotators : rotate[r] # Absent => session <= rotate[r] /\ rotate[r] <= fnox_config
  /\ \A c \in Conns : floor[c] <= session
  /\ RotationTakesEffect

(* RotationInv is inductive with one rotator. *)
LEMMA RotationInvStep ==
  ASSUME OneRotator, RotationInv, [Next]_vars
  PROVE  RotationInv'
<1> DEFINE Goal == RotationInv'
<1> SUFFICES Goal
  OBVIOUS
<1>1. ASSUME UNCHANGED <<fnox_config, session, rotated, rotate, floor, held>>, pc' \in [Conns -> PCs],
             \A c \in Conns : pc'[c] = "fetch" => pc[c] = "fetch"
      PROVE  Goal
  BY <1>1, Zenon DEF RotationInv, RotationTakesEffect
<1> HIDE DEF Goal
<1>2. ASSUME NEW c \in Conns,
             \/ CheckAllowlist(c) \/ CacheHit(c) \/ CacheMiss(c) \/ NoBackend(c) \/ ReportFetched(c)
             \/ BackendAnswers(c) \/ Abort(c)
      PROVE  Goal
  <2>1. /\ UNCHANGED <<fnox_config, session, rotated, rotate, floor, held>>
        /\ \E s \in PCs \ {"fetch"} : pc' = [pc EXCEPT ![c] = s]
    BY <1>2, Zenon DEF CheckAllowlist, CacheHit, CacheMiss, NoBackend, ReportFetched, BackendAnswers,
         BackendFound, BackendFailed, Abort, Respond, fileVars, adminVars, PCs
  <2>2. pc' \in [Conns -> PCs] /\ \A d \in Conns : pc'[d] = "fetch" => pc[d] = "fetch"
    BY <2>1, Zenon DEF RotationInv
  <2> QED BY <1>1, <2>1, <2>2, Zenon
<1>3. ASSUME NEW c \in Conns, LoadSession(c) PROVE Goal
  <2>1. /\ UNCHANGED <<fnox_config, session, rotated, rotate, floor>>
        /\ pc' = [pc EXCEPT ![c] = "fetch"] /\ held' = [held EXCEPT ![c] = session]
    BY <1>3, Zenon DEF LoadSession, fileVars, adminVars
  <2>2. pc' \in [Conns -> PCs]
    BY <2>1, Zenon DEF RotationInv, PCs
  <2>3. RotationTakesEffect'
    BY <2>1 DEF RotationInv, RotationTakesEffect
  <2> QED BY <2>1, <2>2, <2>3 DEF Goal, RotationInv
<1>4. ASSUME NEW c \in Conns, NextRequest(c) PROVE Goal
  <2>1. /\ UNCHANGED <<fnox_config, session, rotated, rotate>> /\ pc' = [pc EXCEPT ![c] = "idle"]
        /\ held' = [held EXCEPT ![c] = Absent] /\ floor' = [floor EXCEPT ![c] = Absent]
    BY <1>4, Zenon DEF NextRequest, fileVars, adminVars
  <2>2. pc' \in [Conns -> PCs]
    BY <2>1, Zenon DEF RotationInv, PCs
  <2>3. RotationTakesEffect'
    BY <2>1 DEF RotationInv, RotationTakesEffect
  <2> QED BY <2>1, <2>2, <2>3 DEF Goal, RotationInv, Absent
<1>5. ASSUME NEW c \in Conns, NEW n \in Names, Ask(c, n) PROVE Goal
  <2>1. /\ UNCHANGED <<fnox_config, session, rotated, rotate, held>> /\ pc' = [pc EXCEPT ![c] = "asked"]
        /\ floor' = [floor EXCEPT ![c] = rotated]
    BY <1>5, Zenon DEF Ask, fileVars, adminVars
  <2>2. pc' \in [Conns -> PCs]
    BY <2>1, Zenon DEF RotationInv, PCs
  <2>3. RotationTakesEffect'
    BY <2>1 DEF RotationInv, RotationTakesEffect
  <2> QED BY <2>1, <2>2, <2>3 DEF Goal, RotationInv
<1>6. ASSUME NEW r \in Rotators, BuildSession(r) PROVE Goal
  <2>1. /\ UNCHANGED <<fnox_config, session, rotated, floor, held, pc>> /\ rotate' = [rotate EXCEPT ![r] = fnox_config]
    BY <1>6, Zenon DEF BuildSession, fileVars, connVars
  <2> QED BY <2>1 DEF Goal, RotationInv, RotationTakesEffect
<1>7. ASSUME NEW r \in Rotators, adopt(r) PROVE Goal
  <2>1. /\ UNCHANGED <<fnox_config, floor, held, pc>> /\ rotate' = [rotate EXCEPT ![r] = Absent]
        /\ session' = rotate[r] /\ rotate[r] # Absent
        /\ rotated' = IF rotate[r] > rotated THEN rotate[r] ELSE rotated
    BY <1>7, Zenon DEF adopt, fileVars, connVars
  <2>2. \A s \in Rotators : s = r
    BY Zenon DEF OneRotator
  <2>3. rotate[r] \in Nat /\ session <= rotate[r] /\ rotated' = session' /\ rotate[r] <= fnox_config
    BY <2>1 DEF RotationInv
  <2>4. \A c \in Conns : floor'[c] <= session'
    BY <2>1, <2>3 DEF RotationInv
  <2>5. rotate' \in [Rotators -> Nat] /\ \A s \in Rotators : rotate'[s] = Absent
    BY <2>1, <2>2 DEF RotationInv, Absent
  <2>6. RotationTakesEffect'
    BY <2>1, Zenon DEF RotationInv, RotationTakesEffect
  <2> QED BY <2>1, <2>3, <2>4, <2>5, <2>6, Zenon DEF Goal, RotationInv
<1>8. ASSUME EditFnox PROVE Goal
  <2>1. fnox_config' = fnox_config + 1 /\ UNCHANGED <<session, rotated, rotate, floor, held, pc>>
    BY <1>8, Zenon DEF EditFnox, connVars, adminVars
  <2> QED BY <2>1 DEF Goal, RotationInv, RotationTakesEffect
<1>9. ASSUME NEW r \in Reloaders, LoadManifest(r) \/ SetConfig(r) \/ StoreManifest(r) PROVE Goal
  BY <1>1, <1>9, Zenon DEF LoadManifest, SetConfig, StoreManifest, fileVars, connVars, RotationInv
<1>10. ASSUME NEW d, EditManifest(d) PROVE Goal
  BY <1>1, <1>10, Zenon DEF EditManifest, connVars, RotationInv
<1>11. ASSUME Tick \/ UNCHANGED vars PROVE Goal
  BY <1>1, <1>11, Zenon DEF Tick, vars, fileVars, connVars, adminVars, RotationInv
<1> QED
  BY <1>2, <1>3, <1>4, <1>5, <1>6, <1>7, <1>8, <1>9, <1>10, <1>11, Zenon DEF Next, GetStep

(* With one rotation at a time, a fetch that was asked for after a         *)
(* rotation had ended runs on that session or a newer one, whatever other  *)
(* gets, reloads and edits come in between (dispatch_rotate_bootstrap).    *)
THEOREM RotationsTakeEffect ==
  ASSUME OneRotator
  PROVE  Spec => []RotationTakesEffect
<1>1. Init => RotationInv
  BY DEF Init, RotationInv, RotationTakesEffect, PCs, Absent
<1>2. RotationInv /\ [Next]_vars => RotationInv'
  BY RotationInvStep
<1>3. RotationInv => RotationTakesEffect
  BY DEF RotationInv
<1> QED
  BY <1>1, <1>2, <1>3, PTL DEF Spec

(* A get under way knows a name. *)
NamedInv ==
  /\ GateInv
  /\ \A c \in Conns : pc[c] # "idle" => name[c] \in Names

LEMMA NamedInvStep ==
  ASSUME NamedInv, [Next]_vars
  PROVE  NamedInv'
<1> DEFINE Named == \A c \in Conns : pc[c] # "idle" => name[c] \in Names
<1>1. GateInv'
  BY GateInvStep, Zenon DEF NamedInv
<1>2. ASSUME name' = name, \A c \in Conns : pc'[c] # "idle" => pc[c] # "idle" PROVE Named'
  BY <1>2, Zenon DEF NamedInv
<1>3. ASSUME NEW c \in Conns, pc[c] # "idle", name' = name, NEW s, pc' = [pc EXCEPT ![c] = s]
      PROVE  Named'
  BY <1>2, <1>3, Zenon DEF NamedInv, GateInv
<1>4. ASSUME NEW c \in Conns,
             \/ CheckAllowlist(c) \/ CacheHit(c) \/ CacheMiss(c) \/ NoBackend(c) \/ LoadSession(c)
             \/ ReportFetched(c) \/ BackendAnswers(c) \/ Abort(c)
      PROVE  Named'
  <2>1. /\ pc[c] # "idle" /\ name' = name
        /\ \E s \in PCs : pc' = [pc EXCEPT ![c] = s]
    BY <1>4, Zenon DEF CheckAllowlist, CacheHit, CacheMiss, NoBackend, LoadSession, ReportFetched,
         BackendAnswers, BackendFound, BackendFailed, Abort, Respond, PCs
  <2> QED BY <1>3, <2>1, Zenon
<1>5. ASSUME NEW c \in Conns, NextRequest(c) PROVE Named'
  BY <1>5, Zenon DEF NextRequest, NamedInv, GateInv
<1>6. ASSUME NEW c \in Conns, NEW n \in Names, Ask(c, n) PROVE Named'
  BY <1>6, Zenon DEF Ask, NamedInv, GateInv
<1>7. ASSUME NEW r \in Reloaders, LoadManifest(r) \/ SetConfig(r) \/ StoreManifest(r) PROVE Named'
  BY <1>2, <1>7, Zenon DEF LoadManifest, SetConfig, StoreManifest, connVars
<1>8. ASSUME NEW r \in Rotators, BuildSession(r) \/ adopt(r) PROVE Named'
  BY <1>2, <1>8, Zenon DEF BuildSession, adopt, connVars
<1>9. ASSUME NEW d, EditManifest(d) PROVE Named'
  BY <1>2, <1>9, Zenon DEF EditManifest, connVars
<1>10. ASSUME EditFnox \/ Tick \/ UNCHANGED vars PROVE Named'
  BY <1>2, <1>10, Zenon DEF EditFnox, Tick, vars, connVars
<1>11. Named'
  BY <1>4, <1>5, <1>6, <1>7, <1>8, <1>9, <1>10, Zenon DEF Next, GetStep
<1> QED BY <1>1, <1>11, Zenon DEF NamedInv

(* The bounds of every valid manifest are legal bounds of a cache. *)
LEMMA BoundsLegal ==
  ASSUME NEW m \in Manifests
  PROVE  resolve_cache_bounds(m).max_entries \in Caps /\ resolve_cache_bounds(m).ttl \in TTLs
BY FetchAssumption DEF resolve_cache_bounds

(* Every step of FetchPath is a method of the cache, a tick of its clock,  *)
(* or leaves it alone.                                                     *)
LEMMA CacheStep ==
  ASSUME NamedInv, [Next]_vars
  PROVE  [Cache!Next]_(Cache!vars)
<1> DEFINE Goal == [Cache!Next]_(Cache!vars)
<1> SUFFICES Goal
  OBVIOUS
<1>1. ASSUME UNCHANGED cacheVars PROVE Goal
  BY <1>1, Zenon DEF cacheVars, Cache!vars
<1>2. ASSUME Cache!Next PROVE Goal
  BY <1>2, Zenon
<1> HIDE DEF Goal
<1>3. ASSUME NEW c \in Conns, CacheHit(c) \/ CacheMiss(c) PROVE Goal
  <2>1. name[c] \in Names /\ Cache!get(name[c])
    BY <1>3, Zenon DEF CacheHit, CacheMiss, NamedInv
  <2> QED BY <1>2, <2>1, Zenon DEF Cache!Next
<1>4. ASSUME NEW c \in Conns, NEW v \in Values, BackendFound(c, v) PROVE Goal
  <2>1. name[c] \in Names /\ Cache!insert(name[c], v, Cache!NoTTL)
    BY <1>4, Zenon DEF BackendFound, NamedInv
  <2>2. Cache!NoTTL \in Cache!TTLOpts
    BY Zenon DEF Cache!TTLOpts
  <2> QED BY <1>2, <2>1, <2>2, Zenon DEF Cache!Next
<1>5. ASSUME NEW r \in Reloaders, SetConfig(r) PROVE Goal
  <2>1. PICK m \in reload[r].m :
          Cache!set_config(resolve_cache_bounds(m).max_entries, resolve_cache_bounds(m).ttl)
    BY <1>5, Zenon DEF SetConfig
  <2>2. m \in Manifests
    BY <2>1, Zenon DEF NamedInv, GateInv
  <2> QED BY <1>2, <2>1, <2>2, BoundsLegal, Zenon DEF Cache!Next
<1>6. ASSUME Tick PROVE Goal
  BY <1>2, <1>6, Zenon DEF Tick, Cache!Next
<1>7. ASSUME NEW c \in Conns,
             \/ CheckAllowlist(c) \/ NoBackend(c) \/ LoadSession(c) \/ ReportFetched(c)
             \/ NextRequest(c) \/ Abort(c)
      PROVE  Goal
  BY <1>1, <1>7, Zenon DEF CheckAllowlist, NoBackend, LoadSession, ReportFetched, NextRequest, Abort
<1>8. ASSUME NEW c, NEW code, BackendFailed(c, code) PROVE Goal
  BY <1>1, <1>8, Zenon DEF BackendFailed
<1>9. ASSUME NEW c, NEW n, Ask(c, n) PROVE Goal
  BY <1>1, <1>9, Zenon DEF Ask
<1>10. ASSUME NEW r, LoadManifest(r) \/ StoreManifest(r) \/ BuildSession(r) \/ adopt(r) PROVE Goal
  BY <1>1, <1>10, Zenon DEF LoadManifest, StoreManifest, BuildSession, adopt
<1>11. ASSUME NEW d, EditManifest(d) PROVE Goal
  BY <1>1, <1>11, Zenon DEF EditManifest
<1>12. ASSUME EditFnox \/ UNCHANGED vars PROVE Goal
  BY <1>1, <1>12, Zenon DEF EditFnox, vars
<1> QED
  BY <1>3, <1>4, <1>5, <1>6, <1>7, <1>8, <1>9, <1>10, <1>11, <1>12, Zenon
     DEF Next, GetStep, BackendAnswers

(* The gets, reloads and rotations of a project use its cache only through *)
(* its methods, with legal arguments, however they interleave: what        *)
(* BoundedCacheProofs proves of a cache holds of the one in the daemon     *)
(* (dispatch_get and ProjectRegistry::reload as its callers).              *)
THEOREM CacheUsedLegally == Spec => Cache!Spec
<1>1. Init => NamedInv /\ Cache!Init
  <2> SUFFICES ASSUME Init PROVE NamedInv /\ Cache!Init
    OBVIOUS
  <2>1. NamedInv
    BY GateInit, Zenon DEF NamedInv, Init
  <2>2. PICK m \in Manifests : /\ max_entries = resolve_cache_bounds(m).max_entries
                               /\ default_ttl = resolve_cache_bounds(m).ttl
    BY Zenon DEF Init
  <2>3. Cache!Init
    BY <2>2, BoundsLegal, Zenon DEF Init, Cache!Init
  <2> QED BY <2>1, <2>3, Zenon
<1>2. NamedInv /\ [Next]_vars => NamedInv'
  BY NamedInvStep
<1>3. NamedInv /\ [Next]_vars => [Cache!Next]_(Cache!vars)
  BY CacheStep
<1> QED
  BY <1>1, <1>2, <1>3, PTL DEF Spec, Cache!Spec
-----------------------------------------------------------------------------
(* The types.  Those of the cache are what BoundedCacheProofs proves. *)

CacheProofs == INSTANCE BoundedCacheProofs

(* The cache of FetchPath is the one that BoundedCacheProofs is about.     *)
LEMMA SameCacheStep ==
  ASSUME [Cache!Next]_(Cache!vars)
  PROVE  [CacheProofs!Next]_(CacheProofs!vars)
<1>1. \A n : Cache!get(n) => CacheProofs!get(n)
  BY Zenon DEF CacheProofs!get, Cache!get, CacheProofs!is_expired, Cache!is_expired,
       CacheProofs!duration_since, Cache!duration_since, CacheProofs!Remove, Cache!Remove,
       CacheProofs!Restrict, Cache!Restrict
<1>2. CacheProofs!len = Cache!len
  BY Zenon DEF CacheProofs!len, Cache!len, CacheProofs!Cardinality, Cache!Cardinality
<1>3. CacheProofs!evict_oldest(map) = Cache!evict_oldest(map)
  BY Zenon DEF CacheProofs!evict_oldest, Cache!evict_oldest, CacheProofs!Remove, Cache!Remove,
       CacheProofs!Restrict, Cache!Restrict
<1>4. \A n, v, t : Cache!insert(n, v, t) => CacheProofs!insert(n, v, t)
  <2> SUFFICES ASSUME NEW n, NEW v, NEW t, Cache!insert(n, v, t) PROVE CacheProofs!insert(n, v, t)
    BY Zenon
  <2>1. PICK m \in IF n \notin DOMAIN map /\ Cache!len >= max_entries THEN Cache!evict_oldest(map) ELSE {map} :
          map' = Cache!Put(m, n, Cache!NewEntry(v, t))
    BY Zenon DEF Cache!insert
  <2>2. m \in IF n \notin DOMAIN map /\ CacheProofs!len >= max_entries
             THEN CacheProofs!evict_oldest(map) ELSE {map}
    <3>1. CASE n \notin DOMAIN map /\ Cache!len >= max_entries
      BY <1>2, <1>3, <2>1, <3>1, Zenon
    <3>2. CASE ~(n \notin DOMAIN map /\ Cache!len >= max_entries)
      BY <1>2, <2>1, <3>2, Zenon
    <3> QED BY <3>1, <3>2, Zenon
  <2>3. map' = CacheProofs!Put(m, n, CacheProofs!NewEntry(v, t))
    BY <2>1, Zenon DEF CacheProofs!Put, Cache!Put, CacheProofs!NewEntry, Cache!NewEntry,
         CacheProofs!unwrap_ttl, Cache!unwrap_ttl, CacheProofs!NoTTL, Cache!NoTTL
  <2>4. UNCHANGED <<max_entries, default_ttl, now>>
    BY Zenon DEF Cache!insert
  <2> QED BY <2>2, <2>3, <2>4, Zenon DEF CacheProofs!insert
<1>5. CacheProofs!TTLOpts = Cache!TTLOpts
  BY Zenon DEF CacheProofs!TTLOpts, Cache!TTLOpts, CacheProofs!NoTTL, Cache!NoTTL
<1> QED
  BY <1>1, <1>4, <1>5, Zenon DEF CacheProofs!Next, Cache!Next, CacheProofs!vars, Cache!vars,
       CacheProofs!clear, Cache!clear, CacheProofs!set_config, Cache!set_config,
       CacheProofs!Tick, Cache!Tick

LEMMA SameCacheTypes == (CacheProofs!TypeOK <=> Cache!TypeOK) /\ (CacheProofs!TypeOK' <=> Cache!TypeOK')
BY Zenon DEF CacheProofs!TypeOK, Cache!TypeOK, CacheProofs!Entry, Cache!Entry,
     CacheProofs!IsFiniteSet, Cache!IsFiniteSet

LEMMA CacheTypes ==
  ASSUME Cache!TypeOK, [Cache!Next]_(Cache!vars)
  PROVE  Cache!TypeOK'
<1>1. CacheProofs!CacheAssumption
  BY FetchAssumption, Zenon
<1> QED BY <1>1, SameCacheStep, SameCacheTypes, CacheProofs!TypeStep, Zenon

FnoxType ==
  /\ fnox_config \in 1..MaxVersions /\ session \in 0..fnox_config /\ rotated \in 0..fnox_config
  /\ held \in [Conns -> 0..fnox_config] /\ floor \in [Conns -> 0..fnox_config]
  /\ rotate \in [Rotators -> 0..fnox_config]

Loads == {NoLoad} \cup [pc : {"loaded", "configured"}, m : {{m} : m \in Manifests}]

FileType ==
  /\ disk \in {{m} : m \in Manifests} \cup {{}}
  /\ reload \in [Reloaders -> Loads] /\ synced \in BOOLEAN

Replies ==
  [code : {"none", "denied", "not_found", "backend_error"}]
    \cup [code : {"ok"}, value : Values, ttl_seconds : Nat]

ReplyType ==
  /\ DOMAIN value = Conns /\ \A c \in Conns : pc[c] = "cached" => value[c] \in Values
  /\ reply \in [Conns -> Replies]

TypesInv == NamedInv /\ Cache!TypeOK /\ FnoxType /\ FileType /\ ReplyType

LEMMA FnoxTypeStep ==
  ASSUME FnoxType, [Next]_vars
  PROVE  FnoxType'
<1> DEFINE Goal == FnoxType'
<1> SUFFICES Goal
  OBVIOUS
<1>1. ASSUME UNCHANGED <<fnox_config, session, rotated, rotate, floor, held>> PROVE Goal
  BY <1>1, Zenon DEF FnoxType
<1>2. fnox_config \in 0..fnox_config /\ Absent \in 0..fnox_config /\ fnox_config \in Nat
  BY DEF FnoxType, Absent
<1> HIDE DEF Goal
<1>3. ASSUME NEW c \in Conns, LoadSession(c) PROVE Goal
  <2>1. UNCHANGED <<fnox_config, session, rotated, rotate, floor>> /\ held' = [held EXCEPT ![c] = session]
    BY <1>3, Zenon DEF LoadSession, fileVars, adminVars
  <2> QED BY <2>1, Zenon DEF Goal, FnoxType
<1>4. ASSUME NEW c \in Conns, NextRequest(c) PROVE Goal
  <2>1. /\ UNCHANGED <<fnox_config, session, rotated, rotate>>
        /\ held' = [held EXCEPT ![c] = Absent] /\ floor' = [floor EXCEPT ![c] = Absent]
    BY <1>4, Zenon DEF NextRequest, fileVars, adminVars
  <2> QED BY <1>2, <2>1, Zenon DEF Goal, FnoxType
<1>5. ASSUME NEW c \in Conns, NEW n, Ask(c, n) PROVE Goal
  <2>1. UNCHANGED <<fnox_config, session, rotated, rotate, held>> /\ floor' = [floor EXCEPT ![c] = rotated]
    BY <1>5, Zenon DEF Ask, fileVars, adminVars
  <2> QED BY <2>1, Zenon DEF Goal, FnoxType
<1>6. ASSUME NEW r \in Rotators, BuildSession(r) PROVE Goal
  <2>1. UNCHANGED <<fnox_config, session, rotated, floor, held>> /\ rotate' = [rotate EXCEPT ![r] = fnox_config]
    BY <1>6, Zenon DEF BuildSession, fileVars, connVars
  <2> QED BY <1>2, <2>1, Zenon DEF Goal, FnoxType
<1>7. ASSUME NEW r \in Rotators, adopt(r) PROVE Goal
  <2>1. /\ UNCHANGED <<fnox_config, floor, held>> /\ rotate' = [rotate EXCEPT ![r] = Absent]
        /\ session' = rotate[r] /\ rotated' \in {rotate[r], rotated}
    BY <1>7, Zenon DEF adopt, fileVars, connVars
  <2> QED BY <1>2, <2>1, Zenon DEF Goal, FnoxType
<1>8. ASSUME EditFnox PROVE Goal
  <2>1. /\ fnox_config' = fnox_config + 1 /\ fnox_config < MaxVersions
        /\ UNCHANGED <<session, rotated, rotate, floor, held>>
    BY <1>8, Zenon DEF EditFnox, connVars, adminVars
  <2>2. fnox_config' \in 1..MaxVersions /\ \A k \in 0..fnox_config : k \in 0..fnox_config'
    BY <2>1, FetchAssumption DEF FnoxType
  <2>3. 0..fnox_config \subseteq 0..fnox_config'
    BY <2>2, Zenon
  <2> QED BY <2>1, <2>2, <2>3 DEF Goal, FnoxType
<1>9. ASSUME NEW c \in Conns,
             \/ CheckAllowlist(c) \/ CacheHit(c) \/ CacheMiss(c) \/ NoBackend(c) \/ ReportFetched(c)
             \/ BackendAnswers(c) \/ Abort(c)
      PROVE  Goal
  BY <1>1, <1>9, Zenon DEF CheckAllowlist, CacheHit, CacheMiss, NoBackend, ReportFetched, BackendAnswers,
       BackendFound, BackendFailed, Abort, fileVars, adminVars
<1>10. ASSUME NEW r, LoadManifest(r) \/ SetConfig(r) \/ StoreManifest(r) PROVE Goal
  BY <1>1, <1>10, Zenon DEF LoadManifest, SetConfig, StoreManifest, fileVars, connVars
<1>11. ASSUME NEW d, EditManifest(d) PROVE Goal
  BY <1>1, <1>11, Zenon DEF EditManifest, connVars
<1>12. ASSUME Tick \/ UNCHANGED vars PROVE Goal
  BY <1>1, <1>12, Zenon DEF Tick, vars, fileVars, connVars, adminVars
<1> QED
  BY <1>3, <1>4, <1>5, <1>6, <1>7, <1>8, <1>9, <1>10, <1>11, <1>12, Zenon DEF Next, GetStep

LEMMA FileTypeStep ==
  ASSUME FileType, [Next]_vars
  PROVE  FileType'
<1> DEFINE Goal == FileType'
<1> SUFFICES Goal
  OBVIOUS
<1>1. ASSUME UNCHANGED <<disk, reload, synced>> PROVE Goal
  BY <1>1, Zenon DEF FileType
<1> HIDE DEF Goal
<1>2. ASSUME NEW r \in Reloaders, NEW l \in Loads, reload' = [reload EXCEPT ![r] = l],
             disk' = disk, synced' \in BOOLEAN
      PROVE  Goal
  BY <1>2, Zenon DEF Goal, FileType
<1>3. ASSUME NEW r \in Reloaders, LoadManifest(r) PROVE Goal
  <2>1. /\ disk # {} /\ disk' = disk /\ synced' = synced
        /\ reload' = [reload EXCEPT ![r] = [pc |-> "loaded", m |-> disk]]
    BY <1>3, Zenon DEF LoadManifest, fileVars
  <2>2. [pc |-> "loaded", m |-> disk] \in Loads
    BY <2>1 DEF FileType, Loads
  <2> QED BY <1>2, <2>1, <2>2, Zenon DEF FileType
<1>4. ASSUME NEW r \in Reloaders, SetConfig(r) PROVE Goal
  <2>1. /\ reload[r].pc = "loaded" /\ disk' = disk /\ synced' = synced
        /\ reload' = [reload EXCEPT ![r] = [reload[r] EXCEPT !.pc = "configured"]]
    BY <1>4 DEF SetConfig, fileVars
  <2>2. reload[r] \in Loads
    BY Zenon DEF FileType
  <2>3. [reload[r] EXCEPT !.pc = "configured"] \in Loads
    BY <2>1, <2>2 DEF Loads, NoLoad
  <2> QED BY <1>2, <2>1, <2>3, Zenon DEF FileType
<1>5. ASSUME NEW r \in Reloaders, StoreManifest(r) PROVE Goal
  <2>1. /\ disk' = disk /\ reload' = [reload EXCEPT ![r] = NoLoad]
        /\ synced' = (synced \/ reload[r].m = disk)
    BY <1>5, Zenon DEF StoreManifest, fileVars
  <2>2. NoLoad \in Loads /\ synced' \in BOOLEAN
    BY <2>1, Zenon DEF Loads, FileType
  <2> QED BY <1>2, <2>1, <2>2, Zenon
<1>6. ASSUME NEW d \in {{m} : m \in Manifests} \cup {{}}, EditManifest(d) PROVE Goal
  BY <1>6, Zenon DEF EditManifest, Goal, FileType
<1>7. ASSUME NEW c \in Conns, GetStep(c) \/ BackendAnswers(c) \/ Abort(c) PROVE Goal
  BY <1>1, <1>7, Zenon DEF GetStep, CheckAllowlist, CacheHit, CacheMiss, NoBackend, LoadSession,
       ReportFetched, NextRequest, BackendAnswers, BackendFound, BackendFailed, Abort, fileVars, adminVars
<1>8. ASSUME NEW c, NEW n, Ask(c, n) PROVE Goal
  BY <1>1, <1>8, Zenon DEF Ask, fileVars, adminVars
<1>9. ASSUME NEW r, BuildSession(r) \/ adopt(r) PROVE Goal
  BY <1>1, <1>9, Zenon DEF BuildSession, adopt, fileVars
<1>10. ASSUME EditFnox \/ Tick \/ UNCHANGED vars PROVE Goal
  BY <1>1, <1>10, Zenon DEF EditFnox, Tick, vars, fileVars, adminVars
<1> QED BY <1>3, <1>4, <1>5, <1>6, <1>7, <1>8, <1>9, <1>10, Zenon DEF Next

(* A hit is a value of the cache, with whole seconds to live.              *)
LEMMA HitType ==
  ASSUME Cache!TypeOK, NEW n, Cache!Lookup(n).hit
  PROVE  Cache!Lookup(n).value \in Values /\ Cache!Lookup(n).ttl_seconds \in Nat
<1>1. n \in DOMAIN map
  BY DEF Cache!Lookup, Cache!Miss
<1>2. /\ Cache!Lookup(n).value = map[n].value
      /\ Cache!Lookup(n).ttl_seconds = Cache!remaining_ttl(map[n], now) \div TicksPerSec
  BY DEF Cache!Lookup, Cache!Miss
<1>3. map[n] \in Cache!Entry /\ now \in Nat
  BY <1>1, Zenon DEF Cache!TypeOK
<1>4. map[n].value \in Values /\ map[n].fetched_at \in Nat /\ map[n].ttl \in Nat
  BY <1>3 DEF Cache!Entry
<1>5. Cache!remaining_ttl(map[n], now) \in Nat
  BY <1>3, <1>4 DEF Cache!remaining_ttl, Cache!duration_since
<1>6. Cache!remaining_ttl(map[n], now) \div TicksPerSec \in Nat
  BY <1>5, FetchAssumption
<1> QED BY <1>2, <1>4, <1>6, Zenon

LEMMA ReplyTypeStep ==
  ASSUME NamedInv, Cache!TypeOK, ReplyType, [Next]_vars
  PROVE  ReplyType'
<1> DEFINE Goal == ReplyType'
<1> SUFFICES Goal
  OBVIOUS
<1>1. ASSUME value' = value, reply' = reply, \A c \in Conns : pc'[c] = "cached" => pc[c] = "cached"
      PROVE  Goal
  BY <1>1, Zenon DEF ReplyType
<1> HIDE DEF Goal
<1>2. pc \in [Conns -> PCs]
  BY Zenon DEF NamedInv, GateInv
<1>3. ASSUME NEW c \in Conns, NEW s, s # "cached", pc' = [pc EXCEPT ![c] = s],
             UNCHANGED <<value, reply>>
      PROVE  Goal
  BY <1>1, <1>2, <1>3, Zenon
<1>4. ASSUME NEW c \in Conns, NEW response \in Replies, NEW e, Respond(c, response, e), value' = value
      PROVE  Goal
  BY <1>2, <1>4, Zenon DEF Goal, ReplyType, Respond
<1>5. ASSUME NEW v \in Values, NEW secs \in Nat PROVE Value(v, secs) \in Replies
  BY DEF Value, Replies
<1>6. ASSUME NEW code \in {"none", "denied", "not_found", "backend_error"} PROVE Error(code) \in Replies
  BY DEF Error, Replies
<1>7. ASSUME NEW c \in Conns, CheckAllowlist(c) \/ NoBackend(c) PROVE Goal
  BY <1>3, <1>4, <1>6, <1>7, Zenon DEF CheckAllowlist, NoBackend
<1>8. ASSUME NEW c \in Conns, CacheHit(c) PROVE Goal
  BY <1>4, <1>5, <1>8, HitType, Zenon DEF CacheHit
<1>9. ASSUME NEW c \in Conns, CacheMiss(c) \/ LoadSession(c) \/ Abort(c) PROVE Goal
  BY <1>3, <1>9, Zenon DEF CacheMiss, LoadSession, Abort
<1>10. ASSUME NEW c \in Conns, ReportFetched(c) PROVE Goal
  <2>1. value[c] \in Values
    BY <1>10, Zenon DEF ReportFetched, ReplyType
  <2>2. default_ttl \div TicksPerSec \in Nat
    <3>1. default_ttl \in TTLs
      BY Zenon DEF Cache!TypeOK
    <3> QED BY <3>1, FetchAssumption
  <2> QED BY <1>4, <1>5, <1>10, <2>1, <2>2, Zenon DEF ReportFetched
<1>11. ASSUME NEW c \in Conns, NEW v \in Values, BackendFound(c, v) PROVE Goal
  BY <1>2, <1>11, Zenon DEF BackendFound, Goal, ReplyType
<1>12. ASSUME NEW c \in Conns, NEW code \in {"not_found", "backend_error"}, BackendFailed(c, code) PROVE Goal
  BY <1>4, <1>6, <1>12, Zenon DEF BackendFailed
<1>13. ASSUME NEW c \in Conns, NextRequest(c) PROVE Goal
  <2>1. NoReply \in Replies
    BY DEF NoReply, Replies
  <2> QED BY <1>2, <1>13, <2>1, Zenon DEF NextRequest, Goal, ReplyType
<1>14. ASSUME NEW c \in Conns, NEW n, Ask(c, n) PROVE Goal
  BY <1>3, <1>14, Zenon DEF Ask
<1>15. ASSUME NEW r, LoadManifest(r) \/ SetConfig(r) \/ StoreManifest(r) \/ BuildSession(r) \/ adopt(r)
       PROVE  Goal
  BY <1>1, <1>15, Zenon DEF LoadManifest, SetConfig, StoreManifest, BuildSession, adopt, connVars
<1>16. ASSUME NEW d, EditManifest(d) PROVE Goal
  BY <1>1, <1>16, Zenon DEF EditManifest, connVars
<1>17. ASSUME EditFnox \/ Tick \/ UNCHANGED vars PROVE Goal
  BY <1>1, <1>17, Zenon DEF EditFnox, Tick, vars, connVars
<1> QED
  BY <1>7, <1>8, <1>9, <1>10, <1>11, <1>12, <1>13, <1>14, <1>15, <1>16, <1>17, Zenon
     DEF Next, GetStep, BackendAnswers

(* The type invariant of the run `fetch': gets, reloads and rotations keep *)
(* the state of dispatch_get, reload and the backend session in its        *)
(* domain, and no response is ever of another shape.                       *)
THEOREM TypeCorrect == Spec => []TypeOK
<1>1. Init => TypesInv
  <2> SUFFICES ASSUME Init PROVE TypesInv
    OBVIOUS
  <2>1. PICK m \in Manifests : /\ disk = {m}
                               /\ max_entries = resolve_cache_bounds(m).max_entries
                               /\ default_ttl = resolve_cache_bounds(m).ttl
    BY Zenon DEF Init
  <2>2. NamedInv
    BY GateInit, Zenon DEF NamedInv, Init
  <2>3. Cache!TypeOK
    <3>1. map = << >> /\ now = 0 /\ DOMAIN map = {}
      BY DEF Init
    <3>2. Cache!IsFiniteSet({})
      <4>1. << >> \in Seq({})
        OBVIOUS
      <4> QED BY <4>1, Zenon DEF Cache!IsFiniteSet
    <3> QED BY <2>1, <3>1, <3>2, BoundsLegal DEF Cache!TypeOK
  <2>4. FnoxType
    BY FetchAssumption DEF Init, FnoxType, Absent
  <2>5. FileType
    BY <2>1, Zenon DEF Init, FileType, Loads
  <2>6. ReplyType
    <3>1. NoReply \in Replies
      BY DEF NoReply, Replies
    <3> QED BY <3>1, Zenon DEF Init, ReplyType
  <2> QED BY <2>2, <2>3, <2>4, <2>5, <2>6, Zenon DEF TypesInv
<1>2. TypesInv /\ [Next]_vars => TypesInv'
  BY NamedInvStep, CacheStep, CacheTypes, FnoxTypeStep, FileTypeStep, ReplyTypeStep, Zenon DEF TypesInv
<1>3. TypesInv => TypeOK
  BY Zenon DEF TypesInv, NamedInv, GateInv, FnoxType, FileType, Loads, ReplyType, Replies, PCs, TypeOK
<1> QED
  BY <1>1, <1>2, <1>3, PTL DEF Spec
-----------------------------------------------------------------------------
(* Gets finish.  The step at which each stage of a get arrives is one of a *)
(* few, and only the get's own task takes it; the proof then walks the     *)
(* stages under the weak fairness of that task.                            *)

Onward(c) ==
  CASE pc[c] = "asked"  -> {"lookup", "answered"}
    [] pc[c] = "lookup" -> {"missed", "answered"}
    [] pc[c] = "missed" -> {"fetch", "answered"}
    [] pc[c] = "cached" -> {"answered"}

(* The task of a get moves it on.                                          *)
LEMMA OwnStepMoves ==
  ASSUME GateInv, NEW c \in Conns, GetStep(c), pc[c] \in OwnWork
  PROVE  pc'[c] \in Onward(c)
<1> USE DEF GateInv, OwnWork, Onward
<1>1. CASE CheckAllowlist(c)
  BY <1>1 DEF CheckAllowlist, Respond
<1>2. CASE CacheHit(c)
  BY <1>2 DEF CacheHit, Respond
<1>3. CASE CacheMiss(c)
  BY <1>3 DEF CacheMiss
<1>4. CASE NoBackend(c)
  BY <1>4 DEF NoBackend, Respond
<1>5. CASE LoadSession(c)
  BY <1>5 DEF LoadSession
<1>6. CASE ReportFetched(c)
  BY <1>6 DEF ReportFetched, Respond
<1>7. CASE NextRequest(c)
  BY <1>7 DEF NextRequest
<1> QED
  BY <1>1, <1>2, <1>3, <1>4, <1>5, <1>6, <1>7, ZenonT(30) DEF GetStep

(* Nobody else moves it: neither the other connections nor a reload, a     *)
(* rotation, an edit or time.                                              *)
LEMMA OthersLeaveIt ==
  ASSUME GateInv, [Next]_vars, NEW c \in Conns, pc[c] \in OwnWork
  PROVE  pc'[c] = pc[c] \/ GetStep(c)
<1> USE DEF GateInv, OwnWork
<1>1. ASSUME NEW d \in Conns, d # c, GetStep(d) PROVE pc'[c] = pc[c]
  <2>1. CASE CheckAllowlist(d)
    BY <1>1, <2>1, Zenon DEF CheckAllowlist, Respond
  <2>2. CASE CacheHit(d)
    BY <1>1, <2>2, Zenon DEF CacheHit, Respond
  <2>3. CASE CacheMiss(d)
    BY <1>1, <2>3, Zenon DEF CacheMiss
  <2>4. CASE NoBackend(d)
    BY <1>1, <2>4, Zenon DEF NoBackend, Respond
  <2>5. CASE LoadSession(d)
    BY <1>1, <2>5, Zenon DEF LoadSession
  <2>6. CASE ReportFetched(d)
    BY <1>1, <2>6 DEF ReportFetched, Respond
  <2>7. CASE NextRequest(d)
    BY <1>1, <2>7, Zenon DEF NextRequest
  <2> QED
    BY <1>1, <2>1, <2>2, <2>3, <2>4, <2>5, <2>6, <2>7 DEF GetStep
<1>2. ASSUME NEW d \in Conns, BackendAnswers(d) \/ Abort(d) PROVE pc'[c] = pc[c]
  <2>1. pc[d] = "fetch" /\ d # c
    BY <1>2, Zenon DEF BackendAnswers, BackendFound, BackendFailed, Abort
  <2> QED
    BY <1>2, <2>1, ZenonT(30) DEF BackendAnswers, BackendFound, BackendFailed, Respond, Abort
<1>3. ASSUME NEW d \in Conns, NEW n \in Names, Ask(d, n) PROVE pc'[c] = pc[c]
  BY <1>3, Zenon DEF Ask
<1>4. ASSUME NEW r \in Reloaders, LoadManifest(r) \/ SetConfig(r) \/ StoreManifest(r)
      PROVE  pc' = pc
  BY <1>4, Zenon DEF LoadManifest, SetConfig, StoreManifest, connVars
<1>5. ASSUME NEW r \in Rotators, BuildSession(r) \/ adopt(r) PROVE pc' = pc
  BY <1>5, Zenon DEF BuildSession, adopt, connVars
<1>6. ASSUME NEW d, EditManifest(d) PROVE pc' = pc
  BY <1>6, Zenon DEF EditManifest, connVars
<1>7. ASSUME EditFnox \/ Tick PROVE pc' = pc
  BY <1>7, Zenon DEF EditFnox, Tick, connVars
<1>8. CASE UNCHANGED vars
  BY <1>8, Zenon DEF vars, connVars
<1> QED
  BY <1>1, <1>2, <1>3, <1>4, <1>5, <1>6, <1>7, <1>8, Zenon DEF Next

Fair(c) == WF_vars(GetStep(c))

LEMMA GateInvHolds == Spec => []GateInv
<1>1. GateInv /\ [Next]_vars => GateInv'
  BY GateInvStep
<1> QED BY GateInit, <1>1, PTL DEF Spec

LEMMA GetEnds ==
  ASSUME NEW c \in Conns
  PROVE  Spec /\ []CanAllStep /\ Fair(c) => GetFinishes(c)
<1> DEFINE At(p) == pc[c] = p
           Out   == pc[c] \in {"answered", "fetch", "gone"}
<1>1. CanAllStep => CanStep(c)
  BY Zenon DEF CanAllStep
<1>2. At("asked") \/ At("lookup") \/ At("missed") \/ At("cached") <=> pc[c] \in OwnWork
  BY DEF OwnWork
<1>3. GateInv /\ [Next]_vars /\ At("asked") => At("asked")' \/ At("lookup")' \/ At("answered")'
  BY OwnStepMoves, OthersLeaveIt DEF OwnWork, Onward
<1>4. GateInv /\ [Next]_vars /\ At("lookup") => At("lookup")' \/ At("missed")' \/ At("answered")'
  BY OwnStepMoves, OthersLeaveIt DEF OwnWork, Onward
<1>5. GateInv /\ [Next]_vars /\ At("missed") => At("missed")' \/ At("fetch")' \/ At("answered")'
  BY OwnStepMoves, OthersLeaveIt DEF OwnWork, Onward
<1>6. GateInv /\ [Next]_vars /\ At("cached") => At("cached")' \/ At("answered")'
  BY OwnStepMoves, OthersLeaveIt DEF OwnWork, Onward
<1>7. GateInv /\ <<GetStep(c)>>_vars /\ At("asked") => At("lookup")' \/ At("answered")'
  BY OwnStepMoves DEF OwnWork, Onward
<1>8. GateInv /\ <<GetStep(c)>>_vars /\ At("lookup") => At("missed")' \/ At("answered")'
  BY OwnStepMoves DEF OwnWork, Onward
<1>9. GateInv /\ <<GetStep(c)>>_vars /\ At("missed") => At("fetch")' \/ At("answered")'
  BY OwnStepMoves DEF OwnWork, Onward
<1>10. GateInv /\ <<GetStep(c)>>_vars /\ At("cached") => At("answered")'
  BY OwnStepMoves DEF OwnWork, Onward
<1>11. At("answered") \/ At("fetch") => Out
  OBVIOUS
<1>12. CanStep(c) /\ (At("asked") \/ At("lookup") \/ At("missed") \/ At("cached"))
         => ENABLED <<GetStep(c)>>_vars
  BY <1>2, Zenon DEF CanStep
<1> QED
  BY GateInvHolds, <1>1, <1>3, <1>4, <1>5, <1>6, <1>7, <1>8, <1>9, <1>10, <1>11, <1>12, PTL
     DEF GetFinishes, Spec, Fair

(* A get that is not at the backend reaches its answer or the backend: for *)
(* any number of connections, reloads and rotations, under weak fairness   *)
(* of the get's own task.  That the task can always take a step is the     *)
(* hypothesis, since ENABLED is beyond the provers; MCFetchPathFair checks *)
(* it (dispatch_get).                                                      *)
THEOREM GetsEnd == FairSpec /\ []CanAllStep => GetsFinish
<1>1. Spec /\ []CanAllStep /\ (\A c \in Conns : Fair(c)) => \A c \in Conns : GetFinishes(c)
  BY GetEnds, Zenon
<1> QED BY <1>1, PTL DEF FairSpec, NeverStuck, GetsFinish, Fair
-----------------------------------------------------------------------------
(* The cache in the daemon. *)

LEMMA SameCache == Spec => CacheProofs!Spec
<1>1. Cache!Init => CacheProofs!Init
  BY Zenon DEF Cache!Init, CacheProofs!Init
<1>2. [Cache!Next]_(Cache!vars) => [CacheProofs!Next]_(CacheProofs!vars)
  BY SameCacheStep
<1> QED BY <1>1, <1>2, CacheUsedLegally, PTL DEF Cache!Spec, CacheProofs!Spec

LEMMA SameLookup == \A n : CacheProofs!Lookup(n) = Cache!Lookup(n)
BY Zenon DEF CacheProofs!Lookup, Cache!Lookup, CacheProofs!Miss, Cache!Miss,
     CacheProofs!is_expired, Cache!is_expired, CacheProofs!remaining_ttl, Cache!remaining_ttl,
     CacheProofs!duration_since, Cache!duration_since

(* In the daemon, whatever gets, reloads and rotations do to a cache in    *)
(* whatever order: a hit is live and its ttl_seconds what is left of its   *)
(* lifetime, an entry stays as it was fetched, the cache grows only to the *)
(* cap in force, and what it drops is the oldest (dispatch_get and reload  *)
(* as the callers of BoundedCache).                                        *)
THEOREM CacheInDaemon ==
  Spec => /\ []Cache!HitIsLive /\ []Cache!NeverAboveLargestCap
          /\ Cache!GrowsOnlyToCap /\ Cache!OldestLeavesFirst
          /\ Cache!RefreshEvictsNothing /\ Cache!EntryChangesOnlyByRefetch
<1>1. CacheProofs!CacheAssumption
  BY FetchAssumption, Zenon
<1>2. CacheProofs!Spec =>
        /\ []CacheProofs!HitIsLive /\ []CacheProofs!NeverAboveLargestCap
        /\ CacheProofs!GrowsOnlyToCap /\ CacheProofs!OldestLeavesFirst
        /\ CacheProofs!RefreshEvictsNothing /\ CacheProofs!EntryChangesOnlyByRefetch
  BY <1>1, CacheProofs!HitsAreLive, CacheProofs!LargestCap, CacheProofs!Growth, CacheProofs!OldestFirst,
     CacheProofs!RefreshInPlace, CacheProofs!EntriesStable, Zenon
<1>3. CacheProofs!HitIsLive => Cache!HitIsLive
  BY SameLookup, Zenon DEF CacheProofs!HitIsLive, Cache!HitIsLive
<1>4. CacheProofs!len = Cache!len /\ CacheProofs!len' = Cache!len'
  BY Zenon DEF CacheProofs!len, Cache!len, CacheProofs!Cardinality, Cache!Cardinality
<1>5. CacheProofs!NeverAboveLargestCap => Cache!NeverAboveLargestCap
  BY <1>4, Zenon DEF CacheProofs!NeverAboveLargestCap, Cache!NeverAboveLargestCap
<1>6. [CacheProofs!len' > CacheProofs!len => CacheProofs!len' <= max_entries]_(CacheProofs!vars)
        => [Cache!len' > Cache!len => Cache!len' <= max_entries]_(Cache!vars)
  BY <1>4, Zenon DEF CacheProofs!vars, Cache!vars
<1>7. \A e, t : CacheProofs!is_expired(e, t) <=> Cache!is_expired(e, t)
  BY Zenon DEF CacheProofs!is_expired, Cache!is_expired, CacheProofs!duration_since, Cache!duration_since
<1>8. [\A k \in DOMAIN map \ DOMAIN map' :
         \/ CacheProofs!is_expired(map[k], now)
         \/ \A j \in DOMAIN map \cap DOMAIN map' : map[k].fetched_at <= map'[j].fetched_at]_(CacheProofs!vars)
        => [\A k \in DOMAIN map \ DOMAIN map' :
              \/ Cache!is_expired(map[k], now)
              \/ \A j \in DOMAIN map \cap DOMAIN map' : map[k].fetched_at <= map'[j].fetched_at]_(Cache!vars)
  BY <1>7, Zenon DEF CacheProofs!vars, Cache!vars
<1>9. CacheProofs!RefreshEvictsNothing => Cache!RefreshEvictsNothing
  BY PTL DEF CacheProofs!RefreshEvictsNothing, Cache!RefreshEvictsNothing, CacheProofs!vars, Cache!vars
<1>10. CacheProofs!EntryChangesOnlyByRefetch => Cache!EntryChangesOnlyByRefetch
  BY PTL DEF CacheProofs!EntryChangesOnlyByRefetch, Cache!EntryChangesOnlyByRefetch, CacheProofs!vars, Cache!vars
<1>11. CacheProofs!GrowsOnlyToCap => Cache!GrowsOnlyToCap
  BY <1>6, PTL DEF CacheProofs!GrowsOnlyToCap, Cache!GrowsOnlyToCap
<1>12. CacheProofs!OldestLeavesFirst => Cache!OldestLeavesFirst
  BY <1>8, PTL DEF CacheProofs!OldestLeavesFirst, Cache!OldestLeavesFirst
<1> QED BY <1>2, <1>3, <1>5, <1>9, <1>10, <1>11, <1>12, SameCache, PTL
=============================================================================
