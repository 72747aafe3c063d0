--------------------------- MODULE RegistryService ---------------------------
(***************************************************************************)
(* What the admin plane promises: each request has its effect at one       *)
(* instant between its arrival and its answer, a refused request has none, *)
(* only a validated manifest of the name is ever in force, and what status *)
(* and info report was true at one instant.  A reload works on the project *)
(* that was registered at one instant after it came.  Requests implements  *)
(* it.                                                                     *)
(***************************************************************************)
EXTENDS Integers, Sequences

CONSTANTS Conns,    \* connections
          Names,    \* project names
          Reqs,     \* what a request line can say
          Accepts   \* Accepts[n]: the manifests valid for a project named n

VARIABLES registry,   \* per name: the number of its project, 0 without one
          manifests,  \* per project ever registered: the manifest in force
          stage       \* per connection

serviceVars == <<registry, manifests, stage>>

Quiet         == [at |-> "quiet"]
Asked(req, i) == [at |-> "asked", req |-> req, project |-> i]
Done(code, d) == [at |-> "done", code |-> code, data |-> d]

Allowlist(m) == {m.secrets[i] : i \in DOMAIN m.secrets}

\* The requests of a project connection, which belongs to one project; a
\* line it cannot read is like one of the admin plane.
OnProject == {"get", "ping", "info"}

Init ==
  /\ registry = [n \in Names |-> 0]
  /\ manifests = << >>
  /\ stage = [c \in Conns |-> Quiet]

Ask(c) ==
  /\ stage[c] = Quiet
  /\ \E req \in Reqs, i \in 0..Len(manifests) :
       /\ req.op \in OnProject <=> i # 0
       /\ stage' = [stage EXCEPT ![c] = Asked(req, i)]
  /\ UNCHANGED <<registry, manifests>>

Asking(c, op) == stage[c].at = "asked" /\ stage[c].req.op = op

Answer(c, code, data) == stage' = [stage EXCEPT ![c] = Done(code, data)]

Register(c) ==
  /\ Asking(c, "register")
  /\ registry[stage[c].req.name] = 0
  /\ \E m \in Accepts[stage[c].req.name] : manifests' = Append(manifests, m)
  /\ registry' = [registry EXCEPT ![stage[c].req.name] = Len(manifests) + 1]
  /\ Answer(c, "ok", {})

Unregister(c) ==
  /\ Asking(c, "unregister")
  /\ registry[stage[c].req.name] # 0
  /\ registry' = [registry EXCEPT ![stage[c].req.name] = 0]
  /\ Answer(c, "ok", {})
  /\ UNCHANGED manifests

Bind(c) ==
  /\ Asking(c, "reload") /\ stage[c].project = 0
  /\ registry[stage[c].req.name] # 0
  /\ stage' = [stage EXCEPT ![c] = Asked(stage[c].req, registry[stage[c].req.name])]
  /\ UNCHANGED <<registry, manifests>>

Reload(c) ==
  /\ Asking(c, "reload") /\ stage[c].project # 0
  /\ \E m \in Accepts[stage[c].req.name] :
       /\ manifests' = [manifests EXCEPT ![stage[c].project] = m]
       /\ Answer(c, "ok", Allowlist(m))
  /\ UNCHANGED registry

\* The refusals; two of them speak of the registry.
Refuse(c) ==
  /\ \E op \in {"register", "unregister", "reload"} : Asking(c, op)
  /\ \E code \in {"project_exists", "project_unknown", "manifest_not_found",
                  "manifest_invalid", "internal_error"} :
       /\ code = "project_exists" =>
            Asking(c, "register") /\ registry[stage[c].req.name] # 0
       /\ code = "project_unknown" =>
            ~Asking(c, "register") /\ registry[stage[c].req.name] = 0
       /\ Answer(c, code, {})
  /\ UNCHANGED <<registry, manifests>>

Status(c) ==
  /\ Asking(c, "status")
  /\ Answer(c, "ok", {n \in Names : registry[n] # 0})
  /\ UNCHANGED <<registry, manifests>>

Info(c) ==
  /\ Asking(c, "info")
  /\ Answer(c, "ok", Allowlist(manifests[stage[c].project]))
  /\ UNCHANGED <<registry, manifests>>

Get(c) ==
  /\ Asking(c, "get")
  /\ \E code \in {"ok", "denied", "not_found", "backend_error"} :
       /\ code = "denied" <=> stage[c].req.name \notin Allowlist(manifests[stage[c].project])
       /\ Answer(c, code, {})
  /\ UNCHANGED <<registry, manifests>>

Ping(c) ==
  /\ Asking(c, "ping")
  /\ Answer(c, "ok", {})
  /\ UNCHANGED <<registry, manifests>>

Rotate(c) ==
  /\ Asking(c, "rotate-bootstrap")
  /\ \E code \in {"ok", "bootstrap_error"} : Answer(c, code, {})
  /\ UNCHANGED <<registry, manifests>>

Reject(c) ==
  /\ Asking(c, "malformed")
  /\ Answer(c, "protocol_error", {})
  /\ UNCHANGED <<registry, manifests>>

\* The answer is written, or the client is gone; a request of a project
\* connection can end with its project.
Leave(c) ==
  /\ stage[c].at = "done" \/ \E op \in OnProject \cup {"malformed"} : Asking(c, op)
  /\ stage' = [stage EXCEPT ![c] = Quiet]
  /\ UNCHANGED <<registry, manifests>>

Next ==
  \E c \in Conns :
    \/ Ask(c) \/ Register(c) \/ Unregister(c) \/ Bind(c) \/ Reload(c)
    \/ Refuse(c) \/ Status(c) \/ Info(c) \/ Get(c) \/ Ping(c) \/ Rotate(c)
    \/ Reject(c) \/ Leave(c)

Spec == Init /\ [][Next]_serviceVars
=============================================================================
