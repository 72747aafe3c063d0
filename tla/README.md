# A TLA+ model of remo-broker

remo-broker is a daemon that hands secrets to projects over Unix sockets. An
admin registers projects; each project has a socket of its own, an allowlist
(its manifest) and a cache; a secret that is not cached is fetched from a
backend through fnox-core; every fetch is audited. This directory models the
daemon from its command line to its exit, checks the models with TLC on small
instances, and proves all of their safety properties, all four refinements and
most of their liveness for all instances with TLAPS. Paths such as
`src/server.rs` are relative to the repository root; module headers and
`PROJECT.json` put the checkout directory `src/` in front of them.

## Inventory

| Component | Source | State | Operations that change it |
|---|---|---|---|
| Secret cache | `src/cache.rs` | map of entries, `max_entries`, `default_ttl` (one mutex) | `get` (drops an expired entry), `insert`, `clear`, `set_config` |
| Registry | `src/registry.rs` | projects by name (RwLock); per project the manifest (ArcSwap), the cache, `stop` (Notify) | `register`, `unregister`, `reload` |
| Server | `src/server.rs` | `project_tasks` (Mutex), admin and project connections, socket files | admin requests, accept loops, SIGTERM, drain |
| Fetch path | `src/server.rs` `dispatch_get` | nothing of its own | allowlist test, cache, backend, audit |
| Backend session | `src/backend.rs` | active `Fnox` (ArcSwap), or none (degraded mode) | `adopt` on `rotate-bootstrap` |
| Audit log | `src/audit.rs` | bounded channel, drop counter, degraded buffer, file | `record`, `writer_loop`, `shutdown_audit` |
| Bootstrap | `src/bootstrap.rs` | one fetch: its request, its timers | reads a token from file, environment or IMDS |
| Manifest, config | `src/manifest.rs`, `src/config.rs` | the files | discover, read, validate, resolve |
| Protocol and framing | `src/proto/`, `src/server.rs` `read_line_capped` | the bytes of a connection | one request per line, one answer per request |
| Startup | `src/main.rs`, `Server::run` | the process, the file `admin.sock` | config, token, session, directory, bind, READY, signal handler |

How they interact: the admin plane writes the registry, the manifests, the
cache bounds and the session, while connection tasks of the project plane read
them. The runtime is multi-threaded, so anything may run between two accesses
to different shared objects. At shutdown everything depends on who still holds
an `Arc<Server>`, because the audit writer ends with the last of them and
`main` waits for it.

The systemd unit restarts the daemon when it fails; of an earlier process only
files are left.

What is hard to test here: notifications that reach nobody
(`Notify::notify_waiters` stores no permit), requests that overlap the drain,
two admin connections at work on one project, a reload or a rotation between
two steps of a get, aborted tasks that are not gone yet, a file that fails for
a while or in the middle of a line, the buffers at their limits, manifests and
configuration that are edited while they are read, a metadata service that
answers late, half or not at all, and a kill between any two steps of a start.
The hazards are listed with their lines in `PROJECT.json`.

## Modules

| Module | Models | Role |
|---|---|---|
| `BoundedCache` | `src/cache.rs` | component; each method is one atomic step, because each holds the mutex throughout |
| `Lifecycle` | `src/server.rs` (`Server::run`, `dispatch_register`, `dispatch_unregister`, `run_project_socket`, `drain_project_loops`), `src/registry.rs` | component: main task, admin connections, accept loops, connection tasks |
| `FetchPath` | `dispatch_get`, `ProjectRegistry::reload`, `dispatch_rotate_bootstrap`, `src/backend.rs` | composition: several gets, reloads and rotations around one `BoundedCache` |
| `AllowlistGate` | | abstract specification `FetchPath` implements |
| `AuditLog` | `src/audit.rs`, `Server::shutdown_audit` | component: producers and the writer task |
| `LossyLog` | | abstract specification `AuditLog` implements |
| `Manifest` | `src/manifest.rs`, `resolve_cache_bounds` | operators: discovery, reading, validation, errors |
| `Requests` | `src/proto/`, `handle_admin_connection`, `handle_project_connection`, `read_line_capped`, the dispatch of every request, `src/registry.rs` | composition: connections and the registry over the manifest files |
| `RegistryService` | | abstract specification `Requests` implements |
| `Config` | `src/config.rs`, `Cli::into_overrides` | operators: the layers of configuration and their checks |
| `Bootstrap` | `src/bootstrap.rs` | component: one fetch of the token |
| `Startup` | `src/main.rs`, the set-up half of `Server::run`, `src/backend.rs` (`open`, `discover`), the failures of a rotation | composition of `Config`, `Bootstrap` and the process with its restarts |
| `...Proofs` | | theorems: `RequestsProofs` and `AnswersProofs` are about `Requests`, `AuditLogProofs` and `AuditTrailProofs` about `AuditLog`, the others about the module they are named after |
| `MC...` | | values for the constants |

Definitions keep the names of the functions they model where one action is one
function. Where a function has several steps that others can observe, each
step is an action, and `PROJECT.json` maps it to its lines. Definitions called
`Mut...` are deliberately wrong versions of the definition that follows them.
They are not part of any specification; each shows that some property would
notice that mistake.

**BoundedCache.** `map`, `max_entries` and `default_ttl` are the fields of
`Inner`; `now` is the monotonic clock in ticks, of which `TicksPerSec` make the
second that `ttl_seconds` is rounded down to. `Lookup(n)` is what `get` returns
and `get(n)` what it does. `evict_oldest` is a set of possible results: which
of several equally old entries goes depends on the hash order. `insert` takes
the optional TTL of the code; `NoTTL` is the `None` that `dispatch_get` passes.

**Lifecycle.** A registration is an instance: a `Project`, its listener, its
accept loop. `registry`, `project_tasks` and `sockfile` map a name to an
instance; the three are changed at different moments, and that is the point.
An accept loop is `spawned`, in its `select!`, `busy` after an accept, in its
drain, or done. `notify_waiters` sets `notified` only for a loop that is in its
`select!`; the same holds for the SIGTERM notification and the admin loop. An
unregister holds the instance whose handle it took, not the one it removed,
because the code looks the handle up by name. `AbortLoop` ends a loop but not
its connection tasks: dropping a JoinSet cancels them without waiting. `Exit`
needs `ServerHolders` to be empty. `Crash` kills and restarts the process:
files stay, nothing else does. Requests that are answered with an error and
change nothing are stuttering steps.

**FetchPath.** A get goes from `asked` over `lookup`, `missed`, `fetch` and
`cached` to `answered`; there is a step wherever it touches another shared
object. A reload loads the manifest, sets the cache bounds and stores the
manifest in three steps. A rotation builds a session from fnox's configuration
and adopts it; the bootstrap token is fetched first and thrown away
(`src/server.rs:421`), so nothing of it is in a session. A session is identified
by the version of the configuration it was built from. The backend is external:
a call returns a value, nothing, an error, or never returns.
`session = Absent` is the degraded mode. `Abort` is the cancellation by a drain
deadline, at the only await of `dispatch_get`. What does not exist in the code
are the ghosts `floor`, `rotated` and `synced`, which remember when a rotation
or a reload ended.

**AuditLog.** Events are numbers in the order of `record`. A write succeeds,
fails with nothing written, or fails with a part of the line in the file.
`lost` and `evicted` are ghosts. DropLastSender stands for the last clone of
the `AuditWriter` to be dropped, which `Lifecycle` shows to happen or not.

**Manifest.** A string is a value with a `Shape`: its length, the class of its
first character and the classes of the others, which is all that `validate` and
the two name rules look at. A file is absent, unreadable, not TOML of the schema,
or holds a raw manifest. `validate` has the checks of the code in their order;
`Rules` states what they amount to as one condition and serves as the reference
for it. Of the validation rules in `docs/manifest-schema.md` it has 2 to 5 and
the ranges of 6, and the limit on the description. It does not have the other
half of 6, that the cache keys "do not exceed broker-wide defaults", because the
code has no such check; 1 and 7 are the parser's.

**Requests.** A client's line has a size and may end early with the connection;
`read_line_capped` decides on the size, because `read_until` waits for the
newline, the cap or the end whatever the chunks. A connection task reads,
dispatches and writes; `register` and `reload` are cut where other tasks can
act: after `discover`, after reading the file, between the bounds and the
manifest of a reload. `projects` lists every registration ever made, `registry`
the current one of each name, so a reload can hold a project that has left the
registry. `admin_sock` says whose listener is behind `admin.sock`: the project
called `AdminStem` has the same path, and after it is registered no client can
connect to the admin plane any more. What `Lifecycle` and `FetchPath` have in
detail (the drain of an unregister, the inside of a get) is one step here.

**Config** and **Bootstrap.** A command line and a file are partial functions
from keys to values; `resolve` layers them and returns the first error. A text is
its lines that are not blank, and whether white space surrounds them, so that
`trim` and "first line that is not empty" can be told apart. The metadata
service may refuse, be silent, break off or answer anything in `Responses`; time
passes only while a timer runs, and `spent` (a ghost) adds it up.

**Startup.** `pc` is the place in `main`; any step can fail or be killed, `Gone`
clears what was in memory, and `Start` is the supervisor's restart over what is
left. A socket's file is named by the start that bound it. Sessions are numbered
in the order they are built, so a later one can be told from an earlier one.
Rotations on several admin connections may overlap, also while the daemon drains:
each fetches a token, builds a session and adopts it. The fetch of one of them,
`Followed`, is step by step, with the `Bootstrap` actions of the start; of the
others it matters only whether it yields a token. The ghost `since` remembers
how many sessions there were when a rotation began.

## Runs

All bounds are named constants.

| Run | Instance | What it checks |
|---|---|---|
| `cache` | 3 names, 2 values, caps 1 and 2, TTLs of 1 and 2 s at 2 ticks, clock to 5 | a hit is live and its `ttl_seconds` right, also at the boundary; growth stops at the cap in force, and nothing ever exceeds the largest cap; the oldest entry leaves first; a refresh evicts nothing; entries change only by a new fetch |
| `lifecycle` | 2 clients with a project each, 2 registrations, 1 connection per project, failing bind or chmod, 1 kill and restart | a registered project's socket leads to its own running loop; nothing of a project outlives its unregister; a shutdown no request overlapped leaves no socket |
| `lifecycle_progress` | 1 client with 2 projects, fairness | requests are answered and the drain ends whatever clients do; the process exits unless a request overlapped the drain |
| `fetch` | 1 connection, 2 names, 2 manifests that differ in allowlist and bounds, 1 reload and 1 rotation at a time, 2 versions of fnox's configuration, clock past the shorter TTL, fairness | `FetchPath` implements `AllowlistGate`; one audit event per answer, and the right one; cache bounds follow the manifest; a reload takes effect; a get asked after a rotation uses its session or a later one; a get waits for nothing but the backend |
| `audit` | 5 events, channel and buffer of 2, file failing at any time, fairness | the tallies are exact; what memory keeps is the latest, in order; `AuditLog` implements `LossyLog`; the writer ends |
| `requests` | 2 clients, 1 of them on either plane; up to 2 lines pipelined, some cut or at the cap; 2 project names, one of them that of the admin socket; a directory with the name of a project and one whose name is not known; a manifest edited once to an invalid or no file | answers match the lines in order, also at the cap; what is registered passed validation, the rule about the directory's name included; `Requests` implements `RegistryService`; every line is answered |
| `startup` | 16 machines (each file in each of its states, the rest in order), 2 starts, 1 edit, 1 failing system call, 2 rotations that may overlap, a metadata service with 4 kinds of answer | READY tells the truth; the configuration that comes into force is layered and in range, and an edit of the file does not change it; the IMDS exchange is in order and ends within 6 timeouts; a failed rotation keeps the session, and a successful one leaves a session built since it began; starts and rotations end; a start over what a killed one left comes up |
| `lost_sigterm` (violation) | 1 client, 1 registration, fairness | FR-022: SIGTERM is handled |
| `shutdown_hang` (violation) | 1 client, 1 registration, fairness | the drain keeps the daemon from hanging |
| `socket_removed` (violation) | 2 clients on one project | FR-007: a registered project has its socket |
| `reload_overtaken` (violation) | 2 reloads at a time | US3: an edit that was reloaded is in effect |
| `oversized_line` (violation) | as `requests` | an oversized message has its error response |

Why the bounds are enough to be of interest: three names against two slots make
evictions with a choice; two registrations let an instance run while another
comes or goes, and a name be registered a second time; one connection per loop
is enough to hold up a drain; a get with a reload and a rotation beside it meets
either between any two of its steps, and the entries that earlier gets left (the
proofs are for any number of connections); five events against two queues of two overflow both while one
event is in the writer's hands; lines of 1 to 3 bytes before the newline,
against a cap of 3 that includes it, are below, at and above the boundary; two
starts are a start over the remains of another, with one fault, kill or edit
between any two steps of either (what an edit can put there is a constant of its
own, `EditedConfigs` and `EditedTokens`: another source, a bad key, a token or
none); with a timeout of one tick a request is
answered before its deadline or runs into it.

Deadlock is checked in the runs of the cache and the fetch path. The daemon of
`Lifecycle` and `Startup` may exit, and a bounded `AuditLog` or the clients of
`Requests` may have nothing more to say, so their runs do not check it.

**Fairness.** Tasks that can run do run, timers fire and cancelled tasks end:
that is what tokio guarantees to tasks that do not block. No client is obliged
to connect, ask or hang up, no signal to come, no write to succeed and no
backend to answer. `AuditLog` and `FetchPath` assume weak fairness of the
writer's and of the get's own steps, `Requests` of each connection task (a get
excepted, which may wait for the backend), and `Startup` of `main`, of the task
of a rotation and of the clock it waits on. Nothing is assumed of the metadata
service, of the supervisor or of whoever edits files.

**Liveness.** A liveness property of a run has up to three parts. `NeverStuck`
says that whoever has work of its own to do is never blocked: its step is
enabled in every reachable state. The leads-to formulas say what then happens:
each get reaches its answer or the backend, each line is answered before the
connection closes or a get begins to wait for the backend, each admin request,
start and rotation ends. `ClockRuns` (in `Startup`) says that a fetch that waits
reaches its deadline, and `WindsDown` (in `AuditLog`) that without senders every
step of the writer leaves it less to do. The proofs below take `NeverStuck` and
`ClockRuns` as hypotheses and prove the rest.

`CleanRestart` says that a start over whatever an earlier one left comes to
serve, if what it reads is in order (`Sound`) until it has read it, and no kill
or fault ends it. What counts is the configuration it has loaded: once that is
done, an edit of the configuration file neither mends nor breaks this start.

## Where the code and its documents disagree

Five disagreements are kept as runs, each with its counterexample; the quotes
are in `PROJECT.json`.

* `lost_sigterm`: the signal task notifies once. When the admin loop is not in
  its `select!` at that moment (before the first one, after an accept, or in the
  50 ms backoff after a failed one), the signal is lost and a second one changes
  nothing.
* `shutdown_hang`: admin connections are drained after the project loops. A
  register served in between starts a loop that nobody stops and that holds an
  audit sender: `main` waits for ever.
* `socket_removed`: an unregister frees the name first and removes the socket
  path last, up to 5 s later. A register of the same name in between loses its
  socket.
* `reload_overtaken`: of two overlapping reloads the one that read the manifest
  first may store it last.
* `oversized_line`: the error of `read_line_capped` ends the connection's task by
  `?`. The connection is closed, as `docs/wire-protocol.md:14` and
  `src/proto/mod.rs:18` say, but without the `protocol_error` they promise first.
  `AnsweredInOrder` allows that answer and no other.

The passing runs state what holds under the condition that excludes the first
four: one client per project, no request during the drain (`late`), one reload at
a time; and one rotation at a time in `fetch`.

Further ones were seen while the modules were written. They follow from single
lines, or are variants of the five, and have no run:

* A cache above a lowered cap keeps its size on inserts (`src/cache.rs:117`);
  `specs/001-broker-daemon/spec.md:102` says that it drifts down.
* A manifest can raise the cache bounds above the daemon-wide defaults
  (`src/registry.rs:203`): `validate` checks the ranges only. Lines 71 and 82 of
  `docs/manifest-schema.md` and the comment at `src/manifest.rs:148` say that it
  can only lower them. The run `requests` registers such a manifest, and `Rules`
  allows it.
* Of two overlapping rotations the one that built its session first may adopt it
  last (`src/server.rs:449`), and the older session stays in force after both
  were answered; spec.md:252 says that fetches after a rotation "use the new
  backend session". `Startup` has these overlaps.
* The socket of a project called `admin` has the path of the admin socket
  (`src/registry.rs:107`, `src/server.rs:55`), and no rule reserves the name:
  registering it puts the project's listener there, and unregistering it removes
  the file. `Requests` has this; `ReadyMeansReady` in `Startup`, where there are
  no projects, does not.
* The rest of an oversized line is not drained, as `src/server.rs:369` says, and
  no cap is applied to responses.
* `backend.get` has no timeout (`src/server.rs:751`), and the configured
  `backend_fetch_timeout_ms` is used nowhere; spec.md:203 wants an answer within 5
  seconds. A get cancelled there is not audited (FR-013).
* `ttl_seconds` of a fetched value is read under a second lock
  (`src/server.rs:760`) and can be that of a later manifest.
* A stop notified while the loop is not in its `select!` is lost
  (`src/server.rs:575`); the timeouts make up for it. An unregister between the
  two inserts of a register (`src/server.rs:487`) finds no handle, and nothing
  makes up for that.
* The Shutdown event always says 0 buffered events (`src/server.rs:246`) and is
  dropped like any other when the channel is full.
* After a partial write the next event continues the torn line
  (`src/audit.rs:173`).
* `manifest.invalid` and `socket.recovered` are declared as audit events
  (`src/audit.rs:66`) and never emitted.
* READY is sent before the signal handler is installed (`src/server.rs:142`): a
  SIGTERM in between ends the process without its clean-up, and the admin socket
  stays. READY is also sent without a session when no fnox file was named, and
  nothing looks for one again before a restart, because `rotate-bootstrap`
  refuses without a session; the warning at `src/main.rs:139` reads otherwise.
* `IMDS_TIMEOUT` bounds the connect and the exchange separately
  (`src/bootstrap.rs:263`): a request takes up to two of them, and a fetch six.
* Empty credentials from IMDS, or ones that were cut off, are a valid token, and
  a token from the environment is not trimmed; FR-003 wants a usable token.
* The token is not discarded at `src/main.rs:114`: `_token` lives until `main`
  returns. Neither the start nor a rotation gives its token to the session it
  builds: the fetch only shows that there is one.
* Registrations are in memory only and end with the process.

## Proofs

Proved with TLAPS for every value of the constants, from the named assumptions
that the modules declare and TLC evaluates in the runs: `CacheAssumption`
(positive caps and TTLs, which configuration and manifest validation enforce; a
positive number of ticks per second), `FetchAssumption` (the same, and manifests
are records of the right kind), `RequestsAssumption` (so are files and requests),
`ManifestAssumption` and `ConfigAssumption` (limits and defaults are numbers in
their ranges), `BootstrapAssumption` (the timeout is positive),
`StartupAssumption` (what can be in the files), `LifecycleAssumption` and
`AuditAssumption` (bounds and capacities are numbers). Some theorems have a
hypothesis of their own, because the code needs it: `OneReloader`, `OneRotator`
and `DisjointOwners`. Violation runs show what goes wrong without the first and
without the last.

`BoundedCacheProofs`, all of the properties of the run `cache`:

* `TypeCorrect`: `TypeOK` is inductive as it stands. It includes that the map is
  finite, which every step of the size argument needs, and that no entry is
  stamped in the future, which `HitsAreLive` needs.
* `HitsAreLive` and `LargestCap` are invariants on top of it. The cap argument
  is that an insert of a new key at the cap removes one entry first (lemma
  `InsertShape`), so the size grows only below the cap in force.
* `Growth`, `OldestFirst`, `RefreshInPlace` and `EntriesStable` are action
  properties; each is a case distinction over the methods, and `InsertShape`
  and `GetShape` say what the two interesting ones can do to the map.

`FetchPathProofs`, all of the properties of the run `fetch`, for any number of
connections:

* `Refinement`: `FetchPath` implements `AllowlistGate`. `GateInv` says that
  every manifest held anywhere is a legal one and that an asked connection has
  a name. Lemma `GateStep` has one step per action: a step of one connection
  moves one stage (`OneStageMoves`), storing a manifest is `Replace`, and all
  others leave the mapped state alone.
* `CacheUsedLegally`: `FetchPath` also implements `BoundedCache`. Every step is
  one of the cache's methods, with a legal name, value or pair of bounds, or
  leaves the cache alone; so what `BoundedCacheProofs` proves of a cache holds
  of the one that gets and reloads share. `NamedInv` adds to `GateInv` that a
  get keeps its name to the end.
* `CacheInDaemon` draws that conclusion for all six properties of the cache: in
  the daemon, too, a hit is live, the cap holds and the oldest entry leaves
  first.
* `GetsEnd`: `GetsFinish`, from fairness of the get's own steps (see below).
* `TypeCorrect`: `TypesInv` is `TypeOK` with `NamedInv`. Its part about the cache
  is the lemma `TypeStep` of `BoundedCacheProofs`, instantiated, and
  `CacheStep`, the step of the refinement above.
* `Audited`: `AuditMatchesReply` is not inductive alone. `AuditInv` adds that a
  get that is not answered has no event yet; then each way out of
  `dispatch_get` appends the only one (`RespondAudits`).
* `BoundsFollow` and `ReloadsTakeEffect` assume `OneReloader`, and
  `reload_overtaken` shows that the second needs it. `ReloadInv` adds what is
  true inside the window between `set_config` and the store, and that a reload
  in progress has read what is on disk as long as no edit came after the last
  one.
* `RotationsTakeEffect` assumes `OneRotator`. `RotationInv` says that a session
  under construction is at least as new as the one in force, which is the
  newest ever adopted; so no request's `floor` is above the session it loads.

`LifecycleProofs`, all of the properties of the run `lifecycle`:

* `TypeCorrect`: `TypeOK` is inductive as it stands.
* `RegisteredServed`, `NothingOutlives` and `CleanExitHolds` assume
  `DisjointOwners`, that no two admin clients manage the same project; the run
  `socket_removed` shows the first without it. `registry`, `project_tasks` and
  `sockfile` change at different moments, so none of the three is inductive.
  `IInv` follows each name through its phases: no trace of it, registered and
  served, or at a certain step of the one request that works on it, with what
  the three tables hold at that step (`Phase`). It adds that a request works
  only on names its client owns (`OwnInv`), that instances not yet used have no
  loop (`FreshInv`), and what the drain has left to do at each of its steps
  (`DrainInv`).
* `RequestsEnd`: `AdminRequestsFinish`, and `LoopsReleased`: the drain stops
  waiting for each accept loop after a while, ended or aborted (see below).
  Neither needs an assumption about clients.

`AuditLogProofs` and `AuditTrailProofs`, all of the safety properties of the run
`audit`:

* `TypeCorrect`: the type invariant, with both capacities.
* `LatestKept` and `Refinement` (`AuditLog` implements `LossyLog`): `TrailInv`
  says that the degraded buffer, the event in hand and the channel, in this
  order, are increasing, that evicted events are older than all of them, and
  that what is in the file, lost, evicted and in memory is disjoint.
* `Accounted`: the sum in `Accounting` is preserved because each step moves one
  event from one place to another; `CountInv` adds that the sets are finite.
* `FateIsFinal`: an event is in memory, in the file or given up, never two of
  these, and the last two are final. It follows from the refinement and an
  invariant of `LossyLog`.
* `WriterWindsDown`: `WindsDown`, and `WorkLeft` is a number bounded by the two
  capacities. An event in the channel weighs four, for the turn it starts and
  the place in the degraded buffer it may end up in, an event in that buffer
  one, and the current turn what is left of it.

`RequestsProofs` and `AnswersProofs`, all of the safety properties of the run
`requests`:

* `ValidateExact`: `validate` accepts exactly the manifests that meet `Rules`,
  for all limits and shapes: its chain of early returns forgets none of these
  rules and adds none. The bound of the cache keys by the defaults is not one of
  them.
* `TypeCorrect` and `OnlyValidRegistered`: the invariant `IInv` adds `TaskInv`,
  what a connection task has in hand at each step. In particular a manifest
  once loaded meets the rules and has the name of the request, whatever happens
  to the file afterwards.
* `AnswersInOrder`: `OrderInv` relates the answers written, the request in
  hand and the lines still in the stream to the lines sent: they are
  consecutive parts of it.
* `ServiceRefinement`: `Requests` implements `RegistryService`. `ServiceInv`
  adds to `IInv` that no data of an answer is there before the answer, that a
  task of the admin plane has a project only while it reloads it, and that a
  request belongs to the plane it came from. Each step of a task is then one
  step of the service (`Simulated`) or none: `Insert` is the instant of a
  register, `Unregister`, before the drain, that of an unregister, and a reload
  has two, the lookup and the store.
* `LinesAnswered`: `Answered`, line by line (see below).

`StartupProofs`, all of the safety properties of the run `startup`:

* `TypeCorrect`: `TypeOK` with, for a rotation that is about to adopt, that its
  session was built after it began.
* `ConfigCorrect`: a configuration comes into force in one step of a start,
  `LoadConfig`; there it is what `resolve` makes of the flags and of the file as
  it is then, which the lemmas about `resolve` describe key by key. No other step
  of a process changes it, edits of the file included.
* `ReadyCorrect`: READY comes after the steps it is about. `StageInv` says what
  each step of the start has established by the time the next begins.
* `ExchangeInOrder` and `FetchTimeBounded`: `ExchangeInv` bounds the time spent
  by the requests completed, the phase of the current one and its timer.
* `SessionNeverLost` has a case for each step of any of the rotations that
  overlap: only an adopt changes the session, to one that was built since that
  rotation began, and only the end of the process takes it away.
* `RestartsClean` and `StartsEnd`: `CleanRestart` and `StartsAndRotationsEnd`
  (see below).

**How liveness is proved.** Each of `GetsEnd`, `RequestsEnd`, `LoopsReleased`,
`LinesAnswered`, `RestartsClean` and `StartsEnd` has the form "`FairSpec` and
always enabled implies the leads-to formulas". A lemma over one step says that each
stage of the work lasts until the task itself moves it on, whatever the others
do (`LineMoves`, `SetUpMoves`, `StartMoves`, `RotationMoves` and the like); weak
fairness and enabledness make the task move; and the stages are chained. The
invariants proved above supply what the stages rely on, in `LinesAnswered` for
instance that the lines not yet answered are still in the stream or in hand.

The provers cannot reason about ENABLED, so enabledness is a hypothesis:
`[]CanAllStep`, `[]CanAllAwait` or `[]CanProceed`. It is no restriction of the
environment but a fact about the model, and the run checks it: the same
formula, as `NeverStuck` or `DrainNeverStuck`, is a conjunct of a property of
the run in question. `StartsEnd` has `ClockRuns` as a second hypothesis, which
`StartsAndRotationsEnd` includes as well.

**Only model-checked**, because there is no induction over time or data:

* the enabledness just mentioned;
* `ClockRuns`: a timer that advances by ticks reaches a deadline of any length;
* the leads-to formulas of `WriterEnds`, `DrainEnds` and `QuietShutdownExits`: as
  many steps as there are events, loops or admin connections. For the first the
  theorem `WriterWindsDown` is the decreasing measure, for the second
  `LoopsReleased` is the step for one loop.

Every safety property, action property and refinement of the passing runs has
its theorem.

## Not modelled

* Rendering and parsing of JSON and TOML: library code. A file or a line is well
  formed, with the content the model gives it, or it is not. The JSON schema that
  `src/manifest.rs` can print is left out with it.
* Log texts, versions, uptimes and sizes in responses: no property is about them.
* Zeroization of secrets: a property of memory, not of states and steps.
* File modes: set by the code at each bind, and checked by the kernel.
* A failure to remove a project's socket in `Lifecycle`: the code logs it and goes
  on, and what stays is a file without a listener.
* fnox-core and the metadata service: external; whatever they may answer is a
  nondeterministic choice.
* The soak and kill harnesses in `examples/` and the benchmarks: drivers, not part
  of the daemon. The kill and restart cycle is the environment of `Startup` and
  `Lifecycle`.

The remaining source lines that no definition is mapped to are imports,
declarations of types and errors, constructors, accessors and the unit tests.
