------------------------------- MODULE Config --------------------------------
(***************************************************************************)
(* src/src/config.rs: the daemon's configuration from its three layers.    *)
(* A layer is a function from the keys it gives to their values: the CLI   *)
(* flags (Overrides), the TOML file (RawConfig) and the built-in defaults. *)
(* The file may be absent, unreadable, or not TOML of the schema.          *)
(***************************************************************************)
EXTENDS Integers

CONSTANTS None,                   \* Option::None
          DEFAULT_CONFIG,         \* the default of every key
          CacheTtlMax, CacheMaxEntriesMax   \* 86_400 and 1_024

Keys == {"bootstrap_source", "bootstrap_token_path", "socket_dir", "audit_log_path",
         "cache_default_ttl_seconds", "cache_default_max_entries",
         "backend_fetch_timeout_ms", "fnox_config_path"}

BootstrapSourceKind == {"file", "imds", "env"}

ConfigError(e) == [error |-> e]

\* The ranges resolve checks.
Legal(c) ==
  /\ c.cache_default_ttl_seconds \in 1..CacheTtlMax
  /\ c.cache_default_max_entries \in 1..CacheMaxEntriesMax
  /\ c.backend_fetch_timeout_ms # 0

ASSUME ConfigAssumption ==
  /\ CacheTtlMax \in Nat /\ CacheMaxEntriesMax \in Nat
  /\ DOMAIN DEFAULT_CONFIG = Keys
  /\ DEFAULT_CONFIG.bootstrap_source \in BootstrapSourceKind
  /\ DEFAULT_CONFIG.fnox_config_path = None
  /\ Legal(DEFAULT_CONFIG)
-----------------------------------------------------------------------------
\* Cli::into_overrides: --config says where the file is, and that it has to
\* be there; every other flag is a key of the layer.
into_overrides(flags) ==
  [required |-> "config" \in DOMAIN flags,
   overrides |-> [k \in DOMAIN flags \cap Keys |-> flags[k]]]

\* A layer over another: what it gives prevails.
Over(f, g) ==
  [k \in DOMAIN f \cup DOMAIN g |-> IF k \in DOMAIN f THEN f[k] ELSE g[k]]

MutFileWins(raw, overrides) ==
  [error |-> "none", config |-> Over(raw, Over(overrides, DEFAULT_CONFIG))]

\* Per key: the flag, else the file, else the default; then the ranges.
resolve(raw, overrides) ==
  LET c == Over(overrides, Over(raw, DEFAULT_CONFIG))
  IN IF c.cache_default_ttl_seconds \notin 1..CacheTtlMax
     THEN ConfigError("CacheTtlOutOfRange")
     ELSE IF c.cache_default_max_entries \notin 1..CacheMaxEntriesMax
     THEN ConfigError("CacheMaxEntriesOutOfRange")
     ELSE IF c.backend_fetch_timeout_ms = 0
     THEN ConfigError("BackendTimeoutZero")
     ELSE [error |-> "none", config |-> c]

\* A file named by --config has to exist; the default one need not.
load(cli, file) ==
  IF file.kind = "toml" THEN resolve(file.raw, cli.overrides)
  ELSE IF file.kind = "garbage" THEN ConfigError("Parse")
  ELSE IF file.kind = "unreadable" THEN ConfigError("Io")
  ELSE IF cli.required THEN ConfigError("FileNotFound")
  ELSE resolve(<< >>, cli.overrides)
=============================================================================
