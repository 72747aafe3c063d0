------------------------------ MODULE Manifest -------------------------------
(***************************************************************************)
(* src/src/manifest.rs: finding, reading and validating the manifest of a  *)
(* project, with the error mapping and the cache bounds of                 *)
(* src/src/registry.rs.  A string is a value whose Shape gives what the    *)
(* validation looks at: its length, the class of its first byte and the    *)
(* classes of the rest.  A file holds a raw manifest, or it is absent,     *)
(* cannot be read, or is not TOML of the schema (a missing or unknown key, *)
(* a number outside u32).                                                  *)
(***************************************************************************)
EXTENDS Integers, Sequences

CONSTANTS Texts,             \* project and secret names
          Shape,             \* Shape[s]: [len, first, rest]
          Dirs,              \* project directories
          file_name,         \* file_name[d]: basename of d; None for `..' or not UTF-8
          None,              \* Option::None
          SUPPORTED_SCHEMA_VERSIONS,
          PROJECT_NAME_MAX_LEN, DESCRIPTION_MAX_LEN, SECRET_NAME_MAX_LEN,
          CACHE_TTL_MAX, CACHE_MAX_ENTRIES_MAX,
          Defaults           \* CacheDefaults: [max_entries, ttl]

Classes == {"lower", "upper", "digit", "underscore", "dash", "other"}

ASSUME ManifestAssumption ==
  /\ Shape \in [Texts -> [len : Nat, first : Classes, rest : SUBSET Classes]]
  /\ None \notin Nat /\ None \notin Texts
  /\ file_name \in [Dirs -> Texts \cup {None}]
  /\ DESCRIPTION_MAX_LEN \in Nat
  /\ CACHE_TTL_MAX \in Nat /\ CACHE_MAX_ENTRIES_MAX \in Nat
  /\ Defaults \in [max_entries : 1..CACHE_MAX_ENTRIES_MAX, ttl : 1..CACHE_TTL_MAX]

\* MANIFEST_CANDIDATES in priority order: the committed manifest, and the
\* one Remo synthesizes.
MANIFEST_CANDIDATES == 1..2

RawManifest ==
  [schema_version : Nat, name : Texts, description : Nat \cup {None},
   secrets : Seq(Texts), ttl_seconds : Nat \cup {None}, max_entries : Nat \cup {None}]

Err(e) == [error |-> e]
Ok(m)  == [error |-> "none", manifest |-> m]
-----------------------------------------------------------------------------
is_valid_project_name(s) ==
  /\ Shape[s].len \in 1..PROJECT_NAME_MAX_LEN
  /\ Shape[s].first \in {"lower", "digit"}
  /\ Shape[s].rest \subseteq {"lower", "digit", "underscore", "dash"}

is_valid_secret_name(s) ==
  /\ Shape[s].len \in 1..SECRET_NAME_MAX_LEN
  /\ {Shape[s].first} \cup Shape[s].rest \subseteq {"lower", "upper", "digit", "underscore"}

\* Where the loop over the allowlist stops: the name is invalid, or was seen.
BadSecrets(secrets) ==
  {i \in DOMAIN secrets : \/ ~is_valid_secret_name(secrets[i])
                          \/ \E j \in 1..(i - 1) : secrets[j] = secrets[i]}

SecretError(secrets) ==
  LET i == CHOOSE i \in BadSecrets(secrets) : \A j \in BadSecrets(secrets) : i <= j
  IN IF is_valid_secret_name(secrets[i]) THEN "DuplicateSecret" ELSE "InvalidSecretName"

OutOfRange(option, max) == option # None /\ option \notin 1..max

MutValidateUnchecked(raw, dir) ==
  IF raw.schema_version \notin SUPPORTED_SCHEMA_VERSIONS
  THEN Err("UnsupportedSchemaVersion")
  ELSE Ok(raw)

\* The checks in the order of the code: the first that fails is reported.
validate(raw, dir) ==
  IF raw.schema_version \notin SUPPORTED_SCHEMA_VERSIONS
  THEN Err("UnsupportedSchemaVersion")
  ELSE IF ~is_valid_project_name(raw.name)
  THEN Err("InvalidProjectName")
  ELSE IF dir # None /\ raw.name # dir
  THEN Err("NameDirMismatch")
  ELSE IF raw.description # None /\ raw.description > DESCRIPTION_MAX_LEN
  THEN Err("DescriptionTooLong")
  ELSE IF BadSecrets(raw.secrets) # {}
  THEN Err(SecretError(raw.secrets))
  ELSE IF OutOfRange(raw.ttl_seconds, CACHE_TTL_MAX)
  THEN Err("CacheTtlOutOfRange")
  ELSE IF OutOfRange(raw.max_entries, CACHE_MAX_ENTRIES_MAX)
  THEN Err("CacheMaxEntriesOutOfRange")
  ELSE Ok(raw)

\* The first candidate that is a file, whatever is in it; None without one.
discover(files) ==
  LET present == {i \in MANIFEST_CANDIDATES : files[i].kind # "absent"}
  IN IF present = {} THEN None
     ELSE CHOOSE i \in present : \A j \in present : i <= j

\* The rest of Manifest::load, on the file that was discovered: by the time
\* it is read it may be gone.
read_manifest(file, dir) ==
  IF file.kind \in {"absent", "unreadable"} THEN Err("Io")
  ELSE IF file.kind = "garbage" THEN Err("Parse")
  ELSE validate(file.raw, dir)

\* load_manifest: every error but NotFound makes the manifest invalid.
load_manifest(error) ==
  IF error = "NotFound" THEN "ManifestNotFound" ELSE "ManifestInvalid"

MutNoDefault(m) ==
  [max_entries |-> IF m.max_entries = None THEN 0 ELSE m.max_entries,
   ttl |-> IF m.ttl_seconds = None THEN 0 ELSE m.ttl_seconds]

\* A key the manifest gives overrides the daemon-wide default, either way.
resolve_cache_bounds(m) ==
  [max_entries |-> IF m.max_entries = None THEN Defaults.max_entries ELSE m.max_entries,
   ttl |-> IF m.ttl_seconds = None THEN Defaults.ttl ELSE m.ttl_seconds]
-----------------------------------------------------------------------------
(* What validation promises of a manifest, as one condition: of the list   *)
(* "Validation rules" in docs/manifest-schema.md the rules 2 to 5, of rule *)
(* 6 the ranges, and the length of the description.  Rules 1 and 7 are the *)
(* parser's.  The other half of rule 6, that the cache keys "do not exceed *)
(* broker-wide defaults", is not here: the code does not enforce it.       *)
Rules(m, dir) ==
  /\ m.schema_version \in SUPPORTED_SCHEMA_VERSIONS
  /\ is_valid_project_name(m.name)
  /\ dir \in {m.name, None}
  /\ m.description = None \/ m.description <= DESCRIPTION_MAX_LEN
  /\ \A i \in DOMAIN m.secrets : is_valid_secret_name(m.secrets[i])
  /\ \A i, j \in DOMAIN m.secrets : i # j => m.secrets[i] # m.secrets[j]
  /\ m.ttl_seconds \in (1..CACHE_TTL_MAX) \cup {None}
  /\ m.max_entries \in (1..CACHE_MAX_ENTRIES_MAX) \cup {None}
=============================================================================
