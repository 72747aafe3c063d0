------------------------------ MODULE MCStartup ------------------------------
(* A small instance of Startup. *)
EXTENDS Startup

CONSTANTS word, other, path, a, b

MCDefault ==
  [bootstrap_source |-> "file", bootstrap_token_path |-> path, socket_dir |-> path,
   audit_log_path |-> path, cache_default_ttl_seconds |-> 2, cache_default_max_entries |-> 1,
   backend_fetch_timeout_ms |-> 5, fnox_config_path |-> None]

Plain == << >>
Named == [config |-> path, fnox_config_path |-> path, cache_default_ttl_seconds |-> 3]
Imds  == [bootstrap_source |-> "imds"]

\* The unit file's flags: none; a named file and fnox file; a named source.
MCClis == {Plain, Named, Imds}

Toml(raw) == [kind |-> "toml", raw |-> raw]

MCConfigFiles ==
  {[kind |-> "absent"], [kind |-> "garbage"], [kind |-> "unreadable"],
   Toml([bootstrap_source |-> "env", cache_default_ttl_seconds |-> 3]),
   Toml([cache_default_ttl_seconds |-> 4]),
   Toml([cache_default_ttl_seconds |-> 3, cache_default_max_entries |-> 3]),
   Toml([backend_fetch_timeout_ms |-> 0])}

\* An edit names another source, or spoils the file.
MCEditedConfigs ==
  {Toml([bootstrap_source |-> "env", cache_default_ttl_seconds |-> 3]),
   Toml([cache_default_ttl_seconds |-> 4])}

T(lines, pad) == [lines |-> lines, pad |-> pad]

Text(lines, pad) == [kind |-> "text", text |-> T(lines, pad)]

MCTokenFiles == {[kind |-> "absent"], [kind |-> "unreadable"], Text(<< >>, TRUE), Text(<<word>>, TRUE)}

MCEditedTokens == {[kind |-> "absent"], Text(<<word>>, TRUE)}

MCEnvVars == {[kind |-> "unset"], [kind |-> "not_unicode"], Text(<< >>, FALSE), Text(<< >>, TRUE)}

Http(status, body) == [separator |-> TRUE, utf8 |-> TRUE, status |-> status, body |-> body]

MCResponses ==
  {Http(200, T(<< >>, TRUE)), Http(299, T(<<word, other>>, TRUE)), Http(300, T(<<word>>, FALSE)),
   [Http(200, T(<<word>>, FALSE)) EXCEPT !.separator = FALSE]}

Host(c, f, t, e) ==
  [flags |-> c, config_file |-> f, token_file |-> t, env_var |-> e, fnox_ok |-> TRUE]

Absent == [kind |-> "absent"]

\* Each of the files in each of its states, with the rest in order.
MCHosts ==
  {Host(Plain, Absent, t, Text(<< >>, TRUE)) : t \in MCTokenFiles}
  \cup {Host(Plain, Toml([bootstrap_source |-> "env", cache_default_ttl_seconds |-> 3]), Absent, e)
         : e \in MCEnvVars}
  \cup {Host(Named, f, Text(<<word>>, TRUE), Text(<< >>, TRUE)) : f \in MCConfigFiles}
  \cup {Host(Imds, Absent, Absent, Text(<< >>, TRUE))}

MCBaseUrl == [http |-> TRUE, host |-> word, port |-> NoPort]
=============================================================================
