----------------------------- MODULE Bootstrap -------------------------------
(***************************************************************************)
(* src/src/bootstrap.rs: fetch_token with its three sources.  File and     *)
(* environment are read in one step.  The IMDSv2 exchange is three         *)
(* requests on connections of their own, each with a timeout on the        *)
(* connect and a second one on writing and reading.                        *)
(*                                                                         *)
(* A text is the lines in it that are not blank, and whether there is      *)
(* white space around them.  The metadata service is not assumed to        *)
(* behave: it may refuse, be silent, break off or answer anything.  A      *)
(* response that is cut off after its headers has a shorter body, which    *)
(* nothing reveals: the body ends where the stream does.                   *)
(***************************************************************************)
EXTENDS Integers, Sequences

CONSTANTS Lines,          \* lines that are not blank
          NoLine,         \* none of them
          Responses,      \* what the metadata service may answer
          IMDS_BASE_URL,  \* [http, host, port]
          IMDS_TIMEOUT    \* in ticks

Texts == [lines : Seq(Lines), pad : BOOLEAN]

Empty == [lines |-> << >>, pad |-> FALSE]

trim(text) == [lines |-> text.lines, pad |-> FALSE]

U16 == 0..65535

NoPort == -1

Err(e)   == [error |-> e]
Ok(text) == [error |-> "none", token |-> text]

\* `http://host[:port]', the port a u16 and 80 by default.
parse_base_url(url) ==
  IF ~url.http \/ url.host = NoLine \/ url.port \notin U16 \cup {NoPort}
  THEN Err("ImdsInvalidBaseUrl")
  ELSE [error |-> "none", port |-> IF url.port = NoPort THEN 80 ELSE url.port]

ASSUME BootstrapAssumption ==
  /\ IMDS_TIMEOUT \in Nat \ {0} /\ NoLine \notin Lines
  /\ \A raw \in Responses : raw.body \in Texts
  /\ parse_base_url(IMDS_BASE_URL).error = "none"   \* it is a literal

VARIABLES
  token_file,   \* the file at bootstrap_token_path
  env_var,      \* REMO_BROKER_BOOTSTRAP_TOKEN
  fetch,        \* where fetch_token is: "idle", "connect", "io" or "done"
  request,      \* 1: PUT token, 2: GET role, 3: GET credentials
  metadata,     \* the metadata token of this exchange
  role,         \* the role it found
  timer,        \* ticks since the current timeout was armed
  spent,        \* ghost: ticks this fetch has waited
  result        \* what fetch_token returned

sourceVars == <<token_file, env_var>>
fetchVars  == <<fetch, request, metadata, role, timer, spent, result>>

FetchInit ==
  /\ fetch = "idle" /\ request = 1 /\ metadata = Empty /\ role = NoLine
  /\ timer = 0 /\ spent = 0 /\ result = Err("none yet")

\* The caller has the result, or is gone; the locals are dropped.
FetchReset ==
  /\ fetch' = "idle" /\ request' = 1 /\ metadata' = Empty /\ role' = NoLine
  /\ timer' = 0 /\ spent' = 0 /\ result' = Err("none yet")
-----------------------------------------------------------------------------
fetch_file(f) ==
  IF f.kind = "absent" THEN Err("FileNotFound")
  ELSE IF f.kind = "unreadable" THEN Err("Io")
  ELSE IF trim(f.text) = Empty THEN Err("FileEmpty")
  ELSE Ok(trim(f.text))

\* Not trimmed: a variable of white space is a token.
fetch_env_with_var(v) ==
  IF v.kind = "unset" THEN Err("EnvUnset")
  ELSE IF v.kind = "not_unicode" \/ v.text = Empty THEN Err("EnvEmpty")
  ELSE Ok(v.text)

\* Headers up to the blank line, in UTF-8, with a status in the first line.
parse_http_response(raw) ==
  IF ~raw.separator \/ ~raw.utf8 \/ raw.status \notin U16
  THEN Err("ImdsMalformedResponse")
  ELSE IF raw.status \notin 200..299
  THEN Err("ImdsHttp")
  ELSE Ok(raw.body)
-----------------------------------------------------------------------------
Return(r) ==
  /\ fetch' = "done"
  /\ result' = r
  /\ UNCHANGED <<request, metadata, role, timer, spent>>

BeginRequest(k, m, r) ==
  /\ fetch' = "connect" /\ request' = k /\ metadata' = m /\ role' = r /\ timer' = 0

\* fetch_token(source): the first step.
fetch_token(source) ==
  /\ fetch = "idle"
  /\ \/ source = "file" /\ Return(fetch_file(token_file))
     \/ source = "env" /\ Return(fetch_env_with_var(env_var))
     \/ source = "imds" /\ BeginRequest(1, Empty, NoLine) /\ spent' = 0 /\ UNCHANGED result

\* imds_round_trip: connect ...
Connected ==
  /\ fetch = "connect"
  /\ fetch' = "io" /\ timer' = 0
  /\ UNCHANGED <<request, metadata, role, spent, result>>

ConnectFails == fetch = "connect" /\ Return(Err("ImdsConnect"))

\* ... then write and read to the end ...
IoFails == fetch = "io" /\ Return(Err("ImdsIo"))

Waiting == fetch \in {"connect", "io"}

MutRetryOnTimeout ==
  /\ Waiting /\ timer = IMDS_TIMEOUT
  /\ BeginRequest(request, metadata, role)
  /\ UNCHANGED <<spent, result>>

MutConnectTimeoutOnly ==
  /\ fetch = "connect" /\ timer = IMDS_TIMEOUT
  /\ Return(Err("ImdsTimeout"))

\* ... each for at most the timeout, which runs from its own start.
Timeout ==
  /\ Waiting /\ timer = IMDS_TIMEOUT
  /\ Return(Err("ImdsTimeout"))

\* Time passes; a timer that is due fires before any more does.
Tick ==
  /\ Waiting /\ timer < IMDS_TIMEOUT /\ spent <= 6 * IMDS_TIMEOUT
  /\ timer' = timer + 1 /\ spent' = spent + 1
  /\ UNCHANGED <<fetch, request, metadata, role, result>>

\* The response is complete; each request checks its body in its own way.
fetch_imds_metadata_token(raw) ==
  /\ fetch = "io" /\ request = 1
  /\ LET r == parse_http_response(raw)
     IN IF r.error # "none" THEN Return(r)
        ELSE IF trim(r.token) = Empty THEN Return(Err("ImdsEmptyToken"))
        ELSE BeginRequest(2, trim(r.token), NoLine) /\ UNCHANGED <<spent, result>>

MutNoRoleCheck(raw) ==
  /\ fetch = "io" /\ request = 2
  /\ LET r == parse_http_response(raw)
     IN IF r.error # "none" THEN Return(r)
        ELSE BeginRequest(3, metadata, IF r.token.lines = << >> THEN NoLine ELSE Head(r.token.lines))
             /\ UNCHANGED <<spent, result>>

fetch_imds_role_name(raw) ==
  /\ fetch = "io" /\ request = 2
  /\ LET r == parse_http_response(raw)
     IN IF r.error # "none" THEN Return(r)
        ELSE IF r.token.lines = << >> THEN Return(Err("ImdsNoInstanceRole"))
        ELSE BeginRequest(3, metadata, Head(r.token.lines)) /\ UNCHANGED <<spent, result>>

fetch_imds_role_credentials(raw) ==
  /\ fetch = "io" /\ request = 3
  /\ Return(parse_http_response(raw))

\* What the service and the network decide.
ImdsStep ==
  \/ Connected \/ ConnectFails \/ IoFails
  \/ \E raw \in Responses : \/ fetch_imds_metadata_token(raw)
                            \/ fetch_imds_role_name(raw)
                            \/ fetch_imds_role_credentials(raw)
=============================================================================
