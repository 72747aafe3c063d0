----------------------------- MODULE MCRequests ------------------------------
(* Requests with a project whose manifest is committed, edited, broken and  *)
(* removed while two clients work on it: one of the admin plane, and one    *)
(* that uses either plane, asks for a second name and may hang up.          *)
EXTENDS Requests

CONSTANTS p, q, s, d, e, a, x

S(len, first) == [len |-> len, first |-> first, rest |-> {"lower"}]

MCTexts    == {p, q, s}
MCShape    == [t \in MCTexts |-> IF t = s THEN S(2, "upper") ELSE S(2, "lower")]
MCFileName == [dir \in Dirs |-> IF dir = d THEN p ELSE None]

Raw(name, secrets, ttl) ==
  [schema_version |-> 1, name |-> name, description |-> None, secrets |-> secrets,
   ttl_seconds |-> ttl, max_entries |-> None]

Good    == Raw(p, <<s>>, 2)
Renamed == Raw(q, << >>, None)
Broken  == Raw(p, <<s, s>>, None)

Toml(raw) == [kind |-> "toml", raw |-> raw]

MCRaws     == {Good, Renamed, Broken}
MCContents == <<{[kind |-> "absent"], Toml(Good), Toml(Broken)},
                {Toml(Renamed)}>>
MCDeployed == [dir \in Dirs |-> {<<IF dir = d THEN Toml(Good) ELSE [kind |-> "absent"],
                                   Toml(Renamed)>>}]
MCDefaults == [max_entries |-> 1, ttl |-> 1]

Msg(op, name, dir, size) == [req |-> [op |-> op, name |-> name, dir |-> dir], size |-> size]

MCScript ==
  [c \in Conns |->
     IF c = a
     THEN {Msg("register", p, d, 2), Msg("unregister", p, None, 1),
           Msg("reload", p, None, 1), Msg("reload", p, None, 3)}
     ELSE {Msg("register", p, d, 2), Msg("register", q, d, 2), Msg("register", q, e, 2), Msg("unregister", p, None, 1),
           Msg("status", None, None, 1), Msg("rotate-bootstrap", None, None, 1),
           Msg("info", None, None, 1), Msg("get", s, None, 1), Msg("ping", None, None, 2)}]

MCCuts     == [c \in Conns |-> IF c = a THEN {} ELSE {0, 1}]
MCMaxLines == [c \in Conns |-> IF c = a THEN 2 ELSE 1]
=============================================================================
