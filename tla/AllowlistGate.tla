---------------------------- MODULE AllowlistGate ----------------------------
(***************************************************************************)
(* What a project socket promises about its allowlist: every get is        *)
(* decided at one instant against the allowlist in force at that instant,  *)
(* a denied get is answered without anything else happening, and a reload  *)
(* replaces the whole allowlist in one step.  FetchPath implements it.     *)
(***************************************************************************)
CONSTANTS Conns, Names

VARIABLES allow,   \* the names a get may fetch
          stage    \* how far the request of each connection is

gateVars == <<allow, stage>>

Asked(n) == [at |-> "asked", name |-> n]
Quiet    == [at |-> "quiet"]

Init ==
  /\ allow \in SUBSET Names
  /\ stage = [c \in Conns |-> Quiet]

Ask(c, n) ==
  /\ stage[c] = Quiet
  /\ stage' = [stage EXCEPT ![c] = Asked(n)]
  /\ UNCHANGED allow

Decide(c, n) ==
  /\ stage[c] = Asked(n)
  /\ stage' = [stage EXCEPT ![c] =
                 [at |-> IF n \in allow THEN "admitted" ELSE "denied"]]
  /\ UNCHANGED allow

\* An admitted get is served, or abandoned with its connection.
Conclude(c, how) ==
  /\ stage[c] = [at |-> "admitted"]
  /\ stage' = [stage EXCEPT ![c] = [at |-> how]]
  /\ UNCHANGED allow

Return(c) ==
  /\ stage[c].at \in {"denied", "served"}
  /\ stage' = [stage EXCEPT ![c] = Quiet]
  /\ UNCHANGED allow

Replace ==
  /\ allow' \in SUBSET Names
  /\ UNCHANGED stage

Next ==
  \/ \E c \in Conns, n \in Names : Ask(c, n) \/ Decide(c, n)
  \/ \E c \in Conns, how \in {"served", "gone"} : Conclude(c, how)
  \/ \E c \in Conns : Return(c)
  \/ Replace

Spec == Init /\ [][Next]_gateVars
=============================================================================
