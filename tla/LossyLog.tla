------------------------------ MODULE LossyLog -------------------------------
(***************************************************************************)
(* What the audit trail promises: an event that was recorded is written at *)
(* most once or given up for good, nothing is written that was not         *)
(* recorded, and what was written stays.  AuditLog implements it.          *)
(***************************************************************************)
CONSTANT Events

VARIABLES held,     \* recorded, neither written nor given up
          logged,   \* written
          given_up  \* dropped, or evicted from the degraded buffer

logVars == <<held, logged, given_up>>

Init == held = {} /\ logged = {} /\ given_up = {}

Fresh(e) == e \in Events \ (held \cup logged \cup given_up)

Accept(e) == Fresh(e) /\ held' = held \cup {e} /\ UNCHANGED <<logged, given_up>>

Refuse(e) == Fresh(e) /\ given_up' = given_up \cup {e} /\ UNCHANGED <<held, logged>>

Log(e) ==
  /\ e \in held
  /\ held' = held \ {e} /\ logged' = logged \cup {e}
  /\ UNCHANGED given_up

GiveUp(e) ==
  /\ e \in held
  /\ held' = held \ {e} /\ given_up' = given_up \cup {e}
  /\ UNCHANGED logged

Next == \E e \in Events : Accept(e) \/ Refuse(e) \/ Log(e) \/ GiveUp(e)

Spec == Init /\ [][Next]_logVars
=============================================================================
