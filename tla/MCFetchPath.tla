---------------------------- MODULE MCFetchPath -----------------------------
(* FetchPath with two secrets and a connection that gets them while admin  *)
(* connections reload and rotate; the manifests differ in allowlist and in *)
(* cache bounds, and the clock passes the shorter TTL.                     *)
EXTENDS FetchPath

CONSTANTS a, b, v, c1, r1, r2

M(S, max, ttl) == [secrets |-> S, max_entries |-> max, ttl |-> ttl]

MCCaps      == {1, 2}
MCTTLs      == {1, 2}
MCDefaults  == [max_entries |-> 1, ttl |-> 1]
MCManifests == {M({a, b}, 2, 2), M({b}, Absent, Absent)}
=============================================================================
