--------------------------- MODULE MCBoundedCache ---------------------------
(* BoundedCache on three names, caps 1 and 2, TTLs of one and two seconds  *)
(* (two ticks each) and a clock that passes every expiry.                  *)
EXTENDS BoundedCache, TLC

CONSTANTS a, b, c, v, w

MCNames  == {a, b, c}
MCValues == {v, w}
MCCaps   == {1, 2}
MCTTLs   == {2, 4}

Symmetry == Permutations(MCNames) \cup Permutations(MCValues)
=============================================================================
