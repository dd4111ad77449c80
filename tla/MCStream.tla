------------------------------ MODULE MCStream ------------------------------
(* Two connections and two instances: one can overtake the other, and one  *)
(* history can go while the other stays.                                   *)
EXTENDS EventStream, TLC

CONSTANTS c1, c2, i1, i2

MCClient   == {c1, c2}
MCInstance == {i1, i2}

Symmetry == Permutations(MCClient) \union Permutations(MCInstance)
=============================================================================
