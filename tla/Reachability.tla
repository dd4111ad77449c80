---------------------------- MODULE Reachability ----------------------------
(***************************************************************************)
(* What can be reached in a graph, given as a function from each place to  *)
(* the places next to it.  The linter and the compiler both search their   *)
(* graphs this way (crates/rbpmn-model/src/lint/structure.rs, reach).      *)
(***************************************************************************)
EXTENDS Naturals, FiniteSets

(* Everything reachable from the seeds along next, the seeds included.     *)
Reach(seeds, next) ==
    LET within[k \in Nat] ==
            IF k = 0 THEN seeds
            ELSE LET near == within[k - 1] IN near \union UNION {next[n] : n \in near}
    IN  within[Cardinality(DOMAIN next)]
=============================================================================
