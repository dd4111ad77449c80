---------------------------- MODULE MCDefinitions ----------------------------
(* One key: two engines that deploy two bundles, two versions, an instance  *)
(* of the first, and a caller that deletes.                                 *)
EXTENDS Deployment

CONSTANTS v1, v2, i1, d1, p1, p2, a, b

MCVersion     == {v1, v2}
MCInstance    == {i1}
MCDeleter     == {d1}
MCContent     == {a, b}
MCBindsTopic  == {a}
MCProcess     == {p1, p2}
MCOperated    == {p2}

OnFirst == [i \in Instance |-> v1]
=============================================================================
