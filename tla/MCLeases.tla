------------------------------ MODULE MCLeases ------------------------------
(* One item, two holders, and requests without a holder.  What the rest of *)
(* the instance does to it is the free part of every step.                 *)
EXTENDS TaskLease

CONSTANTS i1, o1, o2

MCItem      == {i1}
MCOwner     == {o1, o2}
MCBareVerbs == {"complete", "fail"}
=============================================================================
