------------------------------ MODULE Lifecycle ------------------------------
(***************************************************************************)
(* What an instance promises whoever watches it: its status, its variable  *)
(* document, and the number of incidents it has raised.  A finished        *)
(* instance never changes; a failed one is frozen until a repair, which    *)
(* answers the one incident that is open; incident numbers are never       *)
(* reused, so a repair that names an old one is recognised as stale, and   *)
(* answers nothing                                                         *)
(* (InstanceStatus in state.rs; docs/design/incident-scope.md, D6 and D9). *)
(***************************************************************************)
EXTENDS Naturals

CONSTANT Document   \* the variable documents an instance may hold

VARIABLES
    status, variables,
    incidents,  \* how many were raised
    answered    \* the numbers of those that repairs answered

vars == <<status, variables, incidents, answered>>

Init == status = "created" /\ variables \in Document /\ incidents = 0 /\ answered = {}

Start ==
    /\ status = "created" /\ status' = "active"
    /\ variables' \in Document /\ UNCHANGED <<incidents, answered>>

(* A step of an active instance, which may be its last.                    *)
Work ==
    /\ status = "active" /\ status' \in {"active", "completed", "terminated"}
    /\ variables' \in Document /\ UNCHANGED <<incidents, answered>>

(* An incident takes the next number.                                      *)
Raise ==
    /\ status = "active" /\ status' = "failed"
    /\ incidents' = incidents + 1 /\ variables' \in Document /\ UNCHANGED answered

(* The incident that is open is the last one raised.                       *)
Repair ==
    /\ status = "failed" /\ status' \in {"active", "completed", "terminated"}
    /\ variables' \in Document /\ UNCHANGED incidents
    /\ answered' = answered \union {incidents - 1}
    /\ status' # "active" => UNCHANGED variables

Next == Start \/ Work \/ Raise \/ Repair

Spec == Init /\ [][Next]_vars
=============================================================================
