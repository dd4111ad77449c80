---------------------------- MODULE GraphNotation ----------------------------
(***************************************************************************)
(* How the model-checked graphs are written down: the successors of each   *)
(* node in declaration order, with a flow named <<source, target>>, and    *)
(* tables that give the rest of the nodes a default.                       *)
(***************************************************************************)
EXTENDS Naturals, Sequences, TLC

FlowsOf(succ) ==
    UNION {{<<n, succ[n][i]>> : i \in DOMAIN succ[n]} : n \in DOMAIN succ}

OutgoingOf(succ) ==
    [n \in DOMAIN succ |-> [i \in DOMAIN succ[n] |-> <<n, succ[n][i]>>]]

TargetOf(succ) == [f \in FlowsOf(succ) |-> f[2]]

(* table on S, default where the table says nothing.                       *)
Table(S, table, default) ==
    table @@ [n \in S |-> default]

Empty == [n \in {} |-> n]
=============================================================================
