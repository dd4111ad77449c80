------------------------------- MODULE MCLoop -------------------------------
(***************************************************************************)
(* A loop no lint rule refuses, with nothing to wait for in it: an         *)
(* exclusive merge and an exclusive split whose condition reads the        *)
(* document, which nothing between them changes.                           *)
(*                                                                         *)
(*  start -> prepare -> again -> check -> fin                              *)
(*                        ^--------+                                       *)
(***************************************************************************)
EXTENDS InstanceStep, GraphNotation

Succ ==
    "start" :> <<"prepare">> @@ "prepare" :> <<"again">> @@ "again" :> <<"check">> @@
    "check" :> <<"again", "fin">> @@ "fin" :> << >>

MCNode     == DOMAIN Succ
MCFlow     == FlowsOf(Succ)
MCOutgoing == OutgoingOf(Succ)
MCTarget   == TargetOf(Succ)

MCKind == "start" :> "start" @@ "prepare" :> "task" @@ "again" :> "exclusive" @@
    "check" :> "exclusive" @@ "fin" :> "end"

MCBodyStart       == [n \in MCNode |-> "start"]
MCBoundaries      == [n \in MCNode |-> << >>]
MCErrorBoundaries == [n \in MCNode |-> {}]
MCInterrupting    == {}
MCCode            == Empty
MCMessage         == Empty
MCReads           == [n \in MCNode |-> Literal]
MCRepeats         == [n \in MCNode |-> 0]
MCName            == {"again"}
MCResult          == [n \in MCNode |-> "again"]
MCCondition       == Table(MCFlow, <<"check", "again">> :> {[n \in MCName |-> "yes"]}, {})
MCDefault         == {<<"check", "fin">>}
MCValue           == {"yes", "no"}
MCKey             == {}
MCDeadline        == {}
=============================================================================
