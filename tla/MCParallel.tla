----------------------------- MODULE MCParallel -----------------------------
(***************************************************************************)
(* A parallel block: a task with an interrupting timer and a side path fed *)
(* by messages, beside a message catch.                                    *)
(*                                                                         *)
(*  start -> fork -> pack ------> merge -> join -> ship -> end             *)
(*            |     (late) --------^        |                              *)
(*            |     (note) -> log -> noted  |                              *)
(*            +---> paid -------------------+                              *)
(***************************************************************************)
EXTENDS InstanceStep, GraphNotation

Succ ==
    "start" :> <<"fork">> @@ "fork" :> <<"pack", "paid">> @@ "pack" :> <<"merge">> @@
    "late" :> <<"merge">> @@ "merge" :> <<"join">> @@ "paid" :> <<"join">> @@
    "note" :> <<"log">> @@ "log" :> <<"noted">> @@ "noted" :> << >> @@
    "join" :> <<"end">> @@ "end" :> << >>

MCNode     == DOMAIN Succ
MCFlow     == FlowsOf(Succ)
MCOutgoing == OutgoingOf(Succ)
MCTarget   == TargetOf(Succ)

MCKind == "start" :> "start" @@ "fork" :> "parallel" @@ "pack" :> "task" @@
    "late" :> "timerboundary" @@ "note" :> "messageboundary" @@ "log" :> "task" @@
    "noted" :> "end" @@ "paid" :> "message" @@ "merge" :> "exclusive" @@
    "join" :> "parallel" @@ "end" :> "end"

MCBodyStart       == [n \in MCNode |-> "start"]
MCBoundaries      == Table(MCNode, "pack" :> <<"late", "note">>, << >>)
MCErrorBoundaries == [n \in MCNode |-> {}]
MCInterrupting    == {"late"}
MCCode            == Empty
MCMessage         == "paid" :> "payment" @@ "note" :> "payment"
MCReads           == Table(MCNode, "paid" :> "order" @@ "note" :> "ref", Literal)
MCRepeats         == Table(MCNode, "late" :> 1, 0)
MCName            == {"order", "ref"}
MCResult          == [n \in MCNode |-> "ref"]
MCCondition       == [f \in MCFlow |-> {}]
MCDefault         == {}
MCValue           == {"k1", "k2", "none"}
MCKey             == {"k1", "k2"}
MCDeadline        == {}
=============================================================================
