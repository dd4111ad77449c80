------------------------------ MODULE MCRoutes ------------------------------
(***************************************************************************)
(* Nested scopes, or a race and then decisions: the document decides.      *)
(*                                                                         *)
(*  start -> route -> sub                                                  *)
(*             +----> again ...                                            *)
(*                                                                         *)
(* Nested subprocesses, with boundaries of every kind on them:             *)
(*                                                                         *)
(*  sub -> done                   sub: (expire) -> expired                 *)
(*                                     (nudge)  -> nudged     twice        *)
(*                                     (failed) -> undone     error E      *)
(*  sub:  s1 -> fork -> work -> merge -> join -> e1                        *)
(*               |    deep: (any) -^      |                                *)
(*               +----> deep -------------+                                *)
(*  deep: s2 -> try -> choose -> e2                                        *)
(*                        +----> stop     terminate                        *)
(*        try: (slow) -> late                                              *)
(*  deep: (ask) -> asked          a side path fed by messages              *)
(*                                                                         *)
(* A loop through an event-based gateway, a receive task with boundaries,  *)
(* a repeating side path, and deadlines read from the document:            *)
(*                                                                         *)
(*  again -> race -> reply -> check -> split ...                           *)
(*    ^        |                +-> again                                  *)
(*    |        +--> timeout -> chase -> again                              *)
(*    |                (giveup) -> rest -> fin2                            *)
(*    |                (tick)   -> ticked     without end                  *)
(*                                                                         *)
(* Two decisions beside a message catch that may fail to arm between them: *)
(* a freeze finds one decision asked and the other under way:              *)
(*                                                                         *)
(*  split -> price -----------------------------> meet -> halt             *)
(*   +-----> paid ------------------------------> meet                     *)
(*   +-----> score -> grade -> review -> either -> meet                    *)
(*                      +--------------> either                            *)
(*                    review: (reject) -> either     catch-all             *)
(***************************************************************************)
EXTENDS InstanceStep, GraphNotation

Succ ==
    "start" :> <<"route">> @@ "route" :> <<"again", "sub">> @@
    "sub" :> <<"done">> @@ "done" :> << >> @@
    "expire" :> <<"expired">> @@ "expired" :> << >> @@
    "nudge" :> <<"nudged">> @@ "nudged" :> << >> @@
    "failed" :> <<"undone">> @@ "undone" :> << >> @@
    "s1" :> <<"fork">> @@ "fork" :> <<"work", "deep">> @@ "work" :> <<"join">> @@
    "deep" :> <<"merge">> @@ "any" :> <<"merge">> @@ "merge" :> <<"join">> @@
    "join" :> <<"e1">> @@ "e1" :> << >> @@
    "ask" :> <<"asked">> @@ "asked" :> << >> @@
    "s2" :> <<"try">> @@ "try" :> <<"choose">> @@ "choose" :> <<"e2", "stop">> @@
    "e2" :> << >> @@ "stop" :> << >> @@ "slow" :> <<"late">> @@ "late" :> << >> @@
    "split" :> <<"price", "paid", "score">> @@
    "price" :> <<"meet">> @@ "paid" :> <<"meet">> @@ "score" :> <<"grade">> @@
    "grade" :> <<"review", "either">> @@ "review" :> <<"either">> @@
    "reject" :> <<"either">> @@ "either" :> <<"meet">> @@
    "meet" :> <<"halt">> @@ "halt" :> << >> @@
    "again" :> <<"race">> @@ "race" :> <<"reply", "timeout">> @@
    "reply" :> <<"check">> @@ "check" :> <<"split", "again">> @@
    "timeout" :> <<"chase">> @@ "chase" :> <<"again">> @@ "giveup" :> <<"rest">> @@
    "rest" :> <<"fin2">> @@ "fin2" :> << >> @@ "tick" :> <<"ticked">> @@ "ticked" :> << >>

MCNode     == DOMAIN Succ
MCFlow     == FlowsOf(Succ)
MCOutgoing == OutgoingOf(Succ)
MCTarget   == TargetOf(Succ)

All(nodes, kind) == [n \in nodes |-> kind]

MCKind == Table(MCNode,
    All({"start", "s1", "s2"}, "start") @@ All({"sub", "deep"}, "subprocess") @@
    All({"expire", "slow", "nudge", "giveup", "tick"}, "timerboundary") @@
    All({"failed", "any", "reject"}, "errorboundary") @@ "ask" :> "messageboundary" @@
    All({"work", "try", "review"}, "task") @@ All({"price", "score"}, "rule") @@
    All({"fork", "join", "split", "meet"}, "parallel") @@
    All({"route", "merge", "choose", "grade", "either", "again", "check"}, "exclusive") @@
    "race" :> "eventgateway" @@ All({"paid", "reply", "chase"}, "message") @@
    All({"timeout", "rest"}, "timer") @@ All({"stop", "halt"}, "terminate"), "end")

MCBodyStart       == Table(MCNode, "sub" :> "s1" @@ "deep" :> "s2", "start")
MCBoundaries      == Table(MCNode, "sub" :> <<"expire", "nudge">> @@ "deep" :> <<"ask">> @@
                               "try" :> <<"slow">> @@ "chase" :> <<"giveup", "tick">>, << >>)
MCErrorBoundaries == Table(MCNode, "sub" :> {"failed"} @@ "deep" :> {"any"} @@
                                   "review" :> {"reject"}, {})
MCInterrupting    == {"expire", "slow", "giveup"}
MCCode            == "failed" :> "E" @@ "any" :> NoCode @@ "reject" :> NoCode
MCMessage         == "ask" :> "question" @@ "paid" :> "payment" @@
                     "reply" :> "answer" @@ "chase" :> "answer"
MCReads           == Table(MCNode, All({"ask", "paid", "reply", "chase"}, "ref") @@
                                   All({"timeout", "rest", "giveup"}, "due"), Literal)
MCRepeats         == Table(MCNode, All({"expire", "slow", "timeout", "rest", "giveup"}, 1) @@
                                   "nudge" :> 2, 0)
MCName            == {"ref", "due"}
MCValue           == {"v", "none"}
MCResult          == Table(MCNode, "price" :> "ref", "due")
Known             == {d \in [MCName -> MCValue] : d["due"] = "v"}
MCCondition       == Table(MCFlow, <<"route", "again">> :> Known @@ <<"check", "split">> :> Known @@
                               <<"choose", "stop">> :> Known @@ <<"grade", "review">> :> Known, {})
MCDefault         == {<<"route", "sub">>, <<"choose", "e2">>, <<"grade", "either">>,
                      <<"check", "again">>}
MCKey             == {"v"}
MCDeadline        == {"v"}
=============================================================================
