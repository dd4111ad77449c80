---------------------------- MODULE MCAdmission ----------------------------
(***************************************************************************)
(* Two deployments and everything that two edits make of them.             *)
(*                                                                         *)
(*  order: a parallel block with a loop in it                              *)
(*                                                                         *)
(*  start -> fork -> again -> pack -> retry ----> join -> end              *)
(*            |        ^-----------------+         |                       *)
(*            +----> paid ------------> merge -----+                       *)
(*            paid: (expire) -----------^                                  *)
(*            pack: (remind) -> note -> noted     a side path              *)
(*                                                                         *)
(*  claim: a subprocess with a side path, which holds another              *)
(*                                                                         *)
(*  start -> sub -> end         sub: (ask) -> review -> asked              *)
(*                                   (failed) -> undo -> end   catch-all   *)
(*                                   review: (any) -> amend -> sorry   *)
(*  sub:    s1 -> work -> race -> answer  -> meet -> e1                    *)
(*                         +----> timeout ----^                            *)
(*  review: s2 -> rate -> talk -> e2                                       *)
(***************************************************************************)
EXTENDS Admission, GraphNotation

(* A model: its elements by kind, its flows by name, and the rest.         *)
Order ==
    [kind |-> "start" :> "start" @@ "fork" :> "parallel" @@ "pack" :> "service" @@
              "again" :> "exclusive" @@ "paid" :> "receive" @@ "merge" :> "exclusive" @@
              "join" :> "parallel" @@ "end" :> "end" @@ "remind" :> "messageboundary" @@
              "note" :> "service" @@ "noted" :> "end" @@ "expire" :> "timerboundary" @@
              "retry" :> "exclusive",
     scope |-> [n \in {"start", "fork", "pack", "again", "paid", "merge", "join", "end",
                       "remind", "note", "noted", "expire", "retry"} |-> Process],
     from |-> 1 :> "start" @@ 2 :> "fork" @@ 3 :> "fork" @@ 4 :> "again" @@ 5 :> "pack" @@
              6 :> "retry" @@ 7 :> "retry" @@ 8 :> "paid" @@ 9 :> "expire" @@
              10 :> "merge" @@ 11 :> "join" @@ 12 :> "remind" @@ 13 :> "note",
     to   |-> 1 :> "fork" @@ 2 :> "again" @@ 3 :> "paid" @@ 4 :> "pack" @@ 5 :> "retry" @@
              6 :> "again" @@ 7 :> "join" @@ 8 :> "merge" @@ 9 :> "merge" @@
              10 :> "join" @@ 11 :> "end" @@ 12 :> "note" @@ 13 :> "noted",
     conditioned |-> {6},
     default |-> "retry" :> 7 @@ "again" :> 4 @@ "merge" :> 10 @@ "fork" :> 2 @@ "join" :> 11,
     host    |-> "remind" :> "pack" @@ "expire" :> "paid",
     cancels |-> {"expire"},
     code    |-> Empty,
     message |-> "remind" :> "ask" @@ "paid" :> "payment" @@ "note" :> "ask"
                 @@ "end" :> "ask" @@ "noted" :> "ask",
     timer   |-> "expire" :> "literal"]

OrderWiring ==
    [key |-> "remind" :> "order" @@ "paid" :> "order", decision |-> Empty, result |-> Empty,
     topic |-> "note" :> "mail", config |-> "pack" :> "object", retries |-> Empty,
     topicRetries |-> "mail" :> [attempts |-> 3, backoff |-> Absent, multiplier |-> 1],
     offers |-> Empty]

Claim ==
    [kind |-> "start" :> "start" @@ "sub" :> "subprocess" @@ "end" :> "end" @@
              "ask" :> "messageboundary" @@ "review" :> "subprocess" @@ "asked" :> "end" @@
              "failed" :> "errorboundary" @@ "undo" :> "user" @@
              "s1" :> "start" @@ "work" :> "service" @@ "race" :> "event" @@
              "answer" :> "message" @@ "timeout" :> "timer" @@ "meet" :> "exclusive" @@
              "e1" :> "end" @@
              "s2" :> "start" @@ "rate" :> "rule" @@ "talk" :> "service" @@ "e2" :> "end" @@
              "any" :> "errorboundary" @@ "amend" :> "receive" @@ "sorry" :> "terminate",
     scope |-> [n \in {"start", "sub", "end", "ask", "review", "asked", "failed", "undo",
                       "any", "amend", "sorry"} |-> Process]
               @@ [n \in {"s1", "work", "race", "answer", "timeout", "meet", "e1"} |-> "sub"]
               @@ [n \in {"s2", "rate", "talk", "e2"} |-> "review"],
     from |-> 1 :> "start" @@ 2 :> "sub" @@ 3 :> "ask" @@ 4 :> "review" @@ 5 :> "failed" @@
              6 :> "undo" @@ 7 :> "s1" @@ 8 :> "work" @@ 9 :> "race" @@ 10 :> "race" @@
              11 :> "answer" @@ 12 :> "timeout" @@ 13 :> "meet" @@ 14 :> "s2" @@
              15 :> "rate" @@ 16 :> "talk" @@ 17 :> "any" @@ 18 :> "amend",
     to   |-> 1 :> "sub" @@ 2 :> "end" @@ 3 :> "review" @@ 4 :> "asked" @@ 5 :> "undo" @@
              6 :> "end" @@ 7 :> "work" @@ 8 :> "race" @@ 9 :> "answer" @@ 10 :> "timeout" @@
              11 :> "meet" @@ 12 :> "meet" @@ 13 :> "e1" @@ 14 :> "rate" @@
              15 :> "talk" @@ 16 :> "e2" @@ 17 :> "amend" @@ 18 :> "sorry",
     conditioned |-> {},
     default |-> "race" :> 9 @@ "meet" :> 13,
     host    |-> "ask" :> "sub" @@ "failed" :> "sub" @@ "any" :> "review",
     cancels |-> {"failed", "any"},
     code    |-> "failed" :> CatchAll @@ "any" :> CatchAll,
     message |-> "ask" :> "question" @@ "answer" :> "reply" @@ "undo" :> "reply"
                 @@ "amend" :> "question",
     timer   |-> "timeout" :> "variable" @@ "any" :> "literal"]

ClaimWiring ==
    [key |-> "ask" :> "claim" @@ "answer" :> "claim" @@ "amend" :> "claim", decision |-> "rate" :> "rating",
     result |-> "rate" :> "score", topic |-> Empty, config |-> Empty,
     retries |-> "work" :> [attempts |-> Absent, backoff |-> 60, multiplier |-> Absent],
     topicRetries |-> Empty, offers |-> "rating" :> 1]

(* One edit of a model: a flow led elsewhere or from elsewhere; an element *)
(* made of another kind, a boundary moved, or made to cancel or not; or a  *)
(* default, a condition or a name changed.                                 *)
Moved(m) ==
    UNION {
        {[m EXCEPT !.to[f] = n] : f \in Flows(m), n \in Nodes(m)},
        {[m EXCEPT !.from[f] = n] : f \in Flows(m), n \in Nodes(m)},
        {[m EXCEPT !.to[f] = m.to[g], !.to[g] = m.to[f]] : f, g \in Flows(m)} }

Reshaped(m, kinds) ==
    UNION {
        {[m EXCEPT !.kind[k[1]] = k[2]] : k \in kinds},
        {[m EXCEPT !.host[b] = n] : b \in DOMAIN m.host, n \in Nodes(m)},
        {[m EXCEPT !.cancels = (@ \ {b}) \union ({b} \ @)] : b \in DOMAIN m.host} }

Renamed(m) ==
    UNION {
        {[m EXCEPT !.default[g] = f] : g \in DOMAIN m.default, f \in Flows(m)},
        {[m EXCEPT !.conditioned = @ \union {f}] : f \in Flows(m)},
        {[m EXCEPT !.message[n] = x] : n \in DOMAIN m.message, x \in {Unresolved, "ask", "question"}},
        {[m EXCEPT !.code[b] = x] : b \in DOMAIN m.code, x \in {Unresolved, "rejected"}},
        {[m EXCEPT !.timer[n] = x] : n \in DOMAIN m.timer, x \in {"cycle", "invalid"}} }

(* One edit of a manifest: a binding forgotten, unreadable, or gone astray.*)
Rewired(w) ==
    UNION {
        {[w EXCEPT !.key = Restrict(@, DOMAIN @ \ {n})] : n \in DOMAIN w.key},
        {[w EXCEPT !.key[n] = Unresolved] : n \in DOMAIN w.key},
        {[w EXCEPT !.decision = Restrict(@, DOMAIN @ \ {n})] : n \in DOMAIN w.decision},
        {[w EXCEPT !.result[n] = Unresolved] : n \in DOMAIN w.decision},
        {[w EXCEPT !.offers[d] = k] : d \in DOMAIN w.offers, k \in {0, 2}},
        {[w EXCEPT !.topic[n] = "elsewhere"] : n \in DOMAIN w.topic},
        {[w EXCEPT !.config = @ @@ (n :> c)] : n \in {"start", "undo"}, c \in {"object", "text"}},
        {[w EXCEPT !.retries[n].backoff = 0] : n \in DOMAIN w.retries},
        {[w EXCEPT !.topicRetries[t].attempts = k] : t \in DOMAIN w.topicRetries, k \in {0, 1001}} }

OrderKinds == {"fork", "join", "merge", "again", "retry"} \X {"exclusive", "parallel"}
    \union {"end", "noted"} \X {"end", "terminate", "messageend"}
    \union {<<"pack", "subprocess">>, <<"note", "receive">>}
ClaimKinds == {<<"asked", "terminate">>, <<"race", "parallel">>, <<"meet", "parallel">>,
    <<"e1", "terminate">>, <<"talk", "user">>, <<"rate", "service">>,
    <<"undo", "throw">>, <<"any", "timerboundary">>}

MCDraft == {[model |-> Order, wiring |-> OrderWiring], [model |-> Claim, wiring |-> ClaimWiring]}

MCRevision(d, k) ==
    LET m     == d.model
        kinds == IF "pack" \in Nodes(m) THEN OrderKinds ELSE ClaimKinds
        next  == Reshaped(m, kinds)
                   \union (IF k = 1 THEN Moved(m) \union Renamed(m) ELSE {})
    IN  {[d EXCEPT !.model = n] : n \in next}
          \union {[d EXCEPT !.wiring = w] : w \in Rewired(d.wiring)}

MCCovered == {"pack", "mail", "work", "talk"}
=============================================================================
