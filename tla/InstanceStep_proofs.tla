------------------------- MODULE InstanceStep_proofs -------------------------
(***************************************************************************)
(* Theorems about InstanceStep, for every graph the assumptions of         *)
(* ProcessGraph describe and every value of the bounds.                    *)
(*                                                                         *)
(* The first part says, helper by helper, that a sound state stays sound   *)
(* and what becomes of its tokens and arms, and puts the helpers together, *)
(* one step of the proof per action.                                       *)
(*                                                                         *)
(* The second part, from Coherence on, does the same for what holds        *)
(* between tokens, scopes, work items and arms: that no two name the same  *)
(* thing, that each has the one it lives in, and that every wait has what  *)
(* ends it.                                                                *)
(*                                                                         *)
(* The third part, from Spares on, compares the state after an action with *)
(* the one before it: which tokens a helper leaves as they were.           *)
(*                                                                         *)
(* The fourth part, from Like on, shows that the instance implements       *)
(* Lifecycle.  Of everything a step does, four helpers touch what that     *)
(* speaks of: a freeze, a termination, the end of a step that may complete *)
(* the instance, and the patch that a command begins with.                 *)
(***************************************************************************)
EXTENDS InstanceStep, FiniteSetTheorems, TLAPS

-----------------------------------------------------------------------------
(* ArmsHaveLiveTokens of a whole state, and of the state in the middle of  *)
(* an action that has yet to withdraw what token id held.                  *)

HeldArm(s, a) ==
    \E t \in s.tokens : t.id = a.token /\ Holding(t) /\ a.element \in Range(ArmedAt(t.node))

Held(s)        == \A a \in s.arms : HeldArm(s, a)
HeldBut(s, id) == \A a \in s.arms : a.token # id => HeldArm(s, a)

(* NoAmbiguousSubscription of a whole state.                               *)
Distinct(s) == \A a, b \in s.arms : SameSubscription(a, b) => a = b

(* No token is at an incident, as in the middle of every step.             *)
Calm(s) == \A t \in s.tokens : t.wait # "incident"

-----------------------------------------------------------------------------
(* Replacing fields of a sound state.                                      *)

LEMMA SetStatus ==
    ASSUME NEW s, Sound(s), NEW x \in Status
    PROVE  LET u == [s EXCEPT !.status = x]
           IN  Sound(u) /\ u.tokens = s.tokens /\ u.arms = s.arms
BY DEF Sound, State

LEMMA SetTokens ==
    ASSUME NEW s, Sound(s), NEW x \in SUBSET Token, \A t \in x : Fits(t)
    PROVE  LET u == [s EXCEPT !.tokens = x]
           IN  Sound(u) /\ u.tokens = x /\ u.arms = s.arms
BY DEF Sound, State

LEMMA SetItems ==
    ASSUME NEW s, Sound(s), NEW x \in SUBSET Item
    PROVE  LET u == [s EXCEPT !.items = x]
           IN  Sound(u) /\ u.tokens = s.tokens /\ u.arms = s.arms
BY DEF Sound, State

LEMMA SetArms ==
    ASSUME NEW s, Sound(s), NEW x \in SUBSET Armed
    PROVE  LET u == [s EXCEPT !.arms = x]
           IN  Sound(u) /\ u.tokens = s.tokens /\ u.arms = x
BY DEF Sound, State

LEMMA SetScopes ==
    ASSUME NEW s, Sound(s), NEW x \in SUBSET Scope
    PROVE  LET u == [s EXCEPT !.scopes = x]
           IN  Sound(u) /\ u.tokens = s.tokens /\ u.arms = s.arms
BY DEF Sound, State

LEMMA SetQueue ==
    ASSUME NEW s, Sound(s), NEW x \in SUBSET Move
    PROVE  LET u == [s EXCEPT !.queue = x]
           IN  Sound(u) /\ u.tokens = s.tokens /\ u.arms = s.arms
BY DEF Sound, State

LEMMA SetNextToken ==
    ASSUME NEW s, Sound(s), NEW x \in Nat
    PROVE  LET u == [s EXCEPT !.nextToken = x]
           IN  Sound(u) /\ u.tokens = s.tokens /\ u.arms = s.arms
BY DEF Sound, State

LEMMA SetQueueClock ==
    ASSUME NEW s, Sound(s), NEW q \in SUBSET Move, NEW c \in Nat
    PROVE  LET u == [s EXCEPT !.queue = q, !.clock = c]
           IN  Sound(u) /\ u.tokens = s.tokens /\ u.arms = s.arms
BY DEF Sound, State

-----------------------------------------------------------------------------
(* Tokens in motion.                                                       *)

LEMMA ParkSound ==
    ASSUME NEW s, Sound(s), NEW id \in Nat, NEW node \in Node, NEW scope \in Nat,
           NEW wait \in Wait, NEW via \in Flow \union {NoFlow},
           Fits([id |-> id, node |-> node, scope |-> scope, wait |-> wait, via |-> via])
    PROVE  LET u == Park(s, id, node, scope, wait, via)
           IN  /\ Sound(u) /\ u.arms = s.arms
               /\ u.tokens = s.tokens \union
                    {[id |-> id, node |-> node, scope |-> scope, wait |-> wait, via |-> via]}
<1> DEFINE t == [id |-> id, node |-> node, scope |-> scope, wait |-> wait, via |-> via]
           x == s.tokens \union {t}
<1>1. x \in SUBSET Token /\ \A u \in x : Fits(u)
  BY DEF Token, Sound, State
<1> HIDE DEF t, x
<1>2. LET u == [s EXCEPT !.tokens = x] IN Sound(u) /\ u.tokens = x /\ u.arms = s.arms
  BY <1>1, SetTokens
<1> QED
  BY <1>2 DEF Park, t, x

LEMMA UnparkSound ==
    ASSUME NEW s, Sound(s), NEW id
    PROVE  LET u == Unpark(s, id)
           IN  /\ Sound(u) /\ u.arms = s.arms /\ u.scopes = s.scopes
               /\ u.tokens = {t \in s.tokens : t.id # id}
<1> DEFINE x == {t \in s.tokens : t.id # id}
           u == [s EXCEPT !.tokens = x]
<1>1. x \in SUBSET Token /\ \A t \in x : Fits(t)
  BY DEF Sound, State
<1> HIDE DEF x
<1>2. Sound(u) /\ u.tokens = x /\ u.arms = s.arms
  BY <1>1, SetTokens
<1>3. u.scopes = s.scopes
  BY DEF Sound, State
<1> QED
  BY <1>2, <1>3 DEF Unpark, x

LEMMA GoSound ==
    ASSUME NEW s, Sound(s), NEW id \in Nat, NEW node \in Node, NEW scope \in Nat,
           NEW via \in Flow \union {NoFlow}
    PROVE  LET u == Go(s, id, node, scope, via)
           IN  Sound(u) /\ u.tokens = s.tokens /\ u.arms = s.arms
<1> DEFINE at == IF s.queue = {} THEN 0 ELSE s.clock
           q  == s.queue \union
                   {[token |-> id, node |-> node, scope |-> scope, via |-> via, at |-> at]}
           c  == at + 1
<1>1. q \in SUBSET Move /\ c \in Nat
  BY DEF Move, Sound, State
<1>2. Go(s, id, node, scope, via) = [s EXCEPT !.queue = q, !.clock = c]
  BY DEF Go
<1> HIDE DEF q, c
<1>3. LET u == [s EXCEPT !.queue = q, !.clock = c]
      IN  Sound(u) /\ u.tokens = s.tokens /\ u.arms = s.arms
  BY <1>1, SetQueueClock
<1> QED
  BY <1>2, <1>3

(* Every node but a split gateway and an end has its one way on.           *)
LEMMA OneFlow ==
    ASSUME NEW n \in Node,
           Kind[n] \notin {"eventgateway", "exclusive", "end", "terminate"},
           Kind[n] = "parallel" => IsJoin(n)
    PROVE  Outgoing[n][1] \in Flow /\ Target[Outgoing[n][1]] \in Node
<1>1. Outgoing[n] \in Seq(Flow) /\ Len(Outgoing[n]) = 1
  BY GraphTyped, OneWayOn
<1>2. Outgoing[n][1] \in Flow
  BY <1>1
<1> QED
  BY <1>2, GraphTyped

LEMMA LeaveSound ==
    ASSUME NEW s, Sound(s), NEW id \in Nat, NEW node \in Node, NEW scope \in Nat,
           Kind[node] \notin {"eventgateway", "exclusive", "end", "terminate"},
           Kind[node] = "parallel" => IsJoin(node)
    PROVE  LET u == Leave(s, id, node, scope)
           IN  Sound(u) /\ u.tokens = s.tokens /\ u.arms = s.arms
<1> DEFINE flow == Outgoing[node][1]
<1>1. flow \in Flow /\ Target[flow] \in Node
  BY OneFlow
<1>2. Leave(s, id, node, scope) = Go(s, id, Target[flow], scope, flow)
  BY DEF Leave
<1> HIDE DEF flow
<1>3. LET u == Go(s, id, Target[flow], scope, flow)
      IN  Sound(u) /\ u.tokens = s.tokens /\ u.arms = s.arms
  BY <1>1, GoSound
<1> QED
  BY <1>2, <1>3

LEMMA LeaveFreshSound ==
    ASSUME NEW s, Sound(s), NEW node \in Node, NEW scope \in Nat,
           Kind[node] \notin {"eventgateway", "exclusive", "end", "terminate"},
           Kind[node] = "parallel" => IsJoin(node)
    PROVE  LET u == LeaveFresh(s, node, scope)
           IN  Sound(u) /\ u.tokens = s.tokens /\ u.arms = s.arms
<1> DEFINE n == s.nextToken
           r == [s EXCEPT !.nextToken = n + 1]
<1>1. n \in Nat
  BY DEF Sound, State
<1>2. Sound(r) /\ r.tokens = s.tokens /\ r.arms = s.arms
  BY <1>1, SetNextToken
<1>3. LeaveFresh(s, node, scope) = Leave(r, n, node, scope)
  BY DEF LeaveFresh
<1> HIDE DEF n, r
<1> QED
  BY <1>1, <1>2, <1>3, LeaveSound

LEMMA SplitSound ==
    ASSUME NEW s, Sound(s), NEW node \in Node, NEW scope \in Nat
    PROVE  LET u == Split(s, node, scope)
           IN  Sound(u) /\ u.tokens = s.tokens /\ u.arms = s.arms
<1> DEFINE out == Outgoing[node]
           at  == IF s.queue = {} THEN 0 ELSE s.clock
           q   == s.queue \union
                    {[token |-> s.nextToken + i - 1, node |-> Target[out[i]], scope |-> scope,
                      via |-> out[i], at |-> at + i - 1] : i \in DOMAIN out}
           n   == s.nextToken + Len(out)
           c   == at + Len(out)
<1>1. out \in Seq(Flow) /\ Len(out) \in Nat /\ DOMAIN out = 1..Len(out)
  BY GraphTyped
<1>2. s.nextToken \in Nat /\ s.clock \in Nat /\ s.queue \in SUBSET Move
  BY DEF Sound, State
<1>3. \A i \in DOMAIN out :
        /\ s.nextToken + i - 1 \in Nat /\ at + i - 1 \in Nat
        /\ out[i] \in Flow /\ Target[out[i]] \in Node
  <2> SUFFICES ASSUME NEW i \in DOMAIN out
               PROVE  /\ s.nextToken + i - 1 \in Nat /\ at + i - 1 \in Nat
                      /\ out[i] \in Flow /\ Target[out[i]] \in Node
    OBVIOUS
  <2>1. i \in Nat /\ i >= 1 /\ at \in Nat
    BY <1>1, <1>2
  <2>2. out[i] \in Flow
    BY <1>1
  <2>3. Target[out[i]] \in Node
    BY <2>2, GraphTyped
  <2> HIDE DEF at
  <2>4. s.nextToken + i - 1 \in Nat /\ at + i - 1 \in Nat
    BY <2>1, <1>2
  <2> QED
    BY <2>2, <2>3, <2>4
<1>4. q \in SUBSET Move
  BY <1>2, <1>3 DEF Move
<1>5. n \in Nat /\ c \in Nat
  BY <1>1, <1>2
<1> DEFINE u == [s EXCEPT !.queue = q, !.nextToken = n, !.clock = c]
<1>6. Split(s, node, scope) = u
  BY DEF Split
<1> HIDE DEF q, n, c
<1>7. u \in State /\ u.tokens = s.tokens /\ u.arms = s.arms
  BY <1>4, <1>5 DEF Sound, State
<1> HIDE DEF u
<1> QED
  BY <1>6, <1>7 DEF Sound

LEMMA CloseItemSound ==
    ASSUME NEW s, Sound(s), NEW id
    PROVE  LET u == CloseItem(s, id)
           IN  Sound(u) /\ u.tokens = s.tokens /\ u.arms = s.arms
<1> DEFINE x == {i \in s.items : i.token # id}
<1>1. x \in SUBSET Item
  BY DEF Sound, State
<1> HIDE DEF x
<1>2. LET u == [s EXCEPT !.items = x] IN Sound(u) /\ u.tokens = s.tokens /\ u.arms = s.arms
  BY <1>1, SetItems
<1> QED
  BY <1>2 DEF CloseItem, x

LEMMA WithdrawArmsSound ==
    ASSUME NEW s, Sound(s), NEW id
    PROVE  LET u == WithdrawArms(s, id)
           IN  Sound(u) /\ u.tokens = s.tokens /\ u.arms = {a \in s.arms : a.token # id}
<1> DEFINE x == {a \in s.arms : a.token # id}
<1>1. x \in SUBSET Armed
  BY DEF Sound, State
<1> HIDE DEF x
<1>2. LET u == [s EXCEPT !.arms = x] IN Sound(u) /\ u.tokens = s.tokens /\ u.arms = x
  BY <1>1, SetArms
<1> QED
  BY <1>2 DEF WithdrawArms, x

-----------------------------------------------------------------------------
(* Scopes.                                                                 *)

(* What a teardown withdraws is what the tokens it reaps held.             *)
LEMMA TearDownSound ==
    ASSUME NEW s, Sound(s), NEW roots
    PROVE  LET u      == TearDown(s, roots)
               doomed == Subtree(s, roots)
           IN  /\ Sound(u)
               /\ u.tokens = {t \in s.tokens : t.scope \notin doomed}
               /\ u.arms = {a \in s.arms : \A t \in s.tokens :
                                t.scope \in doomed => t.id # a.token}
               /\ u.scopes = {c \in s.scopes : c.id \in roots \/ c.id \notin doomed}
<1> DEFINE doomed == Subtree(s, roots)
           reaped == {t.id : t \in {u \in s.tokens : u.scope \in doomed}}
           q == {m \in s.queue : m.scope \notin doomed}
           t == {x \in s.tokens : x.scope \notin doomed}
           i == {x \in s.items : x.token \notin reaped}
           a == {x \in s.arms : x.token \notin reaped}
           c == {x \in s.scopes : x.id \in roots \/ x.id \notin doomed}
           u == [s EXCEPT !.queue = q, !.tokens = t, !.items = i, !.arms = a, !.scopes = c]
<1>1. TearDown(s, roots) = u
  BY DEF TearDown
<1>2. /\ q \in SUBSET s.queue /\ t \in SUBSET s.tokens /\ i \in SUBSET s.items
      /\ a \in SUBSET s.arms /\ c \in SUBSET s.scopes
  OBVIOUS
<1>3. a = {x \in s.arms : \A y \in s.tokens : y.scope \in doomed => y.id # x.token}
  OBVIOUS
<1> HIDE DEF q, i, a, c, t, doomed
<1>4. /\ u \in State /\ u.tokens = t /\ u.arms = a /\ u.scopes = c
  BY <1>2 DEF Sound, State
<1> HIDE DEF u
<1>5. Sound(u)
  BY <1>2, <1>4 DEF Sound
<1> QED
  BY <1>1, <1>2, <1>3, <1>4, <1>5 DEF t, c, doomed

(* A scope reaches at least what any scope of its owner's does.            *)
LEMMA SubtreeGrows ==
    ASSUME NEW s, NEW R \in SUBSET ScopeIds(s), NEW x \in R
    PROVE  Subtree(s, {x}) \subseteq Subtree(s, R)
<1> DEFINE Closed(Y, X) == Y \subseteq X /\ \A c \in s.scopes : c.parent \in X => c.id \in X
<1>1. {x} \union ScopeIds(s) = ScopeIds(s) /\ R \union ScopeIds(s) = ScopeIds(s)
  OBVIOUS
<1>2. \A X : Closed(R, X) => Closed({x}, X)
  OBVIOUS
<1> QED
  BY <1>1, <1>2 DEF Subtree

LEMMA CloseOwnedSound ==
    ASSUME NEW s, Sound(s), NEW id
    PROVE  LET u == CloseOwned(s, id)
           IN  /\ Sound(u) /\ u.arms \subseteq s.arms /\ u.tokens \subseteq s.tokens
               /\ \A t \in u.tokens, c \in s.scopes :
                    c.token = id => t.scope \notin Subtree(s, {c.id})
               /\ \A x : HeldBut(s, x) => HeldBut(u, x)
<1> DEFINE owned == {c.id : c \in {d \in s.scopes : d.token = id}}
           torn  == TearDown(s, owned)
           x     == {c \in torn.scopes : c.id \notin owned}
           u     == [torn EXCEPT !.scopes = x]
           doomed == Subtree(s, owned)
<1>1. CloseOwned(s, id) = u
  BY DEF CloseOwned
<1>2. /\ owned \in SUBSET ScopeIds(s)
      /\ \A c \in s.scopes : c.token = id => c.id \in owned
  BY DEF ScopeIds
<1> HIDE DEF owned
<1>3. \A c \in s.scopes : c.token = id => Subtree(s, {c.id}) \subseteq doomed
  BY <1>2, SubtreeGrows
<1>4. /\ Sound(torn)
      /\ torn.tokens = {t \in s.tokens : t.scope \notin doomed}
      /\ torn.arms = {a \in s.arms : \A t \in s.tokens : t.scope \in doomed => t.id # a.token}
      /\ torn.scopes = {c \in s.scopes : c.id \in owned \/ c.id \notin doomed}
  BY TearDownSound
<1> HIDE DEF torn, doomed
<1>5. x \in SUBSET Scope
  BY <1>4 DEF Sound, State
<1> HIDE DEF x
<1>6. Sound(u) /\ u.tokens = torn.tokens /\ u.arms = torn.arms
  BY <1>4, <1>5, SetScopes
<1> HIDE DEF u
<1>7. ASSUME NEW y, HeldBut(s, y)
      PROVE  HeldBut(u, y)
  <2> SUFFICES ASSUME NEW a \in u.arms, a.token # y
               PROVE  HeldArm(u, a)
    BY DEF HeldBut
  <2>1. PICK t \in s.tokens :
          t.id = a.token /\ Holding(t) /\ a.element \in Range(ArmedAt(t.node))
    BY <1>4, <1>6, <1>7 DEF HeldBut, HeldArm
  <2>2. t \in u.tokens
    BY <2>1, <1>4, <1>6
  <2> QED
    BY <2>1, <2>2 DEF HeldArm
<1>8. /\ u.tokens \subseteq s.tokens
      /\ \A t \in u.tokens, c \in s.scopes : c.token = id => t.scope \notin Subtree(s, {c.id})
  BY <1>3, <1>4, <1>6
<1> QED
  BY <1>1, <1>4, <1>6, <1>7, <1>8

(* Closing a scope consumes its parked parent, with what that had armed.   *)
LEMMA CompleteScopeSound ==
    ASSUME NEW s, Sound(s), NEW c \in s.scopes
    PROVE  LET u == CompleteScope(s, c)
           IN  /\ Sound(u)
               /\ u.tokens = {t \in s.tokens : t.id # c.token}
               /\ u.arms = {a \in s.arms : a.token # c.token}
<1> DEFINE x      == {d \in s.scopes : d.id # c.id}
           closed == [s EXCEPT !.scopes = x]
           w      == WithdrawArms(closed, c.token)
           v      == Unpark(w, c.token)
           u      == Leave(v, c.token, c.element, c.parent)
<1>1. CompleteScope(s, c) = u
  BY DEF CompleteScope
<1>2. /\ c.token \in Nat /\ c.element \in Node /\ c.parent \in Nat
      /\ Kind[c.element] = "subprocess"
  BY DEF Sound, State, Scope, Nodes
<1>3. x \in SUBSET Scope
  BY DEF Sound, State
<1> HIDE DEF x
<1>4. Sound(closed) /\ closed.tokens = s.tokens /\ closed.arms = s.arms
  BY <1>3, SetScopes
<1> HIDE DEF closed
<1>5. Sound(w) /\ w.tokens = s.tokens /\ w.arms = {a \in s.arms : a.token # c.token}
  BY <1>4, WithdrawArmsSound
<1> HIDE DEF w
<1>6. Sound(v) /\ v.arms = w.arms /\ v.tokens = {t \in s.tokens : t.id # c.token}
  BY <1>5, UnparkSound
<1> HIDE DEF v
<1>7. Sound(u) /\ u.tokens = v.tokens /\ u.arms = v.arms
  BY <1>2, <1>6, LeaveSound
<1> HIDE DEF u
<1> QED
  BY <1>1, <1>5, <1>6, <1>7

LEMMA TerminateSound ==
    ASSUME NEW s, Sound(s)
    PROVE  LET u == Terminate(s) IN Sound(u) /\ u.tokens = {} /\ u.arms = {}
<1> DEFINE u == Terminate(s)
<1>1. u \in State /\ u.tokens = {} /\ u.arms = {}
  BY DEF Terminate, Sound, State, Status
<1> QED
  BY <1>1 DEF Sound

-----------------------------------------------------------------------------
(* Arms.                                                                   *)

(* What a node arms is timers and message waits.                           *)
LEMMA ArmedAtArms ==
    ASSUME NEW n \in Node
    PROVE  ArmedAt(n) \in Seq(Arm)
<1>1. CASE Kind[n] = "timer"
  BY <1>1 DEF ArmedAt, Arm, TimerArm, Nodes
<1>2. Kind[n] \in {"message", "task", "subprocess"} => Boundaries[n] \in Seq(Arm)
  <2>1. Boundaries[n] \in Seq(Node)
    BY GraphTyped
  <2>2. \A i \in 1..Len(Boundaries[n]) : Boundaries[n][i] \in Arm
    BY <2>1, BoundariesAttached DEF Arm, TimerArm, MessageArm, Nodes
  <2> QED
    BY <2>1, <2>2
<1>3. CASE Kind[n] = "message"
  <2>1. <<n>> \in Seq(Arm)
    BY <1>3 DEF Arm, MessageArm, Nodes
  <2>2. ArmedAt(n) = <<n>> \o Boundaries[n]
    BY <1>3 DEF ArmedAt
  <2> QED
    BY <1>3, <1>2, <2>1, <2>2
<1>4. CASE Kind[n] \in {"task", "subprocess"}
  BY <1>4, <1>2 DEF ArmedAt
<1>5. CASE Kind[n] = "eventgateway"
  <2>1. Outgoing[n] \in Seq(Flow)
    BY GraphTyped
  <2>2. \A i \in 1..Len(Outgoing[n]) : Target[Outgoing[n][i]] \in Arm
    <3> SUFFICES ASSUME NEW i \in 1..Len(Outgoing[n])
                 PROVE  Target[Outgoing[n][i]] \in Arm
      OBVIOUS
    <3>1. Outgoing[n][i] \in Flow /\ Outgoing[n][i] \in Range(Outgoing[n])
      BY <2>1 DEF Range
    <3>2. Kind[Target[Outgoing[n][i]]] \in {"timer", "message"}
      BY <1>5, <3>1, GatewaysRaceCatches
    <3> QED
      BY <3>1, <3>2, GraphTyped DEF Arm, TimerArm, MessageArm, Nodes
  <2>3. ArmedAt(n) = [i \in 1..Len(Outgoing[n]) |-> Target[Outgoing[n][i]]]
    BY <1>5, <2>1 DEF ArmedAt, Alternatives
  <2>4. Len(Outgoing[n]) \in Nat
    BY <2>1
  <2> QED
    BY <2>2, <2>3, <2>4
<1>6. CASE Kind[n] \notin {"timer", "message", "task", "subprocess", "eventgateway"}
  BY <1>6 DEF ArmedAt
<1> QED
  BY <1>1, <1>3, <1>4, <1>5, <1>6

(* Arming opens arms only for usable keys, and never a second subscription *)
(* to one message and key.                                                 *)
LEMMA ArmAllSound ==
    ASSUME NEW s, Sound(s), NEW els \in Seq(Arm), NEW id \in Nat, AllCanArm(s, els, id)
    PROVE  LET u == ArmAll(s, els, id)
           IN  /\ Sound(u) /\ u.tokens = s.tokens
               /\ \A a \in u.arms : a \in s.arms \/ (a.token = id /\ a.element \in Range(els))
               /\ Distinct(s) => Distinct(u)
<1> DEFINE doc == s.variables
           new == ArmsUpTo(els, Len(els), id, doc)
           x   == s.arms \union new
           u   == [s EXCEPT !.arms = x]
<1>1. ArmAll(s, els, id) = u
  BY DEF ArmAll
<1>2. /\ Len(els) \in Nat /\ DOMAIN els = 1..Len(els)
      /\ \A j \in 1..Len(els) : els[j] \in Arm
      /\ doc \in [Name -> Value] /\ s.arms \in SUBSET Armed
  BY DEF Sound, State, Document
<1>3. \A j \in 1..Len(els) :
        ~CannotArm(s.arms \union ArmsUpTo(els, j - 1, id, doc), els[j], id, doc)
  BY <1>2 DEF AllCanArm
<1>4. \A j \in 1..Len(els) :
        /\ ArmFor(els[j], id, doc) \in Armed
        /\ ArmFor(els[j], id, doc).token = id
        /\ ArmFor(els[j], id, doc).element = els[j]
  <2> SUFFICES ASSUME NEW j \in 1..Len(els)
               PROVE  ArmFor(els[j], id, doc) \in Armed
    BY DEF ArmFor
  <2>1. els[j] \in Arm /\ els[j] \in Node /\ Repeats[els[j]] \in Nat
    BY <1>2, GraphTyped DEF Arm, TimerArm, MessageArm, Nodes
  <2>2. els[j] \in MessageArm => doc[Reads[els[j]]] \in Key
    BY <1>3 DEF CannotArm, Unusable
  <2>3. KeyOf(els[j], doc) \in Key \union {NoKey}
    BY <2>2 DEF KeyOf
  <2> QED
    BY <2>1, <2>3 DEF ArmFor, Armed
<1>5. new \in SUBSET Armed
  BY <1>4 DEF ArmsUpTo
<1> HIDE DEF x
<1>6. Sound(u) /\ u.tokens = s.tokens /\ u.arms = x
  BY <1>2, <1>5, SetArms DEF x
<1>7. \A a \in new : a.token = id /\ a.element \in Range(els)
  BY <1>2, <1>4 DEF ArmsUpTo, Range
<1>8. ASSUME Distinct(s)
      PROVE  Distinct(u)
  <2>1. \A a, b : SameSubscription(a, b) <=> SameSubscription(b, a)
    BY DEF SameSubscription
  <2>2. ASSUME NEW a \in s.arms, NEW j \in 1..Len(els)
        PROVE  ~SameSubscription(a, ArmFor(els[j], id, doc))
    BY <1>3 DEF CannotArm
  <2>3. ASSUME NEW i \in 1..Len(els), NEW j \in 1..Len(els), i < j
        PROVE  ~SameSubscription(ArmFor(els[i], id, doc), ArmFor(els[j], id, doc))
    <3>1. i \in 1..(j - 1)
      BY <1>2, <2>3
    <3>2. ArmFor(els[i], id, doc) \in ArmsUpTo(els, j - 1, id, doc)
      BY <3>1 DEF ArmsUpTo
    <3> QED
      BY <1>3, <3>2 DEF CannotArm
  <2> SUFFICES ASSUME NEW a \in x, NEW b \in x, SameSubscription(a, b)
               PROVE  a = b
    BY <1>6 DEF Distinct
  <2>4. CASE a \in s.arms /\ b \in s.arms
    BY <1>8, <2>4 DEF Distinct
  <2>5. CASE a \in s.arms /\ b \in new
    BY <2>2, <2>5 DEF ArmsUpTo
  <2>6. CASE a \in new /\ b \in s.arms
    BY <2>1, <2>2, <2>6 DEF ArmsUpTo
  <2>7. CASE a \in new /\ b \in new
    <3>1. PICK i \in 1..Len(els) : a = ArmFor(els[i], id, doc)
      BY <2>7 DEF ArmsUpTo
    <3>2. PICK j \in 1..Len(els) : b = ArmFor(els[j], id, doc)
      BY <2>7 DEF ArmsUpTo
    <3>3. ~(i < j) /\ ~(j < i)
      BY <2>1, <2>3, <3>1, <3>2
    <3>4. i = j
      BY <1>2, <3>3
    <3> QED
      BY <3>1, <3>2, <3>4
  <2> QED
    BY <2>4, <2>5, <2>6, <2>7 DEF x
<1> QED
  BY <1>1, <1>6, <1>7, <1>8 DEF x

-----------------------------------------------------------------------------
(* The freeze, the interruption and the end of a step.                     *)

CanFail(n) ==
    Kind[n] \in {"task", "rule", "timer", "message", "timerboundary", "messageboundary"}

(* A freeze withdraws the arms of its cause and no others.                 *)
LEMMA FreezeSound ==
    ASSUME NEW s, Sound(s), NEW id \in Nat, NEW scope \in Nat, NEW element \in Node,
           CanFail(element)
    PROVE  LET u == Freeze(s, id, scope, element)
           IN  /\ Sound(u) /\ u.arms \subseteq s.arms /\ u.status = "failed"
               /\ HeldBut(s, id) => Held(u)
               /\ \A a \in u.arms : a.token # id
               /\ Calm(s) => \A t \in u.tokens : t.wait = "incident" => t.id = id
<1> DEFINE w1 == WithdrawArms(s, id)
           w2 == CloseItem(w1, id)
           w3 == CloseOwned(w2, id)
           w  == Unpark(w3, id)
           x  == {Halted(t) : t \in w.tokens} \union {InFlight(m) : m \in w.queue}
           h  == [w EXCEPT !.tokens = x]
           p  == Park(h, id, element, scope, "incident", NoFlow)
           n  == p.nextIncident + 1
           u  == [p EXCEPT !.queue = {}, !.status = "failed", !.nextIncident = n, !.clock = 0]
<1>1. Freeze(s, id, scope, element) = u
  BY DEF Freeze
<1>2. Sound(w1) /\ w1.tokens = s.tokens /\ w1.arms = {a \in s.arms : a.token # id}
  BY WithdrawArmsSound
<1>3. HeldBut(s, id) => HeldBut(w1, id)
  BY <1>2 DEF HeldBut, HeldArm
<1> HIDE DEF w1
<1>4. Sound(w2) /\ w2.tokens = w1.tokens /\ w2.arms = w1.arms
  BY <1>2, CloseItemSound
<1>5. HeldBut(s, id) => HeldBut(w2, id)
  BY <1>3, <1>4 DEF HeldBut, HeldArm
<1> HIDE DEF w2
<1>6. /\ Sound(w3) /\ w3.arms \subseteq w2.arms /\ w3.tokens \subseteq w2.tokens
      /\ HeldBut(s, id) => HeldBut(w3, id)
  BY <1>4, <1>5, CloseOwnedSound
<1> HIDE DEF w3
<1>7. Sound(w) /\ w.arms = w3.arms /\ w.tokens = {t \in w3.tokens : t.id # id}
  BY <1>6, UnparkSound
<1> HIDE DEF w
<1>8. \A t \in Token : Fits(t) => Halted(t) \in Token /\ Fits(Halted(t))
  <2> SUFFICES ASSUME NEW t \in Token, Fits(t), t.wait = "decision"
               PROVE  LET z == [t EXCEPT !.wait = "awaiting"] IN z \in Token /\ Fits(z)
    BY DEF Halted
  <2> DEFINE z == [t EXCEPT !.wait = "awaiting"]
  <2>1. z \in Token /\ z.wait = "awaiting" /\ z.node = t.node
    BY DEF Token, Wait
  <2> HIDE DEF z
  <2>2. Fits(z)
    BY <2>1 DEF Fits
  <2> QED
    BY <2>1, <2>2 DEF z
<1>9. \A m \in Move : InFlight(m) \in Token /\ InFlight(m).wait = "inflight"
  BY DEF InFlight, Move, Token, Wait
<1>10. \A m \in Move : Fits(InFlight(m))
  BY <1>9 DEF Fits
<1>11. x \in SUBSET Token /\ \A t \in x : Fits(t)
  BY <1>7, <1>8, <1>9, <1>10 DEF Sound, State
<1>12. \A t \in w.tokens : Holding(t) => t \in x
  BY DEF Halted, Holding
<1>13. Calm(s) => \A t \in x : t.wait # "incident"
  <2>1. Calm(s) => \A t \in w.tokens : t.wait # "incident"
    BY <1>2, <1>4, <1>6, <1>7 DEF Calm
  <2>2. \A t \in w.tokens : t \in Token
    BY <1>7 DEF Sound, State
  <2>3. \A t \in Token : t.wait # "incident" => Halted(t).wait # "incident"
    BY DEF Halted, Token
  <2>4. \A m \in w.queue : InFlight(m).wait = "inflight"
    BY <1>7, <1>9 DEF Sound, State
  <2> QED
    BY <2>1, <2>2, <2>3, <2>4
<1> HIDE DEF x
<1>14. Sound(h) /\ h.tokens = x /\ h.arms = w.arms
  BY <1>7, <1>11, SetTokens
<1> HIDE DEF h
<1>15. Fits([id |-> id, node |-> element, scope |-> scope, wait |-> "incident", via |-> NoFlow])
  BY DEF Fits, CanFail
<1>16. /\ Sound(p) /\ p.arms = h.arms /\ h.tokens \subseteq p.tokens
       /\ \A t \in p.tokens : t \in h.tokens \/ t.id = id
  BY <1>14, <1>15, ParkSound DEF Wait
<1> HIDE DEF p
<1>17. n \in Nat
  BY <1>16 DEF Sound, State
<1> HIDE DEF n
<1>18. u \in State /\ u.tokens = p.tokens /\ u.arms = p.arms /\ u.status = "failed"
  BY <1>16, <1>17 DEF Sound, State, Status
<1> HIDE DEF u
<1>19. Sound(u)
  BY <1>16, <1>18 DEF Sound
<1>20. u.arms = w3.arms /\ u.arms \subseteq w1.arms
  BY <1>4, <1>6, <1>7, <1>14, <1>16, <1>18
<1>21. ASSUME HeldBut(s, id)
       PROVE  Held(u)
  <2> SUFFICES ASSUME NEW a \in u.arms
               PROVE  HeldArm(u, a)
    BY DEF Held
  <2>1. a \in w3.arms /\ a.token # id
    BY <1>2, <1>20
  <2>2. PICK t \in w3.tokens :
          t.id = a.token /\ Holding(t) /\ a.element \in Range(ArmedAt(t.node))
    BY <1>6, <1>21, <2>1 DEF HeldBut, HeldArm
  <2>3. t \in w.tokens
    BY <1>7, <2>1, <2>2
  <2>4. t \in u.tokens
    BY <1>12, <1>14, <1>16, <1>18, <2>2, <2>3
  <2> QED
    BY <2>2, <2>4 DEF HeldArm
<1>22. Calm(s) => \A t \in u.tokens : t.wait = "incident" => t.id = id
  BY <1>14, <1>16, <1>18, <1>13
<1> QED
  BY <1>1, <1>2, <1>18, <1>19, <1>20, <1>21, <1>22

LEMMA InterruptSound ==
    ASSUME NEW s, Sound(s), NEW t \in s.tokens, NEW b \in Node,
           Kind[b] \in {"timer", "message", "timerboundary", "messageboundary", "errorboundary"}
    PROVE  LET u == Interrupt(s, t, b)
           IN  /\ Sound(u) /\ u.arms \subseteq s.arms /\ u.tokens \subseteq s.tokens
               /\ HeldBut(s, t.id) => Held(u)
               /\ \A x \in u.tokens :
                    /\ x.id # t.id
                    /\ \A c \in s.scopes : c.token = t.id => x.scope \notin Subtree(s, {c.id})
<1> DEFINE id == t.id
           scope == t.scope
           v1 == Unpark(s, id)
           v2 == CloseOwned(v1, id)
           v3 == WithdrawArms(v2, id)
           u  == Leave(v3, id, b, scope)
<1>1. Interrupt(s, t, b) = u
  BY DEF Interrupt
<1>2. id \in Nat /\ scope \in Nat
  BY DEF Sound, State, Token
<1> HIDE DEF id, scope
<1>3. /\ Sound(v1) /\ v1.arms = s.arms /\ v1.scopes = s.scopes
      /\ v1.tokens = {x \in s.tokens : x.id # id}
  BY UnparkSound
<1> HIDE DEF v1
<1>4. HeldBut(s, id) => HeldBut(v1, id)
  BY <1>3 DEF HeldBut, HeldArm
<1>5. /\ Sound(v2) /\ v2.arms \subseteq v1.arms /\ v2.tokens \subseteq v1.tokens
      /\ HeldBut(s, id) => HeldBut(v2, id)
      /\ \A x \in v2.tokens, c \in v1.scopes :
            c.token = id => x.scope \notin Subtree(v1, {c.id})
  BY <1>3, <1>4, CloseOwnedSound
<1> HIDE DEF v2
<1>6. \A R : Subtree(v1, R) = Subtree(s, R)
  BY <1>3 DEF Subtree, ScopeIds
<1>7. Sound(v3) /\ v3.tokens = v2.tokens /\ v3.arms = {a \in v2.arms : a.token # id}
  BY <1>5, WithdrawArmsSound
<1> HIDE DEF v3
<1>8. Sound(u) /\ u.tokens = v3.tokens /\ u.arms = v3.arms
  <2>1. /\ Kind[b] \notin {"eventgateway", "exclusive", "end", "terminate"}
        /\ Kind[b] # "parallel"
    OBVIOUS
  <2>2. Sound(v3) /\ id \in Nat /\ scope \in Nat
    BY <1>2, <1>7
  <2> QED
    BY <2>1, <2>2, LeaveSound
<1> HIDE DEF u
<1>9. HeldBut(s, id) => Held(u)
  BY <1>5, <1>7, <1>8 DEF Held, HeldBut, HeldArm
<1>10. \A x \in u.tokens :
        /\ x.id # id
        /\ \A c \in s.scopes : c.token = id => x.scope \notin Subtree(s, {c.id})
  BY <1>3, <1>5, <1>6, <1>7, <1>8
<1> QED
  BY <1>1, <1>3, <1>5, <1>7, <1>8, <1>9, <1>10 DEF id

LEMMA ResumeHaltedSound ==
    ASSUME NEW s, Sound(s)
    PROVE  LET u == ResumeHalted(s)
           IN  /\ Sound(u) /\ u.arms = s.arms /\ u.tokens \subseteq s.tokens
               /\ \A t \in s.tokens : Holding(t) => t \in u.tokens
<1> DEFINE halted == {t \in s.tokens : t.wait = "inflight"}
           x == s.tokens \ halted
           q == s.queue \union
                  {[token |-> t.id, node |-> t.node, scope |-> t.scope, via |-> t.via,
                    at |-> s.clock + t.id] : t \in halted}
           c == s.clock + s.nextToken
           u == [s EXCEPT !.tokens = x, !.queue = q, !.clock = c]
<1>1. ResumeHalted(s) = u
  BY DEF ResumeHalted
<1>2. /\ s.tokens \in SUBSET Token /\ s.queue \in SUBSET Move
      /\ s.clock \in Nat /\ s.nextToken \in Nat
  BY DEF Sound, State
<1>3. x \in SUBSET Token /\ c \in Nat
  BY <1>2
<1>4. \A t \in halted : s.clock + t.id \in Nat
  BY <1>2 DEF Token
<1>5. q \in SUBSET Move
  BY <1>2, <1>4 DEF Token, Move
<1>6. \A t \in s.tokens : Holding(t) => t \in x
  BY DEF Holding
<1>7. x \subseteq s.tokens
  OBVIOUS
<1> HIDE DEF halted, x, q, c
<1>8. u \in State /\ u.tokens = x /\ u.arms = s.arms
  BY <1>3, <1>5 DEF Sound, State
<1> HIDE DEF u
<1>9. Sound(u)
  BY <1>7, <1>8 DEF Sound
<1> QED
  BY <1>1, <1>6, <1>7, <1>8, <1>9

LEMMA SettleSound ==
    ASSUME NEW s, Sound(s)
    PROVE  LET u == Settle(s)
           IN  /\ Sound(u) /\ u.arms = s.arms /\ (Calm(s) => Calm(u))
               /\ \A t \in s.tokens : Holding(t) => t \in u.tokens
<1>1. CASE s.status # "active" \/ s.queue # {}
  BY <1>1 DEF Settle
<1>2. CASE s.status = "active" /\ s.queue = {}
  <2> DEFINE Asked(t) == IF t.wait = "awaiting" THEN [t EXCEPT !.wait = "decision"] ELSE t
             x == {Asked(t) : t \in s.tokens}
             r == IF s.tokens = {} THEN "completed" ELSE "active"
             u == [s EXCEPT !.tokens = x, !.status = r, !.clock = 0]
  <2>1. Settle(s) = u
    BY <1>2, Zenon DEF Settle
  <2>2. \A t \in Token : Fits(t) => Asked(t) \in Token /\ Fits(Asked(t))
    <3> SUFFICES ASSUME NEW t \in Token, Fits(t), t.wait = "awaiting"
                 PROVE  LET z == [t EXCEPT !.wait = "decision"] IN z \in Token /\ Fits(z)
      OBVIOUS
    <3> DEFINE z == [t EXCEPT !.wait = "decision"]
    <3>1. z \in Token /\ z.wait = "decision" /\ z.node = t.node
      BY DEF Token, Wait
    <3>2. Kind[t.node] = "rule"
      BY DEF Fits
    <3> HIDE DEF z
    <3>3. Fits(z)
      BY <3>1, <3>2 DEF Fits
    <3> QED
      BY <3>1, <3>3 DEF z
  <2>3. x \in SUBSET Token /\ \A t \in x : Fits(t)
    BY <2>2 DEF Sound, State
  <2>4. \A t \in s.tokens : Holding(t) => t \in x
    BY DEF Holding
  <2>5. r \in Status
    BY DEF Status
  <2>6. Calm(s) => \A t \in x : t.wait # "incident"
    <3>1. \A t \in Token : t.wait # "incident" => Asked(t).wait # "incident"
      BY DEF Token
    <3>2. \A t \in s.tokens : t \in Token
      BY DEF Sound, State
    <3> HIDE DEF Asked
    <3> QED
      BY <3>1, <3>2 DEF Calm
  <2> HIDE DEF x, r, Asked
  <2>7. u \in State /\ u.tokens = x /\ u.arms = s.arms
    BY <2>3, <2>5 DEF Sound, State
  <2> HIDE DEF u
  <2>8. Sound(u)
    BY <2>3, <2>7 DEF Sound
  <2> QED
    BY <2>1, <2>4, <2>7, <2>8, <2>6 DEF Calm
<1> QED
  BY <1>1, <1>2

-----------------------------------------------------------------------------
(* The inductive invariant Stable, and Good, what holds of a state in the  *)
(* middle of an action.  Each part of Stable is needed by another: a fired *)
(* arm meets a token that waits for it because of Held and of the Fits in  *)
(* Sound, and Held itself survives the repair that takes the cause of an   *)
(* incident off its node because that token holds nothing.                 *)
CauseHoldsNothing(s) ==
    \A t \in s.tokens : t.wait = "incident" =>
        s.status = "failed" /\ \A a \in s.arms : a.token # t.id

Stable(s) == Sound(s) /\ Held(s) /\ Distinct(s) /\ CauseHoldsNothing(s)
Good(s)   == Sound(s) /\ Held(s) /\ Distinct(s) /\ Calm(s)

LEMMA BecomesStable ==
    ASSUME NEW u, Stable(u), Becomes(u)
    PROVE  Stable(Now)'
<1>1. /\ Now'.tokens = u.tokens /\ Now'.arms = u.arms /\ Now'.status = u.status
      /\ Sound(u) /\ Held(u) /\ Distinct(u) /\ CauseHoldsNothing(u)
  BY DEF Stable, Becomes, Now
<1>2. Now' \in State
  BY <1>1 DEF Becomes, Now, Sound, State
<1>3. Sound(Now)'
  BY <1>1, <1>2 DEF Sound
<1>4. Held(Now)'
  BY <1>1 DEF Held, HeldArm
<1>5. Distinct(Now)'
  BY <1>1 DEF Distinct
<1>6. CauseHoldsNothing(Now)'
  BY <1>1 DEF CauseHoldsNothing
<1> QED
  BY <1>3, <1>4, <1>5, <1>6 DEF Stable

LEMMA BecomesGood ==
    ASSUME NEW u, Good(u), Becomes(u)
    PROVE  Stable(Now)'
<1>1. Stable(u)
  BY DEF Good, Stable, Calm, CauseHoldsNothing
<1> QED
  BY <1>1, BecomesStable

(* Fewer arms stay distinct.                                               *)
LEMMA FewerArms ==
    ASSUME NEW s, Distinct(s), NEW u, u.arms \subseteq s.arms
    PROVE  Distinct(u)
BY DEF Distinct

(* The same arms are held while no token that may hold one is gone.        *)
LEMMA SameHolders ==
    ASSUME NEW s, Held(s), NEW u, u.arms \subseteq s.arms,
           \A t \in s.tokens : Holding(t) => t \in u.tokens
    PROVE  Held(u)
BY DEF Held, HeldArm

LEMMA SettleGood ==
    ASSUME NEW s, Good(s)
    PROVE  Good(Settle(s))
BY SettleSound, FewerArms, SameHolders DEF Good

LEMMA ResumeGood ==
    ASSUME NEW s, Good(s)
    PROVE  Good(ResumeHalted(s))
BY ResumeHaltedSound, FewerArms, SameHolders DEF Good, Calm

LEMMA ParkGood ==
    ASSUME NEW s, Good(s), NEW id \in Nat, NEW node \in Node, NEW scope \in Nat,
           NEW wait \in Wait, NEW via \in Flow \union {NoFlow},
           Fits([id |-> id, node |-> node, scope |-> scope, wait |-> wait, via |-> via]),
           wait # "incident"
    PROVE  LET u == Park(s, id, node, scope, wait, via)
           IN  /\ Good(u)
               /\ [id |-> id, node |-> node, scope |-> scope, wait |-> wait, via |-> via]
                    \in u.tokens
<1> DEFINE u == Park(s, id, node, scope, wait, via)
           t == [id |-> id, node |-> node, scope |-> scope, wait |-> wait, via |-> via]
<1>1. Sound(u) /\ u.arms = s.arms /\ u.tokens = s.tokens \union {t} /\ t.wait = wait
  BY ParkSound DEF Good
<1> HIDE DEF u, t
<1>2. Held(u) /\ Distinct(u)
  BY <1>1, SameHolders, FewerArms DEF Good
<1>3. Calm(u)
  BY <1>1 DEF Good, Calm
<1> QED
  BY <1>1, <1>2, <1>3 DEF Good, u, t

LEMMA GoGood ==
    ASSUME NEW s, Good(s), NEW id \in Nat, NEW node \in Node, NEW scope \in Nat,
           NEW via \in Flow \union {NoFlow}
    PROVE  Good(Go(s, id, node, scope, via))
<1> DEFINE u == Go(s, id, node, scope, via)
<1>1. Sound(u) /\ u.tokens = s.tokens /\ u.arms = s.arms
  BY GoSound DEF Good
<1> HIDE DEF u
<1> QED
  BY <1>1, SameHolders, FewerArms DEF Good, Calm, u

LEMMA LeaveGood ==
    ASSUME NEW s, Good(s), NEW id \in Nat, NEW node \in Node, NEW scope \in Nat,
           Kind[node] \notin {"eventgateway", "exclusive", "end", "terminate"},
           Kind[node] = "parallel" => IsJoin(node)
    PROVE  Good(Leave(s, id, node, scope))
<1> DEFINE u == Leave(s, id, node, scope)
<1>1. Sound(u) /\ u.tokens = s.tokens /\ u.arms = s.arms
  BY LeaveSound DEF Good
<1> HIDE DEF u
<1> QED
  BY <1>1, SameHolders, FewerArms DEF Good, Calm, u

LEMMA LeaveFreshGood ==
    ASSUME NEW s, Good(s), NEW node \in Node, NEW scope \in Nat,
           Kind[node] \notin {"eventgateway", "exclusive", "end", "terminate"},
           Kind[node] = "parallel" => IsJoin(node)
    PROVE  Good(LeaveFresh(s, node, scope))
<1> DEFINE u == LeaveFresh(s, node, scope)
<1>1. Sound(u) /\ u.tokens = s.tokens /\ u.arms = s.arms
  BY LeaveFreshSound DEF Good
<1> HIDE DEF u
<1> QED
  BY <1>1, SameHolders, FewerArms DEF Good, Calm, u

LEMMA SplitGood ==
    ASSUME NEW s, Good(s), NEW node \in Node, NEW scope \in Nat
    PROVE  Good(Split(s, node, scope))
<1> DEFINE u == Split(s, node, scope)
<1>1. Sound(u) /\ u.tokens = s.tokens /\ u.arms = s.arms
  BY SplitSound DEF Good
<1> HIDE DEF u
<1> QED
  BY <1>1, SameHolders, FewerArms DEF Good, Calm, u

LEMMA CompleteScopeGood ==
    ASSUME NEW s, Good(s), NEW c \in s.scopes
    PROVE  Good(CompleteScope(s, c))
<1> DEFINE u == CompleteScope(s, c)
<1>1. /\ Sound(u) /\ u.tokens = {t \in s.tokens : t.id # c.token}
      /\ u.arms = {a \in s.arms : a.token # c.token}
  BY CompleteScopeSound DEF Good
<1> HIDE DEF u
<1>2. Held(u)
  BY <1>1 DEF Good, Held, HeldArm
<1> QED
  BY <1>1, <1>2, FewerArms DEF Good, Calm, u

LEMMA TearDownGood ==
    ASSUME NEW s, Good(s), NEW roots
    PROVE  Good(TearDown(s, roots))
<1> DEFINE u == TearDown(s, roots)
           doomed == Subtree(s, roots)
<1>1. /\ Sound(u) /\ u.tokens = {t \in s.tokens : t.scope \notin doomed}
      /\ u.arms = {a \in s.arms : \A t \in s.tokens : t.scope \in doomed => t.id # a.token}
  BY TearDownSound DEF Good
<1> HIDE DEF u, doomed
<1>2. Held(u)
  BY <1>1 DEF Good, Held, HeldArm
<1> QED
  BY <1>1, <1>2, FewerArms DEF Good, Calm, u

LEMMA TerminateGood ==
    ASSUME NEW s, Good(s)
    PROVE  Good(Terminate(s))
<1> DEFINE u == Terminate(s)
<1>1. Sound(u) /\ u.tokens = {} /\ u.arms = {}
  BY TerminateSound DEF Good
<1> HIDE DEF u
<1> QED
  BY <1>1 DEF Good, Held, Distinct, Calm, u

LEMMA FreezeStable ==
    ASSUME NEW s, Good(s), NEW id \in Nat, NEW scope \in Nat, NEW element \in Node,
           CanFail(element)
    PROVE  Stable(Freeze(s, id, scope, element))
<1> DEFINE u == Freeze(s, id, scope, element)
<1>1. Sound(s)
  BY DEF Good
<1>2. /\ Sound(u) /\ u.arms \subseteq s.arms /\ u.status = "failed"
      /\ HeldBut(s, id) => Held(u)
      /\ \A a \in u.arms : a.token # id
      /\ Calm(s) => \A t \in u.tokens : t.wait = "incident" => t.id = id
  BY <1>1, FreezeSound
<1> HIDE DEF u
<1>3. HeldBut(s, id)
  BY DEF Good, Held, HeldBut
<1>4. CauseHoldsNothing(u)
  BY <1>2 DEF Good, CauseHoldsNothing
<1> QED
  BY <1>2, <1>3, <1>4, FewerArms DEF Good, Stable, u

LEMMA InterruptGood ==
    ASSUME NEW s, Good(s), NEW t \in s.tokens, NEW b \in Node,
           Kind[b] \in {"timer", "message", "timerboundary", "messageboundary", "errorboundary"}
    PROVE  Good(Interrupt(s, t, b))
<1> DEFINE u == Interrupt(s, t, b)
<1>1. /\ Sound(u) /\ u.arms \subseteq s.arms /\ u.tokens \subseteq s.tokens
      /\ HeldBut(s, t.id) => Held(u)
  BY InterruptSound DEF Good
<1> HIDE DEF u
<1>2. HeldBut(s, t.id)
  BY DEF Good, Held, HeldBut
<1> QED
  BY <1>1, <1>2, FewerArms DEF Good, Calm, u

(* A token taken off its node with everything it had armed.                *)
LEMMA GoneGood ==
    ASSUME NEW s, Good(s), NEW id
    PROVE  Good(WithdrawArms(Unpark(s, id), id)) /\ Good(Unpark(WithdrawArms(s, id), id))
<1> DEFINE u1 == Unpark(s, id)
           u  == WithdrawArms(u1, id)
           v1 == WithdrawArms(s, id)
           v  == Unpark(v1, id)
<1>1. Sound(u1) /\ u1.arms = s.arms /\ u1.tokens = {t \in s.tokens : t.id # id}
  BY UnparkSound DEF Good
<1>2. Sound(v1) /\ v1.tokens = s.tokens /\ v1.arms = {a \in s.arms : a.token # id}
  BY WithdrawArmsSound DEF Good
<1> HIDE DEF u1, v1
<1>3. Sound(u) /\ u.tokens = u1.tokens /\ u.arms = {a \in u1.arms : a.token # id}
  BY <1>1, WithdrawArmsSound
<1>4. Sound(v) /\ v.arms = v1.arms /\ v.tokens = {t \in v1.tokens : t.id # id}
  BY <1>2, UnparkSound
<1> HIDE DEF u, v
<1>5. Held(u) /\ Held(v)
  BY <1>1, <1>2, <1>3, <1>4 DEF Good, Held, HeldArm
<1>6. Distinct(u) /\ Distinct(v)
  BY <1>1, <1>2, <1>3, <1>4 DEF Good, Distinct
<1>7. Calm(u) /\ Calm(v)
  BY <1>1, <1>2, <1>3, <1>4 DEF Good, Calm
<1> QED
  BY <1>3, <1>4, <1>5, <1>6, <1>7 DEF Good, u, v, u1, v1

LEMMA CloseItemGood ==
    ASSUME NEW s, Good(s), NEW id
    PROVE  Good(CloseItem(s, id)) /\ CloseItem(s, id).tokens = s.tokens
<1> DEFINE u == CloseItem(s, id)
<1>1. Sound(u) /\ u.tokens = s.tokens /\ u.arms = s.arms
  BY CloseItemSound DEF Good
<1> HIDE DEF u
<1> QED
  BY <1>1, SameHolders, FewerArms DEF Good, Calm, u

(* The elements a node arms can be where an incident parks.                *)
LEMMA ArmsCanFail ==
    ASSUME NEW n \in Node, NEW k \in DOMAIN ArmedAt(n)
    PROVE  ArmedAt(n)[k] \in Node /\ CanFail(ArmedAt(n)[k])
<1>1. ArmedAt(n)[k] \in Arm
  BY ArmedAtArms
<1> QED
  BY <1>1 DEF Arm, TimerArm, MessageArm, Nodes, CanFail

LEMMA ArmAllGood ==
    ASSUME NEW s, Good(s), NEW id \in Nat, NEW t \in s.tokens, t.id = id, Holding(t),
           t.node \in Node, AllCanArm(s, ArmedAt(t.node), id)
    PROVE  Good(ArmAll(s, ArmedAt(t.node), id))
<1> DEFINE els == ArmedAt(t.node)
           u   == ArmAll(s, els, id)
<1>1. els \in Seq(Arm)
  BY ArmedAtArms
<1> HIDE DEF els
<1>2. AllCanArm(s, els, id)
  BY DEF els
<1>3. /\ Sound(u) /\ u.tokens = s.tokens
      /\ \A a \in u.arms : a \in s.arms \/ (a.token = id /\ a.element \in Range(els))
      /\ Distinct(s) => Distinct(u)
  BY <1>1, <1>2, ArmAllSound DEF Good
<1> HIDE DEF u
<1>4. ASSUME NEW a \in u.arms
      PROVE  HeldArm(u, a)
  <2>1. CASE a \in s.arms
    BY <1>3, <2>1 DEF Good, Held, HeldArm
  <2>2. CASE a.token = id /\ a.element \in Range(els)
    BY <1>3, <2>2 DEF HeldArm, els
  <2> QED
    BY <1>3, <2>1, <2>2
<1> QED
  BY <1>3, <1>4 DEF Good, Held, Calm, u, els

LEMMA ArmOrFreezeStable ==
    ASSUME NEW s, Good(s), NEW id \in Nat, NEW scope \in Nat,
           NEW t \in s.tokens, t.id = id, Holding(t), t.node \in Node,
           ArmOrFreeze(s, id, scope, ArmedAt(t.node))
    PROVE  Stable(Now)'
<1> DEFINE els == ArmedAt(t.node)
<1>1. CASE AllCanArm(s, els, id) /\ Becomes(Settle(ArmAll(s, els, id)))
  <2>1. Good(ArmAll(s, els, id))
    BY <1>1, ArmAllGood
  <2>2. Good(Settle(ArmAll(s, els, id)))
    BY <2>1, SettleGood
  <2> QED
    BY <1>1, <2>2, BecomesGood
<1>2. CASE \E k \in DOMAIN els : FailsToArm(s, els, k, id) /\ Becomes(Freeze(s, id, scope, els[k]))
  <2>1. PICK k \in DOMAIN els : Becomes(Freeze(s, id, scope, els[k]))
    BY <1>2
  <2>2. els[k] \in Node /\ CanFail(els[k])
    BY ArmsCanFail
  <2>3. Stable(Freeze(s, id, scope, els[k]))
    BY <2>2, FreezeStable
  <2> QED
    BY <2>1, <2>3, BecomesStable
<1> QED
  BY <1>1, <1>2 DEF ArmOrFreeze

-----------------------------------------------------------------------------
(* One lemma per group of actions: each leads from a good state to one.    *)

LEMMA NowFields ==
    ASSUME Good(Now)
    PROVE  /\ Now.tokens = tokens /\ Now.arms = arms /\ Now.items = items
           /\ Now.scopes = scopes /\ Now.queue = queue /\ Now.variables = variables
           /\ tokens \in SUBSET Token /\ arms \in SUBSET Armed /\ items \in SUBSET Item
           /\ scopes \in SUBSET Scope /\ queue \in SUBSET Move
           /\ variables \in Document /\ nextToken \in Nat /\ nextScope \in Nat
           /\ \A t \in tokens : Fits(t)
BY DEF Good, Sound, State, Now

LEMMA TakenGood ==
    ASSUME Good(Now), NEW m \in queue
    PROVE  /\ Good(Taken(m))
           /\ Taken(m).tokens = tokens /\ Taken(m).arms = arms /\ Taken(m).scopes = scopes
           /\ m.token \in Nat /\ m.node \in Node /\ m.scope \in Nat
           /\ m.via \in Flow \union {NoFlow}
<1> DEFINE s == Now
           q == s.queue \ {m}
           u == [s EXCEPT !.queue = q]
<1>1. Taken(m) = u
  BY DEF Taken
<1>2. q \in SUBSET Move
  BY NowFields
<1>3. s.scopes = scopes
  BY NowFields
<1> HIDE DEF s, q
<1>4. Sound(u) /\ u.tokens = s.tokens /\ u.arms = s.arms
  BY <1>2, SetQueue DEF Good, s
<1>5. u.scopes = s.scopes
  BY DEF Good, Sound, State, s
<1> HIDE DEF u
<1>6. Held(u) /\ Distinct(u)
  BY <1>4, SameHolders, FewerArms DEF Good, Calm, s
<1>7. /\ m.token \in Nat /\ m.node \in Node /\ m.scope \in Nat
      /\ m.via \in Flow \union {NoFlow}
  BY NowFields DEF Move
<1> QED
  BY <1>1, <1>3, <1>4, <1>5, <1>6, <1>7, NowFields DEF Good, Calm, s

(* Consuming the last token of a scope, or one of several.                 *)
LEMMA ConsumedGood ==
    ASSUME NEW s, Good(s), NEW scope, Consumed(s, scope)
    PROVE  Stable(Now)'
<1>1. CASE Becomes(Settle(s))
  BY <1>1, SettleGood, BecomesGood
<1>2. CASE \E c \in s.scopes : Becomes(CompleteScope(s, c))
  BY <1>2, CompleteScopeGood, BecomesGood
<1> QED
  BY <1>1, <1>2 DEF Consumed

LEMMA EnterGood ==
    ASSUME Good(Now), NEW m \in queue, Enter(m)
    PROVE  Stable(Now)'
<1> DEFINE s == Taken(m)
<1>1. /\ Good(s) /\ s.tokens = tokens /\ s.arms = arms /\ s.scopes = scopes
      /\ m.token \in Nat /\ m.node \in Node /\ m.scope \in Nat
      /\ m.via \in Flow \union {NoFlow}
  BY TakenGood
<1> HIDE DEF s
<1>2. CASE EnterStart(m)
  <2>1. Good(Leave(s, m.token, m.node, m.scope))
    BY <1>1, <1>2, LeaveGood DEF EnterStart, Enters
  <2> QED
    BY <1>2, <2>1, BecomesGood DEF EnterStart, s
<1>3. CASE EnterRule(m)
  <2> DEFINE p == Park(s, m.token, m.node, m.scope, "decision", NoFlow)
  <2>1. Good(p)
    BY <1>1, <1>3, ParkGood DEF EnterRule, Enters, Fits, Wait
  <2> HIDE DEF p
  <2>2. Good(Settle(p))
    BY <2>1, SettleGood
  <2> QED
    BY <1>3, <2>2, BecomesGood DEF EnterRule, s, p
<1>4. CASE EnterTask(m)
  <2> DEFINE p == Park(s, m.token, m.node, m.scope, "workitem", NoFlow)
             t == [id |-> m.token, node |-> m.node, scope |-> m.scope,
                   wait |-> "workitem", via |-> NoFlow]
             x == p.items \union {[token |-> m.token, element |-> m.node]}
             o == [p EXCEPT !.items = x]
  <2>1. Good(p) /\ t \in p.tokens
    BY <1>1, <1>4, ParkGood DEF EnterTask, Enters, Fits, Wait
  <2>2. t.id = m.token /\ t.node = m.node /\ Holding(t)
    BY DEF Holding
  <2>3. ArmOrFreeze(o, m.token, m.scope, ArmedAt(m.node))
    BY <1>4 DEF EnterTask, s
  <2> HIDE DEF p, t
  <2>4. x \in SUBSET Item
    BY <1>1, <1>4, <2>1 DEF EnterTask, Enters, Good, Sound, State, Item, Nodes
  <2> HIDE DEF x
  <2>5. Sound(o) /\ o.tokens = p.tokens /\ o.arms = p.arms
    BY <2>1, <2>4, SetItems DEF Good
  <2> HIDE DEF o
  <2>6. Good(o)
    BY <2>1, <2>5, SameHolders, FewerArms DEF Good, Calm
  <2> QED
    BY <1>1, <2>1, <2>2, <2>3, <2>5, <2>6, ArmOrFreezeStable
<1>5. CASE EnterCatch(m)
  <2>1. PICK kind \in {"timer", "message", "eventgateway"} :
          /\ Enters(m, kind)
          /\ ArmOrFreeze(Park(s, m.token, m.node, m.scope, kind, NoFlow),
                         m.token, m.scope, ArmedAt(m.node))
    BY <1>5 DEF EnterCatch, s
  <2> DEFINE p == Park(s, m.token, m.node, m.scope, kind, NoFlow)
             t == [id |-> m.token, node |-> m.node, scope |-> m.scope,
                   wait |-> kind, via |-> NoFlow]
  <2>2. Good(p) /\ t \in p.tokens
    <3>1. kind \in Wait /\ NoFlow \in Flow \union {NoFlow}
      BY DEF Wait
    <3>2. Fits(t)
      BY <2>1 DEF Fits, Enters
    <3> QED
      BY <1>1, <3>1, <3>2, ParkGood
  <2>3. t.id = m.token /\ t.node = m.node /\ Holding(t)
    BY DEF Holding
  <2>4. ArmOrFreeze(p, m.token, m.scope, ArmedAt(m.node))
    BY <2>1
  <2> HIDE DEF p, t
  <2> QED
    BY <1>1, <2>2, <2>3, <2>4, ArmOrFreezeStable
<1>6. CASE EnterSubProcess(m)
  <2> DEFINE p == Park(s, m.token, m.node, m.scope, "scope", NoFlow)
             t == [id |-> m.token, node |-> m.node, scope |-> m.scope,
                   wait |-> "scope", via |-> NoFlow]
             child == [id |-> nextScope, element |-> m.node, parent |-> m.scope,
                       token |-> m.token]
             x == p.scopes \union {child}
             n == p.nextScope + 1
             opened == [p EXCEPT !.scopes = x, !.nextScope = n]
             els    == ArmedAt(m.node)
             armed  == ArmAll(opened, els, m.token)
             k1     == armed.nextToken
             fresh  == [armed EXCEPT !.nextToken = k1 + 1]
  <2>1. /\ Kind[m.node] = "subprocess"
        /\ \/ /\ AllCanArm(opened, els, m.token)
              /\ Becomes(Go(fresh, k1, BodyStart[m.node], nextScope, NoFlow))
           \/ \E k \in DOMAIN els : Becomes(Freeze(opened, m.token, m.scope, els[k]))
    BY <1>6, Zenon DEF EnterSubProcess, Enters, s
  <2>2. Good(p) /\ t \in p.tokens
    BY <1>1, <2>1, ParkGood DEF Fits, Wait
  <2>3. t.id = m.token /\ t.node = m.node /\ Holding(t)
    BY DEF Holding
  <2>4. nextScope \in Nat
    BY NowFields
  <2> HIDE DEF p, t
  <2>5. x \in SUBSET Scope /\ n \in Nat
    BY <1>1, <2>1, <2>2, <2>4 DEF Good, Sound, State, Scope, Nodes
  <2> HIDE DEF x, n
  <2>6. opened \in State /\ opened.tokens = p.tokens /\ opened.arms = p.arms
    BY <2>2, <2>5 DEF Good, Sound, State
  <2> HIDE DEF opened
  <2>7. Sound(opened)
    BY <2>2, <2>6 DEF Good, Sound
  <2>8. Good(opened)
    BY <2>2, <2>6, <2>7, SameHolders, FewerArms DEF Good, Calm
  <2>9. CASE /\ AllCanArm(opened, els, m.token)
             /\ Becomes(Go(fresh, k1, BodyStart[m.node], nextScope, NoFlow))
    <3>1. Good(armed)
      BY <1>1, <2>2, <2>3, <2>6, <2>8, <2>9, ArmAllGood
    <3> HIDE DEF armed
    <3>2. k1 \in Nat /\ k1 + 1 \in Nat
      BY <3>1 DEF Good, Sound, State
    <3>3. Sound(fresh) /\ fresh.tokens = armed.tokens /\ fresh.arms = armed.arms
      BY <3>1, <3>2, SetNextToken DEF Good
    <3> HIDE DEF fresh, k1
    <3>4. Good(fresh)
      BY <3>1, <3>3, SameHolders, FewerArms DEF Good, Calm
    <3>5. BodyStart[m.node] \in Node
      BY <1>1, GraphTyped
    <3>6. Good(Go(fresh, k1, BodyStart[m.node], nextScope, NoFlow))
      BY <2>4, <3>2, <3>4, <3>5, GoGood
    <3> QED
      BY <2>9, <3>6, BecomesGood
  <2>10. CASE \E k \in DOMAIN els : Becomes(Freeze(opened, m.token, m.scope, els[k]))
    <3>1. PICK k \in DOMAIN els : Becomes(Freeze(opened, m.token, m.scope, els[k]))
      BY <2>10
    <3>2. els[k] \in Node /\ CanFail(els[k])
      BY <1>1, ArmsCanFail
    <3>3. Stable(Freeze(opened, m.token, m.scope, els[k]))
      BY <1>1, <2>8, <3>2, FreezeStable
    <3> QED
      BY <3>1, <3>3, BecomesStable
  <2> QED
    BY <2>1, <2>9, <2>10
<1>7. CASE EnterExclusive(m)
  <2>1. PICK i \in DOMAIN Outgoing[m.node] :
          LET flow == Outgoing[m.node][i]
          IN  Becomes(Go(s, m.token, Target[flow], m.scope, flow))
    BY <1>7 DEF EnterExclusive, s
  <2>2. Outgoing[m.node] \in Seq(Flow)
    BY <1>1, GraphTyped
  <2> DEFINE flow == Outgoing[m.node][i]
  <2>3. flow \in Flow /\ Target[flow] \in Node
    BY <2>2, GraphTyped
  <2> HIDE DEF flow
  <2>4. Good(Go(s, m.token, Target[flow], m.scope, flow))
    BY <1>1, <2>3, GoGood
  <2> QED
    BY <2>1, <2>4, BecomesGood DEF flow
<1>8. CASE EnterSplit(m)
  <2>1. Good(Split(s, m.node, m.scope))
    BY <1>1, SplitGood
  <2> QED
    BY <1>8, <2>1, BecomesGood DEF EnterSplit, s
<1>9. CASE EnterJoin(m)
  <2>1. IsJoin(m.node) /\ Kind[m.node] = "parallel"
    BY <1>9 DEF EnterJoin, Enters
  <2>2. CASE JoinParks(m)
    <3> DEFINE p == Park(s, m.token, m.node, m.scope, "join", m.via)
    <3>1. Good(p)
      BY <1>1, <2>1, ParkGood DEF Fits, Wait
    <3> HIDE DEF p
    <3>2. Good(Settle(p))
      BY <3>1, SettleGood
    <3> QED
      BY <2>2, <3>2, BecomesGood DEF JoinParks, s, p
  <2>3. CASE JoinFires(m)
    <3> DEFINE x == s.tokens \ Arrived(m)
               r == [s EXCEPT !.tokens = x]
    <3>1. Becomes(LeaveFresh(r, m.node, m.scope))
      BY <2>3 DEF JoinFires, s
    <3>2. x \in SUBSET Token /\ (\A t \in x : Fits(t)) /\ x \subseteq s.tokens
      BY <1>1 DEF Good, Sound, State
    <3>3. \A t \in s.tokens : Holding(t) => t \in x
      BY <1>1 DEF Arrived, Holding
    <3> HIDE DEF x
    <3>4. Sound(r) /\ r.tokens = x /\ r.arms = s.arms
      BY <1>1, <3>2, SetTokens DEF Good
    <3> HIDE DEF r
    <3>5. Good(r)
      BY <1>1, <3>2, <3>3, <3>4, SameHolders, FewerArms DEF Good, Calm
    <3>6. Good(LeaveFresh(r, m.node, m.scope))
      BY <1>1, <2>1, <3>5, LeaveFreshGood
    <3> QED
      BY <3>1, <3>6, BecomesGood
  <2> QED
    BY <1>9, <2>2, <2>3 DEF EnterJoin
<1>10. CASE EnterEnd(m)
  BY <1>1, <1>10, ConsumedGood DEF EnterEnd, s
<1>11. CASE EnterTerminate(m)
  <2>1. CASE Becomes(Terminate(s))
    BY <1>1, <2>1, TerminateGood, BecomesGood
  <2>2. CASE \E c \in scopes : c.id = m.scope /\ Becomes(CompleteScope(TearDown(s, {c.id}), c))
    <3>1. PICK c \in scopes : Becomes(CompleteScope(TearDown(s, {c.id}), c))
      BY <2>2
    <3> DEFINE u == TearDown(s, {c.id})
    <3>2. Good(u)
      BY <1>1, TearDownGood
    <3>3. c \in u.scopes
      BY <1>1, TearDownSound DEF Good
    <3> HIDE DEF u
    <3>4. Good(CompleteScope(u, c))
      BY <3>2, <3>3, CompleteScopeGood
    <3> QED
      BY <3>1, <3>4, BecomesGood DEF u
  <2> QED
    BY <1>11, <2>1, <2>2 DEF EnterTerminate, s
<1> QED
  BY <1>2, <1>3, <1>4, <1>5, <1>6, <1>7, <1>8, <1>9, <1>10, <1>11 DEF Enter

(* A state that differs from a good one in its document or its status      *)
(* only, which no part of Good looks at, is good.                          *)
LEMMA SetVariablesGood ==
    ASSUME NEW s, Good(s), NEW doc \in Document
    PROVE  LET u == [s EXCEPT !.variables = doc]
           IN  Good(u) /\ u.tokens = s.tokens /\ u.arms = s.arms
<1> DEFINE u == [s EXCEPT !.variables = doc]
<1>1. u \in State /\ u.tokens = s.tokens /\ u.arms = s.arms
  BY DEF Good, Sound, State
<1> HIDE DEF u
<1>2. Sound(u)
  BY <1>1 DEF Good, Sound
<1> QED
  BY <1>1, <1>2, SameHolders, FewerArms DEF Good, Calm, u

LEMMA AnswerGood ==
    ASSUME Good(Now), Answer
    PROVE  Stable(Now)'
<1>1. PICK t \in tokens : DecisionFails(t) \/ \E v \in Value : AnswerDecision(t, v)
  BY DEF Answer
<1>2. /\ t.id \in Nat /\ t.node \in Node /\ t.scope \in Nat
  BY NowFields DEF Token
<1>3. IsNextDecision(t) => Kind[t.node] = "rule"
  BY NowFields DEF IsNextDecision, Fits
<1>4. CASE DecisionFails(t)
  <2>1. Stable(Freeze(Now, t.id, t.scope, t.node))
    BY <1>2, <1>3, <1>4, FreezeStable DEF DecisionFails, CanFail
  <2> QED
    BY <1>4, <2>1, BecomesStable DEF DecisionFails
<1>5. CASE \E v \in Value : AnswerDecision(t, v)
  <2>1. PICK v \in Value : AnswerDecision(t, v)
    BY <1>5
  <2> DEFINE doc == [Now.variables EXCEPT ![Result[t.node]] = v]
             s   == [Now EXCEPT !.variables = doc]
             w   == WithdrawArms(Unpark(s, t.id), t.id)
  <2>2. IsNextDecision(t) /\ Becomes(Leave(w, t.id, t.node, t.scope))
    BY <2>1, Zenon DEF AnswerDecision
  <2>3. doc \in Document
    BY <1>2, NowFields, GraphTyped DEF Document
  <2> HIDE DEF doc
  <2>4. Good(s)
    BY <2>3, SetVariablesGood
  <2> HIDE DEF s
  <2>5. Good(w)
    BY <2>4, GoneGood
  <2> HIDE DEF w
  <2>6. Good(Leave(w, t.id, t.node, t.scope))
    BY <1>2, <1>3, <2>2, <2>5, LeaveGood
  <2> QED
    BY <2>2, <2>6, BecomesGood
<1> QED
  BY <1>1, <1>4, <1>5

LEMMA StartGood ==
    ASSUME Good(Now), NEW doc \in Document, Start(doc)
    PROVE  Stable(Now)'
<1> DEFINE s == Now
           n == s.nextToken + 1
           u == [s EXCEPT !.status = "active", !.variables = doc, !.nextToken = n]
<1>1. Becomes(Go(u, nextToken, ProcessStart, Root, NoFlow)) /\ nextToken \in Nat
  BY NowFields DEF Start
<1>2. Good(s)
  OBVIOUS
<1>3. n \in Nat
  BY DEF Good, Sound, State
<1> HIDE DEF s, n
<1>4. u \in State /\ u.tokens = s.tokens /\ u.arms = s.arms
  BY <1>2, <1>3 DEF Good, Sound, State, Status
<1> HIDE DEF u
<1>5. Sound(u)
  BY <1>2, <1>4 DEF Good, Sound
<1>6. Good(u)
  BY <1>2, <1>4, <1>5, SameHolders, FewerArms DEF Good, Calm
<1>7. Good(Go(u, nextToken, ProcessStart, Root, NoFlow))
  BY <1>1, <1>6, GraphTyped, GoGood DEF Root
<1> QED
  BY <1>1, <1>7, BecomesGood

LEMMA CompleteWorkItemGood ==
    ASSUME Good(Now), NEW i \in items, NEW doc \in Document, CompleteWorkItem(i, doc)
    PROVE  Stable(Now)'
<1>1. PICK t \in tokens :
        LET s == Unpark([CloseItem(Now, i.token) EXCEPT !.variables = doc], i.token)
        IN  Becomes(Leave(WithdrawArms(s, i.token), i.token, i.element, t.scope))
  BY DEF CompleteWorkItem
<1>2. /\ i.token \in Nat /\ i.element \in Node /\ Kind[i.element] = "task"
      /\ t.scope \in Nat
  BY NowFields DEF Item, Token, Nodes
<1> DEFINE c == CloseItem(Now, i.token)
           d == [c EXCEPT !.variables = doc]
           w == WithdrawArms(Unpark(d, i.token), i.token)
<1>3. Good(c)
  BY CloseItemGood
<1> HIDE DEF c
<1>4. Good(d)
  BY <1>3, SetVariablesGood
<1> HIDE DEF d
<1>5. Good(w)
  BY <1>4, GoneGood
<1> HIDE DEF w
<1>6. Good(Leave(w, i.token, i.element, t.scope))
  BY <1>2, <1>5, LeaveGood
<1> QED
  BY <1>1, <1>6, BecomesGood DEF w, d, c

(* An error is caught by an error boundary.                                *)
LEMMA CatchersAreBoundaries ==
    ASSUME NEW s, Sound(s), NEW host \in Node, NEW id, NEW scope, NEW code,
           NEW k \in Catchers(s, host, id, scope, code)
    PROVE  k.boundary \in Node /\ Kind[k.boundary] = "errorboundary"
<1>1. \A h \in Node : \A b \in Catching(h, code) : b \in Node /\ Kind[b] = "errorboundary"
  BY GraphTyped, BoundariesAttached DEF Catching
<1>2. \A c \in s.scopes : c.element \in Node
  BY DEF Sound, State, Scope, Nodes
<1>3. k.boundary \in Catching(host, code)
      \/ \E c \in s.scopes : k.boundary \in Catching(c.element, code)
  <2> DEFINE Found(h, x) == {[token |-> x, boundary |-> b] : b \in Catching(h, code)}
             enclosing   == {c \in s.scopes : scope \in Subtree(s, {c.id})}
             catching    == {c \in enclosing : Catching(c.element, code) # {}}
             nearest     == {c \in catching : \A d \in catching \ {c} :
                                                 d.id \notin Subtree(s, {c.id})}
  <2>1. k \in Found(host, id) \/ k \in UNION {Found(c.element, c.token) : c \in nearest}
    BY Zenon DEF Catchers
  <2>2. nearest \subseteq s.scopes
    OBVIOUS
  <2> HIDE DEF nearest
  <2>3. CASE k \in Found(host, id)
    BY <2>3
  <2>4. CASE k \in UNION {Found(c.element, c.token) : c \in nearest}
    <3>1. PICK c \in nearest : k \in Found(c.element, c.token)
      BY <2>4
    <3> QED
      BY <2>2, <3>1
  <2> QED
    BY <2>1, <2>3, <2>4
<1> QED
  BY <1>1, <1>2, <1>3

(* ... and the token it is caught on is the failing one, or owns a scope   *)
(* the failing one is inside.                                              *)
LEMMA CatchersEnclose ==
    ASSUME NEW s, NEW host, NEW id, NEW scope, NEW code,
           NEW k \in Catchers(s, host, id, scope, code)
    PROVE  k.token = id \/ \E c \in s.scopes : c.token = k.token /\ scope \in Subtree(s, {c.id})
<1> DEFINE Found(h, x) == {[token |-> x, boundary |-> b] : b \in Catching(h, code)}
           enclosing   == {c \in s.scopes : scope \in Subtree(s, {c.id})}
           catching    == {c \in enclosing : Catching(c.element, code) # {}}
           nearest     == {c \in catching : \A d \in catching \ {c} :
                                               d.id \notin Subtree(s, {c.id})}
<1>1. k \in Found(host, id) \/ k \in UNION {Found(c.element, c.token) : c \in nearest}
  BY Zenon DEF Catchers
<1>2. \A c \in nearest : c \in s.scopes /\ scope \in Subtree(s, {c.id})
  OBVIOUS
<1> HIDE DEF nearest
<1>3. CASE k \in Found(host, id)
  BY <1>3
<1>4. CASE k \in UNION {Found(c.element, c.token) : c \in nearest}
  <2>1. PICK c \in nearest : k \in Found(c.element, c.token)
    BY <1>4
  <2> QED
    BY <1>2, <2>1
<1> QED
  BY <1>1, <1>3, <1>4

LEMMA RaiseErrorGood ==
    ASSUME Good(Now), NEW i \in items, NEW code \in Codes, RaiseError(i, code)
    PROVE  Stable(Now)'
<1> DEFINE s == CloseItem(Now, i.token)
<1>1. PICK t \in tokens :
        LET found == Catchers(s, i.element, i.token, t.scope, code)
        IN  \/ \E k \in found : ErrorCaught(s, k)
            \/ found = {} /\ Becomes(Freeze(s, i.token, t.scope, i.element))
  BY Zenon DEF RaiseError
<1>2. /\ i.token \in Nat /\ i.element \in Node /\ Kind[i.element] = "task"
      /\ t.scope \in Nat
  BY NowFields DEF Item, Token, Nodes
<1>3. Good(s)
  BY CloseItemGood
<1> HIDE DEF s
<1>4. ASSUME NEW k \in Catchers(s, i.element, i.token, t.scope, code), ErrorCaught(s, k)
      PROVE  Stable(Now)'
  <2>1. k.boundary \in Node /\ Kind[k.boundary] = "errorboundary"
    BY <1>2, <1>3, CatchersAreBoundaries DEF Good
  <2>2. PICK u \in s.tokens : Becomes(Interrupt(s, u, k.boundary))
    BY <1>4 DEF ErrorCaught
  <2>3. Good(Interrupt(s, u, k.boundary))
    BY <1>3, <2>1, InterruptGood
  <2> QED
    BY <2>2, <2>3, BecomesGood
<1>5. CASE Becomes(Freeze(s, i.token, t.scope, i.element))
  <2>1. Stable(Freeze(s, i.token, t.scope, i.element))
    BY <1>2, <1>3, FreezeStable DEF CanFail
  <2> QED
    BY <1>5, <2>1, BecomesStable
<1> QED
  BY <1>1, <1>4, <1>5

LEMMA SpentGood ==
    ASSUME Good(Now), NEW a \in arms, NEW doc \in Document
    PROVE  /\ Good(Spent(a, doc))
           /\ Spent(a, doc).tokens = tokens /\ Spent(a, doc).arms = arms \ {a}
<1> DEFINE s == Now
           x == s.arms \ {a}
           u == [s EXCEPT !.arms = x, !.variables = doc]
<1>1. Spent(a, doc) = u
  BY DEF Spent
<1>2. Good(s) /\ s.tokens = tokens /\ x = arms \ {a} /\ x \in SUBSET Armed
  BY NowFields
<1>3. x \subseteq s.arms
  OBVIOUS
<1> HIDE DEF s, x
<1>4. u \in State /\ u.tokens = s.tokens /\ u.arms = x
  BY <1>2 DEF Good, Sound, State
<1> HIDE DEF u
<1>5. Sound(u)
  BY <1>2, <1>4 DEF Good, Sound
<1>6. Held(u) /\ Distinct(u)
  BY <1>2, <1>3, <1>4, SameHolders, FewerArms DEF Good, Calm
<1> QED
  BY <1>1, <1>2, <1>4, <1>5, <1>6 DEF Good, Calm

(* What a non-interrupting boundary arms again is the arm it was, save for *)
(* the key read anew and the occurrences left.                             *)
LEMMA RearmedArms ==
    ASSUME Good(Now), NEW a \in arms, NEW doc \in Document,
           a.element \in NonInterrupting, a.element \in MessageArm => CanRearm(a, doc)
    PROVE  \A r \in Rearmed(a, doc) :
             /\ r \in Armed /\ r.token = a.token /\ r.element = a.element
             /\ \A b \in arms \ {a} : ~SameSubscription(r, b) /\ ~SameSubscription(b, r)
<1>1. /\ a \in Armed /\ a.token \in Nat /\ a.element \in Arm /\ a.left \in Nat
      /\ a.element \in Node
  BY NowFields DEF Armed, Arm, TimerArm, MessageArm, Nodes
<1>2. CASE a.element \in MessageArm
  <2> DEFINE r == ArmFor(a.element, a.token, doc)
  <2>1. ~CannotArm(arms \ {a}, a.element, a.token, doc)
    BY <1>2 DEF CanRearm
  <2>2. doc[Reads[a.element]] \in Key /\ Repeats[a.element] \in Nat
    BY <1>1, <1>2, <2>1, GraphTyped DEF CannotArm, Unusable
  <2>3. r \in Armed /\ r.token = a.token /\ r.element = a.element
    BY <1>1, <2>2 DEF ArmFor, KeyOf, Armed
  <2>4. \A b \in arms \ {a} : ~SameSubscription(b, r)
    BY <2>1 DEF CannotArm
  <2>5. \A b \in arms \ {a} : ~SameSubscription(r, b)
    BY <2>4 DEF SameSubscription
  <2>6. Rearmed(a, doc) = {r}
    BY <1>2 DEF Rearmed
  <2> HIDE DEF r
  <2> QED
    BY <2>3, <2>4, <2>5, <2>6
<1>3. CASE a.element \notin MessageArm
  <2> DEFINE n == IF a.left = 0 THEN 0 ELSE a.left - 1
             r == [a EXCEPT !.left = n]
  <2>1. n \in Nat
    BY <1>1
  <2>2. Rearmed(a, doc) \subseteq {r}
    BY <1>3 DEF Rearmed
  <2> HIDE DEF n
  <2>3. r \in Armed /\ r.token = a.token /\ r.element = a.element
    BY <1>1, <2>1 DEF Armed
  <2> HIDE DEF r
  <2>4. \A b : ~SameSubscription(r, b) /\ ~SameSubscription(b, r)
    BY <1>3, <2>3 DEF SameSubscription
  <2> QED
    BY <2>2, <2>3, <2>4
<1> QED
  BY <1>2, <1>3

LEMMA SidePathGood ==
    ASSUME Good(Now), NEW a \in arms, NEW doc \in Document, NEW t \in tokens,
           a.element \in MessageArm => CanRearm(a, doc), SidePathFires(a, t, doc)
    PROVE  Stable(Now)'
<1> DEFINE s == Spent(a, doc)
           x == s.arms \union Rearmed(a, doc)
           u == [s EXCEPT !.arms = x]
<1>1. Becomes(LeaveFresh(u, a.element, t.scope)) /\ a.element \in NonInterrupting
  BY DEF SidePathFires
<1>2. Good(s) /\ s.tokens = tokens /\ s.arms = arms \ {a}
  BY SpentGood
<1> HIDE DEF s
<1>3. \A r \in Rearmed(a, doc) :
        /\ r \in Armed /\ r.token = a.token /\ r.element = a.element
        /\ \A b \in arms \ {a} : ~SameSubscription(r, b) /\ ~SameSubscription(b, r)
  BY <1>1, RearmedArms
<1>4. \A r, q \in Rearmed(a, doc) : r = q
  BY DEF Rearmed
<1>5. x \in SUBSET Armed
  BY <1>2, <1>3, NowFields
<1>6. \A b \in x : b \in arms \/ (b.token = a.token /\ b.element = a.element)
  BY <1>2, <1>3
<1>7. \A b, c \in x : SameSubscription(b, c) => b = c
  BY <1>2, <1>3, <1>4 DEF Good, Distinct
<1> HIDE DEF x
<1>8. Sound(u) /\ u.tokens = s.tokens /\ u.arms = x
  BY <1>2, <1>5, SetArms DEF Good
<1> HIDE DEF u
<1>9. Distinct(u)
  BY <1>7, <1>8 DEF Distinct
<1>10. HeldArm(Now, a) /\ \A b \in arms : HeldArm(Now, b)
  BY NowFields DEF Good, Held
<1>11. ASSUME NEW b \in u.arms
       PROVE  HeldArm(u, b)
  BY <1>2, <1>6, <1>8, <1>10, NowFields DEF HeldArm
<1>12. Good(u)
  BY <1>2, <1>8, <1>9, <1>11 DEF Good, Held, Calm
<1>13. /\ a.element \in Node /\ Kind[a.element] \in {"timerboundary", "messageboundary"}
       /\ t.scope \in Nat
  BY <1>1, NowFields DEF NonInterrupting, Nodes, Token
<1>14. Good(LeaveFresh(u, a.element, t.scope))
  BY <1>12, <1>13, LeaveFreshGood
<1> QED
  BY <1>1, <1>14, BecomesGood

LEMMA FiresGood ==
    ASSUME Good(Now), NEW a \in arms, NEW doc \in Document, NEW t \in tokens,
           a.element \in MessageArm => CanRearm(a, doc),
           \/ CatchFires(a, t, doc) \/ GatewayFires(a, t, doc)
           \/ InterruptingFires(a, t, doc) \/ SidePathFires(a, t, doc)
    PROVE  Stable(Now)'
<1> DEFINE s == Spent(a, doc)
<1>1. Good(s) /\ s.tokens = tokens
  BY SpentGood
<1>2. /\ t.id \in Nat /\ t.scope \in Nat /\ a.element \in Node
      /\ Kind[a.element] \in {"timer", "message", "timerboundary", "messageboundary"}
  BY NowFields DEF Token, Armed, Arm, TimerArm, MessageArm, Nodes
<1>3. CASE CatchFires(a, t, doc) \/ GatewayFires(a, t, doc)
  <2> DEFINE w == Unpark(WithdrawArms(s, t.id), t.id)
  <2>1. Becomes(Leave(w, t.id, a.element, t.scope))
    BY <1>3 DEF CatchFires, GatewayFires
  <2> HIDE DEF s
  <2>2. Good(w)
    BY <1>1, GoneGood
  <2> HIDE DEF w
  <2>3. Good(Leave(w, t.id, a.element, t.scope))
    BY <1>2, <2>2, LeaveGood
  <2> QED
    BY <2>1, <2>3, BecomesGood
<1>4. CASE InterruptingFires(a, t, doc)
  <2> DEFINE c == CloseItem(s, t.id)
  <2>1. Becomes(Interrupt(c, t, a.element))
    BY <1>4 DEF InterruptingFires
  <2> HIDE DEF s
  <2>2. Good(c) /\ t \in c.tokens
    BY <1>1, CloseItemGood
  <2> HIDE DEF c
  <2>3. Good(Interrupt(c, t, a.element))
    BY <1>2, <2>2, InterruptGood
  <2> QED
    BY <2>1, <2>3, BecomesGood
<1>5. CASE SidePathFires(a, t, doc)
  BY <1>5, SidePathGood
<1> QED
  BY <1>3, <1>4, <1>5

LEMMA FireTimerGood ==
    ASSUME Good(Now), NEW a \in arms, FireTimer(a)
    PROVE  Stable(Now)'
<1>1. a.element \notin MessageArm
  BY DEF FireTimer, TimerArm, MessageArm, Nodes
<1>2. variables \in Document
  BY NowFields
<1> QED
  BY <1>1, <1>2, FiresGood DEF FireTimer

LEMMA DeliverMessageGood ==
    ASSUME Good(Now), NEW a \in arms, NEW doc \in Document, DeliverMessage(a, doc)
    PROVE  Stable(Now)'
BY FiresGood DEF DeliverMessage

(* Where a repair re-enters is the incident's node, its host or its        *)
(* gateway; all but the gateway have their one way on.                     *)
LEMMA ResumeKinds ==
    ASSUME NEW n \in Node, NEW r \in ResumePoints(n), CanFail(n)
    PROVE  /\ r \in Node
           /\ Kind[r] \in {"task", "rule", "timer", "message", "timerboundary",
                            "messageboundary", "subprocess", "eventgateway"}
<1>1. CASE r \in HostsOf(n)
  <2>1. n \in Range(Boundaries[r]) \/ n \in ErrorBoundaries[r]
    BY <1>1 DEF HostsOf, Attached
  <2>2. Boundaries[r] # << >> \/ ErrorBoundaries[r] # {}
    BY <2>1, GraphTyped DEF Range
  <2> QED
    BY <1>1, <2>2, BoundariesAttached DEF HostsOf
<1>2. CASE r \in GatewaysInto(n)
  BY <1>2 DEF GatewaysInto
<1>3. CASE r = n
  BY <1>3 DEF CanFail
<1> QED
  BY <1>1, <1>2, <1>3 DEF ResumePoints

(* The state a repair starts from: active again, patched, with the cause   *)
(* of the incident its only token at an incident.                          *)
LEMMA RepairBase ==
    ASSUME Stable(Now), NEW t \in tokens, NEW r \in ResumePoints(t.node), Repairing(t),
           NEW doc \in Document
    PROVE  LET s == Patched(doc)
           IN  /\ Sound(s) /\ Held(s) /\ Distinct(s)
               /\ s.tokens = tokens /\ s.scopes = scopes
               /\ \A a \in s.arms : a.token # t.id
               /\ \A u \in tokens \ {t} : u.wait # "incident"
               /\ t.id \in Nat /\ t.scope \in Nat /\ r \in Node
               /\ Kind[r] \in {"task", "rule", "timer", "message", "timerboundary",
                               "messageboundary", "subprocess", "eventgateway"}
<1> DEFINE s == Now
           u == [s EXCEPT !.status = "active", !.variables = doc]
<1>1. Patched(doc) = u
  BY DEF Patched
<1>2. /\ Stable(s) /\ s.tokens = tokens /\ s.scopes = scopes
      /\ tokens \in SUBSET Token /\ \A x \in tokens : Fits(x)
  BY DEF Stable, Sound, State, Now
<1> HIDE DEF s
<1>3. u \in State /\ u.tokens = s.tokens /\ u.arms = s.arms /\ u.scopes = s.scopes
  BY <1>2 DEF Stable, Sound, State, Status
<1> HIDE DEF u
<1>4. Sound(u) /\ Held(u) /\ Distinct(u)
  BY <1>2, <1>3, SameHolders, FewerArms DEF Stable, Sound
<1>5. \A a \in u.arms : a.token # t.id
  BY <1>2, <1>3 DEF Stable, CauseHoldsNothing, Repairing
<1>6. \A x \in tokens \ {t} : x.wait # "incident"
  BY DEF Repairing
<1>7. t.id \in Nat /\ t.scope \in Nat /\ t.node \in Node
  BY <1>2 DEF Token
<1>8. CanFail(t.node)
  BY <1>2 DEF Repairing, Fits, CanFail
<1> QED
  BY <1>1, <1>2, <1>3, <1>4, <1>5, <1>6, <1>7, <1>8, ResumeKinds

(* Taking the cause off its node leaves a good state.                      *)
LEMMA UnparkedCauseGood ==
    ASSUME Stable(Now), NEW t \in tokens, NEW r \in ResumePoints(t.node), Repairing(t),
           NEW doc \in Document
    PROVE  Good(Unpark(Patched(doc), t.id))
<1> DEFINE s == Patched(doc)
           u == Unpark(s, t.id)
<1>1. /\ Sound(s) /\ Held(s) /\ Distinct(s) /\ s.tokens = tokens
      /\ \A a \in s.arms : a.token # t.id
      /\ \A x \in tokens \ {t} : x.wait # "incident"
  BY RepairBase
<1> HIDE DEF s
<1>2. Sound(u) /\ u.arms = s.arms /\ u.tokens = {x \in s.tokens : x.id # t.id}
  BY <1>1, UnparkSound
<1> HIDE DEF u
<1>3. Held(u)
  BY <1>1, <1>2 DEF Held, HeldArm
<1>4. Distinct(u) /\ Calm(u)
  BY <1>1, <1>2 DEF Distinct, Calm
<1> QED
  BY <1>2, <1>3, <1>4 DEF Good, u, s

LEMMA RetryGood ==
    ASSUME Stable(Now), NEW t \in tokens, NEW doc \in Document, Retry(t, doc)
    PROVE  Stable(Now)'
<1>1. PICK r \in ResumePoints(t.node) :
        /\ Repairing(t)
        /\ Becomes(ResumeHalted(Go(Unpark(Patched(doc), t.id), t.id, r, t.scope, NoFlow)))
  BY DEF Retry
<1> DEFINE u == Unpark(Patched(doc), t.id)
           g == Go(u, t.id, r, t.scope, NoFlow)
<1>2. Good(u) /\ t.id \in Nat /\ t.scope \in Nat /\ r \in Node
  BY <1>1, UnparkedCauseGood, RepairBase
<1> HIDE DEF u
<1>3. Good(g)
  BY <1>2, GoGood
<1>4. Becomes(ResumeHalted(g))
  BY <1>1 DEF u
<1> HIDE DEF g
<1>5. Good(ResumeHalted(g))
  BY <1>3, ResumeGood
<1> QED
  BY <1>4, <1>5, BecomesGood

LEMMA AdvanceGood ==
    ASSUME Stable(Now), NEW t \in tokens, NEW doc \in Document, Advance(t, doc)
    PROVE  Stable(Now)'
<1>1. PICK r \in ResumePoints(t.node) :
        /\ Repairing(t) /\ Kind[r] # "eventgateway"
        /\ Becomes(ResumeHalted(Leave(Unpark(Patched(doc), t.id), t.id, r, t.scope)))
  BY DEF Advance
<1> DEFINE u == Unpark(Patched(doc), t.id)
           g == Leave(u, t.id, r, t.scope)
<1>2. /\ Good(u) /\ t.id \in Nat /\ t.scope \in Nat /\ r \in Node
      /\ Kind[r] \in {"task", "rule", "timer", "message", "timerboundary",
                      "messageboundary", "subprocess"}
  BY <1>1, UnparkedCauseGood, RepairBase
<1> HIDE DEF u
<1>3. Good(g)
  BY <1>2, LeaveGood
<1>4. Becomes(ResumeHalted(g))
  BY <1>1 DEF u
<1> HIDE DEF g
<1>5. Good(ResumeHalted(g))
  BY <1>3, ResumeGood
<1> QED
  BY <1>4, <1>5, BecomesGood

(* Diverting ends the cause: it leaves on the boundary itself, or it is    *)
(* inside the scope whose owner does.                                      *)
LEMMA DivertGood ==
    ASSUME Stable(Now), NEW t \in tokens, NEW code \in Codes, Divert(t, code)
    PROVE  Stable(Now)'
<1> DEFINE s == Patched(variables)
<1>1. PICK r \in ResumePoints(t.node) :
        /\ Repairing(t)
        /\ \E k \in Catchers(s, r, t.id, t.scope, code) :
             \E u \in tokens :
                u.id = k.token /\ Becomes(ResumeHalted(Interrupt(s, u, k.boundary)))
  BY Zenon DEF Divert
<1>2. variables \in Document
  BY DEF Stable, Sound, State, Now
<1>3. /\ Sound(s) /\ Held(s) /\ Distinct(s) /\ s.tokens = tokens /\ r \in Node
      /\ \A x \in tokens \ {t} : x.wait # "incident"
  BY <1>1, <1>2, RepairBase
<1> HIDE DEF s
<1>4. PICK k \in Catchers(s, r, t.id, t.scope, code), u \in tokens :
        u.id = k.token /\ Becomes(ResumeHalted(Interrupt(s, u, k.boundary)))
  BY <1>1
<1> DEFINE g == Interrupt(s, u, k.boundary)
<1>5. k.boundary \in Node /\ Kind[k.boundary] = "errorboundary"
  BY <1>3, CatchersAreBoundaries
<1>6. k.token = t.id \/ \E c \in s.scopes : c.token = k.token /\ t.scope \in Subtree(s, {c.id})
  BY CatchersEnclose
<1>7. HeldBut(s, u.id)
  BY <1>3 DEF Held, HeldBut
<1>8. /\ Sound(g) /\ g.arms \subseteq s.arms /\ g.tokens \subseteq s.tokens /\ Held(g)
      /\ \A x \in g.tokens :
           /\ x.id # u.id
           /\ \A c \in s.scopes : c.token = u.id => x.scope \notin Subtree(s, {c.id})
  BY <1>3, <1>5, <1>7, InterruptSound
<1>9. Becomes(ResumeHalted(g))
  BY <1>4
<1> HIDE DEF g
<1>10. t \notin g.tokens
  BY <1>4, <1>6, <1>8
<1>11. Good(g)
  BY <1>3, <1>8, <1>10, FewerArms DEF Good, Calm
<1>12. Good(ResumeHalted(g))
  BY <1>11, ResumeGood
<1> QED
  BY <1>9, <1>12, BecomesGood

LEMMA AbandonGood ==
    ASSUME Stable(Now), NEW t \in tokens, Abandon(t)
    PROVE  Stable(Now)'
<1> DEFINE s == Unpark(Patched(variables), t.id)
<1>1. PICK r \in ResumePoints(t.node) :
        /\ Repairing(t)
        /\ \/ Becomes(Settle(ResumeHalted(s)))
           \/ \E c \in scopes : Becomes(ResumeHalted(CompleteScope(s, c)))
  BY Zenon DEF Abandon
<1>2. variables \in Document
  BY DEF Stable, Sound, State, Now
<1>3. Good(s)
  BY <1>1, <1>2, UnparkedCauseGood
<1>4. s.scopes = scopes
  BY <1>1, <1>2, RepairBase, UnparkSound
<1> HIDE DEF s
<1>5. CASE Becomes(Settle(ResumeHalted(s)))
  <2>1. Good(ResumeHalted(s))
    BY <1>3, ResumeGood
  <2>2. Good(Settle(ResumeHalted(s)))
    BY <2>1, SettleGood
  <2> QED
    BY <1>5, <2>2, BecomesGood
<1>6. CASE \E c \in scopes : Becomes(ResumeHalted(CompleteScope(s, c)))
  <2>1. PICK c \in s.scopes : Becomes(ResumeHalted(CompleteScope(s, c)))
    BY <1>4, <1>6
  <2>2. Good(CompleteScope(s, c))
    BY <1>3, CompleteScopeGood
  <2>3. Good(ResumeHalted(CompleteScope(s, c)))
    BY <2>2, ResumeGood
  <2> QED
    BY <2>1, <2>3, BecomesGood
<1> QED
  BY <1>1, <1>5, <1>6

LEMMA AbandonInstanceGood ==
    ASSUME Stable(Now), AbandonInstance
    PROVE  Stable(Now)'
<1> DEFINE u == Terminate(Now)
<1>1. Sound(u) /\ u.tokens = {} /\ u.arms = {}
  BY TerminateSound DEF Stable
<1>2. Becomes(u)
  BY DEF AbandonInstance
<1> HIDE DEF u
<1>3. Good(u)
  BY <1>1 DEF Good, Held, Distinct, Calm
<1> QED
  BY <1>2, <1>3, BecomesGood

-----------------------------------------------------------------------------
(* The theorems.                                                           *)

LEMMA InitStable == Init => Stable(Now)
<1> SUFFICES ASSUME Init
             PROVE  Stable(Now)
  OBVIOUS
<1>1. Now \in State /\ Now.tokens = {} /\ Now.arms = {}
  BY DEF Init, Now, State, Status
<1> QED
  BY <1>1 DEF Stable, Sound, Held, Distinct, CauseHoldsNothing

(* Outside a failed instance no token is at an incident.                   *)
LEMMA NotFailed ==
    ASSUME Stable(Now), status # "failed"
    PROVE  Good(Now)
BY DEF Stable, Good, CauseHoldsNothing, Calm, Now

LEMMA NextStable == Stable(Now) /\ [Next]_vars => Stable(Now)'
<1> SUFFICES ASSUME Stable(Now), [Next]_vars
             PROVE  Stable(Now)'
  OBVIOUS
<1>1. CASE \E m \in queue : Enter(m)
  <2>1. PICK m \in queue : Enter(m)
    BY <1>1
  <2>2. status = "active"
    BY <2>1 DEF Enter, EnterStart, EnterRule, EnterTask, EnterCatch, EnterSubProcess,
                EnterExclusive, EnterSplit, EnterJoin, EnterEnd, EnterTerminate, Enters
  <2> QED
    BY <2>1, <2>2, NotFailed, EnterGood
<1>2. CASE Answer
  <2>1. status = "active"
    BY <1>2 DEF Answer, DecisionFails, AnswerDecision, IsNextDecision
  <2> QED
    BY <1>2, <2>1, NotFailed, AnswerGood
<1>3. CASE Command
  <2>1. status = "active"
    BY <1>3 DEF Command, CompleteWorkItem, RaiseError, FireTimer, DeliverMessage, Commanded
  <2>2. Good(Now)
    BY <2>1, NotFailed
  <2> QED
    BY <1>3, <2>2, CompleteWorkItemGood, RaiseErrorGood, FireTimerGood, DeliverMessageGood
       DEF Command
<1>4. CASE Disposition
  BY <1>4, RetryGood, AdvanceGood, DivertGood, AbandonGood, AbandonInstanceGood DEF Disposition
<1>5. CASE \E doc \in Document : Start(doc)
  <2>1. PICK doc \in Document : Start(doc)
    BY <1>5
  <2>2. status # "failed"
    BY <2>1 DEF Start
  <2> QED
    BY <2>1, <2>2, NotFailed, StartGood
<1>6. CASE UNCHANGED vars
  <2>1. Now' = Now
    BY <1>6 DEF vars, Now
  <2> QED
    BY <2>1 DEF Stable, Sound, Held, HeldArm, Distinct, CauseHoldsNothing
<1> QED
  BY <1>1, <1>2, <1>3, <1>4, <1>5, <1>6 DEF Next, Internal, Repair

LEMMA Inductive == Spec => []Stable(Now)
BY InitStable, NextStable, PTL DEF Spec

(* Every variable keeps its type and every token waits in a way its node   *)
(* makes tokens wait: no arm of an enum in step.rs that answers "unrelated *)
(* wait state" for want of the right kind of node is ever taken.           *)
THEOREM TypeCorrect == Spec => []TypeOK
<1>1. Init => answered \subseteq Nat
  BY DEF Init
<1>2. Stable(Now) /\ answered \subseteq Nat /\ [Next]_vars => (answered \subseteq Nat)'
  <2> SUFFICES ASSUME Stable(Now), answered \subseteq Nat, [Next]_vars
               PROVE  (answered \subseteq Nat)'
    OBVIOUS
  <2>1. CASE UNCHANGED answered
    BY <2>1
  <2>2. CASE Repair
    <3>1. nextIncident \in Nat
      BY DEF Stable, Sound, State, Now
    <3> QED  BY <2>2, <3>1 DEF Repair
  <2> QED  BY <2>1, <2>2 DEF Next, Internal, Command, Start, vars
<1>3. Stable(Now) /\ answered \subseteq Nat => TypeOK
  BY DEF Stable, TypeOK
<1> QED
  BY <1>1, <1>2, <1>3, Inductive, PTL DEF Spec

(* Whatever the graph and however commands, freezes and repairs interleave *)
(* an armed timer or open subscription is held by a parked token that      *)
(* waits at a node which arms it (ArmedTimersHaveLiveTokens in             *)
(* runtime/invariants.rs, for timers).                                     *)
THEOREM ArmsAreHeld == Spec => []ArmsHaveLiveTokens
<1>1. Stable(Now) => ArmsHaveLiveTokens
  BY DEF Stable, Held, HeldArm, ArmsHaveLiveTokens, Now
<1> QED
  BY <1>1, Inductive, PTL

(* No two open subscriptions of an instance wait for one message and key,  *)
(* so a message correlated to the instance has one subscription to go to   *)
(* (arm_key's duplicate refusal, and its re-check before a re-arm).        *)
THEOREM DeliveryIsUnambiguous == Spec => []NoAmbiguousSubscription
<1>1. Stable(Now) => NoAmbiguousSubscription
  BY DEF Stable, Distinct, NoAmbiguousSubscription, Now
<1> QED
  BY <1>1, Inductive, PTL

-----------------------------------------------------------------------------
(* Coherence: what holds between the parts of a state.                     *)

(* s has the fields of a state, whatever they hold; u has all but F of s.  *)
Fields == {"status", "variables", "tokens", "items", "arms", "scopes", "queue",
           "nextToken", "nextScope", "nextIncident", "clock"}

Shaped(s) == DOMAIN s = Fields

Alike(u, s, F) == Shaped(u) /\ \A f \in Fields \ F : u[f] = s[f]

TokenFields == {"id", "node", "scope", "wait", "via"}

(* No two tokens, two moves, or a token and a move are of one identity, and *)
(* every identity is a spent one.                                          *)
Unique(s) ==
    /\ s.nextToken \in Nat
    /\ \A t, u \in s.tokens : t.id = u.id => t = u
    /\ \A m, k \in s.queue : m.token = k.token => m = k
    /\ \A t \in s.tokens, m \in s.queue : t.id # m.token
    /\ \A t \in s.tokens : t.id \in Nat /\ t.id < s.nextToken /\ DOMAIN t = TokenFields
    /\ \A m \in s.queue : m.token \in Nat /\ m.token < s.nextToken

(* The scopes a token may be in.                                           *)
Open(s) == {Root} \union ScopeIds(s)

(* Scopes form a tree: an inner scope is of a later number than its outer  *)
(* one, no two are of one number or one owner, and tokens are in them.     *)
Nested(s) ==
    /\ s.nextScope \in Nat \ {0}
    /\ \A c, d \in s.scopes : c.id = d.id \/ c.token = d.token => c = d
    /\ \A c \in s.scopes : /\ c.id \in Nat /\ c.parent \in Nat
                           /\ c.parent < c.id /\ c.id < s.nextScope
    /\ \A t \in s.tokens : t.scope \in Open(s)
    /\ \A m \in s.queue : m.scope \in Open(s)

(* An arm has runs left exactly when its element is one that counts them.  *)
Counted(s) == \A a \in s.arms : a.left \in Nat /\ (a.left = 0 <=> Repeats[a.element] = 0)

(* Scope c has the token that waits for it; item i has the one that waits  *)
(* for it; and token t, if it waits for a scope, has that scope.           *)
Parented(s, c) ==
    \E t \in s.tokens : /\ t.id = c.token /\ t.wait = "scope"
                        /\ t.node = c.element /\ t.scope = c.parent

Worked(s, i) == \E t \in s.tokens : t.id = i.token /\ t.wait = "workitem" /\ t.node = i.element

Owns(s, t) == t.wait = "scope" => \E c \in s.scopes : c.token = t.id

(* What token id holds at el is one arm, or none where el may run out.     *)
ArmedOnce(s, id, el) ==
    LET held == {a \in s.arms : a.token = id /\ a.element = el}
    IN  (\E a \in held : \A b \in held : b = a) \/ (held = {} /\ MayRunOut(el))

(* Token t has what ends its wait.                                         *)
CanEnd(s, t) ==
    Holding(t) =>
        /\ t.wait = "workitem" => \E i \in s.items : i.token = t.id /\ i.element = t.node
        /\ \A el \in Range(ArmedAt(t.node)) : ArmedOnce(s, t.id, el)

(* Everything has what it lives in, at every point between two helpers of   *)
(* an action that leaves no token in hand.                                 *)
Whole(s) ==
    /\ Unique(s) /\ Nested(s) /\ Counted(s)
    /\ \A c \in s.scopes : Parented(s, c) /\ ~IsEmpty(s, c.id)
    /\ \A i \in s.items : Worked(s, i)
    /\ \A a \in s.arms : HeldArm(s, a)
    /\ \A t \in s.tokens : Owns(s, t) /\ CanEnd(s, t)

(* How tokens may wait follows from the status: one incident freezes an     *)
(* instance, a running one has none, a finished one has nothing.           *)
Frozen(s) ==
    /\ s.status = "failed" =>
        /\ s.queue = {} /\ \A t \in s.tokens : t.wait # "decision"
        /\ \E t \in s.tokens : t.wait = "incident"
                               /\ \A u \in s.tokens : u.wait = "incident" => u = t
    /\ s.status # "failed" =>
        \A t \in s.tokens : /\ t.wait \notin {"incident", "inflight"}
                            /\ s.queue = {} => t.wait # "awaiting"
    /\ s.status \in {"completed", "terminated"} =>
        s.tokens = {} /\ s.items = {} /\ s.arms = {} /\ s.scopes = {} /\ s.queue = {}

(* A token's waits end by the items, arms and scopes of the state alone.    *)
LEMMA SameWaits ==
    ASSUME NEW s, NEW u, u.items = s.items, u.arms = s.arms, u.scopes = s.scopes,
           NEW t, Owns(s, t), CanEnd(s, t)
    PROVE  Owns(u, t) /\ CanEnd(u, t)
<1>1. Owns(u, t)
  BY DEF Owns
<1>2. \A el : ArmedOnce(s, t.id, el) => ArmedOnce(u, t.id, el)
  BY DEF ArmedOnce
<1>3. CanEnd(u, t)
  BY <1>2 DEF CanEnd
<1> QED  BY <1>1, <1>3

-----------------------------------------------------------------------------
(* What each helper changes.                                               *)

LEMMA ParkIs ==
    ASSUME NEW s, Shaped(s), NEW id, NEW node, NEW scope, NEW wait, NEW via
    PROVE  LET u == Park(s, id, node, scope, wait, via)
           IN  /\ Alike(u, s, {"tokens"})
               /\ u.tokens = s.tokens \union
                    {[id |-> id, node |-> node, scope |-> scope, wait |-> wait, via |-> via]}
BY DEF Alike, Shaped, Fields, Park

LEMMA UnparkIs ==
    ASSUME NEW s, Shaped(s), NEW id
    PROVE  LET u == Unpark(s, id)
           IN  Alike(u, s, {"tokens"}) /\ u.tokens = {t \in s.tokens : t.id # id}
BY DEF Alike, Shaped, Fields, Unpark

LEMMA CloseItemIs ==
    ASSUME NEW s, Shaped(s), NEW id
    PROVE  LET u == CloseItem(s, id)
           IN  Alike(u, s, {"items"}) /\ u.items = {i \in s.items : i.token # id}
BY DEF Alike, Shaped, Fields, CloseItem

LEMMA WithdrawArmsIs ==
    ASSUME NEW s, Shaped(s), NEW id
    PROVE  LET u == WithdrawArms(s, id)
           IN  Alike(u, s, {"arms"}) /\ u.arms = {a \in s.arms : a.token # id}
BY DEF Alike, Shaped, Fields, WithdrawArms

LEMMA ArmAllIs ==
    ASSUME NEW s, Shaped(s), NEW els, NEW id
    PROVE  LET u == ArmAll(s, els, id)
           IN  /\ Alike(u, s, {"arms"})
               /\ u.arms = s.arms \union {ArmFor(els[j], id, s.variables) : j \in 1 .. Len(els)}
BY DEF Alike, Shaped, Fields, ArmAll, ArmsUpTo

LEMMA GoIs ==
    ASSUME NEW s, Shaped(s), NEW id, NEW node, NEW scope, NEW via
    PROVE  LET u == Go(s, id, node, scope, via)
           IN  /\ Alike(u, s, {"queue", "clock"})
               /\ \E m : m.token = id /\ m.scope = scope /\ u.queue = s.queue \union {m}
<1> DEFINE at == IF s.queue = {} THEN 0 ELSE s.clock
           m == [token |-> id, node |-> node, scope |-> scope, via |-> via, at |-> at]
           q == s.queue \union {m}
           u == [s EXCEPT !.queue = q, !.clock = at + 1]
<1>1. Go(s, id, node, scope, via) = u
  BY DEF Go
<1>2. m.token = id /\ m.scope = scope
  OBVIOUS
<1> HIDE DEF at, m
<1>3. u.queue = q /\ Alike(u, s, {"queue", "clock"})
  BY DEF Alike, Shaped, Fields
<1> QED  BY <1>1, <1>2, <1>3

Apart(s, D, k) == \A t \in s.tokens : t.scope \in D => t.id # k

LEMMA TearDownIs ==
    ASSUME NEW s, Shaped(s), NEW roots, NEW D, D = Subtree(s, roots),
           NEW u, u = TearDown(s, roots)
    PROVE  /\ Alike(u, s, {"queue", "tokens", "items", "arms", "scopes"})
           /\ \A m : m \in u.queue <=> m \in s.queue /\ m.scope \notin D
           /\ \A t : t \in u.tokens <=> t \in s.tokens /\ t.scope \notin D
           /\ \A i : i \in u.items <=> i \in s.items /\ Apart(s, D, i.token)
           /\ \A a : a \in u.arms <=> a \in s.arms /\ Apart(s, D, a.token)
           /\ \A c : c \in u.scopes <=> c \in s.scopes /\ (c.id \in roots \/ c.id \notin D)
<1> DEFINE reaped == {t.id : t \in {w \in s.tokens : w.scope \in D}}
           v == [s EXCEPT !.queue  = {m \in @ : m.scope \notin D},
                          !.tokens = {t \in @ : t.scope \notin D},
                          !.items  = {i \in @ : i.token \notin reaped},
                          !.arms   = {a \in @ : a.token \notin reaped},
                          !.scopes = {c \in @ : c.id \in roots \/ c.id \notin D}]
<1>1. u = v
  BY DEF TearDown
<1>2. \A k : k \notin reaped <=> Apart(s, D, k)
  BY DEF Apart
<1> HIDE DEF reaped
<1>3. /\ Alike(v, s, {"queue", "tokens", "items", "arms", "scopes"})
      /\ v.queue = {m \in s.queue : m.scope \notin D}
      /\ v.tokens = {t \in s.tokens : t.scope \notin D}
      /\ v.items = {i \in s.items : i.token \notin reaped}
      /\ v.arms = {a \in s.arms : a.token \notin reaped}
      /\ v.scopes = {c \in s.scopes : c.id \in roots \/ c.id \notin D}
  BY DEF Alike, Shaped, Fields
<1> HIDE DEF v
<1> QED  BY <1>1, <1>2, <1>3

LEMMA CloseOwnedIs ==
    ASSUME NEW s, Shaped(s), NEW id,
           NEW D, D = Subtree(s, {c.id : c \in {d \in s.scopes : d.token = id}})
    PROVE  LET u == CloseOwned(s, id)
           IN  /\ Alike(u, s, {"queue", "tokens", "items", "arms", "scopes"})
               /\ \A m : m \in u.queue <=> m \in s.queue /\ m.scope \notin D
               /\ \A t : t \in u.tokens <=> t \in s.tokens /\ t.scope \notin D
               /\ \A i : i \in u.items <=> i \in s.items /\ Apart(s, D, i.token)
               /\ \A a : a \in u.arms <=> a \in s.arms /\ Apart(s, D, a.token)
               /\ \A c : c \in u.scopes <=> c \in s.scopes /\ c.id \notin D
<1> DEFINE owned == {c.id : c \in {d \in s.scopes : d.token = id}}
           torn   == TearDown(s, owned)
           left   == {c \in torn.scopes : c.id \notin owned}
           u      == [torn EXCEPT !.scopes = left]
<1>1. CloseOwned(s, id) = u
  BY DEF CloseOwned
<1>2. owned \subseteq D /\ D = Subtree(s, owned)
  BY DEF Subtree
<1> HIDE DEF owned
<1>3. /\ Alike(torn, s, {"queue", "tokens", "items", "arms", "scopes"})
      /\ \A m : m \in torn.queue <=> m \in s.queue /\ m.scope \notin D
      /\ \A t : t \in torn.tokens <=> t \in s.tokens /\ t.scope \notin D
      /\ \A i : i \in torn.items <=> i \in s.items /\ Apart(s, D, i.token)
      /\ \A a : a \in torn.arms <=> a \in s.arms /\ Apart(s, D, a.token)
      /\ \A c : c \in torn.scopes <=> c \in s.scopes /\ (c.id \in owned \/ c.id \notin D)
  <2>1. torn = TearDown(s, owned)
    OBVIOUS
  <2> HIDE DEF torn
  <2> QED  BY <1>2, <2>1, TearDownIs
<1> HIDE DEF torn
<1>4. Alike(u, torn, {"scopes"}) /\ u.scopes = left
  BY <1>3 DEF Alike, Shaped, Fields
<1>5. \A c : c \in left <=> c \in s.scopes /\ c.id \notin D
  BY <1>2, <1>3
<1> HIDE DEF u, left
<1>6. /\ Alike(u, s, {"queue", "tokens", "items", "arms", "scopes"})
      /\ u.queue = torn.queue /\ u.tokens = torn.tokens
      /\ u.items = torn.items /\ u.arms = torn.arms
  BY <1>3, <1>4 DEF Alike, Fields
<1> QED  BY <1>1, <1>3, <1>4, <1>5, <1>6

-----------------------------------------------------------------------------
(* A state with token id, of scope x, in hand: everything is as it should  *)
(* be but for the token, what it holds and the scope it owns, and scope x  *)
(* may be empty without it.                                                *)
Loose(s, id, x) ==
    /\ Unique(s) /\ Nested(s) /\ Counted(s)
    /\ id \in Nat /\ id < s.nextToken /\ x \in Open(s)
    /\ \A m \in s.queue : m.token # id
    /\ \A t \in s.tokens : t.id = id => t.scope = x
    /\ \A c \in s.scopes :
        /\ c.token = id => c.parent = x
        /\ c.token # id => Parented(s, c) /\ (c.id = x \/ ~IsEmpty(s, c.id))
    /\ \A i \in s.items : i.token # id => Worked(s, i)
    /\ \A a \in s.arms : a.token # id => HeldArm(s, a)
    /\ \A t \in s.tokens : t.id # id => Owns(s, t) /\ CanEnd(s, t)

(* Nothing of token id is left.                                            *)
Gone(s, id) ==
    /\ \A t \in s.tokens : t.id # id
    /\ \A i \in s.items : i.token # id
    /\ \A a \in s.arms : a.token # id
    /\ \A c \in s.scopes : c.token # id

(* u differs from s in token id and what it holds.                         *)
Touches(u, s, id) ==
    /\ Alike(u, s, {"status", "variables", "tokens", "items", "arms", "nextIncident", "clock"})
    /\ \A t : t.id # id => (t \in u.tokens <=> t \in s.tokens)
    /\ \A i : i.token # id => (i \in u.items <=> i \in s.items)
    /\ \A a : a.token # id => (a \in u.arms <=> a \in s.arms)

LEMMA Touched ==
    ASSUME NEW s, NEW id, NEW x, Loose(s, id, x), NEW u, Touches(u, s, id), Counted(u),
           \A t, w \in u.tokens : t.id = id /\ w.id = id => t = w,
           \A t \in u.tokens : t.id = id => t.scope = x /\ DOMAIN t = TokenFields
    PROVE  Loose(u, id, x)
<1>1. /\ u.queue = s.queue /\ u.scopes = s.scopes
      /\ u.nextToken = s.nextToken /\ u.nextScope = s.nextScope
  BY DEF Touches, Alike, Fields
<1>2. \A t : t.id # id => (t \in u.tokens <=> t \in s.tokens)
  BY DEF Touches
<1>3. \A i : i.token # id => (i \in u.items <=> i \in s.items)
  BY DEF Touches
<1>4. \A a : a.token # id => (a \in u.arms <=> a \in s.arms)
  BY DEF Touches
<1>5. Open(u) = Open(s)
  BY <1>1 DEF Open, ScopeIds
<1>6. Unique(u)
  BY <1>1, <1>2 DEF Loose, Unique
<1>7. Nested(u)
  BY <1>1, <1>2, <1>5 DEF Loose, Nested
<1>8. \A c \in u.scopes : c.token # id => Parented(u, c)
  BY <1>1, <1>2 DEF Loose, Parented
<1>9. \A c \in u.scopes : c.token # id /\ c.id # x => ~IsEmpty(u, c.id)
  BY <1>1, <1>2 DEF Loose, IsEmpty
<1>10. \A i \in u.items : i.token # id => Worked(u, i)
  BY <1>2, <1>3 DEF Loose, Worked
<1>11. \A a \in u.arms : a.token # id => HeldArm(u, a)
  BY <1>2, <1>4 DEF Loose, HeldArm
<1>12. ASSUME NEW t \in u.tokens, t.id # id
       PROVE  Owns(u, t) /\ CanEnd(u, t)
  <2>1. t \in s.tokens /\ Owns(s, t) /\ CanEnd(s, t)
    BY <1>2, <1>12 DEF Loose
  <2>2. Owns(u, t)
    BY <1>1, <2>1 DEF Owns
  <2>3. ASSUME NEW el, ArmedOnce(s, t.id, el)
        PROVE  ArmedOnce(u, t.id, el)
    <3>1. {a \in u.arms : a.token = t.id /\ a.element = el}
            = {a \in s.arms : a.token = t.id /\ a.element = el}
      BY <1>4, <1>12
    <3> QED  BY <2>3, <3>1 DEF ArmedOnce
  <2>4. CanEnd(u, t)
    BY <1>3, <1>12, <2>1, <2>3 DEF CanEnd
  <2> QED  BY <2>2, <2>4
<1>13. /\ id \in Nat /\ id < u.nextToken /\ x \in Open(u)
       /\ \A m \in u.queue : m.token # id
       /\ \A c \in u.scopes : c.token = id => c.parent = x
  BY <1>1, <1>5 DEF Loose
<1> QED  BY <1>6, <1>7, <1>8, <1>9, <1>10, <1>11, <1>12, <1>13 DEF Loose

LEMMA TokenIsLoose ==
    ASSUME NEW s, Whole(s), NEW t \in s.tokens
    PROVE  Loose(s, t.id, t.scope)
<1>1. \A c \in s.scopes : c.token = t.id => c.parent = t.scope
  BY DEF Whole, Parented, Unique
<1>2. t.id \in Nat /\ t.id < s.nextToken /\ t.scope \in Open(s)
  BY DEF Whole, Unique, Nested
<1>3. \A m \in s.queue : m.token # t.id
  BY DEF Whole, Unique
<1>4. \A w \in s.tokens : w.id = t.id => w.scope = t.scope
  BY DEF Whole, Unique
<1> QED  BY <1>1, <1>2, <1>3, <1>4 DEF Whole, Loose

(* A parked token that waits for work has that work and nothing else.      *)
LEMMA TokenHolds ==
    ASSUME NEW s, Whole(s), NEW t \in s.tokens
    PROVE  /\ t.wait # "scope" => \A c \in s.scopes : c.token # t.id
           /\ t.wait # "workitem" => \A i \in s.items : i.token # t.id
           /\ ~Holding(t) => \A a \in s.arms : a.token # t.id
<1>1. \A w \in s.tokens : w.id = t.id => w = t
  BY DEF Whole, Unique
<1> QED  BY <1>1 DEF Whole, Parented, Worked, HeldArm

LEMMA LooseIsWhole ==
    ASSUME NEW s, NEW t \in s.tokens, Loose(s, t.id, t.scope), Owns(s, t), CanEnd(s, t),
           \A c \in s.scopes : c.token = t.id => Parented(s, c) /\ ~IsEmpty(s, c.id),
           \A i \in s.items : i.token = t.id => Worked(s, i),
           \A a \in s.arms : a.token = t.id => HeldArm(s, a)
    PROVE  Whole(s)
<1>1. ~IsEmpty(s, t.scope)
  BY DEF IsEmpty
<1>2. \A w \in s.tokens : w.id = t.id => w = t
  BY DEF Loose, Unique
<1> QED  BY <1>1, <1>2 DEF Loose, Whole

(* The token in hand is let go of: its scope must not be empty.            *)
LEMMA ConsumedIsWhole ==
    ASSUME NEW s, NEW id, NEW x, Loose(s, id, x), Gone(s, id), x = Root \/ ~IsEmpty(s, x)
    PROVE  Whole(s)
<1>1. \A c \in s.scopes : c.id # Root
  BY DEF Loose, Nested, Root
<1> QED  BY <1>1 DEF Loose, Gone, Whole

(* It goes on: a move of it in its scope.                                  *)
LEMMA MovedIsWhole ==
    ASSUME NEW s, NEW id, NEW x, Loose(s, id, x), Gone(s, id), NEW u,
           Alike(u, s, {"status", "variables", "queue", "nextIncident", "clock"}),
           NEW m, m.token = id, m.scope = x, u.queue = s.queue \union {m}
    PROVE  Whole(u)
<1>1. /\ u.tokens = s.tokens /\ u.items = s.items /\ u.arms = s.arms /\ u.scopes = s.scopes
      /\ u.nextToken = s.nextToken /\ u.nextScope = s.nextScope
  BY DEF Alike, Fields
<1>2. Open(u) = Open(s)
  BY <1>1 DEF Open, ScopeIds
<1>3. Unique(u)
  BY <1>1 DEF Loose, Gone, Unique
<1>4. Nested(u) /\ Counted(u)
  BY <1>1, <1>2 DEF Loose, Nested, Counted
<1>5. \A c \in u.scopes : Parented(u, c)
  BY <1>1 DEF Loose, Gone, Parented
<1>6. \A c \in u.scopes : ~IsEmpty(u, c.id)
  BY <1>1 DEF Loose, Gone, IsEmpty
<1>7. \A i \in u.items : Worked(u, i)
  BY <1>1 DEF Loose, Gone, Worked
<1>8. \A a \in u.arms : HeldArm(u, a)
  BY <1>1 DEF Loose, Gone, HeldArm
<1>9. \A t \in u.tokens : Owns(u, t) /\ CanEnd(u, t)
  BY <1>1, SameWaits DEF Loose, Gone
<1> QED  BY <1>3, <1>4, <1>5, <1>6, <1>7, <1>8, <1>9 DEF Whole

LEMMA GoIsWhole ==
    ASSUME NEW s, Shaped(s), NEW id, NEW x, Loose(s, id, x), Gone(s, id), NEW node, NEW via
    PROVE  Whole(Go(s, id, node, x, via))
<1> DEFINE u == Go(s, id, node, x, via)
<1>1. PICK m : m.token = id /\ m.scope = x /\ u.queue = s.queue \union {m}
  BY GoIs
<1>2. Alike(u, s, {"queue", "clock"})
  BY GoIs
<1> HIDE DEF u
<1>3. Alike(u, s, {"status", "variables", "queue", "nextIncident", "clock"})
  BY <1>2 DEF Alike
<1> QED  BY <1>1, <1>3, MovedIsWhole DEF u

LEMMA LeaveIsWhole ==
    ASSUME NEW s, Shaped(s), NEW id, NEW x, Loose(s, id, x), Gone(s, id), NEW node
    PROVE  Whole(Leave(s, id, node, x))
BY GoIsWhole DEF Leave

-----------------------------------------------------------------------------
(* Fresh tokens.  A state that is whole but for its scope x, which may be  *)
(* empty.                                                                  *)
Vacant(s, x) ==
    /\ Unique(s) /\ Nested(s) /\ Counted(s) /\ x \in Open(s)
    /\ \A c \in s.scopes : Parented(s, c) /\ (c.id = x \/ ~IsEmpty(s, c.id))
    /\ \A i \in s.items : Worked(s, i)
    /\ \A a \in s.arms : HeldArm(s, a)
    /\ \A t \in s.tokens : Owns(s, t) /\ CanEnd(s, t)

LEMMA WholeIsVacant ==
    ASSUME NEW s, Whole(s), NEW x \in Open(s)
    PROVE  Vacant(s, x)
BY DEF Whole, Vacant

LEMMA GoneIsVacant ==
    ASSUME NEW s, NEW id, NEW x, Loose(s, id, x), Gone(s, id)
    PROVE  Vacant(s, x)
BY DEF Loose, Gone, Vacant

(* The scopes, items and arms of a vacant state have parked tokens.        *)
LEMMA VacantNames ==
    ASSUME NEW s, NEW x, Vacant(s, x), NEW id,
           \A t \in s.tokens : t.id # id
    PROVE  Gone(s, id)
BY DEF Vacant, Gone, Parented, Worked, HeldArm

LEMMA FreshIsLoose ==
    ASSUME NEW s, NEW x, Vacant(s, x), NEW u,
           Alike(u, s, {"status", "variables", "nextToken"}), u.nextToken = s.nextToken + 1
    PROVE  Loose(u, s.nextToken, x) /\ Gone(u, s.nextToken)
<1> DEFINE id == s.nextToken
<1>1. /\ u.tokens = s.tokens /\ u.items = s.items /\ u.arms = s.arms /\ u.scopes = s.scopes
      /\ u.queue = s.queue /\ u.nextScope = s.nextScope
  BY DEF Alike, Fields
<1>2. Open(u) = Open(s)
  BY <1>1 DEF Open, ScopeIds
<1>3. id \in Nat /\ \A t \in s.tokens : t.id # id
  BY DEF Vacant, Unique
<1>4. Gone(s, id)
  BY <1>3, VacantNames
<1>5. Gone(u, id)
  BY <1>1, <1>4 DEF Gone
<1>6. Unique(u) /\ \A m \in u.queue : m.token # id
  BY <1>1 DEF Vacant, Unique
<1>7. Nested(u) /\ Counted(u)
  BY <1>1, <1>2 DEF Vacant, Nested, Counted
<1>8. \A c \in u.scopes : Parented(u, c) /\ (c.id = x \/ ~IsEmpty(u, c.id))
  BY <1>1 DEF Vacant, Parented, IsEmpty
<1>9. \A i \in u.items : Worked(u, i)
  BY <1>1 DEF Vacant, Worked
<1>10. \A a \in u.arms : HeldArm(u, a)
  BY <1>1 DEF Vacant, HeldArm
<1>11. \A t \in u.tokens : Owns(u, t) /\ CanEnd(u, t)
  BY <1>1, SameWaits DEF Vacant
<1>12. id < u.nextToken /\ x \in Open(u)
  BY <1>2, <1>3 DEF Vacant
<1> HIDE DEF id
<1>13. Loose(u, id, x)
  BY <1>3, <1>5, <1>6, <1>7, <1>8, <1>9, <1>10, <1>11, <1>12 DEF Loose, Gone
<1> QED  BY <1>5, <1>13 DEF id

LEMMA LeaveFreshIsWhole ==
    ASSUME NEW s, Shaped(s), NEW x, Vacant(s, x), NEW node
    PROVE  Whole(LeaveFresh(s, node, x))
<1> DEFINE r == [s EXCEPT !.nextToken = @ + 1]
<1>1. Alike(r, s, {"status", "variables", "nextToken"}) /\ r.nextToken = s.nextToken + 1
  BY DEF Alike, Shaped, Fields
<1>2. LeaveFresh(s, node, x) = Leave(r, s.nextToken, node, x)
  BY DEF LeaveFresh
<1> HIDE DEF r
<1>3. Shaped(r)
  BY <1>1 DEF Alike
<1>4. Loose(r, s.nextToken, x) /\ Gone(r, s.nextToken)
  BY <1>1, FreshIsLoose
<1> QED  BY <1>2, <1>3, <1>4, LeaveIsWhole

LEMMA SplitIsWhole ==
    ASSUME NEW s, Shaped(s), NEW x, Vacant(s, x), NEW node \in Node, Outgoing[node] # << >>
    PROVE  Whole(Split(s, node, x))
<1> DEFINE out == Outgoing[node]
           n   == s.nextToken
           at  == IF s.queue = {} THEN 0 ELSE s.clock
           Of(i) == [token |-> n + i - 1, node |-> Target[out[i]], scope |-> x,
                     via |-> out[i], at |-> at + i - 1]
           q   == s.queue \union {Of(i) : i \in DOMAIN out}
           u   == [s EXCEPT !.queue = q, !.nextToken = n + Len(out), !.clock = at + Len(out)]
<1>1. Split(s, node, x) = u
  BY DEF Split
<1>2. DOMAIN out = 1 .. Len(out) /\ Len(out) \in Nat \ {0}
  BY GraphTyped
<1>3. \A i : Of(i).token = n + i - 1 /\ Of(i).scope = x
  OBVIOUS
<1> HIDE DEF Of, at
<1>4. /\ u.tokens = s.tokens /\ u.items = s.items /\ u.arms = s.arms /\ u.scopes = s.scopes
      /\ u.queue = q /\ u.nextScope = s.nextScope /\ u.nextToken = n + Len(out)
  BY DEF Shaped, Fields
<1> HIDE DEF out, u
<1>5. Open(u) = Open(s)
  BY <1>4 DEF Open, ScopeIds
<1>6. \A m \in q : m \in s.queue \/ \E i \in 1 .. Len(out) : m = Of(i)
  BY <1>2
<1>7. Of(1) \in q
  BY <1>2
<1>8. s.queue \subseteq q
  OBVIOUS
<1> HIDE DEF q
<1>9. n \in Nat /\ \A m \in s.queue : m.token \in Nat /\ m.token < n
  BY DEF Vacant, Unique
<1>10. \A m, k \in q : m.token = k.token => m = k
  <2>1. ASSUME NEW m \in q, NEW k \in q, m.token = k.token
        PROVE  m = k
    <3>1. CASE m \in s.queue /\ k \in s.queue
      BY <2>1, <3>1 DEF Vacant, Unique
    <3>2. ASSUME NEW i \in 1 .. Len(out), m = Of(i) \/ k = Of(i)
          PROVE  m = k
      BY <1>2, <1>3, <1>6, <1>9, <2>1, <3>2
    <3> QED  BY <1>6, <3>1, <3>2
  <2> QED  BY <2>1
<1>11. \A m \in q : m.token \in Nat /\ m.token < n + Len(out)
  BY <1>2, <1>3, <1>6, <1>9
<1>12. \A t \in s.tokens, m \in q : t.id # m.token
  <2>1. \A t \in s.tokens : t.id \in Nat /\ t.id < n
    BY DEF Vacant, Unique
  <2>2. \A t \in s.tokens, m \in s.queue : t.id # m.token
    BY DEF Vacant, Unique
  <2> QED  BY <1>2, <1>3, <1>6, <1>9, <2>1, <2>2
<1>13. Unique(u)
  <2>1. \A t \in s.tokens : t.id < n + Len(out)
    BY <1>2, <1>9 DEF Vacant, Unique
  <2> QED  BY <1>2, <1>4, <1>9, <1>10, <1>11, <1>12, <2>1 DEF Vacant, Unique
<1>14. Nested(u) /\ Counted(u)
  <2>1. \A m \in q : m.scope \in Open(s)
    BY <1>3, <1>6 DEF Vacant, Nested
  <2> QED  BY <1>4, <1>5, <2>1 DEF Vacant, Nested, Counted
<1>15. \A c \in u.scopes : Parented(u, c) /\ ~IsEmpty(u, c.id)
  <2>1. ~IsEmpty(u, x)
    BY <1>3, <1>4, <1>7 DEF IsEmpty
  <2>2. \A c \in s.scopes : ~IsEmpty(s, c.id) => ~IsEmpty(u, c.id)
    BY <1>4, <1>8 DEF IsEmpty
  <2>3. \A c \in s.scopes : Parented(s, c) => Parented(u, c)
    BY <1>4 DEF Parented
  <2> QED  BY <1>4, <2>1, <2>2, <2>3 DEF Vacant
<1>16. \A i \in u.items : Worked(u, i)
  BY <1>4 DEF Vacant, Worked
<1>17. \A a \in u.arms : HeldArm(u, a)
  BY <1>4 DEF Vacant, HeldArm
<1>18. \A t \in u.tokens : Owns(u, t) /\ CanEnd(u, t)
  BY <1>4, SameWaits DEF Vacant
<1> QED  BY <1>1, <1>13, <1>14, <1>15, <1>16, <1>17, <1>18 DEF Whole, u

(* A join merges the tokens that wait at it.                               *)
LEMMA MergedIsVacant ==
    ASSUME NEW s, NEW id, NEW x, Loose(s, id, x), Gone(s, id),
           NEW D, \A t \in D : t.wait = "join" /\ t.scope = x,
           NEW u, Alike(u, s, {"tokens"}), u.tokens = s.tokens \ D
    PROVE  Vacant(u, x)
<1>1. /\ u.items = s.items /\ u.arms = s.arms /\ u.scopes = s.scopes /\ u.queue = s.queue
      /\ u.nextToken = s.nextToken /\ u.nextScope = s.nextScope
  BY DEF Alike, Fields
<1>2. Vacant(s, x)
  BY GoneIsVacant
<1>3. Open(u) = Open(s)
  BY <1>1 DEF Open, ScopeIds
<1>4. Unique(u) /\ Nested(u) /\ Counted(u)
  BY <1>1, <1>2, <1>3 DEF Vacant, Unique, Nested, Counted
<1>5. \A c \in u.scopes : Parented(u, c)
  BY <1>1, <1>2 DEF Vacant, Parented
<1>6. \A c \in u.scopes : c.id = x \/ ~IsEmpty(u, c.id)
  BY <1>1, <1>2 DEF Vacant, IsEmpty
<1>7. \A i \in u.items : Worked(u, i)
  BY <1>1, <1>2 DEF Vacant, Worked
<1>8. \A a \in u.arms : HeldArm(u, a)
  BY <1>1, <1>2 DEF Vacant, HeldArm, Holding
<1>9. \A t \in u.tokens : Owns(u, t) /\ CanEnd(u, t)
  BY <1>1, <1>2, SameWaits DEF Vacant
<1>10. x \in Open(u)
  BY <1>2, <1>3 DEF Vacant
<1> QED  BY <1>4, <1>5, <1>6, <1>7, <1>8, <1>9, <1>10 DEF Vacant

-----------------------------------------------------------------------------
(* Scopes.                                                                 *)

(* What a teardown dooms: the scopes owned by id and those inside them.    *)
LEMMA DoomedAre ==
    ASSUME NEW s, Nested(s), NEW id, NEW x \in Nat,
           \A c \in s.scopes : c.token = id => c.parent = x,
           NEW D, D = Subtree(s, {c.id : c \in {d \in s.scopes : d.token = id}})
    PROVE  /\ D \subseteq ScopeIds(s) /\ x \notin D /\ Root \notin D
           /\ \A c \in s.scopes : c.token = id => c.id \in D
           /\ \A c \in s.scopes : c.parent \in D => c.id \in D
           /\ \A c \in s.scopes : c.id \in D => c.token = id \/ c.parent \in D
<1> DEFINE owned == {c.id : c \in {d \in s.scopes : d.token = id}}
           all == owned \union ScopeIds(s)
           Closed(X) == owned \subseteq X /\ \A c \in s.scopes : c.parent \in X => c.id \in X
<1>1. all = ScopeIds(s)
  BY DEF ScopeIds
<1>2. D = {y \in all : \A X \in SUBSET all : Closed(X) => y \in X}
  BY DEF Subtree
<1>3. owned \subseteq D
  BY <1>2
<1>4. \A c \in s.scopes : c.id \in all
  BY <1>1 DEF ScopeIds
<1>5. \A c \in s.scopes : c.token = id => c.id \in owned
  OBVIOUS
<1>6. \A y \in owned : \E c \in s.scopes : c.token = id /\ c.id = y
  OBVIOUS
<1>7. \A y \in all : \E c \in s.scopes : c.id = y
  BY <1>1 DEF ScopeIds
<1> HIDE DEF owned, all
<1>8. \A c \in s.scopes : c.parent \in D => c.id \in D
  BY <1>2, <1>4
<1>9. \A X \in SUBSET all : Closed(X) => D \subseteq X
  BY <1>2
<1>10. \A c \in s.scopes : c.id \in D => c.token = id \/ c.parent \in D
  <2>1. ASSUME NEW c \in s.scopes, c.id \in D, c.token # id, c.parent \notin D
        PROVE  FALSE
    <3> DEFINE X == D \ {c.id}
    <3>1. \A d \in s.scopes : d.id = c.id => d = c
      BY DEF Nested
    <3>2. owned \subseteq X
      BY <1>3, <1>6, <2>1, <3>1
    <3>3. \A d \in s.scopes : d.parent \in X => d.id \in X
      BY <1>8, <2>1, <3>1
    <3>4. X \in SUBSET all
      BY <1>2
    <3> QED  BY <1>9, <2>1, <3>2, <3>3, <3>4
  <2> QED  BY <2>1
<1>11. \A y \in D : y \in Nat /\ y > x
  <2> DEFINE X == {y \in all : y \in Nat /\ y > x}
  <2>1. \A c \in s.scopes : c.id \in Nat /\ c.parent \in Nat /\ c.id > c.parent
    BY DEF Nested
  <2>2. owned \subseteq X
    BY <1>1, <1>4, <1>6, <2>1
  <2>3. \A c \in s.scopes : c.parent \in X => c.id \in X
    BY <1>4, <2>1
  <2> QED  BY <1>9, <2>2, <2>3
<1> QED  BY <1>1, <1>2, <1>3, <1>5, <1>8, <1>10, <1>11 DEF Root

(* Closing the scope that token id owns, if any.  The state may lack items *)
(* of tokens inside, as they go too.                                       *)
LEMMA ClosedIsLoose ==
    ASSUME NEW r, NEW id, NEW x, Loose(r, id, x), NEW s, Shaped(s),
           Alike(s, r, {"status", "variables", "items", "nextIncident", "clock"}),
           s.items \subseteq r.items,
           NEW D, D = Subtree(s, {c.id : c \in {d \in s.scopes : d.token = id}}),
           \A i \in r.items \ s.items : ~Apart(s, D, i.token)
    PROVE  LET u == CloseOwned(s, id)
           IN  /\ Loose(u, id, x) /\ \A c \in u.scopes : c.token # id
               /\ Alike(u, s, {"queue", "tokens", "items", "arms", "scopes"})
               /\ u.tokens \subseteq s.tokens /\ u.items \subseteq s.items
               /\ u.arms \subseteq s.arms
<1> DEFINE u == CloseOwned(s, id)
<1>1. /\ Alike(u, s, {"queue", "tokens", "items", "arms", "scopes"})
      /\ \A m : m \in u.queue <=> m \in s.queue /\ m.scope \notin D
      /\ \A t : t \in u.tokens <=> t \in s.tokens /\ t.scope \notin D
      /\ \A i : i \in u.items <=> i \in s.items /\ Apart(s, D, i.token)
      /\ \A y : y \in u.arms <=> y \in s.arms /\ Apart(s, D, y.token)
      /\ \A c : c \in u.scopes <=> c \in s.scopes /\ c.id \notin D
  BY CloseOwnedIs
<1>2. /\ s.tokens = r.tokens /\ s.arms = r.arms /\ s.scopes = r.scopes /\ s.queue = r.queue
      /\ s.nextToken = r.nextToken /\ s.nextScope = r.nextScope
  BY DEF Alike, Fields
<1>3. u.nextToken = s.nextToken /\ u.nextScope = s.nextScope
  BY <1>1 DEF Alike, Fields
<1>4. x \in Nat
  BY DEF Loose, Nested, Open, ScopeIds, Root
<1>5. Nested(s) /\ \A c \in s.scopes : c.token = id => c.parent = x
  BY <1>2 DEF Loose, Nested, Open, ScopeIds
<1>6. /\ D \subseteq ScopeIds(s) /\ x \notin D /\ Root \notin D
      /\ \A c \in s.scopes : c.token = id => c.id \in D
      /\ \A c \in s.scopes : c.parent \in D => c.id \in D
      /\ \A c \in s.scopes : c.id \in D => c.token = id \/ c.parent \in D
  BY <1>4, <1>5, DoomedAre
<1>7. \A i \in r.items \ s.items : ~Apart(s, D, i.token)
  OBVIOUS
<1>8. \A t \in u.tokens : Apart(s, D, t.id)
  BY <1>1, <1>2 DEF Loose, Unique, Apart
<1>9. \A t \in s.tokens : Apart(s, D, t.id) => t \in u.tokens
  BY <1>1 DEF Apart
<1> HIDE DEF u
<1>10. Unique(u)
  BY <1>1, <1>2, <1>3 DEF Loose, Unique
<1>11. \A y \in Open(s) : y \notin D => y \in Open(u)
  BY <1>1 DEF Open, ScopeIds
<1>12. Nested(u) /\ x \in Open(u)
  <2>1. x \in Open(s)
    BY <1>2 DEF Loose, Open, ScopeIds
  <2> QED  BY <1>1, <1>3, <1>5, <1>6, <1>11, <2>1 DEF Nested
<1>13. Counted(u)
  BY <1>1, <1>2 DEF Loose, Counted
<1>14. ASSUME NEW c \in u.scopes
       PROVE  c.token # id /\ Parented(u, c) /\ (c.id = x \/ ~IsEmpty(u, c.id))
  <2>1. c \in s.scopes /\ c.id \notin D /\ c.token # id /\ c.parent \notin D
    BY <1>1, <1>6
  <2>2. Parented(r, c) /\ (c.id = x \/ ~IsEmpty(r, c.id))
    BY <1>2, <2>1 DEF Loose
  <2>3. Parented(u, c)
    BY <1>1, <1>2, <2>1, <2>2 DEF Parented
  <2>4. c.id = x \/ ~IsEmpty(u, c.id)
    BY <1>1, <1>2, <2>1, <2>2 DEF IsEmpty
  <2> QED  BY <2>1, <2>3, <2>4
<1>15. ASSUME NEW i \in u.items, i.token # id
       PROVE  Worked(u, i)
  <2>1. i \in r.items /\ Apart(s, D, i.token)
    BY <1>1
  <2>2. Worked(r, i)
    BY <1>15, <2>1 DEF Loose
  <2> QED  BY <1>2, <1>9, <2>1, <2>2 DEF Worked
<1>16. ASSUME NEW a \in u.arms, a.token # id
       PROVE  HeldArm(u, a)
  <2>1. a \in r.arms /\ Apart(s, D, a.token)
    BY <1>1, <1>2
  <2>2. HeldArm(r, a)
    BY <1>16, <2>1 DEF Loose
  <2> QED  BY <1>2, <1>9, <2>1, <2>2 DEF HeldArm
<1>17. ASSUME NEW t \in u.tokens, t.id # id
       PROVE  Owns(u, t) /\ CanEnd(u, t)
  <2>1. t \in r.tokens /\ t.scope \notin D /\ Apart(s, D, t.id)
    BY <1>1, <1>2, <1>8
  <2>2. Owns(r, t) /\ CanEnd(r, t)
    BY <1>17, <2>1 DEF Loose
  <2>3. \A c \in s.scopes : c.token = t.id => c \in u.scopes
    <3>1. ASSUME NEW c \in s.scopes, c.token = t.id
          PROVE  c.parent = t.scope
      BY <1>2, <1>17, <2>1, <3>1 DEF Loose, Parented, Unique
    <3> QED  BY <1>1, <1>6, <1>17, <2>1, <3>1
  <2>4. Owns(u, t)
    BY <1>2, <2>2, <2>3 DEF Owns
  <2>5. ASSUME NEW el, ArmedOnce(r, t.id, el)
        PROVE  ArmedOnce(u, t.id, el)
    <3>1. {a \in u.arms : a.token = t.id /\ a.element = el}
            = {a \in r.arms : a.token = t.id /\ a.element = el}
      BY <1>1, <1>2, <2>1
    <3> QED  BY <2>5, <3>1 DEF ArmedOnce
  <2>6. \A i \in r.items : i.token = t.id => i \in u.items
    BY <1>1, <1>7, <2>1
  <2>7. CanEnd(u, t)
    BY <2>2, <2>5, <2>6 DEF CanEnd
  <2> QED  BY <2>4, <2>7
<1>18. /\ id \in Nat /\ id < u.nextToken
       /\ \A m \in u.queue : m.token # id
       /\ \A t \in u.tokens : t.id = id => t.scope = x
  BY <1>1, <1>2, <1>3 DEF Loose
<1>19. Loose(u, id, x)
  BY <1>10, <1>12, <1>13, <1>14, <1>15, <1>16, <1>17, <1>18 DEF Loose
<1>20. u.tokens \subseteq s.tokens /\ u.items \subseteq s.items /\ u.arms \subseteq s.arms
  BY <1>1
<1> QED  BY <1>1, <1>14, <1>19, <1>20 DEF u

(* The scope of a token in hand has an owner, which can be taken instead.  *)
LEMMA OwnerIsLoose ==
    ASSUME NEW s, NEW c \in s.scopes, Vacant(s, c.id)
    PROVE  /\ Loose(s, c.token, c.parent)
           /\ \A i \in s.items : i.token # c.token
           /\ \A d \in s.scopes : d.token = c.token => d = c
<1>1. PICK t \in s.tokens : t.id = c.token /\ t.wait = "scope" /\ t.scope = c.parent
  BY DEF Vacant, Parented
<1>2. \A w \in s.tokens : w.id = t.id => w = t
  BY DEF Vacant, Unique
<1>3. \A i \in s.items : i.token # c.token
  BY <1>1, <1>2 DEF Vacant, Worked
<1>4. \A d \in s.scopes : d.token = c.token \/ d.id = c.id => d = c
  BY DEF Vacant, Nested
<1>5. /\ t.id \in Nat /\ t.id < s.nextToken /\ t.scope \in Open(s)
      /\ \A m \in s.queue : m.token # t.id
  BY DEF Vacant, Unique, Nested
<1> QED  BY <1>1, <1>2, <1>3, <1>4, <1>5 DEF Vacant, Loose

(* ... and its scope closed, once it is empty.                             *)
LEMMA EmptiedIsLoose ==
    ASSUME NEW s, NEW c \in s.scopes, Loose(s, c.token, c.parent), IsEmpty(s, c.id),
           NEW u, Alike(u, s, {"scopes"}), u.scopes = {d \in s.scopes : d.id # c.id}
    PROVE  Loose(u, c.token, c.parent) /\ \A d \in u.scopes : d.token # c.token
<1>1. /\ u.tokens = s.tokens /\ u.items = s.items /\ u.arms = s.arms /\ u.queue = s.queue
      /\ u.nextToken = s.nextToken /\ u.nextScope = s.nextScope
  BY DEF Alike, Fields
<1>2. \A d \in s.scopes : d.token = c.token \/ d.id = c.id => d = c
  BY DEF Loose, Nested
<1>3. /\ \A t \in s.tokens : t.scope # c.id
      /\ \A m \in s.queue : m.scope # c.id
      /\ c.parent # c.id
  BY DEF IsEmpty, Loose, Nested
<1>4. \A y \in Open(s) : y # c.id => y \in Open(u)
  BY DEF Open, ScopeIds
<1>5. Unique(u) /\ Counted(u)
  BY <1>1 DEF Loose, Unique, Counted
<1>6. Nested(u) /\ c.parent \in Open(u)
  BY <1>1, <1>3, <1>4 DEF Loose, Nested
<1>7. \A d \in u.scopes : d.token # c.token
  BY <1>2
<1>8. \A d \in u.scopes : Parented(u, d) /\ (d.id = c.parent \/ ~IsEmpty(u, d.id))
  BY <1>1, <1>7 DEF Loose, Parented, IsEmpty
<1>9. \A i \in u.items : i.token # c.token => Worked(u, i)
  BY <1>1 DEF Loose, Worked
<1>10. \A a \in u.arms : a.token # c.token => HeldArm(u, a)
  BY <1>1 DEF Loose, HeldArm
<1>11. ASSUME NEW t \in u.tokens, t.id # c.token
       PROVE  Owns(u, t) /\ CanEnd(u, t)
  <2>1. Owns(s, t) /\ CanEnd(s, t)
    BY <1>1, <1>11 DEF Loose
  <2>2. Owns(u, t)
    BY <1>2, <1>11, <2>1 DEF Owns
  <2>3. CanEnd(u, t)
    BY <1>1, <2>1 DEF CanEnd, ArmedOnce
  <2> QED  BY <2>2, <2>3
<1>12. /\ c.token \in Nat /\ c.token < u.nextToken
       /\ \A m \in u.queue : m.token # c.token
       /\ \A t \in u.tokens : t.id = c.token => t.scope = c.parent
  BY <1>1 DEF Loose
<1> QED  BY <1>5, <1>6, <1>7, <1>8, <1>9, <1>10, <1>11, <1>12 DEF Loose

(* A scope is opened on token id.                                          *)
LEMMA ChildIsLoose ==
    ASSUME NEW s, NEW id, NEW x, Loose(s, id, x), \A c \in s.scopes : c.token # id,
           NEW c, c.id = s.nextScope, c.parent = x, c.token = id,
           NEW u, Alike(u, s, {"scopes", "nextScope"}), u.scopes = s.scopes \union {c},
           u.nextScope = s.nextScope + 1
    PROVE  Loose(u, id, x)
<1>1. /\ u.tokens = s.tokens /\ u.items = s.items /\ u.arms = s.arms /\ u.queue = s.queue
      /\ u.nextToken = s.nextToken
  BY DEF Alike, Fields
<1>2. Open(s) \subseteq Open(u)
  BY DEF Open, ScopeIds
<1>3. x \in Nat /\ x < s.nextScope
  BY DEF Loose, Nested, Open, ScopeIds, Root
<1>4. s.nextScope \in Nat /\ \A d \in s.scopes : d.id \in Nat /\ d.id < s.nextScope
  BY DEF Loose, Nested
<1>5. \A d, e \in u.scopes : d.id = e.id \/ d.token = e.token => d = e
  <2>1. \A d, e \in s.scopes : d.id = e.id \/ d.token = e.token => d = e
    BY DEF Loose, Nested
  <2> QED  BY <1>4, <2>1
<1>6. \A d \in u.scopes : /\ d.id \in Nat /\ d.parent \in Nat
                         /\ d.parent < d.id /\ d.id < u.nextScope
  <2>1. \A d \in s.scopes : d.id \in Nat /\ d.parent \in Nat /\ d.parent < d.id
    BY DEF Loose, Nested
  <2> QED  BY <1>3, <1>4, <2>1
<1>7. Nested(u)
  BY <1>1, <1>2, <1>4, <1>5, <1>6 DEF Loose, Nested
<1>8. Unique(u) /\ Counted(u)
  BY <1>1 DEF Loose, Unique, Counted
<1>9. \A d \in u.scopes :
        /\ d.token = id => d.parent = x
        /\ d.token # id => Parented(u, d) /\ (d.id = x \/ ~IsEmpty(u, d.id))
  BY <1>1 DEF Loose, Parented, IsEmpty
<1>10. \A i \in u.items : i.token # id => Worked(u, i)
  BY <1>1 DEF Loose, Worked
<1>11. \A a \in u.arms : a.token # id => HeldArm(u, a)
  BY <1>1 DEF Loose, HeldArm
<1>12. \A t \in u.tokens : t.id # id => Owns(u, t) /\ CanEnd(u, t)
  BY <1>1 DEF Loose, Owns, CanEnd, ArmedOnce
<1>13. /\ id \in Nat /\ id < u.nextToken /\ x \in Open(u)
       /\ \A m \in u.queue : m.token # id
       /\ \A t \in u.tokens : t.id = id => t.scope = x
  BY <1>1, <1>2 DEF Loose
<1> QED  BY <1>7, <1>8, <1>9, <1>10, <1>11, <1>12, <1>13 DEF Loose

(* ... and a fresh token set off in an open scope, while id is in hand.    *)
LEMMA SentIsLoose ==
    ASSUME NEW s, NEW id, NEW x, Loose(s, id, x), NEW m, m.token = s.nextToken,
           m.scope \in Open(s),
           NEW u, Alike(u, s, {"queue", "nextToken", "clock"}),
           u.queue = s.queue \union {m}, u.nextToken = s.nextToken + 1
    PROVE  Loose(u, id, x)
<1>1. /\ u.tokens = s.tokens /\ u.items = s.items /\ u.arms = s.arms /\ u.scopes = s.scopes
      /\ u.nextScope = s.nextScope
  BY DEF Alike, Fields
<1>2. Open(u) = Open(s)
  BY <1>1 DEF Open, ScopeIds
<1>3. Unique(u)
  BY <1>1 DEF Loose, Unique
<1>4. Nested(u) /\ Counted(u)
  BY <1>1, <1>2 DEF Loose, Nested, Counted
<1>5. \A d \in u.scopes :
        /\ d.token = id => d.parent = x
        /\ d.token # id => Parented(u, d) /\ (d.id = x \/ ~IsEmpty(u, d.id))
  BY <1>1 DEF Loose, Parented, IsEmpty
<1>6. \A i \in u.items : i.token # id => Worked(u, i)
  BY <1>1 DEF Loose, Worked
<1>7. \A a \in u.arms : a.token # id => HeldArm(u, a)
  BY <1>1 DEF Loose, HeldArm
<1>8. \A t \in u.tokens : t.id # id => Owns(u, t) /\ CanEnd(u, t)
  BY <1>1, SMTT(30) DEF Loose, Owns, CanEnd, ArmedOnce
<1>9. /\ id \in Nat /\ id < u.nextToken /\ x \in Open(u)
      /\ \A n \in u.queue : n.token # id
      /\ \A t \in u.tokens : t.id = id => t.scope = x
  BY <1>1, <1>2 DEF Loose, Unique
<1> QED  BY <1>3, <1>4, <1>5, <1>6, <1>7, <1>8, <1>9 DEF Loose

-----------------------------------------------------------------------------
(* Tokens leave their nodes.                                               *)

LEMMA AsideIsLoose ==
    ASSUME NEW s, NEW id, NEW x, Loose(s, id, x), \A c \in s.scopes : c.token # id,
           NEW u, Touches(u, s, id), \A t \in u.tokens : t.id # id,
           \A i \in u.items : i.token # id, \A a \in u.arms : a.token # id
    PROVE  Loose(u, id, x) /\ Gone(u, id)
<1>1. u.scopes = s.scopes
  BY DEF Touches, Alike, Fields
<1>2. Counted(u)
  BY DEF Loose, Counted, Touches
<1>3. Loose(u, id, x)
  BY <1>2, Touched
<1> QED  BY <1>1, <1>3 DEF Gone

LEMMA UnparkedIsLoose ==
    ASSUME NEW s, Shaped(s), NEW id, NEW x, Loose(s, id, x), \A c \in s.scopes : c.token # id,
           \A i \in s.items : i.token # id, \A a \in s.arms : a.token # id
    PROVE  Shaped(Unpark(s, id)) /\ Loose(Unpark(s, id), id, x) /\ Gone(Unpark(s, id), id)
<1> DEFINE u == Unpark(s, id)
<1>1. Alike(u, s, {"tokens"}) /\ u.tokens = {t \in s.tokens : t.id # id}
  BY UnparkIs
<1> HIDE DEF u
<1>2. u.items = s.items /\ u.arms = s.arms
  BY <1>1 DEF Alike, Fields
<1>3. Touches(u, s, id)
  BY <1>1, <1>2 DEF Touches, Alike, Fields
<1>4. Loose(u, id, x) /\ Gone(u, id)
  BY <1>1, <1>2, <1>3, AsideIsLoose
<1>5. Shaped(u)
  BY <1>1 DEF Alike
<1> QED  BY <1>4, <1>5 DEF u

LEMMA GoneIsLoose ==
    ASSUME NEW s, Shaped(s), NEW id, NEW x, Loose(s, id, x), \A c \in s.scopes : c.token # id,
           \A i \in s.items : i.token # id
    PROVE  LET u == Unpark(WithdrawArms(s, id), id)
               v == WithdrawArms(Unpark(s, id), id)
           IN  /\ Shaped(u) /\ Loose(u, id, x) /\ Gone(u, id)
               /\ Shaped(v) /\ Loose(v, id, x) /\ Gone(v, id)
<1> DEFINE a == WithdrawArms(s, id)
           b == Unpark(s, id)
           u == Unpark(a, id)
           v == WithdrawArms(b, id)
<1>1. Alike(a, s, {"arms"}) /\ a.arms = {y \in s.arms : y.token # id}
  BY WithdrawArmsIs
<1>2. Alike(b, s, {"tokens"}) /\ b.tokens = {t \in s.tokens : t.id # id}
  BY UnparkIs
<1> HIDE DEF a, b
<1>3. Alike(u, a, {"tokens"}) /\ u.tokens = {t \in a.tokens : t.id # id}
  BY <1>1, UnparkIs DEF Alike
<1>4. Alike(v, b, {"arms"}) /\ v.arms = {y \in b.arms : y.token # id}
  BY <1>2, WithdrawArmsIs DEF Alike
<1> HIDE DEF u, v
<1>5. Alike(u, s, {"tokens", "arms"}) /\ u.tokens = {t \in s.tokens : t.id # id}
      /\ u.arms = {y \in s.arms : y.token # id} /\ u.items = s.items
  BY <1>1, <1>3 DEF Alike, Fields
<1>6. Alike(v, s, {"tokens", "arms"}) /\ v.tokens = {t \in s.tokens : t.id # id}
      /\ v.arms = {y \in s.arms : y.token # id} /\ v.items = s.items
  BY <1>2, <1>4 DEF Alike, Fields
<1>7. Touches(u, s, id) /\ Touches(v, s, id)
  BY <1>5, <1>6 DEF Touches, Alike
<1>8. Loose(u, id, x) /\ Gone(u, id)
  BY <1>5, <1>7, AsideIsLoose
<1>9. Loose(v, id, x) /\ Gone(v, id)
  BY <1>6, <1>7, AsideIsLoose
<1>10. Shaped(u) /\ Shaped(v)
  BY <1>5, <1>6 DEF Alike
<1> QED  BY <1>8, <1>9, <1>10 DEF u, v, a, b

(* The owner of an empty scope leaves the subprocess.                      *)
LEMMA CompleteScopeIsWhole ==
    ASSUME NEW s, Shaped(s), NEW c \in s.scopes, Vacant(s, c.id), IsEmpty(s, c.id)
    PROVE  Whole(CompleteScope(s, c))
<1> DEFINE r == [s EXCEPT !.scopes = {d \in @ : d.id # c.id}]
           w == Unpark(WithdrawArms(r, c.token), c.token)
<1>1. Alike(r, s, {"scopes"}) /\ r.scopes = {d \in s.scopes : d.id # c.id}
  BY DEF Alike, Shaped, Fields
<1>2. CompleteScope(s, c) = Leave(w, c.token, c.element, c.parent)
  BY DEF CompleteScope
<1> HIDE DEF r
<1>3. Loose(s, c.token, c.parent) /\ \A i \in s.items : i.token # c.token
  BY OwnerIsLoose
<1>4. Loose(r, c.token, c.parent) /\ \A d \in r.scopes : d.token # c.token
  BY <1>1, <1>3, EmptiedIsLoose
<1>5. Shaped(r) /\ \A i \in r.items : i.token # c.token
  BY <1>1, <1>3 DEF Alike, Fields
<1>6. Shaped(w) /\ Loose(w, c.token, c.parent) /\ Gone(w, c.token)
  BY <1>4, <1>5, GoneIsLoose
<1> HIDE DEF w
<1> QED  BY <1>2, <1>6, LeaveIsWhole

(* ... of a scope that is terminated.                                      *)
LEMMA EndScopeIsWhole ==
    ASSUME NEW s, Shaped(s), NEW c \in s.scopes, Vacant(s, c.id)
    PROVE  Whole(CompleteScope(TearDown(s, {c.id}), c))
<1> DEFINE torn == TearDown(s, {c.id})
           r == [torn EXCEPT !.scopes = {d \in @ : d.id # c.id}]
           w == Unpark(WithdrawArms(r, c.token), c.token)
<1>1. /\ Loose(s, c.token, c.parent) /\ \A i \in s.items : i.token # c.token
      /\ \A d \in s.scopes : d.token = c.token => d = c
  BY OwnerIsLoose
<1>2. {d.id : d \in {e \in s.scopes : e.token = c.token}} = {c.id}
  BY <1>1
<1>3. r = CloseOwned(s, c.token)
  <2>1. CloseOwned(s, c.token)
          = [TearDown(s, {c.id}) EXCEPT !.scopes = {d \in @ : d.id \notin {c.id}}]
    BY <1>2 DEF CloseOwned
  <2>2. \A S : {d \in S : d.id \notin {c.id}} = {d \in S : d.id # c.id}
    OBVIOUS
  <2> QED  BY <2>1, <2>2
<1>4. CompleteScope(torn, c) = Leave(w, c.token, c.element, c.parent)
  BY DEF CompleteScope
<1> HIDE DEF r, torn
<1>5. Alike(s, s, {"status", "variables", "items", "nextIncident", "clock"})
  BY DEF Alike
<1>6. /\ Loose(r, c.token, c.parent) /\ \A d \in r.scopes : d.token # c.token
      /\ Alike(r, s, {"queue", "tokens", "items", "arms", "scopes"}) /\ r.items \subseteq s.items
  <2> DEFINE D == Subtree(s, {d.id : d \in {e \in s.scopes : e.token = c.token}})
  <2>1. D = Subtree(s, {d.id : d \in {e \in s.scopes : e.token = c.token}})
    OBVIOUS
  <2> HIDE DEF D
  <2> QED  BY <1>1, <1>3, <1>5, <2>1, ClosedIsLoose
<1>7. Shaped(r) /\ \A i \in r.items : i.token # c.token
  BY <1>1, <1>6 DEF Alike
<1>8. Shaped(w) /\ Loose(w, c.token, c.parent) /\ Gone(w, c.token)
  BY <1>6, <1>7, GoneIsLoose
<1> HIDE DEF w
<1> QED  BY <1>4, <1>8, LeaveIsWhole DEF torn

(* An interrupting boundary: token t leaves, its scope is closed.  As in   *)
(* ClosedIsLoose, s may lack items of tokens inside.                       *)
LEMMA InterruptIsWhole ==
    ASSUME NEW r, Shaped(r), NEW t \in r.tokens, Loose(r, t.id, t.scope), NEW s, Shaped(s),
           Alike(s, r, {"status", "variables", "items", "nextIncident", "clock"}),
           s.items \subseteq r.items, \A i \in s.items : i.token # t.id,
           \A i \in r.items \ s.items :
                \/ i.token = t.id
                \/ \E w \in s.tokens, c \in s.scopes :
                    w.id = i.token /\ c.token = t.id /\ w.scope \in Subtree(s, {c.id}),
           NEW b
    PROVE  Whole(Interrupt(s, t, b))
<1> DEFINE k  == t.id
           x  == t.scope
           it == {i \in r.items : i.token # k}
           tk == {w \in r.tokens : w.id # k}
           q  == [r EXCEPT !.items = it, !.tokens = tk]
           s1 == Unpark(s, k)
           s2 == CloseOwned(s1, k)
           s3 == WithdrawArms(s2, k)
<1>1. Interrupt(s, t, b) = Leave(s3, k, b, x)
  BY DEF Interrupt
<1>2. Loose(r, k, x) /\ \A i \in s.items : i.token # k
  OBVIOUS
<1>3. \A i \in r.items \ s.items :
        \/ i.token = k
        \/ \E w \in s.tokens, c \in s.scopes :
             w.id = i.token /\ c.token = k /\ w.scope \in Subtree(s, {c.id})
  OBVIOUS
<1>4. Alike(q, r, {"items", "tokens"}) /\ q.items = it /\ q.tokens = tk
  BY DEF Alike, Shaped, Fields
<1>5. Alike(s1, s, {"tokens"}) /\ s1.tokens = {w \in s.tokens : w.id # k}
  BY UnparkIs
<1> HIDE DEF k, x, q, s1
<1>6. /\ s.tokens = r.tokens /\ s.arms = r.arms /\ s.scopes = r.scopes /\ s.queue = r.queue
      /\ s.nextToken = r.nextToken /\ s.nextScope = r.nextScope
  BY DEF Alike, Fields
<1>7. Loose(q, k, x)
  <2>1. Touches(q, r, k)
    BY <1>4 DEF Touches, Alike, Fields
  <2>2. Counted(q)
    BY <1>2, <1>4 DEF Loose, Counted, Alike, Fields
  <2> QED  BY <1>2, <1>4, <2>1, <2>2, Touched
<1>8. Alike(s1, q, {"status", "variables", "items", "nextIncident", "clock"})
  BY <1>4, <1>5, <1>6 DEF Alike, Fields
<1>9. s1.items = s.items /\ s1.scopes = s.scopes
  BY <1>5 DEF Alike, Fields
<1>10. s1.items \subseteq q.items
  BY <1>2, <1>4, <1>9
<1> DEFINE R == {c.id : c \in {d \in s1.scopes : d.token = k}}
           D == Subtree(s1, R)
<1>a. D = Subtree(s1, {c.id : c \in {d \in s1.scopes : d.token = k}})
  OBVIOUS
<1>b. R \in SUBSET ScopeIds(s1) /\ \A c \in s1.scopes : c.token = k => c.id \in R
  BY DEF ScopeIds
<1> HIDE DEF R
<1>c. \A c \in s1.scopes : c.token = k => Subtree(s1, {c.id}) \subseteq D
  BY <1>b, SubtreeGrows
<1> HIDE DEF D
<1>11. ASSUME NEW i \in q.items \ s1.items
       PROVE  ~Apart(s1, D, i.token)
  <2>1. i \in r.items \ s.items /\ i.token # k
    BY <1>4, <1>9
  <2>2. PICK w \in s.tokens, c \in s.scopes :
           w.id = i.token /\ c.token = k /\ w.scope \in Subtree(s, {c.id})
    BY <1>3, <2>1
  <2>3. Subtree(s, {c.id}) = Subtree(s1, {c.id})
    BY <1>9, Zenon DEF Subtree, ScopeIds
  <2> QED  BY <1>c, <1>5, <1>9, <2>1, <2>2, <2>3 DEF Apart
<1>12. Shaped(s1)
  BY <1>5 DEF Alike
<1>13. /\ Loose(s2, k, x) /\ \A c \in s2.scopes : c.token # k
       /\ Alike(s2, s1, {"queue", "tokens", "items", "arms", "scopes"})
       /\ s2.tokens \subseteq s1.tokens /\ s2.items \subseteq s1.items
  BY <1>a, <1>7, <1>8, <1>10, <1>11, <1>12, ClosedIsLoose
<1> HIDE DEF s2
<1>14. /\ \A w \in s2.tokens : w.id # k
       /\ \A i \in s2.items : i.token # k
       /\ Shaped(s2)
  BY <1>2, <1>5, <1>9, <1>13 DEF Alike
<1>15. Alike(s3, s2, {"arms"}) /\ s3.arms = {a \in s2.arms : a.token # k}
  BY <1>14, WithdrawArmsIs
<1> HIDE DEF s3
<1>16. s3.tokens = s2.tokens /\ s3.items = s2.items /\ Shaped(s3)
  BY <1>15 DEF Alike, Fields
<1>17. Touches(s3, s2, k)
  BY <1>15, <1>16 DEF Touches, Alike
<1>18. Loose(s3, k, x) /\ Gone(s3, k)
  BY <1>13, <1>14, <1>15, <1>16, <1>17, AsideIsLoose
<1> QED  BY <1>1, <1>16, <1>18, LeaveIsWhole

-----------------------------------------------------------------------------
(* Tokens stop: one in hand parks.                                         *)

LEMMA TakenIsLoose ==
    ASSUME NEW s, Whole(s), NEW m \in s.queue,
           NEW u, Alike(u, s, {"queue"}), u.queue = s.queue \ {m}
    PROVE  Loose(u, m.token, m.scope) /\ Gone(u, m.token)
<1> DEFINE id == m.token
           x  == m.scope
<1>1. /\ u.tokens = s.tokens /\ u.items = s.items /\ u.arms = s.arms /\ u.scopes = s.scopes
      /\ u.nextToken = s.nextToken /\ u.nextScope = s.nextScope
  BY DEF Alike, Fields
<1>2. Open(u) = Open(s)
  BY <1>1 DEF Open, ScopeIds
<1>3. x \in Open(s) /\ \A t \in s.tokens : t.id # id
  BY DEF Whole, Nested, Unique
<1>4. Gone(s, id)
  BY <1>3, VacantNames, WholeIsVacant
<1>5. Gone(u, id)
  BY <1>1, <1>4 DEF Gone
<1>6. id \in Nat /\ id < u.nextToken /\ \A k \in u.queue : k.token # id
  BY <1>1 DEF Whole, Unique
<1>7. Unique(u)
  BY <1>1 DEF Whole, Unique
<1>8. Nested(u) /\ Counted(u)
  BY <1>1, <1>2 DEF Whole, Nested, Counted
<1>9. \A c \in u.scopes : Parented(u, c)
  BY <1>1 DEF Whole, Parented
<1>10. \A c \in u.scopes : c.id = x \/ ~IsEmpty(u, c.id)
  BY <1>1 DEF Whole, IsEmpty
<1>11. \A i \in u.items : Worked(u, i)
  BY <1>1 DEF Whole, Worked
<1>12. \A a \in u.arms : HeldArm(u, a)
  BY <1>1 DEF Whole, HeldArm
<1>13. \A t \in u.tokens : Owns(u, t) /\ CanEnd(u, t)
  BY <1>1, SameWaits DEF Whole
<1> HIDE DEF id, x
<1>14. Loose(u, id, x)
  BY <1>1, <1>2, <1>3, <1>5, <1>6, <1>7, <1>8, <1>9, <1>10, <1>11, <1>12, <1>13 DEF Loose, Gone
<1> QED  BY <1>5, <1>14 DEF id, x

LEMMA ParkIsLoose ==
    ASSUME NEW s, Shaped(s), NEW id, NEW x, Loose(s, id, x), \A t \in s.tokens : t.id # id,
           NEW node, NEW wait, NEW via
    PROVE  LET u == Park(s, id, node, x, wait, via)
           IN  Shaped(u) /\ Loose(u, id, x)
<1> DEFINE t == [id |-> id, node |-> node, scope |-> x, wait |-> wait, via |-> via]
           u == Park(s, id, node, x, wait, via)
<1>1. Alike(u, s, {"tokens"}) /\ u.tokens = s.tokens \union {t}
  BY ParkIs
<1>2. t.id = id /\ t.scope = x /\ DOMAIN t = TokenFields
  BY DEF TokenFields
<1> HIDE DEF u, t
<1>3. Touches(u, s, id)
  BY <1>1, <1>2 DEF Touches, Alike, Fields
<1>4. Counted(u)
  BY <1>1 DEF Loose, Counted, Alike, Fields
<1>5. Loose(u, id, x)
  BY <1>1, <1>2, <1>3, <1>4, Touched
<1> QED  BY <1>1, <1>5 DEF Alike, u

(* ... in a wait that holds nothing.                                       *)
LEMMA RestIsWhole ==
    ASSUME NEW s, Shaped(s), NEW id, NEW x, Loose(s, id, x), Gone(s, id),
           NEW node, NEW wait, NEW via,
           wait \notin {"workitem", "timer", "message", "eventgateway", "scope"}
    PROVE  LET u == Park(s, id, node, x, wait, via)
           IN  Shaped(u) /\ Whole(u)
<1> DEFINE t == [id |-> id, node |-> node, scope |-> x, wait |-> wait, via |-> via]
           u == Park(s, id, node, x, wait, via)
<1>1. Alike(u, s, {"tokens"}) /\ u.tokens = s.tokens \union {t}
  BY ParkIs
<1>2. Shaped(u) /\ Loose(u, id, x)
  BY ParkIsLoose DEF Gone
<1>3. t.id = id /\ t.scope = x /\ t.wait = wait
  OBVIOUS
<1> HIDE DEF u, t
<1>4. u.items = s.items /\ u.arms = s.arms /\ u.scopes = s.scopes
  BY <1>1 DEF Alike, Fields
<1>5. Owns(u, t) /\ CanEnd(u, t)
  BY <1>3 DEF Owns, CanEnd, Holding
<1>6. /\ \A c \in u.scopes : c.token # id
      /\ \A i \in u.items : i.token # id
      /\ \A a \in u.arms : a.token # id
  BY <1>4 DEF Gone
<1>7. t \in u.tokens
  BY <1>1
<1>8. Whole(u)
  BY <1>2, <1>3, <1>5, <1>6, <1>7, LooseIsWhole
<1> QED  BY <1>2, <1>8 DEF u

-----------------------------------------------------------------------------
(* The collateral of a freeze: tokens and moves that change how they wait, *)
(* and nothing else.                                                       *)
Collateral == {"decision", "awaiting", "inflight"}

LEMMA Retagged ==
    ASSUME NEW s, Whole(s), NEW u, Unique(u),
           Alike(u, s, {"status", "variables", "tokens", "queue", "nextIncident", "clock"}),
           \A t : t.wait \notin Collateral => (t \in u.tokens <=> t \in s.tokens),
           \A y : IsEmpty(u, y) <=> IsEmpty(s, y)
    PROVE  Whole(u)
<1>1. /\ u.items = s.items /\ u.arms = s.arms /\ u.scopes = s.scopes
      /\ u.nextToken = s.nextToken /\ u.nextScope = s.nextScope
  BY DEF Alike, Fields
<1>2. Open(u) = Open(s)
  BY <1>1 DEF Open, ScopeIds
<1>3. \A t \in s.tokens : t.wait \notin Collateral => t \in u.tokens
  OBVIOUS
<1>4. \A t \in u.tokens : t.wait \notin Collateral => t \in s.tokens
  OBVIOUS
<1>5. Nested(u)
  <2>1. \A y : ~IsEmpty(s, y) => y \in Open(s)
    BY DEF IsEmpty, Whole, Nested
  <2>2. \A t \in u.tokens : ~IsEmpty(u, t.scope)
    BY DEF IsEmpty
  <2>3. \A m \in u.queue : ~IsEmpty(u, m.scope)
    BY DEF IsEmpty
  <2> QED  BY <1>1, <1>2, <2>1, <2>2, <2>3 DEF Whole, Nested
<1>6. Counted(u)
  BY <1>1 DEF Whole, Counted
<1>7. \A c \in u.scopes : Parented(u, c) /\ ~IsEmpty(u, c.id)
  BY <1>1, <1>3 DEF Whole, Parented, Collateral
<1>8. \A i \in u.items : Worked(u, i)
  BY <1>1, <1>3 DEF Whole, Worked, Collateral
<1>9. \A a \in u.arms : HeldArm(u, a)
  BY <1>1, <1>3 DEF Whole, HeldArm, Holding, Collateral
<1>10. ASSUME NEW t \in u.tokens
       PROVE  Owns(u, t) /\ CanEnd(u, t)
  <2>1. CASE t.wait \in Collateral
    BY <2>1 DEF Owns, CanEnd, Holding, Collateral
  <2>2. CASE t.wait \notin Collateral
    BY <1>1, <1>4, <2>2, SameWaits DEF Whole
  <2> QED  BY <2>1, <2>2
<1> QED  BY <1>5, <1>6, <1>7, <1>8, <1>9, <1>10 DEF Whole

-----------------------------------------------------------------------------
(* What the end of an action leaves.                                       *)
Awake(s) == s.status = "active" /\ \A t \in s.tokens : t.wait \notin {"incident", "inflight"}

Coherent(s) == Whole(s) /\ Frozen(s)

LEMMA MovingIsCoherent ==
    ASSUME NEW s, Whole(s), Awake(s), s.queue # {}
    PROVE  Coherent(s)
BY DEF Awake, Coherent, Frozen

LEMMA NothingLeft ==
    ASSUME NEW s, Whole(s), s.tokens = {}, s.queue = {}
    PROVE  s.items = {} /\ s.arms = {} /\ s.scopes = {}
BY DEF Whole, Worked, HeldArm, Parented

LEMMA SettleIsCoherent ==
    ASSUME NEW s, Shaped(s), Whole(s), Awake(s)
    PROVE  Coherent(Settle(s))
<1>1. CASE s.queue # {}
  BY <1>1, MovingIsCoherent DEF Settle
<1>2. CASE s.queue = {}
  <2> DEFINE Asked(t) == IF t.wait = "awaiting" THEN [t EXCEPT !.wait = "decision"] ELSE t
             x == {Asked(t) : t \in s.tokens}
             r == IF s.tokens = {} THEN "completed" ELSE "active"
             u == [s EXCEPT !.tokens = x, !.status = r, !.clock = 0]
  <2>1. Settle(s) = u
    BY <1>2 DEF Settle, Awake
  <2>2. \A t \in s.tokens : DOMAIN t = TokenFields
    BY DEF Whole, Unique
  <2>3. ASSUME NEW t, DOMAIN t = TokenFields
        PROVE  /\ Asked(t).id = t.id /\ Asked(t).scope = t.scope
               /\ DOMAIN Asked(t) = TokenFields
               /\ t.wait = "awaiting" => Asked(t).wait = "decision"
               /\ t.wait # "awaiting" => Asked(t) = t
    <3>1. CASE t.wait = "awaiting"
      <4>1. Asked(t) = [t EXCEPT !.wait = "decision"]
        BY <3>1
      <4> HIDE DEF Asked
      <4> QED  BY <2>3, <3>1, <4>1 DEF TokenFields
    <3>2. CASE t.wait # "awaiting"
      BY <2>3, <3>2
    <3> QED  BY <3>1, <3>2
  <2>4. \A t : t \in x <=> \E w \in s.tokens : t = Asked(w)
    OBVIOUS
  <2> HIDE DEF Asked, x
  <2>5. /\ Alike(u, s, {"tokens", "status", "clock"})
        /\ u.tokens = x /\ u.status = r
    BY DEF Alike, Shaped, Fields
  <2> HIDE DEF u
  <2>6. /\ u.queue = {} /\ u.items = s.items /\ u.arms = s.arms /\ u.scopes = s.scopes
        /\ u.nextToken = s.nextToken
    BY <1>2, <2>5 DEF Alike, Fields
  <2>7. Unique(u)
    BY <1>2, <2>2, <2>3, <2>4, <2>5, <2>6 DEF Whole, Unique
  <2>8. Alike(u, s, {"status", "variables", "tokens", "queue", "nextIncident", "clock"})
    BY <2>5 DEF Alike
  <2>9. \A t : t.wait \notin Collateral => (t \in u.tokens <=> t \in s.tokens)
    BY <2>2, <2>3, <2>4, <2>5 DEF Collateral
  <2>10. \A y : IsEmpty(u, y) <=> IsEmpty(s, y)
    BY <1>2, <2>2, <2>3, <2>4, <2>5, <2>6 DEF IsEmpty
  <2>11. Whole(u)
    BY <2>7, <2>8, <2>9, <2>10, Retagged
  <2>12. \A t \in u.tokens : t.wait \notin {"incident", "inflight", "awaiting"}
    BY <2>2, <2>3, <2>4, <2>5 DEF Awake
  <2>13. r \in {"completed", "active"} /\ (r = "completed" => s.tokens = {})
    OBVIOUS
  <2>14. u.status = "completed" => u.tokens = {} /\ u.items = {} /\ u.arms = {} /\ u.scopes = {}
    BY <2>4, <2>5, <2>6, <2>11, <2>13, NothingLeft
  <2> QED  BY <2>1, <2>5, <2>6, <2>11, <2>12, <2>13, <2>14 DEF Coherent, Frozen
<1> QED  BY <1>1, <1>2

(* The moves that were under way at the freeze are under way again.        *)
LEMMA ResumeIsWhole ==
    ASSUME NEW s, Shaped(s), Whole(s)
    PROVE  LET u == ResumeHalted(s)
           IN  /\ Shaped(u) /\ Whole(u) /\ u.status = s.status
               /\ \A t : t \in u.tokens <=> t \in s.tokens /\ t.wait # "inflight"
               /\ s.queue \subseteq u.queue
<1> DEFINE halted == {t \in s.tokens : t.wait = "inflight"}
           Move1(t) == [token |-> t.id, node |-> t.node, scope |-> t.scope, via |-> t.via,
                        at |-> s.clock + t.id]
           x == s.tokens \ halted
           q == s.queue \union {Move1(t) : t \in halted}
           u == [s EXCEPT !.tokens = x, !.queue = q, !.clock = @ + s.nextToken]
<1>1. ResumeHalted(s) = u
  BY DEF ResumeHalted
<1>2. \A t : Move1(t).token = t.id /\ Move1(t).scope = t.scope
  OBVIOUS
<1>3. \A m : m \in q <=> m \in s.queue \/ \E t \in s.tokens : t.wait = "inflight" /\ m = Move1(t)
  OBVIOUS
<1>4. \A t : t \in x <=> t \in s.tokens /\ t.wait # "inflight"
  OBVIOUS
<1> HIDE DEF Move1, x, q
<1>5. Alike(u, s, {"tokens", "queue", "clock"}) /\ u.tokens = x /\ u.queue = q
  BY DEF Alike, Shaped, Fields
<1> HIDE DEF u
<1>6. u.nextToken = s.nextToken /\ u.status = s.status /\ Shaped(u)
  BY <1>5 DEF Alike, Fields
<1>7. Unique(u)
  <2>1. \A t, w \in u.tokens : t.id = w.id => t = w
    BY <1>4, <1>5 DEF Whole, Unique
  <2>2. \A m, k \in u.queue : m.token = k.token => m = k
    BY <1>2, <1>3, <1>5 DEF Whole, Unique
  <2>3. \A t \in u.tokens, m \in u.queue : t.id # m.token
    BY <1>2, <1>3, <1>4, <1>5 DEF Whole, Unique
  <2>4. \A m \in u.queue : m.token \in Nat /\ m.token < u.nextToken
    BY <1>2, <1>3, <1>5, <1>6 DEF Whole, Unique
  <2> QED  BY <1>4, <1>5, <1>6, <2>1, <2>2, <2>3, <2>4 DEF Whole, Unique
<1>8. Alike(u, s, {"status", "variables", "tokens", "queue", "nextIncident", "clock"})
  BY <1>5 DEF Alike
<1>9. \A t : t.wait \notin Collateral => (t \in u.tokens <=> t \in s.tokens)
  BY <1>4, <1>5 DEF Collateral
<1>10. \A y : IsEmpty(u, y) <=> IsEmpty(s, y)
  BY <1>2, <1>3, <1>4, <1>5 DEF IsEmpty
<1>11. Whole(u)
  BY <1>7, <1>8, <1>9, <1>10, Retagged
<1> QED  BY <1>1, <1>3, <1>4, <1>5, <1>6, <1>11

(* A freeze: the failing token, of scope x, is off its node or about to be.*)
LEMMA FreezeIsCoherent ==
    ASSUME NEW s, Shaped(s), NEW id, NEW x, Loose(s, id, x), Calm(s), NEW element
    PROVE  Coherent(Freeze(s, id, x, element))
<1> DEFINE a == WithdrawArms(s, id)
           b == CloseItem(a, id)
           c == CloseOwned(b, id)
           w == Unpark(c, id)
           v == Park(w, id, element, x, "incident", NoFlow)
           n == [id |-> id, node |-> element, scope |-> x, wait |-> "incident", via |-> NoFlow]
           y == {Halted(t) : t \in w.tokens} \union {InFlight(m) : m \in w.queue}
           h == [w EXCEPT !.tokens = y]
           p == Park(h, id, element, x, "incident", NoFlow)
           z == w.nextIncident + 1
           u == [p EXCEPT !.queue = {}, !.status = "failed", !.nextIncident = z, !.clock = 0]
<1>1. Alike(a, s, {"arms"}) /\ a.arms = {k \in s.arms : k.token # id}
  BY WithdrawArmsIs
<1> HIDE DEF a
<1>2. Alike(b, a, {"items"}) /\ b.items = {i \in a.items : i.token # id}
  BY <1>1, CloseItemIs DEF Alike
<1> HIDE DEF b
<1>3. /\ b.tokens = s.tokens /\ b.arms = a.arms /\ Shaped(b)
      /\ \A i : i \in b.items <=> i \in s.items /\ i.token # id
  BY <1>1, <1>2 DEF Alike, Fields
<1>4. Loose(b, id, x)
  <2>1. Touches(b, s, id)
    BY <1>1, <1>2, <1>3 DEF Touches, Alike, Fields
  <2>2. Counted(b)
    BY <1>1, <1>3 DEF Loose, Counted
  <2>3. \A t \in b.tokens : t.id = id => t.scope = x /\ DOMAIN t = TokenFields
    BY <1>3 DEF Loose, Unique
  <2>4. \A t, k \in b.tokens : t.id = id /\ k.id = id => t = k
    BY <1>3 DEF Loose, Unique
  <2> QED  BY <2>1, <2>2, <2>3, <2>4, Touched
<1>5. /\ Loose(c, id, x) /\ \A k \in c.scopes : k.token # id
      /\ Alike(c, b, {"queue", "tokens", "items", "arms", "scopes"})
      /\ c.tokens \subseteq b.tokens /\ c.items \subseteq b.items /\ c.arms \subseteq b.arms
  <2> DEFINE D == Subtree(b, {k.id : k \in {d \in b.scopes : d.token = id}})
  <2>1. D = Subtree(b, {k.id : k \in {d \in b.scopes : d.token = id}})
    OBVIOUS
  <2>2. Alike(b, b, {"status", "variables", "items", "nextIncident", "clock"})
    BY <1>3 DEF Alike
  <2> HIDE DEF D, c
  <2>3. b.items \subseteq b.items /\ \A i \in b.items \ b.items : ~Apart(b, D, i.token)
    OBVIOUS
  <2> QED  BY <1>3, <1>4, <2>1, <2>2, <2>3, ClosedIsLoose DEF c
<1> HIDE DEF c
<1>6. Shaped(c)
  BY <1>5 DEF Alike
<1>7. Alike(w, c, {"tokens"}) /\ w.tokens = {t \in c.tokens : t.id # id}
  BY <1>6, UnparkIs
<1> HIDE DEF w
<1>8. w.items = c.items /\ w.arms = c.arms /\ Shaped(w)
  BY <1>7 DEF Alike, Fields
<1>9. Loose(w, id, x) /\ Gone(w, id)
  <2>1. Touches(w, c, id)
    BY <1>7, <1>8 DEF Touches, Alike
  <2>2. \A i \in w.items : i.token # id
    BY <1>3, <1>5, <1>8
  <2>3. \A k \in w.arms : k.token # id
    BY <1>1, <1>3, <1>5, <1>8
  <2> QED  BY <1>5, <1>7, <2>1, <2>2, <2>3, AsideIsLoose
<1>10. Shaped(v) /\ Whole(v)
  BY <1>8, <1>9, RestIsWhole
<1>11. Alike(v, w, {"tokens"}) /\ v.tokens = w.tokens \union {n}
  BY <1>8, ParkIs
<1>12. Freeze(s, id, x, element) = u
  BY DEF Freeze, Park, Unpark, a, b, c, w
<1>13. \A t \in w.tokens : t.wait # "incident" /\ DOMAIN t = TokenFields
  BY <1>3, <1>5, <1>7, <1>9 DEF Calm, Loose, Unique
<1>14. ASSUME NEW t, DOMAIN t = TokenFields
       PROVE  /\ Halted(t).id = t.id /\ Halted(t).scope = t.scope
              /\ DOMAIN Halted(t) = TokenFields
              /\ t.wait = "decision" => Halted(t).wait = "awaiting"
              /\ t.wait # "decision" => Halted(t) = t
  <2>1. CASE t.wait = "decision"
    <3>1. Halted(t) = [t EXCEPT !.wait = "awaiting"]
      BY <2>1 DEF Halted
    <3> QED  BY <1>14, <2>1, <3>1 DEF TokenFields
  <2>2. CASE t.wait # "decision"
    BY <1>14, <2>2 DEF Halted
  <2> QED  BY <2>1, <2>2
<1>15. \A m : /\ InFlight(m).id = m.token /\ InFlight(m).scope = m.scope
              /\ InFlight(m).wait = "inflight" /\ DOMAIN InFlight(m) = TokenFields
  BY DEF InFlight, TokenFields
<1>16. \A t : t \in y <=> \/ \E k \in w.tokens : t = Halted(k)
                          \/ \E m \in w.queue : t = InFlight(m)
  OBVIOUS
<1>17. n.id = id /\ n.scope = x /\ n.wait = "incident" /\ DOMAIN n = TokenFields
  BY DEF TokenFields
<1> HIDE DEF y, v
<1>18. Alike(h, w, {"tokens"}) /\ h.tokens = y
  BY <1>8 DEF Alike, Shaped, Fields
<1> HIDE DEF h
<1>19. Alike(p, h, {"tokens"}) /\ p.tokens = y \union {n}
  BY <1>18, ParkIs DEF Alike
<1> HIDE DEF p, n, z
<1>20. /\ Alike(u, p, {"queue", "status", "nextIncident", "clock"})
       /\ u.queue = {} /\ u.status = "failed"
  BY <1>19 DEF Alike, Shaped, Fields
<1> HIDE DEF u
<1>21. Alike(u, v, {"status", "variables", "tokens", "queue", "nextIncident", "clock"})
  BY <1>11, <1>18, <1>19, <1>20 DEF Alike, Fields
<1>22. u.tokens = y \union {n} /\ v.queue = w.queue /\ u.nextToken = v.nextToken
  BY <1>11, <1>19, <1>20, <1>21 DEF Alike, Fields
<1>23. \A t : t \in u.tokens <=> \/ \E k \in w.tokens : t = Halted(k)
                                 \/ \E m \in w.queue : t = InFlight(m)
                                 \/ t = n
  BY <1>16, <1>22
<1>24. \A t : t.wait \notin Collateral => (t \in u.tokens <=> t \in v.tokens)
  BY <1>11, <1>13, <1>14, <1>15, <1>23 DEF Collateral
<1>25. \A k : IsEmpty(u, k) <=> IsEmpty(v, k)
  <2>1. \A k : IsEmpty(u, k) <=> /\ \A t \in w.tokens : t.scope # k
                                 /\ \A m \in w.queue : m.scope # k
                                 /\ x # k
    BY <1>13, <1>14, <1>15, <1>17, <1>20, <1>23 DEF IsEmpty
  <2>2. \A k : IsEmpty(v, k) <=> /\ \A t \in w.tokens : t.scope # k
                                 /\ \A m \in w.queue : m.scope # k
                                 /\ x # k
    BY <1>11, <1>17, <1>22 DEF IsEmpty
  <2> QED  BY <2>1, <2>2
<1>26. Unique(u)
  <2>1. /\ \A t, k \in w.tokens : t.id = k.id => t = k
        /\ \A m, k \in w.queue : m.token = k.token => m = k
        /\ \A t \in w.tokens, m \in w.queue : t.id # m.token
        /\ \A t \in w.tokens : t.id \in Nat /\ t.id < w.nextToken
        /\ \A m \in w.queue : m.token \in Nat /\ m.token < w.nextToken
        /\ w.nextToken \in Nat
    BY <1>9 DEF Loose, Unique
  <2>2. /\ \A t \in w.tokens : t.id # id
        /\ \A m \in w.queue : m.token # id
        /\ id \in Nat /\ id < w.nextToken
    BY <1>9 DEF Loose, Gone
  <2>3. u.nextToken = w.nextToken
    BY <1>11, <1>22 DEF Alike, Fields
  <2>4. ASSUME NEW t \in u.tokens, NEW k \in u.tokens, t.id = k.id
        PROVE  t = k
    BY <1>13, <1>14, <1>15, <1>17, <1>23, <2>1, <2>2, <2>4
  <2>5. \A t \in u.tokens : t.id \in Nat /\ t.id < u.nextToken /\ DOMAIN t = TokenFields
    BY <1>13, <1>14, <1>15, <1>17, <1>23, <2>1, <2>2, <2>3
  <2> QED  BY <1>20, <2>1, <2>3, <2>4, <2>5 DEF Unique
<1>27. Whole(u)
  BY <1>10, <1>21, <1>24, <1>25, <1>26, Retagged
<1>28. \A t \in u.tokens : t.wait # "decision" /\ (t.wait = "incident" => t = n)
  BY <1>13, <1>14, <1>15, <1>17, <1>23
<1>29. n \in u.tokens /\ n.wait = "incident"
  BY <1>17, <1>23
<1> QED  BY <1>12, <1>20, <1>27, <1>28, <1>29 DEF Coherent, Frozen

-----------------------------------------------------------------------------
(* No helper wakes a token or changes the status: u follows on s.          *)
Below(u, s) == Shaped(u) /\ u.status = s.status /\ u.tokens \subseteq s.tokens

LEMMA BelowIsAwake ==
    ASSUME NEW s, Awake(s), NEW u, Below(u, s)
    PROVE  Awake(u)
BY DEF Awake, Below

LEMMA AlikeIsBelow ==
    ASSUME NEW s, NEW F, "status" \notin F, "tokens" \notin F, NEW u, Alike(u, s, F)
    PROVE  Below(u, s) /\ u.tokens = s.tokens
BY DEF Below, Alike, Fields

LEMMA FewerIsBelow ==
    ASSUME NEW s, NEW F, "status" \notin F, NEW u, Alike(u, s, F), u.tokens \subseteq s.tokens
    PROVE  Below(u, s)
BY DEF Below, Alike, Fields

LEMMA BelowIsTransitive ==
    ASSUME NEW s, NEW u, NEW v, Below(u, s), Below(v, u)
    PROVE  Below(v, s)
BY DEF Below

LEMMA UnparkBelow ==
    ASSUME NEW s, Shaped(s), NEW id
    PROVE  Below(Unpark(s, id), s)
<1> DEFINE u == Unpark(s, id)
<1>1. Alike(u, s, {"tokens"}) /\ u.tokens \subseteq s.tokens
  BY UnparkIs
<1> HIDE DEF u
<1> QED  BY <1>1, FewerIsBelow DEF u

LEMMA WithdrawArmsBelow ==
    ASSUME NEW s, Shaped(s), NEW id
    PROVE  Below(WithdrawArms(s, id), s)
<1> DEFINE u == WithdrawArms(s, id)
<1>1. Alike(u, s, {"arms"})
  BY WithdrawArmsIs
<1> HIDE DEF u
<1> QED  BY <1>1, AlikeIsBelow DEF u

LEMMA CloseItemBelow ==
    ASSUME NEW s, Shaped(s), NEW id
    PROVE  Below(CloseItem(s, id), s)
<1> DEFINE u == CloseItem(s, id)
<1>1. Alike(u, s, {"items"})
  BY CloseItemIs
<1> HIDE DEF u
<1> QED  BY <1>1, AlikeIsBelow DEF u

LEMMA CloseOwnedBelow ==
    ASSUME NEW s, Shaped(s), NEW id
    PROVE  Below(CloseOwned(s, id), s)
<1> DEFINE D == Subtree(s, {c.id : c \in {d \in s.scopes : d.token = id}})
           u == CloseOwned(s, id)
<1>1. D = Subtree(s, {c.id : c \in {d \in s.scopes : d.token = id}})
  OBVIOUS
<1> HIDE DEF D, u
<1>2. /\ Alike(u, s, {"queue", "tokens", "items", "arms", "scopes"})
      /\ \A t : t \in u.tokens <=> t \in s.tokens /\ t.scope \notin D
  BY <1>1, CloseOwnedIs DEF u
<1>3. u.tokens \subseteq s.tokens
  BY <1>2
<1> QED  BY <1>2, <1>3, FewerIsBelow DEF u

LEMMA TearDownBelow ==
    ASSUME NEW s, Shaped(s), NEW roots
    PROVE  Below(TearDown(s, roots), s)
<1> DEFINE D == Subtree(s, roots)
           u == TearDown(s, roots)
<1>1. D = Subtree(s, roots) /\ u = TearDown(s, roots)
  OBVIOUS
<1> HIDE DEF D, u
<1>2. /\ Alike(u, s, {"queue", "tokens", "items", "arms", "scopes"})
      /\ \A t : t \in u.tokens <=> t \in s.tokens /\ t.scope \notin D
  BY <1>1, TearDownIs
<1>3. u.tokens \subseteq s.tokens
  BY <1>2
<1> QED  BY <1>2, <1>3, FewerIsBelow DEF u

LEMMA GoBelow ==
    ASSUME NEW s, Shaped(s), NEW id, NEW node, NEW scope, NEW via
    PROVE  Below(Go(s, id, node, scope, via), s) /\ Go(s, id, node, scope, via).queue # {}
<1> DEFINE u == Go(s, id, node, scope, via)
<1>1. Alike(u, s, {"queue", "clock"})
  BY GoIs
<1>a. PICK m : m.token = id /\ m.scope = scope /\ u.queue = s.queue \union {m}
  BY GoIs
<1> HIDE DEF u
<1>2. u.queue # {}
  BY <1>a
<1> QED  BY <1>1, <1>2, AlikeIsBelow DEF u

LEMMA LeaveBelow ==
    ASSUME NEW s, Shaped(s), NEW id, NEW node, NEW scope
    PROVE  Below(Leave(s, id, node, scope), s) /\ Leave(s, id, node, scope).queue # {}
BY GoBelow DEF Leave

LEMMA LeaveFreshBelow ==
    ASSUME NEW s, Shaped(s), NEW node, NEW scope
    PROVE  Below(LeaveFresh(s, node, scope), s) /\ LeaveFresh(s, node, scope).queue # {}
<1> DEFINE r == [s EXCEPT !.nextToken = @ + 1]
<1>1. Below(r, s)
  BY DEF Below, Shaped, Fields
<1>2. LeaveFresh(s, node, scope) = Leave(r, s.nextToken, node, scope)
  BY DEF LeaveFresh
<1> HIDE DEF r
<1>3. Shaped(r)
  BY <1>1 DEF Below
<1> QED  BY <1>1, <1>2, <1>3, LeaveBelow, BelowIsTransitive

LEMMA SplitBelow ==
    ASSUME NEW s, Shaped(s), NEW node \in Node, NEW scope, Outgoing[node] # << >>
    PROVE  Below(Split(s, node, scope), s) /\ Split(s, node, scope).queue # {}
<1> DEFINE out == Outgoing[node]
           at  == IF s.queue = {} THEN 0 ELSE s.clock
           Of(i) == [token |-> s.nextToken + i - 1, node |-> Target[out[i]], scope |-> scope,
                     via |-> out[i], at |-> at + i - 1]
           q   == s.queue \union {Of(i) : i \in DOMAIN out}
           u   == [s EXCEPT !.queue = q, !.nextToken = @ + Len(out), !.clock = at + Len(out)]
<1>1. Split(s, node, scope) = u
  BY DEF Split
<1>2. 1 \in DOMAIN out
  BY GraphTyped
<1>3. Of(1) \in q
  BY <1>2
<1> HIDE DEF q, out, at, Of
<1>4. Below(u, s) /\ u.queue = q
  BY DEF Below, Shaped, Fields
<1> QED  BY <1>1, <1>3, <1>4

LEMMA CompleteScopeBelow ==
    ASSUME NEW s, Shaped(s), NEW c
    PROVE  Below(CompleteScope(s, c), s) /\ CompleteScope(s, c).queue # {}
<1> DEFINE r == [s EXCEPT !.scopes = {d \in @ : d.id # c.id}]
           v == WithdrawArms(r, c.token)
           w == Unpark(v, c.token)
<1>1. CompleteScope(s, c) = Leave(w, c.token, c.element, c.parent)
  BY DEF CompleteScope
<1>2. Below(r, s)
  BY DEF Below, Shaped, Fields
<1> HIDE DEF r
<1>3. Below(v, r)
  BY <1>2, WithdrawArmsBelow DEF Below
<1> HIDE DEF v
<1>4. Below(w, v)
  BY <1>3, UnparkBelow DEF Below
<1> HIDE DEF w
<1>5. Below(Leave(w, c.token, c.element, c.parent), w)
      /\ Leave(w, c.token, c.element, c.parent).queue # {}
  BY <1>4, LeaveBelow DEF Below
<1> QED  BY <1>1, <1>2, <1>3, <1>4, <1>5, BelowIsTransitive

LEMMA InterruptBelow ==
    ASSUME NEW s, Shaped(s), NEW t, NEW b
    PROVE  Below(Interrupt(s, t, b), s) /\ Interrupt(s, t, b).queue # {}
<1> DEFINE r == Unpark(s, t.id)
           v == CloseOwned(r, t.id)
           w == WithdrawArms(v, t.id)
<1>1. Interrupt(s, t, b) = Leave(w, t.id, b, t.scope)
  BY DEF Interrupt
<1>2. Below(r, s)
  BY UnparkBelow
<1> HIDE DEF r
<1>3. Below(v, r)
  BY <1>2, CloseOwnedBelow DEF Below
<1> HIDE DEF v
<1>4. Below(w, v)
  BY <1>3, WithdrawArmsBelow DEF Below
<1> HIDE DEF w
<1>5. Below(Leave(w, t.id, b, t.scope), w) /\ Leave(w, t.id, b, t.scope).queue # {}
  BY <1>4, LeaveBelow DEF Below
<1> QED  BY <1>1, <1>2, <1>3, <1>4, <1>5, BelowIsTransitive

LEMMA ParkAwake ==
    ASSUME NEW s, Shaped(s), Awake(s), NEW id, NEW node, NEW scope, NEW wait, NEW via,
           wait \notin {"incident", "inflight"}
    PROVE  Awake(Park(s, id, node, scope, wait, via))
<1> DEFINE t == [id |-> id, node |-> node, scope |-> scope, wait |-> wait, via |-> via]
           u == Park(s, id, node, scope, wait, via)
<1>1. Alike(u, s, {"tokens"}) /\ u.tokens = s.tokens \union {t}
  BY ParkIs
<1>2. t.wait = wait
  OBVIOUS
<1> HIDE DEF t, u
<1>3. Awake(u)
  BY <1>1, <1>2 DEF Awake, Alike, Fields
<1> QED  BY <1>3 DEF u

LEMMA BecomesCoherent ==
    ASSUME NEW u, Coherent(u), Becomes(u)
    PROVE  Coherent(Now)'
<1> DEFINE n == Now'
<1>1. /\ n.status = u.status /\ n.tokens = u.tokens /\ n.items = u.items /\ n.arms = u.arms
      /\ n.scopes = u.scopes /\ n.queue = u.queue
      /\ n.nextToken = u.nextToken /\ n.nextScope = u.nextScope
  BY DEF Now, Becomes
<1> HIDE DEF n
<1>2. Whole(u) /\ Frozen(u)
  BY DEF Coherent
<1>3. Open(n) = Open(u)
  BY <1>1 DEF Open, ScopeIds
<1>4. Unique(n) /\ Nested(n) /\ Counted(n)
  BY <1>1, <1>2, <1>3 DEF Whole, Unique, Nested, Counted
<1>5. \A c \in n.scopes : Parented(n, c) /\ ~IsEmpty(n, c.id)
  BY <1>1, <1>2 DEF Whole, Parented, IsEmpty
<1>6. \A i \in n.items : Worked(n, i)
  BY <1>1, <1>2 DEF Whole, Worked
<1>7. \A a \in n.arms : HeldArm(n, a)
  BY <1>1, <1>2 DEF Whole, HeldArm
<1>8. \A t \in n.tokens : Owns(n, t) /\ CanEnd(n, t)
  BY <1>1, <1>2, SameWaits DEF Whole
<1>9. Frozen(n)
  BY <1>1, <1>2 DEF Frozen
<1>10. Coherent(n)
  BY <1>4, <1>5, <1>6, <1>7, <1>8, <1>9 DEF Coherent, Whole
<1> QED  BY <1>10 DEF n

-----------------------------------------------------------------------------
(* A parked token arms what its node arms, each once.                      *)

LEMMA ArmedIsLoose ==
    ASSUME NEW s, Shaped(s), NEW t \in s.tokens, t.node \in Node, Holding(t),
           Loose(s, t.id, t.scope), \A a \in s.arms : a.token # t.id
    PROVE  LET u == ArmAll(s, ArmedAt(t.node), t.id)
           IN  /\ Alike(u, s, {"arms"}) /\ Loose(u, t.id, t.scope)
               /\ \A a \in u.arms : a.token = t.id => HeldArm(u, a)
               /\ \A el \in Range(ArmedAt(t.node)) : ArmedOnce(u, t.id, el)
<1> DEFINE id  == t.id
           els == ArmedAt(t.node)
           For(el) == ArmFor(el, id, s.variables)
           new == {For(els[j]) : j \in 1 .. Len(els)}
           u   == ArmAll(s, els, id)
<1>1. Alike(u, s, {"arms"}) /\ u.arms = s.arms \union new
  BY ArmAllIs
<1>2. els \in Seq(Arm)
  BY ArmedAtArms
<1>3. \A a : a \in new <=> \E el \in Range(els) : a = For(el)
  BY <1>2 DEF Range
<1>4. \A el \in Range(els) : Repeats[el] \in Nat
  BY <1>2, GraphTyped DEF Range, Arm, TimerArm, MessageArm, Nodes
<1>5. \A el : For(el).token = id /\ For(el).element = el /\ For(el).left = Repeats[el]
  BY DEF ArmFor
<1> HIDE DEF u, new, For
<1>6. u.tokens = s.tokens /\ u.items = s.items
  BY <1>1 DEF Alike, Fields
<1>7. Counted(u)
  <2>1. \A a \in s.arms : a.left \in Nat /\ (a.left = 0 <=> Repeats[a.element] = 0)
    BY DEF Loose, Counted
  <2>2. \A a \in new : a.left \in Nat /\ (a.left = 0 <=> Repeats[a.element] = 0)
    BY <1>3, <1>4, <1>5
  <2> QED  BY <1>1, <2>1, <2>2 DEF Counted
<1>8. Touches(u, s, id)
  BY <1>1, <1>3, <1>5, <1>6 DEF Touches, Alike
<1>9. Loose(u, id, t.scope)
  <2>1. \A w \in u.tokens : w.id = id => w.scope = t.scope /\ DOMAIN w = TokenFields
    BY <1>6 DEF Loose, Unique
  <2>2. \A w, k \in u.tokens : w.id = id /\ k.id = id => w = k
    BY <1>6 DEF Loose, Unique
  <2> QED  BY <1>7, <1>8, <2>1, <2>2, Touched
<1>10. \A a \in u.arms : a.token = id => a \in new
  BY <1>1
<1>11. \A a \in new : HeldArm(u, a)
  BY <1>3, <1>5, <1>6 DEF HeldArm
<1>12. ASSUME NEW el \in Range(els)
       PROVE  ArmedOnce(u, id, el)
  <2>1. For(el) \in u.arms
    BY <1>1, <1>3
  <2>2. \A a \in u.arms : a.token = id /\ a.element = el => a = For(el)
    BY <1>3, <1>5, <1>10
  <2>3. For(el) \in {a \in u.arms : a.token = id /\ a.element = el}
    BY <1>5, <2>1
  <2> QED  BY <2>2, <2>3 DEF ArmedOnce
<1> QED  BY <1>1, <1>9, <1>10, <1>11, <1>12 DEF u

LEMMA ArmOrFreezeIsCoherent ==
    ASSUME NEW s, Shaped(s), Awake(s), NEW t \in s.tokens, t.node \in Node, Holding(t),
           t.wait # "scope", Loose(s, t.id, t.scope), \A a \in s.arms : a.token # t.id,
           \A c \in s.scopes : c.token # t.id,
           \A i \in s.items : i.token = t.id => Worked(s, i),
           t.wait = "workitem" => \E i \in s.items : i.token = t.id /\ i.element = t.node,
           ArmOrFreeze(s, t.id, t.scope, ArmedAt(t.node))
    PROVE  Coherent(Now)'
<1> DEFINE els == ArmedAt(t.node)
           u   == ArmAll(s, els, t.id)
<1>1. CASE Becomes(Settle(u))
  <2>1. /\ Alike(u, s, {"arms"}) /\ Loose(u, t.id, t.scope)
        /\ \A a \in u.arms : a.token = t.id => HeldArm(u, a)
        /\ \A el \in Range(els) : ArmedOnce(u, t.id, el)
    BY ArmedIsLoose
  <2> HIDE DEF u
  <2>2. u.tokens = s.tokens /\ u.items = s.items /\ u.scopes = s.scopes /\ Shaped(u)
    BY <2>1 DEF Alike, Fields
  <2>3. \A i \in u.items : i.token = t.id => Worked(u, i)
    BY <2>2 DEF Worked
  <2>4. Owns(u, t) /\ CanEnd(u, t)
    BY <2>1, <2>2 DEF Owns, CanEnd
  <2>5. Whole(u)
    BY <2>1, <2>2, <2>3, <2>4, LooseIsWhole
  <2>6. Awake(u)
    BY <2>1, AlikeIsBelow, BelowIsAwake
  <2>7. Coherent(Settle(u))
    BY <2>2, <2>5, <2>6, SettleIsCoherent
  <2> QED  BY <1>1, <2>7, BecomesCoherent
<1>2. CASE \E k \in DOMAIN els : Becomes(Freeze(s, t.id, t.scope, els[k]))
  <2>1. PICK k \in DOMAIN els : Becomes(Freeze(s, t.id, t.scope, els[k]))
    BY <1>2
  <2>2. Coherent(Freeze(s, t.id, t.scope, els[k]))
    BY FreezeIsCoherent DEF Awake, Calm
  <2> QED  BY <2>1, <2>2, BecomesCoherent
<1> QED  BY <1>1, <1>2 DEF ArmOrFreeze

LEMMA ConsumedIsCoherent ==
    ASSUME NEW s, Shaped(s), Awake(s), NEW x, NEW id, Loose(s, id, x), Gone(s, id),
           Consumed(s, x)
    PROVE  Coherent(Now)'
<1>1. CASE (x = Root \/ ~IsEmpty(s, x)) /\ Becomes(Settle(s))
  <2>1. Whole(s)
    BY <1>1, ConsumedIsWhole
  <2>2. Coherent(Settle(s))
    BY <2>1, SettleIsCoherent
  <2> QED  BY <1>1, <2>2, BecomesCoherent
<1>2. CASE \E c \in s.scopes : c.id = x /\ IsEmpty(s, x) /\ Becomes(CompleteScope(s, c))
  <2>1. PICK c \in s.scopes : c.id = x /\ IsEmpty(s, x) /\ Becomes(CompleteScope(s, c))
    BY <1>2
  <2>2. Vacant(s, c.id)
    BY <2>1, GoneIsVacant
  <2>3. Whole(CompleteScope(s, c))
    BY <2>1, <2>2, CompleteScopeIsWhole
  <2>4. Awake(CompleteScope(s, c)) /\ CompleteScope(s, c).queue # {}
    BY CompleteScopeBelow, BelowIsAwake
  <2> QED  BY <2>1, <2>3, <2>4, MovingIsCoherent, BecomesCoherent
<1> QED  BY <1>1, <1>2 DEF Consumed

LEMMA MoveIsCoherent ==
    ASSUME NEW s, Awake(s), NEW u, Below(u, s), u.queue # {}, Whole(u), Becomes(u)
    PROVE  Coherent(Now)'
BY BelowIsAwake, MovingIsCoherent, BecomesCoherent

-----------------------------------------------------------------------------
(* One lemma per group of actions, as for Stable.                          *)

LEMMA ActiveIsAwake ==
    ASSUME Coherent(Now), status = "active"
    PROVE  Shaped(Now) /\ Awake(Now) /\ Whole(Now)
<1>1. Now.status = status /\ Shaped(Now)
  BY DEF Now, Shaped, Fields
<1> QED  BY <1>1 DEF Coherent, Frozen, Awake

LEMMA TakenIs ==
    ASSUME Good(Now), Coherent(Now), status = "active", NEW m \in queue
    PROVE  /\ Shaped(Taken(m)) /\ Awake(Taken(m))
           /\ Loose(Taken(m), m.token, m.scope) /\ Gone(Taken(m), m.token)
<1> DEFINE s == Now
           u == Taken(m)
<1>1. s.queue = queue /\ Shaped(s) /\ Awake(s) /\ Whole(s)
  BY ActiveIsAwake, NowFields
<1> HIDE DEF s
<1>2. Alike(u, s, {"queue"}) /\ u.queue = s.queue \ {m}
  BY <1>1 DEF Taken, Alike, Shaped, Fields, s
<1> HIDE DEF u
<1>3. Below(u, s)
  BY <1>2, AlikeIsBelow
<1>4. Loose(u, m.token, m.scope) /\ Gone(u, m.token)
  BY <1>1, <1>2, TakenIsLoose
<1> QED  BY <1>1, <1>3, <1>4, BelowIsAwake DEF Below, u

LEMMA TerminateIsCoherent ==
    ASSUME NEW s, Shaped(s), Unique(s), Nested(s)
    PROVE  Coherent(Terminate(s))
<1> DEFINE u == Terminate(s)
<1>1. /\ u.status = "terminated" /\ u.tokens = {} /\ u.items = {} /\ u.arms = {}
      /\ u.scopes = {} /\ u.queue = {}
      /\ u.nextToken = s.nextToken /\ u.nextScope = s.nextScope
  BY DEF Terminate, Shaped, Fields
<1> HIDE DEF u
<1>2. Unique(u) /\ Nested(u) /\ Counted(u)
  BY <1>1 DEF Unique, Nested, Counted
<1>3. Whole(u) /\ Frozen(u)
  BY <1>1, <1>2 DEF Whole, Frozen
<1> QED  BY <1>3 DEF Coherent, u

LEMMA EnterTaskCoherent ==
    ASSUME Good(Now), Coherent(Now), NEW m \in queue, EnterTask(m)
    PROVE  Coherent(Now)'
<1> DEFINE s == Taken(m)
           p == Park(s, m.token, m.node, m.scope, "workitem", NoFlow)
           t == [id |-> m.token, node |-> m.node, scope |-> m.scope,
                 wait |-> "workitem", via |-> NoFlow]
           i == [token |-> m.token, element |-> m.node]
           o == [p EXCEPT !.items = @ \union {i}]
<1>1. status = "active" /\ ArmOrFreeze(o, m.token, m.scope, ArmedAt(m.node))
  BY DEF EnterTask, Enters
<1>2. /\ Shaped(s) /\ Awake(s) /\ Loose(s, m.token, m.scope) /\ Gone(s, m.token)
      /\ m.node \in Node
  BY <1>1, TakenIs, TakenGood
<1> HIDE DEF s
<1>3. Alike(p, s, {"tokens"}) /\ p.tokens = s.tokens \union {t}
  BY <1>2, ParkIs
<1>4. Shaped(p) /\ Loose(p, m.token, m.scope) /\ Awake(p)
  BY <1>2, ParkIsLoose, ParkAwake DEF Gone
<1>5. t.id = m.token /\ t.node = m.node /\ t.scope = m.scope /\ t.wait = "workitem"
  OBVIOUS
<1>6. i.token = m.token /\ i.element = m.node
  OBVIOUS
<1> HIDE DEF p, t, i
<1>7. Alike(o, p, {"items"}) /\ o.items = p.items \union {i}
  BY <1>4 DEF Alike, Shaped, Fields
<1> HIDE DEF o
<1>8. /\ o.tokens = p.tokens /\ o.arms = s.arms /\ o.scopes = s.scopes
      /\ o.items = s.items \union {i} /\ Shaped(o)
  BY <1>3, <1>7 DEF Alike, Fields
<1>9. Awake(o)
  BY <1>4, <1>7, AlikeIsBelow, BelowIsAwake
<1>10. Loose(o, m.token, m.scope)
  <2>1. Touches(o, p, m.token)
    BY <1>6, <1>7, <1>8 DEF Touches, Alike, Fields
  <2>2. Counted(o)
    BY <1>4, <1>7 DEF Loose, Counted, Alike, Fields
  <2>3. \A w \in o.tokens : w.id = m.token => w.scope = m.scope /\ DOMAIN w = TokenFields
    BY <1>4, <1>8 DEF Loose, Unique
  <2>4. \A w, k \in o.tokens : w.id = m.token /\ k.id = m.token => w = k
    BY <1>4, <1>8 DEF Loose, Unique
  <2> QED  BY <1>4, <2>1, <2>2, <2>3, <2>4, Touched
<1>11. t \in o.tokens /\ i \in o.items
  BY <1>3, <1>8
<1>12. \A k \in o.items : k.token = t.id => Worked(o, k)
  BY <1>2, <1>5, <1>6, <1>8, <1>11 DEF Gone, Worked
<1>13. /\ \A a \in o.arms : a.token # t.id
       /\ \A c \in o.scopes : c.token # t.id
  BY <1>2, <1>5, <1>8 DEF Gone
<1>14. Holding(t) /\ t.wait # "scope"
  BY <1>5 DEF Holding
<1> QED
  BY <1>1, <1>2, <1>5, <1>6, <1>8, <1>9, <1>10, <1>11, <1>12, <1>13, <1>14,
     ArmOrFreezeIsCoherent

LEMMA EnterCatchCoherent ==
    ASSUME Good(Now), Coherent(Now), NEW m \in queue, EnterCatch(m)
    PROVE  Coherent(Now)'
<1>1. PICK kind \in {"timer", "message", "eventgateway"} :
        /\ Enters(m, kind)
        /\ ArmOrFreeze(Park(Taken(m), m.token, m.node, m.scope, kind, NoFlow),
                       m.token, m.scope, ArmedAt(m.node))
  BY DEF EnterCatch
<1> DEFINE s == Taken(m)
           p == Park(s, m.token, m.node, m.scope, kind, NoFlow)
           t == [id |-> m.token, node |-> m.node, scope |-> m.scope,
                 wait |-> kind, via |-> NoFlow]
<1>2. /\ Shaped(s) /\ Awake(s) /\ Loose(s, m.token, m.scope) /\ Gone(s, m.token)
      /\ m.node \in Node
  BY <1>1, TakenIs, TakenGood DEF Enters
<1>3. ArmOrFreeze(p, m.token, m.scope, ArmedAt(m.node))
  BY <1>1
<1> HIDE DEF s
<1>4. Alike(p, s, {"tokens"}) /\ p.tokens = s.tokens \union {t}
  BY <1>2, ParkIs
<1>5. Shaped(p) /\ Loose(p, m.token, m.scope) /\ Awake(p)
  BY <1>2, ParkIsLoose, ParkAwake DEF Gone
<1>6. t.id = m.token /\ t.node = m.node /\ t.scope = m.scope /\ t.wait = kind
  OBVIOUS
<1> HIDE DEF p, t
<1>7. p.items = s.items /\ p.arms = s.arms /\ p.scopes = s.scopes /\ t \in p.tokens
  BY <1>4 DEF Alike, Fields
<1>8. /\ \A a \in p.arms : a.token # t.id
      /\ \A c \in p.scopes : c.token # t.id
      /\ \A i \in p.items : i.token # t.id
  BY <1>2, <1>6, <1>7 DEF Gone
<1>9. Holding(t) /\ t.wait # "scope" /\ t.wait # "workitem"
  BY <1>6 DEF Holding
<1> QED  BY <1>2, <1>3, <1>5, <1>6, <1>7, <1>8, <1>9, ArmOrFreezeIsCoherent

LEMMA EnterSubProcessCoherent ==
    ASSUME Good(Now), Coherent(Now), NEW m \in queue, EnterSubProcess(m)
    PROVE  Coherent(Now)'
<1> DEFINE s == Taken(m)
           p == Park(s, m.token, m.node, m.scope, "scope", NoFlow)
           t == [id |-> m.token, node |-> m.node, scope |-> m.scope,
                 wait |-> "scope", via |-> NoFlow]
           child == [id |-> nextScope, element |-> m.node, parent |-> m.scope,
                     token |-> m.token]
           o     == [p EXCEPT !.scopes = @ \union {child}, !.nextScope = @ + 1]
           els   == ArmedAt(m.node)
           armed == ArmAll(o, els, m.token)
           k1    == armed.nextToken
           fresh == [armed EXCEPT !.nextToken = @ + 1]
           u     == Go(fresh, k1, BodyStart[m.node], nextScope, NoFlow)
<1>1. status = "active"
  BY DEF EnterSubProcess, Enters
<1>2. Becomes(u) \/ \E k \in DOMAIN els : Becomes(Freeze(o, m.token, m.scope, els[k]))
  BY Zenon DEF EnterSubProcess
<1>3. /\ Shaped(s) /\ Awake(s) /\ Loose(s, m.token, m.scope) /\ Gone(s, m.token)
      /\ m.node \in Node
  BY <1>1, TakenIs, TakenGood
<1>4. s.nextScope = nextScope
  BY DEF Taken, Now
<1> HIDE DEF s
<1>5. Alike(p, s, {"tokens"}) /\ p.tokens = s.tokens \union {t}
  BY <1>3, ParkIs
<1>6. Shaped(p) /\ Loose(p, m.token, m.scope) /\ Awake(p)
  BY <1>3, ParkIsLoose, ParkAwake DEF Gone
<1>7. t.id = m.token /\ t.node = m.node /\ t.scope = m.scope /\ t.wait = "scope"
  OBVIOUS
<1>8. /\ child.id = nextScope /\ child.element = m.node
      /\ child.parent = m.scope /\ child.token = m.token
  OBVIOUS
<1> HIDE DEF p, t, child
<1>9. /\ p.items = s.items /\ p.arms = s.arms /\ p.scopes = s.scopes
      /\ p.nextScope = nextScope
  BY <1>4, <1>5 DEF Alike, Fields
<1>10. /\ Alike(o, p, {"scopes", "nextScope"}) /\ o.scopes = p.scopes \union {child}
       /\ o.nextScope = p.nextScope + 1
  BY <1>6 DEF Alike, Shaped, Fields
<1> HIDE DEF o
<1>11. Loose(o, m.token, m.scope)
  BY <1>3, <1>6, <1>8, <1>9, <1>10, ChildIsLoose DEF Gone
<1>12. /\ o.tokens = p.tokens /\ o.items = s.items /\ o.arms = s.arms
       /\ o.scopes = s.scopes \union {child} /\ Shaped(o)
  BY <1>9, <1>10 DEF Alike, Fields
<1>13. Awake(o)
  BY <1>6, <1>10, AlikeIsBelow, BelowIsAwake
<1>14. CASE Becomes(u)
  <2>1. t \in o.tokens /\ Holding(t) /\ \A a \in o.arms : a.token # t.id
    BY <1>3, <1>5, <1>7, <1>12 DEF Gone, Holding
  <2>2. /\ Alike(armed, o, {"arms"}) /\ Loose(armed, m.token, m.scope)
        /\ \A a \in armed.arms : a.token = m.token => HeldArm(armed, a)
        /\ \A el \in Range(els) : ArmedOnce(armed, m.token, el)
    BY <1>3, <1>7, <1>11, <1>12, <2>1, ArmedIsLoose
  <2> HIDE DEF armed
  <2>3. /\ armed.tokens = o.tokens /\ armed.items = o.items /\ armed.scopes = o.scopes
        /\ Shaped(armed)
    BY <2>2 DEF Alike, Fields
  <2>4. Alike(fresh, armed, {"nextToken"}) /\ fresh.nextToken = armed.nextToken + 1
    BY <2>3 DEF Alike, Shaped, Fields
  <2> HIDE DEF fresh
  <2>5. Shaped(fresh) /\ fresh.queue = armed.queue
    BY <2>4 DEF Alike, Fields
  <2>6. Alike(u, fresh, {"queue", "clock"})
    BY <2>5, GoIs
  <2>7. PICK j : j.token = k1 /\ j.scope = nextScope /\ u.queue = fresh.queue \union {j}
    BY <2>5, GoIs
  <2>8. Below(u, fresh) /\ u.queue # {}
    BY <2>5, GoBelow
  <2> HIDE DEF u
  <2>9. Alike(u, armed, {"queue", "nextToken", "clock"}) /\ u.nextToken = armed.nextToken + 1
        /\ u.queue = armed.queue \union {j}
    BY <2>4, <2>5, <2>6, <2>7 DEF Alike, Fields
  <2>10. nextScope \in Open(armed)
    BY <1>8, <1>12, <2>3 DEF Open, ScopeIds
  <2>11. Loose(u, m.token, m.scope)
    BY <2>2, <2>7, <2>9, <2>10, SentIsLoose
  <2>12. /\ u.tokens = o.tokens /\ u.items = s.items /\ u.arms = armed.arms
         /\ u.scopes = s.scopes \union {child}
    BY <1>12, <2>3, <2>9 DEF Alike, Fields
  <2>13. Owns(u, t)
    BY <1>7, <1>8, <2>12 DEF Owns
  <2>14. CanEnd(u, t)
    BY <1>7, <2>2, <2>12 DEF CanEnd, ArmedOnce
  <2>15. ASSUME NEW c \in u.scopes, c.token = t.id
         PROVE  Parented(u, c) /\ ~IsEmpty(u, c.id)
    <3>1. c = child
      BY <1>3, <1>7, <2>12, <2>15 DEF Gone
    <3>2. j \in u.queue /\ j.scope = child.id
      BY <1>8, <2>7, <2>9
    <3>3. t \in u.tokens
      BY <2>1, <2>12
    <3> QED  BY <1>7, <1>8, <3>1, <3>2, <3>3 DEF Parented, IsEmpty
  <2>16. \A i \in u.items : i.token # t.id
    BY <1>3, <1>7, <2>12 DEF Gone
  <2>17. \A a \in u.arms : a.token = t.id => HeldArm(u, a)
    BY <1>7, <2>2, <2>3, <2>12 DEF HeldArm
  <2>18. Whole(u)
    BY <1>7, <2>1, <2>11, <2>12, <2>13, <2>14, <2>15, <2>16, <2>17, LooseIsWhole
  <2>19. Awake(u)
    BY <1>13, <2>2, <2>4, <2>8, AlikeIsBelow, BelowIsAwake, BelowIsTransitive
  <2> QED  BY <1>14, <2>8, <2>18, <2>19, MovingIsCoherent, BecomesCoherent
<1>15. CASE \E k \in DOMAIN els : Becomes(Freeze(o, m.token, m.scope, els[k]))
  <2>1. PICK k \in DOMAIN els : Becomes(Freeze(o, m.token, m.scope, els[k]))
    BY <1>15
  <2>2. Coherent(Freeze(o, m.token, m.scope, els[k]))
    BY <1>11, <1>12, <1>13, FreezeIsCoherent DEF Awake, Calm
  <2> QED  BY <2>1, <2>2, BecomesCoherent
<1> QED  BY <1>2, <1>14, <1>15

LEMMA EnterJoinCoherent ==
    ASSUME Good(Now), Coherent(Now), NEW m \in queue, EnterJoin(m)
    PROVE  Coherent(Now)'
<1> DEFINE s == Taken(m)
<1>1. status = "active" /\ (JoinParks(m) \/ JoinFires(m))
  BY DEF EnterJoin, Enters
<1>2. /\ Shaped(s) /\ Awake(s) /\ Loose(s, m.token, m.scope) /\ Gone(s, m.token)
      /\ s.tokens = tokens
  BY <1>1, TakenIs, TakenGood
<1>3. CASE JoinParks(m)
  <2> DEFINE p == Park(s, m.token, m.node, m.scope, "join", m.via)
  <2>1. Becomes(Settle(p))
    BY <1>3 DEF JoinParks
  <2> HIDE DEF s
  <2>2. Shaped(p) /\ Whole(p) /\ Awake(p)
    BY <1>2, RestIsWhole, ParkAwake
  <2> QED  BY <2>1, <2>2, SettleIsCoherent, BecomesCoherent
<1>4. CASE JoinFires(m)
  <2> DEFINE r == [s EXCEPT !.tokens = @ \ Arrived(m)]
             u == LeaveFresh(r, m.node, m.scope)
  <2>1. Becomes(u)
    BY <1>4 DEF JoinFires
  <2>2. \A t \in Arrived(m) : t.wait = "join" /\ t.scope = m.scope
    BY DEF Arrived
  <2> HIDE DEF s
  <2>3. Alike(r, s, {"tokens"}) /\ r.tokens = s.tokens \ Arrived(m)
    BY <1>2 DEF Alike, Shaped, Fields
  <2> HIDE DEF r
  <2>4. Vacant(r, m.scope)
    BY <1>2, <2>2, <2>3, MergedIsVacant
  <2>5. Below(r, s)
    BY <2>3, FewerIsBelow
  <2>6. Whole(u) /\ Below(u, r) /\ u.queue # {}
    BY <2>4, <2>5, LeaveFreshIsWhole, LeaveFreshBelow DEF Below
  <2> QED  BY <1>2, <2>1, <2>5, <2>6, BelowIsTransitive, MoveIsCoherent
<1> QED  BY <1>1, <1>3, <1>4

LEMMA EnterCoherent ==
    ASSUME Good(Now), Coherent(Now), NEW m \in queue, Enter(m)
    PROVE  Coherent(Now)'
<1> DEFINE s == Taken(m)
<1>1. status = "active"
  BY DEF Enter, EnterStart, EnterRule, EnterTask, EnterCatch, EnterSubProcess, EnterExclusive,
         EnterSplit, EnterJoin, EnterEnd, EnterTerminate, Enters
<1>2. /\ Shaped(s) /\ Awake(s) /\ Loose(s, m.token, m.scope) /\ Gone(s, m.token)
      /\ s.scopes = scopes /\ m.node \in Node
  BY <1>1, TakenIs, TakenGood
<1> HIDE DEF s
<1>3. CASE EnterStart(m)
  <2>1. Becomes(Leave(s, m.token, m.node, m.scope))
    BY <1>3 DEF EnterStart, s
  <2> QED  BY <1>2, <2>1, LeaveIsWhole, LeaveBelow, MoveIsCoherent
<1>4. CASE EnterRule(m)
  <2> DEFINE p == Park(s, m.token, m.node, m.scope, "decision", NoFlow)
  <2>1. Becomes(Settle(p))
    BY <1>4 DEF EnterRule, s
  <2>2. Shaped(p) /\ Whole(p) /\ Awake(p)
    BY <1>2, RestIsWhole, ParkAwake
  <2> QED  BY <2>1, <2>2, SettleIsCoherent, BecomesCoherent
<1>5. CASE EnterExclusive(m)
  <2>1. PICK i \in DOMAIN Outgoing[m.node] :
          LET flow == Outgoing[m.node][i]
          IN  Becomes(Go(s, m.token, Target[flow], m.scope, flow))
    BY <1>5 DEF EnterExclusive, s
  <2> QED  BY <1>2, <2>1, GoIsWhole, GoBelow, MoveIsCoherent
<1>6. CASE EnterSplit(m)
  <2> DEFINE u == Split(s, m.node, m.scope)
  <2>1. Becomes(u) /\ Outgoing[m.node] # << >>
    <3>1. Becomes(u) /\ Kind[m.node] = "parallel" /\ ~IsJoin(m.node)
      BY <1>6 DEF EnterSplit, Enters, s
    <3>2. Len(<< >>) = 0
      OBVIOUS
    <3> QED  BY <1>2, <3>1, <3>2, OneWayOn
  <2>2. Whole(u)
    BY <1>2, <2>1, GoneIsVacant, SplitIsWhole
  <2>3. Below(u, s) /\ u.queue # {}
    BY <1>2, <2>1, SplitBelow
  <2> QED  BY <1>2, <2>1, <2>2, <2>3, MoveIsCoherent
<1>7. CASE EnterEnd(m)
  BY <1>2, <1>7, ConsumedIsCoherent DEF EnterEnd, s
<1>8. CASE EnterTerminate(m)
  <2>1. CASE Becomes(Terminate(s))
    BY <1>2, <2>1, TerminateIsCoherent, BecomesCoherent DEF Loose
  <2>2. CASE \E c \in scopes : c.id = m.scope /\ Becomes(CompleteScope(TearDown(s, {c.id}), c))
    <3>1. PICK c \in scopes :
            c.id = m.scope /\ Becomes(CompleteScope(TearDown(s, {c.id}), c))
      BY <2>2
    <3> DEFINE r == TearDown(s, {c.id})
               u == CompleteScope(r, c)
    <3>2. Vacant(s, c.id) /\ c \in s.scopes
      BY <1>2, <3>1, GoneIsVacant
    <3>3. Whole(u)
      BY <1>2, <3>2, EndScopeIsWhole
    <3>4. Below(r, s)
      BY <1>2, TearDownBelow
    <3> HIDE DEF r
    <3>5. Below(u, r) /\ u.queue # {}
      BY <3>4, CompleteScopeBelow DEF Below
    <3>6. Becomes(u)
      BY <3>1 DEF r
    <3> HIDE DEF u
    <3> QED  BY <1>2, <3>3, <3>4, <3>5, <3>6, BelowIsTransitive, MoveIsCoherent
  <2> QED  BY <1>8, <2>1, <2>2 DEF EnterTerminate, s
<1> QED
  BY <1>3, <1>4, <1>5, <1>6, <1>7, <1>8, EnterTaskCoherent, EnterCatchCoherent,
     EnterSubProcessCoherent, EnterJoinCoherent DEF Enter

(* The document and the status are no part of being whole.                 *)
LEMMA WholeWhateverItReads ==
    ASSUME NEW s, Whole(s), NEW u, Alike(u, s, {"status", "variables"})
    PROVE  Whole(u)
<1>1. /\ u.tokens = s.tokens /\ u.items = s.items /\ u.arms = s.arms /\ u.scopes = s.scopes
      /\ u.queue = s.queue /\ u.nextToken = s.nextToken /\ u.nextScope = s.nextScope
  BY DEF Alike, Fields
<1>2. Unique(u)
  BY <1>1 DEF Whole, Unique
<1>3. Alike(u, s, {"status", "variables", "tokens", "queue", "nextIncident", "clock"})
  BY DEF Alike
<1>4. \A y : IsEmpty(u, y) <=> IsEmpty(s, y)
  BY <1>1 DEF IsEmpty
<1>5. \A t : t \in u.tokens <=> t \in s.tokens
  BY <1>1
<1> QED  BY <1>2, <1>3, <1>4, <1>5, Retagged

(* A token that owns no scope leaves with its items and arms.              *)
LEMMA DepartureIsWhole ==
    ASSUME NEW s, Whole(s), NEW t \in s.tokens, t.wait # "scope",
           NEW v, Alike(v, s, {"variables", "tokens", "items", "arms"}),
           v.tokens = {w \in s.tokens : w.id # t.id},
           \A i : i.token # t.id => (i \in v.items <=> i \in s.items),
           \A a : a.token # t.id => (a \in v.arms <=> a \in s.arms),
           \A i \in v.items : i.token # t.id, \A a \in v.arms : a.token # t.id,
           NEW node
    PROVE  Whole(Leave(v, t.id, node, t.scope)) /\ Below(Leave(v, t.id, node, t.scope), s)
           /\ Leave(v, t.id, node, t.scope).queue # {}
<1>1. Loose(s, t.id, t.scope) /\ \A c \in s.scopes : c.token # t.id
  BY TokenIsLoose, TokenHolds
<1>2. Touches(v, s, t.id) /\ Shaped(v)
  BY DEF Touches, Alike
<1>3. Loose(v, t.id, t.scope) /\ Gone(v, t.id)
  BY <1>1, <1>2, AsideIsLoose
<1>4. Below(v, s)
  <2>1. v.tokens \subseteq s.tokens
    OBVIOUS
  <2> QED  BY <2>1, FewerIsBelow
<1> QED  BY <1>2, <1>3, <1>4, LeaveIsWhole, LeaveBelow, BelowIsTransitive

LEMMA AnswerCoherent ==
    ASSUME Good(Now), Coherent(Now), Answer
    PROVE  Coherent(Now)'
<1>1. PICK t \in tokens : DecisionFails(t) \/ \E v \in Value : AnswerDecision(t, v)
  BY DEF Answer
<1> DEFINE n == Now
<1>2. status = "active" /\ t.wait = "decision"
  BY <1>1 DEF DecisionFails, AnswerDecision, IsNextDecision
<1>3. Shaped(n) /\ Awake(n) /\ Whole(n) /\ t \in n.tokens
  BY <1>2, ActiveIsAwake, NowFields
<1> HIDE DEF n
<1>4. /\ Loose(n, t.id, t.scope) /\ \A c \in n.scopes : c.token # t.id
      /\ \A i \in n.items : i.token # t.id
      /\ \A a \in n.arms : a.token # t.id
  BY <1>2, <1>3, TokenIsLoose, TokenHolds DEF Holding
<1>5. CASE DecisionFails(t)
  <2>1. Becomes(Freeze(n, t.id, t.scope, t.node))
    BY <1>5 DEF DecisionFails, n
  <2>2. Coherent(Freeze(n, t.id, t.scope, t.node))
    BY <1>3, <1>4, FreezeIsCoherent DEF Awake, Calm
  <2> QED  BY <2>1, <2>2, BecomesCoherent
<1>6. ASSUME NEW answer \in Value, AnswerDecision(t, answer)
      PROVE  Coherent(Now)'
  <2> DEFINE s == [n EXCEPT !.variables[Result[t.node]] = answer]
             p == Unpark(s, t.id)
             v == WithdrawArms(p, t.id)
             u == Leave(v, t.id, t.node, t.scope)
  <2>1. Becomes(u)
    BY <1>6 DEF AnswerDecision, n
  <2>2. Alike(s, n, {"variables"})
    BY <1>3 DEF Alike, Shaped, Fields
  <2> HIDE DEF s
  <2>3. Alike(p, s, {"tokens"}) /\ p.tokens = {w \in s.tokens : w.id # t.id}
    BY <2>2, UnparkIs DEF Alike
  <2> HIDE DEF p
  <2>4. Alike(v, p, {"arms"}) /\ v.arms = {a \in p.arms : a.token # t.id}
    BY <2>3, WithdrawArmsIs DEF Alike
  <2> HIDE DEF v
  <2>5. /\ Alike(v, n, {"variables", "tokens", "items", "arms"}) /\ v.items = n.items
        /\ v.tokens = {w \in n.tokens : w.id # t.id}
        /\ v.arms = {a \in n.arms : a.token # t.id}
    BY <2>2, <2>3, <2>4 DEF Alike, Fields
  <2>6. Whole(u) /\ Below(u, n) /\ u.queue # {}
    BY <1>2, <1>3, <1>4, <2>5, DepartureIsWhole
  <2> QED  BY <1>3, <2>1, <2>6, MoveIsCoherent
<1> QED  BY <1>1, <1>5, <1>6

LEMMA StartCoherent ==
    ASSUME Good(Now), Coherent(Now), NEW doc \in Document, Start(doc)
    PROVE  Coherent(Now)'
<1> DEFINE n == Now
           k == n.nextToken
           s == [n EXCEPT !.status = "active", !.variables = doc, !.nextToken = @ + 1]
           u == Go(s, k, ProcessStart, Root, NoFlow)
<1>1. Becomes(u)
  BY DEF Start, Now
<1>2. Shaped(n) /\ Whole(n) /\ \A t \in n.tokens : t.wait \notin {"incident", "inflight"}
  <2>1. n.status = "created" /\ Shaped(n)
    BY DEF Start, Now, Shaped, Fields
  <2> QED  BY <2>1 DEF Coherent, Frozen
<1> HIDE DEF n
<1>3. /\ Alike(s, n, {"status", "variables", "nextToken"}) /\ s.nextToken = k + 1
      /\ s.status = "active"
  BY <1>2 DEF Alike, Shaped, Fields
<1> HIDE DEF s
<1>4. Shaped(s) /\ Awake(s)
  BY <1>2, <1>3 DEF Alike, Fields, Awake
<1>5. Loose(s, k, Root) /\ Gone(s, k)
  BY <1>2, <1>3, WholeIsVacant, FreshIsLoose DEF Open
<1>6. Whole(u) /\ Below(u, s) /\ u.queue # {}
  BY <1>4, <1>5, GoIsWhole, GoBelow
<1> QED  BY <1>1, <1>4, <1>6, MoveIsCoherent

LEMMA CompleteWorkItemCoherent ==
    ASSUME Good(Now), Coherent(Now), NEW i \in items, NEW doc \in Document,
           CompleteWorkItem(i, doc)
    PROVE  Coherent(Now)'
<1> DEFINE n == Now
           c == CloseItem(n, i.token)
           d == [c EXCEPT !.variables = doc]
           s == Unpark(d, i.token)
           v == WithdrawArms(s, i.token)
<1>1. PICK t \in tokens : /\ t.id = i.token
                          /\ Becomes(Leave(v, i.token, i.element, t.scope))
  BY DEF CompleteWorkItem
<1>2. Shaped(n) /\ Awake(n) /\ Whole(n) /\ t \in n.tokens /\ i \in n.items
  BY ActiveIsAwake, NowFields DEF CompleteWorkItem, Commanded
<1> HIDE DEF n
<1>3. t.wait = "workitem"
  BY <1>1, <1>2 DEF Whole, Worked, Unique
<1>4. Alike(c, n, {"items"}) /\ c.items = {j \in n.items : j.token # i.token}
  BY <1>2, CloseItemIs
<1> HIDE DEF c
<1>5. Alike(d, c, {"variables"})
  BY <1>4 DEF Alike, Shaped, Fields
<1> HIDE DEF d
<1>6. Alike(s, d, {"tokens"}) /\ s.tokens = {w \in d.tokens : w.id # i.token}
  BY <1>5, UnparkIs DEF Alike
<1> HIDE DEF s
<1>7. Alike(v, s, {"arms"}) /\ v.arms = {a \in s.arms : a.token # i.token}
  BY <1>6, WithdrawArmsIs DEF Alike
<1> HIDE DEF v
<1>8. /\ Alike(v, n, {"variables", "tokens", "items", "arms"})
      /\ v.tokens = {w \in n.tokens : w.id # t.id}
      /\ v.items = {j \in n.items : j.token # t.id}
      /\ v.arms = {a \in n.arms : a.token # t.id}
  BY <1>1, <1>4, <1>5, <1>6, <1>7 DEF Alike, Fields
<1> DEFINE u == Leave(v, t.id, i.element, t.scope)
<1>9. Becomes(u)
  BY <1>1
<1>10. Whole(u) /\ Below(u, n) /\ u.queue # {}
  BY <1>2, <1>3, <1>8, DepartureIsWhole
<1> QED  BY <1>2, <1>9, <1>10, MoveIsCoherent

(* Whatever catches an error, the failing token's work item is closed and  *)
(* nobody else's that outlives it.                                         *)
LEMMA CaughtIsWhole ==
    ASSUME NEW r, Shaped(r), Whole(r), NEW t \in r.tokens,
           NEW s, Shaped(s), Alike(s, r, {"items"}),
           s.items \subseteq r.items, \A i \in r.items \ s.items : i.token = t.id,
           \A i \in s.items : i.token # t.id,
           NEW host, NEW code, NEW k \in Catchers(s, host, t.id, t.scope, code),
           NEW u \in s.tokens, u.id = k.token
    PROVE  Whole(Interrupt(s, u, k.boundary))
<1>1. s.tokens = r.tokens /\ s.scopes = r.scopes
  BY DEF Alike, Fields
<1>2. u.id = t.id \/ \E c \in s.scopes : c.token = u.id /\ t.scope \in Subtree(s, {c.id})
  BY CatchersEnclose
<1>3. Loose(r, u.id, u.scope) /\ u \in r.tokens
  BY <1>1, TokenIsLoose
<1>4. \A i \in s.items : i.token # u.id
  <2>1. ASSUME u.id # t.id
        PROVE  \A i \in r.items : i.token # u.id
    <3>1. PICK c \in r.scopes : c.token = u.id
      BY <1>1, <1>2, <2>1
    <3>2. u.wait = "scope"
      BY <1>3, <3>1 DEF Whole, Parented, Unique
    <3> QED  BY <1>3, <3>2, TokenHolds
  <2> QED  BY <2>1
<1>5. Alike(s, r, {"status", "variables", "items", "nextIncident", "clock"})
  BY DEF Alike
<1>6. \A i \in r.items \ s.items :
        \/ i.token = u.id
        \/ \E w \in s.tokens, c \in s.scopes :
             w.id = i.token /\ c.token = u.id /\ w.scope \in Subtree(s, {c.id})
  BY <1>1, <1>2
<1> QED  BY <1>3, <1>4, <1>5, <1>6, InterruptIsWhole

LEMMA RaiseErrorCoherent ==
    ASSUME Good(Now), Coherent(Now), NEW i \in items, NEW code \in Codes, RaiseError(i, code)
    PROVE  Coherent(Now)'
<1> DEFINE n == Now
           s == CloseItem(n, i.token)
<1>1. PICK t \in tokens :
        /\ t.id = i.token
        /\ LET found == Catchers(s, i.element, i.token, t.scope, code)
           IN  \/ \E k \in found : ErrorCaught(s, k)
               \/ found = {} /\ Becomes(Freeze(s, i.token, t.scope, i.element))
  BY Zenon DEF RaiseError
<1>2. Shaped(n) /\ Awake(n) /\ Whole(n) /\ t \in n.tokens
  BY ActiveIsAwake, NowFields DEF RaiseError, Commanded
<1> HIDE DEF n
<1>3. Alike(s, n, {"items"}) /\ s.items = {j \in n.items : j.token # t.id}
  BY <1>1, <1>2, CloseItemIs
<1> HIDE DEF s
<1>4. Shaped(s) /\ s.tokens = n.tokens /\ s.arms = n.arms
  BY <1>3 DEF Alike, Fields
<1>5. Below(s, n)
  BY <1>3, AlikeIsBelow
<1>6. ASSUME NEW k \in Catchers(s, i.element, i.token, t.scope, code), ErrorCaught(s, k)
      PROVE  Coherent(Now)'
  <2>1. PICK u \in s.tokens : u.id = k.token /\ Becomes(Interrupt(s, u, k.boundary))
    BY <1>6 DEF ErrorCaught
  <2>2. \A j \in n.items \ s.items : j.token = t.id
    BY <1>3
  <2>3. Whole(Interrupt(s, u, k.boundary))
    BY <1>1, <1>2, <1>3, <1>4, <2>1, <2>2, CaughtIsWhole
  <2>4. Below(Interrupt(s, u, k.boundary), s) /\ Interrupt(s, u, k.boundary).queue # {}
    BY <1>4, InterruptBelow
  <2> QED  BY <1>2, <1>5, <2>1, <2>3, <2>4, BelowIsTransitive, MoveIsCoherent
<1>7. CASE Becomes(Freeze(s, i.token, t.scope, i.element))
  <2>1. Loose(n, t.id, t.scope)
    BY <1>2, TokenIsLoose
  <2>2. Touches(s, n, t.id)
    BY <1>3, <1>4 DEF Touches, Alike
  <2>3. /\ \A w, x \in s.tokens : w.id = t.id /\ x.id = t.id => w = x
        /\ \A w \in s.tokens : w.id = t.id => w.scope = t.scope /\ DOMAIN w = TokenFields
    BY <1>4, <2>1 DEF Loose, Unique
  <2>4. Counted(s)
    BY <1>2, <1>4 DEF Whole, Counted
  <2>5. Loose(s, t.id, t.scope)
    BY <2>1, <2>2, <2>3, <2>4, Touched
  <2>6. Calm(s)
    BY <1>2, <1>4 DEF Awake, Calm
  <2>7. Coherent(Freeze(s, t.id, t.scope, i.element))
    BY <1>4, <2>5, <2>6, FreezeIsCoherent
  <2> QED  BY <1>1, <1>7, <2>7, BecomesCoherent
<1> QED  BY <1>1, <1>6, <1>7

LEMMA SpentIs ==
    ASSUME Good(Now), Coherent(Now), status = "active", NEW a \in arms, NEW doc,
           NEW t \in tokens, t.id = a.token
    PROVE  LET s == Spent(a, doc)
           IN  /\ Shaped(s) /\ Awake(s) /\ Loose(s, t.id, t.scope)
               /\ Alike(s, Now, {"variables", "arms"}) /\ s.arms = Now.arms \ {a}
<1> DEFINE n == Now
           s == Spent(a, doc)
<1>1. Shaped(n) /\ Awake(n) /\ Whole(n) /\ t \in n.tokens
  BY ActiveIsAwake, NowFields
<1>2. s = [n EXCEPT !.arms = @ \ {a}, !.variables = doc]
  BY DEF Spent
<1> HIDE DEF n, s
<1>3. Alike(s, n, {"variables", "arms"}) /\ s.arms = n.arms \ {a}
  BY <1>1, <1>2 DEF Alike, Shaped, Fields
<1>4. s.tokens = n.tokens /\ s.items = n.items /\ Shaped(s)
  BY <1>3 DEF Alike, Fields
<1>5. Loose(n, t.id, t.scope)
  BY <1>1, TokenIsLoose
<1>6. Touches(s, n, t.id)
  BY <1>3, <1>4 DEF Touches, Alike
<1>7. /\ \A w, x \in s.tokens : w.id = t.id /\ x.id = t.id => w = x
      /\ \A w \in s.tokens : w.id = t.id => w.scope = t.scope /\ DOMAIN w = TokenFields
  BY <1>4, <1>5 DEF Loose, Unique
<1>8. Counted(s)
  BY <1>1, <1>3 DEF Whole, Counted
<1>9. Loose(s, t.id, t.scope)
  BY <1>5, <1>6, <1>7, <1>8, Touched
<1>10. Awake(s)
  BY <1>1, <1>3, AlikeIsBelow, BelowIsAwake
<1> QED  BY <1>3, <1>4, <1>9, <1>10 DEF s, n

(* A token that waited for the arm itself, or for it among others.         *)
LEMMA AwaitedCoherent ==
    ASSUME Good(Now), Coherent(Now), status = "active", NEW a \in arms, NEW doc,
           NEW t \in tokens, t.id = a.token,
           CatchFires(a, t, doc) \/ GatewayFires(a, t, doc)
    PROVE  Coherent(Now)'
<1> DEFINE n == Now
           s == Spent(a, doc)
           w == WithdrawArms(s, t.id)
           v == Unpark(w, t.id)
           u == Leave(v, t.id, a.element, t.scope)
<1>1. Becomes(u) /\ t.wait \in {"timer", "message", "eventgateway"}
  BY DEF CatchFires, GatewayFires
<1>2. Shaped(n) /\ Awake(n) /\ Whole(n) /\ t \in n.tokens
  BY ActiveIsAwake, NowFields
<1>3. Shaped(s) /\ Alike(s, n, {"variables", "arms"}) /\ s.arms = n.arms \ {a}
  BY SpentIs
<1> HIDE DEF n, s
<1>4. Alike(w, s, {"arms"}) /\ w.arms = {x \in s.arms : x.token # t.id}
  BY <1>3, WithdrawArmsIs
<1> HIDE DEF w
<1>5. Alike(v, w, {"tokens"}) /\ v.tokens = {x \in w.tokens : x.id # t.id}
  BY <1>4, UnparkIs DEF Alike
<1> HIDE DEF v
<1>6. /\ Alike(v, n, {"variables", "tokens", "items", "arms"}) /\ v.items = n.items
      /\ v.tokens = {x \in n.tokens : x.id # t.id}
      /\ v.arms = {x \in n.arms \ {a} : x.token # t.id}
  BY <1>3, <1>4, <1>5 DEF Alike, Fields
<1>7. \A i \in v.items : i.token # t.id
  BY <1>1, <1>2, <1>6, TokenHolds
<1>8. /\ \A x : x.token # t.id => (x \in v.arms <=> x \in n.arms)
      /\ \A x \in v.arms : x.token # t.id
  BY <1>6
<1>9. Whole(u) /\ Below(u, n) /\ u.queue # {}
  BY <1>1, <1>2, <1>6, <1>7, <1>8, DepartureIsWhole
<1> QED  BY <1>1, <1>2, <1>9, MoveIsCoherent

LEMMA InterruptingCoherent ==
    ASSUME Good(Now), Coherent(Now), status = "active", NEW a \in arms, NEW doc,
           NEW t \in tokens, t.id = a.token, InterruptingFires(a, t, doc)
    PROVE  Coherent(Now)'
<1> DEFINE n == Now
           s == Spent(a, doc)
           c == CloseItem(s, t.id)
           u == Interrupt(c, t, a.element)
<1>1. Becomes(u)
  BY DEF InterruptingFires
<1>2. /\ Shaped(s) /\ Awake(s) /\ Loose(s, t.id, t.scope)
      /\ Alike(s, n, {"variables", "arms"}) /\ t \in n.tokens
  BY SpentIs, NowFields
<1> HIDE DEF n, s
<1>3. t \in s.tokens
  BY <1>2 DEF Alike, Fields
<1>4. Alike(c, s, {"items"}) /\ c.items = {i \in s.items : i.token # t.id}
  BY <1>2, CloseItemIs
<1> HIDE DEF c
<1>5. /\ Shaped(c) /\ Alike(c, s, {"status", "variables", "items", "nextIncident", "clock"})
      /\ c.items \subseteq s.items /\ \A i \in c.items : i.token # t.id
      /\ \A i \in s.items \ c.items : i.token = t.id
  BY <1>4 DEF Alike
<1>6. Whole(u)
  BY <1>2, <1>3, <1>5, InterruptIsWhole
<1>7. Below(c, s)
  BY <1>4, AlikeIsBelow
<1>8. Below(u, c) /\ u.queue # {}
  BY <1>5, InterruptBelow
<1> QED  BY <1>1, <1>2, <1>6, <1>7, <1>8, BelowIsTransitive, MoveIsCoherent

(* A boundary that leaves its host at work is armed again, or has run out. *)
LEMMA RearmedIs ==
    ASSUME Good(Now), Coherent(Now), NEW a \in arms, NEW doc, a.element \in NonInterrupting
    PROVE  /\ \A r \in Rearmed(a, doc) :
                /\ r.token = a.token /\ r.element = a.element
                /\ r.left \in Nat /\ (r.left = 0 <=> Repeats[a.element] = 0)
           /\ \A r, q \in Rearmed(a, doc) : r = q
           /\ Rearmed(a, doc) = {} => MayRunOut(a.element)
<1>1. a \in Armed /\ a.left \in Nat /\ a.element \in Arm /\ a.element \in Node
  BY NowFields DEF Armed, Arm, TimerArm, MessageArm, Nodes
<1>2. a.left = 0 <=> Repeats[a.element] = 0
  BY NowFields DEF Coherent, Whole, Counted
<1>3. Repeats[a.element] \in Nat
  BY <1>1, GraphTyped
<1>4. CASE a.element \in MessageArm
  <2> DEFINE r == ArmFor(a.element, a.token, doc)
  <2>1. Rearmed(a, doc) = {r}
    BY <1>4 DEF Rearmed
  <2>2. r.token = a.token /\ r.element = a.element /\ r.left = Repeats[a.element]
    BY DEF ArmFor
  <2> HIDE DEF r
  <2> QED  BY <1>3, <2>1, <2>2
<1>5. CASE a.element \notin MessageArm
  <2> DEFINE n == IF a.left = 0 THEN 0 ELSE a.left - 1
             r == [a EXCEPT !.left = n]
  <2>1. Rearmed(a, doc) = IF a.left = 1 THEN {} ELSE {r}
    BY <1>5 DEF Rearmed
  <2>2. a.left # 1 => n \in Nat /\ (n = 0 <=> a.left = 0)
    BY <1>1
  <2> HIDE DEF n
  <2>3. r.token = a.token /\ r.element = a.element /\ r.left = n
    BY <1>1 DEF Armed
  <2> HIDE DEF r
  <2>4. a.left = 1 => MayRunOut(a.element)
    BY <1>1, <1>2, <1>5 DEF MayRunOut, Arm
  <2> QED  BY <1>2, <2>1, <2>2, <2>3, <2>4
<1> QED  BY <1>4, <1>5

LEMMA SidePathCoherent ==
    ASSUME Good(Now), Coherent(Now), status = "active", NEW a \in arms, NEW doc,
           NEW t \in tokens, t.id = a.token, SidePathFires(a, t, doc)
    PROVE  Coherent(Now)'
<1> DEFINE n == Now
           p == Spent(a, doc)
           R == Rearmed(a, doc)
           s == [p EXCEPT !.arms = @ \union R]
           id == t.id
           u == LeaveFresh(s, a.element, t.scope)
<1>1. Becomes(u) /\ a.element \in NonInterrupting
  BY DEF SidePathFires
<1>2. Shaped(n) /\ Awake(n) /\ Whole(n) /\ t \in n.tokens /\ a \in n.arms
  BY ActiveIsAwake, NowFields
<1>3. /\ Shaped(p) /\ Awake(p) /\ Loose(p, id, t.scope)
      /\ Alike(p, n, {"variables", "arms"}) /\ p.arms = n.arms \ {a}
  BY SpentIs
<1>4. /\ \A r \in R : /\ r.token = id /\ r.element = a.element
                      /\ r.left \in Nat /\ (r.left = 0 <=> Repeats[a.element] = 0)
      /\ \A r, q \in R : r = q
      /\ R = {} => MayRunOut(a.element)
  BY <1>1, RearmedIs
<1>5. t.id = id /\ a.token = id
  OBVIOUS
<1> HIDE DEF n, p, R, id
<1>6. Alike(s, p, {"arms"}) /\ s.arms = p.arms \union R
  BY <1>3 DEF Alike, Shaped, Fields
<1> HIDE DEF s
<1>7. Shaped(s) /\ s.tokens = n.tokens /\ s.items = n.items /\ s.scopes = n.scopes
      /\ s.queue = n.queue
  BY <1>3, <1>6 DEF Alike, Fields
<1>8. \A x : x \in s.arms <=> (x \in n.arms /\ x # a) \/ x \in R
  BY <1>3, <1>6
<1>9. Counted(s)
  BY <1>2, <1>4, <1>8 DEF Whole, Counted
<1>10. Touches(s, p, id)
  BY <1>3, <1>4, <1>6, <1>7 DEF Touches, Alike, Fields
<1>11. /\ \A w, x \in s.tokens : w.id = id /\ x.id = id => w = x
       /\ \A w \in s.tokens : w.id = id => w.scope = t.scope /\ DOMAIN w = TokenFields
  BY <1>2, <1>5, <1>7 DEF Whole, Unique
<1>12. Loose(s, id, t.scope)
  BY <1>3, <1>9, <1>10, <1>11, Touched
<1>13. Owns(s, t)
  BY <1>2, <1>7 DEF Whole, Owns
<1>14. ASSUME NEW el, ArmedOnce(n, id, el)
       PROVE  ArmedOnce(s, id, el)
  <2>1. CASE el # a.element
    <3>1. {x \in s.arms : x.token = id /\ x.element = el}
            = {x \in n.arms : x.token = id /\ x.element = el}
      BY <1>4, <1>8, <2>1
    <3> QED  BY <1>14, <3>1 DEF ArmedOnce
  <2>2. CASE el = a.element
    <3> DEFINE held == {x \in n.arms : x.token = id /\ x.element = el}
    <3>1. a \in held
      BY <1>2, <1>5, <2>2
    <3>2. \A x \in held : x = a
      BY <1>14, <3>1 DEF ArmedOnce
    <3>3. {x \in s.arms : x.token = id /\ x.element = el} = R
      BY <1>4, <1>8, <2>2, <3>2
    <3> QED  BY <1>4, <2>2, <3>3 DEF ArmedOnce
  <2> QED  BY <2>1, <2>2
<1>15. CanEnd(s, t)
  BY <1>2, <1>5, <1>7, <1>14 DEF Whole, CanEnd
<1>16. \A c \in s.scopes : c.token = id => Parented(s, c) /\ ~IsEmpty(s, c.id)
  BY <1>2, <1>7 DEF Whole, Parented, IsEmpty
<1>17. \A i \in s.items : Worked(s, i)
  BY <1>2, <1>7 DEF Whole, Worked
<1>18. \A x \in s.arms : HeldArm(s, x)
  BY <1>2, <1>4, <1>5, <1>7, <1>8 DEF Whole, HeldArm
<1>19. Whole(s)
  BY <1>2, <1>5, <1>7, <1>12, <1>13, <1>15, <1>16, <1>17, <1>18, LooseIsWhole
<1>20. Vacant(s, t.scope)
  BY <1>12, <1>19, WholeIsVacant DEF Loose
<1>21. Whole(u) /\ Below(u, s) /\ u.queue # {}
  BY <1>7, <1>20, LeaveFreshIsWhole, LeaveFreshBelow
<1>22. Below(s, p)
  BY <1>6, AlikeIsBelow
<1> QED  BY <1>1, <1>3, <1>21, <1>22, BelowIsTransitive, MoveIsCoherent

LEMMA CommandCoherent ==
    ASSUME Good(Now), Coherent(Now), Command
    PROVE  Coherent(Now)'
<1>1. ASSUME NEW a \in arms, NEW doc, NEW t \in tokens, t.id = a.token, status = "active",
             \/ CatchFires(a, t, doc) \/ GatewayFires(a, t, doc)
             \/ InterruptingFires(a, t, doc) \/ SidePathFires(a, t, doc)
      PROVE  Coherent(Now)'
  BY <1>1, AwaitedCoherent, InterruptingCoherent, SidePathCoherent
<1>2. ASSUME NEW a \in arms, FireTimer(a)
      PROVE  Coherent(Now)'
  BY <1>1, <1>2 DEF FireTimer, Commanded
<1>3. ASSUME NEW a \in arms, NEW doc \in Document, DeliverMessage(a, doc)
      PROVE  Coherent(Now)'
  BY <1>1, <1>3 DEF DeliverMessage, Commanded
<1> QED  BY <1>2, <1>3, CompleteWorkItemCoherent, RaiseErrorCoherent DEF Command

LEMMA ResumedIsAwake ==
    ASSUME NEW s, Shaped(s), Whole(s), s.status = "active", Calm(s)
    PROVE  LET u == ResumeHalted(s)
           IN  Shaped(u) /\ Whole(u) /\ Awake(u) /\ (s.queue # {} => Coherent(u))
<1> DEFINE u == ResumeHalted(s)
<1>1. /\ Shaped(u) /\ Whole(u) /\ u.status = s.status
      /\ \A t : t \in u.tokens <=> t \in s.tokens /\ t.wait # "inflight"
      /\ s.queue \subseteq u.queue
  BY ResumeIsWhole
<1> HIDE DEF u
<1>2. Awake(u)
  BY <1>1 DEF Awake, Calm
<1>3. s.queue # {} => u.queue # {}
  BY <1>1
<1> QED  BY <1>1, <1>2, <1>3, MovingIsCoherent DEF u

LEMMA RepairIs ==
    ASSUME Coherent(Now), NEW t \in tokens, NEW doc, Repairing(t)
    PROVE  LET s == Patched(doc)
               u == Unpark(s, t.id)
           IN  /\ Shaped(s) /\ Whole(s) /\ s.status = "active" /\ s.tokens = tokens
               /\ s.scopes = scopes
               /\ \A i \in s.items : i.token # t.id
               /\ Shaped(u) /\ Loose(u, t.id, t.scope) /\ Gone(u, t.id)
               /\ u.status = "active" /\ Calm(u) /\ u.scopes = scopes
<1> DEFINE n == Now
           s == Patched(doc)
           u == Unpark(s, t.id)
<1>1. s = [n EXCEPT !.status = "active", !.variables = doc]
  BY DEF Patched
<1>2. Whole(n) /\ Shaped(n) /\ n.tokens = tokens /\ n.scopes = scopes
  BY DEF Coherent, Now, Shaped, Fields
<1> HIDE DEF n, s
<1>3. Alike(s, n, {"status", "variables"}) /\ s.status = "active"
  BY <1>1, <1>2 DEF Alike, Shaped, Fields
<1>4. Whole(s)
  BY <1>2, <1>3, WholeWhateverItReads
<1>5. Shaped(s) /\ s.tokens = tokens /\ s.scopes = scopes
  BY <1>2, <1>3 DEF Alike, Fields
<1>6. t.wait = "incident" /\ \A w \in tokens \ {t} : w.wait # "incident"
  BY DEF Repairing
<1>7. /\ Loose(s, t.id, t.scope) /\ \A c \in s.scopes : c.token # t.id
      /\ \A i \in s.items : i.token # t.id
      /\ \A a \in s.arms : a.token # t.id
  BY <1>4, <1>5, <1>6, TokenIsLoose, TokenHolds DEF Holding
<1>8. Shaped(u) /\ Loose(u, t.id, t.scope) /\ Gone(u, t.id)
  BY <1>5, <1>7, UnparkedIsLoose
<1>9. Alike(u, s, {"tokens"}) /\ u.tokens = {w \in s.tokens : w.id # t.id}
  BY <1>5, UnparkIs
<1> HIDE DEF u
<1>10. u.status = "active" /\ u.scopes = scopes
  BY <1>3, <1>5, <1>9 DEF Alike, Fields
<1>11. Calm(u)
  BY <1>5, <1>6, <1>9 DEF Calm
<1> QED  BY <1>3, <1>4, <1>5, <1>7, <1>8, <1>10, <1>11 DEF u, s

LEMMA BelowIsCalm ==
    ASSUME NEW s, Calm(s), s.status = "active", NEW u, Below(u, s)
    PROVE  Calm(u) /\ u.status = "active" /\ Shaped(u)
BY DEF Calm, Below

LEMMA RetryCoherent ==
    ASSUME Coherent(Now), NEW t \in tokens, NEW doc \in Document,
           Retry(t, doc) \/ Advance(t, doc)
    PROVE  Coherent(Now)'
<1> DEFINE s == Patched(doc)
           u == Unpark(s, t.id)
<1>1. /\ Repairing(t)
      /\ \E r \in ResumePoints(t.node) :
           \/ Becomes(ResumeHalted(Go(u, t.id, r, t.scope, NoFlow)))
           \/ Becomes(ResumeHalted(Leave(u, t.id, r, t.scope)))
  BY DEF Retry, Advance
<1>2. /\ Shaped(u) /\ Loose(u, t.id, t.scope) /\ Gone(u, t.id)
      /\ u.status = "active" /\ Calm(u)
  BY <1>1, RepairIs
<1> HIDE DEF u
<1>3. PICK r \in ResumePoints(t.node) :
        \/ Becomes(ResumeHalted(Go(u, t.id, r, t.scope, NoFlow)))
        \/ Becomes(ResumeHalted(Leave(u, t.id, r, t.scope)))
  BY <1>1
<1>4. ASSUME NEW g, Whole(g), Below(g, u), g.queue # {}, Becomes(ResumeHalted(g))
      PROVE  Coherent(Now)'
  BY <1>2, <1>4, BelowIsCalm, ResumedIsAwake, BecomesCoherent
<1>5. CASE Becomes(ResumeHalted(Go(u, t.id, r, t.scope, NoFlow)))
  <2> DEFINE g == Go(u, t.id, r, t.scope, NoFlow)
  <2>1. Whole(g) /\ Below(g, u) /\ g.queue # {}
    BY <1>2, GoIsWhole, GoBelow
  <2> QED  BY <1>4, <1>5, <2>1
<1>6. CASE Becomes(ResumeHalted(Leave(u, t.id, r, t.scope)))
  <2> DEFINE g == Leave(u, t.id, r, t.scope)
  <2>1. Whole(g) /\ Below(g, u) /\ g.queue # {}
    BY <1>2, LeaveIsWhole, LeaveBelow
  <2> QED  BY <1>4, <1>6, <2>1
<1> QED  BY <1>3, <1>5, <1>6

LEMMA DivertCoherent ==
    ASSUME Stable(Now), Coherent(Now), NEW t \in tokens, NEW code \in Codes, Divert(t, code)
    PROVE  Coherent(Now)'
<1> DEFINE s == Patched(variables)
<1>1. PICK r \in ResumePoints(t.node) :
        /\ Repairing(t)
        /\ \E k \in Catchers(s, r, t.id, t.scope, code) :
             \E u \in tokens :
                u.id = k.token /\ Becomes(ResumeHalted(Interrupt(s, u, k.boundary)))
  BY Zenon DEF Divert
<1>2. variables \in Document
  BY DEF Stable, Sound, State, Now
<1>3. /\ Sound(s) /\ r \in Node /\ \A x \in tokens \ {t} : x.wait # "incident"
  BY <1>1, <1>2, RepairBase
<1>4. /\ Shaped(s) /\ Whole(s) /\ s.status = "active" /\ s.tokens = tokens
      /\ \A i \in s.items : i.token # t.id
  BY <1>1, RepairIs
<1> HIDE DEF s
<1>5. PICK k \in Catchers(s, r, t.id, t.scope, code), u \in tokens :
        u.id = k.token /\ Becomes(ResumeHalted(Interrupt(s, u, k.boundary)))
  BY <1>1
<1> DEFINE g == Interrupt(s, u, k.boundary)
<1>6. Alike(s, s, {"items"}) /\ s.items \subseteq s.items
      /\ \A i \in s.items \ s.items : i.token = t.id
  BY <1>4 DEF Alike
<1>7. Whole(g)
  BY <1>4, <1>5, <1>6, CaughtIsWhole
<1>8. Below(g, s) /\ g.queue # {}
  BY <1>4, InterruptBelow
<1>9. k.boundary \in Node /\ Kind[k.boundary] = "errorboundary"
  BY <1>3, CatchersAreBoundaries
<1>10. k.token = t.id \/ \E c \in s.scopes : c.token = k.token /\ t.scope \in Subtree(s, {c.id})
  BY CatchersEnclose
<1>11. \A x \in g.tokens :
         /\ x \in s.tokens /\ x.id # u.id
         /\ \A c \in s.scopes : c.token = u.id => x.scope \notin Subtree(s, {c.id})
  BY <1>3, <1>4, <1>9, InterruptSound
<1> HIDE DEF g
<1>12. t \notin g.tokens
  BY <1>5, <1>10, <1>11
<1>13. Calm(g)
  BY <1>3, <1>4, <1>11, <1>12 DEF Calm
<1>14. g.status = "active" /\ Shaped(g)
  BY <1>4, <1>8 DEF Below
<1>15. Coherent(ResumeHalted(g))
  BY <1>7, <1>8, <1>13, <1>14, ResumedIsAwake
<1> QED  BY <1>5, <1>15, BecomesCoherent DEF g

LEMMA AbandonCoherent ==
    ASSUME Stable(Now), Coherent(Now), NEW t \in tokens, Abandon(t)
    PROVE  Coherent(Now)'
<1> DEFINE s == Unpark(Patched(variables), t.id)
<1>1. /\ Repairing(t)
      /\ \/ (t.scope = Root \/ ~IsEmpty(s, t.scope)) /\ Becomes(Settle(ResumeHalted(s)))
         \/ \E c \in scopes : /\ c.id = t.scope /\ IsEmpty(s, t.scope)
                              /\ Becomes(ResumeHalted(CompleteScope(s, c)))
  BY Zenon DEF Abandon
<1>2. /\ Shaped(s) /\ Loose(s, t.id, t.scope) /\ Gone(s, t.id)
      /\ s.status = "active" /\ Calm(s) /\ s.scopes = scopes
  BY <1>1, RepairIs
<1> HIDE DEF s
<1>3. CASE (t.scope = Root \/ ~IsEmpty(s, t.scope)) /\ Becomes(Settle(ResumeHalted(s)))
  <2>1. Whole(s)
    BY <1>2, <1>3, ConsumedIsWhole
  <2>2. Coherent(Settle(ResumeHalted(s)))
    BY <1>2, <2>1, ResumedIsAwake, SettleIsCoherent
  <2> QED  BY <1>3, <2>2, BecomesCoherent
<1>4. CASE \E c \in scopes : /\ c.id = t.scope /\ IsEmpty(s, t.scope)
                             /\ Becomes(ResumeHalted(CompleteScope(s, c)))
  <2>1. PICK c \in s.scopes : /\ c.id = t.scope /\ IsEmpty(s, t.scope)
                              /\ Becomes(ResumeHalted(CompleteScope(s, c)))
    BY <1>2, <1>4
  <2> DEFINE g == CompleteScope(s, c)
  <2>2. Whole(g)
    BY <1>2, <2>1, GoneIsVacant, CompleteScopeIsWhole
  <2>3. Below(g, s) /\ g.queue # {}
    BY <1>2, CompleteScopeBelow
  <2>4. Becomes(ResumeHalted(g))
    BY <2>1
  <2> HIDE DEF g
  <2>5. Coherent(ResumeHalted(g))
    BY <1>2, <2>2, <2>3, BelowIsCalm, ResumedIsAwake
  <2> QED  BY <2>4, <2>5, BecomesCoherent
<1> QED  BY <1>1, <1>3, <1>4

LEMMA AbandonInstanceCoherent ==
    ASSUME Coherent(Now), AbandonInstance
    PROVE  Coherent(Now)'
<1> DEFINE n == Now
<1>1. Shaped(n) /\ Unique(n) /\ Nested(n)
  BY DEF Coherent, Whole, Now, Shaped, Fields
<1>2. Becomes(Terminate(n))
  BY DEF AbandonInstance
<1> HIDE DEF n
<1> QED  BY <1>1, <1>2, TerminateIsCoherent, BecomesCoherent

-----------------------------------------------------------------------------
LEMMA InitCoherent == Init => Coherent(Now)
<1> SUFFICES ASSUME Init
             PROVE  Coherent(Now)
  OBVIOUS
<1> DEFINE n == Now
<1>1. /\ n.status = "created" /\ n.tokens = {} /\ n.items = {} /\ n.arms = {} /\ n.scopes = {}
      /\ n.queue = {} /\ n.nextToken = 0 /\ n.nextScope = 1
  BY DEF Init, Now
<1> HIDE DEF n
<1>2. Whole(n)
  BY <1>1 DEF Whole, Unique, Nested, Counted
<1>3. Frozen(n)
  BY <1>1 DEF Frozen
<1> QED  BY <1>2, <1>3 DEF Coherent, n

LEMMA NextCoherent == Stable(Now) /\ Coherent(Now) /\ [Next]_vars => Coherent(Now)'
<1> SUFFICES ASSUME Stable(Now), Coherent(Now), [Next]_vars
             PROVE  Coherent(Now)'
  OBVIOUS
<1>1. CASE \E m \in queue : Enter(m)
  <2>1. PICK m \in queue : Enter(m)
    BY <1>1
  <2>2. status = "active"
    BY <2>1 DEF Enter, EnterStart, EnterRule, EnterTask, EnterCatch, EnterSubProcess,
                EnterExclusive, EnterSplit, EnterJoin, EnterEnd, EnterTerminate, Enters
  <2> QED
    BY <2>1, <2>2, NotFailed, EnterCoherent
<1>2. CASE Answer
  <2>1. status = "active"
    BY <1>2 DEF Answer, DecisionFails, AnswerDecision, IsNextDecision
  <2> QED
    BY <1>2, <2>1, NotFailed, AnswerCoherent
<1>3. CASE Command
  <2>1. status = "active"
    BY <1>3 DEF Command, CompleteWorkItem, RaiseError, FireTimer, DeliverMessage, Commanded
  <2> QED
    BY <1>3, <2>1, NotFailed, CommandCoherent
<1>4. CASE Disposition
  BY <1>4, RetryCoherent, DivertCoherent, AbandonCoherent, AbandonInstanceCoherent DEF Disposition
<1>5. CASE \E doc \in Document : Start(doc)
  <2>1. PICK doc \in Document : Start(doc)
    BY <1>5
  <2>2. status # "failed"
    BY <2>1 DEF Start
  <2> QED
    BY <2>1, <2>2, NotFailed, StartCoherent
<1>6. CASE UNCHANGED vars
  <2> DEFINE n == Now
  <2>1. n' = n
    BY <1>6 DEF vars, Now
  <2>2. PICK c : c = n
    OBVIOUS
  <2>3. Coherent(c) /\ n' = c
    BY <2>1, <2>2
  <2> HIDE DEF n
  <2>4. Coherent(n')
    BY <2>3
  <2> QED
    BY <2>4 DEF n, Coherent, Whole, Frozen, Unique, Nested, Open, ScopeIds, Counted, Parented,
                IsEmpty, Worked, HeldArm, Owns, CanEnd, ArmedOnce
<1> QED
  BY <1>1, <1>2, <1>3, <1>4, <1>5, <1>6 DEF Next, Internal, Repair

LEMMA CoherentInductive == Spec => [](Stable(Now) /\ Coherent(Now))
<1>1. Stable(Now) /\ Coherent(Now) /\ [Next]_vars => (Stable(Now) /\ Coherent(Now))'
  BY NextStable, NextCoherent
<1>2. Init => Stable(Now) /\ Coherent(Now)
  BY InitStable, InitCoherent
<1> QED
  BY <1>1, <1>2, PTL DEF Spec

-----------------------------------------------------------------------------
(* The theorems about a coherent state.                                    *)

LEMMA OneOfThem ==
    ASSUME NEW S, NEW x \in S, \A y \in S : y = x
    PROVE  Cardinality(S) = 1
<1>1. S = {x}
  OBVIOUS
<1> QED  BY <1>1, FS_Singleton

LEMMA NowIs ==
    /\ Now.status = status /\ Now.tokens = tokens /\ Now.items = items /\ Now.arms = arms
    /\ Now.scopes = scopes /\ Now.queue = queue /\ Now.nextToken = nextToken
BY DEF Now

(* A token is in one place, every open scope has the token that waits for  *)
(* it and something inside, and a failure has one cause with nothing under *)
(* way beside it: what a step, a freeze or a repair leaves in the row can  *)
(* be loaded and carried on from, at every point of every step.            *)
THEOREM Coherence == Spec => []StateIsCoherent
<1>1. ASSUME TypeOK, Stable(Now), Coherent(Now)
      PROVE  StateIsCoherent
  <2>1. TokensAreUnique
    BY <1>1, NowIs DEF Coherent, Whole, Unique, TokensAreUnique
  <2>2. ScopesMatchTokens
    <3>1. \A c \in scopes :
            /\ \E t \in tokens : t.id = c.token /\ t.wait = "scope"
                                 /\ t.node = c.element /\ t.scope = c.parent
            /\ ~IsEmpty(Now, c.id)
      BY <1>1, NowIs DEF Coherent, Whole, Parented
    <3>2. ASSUME NEW t \in tokens, t.wait = "scope"
          PROVE  Cardinality({c \in scopes : c.token = t.id}) = 1
      <4>1. PICK c \in scopes : c.token = t.id
        BY <1>1, <3>2, NowIs DEF Coherent, Whole, Owns
      <4>2. \A d \in scopes : d.token = t.id => d = c
        BY <1>1, <4>1, NowIs DEF Coherent, Whole, Nested
      <4> QED  BY <4>1, <4>2, OneOfThem
    <3>3. /\ \A t \in tokens : t.scope \in {Root} \union ScopeIds(Now)
          /\ \A m \in queue : m.scope \in {Root} \union ScopeIds(Now)
      BY <1>1, NowIs DEF Coherent, Whole, Nested, Open
    <3> QED  BY <3>1, <3>2, <3>3 DEF ScopesMatchTokens
  <2>3. FrozenHasOneCause
    <3>1. Frozen(Now)
      BY <1>1 DEF Coherent
    <3>2. ASSUME status = "failed"
          PROVE  Cardinality({t \in tokens : t.wait = "incident"}) = 1
      <4>1. PICK t \in tokens : /\ t.wait = "incident"
                                /\ \A u \in tokens : u.wait = "incident" => u = t
        BY <3>1, <3>2, NowIs DEF Frozen
      <4> QED  BY <4>1, OneOfThem
    <3> QED  BY <3>1, <3>2, NowIs DEF Frozen, FrozenHasOneCause, Between
  <2> QED  BY <1>1, <2>1, <2>2, <2>3 DEF StateIsCoherent
<1> QED  BY <1>1, TypeCorrect, CoherentInductive, PTL

(* No work item outlives its token, and nothing outlives its instance: a   *)
(* worker can complete or fail whatever it was given, and an instance that *)
(* ended leaves no timer, subscription or task behind.                     *)
THEOREM WorkIsLive == Spec => []WorkEndsWithItsToken
<1>1. ASSUME Coherent(Now)
      PROVE  WorkEndsWithItsToken
  <2>1. ItemsHaveLiveTokens
    BY <1>1, NowIs DEF Coherent, Whole, Worked, ItemsHaveLiveTokens
  <2>2. NothingOpenAfterEnd
    BY <1>1, NowIs DEF Coherent, Frozen, NothingOpenAfterEnd
  <2> QED  BY <2>1, <2>2 DEF WorkEndsWithItsToken
<1> QED  BY <1>1, CoherentInductive, PTL

(* Every parked token can be moved: its work item is open, and each timer  *)
(* and message it waits for or hosts is armed exactly once until it ran    *)
(* out.  Neither a side path nor a repair beside it disarms it.            *)
THEOREM WaitsCanEnd == Spec => []EveryWaitCanEnd
<1>1. ASSUME Coherent(Now)
      PROVE  EveryWaitCanEnd
  <2> SUFFICES ASSUME NEW t \in tokens, Holding(t)
               PROVE  /\ t.wait = "workitem" =>
                            \E i \in items : i.token = t.id /\ i.element = t.node
                      /\ \A el \in Range(ArmedAt(t.node)) :
                            LET held == {a \in arms : a.token = t.id /\ a.element = el}
                            IN  Cardinality(held) = 1 \/ (held = {} /\ MayRunOut(el))
    BY DEF EveryWaitCanEnd
  <2>1. CanEnd(Now, t)
    BY <1>1, NowIs DEF Coherent, Whole
  <2>2. t.wait = "workitem" => \E i \in items : i.token = t.id /\ i.element = t.node
    BY <2>1, NowIs DEF CanEnd
  <2>3. ASSUME NEW el \in Range(ArmedAt(t.node))
        PROVE  LET held == {a \in arms : a.token = t.id /\ a.element = el}
               IN  Cardinality(held) = 1 \/ (held = {} /\ MayRunOut(el))
    <3> DEFINE held == {a \in arms : a.token = t.id /\ a.element = el}
    <3>1. (\E a \in held : \A b \in held : b = a) \/ (held = {} /\ MayRunOut(el))
      BY <2>1, <2>3, NowIs DEF CanEnd, ArmedOnce
    <3> HIDE DEF held
    <3>2. Cardinality(held) = 1 \/ (held = {} /\ MayRunOut(el))
      BY <3>1, OneOfThem
    <3> QED  BY <3>2 DEF held
  <2> QED  BY <2>2, <2>3
<1> QED  BY <1>1, CoherentInductive, PTL

-----------------------------------------------------------------------------
(* What a step leaves of the tokens it is not about.                       *)

LiveIn(s, id) == (\E t \in s.tokens : t.id = id) \/ (\E m \in s.queue : m.token = id)

(* The scopes u has open, s has; and in these, u has the tokens that s has *)
(* but for those of I.                                                     *)
Spares(u, s, I) ==
    /\ Shaped(u) /\ Open(u) \subseteq Open(s)
    /\ \A t \in s.tokens : t.id \notin I => t \in u.tokens \/ t.scope \notin Open(u)

LEMMA SparesIsTransitive ==
    ASSUME NEW s, NEW u, NEW v, NEW I, Spares(u, s, I), Spares(v, u, I)
    PROVE  Spares(v, s, I)
BY DEF Spares

LEMMA AlikeSpares ==
    ASSUME NEW s, NEW F, "scopes" \notin F, NEW u, Alike(u, s, F), s.tokens \subseteq u.tokens,
           NEW I
    PROVE  Spares(u, s, I)
<1>1. u.scopes = s.scopes
  BY DEF Alike, Fields
<1>2. Open(u) = Open(s)
  BY <1>1 DEF Open, ScopeIds
<1> QED  BY <1>2 DEF Spares, Alike

LEMMA SameSpares ==
    ASSUME NEW s, NEW F, "scopes" \notin F, "tokens" \notin F, NEW u, Alike(u, s, F), NEW I
    PROVE  Spares(u, s, I) /\ u.tokens = s.tokens
<1>1. u.tokens = s.tokens
  BY DEF Alike, Fields
<1> QED  BY <1>1, AlikeSpares

LEMMA UnparkSpares ==
    ASSUME NEW s, Shaped(s), NEW I, NEW id \in I
    PROVE  Spares(Unpark(s, id), s, I)
<1> DEFINE u == Unpark(s, id)
<1>1. Alike(u, s, {"tokens"}) /\ u.tokens = {t \in s.tokens : t.id # id}
  BY UnparkIs
<1> HIDE DEF u
<1>2. u.scopes = s.scopes
  BY <1>1 DEF Alike, Fields
<1>3. Open(u) = Open(s)
  BY <1>2 DEF Open, ScopeIds
<1>4. Spares(u, s, I)
  BY <1>1, <1>3 DEF Spares, Alike
<1> QED  BY <1>4 DEF u

LEMMA WithdrawArmsSpares ==
    ASSUME NEW s, Shaped(s), NEW id, NEW I
    PROVE  Spares(WithdrawArms(s, id), s, I)
<1> DEFINE u == WithdrawArms(s, id)
<1>1. Alike(u, s, {"arms"})
  BY WithdrawArmsIs
<1> HIDE DEF u
<1>2. Spares(u, s, I)
  BY <1>1, SameSpares
<1> QED  BY <1>2 DEF u

LEMMA GoSpares ==
    ASSUME NEW s, Shaped(s), NEW id, NEW node, NEW scope, NEW via, NEW I
    PROVE  LET u == Go(s, id, node, scope, via)
           IN  Spares(u, s, I) /\ u.tokens = s.tokens /\ LiveIn(u, id)
<1> DEFINE u == Go(s, id, node, scope, via)
<1>1. Alike(u, s, {"queue", "clock"})
      /\ \E m : m.token = id /\ m.scope = scope /\ u.queue = s.queue \union {m}
  BY GoIs
<1> HIDE DEF u
<1>2. Spares(u, s, I) /\ u.tokens = s.tokens
  BY <1>1, SameSpares
<1>3. LiveIn(u, id)
  BY <1>1 DEF LiveIn
<1> QED  BY <1>2, <1>3 DEF u

LEMMA LeaveSpares ==
    ASSUME NEW s, Shaped(s), NEW id, NEW node, NEW scope, NEW I
    PROVE  LET u == Leave(s, id, node, scope)
           IN  Spares(u, s, I) /\ u.tokens = s.tokens /\ LiveIn(u, id)
BY GoSpares DEF Leave

LEMMA LeaveFreshSpares ==
    ASSUME NEW s, Shaped(s), NEW node, NEW scope
    PROVE  LET u == LeaveFresh(s, node, scope)
           IN  /\ u.tokens = s.tokens
               /\ \E m : m.token = s.nextToken /\ u.queue = s.queue \union {m}
<1> DEFINE r == [s EXCEPT !.nextToken = @ + 1]
           u == Leave(r, s.nextToken, node, scope)
<1>1. Shaped(r) /\ r.tokens = s.tokens /\ r.queue = s.queue
  BY DEF Shaped, Fields
<1> HIDE DEF r
<1>2. u.tokens = r.tokens /\ \E m : m.token = s.nextToken /\ u.queue = r.queue \union {m}
  <2>1. LET g == Go(r, s.nextToken, Target[Outgoing[node][1]], scope, Outgoing[node][1])
        IN  /\ Alike(g, r, {"queue", "clock"})
            /\ \E m : m.token = s.nextToken /\ m.scope = scope /\ g.queue = r.queue \union {m}
    BY <1>1, GoIs
  <2>2. u = Go(r, s.nextToken, Target[Outgoing[node][1]], scope, Outgoing[node][1])
    BY DEF Leave
  <2> HIDE DEF u
  <2> QED  BY <2>1, <2>2 DEF Alike, Fields
<1>3. LeaveFresh(s, node, scope) = u
  BY DEF LeaveFresh, r
<1> HIDE DEF u
<1> QED  BY <1>1, <1>2, <1>3

(* A teardown takes tokens of the scopes it closes and no others.          *)
LEMMA CloseOwnedSpares ==
    ASSUME NEW s, Shaped(s), Nested(s), NEW id, NEW x \in Nat,
           \A c \in s.scopes : c.token = id => c.parent = x, NEW I
    PROVE  Spares(CloseOwned(s, id), s, I)
<1> DEFINE D == Subtree(s, {c.id : c \in {d \in s.scopes : d.token = id}})
           u == CloseOwned(s, id)
<1>1. Root \notin D
  BY DoomedAre
<1>2. D = Subtree(s, {c.id : c \in {d \in s.scopes : d.token = id}})
  OBVIOUS
<1> HIDE DEF D
<1>3. /\ Alike(u, s, {"queue", "tokens", "items", "arms", "scopes"})
      /\ \A t : t \in u.tokens <=> t \in s.tokens /\ t.scope \notin D
      /\ \A c : c \in u.scopes <=> c \in s.scopes /\ c.id \notin D
  BY <1>2, CloseOwnedIs
<1> HIDE DEF u
<1>4. Open(u) \subseteq Open(s) /\ \A y \in D : y \notin Open(u)
  BY <1>1, <1>3 DEF Open, ScopeIds
<1>5. Spares(u, s, I)
  BY <1>3, <1>4 DEF Spares, Alike
<1> QED  BY <1>5 DEF u

LEMMA InterruptSpares ==
    ASSUME NEW s, Shaped(s), Nested(s), NEW t, t.scope \in Nat,
           \A c \in s.scopes : c.token = t.id => c.parent = t.scope, NEW b
    PROVE  LET u == Interrupt(s, t, b)
           IN  Spares(u, s, {t.id}) /\ LiveIn(u, t.id)
<1> DEFINE r == Unpark(s, t.id)
           v == CloseOwned(r, t.id)
           w == WithdrawArms(v, t.id)
           u == Leave(w, t.id, b, t.scope)
<1>1. Alike(r, s, {"tokens"}) /\ r.tokens \subseteq s.tokens /\ Spares(r, s, {t.id})
  BY UnparkIs, UnparkSpares
<1> HIDE DEF r
<1>2. Shaped(r) /\ r.scopes = s.scopes /\ r.queue = s.queue /\ r.nextScope = s.nextScope
  BY <1>1 DEF Alike, Fields
<1>3. Open(r) = Open(s)
  BY <1>2 DEF Open, ScopeIds
<1>4. Nested(r)
  BY <1>1, <1>2, <1>3 DEF Nested
<1>5. Spares(v, r, {t.id})
  BY <1>2, <1>4, CloseOwnedSpares
<1> HIDE DEF v
<1>6. Spares(w, v, {t.id})
  BY <1>5, WithdrawArmsSpares DEF Spares
<1> HIDE DEF w
<1>7. Spares(u, w, {t.id}) /\ LiveIn(u, t.id)
  BY <1>6, LeaveSpares DEF Spares
<1>8. Interrupt(s, t, b) = u
  BY DEF Interrupt, r, v, w
<1> HIDE DEF u
<1>9. Spares(u, s, {t.id})
  BY <1>1, <1>5, <1>6, <1>7, SparesIsTransitive
<1> QED  BY <1>7, <1>8, <1>9

(* The parent token of a scope leaves, whatever closed the scope.          *)
LEMMA ParentSpares ==
    ASSUME NEW s, NEW c, NEW r, Spares(r, s, {c.token})
    PROVE  LET u == Leave(Unpark(WithdrawArms(r, c.token), c.token), c.token, c.element, c.parent)
           IN  Spares(u, s, {c.token}) /\ LiveIn(u, c.token)
<1> DEFINE v == WithdrawArms(r, c.token)
           w == Unpark(v, c.token)
           u == Leave(w, c.token, c.element, c.parent)
<1>1. Spares(v, r, {c.token})
  BY WithdrawArmsSpares DEF Spares
<1> HIDE DEF v
<1>2. Spares(w, v, {c.token})
  BY <1>1, UnparkSpares DEF Spares
<1> HIDE DEF w
<1>3. Spares(u, w, {c.token}) /\ LiveIn(u, c.token)
  BY <1>2, LeaveSpares DEF Spares
<1> HIDE DEF u
<1>4. Spares(u, s, {c.token}) /\ LiveIn(u, c.token)
  BY <1>1, <1>2, <1>3, SparesIsTransitive
<1> QED  BY <1>4 DEF u, v, w

LEMMA CompleteScopeSpares ==
    ASSUME NEW s, Shaped(s), NEW c \in s.scopes
    PROVE  LET u == CompleteScope(s, c)
           IN  Spares(u, s, {c.token}) /\ LiveIn(u, c.token)
<1> DEFINE r == [s EXCEPT !.scopes = {d \in @ : d.id # c.id}]
<1>1. Alike(r, s, {"scopes"}) /\ r.scopes \subseteq s.scopes
  BY DEF Alike, Shaped, Fields
<1>2. CompleteScope(s, c)
        = Leave(Unpark(WithdrawArms(r, c.token), c.token), c.token, c.element, c.parent)
  BY DEF CompleteScope
<1> HIDE DEF r
<1>3. r.tokens = s.tokens /\ Shaped(r) /\ Open(r) \subseteq Open(s)
  BY <1>1 DEF Alike, Fields, Open, ScopeIds
<1>4. Spares(r, s, {c.token})
  BY <1>3 DEF Spares
<1> QED  BY <1>2, <1>4, ParentSpares

LEMMA EndScopeSpares ==
    ASSUME NEW s, Shaped(s), Nested(s), NEW c \in s.scopes
    PROVE  LET u == CompleteScope(TearDown(s, {c.id}), c)
           IN  Spares(u, s, {c.token}) /\ LiveIn(u, c.token)
<1> DEFINE torn == TearDown(s, {c.id})
           r == [torn EXCEPT !.scopes = {d \in @ : d.id # c.id}]
<1>1. /\ \A d \in s.scopes : d.token = c.token => d = c
      /\ c.parent \in Nat
  BY DEF Nested
<1>2. {d.id : d \in {e \in s.scopes : e.token = c.token}} = {c.id}
  BY <1>1
<1>3. CloseOwned(s, c.token)
          = [TearDown(s, {c.id}) EXCEPT !.scopes = {d \in @ : d.id \notin {c.id}}]
  BY <1>2 DEF CloseOwned
<1>4. r = CloseOwned(s, c.token)
  BY <1>3
<1>5. Spares(CloseOwned(s, c.token), s, {c.token})
  BY <1>1, CloseOwnedSpares
<1>6. CompleteScope(torn, c)
        = Leave(Unpark(WithdrawArms(r, c.token), c.token), c.token, c.element, c.parent)
  BY DEF CompleteScope
<1> HIDE DEF torn, r
<1>7. Spares(r, s, {c.token})
  BY <1>4, <1>5
<1>8. LET u == CompleteScope(torn, c)
      IN  Spares(u, s, {c.token}) /\ LiveIn(u, c.token)
  BY <1>6, <1>7, ParentSpares
<1> QED  BY <1>8 DEF torn

(* What the end of an action does to the tokens: none is lost, and none    *)
(* but the collateral of a freeze changes.                                 *)
Carries(u, s) ==
    /\ Open(u) = Open(s)
    /\ \A t \in s.tokens : t \in u.tokens \/ (t.wait \in Collateral /\ LiveIn(u, t.id))
    /\ \A k : LiveIn(s, k) => LiveIn(u, k)

LEMMA CarriesItself == ASSUME NEW s PROVE Carries(s, s)
BY DEF Carries

LEMMA CarriesIsTransitive ==
    ASSUME NEW s, NEW u, NEW v, Carries(u, s), Carries(v, u)
    PROVE  Carries(v, s)
BY DEF Carries

LEMMA SettleCarries ==
    ASSUME NEW s, Shaped(s), \A t \in s.tokens : DOMAIN t = TokenFields
    PROVE  Carries(Settle(s), s)
<1>1. CASE s.status # "active" \/ s.queue # {}
  BY <1>1, CarriesItself DEF Settle
<1>2. CASE s.status = "active" /\ s.queue = {}
  <2> DEFINE Asked(t) == IF t.wait = "awaiting" THEN [t EXCEPT !.wait = "decision"] ELSE t
             x == {Asked(t) : t \in s.tokens}
             r == IF s.tokens = {} THEN "completed" ELSE "active"
             u == [s EXCEPT !.tokens = x, !.status = r, !.clock = 0]
  <2>1. Settle(s) = u
    BY <1>2 DEF Settle
  <2>2. ASSUME NEW t, DOMAIN t = TokenFields
        PROVE  Asked(t).id = t.id /\ (t.wait # "awaiting" => Asked(t) = t)
    <3>1. CASE t.wait = "awaiting"
      <4>1. Asked(t) = [t EXCEPT !.wait = "decision"]
        BY <3>1
      <4> HIDE DEF Asked
      <4> QED  BY <2>2, <3>1, <4>1 DEF TokenFields
    <3>2. CASE t.wait # "awaiting"
      BY <2>2, <3>2
    <3> QED  BY <3>1, <3>2
  <2>3. \A t \in s.tokens : Asked(t) \in x
    OBVIOUS
  <2> HIDE DEF Asked, x, r
  <2>4. u.tokens = x /\ u.queue = s.queue /\ u.scopes = s.scopes
    BY DEF Shaped, Fields
  <2> HIDE DEF u
  <2>5. Open(u) = Open(s)
    BY <2>4 DEF Open, ScopeIds
  <2>6. ASSUME NEW t \in s.tokens
        PROVE  t \in u.tokens \/ (t.wait \in Collateral /\ LiveIn(u, t.id))
    BY <2>2, <2>3, <2>4 DEF LiveIn, Collateral
  <2>7. \A k : LiveIn(s, k) => LiveIn(u, k)
    BY <2>2, <2>3, <2>4 DEF LiveIn
  <2> QED  BY <2>1, <2>5, <2>6, <2>7 DEF Carries
<1> QED  BY <1>1, <1>2

LEMMA ResumeCarries ==
    ASSUME NEW s, Shaped(s)
    PROVE  Carries(ResumeHalted(s), s)
<1> DEFINE halted == {t \in s.tokens : t.wait = "inflight"}
           Move1(t) == [token |-> t.id, node |-> t.node, scope |-> t.scope, via |-> t.via,
                        at |-> s.clock + t.id]
           x == s.tokens \ halted
           q == s.queue \union {Move1(t) : t \in halted}
           u == [s EXCEPT !.tokens = x, !.queue = q, !.clock = @ + s.nextToken]
<1>1. ResumeHalted(s) = u
  BY DEF ResumeHalted
<1>2. \A t : Move1(t).token = t.id
  OBVIOUS
<1>3. \A t \in s.tokens : t \in x \/ (t.wait = "inflight" /\ Move1(t) \in q)
  OBVIOUS
<1>4. s.queue \subseteq q
  OBVIOUS
<1> HIDE DEF Move1, x, q
<1>5. u.tokens = x /\ u.queue = q /\ u.scopes = s.scopes
  BY DEF Shaped, Fields
<1> HIDE DEF u
<1>6. Open(u) = Open(s)
  BY <1>5 DEF Open, ScopeIds
<1>7. ASSUME NEW t \in s.tokens
      PROVE  t \in u.tokens \/ (t.wait \in Collateral /\ LiveIn(u, t.id))
  BY <1>2, <1>3, <1>5 DEF LiveIn, Collateral
<1>8. \A k : LiveIn(s, k) => LiveIn(u, k)
  BY <1>2, <1>3, <1>4, <1>5 DEF LiveIn
<1> QED  BY <1>1, <1>6, <1>7, <1>8 DEF Carries

-----------------------------------------------------------------------------
(* In the scopes that u leaves open, every token of s is as it was, but    *)
(* for one that moves, the cause of an incident, and the collateral of it. *)
Moves(u, s) ==
    \E k : \A t \in s.tokens : t.scope \in Open(u) =>
        \/ t \in u.tokens
        \/ t.wait = "incident"
        \/ t.wait \in Collateral /\ LiveIn(u, t.id)
        \/ t.id = k /\ LiveIn(u, k)

LEMMA SparedMoves ==
    ASSUME NEW s, NEW v, NEW I, Spares(v, s, I), NEW k,
           \A t \in s.tokens : t.id \in I => t.wait = "incident" \/ (t.id = k /\ LiveIn(v, k)),
           NEW u, Carries(u, v)
    PROVE  Moves(u, s)
<1>1. ASSUME NEW t \in s.tokens, t.scope \in Open(u)
      PROVE  \/ t \in u.tokens \/ t.wait = "incident"
             \/ t.wait \in Collateral /\ LiveIn(u, t.id)
             \/ t.id = k /\ LiveIn(u, k)
  <2>1. CASE t.id \in I
    BY <2>1 DEF Carries
  <2>2. CASE t.id \notin I
    <3>1. t \in v.tokens
      BY <1>1, <2>2 DEF Spares, Carries
    <3> QED  BY <3>1 DEF Carries
  <2> QED  BY <2>1, <2>2
<1> QED  BY <1>1 DEF Moves

LEMMA KeptMoves ==
    ASSUME NEW s, NEW v, s.tokens \subseteq v.tokens, NEW u, Carries(u, v)
    PROVE  Moves(u, s)
BY DEF Moves, Carries

(* A freeze keeps every token, if nothing is inside the scope that the     *)
(* failing one had just opened: R are the scopes it owns.                  *)
Failing(s, id) ==
    /\ Shaped(s) /\ Calm(s) /\ \A t \in s.tokens : DOMAIN t = TokenFields
    /\ \A m \in s.queue : m.token # id
    /\ \A c \in s.scopes : c.token = id =>
        /\ \A d \in s.scopes : d.parent # c.id
        /\ IsEmpty(s, c.id)

LEMMA FreezeIs ==
    ASSUME NEW s, NEW id, Failing(s, id), NEW x, NEW element, NEW n,
           n = [id |-> id, node |-> element, scope |-> x, wait |-> "incident", via |-> NoFlow]
    PROVE  LET u == Freeze(s, id, x, element)
           IN  /\ u.status = "failed" /\ u.queue = {}
               /\ \A t : t \in u.tokens <=>
                    \/ \E k \in s.tokens : k.id # id /\ t = Halted(k)
                    \/ \E m \in s.queue : t = InFlight(m)
                    \/ t = n
               /\ \A i : i \in u.items <=> i \in s.items /\ i.token # id
               /\ \A a : a \in u.arms <=> a \in s.arms /\ a.token # id
<1> DEFINE a == WithdrawArms(s, id)
           b == CloseItem(a, id)
           D == Subtree(b, {k.id : k \in {d \in b.scopes : d.token = id}})
           c == CloseOwned(b, id)
           w == Unpark(c, id)
           y == {Halted(t) : t \in w.tokens} \union {InFlight(m) : m \in w.queue}
           h == [w EXCEPT !.tokens = y]
           p == Park(h, id, element, x, "incident", NoFlow)
           z == p.nextIncident + 1
           u == [p EXCEPT !.queue = {}, !.status = "failed", !.nextIncident = z, !.clock = 0]
<1>1. Freeze(s, id, x, element) = u
  BY DEF Freeze
<1>2. Alike(a, s, {"arms"}) /\ a.arms = {k \in s.arms : k.token # id}
  BY WithdrawArmsIs DEF Failing
<1> HIDE DEF a
<1>3. Alike(b, a, {"items"}) /\ b.items = {i \in a.items : i.token # id}
  BY <1>2, CloseItemIs DEF Alike
<1> HIDE DEF b
<1>4. /\ b.tokens = s.tokens /\ b.arms = a.arms /\ b.scopes = s.scopes /\ b.queue = s.queue
      /\ a.items = s.items /\ Shaped(b)
  BY <1>2, <1>3 DEF Alike, Fields
<1>5. ASSUME NEW k \in D
      PROVE  (\A t \in b.tokens : t.scope # k) /\ (\A m \in b.queue : m.scope # k)
  <2> DEFINE owned == {k1.id : k1 \in {d \in b.scopes : d.token = id}}
             all   == owned \union ScopeIds(b)
  <2>1. owned \in SUBSET all
    OBVIOUS
  <2>2. \A d \in b.scopes : d.parent \notin owned
    BY <1>4 DEF Failing
  <2>3. k \in owned
    BY <1>5, <2>1, <2>2 DEF Subtree
  <2>4. PICK e \in s.scopes : e.token = id /\ e.id = k
    BY <1>4, <2>3
  <2> QED  BY <1>4, <2>4 DEF Failing, IsEmpty
<1>6. D = Subtree(b, {k.id : k \in {d \in b.scopes : d.token = id}})
  OBVIOUS
<1> HIDE DEF D
<1>7. /\ Alike(c, b, {"queue", "tokens", "items", "arms", "scopes"})
      /\ \A m : m \in c.queue <=> m \in b.queue /\ m.scope \notin D
      /\ \A t : t \in c.tokens <=> t \in b.tokens /\ t.scope \notin D
      /\ \A i : i \in c.items <=> i \in b.items /\ Apart(b, D, i.token)
      /\ \A k : k \in c.arms <=> k \in b.arms /\ Apart(b, D, k.token)
  BY <1>4, <1>6, CloseOwnedIs
<1> HIDE DEF c
<1>8. \A k : Apart(b, D, k)
  BY <1>5 DEF Apart
<1>9. /\ \A m : m \in c.queue <=> m \in s.queue
      /\ \A t : t \in c.tokens <=> t \in s.tokens
      /\ \A i : i \in c.items <=> i \in s.items /\ i.token # id
      /\ \A k : k \in c.arms <=> k \in s.arms /\ k.token # id
  BY <1>2, <1>3, <1>4, <1>5, <1>7, <1>8
<1>10. Alike(w, c, {"tokens"}) /\ w.tokens = {t \in c.tokens : t.id # id}
  BY <1>7, UnparkIs DEF Alike
<1> HIDE DEF w
<1>11. w.queue = c.queue /\ w.items = c.items /\ w.arms = c.arms /\ Shaped(w)
  BY <1>10 DEF Alike, Fields
<1>12. \A t : t \in y <=> \/ \E k \in w.tokens : t = Halted(k)
                          \/ \E m \in w.queue : t = InFlight(m)
  OBVIOUS
<1> HIDE DEF y
<1>13. h.tokens = y /\ Alike(h, w, {"tokens"})
  BY <1>11 DEF Alike, Shaped, Fields
<1> HIDE DEF h
<1>14. Alike(p, h, {"tokens"}) /\ p.tokens = y \union {n}
  BY <1>13, ParkIs DEF Alike
<1> HIDE DEF p, z
<1>15. /\ u.status = "failed" /\ u.queue = {} /\ u.tokens = p.tokens
       /\ u.items = p.items /\ u.arms = p.arms
  BY <1>14 DEF Alike, Shaped, Fields
<1> HIDE DEF u
<1>16. u.items = c.items /\ u.arms = c.arms
  BY <1>11, <1>13, <1>14, <1>15 DEF Alike, Fields
<1>17. \A t : t \in u.tokens <=>
         \/ \E k \in s.tokens : k.id # id /\ t = Halted(k)
         \/ \E m \in s.queue : t = InFlight(m)
         \/ t = n
  BY <1>9, <1>10, <1>11, <1>12, <1>14, <1>15
<1> QED  BY <1>1, <1>9, <1>15, <1>16, <1>17

-----------------------------------------------------------------------------
(* The two actions of TokensAreKept, and what gives them.                  *)
Spared ==
    status' \in {"active", "failed"} =>
        LET kept == {t \in tokens : t.scope \in {Root} \union {c.id : c \in scopes'}}
            gone == {t \in kept : t.id \notin Live'}
            moved == {t \in kept : t.wait \notin {"inflight", "incident", "decision", "awaiting"}
                                   /\ t \notin tokens' /\ t.id \in Live'}
        IN  /\ \A t \in gone :
                \/ t.wait = "incident"
                \/ t.wait = "join" /\ \A u \in gone : u.node = t.node /\ u.scope = t.scope
            /\ Cardinality(moved) <= 1

KeptByFreeze ==
    status = "active" /\ status' = "failed" =>
        LET cause == CHOOSE t \in tokens' : t.wait = "incident"
        IN  /\ Live' = Live
            /\ \A t \in tokens \union {InFlight(m) : m \in queue} :
                t.id # cause.id => \E u \in tokens' :
                    u = t \/ u = Halted(t)
            /\ \A i \in items : i.token # cause.id => i \in items'
            /\ \A a \in arms : a.token # cause.id => a \in arms'

LEMMA LiveIs ==
    ASSUME NEW u, Becomes(u), NEW k
    PROVE  k \in Live' <=> LiveIn(u, k)
<1>1. tokens' = u.tokens /\ queue' = u.queue
  BY DEF Becomes
<1>2. Live' = {t.id : t \in tokens'} \union {m.token : m \in queue'}
  BY DEF Live
<1> QED  BY <1>1, <1>2 DEF LiveIn

LEMMA AtMostOne ==
    ASSUME NEW S, \A x, y \in S : x = y
    PROVE  Cardinality(S) <= 1
<1>1. CASE S = {}
  BY <1>1, FS_EmptySet
<1>2. CASE S # {}
  <2>1. PICK x \in S : TRUE
    BY <1>2
  <2> QED  BY <2>1, OneOfThem
<1> QED  BY <1>1, <1>2

LEMMA MovesSpare ==
    ASSUME Unique(Now), NEW u, Becomes(u), Moves(u, Now)
    PROVE  Spared
<1> DEFINE kept == {t \in tokens : t.scope \in {Root} \union {c.id : c \in scopes'}}
           gone == {t \in kept : t.id \notin Live'}
           moved == {t \in kept : t.wait \notin {"inflight", "incident", "decision", "awaiting"}
                                  /\ t \notin tokens' /\ t.id \in Live'}
<1>1. PICK k : \A t \in tokens : t.scope \in Open(u) =>
        \/ t \in u.tokens
        \/ t.wait = "incident"
        \/ t.wait \in Collateral /\ LiveIn(u, t.id)
        \/ t.id = k /\ LiveIn(u, k)
  BY NowIs DEF Moves
<1>2. tokens' = u.tokens /\ scopes' = u.scopes
  BY DEF Becomes
<1>3. \A t \in kept : t \in tokens /\ t.scope \in Open(u)
  BY <1>2 DEF Open, ScopeIds
<1>4. \A t \in gone : t.wait = "incident"
  <2>1. \A t \in gone : t \in kept /\ ~LiveIn(u, t.id)
    BY LiveIs
  <2>2. \A t \in u.tokens : LiveIn(u, t.id)
    BY DEF LiveIn
  <2> QED  BY <1>1, <1>3, <2>1, <2>2
<1>5. \A t \in moved : t \in tokens /\ t.id = k
  BY <1>1, <1>2, <1>3 DEF Collateral
<1>6. \A t, w \in moved : t = w
  BY <1>5, NowIs DEF Unique
<1>7. Cardinality(moved) <= 1
  BY <1>6, AtMostOne
<1> QED  BY <1>4, <1>7 DEF Spared

LEMMA NotFrozenKeeps ==
    ASSUME NEW u, Becomes(u), u.status # "failed"
    PROVE  KeptByFreeze
BY DEF Becomes, KeptByFreeze

(* s is the state before, with token id in hand.                           *)
InHand(s, id) ==
    /\ \A t : t.id # id => (t \in s.tokens <=> t \in tokens)
    /\ \A m : m.token # id => (m \in s.queue <=> m \in queue)
    /\ \A i \in items : i.token # id => i \in s.items
    /\ \A a \in arms : a.token # id => a \in s.arms
    /\ LiveIn(Now, id)

LEMMA FreezeKeeps ==
    ASSUME Unique(Now), NEW s, NEW id, Failing(s, id), InHand(s, id), NEW x, NEW element,
           Becomes(Freeze(s, id, x, element))
    PROVE  Spared /\ KeptByFreeze
<1> DEFINE n == [id |-> id, node |-> element, scope |-> x, wait |-> "incident", via |-> NoFlow]
           u == Freeze(s, id, x, element)
<1>1. n.id = id /\ n.wait = "incident"
  OBVIOUS
<1>2. n = [id |-> id, node |-> element, scope |-> x, wait |-> "incident", via |-> NoFlow]
  OBVIOUS
<1> HIDE DEF n
<1>3. /\ u.status = "failed" /\ u.queue = {}
      /\ \A t : t \in u.tokens <=>
           \/ \E k \in s.tokens : k.id # id /\ t = Halted(k)
           \/ \E m \in s.queue : t = InFlight(m)
           \/ t = n
      /\ \A i : i \in u.items <=> i \in s.items /\ i.token # id
      /\ \A a : a \in u.arms <=> a \in s.arms /\ a.token # id
  BY <1>2, FreezeIs
<1>4. Becomes(u)
  OBVIOUS
<1> HIDE DEF u
<1>5. ASSUME NEW t, DOMAIN t = TokenFields
      PROVE  /\ Halted(t).id = t.id
             /\ t.wait # "decision" => Halted(t) = t
             /\ t.wait # "incident" => Halted(t).wait # "incident"
  <2>1. CASE t.wait = "decision"
    <3>1. Halted(t) = [t EXCEPT !.wait = "awaiting"]
      BY <2>1 DEF Halted
    <3> QED  BY <1>5, <2>1, <3>1 DEF TokenFields
  <2>2. CASE t.wait # "decision"
    BY <2>2 DEF Halted
  <2> QED  BY <2>1, <2>2
<1>6. \A m : InFlight(m).id = m.token /\ InFlight(m).wait = "inflight"
  BY DEF InFlight
<1>7. \A t \in s.tokens : DOMAIN t = TokenFields /\ t.wait # "incident"
  BY DEF Failing, Calm
<1>8. \A m \in s.queue : m.token # id
  BY DEF Failing
<1>9. /\ tokens' = u.tokens /\ queue' = u.queue /\ items' = u.items /\ arms' = u.arms
      /\ scopes' = u.scopes
  BY <1>4 DEF Becomes
<1>10. \A t \in tokens : t.id # id => t \in s.tokens
  BY DEF InHand
<1>11. \A m \in queue : m.token # id => m \in s.queue
  BY DEF InHand
<1>12. Moves(u, Now)
  <2>1. ASSUME NEW t \in tokens, t.id # id
        PROVE  t \in u.tokens \/ (t.wait \in Collateral /\ LiveIn(u, t.id))
    <3>1. Halted(t) \in u.tokens
      BY <1>3, <1>10, <2>1
    <3> QED  BY <1>5, <1>7, <1>10, <2>1, <3>1 DEF LiveIn, Collateral
  <2>2. LiveIn(u, id)
    BY <1>1, <1>3 DEF LiveIn
  <2> QED  BY <2>1, <2>2, NowIs DEF Moves
<1>13. \A k : LiveIn(u, k) <=> LiveIn(Now, k)
  <2>1. ASSUME NEW k, k # id, LiveIn(u, k)
        PROVE  LiveIn(Now, k)
    <3>1. PICK t \in u.tokens : t.id = k
      BY <1>3, <2>1 DEF LiveIn
    <3>2. \/ \E w \in s.tokens : w.id # id /\ t = Halted(w)
          \/ \E m \in s.queue : t = InFlight(m)
      BY <1>1, <1>3, <2>1, <3>1
    <3>3. CASE \E w \in s.tokens : w.id # id /\ t = Halted(w)
      BY <1>5, <1>7, <3>1, <3>3, NowIs DEF InHand, LiveIn
    <3>4. CASE \E m \in s.queue : t = InFlight(m)
      BY <1>6, <1>8, <3>1, <3>4, NowIs DEF InHand, LiveIn
    <3> QED  BY <3>2, <3>3, <3>4
  <2>2. ASSUME NEW k, k # id, LiveIn(Now, k)
        PROVE  LiveIn(u, k)
    <3>1. CASE \E t \in tokens : t.id = k
      <4>1. PICK t \in tokens : t.id = k
        BY <3>1
      <4>2. Halted(t) \in u.tokens /\ Halted(t).id = k
        BY <1>3, <1>5, <1>7, <1>10, <2>2, <4>1
      <4> QED  BY <4>2 DEF LiveIn
    <3>2. CASE \E m \in queue : m.token = k
      <4>1. PICK m \in queue : m.token = k
        BY <3>2
      <4>2. InFlight(m) \in u.tokens
        BY <1>3, <1>11, <2>2, <4>1
      <4> QED  BY <1>6, <4>1, <4>2 DEF LiveIn
    <3> QED  BY <2>2, <3>1, <3>2, NowIs DEF LiveIn
  <2>3. LiveIn(u, id) /\ LiveIn(Now, id)
    BY <1>1, <1>3 DEF LiveIn, InHand
  <2> QED  BY <2>1, <2>2, <2>3
<1>14. Live' = Live
  <2>1. \A k : k \in Live <=> LiveIn(Now, k)
    BY NowIs DEF Live, LiveIn
  <2>2. \A k : k \in Live' <=> LiveIn(u, k)
    BY <1>4, LiveIs
  <2>3. Live' = {t.id : t \in tokens'} \union {m.token : m \in queue'}
    BY DEF Live
  <2>4. Live = {t.id : t \in tokens} \union {m.token : m \in queue}
    BY DEF Live
  <2> QED  BY <1>13, <2>1, <2>2, <2>3, <2>4
<1>15. \A t \in u.tokens : t.wait = "incident" => t = n
  BY <1>3, <1>5, <1>6, <1>7
<1> DEFINE cause == CHOOSE t \in tokens' : t.wait = "incident"
<1>16. cause = n
  <2>1. n \in tokens' /\ n.wait = "incident"
    BY <1>1, <1>3, <1>9
  <2>2. cause \in tokens' /\ cause.wait = "incident"
    BY <2>1
  <2> HIDE DEF cause
  <2> QED  BY <1>9, <1>15, <2>2
<1>17. \A t \in tokens : t.id # id => Halted(t) \in tokens'
  BY <1>3, <1>9, <1>10
<1>18. \A m \in queue : m.token # id => InFlight(m) \in tokens'
  BY <1>3, <1>9, <1>11
<1>19. \A t \in tokens \union {InFlight(m) : m \in queue} :
         t.id # id => \E w \in tokens' : w = t \/ w = Halted(t)
  BY <1>6, <1>17, <1>18
<1>20. /\ \A i \in items : i.token # id => i \in items'
       /\ \A a \in arms : a.token # id => a \in arms'
  BY <1>3, <1>9 DEF InHand
<1>21. KeptByFreeze
  BY <1>1, <1>14, <1>16, <1>19, <1>20 DEF KeptByFreeze
<1> QED  BY <1>4, <1>12, <1>21, MovesSpare

-----------------------------------------------------------------------------
(* Once more, one lemma per group of actions.                              *)

LEMMA StepKeeps ==
    ASSUME Unique(Now), NEW u, Becomes(u), Moves(u, Now), u.status # "failed"
    PROVE  Spared /\ KeptByFreeze
BY MovesSpare, NotFrozenKeeps

LEMMA EndKeeps ==
    ASSUME NEW u, Becomes(u), u.status \in {"completed", "terminated"}
    PROVE  Spared /\ KeptByFreeze
BY DEF Becomes, Spared, KeptByFreeze

(* The tokens stay where they are; one may have parked or been born.       *)
LEMMA StayKeeps ==
    ASSUME Unique(Now), NEW s, Awake(s), NEW u, Below(u, s), tokens \subseteq u.tokens, Becomes(u)
    PROVE  Spared /\ KeptByFreeze
<1>1. Moves(u, Now)
  BY NowIs, CarriesItself, KeptMoves
<1>2. u.status = "active"
  BY DEF Below, Awake
<1> QED  BY <1>1, <1>2, StepKeeps

LEMMA SettledStatus ==
    ASSUME NEW s, Shaped(s), s.status = "active"
    PROVE  Settle(s).status # "failed"
<1> DEFINE x == {IF t.wait = "awaiting" THEN [t EXCEPT !.wait = "decision"] ELSE t
                   : t \in s.tokens}
           r == IF s.tokens = {} THEN "completed" ELSE "active"
           v == [s EXCEPT !.tokens = x, !.status = r, !.clock = 0]
<1>1. Settle(s) = s \/ Settle(s) = v
  BY DEF Settle
<1>2. r # "failed"
  OBVIOUS
<1> HIDE DEF x, r
<1>3. v.status = r
  BY DEF Shaped, Fields
<1> HIDE DEF v
<1> QED  BY <1>1, <1>2, <1>3

LEMMA SettleKeeps ==
    ASSUME Unique(Now), NEW s, Shaped(s), Unique(s), Awake(s), tokens \subseteq s.tokens,
           Becomes(Settle(s))
    PROVE  Spared /\ KeptByFreeze
<1> DEFINE u == Settle(s)
<1>1. Carries(u, s)
  BY SettleCarries DEF Unique
<1>2. u.status # "failed"
  BY SettledStatus DEF Awake
<1>3. Becomes(u)
  OBVIOUS
<1> HIDE DEF u
<1>4. Moves(u, Now)
  BY <1>1, NowIs, KeptMoves
<1> QED  BY <1>2, <1>3, <1>4, StepKeeps

LEMMA ArmOrFreezeKeeps ==
    ASSUME Unique(Now), NEW s, Awake(s), Unique(s), NEW id, Failing(s, id), InHand(s, id),
           tokens \subseteq s.tokens, NEW x, NEW els, ArmOrFreeze(s, id, x, els)
    PROVE  Spared /\ KeptByFreeze
<1>1. CASE Becomes(Settle(ArmAll(s, els, id)))
  <2> DEFINE u == ArmAll(s, els, id)
  <2>1. Alike(u, s, {"arms"})
    BY ArmAllIs DEF Failing
  <2>2. Becomes(Settle(u))
    BY <1>1
  <2> HIDE DEF u
  <2>3. /\ u.tokens = s.tokens /\ u.queue = s.queue /\ u.nextToken = s.nextToken
        /\ u.status = s.status /\ Shaped(u)
    BY <2>1 DEF Alike, Fields
  <2>4. Unique(u) /\ Awake(u)
    BY <2>3 DEF Unique, Awake
  <2> QED  BY <2>2, <2>3, <2>4, SettleKeeps
<1>2. ASSUME NEW k \in DOMAIN els, Becomes(Freeze(s, id, x, els[k]))
      PROVE  Spared /\ KeptByFreeze
  BY <1>2, FreezeKeeps
<1> QED  BY <1>1, <1>2 DEF ArmOrFreeze

(* The state in which move m has been taken and its token has parked.      *)
LEMMA ParkedKeeps ==
    ASSUME Good(Now), Coherent(Now), status = "active", NEW m \in queue,
           NEW t, t.id = m.token, DOMAIN t = TokenFields, t.wait \notin {"incident", "inflight"},
           NEW s, Shaped(s), s.tokens = tokens \union {t}, s.queue = queue \ {m},
           s.arms = arms, items \subseteq s.items
    PROVE  /\ InHand(s, m.token) /\ Calm(s)
           /\ \A w \in s.tokens : DOMAIN w = TokenFields
           /\ \A k \in s.queue : k.token # m.token
<1>1. Unique(Now) /\ Awake(Now)
  BY ActiveIsAwake DEF Whole
<1>2. \A k \in queue : k.token = m.token => k = m
  BY <1>1, NowIs DEF Unique
<1>3. InHand(s, m.token)
  BY <1>2, NowIs DEF InHand, LiveIn
<1>4. Calm(s)
  BY <1>1, NowIs DEF Awake, Calm
<1>5. \A w \in s.tokens : DOMAIN w = TokenFields
  BY <1>1, NowIs DEF Unique
<1> QED  BY <1>2, <1>3, <1>4, <1>5

LEMMA EnterTaskKeeps ==
    ASSUME Good(Now), Coherent(Now), NEW m \in queue, EnterTask(m)
    PROVE  Spared /\ KeptByFreeze
<1> DEFINE s == Taken(m)
           p == Park(s, m.token, m.node, m.scope, "workitem", NoFlow)
           t == [id |-> m.token, node |-> m.node, scope |-> m.scope,
                 wait |-> "workitem", via |-> NoFlow]
           i == [token |-> m.token, element |-> m.node]
           o == [p EXCEPT !.items = @ \union {i}]
<1>1. status = "active" /\ ArmOrFreeze(o, m.token, m.scope, ArmedAt(m.node))
  BY DEF EnterTask, Enters
<1>2. /\ Shaped(s) /\ Awake(s) /\ Loose(s, m.token, m.scope) /\ Gone(s, m.token)
  BY <1>1, TakenIs
<1>3. /\ s.tokens = tokens /\ s.items = items /\ s.arms = arms
      /\ s.queue = queue \ {m} /\ s.scopes = scopes
  BY DEF Taken, Now
<1> HIDE DEF s
<1>4. Alike(p, s, {"tokens"}) /\ p.tokens = s.tokens \union {t}
  BY <1>2, ParkIs
<1>5. Shaped(p) /\ Loose(p, m.token, m.scope) /\ Awake(p)
  BY <1>2, ParkIsLoose, ParkAwake DEF Gone
<1>6. t.id = m.token /\ t.wait = "workitem" /\ DOMAIN t = TokenFields
  BY DEF TokenFields
<1> HIDE DEF p, t, i
<1>7. Alike(o, p, {"items"}) /\ o.items = p.items \union {i}
  BY <1>5 DEF Alike, Shaped, Fields
<1> HIDE DEF o
<1>8. /\ o.tokens = tokens \union {t} /\ o.arms = arms /\ o.queue = queue \ {m}
      /\ o.scopes = s.scopes /\ items \subseteq o.items /\ Shaped(o)
      /\ o.status = p.status /\ o.nextToken = p.nextToken /\ o.tokens = p.tokens
      /\ o.queue = p.queue
  BY <1>3, <1>4, <1>7 DEF Alike, Fields
<1>9. Awake(o) /\ Unique(o)
  BY <1>5, <1>8 DEF Awake, Loose, Unique
<1>10. InHand(o, m.token) /\ Failing(o, m.token)
  BY <1>1, <1>2, <1>6, <1>8, ParkedKeeps DEF Failing, Gone
<1> QED
  BY <1>1, <1>8, <1>9, <1>10, ActiveIsAwake, ArmOrFreezeKeeps DEF Whole

LEMMA EnterCatchKeeps ==
    ASSUME Good(Now), Coherent(Now), NEW m \in queue, EnterCatch(m)
    PROVE  Spared /\ KeptByFreeze
<1>1. PICK kind \in {"timer", "message", "eventgateway"} :
        /\ Enters(m, kind)
        /\ ArmOrFreeze(Park(Taken(m), m.token, m.node, m.scope, kind, NoFlow),
                       m.token, m.scope, ArmedAt(m.node))
  BY DEF EnterCatch
<1> DEFINE s == Taken(m)
           p == Park(s, m.token, m.node, m.scope, kind, NoFlow)
           t == [id |-> m.token, node |-> m.node, scope |-> m.scope,
                 wait |-> kind, via |-> NoFlow]
<1>2. /\ Shaped(s) /\ Awake(s) /\ Loose(s, m.token, m.scope) /\ Gone(s, m.token)
      /\ status = "active"
  BY <1>1, TakenIs DEF Enters
<1>3. /\ s.tokens = tokens /\ s.items = items /\ s.arms = arms
      /\ s.queue = queue \ {m} /\ s.scopes = scopes
  BY DEF Taken, Now
<1>4. ArmOrFreeze(p, m.token, m.scope, ArmedAt(m.node))
  BY <1>1
<1> HIDE DEF s
<1>5. Alike(p, s, {"tokens"}) /\ p.tokens = s.tokens \union {t}
  BY <1>2, ParkIs
<1>6. Shaped(p) /\ Loose(p, m.token, m.scope) /\ Awake(p)
  BY <1>2, ParkIsLoose, ParkAwake DEF Gone
<1>7. t.id = m.token /\ t.wait = kind /\ DOMAIN t = TokenFields
  BY DEF TokenFields
<1> HIDE DEF p, t
<1>8. /\ p.tokens = tokens \union {t} /\ p.arms = arms /\ p.queue = queue \ {m}
      /\ p.scopes = s.scopes /\ p.items = items
  BY <1>3, <1>5 DEF Alike, Fields
<1>9. InHand(p, m.token) /\ Failing(p, m.token)
  BY <1>2, <1>6, <1>7, <1>8, ParkedKeeps DEF Failing, Gone
<1>10. Unique(p)
  BY <1>6 DEF Loose
<1> QED
  BY <1>2, <1>4, <1>6, <1>8, <1>9, <1>10, ActiveIsAwake, ArmOrFreezeKeeps DEF Whole

LEMMA EnterSubProcessKeeps ==
    ASSUME Good(Now), Coherent(Now), NEW m \in queue, EnterSubProcess(m)
    PROVE  Spared /\ KeptByFreeze
<1> DEFINE s == Taken(m)
           p == Park(s, m.token, m.node, m.scope, "scope", NoFlow)
           t == [id |-> m.token, node |-> m.node, scope |-> m.scope,
                 wait |-> "scope", via |-> NoFlow]
           child == [id |-> nextScope, element |-> m.node, parent |-> m.scope,
                     token |-> m.token]
           o     == [p EXCEPT !.scopes = @ \union {child}, !.nextScope = @ + 1]
           els   == ArmedAt(m.node)
           armed == ArmAll(o, els, m.token)
           k1    == armed.nextToken
           fresh == [armed EXCEPT !.nextToken = @ + 1]
           u     == Go(fresh, k1, BodyStart[m.node], nextScope, NoFlow)
<1>1. status = "active"
  BY DEF EnterSubProcess, Enters
<1>2. Becomes(u) \/ \E k \in DOMAIN els : Becomes(Freeze(o, m.token, m.scope, els[k]))
  BY Zenon DEF EnterSubProcess
<1>3. /\ Shaped(s) /\ Awake(s) /\ Loose(s, m.token, m.scope) /\ Gone(s, m.token)
  BY <1>1, TakenIs
<1>4. /\ s.tokens = tokens /\ s.items = items /\ s.arms = arms
      /\ s.queue = queue \ {m} /\ s.scopes = scopes /\ s.nextScope = nextScope
  BY DEF Taken, Now
<1> HIDE DEF s
<1>5. Alike(p, s, {"tokens"}) /\ p.tokens = s.tokens \union {t}
  BY <1>3, ParkIs
<1>6. Shaped(p) /\ Loose(p, m.token, m.scope) /\ Awake(p)
  BY <1>3, ParkIsLoose, ParkAwake DEF Gone
<1>7. t.id = m.token /\ t.scope = m.scope /\ t.wait = "scope" /\ DOMAIN t = TokenFields
  BY DEF TokenFields
<1>8. child.id = nextScope /\ child.parent = m.scope /\ child.token = m.token
  OBVIOUS
<1> HIDE DEF p, t, child
<1>9. /\ Alike(o, p, {"scopes", "nextScope"}) /\ o.scopes = p.scopes \union {child}
  BY <1>6 DEF Alike, Shaped, Fields
<1> HIDE DEF o
<1>10. /\ o.tokens = tokens \union {t} /\ o.arms = arms /\ o.queue = queue \ {m}
       /\ o.scopes = scopes \union {child} /\ o.items = items /\ Shaped(o)
       /\ o.status = p.status /\ o.tokens = p.tokens
  BY <1>4, <1>5, <1>9 DEF Alike, Fields
<1>11. Awake(o) /\ Unique(Now)
  BY <1>1, <1>6, <1>10, ActiveIsAwake DEF Awake, Whole
<1>12. CASE Becomes(u)
  <2>1. Alike(armed, o, {"arms"})
    BY <1>10, ArmAllIs
  <2> HIDE DEF armed
  <2>2. /\ fresh.tokens = armed.tokens /\ Shaped(fresh) /\ fresh.status = armed.status
    BY <2>1 DEF Alike, Shaped, Fields
  <2> HIDE DEF fresh
  <2>3. u.tokens = fresh.tokens /\ Below(u, fresh)
    BY <2>2, GoSpares, GoBelow
  <2>4. u.tokens = o.tokens /\ Shaped(u) /\ u.status = o.status
    BY <2>1, <2>2, <2>3 DEF Below, Alike, Fields
  <2> HIDE DEF u
  <2>5. Below(u, o)
    BY <2>4 DEF Below
  <2> QED  BY <1>10, <1>11, <1>12, <2>4, <2>5, StayKeeps
<1>13. ASSUME NEW k \in DOMAIN els, Becomes(Freeze(o, m.token, m.scope, els[k]))
       PROVE  Spared /\ KeptByFreeze
  <2>1. /\ \A w \in tokens : w.scope \in Open(Now)
        /\ \A w \in queue : w.scope \in Open(Now)
        /\ \A c \in scopes : c.parent \in Nat /\ c.parent < nextScope /\ c.id < nextScope
        /\ \A y \in Open(Now) : y # nextScope
        /\ nextScope \in Nat
    <3>1. Now.nextScope = nextScope /\ Nested(Now)
      BY DEF Now, Coherent, Whole
    <3>2. /\ nextScope \in Nat \ {0}
          /\ \A c \in scopes : /\ c.id \in Nat /\ c.parent \in Nat
                              /\ c.parent < c.id /\ c.id < nextScope
          /\ \A w \in tokens : w.scope \in Open(Now)
          /\ \A w \in queue : w.scope \in Open(Now)
      BY <3>1, NowIs DEF Nested
    <3>3. \A y \in Open(Now) : y = Root \/ \E c \in scopes : y = c.id
      BY NowIs DEF Open, ScopeIds
    <3> QED  BY <3>2, <3>3 DEF Root
  <2>2. m.scope # nextScope
    BY <2>1
  <2>3. \A c \in o.scopes : c.token = m.token => c = child
    BY <1>3, <1>4, <1>10 DEF Gone
  <2>4. \A d \in o.scopes : d.parent # child.id
    BY <1>8, <1>10, <2>1, <2>2
  <2>5. IsEmpty(o, child.id)
    BY <1>7, <1>8, <1>10, <2>1, <2>2 DEF IsEmpty
  <2>6. InHand(o, m.token) /\ Failing(o, m.token)
    BY <1>1, <1>7, <1>10, <2>3, <2>4, <2>5, ParkedKeeps DEF Failing
  <2> QED  BY <1>11, <1>13, <2>6, FreezeKeeps
<1> QED  BY <1>2, <1>12, <1>13

LEMMA EnterJoinKeeps ==
    ASSUME Good(Now), Coherent(Now), NEW m \in queue, EnterJoin(m)
    PROVE  Spared /\ KeptByFreeze
<1> DEFINE s == Taken(m)
<1>1. status = "active" /\ (JoinParks(m) \/ JoinFires(m))
  BY DEF EnterJoin, Enters
<1>2. /\ Shaped(s) /\ Awake(s) /\ Loose(s, m.token, m.scope) /\ Gone(s, m.token)
      /\ s.tokens = tokens /\ s.queue \subseteq queue /\ s.nextToken = nextToken
  <2>1. s.tokens = tokens /\ s.queue \subseteq queue /\ s.nextToken = nextToken
    BY DEF Taken, Now
  <2> QED  BY <1>1, <2>1, TakenIs
<1>3. Unique(Now) /\ Awake(Now)
  BY <1>1, ActiveIsAwake DEF Whole
<1>4. CASE JoinParks(m)
  <2> DEFINE p == Park(s, m.token, m.node, m.scope, "join", m.via)
  <2>1. Becomes(Settle(p))
    BY <1>4 DEF JoinParks
  <2> HIDE DEF s
  <2>2. Shaped(p) /\ Whole(p) /\ Awake(p)
    BY <1>2, RestIsWhole, ParkAwake
  <2>3. tokens \subseteq p.tokens
    BY <1>2, ParkIs
  <2> QED  BY <1>3, <2>1, <2>2, <2>3, SettleKeeps DEF Whole
<1>5. CASE JoinFires(m)
  <2> DEFINE r == [s EXCEPT !.tokens = @ \ Arrived(m)]
             u == LeaveFresh(r, m.node, m.scope)
  <2>1. Becomes(u)
    BY <1>5 DEF JoinFires
  <2>2. \A t \in Arrived(m) : t.wait = "join" /\ t.node = m.node /\ t.scope = m.scope
    BY DEF Arrived
  <2> HIDE DEF s
  <2>3. Alike(r, s, {"tokens"}) /\ r.tokens = s.tokens \ Arrived(m)
    BY <1>2 DEF Alike, Shaped, Fields
  <2> HIDE DEF r
  <2>4. r.queue = s.queue /\ r.nextToken = s.nextToken /\ Shaped(r) /\ r.status = "active"
    BY <1>2, <2>3 DEF Alike, Fields, Awake
  <2>5. /\ u.tokens = r.tokens /\ u.status = r.status
        /\ \E k : k.token = r.nextToken /\ u.queue = r.queue \union {k}
    BY <2>4, LeaveFreshSpares, LeaveFreshBelow DEF Below
  <2> HIDE DEF u
  <2>6. tokens' = tokens \ Arrived(m)
    BY <1>2, <2>1, <2>3, <2>5 DEF Becomes
  <2> DEFINE kept == {t \in tokens : t.scope \in {Root} \union {c.id : c \in scopes'}}
             gone == {t \in kept : t.id \notin Live'}
             moved == {t \in kept : t.wait \notin {"inflight", "incident", "decision", "awaiting"}
                                    /\ t \notin tokens' /\ t.id \in Live'}
  <2>7. \A t \in tokens' : t.id \in Live'
    BY DEF Live
  <2>8. \A t \in gone : t.wait = "join" /\ t.node = m.node /\ t.scope = m.scope
    BY <2>2, <2>6, <2>7
  <2>9. ASSUME NEW t \in tokens, t \notin tokens'
        PROVE  ~LiveIn(u, t.id)
    <3>1. \A w \in u.tokens : w.id # t.id
      BY <1>2, <1>3, <2>3, <2>5, <2>6, <2>9, NowIs DEF Unique
    <3>2. \A k \in queue : k.token # t.id
      BY <1>3, NowIs DEF Unique
    <3>3. nextToken \in Nat /\ t.id \in Nat /\ t.id < nextToken
      BY <1>3, NowIs DEF Unique
    <3>4. t.id # nextToken
      BY <3>3
    <3> QED  BY <1>2, <2>4, <2>5, <3>1, <3>2, <3>4 DEF LiveIn
  <2>10. \A t \in moved : FALSE
    BY <2>1, <2>9, LiveIs
  <2>11. Cardinality(moved) <= 1
    BY <2>10, AtMostOne
  <2>12. Spared
    BY <2>8, <2>11 DEF Spared
  <2> QED  BY <2>1, <2>4, <2>5, <2>12, NotFrozenKeeps
<1> QED  BY <1>1, <1>4, <1>5

LEMMA EnterKeeps ==
    ASSUME Good(Now), Coherent(Now), NEW m \in queue, Enter(m)
    PROVE  Spared /\ KeptByFreeze
<1> DEFINE s == Taken(m)
<1>1. status = "active"
  BY DEF Enter, EnterStart, EnterRule, EnterTask, EnterCatch, EnterSubProcess, EnterExclusive,
         EnterSplit, EnterJoin, EnterEnd, EnterTerminate, Enters
<1>2. /\ Shaped(s) /\ Awake(s) /\ Loose(s, m.token, m.scope) /\ Gone(s, m.token)
      /\ s.scopes = scopes /\ s.tokens = tokens /\ m.node \in Node
  <2>1. s.tokens = tokens
    BY DEF Taken, Now
  <2> QED  BY <1>1, <2>1, TakenIs, TakenGood
<1>3. Unique(Now) /\ s.status = "active" /\ Unique(s) /\ Nested(s)
  BY <1>1, <1>2, ActiveIsAwake DEF Whole, Awake, Loose
<1> HIDE DEF s
<1>4. ASSUME NEW c \in s.scopes, NEW u, Spares(u, s, {c.token}), LiveIn(u, c.token),
             u.status = "active", Becomes(u)
      PROVE  Spared /\ KeptByFreeze
  <2>1. Moves(u, s)
    BY <1>4, CarriesItself, SparedMoves
  <2>2. Moves(u, Now)
    BY <1>2, <2>1, NowIs DEF Moves
  <2> QED  BY <1>3, <1>4, <2>2, StepKeeps
<1>5. CASE EnterStart(m)
  <2> DEFINE u == Leave(s, m.token, m.node, m.scope)
  <2>1. Becomes(u)
    BY <1>5 DEF EnterStart, s
  <2>2. Below(u, s) /\ u.tokens = s.tokens
    BY <1>2, LeaveBelow, LeaveSpares
  <2> HIDE DEF u
  <2> QED  BY <1>2, <1>3, <2>1, <2>2, StayKeeps
<1>6. CASE EnterRule(m)
  <2> DEFINE p == Park(s, m.token, m.node, m.scope, "decision", NoFlow)
  <2>1. Becomes(Settle(p))
    BY <1>6 DEF EnterRule, s
  <2>2. Shaped(p) /\ Whole(p) /\ Awake(p)
    BY <1>2, RestIsWhole, ParkAwake
  <2>3. tokens \subseteq p.tokens
    BY <1>2, ParkIs
  <2> QED  BY <1>3, <2>1, <2>2, <2>3, SettleKeeps DEF Whole
<1>7. CASE EnterExclusive(m)
  <2>1. PICK i \in DOMAIN Outgoing[m.node] :
          LET flow == Outgoing[m.node][i]
          IN  Becomes(Go(s, m.token, Target[flow], m.scope, flow))
    BY <1>7 DEF EnterExclusive, s
  <2> DEFINE flow == Outgoing[m.node][i]
             u == Go(s, m.token, Target[flow], m.scope, flow)
  <2>2. Becomes(u)
    BY <2>1
  <2>3. Below(u, s) /\ u.tokens = s.tokens
    BY <1>2, GoBelow, GoSpares
  <2> HIDE DEF u
  <2> QED  BY <1>2, <1>3, <2>2, <2>3, StayKeeps
<1>8. CASE EnterSplit(m)
  <2> DEFINE u == Split(s, m.node, m.scope)
  <2>1. Becomes(u)
    BY <1>8 DEF EnterSplit, s
  <2>2. u.tokens = s.tokens /\ u.status = s.status /\ Shaped(u)
    BY <1>2 DEF Split, Shaped, Fields
  <2> HIDE DEF u
  <2>3. Below(u, s)
    BY <2>2 DEF Below
  <2> QED  BY <1>2, <1>3, <2>1, <2>2, <2>3, StayKeeps
<1>9. CASE EnterEnd(m)
  <2>1. CASE Becomes(Settle(s))
    BY <1>2, <1>3, <2>1, SettleKeeps
  <2>2. ASSUME NEW c \in s.scopes, Becomes(CompleteScope(s, c))
        PROVE  Spared /\ KeptByFreeze
    <3> DEFINE u == CompleteScope(s, c)
    <3>1. Spares(u, s, {c.token}) /\ LiveIn(u, c.token) /\ Below(u, s)
      BY <1>2, CompleteScopeSpares, CompleteScopeBelow
    <3>2. Becomes(u)
      BY <2>2
    <3> HIDE DEF u
    <3> QED  BY <1>3, <1>4, <3>1, <3>2 DEF Below
  <2> QED  BY <1>9, <2>1, <2>2 DEF EnterEnd, Consumed, s
<1>10. CASE EnterTerminate(m)
  <2>1. CASE Becomes(Terminate(s))
    <3>1. Terminate(s).status = "terminated"
      BY <1>2 DEF Terminate, Shaped, Fields
    <3> QED  BY <2>1, <3>1, EndKeeps
  <2>2. ASSUME NEW c \in scopes, Becomes(CompleteScope(TearDown(s, {c.id}), c))
        PROVE  Spared /\ KeptByFreeze
    <3> DEFINE r == TearDown(s, {c.id})
               u == CompleteScope(r, c)
    <3>1. Spares(u, s, {c.token}) /\ LiveIn(u, c.token)
      BY <1>2, <1>3, EndScopeSpares
    <3>2. Below(r, s)
      BY <1>2, TearDownBelow
    <3> HIDE DEF r
    <3>3. Below(u, r)
      BY <3>2, CompleteScopeBelow DEF Below
    <3>4. Becomes(u)
      BY <2>2 DEF r
    <3> HIDE DEF u
    <3> QED  BY <1>2, <1>3, <1>4, <3>1, <3>2, <3>3, <3>4 DEF Below
  <2> QED  BY <1>10, <2>1, <2>2 DEF EnterTerminate, s
<1> QED
  BY <1>5, <1>6, <1>7, <1>8, <1>9, <1>10, EnterTaskKeeps, EnterCatchKeeps,
     EnterSubProcessKeeps, EnterJoinKeeps DEF Enter

(* A token leaves its node; nothing else of the tokens changes.            *)
LEMMA DepartureKeeps ==
    ASSUME Unique(Now), Awake(Now), NEW t \in tokens, NEW v, Shaped(v), v.scopes = scopes,
           v.status = status, v.tokens = {w \in tokens : w.id # t.id}, NEW node,
           Becomes(Leave(v, t.id, node, t.scope))
    PROVE  Spared /\ KeptByFreeze
<1> DEFINE u == Leave(v, t.id, node, t.scope)
<1>1. Becomes(u)
  OBVIOUS
<1>2. /\ Spares(u, v, {t.id}) /\ LiveIn(u, t.id)
      /\ Below(u, v)
  BY LeaveSpares, LeaveBelow
<1> HIDE DEF u
<1>3. Open(v) = Open(Now)
  BY NowIs DEF Open, ScopeIds
<1>4. Spares(v, Now, {t.id})
  BY <1>3, NowIs DEF Spares
<1>5. Spares(u, Now, {t.id})
  BY <1>2, <1>4, SparesIsTransitive
<1>6. Moves(u, Now)
  BY <1>2, <1>5, CarriesItself, SparedMoves
<1>7. u.status = "active"
  BY <1>2, NowIs DEF Below, Awake
<1> QED  BY <1>1, <1>6, <1>7, StepKeeps

LEMMA AnswerKeeps ==
    ASSUME Good(Now), Coherent(Now), Answer
    PROVE  Spared /\ KeptByFreeze
<1>1. PICK t \in tokens : DecisionFails(t) \/ \E v \in Value : AnswerDecision(t, v)
  BY DEF Answer
<1> DEFINE n == Now
<1>2. status = "active" /\ t.wait = "decision"
  BY <1>1 DEF DecisionFails, AnswerDecision, IsNextDecision
<1>3. Shaped(n) /\ Awake(n) /\ Whole(n) /\ Unique(Now)
  BY <1>2, ActiveIsAwake DEF Whole
<1>4. n.tokens = tokens /\ n.scopes = scopes /\ n.status = status /\ n.queue = queue
      /\ n.items = items /\ n.arms = arms
  BY NowIs
<1> HIDE DEF n
<1>5. CASE DecisionFails(t)
  <2>1. Becomes(Freeze(n, t.id, t.scope, t.node))
    BY <1>5 DEF DecisionFails, n
  <2>2. \A c \in n.scopes : c.token # t.id
    BY <1>2, <1>3, <1>4, TokenHolds
  <2>3. Failing(n, t.id)
    BY <1>3, <1>4, <2>2 DEF Failing, Awake, Calm, Whole, Unique
  <2>4. InHand(n, t.id)
    BY <1>4, NowIs DEF InHand, LiveIn
  <2> QED  BY <1>3, <2>1, <2>3, <2>4, FreezeKeeps
<1>6. ASSUME NEW answer \in Value, AnswerDecision(t, answer)
      PROVE  Spared /\ KeptByFreeze
  <2> DEFINE s == [n EXCEPT !.variables[Result[t.node]] = answer]
             p == Unpark(s, t.id)
             v == WithdrawArms(p, t.id)
             u == Leave(v, t.id, t.node, t.scope)
  <2>1. Becomes(u)
    BY <1>6 DEF AnswerDecision, n
  <2>2. Alike(s, n, {"variables"})
    BY <1>3 DEF Alike, Shaped, Fields
  <2> HIDE DEF s
  <2>3. Alike(p, s, {"tokens"}) /\ p.tokens = {w \in s.tokens : w.id # t.id}
    BY <2>2, UnparkIs DEF Alike
  <2> HIDE DEF p
  <2>4. Alike(v, p, {"arms"})
    BY <2>3, WithdrawArmsIs DEF Alike
  <2> HIDE DEF v
  <2>5. /\ Shaped(v) /\ v.scopes = scopes /\ v.status = status
        /\ v.tokens = {w \in tokens : w.id # t.id}
    BY <1>4, <2>2, <2>3, <2>4 DEF Alike, Fields
  <2> QED  BY <1>3, <2>1, <2>5, DepartureKeeps DEF n
<1> QED  BY <1>1, <1>5, <1>6

LEMMA ResumedFields ==
    ASSUME NEW s, Shaped(s)
    PROVE  LET u == ResumeHalted(s)
           IN  Shaped(u) /\ u.status = s.status /\ u.tokens \subseteq s.tokens
<1> DEFINE halted == {t \in s.tokens : t.wait = "inflight"}
           q == s.queue \union
                  {[token |-> t.id, node |-> t.node, scope |-> t.scope, via |-> t.via,
                    at |-> s.clock + t.id] : t \in halted}
           x == s.tokens \ halted
           u == [s EXCEPT !.tokens = x, !.queue = q, !.clock = @ + s.nextToken]
<1>1. ResumeHalted(s) = u
  BY DEF ResumeHalted
<1>2. x \subseteq s.tokens
  OBVIOUS
<1> HIDE DEF halted, q, x
<1>3. Shaped(u) /\ u.status = s.status /\ u.tokens = x
  BY DEF Shaped, Fields
<1> QED  BY <1>1, <1>2, <1>3

LEMMA CompleteWorkItemKeeps ==
    ASSUME Good(Now), Coherent(Now), NEW i \in items, NEW doc \in Document,
           CompleteWorkItem(i, doc)
    PROVE  Spared /\ KeptByFreeze
<1> DEFINE n == Now
           c == CloseItem(n, i.token)
           d == [c EXCEPT !.variables = doc]
           s == Unpark(d, i.token)
           v == WithdrawArms(s, i.token)
<1>1. PICK t \in tokens : /\ t.id = i.token
                          /\ Becomes(Leave(v, i.token, i.element, t.scope))
  BY DEF CompleteWorkItem
<1>2. Shaped(n) /\ Awake(n) /\ Unique(n)
  BY ActiveIsAwake DEF CompleteWorkItem, Commanded, Whole
<1>a. n.tokens = tokens /\ n.scopes = scopes /\ n.status = status
  BY NowIs
<1> HIDE DEF n
<1>4. Alike(c, n, {"items"})
  BY <1>2, CloseItemIs
<1> HIDE DEF c
<1>5. Alike(d, c, {"variables"})
  BY <1>4 DEF Alike, Shaped, Fields
<1> HIDE DEF d
<1>6. Alike(s, d, {"tokens"}) /\ s.tokens = {w \in d.tokens : w.id # i.token}
  BY <1>5, UnparkIs DEF Alike
<1> HIDE DEF s
<1>7. Alike(v, s, {"arms"})
  BY <1>6, WithdrawArmsIs DEF Alike
<1> HIDE DEF v
<1>8. /\ Shaped(v) /\ v.scopes = scopes /\ v.status = status
      /\ v.tokens = {w \in tokens : w.id # t.id}
  BY <1>1, <1>a, <1>4, <1>5, <1>6, <1>7 DEF Alike, Fields
<1>9. Becomes(Leave(v, t.id, i.element, t.scope))
  BY <1>1
<1>10. Unique(Now) /\ Awake(Now)
  BY <1>2 DEF n
<1> QED  BY <1>8, <1>9, <1>10, DepartureKeeps

LEMMA AwaitedKeeps ==
    ASSUME Good(Now), Coherent(Now), status = "active", NEW a \in arms, NEW doc,
           NEW t \in tokens, t.id = a.token,
           CatchFires(a, t, doc) \/ GatewayFires(a, t, doc)
    PROVE  Spared /\ KeptByFreeze
<1> DEFINE n == Now
           s == Spent(a, doc)
           w == WithdrawArms(s, t.id)
           v == Unpark(w, t.id)
<1>1. Becomes(Leave(v, t.id, a.element, t.scope))
  BY DEF CatchFires, GatewayFires
<1>2. Awake(Now) /\ Unique(Now)
  BY ActiveIsAwake DEF Whole
<1>a. n.tokens = tokens /\ n.scopes = scopes /\ n.status = status
  BY NowIs
<1>3. Shaped(s) /\ Alike(s, n, {"variables", "arms"})
  BY SpentIs
<1> HIDE DEF n, s
<1>4. Alike(w, s, {"arms"})
  BY <1>3, WithdrawArmsIs
<1> HIDE DEF w
<1>5. Alike(v, w, {"tokens"}) /\ v.tokens = {x \in w.tokens : x.id # t.id}
  BY <1>4, UnparkIs DEF Alike
<1> HIDE DEF v
<1>6. /\ Shaped(v) /\ v.scopes = scopes /\ v.status = status
      /\ v.tokens = {x \in tokens : x.id # t.id}
  BY <1>a, <1>3, <1>4, <1>5 DEF Alike, Fields
<1> QED  BY <1>1, <1>2, <1>6, DepartureKeeps

(* An interruption of u, in a state with the tokens and scopes of a whole  *)
(* one, takes what u holds and u only moves.                               *)
LEMMA InterruptedSpares ==
    ASSUME NEW r, Whole(r), NEW s, NEW F, Alike(s, r, F), "tokens" \notin F, "scopes" \notin F,
           "queue" \notin F, "nextScope" \notin F, NEW u \in s.tokens, NEW b
    PROVE  LET g == Interrupt(s, u, b)
           IN  Spares(g, s, {u.id}) /\ LiveIn(g, u.id)
<1>1. /\ s.tokens = r.tokens /\ s.scopes = r.scopes /\ s.queue = r.queue
      /\ s.nextScope = r.nextScope /\ Shaped(s)
  BY DEF Alike, Fields
<1>2. Loose(r, u.id, u.scope) /\ Nested(r)
  BY <1>1, TokenIsLoose DEF Whole
<1>3. u.scope \in Nat
  BY <1>2 DEF Loose, Nested, Open, ScopeIds, Root
<1>4. \A c \in s.scopes : c.token = u.id => c.parent = u.scope
  BY <1>1, <1>2 DEF Loose
<1>5. Nested(s)
  BY <1>1, <1>2 DEF Nested, Open, ScopeIds
<1> QED  BY <1>1, <1>3, <1>4, <1>5, InterruptSpares

LEMMA MovesNow ==
    ASSUME NEW s, s.tokens = tokens, NEW u, Moves(u, s)
    PROVE  Moves(u, Now)
BY NowIs DEF Moves

LEMMA InterruptedKeeps ==
    ASSUME Unique(Now), NEW r, Whole(r), NEW s, NEW F, Alike(s, r, F), "tokens" \notin F,
           "scopes" \notin F, "queue" \notin F, "nextScope" \notin F, s.tokens = tokens,
           s.status = "active", NEW u \in s.tokens, NEW b,
           \/ Becomes(Interrupt(s, u, b)) \/ Becomes(ResumeHalted(Interrupt(s, u, b)))
    PROVE  Spared /\ KeptByFreeze
<1> DEFINE g == Interrupt(s, u, b)
<1>1. Spares(g, s, {u.id}) /\ LiveIn(g, u.id)
  BY InterruptedSpares
<1>2. Below(g, s)
  BY InterruptBelow DEF Alike
<1>3. Becomes(g) \/ Becomes(ResumeHalted(g))
  OBVIOUS
<1> HIDE DEF g
<1>4. \A t \in s.tokens : t.id \in {u.id} => t.wait = "incident" \/ (t.id = u.id /\ LiveIn(g, u.id))
  BY <1>1
<1>5. \A h : Carries(h, g) => Moves(h, Now)
  <2> SUFFICES ASSUME NEW h, Carries(h, g)
               PROVE  Moves(h, Now)
    OBVIOUS
  <2>1. Moves(h, s)
    BY <1>1, <1>4, SparedMoves
  <2> QED  BY <2>1, MovesNow
<1>6. Shaped(g) /\ g.status = "active"
  BY <1>2 DEF Below
<1>7. CASE Becomes(g)
  BY <1>5, <1>6, <1>7, CarriesItself, StepKeeps
<1>8. CASE Becomes(ResumeHalted(g))
  <2> DEFINE h == ResumeHalted(g)
  <2>1. h.status = "active"
    BY <1>6, ResumedFields
  <2>2. Carries(h, g)
    BY <1>6, ResumeCarries
  <2>3. Becomes(h)
    BY <1>8
  <2> HIDE DEF h
  <2> QED  BY <1>5, <2>1, <2>2, <2>3, StepKeeps
<1> QED  BY <1>3, <1>7, <1>8

LEMMA RaiseErrorKeeps ==
    ASSUME Good(Now), Coherent(Now), NEW i \in items, NEW code \in Codes, RaiseError(i, code)
    PROVE  Spared /\ KeptByFreeze
<1> DEFINE n == Now
           s == CloseItem(n, i.token)
<1>1. PICK t \in tokens :
        /\ t.id = i.token
        /\ LET found == Catchers(s, i.element, i.token, t.scope, code)
           IN  \/ \E k \in found : ErrorCaught(s, k)
               \/ found = {} /\ Becomes(Freeze(s, i.token, t.scope, i.element))
  BY Zenon DEF RaiseError
<1>2. Shaped(n) /\ Awake(n) /\ Whole(n) /\ t \in n.tokens /\ i \in n.items
  BY ActiveIsAwake, NowFields DEF RaiseError, Commanded
<1>a. n.tokens = tokens /\ n.scopes = scopes /\ n.queue = queue /\ n.items = items /\ n.arms = arms
      /\ Unique(Now)
  BY <1>2, NowIs DEF Whole
<1>b. LiveIn(Now, t.id)
  BY NowIs DEF LiveIn
<1> HIDE DEF n
<1>3. Alike(s, n, {"items"}) /\ s.items = {j \in n.items : j.token # t.id}
  BY <1>1, <1>2, CloseItemIs
<1> HIDE DEF s
<1>4. /\ Shaped(s) /\ s.tokens = n.tokens /\ s.arms = n.arms /\ s.scopes = n.scopes
      /\ s.queue = n.queue /\ s.status = n.status
  BY <1>3 DEF Alike, Fields
<1>5. ASSUME NEW k \in Catchers(s, i.element, i.token, t.scope, code), ErrorCaught(s, k)
      PROVE  Spared /\ KeptByFreeze
  <2>1. PICK u \in s.tokens : u.id = k.token /\ Becomes(Interrupt(s, u, k.boundary))
    BY <1>5 DEF ErrorCaught
  <2>2. s.status = "active" /\ s.tokens = tokens
    BY <1>2, <1>4, <1>a DEF Awake
  <2> QED  BY <1>2, <1>3, <1>a, <2>1, <2>2, InterruptedKeeps
<1>6. CASE Becomes(Freeze(s, i.token, t.scope, i.element))
  <2>1. t.wait = "workitem"
    BY <1>1, <1>2 DEF Whole, Worked, Unique
  <2>2. \A c \in s.scopes : c.token # t.id
    BY <1>2, <1>4, <2>1, TokenHolds
  <2>3. \A m \in s.queue : m.token # t.id
    BY <1>2, <1>4 DEF Whole, Unique
  <2>4. Calm(s) /\ \A w \in s.tokens : DOMAIN w = TokenFields
    BY <1>2, <1>4 DEF Awake, Calm, Whole, Unique
  <2>5. Failing(s, t.id)
    BY <1>4, <2>2, <2>3, <2>4 DEF Failing
  <2>6. InHand(s, t.id)
    BY <1>3, <1>4, <1>a, <1>b DEF InHand
  <2>7. Becomes(Freeze(s, t.id, t.scope, i.element))
    BY <1>1, <1>6
  <2> QED  BY <1>a, <2>5, <2>6, <2>7, FreezeKeeps
<1> QED  BY <1>1, <1>5, <1>6

LEMMA InterruptingKeeps ==
    ASSUME Good(Now), Coherent(Now), status = "active", NEW a \in arms, NEW doc,
           NEW t \in tokens, t.id = a.token, InterruptingFires(a, t, doc)
    PROVE  Spared /\ KeptByFreeze
<1> DEFINE n == Now
           s == Spent(a, doc)
           c == CloseItem(s, t.id)
<1>1. Becomes(Interrupt(c, t, a.element))
  BY DEF InterruptingFires
<1>2. Shaped(s) /\ Alike(s, n, {"variables", "arms"})
  BY SpentIs
<1>a. Whole(n) /\ Unique(Now) /\ n.tokens = tokens /\ n.status = "active"
  BY ActiveIsAwake, NowIs DEF Whole
<1> HIDE DEF n, s
<1>3. Alike(c, s, {"items"})
  BY <1>2, CloseItemIs
<1> HIDE DEF c
<1>4. Alike(c, n, {"variables", "arms", "items"})
  BY <1>2, <1>3 DEF Alike, Fields
<1>5. c.tokens = tokens /\ c.status = "active"
  BY <1>4, <1>a DEF Alike, Fields
<1> QED  BY <1>1, <1>4, <1>5, <1>a, InterruptedKeeps

LEMMA SidePathKeeps ==
    ASSUME Good(Now), Coherent(Now), status = "active", NEW a \in arms, NEW doc,
           NEW t \in tokens, t.id = a.token, SidePathFires(a, t, doc)
    PROVE  Spared /\ KeptByFreeze
<1> DEFINE n == Now
           p == Spent(a, doc)
           R == Rearmed(a, doc)
           s == [p EXCEPT !.arms = @ \union R]
           u == LeaveFresh(s, a.element, t.scope)
<1>1. Becomes(u)
  BY DEF SidePathFires
<1>2. Shaped(p) /\ Awake(p) /\ Alike(p, n, {"variables", "arms"})
  BY SpentIs
<1>a. Unique(Now) /\ n.tokens = tokens
  BY ActiveIsAwake, NowIs DEF Whole
<1> HIDE DEF n, p, R
<1>3. Alike(s, p, {"arms"})
  BY <1>2 DEF Alike, Shaped, Fields
<1> HIDE DEF s
<1>4. Shaped(s) /\ s.tokens = tokens /\ Awake(s)
  BY <1>2, <1>3, <1>a DEF Alike, Fields, Awake
<1>5. u.tokens = s.tokens /\ Below(u, s)
  BY <1>4, LeaveFreshSpares, LeaveFreshBelow
<1> HIDE DEF u
<1> QED  BY <1>1, <1>4, <1>5, <1>a, StayKeeps

LEMMA CommandKeeps ==
    ASSUME Good(Now), Coherent(Now), Command
    PROVE  Spared /\ KeptByFreeze
<1>1. ASSUME NEW a \in arms, NEW doc, NEW t \in tokens, t.id = a.token, status = "active",
             \/ CatchFires(a, t, doc) \/ GatewayFires(a, t, doc)
             \/ InterruptingFires(a, t, doc) \/ SidePathFires(a, t, doc)
      PROVE  Spared /\ KeptByFreeze
  BY <1>1, AwaitedKeeps, InterruptingKeeps, SidePathKeeps
<1>2. ASSUME NEW a \in arms, FireTimer(a)
      PROVE  Spared /\ KeptByFreeze
  BY <1>1, <1>2 DEF FireTimer, Commanded
<1>3. ASSUME NEW a \in arms, NEW doc \in Document, DeliverMessage(a, doc)
      PROVE  Spared /\ KeptByFreeze
  BY <1>1, <1>3 DEF DeliverMessage, Commanded
<1> QED  BY <1>2, <1>3, CompleteWorkItemKeeps, RaiseErrorKeeps DEF Command

LEMMA WiderSpares ==
    ASSUME NEW s, NEW u, NEW I, Spares(u, s, I), NEW J, I \subseteq J
    PROVE  Spares(u, s, J)
BY DEF Spares

(* A repair lets the moves it resumes go on after it has put the cause     *)
(* where it sends it.                                                      *)
LEMMA RetryKeeps ==
    ASSUME Coherent(Now), NEW t \in tokens, NEW doc \in Document,
           Retry(t, doc) \/ Advance(t, doc)
    PROVE  Spared /\ KeptByFreeze
<1> DEFINE s == Patched(doc)
           u == Unpark(s, t.id)
<1>1. /\ Repairing(t)
      /\ \E r \in ResumePoints(t.node) :
           \/ Becomes(ResumeHalted(Go(u, t.id, r, t.scope, NoFlow)))
           \/ Becomes(ResumeHalted(Leave(u, t.id, r, t.scope)))
  BY DEF Retry, Advance
<1>2. Shaped(s) /\ s.tokens = tokens /\ Shaped(u) /\ u.status = "active"
  BY <1>1, RepairIs
<1>3. Spares(u, s, {t.id})
  BY <1>2, UnparkSpares
<1>4. Unique(Now)
  BY DEF Coherent, Whole
<1>5. \A w \in s.tokens : w.id \in {t.id} => w.wait = "incident"
  BY <1>1, <1>2, <1>4, NowIs DEF Repairing, Unique
<1> HIDE DEF s, u
<1>6. PICK r \in ResumePoints(t.node) :
        \/ Becomes(ResumeHalted(Go(u, t.id, r, t.scope, NoFlow)))
        \/ Becomes(ResumeHalted(Leave(u, t.id, r, t.scope)))
  BY <1>1
<1>7. ASSUME NEW g, Spares(g, u, {t.id}), Below(g, u), Becomes(ResumeHalted(g))
      PROVE  Spared /\ KeptByFreeze
  <2>1. Spares(g, s, {t.id})
    BY <1>3, <1>7, SparesIsTransitive
  <2> DEFINE h == ResumeHalted(g)
  <2>2. Carries(h, g) /\ h.status = "active"
    BY <1>2, <1>7, ResumeCarries, ResumedFields DEF Below
  <2>3. Becomes(h)
    BY <1>7
  <2> HIDE DEF h
  <2>4. Moves(h, Now)
    BY <1>2, <1>5, <2>1, <2>2, SparedMoves, MovesNow
  <2> QED  BY <1>4, <2>2, <2>3, <2>4, StepKeeps
<1>8. CASE Becomes(ResumeHalted(Go(u, t.id, r, t.scope, NoFlow)))
  BY <1>2, <1>7, <1>8, GoSpares, GoBelow
<1>9. CASE Becomes(ResumeHalted(Leave(u, t.id, r, t.scope)))
  BY <1>2, <1>7, <1>9, LeaveSpares, LeaveBelow
<1> QED  BY <1>6, <1>8, <1>9

LEMMA DivertKeeps ==
    ASSUME Coherent(Now), NEW t \in tokens, NEW code \in Codes, Divert(t, code)
    PROVE  Spared /\ KeptByFreeze
<1> DEFINE s == Patched(variables)
<1>1. PICK r \in ResumePoints(t.node) :
        /\ Repairing(t)
        /\ \E k \in Catchers(s, r, t.id, t.scope, code) :
             \E u \in tokens :
                u.id = k.token /\ Becomes(ResumeHalted(Interrupt(s, u, k.boundary)))
  BY Zenon DEF Divert
<1>2. Shaped(s) /\ Whole(s) /\ s.status = "active" /\ s.tokens = tokens
  BY <1>1, RepairIs
<1>3. Alike(s, s, {})
  BY <1>2 DEF Alike
<1>4. Unique(Now)
  BY DEF Coherent, Whole
<1> HIDE DEF s
<1>5. PICK k \in Catchers(s, r, t.id, t.scope, code), u \in tokens :
        Becomes(ResumeHalted(Interrupt(s, u, k.boundary)))
  BY <1>1
<1> QED  BY <1>2, <1>3, <1>4, <1>5, InterruptedKeeps

LEMMA AbandonKeeps ==
    ASSUME Coherent(Now), NEW t \in tokens, Abandon(t)
    PROVE  Spared /\ KeptByFreeze
<1> DEFINE p == Patched(variables)
           s == Unpark(p, t.id)
<1>1. /\ Repairing(t)
      /\ \/ (t.scope = Root \/ ~IsEmpty(s, t.scope)) /\ Becomes(Settle(ResumeHalted(s)))
         \/ \E c \in scopes : /\ c.id = t.scope /\ IsEmpty(s, t.scope)
                              /\ Becomes(ResumeHalted(CompleteScope(s, c)))
  BY Zenon DEF Abandon
<1>2. /\ Shaped(p) /\ p.tokens = tokens /\ Shaped(s) /\ s.status = "active"
      /\ Loose(s, t.id, t.scope) /\ s.scopes = scopes
  BY <1>1, RepairIs
<1>3. Spares(s, p, {t.id})
  BY <1>2, UnparkSpares
<1>4. Unique(Now)
  BY DEF Coherent, Whole
<1>5. \A w \in p.tokens : w.id = t.id => w.wait = "incident"
  BY <1>1, <1>2, <1>4, NowIs DEF Repairing, Unique
<1> HIDE DEF p, s
<1>6. CASE Becomes(Settle(ResumeHalted(s)))
  <2> DEFINE h == ResumeHalted(s)
             u == Settle(h)
  <2>1. /\ Carries(h, s) /\ h.status = "active"
        /\ Shaped(h) /\ \A w \in h.tokens : DOMAIN w = TokenFields
    <3>1. Carries(h, s) /\ h.status = "active"
      BY <1>2, ResumeCarries, ResumedFields
    <3>2. Shaped(h) /\ h.tokens \subseteq s.tokens
      BY <1>2, ResumedFields
    <3> QED  BY <1>2, <3>1, <3>2 DEF Loose, Unique
  <2>2. Becomes(u)
    BY <1>6
  <2> HIDE DEF h
  <2>3. Carries(u, h) /\ u.status # "failed"
    BY <2>1, SettleCarries, SettledStatus
  <2> HIDE DEF u
  <2>4. Carries(u, s)
    BY <2>1, <2>3, CarriesIsTransitive
  <2>5. Moves(u, Now)
    <3>1. \A w \in p.tokens : w.id \in {t.id} => w.wait = "incident"
      BY <1>5
    <3> QED  BY <1>2, <1>3, <2>4, <3>1, SparedMoves, MovesNow
  <2> QED  BY <1>4, <2>2, <2>3, <2>5, StepKeeps
<1>7. ASSUME NEW c \in s.scopes, Becomes(ResumeHalted(CompleteScope(s, c)))
      PROVE  Spared /\ KeptByFreeze
  <2> DEFINE g == CompleteScope(s, c)
             h == ResumeHalted(g)
             J == {t.id, c.token}
  <2>1. Spares(g, s, {c.token}) /\ LiveIn(g, c.token) /\ Below(g, s)
    BY <1>2, CompleteScopeSpares, CompleteScopeBelow
  <2>2. Becomes(h)
    BY <1>7
  <2> HIDE DEF g
  <2>3. Carries(h, g) /\ h.status = "active"
    BY <1>2, <2>1, ResumeCarries, ResumedFields DEF Below
  <2> HIDE DEF h
  <2>4. {t.id} \subseteq J /\ {c.token} \subseteq J
    OBVIOUS
  <2>5. \A w \in p.tokens : w.id \in J =>
          w.wait = "incident" \/ (w.id = c.token /\ LiveIn(g, c.token))
    BY <1>5, <2>1
  <2> HIDE DEF J
  <2>6. Spares(g, p, J)
    BY <1>3, <2>1, <2>4, WiderSpares, SparesIsTransitive
  <2>7. Moves(h, p)
    BY <2>3, <2>5, <2>6, SparedMoves
  <2> QED  BY <1>2, <1>4, <2>2, <2>3, <2>7, MovesNow, StepKeeps
<1> QED  BY <1>1, <1>2, <1>6, <1>7

LEMMA AbandonInstanceKeeps ==
    ASSUME AbandonInstance
    PROVE  Spared /\ KeptByFreeze
<1> DEFINE u == Terminate(Now)
<1>1. Becomes(u)
  BY DEF AbandonInstance
<1>2. u.status = "terminated"
  BY DEF Terminate, Now
<1> QED  BY <1>1, <1>2, EndKeeps

LEMMA StartKeeps ==
    ASSUME Good(Now), Coherent(Now), NEW doc \in Document, Start(doc)
    PROVE  Spared /\ KeptByFreeze
<1> DEFINE n == Now
           k == n.nextToken
           s == [n EXCEPT !.status = "active", !.variables = doc, !.nextToken = @ + 1]
           u == Go(s, k, ProcessStart, Root, NoFlow)
<1>1. Becomes(u)
  BY DEF Start, Now
<1>2. Shaped(n) /\ Unique(Now) /\ n.tokens = tokens
      /\ \A t \in n.tokens : t.wait \notin {"incident", "inflight"}
  <2>1. n.status = "created" /\ Shaped(n)
    BY DEF Start, Now, Shaped, Fields
  <2> QED  BY <2>1, NowIs DEF Coherent, Frozen, Whole
<1> HIDE DEF n
<1>3. Shaped(s) /\ s.status = "active" /\ s.tokens = n.tokens
  BY <1>2 DEF Shaped, Fields
<1> HIDE DEF s
<1>4. Awake(s)
  BY <1>2, <1>3 DEF Awake
<1>5. u.tokens = s.tokens /\ Below(u, s)
  BY <1>3, GoSpares, GoBelow
<1> HIDE DEF u
<1> QED  BY <1>1, <1>2, <1>3, <1>4, <1>5, StayKeeps

LEMMA UnchangedKeeps ==
    ASSUME UNCHANGED vars
    PROVE  Spared /\ KeptByFreeze
<1>1. /\ tokens' = tokens /\ scopes' = scopes /\ queue' = queue /\ status' = status
      /\ items' = items /\ arms' = arms
  BY DEF vars
<1>2. Live' = Live /\ \A t \in tokens : t.id \in Live
  BY <1>1 DEF Live
<1>3. KeptByFreeze
  BY <1>1 DEF KeptByFreeze
<1> DEFINE kept == {t \in tokens : t.scope \in {Root} \union {c.id : c \in scopes'}}
           gone == {t \in kept : t.id \notin Live'}
           moved == {t \in kept : t.wait \notin {"inflight", "incident", "decision", "awaiting"}
                                  /\ t \notin tokens' /\ t.id \in Live'}
<1>4. gone = {} /\ moved = {}
  BY <1>1, <1>2
<1>5. Cardinality(moved) <= 1
  BY <1>4, FS_EmptySet
<1> QED  BY <1>3, <1>4, <1>5 DEF Spared

LEMMA NextKeeps == Stable(Now) /\ Coherent(Now) /\ [Next]_vars => Spared /\ KeptByFreeze
<1> SUFFICES ASSUME Stable(Now), Coherent(Now), [Next]_vars
             PROVE  Spared /\ KeptByFreeze
  OBVIOUS
<1>1. CASE \E m \in queue : Enter(m)
  <2>1. PICK m \in queue : Enter(m)
    BY <1>1
  <2>2. status = "active"
    BY <2>1 DEF Enter, EnterStart, EnterRule, EnterTask, EnterCatch, EnterSubProcess,
                EnterExclusive, EnterSplit, EnterJoin, EnterEnd, EnterTerminate, Enters
  <2> QED
    BY <2>1, <2>2, NotFailed, EnterKeeps
<1>2. CASE Answer
  <2>1. status = "active"
    BY <1>2 DEF Answer, DecisionFails, AnswerDecision, IsNextDecision
  <2> QED
    BY <1>2, <2>1, NotFailed, AnswerKeeps
<1>3. CASE Command
  <2>1. status = "active"
    BY <1>3 DEF Command, CompleteWorkItem, RaiseError, FireTimer, DeliverMessage, Commanded
  <2> QED
    BY <1>3, <2>1, NotFailed, CommandKeeps
<1>4. CASE Disposition
  BY <1>4, RetryKeeps, DivertKeeps, AbandonKeeps, AbandonInstanceKeeps DEF Disposition
<1>5. CASE \E doc \in Document : Start(doc)
  <2>1. PICK doc \in Document : Start(doc)
    BY <1>5
  <2>2. status # "failed"
    BY <2>1 DEF Start
  <2> QED
    BY <2>1, <2>2, NotFailed, StartKeeps
<1>6. CASE UNCHANGED vars
  BY <1>6, UnchangedKeeps
<1> QED
  BY <1>1, <1>2, <1>3, <1>4, <1>5, <1>6 DEF Next, Internal, Repair

(* No step takes a token it is not about: in the scopes it leaves open, at *)
(* most one parked token moves, only an abandoned cause and what a join    *)
(* merges are gone, and a freeze keeps every token, the moves of other     *)
(* branches under way and what they hold.                                  *)
THEOREM StepsSpareTheRest == Spec => TokensAreKept
<1>1. Stable(Now) /\ Coherent(Now) /\ [Next]_vars =>
        (status' \in {"active", "failed"} =>
          LET kept == {t \in tokens : t.scope \in {Root} \union {c.id : c \in scopes'}}
              gone == {t \in kept : t.id \notin Live'}
              moved == {t \in kept : t.wait \notin {"inflight", "incident", "decision", "awaiting"}
                                     /\ t \notin tokens' /\ t.id \in Live'}
          IN  /\ \A t \in gone :
                  \/ t.wait = "incident"
                  \/ t.wait = "join" /\ \A u \in gone : u.node = t.node /\ u.scope = t.scope
              /\ Cardinality(moved) <= 1)
  BY NextKeeps DEF Spared
<1>2. Stable(Now) /\ Coherent(Now) /\ [Next]_vars =>
        (status = "active" /\ status' = "failed" =>
          LET cause == CHOOSE t \in tokens' : t.wait = "incident"
          IN  /\ Live' = Live
              /\ \A t \in tokens \union {InFlight(m) : m \in queue} :
                  t.id # cause.id => \E u \in tokens' :
                      u = t \/ u = Halted(t)
              /\ \A i \in items : i.token # cause.id => i \in items'
              /\ \A a \in arms : a.token # cause.id => a \in arms')
  BY NextKeeps DEF KeptByFreeze
<1> QED
  BY <1>1, <1>2, CoherentInductive, PTL
     DEF Spec, TokensAreKept, SiblingsSurvive, FreezeKeepsTokens

-----------------------------------------------------------------------------
(* u differs from s in nothing that Lifecycle speaks of.                   *)
Like(u, s) ==
    /\ Shaped(u)
    /\ u.status = s.status /\ u.variables = s.variables
    /\ u.nextIncident = s.nextIncident

(* u is s, ended as to, or frozen by one incident more.                    *)
EndedAs(u, s, to) ==
    u.status = to /\ u.variables = s.variables /\ u.nextIncident = s.nextIncident
FrozenFrom(u, s) ==
    u.status = "failed" /\ u.variables = s.variables /\ u.nextIncident = s.nextIncident + 1

-----------------------------------------------------------------------------
(* The helpers.                                                            *)

LEMMA LikeIsTransitive ==
    ASSUME NEW u, NEW s, NEW r, Like(u, s), Like(s, r)
    PROVE  Like(u, r)
BY DEF Like

LEMMA ParkLike ==
    ASSUME NEW s, Shaped(s), NEW id, NEW node, NEW scope, NEW wait, NEW via
    PROVE  Like(Park(s, id, node, scope, wait, via), s)
BY DEF Like, Shaped, Fields, Park

LEMMA UnparkLike ==
    ASSUME NEW s, Shaped(s), NEW id
    PROVE  Like(Unpark(s, id), s)
BY DEF Like, Shaped, Fields, Unpark

LEMMA GoLike ==
    ASSUME NEW s, Shaped(s), NEW id, NEW node, NEW scope, NEW via
    PROVE  Like(Go(s, id, node, scope, via), s)
BY DEF Like, Shaped, Fields, Go

LEMMA LeaveLike ==
    ASSUME NEW s, Shaped(s), NEW id, NEW node, NEW scope
    PROVE  Like(Leave(s, id, node, scope), s)
BY GoLike DEF Leave

LEMMA LeaveFreshLike ==
    ASSUME NEW s, Shaped(s), NEW node, NEW scope
    PROVE  Like(LeaveFresh(s, node, scope), s)
<1> DEFINE r == [s EXCEPT !.nextToken = @ + 1]
<1>1. Like(r, s)
  BY DEF Like, Shaped, Fields
<1>2. Shaped(r)
  BY <1>1 DEF Like
<1> HIDE DEF r
<1>3. Like(Leave(r, s.nextToken, node, scope), r)
  BY <1>2, LeaveLike
<1> QED
  BY <1>1, <1>3, LikeIsTransitive DEF LeaveFresh, r

LEMMA SplitLike ==
    ASSUME NEW s, Shaped(s), NEW node, NEW scope
    PROVE  Like(Split(s, node, scope), s)
BY DEF Like, Shaped, Fields, Split

LEMMA CloseItemLike ==
    ASSUME NEW s, Shaped(s), NEW id
    PROVE  Like(CloseItem(s, id), s)
BY DEF Like, Shaped, Fields, CloseItem

LEMMA WithdrawArmsLike ==
    ASSUME NEW s, Shaped(s), NEW id
    PROVE  Like(WithdrawArms(s, id), s)
BY DEF Like, Shaped, Fields, WithdrawArms

LEMMA TearDownLike ==
    ASSUME NEW s, Shaped(s), NEW roots
    PROVE  Like(TearDown(s, roots), s)
BY DEF Like, Shaped, Fields, TearDown

LEMMA CloseOwnedLike ==
    ASSUME NEW s, Shaped(s), NEW id
    PROVE  Like(CloseOwned(s, id), s)
<1> DEFINE owned == {c.id : c \in {d \in s.scopes : d.token = id}}
           torn  == TearDown(s, owned)
           left  == {c \in torn.scopes : c.id \notin owned}
<1>1. Like(torn, s)
  BY TearDownLike
<1>2. CloseOwned(s, id) = [torn EXCEPT !.scopes = left]
  BY DEF CloseOwned
<1> HIDE DEF torn, left
<1>3. Like([torn EXCEPT !.scopes = left], torn)
  BY <1>1 DEF Like, Shaped, Fields
<1> QED
  BY <1>1, <1>2, <1>3, LikeIsTransitive

LEMMA CompleteScopeLike ==
    ASSUME NEW s, Shaped(s), NEW c
    PROVE  Like(CompleteScope(s, c), s)
<1> DEFINE r == [s EXCEPT !.scopes = {d \in @ : d.id # c.id}]
           w == WithdrawArms(r, c.token)
           u == Unpark(w, c.token)
<1>1. Like(r, s)
  BY DEF Like, Shaped, Fields
<1> HIDE DEF r
<1>2. Like(w, r)
  BY <1>1, WithdrawArmsLike DEF Like
<1> HIDE DEF w
<1>3. Like(u, w)
  BY <1>2, UnparkLike DEF Like
<1> HIDE DEF u
<1>4. Like(Leave(u, c.token, c.element, c.parent), u)
  BY <1>3, LeaveLike DEF Like
<1> QED
  BY <1>1, <1>2, <1>3, <1>4, LikeIsTransitive DEF CompleteScope, r, w, u

LEMMA ArmAllLike ==
    ASSUME NEW s, Shaped(s), NEW els, NEW id
    PROVE  Like(ArmAll(s, els, id), s)
BY DEF Like, Shaped, Fields, ArmAll

LEMMA InterruptLike ==
    ASSUME NEW s, Shaped(s), NEW t, NEW b
    PROVE  Like(Interrupt(s, t, b), s)
<1> DEFINE r == Unpark(s, t.id)
           c == CloseOwned(r, t.id)
           w == WithdrawArms(c, t.id)
<1>1. Like(r, s)
  BY UnparkLike
<1> HIDE DEF r
<1>2. Like(c, r)
  BY <1>1, CloseOwnedLike DEF Like
<1> HIDE DEF c
<1>3. Like(w, c)
  BY <1>2, WithdrawArmsLike DEF Like
<1> HIDE DEF w
<1>4. Like(Leave(w, t.id, b, t.scope), w)
  BY <1>3, LeaveLike DEF Like
<1> QED
  BY <1>1, <1>2, <1>3, <1>4, LikeIsTransitive DEF Interrupt, r, c, w

LEMMA ResumeLike ==
    ASSUME NEW s, Shaped(s)
    PROVE  Like(ResumeHalted(s), s)
BY DEF Like, Shaped, Fields, ResumeHalted

LEMMA TerminateEnds ==
    ASSUME NEW s, Shaped(s)
    PROVE  EndedAs(Terminate(s), s, "terminated")
BY DEF EndedAs, Shaped, Fields, Terminate

LEMMA SettleMayEnd ==
    ASSUME NEW s, Shaped(s), s.status = "active"
    PROVE  EndedAs(Settle(s), s, "active") \/ EndedAs(Settle(s), s, "completed")
BY DEF EndedAs, Shaped, Fields, Settle

LEMMA FreezeNumbers ==
    ASSUME NEW s, Shaped(s), NEW id, NEW scope, NEW element
    PROVE  FrozenFrom(Freeze(s, id, scope, element), s)
<1> DEFINE a == WithdrawArms(s, id)
           i == CloseItem(a, id)
           c == CloseOwned(i, id)
           w == Unpark(c, id)
           x == {Halted(t) : t \in w.tokens} \union {InFlight(m) : m \in w.queue}
           h == [w EXCEPT !.tokens = x]
           p == Park(h, id, element, scope, "incident", NoFlow)
<1>1. Like(a, s)
  BY WithdrawArmsLike
<1> HIDE DEF a
<1>2. Like(i, a)
  BY <1>1, CloseItemLike DEF Like
<1> HIDE DEF i
<1>3. Like(c, i)
  BY <1>2, CloseOwnedLike DEF Like
<1> HIDE DEF c
<1>4. Like(w, c)
  BY <1>3, UnparkLike DEF Like
<1> HIDE DEF w, x
<1>5. Like(h, w)
  BY <1>4 DEF Like, Shaped, Fields
<1> HIDE DEF h
<1>6. Like(p, h)
  BY <1>5, ParkLike DEF Like
<1> HIDE DEF p
<1>7. Like(p, s)
  BY <1>1, <1>2, <1>3, <1>4, <1>5, <1>6, LikeIsTransitive
<1>8. Freeze(s, id, scope, element) =
        [p EXCEPT !.queue = {}, !.status = "failed", !.nextIncident = @ + 1, !.clock = 0]
  BY DEF Freeze, p, h, x, w, c, i, a
<1> QED
  BY <1>7, <1>8 DEF Like, Shaped, Fields, FrozenFrom

-----------------------------------------------------------------------------
(* Steps of an active instance: what Lifecycle calls Work and Raise, apart *)
(* from the document, which has its type by TypeCorrect.                   *)

Works ==
    status' \in {"active", "completed", "terminated"} /\ nextIncident' = nextIncident

Raises == status' = "failed" /\ nextIncident' = nextIncident + 1

(* A state in the middle of an action on an active instance.               *)
Working(s) == Shaped(s) /\ s.status = "active" /\ s.nextIncident = nextIncident

LEMMA StaysWorking ==
    ASSUME NEW s, Working(s), NEW u, Like(u, s)
    PROVE  Working(u)
BY DEF Working, Like

LEMMA WorksOn ==
    ASSUME NEW s, Working(s), NEW u,
           u = s \/ u = Settle(s) \/ u = Terminate(s) \/ Like(u, s), Becomes(u)
    PROVE  Works
<1>1. CASE u = s \/ Like(u, s)
  BY <1>1 DEF Works, Working, Becomes, Like
<1>2. CASE u = Settle(s)
  BY <1>2, SettleMayEnd DEF Works, Working, Becomes, EndedAs
<1>3. CASE u = Terminate(s)
  BY <1>3, TerminateEnds DEF Works, Working, Becomes, EndedAs
<1> QED
  BY <1>1, <1>2, <1>3

LEMMA RaisesFrom ==
    ASSUME NEW s, Working(s), NEW id, NEW scope, NEW element, Becomes(Freeze(s, id, scope, element))
    PROVE  Raises
BY FreezeNumbers DEF Raises, Working, Becomes, FrozenFrom

LEMMA NowWorking ==
    ASSUME status = "active"
    PROVE  Working(Now)
BY DEF Working, Shaped, Fields, Now

LEMMA TakenWorking ==
    ASSUME status = "active", NEW m
    PROVE  Working(Taken(m))
BY DEF Working, Shaped, Fields, Now, Taken

LEMMA ArmOrFreezeMoves ==
    ASSUME NEW s, Working(s), NEW id, NEW scope, NEW els, ArmOrFreeze(s, id, scope, els)
    PROVE  Works \/ Raises
<1>1. CASE Becomes(Settle(ArmAll(s, els, id)))
  <2>1. Working(ArmAll(s, els, id))
    BY ArmAllLike, StaysWorking DEF Working
  <2> QED
    BY <1>1, <2>1, WorksOn
<1>2. CASE \E k \in DOMAIN els : Becomes(Freeze(s, id, scope, els[k]))
  BY <1>2, RaisesFrom
<1> QED
  BY <1>1, <1>2 DEF ArmOrFreeze

LEMMA ConsumedMoves ==
    ASSUME NEW s, Working(s), NEW scope, Consumed(s, scope)
    PROVE  Works
<1>1. CASE Becomes(Settle(s))
  BY <1>1, WorksOn
<1>2. CASE \E c \in s.scopes : Becomes(CompleteScope(s, c))
  BY <1>2, CompleteScopeLike, WorksOn DEF Working
<1> QED
  BY <1>1, <1>2 DEF Consumed

LEMMA EnterMoves ==
    ASSUME NEW m \in queue, Enter(m)
    PROVE  status = "active" /\ (Works \/ Raises)
<1> DEFINE s == Taken(m)
<1>1. status = "active"
  BY DEF Enter, EnterStart, EnterRule, EnterTask, EnterCatch, EnterSubProcess,
         EnterExclusive, EnterSplit, EnterJoin, EnterEnd, EnterTerminate, Enters
<1>2. Working(s) /\ Shaped(s)
  BY <1>1, TakenWorking DEF Working
<1> HIDE DEF s
<1> SUFFICES Works \/ Raises
  BY <1>1
<1>3. \A wait, via : Working(Park(s, m.token, m.node, m.scope, wait, via))
  BY <1>2, ParkLike, StaysWorking
<1>4. CASE EnterStart(m)
  BY <1>2, <1>4, LeaveLike, WorksOn DEF EnterStart, s
<1>5. CASE EnterRule(m)
  BY <1>3, <1>5, WorksOn DEF EnterRule, s
<1>6. CASE EnterTask(m)
  <2> DEFINE p == Park(s, m.token, m.node, m.scope, "workitem", NoFlow)
             x == p.items \union {[token |-> m.token, element |-> m.node]}
             o == [p EXCEPT !.items = x]
  <2>1. ArmOrFreeze(o, m.token, m.scope, ArmedAt(m.node))
    BY <1>6 DEF EnterTask, s
  <2>2. Working(p)
    BY <1>3
  <2> HIDE DEF p, x
  <2>3. Working(o)
    BY <2>2 DEF Working, Shaped, Fields
  <2> QED
    BY <1>1, <2>1, <2>3, ArmOrFreezeMoves
<1>7. CASE EnterCatch(m)
  BY <1>1, <1>3, <1>7, ArmOrFreezeMoves DEF EnterCatch, s
<1>8. CASE EnterSubProcess(m)
  <2> DEFINE child == [id |-> nextScope, element |-> m.node, parent |-> m.scope, token |-> m.token]
             p == Park(s, m.token, m.node, m.scope, "scope", NoFlow)
             o == [p EXCEPT !.scopes = @ \union {child}, !.nextScope = @ + 1]
             els == ArmedAt(m.node)
             a == ArmAll(o, els, m.token)
             f == [a EXCEPT !.nextToken = @ + 1]
  <2>1. \/ Becomes(Go(f, a.nextToken, BodyStart[m.node], child.id, NoFlow))
        \/ \E k \in DOMAIN els : Becomes(Freeze(o, m.token, m.scope, els[k]))
    BY <1>8 DEF EnterSubProcess, s
  <2>2. Working(p)
    BY <1>3
  <2> HIDE DEF p, child, els
  <2>3. Working(o)
    BY <2>2 DEF Working, Shaped, Fields
  <2> HIDE DEF o
  <2>4. Working(a)
    BY <2>3, ArmAllLike, StaysWorking DEF Working
  <2> HIDE DEF a
  <2>5. Working(f)
    BY <2>4 DEF Working, Shaped, Fields
  <2> HIDE DEF f
  <2>6. CASE Becomes(Go(f, a.nextToken, BodyStart[m.node], child.id, NoFlow))
    BY <2>5, <2>6, GoLike, WorksOn DEF Working
  <2>7. CASE \E k \in DOMAIN els : Becomes(Freeze(o, m.token, m.scope, els[k]))
    BY <2>3, <2>7, RaisesFrom
  <2> QED
    BY <1>1, <2>1, <2>6, <2>7
<1>9. CASE EnterExclusive(m)
  <2>1. PICK f : Becomes(Go(s, m.token, Target[f], m.scope, f))
    BY <1>9 DEF EnterExclusive, s
  <2> QED
    BY <1>2, <2>1, GoLike, WorksOn
<1>10. CASE EnterSplit(m)
  BY <1>2, <1>10, SplitLike, WorksOn DEF EnterSplit, s
<1>11. CASE EnterJoin(m)
  <2> DEFINE j == [s EXCEPT !.tokens = @ \ Arrived(m)]
  <2>1. CASE JoinParks(m)
    BY <1>3, <2>1, WorksOn DEF JoinParks, s
  <2>2. CASE JoinFires(m)
    <3>1. Becomes(LeaveFresh(j, m.node, m.scope))
      BY <2>2 DEF JoinFires, s
    <3>2. Working(j)
      BY <1>2 DEF Working, Shaped, Fields
    <3> HIDE DEF j
    <3> QED
      BY <3>1, <3>2, LeaveFreshLike, WorksOn DEF Working
  <2> QED
    BY <1>1, <1>11, <2>1, <2>2 DEF EnterJoin
<1>12. CASE EnterEnd(m)
  BY <1>2, <1>12, ConsumedMoves DEF EnterEnd, s
<1>13. CASE EnterTerminate(m)
  <2>1. CASE Becomes(Terminate(s))
    BY <1>2, <2>1, WorksOn
  <2>2. CASE \E c \in scopes : Becomes(CompleteScope(TearDown(s, {c.id}), c))
    <3>1. PICK c \in scopes : Becomes(CompleteScope(TearDown(s, {c.id}), c))
      BY <2>2
    <3>2. Working(TearDown(s, {c.id}))
      BY <1>2, TearDownLike, StaysWorking
    <3> QED
      BY <3>1, <3>2, CompleteScopeLike, WorksOn DEF Working
  <2> QED
    BY <1>13, <2>1, <2>2 DEF EnterTerminate, s
<1> QED
  BY <1>1, <1>4, <1>5, <1>6, <1>7, <1>8, <1>9, <1>10, <1>11, <1>12, <1>13 DEF Enter

LEMMA AnswerMoves ==
    ASSUME Answer
    PROVE  status = "active" /\ (Works \/ Raises)
<1>1. PICK t \in tokens : DecisionFails(t) \/ \E v \in Value : AnswerDecision(t, v)
  BY DEF Answer
<1>2. status = "active"
  BY <1>1 DEF DecisionFails, AnswerDecision, IsNextDecision
<1>3. CASE DecisionFails(t)
  BY <1>2, <1>3, NowWorking, RaisesFrom DEF DecisionFails
<1>4. CASE \E v \in Value : AnswerDecision(t, v)
  <2>1. PICK v \in Value : AnswerDecision(t, v)
    BY <1>4
  <2> DEFINE s == [Now EXCEPT !.variables[Result[t.node]] = v]
             u == Unpark(s, t.id)
             w == WithdrawArms(u, t.id)
  <2>2. Becomes(Leave(w, t.id, t.node, t.scope))
    BY <2>1 DEF AnswerDecision
  <2>3. Working(s)
    BY <1>2, NowWorking DEF Working, Shaped, Fields
  <2> HIDE DEF s
  <2>4. Working(u)
    BY <2>3, UnparkLike, StaysWorking DEF Working
  <2> HIDE DEF u
  <2>5. Working(w)
    BY <2>4, WithdrawArmsLike, StaysWorking DEF Working
  <2> HIDE DEF w
  <2> QED
    BY <1>2, <2>2, <2>5, LeaveLike, WorksOn DEF Working
<1> QED
  BY <1>1, <1>3, <1>4

-----------------------------------------------------------------------------
(* Commands.                                                               *)

LEMMA CompleteWorkItemMoves ==
    ASSUME NEW i \in items, NEW doc \in Document, CompleteWorkItem(i, doc)
    PROVE  Works
<1> DEFINE c == CloseItem(Now, i.token)
           p == [c EXCEPT !.variables = doc]
           u == Unpark(p, i.token)
           w == WithdrawArms(u, i.token)
<1>1. PICK t \in tokens : Becomes(Leave(w, i.token, i.element, t.scope))
  BY DEF CompleteWorkItem
<1>2. Working(Now)
  BY NowWorking DEF CompleteWorkItem, Commanded
<1>3. Working(c)
  BY <1>2, CloseItemLike, StaysWorking DEF Working
<1> HIDE DEF c
<1>4. Working(p)
  BY <1>3 DEF Working, Shaped, Fields
<1> HIDE DEF p
<1>5. Working(u)
  BY <1>4, UnparkLike, StaysWorking DEF Working
<1> HIDE DEF u
<1>6. Working(w)
  BY <1>5, WithdrawArmsLike, StaysWorking DEF Working
<1> HIDE DEF w
<1> QED
  BY <1>1, <1>6, LeaveLike, WorksOn DEF Working

LEMMA RaiseErrorMoves ==
    ASSUME NEW i \in items, NEW code, RaiseError(i, code)
    PROVE  Works \/ Raises
<1> DEFINE s == CloseItem(Now, i.token)
<1>1. PICK t \in tokens :
        \/ \E k : ErrorCaught(s, k)
        \/ Becomes(Freeze(s, i.token, t.scope, i.element))
  BY DEF RaiseError
<1>2. Working(Now)
  BY NowWorking DEF RaiseError, Commanded
<1>3. Working(s)
  BY <1>2, CloseItemLike, StaysWorking DEF Working
<1> HIDE DEF s
<1>4. CASE \E k : ErrorCaught(s, k)
  <2>1. PICK k, u : Becomes(Interrupt(s, u, k.boundary))
    BY <1>4 DEF ErrorCaught
  <2> QED
    BY <1>3, <2>1, InterruptLike, WorksOn DEF Working
<1>5. CASE Becomes(Freeze(s, i.token, t.scope, i.element))
  BY <1>3, <1>5, RaisesFrom
<1> QED
  BY <1>1, <1>4, <1>5

(* An arm that fires, whichever way its token goes on.                     *)
LEMMA FiresMoves ==
    ASSUME status = "active", NEW a, NEW t, NEW doc,
           \/ CatchFires(a, t, doc) \/ GatewayFires(a, t, doc)
           \/ InterruptingFires(a, t, doc) \/ SidePathFires(a, t, doc)
    PROVE  Works
<1> DEFINE s == Spent(a, doc)
<1>1. Working(s)
  BY NowWorking DEF Working, Shaped, Fields, Spent
<1>2. CASE CatchFires(a, t, doc) \/ GatewayFires(a, t, doc)
  <2> DEFINE w == WithdrawArms(s, t.id)
             u == Unpark(w, t.id)
  <2>1. Becomes(Leave(u, t.id, a.element, t.scope))
    BY <1>2 DEF CatchFires, GatewayFires
  <2> HIDE DEF s
  <2>2. Working(w)
    BY <1>1, WithdrawArmsLike, StaysWorking DEF Working
  <2> HIDE DEF w
  <2>3. Working(u)
    BY <2>2, UnparkLike, StaysWorking DEF Working
  <2> HIDE DEF u
  <2> QED
    BY <2>1, <2>3, LeaveLike, WorksOn DEF Working
<1>3. CASE InterruptingFires(a, t, doc)
  <2> DEFINE c == CloseItem(s, t.id)
  <2>1. Becomes(Interrupt(c, t, a.element))
    BY <1>3 DEF InterruptingFires
  <2> HIDE DEF s
  <2>2. Working(c)
    BY <1>1, CloseItemLike, StaysWorking DEF Working
  <2> HIDE DEF c
  <2> QED
    BY <2>1, <2>2, InterruptLike, WorksOn DEF Working
<1>4. CASE SidePathFires(a, t, doc)
  <2> DEFINE r == [s EXCEPT !.arms = @ \union Rearmed(a, doc)]
  <2>1. Becomes(LeaveFresh(r, a.element, t.scope))
    BY <1>4 DEF SidePathFires
  <2> HIDE DEF s
  <2>2. Working(r)
    BY <1>1 DEF Working, Shaped, Fields
  <2> HIDE DEF r
  <2> QED
    BY <2>1, <2>2, LeaveFreshLike, WorksOn DEF Working
<1> QED
  BY <1>2, <1>3, <1>4

LEMMA CommandMoves ==
    ASSUME Command
    PROVE  status = "active" /\ (Works \/ Raises)
<1>1. status = "active"
  BY DEF Command, CompleteWorkItem, RaiseError, FireTimer, DeliverMessage, Commanded
<1>2. CASE \E i \in items : \E doc \in Document : CompleteWorkItem(i, doc)
  BY <1>1, <1>2, CompleteWorkItemMoves
<1>3. CASE \E i \in items : \E code \in Codes : RaiseError(i, code)
  BY <1>1, <1>3, RaiseErrorMoves
<1>4. CASE \E a \in arms : FireTimer(a)
  BY <1>1, <1>4, FiresMoves DEF FireTimer
<1>5. CASE \E a \in arms : \E doc \in Document : DeliverMessage(a, doc)
  BY <1>1, <1>5, FiresMoves DEF DeliverMessage
<1> QED
  BY <1>2, <1>3, <1>4, <1>5 DEF Command

-----------------------------------------------------------------------------
(* Repairs: the open incident is answered, and no other is raised.         *)

Repairs ==
    /\ Works
    /\ status' # "active" => variables' = variables

LEMMA PatchedWorking ==
    ASSUME NEW doc
    PROVE  Working(Patched(doc)) /\ Patched(doc).variables = doc
BY DEF Working, Shaped, Fields, Patched, Now

(* What a repair moves on stays active.                                    *)
LEMMA RepairsTo ==
    ASSUME NEW s, Working(s), Becomes(ResumeHalted(s))
    PROVE  Repairs
BY ResumeLike DEF Repairs, Works, Working, Becomes, Like

LEMMA RetryAnswers ==
    ASSUME NEW t, NEW doc, Retry(t, doc)
    PROVE  Repairs
<1> DEFINE p == Patched(doc)
           u == Unpark(p, t.id)
<1>1. PICK r : Becomes(ResumeHalted(Go(u, t.id, r, t.scope, NoFlow)))
  BY DEF Retry
<1>2. Working(p)
  BY PatchedWorking
<1> HIDE DEF p
<1>3. Working(u)
  BY <1>2, UnparkLike, StaysWorking DEF Working
<1> HIDE DEF u
<1>4. Working(Go(u, t.id, r, t.scope, NoFlow))
  BY <1>3, GoLike, StaysWorking DEF Working
<1> QED
  BY <1>1, <1>4, RepairsTo

LEMMA AdvanceAnswers ==
    ASSUME NEW t, NEW doc, Advance(t, doc)
    PROVE  Repairs
<1> DEFINE p == Patched(doc)
           u == Unpark(p, t.id)
<1>1. PICK r : Becomes(ResumeHalted(Leave(u, t.id, r, t.scope)))
  BY DEF Advance
<1>2. Working(p)
  BY PatchedWorking
<1> HIDE DEF p
<1>3. Working(u)
  BY <1>2, UnparkLike, StaysWorking DEF Working
<1> HIDE DEF u
<1>4. Working(Leave(u, t.id, r, t.scope))
  BY <1>3, LeaveLike, StaysWorking DEF Working
<1> QED
  BY <1>1, <1>4, RepairsTo

LEMMA DivertAnswers ==
    ASSUME NEW t, NEW code, Divert(t, code)
    PROVE  Repairs
<1> DEFINE p == Patched(variables)
<1>1. PICK k, u : Becomes(ResumeHalted(Interrupt(p, u, k.boundary)))
  BY DEF Divert
<1>2. Working(p)
  BY PatchedWorking
<1> HIDE DEF p
<1>3. Working(Interrupt(p, u, k.boundary))
  BY <1>2, InterruptLike, StaysWorking DEF Working
<1> QED
  BY <1>1, <1>3, RepairsTo

(* The one repair by which an instance may complete.                       *)
LEMMA AbandonAnswers ==
    ASSUME NEW t, Abandon(t)
    PROVE  Repairs
<1> DEFINE p == Patched(variables)
           u == Unpark(p, t.id)
           h == ResumeHalted(u)
<1>1. Becomes(Settle(h)) \/ \E c \in scopes : Becomes(ResumeHalted(CompleteScope(u, c)))
  BY DEF Abandon
<1>2. Working(p) /\ p.variables = variables
  BY PatchedWorking
<1> HIDE DEF p
<1>3. Like(u, p)
  BY <1>2, UnparkLike DEF Working
<1>4. Working(u) /\ u.variables = variables
  BY <1>2, <1>3, StaysWorking DEF Like
<1> HIDE DEF u
<1>5. CASE Becomes(Settle(h))
  <2>1. Like(h, u)
    BY <1>4, ResumeLike DEF Working
  <2>2. Working(h) /\ h.variables = variables
    BY <1>4, <2>1, StaysWorking DEF Like
  <2> HIDE DEF h
  <2>3. Works
    BY <1>5, <2>2, WorksOn
  <2>4. Settle(h).variables = variables
    BY <2>2, SettleMayEnd DEF Working, EndedAs
  <2> QED
    BY <1>5, <2>3, <2>4 DEF Repairs, Becomes
<1>6. CASE \E c \in scopes : Becomes(ResumeHalted(CompleteScope(u, c)))
  <2>1. PICK c \in scopes : Becomes(ResumeHalted(CompleteScope(u, c)))
    BY <1>6
  <2>2. Working(CompleteScope(u, c))
    BY <1>4, CompleteScopeLike, StaysWorking DEF Working
  <2> QED
    BY <2>1, <2>2, RepairsTo
<1> QED
  BY <1>1, <1>5, <1>6

LEMMA AbandonInstanceAnswers ==
    ASSUME AbandonInstance
    PROVE  Repairs
<1>1. Shaped(Now) /\ Now.variables = variables /\ Now.nextIncident = nextIncident
  BY DEF Shaped, Fields, Now
<1>2. EndedAs(Terminate(Now), Now, "terminated")
  BY <1>1, TerminateEnds
<1>3. Becomes(Terminate(Now))
  BY DEF AbandonInstance
<1> QED
  BY <1>1, <1>2, <1>3 DEF Repairs, Works, Becomes, EndedAs

LEMMA RepairAnswers ==
    ASSUME Repair
    PROVE  status = "failed" /\ Repairs /\ answered' = answered \union {nextIncident - 1}
<1>1. Disposition /\ status = "failed" /\ answered' = answered \union {nextIncident - 1}
  BY DEF Repair, IsOpen
<1>2. Repairs
  BY <1>1, RetryAnswers, AdvanceAnswers, DivertAnswers, AbandonAnswers, AbandonInstanceAnswers
     DEF Disposition
<1> QED
  BY <1>1, <1>2

LEMMA StartBegins ==
    ASSUME NEW doc \in Document, Start(doc)
    PROVE  status = "created" /\ status' = "active" /\ nextIncident' = nextIncident
           /\ answered' = answered
<1> DEFINE s == [Now EXCEPT !.status = "active", !.variables = doc, !.nextToken = @ + 1]
<1>1. /\ status = "created" /\ answered' = answered
      /\ Becomes(Go(s, nextToken, ProcessStart, Root, NoFlow))
  BY DEF Start
<1>2. Working(s)
  BY DEF Working, Shaped, Fields, Now
<1> HIDE DEF s
<1> QED
  BY <1>1, <1>2, GoLike DEF Working, Like, Becomes

-----------------------------------------------------------------------------
(* Whoever watches an instance sees what InstanceStatus in state.rs and    *)
(* docs/design/incident-scope.md promise: what has ended never changes, a  *)
(* failure takes the next number, a repair answers the one open failure    *)
(* and, where it ends the instance, changes no variable.                   *)
THEOREM LifecycleIsKept == Spec => ImplementsLifecycle
<1>1. Init => Life!Init
  BY DEF Init, Life!Init
<1>2. TypeOK' => variables' \in Document
  BY DEF TypeOK, Sound, State, Now
<1>3. TypeOK' /\ [Next]_vars => [Life!Next]_(Life!vars)
  <2> SUFFICES ASSUME variables' \in Document, [Next]_vars
               PROVE  [Life!Next]_(Life!vars)
    BY <1>2
  <2>1. CASE Internal \/ Command
    <3>1. status = "active" /\ (Works \/ Raises)
      BY <2>1, EnterMoves, AnswerMoves, CommandMoves DEF Internal
    <3>0. answered' = answered
      BY <2>1 DEF Internal, Command
    <3>2. Life!Work \/ Life!Raise
      BY <3>0, <3>1 DEF Works, Raises, Life!Work, Life!Raise
    <3> QED
      BY <3>2 DEF Life!Next
  <2>2. CASE Repair
    <3>1. Life!Repair
      BY <2>2, RepairAnswers DEF Repairs, Works, Life!Repair
    <3> QED
      BY <3>1 DEF Life!Next
  <2>3. CASE \E doc \in Document : Start(doc)
    <3>1. Life!Start
      BY <2>3, StartBegins DEF Life!Start
    <3> QED
      BY <3>1 DEF Life!Next
  <2>4. CASE UNCHANGED vars
    BY <2>4 DEF vars, Life!vars
  <2> QED
    BY <2>1, <2>2, <2>3, <2>4 DEF Next
<1> QED
  BY <1>1, <1>3, TypeCorrect, PTL DEF Spec, ImplementsLifecycle, Life!Spec
=============================================================================
