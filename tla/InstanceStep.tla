---------------------------- MODULE InstanceStep ----------------------------
(***************************************************************************)
(* One process instance and the step machine that advances it              *)
(* (crates/rbpmn-core/src/step.rs and state.rs).                           *)
(*                                                                         *)
(* A command is applied only between steps (Ready): the engine runs it to  *)
(* quiescence under the instance's row lock.  A step is its command action *)
(* followed by one Enter action per move taken off the queue, oldest       *)
(* first.  A business rule's answer is fetched inside the same             *)
(* transaction, so the two Answer actions also precede the next command.   *)
(*                                                                         *)
(* The helpers map a whole state (Now, a record of the variables) to a     *)
(* whole state, as the Rust functions do on &mut InstanceState; an action  *)
(* installs the result with Becomes.  The history variable answered is     *)
(* what a caller was told, and no part of the state.                       *)
(*                                                                         *)
(* Work item, timer and subscription ids are left out: an item is named by *)
(* its token and an arm by its token and element, which identify it.       *)
(***************************************************************************)
EXTENDS ProcessGraph

CONSTANTS
    MaxToken,        \* commands stop once this many tokens were numbered
    MaxScope,        \* ... or this many subprocess scopes were
    MaxIncident      \* ... or this many incidents were

ASSUME BoundsAreNumbers ==
    MaxToken \in Nat /\ MaxScope \in Nat /\ MaxIncident \in Nat

VARIABLES
    status,     \* created, active, failed, completed or terminated
    variables,  \* the variable document
    tokens,     \* parked tokens
    items,      \* open work items
    arms,       \* armed timers and open subscriptions
    scopes,     \* open subprocess scopes
    queue,      \* moves of the step under way, popped in the order of "at"
    nextToken,  \* the next token, scope and incident numbers
    nextScope,
    nextIncident,
    clock,      \* the next place in the queue
    answered    \* history: the incidents that repairs named

vars == <<status, variables, tokens, items, arms, scopes, queue,
          nextToken, nextScope, nextIncident, clock, answered>>

Root == 0   \* the scope of the process itself, always open

Status == {"created", "active", "failed", "completed", "terminated"}
Wait   == {"join", "workitem", "timer", "message", "eventgateway", "scope",
           "decision", "incident", "inflight", "awaiting"}

Token == [id : Nat, node : Node, scope : Nat, wait : Wait, via : Flow \union {NoFlow}]
Item  == [token : Nat, element : Nodes({"task"})]
Armed == [token : Nat, element : Arm, key : Key \union {NoKey}, left : Nat]
Scope == [id : Nat, element : Nodes({"subprocess"}), parent : Nat, token : Nat]
Move  == [token : Nat, node : Node, scope : Nat, via : Flow \union {NoFlow}, at : Nat]
State == [status : Status, variables : Document, tokens : SUBSET Token,
          items : SUBSET Item, arms : SUBSET Armed, scopes : SUBSET Scope,
          queue : SUBSET Move,
          nextToken : Nat, nextScope : Nat, nextIncident : Nat, clock : Nat]

Now == [status |-> status, variables |-> variables, tokens |-> tokens,
        items |-> items, arms |-> arms, scopes |-> scopes,
        queue |-> queue, nextToken |-> nextToken, nextScope |-> nextScope,
        nextIncident |-> nextIncident, clock |-> clock]

Becomes(s) ==
    /\ status' = s.status
    /\ variables' = s.variables
    /\ tokens' = s.tokens
    /\ items' = s.items
    /\ arms' = s.arms
    /\ scopes' = s.scopes
    /\ queue' = s.queue
    /\ nextToken' = s.nextToken
    /\ nextScope' = s.nextScope
    /\ nextIncident' = s.nextIncident
    /\ clock' = s.clock

-----------------------------------------------------------------------------
(* Tokens in motion.                                                       *)

Park(s, id, node, scope, wait, via) ==
    [s EXCEPT !.tokens = @ \union
        {[id |-> id, node |-> node, scope |-> scope, wait |-> wait, via |-> via]}]

Unpark(s, id) == [s EXCEPT !.tokens = {t \in @ : t.id # id}]

(* Queue a move behind the others.                                         *)
Go(s, id, node, scope, via) ==
    LET at == IF s.queue = {} THEN 0 ELSE s.clock
    IN  [s EXCEPT !.queue = @ \union
            {[token |-> id, node |-> node, scope |-> scope, via |-> via, at |-> at]},
                  !.clock = at + 1]

Leave(s, id, node, scope) ==
    LET flow == Outgoing[node][1] IN Go(s, id, Target[flow], scope, flow)

LeaveFresh(s, node, scope) ==
    Leave([s EXCEPT !.nextToken = @ + 1], s.nextToken, node, scope)

(* One fresh token on each outgoing flow of node.                          *)
Split(s, node, scope) ==
    LET out == Outgoing[node]
        at  == IF s.queue = {} THEN 0 ELSE s.clock
    IN  [s EXCEPT !.queue = @ \union
            {[token |-> s.nextToken + i - 1, node |-> Target[out[i]], scope |-> scope,
              via |-> out[i], at |-> at + i - 1] : i \in DOMAIN out},
                  !.nextToken = @ + Len(out),
                  !.clock = at + Len(out)]

CloseItem(s, id)    == [s EXCEPT !.items = {i \in @ : i.token # id}]
WithdrawArms(s, id) == [s EXCEPT !.arms = {a \in @ : a.token # id}]

-----------------------------------------------------------------------------
(* Scopes.                                                                 *)

ScopeIds(s) == {c.id : c \in s.scopes}

(* roots and every scope open inside them.                                 *)
Subtree(s, roots) ==
    LET Closed(X) == roots \subseteq X /\ \A c \in s.scopes : c.parent \in X => c.id \in X
    IN  {x \in roots \union ScopeIds(s) :
            \A X \in SUBSET (roots \union ScopeIds(s)) : Closed(X) => x \in X}

(* Reap everything inside the scopes roots; the roots stay open.           *)
TearDown(s, roots) ==
    LET doomed == Subtree(s, roots)
        reaped == {t.id : t \in {u \in s.tokens : u.scope \in doomed}}
    IN  [s EXCEPT !.queue  = {m \in @ : m.scope \notin doomed},
                  !.tokens = {t \in @ : t.scope \notin doomed},
                  !.items  = {i \in @ : i.token \notin reaped},
                  !.arms   = {a \in @ : a.token \notin reaped},
                  !.scopes = {c \in @ : c.id \in roots \/ c.id \notin doomed}]

(* Tear down and close the scope that token id is parked on, if it is.     *)
CloseOwned(s, id) ==
    LET owned == {c.id : c \in {d \in s.scopes : d.token = id}}
        torn  == TearDown(s, owned)
    IN  [torn EXCEPT !.scopes = {c \in @ : c.id \notin owned}]

IsEmpty(s, scope) ==
    (\A t \in s.tokens : t.scope # scope) /\ (\A m \in s.queue : m.scope # scope)

(* Close scope c; its parked parent leaves the subprocess.                 *)
CompleteScope(s, c) ==
    LET closed == [s EXCEPT !.scopes = {d \in @ : d.id # c.id}]
    IN  Leave(Unpark(WithdrawArms(closed, c.token), c.token), c.token, c.element, c.parent)

Terminate(s) ==
    [s EXCEPT !.status = "terminated", !.tokens = {}, !.items = {}, !.arms = {},
              !.scopes = {}, !.queue = {}, !.clock = 0]

-----------------------------------------------------------------------------
(* Arms.                                                                   *)

KeyOf(el, doc) == IF el \in MessageArm THEN doc[Reads[el]] ELSE NoKey

ArmFor(el, id, doc) ==
    [token |-> id, element |-> el, key |-> KeyOf(el, doc), left |-> Repeats[el]]

Unusable(el, doc) ==
    IF el \in MessageArm THEN doc[Reads[el]] \notin Key
                         ELSE Reads[el] # Literal /\ doc[Reads[el]] \notin Deadline

SameSubscription(a, b) ==
    a.element \in MessageArm /\ b.element \in MessageArm
    /\ Message[a.element] = Message[b.element] /\ a.key = b.key

CannotArm(open, el, id, doc) ==
    Unusable(el, doc) \/ \E a \in open : SameSubscription(a, ArmFor(el, id, doc))

(* The arms of els up to the k-th, opened on token id.                     *)
ArmsUpTo(els, k, id, doc) == {ArmFor(els[j], id, doc) : j \in 1..k}

AllCanArm(s, els, id) ==
    \A k \in DOMAIN els :
        ~CannotArm(s.arms \union ArmsUpTo(els, k - 1, id, s.variables), els[k], id, s.variables)

(* The k-th of els is the first that cannot be armed on token id.          *)
FailsToArm(s, els, k, id) ==
    LET Cannot(j) == CannotArm(s.arms \union ArmsUpTo(els, j - 1, id, s.variables),
                               els[j], id, s.variables)
    IN  Cannot(k) /\ \A j \in 1..(k - 1) : ~Cannot(j)

ArmAll(s, els, id) ==
    [s EXCEPT !.arms = @ \union ArmsUpTo(els, Len(els), id, s.variables)]

-----------------------------------------------------------------------------
(* The incident freeze: token id parks at the failing element, everything  *)
(* it held is withdrawn, and everything else halts where it stands.        *)

Halted(t) == IF t.wait = "decision" THEN [t EXCEPT !.wait = "awaiting"] ELSE t

InFlight(m) ==
    [id |-> m.token, node |-> m.node, scope |-> m.scope, wait |-> "inflight", via |-> m.via]

(* Mutants: the moves under way are lost; the scope the token had just     *)
(* opened stays open.                                                      *)
FreezeDropsMoves(s, id, scope, element) ==
    LET w == Unpark(CloseOwned(CloseItem(WithdrawArms(s, id), id), id), id)
        h == [w EXCEPT !.tokens = {Halted(t) : t \in @}]
    IN  [Park(h, id, element, scope, "incident", NoFlow)
            EXCEPT !.queue = {}, !.status = "failed",
                   !.nextIncident = @ + 1, !.clock = 0]

FreezeKeepsScope(s, id, scope, element) ==
    LET w == Unpark(CloseItem(WithdrawArms(s, id), id), id)
        h == [w EXCEPT !.tokens = {Halted(t) : t \in @} \union {InFlight(m) : m \in w.queue}]
    IN  [Park(h, id, element, scope, "incident", NoFlow)
            EXCEPT !.queue = {}, !.status = "failed",
                   !.nextIncident = @ + 1, !.clock = 0]

Freeze(s, id, scope, element) ==
    LET w == Unpark(CloseOwned(CloseItem(WithdrawArms(s, id), id), id), id)
        h == [w EXCEPT !.tokens = {Halted(t) : t \in @} \union {InFlight(m) : m \in w.queue}]
    IN  [Park(h, id, element, scope, "incident", NoFlow)
            EXCEPT !.queue = {}, !.status = "failed",
                   !.nextIncident = @ + 1, !.clock = 0]

(* An interrupting boundary b of parked token t: the host ends, its token  *)
(* leaves on b.                                                            *)
Interrupt(s, t, b) ==
    Leave(WithdrawArms(CloseOwned(Unpark(s, t.id), t.id), t.id), t.id, b, t.scope)

(* A repair lets the collateral of the freeze go on, in token order.       *)
ResumeHalted(s) ==
    LET halted == {t \in s.tokens : t.wait = "inflight"}
    IN  [s EXCEPT !.tokens = @ \ halted,
                  !.queue = @ \union
                    {[token |-> t.id, node |-> t.node, scope |-> t.scope, via |-> t.via,
                      at |-> s.clock + t.id] : t \in halted},
                  !.clock = @ + s.nextToken]

(* The end of a step, once no move is left: halted decisions are asked     *)
(* again, and an instance without a token has completed.  Only an action   *)
(* that may leave the queue empty calls it.                                *)
Settle(s) ==
    IF s.status # "active" \/ s.queue # {} THEN s
    ELSE [s EXCEPT !.tokens = {IF t.wait = "awaiting" THEN [t EXCEPT !.wait = "decision"] ELSE t
                                 : t \in @},
                   !.status = IF s.tokens = {} THEN "completed" ELSE "active",
                   !.clock = 0]

-----------------------------------------------------------------------------
(* Entering a node: one action per kind of node, on the oldest move.       *)

IsHead(m) == m \in queue /\ \A k \in queue : m.at <= k.at

Enters(m, kind) == status = "active" /\ IsHead(m) /\ Kind[m.node] = kind

Taken(m) == [Now EXCEPT !.queue = @ \ {m}]

(* Arm els on token id that has just parked in s, or freeze at the first   *)
(* one that cannot be armed.                                               *)
ArmOrFreeze(s, id, scope, els) ==
    \/ AllCanArm(s, els, id) /\ Becomes(Settle(ArmAll(s, els, id)))
    \/ \E k \in DOMAIN els : FailsToArm(s, els, k, id) /\ Becomes(Freeze(s, id, scope, els[k]))

EnterStart(m) ==
    /\ Enters(m, "start")
    /\ Becomes(Leave(Taken(m), m.token, m.node, m.scope))

EnterRule(m) ==
    /\ Enters(m, "rule")
    /\ Becomes(Settle(Park(Taken(m), m.token, m.node, m.scope, "decision", NoFlow)))

EnterTask(m) ==
    /\ Enters(m, "task")
    /\ LET parked == Park(Taken(m), m.token, m.node, m.scope, "workitem", NoFlow)
           opened == [parked EXCEPT !.items = @ \union {[token |-> m.token, element |-> m.node]}]
       IN  ArmOrFreeze(opened, m.token, m.scope, ArmedAt(m.node))

EnterCatch(m) ==
    \E kind \in {"timer", "message", "eventgateway"} :
        /\ Enters(m, kind)
        /\ ArmOrFreeze(Park(Taken(m), m.token, m.node, m.scope, kind, NoFlow),
                       m.token, m.scope, ArmedAt(m.node))

EnterSubProcess(m) ==
    /\ Enters(m, "subprocess")
    /\ LET child  == [id |-> nextScope, element |-> m.node, parent |-> m.scope, token |-> m.token]
           opened == [Park(Taken(m), m.token, m.node, m.scope, "scope", NoFlow)
                         EXCEPT !.scopes = @ \union {child}, !.nextScope = @ + 1]
           els    == ArmedAt(m.node)
           armed  == ArmAll(opened, els, m.token)
       IN  \/ /\ AllCanArm(opened, els, m.token)
              /\ Becomes(Go([armed EXCEPT !.nextToken = @ + 1],
                            armed.nextToken, BodyStart[m.node], child.id, NoFlow))
           \/ \E k \in DOMAIN els :
                /\ FailsToArm(opened, els, k, m.token)
                /\ Becomes(Freeze(opened, m.token, m.scope, els[k]))

EnterExclusive(m) ==
    /\ Enters(m, "exclusive")
    /\ \E i \in DOMAIN Outgoing[m.node] :
        /\ Takes(m.node, i, variables)
        /\ LET flow == Outgoing[m.node][i]
           IN  Becomes(Go(Taken(m), m.token, Target[flow], m.scope, flow))

EnterSplit(m) ==
    /\ Enters(m, "parallel") /\ ~IsJoin(m.node)
    /\ Becomes(Split(Taken(m), m.node, m.scope))

(* The tokens of m's scope that wait at its join.                          *)
Arrived(m) ==
    {t \in tokens : t.node = m.node /\ t.scope = m.scope /\ t.wait = "join"}

StillMissing(m) == Incoming(m.node) \ ({t.via : t \in Arrived(m)} \union {m.via})

JoinParks(m) ==
    /\ StillMissing(m) # {}
    /\ Becomes(Settle(Park(Taken(m), m.token, m.node, m.scope, "join", m.via)))

JoinFires(m) ==
    /\ StillMissing(m) = {}
    /\ Becomes(LeaveFresh([Taken(m) EXCEPT !.tokens = @ \ Arrived(m)], m.node, m.scope))

(* A second arrival on one flow would be an error of the step machine.     *)
EnterJoin(m) ==
    /\ Enters(m, "parallel") /\ IsJoin(m.node)
    /\ m.via # NoFlow /\ \A t \in Arrived(m) : t.via # m.via
    /\ JoinParks(m) \/ JoinFires(m)

(* s after a token of scope was consumed: the last one completes a scope   *)
(* that is not the root.                                                   *)
Consumed(s, scope) ==
    \/ (scope = Root \/ ~IsEmpty(s, scope)) /\ Becomes(Settle(s))
    \/ \E c \in s.scopes :
        c.id = scope /\ IsEmpty(s, scope) /\ Becomes(CompleteScope(s, c))

EnterEnd(m) == Enters(m, "end") /\ Consumed(Taken(m), m.scope)

EnterTerminate(m) ==
    /\ Enters(m, "terminate")
    /\ \/ m.scope = Root /\ Becomes(Terminate(Taken(m)))
       \/ \E c \in scopes :
            c.id = m.scope /\ Becomes(CompleteScope(TearDown(Taken(m), {c.id}), c))

Enter(m) ==
    \/ EnterStart(m) \/ EnterRule(m) \/ EnterTask(m) \/ EnterCatch(m)
    \/ EnterSubProcess(m) \/ EnterExclusive(m) \/ EnterSplit(m) \/ EnterJoin(m)
    \/ EnterEnd(m) \/ EnterTerminate(m)

-----------------------------------------------------------------------------
(* The answers to pending decisions, lowest token first.                   *)

IsNextDecision(t) ==
    /\ status = "active" /\ queue = {} /\ t \in tokens /\ t.wait = "decision"
    /\ \A u \in tokens : u.wait = "decision" => t.id <= u.id

(* Mutant: the answered token stays parked on its decision.                *)
AnswerDecisionStaysParked(t, answer) ==
    /\ IsNextDecision(t)
    /\ LET s == [Now EXCEPT !.variables[Result[t.node]] = answer]
       IN  Becomes(Leave(WithdrawArms(s, t.id), t.id, t.node, t.scope))

AnswerDecision(t, answer) ==
    /\ IsNextDecision(t)
    /\ LET s == [Now EXCEPT !.variables[Result[t.node]] = answer]
       IN  Becomes(Leave(WithdrawArms(Unpark(s, t.id), t.id), t.id, t.node, t.scope))

DecisionFails(t) == IsNextDecision(t) /\ Becomes(Freeze(Now, t.id, t.scope, t.node))

-----------------------------------------------------------------------------
(* Commands.  The document a patch leads to is chosen freely.              *)

(* No step is under way: what the engine commits.                          *)
Between == queue = {} /\ \A t \in tokens : t.wait # "decision"

Ready ==
    /\ Between
    /\ nextToken <= MaxToken /\ nextScope <= MaxScope /\ nextIncident <= MaxIncident

Start(doc) ==
    /\ Ready /\ status = "created"
    /\ LET s == [Now EXCEPT !.status = "active", !.variables = doc, !.nextToken = @ + 1]
       IN  Becomes(Go(s, nextToken, ProcessStart, Root, NoFlow))
    /\ UNCHANGED answered

Commanded == Ready /\ status = "active"

CompleteWorkItem(i, doc) ==
    /\ Commanded /\ i \in items
    /\ \E t \in tokens :
        /\ t.id = i.token
        /\ LET s == Unpark([CloseItem(Now, i.token) EXCEPT !.variables = doc], i.token)
           IN  Becomes(Leave(WithdrawArms(s, i.token), i.token, i.element, t.scope))

(* Where an error raised at host is caught: on the host, else on the       *)
(* nearest enclosing subprocess, with the token each would interrupt.      *)
Catchers(s, host, id, scope, code) ==
    LET Found(h, k) == {[token |-> k, boundary |-> b] : b \in Catching(h, code)}
        enclosing   == {c \in s.scopes : scope \in Subtree(s, {c.id})}
        catching    == {c \in enclosing : Catching(c.element, code) # {}}
        nearest     == {c \in catching : \A d \in catching \ {c} : d.id \notin Subtree(s, {c.id})}
    IN  IF Catching(host, code) # {} THEN Found(host, id)
        ELSE UNION {Found(c.element, c.token) : c \in nearest}

ErrorCaught(s, k) == \E t \in s.tokens : t.id = k.token /\ Becomes(Interrupt(s, t, k.boundary))

(* Mutant: the failing token is gone before the teardown looks for it, and *)
(* its arms with nobody to withdraw them.                                  *)
RaiseErrorUnparksFirst(i, code) ==
    /\ Commanded /\ i \in items
    /\ \E t \in tokens :
        /\ t.id = i.token
        /\ LET s     == CloseItem(Now, i.token)
               found == Catchers(s, i.element, i.token, t.scope, code)
           IN  \/ \E k \in found : k.token = i.token /\ ErrorCaught(s, k)
               \/ \E k \in found : k.token # i.token /\ ErrorCaught(Unpark(s, t.id), k)
               \/ found = {} /\ Becomes(Freeze(s, i.token, t.scope, i.element))

RaiseError(i, code) ==
    /\ Commanded /\ i \in items
    /\ \E t \in tokens :
        /\ t.id = i.token
        /\ LET s     == CloseItem(Now, i.token)
               found == Catchers(s, i.element, i.token, t.scope, code)
           IN  \/ \E k \in found : ErrorCaught(s, k)
               \/ found = {} /\ Becomes(Freeze(s, i.token, t.scope, i.element))

(* An arm fired.  Its token is the catch itself, the host of a boundary,   *)
(* or a gateway whose other alternatives it has beaten.                    *)
Spent(a, doc) == [Now EXCEPT !.arms = @ \ {a}, !.variables = doc]

CatchFires(a, t, doc) ==
    /\ t.wait \in {"timer", "message"} /\ t.node = a.element
    /\ Becomes(Leave(Unpark(WithdrawArms(Spent(a, doc), t.id), t.id),
                     t.id, a.element, t.scope))

GatewayFires(a, t, doc) ==
    /\ t.wait = "eventgateway" /\ a.element \in Range(Alternatives(t.node))
    /\ Becomes(Leave(Unpark(WithdrawArms(Spent(a, doc), t.id), t.id),
                     t.id, a.element, t.scope))

Hosting(a, t) == t.wait \in {"workitem", "message", "scope"} /\ t.node # a.element

(* Mutants: the host's work item stays open; the host stays parked and a   *)
(* second token takes the boundary.                                        *)
InterruptingFiresLeavesItem(a, t, doc) ==
    /\ Hosting(a, t) /\ a.element \notin NonInterrupting
    /\ Becomes(Interrupt(Spent(a, doc), t, a.element))

InterruptingFiresBeside(a, t, doc) ==
    /\ Hosting(a, t) /\ a.element \notin NonInterrupting
    /\ Becomes(LeaveFresh(Spent(a, doc), a.element, t.scope))

InterruptingFires(a, t, doc) ==
    /\ Hosting(a, t) /\ a.element \notin NonInterrupting
    /\ Becomes(Interrupt(CloseItem(Spent(a, doc), t.id), t, a.element))

(* Mutant: a boundary is armed once only.                                  *)
RearmedNever(a, doc) == {}

(* What a non-interrupting boundary arms again before its side path runs:  *)
(* a message always, a timer while it has occurrences left.                *)
Rearmed(a, doc) ==
    IF a.element \in MessageArm THEN {ArmFor(a.element, a.token, doc)}
    ELSE IF a.left = 1 THEN {}
    ELSE {[a EXCEPT !.left = IF a.left = 0 THEN 0 ELSE a.left - 1]}

SidePathFires(a, t, doc) ==
    /\ Hosting(a, t) /\ a.element \in NonInterrupting
    /\ LET s == [Spent(a, doc) EXCEPT !.arms = @ \union Rearmed(a, doc)]
       IN  Becomes(LeaveFresh(s, a.element, t.scope))

FireTimer(a) ==
    /\ Commanded /\ a \in arms /\ a.element \in TimerArm
    /\ \E t \in tokens :
        /\ t.id = a.token
        /\ \/ CatchFires(a, t, variables) \/ GatewayFires(a, t, variables)
           \/ InterruptingFires(a, t, variables) \/ SidePathFires(a, t, variables)

(* Mutant: every delivery is accepted.                                     *)
CanRearmAlways(a, doc) == TRUE

(* A delivery whose boundary could not be armed again is refused before    *)
(* anything changes.                                                       *)
CanRearm(a, doc) ==
    a.element \in MessageArm \intersect NonInterrupting
        => ~CannotArm(arms \ {a}, a.element, a.token, doc)

DeliverMessage(a, doc) ==
    /\ Commanded /\ a \in arms /\ a.element \in MessageArm
    /\ CanRearm(a, doc)
    /\ \E t \in tokens :
        /\ t.id = a.token
        /\ \/ CatchFires(a, t, doc) \/ GatewayFires(a, t, doc)
           \/ InterruptingFires(a, t, doc) \/ SidePathFires(a, t, doc)

-----------------------------------------------------------------------------
(* The repair of the open incident: the disposition moves the one token at *)
(* an incident on, and the collateral resumes with it.                     *)

Repairing(t) ==
    /\ Ready /\ status = "failed"
    /\ t \in tokens /\ t.wait = "incident"
    /\ \A u \in tokens \ {t} : u.wait # "incident"

Patched(doc) == [Now EXCEPT !.status = "active", !.variables = doc]

Retry(t, doc) ==
    /\ Repairing(t)
    /\ \E r \in ResumePoints(t.node) :
        Becomes(ResumeHalted(Go(Unpark(Patched(doc), t.id), t.id, r, t.scope, NoFlow)))

(* A rule is advanced by its answer alone, anything else by a patch.       *)
Advance(t, doc) ==
    /\ Repairing(t)
    /\ \E r \in ResumePoints(t.node) :
        /\ Kind[r] # "eventgateway"
        /\ Kind[r] = "rule" =>
            \A n \in Name \ {Result[r]} : doc[n] = variables[n]
        /\ Becomes(ResumeHalted(Leave(Unpark(Patched(doc), t.id), t.id, r, t.scope)))

Divert(t, code) ==
    /\ Repairing(t)
    /\ \E r \in ResumePoints(t.node) :
        LET s == Patched(variables)
        IN  \E k \in Catchers(s, r, t.id, t.scope, code) :
             \E u \in tokens :
                /\ u.id = k.token
                /\ Becomes(ResumeHalted(Interrupt(s, u, k.boundary)))

(* Mutant: abandoning is never refused.                                    *)
StrandsNoJoin(t, r) == FALSE

(* Consuming the cause must leave no join waiting for it.                  *)
StrandsAJoin(t, r) == r \notin SidePath /\ \E u \in tokens \ {t} : u.scope = t.scope

Abandon(t) ==
    /\ Repairing(t)
    /\ \E r \in ResumePoints(t.node) :
        /\ ~StrandsAJoin(t, r)
        /\ LET s == Unpark(Patched(variables), t.id)
           IN  \/ /\ t.scope = Root \/ ~IsEmpty(s, t.scope)
                  /\ Becomes(Settle(ResumeHalted(s)))
               \/ \E c \in scopes :
                    /\ c.id = t.scope /\ IsEmpty(s, t.scope)
                    /\ Becomes(ResumeHalted(CompleteScope(s, c)))

AbandonInstance == Ready /\ status = "failed" /\ Becomes(Terminate(Now))

-----------------------------------------------------------------------------
Init ==
    /\ status = "created"
    /\ variables \in Document
    /\ tokens = {} /\ items = {} /\ arms = {} /\ scopes = {} /\ queue = {}
    /\ nextToken = 0 /\ nextScope = 1 /\ nextIncident = 0 /\ clock = 0
    /\ answered = {}

Answer == \E t \in tokens : DecisionFails(t) \/ \E v \in Value : AnswerDecision(t, v)

Internal == ((\E m \in queue : Enter(m)) \/ Answer) /\ UNCHANGED answered

Command ==
  /\ UNCHANGED answered
  /\ \/ \E i \in items :
          (\E doc \in Document : CompleteWorkItem(i, doc)) \/ (\E code \in Codes : RaiseError(i, code))
     \/ \E a \in arms :
          FireTimer(a) \/ \E doc \in Document : DeliverMessage(a, doc)

(* Mutant: a repair of any incident repairs the open one.                  *)
AnyIsOpen(named) == status = "failed"

(* An incident keeps its number, and the last one is open until repaired.  *)
IsOpen(named) == status = "failed" /\ named = nextIncident - 1

Disposition ==
    \/ \E t \in tokens :
        \/ \E doc \in Document : Retry(t, doc) \/ Advance(t, doc)
        \/ \E code \in Codes : Divert(t, code)
        \/ Abandon(t)
    \/ AbandonInstance

(* The caller names the incident it read of, which may be an earlier one.  *)
Repair ==
    \E named \in 0 .. nextIncident :
        IsOpen(named) /\ Disposition /\ answered' = answered \union {named}

Next == Internal \/ Command \/ Repair \/ \E doc \in Document : Start(doc)

Spec == Init /\ [][Next]_vars

(* The engine drives a step to its end within one transaction.             *)
FairSpec == Spec /\ WF_vars(Internal)

-----------------------------------------------------------------------------
(* A token waits in the way its node makes tokens wait, and an incident is *)
(* at a node that can fail: "a timer fired on a token in an unrelated wait *)
(* state" has no such token to meet.                                       *)
Fits(t) ==
    /\ t.wait \in {"timer", "message", "eventgateway"} => Kind[t.node] = t.wait
    /\ t.wait = "workitem" => Kind[t.node] = "task"
    /\ t.wait = "scope" => Kind[t.node] = "subprocess"
    /\ t.wait \in {"decision", "awaiting"} => Kind[t.node] = "rule"
    /\ t.wait = "join" => IsJoin(t.node)
    /\ t.wait = "incident" =>
        Kind[t.node] \in {"task", "rule", "timer", "message", "timerboundary", "messageboundary"}

Sound(s) == s \in State /\ \A t \in s.tokens : Fits(t)

(* Every variable holds what InstanceState declares it to hold, keys are   *)
(* usable ones, and every token, item, arm and scope is at a node of the   *)
(* kind that makes it.                                                     *)
TypeOK == Sound(Now) /\ answered \subseteq Nat

(* A token is in one place: parked once, or under way once, and its number *)
(* was handed out.  Every arm, item and scope names its token by it.       *)
TokensAreUnique ==
    /\ \A t, u \in tokens : t.id = u.id => t = u
    /\ \A m, k \in queue : m.token = k.token => m = k
    /\ \A t \in tokens, m \in queue : t.id # m.token
    /\ \A t \in tokens : t.id < nextToken
    /\ \A m \in queue : m.token < nextToken

(* A token whose wait can hold arms.                                       *)
Holding(t) == t.wait \in {"workitem", "timer", "message", "eventgateway", "scope"}

(* An armed timer or open subscription is held by a parked token that      *)
(* waits at a node which arms it: firing it never meets a token that is    *)
(* gone or in an unrelated wait (ArmedTimersHaveLiveTokens, for both kinds *)
(* of arm).                                                                *)
ArmsHaveLiveTokens ==
    \A a \in arms : \E t \in tokens :
        t.id = a.token /\ Holding(t) /\ a.element \in Range(ArmedAt(t.node))

(* An open work item belongs to a token parked on it, at its own element:  *)
(* completing or failing it finds the token.                               *)
ItemsHaveLiveTokens ==
    \A i \in items : \E t \in tokens :
        t.id = i.token /\ t.wait = "workitem" /\ t.node = i.element

(* A non-interrupting timer that does not repeat for ever.                 *)
MayRunOut(el) == el \in TimerArm \intersect NonInterrupting /\ Repeats[el] # 0

(* Every wait can end, and a live host is never without its boundaries:    *)
(* a parked token has its open work item and, exactly once, each arm of    *)
(* its node, save a timer that has run out.                                *)
EveryWaitCanEnd ==
    \A t \in tokens : Holding(t) =>
        /\ t.wait = "workitem" =>
              \E i \in items : i.token = t.id /\ i.element = t.node
        /\ \A el \in Range(ArmedAt(t.node)) :
              LET held == {a \in arms : a.token = t.id /\ a.element = el}
              IN  Cardinality(held) = 1 \/ (held = {} /\ MayRunOut(el))

(* Never two open subscriptions for one message and key: a delivery would  *)
(* be ambiguous for ever after.                                            *)
NoAmbiguousSubscription ==
    \A a, b \in arms : SameSubscription(a, b) => a = b

(* Scopes and the tokens parked on them correspond, every token is in an   *)
(* open scope, and no scope stays open with nothing left inside it.        *)
ScopesMatchTokens ==
    /\ \A c \in scopes :
        /\ \E t \in tokens : t.id = c.token /\ t.wait = "scope"
                             /\ t.node = c.element /\ t.scope = c.parent
        /\ ~IsEmpty(Now, c.id)
    /\ \A t \in tokens :
        t.wait = "scope" => Cardinality({c \in scopes : c.token = t.id}) = 1
    /\ \A x \in {t.scope : t \in tokens} \union {m.scope : m \in queue} :
        x \in {Root} \union ScopeIds(Now)

(* A failed instance is frozen: one cause, nothing under way, no decision  *)
(* pending.  Between steps nothing is halted on an instance that is not.   *)
FrozenHasOneCause ==
    /\ status = "failed" =>
        /\ queue = {} /\ \A t \in tokens : t.wait # "decision"
        /\ Cardinality({t \in tokens : t.wait = "incident"}) = 1
    /\ status # "failed" => \A t \in tokens : t.wait # "incident"
    /\ Between /\ status # "failed" => \A t \in tokens : t.wait \notin {"inflight", "awaiting"}

(* What is persisted can be loaded and carried on from, also in the middle *)
(* of a freeze: each token is in one place, each scope has the token that  *)
(* waits for it and something inside, and a failure has one cause.         *)
StateIsCoherent == TypeOK /\ TokensAreUnique /\ ScopesMatchTokens /\ FrozenHasOneCause

(* Completed and terminated instances hold nothing: no timer left to fire, *)
(* no work item left to claim, no token left behind.                       *)
NothingOpenAfterEnd ==
    status \in {"completed", "terminated"} =>
        tokens = {} /\ items = {} /\ arms = {} /\ scopes = {} /\ queue = {}

(* An open work item never outlives its token, nor anything its instance:  *)
(* not past an interrupting boundary, a failure caught outside, a          *)
(* terminate end event, or a repair that abandons.                         *)
WorkEndsWithItsToken == ItemsHaveLiveTokens /\ NothingOpenAfterEnd

(* An active instance at rest waits for something outside it, and a token  *)
(* at a join has, in its scope, a token that can still come to it: no join *)
(* waits for a token that was consumed.                                    *)
JoinsStillFed ==
    status = "active" /\ Between =>
        /\ tokens # {}
        /\ \A t \in tokens : t.wait = "join" =>
            \E u \in tokens : u.scope = t.scope /\ u.wait # "join" /\ u.node \notin SidePath

(* A move can be entered without an internal error: no flow leads to a     *)
(* boundary, and no second token arrives at a join on one flow.            *)
NoStepErrors ==
    \A m \in queue :
        IsHead(m) /\ status = "active" =>
            /\ Kind[m.node] \notin {"timerboundary", "messageboundary", "errorboundary"}
            /\ IsJoin(m.node) => m.via # NoFlow /\ \A t \in Arrived(m) : t.via # m.via

-----------------------------------------------------------------------------
Live == {t.id : t \in tokens} \union {m.token : m \in queue}

(* A freeze advances nothing and loses nothing: the tokens there were are  *)
(* the tokens there are, each where it was, and all but the cause keep     *)
(* their work items and arms.                                              *)
FreezeKeepsTokens ==
    [][status = "active" /\ status' = "failed" =>
        LET cause == CHOOSE t \in tokens' : t.wait = "incident"
        IN  /\ Live' = Live
            /\ \A t \in tokens \union {InFlight(m) : m \in queue} :
                t.id # cause.id => \E u \in tokens' :
                    u = t \/ u = Halted(t)
            /\ \A i \in items : i.token # cause.id => i \in items'
            /\ \A a \in arms : a.token # cause.id => a \in arms']_vars

(* In the scopes a step leaves open, only the tokens one join merges and   *)
(* an abandoned cause are gone after it, and at most one parked token      *)
(* moves: a teardown never reaches beyond its scope.                       *)
SiblingsSurvive ==
    [][status' \in {"active", "failed"} =>
        LET kept == {t \in tokens : t.scope \in {Root} \union {c.id : c \in scopes'}}
            gone == {t \in kept : t.id \notin Live'}
            moved == {t \in kept : t.wait \notin {"inflight", "incident", "decision", "awaiting"}
                                   /\ t \notin tokens' /\ t.id \in Live'}
        IN  /\ \A t \in gone :
                \/ t.wait = "incident"
                \/ t.wait = "join" /\ \A u \in gone : u.node = t.node /\ u.scope = t.scope
            /\ Cardinality(moved) <= 1]_vars

(* No step takes a token it is not about: neither a teardown, nor a freeze *)
(* with the moves of other branches under way.                             *)
TokensAreKept == SiblingsSurvive /\ FreezeKeepsTokens

(* A step comes to rest: "a model that lints clean and compiles against    *)
(* its manifest is one the engine will run to quiescence".                 *)
StepReachesQuiescence == ~Between ~> Between

(* The instance keeps what Lifecycle promises whoever watches it.          *)
Life == INSTANCE Lifecycle WITH incidents <- nextIncident

ImplementsLifecycle == Life!Spec
=============================================================================
