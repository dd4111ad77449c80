----------------------------- MODULE Admission -----------------------------
(***************************************************************************)
(* What deployment promises of the models it accepts: a model is checked,  *)
(* and the instances of an accepted one run.  The check is DeployCheck and *)
(* Linter; the run is the flow of tokens through the step machine          *)
(* (crates/rbpmn-core/src/step.rs, Advancer), with everything left out     *)
(* that InstanceStep models beside it: variables, keys, repairs.           *)
(*                                                                         *)
(* A token is at a node: about to enter it, waiting there, or arrived at a *)
(* join.  Its scope is the path of subprocess tokens around it.  Its lane  *)
(* is 0, or the number of the boundary firing whose side path it runs on.  *)
(***************************************************************************)
EXTENDS DeployCheck, Sequences, SequencesExt

CONSTANTS
    Draft,      \* the deployments at first: [model |-> m, wiring |-> w]
    Revision(_, _), \* what the k-th revision may make of a deployment
    MaxRevisions,   \* bounds the revisions
    Covered,    \* the topics the environment covers
    MaxFires    \* bounds the firings of non-interrupting boundaries

ASSUME Bounds == MaxRevisions \in Nat /\ MaxFires \in Nat

VARIABLES
    given,      \* the deployment
    revised,    \* how often it was revised
    status,     \* of the deployment, then of the one instance
    warned,     \* the warnings of the verdict
    tokens,
    fired,      \* the firings of non-interrupting boundaries so far
    escaped,    \* the failures that left the lane they happened on
    caught      \* the lanes that an error boundary on their path has taken over

vars == <<given, revised, status, warned, tokens, fired, escaped, caught>>

M == given.model
W == given.wiring

Lane == 0..MaxFires

-----------------------------------------------------------------------------
(* Tokens.                                                                 *)

Moving(n, f, scope, lane) == [at |-> n, via |-> f, wait |-> "moving", scope |-> scope, lane |-> lane]

(* The token that leaves n along flow f.                                   *)
Along(f, scope, lane) == Moving(M.to[f], f, scope, lane)

(* A second token of the lane is at the place u goes to.                   *)
Doubles(ts, u) ==
    \E t \in ts : t.at = u.at /\ t.scope = u.scope /\ t.lane = u.lane /\ t.wait # "join"
                    /\ M.kind[u.at] # "parallel"

(* The instance goes on with tokens ts, of which new have just moved.      *)
Goes(ts, new) ==
    /\ tokens' = ts \union new
    /\ status' = IF \E u \in new : Doubles(ts, u) THEN "doubled"
                 ELSE IF ts \union new = {} THEN "completed" ELSE "running"

Breaks == status' = "broken" /\ UNCHANGED tokens

(* t leaves n, which must have one way on.                                 *)
LeavesFrom(ts, t, n) ==
    IF Single(Out(M, n))
    THEN Goes(ts, {Along(f, t.scope, t.lane) : f \in Out(M, n)})
    ELSE Breaks

Inside(t, u) == IsPrefix(Append(t.scope, <<t.at, t.lane>>), u.scope)

(* What is left when t and everything running inside it are gone.          *)
Without(ts, t) == {u \in ts \ {t} : ~Inside(t, u)}

InScope(ts, scope) == {u \in ts : IsPrefix(scope, u.scope)}

(* The subprocess token whose body scope is.                               *)
Owner(scope) ==
    CHOOSE t \in tokens :
        t.wait = "waiting" /\ Append(t.scope, <<t.at, t.lane>>) = scope

(* A token of scope has been consumed and ts are left: the last one of a   *)
(* body sends the subprocess on.                                           *)
Consumed(ts, scope) ==
    IF scope = << >> \/ InScope(ts, scope) # {} THEN Goes(ts, {})
    ELSE LET t == Owner(scope) IN LeavesFrom(ts \ {t}, t, t.at)

-----------------------------------------------------------------------------
(* The deployment.                                                         *)

Revise ==
    /\ status = "submitted" /\ revised < MaxRevisions
    /\ given' \in {d \in Revision(given, revised + 1) : IsParsed(d.model)}
    /\ revised' = revised + 1
    /\ UNCHANGED <<status, warned, tokens, fired, escaped, caught>>

Accept ==
    /\ status = "submitted" /\ Accepts(M, W, Covered)
    /\ status' = "running"
    /\ warned' = Warnings(M)
    /\ tokens' = {Moving(n, NoFlow, << >>, 0) :
                    n \in {s \in OfKind(M, Starting) : M.scope[s] = Process}}
    /\ UNCHANGED <<given, revised, fired, escaped, caught>>

Refuse ==
    /\ status = "submitted" /\ ~Accepts(M, W, Covered)
    /\ status' = "refused"
    /\ UNCHANGED <<given, revised, warned, tokens, fired, escaped, caught>>

-----------------------------------------------------------------------------
(* A token enters the node it moved to.                                    *)

Waits(t) == Goes((tokens \ {t}) \union {[t EXCEPT !.wait = "waiting", !.via = NoFlow]}, {})

(* What a wait at n needs: its topic covered, its message keyed.           *)
IsWired(n) ==
    /\ M.kind[n] = "service" => Topic(W, n) \in Covered
    /\ \A a \in {n} \union ArmedOn(M, n) : a \in MessageArms(M) => a \in DOMAIN W.key

EnterWait(t) ==
    /\ M.kind[t.at] \in {"service", "user", "receive", "message", "timer"}
    /\ IF IsWired(t.at) THEN Waits(t) ELSE Breaks

EnterRule(t) ==
    /\ M.kind[t.at] = "rule"
    /\ IF t.at \in DOMAIN W.decision THEN LeavesFrom(tokens \ {t}, t, t.at) ELSE Breaks

EnterEvent(t) ==
    /\ M.kind[t.at] = "event"
    /\ IF \A f \in Out(M, t.at) : M.kind[M.to[f]] \in {"timer", "message", "receive"}
       THEN Waits(t) ELSE Breaks

EnterSubProcess(t) ==
    /\ M.kind[t.at] = "subprocess"
    /\ LET scope  == Append(t.scope, <<t.at, t.lane>>)
           starts == {s \in OfKind(M, {"start"}) : M.scope[s] = t.at}
       IN  IF IsWired(t.at)
           THEN Goes((tokens \ {t}) \union {[t EXCEPT !.wait = "waiting", !.via = NoFlow]},
                     {Moving(s, NoFlow, scope, t.lane) : s \in starts})
           ELSE Breaks

EnterStart(t) == M.kind[t.at] = "start" /\ LeavesFrom(tokens \ {t}, t, t.at)

EnterExclusive(t) ==
    /\ M.kind[t.at] = "exclusive"
    /\ \E f \in Out(M, t.at) : Goes(tokens \ {t}, {Along(f, t.scope, t.lane)})

EnterParallel(t) ==
    /\ M.kind[t.at] = "parallel" /\ Single(In(M, t.at))
    /\ Goes(tokens \ {t}, {Along(f, t.scope, t.lane) : f \in Out(M, t.at)})

(* The tokens of t's scope that wait at its join, whatever their lane.     *)
Arrived(t) ==
    {u \in tokens : u.at = t.at /\ u.scope = t.scope /\ u.wait = "join"}

EnterJoin(t) ==
    /\ t.at \in Joins(M)
    /\ IF \E u \in Arrived(t) : u.via = t.via THEN Breaks
       ELSE IF {u.via : u \in Arrived(t)} \union {t.via} = In(M, t.at)
            THEN LeavesFrom(tokens \ (Arrived(t) \union {t}), t, t.at)
            ELSE Goes((tokens \ {t}) \union {[t EXCEPT !.wait = "join"]}, {})

EnterEnd(t) == M.kind[t.at] = "end" /\ Consumed(tokens \ {t}, t.scope)

EnterTerminate(t) ==
    /\ M.kind[t.at] = "terminate"
    /\ Consumed(tokens \ InScope(tokens, t.scope), t.scope)

(* Nothing else is executable, and a boundary is never entered.            *)
EnterUnknown(t) ==
    /\ M.kind[t.at] \in BoundaryEvt \union {"messagestart", "messageend", "throw"}
    /\ Breaks

Enter(t) ==
    /\ status = "running" /\ t \in tokens /\ t.wait = "moving"
    /\ \/ EnterWait(t) \/ EnterRule(t) \/ EnterEvent(t) \/ EnterSubProcess(t)
       \/ EnterStart(t) \/ EnterExclusive(t) \/ EnterParallel(t) \/ EnterJoin(t)
       \/ EnterEnd(t) \/ EnterTerminate(t) \/ EnterUnknown(t)
    /\ UNCHANGED <<given, revised, warned, fired, escaped, caught>>

-----------------------------------------------------------------------------
(* A wait ends, once the step before has come to rest.                     *)

Rests(t) ==
    /\ status = "running" /\ t \in tokens /\ t.wait = "waiting"
    /\ \A u \in tokens : u.wait # "moving"

Done(t) ==
    /\ Rests(t) /\ M.kind[t.at] \in {"service", "user", "receive", "message", "timer"}
    /\ LeavesFrom(tokens \ {t}, t, t.at)
    /\ UNCHANGED <<given, revised, warned, fired, escaped, caught>>

GatewayFires(t) ==
    /\ Rests(t) /\ M.kind[t.at] = "event"
    /\ \E f \in Out(M, t.at) : LeavesFrom(tokens \ {t}, t, M.to[f])
    /\ UNCHANGED <<given, revised, warned, fired, escaped, caught>>

InterruptingFires(t) ==
    /\ Rests(t)
    /\ \E b \in ArmedOn(M, t.at) \intersect M.cancels : LeavesFrom(Without(tokens, t), t, b)
    /\ UNCHANGED <<given, revised, warned, fired, escaped, caught>>

(* A sibling token leaves on b, on a lane of its own; the host stays.      *)
SidePathFires(t) ==
    /\ Rests(t) /\ Len(fired) < MaxFires
    /\ \E b \in ArmedOn(M, t.at) \ M.cancels :
        /\ LeavesFrom(tokens, [t EXCEPT !.lane = Len(fired) + 1], b)
        /\ fired' = Append(fired, [boundary |-> b, scope |-> t.scope, lane |-> t.lane])
    /\ UNCHANGED <<given, revised, warned, escaped, caught>>

(* The hosts a failure of t is offered to, nearest first: t, then the      *)
(* subprocess tokens around it.                                            *)
Offered(t) == {u \in tokens : u = t \/ Inside(u, t)}

CatchesAt(u, code) ==
    LET on == {b \in BoundariesOn(M, u.at) : M.kind[b] = "errorboundary"}
        exact == {b \in on : M.code[b] = code}
    IN  IF exact # {} THEN exact ELSE {b \in on : M.code[b] = CatchAll}

(* t is on the side path of its lane, not in a body on it.                 *)
OnPath(t) == t.lane > 0 /\ t.scope = fired[t.lane].scope

Escape(t) == [boundary |-> fired[t.lane].boundary, at |-> t.at]

(* A task fails with code, or with none: the nearest boundary that catches *)
(* it takes over, and without one the instance freezes.                    *)
Fails(t, code) ==
    /\ Rests(t) /\ M.kind[t.at] \in {"service", "user"}
    /\ LET catching == {u \in Offered(t) : CatchesAt(u, code) # {}}
           nearest  == {u \in catching : \A v \in catching : Len(v.scope) <= Len(u.scope)}
           leaves   == t.lane > 0 /\ \A u \in nearest : u.lane # t.lane
       IN  /\ escaped' = IF leaves THEN escaped \union {Escape(t)} ELSE escaped
           /\ \/ catching = {} /\ status' = "frozen" /\ UNCHANGED <<tokens, caught>>
              \/ \E u \in nearest : \E b \in CatchesAt(u, code) :
                    /\ LeavesFrom(Without(tokens, u), u, b)
                    /\ caught' = caught \union {k \in {u.lane} : OnPath(u)}
    /\ UNCHANGED <<given, revised, warned, fired>>

-----------------------------------------------------------------------------
Init ==
    /\ given \in {d \in Draft : IsParsed(d.model)} /\ revised = 0
    /\ status = "submitted"
    /\ warned = {} /\ tokens = {} /\ fired = << >> /\ escaped = {} /\ caught = {}

Codes == {M.code[b] : b \in DOMAIN M.code} \union {CatchAll}

Next ==
    \/ Revise \/ Accept \/ Refuse
    \/ \E t \in tokens :
        \/ Enter(t) \/ Done(t) \/ GatewayFires(t)
        \/ InterruptingFires(t) \/ SidePathFires(t)
        \/ \E code \in Codes : Fails(t, code)

Spec == Init /\ [][Next]_vars

-----------------------------------------------------------------------------
TypeOK ==
    /\ status \in {"submitted", "refused", "running", "frozen", "completed", "doubled", "broken"}
    /\ \A t \in tokens :
        /\ t.at \in Nodes(M) /\ t.via \in Flows(M) \union {NoFlow}
        /\ t.wait \in {"moving", "waiting", "join"}
        /\ t.lane \in Lane
    /\ Len(fired) <= MaxFires
    /\ \A e \in escaped : e.boundary \in SideStarts(M) /\ e.at \in Nodes(M)
    /\ \A x \in warned : x.boundary \in SideStarts(M) /\ x.at \in Nodes(M)

(* The compiler finds nothing that the linter should have refused.         *)
LintLeavesNothing ==
    status = "submitted" /\ IsExecutable(M) /\ LintsClean(M) => SurvivesCompiler(M)

(* The graph of an accepted model is one the step machine can run: what    *)
(* ProcessGraph assumes of it, OneWayOn to GatewaysRaceCatches.            *)
GraphIsFit(m) ==
    /\ \A n \in Nodes(m) :
        \/ m.kind[n] \in {"event", "exclusive", "end", "terminate"}
        \/ m.kind[n] = "parallel" /\ ~Several(In(m, n)) /\ Out(m, n) # {}
        \/ Single(Out(m, n))
    /\ \A b \in OfKind(m, BoundaryEvt) :
        /\ m.kind[m.host[b]] \in SupportedHost
        /\ m.kind[b] = "errorboundary" => m.kind[m.host[b]] \in MayCatchErrors
        /\ In(m, b) = {}
    /\ \A g \in OfKind(m, {"event"}) : \A f \in Out(m, g) :
        /\ m.kind[m.to[f]] \in {"timer", "message", "receive"}
        /\ In(m, m.to[f]) = {f} /\ BoundariesOn(m, m.to[f]) = {}

(* Its blocks and side paths are as ProcessGraph assumes them, too:        *)
(* StartsNotEntered to GatewaysBalance.                                    *)
BlocksFit(m) ==
    LET sides == UNION {SidePath(m, b) \ {b} : b \in SideStarts(m)}
        succs == Succs(m)
    IN  /\ \A n \in OfKind(m, Starting) : In(m, n) = {}
        /\ {n \in Nodes(m) : In(m, n) # {}} \subseteq Reach(OfKind(m, Starting), succs)
        /\ \A n \in Nodes(m) : succs[n] \intersect sides # {} => n \in sides \union SideStarts(m)
        /\ \A n \in sides : m.kind[n] # "parallel"
        /\ \E closing \in Bijection(Splits(m), Joins(m)) :
              \A s \in Splits(m) : Closes(m, s, closing[s])

AcceptedGraphsFit ==
    status \notin {"submitted", "refused"} => GraphIsFit(M) /\ BlocksFit(M)

(* An instance of an accepted model never meets what the step machine      *)
(* cannot do: a second token on one flow of a join, a node that is not     *)
(* executable or not wired, an activity with no one way on.  And no task   *)
(* runs twice because two tokens of one lane met at it: splits keep their  *)
(* branches apart and side paths keep to themselves.                       *)
AcceptedModelsRun == status \notin {"broken", "doubled"}

(* Side paths aside, the token can leave its scope by terminating it only, *)
(* or not at all: the linter counts a side path as a way to an end event,  *)
(* and so accepts a loop with no other way out.                            *)
NeverJoins(u) ==
    Reach({u.at}, RegionSuccs(M)) \intersect OfKind(M, Ending) \subseteq OfKind(M, {"terminate"})

(* A join that holds tokens can still be completed: the token of every     *)
(* flow it misses can still come, from a token of its scope that is not    *)
(* waiting at it, unless that token has left for good.                     *)
JoinsAreFed ==
    \A t \in tokens : t.wait = "join" =>
        \A f \in In(M, t.at) :
            \/ \E u \in Arrived(t) : u.via = f
            \/ \E u \in tokens :
                /\ u.scope = t.scope /\ ~(u.at = t.at /\ u.wait = "join")
                /\ \/ NeverJoins(u)
                   \/ u.at = t.at /\ u.via = f
                   \/ u.at # t.at /\ M.from[f] \in
                        Reach({u.at}, [RegionSuccs(M) EXCEPT ![t.at] = {}])

(* A failure leaves the side path it happened on, and freezes the instance *)
(* or tears down what runs beside it, only where deployment warned of it.  *)
EscapesAreWarned ==
    \A e \in escaped :
        \E x \in warned :
            /\ x.rule = "failure" /\ x.boundary = e.boundary
            /\ e.at = x.at \/ e.at \in Body(M, x.at)

(* The message arms that are open for token t.                             *)
OpenArms(t) ==
    IF t.wait # "waiting" THEN {}
    ELSE MessageArms(M) \intersect
            ({t.at} \union ArmedOn(M, t.at)
               \union (IF M.kind[t.at] = "event" THEN {M.to[f] : f \in Out(M, t.at)} ELSE {}))

(* One element is armed twice at once only where deployment warned of it.  *)
RepeatedArmsAreWarned ==
    \A t, u \in tokens : t # u =>
        \A a \in OpenArms(t) \intersect OpenArms(u) :
            \E x \in warned : x.rule = "arm" /\ x.at = a

(* What a side path surprises with was announced at deployment.            *)
SurprisesAreWarned == EscapesAreWarned /\ RepeatedArmsAreWarned

(* Lane k runs beside a firing of boundary b on a token like h, or beside  *)
(* a lane that does, and no error handler of a path has led there: what a  *)
(* handler does is not certain to be live.                                 *)
RunsFor(k, b, h) ==
    LET from == [j \in DOMAIN fired |-> IF j \in caught THEN {} ELSE {fired[j].lane} \ {0}]
    IN  \E p \in Reach({k}, from) \ caught :
            fired[p].boundary = b /\ fired[p].scope = h.scope /\ fired[p].lane = h.lane

(* While a host waits behind a message boundary, no other arm that shares  *)
(* its whole wait takes the same messages: not its own, nor one in its     *)
(* body, nor one on the side path a delivery has started beside it.        *)
DeliveriesAreUnambiguous ==
    \A h \in tokens : h.wait = "waiting" =>
        \A b \in ArmedOn(M, h.at) \intersect MessageArms(M) :
            \A t \in tokens :
                ( \/ t = h \/ Inside(h, t)
                  \/ b \notin M.cancels /\ t.lane > 0 /\ RunsFor(t.lane, b, h) )
                => \A a \in OpenArms(t) \ {b} : ~SameArm(M, W, a, b)
=============================================================================
