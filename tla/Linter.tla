------------------------------- MODULE Linter -------------------------------
(***************************************************************************)
(* The linter (crates/rbpmn-model/src/lint): which process models are      *)
(* refused before anything runs, and what an accepted one is warned about. *)
(*                                                                         *)
(* A model is a record m:                                                  *)
(*   m.kind[n]      the kind of element n                                  *)
(*   m.scope[n]     the body n stands in: Process, or a subprocess         *)
(*   m.from[f], m.to[f]   the ends of sequence flow f, which is declared   *)
(*                  in the scope it starts in                              *)
(*   m.conditioned  the flows with a condition                             *)
(*   m.default[g]   the default flow of exclusive gateway g, or NoFlow     *)
(*   m.host[b]      the activity boundary b is attached to                 *)
(*   m.cancels      the boundaries that cancel their host                  *)
(*   m.code[b]      what error boundary b catches: a code or CatchAll      *)
(*   m.message[n]   the name of the message n refers to                    *)
(*   m.timer[n]     how the deadline of timer n is given                   *)
(* A reference that leads nowhere is Unresolved.  Ids are unique by        *)
(* construction; what a diagnostic says is left out, whether it is an      *)
(* error or a warning is not.                                              *)
(***************************************************************************)
EXTENDS Naturals, FiniteSets, Reachability

CONSTANTS Process, NoFlow, CatchAll, Unresolved

ASSUME Apart == NoFlow # Unresolved /\ CatchAll # Unresolved

Nodes(m) == DOMAIN m.kind
Flows(m) == DOMAIN m.to

OfKind(m, kinds) == {n \in Nodes(m) : m.kind[n] \in kinds}

Gateway     == {"exclusive", "parallel", "event"}
BoundaryEvt == {"timerboundary", "messageboundary", "errorboundary"}
Starting    == {"start", "messagestart"}
Ending      == {"end", "messageend", "terminate"}

(* What may carry a boundary, and what may carry an error boundary.        *)
SupportedHost    == {"service", "user", "receive", "subprocess"}
MayCatchErrors   == {"service", "subprocess"}
MessageArmKind   == {"message", "receive", "messageboundary"}
SupportedElement ==
    Starting \union Ending \union Gateway \union BoundaryEvt \union SupportedHost
        \union {"rule", "timer", "message", "throw"}

(* What parsing leaves of any document: bodies stand in subprocesses, and  *)
(* boundaries, nothing else, have a host.                                  *)
IsParsed(m) ==
    /\ IsFiniteSet(Nodes(m)) /\ IsFiniteSet(Flows(m)) /\ Process \notin Nodes(m)
    /\ m.scope \in [Nodes(m) -> {Process} \union OfKind(m, {"subprocess"})]
    /\ DOMAIN m.host = OfKind(m, BoundaryEvt)

-----------------------------------------------------------------------------
(* The graph of a model, and where one can get in it.                      *)

Out(m, n)          == {f \in Flows(m) : m.from[f] = n}
In(m, n)           == {f \in Flows(m) : m.to[f] = n}
BoundariesOn(m, n) == {b \in DOMAIN m.host : m.host[b] = n}

FlowSuccs(m)   == [n \in Nodes(m) |-> {m.to[f] : f \in Out(m, n)}]
Succs(m)       == [n \in Nodes(m) |-> {m.to[f] : f \in Out(m, n)} \union BoundariesOn(m, n)]
RegionSuccs(m) == [n \in Nodes(m) |-> {m.to[f] : f \in Out(m, n)}
                                        \union (BoundariesOn(m, n) \intersect m.cancels)]
Preds(m)       == [n \in Nodes(m) |-> {m.from[f] : f \in In(m, n)}
                                        \union {h \in Nodes(m) : n \in BoundariesOn(m, h)}]

(* The elements inside subprocess a, at any depth.                         *)
Body(m, a) ==
    LET inside == [n \in Nodes(m) |-> {k \in Nodes(m) : m.scope[k] = n}]
    IN  Reach(inside[a], inside)

-----------------------------------------------------------------------------
(* Element rules.                                                          *)

ElementsAreSupported(m) ==
    /\ \A n \in Nodes(m) : m.kind[n] \in SupportedElement
    /\ \A n \in OfKind(m, {"messagestart"}) : m.scope[n] = Process
    /\ OfKind(m, {"errorboundary"}) \subseteq m.cancels

(* The one place where a timer may repeat.                                 *)
ExecutesCycle(m, n) == m.kind[n] = "timerboundary" /\ n \notin m.cancels

TimersAreValid(m) ==
    \A n \in OfKind(m, {"timer", "timerboundary"}) :
        /\ m.timer[n] \in {"literal", "variable", "cycle"}
        /\ m.timer[n] = "cycle" => ExecutesCycle(m, n)

MessagesAreNamed(m) ==
    \A n \in OfKind(m, MessageArmKind \union {"messagestart", "messageend", "throw"}) :
        m.message[n] # Unresolved

-----------------------------------------------------------------------------
(* Well-formedness.                                                        *)

FlowsStayInScope(m) ==
    \A f \in Flows(m) :
        /\ m.from[f] \in Nodes(m) /\ m.to[f] \in Nodes(m)
        /\ m.scope[m.from[f]] = m.scope[m.to[f]]

Single(S)  == \E x \in S : S = {x}
Several(S) == \E x, y \in S : x # y

(* How many flows may enter and leave an element: a gateway splits or      *)
(* joins, everything else has one way on.                                  *)
DegreesFit(m) ==
    \A n \in Nodes(m) :
        LET ins  == In(m, n)
            outs == Out(m, n)
        IN  CASE m.kind[n] \in Starting \union BoundaryEvt -> ins = {} /\ Single(outs)
              [] m.kind[n] \in Ending                      -> ins # {} /\ outs = {}
              [] m.kind[n] \in Gateway ->
                    ins # {} /\ outs # {} /\ ~(Several(ins) /\ Several(outs))
              [] OTHER                                     -> ins # {} /\ Single(outs)

Scopes(m) == {Process} \union OfKind(m, {"subprocess"})

ScopeNodes(m, s) == {n \in Nodes(m) : m.scope[n] = s}

OneStart(m) ==
    \A s \in Scopes(m) : Single(OfKind(m, Starting) \intersect ScopeNodes(m, s))

(* Everything is reached from a start, and reaches an end.                 *)
Connected(m) ==
    LET starts == OfKind(m, Starting)
        ends   == OfKind(m, Ending)
    IN  /\ \A s \in Scopes(m) : ends \intersect ScopeNodes(m, s) # {}
        /\ LET reached == Reach(starts, Succs(m))
           IN  \A n \in Nodes(m) : In(m, n) # {} => n \in reached
        /\ LET ending == Reach(ends, Preds(m))
           IN  \A n \in Nodes(m) : Out(m, n) # {} => n \in ending

-----------------------------------------------------------------------------
(* Conditions, event-based gateways and boundaries.                        *)

ExclusiveSplits(m) == {n \in OfKind(m, {"exclusive"}) : Several(Out(m, n))}

ConditionsFit(m) ==
    /\ \A f \in m.conditioned : m.from[f] \in ExclusiveSplits(m)
    /\ \A g \in ExclusiveSplits(m) :
        /\ m.default[g] \in Out(m, g)
        /\ Out(m, g) \intersect m.conditioned = Out(m, g) \ {m.default[g]}

(* Mutant: an alternative may be entered past the gateway.                 *)
EventGatewaysShare(m) ==
    \A g \in OfKind(m, {"event"}) :
        /\ Several(Out(m, g))
        /\ \A f \in Out(m, g) : m.kind[m.to[f]] \in {"message", "timer", "receive"}

EventGatewaysRace(m) ==
    \A g \in OfKind(m, {"event"}) :
        /\ Several(Out(m, g))
        /\ \A f \in Out(m, g) :
            /\ m.kind[m.to[f]] \in {"message", "timer", "receive"}
            /\ In(m, m.to[f]) = {f}
            /\ BoundariesOn(m, m.to[f]) = {}

(* One boundary for each error code of an activity, and one catch-all.     *)
BoundariesFit(m) ==
    \A b \in OfKind(m, BoundaryEvt) :
        /\ m.host[b] \in Nodes(m) /\ m.scope[m.host[b]] = m.scope[b]
        /\ m.kind[m.host[b]] \in SupportedHost
        /\ m.kind[b] = "errorboundary" =>
            /\ m.kind[m.host[b]] \in MayCatchErrors
            /\ m.code[b] # Unresolved
            /\ \A c \in OfKind(m, {"errorboundary"}) \ {b} :
                m.host[c] = m.host[b] => m.code[c] # m.code[b]

-----------------------------------------------------------------------------
(* Side paths: what runs beside the host of a non-interrupting boundary.   *)

SideStarts(m) == OfKind(m, {"timerboundary", "messageboundary"}) \ m.cancels

SidePath(m, b) == Reach({b}, Succs(m))

(* Mutant: the path may be entered from elsewhere, or lead back.           *)
SidePathsMeet(m) ==
    \A b \in SideStarts(m) :
        \E n \in Reach({b}, FlowSuccs(m)) : m.kind[n] \in Ending \ {"terminate"}

(* The path is entered through its boundary only, carries no parallel      *)
(* gateway, and its own flows reach a plain end.                           *)
SidePathsStandApart(m) ==
    LET preds == Preds(m)
    IN  \A b \in SideStarts(m) :
            LET path == SidePath(m, b)
            IN  /\ \A n \in path \ {b} : preds[n] \subseteq path
                /\ \A n \in path \ {b} : m.kind[n] # "parallel"
                /\ \E n \in Reach({b}, FlowSuccs(m)) : m.kind[n] \in Ending \ {"terminate"}

-----------------------------------------------------------------------------
(* Block structure: every parallel split is closed by one parallel join.   *)

Splits(m) == {n \in OfKind(m, {"parallel"}) : Several(Out(m, n))}
Joins(m)  == {n \in OfKind(m, {"parallel"}) : Several(In(m, n))}

(* The nodes of the branch of split s that starts with flow f, up to j.    *)
Branch(m, s, j, f) ==
    LET barred == [RegionSuccs(m) EXCEPT ![s] = {}, ![j] = {}]
    IN  Reach({m.to[f]}, barred) \ {s, j}

(* Mutant: a branch may have several ways into the join.                   *)
ClosesOften(m, s, j) ==
    LET branch == [f \in Out(m, s) |-> Branch(m, s, j, f)]
        region == UNION {branch[f] : f \in Out(m, s)}
    IN  /\ \A f, h \in Out(m, s) : f # h => branch[f] \intersect branch[h] = {}
        /\ \A n \in region \union {j} : \A f \in In(m, n) : m.from[f] \in region \union {s}
        /\ \A f \in In(m, s) : m.from[f] \notin region
        /\ \A n \in region : m.kind[n] \notin Ending \ {"terminate"}

(* The region between s and j is closed: branches apart, nothing enters    *)
(* but through s, nothing ends inside or loops back, and each branch hands *)
(* exactly one token to j.                                                 *)
Closes(m, s, j) ==
    LET branch == [f \in Out(m, s) |-> Branch(m, s, j, f)]
        region == UNION {branch[f] : f \in Out(m, s)}
    IN  /\ \A f, h \in Out(m, s) : f # h => branch[f] \intersect branch[h] = {}
        /\ \A n \in region \union {j} : \A f \in In(m, n) : m.from[f] \in region \union {s}
        /\ \A f \in In(m, s) : m.from[f] \notin region
        /\ \A n \in region : m.kind[n] \notin Ending \ {"terminate"}
        /\ \A f \in Out(m, s) :
            Cardinality({h \in In(m, j) : m.from[h] \in branch[f]})
              + (IF m.to[f] = j THEN 1 ELSE 0) = 1

JoinCandidates(m, s) == Joins(m) \intersect Reach({s}, RegionSuccs(m))

(* The join that closes split s: the nearest candidate, of which there is  *)
(* never more than one.                                                    *)
MatchingJoins(m, s) == {j \in JoinCandidates(m, s) : Closes(m, s, j)}

GatewaysBalance(m) ==
    /\ \A s \in Splits(m) : MatchingJoins(m, s) # {}
    /\ \A j \in Joins(m) : \E s \in Splits(m) :
        MatchingJoins(m, s) = {j} /\ \A r \in Splits(m) \ {s} : j \notin MatchingJoins(m, r)

-----------------------------------------------------------------------------
(* The verdict: the rules in the order they are applied, the region        *)
(* analysis only on a model that is otherwise clean.                       *)
LintsClean(m) ==
    /\ ElementsAreSupported(m) /\ TimersAreValid(m) /\ MessagesAreNamed(m)
    /\ FlowsStayInScope(m) /\ OneStart(m) /\ DegreesFit(m) /\ Connected(m)
    /\ ConditionsFit(m) /\ EventGatewaysRace(m)
    /\ BoundariesFit(m) /\ SidePathsStandApart(m)
    /\ GatewaysBalance(m)

-----------------------------------------------------------------------------
(* The warnings about side paths.  Each speaks of one boundary and one     *)
(* element of its path, and of a nested path its own boundary speaks.      *)

Owned(m, b) ==
    LET path   == SidePath(m, b)
        nested == SideStarts(m) \intersect (path \ {b})
    IN  path \ ({b} \union UNION {SidePath(m, c) \ {c} : c \in nested})

(* Mutant: any error boundary will do.                                     *)
HasAnyCatch(m, n) == \E b \in BoundariesOn(m, n) : m.kind[b] = "errorboundary"

HasCatchAll(m, n) ==
    /\ m.kind[n] \in MayCatchErrors
    /\ \E b \in BoundariesOn(m, n) : m.kind[b] = "errorboundary" /\ m.code[b] = CatchAll

(* Mutant: the bodies of the subprocesses on the path are forgotten.       *)
ArmsRepeatedFlatly(m, b) == Owned(m, b) \intersect OfKind(m, MessageArmKind)

(* The element is armed once per activation of b, or holds one that is.    *)
ArmsRepeated(m, b) ==
    UNION {({n} \union Body(m, n)) \intersect OfKind(m, MessageArmKind) : n \in Owned(m, b)}

(* Inside subprocess a some task can fail with no catch-all in between.    *)
FailureEscapesBody(m, a) ==
    \E n \in Body(m, a) :
        /\ m.kind[n] \in {"service", "user"}
        /\ \A c \in Body(m, a) : c = n \/ n \in Body(m, c) => ~HasCatchAll(m, c)

FailuresEscaping(m, b) ==
    {n \in Owned(m, b) :
        /\ ~HasCatchAll(m, n)
        /\ \/ m.kind[n] \in {"service", "user"}
           \/ m.kind[n] = "subprocess" /\ FailureEscapesBody(m, n)}

Warnings(m) ==
    UNION {[rule : {"arm"}, boundary : {b}, at : ArmsRepeated(m, b)]
             \union [rule : {"failure"}, boundary : {b}, at : FailuresEscaping(m, b)]
           : b \in SideStarts(m)}
=============================================================================
