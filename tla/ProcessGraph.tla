---------------------------- MODULE ProcessGraph ----------------------------
(***************************************************************************)
(* A compiled process: the read-only graph that every step of an instance  *)
(* runs against (crates/rbpmn-core/src/compile.rs, ExecutableProcess).     *)
(*                                                                         *)
(* The graph is a parameter.  Its assumptions are the facts deployment     *)
(* establishes: a document that does not lint clean never becomes an       *)
(* ExecutableProcess.  Names, topics and expressions are abstracted to     *)
(* what the step machine tells apart: a FEEL condition is the set of       *)
(* variable documents it holds on, and a deadline or correlation key is    *)
(* the variable it reads.                                                  *)
(***************************************************************************)
EXTENDS Naturals, Sequences, FiniteSets, Functions, Reachability

CONSTANTS
    Node,            \* elements of the process and of its subprocess bodies
    Flow,            \* sequence flows
    Kind,            \* node -> its ExecKind
    Outgoing,        \* node -> its outgoing flows, in declaration order
    Target,          \* flow -> the node it enters
    ProcessStart,    \* the start event of the root scope
    BodyStart,       \* subprocess -> the start event of its body
    Boundaries,      \* host -> its timer and message boundaries, in XML order
    ErrorBoundaries, \* host -> its error boundaries
    Interrupting,    \* the timer and message boundaries with cancelActivity
    Code,            \* error boundary -> its error code, NoCode = catch-all
    Message,         \* message arm -> the message it waits for
    Reads,           \* arm -> the variable its key or deadline is read from
    Repeats,         \* timer arm -> how often it fires, 0 = without end
    Result,          \* business rule -> the variable its answer is bound to
    Condition,       \* flow -> the documents its condition holds on
    Default,         \* the default flows
    Name,            \* variables
    Value,           \* their values, the missing value included
    Key,             \* values usable as a correlation key
    Deadline,        \* values that resolve as a deadline
    Literal,         \* what an arm "reads" when its deadline is in the model
    NoCode,          \* an error without a code
    NoKey,           \* the key of a timer
    NoFlow           \* how a token that followed no flow arrived

Kinds == {"start", "task", "rule", "timer", "message", "eventgateway",
          "subprocess", "exclusive", "parallel", "end", "terminate",
          "timerboundary", "messageboundary", "errorboundary"}

Document == [Name -> Value]

Nodes(kinds) == {n \in Node : Kind[n] \in kinds}

Boundary   == Nodes({"timerboundary", "messageboundary", "errorboundary"})
TimerArm   == Nodes({"timer", "timerboundary"})
MessageArm == Nodes({"message", "messageboundary"})
Arm        == TimerArm \union MessageArm

(* The errors a task may raise: the codes some boundary names, and none.   *)
Codes == {Code[b] : b \in Nodes({"errorboundary"})} \union {NoCode}

Incoming(n) == {f \in Flow : Target[f] = n}

IsJoin(n) == Kind[n] = "parallel" /\ Cardinality(Incoming(n)) > 1

(* The nodes an event-based gateway arms, in declaration order.            *)
Alternatives(n) == [i \in DOMAIN Outgoing[n] |-> Target[Outgoing[n][i]]]

(* Everything a token that parks at n arms, in the order it is armed: its  *)
(* own arm first, then the boundaries of its host.                         *)
ArmedAt(n) ==
    CASE Kind[n] = "timer"                     -> <<n>>
      [] Kind[n] = "message"                   -> <<n>> \o Boundaries[n]
      [] Kind[n] \in {"task", "subprocess"}    -> Boundaries[n]
      [] Kind[n] = "eventgateway"              -> Alternatives(n)
      [] OTHER                                 -> << >>

(* A boundary that leaves its host at work: anything else interrupts it.   *)
NonInterrupting == Nodes({"timerboundary", "messageboundary"}) \ Interrupting

(* The boundaries attached to host n, and the host of boundary b.          *)
Attached(n) == Range(Boundaries[n]) \union ErrorBoundaries[n]
HostsOf(b)  == {n \in Node : b \in Attached(n)}

-----------------------------------------------------------------------------
(* Side paths and parallel blocks.                                         *)

Targets(n) == {Target[f] : f \in Range(Outgoing[n])}
Onward(n)  == Targets(n) \union Attached(n)

(* The nodes on a side path: those reached, in any number of steps, from a *)
(* non-interrupting boundary.                                              *)
SidePath ==
    Reach(UNION {Onward(b) : b \in NonInterrupting}, [n \in Node |-> Onward(n)])

Splits == {n \in Nodes({"parallel"}) : Len(Outgoing[n]) > 1}
Joins  == {n \in Node : IsJoin(n)}

(* Where the token of a branch may go: an interrupting boundary goes on    *)
(* with its host's token, a non-interrupting one starts a side path.       *)
OnwardInside(n) == Targets(n) \union (Attached(n) \ NonInterrupting)

(* The nodes on the branch of split s that begins with flow f, up to j.    *)
Branch(s, j, f) ==
    Reach({Target[f]}, [n \in Node |-> IF n \in {s, j} THEN {} ELSE OnwardInside(n)]) \ {s, j}

(* The flows by which that branch hands a token to j.                      *)
HandsOver(s, j, f) ==
    {h \in Incoming(j) : h = f \/ \E n \in Branch(s, j, f) : h \in Range(Outgoing[n])}

(* Split s and join j enclose a block: its branches are apart, it is       *)
(* entered through s alone, nothing in it ends or goes back to s, and each *)
(* branch hands exactly one token to j.                                    *)
Closes(s, j) ==
    LET flows  == Range(Outgoing[s])
        branch == [f \in flows |-> Branch(s, j, f)]
        block  == UNION Range(branch)
    IN  /\ \A f, g \in flows : f # g => branch[f] \intersect branch[g] = {}
        /\ \A n \in Node \ (block \union {s}) : Targets(n) \intersect (block \union {j}) = {}
        /\ \A n \in block : s \notin Targets(n) /\ Kind[n] # "end"
        /\ \A f \in flows : \E h \in Flow : HandsOver(s, j, f) = {h}

-----------------------------------------------------------------------------
(* What the linter and the compiler guarantee of a deployed graph.         *)

ASSUME GraphTyped ==
    /\ Kind \in [Node -> Kinds]
    /\ Outgoing \in [Node -> Seq(Flow)]
    /\ Target \in [Flow -> Node]
    /\ ProcessStart \in Node
    /\ BodyStart \in [Node -> Node]
    /\ Boundaries \in [Node -> Seq(Node)]
    /\ ErrorBoundaries \in [Node -> SUBSET Node]
    /\ Interrupting \subseteq Node
    /\ Repeats \in [Node -> Nat]
    /\ Result \in [Node -> Name]
    /\ Condition \in [Flow -> SUBSET Document]
    /\ Default \subseteq Flow
    /\ Reads \in [Node -> Name \union {Literal}]
    /\ Key \subseteq Value /\ Deadline \subseteq Value
    /\ DOMAIN Message = MessageArm
    /\ DOMAIN Code = Nodes({"errorboundary"})
    /\ NoKey \notin Value /\ NoFlow \notin Flow /\ Literal \notin Name

ASSUME OneWayOn ==
    \A n \in Node :
        \/ Kind[n] \in {"eventgateway", "exclusive", "end", "terminate"}
        \/ Kind[n] = "parallel" /\ ~IsJoin(n) /\ Outgoing[n] # << >>
        \/ Len(Outgoing[n]) = 1

ASSUME BoundariesAttached ==
    \A n \in Node :
        /\ \A i \in DOMAIN Boundaries[n] :
              Kind[Boundaries[n][i]] \in {"timerboundary", "messageboundary"}
        /\ \A b \in ErrorBoundaries[n] : Kind[b] = "errorboundary"
        /\ Boundaries[n] # << >> => Kind[n] \in {"task", "message", "subprocess"}
        /\ ErrorBoundaries[n] # {} => Kind[n] \in {"task", "subprocess"}
        /\ \A b \in Boundary : b \in Attached(n) => HostsOf(b) = {n}

ASSUME BoundariesNotEntered == \A f \in Flow : Target[f] \notin Boundary

ASSUME GatewaysRaceCatches ==
    \A n \in Node : Kind[n] = "eventgateway" =>
        \A f \in Range(Outgoing[n]) :
            Kind[Target[f]] \in {"timer", "message"} /\ Incoming(Target[f]) = {f}

ASSUME GraphIsFinite == IsFiniteSet(Node) /\ IsFiniteSet(Flow)

ASSUME FlowsHaveOneSource ==
    \A f \in Flow : \E n \in Node : \E i \in DOMAIN Outgoing[n] :
        /\ Outgoing[n][i] = f
        /\ \A k \in Node : \A l \in DOMAIN Outgoing[k] : Outgoing[k][l] = f => k = n /\ l = i

Starts == {ProcessStart} \union {BodyStart[n] : n \in Nodes({"subprocess"})}

ASSUME StartsNotEntered ==
    \A n \in Starts : Kind[n] = "start" /\ Incoming(n) = {}

ASSUME GraphConnected ==
    {n \in Node : Incoming(n) # {}} \subseteq Reach(Starts, [n \in Node |-> Onward(n)])

ASSUME SidePathsStandApart ==
    /\ \A n \in Node : Onward(n) \intersect SidePath # {} => n \in SidePath \union NonInterrupting
    /\ \A n \in SidePath : Kind[n] # "parallel"

(* Every split is closed by a join of its own, and every join closes one.  *)
ASSUME GatewaysBalance ==
    \E closing \in Bijection(Splits, Joins) : \A s \in Splits : Closes(s, closing[s])

ASSUME MessagesReadVariables == \A n \in MessageArm : Reads[n] \in Name

-----------------------------------------------------------------------------
(* Questions the step machine asks of the graph.                           *)

GatewaysInto(n) ==
    {g \in Node : Kind[g] = "eventgateway" /\ n \in Range(Alternatives(g))}

(* Where a repair re-enters for an incident parked at n: a boundary at its *)
(* host, an alternative at its gateway, anything else at itself.           *)
ResumePoints(n) ==
    CASE HostsOf(n) # {}                             -> HostsOf(n)
      [] HostsOf(n) = {} /\ GatewaysInto(n) # {}     -> GatewaysInto(n)
      [] OTHER                                       -> {n}

(* The error boundary of host that takes code: the exact one before the    *)
(* catch-all.                                                              *)
Catching(host, code) ==
    LET exact == {b \in ErrorBoundaries[host] : Code[b] = code}
    IN  IF exact # {} THEN exact ELSE {b \in ErrorBoundaries[host] : Code[b] = NoCode}

(* The flow an exclusive split takes on document doc: the first whose      *)
(* condition holds, else the default.                                      *)
Takes(n, i, doc) ==
    LET out      == Outgoing[n]
        Holds(j) == out[j] \notin Default /\ doc \in Condition[out[j]]
    IN  \/ Len(out) = 1
        \/ Holds(i) /\ \A j \in 1..(i - 1) : ~Holds(j)
        \/ out[i] \in Default /\ \A j \in DOMAIN out : ~Holds(j)
=============================================================================
