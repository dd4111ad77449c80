---------------------------- MODULE DeployCheck ----------------------------
(***************************************************************************)
(* What a deployment must satisfy before the database is asked             *)
(* (crates/rbpmn-core/src/check.rs), and the compiler it ends in           *)
(* (crates/rbpmn-core/src/compile.rs).  A deployment is a model m and its  *)
(* manifest w:                                                             *)
(*   w.key[n]       the correlation key message element n is bound to      *)
(*   w.decision[n]  the decision rule n invokes, w.result[n] where its     *)
(*                  answer lands                                           *)
(*   w.topic[n]     the topic of task n, where it is not n itself          *)
(*   w.config[n]    what task n is configured with                         *)
(*   w.retries[n]   the retry policy of task n, w.topicRetries[t] that of  *)
(*                  every task on topic t                                  *)
(*   w.offers[d]    how many bundled artifacts define decision d           *)
(* all of them functions on the names the manifest mentions.  Unresolved   *)
(* stands for a name that does not parse.                                  *)
(***************************************************************************)
EXTENDS Linter, Integers

CONSTANT Absent   \* a member a retry policy leaves out

-----------------------------------------------------------------------------
(* The compiler.                                                           *)

(* Cross-definition messaging lints clean and is not executable.           *)
IsExecutable(m) == OfKind(m, {"messagestart", "messageend", "throw"}) = {}

MessageArms(m) == OfKind(m, MessageArmKind)

AreCorrelated(m, w) == \A n \in MessageArms(m) : n \in DOMAIN w.key /\ w.key[n] # Unresolved

AreDecided(m, w) ==
    \A n \in OfKind(m, {"rule"}) : n \in DOMAIN w.decision /\ w.result[n] # Unresolved

SameArm(m, w, a, b) == m.message[a] = m.message[b] /\ w.key[a] = w.key[b]

(* The boundaries that are armed on a host: error boundaries never are.    *)
ArmedOn(m, h) == BoundariesOn(m, h) \ OfKind(m, {"errorboundary"})

(* What runs after boundary b: its side path as the compiler walks it,     *)
(* subprocess bodies included and error handlers not.                      *)
RunsBeside(m, b) ==
    Reach({b}, [n \in Nodes(m) |-> {m.to[f] : f \in Out(m, n)}
                                     \union ArmedOn(m, n) \union Body(m, n)])

(* Mutant: only what is armed on the host itself.                          *)
LiveOnHost(m, h) ==
    LET asks == ArmedOn(m, h) \intersect MessageArms(m)
    IN  IF asks = {} THEN {} ELSE asks \union ({h} \intersect MessageArms(m))

(* The arms that are certain to be live together with those of host h.     *)
LiveWith(m, h) ==
    LET asks == ArmedOn(m, h) \intersect MessageArms(m)
    IN  IF asks = {} THEN {}
        ELSE MessageArms(m) \intersect
                (asks \union {h} \union Body(m, h)
                      \union UNION {RunsBeside(m, b) : b \in asks \ m.cancels})

NoAmbiguousArms(m, w) ==
    \A h \in Nodes(m) : \A a, b \in LiveWith(m, h) : a # b => ~SameArm(m, w, a, b)

MessagesResolve(m) == \A n \in MessageArms(m) : m.message[n] # Unresolved

(* A deadline is a literal or a variable, and repeats where it can.        *)
TimersResolve(m) ==
    \A n \in OfKind(m, {"timer", "timerboundary"}) :
        /\ m.timer[n] \in {"literal", "variable", "cycle"}
        /\ m.timer[n] = "cycle" => ExecutesCycle(m, n)

FlowsResolve(m) == \A f \in Flows(m) : m.from[f] \in Nodes(m) /\ m.to[f] \in Nodes(m)

(* What the compiler takes for granted: its own refusals "survived lint",  *)
(* each an internal error.                                                 *)
SurvivesCompiler(m) ==
    /\ \A n \in Nodes(m) : m.kind[n] \in SupportedElement
    /\ MessagesResolve(m) /\ TimersResolve(m) /\ FlowsResolve(m)
    /\ \A b \in OfKind(m, {"errorboundary"}) :
        m.code[b] # Unresolved /\ m.kind[m.host[b]] \in MayCatchErrors
    /\ \A b \in OfKind(m, {"timerboundary", "messageboundary"}) :
        m.host[b] \in Nodes(m) /\ m.kind[m.host[b]] \in SupportedHost
    /\ \A s \in Scopes(m) : OfKind(m, {"start"}) \intersect ScopeNodes(m, s) # {}

Compiles(m, w) ==
    /\ IsExecutable(m) /\ SurvivesCompiler(m)
    /\ AreDecided(m, w) /\ AreCorrelated(m, w) /\ NoAmbiguousArms(m, w)

-----------------------------------------------------------------------------
(* The manifest.                                                           *)

Topic(w, n) == IF n \in DOMAIN w.topic THEN w.topic[n] ELSE n

(* Every decision the manifest binds is offered by one artifact.           *)
DecisionsResolve(w) ==
    \A n \in DOMAIN w.decision :
        /\ w.result[n] # Unresolved
        /\ w.decision[n] \in DOMAIN w.offers /\ w.offers[w.decision[n]] = 1

ConfigBindsTasks(m, w) ==
    \A n \in DOMAIN w.config :
        w.config[n] = "object" /\ n \in OfKind(m, {"service", "user"})

(* A policy p sets something, and what it sets is in range.                *)
PolicyFits(p) ==
    /\ \E k \in DOMAIN p : p[k] # Absent
    /\ p.attempts # Absent => p.attempts \in 1..1000
    /\ p.backoff # Absent => p.backoff \in 1..315360000
    /\ p.multiplier # Absent => p.multiplier \in 1..10

RetriesBindTasks(m, w) ==
    LET services == OfKind(m, {"service"})
    IN  /\ \A n \in DOMAIN w.retries : n \in services /\ PolicyFits(w.retries[n])
        /\ \A t \in DOMAIN w.topicRetries :
            t \in {Topic(w, n) : n \in services} /\ PolicyFits(w.topicRetries[t])

-----------------------------------------------------------------------------
(* The verdict.  A defect of the manifest is reported beside the model's   *)
(* own and does not keep the compiler from running: the topics the         *)
(* environment must cover are known whenever the model compiles.           *)

PassesGate(m, w) == DecisionsResolve(w) /\ LintsClean(m)

ServiceTopics(m, w) == {Topic(w, n) : n \in OfKind(m, {"service"})}

Check(m, w) ==
    LET compiled == PassesGate(m, w) /\ Compiles(m, w)
    IN  [ok     |-> compiled /\ ConfigBindsTasks(m, w) /\ RetriesBindTasks(m, w),
         topics |-> IF compiled THEN ServiceTopics(m, w) ELSE {}]

(* What Engine::deploy then does: the topics must be covered.              *)
Accepts(m, w, covered) == LET c == Check(m, w) IN c.ok /\ c.topics \subseteq covered
=============================================================================
