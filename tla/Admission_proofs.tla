-------------------------- MODULE Admission_proofs --------------------------
(***************************************************************************)
(* What the linter's rules give the three parts that rely on them: the     *)
(* compiler, whose internal errors no clean model meets; the step machine, *)
(* whose graphs are as ProcessGraph assumes them; and the runs themselves, *)
(* whose tokens never double, whose failures leave no side path without a  *)
(* warning, whose messages find one arm, and whose joins are never left    *)
(* waiting for a token that cannot come.  All hold for every model.        *)
(*                                                                         *)
(* The first two follow from the rules alone.  The third is an induction   *)
(* over the steps, and its invariant, Admitted, says where tokens can be:  *)
(* every token stands where its lane leads (OnLane), in scopes that nest   *)
(* as the model's do (Chained) and whose owners wait for them (HasOwners), *)
(* and any two tokens of one scope and one lane are on different branches  *)
(* of one split (Separate).  To keep that through a join, a step or the    *)
(* start of a side path is what the linter's rules on splits, joins and    *)
(* connectivity are for.  Populated, an induction on top of it, adds that  *)
(* the branches of a split are populated together (Fed), until their join  *)
(* takes a token from each.                                                *)
(***************************************************************************)
EXTENDS Admission, FiniteSetTheorems, WellFoundedInduction, TLAPS


(* A set with a member, and without two, is a singleton.                   *)
LEMMA SingleOrSeveral ==
    ASSUME NEW S, S # {}, ~Several(S) PROVE Single(S)
BY DEF Single, Several

-----------------------------------------------------------------------------
(* Each clause of the compiler's is a rule of the linter's.                *)
LEMMA CleanSurvives ==
    ASSUME NEW m, LintsClean(m), IsExecutable(m) PROVE SurvivesCompiler(m)
<1>1. \A n \in Nodes(m) : m.kind[n] \in SupportedElement
  BY DEF LintsClean, ElementsAreSupported
<1>2. MessagesResolve(m)
  BY DEF MessagesResolve, LintsClean, MessagesAreNamed, MessageArms, OfKind
<1>3. TimersResolve(m)
  BY DEF TimersResolve, LintsClean, TimersAreValid
<1>4. FlowsResolve(m)
  BY DEF FlowsResolve, LintsClean, FlowsStayInScope
<1>5. \A b \in OfKind(m, {"errorboundary"}) :
        m.code[b] # Unresolved /\ m.kind[m.host[b]] \in MayCatchErrors
  BY DEF LintsClean, BoundariesFit, OfKind, BoundaryEvt
<1>6. \A b \in OfKind(m, {"timerboundary", "messageboundary"}) :
        m.host[b] \in Nodes(m) /\ m.kind[m.host[b]] \in SupportedHost
  BY DEF LintsClean, BoundariesFit, OfKind, BoundaryEvt
<1>7. ASSUME NEW s \in Scopes(m)
      PROVE  OfKind(m, {"start"}) \intersect ScopeNodes(m, s) # {}
  <2>1. PICK n \in OfKind(m, Starting) \intersect ScopeNodes(m, s) : TRUE
    BY <1>7 DEF LintsClean, OneStart, Single
  <2>2. m.kind[n] = "start"
    BY <2>1 DEF OfKind, Starting, IsExecutable
  <2> QED BY <2>1, <2>2 DEF OfKind
<1> QED BY <1>1, <1>2, <1>3, <1>4, <1>5, <1>6, <1>7 DEF SurvivesCompiler

(* No internal error of the compiler's: whatever lints clean and uses no   *)
(* cross-definition messaging has what compile_unlinted takes for granted. *)
THEOREM NothingLeft == Spec => []LintLeavesNothing
<1>1. LintLeavesNothing
  BY CleanSurvives DEF LintLeavesNothing
<1> QED BY <1>1, PTL

-----------------------------------------------------------------------------
LEMMA CleanHasOneWayOn ==
    ASSUME NEW m, LintsClean(m), NEW n \in Nodes(m)
    PROVE  \/ m.kind[n] \in {"event", "exclusive", "end", "terminate", "messageend"}
           \/ m.kind[n] = "parallel" /\ ~Several(In(m, n)) /\ Out(m, n) # {}
           \/ Single(Out(m, n))
<1>1. m.kind[n] \in SupportedElement
  BY DEF LintsClean, ElementsAreSupported
<1>2. CASE m.kind[n] = "parallel"
  <2>1. Out(m, n) # {} /\ ~(Several(In(m, n)) /\ Several(Out(m, n)))
    BY <1>2 DEF LintsClean, DegreesFit, Gateway, Starting, Ending, BoundaryEvt
  <2> QED BY <1>2, <2>1, SingleOrSeveral
<1>3. CASE m.kind[n] \in Starting \union BoundaryEvt
  BY <1>3 DEF LintsClean, DegreesFit, Gateway, Starting, Ending, BoundaryEvt
<1>4. CASE m.kind[n] \in SupportedHost \union {"rule", "timer", "message", "throw"}
  BY <1>4 DEF LintsClean, DegreesFit, SupportedHost, Gateway, Starting, Ending, BoundaryEvt
<1> QED BY <1>1, <1>2, <1>3, <1>4 DEF SupportedElement, Gateway, Ending

LEMMA CleanIsFit ==
    ASSUME NEW m, LintsClean(m), IsExecutable(m) PROVE GraphIsFit(m)
<1>1. \A n \in Nodes(m) : m.kind[n] # "messageend"
  BY DEF IsExecutable, OfKind
<1>2. \A n \in Nodes(m) :
        \/ m.kind[n] \in {"event", "exclusive", "end", "terminate"}
        \/ m.kind[n] = "parallel" /\ ~Several(In(m, n)) /\ Out(m, n) # {}
        \/ Single(Out(m, n))
  BY <1>1, CleanHasOneWayOn
<1>3. \A b \in OfKind(m, BoundaryEvt) :
        /\ m.kind[m.host[b]] \in SupportedHost
        /\ m.kind[b] = "errorboundary" => m.kind[m.host[b]] \in MayCatchErrors
        /\ In(m, b) = {}
  <2>1. \A b \in OfKind(m, BoundaryEvt) : In(m, b) = {}
    BY DEF LintsClean, DegreesFit, OfKind, Gateway, Starting, Ending, BoundaryEvt
  <2> QED BY <2>1 DEF LintsClean, BoundariesFit
<1>4. \A g \in OfKind(m, {"event"}) : \A f \in Out(m, g) :
        /\ m.kind[m.to[f]] \in {"timer", "message", "receive"}
        /\ In(m, m.to[f]) = {f} /\ BoundariesOn(m, m.to[f]) = {}
  BY DEF LintsClean, EventGatewaysRace
<1> QED BY <1>2, <1>3, <1>4 DEF GraphIsFit

(* The rules on side paths and regions are what ProcessGraph assumes of    *)
(* them: the matching of splits and joins is one to one.                   *)
LEMMA CleanHasBlocks ==
    ASSUME NEW m, IsParsed(m), LintsClean(m) PROVE BlocksFit(m)
<1> DEFINE sides == UNION {SidePath(m, b) \ {b} : b \in SideStarts(m)}
           succs == Succs(m)
<1>1. \A n \in OfKind(m, Starting) : In(m, n) = {}
  BY DEF LintsClean, DegreesFit, OfKind, Gateway, Starting, Ending, BoundaryEvt
<1>2. {n \in Nodes(m) : In(m, n) # {}} \subseteq Reach(OfKind(m, Starting), succs)
  BY DEF LintsClean, Connected
<1>3. ASSUME NEW n \in Nodes(m), NEW y \in succs[n], y \in sides
      PROVE  n \in sides \union SideStarts(m)
  <2>1. PICK b \in SideStarts(m) : y \in SidePath(m, b) \ {b}
    BY <1>3
  <2>2. Preds(m)[y] \subseteq SidePath(m, b)
    <3> DEFINE preds == Preds(m)
               path(c) == SidePath(m, c)
    <3>1. \A c \in SideStarts(m) : \A k \in path(c) \ {c} : preds[k] \subseteq path(c)
      <4>1. SidePathsStandApart(m)
        BY DEF LintsClean
      <4> QED  BY <4>1 DEF SidePathsStandApart
    <3> HIDE DEF preds, path
    <3>2. preds[y] \subseteq path(b)
      BY <2>1, <3>1 DEF path
    <3> QED  BY <3>2 DEF preds, path
  <2>3. succs[n] = {m.to[f] : f \in Out(m, n)} \union BoundariesOn(m, n)
    BY DEF Succs
  <2>4. y \in Nodes(m)
    <3>1. \A f \in Out(m, n) : m.to[f] \in Nodes(m)
      BY DEF LintsClean, FlowsStayInScope, Out
    <3>2. BoundariesOn(m, n) \subseteq Nodes(m)
      BY DEF BoundariesOn, IsParsed, OfKind
    <3> QED  BY <1>3, <2>3, <3>1, <3>2
  <2>5. Preds(m)[y] = {m.from[f] : f \in In(m, y)} \union {h \in Nodes(m) : y \in BoundariesOn(m, h)}
    BY <2>4 DEF Preds
  <2>6. n \in Preds(m)[y]
    BY <1>3, <2>3, <2>5 DEF Out, In
  <2> QED  BY <2>1, <2>2, <2>6
<1>4. \A n \in sides : m.kind[n] # "parallel"
  BY DEF LintsClean, SidePathsStandApart
<1>5. \E closing \in Bijection(Splits(m), Joins(m)) :
        \A s \in Splits(m) : Closes(m, s, closing[s])
  <2> DEFINE S == Splits(m)
             J == Joins(m)
             matching(s) == MatchingJoins(m, s)
             closing == [s \in S |-> CHOOSE j \in J : j \in matching(s)]
  <2>1. /\ \A s \in S : matching(s) # {}
        /\ \A j \in J : \E s \in S :
              matching(s) = {j} /\ \A r \in S \ {s} : j \notin matching(r)
    BY DEF LintsClean, GatewaysBalance
  <2>2. \A s : \A j \in matching(s) : j \in J /\ Closes(m, s, j)
    BY DEF MatchingJoins, JoinCandidates
  <2> HIDE DEF S, J, matching
  <2>3. ASSUME NEW s \in S PROVE closing[s] \in J /\ closing[s] \in matching(s)
    <3>1. \E j \in J : j \in matching(s)
      BY <2>1, <2>2
    <3> QED  BY <3>1
  <2>4. closing \in [S -> J]
    BY <2>3
  <2> HIDE DEF closing
  <2>5. \A s, r \in S : closing[s] = closing[r] => s = r
    BY <2>1, <2>3
  <2>6. \A j \in J : \E s \in S : closing[s] = j
    BY <2>1, <2>3
  <2>7. closing \in Bijection(S, J)
    BY <2>4, <2>5, <2>6 DEF Bijection, Injection, Surjection, IsInjective
  <2>8. \A s \in S : Closes(m, s, closing[s])
    BY <2>2, <2>3
  <2> QED  BY <2>7, <2>8 DEF S, J
<1> QED  BY <1>1, <1>2, <1>3, <1>4, <1>5 DEF BlocksFit

-----------------------------------------------------------------------------
(* Reach is the least set that is closed under the steps it follows.       *)

(* Induction over the numbers, for a set.                                  *)
LEMMA SetOfAllNumbers ==
    ASSUME NEW T \in SUBSET Nat, 0 \in T, \A n \in T : n + 1 \in T
    PROVE  T = Nat
<1> SUFFICES ASSUME Nat \ T # {} PROVE FALSE
  OBVIOUS
<1> DEFINE R == OpToRel(<, Nat)
<1>1. \A x, y \in Nat : <<x, y>> \in R <=> x < y
  BY DEF OpToRel
<1>2. IsWellFoundedOn(R, Nat)
  BY NatLessThanWellFounded
<1> HIDE DEF R
<1>3. PICK x \in Nat \ T : \A y \in Nat \ T : <<y, x>> \notin R
  BY <1>2, WFMin
<1>4. x # 0 /\ x - 1 \in Nat /\ x - 1 < x
  OBVIOUS
<1>5. x - 1 \in T
  BY <1>1, <1>3, <1>4
<1> QED  BY <1>4, <1>5

(* One step further from S along next.                                     *)
Onward(S, next) == S \union UNION {next[n] : n \in S}

IsWalk(w, seeds, next) ==
    w = [k \in Nat |-> IF k = 0 THEN seeds ELSE Onward(w[k - 1], next)]

LEMMA ReachIsWalk ==
    ASSUME NEW seeds, NEW next
    PROVE  Reach(seeds, next) = (CHOOSE w : IsWalk(w, seeds, next))[Cardinality(DOMAIN next)]
BY DEF Reach, IsWalk, Onward

(* The first k steps of a walk.                                            *)
IsStart(v, k, seeds, next) ==
    v = [i \in 0 .. k |-> IF i = 0 THEN seeds ELSE Onward(v[i - 1], next)]

LEMMA StartsAgree ==
    ASSUME NEW seeds, NEW next, NEW k \in Nat, NEW l \in Nat, NEW v, NEW u,
           IsStart(v, k, seeds, next), IsStart(u, l, seeds, next)
    PROVE  \A i \in Nat : i <= k /\ i <= l => v[i] = u[i]
<1> DEFINE T == {i \in Nat : i <= k /\ i <= l => v[i] = u[i]}
<1>1. 0 \in T
  BY DEF IsStart
<1>2. ASSUME NEW i \in T PROVE i + 1 \in T
  <2> SUFFICES ASSUME i + 1 <= k, i + 1 <= l PROVE v[i + 1] = u[i + 1]
    OBVIOUS
  <2>1. i \in Nat /\ i + 1 \in 0 .. k /\ i + 1 \in 0 .. l /\ (i + 1) - 1 = i /\ i + 1 # 0
    OBVIOUS
  <2>2. v[i] = u[i]
    BY <2>1
  <2>3. v[i + 1] = Onward(v[i], next) /\ u[i + 1] = Onward(u[i], next)
    BY <2>1 DEF IsStart
  <2> QED  BY <2>2, <2>3
<1> HIDE DEF T
<1>3. T \subseteq Nat
  BY DEF T
<1>4. T = Nat
  BY <1>1, <1>2, <1>3, SetOfAllNumbers
<1> QED  BY <1>4 DEF T

LEMMA StartsExist ==
    ASSUME NEW seeds, NEW next
    PROVE  \A k \in Nat : \E v : IsStart(v, k, seeds, next)
<1> DEFINE T == {k \in Nat : \E v : IsStart(v, k, seeds, next)}
<1>1. 0 \in T
  <2>1. IsStart([i \in 0 .. 0 |-> seeds], 0, seeds, next)
    BY DEF IsStart
  <2> QED  BY <2>1
<1>2. ASSUME NEW k \in T PROVE k + 1 \in T
  <2>1. k \in Nat
    OBVIOUS
  <2>2. PICK v : IsStart(v, k, seeds, next)
    OBVIOUS
  <2> DEFINE u == [i \in 0 .. k + 1 |-> IF i = k + 1 THEN Onward(v[k], next) ELSE v[i]]
  <2>3. ASSUME NEW i \in 0 .. k + 1
        PROVE  u[i] = IF i = 0 THEN seeds ELSE Onward(u[i - 1], next)
    <3>1. CASE i = k + 1
      <4>1. i # 0 /\ i - 1 = k /\ k \in 0 .. k + 1 /\ k # k + 1
        BY <2>1, <3>1
      <4> QED  BY <3>1, <4>1
    <3>2. CASE i # k + 1
      <4>1. i \in 0 .. k /\ (i # 0 => i - 1 \in 0 .. k + 1 /\ i - 1 # k + 1)
        BY <2>1, <3>2
      <4>2. v[i] = IF i = 0 THEN seeds ELSE Onward(v[i - 1], next)
        BY <2>2, <4>1 DEF IsStart
      <4> QED  BY <3>2, <4>1, <4>2
    <3> QED  BY <3>1, <3>2
  <2>4. IsStart(u, k + 1, seeds, next)
    <3>1. u = [i \in 0 .. k + 1 |-> u[i]]
      OBVIOUS
    <3> HIDE DEF u
    <3> QED  BY <2>3, <3>1 DEF IsStart
  <2> QED  BY <2>1, <2>4
<1> HIDE DEF T
<1>3. T \subseteq Nat
  BY DEF T
<1>4. T = Nat
  BY <1>1, <1>2, <1>3, SetOfAllNumbers
<1> QED  BY <1>4 DEF T

LEMMA WalksExist ==
    ASSUME NEW seeds, NEW next
    PROVE  \E w : IsWalk(w, seeds, next)
<1> DEFINE v(k) == CHOOSE v : IsStart(v, k, seeds, next)
           w    == [k \in Nat |-> v(k)[k]]
<1>1. ASSUME NEW k \in Nat PROVE IsStart(v(k), k, seeds, next)
  BY StartsExist
<1> HIDE DEF v
<1>2. ASSUME NEW k \in Nat
      PROVE  w[k] = IF k = 0 THEN seeds ELSE Onward(w[k - 1], next)
  <2>1. k \in 0 .. k
    OBVIOUS
  <2>2. v(k)[k] = IF k = 0 THEN seeds ELSE Onward(v(k)[k - 1], next)
    BY <1>1, <2>1 DEF IsStart
  <2>3. ASSUME k # 0 PROVE v(k)[k - 1] = v(k - 1)[k - 1]
    <3>1. k - 1 \in Nat /\ k - 1 <= k /\ k - 1 <= k - 1
      BY <2>3
    <3>2. IsStart(v(k), k, seeds, next) /\ IsStart(v(k - 1), k - 1, seeds, next)
      BY <1>1, <3>1
    <3>3. \A i \in Nat : i <= k /\ i <= k - 1 => v(k)[i] = v(k - 1)[i]
      BY <3>1, <3>2, StartsAgree
    <3> QED  BY <3>1, <3>3
  <2>4. k # 0 => k - 1 \in Nat
    OBVIOUS
  <2> QED  BY <2>2, <2>3, <2>4
<1>3. w = [k \in Nat |-> w[k]]
  OBVIOUS
<1> HIDE DEF w
<1>4. IsWalk(w, seeds, next)
  BY <1>2, <1>3 DEF IsWalk
<1> QED  BY <1>4

(* What Reach goes through: a walk from the seeds that widens.             *)
LEMMA ReachSteps ==
    ASSUME NEW seeds, NEW next
    PROVE  \E w : /\ w[0] = seeds
                  /\ \A k \in Nat : w[k + 1] = Onward(w[k], next)
                  /\ Reach(seeds, next) = w[Cardinality(DOMAIN next)]
<1> DEFINE w == CHOOSE w : IsWalk(w, seeds, next)
<1>1. IsWalk(w, seeds, next) /\ Reach(seeds, next) = w[Cardinality(DOMAIN next)]
  BY WalksExist, ReachIsWalk
<1> HIDE DEF w
<1>2. w[0] = seeds
  BY <1>1 DEF IsWalk
<1>3. ASSUME NEW k \in Nat PROVE w[k + 1] = Onward(w[k], next)
  <2>1. k + 1 \in Nat /\ k + 1 # 0 /\ (k + 1) - 1 = k
    OBVIOUS
  <2> QED  BY <1>1, <2>1 DEF IsWalk
<1> QED  BY <1>1, <1>2, <1>3

LEMMA ReachHasSeeds ==
    ASSUME NEW seeds, NEW next, IsFiniteSet(DOMAIN next)
    PROVE  seeds \subseteq Reach(seeds, next)
<1>1. PICK w : /\ w[0] = seeds
               /\ \A k \in Nat : w[k + 1] = Onward(w[k], next)
               /\ Reach(seeds, next) = w[Cardinality(DOMAIN next)]
  BY ReachSteps
<1> DEFINE T == {k \in Nat : seeds \subseteq w[k]}
<1>2. 0 \in T /\ \A k \in T : k + 1 \in T
  BY <1>1 DEF Onward
<1>3. T = Nat
  BY <1>2, SetOfAllNumbers
<1>4. Cardinality(DOMAIN next) \in Nat
  BY FS_CardinalityType
<1> QED  BY <1>1, <1>3, <1>4

(* It is in every set that has the seeds and is closed.                    *)
LEMMA ReachIsLeast ==
    ASSUME NEW seeds, NEW next, IsFiniteSet(DOMAIN next),
           NEW X, seeds \subseteq X, \A n \in X : next[n] \subseteq X
    PROVE  Reach(seeds, next) \subseteq X
<1>1. PICK w : /\ w[0] = seeds
               /\ \A k \in Nat : w[k + 1] = Onward(w[k], next)
               /\ Reach(seeds, next) = w[Cardinality(DOMAIN next)]
  BY ReachSteps
<1> DEFINE T == {k \in Nat : w[k] \subseteq X}
<1>2. 0 \in T
  BY <1>1
<1>3. ASSUME NEW k \in T PROVE k + 1 \in T
  <2>1. w[k + 1] = Onward(w[k], next) /\ w[k] \subseteq X
    BY <1>1
  <2> QED  BY <2>1 DEF Onward
<1>4. T = Nat
  BY <1>2, <1>3, SetOfAllNumbers
<1>5. Cardinality(DOMAIN next) \in Nat
  BY FS_CardinalityType
<1> QED  BY <1>1, <1>4, <1>5

(* It is closed: a walk in a finite set comes to rest before it has taken  *)
(* as many steps as there are places.                                      *)
LEMMA ReachIsClosed ==
    ASSUME NEW D, IsFiniteSet(D), NEW next \in [D -> SUBSET D], NEW seeds \in SUBSET D
    PROVE  /\ Reach(seeds, next) \subseteq D
           /\ \A n \in Reach(seeds, next) : next[n] \subseteq Reach(seeds, next)
<1>0. DOMAIN next = D /\ \A n \in D : next[n] \subseteq D
  OBVIOUS
<1>1. PICK w : /\ w[0] = seeds
               /\ \A k \in Nat : w[k + 1] = Onward(w[k], next)
               /\ Reach(seeds, next) = w[Cardinality(D)]
  BY <1>0, ReachSteps
<1> DEFINE c == Cardinality(D)
<1>2. c \in Nat
  BY FS_CardinalityType
<1> HIDE DEF c
<1>3. ASSUME NEW k \in Nat PROVE w[k] \subseteq D
  <2> DEFINE T == {i \in Nat : w[i] \subseteq D}
  <2>1. 0 \in T
    BY <1>1
  <2>2. ASSUME NEW i \in T PROVE i + 1 \in T
    <3>1. w[i + 1] = Onward(w[i], next) /\ w[i] \subseteq D
      BY <1>1
    <3> QED  BY <1>0, <3>1 DEF Onward
  <2>3. T = Nat
    BY <2>1, <2>2, SetOfAllNumbers
  <2> QED  BY <2>3
<1>4. ASSUME Onward(w[c], next) # w[c] PROVE FALSE
  <2>1. ASSUME NEW k \in Nat, k <= c PROVE w[k + 1] # w[k]
    <3> SUFFICES ASSUME w[k + 1] = w[k] PROVE FALSE
      OBVIOUS
    <3> DEFINE T == {i \in Nat : w[k + i] = w[k]}
    <3>1. 0 \in T
      OBVIOUS
    <3>2. ASSUME NEW i \in T PROVE i + 1 \in T
      <4>1. k + i \in Nat /\ k + (i + 1) = (k + i) + 1
        OBVIOUS
      <4>2. w[(k + i) + 1] = Onward(w[k + i], next) /\ w[k + 1] = Onward(w[k], next)
        BY <1>1, <4>1
      <4>3. w[k + i] = w[k]
        OBVIOUS
      <4> QED  BY <4>1, <4>2, <4>3
    <3> HIDE DEF T
    <3>3. T \subseteq Nat
      BY DEF T
    <3>4. T = Nat
      BY <3>1, <3>2, <3>3, SetOfAllNumbers
    <3>5. c - k \in Nat /\ k + (c - k) = c /\ (c + 1) - k \in Nat /\ k + ((c + 1) - k) = c + 1
      BY <1>2, <2>1
    <3>6. w[c] = w[k] /\ w[c + 1] = w[k]
      BY <3>4, <3>5 DEF T
    <3> QED  BY <1>1, <1>2, <1>4, <3>6
  <2> DEFINE T == {k \in Nat : k <= c + 1 => Cardinality(w[k]) >= k}
  <2>2. 0 \in T
    <3>1. IsFiniteSet(w[0]) /\ Cardinality(w[0]) \in Nat
      BY <1>3, FS_Subset, FS_CardinalityType
    <3> QED  BY <1>2, <3>1
  <2>3. ASSUME NEW k \in T PROVE k + 1 \in T
    <3> SUFFICES ASSUME k + 1 <= c + 1 PROVE Cardinality(w[k + 1]) >= k + 1
      OBVIOUS
    <3>1. k \in Nat /\ k <= c /\ k + 1 \in Nat
      BY <1>2
    <3>2. w[k + 1] # w[k] /\ w[k] \subseteq w[k + 1]
      BY <1>1, <2>1, <3>1 DEF Onward
    <3>3. IsFiniteSet(w[k + 1])
      BY <1>3, <3>1, FS_Subset
    <3>4. Cardinality(w[k]) \in Nat /\ Cardinality(w[k + 1]) \in Nat
      BY <3>2, <3>3, FS_Subset, FS_CardinalityType
    <3>5. Cardinality(w[k]) < Cardinality(w[k + 1])
      <4>1. w[k] \in SUBSET w[k + 1]
        BY <3>2
      <4>2. /\ Cardinality(w[k]) <= Cardinality(w[k + 1])
            /\ Cardinality(w[k + 1]) = Cardinality(w[k]) => w[k + 1] = w[k]
        BY <3>3, <4>1, FS_Subset
      <4> QED  BY <3>2, <3>4, <4>2
    <3>6. Cardinality(w[k]) >= k
      BY <1>2, <3>1
    <3> QED  BY <3>1, <3>2, <3>4, <3>5, <3>6
  <2> HIDE DEF T
  <2>4. T \subseteq Nat
    BY DEF T
  <2>5. T = Nat
    BY <2>2, <2>3, <2>4, SetOfAllNumbers
  <2>6. Cardinality(w[c + 1]) >= c + 1
    BY <1>2, <2>5 DEF T
  <2>7. Cardinality(w[c + 1]) <= c /\ Cardinality(w[c + 1]) \in Nat
    BY <1>2, <1>3, FS_Subset, FS_CardinalityType DEF c
  <2> QED  BY <1>2, <2>6, <2>7
<1>5. Reach(seeds, next) = w[c] /\ Onward(w[c], next) = w[c]
  BY <1>1, <1>4 DEF c
<1> QED  BY <1>2, <1>3, <1>5 DEF Onward

-----------------------------------------------------------------------------
(* The graph of a model that may run.                                      *)
Sane(m) == IsParsed(m) /\ LintsClean(m) /\ IsExecutable(m)

LEMMA GraphOfSane ==
    ASSUME NEW m, Sane(m)
    PROVE  /\ IsFiniteSet(Nodes(m)) /\ IsFiniteSet(Flows(m))
           /\ \A f \in Flows(m) : /\ m.from[f] \in Nodes(m) /\ m.to[f] \in Nodes(m)
                                  /\ m.scope[m.from[f]] = m.scope[m.to[f]]
           /\ \A n \in Nodes(m) :
                /\ m.kind[n] \in SupportedElement \ {"messagestart", "messageend", "throw"}
                /\ n # Process
                /\ \/ m.scope[n] = Process
                   \/ m.scope[n] \in Nodes(m) /\ m.kind[m.scope[n]] = "subprocess"
           /\ \A b \in DOMAIN m.host :
                /\ b \in Nodes(m) /\ m.host[b] \in Nodes(m)
                /\ m.kind[b] \in BoundaryEvt /\ m.kind[m.host[b]] \in SupportedHost
                /\ m.scope[m.host[b]] = m.scope[b]
                /\ m.kind[b] = "errorboundary" => b \in m.cancels
           /\ \A n \in Nodes(m) : n \in DOMAIN m.host <=> m.kind[n] \in BoundaryEvt
<1>1. IsParsed(m) /\ LintsClean(m) /\ IsExecutable(m)
  BY DEF Sane
<1>2. DOMAIN m.host = OfKind(m, BoundaryEvt)
  BY <1>1 DEF IsParsed
<1>3. ASSUME NEW n \in Nodes(m)
      PROVE  /\ m.kind[n] \in SupportedElement \ {"messagestart", "messageend", "throw"}
             /\ n # Process
             /\ \/ m.scope[n] = Process
                \/ m.scope[n] \in Nodes(m) /\ m.kind[m.scope[n]] = "subprocess"
  <2>1. m.kind[n] \in SupportedElement
    BY <1>1 DEF LintsClean, ElementsAreSupported
  <2>2. m.kind[n] \notin {"messagestart", "messageend", "throw"}
    BY <1>1 DEF IsExecutable, OfKind
  <2>3. m.scope[n] \in {Process} \union OfKind(m, {"subprocess"}) /\ n # Process
    BY <1>1 DEF IsParsed
  <2>4. \/ m.scope[n] = Process
        \/ m.scope[n] \in Nodes(m) /\ m.kind[m.scope[n]] = "subprocess"
    BY <2>3 DEF OfKind
  <2> QED  BY <2>1, <2>2, <2>3, <2>4
<1>4. ASSUME NEW b \in DOMAIN m.host
      PROVE  /\ b \in Nodes(m) /\ m.host[b] \in Nodes(m)
             /\ m.kind[b] \in BoundaryEvt /\ m.kind[m.host[b]] \in SupportedHost
             /\ m.scope[m.host[b]] = m.scope[b]
             /\ m.kind[b] = "errorboundary" => b \in m.cancels
  BY <1>1, <1>2 DEF LintsClean, BoundariesFit, ElementsAreSupported, OfKind
<1>5. \A n \in Nodes(m) : n \in DOMAIN m.host <=> m.kind[n] \in BoundaryEvt
  BY <1>2 DEF OfKind
<1>6. \A f \in Flows(m) : /\ m.from[f] \in Nodes(m) /\ m.to[f] \in Nodes(m)
                          /\ m.scope[m.from[f]] = m.scope[m.to[f]]
  BY <1>1 DEF LintsClean, FlowsStayInScope
<1> QED  BY <1>1, <1>3, <1>4, <1>5, <1>6 DEF IsParsed

LEMMA DegreesOfSane ==
    ASSUME NEW m, Sane(m), NEW n \in Nodes(m)
    PROVE  /\ m.kind[n] \in {"start"} \union BoundaryEvt => In(m, n) = {} /\ Single(Out(m, n))
           /\ m.kind[n] \in {"end", "terminate"} => In(m, n) # {} /\ Out(m, n) = {}
           /\ m.kind[n] \in Gateway => /\ In(m, n) # {} /\ Out(m, n) # {}
                                       /\ ~(Several(In(m, n)) /\ Several(Out(m, n)))
           /\ m.kind[n] \in SupportedHost \union {"rule", "timer", "message"} =>
                In(m, n) # {} /\ Single(Out(m, n))
<1>1. DegreesFit(m)
  BY DEF Sane, LintsClean
<1>2. CASE m.kind[n] \in {"start"} \union BoundaryEvt
  BY <1>1, <1>2 DEF DegreesFit, Gateway, Starting, Ending, BoundaryEvt, SupportedHost
<1>3. CASE m.kind[n] \in {"end", "terminate"}
  BY <1>1, <1>3 DEF DegreesFit, Gateway, Starting, Ending, BoundaryEvt, SupportedHost
<1>4. CASE m.kind[n] \in Gateway
  BY <1>1, <1>4 DEF DegreesFit, Gateway, Starting, Ending, BoundaryEvt, SupportedHost
<1>5. CASE m.kind[n] \in SupportedHost \union {"rule", "timer", "message"}
  BY <1>1, <1>5 DEF DegreesFit, Gateway, Starting, Ending, BoundaryEvt, SupportedHost
<1> QED  BY <1>2, <1>3, <1>4, <1>5

(* The ways on from n: its flows, and its boundaries.                      *)
LEMMA SuccsOfSane ==
    ASSUME NEW m, Sane(m)
    PROVE  /\ Succs(m) \in [Nodes(m) -> SUBSET Nodes(m)]
           /\ \A n \in Nodes(m) : \A x \in Succs(m)[n] :
                \/ \E f \in Flows(m) : m.from[f] = n /\ m.to[f] = x
                \/ x \in DOMAIN m.host /\ m.host[x] = n
           /\ \A f \in Flows(m) : m.to[f] \in Succs(m)[m.from[f]]
           /\ \A b \in DOMAIN m.host : b \in Succs(m)[m.host[b]]
BY GraphOfSane DEF Succs, Out, BoundariesOn

LEMMA RegionSuccsOfSane ==
    ASSUME NEW m, Sane(m)
    PROVE  /\ RegionSuccs(m) \in [Nodes(m) -> SUBSET Nodes(m)]
           /\ \A f \in Flows(m) : m.to[f] \in RegionSuccs(m)[m.from[f]]
           /\ \A b \in DOMAIN m.host : b \in m.cancels => b \in RegionSuccs(m)[m.host[b]]
BY GraphOfSane DEF RegionSuccs, Out, BoundariesOn

LEMMA BodyOfSane ==
    ASSUME NEW m, Sane(m), NEW a \in Nodes(m)
    PROVE  /\ Body(m, a) \subseteq Nodes(m)
           /\ \A k \in Nodes(m) : m.scope[k] \in {a} \union Body(m, a) => k \in Body(m, a)
           /\ \A X \in SUBSET Nodes(m) :
                (\A k \in Nodes(m) : m.scope[k] \in {a} \union X => k \in X)
                    => Body(m, a) \subseteq X
<1> DEFINE inside == [n \in Nodes(m) |-> {k \in Nodes(m) : m.scope[k] = n}]
<1>1. /\ inside \in [Nodes(m) -> SUBSET Nodes(m)] /\ DOMAIN inside = Nodes(m)
      /\ \A n \in Nodes(m) : \A k : k \in inside[n] <=> k \in Nodes(m) /\ m.scope[k] = n
  OBVIOUS
<1>2. Body(m, a) = Reach(inside[a], inside)
  BY DEF Body
<1> HIDE DEF inside
<1>3. inside[a] \in SUBSET Nodes(m) /\ IsFiniteSet(Nodes(m))
  BY <1>1, GraphOfSane
<1>4. /\ Body(m, a) \subseteq Nodes(m) /\ inside[a] \subseteq Body(m, a)
      /\ \A n \in Body(m, a) : inside[n] \subseteq Body(m, a)
  BY <1>1, <1>2, <1>3, ReachIsClosed, ReachHasSeeds
<1>5. ASSUME NEW X \in SUBSET Nodes(m), \A k \in Nodes(m) : m.scope[k] \in {a} \union X => k \in X
      PROVE  Body(m, a) \subseteq X
  <2>1. inside[a] \subseteq X /\ \A n \in X : inside[n] \subseteq X
    BY <1>1, <1>5
  <2> QED  BY <1>1, <1>2, <1>3, <2>1, ReachIsLeast
<1> QED  BY <1>1, <1>4, <1>5

LEMMA RunsBesideOfSane ==
    ASSUME NEW m, Sane(m), NEW b \in Nodes(m)
    PROVE  /\ RunsBeside(m, b) \subseteq Nodes(m) /\ b \in RunsBeside(m, b)
           /\ \A n \in RunsBeside(m, b) :
                /\ \A f \in Out(m, n) : m.to[f] \in RunsBeside(m, b)
                /\ ArmedOn(m, n) \subseteq RunsBeside(m, b)
                /\ Body(m, n) \subseteq RunsBeside(m, b)
                /\ RunsBeside(m, n) \subseteq RunsBeside(m, b)
<1> DEFINE next == [n \in Nodes(m) |-> {m.to[f] : f \in Out(m, n)}
                                          \union ArmedOn(m, n) \union Body(m, n)]
<1>1. next \in [Nodes(m) -> SUBSET Nodes(m)] /\ DOMAIN next = Nodes(m)
  BY GraphOfSane, BodyOfSane DEF Out, ArmedOn, BoundariesOn
<1>2. \A n \in Nodes(m) : /\ \A f \in Out(m, n) : m.to[f] \in next[n]
                          /\ ArmedOn(m, n) \subseteq next[n] /\ Body(m, n) \subseteq next[n]
  OBVIOUS
<1>3. \A n : RunsBeside(m, n) = Reach({n}, next)
  BY DEF RunsBeside
<1> HIDE DEF next
<1>4. IsFiniteSet(Nodes(m)) /\ {b} \in SUBSET Nodes(m)
  BY GraphOfSane
<1>5. /\ RunsBeside(m, b) \subseteq Nodes(m) /\ {b} \subseteq RunsBeside(m, b)
      /\ \A n \in RunsBeside(m, b) : next[n] \subseteq RunsBeside(m, b)
  <2>1. /\ Reach({b}, next) \subseteq Nodes(m)
        /\ \A n \in Reach({b}, next) : next[n] \subseteq Reach({b}, next)
    BY <1>1, <1>4, ReachIsClosed
  <2>2. {b} \subseteq Reach({b}, next)
    BY <1>1, <1>4, ReachHasSeeds
  <2> QED  BY <1>3, <2>1, <2>2
<1>6. ASSUME NEW n \in RunsBeside(m, b) PROVE RunsBeside(m, n) \subseteq RunsBeside(m, b)
  <2>1. {n} \subseteq RunsBeside(m, b)
    OBVIOUS
  <2>2. Reach({n}, next) \subseteq RunsBeside(m, b)
    BY <1>1, <1>4, <1>5, <2>1, ReachIsLeast
  <2> QED  BY <1>3, <2>2
<1> QED  BY <1>2, <1>5, <1>6

-----------------------------------------------------------------------------
(* Side paths stand apart.                                                 *)

(* Nothing that has a way in is cut off from the starts.                   *)
LEMMA NoIsland ==
    ASSUME NEW m, Sane(m), NEW P \in SUBSET Nodes(m),
           \A n \in P : /\ m.kind[n] # "start"
                        /\ \A f \in In(m, n) : m.from[f] \in P
                        /\ n \in DOMAIN m.host => m.host[n] \in P,
           NEW n \in P
    PROVE  In(m, n) = {}
<1> DEFINE X == Nodes(m) \ P
<1>1. Starting \intersect {"messagestart"} = {"messagestart"} /\ OfKind(m, Starting) \subseteq X
  BY GraphOfSane DEF OfKind, Starting
<1>2. ASSUME NEW k \in X PROVE Succs(m)[k] \subseteq X
  BY SuccsOfSane DEF In
<1>3. IsFiniteSet(DOMAIN Succs(m))
  BY SuccsOfSane, GraphOfSane
<1> HIDE DEF X
<1>4. Reach(OfKind(m, Starting), Succs(m)) \subseteq X
  BY <1>1, <1>2, <1>3, ReachIsLeast
<1>5. Connected(m)
  BY DEF Sane, LintsClean
<1>6. \A k \in Nodes(m) : In(m, k) # {} => k \in Reach(OfKind(m, Starting), Succs(m))
  BY <1>5 DEF Connected
<1> QED  BY <1>4, <1>6 DEF X

LEMMA SidePathOfSane ==
    ASSUME NEW m, Sane(m), NEW b \in SideStarts(m)
    PROVE  /\ b \in DOMAIN m.host /\ b \notin m.cancels
           /\ m.kind[b] \in {"timerboundary", "messageboundary"}
           /\ SidePath(m, b) \subseteq Nodes(m) /\ b \in SidePath(m, b)
           /\ \A n \in SidePath(m, b) : /\ Succs(m)[n] \subseteq SidePath(m, b)
                                        /\ m.kind[n] \notin {"start", "parallel"}
                                        /\ n # b => Preds(m)[n] \subseteq SidePath(m, b)
<1>1. /\ b \in Nodes(m) /\ m.kind[b] \in {"timerboundary", "messageboundary"}
      /\ b \in DOMAIN m.host /\ b \notin m.cancels
  BY GraphOfSane DEF SideStarts, OfKind, BoundaryEvt
<1>2. IsFiniteSet(Nodes(m)) /\ {b} \in SUBSET Nodes(m) /\ IsFiniteSet(DOMAIN Succs(m))
  BY <1>1, GraphOfSane, SuccsOfSane
<1>3. /\ SidePath(m, b) \subseteq Nodes(m)
      /\ \A n \in SidePath(m, b) : Succs(m)[n] \subseteq SidePath(m, b)
  BY <1>2, SuccsOfSane, ReachIsClosed DEF SidePath
<1>4. {b} \subseteq SidePath(m, b)
  BY <1>2, ReachHasSeeds DEF SidePath
<1>5. \A n \in SidePath(m, b) \ {b} : m.kind[n] # "parallel" /\ Preds(m)[n] \subseteq SidePath(m, b)
  BY DEF Sane, LintsClean, SidePathsStandApart
<1>6. SidePath(m, b) \subseteq {n \in Nodes(m) : m.kind[n] # "start"}
  <2> DEFINE X == {n \in Nodes(m) : m.kind[n] # "start"}
  <2>1. {b} \subseteq X
    BY <1>1
  <2>2. ASSUME NEW n \in X PROVE Succs(m)[n] \subseteq X
    <3> SUFFICES ASSUME NEW x \in Succs(m)[n] PROVE x \in X
      OBVIOUS
    <3>1. x \in Nodes(m)
      BY SuccsOfSane
    <3>2. In(m, x) # {} \/ m.kind[x] \in BoundaryEvt
      BY SuccsOfSane, GraphOfSane DEF In
    <3> QED  BY <3>1, <3>2, DegreesOfSane DEF BoundaryEvt
  <2> HIDE DEF X
  <2>3. SidePath(m, b) \subseteq X
    BY <1>2, <2>1, <2>2, ReachIsLeast DEF SidePath
  <2> QED  BY <2>3 DEF X
<1> QED  BY <1>1, <1>3, <1>4, <1>5, <1>6

LEMMA PredsOfSane ==
    ASSUME NEW m, Sane(m), NEW n \in Nodes(m)
    PROVE  /\ \A f \in In(m, n) : m.from[f] \in Preds(m)[n]
           /\ n \in DOMAIN m.host => m.host[n] \in Preds(m)[n]
           /\ \A x \in Nodes(m) : n \in Succs(m)[x] => x \in Preds(m)[n]
BY GraphOfSane, SuccsOfSane DEF Preds, BoundariesOn, In

(* A side path never leads back to its host.                               *)
LEMMA HostIsOff ==
    ASSUME NEW m, Sane(m), NEW b \in SideStarts(m)
    PROVE  m.host[b] \notin SidePath(m, b)
<1> SUFFICES ASSUME m.host[b] \in SidePath(m, b) PROVE FALSE
  OBVIOUS
<1> DEFINE P == SidePath(m, b)
<1>1. P \subseteq Nodes(m) /\ b \in P /\ b \in DOMAIN m.host /\ b \in Nodes(m)
  BY SidePathOfSane, GraphOfSane
<1>2. In(m, b) = {} /\ Single(Out(m, b))
  BY <1>1, GraphOfSane, DegreesOfSane
<1>3. \A n \in P : /\ m.kind[n] # "start"
                   /\ \A f \in In(m, n) : m.from[f] \in P
                   /\ n \in DOMAIN m.host => m.host[n] \in P
  BY <1>1, <1>2, SidePathOfSane, PredsOfSane
<1>4. PICK f \in Flows(m) : m.from[f] = b
  BY <1>2 DEF Single, Out
<1>5. m.to[f] \in P /\ f \in In(m, m.to[f])
  BY <1>1, <1>4, SuccsOfSane, SidePathOfSane DEF In
<1> QED  BY <1>1, <1>3, <1>5, NoIsland

(* Of two side paths, at most one lies on the other.                       *)
LEMMA NestingIsOneWay ==
    ASSUME NEW m, Sane(m), NEW b \in SideStarts(m), NEW c \in SideStarts(m), b # c,
           c \in SidePath(m, b)
    PROVE  b \notin SidePath(m, c)
<1> SUFFICES ASSUME b \in SidePath(m, c) PROVE FALSE
  OBVIOUS
<1> DEFINE P == SidePath(m, b) \union SidePath(m, c)
<1>1. P \subseteq Nodes(m) /\ b \in P /\ b \in DOMAIN m.host /\ b \in Nodes(m)
  BY SidePathOfSane, GraphOfSane
<1>2. In(m, b) = {} /\ Single(Out(m, b))
  BY <1>1, GraphOfSane, DegreesOfSane
<1>3. ASSUME NEW n \in P PROVE Preds(m)[n] \subseteq P /\ m.kind[n] # "start"
  BY SidePathOfSane
<1>4. \A n \in P : /\ m.kind[n] # "start"
                   /\ \A f \in In(m, n) : m.from[f] \in P
                   /\ n \in DOMAIN m.host => m.host[n] \in P
  BY <1>1, <1>3, PredsOfSane
<1>5. PICK f \in Flows(m) : m.from[f] = b
  BY <1>2 DEF Single, Out
<1>6. m.to[f] \in P /\ f \in In(m, m.to[f])
  BY <1>1, <1>5, SuccsOfSane, SidePathOfSane DEF In
<1> QED  BY <1>1, <1>4, <1>6, NoIsland

LEMMA OwnedIs ==
    ASSUME NEW m, NEW b, NEW n
    PROVE  n \in Owned(m, b) <=>
             /\ n \in SidePath(m, b) /\ n # b
             /\ \A c \in SideStarts(m) : c \in SidePath(m, b) /\ c # b
                                          => n = c \/ n \notin SidePath(m, c)
BY DEF Owned

(* What follows an element that b's own lane may be at, its lane may be at *)
(* next; and likewise what follows b.                                      *)
LEMMA OwnedGoesOn ==
    ASSUME NEW m, Sane(m), NEW b \in SideStarts(m), NEW n \in Owned(m, b) \ SideStarts(m),
           NEW x \in Succs(m)[n]
    PROVE  x \in Owned(m, b)
<1>1. n \in SidePath(m, b) /\ n # b /\ n \in Nodes(m)
  BY OwnedIs, SidePathOfSane
<1>2. x \in SidePath(m, b) /\ x \in Nodes(m)
  BY <1>1, SidePathOfSane
<1>3. x # b
  <2> SUFFICES ASSUME x = b PROVE FALSE
    OBVIOUS
  <2>1. In(m, b) = {}
    BY <1>2, GraphOfSane, SidePathOfSane, DegreesOfSane
  <2>2. m.host[b] = n
    BY <1>1, <2>1, SuccsOfSane DEF In
  <2> QED  BY <1>1, <2>2, HostIsOff
<1>4. ASSUME NEW c \in SideStarts(m), c \in SidePath(m, b), c # b, x # c, x \in SidePath(m, c)
      PROVE  FALSE
  <2>1. n \in SidePath(m, c)
    BY <1>1, <1>2, <1>4, SidePathOfSane, PredsOfSane
  <2> QED  BY <1>4, <2>1, OwnedIs
<1> QED  BY <1>2, <1>3, <1>4, OwnedIs

LEMMA OwnedBegins ==
    ASSUME NEW m, Sane(m), NEW b \in SideStarts(m), NEW f \in Out(m, b)
    PROVE  m.to[f] \in Owned(m, b)
<1>1. b \in Nodes(m) /\ b \in DOMAIN m.host /\ b \in SidePath(m, b) /\ In(m, b) = {}
  BY SidePathOfSane, GraphOfSane, DegreesOfSane
<1>2. f \in Flows(m) /\ m.from[f] = b /\ m.to[f] \in Nodes(m) /\ m.to[f] \in Succs(m)[b]
  BY SuccsOfSane, GraphOfSane DEF Out
<1>3. m.to[f] \in SidePath(m, b) /\ m.to[f] # b
  BY <1>1, <1>2, SidePathOfSane DEF In
<1>4. ASSUME NEW c \in SideStarts(m), c \in SidePath(m, b), c # b,
             m.to[f] # c, m.to[f] \in SidePath(m, c)
      PROVE  FALSE
  <2>1. b \in SidePath(m, c)
    BY <1>1, <1>2, <1>4, SidePathOfSane, PredsOfSane
  <2> QED  BY <1>4, <2>1, NestingIsOneWay
<1> QED  BY <1>3, <1>4, OwnedIs

-----------------------------------------------------------------------------
(* Branches.                                                               *)

LEMMA BranchOfSane ==
    ASSUME NEW m, Sane(m), NEW s \in Splits(m), NEW j \in MatchingJoins(m, s), NEW f \in Out(m, s)
    PROVE  /\ Branch(m, s, j, f) \subseteq Nodes(m) \ {s, j}
           /\ m.to[f] \in Branch(m, s, j, f) \union {j}
           /\ \A n \in Branch(m, s, j, f) :
                /\ \A h \in Out(m, n) : m.to[h] \in Branch(m, s, j, f) \union {j}
                /\ \A e \in DOMAIN m.host :
                    m.host[e] = n /\ e \in m.cancels => e \in Branch(m, s, j, f)
           /\ \A g \in Out(m, s) :
                f # g => Branch(m, s, j, f) \intersect Branch(m, s, j, g) = {}
           /\ \E h \in In(m, j) : m.from[h] \in Branch(m, s, j, f) \/ h = f
<1> DEFINE barred == [RegionSuccs(m) EXCEPT ![s] = {}, ![j] = {}]
           B == Branch(m, s, j, f)
<1>0. /\ s \in Nodes(m) /\ j \in Nodes(m) /\ m.kind[s] = "parallel" /\ m.kind[j] = "parallel"
      /\ Several(Out(m, s)) /\ Several(In(m, j)) /\ Closes(m, s, j)
      /\ f \in Flows(m) /\ m.from[f] = s /\ m.to[f] \in Nodes(m)
  BY GraphOfSane DEF MatchingJoins, JoinCandidates, Joins, Splits, OfKind, Out
<1>1. /\ barred \in [Nodes(m) -> SUBSET Nodes(m)]
      /\ \A n \in Nodes(m) \ {s, j} : barred[n] = RegionSuccs(m)[n]
  BY <1>0, RegionSuccsOfSane
<1>2. B = Reach({m.to[f]}, barred) \ {s, j}
  BY DEF Branch
<1> HIDE DEF barred
<1>3. IsFiniteSet(Nodes(m)) /\ {m.to[f]} \in SUBSET Nodes(m) /\ DOMAIN barred = Nodes(m)
  BY <1>0, <1>1, GraphOfSane
<1>4. /\ Reach({m.to[f]}, barred) \subseteq Nodes(m)
      /\ \A n \in Reach({m.to[f]}, barred) : barred[n] \subseteq Reach({m.to[f]}, barred)
  BY <1>1, <1>3, ReachIsClosed
<1>5. m.to[f] \in Reach({m.to[f]}, barred)
  BY <1>3, ReachHasSeeds
<1>6. B \subseteq Nodes(m) \ {s, j}
  BY <1>2, <1>4
<1>7. \A n \in B : \A x \in RegionSuccs(m)[n] : x \in B \/ x = s \/ x = j
  BY <1>1, <1>2, <1>4
<1>8. /\ \A g, h \in Out(m, s) :
            g # h => Branch(m, s, j, g) \intersect Branch(m, s, j, h) = {}
      /\ \A g \in Out(m, s) : \A i \in In(m, s) : m.from[i] \notin Branch(m, s, j, g)
      /\ Cardinality({h \in In(m, j) : m.from[h] \in B}) + (IF m.to[f] = j THEN 1 ELSE 0) = 1
  <2> DEFINE branch == [g \in Out(m, s) |-> Branch(m, s, j, g)]
  <2>1. \A g \in Out(m, s) : branch[g] = Branch(m, s, j, g)
    OBVIOUS
  <2>2. /\ \A g, h \in Out(m, s) : g # h => branch[g] \intersect branch[h] = {}
        /\ \A i \in In(m, s) : m.from[i] \notin UNION {branch[g] : g \in Out(m, s)}
        /\ \A g \in Out(m, s) : Cardinality({h \in In(m, j) : m.from[h] \in branch[g]})
                                  + (IF m.to[g] = j THEN 1 ELSE 0) = 1
    BY <1>0 DEF Closes
  <2> HIDE DEF branch
  <2> QED  BY <2>1, <2>2
<1>9. \E h \in In(m, j) : m.from[h] \in B \/ h = f
  <2>1. CASE m.to[f] = j
    BY <1>0, <2>1 DEF In
  <2>2. CASE m.to[f] # j
    <3> DEFINE H == {h \in In(m, j) : m.from[h] \in B}
    <3>1. Cardinality(H) + 0 = 1
      BY <1>8, <2>2
    <3>2. H # {}
      BY <3>1, FS_EmptySet
    <3> QED  BY <3>2
  <2> QED  BY <2>1, <2>2
<1>10. m.to[f] # s
  <2> SUFFICES ASSUME m.to[f] = s PROVE FALSE
    OBVIOUS
  <2>1. f \in In(m, s)
    BY <1>0 DEF In
  <2>2. s # j
    BY <1>0, DegreesOfSane DEF Gateway
  <2>3. Reach({m.to[f]}, barred) \subseteq {s}
    <3>1. {m.to[f]} \subseteq {s} /\ \A n \in {s} : barred[n] \subseteq {s}
      BY <1>0, <1>3, <2>2, RegionSuccsOfSane DEF barred
    <3> QED  BY <1>3, <3>1, ReachIsLeast
  <2>4. {h \in In(m, j) : m.from[h] \in B} = {}
    BY <1>2, <2>3
  <2>5. Cardinality({h \in In(m, j) : m.from[h] \in B}) = 0
    BY <2>4, FS_EmptySet
  <2>6. (IF m.to[f] = j THEN 1 ELSE 0) = 0
    BY <2>2
  <2> QED  BY <1>8, <2>5, <2>6
<1>11. m.to[f] \in B \union {j}
  BY <1>2, <1>5, <1>10
<1>12. ASSUME NEW n \in B
       PROVE  /\ \A h \in Out(m, n) : m.to[h] \in B \union {j}
              /\ \A e \in DOMAIN m.host : m.host[e] = n /\ e \in m.cancels => e \in B
  <2>1. n \in Nodes(m)
    BY <1>6
  <2>2. ASSUME NEW h \in Out(m, n) PROVE m.to[h] \in B \union {j}
    <3>1. h \in Flows(m) /\ m.from[h] = n
      BY DEF Out
    <3>2. m.to[h] \in RegionSuccs(m)[n]
      BY <3>1, RegionSuccsOfSane
    <3>3. m.to[h] # s
      BY <1>8, <3>1 DEF In
    <3> QED  BY <1>7, <3>2, <3>3
  <2>3. ASSUME NEW e \in DOMAIN m.host, m.host[e] = n, e \in m.cancels PROVE e \in B
    <3>1. e \in RegionSuccs(m)[n]
      BY <2>3, RegionSuccsOfSane
    <3>2. e # s /\ e # j
      BY <1>0, GraphOfSane DEF BoundaryEvt
    <3> QED  BY <1>7, <3>1, <3>2
  <2> QED  BY <2>2, <2>3
<1> QED  BY <1>6, <1>8, <1>9, <1>11, <1>12

(* Each join closes one split.                                             *)
LEMMA JoinsAreMatched ==
    ASSUME NEW m, Sane(m), NEW j \in Joins(m)
    PROVE  \E s \in Splits(m) : /\ j \in MatchingJoins(m, s)
                                /\ \A r \in Splits(m) : j \in MatchingJoins(m, r) => r = s
BY DEF Sane, LintsClean, GatewaysBalance

LEMMA SplitsAreMatched ==
    ASSUME NEW m, Sane(m), NEW s \in Splits(m)
    PROVE  \E j : j \in MatchingJoins(m, s)
BY DEF Sane, LintsClean, GatewaysBalance

LEMMA SplitsAreNotJoins ==
    ASSUME NEW m, Sane(m), NEW s \in Splits(m), NEW j \in Joins(m)
    PROVE  s # j
BY DegreesOfSane DEF Splits, Joins, OfKind, Gateway

(* A token at node at, which came by flow via, is in the branch of s that  *)
(* starts with f and ends at j.                                            *)
Within(m, at, via, s, j, f) ==
    \/ at \in Branch(m, s, j, f)
    \/ at = j /\ (via = f \/ m.from[via] \in Branch(m, s, j, f))

IsBlock(m, s, j) == s \in Splits(m) /\ j \in MatchingJoins(m, s)

LEMMA WithinOne ==
    ASSUME NEW m, Sane(m), NEW s, NEW j, IsBlock(m, s, j),
           NEW f \in Out(m, s), NEW g \in Out(m, s), NEW at, NEW via,
           Within(m, at, via, s, j, f), Within(m, at, via, s, j, g)
    PROVE  f = g
<1> SUFFICES ASSUME f # g PROVE FALSE
  OBVIOUS
<1>1. /\ Branch(m, s, j, f) \intersect Branch(m, s, j, g) = {}
      /\ Branch(m, s, j, f) \subseteq Nodes(m) \ {s, j}
      /\ Branch(m, s, j, g) \subseteq Nodes(m) \ {s, j}
  BY BranchOfSane DEF IsBlock
<1>2. m.from[f] = s /\ m.from[g] = s
  BY DEF Out
<1> QED  BY <1>1, <1>2 DEF Within

(* A token that is not at the join stays within its branch, or comes to    *)
(* the join.                                                               *)
LEMMA WithinGoesOn ==
    ASSUME NEW m, Sane(m), NEW s, NEW j, IsBlock(m, s, j), NEW f \in Out(m, s),
           NEW n \in Branch(m, s, j, f), NEW h \in Out(m, n)
    PROVE  Within(m, m.to[h], h, s, j, f)
<1>1. m.to[h] \in Branch(m, s, j, f) \union {j} /\ m.from[h] = n
  BY BranchOfSane DEF IsBlock, Out
<1> QED  BY <1>1 DEF Within

LEMMA WithinBegins ==
    ASSUME NEW m, Sane(m), NEW s, NEW j, IsBlock(m, s, j), NEW f \in Out(m, s)
    PROVE  Within(m, m.to[f], f, s, j, f)
BY BranchOfSane DEF IsBlock, Within

-----------------------------------------------------------------------------
(* Scopes as sequences.                                                    *)
ScopePath(m) == Seq(Nodes(m) \X Nat)

(* s is what u begins with.                                                *)
Begins(s, u) == Len(s) <= Len(u) /\ \A i \in 1 .. Len(s) : u[i] = s[i]

LEMMA PrefixBegins ==
    ASSUME NEW S, NEW s \in Seq(S), NEW u \in Seq(S)
    PROVE  IsPrefix(s, u) <=> Begins(s, u)
<1>1. Len(s) \in Nat /\ Len(u) \in Nat /\ DOMAIN s = 1 .. Len(s)
  OBVIOUS
<1>2. CASE Len(s) <= Len(u)
  <2>1. SubSeq(s, 1, Len(s)) = s
    OBVIOUS
  <2>2. /\ SubSeq(u, 1, Len(s)) \in Seq(S) /\ Len(SubSeq(u, 1, Len(s))) = Len(s)
        /\ \A i \in 1 .. Len(s) : SubSeq(u, 1, Len(s))[i] = u[i]
    BY <1>1, <1>2
  <2>3. SubSeq(u, 1, Len(s)) = s <=> \A i \in 1 .. Len(s) : u[i] = s[i]
    <3>1. ASSUME \A i \in 1 .. Len(s) : u[i] = s[i] PROVE SubSeq(u, 1, Len(s)) = s
      BY <2>2, <3>1
    <3> QED  BY <2>2, <3>1
  <2> QED  BY <1>2, <2>1, <2>3 DEF IsPrefix, Begins
<1>3. CASE ~(Len(s) <= Len(u))
  BY <1>3 DEF IsPrefix, Begins
<1> QED  BY <1>2, <1>3

LEMMA BeginsIsTransitive ==
    ASSUME NEW S, NEW s \in Seq(S), NEW u \in Seq(S), NEW v \in Seq(S), Begins(s, u), Begins(u, v)
    PROVE  Begins(s, v)
BY DEF Begins

LEMMA SameBeginning ==
    ASSUME NEW S, NEW s \in Seq(S), NEW u \in Seq(S), Begins(s, u), Len(s) = Len(u)
    PROVE  s = u
BY DEF Begins

Token(m) == [at : Nodes(m), via : Flows(m) \union {NoFlow}, wait : {"moving", "waiting", "join"},
             scope : ScopePath(m), lane : Nat]

LEMMA InsideIs ==
    ASSUME NEW m, NEW t \in Token(m), NEW u \in Token(m)
    PROVE  Inside(t, u) <=> /\ Len(t.scope) < Len(u.scope) /\ Begins(t.scope, u.scope)
                            /\ u.scope[Len(t.scope) + 1] = <<t.at, t.lane>>
<1> DEFINE S == Nodes(m) \X Nat
           a == Append(t.scope, <<t.at, t.lane>>)
<1>1. t.scope \in Seq(S) /\ u.scope \in Seq(S) /\ <<t.at, t.lane>> \in S
  BY DEF Token, ScopePath
<1> HIDE DEF S
<1>2. /\ a \in Seq(S) /\ Len(a) = Len(t.scope) + 1 /\ Len(t.scope) \in Nat /\ Len(u.scope) \in Nat
      /\ a[Len(t.scope) + 1] = <<t.at, t.lane>>
      /\ \A i \in 1 .. Len(t.scope) : a[i] = t.scope[i]
  BY <1>1
<1>3. Inside(t, u) <=> Begins(a, u.scope)
  BY <1>1, <1>2, PrefixBegins DEF Inside
<1> HIDE DEF a
<1>4. Begins(a, u.scope) => /\ Len(t.scope) < Len(u.scope) /\ Begins(t.scope, u.scope)
                            /\ u.scope[Len(t.scope) + 1] = <<t.at, t.lane>>
  <2> SUFFICES ASSUME Begins(a, u.scope)
               PROVE  /\ Len(t.scope) < Len(u.scope) /\ Begins(t.scope, u.scope)
                      /\ u.scope[Len(t.scope) + 1] = <<t.at, t.lane>>
    OBVIOUS
  <2>1. Len(t.scope) + 1 \in 1 .. Len(a) /\ \A i \in 1 .. Len(t.scope) : i \in 1 .. Len(a)
    BY <1>2
  <2>2. Len(a) <= Len(u.scope) /\ \A i \in 1 .. Len(a) : u.scope[i] = a[i]
    BY DEF Begins
  <2>3. Len(t.scope) < Len(u.scope)
    BY <1>1, <1>2, <2>2
  <2>4. u.scope[Len(t.scope) + 1] = <<t.at, t.lane>>
    BY <1>2, <2>1, <2>2
  <2>5. \A i \in 1 .. Len(t.scope) : u.scope[i] = t.scope[i]
    BY <1>2, <2>1, <2>2
  <2> QED  BY <1>2, <2>3, <2>4, <2>5 DEF Begins
<1>5. ASSUME Len(t.scope) < Len(u.scope), Begins(t.scope, u.scope),
             u.scope[Len(t.scope) + 1] = <<t.at, t.lane>>
      PROVE  Begins(a, u.scope)
  <2>1. \A i \in 1 .. Len(a) : i \in 1 .. Len(t.scope) \/ i = Len(t.scope) + 1
    BY <1>2
  <2>2. ASSUME NEW i \in 1 .. Len(a) PROVE u.scope[i] = a[i]
    <3>1. CASE i \in 1 .. Len(t.scope)
      <4>1. u.scope[i] = t.scope[i]
        BY <1>5, <3>1 DEF Begins
      <4> QED  BY <1>2, <3>1, <4>1
    <3>2. CASE i = Len(t.scope) + 1
      BY <1>2, <1>5, <3>2
    <3> QED  BY <2>1, <3>1, <3>2
  <2>3. Len(a) <= Len(u.scope)
    BY <1>2, <1>5
  <2> QED  BY <2>2, <2>3 DEF Begins
<1> QED  BY <1>3, <1>4, <1>5

LEMMA InsideIsTransitive ==
    ASSUME NEW m, NEW t \in Token(m), NEW u \in Token(m), NEW v \in Token(m),
           Inside(t, u), Inside(u, v)
    PROVE  Inside(t, v)
<1>1. /\ t.scope \in Seq(Nodes(m) \X Nat) /\ u.scope \in Seq(Nodes(m) \X Nat)
      /\ v.scope \in Seq(Nodes(m) \X Nat)
  BY DEF Token, ScopePath
<1>2. /\ Len(t.scope) < Len(u.scope) /\ Begins(t.scope, u.scope)
      /\ u.scope[Len(t.scope) + 1] = <<t.at, t.lane>>
      /\ Len(u.scope) < Len(v.scope) /\ Begins(u.scope, v.scope)
  BY InsideIs
<1>3. Begins(t.scope, v.scope)
  BY <1>1, <1>2, BeginsIsTransitive
<1>4. Len(t.scope) + 1 \in 1 .. Len(u.scope) /\ Len(t.scope) < Len(v.scope)
  BY <1>1, <1>2
<1>5. v.scope[Len(t.scope) + 1] = <<t.at, t.lane>>
  BY <1>2, <1>4 DEF Begins
<1> QED  BY <1>3, <1>4, <1>5, InsideIs

LEMMA NotInsideItself ==
    ASSUME NEW m, NEW t \in Token(m)
    PROVE  ~Inside(t, t)
<1>1. Len(t.scope) \in Nat
  BY DEF Token, ScopePath
<1> QED  BY <1>1, InsideIs

-----------------------------------------------------------------------------
(* Where tokens can be.                                                    *)

(* A token is at no boundary, and at no alternative of an event-based      *)
(* gateway; it came to a parallel gateway by one of its flows.             *)
Placed(m, t) ==
    /\ t \in Token(m) /\ m.kind[t.at] \notin BoundaryEvt
    /\ \A f \in In(m, t.at) : m.kind[m.from[f]] # "event"
    /\ t.wait = "waiting" => t.via = NoFlow
    /\ m.kind[t.at] = "parallel" => t.via \in In(m, t.at) /\ t.wait # "waiting"

(* The i-th body around a token in a scope.                                *)
Around(path, i) == IF i = 0 THEN Process ELSE path[i][1]

(* The bodies around a token are those around its node.                    *)
Chained(m, t) ==
    /\ m.scope[t.at] = Around(t.scope, Len(t.scope))
    /\ \A i \in 1 .. Len(t.scope) : m.scope[t.scope[i][1]] = Around(t.scope, i - 1)

(* The element of firing r's own path that a token of its lane is at, or   *)
(* in the body of.                                                         *)
Stand(r, t) == IF Len(t.scope) = Len(r.scope) THEN t.at ELSE t.scope[Len(r.scope) + 1][1]

(* A token is on the side path of its lane, or in a body on it; and until  *)
(* an error handler takes the lane over, on what the compiler takes to run *)
(* beside the host.                                                        *)
OnLane(m, fr, ct, t) ==
    /\ t.lane <= Len(fr)
    /\ t.lane = 0 => \A i \in 1 .. Len(t.scope) : t.scope[i][2] = 0
    /\ t.lane > 0 =>
        LET r == fr[t.lane] IN
        /\ Begins(r.scope, t.scope)
        /\ \A i \in 1 .. Len(t.scope) : i > Len(r.scope) => t.scope[i][2] = t.lane
        /\ Stand(r, t) \in Owned(m, r.boundary)
        /\ t.lane \notin ct => Stand(r, t) \in RunsBeside(m, r.boundary)

(* The subprocess tokens around a token are there.                         *)
HasOwners(ts, t) ==
    \A i \in 1 .. Len(t.scope) :
        \E o \in ts : o.wait = "waiting" /\ Len(o.scope) = i - 1 /\ Inside(o, t)

(* Two tokens are in two branches of one split.                            *)
Separate(m, t, u) ==
    \E s, j : /\ IsBlock(m, s, j)
              /\ \E f, g \in Out(m, s) : /\ f # g /\ Within(m, t.at, t.via, s, j, f)
                                         /\ Within(m, u.at, u.via, s, j, g)

Orderly(m, ts, fr, ct) ==
    /\ \A t \in ts : Placed(m, t) /\ Chained(m, t) /\ OnLane(m, fr, ct, t) /\ HasOwners(ts, t)
    /\ \A t, u \in ts :
        t # u /\ t.scope = u.scope /\ t.lane = u.lane => Separate(m, t, u)

Firing(m) == [boundary : Nodes(m), scope : ScopePath(m), lane : Nat]

(* A lane that is started from another is on what runs beside its host.    *)
FiringsFit(m, fr, ct) ==
    /\ fr \in Seq(Firing(m))
    /\ \A k \in 1 .. Len(fr) :
        /\ fr[k].boundary \in SideStarts(m) /\ fr[k].lane < k
        /\ fr[k].lane > 0 /\ fr[k].lane \notin ct
            => fr[k].boundary \in RunsBeside(m, fr[fr[k].lane].boundary)

-----------------------------------------------------------------------------
(* The nodes a token is in, from the outside in, its own node last.        *)
Level(t, k) == IF k = Len(t.scope) + 1 THEN t.at ELSE t.scope[k][1]

LEMMA LevelsAre ==
    ASSUME NEW m, Sane(m), NEW t \in Token(m), Chained(m, t)
    PROVE  /\ Len(t.scope) \in Nat
           /\ \A k \in 1 .. Len(t.scope) + 1 :
                /\ Level(t, k) \in Nodes(m)
                /\ k = 1 => m.scope[Level(t, k)] = Process
                /\ k > 1 => m.scope[Level(t, k)] = Level(t, k - 1)
           /\ \A k \in 1 .. Len(t.scope) : /\ Level(t, k) = t.scope[k][1]
                                           /\ m.kind[Level(t, k)] = "subprocess"
           /\ Level(t, Len(t.scope) + 1) = t.at
<1>1. t.scope \in Seq(Nodes(m) \X Nat) /\ Len(t.scope) \in Nat /\ t.at \in Nodes(m)
  BY DEF Token, ScopePath
<1>2. \A k \in 1 .. Len(t.scope) : t.scope[k] \in Nodes(m) \X Nat /\ t.scope[k][1] \in Nodes(m)
  BY <1>1
<1>3. /\ \A k \in 1 .. Len(t.scope) : Level(t, k) = t.scope[k][1]
      /\ Level(t, Len(t.scope) + 1) = t.at
  BY <1>1 DEF Level
<1>4. ASSUME NEW k \in 1 .. Len(t.scope) + 1
      PROVE  /\ Level(t, k) \in Nodes(m)
             /\ k = 1 => m.scope[Level(t, k)] = Process
             /\ k > 1 => m.scope[Level(t, k)] = Level(t, k - 1)
  <2>1. k \in 1 .. Len(t.scope) \/ k = Len(t.scope) + 1
    BY <1>1
  <2>2. m.scope[Level(t, k)] = Around(t.scope, k - 1)
    <3>1. CASE k \in 1 .. Len(t.scope)
      BY <1>3, <3>1 DEF Chained
    <3>2. CASE k = Len(t.scope) + 1
      <4>1. k - 1 = Len(t.scope) /\ Level(t, k) = t.at
        BY <1>1, <1>3, <3>2
      <4> QED  BY <4>1 DEF Chained
    <3> QED  BY <2>1, <3>1, <3>2
  <2>3. k > 1 => k - 1 \in 1 .. Len(t.scope) /\ k - 1 # 0
    BY <1>1
  <2>4. k = 1 => k - 1 = 0
    OBVIOUS
  <2> QED  BY <1>1, <1>2, <1>3, <2>1, <2>2, <2>3, <2>4 DEF Around
<1>5. ASSUME NEW k \in 1 .. Len(t.scope) PROVE m.kind[Level(t, k)] = "subprocess"
  <2>1. k + 1 \in 1 .. Len(t.scope) + 1 /\ k + 1 > 1 /\ (k + 1) - 1 = k
    BY <1>1
  <2>2. m.scope[Level(t, k + 1)] = Level(t, k) /\ Level(t, k + 1) \in Nodes(m)
    BY <1>4, <2>1
  <2>3. Level(t, k) \in Nodes(m)
    BY <1>2, <1>3
  <2> QED  BY <2>2, <2>3, GraphOfSane
<1> QED  BY <1>1, <1>3, <1>4, <1>5

(* An inner node is in the body of every outer one.                        *)
LEMMA LevelsNest ==
    ASSUME NEW m, Sane(m), NEW t \in Token(m), Chained(m, t),
           NEW i \in 1 .. Len(t.scope), NEW k \in 1 .. Len(t.scope) + 1, i < k
    PROVE  Level(t, k) \in Body(m, Level(t, i))
<1> DEFINE a == Level(t, i)
           T == {d \in Nat : i + 1 + d <= Len(t.scope) + 1 => Level(t, i + 1 + d) \in Body(m, a)}
<1>1. /\ Len(t.scope) \in Nat /\ a \in Nodes(m)
      /\ \A n \in Nodes(m) : m.scope[n] \in {a} \union Body(m, a) => n \in Body(m, a)
  BY LevelsAre, BodyOfSane
<1>2. 0 \in T
  <2>1. i + 1 + 0 = i + 1 /\ i + 1 \in 1 .. Len(t.scope) + 1 /\ i + 1 > 1 /\ (i + 1) - 1 = i
    BY <1>1
  <2>2. m.scope[Level(t, i + 1)] = a /\ Level(t, i + 1) \in Nodes(m)
    BY <2>1, LevelsAre
  <2> QED  BY <1>1, <2>1, <2>2
<1>3. ASSUME NEW d \in T PROVE d + 1 \in T
  <2> SUFFICES ASSUME i + 1 + (d + 1) <= Len(t.scope) + 1
               PROVE  Level(t, i + 1 + (d + 1)) \in Body(m, a)
    OBVIOUS
  <2> DEFINE x == i + 1 + (d + 1)
  <2>1. /\ x \in 1 .. Len(t.scope) + 1 /\ x > 1 /\ x - 1 = i + 1 + d
        /\ i + 1 + d <= Len(t.scope) + 1
    BY <1>1
  <2>2. Level(t, i + 1 + d) \in Body(m, a)
    BY <2>1
  <2> HIDE DEF x
  <2>3. m.scope[Level(t, x)] = Level(t, i + 1 + d) /\ Level(t, x) \in Nodes(m)
    BY <2>1, LevelsAre
  <2> QED  BY <1>1, <2>2, <2>3 DEF x
<1> HIDE DEF T
<1>4. T \subseteq Nat
  BY DEF T
<1>5. T = Nat
  BY <1>2, <1>3, <1>4, SetOfAllNumbers
<1>6. k - (i + 1) \in Nat /\ i + 1 + (k - (i + 1)) = k /\ k <= Len(t.scope) + 1
  BY <1>1
<1>7. \A d \in Nat : i + 1 + d <= Len(t.scope) + 1 => Level(t, i + 1 + d) \in Body(m, a)
  BY <1>5 DEF T
<1>8. Level(t, i + 1 + (k - (i + 1))) \in Body(m, a)
  BY <1>6, <1>7
<1> QED  BY <1>6, <1>8

(* Only the nodes around it have a token's node in their body.             *)
LEMMA OnlyOuterLevels ==
    ASSUME NEW m, Sane(m), NEW t \in Token(m), Chained(m, t), NEW k \in 1 .. Len(t.scope) + 1,
           NEW c \in Nodes(m), Level(t, k) \in Body(m, c)
    PROVE  \E i \in 1 .. Len(t.scope) : i < k /\ c = Level(t, i)
<1> SUFFICES ASSUME \A i \in 1 .. Len(t.scope) : i < k => c # Level(t, i) PROVE FALSE
  OBVIOUS
<1> DEFINE X == {n \in Nodes(m) : \A i \in 1 .. Len(t.scope) + 1 : i <= k => n # Level(t, i)}
<1>1. Len(t.scope) \in Nat
  BY LevelsAre
<1>2. ASSUME NEW n \in Nodes(m), m.scope[n] \in {c} \union X PROVE n \in X
  <2> SUFFICES ASSUME NEW i \in 1 .. Len(t.scope) + 1, i <= k, n = Level(t, i) PROVE FALSE
    OBVIOUS
  <2>1. CASE i = 1
    <3>1. m.scope[n] = Process
      BY <2>1, LevelsAre
    <3> QED  BY <1>2, <3>1, GraphOfSane
  <2>2. CASE i # 1
    <3>1. i > 1 /\ i - 1 \in 1 .. Len(t.scope) /\ i - 1 \in 1 .. Len(t.scope) + 1 /\ i - 1 < k
          /\ i - 1 <= k
      BY <1>1, <2>2
    <3>2. m.scope[n] = Level(t, i - 1)
      BY <3>1, LevelsAre
    <3>3. c # Level(t, i - 1)
      BY <3>1
    <3> QED  BY <1>2, <3>1, <3>2, <3>3
  <2> QED  BY <2>1, <2>2
<1>3. X \in SUBSET Nodes(m)
  OBVIOUS
<1> HIDE DEF X
<1>4. Body(m, c) \subseteq X
  BY <1>2, <1>3, BodyOfSane
<1>5. Level(t, k) \in X /\ k <= k
  BY <1>4
<1> QED  BY <1>5 DEF X

(* No node is around itself.                                               *)
LEMMA LevelsDiffer ==
    ASSUME NEW m, Sane(m), NEW t \in Token(m), Chained(m, t),
           NEW i \in 1 .. Len(t.scope) + 1, NEW k \in 1 .. Len(t.scope) + 1, i < k
    PROVE  Level(t, i) # Level(t, k)
<1> DEFINE T == {d \in Nat : \A x, y \in 1 .. Len(t.scope) + 1 :
                              x < y /\ x <= d => Level(t, x) # Level(t, y)}
<1>1. Len(t.scope) \in Nat
  BY LevelsAre
<1>2. 0 \in T
  OBVIOUS
<1>3. ASSUME NEW d \in T PROVE d + 1 \in T
  <2> SUFFICES ASSUME NEW x \in 1 .. Len(t.scope) + 1, NEW y \in 1 .. Len(t.scope) + 1,
                      x < y, x <= d + 1, Level(t, x) = Level(t, y)
               PROVE  FALSE
    OBVIOUS
  <2>1. y > 1 /\ y - 1 \in 1 .. Len(t.scope) + 1 /\ m.scope[Level(t, y)] = Level(t, y - 1)
        /\ Level(t, y - 1) \in Nodes(m)
    <3>1. y > 1 /\ y - 1 \in 1 .. Len(t.scope) + 1
      BY <1>1
    <3> QED  BY <3>1, LevelsAre
  <2>2. CASE x = 1
    <3>1. m.scope[Level(t, x)] = Process
      BY <2>2, LevelsAre
    <3> QED  BY <2>1, <3>1, GraphOfSane
  <2>3. CASE x # 1
    <3>1. x > 1 /\ x - 1 \in 1 .. Len(t.scope) + 1 /\ x - 1 < y - 1 /\ x - 1 <= d
      BY <1>1, <2>3
    <3>2. m.scope[Level(t, x)] = Level(t, x - 1)
      BY <3>1, LevelsAre
    <3>3. Level(t, x - 1) # Level(t, y - 1)
      BY <2>1, <3>1
    <3> QED  BY <2>1, <3>2, <3>3
  <2> QED  BY <2>2, <2>3
<1> HIDE DEF T
<1>4. T \subseteq Nat
  BY DEF T
<1>5. T = Nat
  BY <1>2, <1>3, <1>4, SetOfAllNumbers
<1>6. i \in Nat
  OBVIOUS
<1> QED  BY <1>5, <1>6 DEF T

(* Tokens of one node have the same nodes around them.                     *)
LEMMA LevelsAgree ==
    ASSUME NEW m, Sane(m), NEW t \in Token(m), Chained(m, t), NEW u \in Token(m), Chained(m, u),
           t.at = u.at
    PROVE  /\ Len(t.scope) = Len(u.scope)
           /\ \A k \in 1 .. Len(t.scope) : t.scope[k][1] = u.scope[k][1]
<1> DEFINE lt == Len(t.scope) + 1
           lu == Len(u.scope) + 1
           T  == {d \in Nat : d < lt /\ d < lu => Level(t, lt - d) = Level(u, lu - d)}
<1>1. lt \in Nat /\ lu \in Nat /\ lt >= 1 /\ lu >= 1
  BY LevelsAre
<1>2. /\ Level(t, lt) = t.at /\ Level(u, lu) = u.at
      /\ \A k \in 1 .. lt : /\ Level(t, k) \in Nodes(m)
                            /\ k = 1 => m.scope[Level(t, k)] = Process
                            /\ k > 1 => m.scope[Level(t, k)] = Level(t, k - 1)
      /\ \A k \in 1 .. lu : /\ Level(u, k) \in Nodes(m)
                            /\ k = 1 => m.scope[Level(u, k)] = Process
                            /\ k > 1 => m.scope[Level(u, k)] = Level(u, k - 1)
  BY LevelsAre
<1> HIDE DEF lt, lu
<1>3. 0 \in T
  BY <1>1, <1>2
<1>4. ASSUME NEW d \in T PROVE d + 1 \in T
  <2> SUFFICES ASSUME d + 1 < lt, d + 1 < lu PROVE Level(t, lt - (d + 1)) = Level(u, lu - (d + 1))
    OBVIOUS
  <2>1. /\ d < lt /\ d < lu /\ lt - d > 1 /\ lu - d > 1 /\ lt - d \in 1 .. lt /\ lu - d \in 1 .. lu
        /\ (lt - d) - 1 = lt - (d + 1) /\ (lu - d) - 1 = lu - (d + 1)
    BY <1>1
  <2>2. Level(t, lt - d) = Level(u, lu - d)
    BY <2>1
  <2>3. m.scope[Level(t, lt - d)] = Level(t, (lt - d) - 1)
    BY <1>2, <2>1
  <2>4. m.scope[Level(u, lu - d)] = Level(u, (lu - d) - 1)
    BY <1>2, <2>1
  <2> QED  BY <2>1, <2>2, <2>3, <2>4
<1> HIDE DEF T
<1>5. T \subseteq Nat
  BY DEF T
<1>6. T = Nat
  BY <1>3, <1>4, <1>5, SetOfAllNumbers
<1>7. \A d \in Nat : d < lt /\ d < lu => Level(t, lt - d) = Level(u, lu - d)
  BY <1>6 DEF T
<1>8. ASSUME lt < lu PROVE FALSE
  <2> DEFINE d == lt - 1
  <2>1. d \in Nat /\ d < lt /\ d < lu /\ lt - d = 1 /\ lu - d > 1 /\ lu - d \in 1 .. lu
        /\ 1 \in 1 .. lt /\ (lu - d) - 1 \in 1 .. lu
    BY <1>1, <1>8
  <2> HIDE DEF d
  <2>2. Level(t, 1) = Level(u, lu - d)
    BY <1>7, <2>1
  <2>3. m.scope[Level(t, 1)] = Process /\ m.scope[Level(u, lu - d)] = Level(u, (lu - d) - 1)
        /\ Level(u, (lu - d) - 1) \in Nodes(m)
    BY <1>2, <2>1
  <2> QED  BY <2>2, <2>3, GraphOfSane
<1>9. ASSUME lu < lt PROVE FALSE
  <2> DEFINE d == lu - 1
  <2>1. d \in Nat /\ d < lt /\ d < lu /\ lu - d = 1 /\ lt - d > 1 /\ lt - d \in 1 .. lt
        /\ 1 \in 1 .. lu /\ (lt - d) - 1 \in 1 .. lt
    BY <1>1, <1>9
  <2> HIDE DEF d
  <2>2. Level(u, 1) = Level(t, lt - d)
    BY <1>7, <2>1
  <2>3. m.scope[Level(u, 1)] = Process /\ m.scope[Level(t, lt - d)] = Level(t, (lt - d) - 1)
        /\ Level(t, (lt - d) - 1) \in Nodes(m)
    BY <1>2, <2>1
  <2> QED  BY <2>2, <2>3, GraphOfSane
<1>10. lt = lu
  BY <1>1, <1>8, <1>9
<1>11. ASSUME NEW k \in 1 .. Len(t.scope) PROVE t.scope[k][1] = u.scope[k][1]
  <2>1. lt - k \in Nat /\ lt - k < lt /\ lt - (lt - k) = k /\ k \in 1 .. Len(u.scope)
    BY <1>1, <1>10 DEF lt, lu
  <2>2. Level(t, k) = Level(u, k)
    BY <1>7, <1>10, <2>1
  <2> QED  BY <2>1, <2>2, LevelsAre
<1>12. Len(t.scope) = Len(u.scope)
  BY <1>10, LevelsAre DEF lt, lu
<1> QED  BY <1>11, <1>12

-----------------------------------------------------------------------------
(* Tokens side by side.                                                    *)

LEMMA InsideIsSub ==
    ASSUME NEW m, Sane(m), NEW t \in Token(m), NEW u \in Token(m), Inside(t, u), Chained(m, u)
    PROVE  /\ Len(t.scope) + 1 \in 1 .. Len(u.scope) /\ Level(u, Len(t.scope) + 1) = t.at
           /\ m.kind[t.at] = "subprocess" /\ u.at \in Body(m, t.at)
<1>1. Len(t.scope) \in Nat /\ Len(u.scope) \in Nat
  BY DEF Token, ScopePath
<1>2. Len(t.scope) < Len(u.scope) /\ u.scope[Len(t.scope) + 1] = <<t.at, t.lane>>
  BY InsideIs
<1>3. Len(t.scope) + 1 \in 1 .. Len(u.scope)
  BY <1>1, <1>2
<1>4. Level(u, Len(t.scope) + 1) = t.at
  BY <1>2, <1>3, LevelsAre
<1>5. m.kind[t.at] = "subprocess"
  BY <1>3, <1>4, LevelsAre
<1>6. /\ Len(u.scope) + 1 \in 1 .. Len(u.scope) + 1 /\ Len(t.scope) + 1 < Len(u.scope) + 1
      /\ Level(u, Len(u.scope) + 1) = u.at
  BY <1>1, <1>2, LevelsAre
<1>7. Level(u, Len(u.scope) + 1) \in Body(m, Level(u, Len(t.scope) + 1))
  BY <1>3, <1>6, LevelsNest
<1> QED  BY <1>3, <1>4, <1>5, <1>6, <1>7

LEMMA SeparateDiffer ==
    ASSUME NEW m, Sane(m), NEW t, NEW u, Separate(m, t, u), t.at = u.at
    PROVE  t.via # u.via /\ t.at \in Joins(m)
<1>1. PICK s, j : /\ IsBlock(m, s, j)
                  /\ \E f, g \in Out(m, s) : /\ f # g /\ Within(m, t.at, t.via, s, j, f)
                                             /\ Within(m, u.at, u.via, s, j, g)
  BY DEF Separate
<1>2. PICK f \in Out(m, s), g \in Out(m, s) : /\ f # g /\ Within(m, t.at, t.via, s, j, f)
                                              /\ Within(m, u.at, u.via, s, j, g)
  BY <1>1
<1>3. t.via # u.via
  BY <1>1, <1>2, WithinOne
<1>4. j \in Joins(m)
  BY <1>1 DEF IsBlock, MatchingJoins, JoinCandidates
<1>5. t.at = j
  <2>1. /\ Branch(m, s, j, f) \intersect Branch(m, s, j, g) = {}
        /\ Branch(m, s, j, f) \subseteq Nodes(m) \ {s, j}
        /\ Branch(m, s, j, g) \subseteq Nodes(m) \ {s, j}
    BY <1>1, <1>2, BranchOfSane DEF IsBlock
  <2> QED  BY <1>2, <2>1 DEF Within
<1> QED  BY <1>3, <1>4, <1>5

LEMMA SeparateIsMutual ==
    ASSUME NEW m, NEW t, NEW u, Separate(m, t, u) PROVE Separate(m, u, t)
<1>1. PICK s, j : /\ IsBlock(m, s, j)
                  /\ \E f, g \in Out(m, s) : /\ f # g /\ Within(m, t.at, t.via, s, j, f)
                                             /\ Within(m, u.at, u.via, s, j, g)
  BY DEF Separate
<1>2. \E f, g \in Out(m, s) : /\ f # g /\ Within(m, u.at, u.via, s, j, f)
                              /\ Within(m, t.at, t.via, s, j, g)
  BY <1>1
<1> QED  BY <1>1, <1>2 DEF Separate

(* Two tokens of one scope and lane that stand still do not meet.          *)
LEMMA OrderlyApart ==
    ASSUME NEW m, Sane(m), NEW ts, NEW fr, NEW ct, Orderly(m, ts, fr, ct),
           NEW t \in ts, NEW u \in ts, t.scope = u.scope, t.lane = u.lane, t.at = u.at,
           t.at \notin Joins(m) \/ t.via = u.via
    PROVE  t = u
<1> SUFFICES ASSUME t # u PROVE FALSE
  OBVIOUS
<1>1. Separate(m, t, u)
  BY DEF Orderly
<1> QED  BY <1>1, SeparateDiffer

(* Nothing runs inside a token that is not a subprocess' waiting.          *)
LEMMA OwnersWait ==
    ASSUME NEW m, Sane(m), NEW ts, NEW fr, NEW ct, Orderly(m, ts, fr, ct),
           NEW t \in ts, NEW u \in ts, Inside(t, u)
    PROVE  t.wait = "waiting"
<1>1. /\ t \in Token(m) /\ u \in Token(m) /\ Chained(m, u) /\ HasOwners(ts, u)
      /\ \A o \in ts : o \in Token(m)
  BY DEF Orderly, Placed
<1>2. /\ Len(t.scope) < Len(u.scope) /\ Begins(t.scope, u.scope)
      /\ u.scope[Len(t.scope) + 1] = <<t.at, t.lane>>
      /\ Len(t.scope) + 1 \in 1 .. Len(u.scope) /\ m.kind[t.at] = "subprocess"
  BY <1>1, InsideIs, InsideIsSub
<1>3. PICK o \in ts : o.wait = "waiting" /\ Len(o.scope) = (Len(t.scope) + 1) - 1 /\ Inside(o, u)
  BY <1>1, <1>2 DEF HasOwners
<1>4. /\ t.scope \in Seq(Nodes(m) \X Nat) /\ o.scope \in Seq(Nodes(m) \X Nat)
      /\ u.scope \in Seq(Nodes(m) \X Nat)
  BY <1>1, <1>3 DEF Token, ScopePath
<1>5. Len(o.scope) = Len(t.scope)
  <2>1. Len(t.scope) \in Nat
    BY <1>4
  <2> QED  BY <1>3, <2>1
<1>6. Begins(o.scope, u.scope) /\ u.scope[Len(o.scope) + 1] = <<o.at, o.lane>>
  BY <1>1, <1>3, InsideIs
<1>7. o.at = t.at /\ o.lane = t.lane
  BY <1>2, <1>5, <1>6
<1>8. o.scope = t.scope
  <2>1. Begins(o.scope, t.scope)
    BY <1>2, <1>5, <1>6 DEF Begins
  <2> QED  BY <1>4, <1>5, <2>1, SameBeginning
<1>9. t.at \notin Joins(m)
  BY <1>2 DEF Joins, OfKind
<1>10. t = o
  BY <1>7, <1>8, <1>9, OrderlyApart
<1> QED  BY <1>3, <1>10

(* The lane of a token at a parallel gateway is that of its scope.         *)
LaneOf(path) == IF Len(path) = 0 THEN 0 ELSE path[Len(path)][2]

LEMMA ParallelLane ==
    ASSUME NEW m, Sane(m), NEW fr, NEW ct, FiringsFit(m, fr, ct), NEW t \in Token(m),
           OnLane(m, fr, ct, t), m.kind[t.at] = "parallel"
    PROVE  t.lane = LaneOf(t.scope)
<1>1. t.scope \in Seq(Nodes(m) \X Nat) /\ Len(t.scope) \in Nat /\ t.lane \in Nat
  BY DEF Token, ScopePath
<1>2. CASE t.lane = 0
  <2>1. \A i \in 1 .. Len(t.scope) : t.scope[i][2] = 0
    BY <1>2 DEF OnLane
  <2>2. Len(t.scope) # 0 => Len(t.scope) \in 1 .. Len(t.scope)
    BY <1>1
  <2> QED  BY <1>2, <2>1, <2>2 DEF LaneOf
<1>3. CASE t.lane # 0
  <2> DEFINE k == t.lane
             r == fr[k]
  <2>1. k \in 1 .. Len(fr) /\ r \in Firing(m) /\ r.boundary \in SideStarts(m)
    <3>1. fr \in Seq(Firing(m)) /\ k <= Len(fr) /\ k > 0
      BY <1>1, <1>3 DEF FiringsFit, OnLane
    <3>2. Len(fr) \in Nat
      BY <3>1
    <3>3. k \in 1 .. Len(fr)
      BY <1>1, <3>1, <3>2
    <3> QED  BY <3>1, <3>3 DEF FiringsFit
  <2>2. Len(r.scope) \in Nat
    BY <2>1 DEF Firing, ScopePath
  <2>3. /\ Begins(r.scope, t.scope) /\ Stand(r, t) \in Owned(m, r.boundary)
        /\ \A i \in 1 .. Len(t.scope) : i > Len(r.scope) => t.scope[i][2] = k
    BY <1>1, <1>3 DEF OnLane
  <2> HIDE DEF r, k
  <2>4. Len(r.scope) <= Len(t.scope)
    BY <2>3 DEF Begins
  <2>5. Len(t.scope) # Len(r.scope)
    <3> SUFFICES ASSUME Len(t.scope) = Len(r.scope) PROVE FALSE
      OBVIOUS
    <3>1. t.at \in SidePath(m, r.boundary)
      BY <2>3, OwnedIs DEF Stand
    <3> QED  BY <2>1, <3>1, SidePathOfSane
  <2>6. Len(t.scope) \in 1 .. Len(t.scope) /\ Len(t.scope) > Len(r.scope) /\ Len(t.scope) # 0
    BY <1>1, <2>2, <2>4, <2>5
  <2>7. t.scope[Len(t.scope)][2] = k
    BY <2>3, <2>6
  <2> QED  BY <2>6, <2>7 DEF LaneOf, k
<1> QED  BY <1>2, <1>3

-----------------------------------------------------------------------------
(* What removing tokens leaves.                                            *)

LEMMA OrderlyLess ==
    ASSUME NEW m, NEW ts, NEW fr, NEW ct, Orderly(m, ts, fr, ct), NEW ts2 \in SUBSET ts,
           \A o \in ts \ ts2 : \A u \in ts2 : ~Inside(o, u)
    PROVE  Orderly(m, ts2, fr, ct)
<1>1. ASSUME NEW u \in ts2 PROVE HasOwners(ts2, u)
  <2> SUFFICES ASSUME NEW i \in 1 .. Len(u.scope)
               PROVE  \E o \in ts2 : o.wait = "waiting" /\ Len(o.scope) = i - 1 /\ Inside(o, u)
    BY DEF HasOwners
  <2>1. PICK o \in ts : o.wait = "waiting" /\ Len(o.scope) = i - 1 /\ Inside(o, u)
    BY DEF Orderly, HasOwners
  <2>2. o \in ts2
    BY <2>1
  <2> QED  BY <2>1, <2>2
<1> QED  BY <1>1 DEF Orderly

LEMMA OrderlyCaught ==
    ASSUME NEW m, NEW ts, NEW fr, NEW ct, Orderly(m, ts, fr, ct), NEW ct2, ct \subseteq ct2
    PROVE  Orderly(m, ts, fr, ct2)
<1>1. \A t \in ts : OnLane(m, fr, ct2, t)
  BY DEF Orderly, OnLane
<1> QED  BY <1>1 DEF Orderly

LEMMA OrderlyMore ==
    ASSUME NEW m, NEW ts, NEW fr, NEW ct, Orderly(m, ts, fr, ct), NEW new,
           \A w \in new : /\ Placed(m, w) /\ Chained(m, w) /\ OnLane(m, fr, ct, w)
                          /\ HasOwners(ts \union new, w)
                          /\ \A v \in ts : v.scope = w.scope /\ v.lane = w.lane => Separate(m, w, v)
                          /\ \A v \in new : v # w /\ v.scope = w.scope /\ v.lane = w.lane
                                              => Separate(m, w, v)
    PROVE  Orderly(m, ts \union new, fr, ct)
<1>1. ASSUME NEW t \in ts PROVE HasOwners(ts \union new, t)
  BY DEF Orderly, HasOwners
<1>2. ASSUME NEW t \in ts \union new, NEW u \in ts \union new,
             t # u, t.scope = u.scope, t.lane = u.lane
      PROVE  Separate(m, t, u)
  <2>1. CASE t \in ts /\ u \in ts
    BY <1>2, <2>1 DEF Orderly
  <2>2. CASE t \in new
    BY <1>2, <2>2
  <2>3. CASE t \in ts /\ u \in new
    <3>1. Separate(m, u, t)
      BY <1>2, <2>3
    <3> QED  BY <3>1, SeparateIsMutual
  <2> QED  BY <2>1, <2>2, <2>3
<1>3. \A t \in ts \union new : Placed(m, t) /\ Chained(m, t) /\ OnLane(m, fr, ct, t)
  BY DEF Orderly
<1> QED  BY <1>1, <1>2, <1>3 DEF Orderly

-----------------------------------------------------------------------------
(* Where a token goes.                                                     *)

(* Where the token that is at node at may leave: there, on a boundary that *)
(* cancels it, or on an alternative of its event-based gateway.            *)
Springs(m, at, n) ==
    \/ n = at /\ m.kind[at] # "event"
    \/ n \in BoundariesOn(m, at) /\ n \in m.cancels
    \/ m.kind[at] = "event" /\ \E f \in Out(m, at) : n = m.to[f]

LEMMA SpringsOfSane ==
    ASSUME NEW m, Sane(m), NEW at \in Nodes(m), m.kind[at] \notin BoundaryEvt, NEW n, Springs(m, at, n)
    PROVE  /\ n \in Nodes(m) /\ m.kind[n] # "event" /\ n \notin SideStarts(m)
           /\ m.scope[n] = m.scope[at]
           /\ n = at \/ (n \in Succs(m)[at] /\ m.kind[n] # "parallel")
<1>1. CASE n = at /\ m.kind[at] # "event"
  <2>1. n \notin SideStarts(m)
    BY <1>1 DEF SideStarts, OfKind, BoundaryEvt
  <2> QED  BY <1>1, <2>1
<1>2. CASE n \in BoundariesOn(m, at) /\ n \in m.cancels
  <2>1. n \in DOMAIN m.host /\ m.host[n] = at
    BY <1>2 DEF BoundariesOn
  <2>2. n \in Nodes(m) /\ m.kind[n] \in BoundaryEvt /\ m.scope[n] = m.scope[at]
    BY <2>1, GraphOfSane
  <2>3. n \in Succs(m)[at]
    BY <2>1, SuccsOfSane
  <2>4. m.kind[n] # "event" /\ m.kind[n] # "parallel" /\ n \notin SideStarts(m)
    BY <1>2, <2>2 DEF SideStarts, BoundaryEvt
  <2> QED  BY <2>2, <2>3, <2>4
<1>3. CASE m.kind[at] = "event" /\ \E f \in Out(m, at) : n = m.to[f]
  <2>1. PICK f \in Out(m, at) : n = m.to[f]
    BY <1>3
  <2>2. f \in Flows(m) /\ m.from[f] = at
    BY <2>1 DEF Out
  <2>3. n \in Nodes(m) /\ m.scope[n] = m.scope[at]
    BY <2>1, <2>2, GraphOfSane
  <2>4. n \in Succs(m)[at]
    BY <2>1, <2>2, SuccsOfSane
  <2>5. at \in OfKind(m, {"event"})
    BY <1>3 DEF OfKind
  <2>6. m.kind[n] \in {"message", "timer", "receive"}
    BY <2>1, <2>5 DEF Sane, LintsClean, EventGatewaysRace
  <2>7. m.kind[n] # "event" /\ m.kind[n] # "parallel" /\ n \notin SideStarts(m)
    BY <2>6 DEF SideStarts, OfKind
  <2> QED  BY <2>3, <2>4, <2>7
<1> QED  BY <1>1, <1>2, <1>3 DEF Springs

(* The flows of an event-based gateway lead to its alternatives only, and  *)
(* nothing else leads there.                                               *)
LEMMA AlternativesOfSane ==
    ASSUME NEW m, Sane(m), NEW h \in Flows(m), m.kind[m.from[h]] = "event"
    PROVE  /\ In(m, m.to[h]) = {h} /\ m.kind[m.to[h]] \in {"message", "timer", "receive"}
           /\ BoundariesOn(m, m.to[h]) = {}
<1>1. m.from[h] \in OfKind(m, {"event"}) /\ h \in Out(m, m.from[h])
  BY GraphOfSane DEF OfKind, Out
<1> QED  BY <1>1 DEF Sane, LintsClean, EventGatewaysRace

LEMMA GoesToPlace ==
    ASSUME NEW m, Sane(m), NEW n \in Nodes(m), m.kind[n] # "event", NEW f \in Out(m, n),
           NEW path \in ScopePath(m), NEW lane \in Nat, NEW w,
           w = [at |-> m.to[f], via |-> f, wait |-> "moving", scope |-> path, lane |-> lane]
    PROVE  Placed(m, w) /\ m.scope[w.at] = m.scope[n]
<1>1. f \in Flows(m) /\ m.from[f] = n /\ m.to[f] \in Nodes(m) /\ f \in In(m, m.to[f])
  BY GraphOfSane DEF Out, In
<1>2. w \in Token(m)
  BY <1>1 DEF Token
<1>3. m.kind[m.to[f]] \notin BoundaryEvt
  BY <1>1, DegreesOfSane
<1>4. ASSUME NEW h \in In(m, m.to[f]) PROVE m.kind[m.from[h]] # "event"
  <2> SUFFICES ASSUME m.kind[m.from[h]] = "event" PROVE FALSE
    OBVIOUS
  <2>1. h \in Flows(m) /\ m.to[h] = m.to[f]
    BY DEF In
  <2>2. In(m, m.to[f]) = {h}
    BY <2>1, AlternativesOfSane
  <2>3. f = h
    BY <1>1, <2>2
  <2> QED  BY <1>1, <2>3
<1>5. m.scope[m.to[f]] = m.scope[n]
  BY <1>1, GraphOfSane
<1> QED  BY <1>1, <1>2, <1>3, <1>4, <1>5 DEF Placed

(* The two stay in their branches.                                         *)
LEMMA SeparateGoesOn ==
    ASSUME NEW m, Sane(m), NEW t, NEW v, Separate(m, t, v), t.at \in Nodes(m),
           m.kind[t.at] \notin BoundaryEvt, t.at \notin Joins(m),
           NEW n, Springs(m, t.at, n), NEW f \in Out(m, n), NEW w, w.at = m.to[f], w.via = f
    PROVE  Separate(m, w, v)
<1>1. PICK s, j : /\ IsBlock(m, s, j)
                  /\ \E a, b \in Out(m, s) : /\ a # b /\ Within(m, t.at, t.via, s, j, a)
                                             /\ Within(m, v.at, v.via, s, j, b)
  BY DEF Separate
<1>2. PICK a \in Out(m, s), b \in Out(m, s) : /\ a # b /\ Within(m, t.at, t.via, s, j, a)
                                              /\ Within(m, v.at, v.via, s, j, b)
  BY <1>1
<1>3. j \in Joins(m) /\ s \in Splits(m) /\ j \in MatchingJoins(m, s)
  BY <1>1 DEF IsBlock, MatchingJoins, JoinCandidates
<1>4. t.at \in Branch(m, s, j, a)
  BY <1>2, <1>3 DEF Within
<1>5. n \in Branch(m, s, j, a)
  <2>1. CASE n = t.at
    BY <1>4, <2>1
  <2>2. CASE n \in BoundariesOn(m, t.at) /\ n \in m.cancels
    <3>1. n \in DOMAIN m.host /\ m.host[n] = t.at
      BY <2>2 DEF BoundariesOn
    <3> QED  BY <1>2, <1>3, <1>4, <2>2, <3>1, BranchOfSane
  <2>3. CASE m.kind[t.at] = "event" /\ \E h \in Out(m, t.at) : n = m.to[h]
    <3>1. n \in Branch(m, s, j, a) \union {j}
      BY <1>2, <1>3, <1>4, <2>3, BranchOfSane
    <3>2. n # j
      <4>1. n = t.at \/ m.kind[n] # "parallel"
        BY SpringsOfSane
      <4> QED  BY <1>3, <4>1 DEF Joins, OfKind
    <3> QED  BY <3>1, <3>2
  <2> QED  BY <2>1, <2>2, <2>3 DEF Springs
<1>6. Within(m, m.to[f], f, s, j, a)
  BY <1>1, <1>2, <1>5, WithinGoesOn
<1>7. \E x, y \in Out(m, s) : /\ x # y /\ Within(m, w.at, w.via, s, j, x)
                              /\ Within(m, v.at, v.via, s, j, y)
  BY <1>2, <1>6
<1> QED  BY <1>1, <1>7 DEF Separate

(* A branch that came to a join comes out of it within every branch around *)
(* it: the tokens that do not join are separated from the one that leaves  *)
(* by another split.                                                       *)
LEMMA SeparateGoesThrough ==
    ASSUME NEW m, Sane(m), NEW t, NEW v, Separate(m, t, v), t.at \in Joins(m),
           NEW A, t \in A, v \notin A, \A a \in A : a.at = t.at /\ Separate(m, a, v),
           \A h \in In(m, t.at) : \E a \in A : a.via = h,
           NEW f \in Out(m, t.at), NEW w, w.at = m.to[f], w.via = f
    PROVE  Separate(m, w, v)
<1> DEFINE x == t.at
<1>1. PICK s, j : /\ IsBlock(m, s, j)
                  /\ \E p, q \in Out(m, s) : /\ p # q /\ Within(m, x, t.via, s, j, p)
                                             /\ Within(m, v.at, v.via, s, j, q)
  BY DEF Separate
<1>2. PICK p \in Out(m, s), q \in Out(m, s) : /\ p # q /\ Within(m, x, t.via, s, j, p)
                                              /\ Within(m, v.at, v.via, s, j, q)
  BY <1>1
<1>3. j \in Joins(m) /\ s \in Splits(m) /\ j \in MatchingJoins(m, s)
  BY <1>1 DEF IsBlock, MatchingJoins, JoinCandidates
<1>4. CASE x # j
  <2>1. x \in Branch(m, s, j, p)
    BY <1>2, <1>4 DEF Within
  <2>2. Within(m, m.to[f], f, s, j, p)
    BY <1>1, <1>2, <2>1, WithinGoesOn
  <2> QED  BY <1>1, <1>2, <2>2 DEF Separate
<1>5. CASE x = j
  <2>1. PICK h \in In(m, j) : m.from[h] \in Branch(m, s, j, q) \/ h = q
    BY <1>2, <1>3, BranchOfSane
  <2>2. PICK a \in A : a.via = h
    BY <1>5, <2>1
  <2>3. a.at = j /\ Separate(m, a, v)
    BY <1>5, <2>2
  <2>4. Within(m, a.at, a.via, s, j, q)
    BY <2>1, <2>2, <2>3 DEF Within
  <2>5. PICK s2, j2 : /\ IsBlock(m, s2, j2)
                      /\ \E p2, q2 \in Out(m, s2) : /\ p2 # q2
                                                    /\ Within(m, a.at, a.via, s2, j2, p2)
                                                    /\ Within(m, v.at, v.via, s2, j2, q2)
    BY <2>3 DEF Separate
  <2>6. PICK p2 \in Out(m, s2), q2 \in Out(m, s2) : /\ p2 # q2
                                                    /\ Within(m, a.at, a.via, s2, j2, p2)
                                                    /\ Within(m, v.at, v.via, s2, j2, q2)
    BY <2>5
  <2>7. s2 \in Splits(m) /\ j2 \in MatchingJoins(m, s2)
    BY <2>5 DEF IsBlock
  <2>8. j2 # j
    <3> SUFFICES ASSUME j2 = j PROVE FALSE
      OBVIOUS
    <3>1. s2 = s
      BY <1>3, <2>7, JoinsAreMatched
    <3>2. p2 = q
      BY <1>1, <1>2, <2>4, <2>6, <3>1, WithinOne
    <3>3. q2 = q
      BY <1>1, <1>2, <2>6, <3>1, WithinOne
    <3> QED  BY <2>6, <3>2, <3>3
  <2>9. j \in Branch(m, s2, j2, p2)
    BY <2>3, <2>6, <2>8 DEF Within
  <2>10. f \in Out(m, j)
    BY <1>5
  <2>11. Within(m, m.to[f], f, s2, j2, p2)
    BY <2>5, <2>6, <2>9, <2>10, WithinGoesOn
  <2> QED  BY <2>5, <2>6, <2>11 DEF Separate
<1> QED  BY <1>4, <1>5

-----------------------------------------------------------------------------
(* A step on.                                                              *)

LEMMA SameOwners ==
    ASSUME NEW ts, NEW t, HasOwners(ts, t), NEW w, w.scope = t.scope, NEW ts2,
           \A o \in ts : Inside(o, t) => o \in ts2
    PROVE  HasOwners(ts2, w)
<1>1. \A o : Inside(o, t) <=> Inside(o, w)
  BY DEF Inside
<1> QED  BY <1>1 DEF HasOwners

LEMMA SameChain ==
    ASSUME NEW m, NEW t, Chained(m, t), NEW w, w.scope = t.scope, m.scope[w.at] = m.scope[t.at]
    PROVE  Chained(m, w)
BY DEF Chained

LEMMA StandGoesOn ==
    ASSUME NEW m, Sane(m), NEW b \in SideStarts(m), NEW at \in Owned(m, b), m.kind[at] \notin BoundaryEvt,
           NEW n, Springs(m, at, n), NEW f \in Out(m, n)
    PROVE  /\ m.to[f] \in Owned(m, b)
           /\ at \in RunsBeside(m, b) /\ m.kind[n] # "errorboundary" => m.to[f] \in RunsBeside(m, b)
<1>1. b \in Nodes(m) /\ at \in Nodes(m) /\ at \notin SideStarts(m)
  <2>1. at \in SidePath(m, b)
    BY OwnedIs
  <2> QED  BY <2>1, SidePathOfSane, GraphOfSane DEF SideStarts, OfKind, BoundaryEvt
<1>2. n \in Nodes(m) /\ n \notin SideStarts(m) /\ (n = at \/ n \in Succs(m)[at])
  BY <1>1, SpringsOfSane
<1>3. n \in Owned(m, b)
  BY <1>1, <1>2, OwnedGoesOn
<1>4. m.to[f] \in Succs(m)[n]
  <2>1. f \in Flows(m) /\ m.from[f] = n
    BY DEF Out
  <2> QED  BY <2>1, SuccsOfSane
<1>5. m.to[f] \in Owned(m, b)
  BY <1>2, <1>3, <1>4, OwnedGoesOn
<1>6. ASSUME at \in RunsBeside(m, b), m.kind[n] # "errorboundary" PROVE m.to[f] \in RunsBeside(m, b)
  <2>1. n \in RunsBeside(m, b)
    <3>1. CASE n = at
      BY <1>6, <3>1
    <3>2. CASE n \in BoundariesOn(m, at)
      <4>1. n \in ArmedOn(m, at)
        BY <1>6, <3>2 DEF ArmedOn, OfKind
      <4> QED  BY <1>1, <1>6, <4>1, RunsBesideOfSane
    <3>3. CASE \E h \in Out(m, at) : n = m.to[h]
      BY <1>1, <1>6, <3>3, RunsBesideOfSane
    <3> QED  BY <3>1, <3>2, <3>3 DEF Springs
  <2> QED  BY <1>1, <2>1, RunsBesideOfSane
<1> QED  BY <1>5, <1>6

LEMMA FiringsAre ==
    ASSUME NEW m, NEW fr, NEW ct, FiringsFit(m, fr, ct), NEW k \in Nat, k > 0, k <= Len(fr)
    PROVE  /\ k \in 1 .. Len(fr) /\ Len(fr) \in Nat /\ fr[k] \in Firing(m)
           /\ fr[k].boundary \in SideStarts(m) /\ fr[k].scope \in ScopePath(m)
           /\ Len(fr[k].scope) \in Nat /\ fr[k].lane \in Nat
<1>1. fr \in Seq(Firing(m))
  BY DEF FiringsFit
<1>2. Len(fr) \in Nat
  BY <1>1
<1>3. k \in 1 .. Len(fr)
  BY <1>2
<1>4. fr[k] \in Firing(m) /\ fr[k].boundary \in SideStarts(m)
  BY <1>1, <1>3 DEF FiringsFit
<1>5. fr[k].scope \in ScopePath(m) /\ fr[k].lane \in Nat
  BY <1>4 DEF Firing
<1>6. Len(fr[k].scope) \in Nat
  BY <1>5 DEF ScopePath
<1> QED  BY <1>2, <1>3, <1>4, <1>5, <1>6

LEMMA LaneGoesOn ==
    ASSUME NEW m, Sane(m), NEW fr, NEW ct, FiringsFit(m, fr, ct), NEW t, Placed(m, t),
           OnLane(m, fr, ct, t), NEW ct2, ct \subseteq ct2, NEW n, Springs(m, t.at, n),
           m.kind[n] = "errorboundary" /\ t.lane > 0 /\ t.scope = fr[t.lane].scope => t.lane \in ct2,
           NEW f \in Out(m, n), NEW w, w.at = m.to[f], w.scope = t.scope, w.lane = t.lane
    PROVE  OnLane(m, fr, ct2, w)
<1>1. t \in Token(m) /\ m.kind[t.at] \notin BoundaryEvt /\ t.lane \in Nat
      /\ t.scope \in Seq(Nodes(m) \X Nat)
  BY DEF Placed, Token, ScopePath
<1>2. CASE t.lane = 0
  BY <1>2 DEF OnLane
<1>3. CASE t.lane # 0
  <2>1. PICK k \in Nat : k = t.lane
    BY <1>1
  <2>2. PICK r : r = fr[k]
    OBVIOUS
  <2>3. k > 0 /\ k <= Len(fr)
    BY <1>1, <1>3, <2>1 DEF OnLane
  <2>4. r.boundary \in SideStarts(m) /\ r.scope \in Seq(Nodes(m) \X Nat) /\ Len(r.scope) \in Nat
    BY <2>2, <2>3, FiringsAre DEF ScopePath
  <2>5. /\ Begins(r.scope, t.scope) /\ Stand(r, t) \in Owned(m, r.boundary)
        /\ \A i \in 1 .. Len(t.scope) : i > Len(r.scope) => t.scope[i][2] = k
        /\ k \notin ct => Stand(r, t) \in RunsBeside(m, r.boundary)
    BY <2>1, <2>2, <2>3 DEF OnLane
  <2>6. CASE Len(t.scope) = Len(r.scope)
    <3>1. Stand(r, t) = t.at /\ Stand(r, w) = m.to[f]
      BY <2>6 DEF Stand
    <3>2. t.scope = r.scope
      BY <1>1, <2>4, <2>5, <2>6, SameBeginning
    <3>3. m.to[f] \in Owned(m, r.boundary)
      BY <1>1, <2>4, <2>5, <3>1, StandGoesOn
    <3>4. k \notin ct2 => m.to[f] \in RunsBeside(m, r.boundary)
      <4> SUFFICES ASSUME k \notin ct2 PROVE m.to[f] \in RunsBeside(m, r.boundary)
        OBVIOUS
      <4>1. k \notin ct /\ m.kind[n] # "errorboundary"
        BY <2>1, <2>2, <2>3, <3>2
      <4>2. t.at \in RunsBeside(m, r.boundary) /\ t.at \in Owned(m, r.boundary)
        BY <2>5, <3>1, <4>1
      <4> QED  BY <1>1, <2>4, <4>1, <4>2, StandGoesOn
    <3> QED  BY <2>1, <2>2, <2>3, <2>5, <3>1, <3>3, <3>4 DEF OnLane
  <2>7. CASE Len(t.scope) # Len(r.scope)
    <3>1. Stand(r, w) = Stand(r, t)
      BY <2>7 DEF Stand
    <3> QED  BY <2>1, <2>2, <2>3, <2>5, <3>1 DEF OnLane
  <2> QED  BY <2>6, <2>7
<1> QED  BY <1>2, <1>3

(* Where the token that leaves is, and around what.                        *)
LEMMA WayOn ==
    ASSUME NEW m, Sane(m), NEW ts, NEW fr, NEW ct, Orderly(m, ts, fr, ct), FiringsFit(m, fr, ct),
           NEW t \in ts, NEW ct2, ct \subseteq ct2, NEW n, Springs(m, t.at, n),
           m.kind[n] = "errorboundary" /\ t.lane > 0 /\ t.scope = fr[t.lane].scope => t.lane \in ct2,
           NEW f \in Out(m, n), NEW w,
           w = [at |-> m.to[f], via |-> f, wait |-> "moving", scope |-> t.scope, lane |-> t.lane],
           NEW ts2, \A o \in ts : Inside(o, t) => o \in ts2
    PROVE  Placed(m, w) /\ Chained(m, w) /\ OnLane(m, fr, ct2, w) /\ HasOwners(ts2, w)
<1>1. /\ Placed(m, t) /\ Chained(m, t) /\ OnLane(m, fr, ct, t) /\ HasOwners(ts, t)
      /\ t \in Token(m) /\ t.at \in Nodes(m) /\ t.scope \in ScopePath(m) /\ t.lane \in Nat
      /\ m.kind[t.at] \notin BoundaryEvt
  BY DEF Orderly, Placed, Token
<1>2. n \in Nodes(m) /\ m.kind[n] # "event" /\ m.scope[n] = m.scope[t.at]
  BY <1>1, SpringsOfSane
<1>3. w.at = m.to[f] /\ w.via = f /\ w.scope = t.scope /\ w.lane = t.lane
  OBVIOUS
<1>4. Placed(m, w) /\ m.scope[w.at] = m.scope[n]
  BY <1>1, <1>2, GoesToPlace
<1>5. Chained(m, w)
  BY <1>1, <1>2, <1>3, <1>4, SameChain
<1>6. OnLane(m, fr, ct2, w)
  BY <1>1, <1>3, LaneGoesOn
<1>7. HasOwners(ts2, w)
  BY <1>1, <1>3, SameOwners
<1> QED  BY <1>4, <1>5, <1>6, <1>7

(* One token leaves, of the others ts2 stay.                               *)
LEMMA LeavesOrderly ==
    ASSUME NEW m, Sane(m), NEW ts, NEW fr, NEW ct, Orderly(m, ts, fr, ct), FiringsFit(m, fr, ct),
           NEW t \in ts, t.at \notin Joins(m), NEW ct2, ct \subseteq ct2,
           NEW n, Springs(m, t.at, n),
           m.kind[n] = "errorboundary" /\ t.lane > 0 /\ t.scope = fr[t.lane].scope => t.lane \in ct2,
           NEW f \in Out(m, n), NEW w,
           w = [at |-> m.to[f], via |-> f, wait |-> "moving", scope |-> t.scope, lane |-> t.lane],
           NEW ts2 \in SUBSET ts, t \notin ts2,
           \A o \in ts \ ts2 : ~Inside(o, t) /\ \A u \in ts2 : ~Inside(o, u)
    PROVE  /\ Orderly(m, ts2 \union {w}, fr, ct2) /\ Placed(m, w)
           /\ \A v \in ts2 : v.scope = w.scope /\ v.lane = w.lane => Separate(m, w, v)
<1>1. Orderly(m, ts2, fr, ct2)
  BY OrderlyLess, OrderlyCaught
<1>2. \A o \in ts : Inside(o, t) => o \in ts2
  OBVIOUS
<1>3. Placed(m, w) /\ Chained(m, w) /\ OnLane(m, fr, ct2, w) /\ HasOwners(ts2 \union {w}, w)
  <2>1. HasOwners(ts2, w)
    BY <1>2, WayOn
  <2>2. OnLane(m, fr, ct2, w)
    BY <1>2, <2>1, WayOn
  <2>3. Placed(m, w) /\ Chained(m, w)
    BY <1>2, <2>1, <2>2, WayOn
  <2> QED  BY <2>1, <2>2, <2>3 DEF HasOwners
<1>4. ASSUME NEW v \in ts2, v.scope = w.scope, v.lane = w.lane PROVE Separate(m, w, v)
  <2>1. Separate(m, t, v)
    BY <1>4 DEF Orderly
  <2>2. t.at \in Nodes(m) /\ m.kind[t.at] \notin BoundaryEvt
    BY DEF Orderly, Placed, Token
  <2>3. w.at = m.to[f] /\ w.via = f
    OBVIOUS
  <2> QED  BY <2>1, <2>2, <2>3, SeparateGoesOn
<1>5. \A x \in {w} : /\ Placed(m, x) /\ Chained(m, x) /\ OnLane(m, fr, ct2, x)
                     /\ HasOwners(ts2 \union {w}, x)
                     /\ \A v \in ts2 : v.scope = x.scope /\ v.lane = x.lane => Separate(m, x, v)
                     /\ \A v \in {w} : v # x /\ v.scope = x.scope /\ v.lane = x.lane
                                         => Separate(m, x, v)
  BY <1>3, <1>4
<1> HIDE DEF Orderly
<1>6. Orderly(m, ts2 \union {w}, fr, ct2)
  BY <1>1, <1>5, OrderlyMore
<1> QED  BY <1>3, <1>4, <1>6

-----------------------------------------------------------------------------
(* Steps that keep the tokens in order.                                    *)

LEMMA SeparateStays ==
    ASSUME NEW m, NEW t, NEW v, Separate(m, t, v), NEW w, w.at = t.at,
           w.via = t.via \/ t.at \notin Joins(m)
    PROVE  Separate(m, w, v)
<1>1. PICK s, j : /\ IsBlock(m, s, j)
                  /\ \E a, b \in Out(m, s) : /\ a # b /\ Within(m, t.at, t.via, s, j, a)
                                             /\ Within(m, v.at, v.via, s, j, b)
  BY DEF Separate
<1>2. j \in Joins(m)
  BY <1>1 DEF IsBlock, MatchingJoins, JoinCandidates
<1>3. PICK a \in Out(m, s), b \in Out(m, s) : /\ a # b /\ Within(m, t.at, t.via, s, j, a)
                                              /\ Within(m, v.at, v.via, s, j, b)
  BY <1>1
<1>4. Within(m, w.at, w.via, s, j, a)
  BY <1>2, <1>3 DEF Within
<1> QED  BY <1>1, <1>3, <1>4 DEF Separate

LEMMA SameLane ==
    ASSUME NEW m, NEW fr, NEW ct, NEW t, OnLane(m, fr, ct, t), NEW w,
           w.at = t.at, w.scope = t.scope, w.lane = t.lane
    PROVE  OnLane(m, fr, ct, w)
BY DEF OnLane, Stand

(* A token comes to rest where it is.                                      *)
LEMMA RestsOrderly ==
    ASSUME NEW m, Sane(m), NEW ts, NEW fr, NEW ct, Orderly(m, ts, fr, ct),
           NEW t \in ts, t.wait # "waiting", NEW w, Placed(m, w),
           w.at = t.at, w.scope = t.scope, w.lane = t.lane, w.via = t.via \/ t.at \notin Joins(m)
    PROVE  /\ Orderly(m, (ts \ {t}) \union {w}, fr, ct)
           /\ \A v \in (ts \ {t}) \union {w} : ~Inside(w, v)
<1> DEFINE rest == ts \ {t}
<1>1. /\ \A v \in ts : ~Inside(t, v) /\ v \in Token(m)
      /\ Chained(m, t) /\ OnLane(m, fr, ct, t) /\ HasOwners(ts, t)
  BY OwnersWait DEF Orderly, Placed
<1>2. rest \in SUBSET ts /\ \A o \in ts \ rest : \A u \in rest : ~Inside(o, u)
  BY <1>1
<1>3. Orderly(m, rest, fr, ct)
  BY <1>2, OrderlyLess
<1>4. \A o \in ts : Inside(o, t) => o \in rest
  BY <1>1
<1>5. Chained(m, w) /\ OnLane(m, fr, ct, w) /\ HasOwners(rest, w)
  BY <1>1, <1>4, SameChain, SameLane, SameOwners
<1>6. ASSUME NEW v \in rest, v.scope = w.scope, v.lane = w.lane PROVE Separate(m, w, v)
  <2>1. Separate(m, t, v)
    BY <1>6 DEF Orderly
  <2> QED  BY <2>1, SeparateStays
<1> HIDE DEF rest
<1>7. \A x \in {w} : /\ Placed(m, x) /\ Chained(m, x) /\ OnLane(m, fr, ct, x)
                     /\ HasOwners(rest \union {w}, x)
                     /\ \A v \in rest : v.scope = x.scope /\ v.lane = x.lane => Separate(m, x, v)
                     /\ \A v \in {w} : v # x /\ v.scope = x.scope /\ v.lane = x.lane
                                         => Separate(m, x, v)
  BY <1>5, <1>6 DEF HasOwners
<1>8. Orderly(m, rest \union {w}, fr, ct)
  BY <1>3, <1>7, OrderlyMore
<1>9. \A v : Inside(w, v) <=> Inside(t, v)
  BY DEF Inside
<1>10. ~Inside(w, w)
  BY NotInsideItself DEF Placed
<1> QED  BY <1>1, <1>8, <1>9, <1>10 DEF rest

(* What starts inside a token is on its lane.                              *)
LEMMA DeeperLane ==
    ASSUME NEW m, Sane(m), NEW fr, NEW ct, FiringsFit(m, fr, ct), NEW t \in Token(m),
           OnLane(m, fr, ct, t), NEW w, w.lane = t.lane, NEW path, w.scope = path,
           Len(path) = Len(t.scope) + 1, path[Len(t.scope) + 1] = <<t.at, t.lane>>,
           \A i \in 1 .. Len(t.scope) : path[i] = t.scope[i]
    PROVE  OnLane(m, fr, ct, w)
<1> DEFINE len == Len(t.scope)
<1>1. len \in Nat /\ t.lane \in Nat /\ t.scope \in Seq(Nodes(m) \X Nat) /\ Len(path) = len + 1
  BY DEF Token, ScopePath
<1>2. t.lane <= Len(fr)
  BY DEF OnLane
<1>3. \A i \in 1 .. Len(path) : i \in 1 .. len \/ i = len + 1
  BY <1>1
<1>4. path[len + 1] = <<t.at, t.lane>> /\ \A i \in 1 .. len : path[i] = t.scope[i]
  OBVIOUS
<1>5. path[len + 1][1] = t.at /\ path[len + 1][2] = t.lane
  BY <1>4
<1>6. CASE t.lane = 0
  <2>1. \A i \in 1 .. len : t.scope[i][2] = 0
    BY <1>6 DEF OnLane
  <2>2. ASSUME NEW i \in 1 .. Len(path) PROVE path[i][2] = 0
    BY <1>3, <1>4, <1>5, <1>6, <2>1
  <2> QED  BY <1>2, <1>6, <2>2 DEF OnLane
<1>7. CASE t.lane # 0
  <2>1. PICK k \in Nat : k = t.lane
    BY <1>1
  <2>2. PICK r : r = fr[k]
    OBVIOUS
  <2>3. k > 0 /\ k <= Len(fr)
    BY <1>2, <1>7, <2>1
  <2>4. r.boundary \in SideStarts(m) /\ r.scope \in Seq(Nodes(m) \X Nat) /\ Len(r.scope) \in Nat
    BY <2>2, <2>3, FiringsAre DEF ScopePath
  <2>5. /\ Begins(r.scope, t.scope) /\ Stand(r, t) \in Owned(m, r.boundary)
        /\ \A i \in 1 .. len : i > Len(r.scope) => t.scope[i][2] = k
        /\ k \notin ct => Stand(r, t) \in RunsBeside(m, r.boundary)
    BY <2>1, <2>2, <2>3 DEF OnLane
  <2>6. Len(r.scope) <= len /\ \A i \in 1 .. Len(r.scope) : t.scope[i] = r.scope[i]
    BY <2>5 DEF Begins
  <2>7. Len(r.scope) <= Len(path) /\ \A i \in 1 .. Len(r.scope) : i \in 1 .. len
    BY <1>1, <2>4, <2>6
  <2>8. \A i \in 1 .. Len(r.scope) : path[i] = r.scope[i]
    BY <1>4, <2>6, <2>7
  <2>9. Begins(r.scope, path)
    BY <2>7, <2>8 DEF Begins
  <2>10. Stand(r, w) = Stand(r, t)
    <3>1. Len(path) # Len(r.scope)
      BY <1>1, <2>4, <2>6
    <3>2. Stand(r, w) = path[Len(r.scope) + 1][1]
      BY <3>1 DEF Stand
    <3>3. CASE Len(r.scope) = len
      BY <1>5, <3>2, <3>3 DEF Stand
    <3>4. CASE Len(r.scope) # len
      <4>1. Len(r.scope) + 1 \in 1 .. len
        BY <1>1, <2>4, <2>6, <3>4
      <4> QED  BY <1>4, <3>2, <3>4, <4>1 DEF Stand
    <3> QED  BY <3>3, <3>4
  <2>11. ASSUME NEW i \in 1 .. Len(path), i > Len(r.scope) PROVE path[i][2] = k
    BY <1>3, <1>4, <1>5, <2>1, <2>5, <2>11
  <2> QED  BY <2>1, <2>2, <2>3, <2>5, <2>9, <2>10, <2>11 DEF OnLane
<1> QED  BY <1>6, <1>7

(* A subprocess is entered.                                                *)
LEMMA BodyOrderly ==
    ASSUME NEW m, Sane(m), NEW ts, NEW fr, NEW ct, Orderly(m, ts, fr, ct), FiringsFit(m, fr, ct),
           NEW t \in ts, t.wait = "waiting", m.kind[t.at] = "subprocess",
           \A v \in ts : ~Inside(t, v),
           NEW s \in Nodes(m), m.kind[s] = "start", m.scope[s] = t.at, NEW w \in Token(m),
           w.at = s, w.via = NoFlow, w.wait = "moving", w.lane = t.lane,
           w.scope = Append(t.scope, <<t.at, t.lane>>)
    PROVE  /\ Orderly(m, ts \union {w}, fr, ct) /\ Placed(m, w)
           /\ \A v \in ts : v.scope # w.scope
<1> DEFINE len == Len(t.scope)
           path == w.scope
<1>1. /\ Placed(m, t) /\ Chained(m, t) /\ OnLane(m, fr, ct, t) /\ HasOwners(ts, t)
      /\ t \in Token(m) /\ t.at \in Nodes(m) /\ t.scope \in Seq(Nodes(m) \X Nat) /\ t.lane \in Nat
      /\ \A v \in ts : v \in Token(m)
  BY DEF Orderly, Placed, Token, ScopePath
<1>2. <<t.at, t.lane>> \in Nodes(m) \X Nat /\ path = Append(t.scope, <<t.at, t.lane>>)
  BY <1>1
<1>3. /\ path \in Seq(Nodes(m) \X Nat) /\ len \in Nat /\ Len(path) = len + 1
      /\ path[len + 1] = <<t.at, t.lane>> /\ \A i \in 1 .. len : path[i] = t.scope[i]
  BY <1>1, <1>2
<1>4. w.at = s /\ w.via = NoFlow /\ w.wait = "moving" /\ w.lane = t.lane /\ w.scope = path
  OBVIOUS
<1> HIDE DEF path
<1>5. Placed(m, w)
  <2>1. In(m, s) = {}
    BY DegreesOfSane
  <2> QED  BY <1>4, <2>1 DEF Placed, BoundaryEvt
<1>6. Chained(m, w)
  <2>1. Around(path, len + 1) = t.at
    <3>1. len + 1 # 0
      BY <1>3
    <3> QED  BY <1>3, <3>1 DEF Around
  <2>2. ASSUME NEW i \in 1 .. len + 1 PROVE m.scope[path[i][1]] = Around(path, i - 1)
    <3>1. CASE i \in 1 .. len
      <4>1. m.scope[t.scope[i][1]] = Around(t.scope, i - 1)
        BY <1>1, <3>1 DEF Chained
      <4>2. Around(path, i - 1) = Around(t.scope, i - 1)
        <5>1. i - 1 = 0 \/ i - 1 \in 1 .. len
          BY <1>3, <3>1
        <5> QED  BY <1>3, <5>1 DEF Around
      <4> QED  BY <1>3, <3>1, <4>1, <4>2
    <3>2. CASE i = len + 1
      <4>1. i - 1 = len /\ path[i][1] = t.at
        BY <1>3, <3>2
      <4>2. m.scope[t.at] = Around(t.scope, len)
        BY <1>1 DEF Chained
      <4>3. Around(path, len) = Around(t.scope, len)
        <5>1. len = 0 \/ len \in 1 .. len
          BY <1>3
        <5> QED  BY <1>3, <5>1 DEF Around
      <4> QED  BY <4>1, <4>2, <4>3
    <3> QED  BY <1>3, <3>1, <3>2
  <2> QED  BY <1>3, <1>4, <2>1, <2>2 DEF Chained
<1>7. OnLane(m, fr, ct, w)
  BY <1>1, <1>3, <1>4, DeeperLane
<1>8. Inside(t, w)
  <2>1. len < Len(path)
    BY <1>3
  <2>2. Begins(t.scope, path)
    BY <1>3 DEF Begins
  <2> QED  BY <1>1, <1>3, <1>4, <2>1, <2>2, InsideIs
<1>9. HasOwners(ts, w)
  <2> SUFFICES ASSUME NEW i \in 1 .. Len(path)
               PROVE  \E o \in ts : o.wait = "waiting" /\ Len(o.scope) = i - 1 /\ Inside(o, w)
    BY <1>4 DEF HasOwners
  <2>1. i \in 1 .. len \/ i - 1 = len
    BY <1>3
  <2>2. CASE i \in 1 .. len
    <3>1. PICK o \in ts : o.wait = "waiting" /\ Len(o.scope) = i - 1 /\ Inside(o, t)
      BY <1>1, <2>2 DEF HasOwners
    <3>2. Inside(o, w)
      BY <1>1, <1>4, <1>8, <3>1, InsideIsTransitive
    <3> QED  BY <3>1, <3>2
  <2>3. CASE i - 1 = len
    BY <1>8, <2>3
  <2> QED  BY <2>1, <2>2, <2>3
<1>10. ASSUME NEW v \in ts PROVE v.scope # w.scope
  <2> SUFFICES ASSUME v.scope = w.scope PROVE FALSE
    OBVIOUS
  <2>1. Inside(t, v)
    BY <1>8 DEF Inside
  <2> QED  BY <2>1
<1>11. \A x \in {w} : /\ Placed(m, x) /\ Chained(m, x) /\ OnLane(m, fr, ct, x)
                      /\ HasOwners(ts \union {w}, x)
                      /\ \A v \in ts : v.scope = x.scope /\ v.lane = x.lane => Separate(m, x, v)
                      /\ \A v \in {w} : v # x /\ v.scope = x.scope /\ v.lane = x.lane
                                          => Separate(m, x, v)
  BY <1>5, <1>6, <1>7, <1>9, <1>10 DEF HasOwners
<1>12. Orderly(m, ts \union {w}, fr, ct)
  BY <1>11, OrderlyMore
<1> QED  BY <1>5, <1>10, <1>12

(* The tokens of all flows of a join leave it as one.                      *)
LEMMA MergeOrderly ==
    ASSUME NEW m, Sane(m), NEW ts, NEW fr, NEW ct, Orderly(m, ts, fr, ct), FiringsFit(m, fr, ct),
           NEW t \in ts, t.at \in Joins(m), NEW A \in SUBSET ts, t \in A,
           \A a \in A : a.at = t.at /\ a.scope = t.scope,
           \A h \in In(m, t.at) : \E a \in A : a.via = h,
           NEW f \in Out(m, t.at), NEW w,
           w = [at |-> m.to[f], via |-> f, wait |-> "moving", scope |-> t.scope, lane |-> t.lane]
    PROVE  /\ Orderly(m, (ts \ A) \union {w}, fr, ct) /\ Placed(m, w)
           /\ \A v \in ts \ A : v.scope = w.scope /\ v.lane = w.lane => Separate(m, w, v)
<1> DEFINE rest == ts \ A
<1>1. /\ m.kind[t.at] = "parallel" /\ t.at \in Nodes(m)
      /\ \A v \in ts : v \in Token(m) /\ Chained(m, v) /\ OnLane(m, fr, ct, v)
  BY DEF Joins, OfKind, Orderly, Placed
<1>2. rest \in SUBSET ts /\ \A o \in ts \ rest : \A u \in ts : ~Inside(o, u)
  <2> SUFFICES ASSUME NEW o \in A, NEW u \in ts, Inside(o, u) PROVE FALSE
    OBVIOUS
  <2>1. m.kind[o.at] = "subprocess"
    BY <1>1, InsideIsSub
  <2> QED  BY <1>1, <2>1
<1>3. Orderly(m, rest, fr, ct)
  BY <1>2, OrderlyLess
<1>4. Springs(m, t.at, t.at) /\ m.kind[t.at] # "errorboundary"
  BY <1>1 DEF Springs
<1>5. \A o \in ts : Inside(o, t) => o \in rest
  BY <1>2
<1>6. Placed(m, w) /\ Chained(m, w) /\ OnLane(m, fr, ct, w) /\ HasOwners(rest, w)
  BY <1>4, <1>5, WayOn
<1>7. \A a \in A : a.lane = t.lane
  BY <1>1, ParallelLane
<1>8. ASSUME NEW v \in rest, v.scope = w.scope, v.lane = w.lane PROVE Separate(m, w, v)
  <2>1. \A a \in A : a.at = t.at /\ Separate(m, a, v)
    BY <1>7, <1>8 DEF Orderly
  <2>2. w.at = m.to[f] /\ w.via = f /\ v \notin A
    OBVIOUS
  <2> QED  BY <2>1, <2>2, SeparateGoesThrough
<1> HIDE DEF rest
<1>9. \A x \in {w} : /\ Placed(m, x) /\ Chained(m, x) /\ OnLane(m, fr, ct, x)
                     /\ HasOwners(rest \union {w}, x)
                     /\ \A v \in rest : v.scope = x.scope /\ v.lane = x.lane => Separate(m, x, v)
                     /\ \A v \in {w} : v # x /\ v.scope = x.scope /\ v.lane = x.lane
                                         => Separate(m, x, v)
  BY <1>6, <1>8 DEF HasOwners
<1>10. Orderly(m, rest \union {w}, fr, ct)
  BY <1>3, <1>9, OrderlyMore
<1> QED  BY <1>6, <1>8, <1>10 DEF rest

(* A split sends a token along each of its flows.                          *)
LEMMA SplitOrderly ==
    ASSUME NEW m, Sane(m), NEW ts, NEW fr, NEW ct, Orderly(m, ts, fr, ct), FiringsFit(m, fr, ct),
           NEW t \in ts, m.kind[t.at] = "parallel", t.at \notin Joins(m), NEW new,
           \A w \in new : \E f \in Out(m, t.at) :
                w = [at |-> m.to[f], via |-> f, wait |-> "moving", scope |-> t.scope, lane |-> t.lane]
    PROVE  /\ Orderly(m, (ts \ {t}) \union new, fr, ct)
           /\ \A w \in new : \A v \in ts \ {t} :
                v.scope = w.scope /\ v.lane = w.lane => Separate(m, w, v)
<1> DEFINE rest == ts \ {t}
<1>1. /\ t.at \in Nodes(m) /\ m.kind[t.at] \notin BoundaryEvt
      /\ \A v \in ts : v \in Token(m) /\ Chained(m, v)
  BY DEF Orderly, Placed, Token
<1>2. rest \in SUBSET ts /\ \A o \in ts \ rest : \A u \in ts : ~Inside(o, u)
  <2> SUFFICES ASSUME NEW u \in ts, Inside(t, u) PROVE FALSE
    OBVIOUS
  <2>1. m.kind[t.at] = "subprocess"
    BY <1>1, InsideIsSub
  <2> QED  BY <2>1
<1>3. Orderly(m, rest, fr, ct)
  BY <1>2, OrderlyLess
<1>4. Springs(m, t.at, t.at) /\ m.kind[t.at] # "errorboundary"
  BY DEF Springs
<1>5. \A o \in ts : Inside(o, t) => o \in rest
  BY <1>2
<1>6. ASSUME NEW w \in new
      PROVE  /\ Placed(m, w) /\ Chained(m, w) /\ OnLane(m, fr, ct, w) /\ HasOwners(rest, w)
             /\ \A v \in rest : v.scope = w.scope /\ v.lane = w.lane => Separate(m, w, v)
  <2>1. PICK f \in Out(m, t.at) :
            w = [at |-> m.to[f], via |-> f, wait |-> "moving", scope |-> t.scope, lane |-> t.lane]
    OBVIOUS
  <2>2. Placed(m, w) /\ Chained(m, w) /\ OnLane(m, fr, ct, w) /\ HasOwners(rest, w)
    <3>1. HasOwners(rest, w)
      BY <1>4, <1>5, <2>1, WayOn
    <3>2. OnLane(m, fr, ct, w)
      BY <1>4, <1>5, <2>1, <3>1, WayOn
    <3> QED  BY <1>4, <1>5, <2>1, <3>1, <3>2, WayOn
  <2>3. w.at = m.to[f] /\ w.via = f /\ w.scope = t.scope /\ w.lane = t.lane
    BY <2>1
  <2>4. ASSUME NEW v \in rest, v.scope = w.scope, v.lane = w.lane PROVE Separate(m, w, v)
    <3>1. Separate(m, t, v)
      BY <2>3, <2>4 DEF Orderly
    <3> QED  BY <1>1, <1>4, <2>3, <3>1, SeparateGoesOn
  <2> QED  BY <2>2, <2>4
<1>7. ASSUME NEW w \in new, NEW v \in new, v # w PROVE Separate(m, w, v)
  <2>1. PICK f \in Out(m, t.at) :
            w = [at |-> m.to[f], via |-> f, wait |-> "moving", scope |-> t.scope, lane |-> t.lane]
    OBVIOUS
  <2>2. PICK g \in Out(m, t.at) :
            v = [at |-> m.to[g], via |-> g, wait |-> "moving", scope |-> t.scope, lane |-> t.lane]
    OBVIOUS
  <2>3. f # g
    BY <1>7, <2>1, <2>2
  <2>4. t.at \in Splits(m)
    BY <1>1, <2>3 DEF Splits, OfKind, Several
  <2>5. PICK j : j \in MatchingJoins(m, t.at)
    BY <2>4, SplitsAreMatched
  <2>6. IsBlock(m, t.at, j)
    BY <2>4, <2>5 DEF IsBlock
  <2>7. w.at = m.to[f] /\ w.via = f /\ v.at = m.to[g] /\ v.via = g
    BY <2>1, <2>2
  <2>8. Within(m, w.at, w.via, t.at, j, f) /\ Within(m, v.at, v.via, t.at, j, g)
    BY <2>6, <2>7, WithinBegins
  <2> QED  BY <2>3, <2>6, <2>8 DEF Separate
<1> HIDE DEF rest
<1>8. \A x \in new : /\ Placed(m, x) /\ Chained(m, x) /\ OnLane(m, fr, ct, x)
                     /\ HasOwners(rest \union new, x)
                     /\ \A v \in rest : v.scope = x.scope /\ v.lane = x.lane => Separate(m, x, v)
                     /\ \A v \in new : v # x /\ v.scope = x.scope /\ v.lane = x.lane
                                         => Separate(m, x, v)
  BY <1>6, <1>7 DEF HasOwners
<1>9. Orderly(m, rest \union new, fr, ct)
  BY <1>3, <1>8, OrderlyMore
<1> QED  BY <1>6, <1>9 DEF rest

(* What a lane's tokens are at runs beside the host, and in bodies too.    *)
LEMMA NodeRunsBeside ==
    ASSUME NEW m, Sane(m), NEW fr, NEW ct, FiringsFit(m, fr, ct), NEW t \in Token(m),
           Chained(m, t), OnLane(m, fr, ct, t), t.lane > 0
    PROVE  /\ Begins(fr[t.lane].scope, t.scope)
           /\ Stand(fr[t.lane], t) \in Owned(m, fr[t.lane].boundary)
           /\ \/ t.at = Stand(fr[t.lane], t)
              \/ /\ m.kind[Stand(fr[t.lane], t)] = "subprocess"
                 /\ Len(fr[t.lane].scope) + 1 \in 1 .. Len(t.scope)
                 /\ Stand(fr[t.lane], t) = Level(t, Len(fr[t.lane].scope) + 1)
                 /\ t.at \in Body(m, Stand(fr[t.lane], t))
           /\ t.lane \notin ct => t.at \in RunsBeside(m, fr[t.lane].boundary)
<1>1. t.lane \in Nat /\ t.lane <= Len(fr) /\ t.scope \in Seq(Nodes(m) \X Nat) /\ Len(t.scope) \in Nat
  BY DEF Token, ScopePath, OnLane
<1>2. PICK k \in Nat : k = t.lane
  BY <1>1
<1>3. PICK r : r = fr[k]
  OBVIOUS
<1>4. r.boundary \in SideStarts(m) /\ Len(r.scope) \in Nat /\ r.boundary \in Nodes(m)
  <2>1. k > 0 /\ k <= Len(fr)
    BY <1>1, <1>2
  <2> QED  BY <1>3, <2>1, FiringsAre DEF SideStarts, OfKind
<1>5. /\ Begins(r.scope, t.scope) /\ Stand(r, t) \in Owned(m, r.boundary)
      /\ k \notin ct => Stand(r, t) \in RunsBeside(m, r.boundary)
  BY <1>2, <1>3 DEF OnLane
<1>6. \/ t.at = Stand(r, t)
      \/ /\ m.kind[Stand(r, t)] = "subprocess" /\ Len(r.scope) + 1 \in 1 .. Len(t.scope)
         /\ Stand(r, t) = Level(t, Len(r.scope) + 1) /\ t.at \in Body(m, Stand(r, t))
  <2>1. CASE Len(t.scope) = Len(r.scope)
    BY <2>1 DEF Stand
  <2>2. CASE Len(t.scope) # Len(r.scope)
    <3>1. Len(r.scope) + 1 \in 1 .. Len(t.scope)
      BY <1>1, <1>4, <1>5, <2>2 DEF Begins
    <3>2. /\ Level(t, Len(r.scope) + 1) = Stand(r, t)
          /\ m.kind[Level(t, Len(r.scope) + 1)] = "subprocess"
          /\ Level(t, Len(t.scope) + 1) = t.at
      BY <2>2, <3>1, LevelsAre DEF Stand
    <3>3. Len(t.scope) + 1 \in 1 .. Len(t.scope) + 1 /\ Len(r.scope) + 1 < Len(t.scope) + 1
      BY <1>1, <3>1
    <3>4. Level(t, Len(t.scope) + 1) \in Body(m, Level(t, Len(r.scope) + 1))
      BY <3>1, <3>3, LevelsNest
    <3> QED  BY <3>1, <3>2, <3>4
  <2> QED  BY <2>1, <2>2
<1>7. k \notin ct => t.at \in RunsBeside(m, r.boundary)
  <2> SUFFICES ASSUME k \notin ct PROVE t.at \in RunsBeside(m, r.boundary)
    OBVIOUS
  <2>1. Stand(r, t) \in RunsBeside(m, r.boundary)
    BY <1>5
  <2>2. Body(m, Stand(r, t)) \subseteq RunsBeside(m, r.boundary)
    BY <1>4, <2>1, RunsBesideOfSane
  <2> QED  BY <1>6, <2>1, <2>2
<1> QED  BY <1>2, <1>3, <1>5, <1>6, <1>7

(* A non-interrupting boundary fires: a lane of its own begins.            *)
LEMMA SideOrderly ==
    ASSUME NEW m, Sane(m), NEW ts, NEW fr, NEW ct, Orderly(m, ts, fr, ct), FiringsFit(m, fr, ct),
           NEW t \in ts, NEW b \in SideStarts(m), b \in ArmedOn(m, t.at), NEW f \in Out(m, b),
           NEW fr2, fr2 = Append(fr, [boundary |-> b, scope |-> t.scope, lane |-> t.lane]), NEW w,
           w = [at |-> m.to[f], via |-> f, wait |-> "moving", scope |-> t.scope, lane |-> Len(fr) + 1]
    PROVE  /\ Orderly(m, ts \union {w}, fr2, ct) /\ FiringsFit(m, fr2, ct) /\ Placed(m, w)
           /\ \A v \in ts : v.lane # w.lane
<1> DEFINE k == Len(fr) + 1
           r == [boundary |-> b, scope |-> t.scope, lane |-> t.lane]
<1>1. /\ Placed(m, t) /\ Chained(m, t) /\ OnLane(m, fr, ct, t) /\ HasOwners(ts, t)
      /\ t \in Token(m) /\ t.at \in Nodes(m) /\ t.scope \in ScopePath(m) /\ t.lane \in Nat
      /\ Len(t.scope) \in Nat /\ t.lane <= Len(fr)
      /\ \A v \in ts : v \in Token(m) /\ OnLane(m, fr, ct, v)
  <2>1. /\ Placed(m, t) /\ Chained(m, t) /\ OnLane(m, fr, ct, t) /\ HasOwners(ts, t)
        /\ t \in Token(m) /\ \A v \in ts : v \in Token(m) /\ OnLane(m, fr, ct, v)
    BY DEF Orderly, Placed
  <2>2. /\ t.at \in Nodes(m) /\ t.scope \in ScopePath(m) /\ t.lane \in Nat
        /\ Len(t.scope) \in Nat
    BY <2>1 DEF Token, ScopePath
  <2> QED  BY <2>1, <2>2 DEF OnLane
<1>2. /\ b \in DOMAIN m.host /\ m.host[b] = t.at /\ b \in Nodes(m) /\ m.scope[b] = m.scope[t.at]
      /\ m.kind[b] # "event"
  BY GraphOfSane DEF ArmedOn, BoundariesOn, BoundaryEvt
<1>3. fr \in Seq(Firing(m)) /\ r \in Firing(m) /\ Len(fr) \in Nat
  BY <1>1, <1>2 DEF FiringsFit, Firing
<1>4. /\ fr2 \in Seq(Firing(m)) /\ Len(fr2) = k /\ fr2[k] = r /\ k \in Nat /\ k > 0
      /\ \A i \in 1 .. Len(fr) : fr2[i] = fr[i]
  BY <1>3
<1>5. r.boundary = b /\ r.scope = t.scope /\ r.lane = t.lane
  OBVIOUS
<1>6. ASSUME NEW v \in ts PROVE OnLane(m, fr2, ct, v) /\ v.lane # k
  <2>1. v.lane \in Nat /\ OnLane(m, fr, ct, v)
    BY <1>1 DEF Token
  <2>2. v.lane <= Len(fr)
    BY <2>1 DEF OnLane
  <2>3. v.lane # k /\ v.lane <= k /\ (v.lane > 0 => v.lane \in 1 .. Len(fr))
    BY <1>3, <2>1, <2>2
  <2>4. v.lane > 0 => fr2[v.lane] = fr[v.lane]
    BY <1>4, <2>3
  <2> QED  BY <1>4, <2>1, <2>3, <2>4 DEF OnLane
<1>7. Orderly(m, ts, fr2, ct)
  BY <1>6 DEF Orderly
<1>8. Placed(m, w) /\ m.scope[w.at] = m.scope[b]
  BY <1>1, <1>2, <1>4, GoesToPlace
<1>9. w.at = m.to[f] /\ w.scope = t.scope /\ w.lane = k
  OBVIOUS
<1>10. Chained(m, w) /\ HasOwners(ts, w)
  BY <1>1, <1>2, <1>8, <1>9, SameChain, SameOwners
<1> HIDE DEF r
<1>11. OnLane(m, fr2, ct, w)
  <2>1. Begins(t.scope, t.scope) /\ \A i \in 1 .. Len(t.scope) : ~(i > Len(t.scope))
    BY <1>1 DEF Begins
  <2>2. Stand(r, w) = m.to[f]
    BY <1>5, <1>9 DEF Stand
  <2>3. m.to[f] \in Owned(m, b) /\ m.to[f] \in RunsBeside(m, b)
    BY <1>2, OwnedBegins, RunsBesideOfSane
  <2>4. w.lane <= Len(fr2) /\ w.lane # 0 /\ fr2[w.lane] = r
    BY <1>3, <1>4, <1>9
  <2> QED  BY <1>5, <1>9, <2>1, <2>2, <2>3, <2>4 DEF OnLane
<1>12. \A x \in {w} : /\ Placed(m, x) /\ Chained(m, x) /\ OnLane(m, fr2, ct, x)
                      /\ HasOwners(ts \union {w}, x)
                      /\ \A v \in ts : v.scope = x.scope /\ v.lane = x.lane => Separate(m, x, v)
                      /\ \A v \in {w} : v # x /\ v.scope = x.scope /\ v.lane = x.lane
                                          => Separate(m, x, v)
  BY <1>6, <1>8, <1>9, <1>10, <1>11 DEF HasOwners
<1>13. Orderly(m, ts \union {w}, fr2, ct)
  BY <1>7, <1>12, OrderlyMore
<1>14. FiringsFit(m, fr2, ct)
  <2> SUFFICES ASSUME NEW i \in 1 .. Len(fr2)
               PROVE  /\ fr2[i].boundary \in SideStarts(m) /\ fr2[i].lane < i
                      /\ fr2[i].lane > 0 /\ fr2[i].lane \notin ct
                          => fr2[i].boundary \in RunsBeside(m, fr2[fr2[i].lane].boundary)
    BY <1>4 DEF FiringsFit
  <2>1. CASE i \in 1 .. Len(fr)
    <3>1. /\ fr2[i] = fr[i] /\ fr[i].boundary \in SideStarts(m) /\ fr[i].lane < i
          /\ fr[i].lane > 0 /\ fr[i].lane \notin ct
                => fr[i].boundary \in RunsBeside(m, fr[fr[i].lane].boundary)
      BY <1>4, <2>1 DEF FiringsFit
    <3>2. fr[i].lane \in Nat
      <4>1. fr[i] \in Firing(m)
        BY <1>3, <2>1
      <4> QED  BY <4>1 DEF Firing
    <3>3. fr[i].lane > 0 => fr[i].lane \in 1 .. Len(fr)
      BY <1>3, <2>1, <3>1, <3>2
    <3>4. fr[i].lane > 0 => fr2[fr[i].lane] = fr[fr[i].lane]
      BY <1>4, <3>3
    <3> QED  BY <3>1, <3>4
  <2>2. CASE i = k
    <3>1. fr2[i].boundary = b /\ fr2[i].lane = t.lane /\ t.lane < i
      BY <1>1, <1>3, <1>4, <1>5, <2>2
    <3>2. ASSUME t.lane > 0, t.lane \notin ct PROVE b \in RunsBeside(m, fr2[t.lane].boundary)
      <4>1. t.at \in RunsBeside(m, fr[t.lane].boundary)
        BY <1>1, <3>2, NodeRunsBeside
      <4>2. t.lane \in 1 .. Len(fr)
        BY <1>1, <1>3, <3>2
      <4>3. fr2[t.lane] = fr[t.lane] /\ fr[t.lane].boundary \in Nodes(m)
        BY <1>4, <4>2 DEF FiringsFit, SideStarts, OfKind
      <4> QED  BY <4>1, <4>3, RunsBesideOfSane
    <3> QED  BY <3>1, <3>2
  <2>3. i \in 1 .. Len(fr) \/ i = k
    BY <1>3, <1>4
  <2> QED  BY <2>1, <2>2, <2>3
<1> QED  BY <1>6, <1>8, <1>9, <1>13, <1>14

-----------------------------------------------------------------------------
(* The instance.                                                           *)

Good == Orderly(M, tokens, fired, caught) /\ FiringsFit(M, fired, caught)

LEMMA AcceptedIsSane ==
    ASSUME IsParsed(M), Accepts(M, W, Covered)
    PROVE  /\ Sane(M) /\ AreDecided(M, W) /\ AreCorrelated(M, W) /\ NoAmbiguousArms(M, W)
           /\ ServiceTopics(M, W) \subseteq Covered
<1>1. PassesGate(M, W) /\ Compiles(M, W)
  BY DEF Accepts, Check
<1>2. LintsClean(M) /\ IsExecutable(M)
  BY <1>1 DEF PassesGate, Compiles
<1>3. AreDecided(M, W) /\ AreCorrelated(M, W) /\ NoAmbiguousArms(M, W)
  BY <1>1 DEF Compiles
<1>4. ServiceTopics(M, W) \subseteq Covered
  BY <1>1 DEF Accepts, Check
<1> QED  BY <1>2, <1>3, <1>4 DEF Sane

LEMMA AcceptedIsWired ==
    ASSUME IsParsed(M), Accepts(M, W, Covered), NEW n \in Nodes(M)
    PROVE  IsWired(n)
<1>1. AreCorrelated(M, W) /\ ServiceTopics(M, W) \subseteq Covered
  BY AcceptedIsSane
<1>2. M.kind[n] = "service" => Topic(W, n) \in Covered
  BY <1>1 DEF ServiceTopics, OfKind
<1> QED  BY <1>1, <1>2 DEF IsWired, AreCorrelated

LEMMA GoesRuns ==
    ASSUME Sane(M), NEW ts, NEW new, Goes(ts, new),
           \A w \in new : \A v \in ts : v.scope = w.scope /\ v.lane = w.lane => Separate(M, w, v)
    PROVE  tokens' = ts \union new /\ status' \in {"running", "completed"}
<1>1. ASSUME NEW w \in new PROVE ~Doubles(ts, w)
  <2> SUFFICES ASSUME NEW v \in ts, v.at = w.at, v.scope = w.scope, v.lane = w.lane,
                      M.kind[w.at] # "parallel"
               PROVE  FALSE
    BY DEF Doubles
  <2>1. Separate(M, w, v)
    OBVIOUS
  <2>2. w.at \in Joins(M)
    BY <2>1, SeparateDiffer
  <2> QED  BY <2>2 DEF Joins, OfKind
<1> QED  BY <1>1 DEF Goes

LEMMA LeavesBy ==
    ASSUME NEW ts, NEW t, NEW n, Single(Out(M, n)), LeavesFrom(ts, t, n)
    PROVE  \E f \in Out(M, n) : Goes(ts, {Along(f, t.scope, t.lane)})
<1>1. PICK f \in Out(M, n) : Out(M, n) = {f}
  BY DEF Single
<1>2. {Along(g, t.scope, t.lane) : g \in Out(M, n)} = {Along(f, t.scope, t.lane)}
  BY <1>1
<1> QED  BY <1>2 DEF LeavesFrom

LEMMA LeavesSoundly ==
    ASSUME Sane(M), Good, NEW t \in tokens, t.at \notin Joins(M), NEW n, Springs(M, t.at, n),
           NEW ct2, caught \subseteq ct2,
           M.kind[n] = "errorboundary" /\ t.lane > 0 /\ t.scope = fired[t.lane].scope
                => t.lane \in ct2,
           NEW ts2 \in SUBSET tokens, t \notin ts2,
           \A o \in tokens \ ts2 : ~Inside(o, t) /\ \A u \in ts2 : ~Inside(o, u),
           NEW f \in Out(M, n), Goes(ts2, {Along(f, t.scope, t.lane)})
    PROVE  Orderly(M, tokens', fired, ct2) /\ status' \in {"running", "completed"}
<1>1. PICK w : w = Along(f, t.scope, t.lane)
  OBVIOUS
<1>2. w = [at |-> M.to[f], via |-> f, wait |-> "moving", scope |-> t.scope, lane |-> t.lane]
  BY <1>1 DEF Along, Moving
<1>3. /\ Orderly(M, ts2 \union {w}, fired, ct2)
      /\ \A v \in ts2 : v.scope = w.scope /\ v.lane = w.lane => Separate(M, w, v)
  <2>1. Orderly(M, tokens, fired, caught) /\ FiringsFit(M, fired, caught)
    BY DEF Good
  <2>2. Orderly(M, ts2 \union {w}, fired, ct2)
    BY <1>2, <2>1, LeavesOrderly
  <2>3. \A v \in ts2 : v.scope = w.scope /\ v.lane = w.lane => Separate(M, w, v)
    BY <1>2, <2>1, <2>2, LeavesOrderly
  <2> QED  BY <2>2, <2>3
<1>4. Goes(ts2, {w})
  BY <1>1
<1>5. tokens' = ts2 \union {w} /\ status' \in {"running", "completed"}
  BY <1>3, <1>4, GoesRuns
<1> QED  BY <1>3, <1>5

(* The token moved away, and what was inside it, if anything, with it.     *)
LEMMA NothingInside ==
    ASSUME Sane(M), Good, NEW t \in tokens, M.kind[t.at] # "subprocess" \/ t.wait # "waiting",
           NEW u \in tokens
    PROVE  ~Inside(t, u)
<1> SUFFICES ASSUME Inside(t, u) PROVE FALSE
  OBVIOUS
<1>1. t.wait = "waiting"
  BY OwnersWait DEF Good
<1>2. M.kind[t.at] = "subprocess"
  BY InsideIsSub DEF Good, Orderly, Placed
<1> QED  BY <1>1, <1>2

LEMMA WithoutIsClosed ==
    ASSUME Sane(M), Good, NEW t \in tokens
    PROVE  /\ Without(tokens, t) \in SUBSET tokens /\ t \notin Without(tokens, t)
           /\ \A o \in tokens \ Without(tokens, t) :
                ~Inside(o, t) /\ \A u \in Without(tokens, t) : ~Inside(o, u)
<1>1. \A v \in tokens : v \in Token(M)
  BY DEF Good, Orderly, Placed
<1>2. ASSUME NEW o \in tokens \ Without(tokens, t)
      PROVE  ~Inside(o, t) /\ \A u \in Without(tokens, t) : ~Inside(o, u)
  <2>1. o = t \/ Inside(t, o)
    BY DEF Without
  <2>2. ~Inside(t, t)
    BY <1>1, NotInsideItself
  <2>3. ~Inside(o, t)
    BY <1>1, <2>1, <2>2, InsideIsTransitive
  <2>4. ASSUME NEW u \in Without(tokens, t), Inside(o, u) PROVE FALSE
    <3>1. u \in tokens /\ ~Inside(t, u)
      BY DEF Without
    <3> QED  BY <1>1, <2>1, <2>4, <3>1, InsideIsTransitive
  <2> QED  BY <2>3, <2>4
<1> QED  BY <1>2 DEF Without

(* The owner of the scope of a token.                                      *)
LEMMA OwnerIs ==
    ASSUME Sane(M), Good, NEW t \in tokens, t.scope # << >>, NEW o, o = Owner(t.scope)
    PROVE  /\ o \in tokens /\ o.wait = "waiting" /\ M.kind[o.at] = "subprocess"
           /\ \A u \in tokens : Inside(o, u) <=> IsPrefix(t.scope, u.scope)
           /\ Len(o.scope) < Len(t.scope)
<1>1. /\ \A v \in tokens : v \in Token(M) /\ Chained(M, v)
      /\ HasOwners(tokens, t) /\ t.scope \in Seq(Nodes(M) \X Nat)
  BY DEF Good, Orderly, Placed, Token, ScopePath
<1>2. Len(t.scope) \in 1 .. Len(t.scope) /\ Len(t.scope) \in Nat
  BY <1>1
<1>3. PICK p \in tokens : p.wait = "waiting" /\ Len(p.scope) = Len(t.scope) - 1 /\ Inside(p, t)
  BY <1>1, <1>2 DEF HasOwners
<1>4. Append(p.scope, <<p.at, p.lane>>) = t.scope
  <2>1. p.scope \in Seq(Nodes(M) \X Nat) /\ <<p.at, p.lane>> \in Nodes(M) \X Nat
    BY <1>1 DEF Token, ScopePath
  <2> DEFINE a == Append(p.scope, <<p.at, p.lane>>)
  <2>2. a \in Seq(Nodes(M) \X Nat) /\ Len(a) = Len(t.scope)
    BY <1>2, <1>3, <2>1
  <2>3. IsPrefix(a, t.scope)
    BY <1>3 DEF Inside
  <2> HIDE DEF a
  <2>4. Begins(a, t.scope)
    BY <1>1, <2>2, <2>3, PrefixBegins
  <2>5. a = t.scope
    BY <1>1, <2>2, <2>4, SameBeginning
  <2> QED  BY <2>5 DEF a
<1>5. o \in tokens /\ o.wait = "waiting" /\ Append(o.scope, <<o.at, o.lane>>) = t.scope
  BY <1>3, <1>4 DEF Owner
<1>6. \A u \in tokens : Inside(o, u) <=> IsPrefix(t.scope, u.scope)
  BY <1>5 DEF Inside
<1>7. Begins(t.scope, t.scope)
  BY <1>2 DEF Begins
<1>8. Inside(o, t)
  BY <1>1, <1>6, <1>7, PrefixBegins
<1>9. M.kind[o.at] = "subprocess"
  BY <1>1, <1>5, <1>8, InsideIsSub
<1>10. Len(o.scope) < Len(t.scope)
  BY <1>1, <1>5, <1>8, InsideIs
<1> QED  BY <1>5, <1>6, <1>9, <1>10

LEMMA ConsumesSoundly ==
    ASSUME Sane(M), Good, NEW t \in tokens, NEW ts2 \in SUBSET tokens,
           \A o \in tokens \ ts2 : /\ IsPrefix(t.scope, o.scope)
                                   /\ \A u \in ts2 : ~Inside(o, u),
           Consumed(ts2, t.scope)
    PROVE  Orderly(M, tokens', fired, caught) /\ status' \in {"running", "completed"}
<1>1. CASE t.scope = << >> \/ InScope(ts2, t.scope) # {}
  <2>1. Goes(ts2, {})
    BY <1>1 DEF Consumed
  <2>2. tokens' = ts2 \union {} /\ status' \in {"running", "completed"}
    BY <2>1, GoesRuns
  <2>3. tokens' = ts2
    BY <2>2
  <2>4. Orderly(M, ts2, fired, caught)
    BY OrderlyLess DEF Good
  <2> QED  BY <2>2, <2>3, <2>4
<1>2. CASE t.scope # << >> /\ InScope(ts2, t.scope) = {}
  <2>1. PICK o : o = Owner(t.scope)
    OBVIOUS
  <2>2. LeavesFrom(ts2 \ {o}, o, o.at)
    BY <1>2, <2>1 DEF Consumed
  <2>3. /\ o \in tokens /\ o.wait = "waiting" /\ M.kind[o.at] = "subprocess"
        /\ \A u \in tokens : Inside(o, u) <=> IsPrefix(t.scope, u.scope)
        /\ Len(o.scope) < Len(t.scope)
    BY <1>2, <2>1, OwnerIs
  <2>4. \A v \in tokens : v \in Token(M) /\ v.scope \in Seq(Nodes(M) \X Nat) /\ v.at \in Nodes(M)
    BY DEF Good, Orderly, Placed, Token, ScopePath
  <2>5. ~IsPrefix(t.scope, o.scope)
    <3> SUFFICES ASSUME IsPrefix(t.scope, o.scope) PROVE FALSE
      OBVIOUS
    <3>1. Begins(t.scope, o.scope)
      BY <2>3, <2>4, PrefixBegins
    <3>2. Len(t.scope) \in Nat /\ Len(o.scope) \in Nat
      BY <2>3, <2>4
    <3> QED  BY <2>3, <3>1, <3>2 DEF Begins
  <2>6. o \in ts2
    BY <2>3, <2>5
  <2> DEFINE rest == ts2 \ {o}
  <2>7. \A x \in tokens \ rest : ~Inside(x, o) /\ \A u \in rest : ~Inside(x, u)
    <3>1. ~Inside(o, o)
      BY <2>3, <2>4, NotInsideItself
    <3>2. \A u \in rest : ~Inside(o, u)
      BY <1>2, <2>3 DEF InScope
    <3> QED  BY <2>6, <3>1, <3>2
  <2>8. rest \in SUBSET tokens /\ o \notin rest
    OBVIOUS
  <2> HIDE DEF rest
  <2>9. Single(Out(M, o.at))
    BY <2>3, <2>4, DegreesOfSane DEF SupportedHost
  <2>10. PICK f \in Out(M, o.at) : Goes(rest, {Along(f, o.scope, o.lane)})
    BY <2>2, <2>9, LeavesBy DEF rest
  <2>11. Springs(M, o.at, o.at) /\ o.at \notin Joins(M) /\ M.kind[o.at] # "errorboundary"
    BY <2>3 DEF Springs, Joins, OfKind
  <2> QED  BY <2>3, <2>7, <2>8, <2>10, <2>11, LeavesSoundly
<1> QED  BY <1>1, <1>2

-----------------------------------------------------------------------------
(* The steps of an instance.                                               *)

LEMMA StandingOf ==
    ASSUME Sane(M), Good, NEW t \in tokens
    PROVE  /\ Placed(M, t) /\ t \in Token(M) /\ t.at \in Nodes(M) /\ M.kind[t.at] \notin BoundaryEvt
           /\ Chained(M, t) /\ OnLane(M, fired, caught, t)
           /\ M.kind[t.at] \in SupportedElement \ {"messagestart", "messageend", "throw"}
           /\ t.scope \in ScopePath(M) /\ t.lane \in Nat
<1>1. /\ Placed(M, t) /\ t \in Token(M) /\ t.at \in Nodes(M) /\ M.kind[t.at] \notin BoundaryEvt
      /\ Chained(M, t) /\ OnLane(M, fired, caught, t)
  BY DEF Good, Orderly, Placed, Token
<1>2. t.scope \in ScopePath(M) /\ t.lane \in Nat
  BY <1>1 DEF Token
<1> QED  BY <1>1, <1>2, GraphOfSane

(* A token that stays moves on from a node with one way on.                *)
LEMMA MovesOn ==
    ASSUME Sane(M), Good, NEW t \in tokens, M.kind[t.at] \notin {"subprocess", "parallel"},
           NEW n, Springs(M, t.at, n), M.kind[n] # "errorboundary",
           NEW f \in Out(M, n), Goes(tokens \ {t}, {Along(f, t.scope, t.lane)})
    PROVE  Orderly(M, tokens', fired, caught) /\ status' \in {"running", "completed"}
<1> DEFINE rest == tokens \ {t}
<1>1. \A o \in tokens \ rest : ~Inside(o, t) /\ \A u \in rest : ~Inside(o, u)
  BY NothingInside
<1>2. rest \in SUBSET tokens /\ t \notin rest /\ t.at \notin Joins(M)
  BY DEF Joins, OfKind
<1>3. Goes(rest, {Along(f, t.scope, t.lane)})
  OBVIOUS
<1> HIDE DEF rest
<1> QED  BY <1>1, <1>2, <1>3, LeavesSoundly

LEMMA MovesOnward ==
    ASSUME Sane(M), Good, NEW t \in tokens, M.kind[t.at] \notin {"subprocess", "parallel"},
           NEW n, Springs(M, t.at, n), M.kind[n] # "errorboundary",
           Single(Out(M, n)), LeavesFrom(tokens \ {t}, t, n)
    PROVE  Orderly(M, tokens', fired, caught) /\ status' \in {"running", "completed"}
<1>1. PICK f \in Out(M, n) : Goes(tokens \ {t}, {Along(f, t.scope, t.lane)})
  BY LeavesBy
<1> QED  BY <1>1, MovesOn

LEMMA WaitsSoundly ==
    ASSUME Sane(M), Good, NEW t \in tokens, t.wait = "moving", M.kind[t.at] # "parallel",
           NEW w, w = [t EXCEPT !.wait = "waiting", !.via = NoFlow]
    PROVE  /\ Orderly(M, (tokens \ {t}) \union {w}, fired, caught)
           /\ \A v \in (tokens \ {t}) \union {w} : ~Inside(w, v)
           /\ w.at = t.at /\ w.scope = t.scope /\ w.lane = t.lane /\ w.wait = "waiting"
<1>1. Placed(M, t) /\ t \in Token(M)
  BY StandingOf
<1>2. /\ w.at = t.at /\ w.scope = t.scope /\ w.lane = t.lane /\ w.wait = "waiting" /\ w.via = NoFlow
      /\ w \in Token(M)
  BY <1>1 DEF Token
<1>3. Placed(M, w)
  BY <1>1, <1>2 DEF Placed
<1>4. t.at \notin Joins(M) /\ t.wait # "waiting"
  BY DEF Joins, OfKind
<1>5. Orderly(M, tokens, fired, caught)
  BY DEF Good
<1>6. Orderly(M, (tokens \ {t}) \union {w}, fired, caught)
  BY <1>2, <1>3, <1>4, <1>5, RestsOrderly
<1>7. \A v \in (tokens \ {t}) \union {w} : ~Inside(w, v)
  BY <1>2, <1>3, <1>4, <1>5, <1>6, RestsOrderly
<1> QED  BY <1>2, <1>6, <1>7

LEMMA WaitGoes ==
    ASSUME Sane(M), Good, NEW t \in tokens, t.wait = "moving", M.kind[t.at] # "parallel", Waits(t)
    PROVE  Orderly(M, tokens', fired, caught) /\ status' \in {"running", "completed"}
<1>1. PICK w : w = [t EXCEPT !.wait = "waiting", !.via = NoFlow]
  OBVIOUS
<1>2. Goes((tokens \ {t}) \union {w}, {})
  BY <1>1 DEF Waits
<1>3. tokens' = ((tokens \ {t}) \union {w}) \union {} /\ status' \in {"running", "completed"}
  BY <1>2, GoesRuns
<1>4. Orderly(M, (tokens \ {t}) \union {w}, fired, caught)
  BY <1>1, WaitsSoundly
<1> QED  BY <1>3, <1>4

LEMMA EntersSubProcess ==
    ASSUME IsParsed(M), Accepts(M, W, Covered), Good, NEW t \in tokens, t.wait = "moving",
           EnterSubProcess(t)
    PROVE  Orderly(M, tokens', fired, caught) /\ status' \in {"running", "completed"}
<1>0. Sane(M)
  BY AcceptedIsSane
<1>1. t.at \in Nodes(M) /\ M.kind[t.at] = "subprocess" /\ IsWired(t.at) /\ t \in Token(M)
  BY <1>0, StandingOf, AcceptedIsWired DEF EnterSubProcess
<1>2. PICK w : w = [t EXCEPT !.wait = "waiting", !.via = NoFlow]
  OBVIOUS
<1> DEFINE ts    == (tokens \ {t}) \union {w}
           path  == Append(t.scope, <<t.at, t.lane>>)
           heads == {s \in OfKind(M, {"start"}) : M.scope[s] = t.at}
<1>3. Goes(ts, {Moving(s, NoFlow, path, t.lane) : s \in heads})
  BY <1>1, <1>2 DEF EnterSubProcess
<1>4. /\ Orderly(M, ts, fired, caught) /\ \A v \in ts : ~Inside(w, v)
      /\ w.at = t.at /\ w.scope = t.scope /\ w.lane = t.lane /\ w.wait = "waiting"
  BY <1>0, <1>1, <1>2, WaitsSoundly
<1>5. PICK s \in Nodes(M) : M.kind[s] = "start" /\ M.scope[s] = t.at /\ heads = {s}
  <2>1. t.at \in Scopes(M)
    BY <1>1 DEF Scopes, OfKind
  <2>2. Single(OfKind(M, Starting) \intersect ScopeNodes(M, t.at))
    BY <1>0, <2>1 DEF Sane, LintsClean, OneStart
  <2>3. heads = OfKind(M, Starting) \intersect ScopeNodes(M, t.at)
    <3>1. \A n \in Nodes(M) : M.kind[n] \in Starting <=> M.kind[n] = "start"
      BY <1>0, GraphOfSane DEF Starting
    <3> QED  BY <3>1 DEF OfKind, ScopeNodes
  <2>4. \A n \in heads : n \in Nodes(M) /\ M.kind[n] = "start" /\ M.scope[n] = t.at
    BY DEF OfKind
  <2> QED  BY <2>2, <2>3, <2>4 DEF Single
<1>6. PICK x : x = Moving(s, NoFlow, path, t.lane)
  OBVIOUS
<1>7. Goes(ts, {x})
  BY <1>3, <1>5, <1>6
<1>8. /\ x.at = s /\ x.via = NoFlow /\ x.wait = "moving" /\ x.lane = t.lane /\ x.scope = path
      /\ x \in Token(M)
  <2>1. path \in ScopePath(M)
    <3>1. <<t.at, t.lane>> \in Nodes(M) \X Nat /\ t.scope \in Seq(Nodes(M) \X Nat)
      BY <1>1 DEF Token, ScopePath
    <3> QED  BY <3>1 DEF ScopePath
  <2>2. t.lane \in Nat
    BY <1>1 DEF Token
  <2> HIDE DEF path
  <2> QED  BY <1>6, <2>1, <2>2 DEF Moving, Token
<1>9. w \in ts /\ M.kind[w.at] = "subprocess" /\ M.scope[s] = w.at /\ x.lane = w.lane
      /\ x.scope = Append(w.scope, <<w.at, w.lane>>)
  BY <1>1, <1>4, <1>5, <1>8
<1>10. FiringsFit(M, fired, caught)
  BY DEF Good
<1> HIDE DEF ts, path, heads
<1>11. Orderly(M, ts \union {x}, fired, caught)
  BY <1>0, <1>4, <1>5, <1>8, <1>9, <1>10, BodyOrderly
<1>12. \A v \in ts : v.scope # x.scope
  BY <1>0, <1>4, <1>5, <1>8, <1>9, <1>10, <1>11, BodyOrderly
<1>13. tokens' = ts \union {x} /\ status' \in {"running", "completed"}
  BY <1>0, <1>7, <1>12, GoesRuns
<1> QED  BY <1>11, <1>13

LEMMA EntersParallel ==
    ASSUME Sane(M), Good, NEW t \in tokens, EnterParallel(t)
    PROVE  Orderly(M, tokens', fired, caught) /\ status' \in {"running", "completed"}
<1> DEFINE new == {Along(f, t.scope, t.lane) : f \in Out(M, t.at)}
<1>1. M.kind[t.at] = "parallel" /\ Single(In(M, t.at)) /\ Goes(tokens \ {t}, new)
  BY DEF EnterParallel
<1>2. t.at \notin Joins(M)
  BY <1>1 DEF Joins, Several, Single
<1>3. \A w \in new : \E f \in Out(M, t.at) :
        w = [at |-> M.to[f], via |-> f, wait |-> "moving", scope |-> t.scope, lane |-> t.lane]
  BY DEF Along, Moving
<1> HIDE DEF new
<1>4. Orderly(M, tokens, fired, caught) /\ FiringsFit(M, fired, caught)
  BY DEF Good
<1>5. Orderly(M, (tokens \ {t}) \union new, fired, caught)
  BY <1>1, <1>2, <1>3, <1>4, SplitOrderly
<1>6. \A w \in new : \A v \in tokens \ {t} :
        v.scope = w.scope /\ v.lane = w.lane => Separate(M, w, v)
  BY <1>1, <1>2, <1>3, <1>4, <1>5, SplitOrderly
<1>7. tokens' = (tokens \ {t}) \union new /\ status' \in {"running", "completed"}
  BY <1>1, <1>6, GoesRuns
<1> QED  BY <1>5, <1>7

LEMMA EntersJoin ==
    ASSUME Sane(M), Good, NEW t \in tokens, t.wait = "moving", EnterJoin(t)
    PROVE  Orderly(M, tokens', fired, caught) /\ status' \in {"running", "completed"}
<1>1. /\ t.at \in Joins(M) /\ t.at \in Nodes(M) /\ M.kind[t.at] = "parallel"
      /\ Several(In(M, t.at)) /\ Placed(M, t) /\ t \in Token(M)
  BY StandingOf DEF EnterJoin, Joins, OfKind
<1>2. Orderly(M, tokens, fired, caught) /\ FiringsFit(M, fired, caught)
  BY DEF Good
<1>3. ASSUME NEW u \in Arrived(t) PROVE u \in tokens /\ u.lane = t.lane /\ u # t /\ u.via # t.via
  <2>1. u \in tokens /\ u.at = t.at /\ u.scope = t.scope /\ u.wait = "join"
    BY DEF Arrived
  <2>2. u.lane = LaneOf(u.scope)
    <3>1. u \in Token(M) /\ OnLane(M, fired, caught, u) /\ M.kind[u.at] = "parallel"
      BY <1>1, <2>1, StandingOf
    <3> QED  BY <1>2, <3>1, ParallelLane
  <2>3. t.lane = LaneOf(t.scope)
    <3>1. OnLane(M, fired, caught, t)
      BY StandingOf
    <3> QED  BY <1>1, <1>2, <3>1, ParallelLane
  <2>4. u.lane = t.lane
    BY <2>1, <2>2, <2>3
  <2>5. u.via # t.via
    BY <1>2, <2>1, <2>4, OrderlyApart
  <2> QED  BY <2>1, <2>4, <2>5
<1>4. CASE {u.via : u \in Arrived(t)} \union {t.via} = In(M, t.at)
  <2> DEFINE A == Arrived(t) \union {t}
  <2>1. LeavesFrom(tokens \ A, t, t.at)
    BY <1>3, <1>4 DEF EnterJoin
  <2>2. A \in SUBSET tokens /\ t \in A /\ \A a \in A : a.at = t.at /\ a.scope = t.scope
    BY DEF Arrived
  <2>3. \A h \in In(M, t.at) : \E a \in A : a.via = h
    <3> SUFFICES ASSUME NEW h \in In(M, t.at) PROVE \E a \in A : a.via = h
      OBVIOUS
    <3>1. h \in {u.via : u \in Arrived(t)} \/ h = t.via
      BY <1>4
    <3> QED  BY <3>1
  <2> HIDE DEF A
  <2>4. Single(Out(M, t.at))
    <3>1. Out(M, t.at) # {} /\ ~Several(Out(M, t.at))
      BY <1>1, DegreesOfSane DEF Gateway
    <3> QED  BY <3>1 DEF Single, Several
  <2>5. PICK f \in Out(M, t.at) : Goes(tokens \ A, {Along(f, t.scope, t.lane)})
    BY <2>1, <2>4, LeavesBy
  <2>6. PICK w : w = Along(f, t.scope, t.lane)
    OBVIOUS
  <2>7. w = [at |-> M.to[f], via |-> f, wait |-> "moving", scope |-> t.scope, lane |-> t.lane]
    BY <2>6 DEF Along, Moving
  <2>8. Orderly(M, (tokens \ A) \union {w}, fired, caught)
    BY <1>1, <1>2, <2>2, <2>3, <2>7, MergeOrderly
  <2>9. \A v \in tokens \ A : v.scope = w.scope /\ v.lane = w.lane => Separate(M, w, v)
    BY <1>1, <1>2, <2>2, <2>3, <2>7, <2>8, MergeOrderly
  <2>10. Goes(tokens \ A, {w})
    BY <2>5, <2>6
  <2>11. tokens' = (tokens \ A) \union {w} /\ status' \in {"running", "completed"}
    BY <2>9, <2>10, GoesRuns
  <2> QED  BY <2>8, <2>11
<1>5. CASE {u.via : u \in Arrived(t)} \union {t.via} # In(M, t.at)
  <2>1. PICK w : w = [t EXCEPT !.wait = "join"]
    OBVIOUS
  <2>2. Goes((tokens \ {t}) \union {w}, {})
    BY <1>3, <1>5, <2>1 DEF EnterJoin
  <2>3. /\ w.at = t.at /\ w.scope = t.scope /\ w.lane = t.lane /\ w.wait = "join" /\ w.via = t.via
        /\ w \in Token(M)
    BY <1>1, <2>1 DEF Token
  <2>4. Placed(M, w)
    BY <1>1, <2>3 DEF Placed
  <2>5. t.wait # "waiting"
    OBVIOUS
  <2>6. Orderly(M, (tokens \ {t}) \union {w}, fired, caught)
    BY <1>2, <2>3, <2>4, <2>5, RestsOrderly
  <2>7. tokens' = ((tokens \ {t}) \union {w}) \union {} /\ status' \in {"running", "completed"}
    BY <2>2, GoesRuns
  <2> QED  BY <2>6, <2>7
<1> QED  BY <1>4, <1>5

LEMMA EntersSoundly ==
    ASSUME IsParsed(M), Accepts(M, W, Covered), Good, NEW t \in tokens, Enter(t)
    PROVE  Orderly(M, tokens', fired, caught) /\ status' \in {"running", "completed"}
<1>1. /\ Sane(M) /\ t.wait = "moving" /\ t.at \in Nodes(M) /\ IsWired(t.at) /\ t \in Token(M)
      /\ M.kind[t.at] \notin BoundaryEvt \union {"messagestart", "messageend", "throw"}
  BY AcceptedIsSane, AcceptedIsWired, StandingOf DEF Enter
<1>2. M.kind[t.at] # "event" => Springs(M, t.at, t.at)
  BY DEF Springs
<1>3. CASE EnterWait(t)
  <2>1. Waits(t) /\ M.kind[t.at] # "parallel"
    BY <1>1, <1>3 DEF EnterWait
  <2> QED  BY <1>1, <2>1, WaitGoes
<1>4. CASE EnterRule(t)
  <2>1. M.kind[t.at] = "rule"
    BY <1>4 DEF EnterRule
  <2>2. t.at \in DOMAIN W.decision
    BY <1>1, <2>1, AcceptedIsSane DEF AreDecided, OfKind
  <2>3. LeavesFrom(tokens \ {t}, t, t.at)
    BY <1>4, <2>2 DEF EnterRule
  <2>4. Single(Out(M, t.at))
    BY <1>1, <2>1, DegreesOfSane
  <2>5. Springs(M, t.at, t.at)
    BY <2>1 DEF Springs
  <2> QED  BY <1>1, <2>1, <2>3, <2>4, <2>5, MovesOnward
<1>5. CASE EnterEvent(t)
  <2>1. M.kind[t.at] = "event"
    BY <1>5 DEF EnterEvent
  <2>2. ASSUME NEW f \in Out(M, t.at) PROVE M.kind[M.to[f]] \in {"timer", "message", "receive"}
    <3>1. f \in Flows(M) /\ M.from[f] = t.at
      BY DEF Out
    <3> QED  BY <1>1, <2>1, <3>1, AlternativesOfSane
  <2>3. Waits(t)
    BY <1>5, <2>2 DEF EnterEvent
  <2> QED  BY <1>1, <2>1, <2>3, WaitGoes
<1>6. CASE EnterSubProcess(t)
  BY <1>1, <1>6, EntersSubProcess
<1>7. CASE EnterStart(t)
  <2>1. M.kind[t.at] = "start" /\ LeavesFrom(tokens \ {t}, t, t.at)
    BY <1>7 DEF EnterStart
  <2>2. Single(Out(M, t.at))
    BY <1>1, <2>1, DegreesOfSane
  <2>3. Springs(M, t.at, t.at)
    BY <2>1 DEF Springs
  <2> QED  BY <1>1, <2>1, <2>2, <2>3, MovesOnward
<1>8. CASE EnterExclusive(t)
  <2>1. PICK f \in Out(M, t.at) : Goes(tokens \ {t}, {Along(f, t.scope, t.lane)})
    BY <1>8 DEF EnterExclusive
  <2>2. M.kind[t.at] = "exclusive"
    BY <1>8 DEF EnterExclusive
  <2>3. Springs(M, t.at, t.at)
    BY <2>2 DEF Springs
  <2> QED  BY <1>1, <2>1, <2>2, <2>3, MovesOn
<1>9. CASE EnterParallel(t)
  BY <1>1, <1>9, EntersParallel
<1>10. CASE EnterJoin(t)
  BY <1>1, <1>10, EntersJoin
<1>11. CASE EnterEnd(t)
  <2>1. M.kind[t.at] = "end" /\ Consumed(tokens \ {t}, t.scope)
    BY <1>11 DEF EnterEnd
  <2>2. IsPrefix(t.scope, t.scope)
    <3>1. t.scope \in Seq(Nodes(M) \X Nat)
      BY <1>1 DEF Token, ScopePath
    <3>2. Begins(t.scope, t.scope)
      BY <3>1 DEF Begins
    <3> QED  BY <3>1, <3>2, PrefixBegins
  <2>3. \A u \in tokens : ~Inside(t, u)
    BY <1>1, NothingInside
  <2> DEFINE rest == tokens \ {t}
  <2>4. rest \in SUBSET tokens /\ \A o \in tokens \ rest : /\ IsPrefix(t.scope, o.scope)
                                                           /\ \A u \in rest : ~Inside(o, u)
    BY <2>2, <2>3
  <2>5. Consumed(rest, t.scope)
    BY <2>1
  <2> HIDE DEF rest
  <2> QED  BY <1>1, <2>4, <2>5, ConsumesSoundly
<1>12. CASE EnterTerminate(t)
  <2> DEFINE rest == tokens \ InScope(tokens, t.scope)
  <2>1. Consumed(rest, t.scope)
    BY <1>12 DEF EnterTerminate
  <2>2. \A v \in tokens : v \in Token(M) /\ v.scope \in Seq(Nodes(M) \X Nat)
    BY <1>1, StandingOf DEF ScopePath
  <2>3. ASSUME NEW o \in tokens \ rest
        PROVE  IsPrefix(t.scope, o.scope) /\ \A u \in rest : ~Inside(o, u)
    <3>1. o \in tokens /\ IsPrefix(t.scope, o.scope)
      BY DEF InScope
    <3>2. ASSUME NEW u \in rest, Inside(o, u) PROVE FALSE
      <4>1. u \in tokens /\ ~IsPrefix(t.scope, u.scope)
        BY DEF InScope
      <4>2. Begins(t.scope, o.scope)
        BY <2>2, <3>1, PrefixBegins
      <4>3. Begins(o.scope, u.scope)
        BY <2>2, <3>1, <3>2, <4>1, InsideIs
      <4>4. Begins(t.scope, u.scope)
        BY <2>2, <3>1, <4>1, <4>2, <4>3, BeginsIsTransitive
      <4> QED  BY <2>2, <4>1, <4>4, PrefixBegins
    <3> QED  BY <3>1, <3>2
  <2>4. rest \in SUBSET tokens
    OBVIOUS
  <2> HIDE DEF rest
  <2> QED  BY <1>1, <2>1, <2>3, <2>4, ConsumesSoundly
<1>13. ~EnterUnknown(t)
  BY <1>1 DEF EnterUnknown
<1> QED  BY <1>3, <1>4, <1>5, <1>6, <1>7, <1>8, <1>9, <1>10, <1>11, <1>12, <1>13 DEF Enter

LEMMA WaitsEndSoundly ==
    ASSUME IsParsed(M), Accepts(M, W, Covered), Good, NEW t \in tokens,
           Done(t) \/ GatewayFires(t) \/ InterruptingFires(t)
    PROVE  Orderly(M, tokens', fired, caught) /\ status' \in {"running", "completed"}
<1>1. /\ Sane(M) /\ t.at \in Nodes(M) /\ t \in Token(M) /\ t.wait = "waiting"
      /\ M.kind[t.at] \notin BoundaryEvt
  BY AcceptedIsSane, StandingOf DEF Done, GatewayFires, InterruptingFires, Rests
<1>2. CASE Done(t)
  <2>1. /\ M.kind[t.at] \in {"service", "user", "receive", "message", "timer"}
        /\ LeavesFrom(tokens \ {t}, t, t.at)
    BY <1>2 DEF Done
  <2>2. Single(Out(M, t.at))
    BY <1>1, <2>1, DegreesOfSane DEF SupportedHost
  <2>3. Springs(M, t.at, t.at)
    BY <2>1 DEF Springs
  <2> QED  BY <1>1, <2>1, <2>2, <2>3, MovesOnward
<1>3. CASE GatewayFires(t)
  <2>1. PICK f \in Out(M, t.at) : LeavesFrom(tokens \ {t}, t, M.to[f])
    BY <1>3 DEF GatewayFires
  <2>2. M.kind[t.at] = "event"
    BY <1>3 DEF GatewayFires
  <2>3. f \in Flows(M) /\ M.from[f] = t.at /\ M.to[f] \in Nodes(M)
    BY <1>1, GraphOfSane DEF Out
  <2>4. M.kind[M.to[f]] \in {"message", "timer", "receive"}
    BY <1>1, <2>2, <2>3, AlternativesOfSane
  <2>5. Single(Out(M, M.to[f]))
    BY <1>1, <2>3, <2>4, DegreesOfSane DEF SupportedHost
  <2>6. Springs(M, t.at, M.to[f])
    BY <2>2 DEF Springs
  <2> QED  BY <1>1, <2>1, <2>2, <2>4, <2>5, <2>6, MovesOnward
<1>4. CASE InterruptingFires(t)
  <2>1. PICK b \in ArmedOn(M, t.at) \intersect M.cancels : LeavesFrom(Without(tokens, t), t, b)
    BY <1>4 DEF InterruptingFires
  <2>2. /\ b \in DOMAIN M.host /\ M.host[b] = t.at /\ b \in Nodes(M) /\ M.kind[b] \in BoundaryEvt
        /\ M.kind[b] # "errorboundary" /\ M.kind[t.at] \in SupportedHost
    BY <1>1, GraphOfSane DEF ArmedOn, BoundariesOn, OfKind
  <2>3. Single(Out(M, b)) /\ t.at \notin Joins(M)
    BY <1>1, <2>2, DegreesOfSane DEF Joins, OfKind, SupportedHost
  <2>4. Springs(M, t.at, b)
    BY <2>1, <2>2 DEF Springs, ArmedOn
  <2>5. PICK f \in Out(M, b) : Goes(Without(tokens, t), {Along(f, t.scope, t.lane)})
    BY <2>1, <2>3, LeavesBy
  <2>6. /\ Without(tokens, t) \in SUBSET tokens /\ t \notin Without(tokens, t)
        /\ \A o \in tokens \ Without(tokens, t) :
             ~Inside(o, t) /\ \A u \in Without(tokens, t) : ~Inside(o, u)
    BY <1>1, WithoutIsClosed
  <2> QED  BY <1>1, <2>2, <2>3, <2>4, <2>5, <2>6, LeavesSoundly
<1> QED  BY <1>2, <1>3, <1>4

LEMMA SidePathsStartSoundly ==
    ASSUME IsParsed(M), Accepts(M, W, Covered), Good, NEW t \in tokens, SidePathFires(t)
    PROVE  /\ Orderly(M, tokens', fired', caught) /\ FiringsFit(M, fired', caught)
           /\ status' \in {"running", "completed"}
<1>1. /\ Sane(M) /\ t.at \in Nodes(M) /\ t \in Token(M) /\ t.wait = "waiting"
  BY AcceptedIsSane, StandingOf DEF SidePathFires, Rests
<1>2. PICK b \in ArmedOn(M, t.at) \ M.cancels :
        /\ LeavesFrom(tokens, [t EXCEPT !.lane = Len(fired) + 1], b)
        /\ fired' = Append(fired, [boundary |-> b, scope |-> t.scope, lane |-> t.lane])
  BY DEF SidePathFires
<1>3. /\ b \in DOMAIN M.host /\ M.host[b] = t.at /\ b \in Nodes(M) /\ M.kind[b] \in BoundaryEvt
      /\ b \in SideStarts(M)
  BY <1>1, GraphOfSane DEF ArmedOn, BoundariesOn, OfKind, SideStarts, BoundaryEvt
<1>4. Single(Out(M, b))
  BY <1>1, <1>3, DegreesOfSane
<1>5. PICK x : x = [t EXCEPT !.lane = Len(fired) + 1]
  OBVIOUS
<1>6. x.scope = t.scope /\ x.lane = Len(fired) + 1
  BY <1>1, <1>5 DEF Token
<1>7. PICK f \in Out(M, b) : Goes(tokens, {Along(f, x.scope, x.lane)})
  BY <1>2, <1>4, <1>5, LeavesBy
<1>8. PICK w : w = Along(f, t.scope, Len(fired) + 1)
  OBVIOUS
<1>9. /\ w = [at |-> M.to[f], via |-> f, wait |-> "moving", scope |-> t.scope,
              lane |-> Len(fired) + 1]
      /\ Goes(tokens, {w})
  BY <1>6, <1>7, <1>8 DEF Along, Moving
<1>10. Orderly(M, tokens, fired, caught) /\ FiringsFit(M, fired, caught) /\ b \in ArmedOn(M, t.at)
  BY DEF Good
<1>11. PICK fr2 : fr2 = Append(fired, [boundary |-> b, scope |-> t.scope, lane |-> t.lane])
  OBVIOUS
<1>12. Orderly(M, tokens \union {w}, fr2, caught)
  BY <1>1, <1>3, <1>9, <1>10, <1>11, SideOrderly
<1>13. FiringsFit(M, fr2, caught) /\ \A v \in tokens : v.lane # w.lane
  <2>1. FiringsFit(M, fr2, caught)
    BY <1>1, <1>3, <1>9, <1>10, <1>11, <1>12, SideOrderly
  <2>2. w.lane = Len(fired) + 1 /\ Len(fired) \in Nat
    BY <1>9, <1>10 DEF FiringsFit
  <2>3. \A v \in tokens : v.lane \in Nat /\ v.lane <= Len(fired)
    BY <1>1, StandingOf DEF OnLane
  <2> QED  BY <2>1, <2>2, <2>3
<1>14. tokens' = tokens \union {w} /\ status' \in {"running", "completed"}
  BY <1>1, <1>9, <1>13, GoesRuns
<1> QED  BY <1>2, <1>11, <1>12, <1>13, <1>14

LEMMA FailuresSound ==
    ASSUME IsParsed(M), Accepts(M, W, Covered), Good, NEW t \in tokens, NEW code, Fails(t, code)
    PROVE  /\ Orderly(M, tokens', fired, caught') /\ caught \subseteq caught'
           /\ status' \in {"running", "completed", "frozen"}
<1>1. Sane(M)
  BY AcceptedIsSane
<1>2. CASE status' = "frozen" /\ UNCHANGED <<tokens, caught>>
  BY <1>2 DEF Good
<1>3. CASE \E u \in Offered(t) : \E b \in CatchesAt(u, code) :
              /\ LeavesFrom(Without(tokens, u), u, b)
              /\ caught' = caught \union {k \in {u.lane} : OnPath(u)}
  <2>0. PICK u \in Offered(t) :
            \E b \in CatchesAt(u, code) :
              /\ LeavesFrom(Without(tokens, u), u, b)
              /\ caught' = caught \union {k \in {u.lane} : OnPath(u)}
    BY <1>3
  <2>1. PICK b \in CatchesAt(u, code) :
              /\ LeavesFrom(Without(tokens, u), u, b)
              /\ caught' = caught \union {k \in {u.lane} : OnPath(u)}
    BY <2>0
  <2>2. u \in tokens /\ b \in BoundariesOn(M, u.at) /\ M.kind[b] = "errorboundary"
    BY DEF Offered, CatchesAt
  <2>3. /\ b \in DOMAIN M.host /\ M.host[b] = u.at /\ b \in Nodes(M) /\ M.kind[b] \in BoundaryEvt
        /\ b \in M.cancels /\ M.kind[u.at] \in SupportedHost
    BY <1>1, <2>2, GraphOfSane DEF BoundariesOn
  <2>4. Single(Out(M, b)) /\ u.at \notin Joins(M)
    BY <1>1, <2>3, DegreesOfSane DEF Joins, OfKind, SupportedHost
  <2>5. Springs(M, u.at, b)
    BY <2>2, <2>3 DEF Springs
  <2>6. PICK f \in Out(M, b) : Goes(Without(tokens, u), {Along(f, u.scope, u.lane)})
    BY <2>1, <2>4, LeavesBy
  <2>7. /\ Without(tokens, u) \in SUBSET tokens /\ u \notin Without(tokens, u)
        /\ \A o \in tokens \ Without(tokens, u) :
             ~Inside(o, u) /\ \A v \in Without(tokens, u) : ~Inside(o, v)
    BY <1>1, <2>2, WithoutIsClosed
  <2>8. PICK ct2 : ct2 = caught \union {k \in {u.lane} : OnPath(u)}
    OBVIOUS
  <2>9. caught \subseteq ct2 /\ (u.lane > 0 /\ u.scope = fired[u.lane].scope => u.lane \in ct2)
    BY <2>8 DEF OnPath
  <2>10. Orderly(M, tokens', fired, ct2) /\ status' \in {"running", "completed"}
    BY <1>1, <2>2, <2>4, <2>5, <2>6, <2>7, <2>9, LeavesSoundly
  <2> QED  BY <2>1, <2>8, <2>9, <2>10
<1> QED  BY <1>2, <1>3 DEF Fails

LEMMA FiringsStayFit ==
    ASSUME NEW m, NEW fr, NEW ct, FiringsFit(m, fr, ct), NEW ct2, ct \subseteq ct2
    PROVE  FiringsFit(m, fr, ct2)
BY DEF FiringsFit

-----------------------------------------------------------------------------
(* What escapes a side path.                                               *)

LEMMA GreatestExists ==
    ASSUME NEW S \in SUBSET Nat, NEW x \in S, NEW n \in Nat, \A y \in S : y <= n
    PROVE  \E y \in S : \A z \in S : z <= y
<1> SUFFICES ASSUME \A y \in S : \E z \in S : ~(z <= y) PROVE FALSE
  OBVIOUS
<1> DEFINE T == {k \in Nat : \E y \in S : y >= k}
<1>1. 0 \in T
  OBVIOUS
<1>2. ASSUME NEW k \in T PROVE k + 1 \in T
  <2>1. PICK y \in S : y >= k
    OBVIOUS
  <2>2. PICK z \in S : ~(z <= y)
    OBVIOUS
  <2>3. z >= k + 1
    BY <2>1, <2>2
  <2> QED  BY <2>3
<1> HIDE DEF T
<1>3. T \subseteq Nat
  BY DEF T
<1>4. T = Nat
  BY <1>1, <1>2, <1>3, SetOfAllNumbers
<1>5. n + 1 \in T
  BY <1>4
<1>6. PICK y \in S : y >= n + 1
  BY <1>5 DEF T
<1> QED  BY <1>6

LEMMA WarnedOf ==
    ASSUME NEW m, NEW b \in SideStarts(m), NEW n
    PROVE  /\ n \in FailuresEscaping(m, b) =>
                \E x \in Warnings(m) : x.rule = "failure" /\ x.boundary = b /\ x.at = n
           /\ n \in ArmsRepeated(m, b) => \E x \in Warnings(m) : x.rule = "arm" /\ x.at = n
<1> DEFINE arms  == [rule : {"arm"}, boundary : {b}, at : ArmsRepeated(m, b)]
           fails == [rule : {"failure"}, boundary : {b}, at : FailuresEscaping(m, b)]
<1>1. arms \union fails \subseteq Warnings(m)
  BY DEF Warnings
<1>2. ASSUME n \in FailuresEscaping(m, b)
      PROVE  \E x \in Warnings(m) : x.rule = "failure" /\ x.boundary = b /\ x.at = n
  <2> DEFINE x == [rule |-> "failure", boundary |-> b, at |-> n]
  <2>1. x \in fails
    BY <1>2
  <2>2. x.rule = "failure" /\ x.boundary = b /\ x.at = n
    OBVIOUS
  <2> HIDE DEF x, fails, arms
  <2> QED  BY <1>1, <2>1, <2>2
<1>3. ASSUME n \in ArmsRepeated(m, b)
      PROVE  \E x \in Warnings(m) : x.rule = "arm" /\ x.at = n
  <2> DEFINE x == [rule |-> "arm", boundary |-> b, at |-> n]
  <2>1. x \in arms
    BY <1>3
  <2>2. x.rule = "arm" /\ x.at = n
    OBVIOUS
  <2> HIDE DEF x, fails, arms
  <2> QED  BY <1>1, <2>1, <2>2
<1> QED  BY <1>2, <1>3

(* The subprocess tokens on the path of a lane are of that lane, and a     *)
(* failure on it is offered to all of them.                                *)
LEMMA OfferedOnLane ==
    ASSUME Sane(M), Good, NEW t \in tokens, t.lane > 0, NEW len \in Nat,
           len = Len(fired[t.lane].scope)
    PROVE  /\ \A u \in Offered(t) : Len(u.scope) >= len => u.lane = t.lane
           /\ \A i \in 1 .. Len(t.scope) + 1 : i > len =>
                \E u \in Offered(t) : u.at = Level(t, i) /\ Len(u.scope) = i - 1
<1>1. /\ t \in Token(M) /\ Chained(M, t) /\ OnLane(M, fired, caught, t) /\ Len(t.scope) \in Nat
      /\ HasOwners(tokens, t)
  BY StandingOf DEF Good, Orderly, Token, ScopePath
<1>2. \A i \in 1 .. Len(t.scope) : i > len => t.scope[i][2] = t.lane
  BY <1>1 DEF OnLane
<1>3. ASSUME NEW u \in Offered(t), Len(u.scope) >= len PROVE u.lane = t.lane
  <2>1. u \in tokens /\ (u = t \/ Inside(u, t))
    BY DEF Offered
  <2>2. CASE Inside(u, t)
    <3>1. u \in Token(M) /\ Len(u.scope) \in Nat
      BY <2>1, StandingOf DEF Token, ScopePath
    <3>2. Len(u.scope) < Len(t.scope) /\ t.scope[Len(u.scope) + 1] = <<u.at, u.lane>>
      BY <1>1, <2>2, <3>1, InsideIs
    <3>3. Len(u.scope) + 1 \in 1 .. Len(t.scope) /\ Len(u.scope) + 1 > len
      BY <1>1, <1>3, <3>1, <3>2
    <3>4. t.scope[Len(u.scope) + 1][2] = t.lane
      BY <1>2, <3>3
    <3> QED  BY <3>2, <3>4
  <2> QED  BY <2>1, <2>2
<1>4. ASSUME NEW i \in 1 .. Len(t.scope) + 1, i > len
      PROVE  \E u \in Offered(t) : u.at = Level(t, i) /\ Len(u.scope) = i - 1
  <2>1. CASE i = Len(t.scope) + 1
    <3>1. t.at = Level(t, i) /\ Len(t.scope) = i - 1 /\ t \in Offered(t)
      BY <1>1, <2>1 DEF Level, Offered
    <3> QED  BY <3>1
  <2>2. CASE i \in 1 .. Len(t.scope)
    <3>1. PICK u \in tokens : u.wait = "waiting" /\ Len(u.scope) = i - 1 /\ Inside(u, t)
      BY <1>1, <2>2 DEF HasOwners
    <3>2. u \in Token(M) /\ Len(u.scope) + 1 = i
      BY <2>2, <3>1, StandingOf
    <3>3. u.at = Level(t, i)
      BY <1>1, <3>1, <3>2, InsideIsSub
    <3> QED  BY <3>1, <3>3 DEF Offered
  <2>3. i \in 1 .. Len(t.scope) \/ i = Len(t.scope) + 1
    BY <1>1
  <2> QED  BY <2>1, <2>2, <2>3
<1> QED  BY <1>3, <1>4

LEMMA CatchAllCatches ==
    ASSUME Sane(M), NEW u, HasCatchAll(M, u.at), NEW code
    PROVE  CatchesAt(u, code) # {}
<1>1. PICK b \in BoundariesOn(M, u.at) : M.kind[b] = "errorboundary" /\ M.code[b] = CatchAll
  BY DEF HasCatchAll
<1> QED  BY <1>1 DEF CatchesAt

(* The tokens a failure of t may be caught at, and those nearest to it.    *)
Catching(t, code) == {u \in Offered(t) : CatchesAt(u, code) # {}}
Nearest(S) == {u \in S : \A v \in S : Len(v.scope) <= Len(u.scope)}

(* A failure that leaves its lane met no catch-all on it.                  *)
LEMMA NoCatchAllOnLane ==
    ASSUME Sane(M), Good, NEW t \in tokens, t.lane > 0, NEW len \in Nat,
           len = Len(fired[t.lane].scope), NEW code,
           \A u \in Nearest(Catching(t, code)) : u.lane # t.lane,
           NEW i \in 1 .. Len(t.scope) + 1, i > len
    PROVE  ~HasCatchAll(M, Level(t, i))
<1> SUFFICES ASSUME HasCatchAll(M, Level(t, i)) PROVE FALSE
  OBVIOUS
<1>1. PICK u \in Offered(t) : u.at = Level(t, i) /\ Len(u.scope) = i - 1
  BY OfferedOnLane
<1>0. PICK catching : catching = Catching(t, code)
  OBVIOUS
<1>2. u \in catching
  BY <1>0, <1>1, CatchAllCatches DEF Catching
<1>3. ASSUME NEW v \in catching PROVE Len(v.scope) \in Nat /\ Len(v.scope) <= Len(t.scope)
  <2>1. v \in tokens /\ (v = t \/ Inside(v, t))
    BY <1>0, <1>3 DEF Catching, Offered
  <2>2. v \in Token(M) /\ t \in Token(M) /\ Len(v.scope) \in Nat /\ Len(t.scope) \in Nat
    BY <2>1, StandingOf DEF Token, ScopePath
  <2>3. Inside(v, t) => Len(v.scope) < Len(t.scope)
    BY <2>2, InsideIs
  <2> QED  BY <2>1, <2>2, <2>3
<1> DEFINE S == {Len(v.scope) : v \in catching}
<1>4. S \in SUBSET Nat /\ Len(u.scope) \in S /\ Len(t.scope) \in Nat /\ \A y \in S : y <= Len(t.scope)
  <2>1. Len(t.scope) \in Nat
    BY StandingOf DEF Token, ScopePath
  <2> QED  BY <1>2, <1>3, <2>1
<1> HIDE DEF S
<1>5. PICK y \in S : \A z \in S : z <= y
  BY <1>4, GreatestExists
<1>6. PICK v \in catching : Len(v.scope) = y
  BY <1>5 DEF S
<1>7. \A x \in catching : Len(x.scope) <= Len(v.scope)
  BY <1>5, <1>6 DEF S
<1>8. v.lane # t.lane
  BY <1>0, <1>6, <1>7 DEF Nearest
<1>9. Len(u.scope) <= Len(v.scope)
  BY <1>2, <1>7
<1>10. Len(v.scope) >= len /\ v \in Offered(t)
  <2>1. Len(v.scope) \in Nat
    BY <1>3
  <2>2. i - 1 >= len
    OBVIOUS
  <2>3. v \in Offered(t)
    BY <1>0, <1>6 DEF Catching
  <2> QED  BY <1>1, <1>9, <2>1, <2>2, <2>3
<1>11. v.lane = t.lane
  BY <1>10, OfferedOnLane
<1> QED  BY <1>8, <1>11

LEMMA EscapeIsWarned ==
    ASSUME Sane(M), Good, warned = Warnings(M), NEW t \in tokens, t.lane > 0, NEW code,
           M.kind[t.at] \in {"service", "user"},
           \A u \in Nearest(Catching(t, code)) : u.lane # t.lane
    PROVE  \E x \in warned :
             /\ x.rule = "failure" /\ x.boundary = fired[t.lane].boundary
             /\ t.at = x.at \/ t.at \in Body(M, x.at)
<1>1. /\ t \in Token(M) /\ Chained(M, t) /\ OnLane(M, fired, caught, t) /\ Len(t.scope) \in Nat
      /\ t.lane \in Nat /\ t.lane <= Len(fired) /\ t.at \in Nodes(M)
  <2>1. t \in Token(M) /\ Chained(M, t) /\ OnLane(M, fired, caught, t)
    BY StandingOf
  <2> QED  BY <2>1 DEF Token, ScopePath, OnLane
<1>2. PICK r : r = fired[t.lane]
  OBVIOUS
<1>3. FiringsFit(M, fired, caught)
  BY DEF Good
<1>4. PICK len \in Nat : len = Len(r.scope)
  BY <1>1, <1>2, <1>3, FiringsAre
<1>5. r.boundary \in SideStarts(M)
  BY <1>1, <1>2, <1>3, FiringsAre
<1>6. Begins(r.scope, t.scope) /\ Stand(r, t) \in Owned(M, r.boundary)
  BY <1>1, <1>2, <1>3, NodeRunsBeside
<1>7. /\ len + 1 \in 1 .. Len(t.scope) + 1 /\ len + 1 > len
      /\ len + 1 = Len(t.scope) + 1 \/ len + 1 \in 1 .. Len(t.scope)
  <2>1. len <= Len(t.scope)
    BY <1>4, <1>6 DEF Begins
  <2> QED  BY <1>1, <2>1
<1>8. Stand(r, t) = Level(t, len + 1)
  <2>1. CASE len = Len(t.scope)
    BY <1>4, <2>1 DEF Stand, Level
  <2>2. CASE len # Len(t.scope)
    <3>1. len + 1 # Len(t.scope) + 1
      BY <1>1, <2>2
    <3> QED  BY <1>4, <2>2, <3>1 DEF Stand, Level
  <2> QED  BY <2>1, <2>2
<1> DEFINE a == Level(t, len + 1)
           b == r.boundary
<1>9. \A i \in 1 .. Len(t.scope) + 1 : i > len => ~HasCatchAll(M, Level(t, i))
  BY <1>2, <1>4, NoCatchAllOnLane
<1>10. ~HasCatchAll(M, a)
  BY <1>7, <1>9
<1>11. a \in Nodes(M) /\ Level(t, Len(t.scope) + 1) = t.at
  BY <1>1, <1>7, LevelsAre
<1>12. CASE len + 1 = Len(t.scope) + 1
  <2>1. a = t.at
    BY <1>11, <1>12
  <2>2. a \in FailuresEscaping(M, b)
    BY <1>6, <1>8, <1>10, <2>1 DEF FailuresEscaping
  <2>3. PICK x \in Warnings(M) : x.rule = "failure" /\ x.boundary = b /\ x.at = a
    BY <1>5, <2>2, WarnedOf
  <2> QED  BY <1>2, <2>1, <2>3
<1>13. CASE len + 1 \in 1 .. Len(t.scope)
  <2>1. M.kind[a] = "subprocess"
    BY <1>1, <1>13, LevelsAre
  <2>2. t.at \in Body(M, a)
    <3>1. Len(t.scope) + 1 \in 1 .. Len(t.scope) + 1 /\ len + 1 < Len(t.scope) + 1
      BY <1>1, <1>13
    <3>2. Level(t, Len(t.scope) + 1) \in Body(M, Level(t, len + 1))
      BY <1>1, <1>13, <3>1, LevelsNest
    <3> QED  BY <1>11, <3>2
  <2>3. ASSUME NEW c \in Body(M, a), c = t.at \/ t.at \in Body(M, c) PROVE ~HasCatchAll(M, c)
    <3>1. Len(t.scope) + 1 \in 1 .. Len(t.scope) + 1 /\ Len(t.scope) + 1 > len
      BY <1>1, <1>13
    <3>2. CASE c = t.at
      BY <1>9, <1>11, <3>1, <3>2
    <3>3. CASE t.at \in Body(M, c)
      <4>1. c \in Nodes(M)
        BY <1>11, BodyOfSane
      <4>2. Level(t, Len(t.scope) + 1) \in Body(M, c)
        BY <1>11, <3>3
      <4>3. PICK i \in 1 .. Len(t.scope) : i < Len(t.scope) + 1 /\ c = Level(t, i)
        BY <1>1, <3>1, <4>1, <4>2, OnlyOuterLevels
      <4>4. i \in 1 .. Len(t.scope) + 1
        BY <1>1
      <4>5. i > len
        <5> SUFFICES ASSUME ~(i > len) PROVE FALSE
          OBVIOUS
        <5>1. Level(t, i) \in Body(M, a)
          BY <4>3
        <5>2. PICK j \in 1 .. Len(t.scope) : j < i /\ a = Level(t, j)
          BY <1>1, <1>11, <4>4, <5>1, OnlyOuterLevels
        <5>3. j \in 1 .. Len(t.scope) + 1 /\ j < len + 1
          BY <1>1, <5>2
        <5>4. Level(t, j) # Level(t, len + 1)
          BY <1>1, <1>7, <5>3, LevelsDiffer
        <5> QED  BY <5>2, <5>4
      <4> QED  BY <1>9, <4>3, <4>4, <4>5
    <3> QED  BY <2>3, <3>2, <3>3
  <2>4. FailureEscapesBody(M, a)
    BY <2>2, <2>3 DEF FailureEscapesBody
  <2>5. a \in FailuresEscaping(M, b)
    BY <1>6, <1>8, <1>10, <2>1, <2>4 DEF FailuresEscaping
  <2>6. PICK x \in Warnings(M) : x.rule = "failure" /\ x.boundary = b /\ x.at = a
    BY <1>5, <2>5, WarnedOf
  <2> QED  BY <1>2, <2>2, <2>6
<1> QED  BY <1>7, <1>12, <1>13

-----------------------------------------------------------------------------
(* What is armed together.                                                 *)

(* An open arm is at the token, or in a lane's path and bodies with it.    *)
LEMMA ArmsOf ==
    ASSUME Sane(M), Good, NEW t \in tokens, NEW a \in OpenArms(t)
    PROVE  /\ a \in MessageArms(M) /\ a \in Nodes(M) /\ t.wait = "waiting"
           /\ \/ a = t.at
              \/ a \in ArmedOn(M, t.at) /\ a \in Succs(M)[t.at] /\ M.host[a] = t.at
              \/ /\ M.kind[t.at] = "event" /\ a \in Succs(M)[t.at]
                 /\ \E f \in Out(M, t.at) : a = M.to[f] /\ In(M, a) = {f}
           /\ M.scope[a] = M.scope[t.at]
<1>1. t.wait = "waiting"
  BY DEF OpenArms
<1>2. a \in MessageArms(M) /\ \/ a = t.at
                              \/ a \in ArmedOn(M, t.at)
                              \/ M.kind[t.at] = "event" /\ \E f \in Out(M, t.at) : a = M.to[f]
  BY <1>1 DEF OpenArms
<1>3. a \in Nodes(M) /\ t.at \in Nodes(M)
  BY <1>2, StandingOf DEF MessageArms, OfKind
<1>4. CASE a = t.at
  BY <1>1, <1>2, <1>3, <1>4
<1>5. CASE a \in ArmedOn(M, t.at)
  <2>1. a \in DOMAIN M.host /\ M.host[a] = t.at
    BY <1>5 DEF ArmedOn, BoundariesOn
  <2>2. a \in Succs(M)[t.at] /\ M.scope[a] = M.scope[t.at]
    BY <2>1, SuccsOfSane, GraphOfSane
  <2> QED  BY <1>1, <1>2, <1>3, <1>5, <2>1, <2>2
<1>6. CASE M.kind[t.at] = "event" /\ \E f \in Out(M, t.at) : a = M.to[f]
  <2>1. PICK f \in Out(M, t.at) : a = M.to[f]
    BY <1>6
  <2>2. f \in Flows(M) /\ M.from[f] = t.at
    BY DEF Out
  <2>3. a \in Succs(M)[t.at] /\ M.scope[a] = M.scope[t.at]
    BY <2>1, <2>2, SuccsOfSane, GraphOfSane
  <2>4. In(M, a) = {f}
    BY <1>6, <2>1, <2>2, AlternativesOfSane
  <2> QED  BY <1>1, <1>2, <1>3, <1>6, <2>1, <2>3, <2>4
<1> QED  BY <1>2, <1>4, <1>5, <1>6

LEMMA ArmsInBodies ==
    ASSUME NEW m, Sane(m), NEW t \in Token(m), Chained(m, t), NEW i \in 1 .. Len(t.scope),
           NEW a \in Nodes(m), m.scope[a] = m.scope[t.at]
    PROVE  a \in Body(m, Level(t, i))
<1>1. Len(t.scope) \in Nat /\ Level(t, Len(t.scope) + 1) = t.at /\ Level(t, i) \in Nodes(m)
  BY LevelsAre
<1>2. /\ Len(t.scope) + 1 \in 1 .. Len(t.scope) + 1 /\ Len(t.scope) + 1 > 1
      /\ (Len(t.scope) + 1) - 1 = Len(t.scope) /\ Len(t.scope) \in 1 .. Len(t.scope) + 1
  BY <1>1
<1>3. m.scope[t.at] = Level(t, Len(t.scope))
  <2>1. m.scope[Level(t, Len(t.scope) + 1)] = Level(t, (Len(t.scope) + 1) - 1)
    BY <1>2, LevelsAre
  <2> QED  BY <1>1, <1>2, <2>1
<1>4. Level(t, Len(t.scope)) \in {Level(t, i)} \union Body(m, Level(t, i))
  <2>1. i = Len(t.scope) \/ i < Len(t.scope)
    BY <1>1
  <2>2. CASE i < Len(t.scope)
    BY <1>2, <2>2, LevelsNest
  <2> QED  BY <2>1, <2>2
<1> QED  BY <1>1, <1>3, <1>4, BodyOfSane

(* What a lane arms is armed once per activation of its boundary.          *)
LEMMA LanesRepeat ==
    ASSUME Sane(M), Good, NEW t \in tokens, t.lane > 0, NEW a \in OpenArms(t)
    PROVE  /\ a \in ArmsRepeated(M, fired[t.lane].boundary)
           /\ fired[t.lane].boundary \in SideStarts(M)
           /\ t.lane \notin caught => a \in RunsBeside(M, fired[t.lane].boundary)
<1>1. /\ t \in Token(M) /\ Chained(M, t) /\ OnLane(M, fired, caught, t) /\ t.lane \in Nat
      /\ t.at \in Nodes(M) /\ M.kind[t.at] \notin BoundaryEvt
      /\ FiringsFit(M, fired, caught)
  BY StandingOf DEF Good
<1>2. t.lane <= Len(fired)
  BY <1>1 DEF OnLane
<1>3. PICK r : r = fired[t.lane]
  OBVIOUS
<1>4. r.boundary \in SideStarts(M) /\ r.boundary \in Nodes(M)
  BY <1>1, <1>2, <1>3, FiringsAre DEF SideStarts, OfKind
<1>5. /\ Stand(r, t) \in Owned(M, r.boundary)
      /\ \/ t.at = Stand(r, t)
         \/ /\ M.kind[Stand(r, t)] = "subprocess"
            /\ Len(r.scope) + 1 \in 1 .. Len(t.scope) /\ Stand(r, t) = Level(t, Len(r.scope) + 1)
            /\ t.at \in Body(M, Stand(r, t))
      /\ t.lane \notin caught => t.at \in RunsBeside(M, r.boundary)
  BY <1>1, <1>3, NodeRunsBeside
<1>6. /\ a \in MessageArms(M) /\ a \in Nodes(M) /\ M.scope[a] = M.scope[t.at]
      /\ a = t.at \/ a \in Succs(M)[t.at]
      /\ a = t.at \/ a \in ArmedOn(M, t.at) \/ \E f \in Out(M, t.at) : a = M.to[f]
  BY ArmsOf
<1>7. \E n \in Owned(M, r.boundary) : a \in {n} \union Body(M, n)
  <2>1. CASE t.at = Stand(r, t)
    <3>1. t.at \notin SideStarts(M)
      BY <1>1 DEF SideStarts, OfKind, BoundaryEvt
    <3>2. a \in Owned(M, r.boundary)
      BY <1>4, <1>5, <1>6, <2>1, <3>1, OwnedGoesOn
    <3> QED  BY <3>2
  <2>2. CASE Len(r.scope) + 1 \in 1 .. Len(t.scope) /\ Stand(r, t) = Level(t, Len(r.scope) + 1)
    <3>1. a \in Body(M, Level(t, Len(r.scope) + 1))
      BY <1>1, <1>6, <2>2, ArmsInBodies
    <3> QED  BY <1>5, <2>2, <3>1
  <2> QED  BY <1>5, <2>1, <2>2
<1>8. a \in ArmsRepeated(M, r.boundary)
  BY <1>6, <1>7 DEF ArmsRepeated, MessageArms
<1>9. t.lane \notin caught => a \in RunsBeside(M, r.boundary)
  BY <1>4, <1>5, <1>6, RunsBesideOfSane
<1> QED  BY <1>3, <1>4, <1>8, <1>9

(* Tokens that open the same arm are at the same node.                     *)
LEMMA SameArmSameNode ==
    ASSUME Sane(M), Good, NEW t \in tokens, NEW u \in tokens,
           NEW a, a \in OpenArms(t), a \in OpenArms(u)
    PROVE  t.at = u.at
<1>1. /\ M.kind[t.at] \notin BoundaryEvt /\ M.kind[u.at] \notin BoundaryEvt
      /\ Placed(M, t) /\ Placed(M, u)
  BY StandingOf
<1>2. \A v \in {t, u} :
        \/ a = v.at
        \/ a \in ArmedOn(M, v.at) /\ M.host[a] = v.at
        \/ M.kind[v.at] = "event" /\ \E f \in Out(M, v.at) : a = M.to[f] /\ In(M, a) = {f}
  BY ArmsOf
<1>3. \A v \in {t, u} : a \in ArmedOn(M, v.at) => M.kind[a] \in BoundaryEvt /\ In(M, a) = {}
  <2> SUFFICES ASSUME NEW v, a \in ArmedOn(M, v.at)
               PROVE  M.kind[a] \in BoundaryEvt /\ In(M, a) = {}
    OBVIOUS
  <2>1. a \in DOMAIN M.host
    BY DEF ArmedOn, BoundariesOn
  <2>2. a \in Nodes(M) /\ M.kind[a] \in BoundaryEvt
    BY <2>1, GraphOfSane
  <2> QED  BY <2>2, DegreesOfSane
<1>4. \A v \in {t, u} : a = v.at => \A f \in In(M, a) : M.kind[M.from[f]] # "event"
  BY <1>1 DEF Placed
<1>5. \A v \in {t, u} : \A f \in Out(M, v.at) : M.from[f] = v.at
  BY DEF Out
<1>6. ASSUME NEW v \in {t, u}, M.kind[v.at] = "event",
             \E f \in Out(M, v.at) : a = M.to[f] /\ In(M, a) = {f}
      PROVE  \E f : In(M, a) = {f} /\ M.from[f] = v.at /\ M.kind[M.from[f]] = "event"
  BY <1>5, <1>6
<1> QED  BY <1>1, <1>2, <1>3, <1>4, <1>6

LEMMA ArmsAreWarned ==
    ASSUME Sane(M), Good, warned = Warnings(M)
    PROVE  RepeatedArmsAreWarned
<1> SUFFICES ASSUME NEW t \in tokens, NEW u \in tokens, t # u,
                    NEW a, a \in OpenArms(t), a \in OpenArms(u)
             PROVE  \E x \in warned : x.rule = "arm" /\ x.at = a
  BY DEF RepeatedArmsAreWarned
<1>1. /\ t \in Token(M) /\ u \in Token(M) /\ Chained(M, t) /\ Chained(M, u)
      /\ OnLane(M, fired, caught, t) /\ OnLane(M, fired, caught, u)
      /\ t.lane \in Nat /\ u.lane \in Nat /\ Placed(M, t)
      /\ t.scope \in Seq(Nodes(M) \X Nat) /\ u.scope \in Seq(Nodes(M) \X Nat)
      /\ t.wait = "waiting" /\ u.wait = "waiting"
  BY StandingOf, ArmsOf DEF ScopePath
<1>2. t.at = u.at
  BY SameArmSameNode
<1>3. CASE t.lane = 0 /\ u.lane = 0
  <2>1. /\ Len(t.scope) = Len(u.scope)
        /\ \A k \in 1 .. Len(t.scope) : t.scope[k][1] = u.scope[k][1]
    BY <1>1, <1>2, LevelsAgree
  <2>2. \A k \in 1 .. Len(t.scope) : t.scope[k][2] = 0 /\ u.scope[k][2] = 0
    BY <1>1, <1>3, <2>1 DEF OnLane
  <2>3. ASSUME NEW k \in 1 .. Len(t.scope) PROVE t.scope[k] = u.scope[k]
    <3>1. t.scope[k] \in Nodes(M) \X Nat /\ u.scope[k] \in Nodes(M) \X Nat
      BY <1>1, <2>1
    <3> QED  BY <2>1, <2>2, <3>1
  <2>4. t.scope = u.scope
    <3>1. Len(t.scope) \in Nat
      BY <1>1
    <3>2. Begins(t.scope, u.scope)
      BY <2>1, <2>3, <3>1 DEF Begins
    <3> QED  BY <1>1, <2>1, <3>2, SameBeginning
  <2>5. t.at \notin Joins(M)
    BY <1>1 DEF Placed, Joins, OfKind
  <2>6. Orderly(M, tokens, fired, caught)
    BY DEF Good
  <2>7. t = u
    BY <1>2, <1>3, <2>4, <2>5, <2>6, OrderlyApart
  <2> QED  BY <2>7
<1>4. ASSUME NEW v \in {t, u}, v.lane > 0 PROVE \E x \in warned : x.rule = "arm" /\ x.at = a
  <2>1. v \in tokens /\ a \in OpenArms(v)
    OBVIOUS
  <2>2. PICK b : b = fired[v.lane].boundary
    OBVIOUS
  <2>3. b \in SideStarts(M) /\ a \in ArmsRepeated(M, b)
    BY <1>4, <2>1, <2>2, LanesRepeat
  <2> QED  BY <2>3, WarnedOf
<1> QED  BY <1>1, <1>3, <1>4

LEMMA NoDeliveryIsAmbiguous ==
    ASSUME IsParsed(M), Accepts(M, W, Covered), Good
    PROVE  DeliveriesAreUnambiguous
<1>0. Sane(M) /\ NoAmbiguousArms(M, W) /\ FiringsFit(M, fired, caught)
  BY AcceptedIsSane DEF Good
<1> SUFFICES ASSUME NEW h \in tokens, h.wait = "waiting",
                    NEW b \in ArmedOn(M, h.at) \intersect MessageArms(M), NEW t \in tokens,
                    \/ t = h \/ Inside(h, t)
                    \/ b \notin M.cancels /\ t.lane > 0 /\ RunsFor(t.lane, b, h),
                    NEW a \in OpenArms(t) \ {b}
             PROVE  ~SameArm(M, W, a, b)
  BY DEF DeliveriesAreUnambiguous
<1>1. /\ h \in Token(M) /\ h.at \in Nodes(M) /\ t \in Token(M) /\ t.at \in Nodes(M)
      /\ Chained(M, t) /\ M.kind[h.at] \in SupportedHost /\ b \in Nodes(M)
  <2>1. b \in DOMAIN M.host /\ M.host[b] = h.at
    BY DEF ArmedOn, BoundariesOn
  <2> QED  BY <1>0, <2>1, StandingOf, GraphOfSane
<1>2. /\ a \in MessageArms(M) /\ a \in Nodes(M)
      /\ \/ a = t.at \/ a \in ArmedOn(M, t.at) \/ M.kind[t.at] = "event"
      /\ M.scope[a] = M.scope[t.at]
  BY <1>0, ArmsOf
<1> DEFINE asks == ArmedOn(M, h.at) \intersect MessageArms(M)
<1>3. asks # {} /\ b \in asks
  OBVIOUS
<1>4. LiveWith(M, h.at) = MessageArms(M) \intersect
            (asks \union {h.at} \union Body(M, h.at)
                  \union UNION {RunsBeside(M, c) : c \in asks \ M.cancels})
  BY <1>3 DEF LiveWith
<1>5. b \in LiveWith(M, h.at)
  BY <1>3, <1>4
<1>6. a \in LiveWith(M, h.at)
  <2>1. CASE t = h
    <3>1. M.kind[t.at] # "event"
      BY <1>1, <2>1 DEF SupportedHost
    <3>2. a = h.at \/ a \in asks
      BY <1>2, <2>1, <3>1
    <3> QED  BY <1>2, <1>4, <3>2
  <2>2. CASE Inside(h, t)
    <3>1. Len(h.scope) + 1 \in 1 .. Len(t.scope) /\ Level(t, Len(h.scope) + 1) = h.at
      BY <1>0, <1>1, <2>2, InsideIsSub
    <3>2. a \in Body(M, Level(t, Len(h.scope) + 1))
      BY <1>0, <1>1, <1>2, <3>1, ArmsInBodies
    <3> QED  BY <1>2, <1>4, <3>1, <3>2
  <2>3. CASE b \notin M.cancels /\ t.lane > 0 /\ RunsFor(t.lane, b, h)
    <3> DEFINE from == [j \in DOMAIN fired |-> IF j \in caught THEN {} ELSE {fired[j].lane} \ {0}]
               X    == {j \in DOMAIN fired : j \in caught \/ a \in RunsBeside(M, fired[j].boundary)}
    <3>1. PICK p \in Reach({t.lane}, from) \ caught : fired[p].boundary = b
      BY <2>3 DEF RunsFor
    <3>2. fired \in Seq(Firing(M)) /\ Len(fired) \in Nat /\ DOMAIN fired = 1 .. Len(fired)
      BY <1>0 DEF FiringsFit
    <3>3. IsFiniteSet(DOMAIN from)
      BY <3>2, FS_Interval
    <3>4. t.lane \in X
      <4>1. t.lane \in DOMAIN fired
        <5>1. OnLane(M, fired, caught, t) /\ t.lane \in Nat
          BY <1>0, StandingOf
        <5>2. t.lane <= Len(fired)
          BY <5>1 DEF OnLane
        <5> QED  BY <2>3, <3>2, <5>1, <5>2
      <4>2. t.lane \notin caught => a \in RunsBeside(M, fired[t.lane].boundary)
        BY <1>0, <2>3, LanesRepeat
      <4> QED  BY <4>1, <4>2
    <3>5. ASSUME NEW j \in X PROVE from[j] \subseteq X
      <4> SUFFICES ASSUME j \notin caught, fired[j].lane # 0 PROVE fired[j].lane \in X
        OBVIOUS
      <4>1. j \in 1 .. Len(fired) /\ a \in RunsBeside(M, fired[j].boundary)
        BY <3>2
      <4>2. fired[j] \in Firing(M)
        BY <3>2, <4>1
      <4>3. fired[j].lane \in Nat /\ fired[j].lane < j
        BY <1>0, <4>1, <4>2 DEF FiringsFit, Firing
      <4>4. PICK l : l = fired[j].lane
        OBVIOUS
      <4>5. l \in 1 .. Len(fired) /\ l > 0
        BY <3>2, <4>1, <4>3, <4>4
      <4>6. fired[l].boundary \in SideStarts(M)
        BY <1>0, <4>5 DEF FiringsFit
      <4>7. l \notin caught => fired[j].boundary \in RunsBeside(M, fired[l].boundary)
        BY <1>0, <4>1, <4>4, <4>5 DEF FiringsFit
      <4>8. l \notin caught => a \in RunsBeside(M, fired[l].boundary)
        <5>1. fired[l].boundary \in Nodes(M)
          BY <4>6 DEF SideStarts, OfKind
        <5> QED  BY <1>0, <4>1, <4>7, <5>1, RunsBesideOfSane
      <4> QED  BY <3>2, <4>4, <4>5, <4>8
    <3> HIDE DEF from, X
    <3>6. {t.lane} \subseteq X /\ \A n \in X : from[n] \subseteq X
      BY <3>4, <3>5
    <3>7. Reach({t.lane}, from) \subseteq X
      BY <3>3, <3>6, ReachIsLeast
    <3>8. a \in RunsBeside(M, b)
      BY <3>1, <3>7 DEF X
    <3>9. b \in asks \ M.cancels
      BY <2>3
    <3> QED  BY <1>2, <1>4, <3>8, <3>9
  <2> QED  BY <2>1, <2>2, <2>3
<1>7. a # b
  OBVIOUS
<1> QED  BY <1>0, <1>1, <1>5, <1>6, <1>7 DEF NoAmbiguousArms

-----------------------------------------------------------------------------
(* The invariant: the tokens of an accepted model's instance are in order, *)
(* and what escaped was warned of.                                         *)
Admitted ==
    /\ IsParsed(M)
    /\ status \notin {"broken", "doubled"}
    /\ status \in {"submitted", "refused"} =>
        tokens = {} /\ fired = << >> /\ escaped = {} /\ caught = {}
    /\ status \notin {"submitted", "refused"} =>
        Accepts(M, W, Covered) /\ warned = Warnings(M) /\ Good
    /\ EscapesAreWarned

LEMMA StartsSoundly ==
    ASSUME Admitted, Accept PROVE Good'
<1>1. Sane(M) /\ status = "submitted" /\ fired = << >> /\ caught = {} /\ given' = given
      /\ fired' = fired /\ caught' = caught
  BY AcceptedIsSane DEF Accept, Admitted
<1> DEFINE heads == {s \in OfKind(M, Starting) : M.scope[s] = Process}
<1>2. PICK n \in Nodes(M) : M.kind[n] = "start" /\ M.scope[n] = Process /\ heads = {n}
  <2>1. Single(OfKind(M, Starting) \intersect ScopeNodes(M, Process))
    BY <1>1 DEF Sane, LintsClean, OneStart, Scopes
  <2>2. heads = OfKind(M, Starting) \intersect ScopeNodes(M, Process)
    BY DEF OfKind, ScopeNodes
  <2>3. \A s \in heads : s \in Nodes(M) /\ M.kind[s] \in Starting /\ M.scope[s] = Process
    BY DEF OfKind
  <2>4. \A s \in Nodes(M) : M.kind[s] # "messagestart"
    BY <1>1, GraphOfSane
  <2> QED  BY <2>1, <2>2, <2>3, <2>4 DEF Single, Starting
<1>3. PICK w : w = Moving(n, NoFlow, << >>, 0)
  OBVIOUS
<1>4. tokens' = {w}
  <2>1. tokens' = {Moving(s, NoFlow, << >>, 0) : s \in heads}
    BY DEF Accept
  <2> HIDE DEF heads
  <2> QED  BY <1>2, <1>3, <2>1
<1>5. /\ w.at = n /\ w.via = NoFlow /\ w.wait = "moving" /\ w.scope = << >> /\ w.lane = 0
      /\ w \in Token(M)
  BY <1>3 DEF Moving, Token, ScopePath
<1>6. Placed(M, w)
  <2>1. In(M, n) = {}
    BY <1>1, <1>2, DegreesOfSane
  <2> QED  BY <1>2, <1>5, <2>1 DEF Placed, BoundaryEvt
<1>7. Len(w.scope) = 0
  BY <1>5
<1>8. Chained(M, w) /\ OnLane(M, << >>, {}, w) /\ HasOwners({w}, w)
  BY <1>2, <1>5, <1>7 DEF Chained, Around, OnLane, HasOwners
<1>9. Orderly(M, {w}, << >>, {})
  BY <1>6, <1>8 DEF Orderly
<1>10. FiringsFit(M, << >>, {})
  BY DEF FiringsFit
<1>11. Good' <=> Orderly(M', tokens', fired', caught') /\ FiringsFit(M', fired', caught')
  BY DEF Good
<1>12. M' = M
  BY <1>1 DEF M
<1> QED  BY <1>1, <1>4, <1>9, <1>10, <1>11, <1>12

LEMMA StepsKeepGood ==
    ASSUME IsParsed(M), Accepts(M, W, Covered), Good, NEW t \in tokens,
           \/ Enter(t) \/ Done(t) \/ GatewayFires(t)
           \/ InterruptingFires(t) \/ SidePathFires(t)
           \/ \E code \in Codes : Fails(t, code)
    PROVE  Good' /\ status' \in {"running", "completed", "frozen"} /\ given' = given /\ warned' = warned
<1>1. Good' <=> Orderly(M', tokens', fired', caught') /\ FiringsFit(M', fired', caught')
  BY DEF Good
<1>2. Orderly(M, tokens, fired, caught) /\ FiringsFit(M, fired, caught)
  BY DEF Good
<1>3. given' = given => M' = M
  BY DEF M
<1>4. CASE Enter(t)
  <2>1. given' = given /\ warned' = warned /\ fired' = fired /\ caught' = caught
    BY <1>4 DEF Enter
  <2>2. Orderly(M, tokens', fired, caught) /\ status' \in {"running", "completed"}
    BY <1>4, EntersSoundly
  <2> QED  BY <1>1, <1>2, <1>3, <2>1, <2>2
<1>5. CASE Done(t) \/ GatewayFires(t) \/ InterruptingFires(t)
  <2>1. given' = given /\ warned' = warned /\ fired' = fired /\ caught' = caught
    BY <1>5 DEF Done, GatewayFires, InterruptingFires
  <2>2. Orderly(M, tokens', fired, caught) /\ status' \in {"running", "completed"}
    BY <1>5, WaitsEndSoundly
  <2> QED  BY <1>1, <1>2, <1>3, <2>1, <2>2
<1>6. CASE SidePathFires(t)
  <2>1. given' = given /\ warned' = warned /\ caught' = caught
    BY <1>6 DEF SidePathFires
  <2>2. /\ Orderly(M, tokens', fired', caught) /\ FiringsFit(M, fired', caught)
        /\ status' \in {"running", "completed"}
    BY <1>6, SidePathsStartSoundly
  <2> QED  BY <1>1, <1>3, <2>1, <2>2
<1>7. ASSUME NEW code \in Codes, Fails(t, code)
      PROVE  Good' /\ status' \in {"running", "completed", "frozen"} /\ given' = given /\ warned' = warned
  <2>1. given' = given /\ warned' = warned /\ fired' = fired
    BY <1>7 DEF Fails
  <2>2. /\ Orderly(M, tokens', fired, caught') /\ caught \subseteq caught'
        /\ status' \in {"running", "completed", "frozen"}
    BY <1>7, FailuresSound
  <2>3. PICK ct2 : ct2 = caught'
    OBVIOUS
  <2>4. FiringsFit(M, fired, ct2)
    BY <1>2, <2>2, <2>3, FiringsStayFit
  <2> QED  BY <1>1, <1>3, <2>1, <2>2, <2>3, <2>4
<1> QED  BY <1>4, <1>5, <1>6, <1>7

LEMMA StepsKeepWarned ==
    ASSUME IsParsed(M), Accepts(M, W, Covered), Good, warned = Warnings(M), EscapesAreWarned,
           NEW t \in tokens,
           \/ Enter(t) \/ Done(t) \/ GatewayFires(t)
           \/ InterruptingFires(t) \/ SidePathFires(t)
           \/ \E code \in Codes : Fails(t, code)
    PROVE  EscapesAreWarned'
<1>1. given' = given /\ warned' = warned /\ (given' = given => M' = M)
  BY StepsKeepGood DEF M
<1>2. ASSUME NEW code \in Codes, Fails(t, code), NEW e \in escaped', e \notin escaped
      PROVE  \E x \in warned : /\ x.rule = "failure" /\ x.boundary = e.boundary
                               /\ e.at = x.at \/ e.at \in Body(M, x.at)
  <2>1. /\ t.lane > 0 /\ e = Escape(t) /\ M.kind[t.at] \in {"service", "user"}
        /\ \A u \in Nearest(Catching(t, code)) : u.lane # t.lane
    BY <1>2 DEF Fails, Catching, Nearest
  <2>2. Sane(M)
    BY AcceptedIsSane
  <2>3. \E x \in warned :
             /\ x.rule = "failure" /\ x.boundary = fired[t.lane].boundary
             /\ t.at = x.at \/ t.at \in Body(M, x.at)
    BY <2>1, <2>2, EscapeIsWarned
  <2>4. e.boundary = fired[t.lane].boundary /\ e.at = t.at
    BY <2>1 DEF Escape
  <2> QED  BY <2>3, <2>4
<1>3. (\A code \in Codes : ~Fails(t, code)) => escaped' = escaped
  BY DEF Enter, Done, GatewayFires, InterruptingFires, SidePathFires
<1>4. \A e \in escaped' :
        \E x \in warned : /\ x.rule = "failure" /\ x.boundary = e.boundary
                          /\ e.at = x.at \/ e.at \in Body(M, x.at)
  BY <1>2, <1>3 DEF EscapesAreWarned
<1>5. EscapesAreWarned' <=>
        \A e \in escaped' :
            \E x \in warned' : /\ x.rule = "failure" /\ x.boundary = e.boundary
                               /\ e.at = x.at \/ e.at \in Body(M', x.at)
  BY DEF EscapesAreWarned
<1> QED  BY <1>1, <1>4, <1>5

LEMMA AdmittedIsKept ==
    ASSUME Admitted, [Next]_vars PROVE Admitted'
<1>1. CASE Revise
  <2>1. given' \in {d \in Revision(given, revised + 1) : IsParsed(d.model)} /\ status = "submitted"
        /\ UNCHANGED <<status, tokens, fired, escaped, caught>>
    BY <1>1 DEF Revise
  <2>2. IsParsed(given'.model)
    BY <2>1
  <2>3. escaped = {}
    BY <2>1 DEF Admitted
  <2> QED  BY <2>1, <2>2, <2>3 DEF Admitted, EscapesAreWarned, M
<1>2. CASE Accept
  <2>1. Good'
    BY <1>2, StartsSoundly
  <2>2. /\ given' = given /\ warned' = Warnings(M) /\ status' = "running" /\ Accepts(M, W, Covered)
        /\ escaped' = escaped /\ escaped = {}
    BY <1>2 DEF Accept, Admitted
  <2> QED  BY <2>1, <2>2 DEF Admitted, EscapesAreWarned, M, W
<1>3. CASE Refuse
  <2>1. /\ given' = given /\ status' = "refused"
        /\ UNCHANGED <<given, revised, warned, tokens, fired, escaped, caught>>
        /\ escaped = {} /\ status = "submitted"
    BY <1>3 DEF Refuse, Admitted
  <2> QED  BY <2>1 DEF Admitted, EscapesAreWarned, M
<1>4. ASSUME NEW t \in tokens,
             \/ Enter(t) \/ Done(t) \/ GatewayFires(t)
             \/ InterruptingFires(t) \/ SidePathFires(t)
             \/ \E code \in Codes : Fails(t, code)
      PROVE  Admitted'
  <2>1. status \notin {"submitted", "refused"}
    BY <1>4 DEF Enter, Done, GatewayFires, InterruptingFires, SidePathFires, Fails, Rests
  <2>2. IsParsed(M) /\ Accepts(M, W, Covered) /\ warned = Warnings(M) /\ Good /\ EscapesAreWarned
    BY <2>1 DEF Admitted
  <2>3. /\ Good' /\ status' \in {"running", "completed", "frozen"} /\ given' = given
        /\ warned' = warned
    BY <1>4, <2>2, StepsKeepGood
  <2>4. EscapesAreWarned'
    BY <1>4, <2>2, StepsKeepWarned
  <2>5. M' = M /\ W' = W
    BY <2>3 DEF M, W
  <2> QED  BY <2>2, <2>3, <2>4, <2>5 DEF Admitted
<1>5. CASE UNCHANGED vars
  <2>1. given' = given /\ UNCHANGED <<status, warned, tokens, fired, escaped, caught>>
    BY <1>5 DEF vars
  <2>2. M' = M /\ W' = W
    BY <2>1 DEF M, W
  <2>3. Good' <=> Good
    BY <2>1, <2>2 DEF Good
  <2>4. EscapesAreWarned' <=> EscapesAreWarned
    BY <2>1, <2>2 DEF EscapesAreWarned
  <2> QED  BY <2>1, <2>2, <2>3, <2>4 DEF Admitted
<1> QED  BY <1>1, <1>2, <1>3, <1>4, <1>5 DEF Next

(* Whatever model was accepted, while it runs its tokens stay where the    *)
(* linter's rules leave them: placed, on their lane, in nested scopes with *)
(* waiting owners, and pairwise apart by a split; and every escape so far  *)
(* was warned of.                                                          *)
THEOREM TokensStayInOrder == Spec => []Admitted
<1>1. Init => Admitted
  BY DEF Init, Admitted, EscapesAreWarned, M
<1>2. Admitted /\ [Next]_vars => Admitted'
  BY AdmittedIsKept
<1> QED  BY <1>1, <1>2, PTL DEF Spec

(* The instances of an accepted model run on a graph that is as            *)
(* ProcessGraph assumes, its blocks and side paths included: what the      *)
(* theorems about InstanceStep rest on is what deployment enforces.        *)
THEOREM GraphsFit == Spec => []AcceptedGraphsFit
<1>1. ASSUME Admitted PROVE AcceptedGraphsFit
  <2>1. CASE status \in {"submitted", "refused"}
    BY <2>1 DEF AcceptedGraphsFit
  <2>2. CASE status \notin {"submitted", "refused"}
    <3>1. IsParsed(M) /\ LintsClean(M) /\ IsExecutable(M)
      BY <1>1, <2>2, AcceptedIsSane DEF Admitted, Sane
    <3>2. GraphIsFit(M)
      BY <3>1, CleanIsFit
    <3>3. BlocksFit(M)
      BY ONLY <3>1, CleanHasBlocks
    <3> QED  BY <3>2, <3>3 DEF AcceptedGraphsFit
  <2> QED  BY <2>1, <2>2
<1> QED  BY <1>1, TokensStayInOrder, PTL

(* No run of an accepted model meets what the step machine cannot do, a    *)
(* second token on a join's flow or a node that is not wired, and none has *)
(* two tokens of one lane at one task: what is linted never runs twice.    *)
THEOREM AcceptedRuns == Spec => []AcceptedModelsRun
<1>1. Admitted => AcceptedModelsRun
  BY DEF Admitted, AcceptedModelsRun
<1> QED  BY <1>1, TokensStayInOrder, PTL

(* A failure leaves its side path, and an arm is opened a second time by a *)
(* side path, only where deploying the model returned a warning of it.     *)
THEOREM NothingSurprises == Spec => []SurprisesAreWarned
<1>1. ASSUME Admitted PROVE SurprisesAreWarned
  <2>1. EscapesAreWarned
    BY <1>1 DEF Admitted
  <2>2. RepeatedArmsAreWarned
    <3>1. CASE status \in {"submitted", "refused"}
      BY <1>1, <3>1 DEF Admitted, RepeatedArmsAreWarned
    <3>2. CASE status \notin {"submitted", "refused"}
      BY <1>1, <3>2, AcceptedIsSane, ArmsAreWarned DEF Admitted
    <3> QED  BY <3>1, <3>2
  <2> QED  BY <2>1, <2>2 DEF SurprisesAreWarned
<1> QED  BY <1>1, TokensStayInOrder, PTL

(* While a host waits behind a message boundary, no other arm of its own,  *)
(* in its body or on the side path a delivery has started beside it takes  *)
(* the same messages: what check_deploy refuses covers every run.          *)
THEOREM MessagesFindOneArm == Spec => []DeliveriesAreUnambiguous
<1>1. ASSUME Admitted PROVE DeliveriesAreUnambiguous
  <2>1. CASE status \in {"submitted", "refused"}
    BY <1>1, <2>1 DEF Admitted, DeliveriesAreUnambiguous
  <2>2. CASE status \notin {"submitted", "refused"}
    BY <1>1, <2>2, NoDeliveryIsAmbiguous DEF Admitted
  <2> QED  BY <2>1, <2>2
<1> QED  BY <1>1, TokensStayInOrder, PTL

-----------------------------------------------------------------------------
(* Joins are fed.                                                          *)

(* What is in a branch came into it from its split: by a flow of the       *)
(* branch, by the branch's own first flow, or as a boundary that cancels   *)
(* its host.                                                               *)
LEMMA BranchEntry ==
    ASSUME NEW m, Sane(m), NEW s, NEW j, IsBlock(m, s, j), NEW f \in Out(m, s),
           NEW n \in Branch(m, s, j, f)
    PROVE  /\ n \in Nodes(m) /\ m.kind[n] \notin {"start", "end"}
           /\ n \in DOMAIN m.host => n \in m.cancels /\ m.host[n] \in Branch(m, s, j, f)
           /\ \A h \in In(m, n) : m.from[h] \in Branch(m, s, j, f) \/ h = f
<1> DEFINE barred == [RegionSuccs(m) EXCEPT ![s] = {}, ![j] = {}]
           B == Branch(m, s, j, f)
           X == {x \in Reach({m.to[f]}, barred) :
                    /\ x \in DOMAIN m.host => x \in m.cancels /\ m.host[x] \in B
                    /\ m.kind[x] # "start"}
<1>0. /\ s \in Splits(m) /\ j \in MatchingJoins(m, s) /\ Closes(m, s, j)
      /\ s \in Nodes(m) /\ j \in Nodes(m)
      /\ f \in Flows(m) /\ m.from[f] = s /\ m.to[f] \in Nodes(m)
  BY GraphOfSane DEF IsBlock, MatchingJoins, JoinCandidates, Joins, Splits, OfKind, Out
<1>1. /\ barred \in [Nodes(m) -> SUBSET Nodes(m)] /\ barred[s] = {} /\ barred[j] = {}
      /\ \A x \in Nodes(m) \ {s, j} : barred[x] = RegionSuccs(m)[x]
  BY <1>0, RegionSuccsOfSane
<1>2. B = Reach({m.to[f]}, barred) \ {s, j}
  BY DEF Branch
<1> HIDE DEF barred
<1>3. IsFiniteSet(Nodes(m)) /\ {m.to[f]} \in SUBSET Nodes(m) /\ DOMAIN barred = Nodes(m)
  BY <1>0, <1>1, GraphOfSane
<1>4. /\ Reach({m.to[f]}, barred) \subseteq Nodes(m) /\ m.to[f] \in Reach({m.to[f]}, barred)
      /\ \A x \in Reach({m.to[f]}, barred) : barred[x] \subseteq Reach({m.to[f]}, barred)
  BY <1>1, <1>3, ReachIsClosed, ReachHasSeeds
<1>5. \A x \in Nodes(m) : In(m, x) # {} => x \notin DOMAIN m.host /\ m.kind[x] # "start"
  BY GraphOfSane, DegreesOfSane
<1>6. {m.to[f]} \subseteq X
  <2>1. In(m, m.to[f]) # {}
    BY <1>0 DEF In
  <2> QED  BY <1>0, <1>4, <1>5, <2>1
<1>7. ASSUME NEW x \in X, NEW y \in barred[x] PROVE y \in X
  <2>1. x \in Nodes(m) \ {s, j} /\ x \in B /\ y \in Reach({m.to[f]}, barred) /\ y \in Nodes(m)
    BY <1>1, <1>2, <1>4, <1>7
  <2>2. y \in RegionSuccs(m)[x]
    BY <1>1, <1>7, <2>1
  <2>3. CASE \E h \in Out(m, x) : y = m.to[h]
    <3>1. In(m, y) # {}
      BY <2>3 DEF In, Out
    <3> QED  BY <1>5, <2>1, <3>1
  <2>4. CASE y \in BoundariesOn(m, x) /\ y \in m.cancels
    <3>1. y \in DOMAIN m.host /\ m.host[y] = x /\ m.kind[y] \in BoundaryEvt
      BY <2>4, GraphOfSane DEF BoundariesOn
    <3> QED  BY <2>1, <2>4, <3>1 DEF BoundaryEvt
  <2> QED  BY <2>1, <2>2, <2>3, <2>4 DEF RegionSuccs
<1> HIDE DEF X
<1>8. Reach({m.to[f]}, barred) \subseteq X
  BY <1>3, <1>6, <1>7, ReachIsLeast
<1>9. n \in Nodes(m) /\ m.kind[n] # "start"
      /\ (n \in DOMAIN m.host => n \in m.cancels /\ m.host[n] \in B)
  BY <1>2, <1>4, <1>8 DEF X
<1>10. /\ m.kind[n] # "end"
       /\ \A h \in In(m, n) : \/ m.from[h] = s
                              \/ \E g \in Out(m, s) : m.from[h] \in Branch(m, s, j, g)
  <2> DEFINE branch == [g \in Out(m, s) |-> Branch(m, s, j, g)]
             region == UNION {branch[g] : g \in Out(m, s)}
  <2>1. \A g \in Out(m, s) : branch[g] = Branch(m, s, j, g)
    OBVIOUS
  <2>2. /\ \A x \in region \union {j} : \A h \in In(m, x) : m.from[h] \in region \union {s}
        /\ \A x \in region : m.kind[x] \notin Ending \ {"terminate"}
    BY <1>0 DEF Closes
  <2>3. n \in region
    BY <2>1
  <2>4. \A x \in region : \E g \in Out(m, s) : x \in Branch(m, s, j, g)
    BY <2>1
  <2> HIDE DEF branch, region
  <2>5. m.kind[n] # "end"
    BY <2>2, <2>3 DEF Ending
  <2> QED  BY <2>2, <2>3, <2>4, <2>5
<1>11. ASSUME NEW h \in In(m, n) PROVE m.from[h] \in B \/ h = f
  <2>0. h \in Flows(m) /\ m.to[h] = n /\ h \in Out(m, m.from[h]) /\ n # j
    BY <1>0, BranchOfSane DEF In, Out
  <2>1. CASE m.from[h] = s
    <3>1. h \in Out(m, s)
      BY <2>0, <2>1
    <3>2. n \in Branch(m, s, j, h)
      BY <1>0, <2>0, <3>1, BranchOfSane
    <3>3. h # f => Branch(m, s, j, h) \intersect Branch(m, s, j, f) = {}
      BY <1>0, <3>1, BranchOfSane
    <3> QED  BY <3>2, <3>3
  <2>2. CASE m.from[h] # s
    <3>1. PICK g \in Out(m, s) : m.from[h] \in Branch(m, s, j, g)
      BY <1>10, <2>2
    <3>2. n \in Branch(m, s, j, g)
      BY <1>0, <2>0, <3>1, BranchOfSane
    <3>3. g # f => Branch(m, s, j, g) \intersect Branch(m, s, j, f) = {}
      BY <1>0, <3>1, BranchOfSane
    <3> QED  BY <3>1, <3>2, <3>3
  <2> QED  BY <2>1, <2>2
<1> QED  BY <1>9, <1>10, <1>11

(* A join has one flow from each branch of its split, and no other.        *)
LEMMA JoinEntry ==
    ASSUME NEW m, Sane(m), NEW s, NEW j, IsBlock(m, s, j), NEW h \in In(m, j)
    PROVE  /\ \E f \in Out(m, s) : h = f \/ m.from[h] \in Branch(m, s, j, f)
           /\ \A f \in Out(m, s), g \in In(m, j) :
                /\ m.from[h] \in Branch(m, s, j, f) /\ m.from[g] \in Branch(m, s, j, f) => g = h
                /\ h = f => m.from[g] \notin Branch(m, s, j, f)
                /\ h = f => Branch(m, s, j, f) = {}
<1>0. /\ s \in Splits(m) /\ j \in MatchingJoins(m, s) /\ Closes(m, s, j)
      /\ s \in Nodes(m) /\ j \in Nodes(m) /\ IsFiniteSet(Flows(m))
      /\ h \in Flows(m) /\ m.to[h] = j
  BY GraphOfSane DEF IsBlock, MatchingJoins, JoinCandidates, Joins, Splits, OfKind, Out, In
<1>1. /\ \A f \in In(m, j) : \/ m.from[f] = s
                             \/ \E g \in Out(m, s) : m.from[f] \in Branch(m, s, j, g)
      /\ \A f \in Out(m, s) :
            Cardinality({g \in In(m, j) : m.from[g] \in Branch(m, s, j, f)})
              + (IF m.to[f] = j THEN 1 ELSE 0) = 1
  <2> DEFINE branch == [g \in Out(m, s) |-> Branch(m, s, j, g)]
             region == UNION {branch[g] : g \in Out(m, s)}
  <2>1. \A g \in Out(m, s) : branch[g] = Branch(m, s, j, g)
    OBVIOUS
  <2>2. /\ \A x \in region \union {j} : \A k \in In(m, x) : m.from[k] \in region \union {s}
        /\ \A g \in Out(m, s) : Cardinality({k \in In(m, j) : m.from[k] \in branch[g]})
                                  + (IF m.to[g] = j THEN 1 ELSE 0) = 1
    BY <1>0 DEF Closes
  <2>3. \A x \in region : \E g \in Out(m, s) : x \in Branch(m, s, j, g)
    BY <2>1
  <2> HIDE DEF branch, region
  <2> QED  BY <2>1, <2>2, <2>3
<1>2. \E f \in Out(m, s) : h = f \/ m.from[h] \in Branch(m, s, j, f)
  <2>1. m.from[h] = s => h \in Out(m, s)
    BY <1>0 DEF Out
  <2> QED  BY <1>1, <2>1
<1>3. ASSUME NEW f \in Out(m, s), NEW g \in In(m, j)
      PROVE  /\ m.from[h] \in Branch(m, s, j, f) /\ m.from[g] \in Branch(m, s, j, f) => g = h
             /\ h = f => m.from[g] \notin Branch(m, s, j, f)
             /\ h = f => Branch(m, s, j, f) = {}
  <2> DEFINE H == {k \in In(m, j) : m.from[k] \in Branch(m, s, j, f)}
  <2>1. IsFiniteSet(H)
    <3>1. H \subseteq Flows(m)
      BY DEF In
    <3> QED  BY <1>0, <3>1, FS_Subset
  <2>2. Cardinality(H) \in Nat /\ Cardinality(H) + (IF m.to[f] = j THEN 1 ELSE 0) = 1
    BY <1>1, <2>1, FS_CardinalityType
  <2>3. \A k \in In(m, j) : m.from[k] \in Branch(m, s, j, f) => k \in H
    OBVIOUS
  <2> HIDE DEF H
  <2>4. Cardinality(H) = 0 => H = {}
    BY <2>1, FS_EmptySet
  <2>5. Cardinality(H) = 1 => \A x, y \in H : x = y
    <3> SUFFICES ASSUME Cardinality(H) = 1, NEW x \in H, NEW y \in H PROVE x = y
      OBVIOUS
    <3>1. PICK z : H = {z}
      BY <2>1, FS_Singleton
    <3> QED  BY <3>1
  <2>6. CASE m.to[f] = j
    <3>1. H = {}
      BY <2>2, <2>4, <2>6
    <3>2. Branch(m, s, j, f) = {}
      <4> DEFINE barred == [RegionSuccs(m) EXCEPT ![s] = {}, ![j] = {}]
      <4>1. DOMAIN barred = Nodes(m) /\ barred[j] = {}
        BY <1>0, RegionSuccsOfSane
      <4>2. Branch(m, s, j, f) = Reach({j}, barred) \ {s, j}
        BY <2>6 DEF Branch
      <4> HIDE DEF barred
      <4>3. IsFiniteSet(DOMAIN barred) /\ {j} \subseteq {j} /\ \A n \in {j} : barred[n] \subseteq {j}
        BY <4>1, GraphOfSane
      <4>4. Reach({j}, barred) \subseteq {j}
        BY <4>3, ReachIsLeast
      <4> QED  BY <4>2, <4>4
    <3> QED  BY <2>3, <3>1, <3>2
  <2>7. CASE m.to[f] # j
    <3>1. Cardinality(H) = 1
      BY <2>2, <2>7
    <3>2. h # f
      BY <1>0, <2>7
    <3> QED  BY <2>3, <2>5, <3>1, <3>2
  <2> QED  BY <2>6, <2>7
<1> QED  BY <1>2, <1>3

(* Of two blocks that share a node, one is within a branch of the other.   *)
LEMMA BlocksNest ==
    ASSUME NEW m, Sane(m), NEW s, NEW j, IsBlock(m, s, j), NEW f \in Out(m, s),
           NEW r, NEW i, IsBlock(m, r, i), NEW g \in Out(m, r), s # r,
           NEW x \in Branch(m, s, j, f), x \in Branch(m, r, i, g)
    PROVE  s \in Branch(m, r, i, g) \/ r \in Branch(m, s, j, f)
<1> SUFFICES ASSUME s \notin Branch(m, r, i, g), r \notin Branch(m, s, j, f) PROVE FALSE
  OBVIOUS
<1> DEFINE P == Branch(m, s, j, f) \intersect Branch(m, r, i, g)
<1>1. m.from[f] = s /\ m.from[g] = r
  BY DEF Out
<1>2. ASSUME NEW n \in P
      PROVE  /\ n \in Nodes(m) /\ m.kind[n] # "start"
             /\ \A h \in In(m, n) : m.from[h] \in P
             /\ n \in DOMAIN m.host => m.host[n] \in P
  <2>1. /\ n \in Nodes(m) /\ m.kind[n] # "start"
        /\ n \in DOMAIN m.host => m.host[n] \in Branch(m, s, j, f)
        /\ \A h \in In(m, n) : m.from[h] \in Branch(m, s, j, f) \/ h = f
    BY BranchEntry
  <2>2. /\ n \in DOMAIN m.host => m.host[n] \in Branch(m, r, i, g)
        /\ \A h \in In(m, n) : m.from[h] \in Branch(m, r, i, g) \/ h = g
    BY BranchEntry
  <2> QED  BY <1>1, <2>1, <2>2
<1> HIDE DEF P
<1>3. P \in SUBSET Nodes(m) /\ x \in P
  BY <1>2 DEF P
<1>4. \A n \in P : In(m, n) = {}
  BY <1>2, <1>3, NoIsland
<1>5. PICK y \in P : In(m, y) # {}
  <2>1. CASE x \in DOMAIN m.host
    <3>1. m.host[x] \in P /\ m.host[x] \in Nodes(m) /\ m.kind[m.host[x]] \in SupportedHost
      BY <1>2, <1>3, <2>1, GraphOfSane
    <3> QED  BY <3>1, DegreesOfSane
  <2>2. CASE x \notin DOMAIN m.host
    <3>1. x \in Nodes(m) /\ m.kind[x] # "start" /\ m.kind[x] \notin BoundaryEvt
      BY <1>2, <1>3, <2>2, GraphOfSane
    <3>2. m.kind[x] \in {"end", "terminate"} \union Gateway \union SupportedHost
                          \union {"rule", "timer", "message"}
      BY <3>1, GraphOfSane DEF SupportedElement, Starting, Ending
    <3>3. In(m, x) # {}
      BY <3>1, <3>2, DegreesOfSane
    <3> QED  BY <1>3, <3>3
  <2> QED  BY <2>1, <2>2
<1> QED  BY <1>4, <1>5

LEMMA NoMutualNesting ==
    ASSUME NEW m, Sane(m), NEW s, NEW j, IsBlock(m, s, j), NEW f \in Out(m, s),
           NEW r, NEW i, IsBlock(m, r, i), NEW g \in Out(m, r), s \in Branch(m, r, i, g)
    PROVE  r \notin Branch(m, s, j, f)
<1> SUFFICES ASSUME r \in Branch(m, s, j, f) PROVE FALSE
  OBVIOUS
<1> DEFINE P == Branch(m, s, j, f) \union Branch(m, r, i, g)
<1>1. m.from[f] = s /\ m.from[g] = r
  BY DEF Out
<1>2. ASSUME NEW n \in P
      PROVE  /\ n \in Nodes(m) /\ m.kind[n] # "start"
             /\ \A h \in In(m, n) : m.from[h] \in P
             /\ n \in DOMAIN m.host => m.host[n] \in P
  <2>1. CASE n \in Branch(m, s, j, f)
    <3>1. /\ n \in Nodes(m) /\ m.kind[n] # "start"
          /\ n \in DOMAIN m.host => m.host[n] \in Branch(m, s, j, f)
          /\ \A h \in In(m, n) : m.from[h] \in Branch(m, s, j, f) \/ h = f
      BY <2>1, BranchEntry
    <3> QED  BY <1>1, <3>1
  <2>2. CASE n \in Branch(m, r, i, g)
    <3>1. /\ n \in Nodes(m) /\ m.kind[n] # "start"
          /\ n \in DOMAIN m.host => m.host[n] \in Branch(m, r, i, g)
          /\ \A h \in In(m, n) : m.from[h] \in Branch(m, r, i, g) \/ h = g
      BY <2>2, BranchEntry
    <3> QED  BY <1>1, <3>1
  <2> QED  BY <2>1, <2>2
<1>3. s \in P
  OBVIOUS
<1> HIDE DEF P
<1>4. P \in SUBSET Nodes(m) /\ In(m, s) = {}
  BY <1>2, <1>3, NoIsland
<1>5. s \in Nodes(m) /\ m.kind[s] \in Gateway
  BY DEF IsBlock, Splits, OfKind, Gateway
<1> QED  BY <1>4, <1>5, DegreesOfSane

(* The same of two blocks that share a flow.                               *)
LEMMA BlocksThatShare ==
    ASSUME NEW m, Sane(m), NEW s, NEW j, IsBlock(m, s, j), NEW f \in Out(m, s),
           NEW r, NEW i, IsBlock(m, r, i), NEW g \in Out(m, r), s # r,
           NEW h, m.from[h] \in Branch(m, s, j, f) \/ h = f, m.from[h] \in Branch(m, r, i, g) \/ h = g
    PROVE  s \in Branch(m, r, i, g) \/ r \in Branch(m, s, j, f)
<1>1. m.from[f] = s /\ m.from[g] = r
  BY DEF Out
<1>2. CASE m.from[h] \in Branch(m, s, j, f) /\ m.from[h] \in Branch(m, r, i, g)
  BY <1>2, BlocksNest
<1> QED  BY <1>1, <1>2

(* A join that lies in one branch of another block has its whole block in  *)
(* that branch.                                                            *)
LEMMA JoinsOwnBranch ==
    ASSUME NEW m, Sane(m), NEW s, NEW j, IsBlock(m, s, j),
           NEW r, NEW i, IsBlock(m, r, i), s # r, NEW g \in Out(m, r), j \in Branch(m, r, i, g)
    PROVE  s \in Branch(m, r, i, g)
<1> SUFFICES ASSUME s \notin Branch(m, r, i, g) PROVE FALSE
  OBVIOUS
<1>1. s \in Splits(m) /\ j \in MatchingJoins(m, s)
  BY DEF IsBlock
<1>2. ASSUME NEW f \in Out(m, s) PROVE r \in Branch(m, s, j, f)
  <2>1. PICK h \in In(m, j) : m.from[h] \in Branch(m, s, j, f) \/ h = f
    BY <1>1, BranchOfSane
  <2>2. m.from[h] \in Branch(m, r, i, g) \/ h = g
    BY BranchEntry
  <2> QED  BY <2>1, <2>2, BlocksThatShare
<1>3. PICK e \in Out(m, s), f \in Out(m, s) : e # f
  BY <1>1 DEF Splits, Several
<1>4. Branch(m, s, j, e) \intersect Branch(m, s, j, f) = {}
  BY <1>1, <1>3, BranchOfSane
<1> QED  BY <1>2, <1>4

(* Nothing in a block is in another branch of a block around it.           *)
LEMMA BlockKeepsToBranch ==
    ASSUME NEW m, Sane(m), NEW s, NEW j, IsBlock(m, s, j), NEW f \in Out(m, s),
           NEW r, NEW i, IsBlock(m, r, i), s # r, NEW g \in Out(m, r), NEW h \in Out(m, r), g # h,
           s \in Branch(m, r, i, g),
           NEW at \in Branch(m, s, j, f), NEW via, Within(m, at, via, r, i, h)
    PROVE  FALSE
<1>1. r \in Splits(m) /\ i \in MatchingJoins(m, r)
  BY DEF IsBlock
<1>2. Branch(m, r, i, g) \intersect Branch(m, r, i, h) = {}
  BY <1>1, BranchOfSane
<1>3. r \notin Branch(m, s, j, f)
  BY NoMutualNesting
<1>4. s \notin Branch(m, r, i, h)
  BY <1>2
<1>5. CASE at \in Branch(m, r, i, h)
  BY <1>3, <1>4, <1>5, BlocksNest
<1>6. CASE at = i
  <2>1. PICK e \in In(m, i) : m.from[e] \in Branch(m, r, i, h) \/ e = h
    BY <1>1, BranchOfSane
  <2>2. m.from[e] \in Branch(m, s, j, f) \/ e = f
    BY <1>6, <2>1, BranchEntry
  <2> QED  BY <1>3, <1>4, <2>1, <2>2, BlocksThatShare
<1> QED  BY <1>5, <1>6 DEF Within

(* Where a token stands in a block, it stands after a step, unless it      *)
(* passes the split or the join.                                           *)
LEMMA WithinStays ==
    ASSUME NEW m, Sane(m), NEW s, NEW j, IsBlock(m, s, j), NEW x \in Out(m, s),
           NEW at \in Nodes(m), m.kind[at] \notin BoundaryEvt, at # s, at # j,
           NEW n, Springs(m, at, n), NEW f \in Out(m, n), NEW via
    PROVE  Within(m, at, via, s, j, x) <=> Within(m, m.to[f], f, s, j, x)
<1>1. s \in Splits(m) /\ j \in MatchingJoins(m, s) /\ m.kind[s] = "parallel" /\ m.kind[j] = "parallel"
  BY DEF IsBlock, MatchingJoins, JoinCandidates, Joins, Splits, OfKind
<1>2. m.from[f] = n /\ f \in In(m, m.to[f]) /\ m.from[x] = s
  BY DEF In, Out
<1>3. n = at \/ m.kind[n] # "parallel"
  BY SpringsOfSane
<1>4. n # s /\ n # j
  BY <1>1, <1>3
<1>5. n \in Branch(m, s, j, x) <=> at \in Branch(m, s, j, x)
  <2>1. ASSUME at \in Branch(m, s, j, x) PROVE n \in Branch(m, s, j, x)
    <3>1. CASE n = at
      BY <2>1, <3>1
    <3>2. CASE n \in BoundariesOn(m, at) /\ n \in m.cancels
      BY <1>1, <2>1, <3>2, BranchOfSane DEF BoundariesOn
    <3>3. CASE \E h \in Out(m, at) : n = m.to[h]
      BY <1>1, <1>4, <2>1, <3>3, BranchOfSane
    <3> QED  BY <3>1, <3>2, <3>3 DEF Springs
  <2>2. ASSUME n \in Branch(m, s, j, x) PROVE at \in Branch(m, s, j, x)
    <3>1. CASE n = at
      BY <2>2, <3>1
    <3>2. CASE n \in BoundariesOn(m, at) /\ n \in m.cancels
      BY <2>2, <3>2, BranchEntry DEF BoundariesOn
    <3>3. CASE \E h \in Out(m, at) : n = m.to[h]
      <4>1. PICK h \in Out(m, at) : n = m.to[h]
        BY <3>3
      <4>2. h \in In(m, n) /\ m.from[h] = at
        BY <4>1 DEF In, Out
      <4>3. at \in Branch(m, s, j, x) \/ h = x
        BY <2>2, <4>2, BranchEntry
      <4> QED  BY <1>2, <4>2, <4>3
    <3> QED  BY <3>1, <3>2, <3>3 DEF Springs
  <2> QED  BY <2>1, <2>2
<1>6. ASSUME n \in Branch(m, s, j, x) PROVE Within(m, m.to[f], f, s, j, x)
  BY <1>6, WithinGoesOn
<1>7. ASSUME Within(m, m.to[f], f, s, j, x) PROVE n \in Branch(m, s, j, x)
  <2>1. CASE m.to[f] \in Branch(m, s, j, x)
    BY <1>2, <1>4, <2>1, BranchEntry
  <2>2. CASE m.to[f] = j /\ (f = x \/ m.from[f] \in Branch(m, s, j, x))
    BY <1>2, <1>4, <2>2
  <2> QED  BY <1>7, <2>1, <2>2 DEF Within
<1>8. Within(m, at, via, s, j, x) <=> at \in Branch(m, s, j, x)
  BY DEF Within
<1> QED  BY <1>5, <1>6, <1>7, <1>8

-----------------------------------------------------------------------------
(* Branches are populated together.                                        *)

(* While a token is in one branch of a block, each branch has a token of   *)
(* the same scope and lane, which is in it or has come to the join.        *)
Fed(m, ts) ==
    \A t \in ts : \A s, j : IsBlock(m, s, j) =>
        \A f, g \in Out(m, s) : Within(m, t.at, t.via, s, j, f) =>
            \E u \in ts : u.scope = t.scope /\ u.lane = t.lane /\ Within(m, u.at, u.via, s, j, g)

(* A token in no block.                                                    *)
Loose(m, t) == \A s, j : IsBlock(m, s, j) => \A f \in Out(m, s) : ~Within(m, t.at, t.via, s, j, f)

LEMMA FedIs ==
    ASSUME NEW m, NEW ts, Fed(m, ts), NEW t \in ts, NEW s, NEW j, IsBlock(m, s, j),
           NEW f \in Out(m, s), NEW g \in Out(m, s), Within(m, t.at, t.via, s, j, f)
    PROVE  \E u \in ts : u.scope = t.scope /\ u.lane = t.lane /\ Within(m, u.at, u.via, s, j, g)
BY DEF Fed

(* Whole scopes leave, or tokens in no block.                              *)
LEMMA FedLess ==
    ASSUME NEW m, NEW ts, Fed(m, ts), NEW ts2 \in SUBSET ts,
           \A t \in ts2, u \in ts \ ts2 : t.scope # u.scope \/ t.lane # u.lane \/ Loose(m, u)
    PROVE  Fed(m, ts2)
<1> SUFFICES ASSUME NEW t \in ts2, NEW s, NEW j, IsBlock(m, s, j),
                    NEW f \in Out(m, s), NEW g \in Out(m, s), Within(m, t.at, t.via, s, j, f)
             PROVE  \E u \in ts2 : /\ u.scope = t.scope /\ u.lane = t.lane
                                   /\ Within(m, u.at, u.via, s, j, g)
  BY DEF Fed
<1>1. PICK u \in ts : u.scope = t.scope /\ u.lane = t.lane /\ Within(m, u.at, u.via, s, j, g)
  BY FedIs
<1>2. ~Loose(m, u)
  BY <1>1 DEF Loose
<1> QED  BY <1>1, <1>2

(* Tokens start in no block.                                               *)
LEMMA FedMore ==
    ASSUME NEW m, NEW ts, Fed(m, ts), NEW new, \A w \in new : Loose(m, w)
    PROVE  Fed(m, ts \union new)
<1> SUFFICES ASSUME NEW t \in ts \union new, NEW s, NEW j, IsBlock(m, s, j),
                    NEW f \in Out(m, s), NEW g \in Out(m, s), Within(m, t.at, t.via, s, j, f)
             PROVE  \E u \in ts \union new : /\ u.scope = t.scope /\ u.lane = t.lane
                                             /\ Within(m, u.at, u.via, s, j, g)
  BY DEF Fed
<1>1. ~Loose(m, t)
  BY DEF Loose
<1>2. t \in ts
  BY <1>1
<1> QED  BY <1>2, FedIs

(* Tokens take the place of others, like t: in a block either they stand   *)
(* where those stood, or they populate all its branches, or no such token  *)
(* is in it any more.                                                      *)
Replaces(m, ts, t, old, new, s, j) ==
    \/ \A x \in Out(m, s) : \A u \in old : \A w \in new :
            Within(m, u.at, u.via, s, j, x) <=> Within(m, w.at, w.via, s, j, x)
    \/ \A x \in Out(m, s) : \E w \in new : Within(m, w.at, w.via, s, j, x)
    \/ \A x \in Out(m, s) : \A v \in (ts \ old) \union new :
            v.scope = t.scope /\ v.lane = t.lane => ~Within(m, v.at, v.via, s, j, x)

LEMMA FedSwap ==
    ASSUME NEW m, NEW ts, Fed(m, ts), NEW t, NEW old \in SUBSET ts, NEW new, NEW z \in new,
           \A w \in old \union new : w.scope = t.scope /\ w.lane = t.lane,
           \A s, j : IsBlock(m, s, j) => Replaces(m, ts, t, old, new, s, j),
           NEW o \in old
    PROVE  Fed(m, (ts \ old) \union new)
<1> DEFINE ts2 == (ts \ old) \union new
<1> SUFFICES ASSUME NEW v \in ts2, NEW s, NEW j, IsBlock(m, s, j),
                    NEW f \in Out(m, s), NEW g \in Out(m, s), Within(m, v.at, v.via, s, j, f)
             PROVE  \E u \in ts2 : /\ u.scope = v.scope /\ u.lane = v.lane
                                   /\ Within(m, u.at, u.via, s, j, g)
  BY DEF Fed
<1>1. CASE ~(v.scope = t.scope /\ v.lane = t.lane)
  <2>1. v \in ts
    BY <1>1
  <2>2. PICK u \in ts : u.scope = v.scope /\ u.lane = v.lane /\ Within(m, u.at, u.via, s, j, g)
    BY <2>1, FedIs
  <2>3. u \notin old
    BY <1>1, <2>2
  <2> QED  BY <2>2, <2>3
<1>2. CASE v.scope = t.scope /\ v.lane = t.lane
  <2>1. CASE \A x \in Out(m, s) : \A u \in old : \A w \in new :
                Within(m, u.at, u.via, s, j, x) <=> Within(m, w.at, w.via, s, j, x)
    <3>1. PICK v0 \in ts : /\ v0.scope = t.scope /\ v0.lane = t.lane
                           /\ Within(m, v0.at, v0.via, s, j, f)
      <4>1. CASE v \in ts
        BY <1>2, <4>1
      <4>2. CASE v \in new
        <5>1. Within(m, o.at, o.via, s, j, f)
          BY <2>1, <4>2
        <5> QED  BY <5>1
      <4> QED  BY <4>1, <4>2
    <3>2. PICK u \in ts : u.scope = t.scope /\ u.lane = t.lane /\ Within(m, u.at, u.via, s, j, g)
      BY <3>1, FedIs
    <3>3. CASE u \in old
      <4>1. Within(m, z.at, z.via, s, j, g)
        BY <2>1, <3>2, <3>3
      <4> QED  BY <1>2, <4>1
    <3>4. CASE u \notin old
      BY <1>2, <3>2, <3>4
    <3> QED  BY <3>3, <3>4
  <2>2. CASE \A x \in Out(m, s) : \E w \in new : Within(m, w.at, w.via, s, j, x)
    <3>1. PICK w \in new : Within(m, w.at, w.via, s, j, g)
      BY <2>2
    <3> QED  BY <1>2, <3>1
  <2>3. CASE \A x \in Out(m, s) : \A u \in ts2 :
                u.scope = t.scope /\ u.lane = t.lane => ~Within(m, u.at, u.via, s, j, x)
    BY <1>2, <2>3
  <2> QED  BY <2>1, <2>2, <2>3 DEF Replaces
<1> QED  BY <1>1, <1>2

(* One token moves on, along all flows that it follows.                    *)
LEMMA FedStep ==
    ASSUME NEW m, Sane(m), NEW ts, Fed(m, ts), NEW t \in ts, t.at \in Nodes(m),
           m.kind[t.at] \notin BoundaryEvt, t.at \notin Joins(m), NEW n, Springs(m, t.at, n),
           NEW F \in SUBSET Out(m, n), F # {}, n \in Splits(m) => F = Out(m, n), NEW new,
           \A w \in new : /\ w.scope = t.scope /\ w.lane = t.lane
                          /\ \E f \in F : w.at = m.to[f] /\ w.via = f,
           \A f \in F : \E w \in new : w.at = m.to[f] /\ w.via = f
    PROVE  Fed(m, (ts \ {t}) \union new)
<1>0. PICK old \in SUBSET ts : old = {t}
  OBVIOUS
<1>1. PICK z \in new : TRUE
  OBVIOUS
<1>2. ASSUME NEW s, NEW j, IsBlock(m, s, j) PROVE Replaces(m, ts, t, old, new, s, j)
  <2>1. s \in Splits(m) /\ j \in Joins(m) /\ m.kind[s] = "parallel"
    BY <1>2 DEF IsBlock, MatchingJoins, JoinCandidates, Splits, OfKind
  <2>2. CASE t.at = s
    <3>1. ~(n \in BoundariesOn(m, s))
      BY <2>1, GraphOfSane DEF BoundariesOn, SupportedHost
    <3>2. n = s
      BY <2>1, <2>2, <3>1 DEF Springs
    <3>3. ASSUME NEW x \in Out(m, s) PROVE \E w \in new : Within(m, w.at, w.via, s, j, x)
      <4>1. PICK w \in new : w.at = m.to[x] /\ w.via = x
        BY <2>1, <3>2
      <4> QED  BY <1>2, <4>1, WithinBegins
    <3> QED  BY <3>3 DEF Replaces
  <2>3. CASE t.at # s
    <3> SUFFICES ASSUME NEW x \in Out(m, s), NEW w \in new
                 PROVE  Within(m, t.at, t.via, s, j, x) <=> Within(m, w.at, w.via, s, j, x)
      BY <1>0 DEF Replaces
    <3>1. PICK f \in F : w.at = m.to[f] /\ w.via = f
      OBVIOUS
    <3>2. t.at # j
      BY <2>1
    <3>3. Within(m, t.at, t.via, s, j, x) <=> Within(m, m.to[f], f, s, j, x)
      BY <1>2, <2>3, <3>2, WithinStays
    <3> QED  BY <3>1, <3>3
  <2> QED  BY <2>2, <2>3
<1>3. t \in old /\ \A w \in old \union new : w.scope = t.scope /\ w.lane = t.lane
  BY <1>0
<1>4. Fed(m, (ts \ old) \union new)
  BY <1>1, <1>2, <1>3, FedSwap
<1> QED  BY <1>0, <1>4

(* A token stays where it is, and waits.                                   *)
LEMMA FedWait ==
    ASSUME NEW m, NEW ts, Fed(m, ts), NEW t \in ts, NEW w,
           w.at = t.at, w.scope = t.scope, w.lane = t.lane, w.via = t.via \/ t.at \notin Joins(m)
    PROVE  Fed(m, (ts \ {t}) \union {w})
<1>1. ASSUME NEW s, NEW j, IsBlock(m, s, j), NEW x \in Out(m, s)
      PROVE  Within(m, t.at, t.via, s, j, x) <=> Within(m, w.at, w.via, s, j, x)
  <2>1. j \in Joins(m)
    BY <1>1 DEF IsBlock, MatchingJoins, JoinCandidates
  <2> QED  BY <2>1 DEF Within
<1>2. \A s, j : IsBlock(m, s, j) => Replaces(m, ts, t, {t}, {w}, s, j)
  BY <1>1 DEF Replaces
<1>3. \A v \in {t} \union {w} : v.scope = t.scope /\ v.lane = t.lane
  OBVIOUS
<1> QED  BY <1>2, <1>3, FedSwap

LEMMA OneJoinEach ==
    ASSUME NEW m, Sane(m), NEW s, NEW j, IsBlock(m, s, j), NEW i, IsBlock(m, s, i)
    PROVE  i = j
<1>1. j \in Joins(m) /\ s \in Splits(m) /\ j \in MatchingJoins(m, s) /\ i \in MatchingJoins(m, s)
  BY DEF IsBlock, MatchingJoins, JoinCandidates
<1>2. PICK r \in Splits(m) : /\ MatchingJoins(m, r) = {j}
                             /\ \A q \in Splits(m) \ {r} : j \notin MatchingJoins(m, q)
  BY <1>1 DEF Sane, LintsClean, GatewaysBalance
<1>3. r = s
  BY <1>1, <1>2
<1> QED  BY <1>1, <1>2, <1>3

(* When all flows of a join have come, nothing is left behind it: a token  *)
(* that was separated from those that came is so by another block.         *)
LEMMA NoneIsLeftBehind ==
    ASSUME NEW m, Sane(m), NEW s, NEW j, IsBlock(m, s, j), NEW x \in Out(m, s),
           NEW a, a.at = j, Within(m, a.at, a.via, s, j, x), NEW v, Separate(m, a, v)
    PROVE  ~Within(m, v.at, v.via, s, j, x)
<1> SUFFICES ASSUME Within(m, v.at, v.via, s, j, x) PROVE FALSE
  OBVIOUS
<1>1. PICK r, i : /\ IsBlock(m, r, i)
                  /\ \E p, q \in Out(m, r) : /\ p # q /\ Within(m, a.at, a.via, r, i, p)
                                             /\ Within(m, v.at, v.via, r, i, q)
  BY DEF Separate
<1>2. PICK p \in Out(m, r), q \in Out(m, r) : /\ p # q /\ Within(m, a.at, a.via, r, i, p)
                                              /\ Within(m, v.at, v.via, r, i, q)
  BY <1>1
<1>3. j \in Joins(m) /\ j \in MatchingJoins(m, s) /\ s \in Splits(m)
      /\ i \in MatchingJoins(m, r) /\ r \in Splits(m)
  BY <1>1 DEF IsBlock, MatchingJoins, JoinCandidates
<1>4. r # s
  <2> SUFFICES ASSUME r = s PROVE FALSE
    OBVIOUS
  <2>1. i = j
    BY <1>1, OneJoinEach
  <2>2. p = x /\ q = x
    BY <1>2, <2>1, WithinOne
  <2> QED  BY <1>2, <2>2
<1>5. i # j
  BY <1>3, <1>4, JoinsAreMatched
<1>6. j \in Branch(m, r, i, p)
  BY <1>2, <1>5 DEF Within
<1>7. s \in Branch(m, r, i, p)
  BY <1>1, <1>2, <1>4, <1>6, JoinsOwnBranch
<1>8. CASE v.at \in Branch(m, s, j, x)
  BY <1>1, <1>2, <1>4, <1>7, <1>8, BlockKeepsToBranch
<1>9. CASE v.at = j
  <2>1. j \in Branch(m, r, i, q)
    BY <1>2, <1>5, <1>9 DEF Within
  <2>2. Branch(m, r, i, p) \intersect Branch(m, r, i, q) = {}
    BY <1>2, <1>3, BranchOfSane
  <2> QED  BY <1>6, <2>1, <2>2
<1> QED  BY <1>8, <1>9 DEF Within

LEMMA FedMerge ==
    ASSUME NEW m, Sane(m), NEW ts, NEW fr, NEW ct, Orderly(m, ts, fr, ct), FiringsFit(m, fr, ct),
           Fed(m, ts), NEW t \in ts, t.at \in Joins(m), NEW A \in SUBSET ts, t \in A,
           \A a \in A : a.at = t.at /\ a.scope = t.scope,
           \A h \in In(m, t.at) : \E a \in A : a.via = h,
           NEW f \in Out(m, t.at), NEW w,
           w.at = m.to[f], w.via = f, w.scope = t.scope, w.lane = t.lane
    PROVE  Fed(m, (ts \ A) \union {w})
<1>1. /\ m.kind[t.at] = "parallel" /\ t.at \in Nodes(m)
      /\ \A v \in ts : v \in Token(m) /\ Chained(m, v) /\ OnLane(m, fr, ct, v)
  BY DEF Joins, OfKind, Orderly, Placed
<1>2. \A a \in A : a.lane = t.lane
  BY <1>1, ParallelLane
<1>3. PICK new : new = {w}
  OBVIOUS
<1>4. ASSUME NEW s, NEW j, IsBlock(m, s, j), j # t.at PROVE Replaces(m, ts, t, A, new, s, j)
  <2> SUFFICES ASSUME NEW x \in Out(m, s), NEW u \in A
               PROVE  Within(m, u.at, u.via, s, j, x) <=> Within(m, w.at, w.via, s, j, x)
    BY <1>3 DEF Replaces
  <2>1. t.at # s
    BY <1>4, SplitsAreNotJoins DEF IsBlock
  <2>2. Springs(m, t.at, t.at) /\ m.kind[t.at] \notin BoundaryEvt
    BY <1>1 DEF Springs, BoundaryEvt
  <2>3. Within(m, t.at, u.via, s, j, x) <=> Within(m, m.to[f], f, s, j, x)
    BY <1>1, <1>4, <2>1, <2>2, WithinStays
  <2> QED  BY <2>3
<1>5. ASSUME NEW s, NEW j, IsBlock(m, s, j), j = t.at PROVE Replaces(m, ts, t, A, new, s, j)
  <2>1. s \in Splits(m) /\ j \in MatchingJoins(m, s) /\ j \in Joins(m) /\ s # j
    BY <1>5, SplitsAreNotJoins DEF IsBlock
  <2> SUFFICES ASSUME NEW x \in Out(m, s), NEW v \in (ts \ A) \union new,
                      v.scope = t.scope, v.lane = t.lane, Within(m, v.at, v.via, s, j, x)
               PROVE  FALSE
    BY DEF Replaces
  <2>2. CASE v = w
    <3>1. m.from[f] = j /\ m.from[x] = s /\ f \in In(m, m.to[f])
      BY <1>5 DEF Out, In
    <3>2. j \notin Branch(m, s, j, x)
      BY <2>1, BranchOfSane
    <3>3. m.to[f] \in Branch(m, s, j, x) => m.from[f] \in Branch(m, s, j, x) \/ f = x
      BY <1>5, <3>1, BranchEntry
    <3> QED  BY <2>1, <2>2, <3>1, <3>2, <3>3 DEF Within
  <2>3. CASE v \in ts \ A
    <3>1. PICK h \in In(m, j) : m.from[h] \in Branch(m, s, j, x) \/ h = x
      BY <2>1, BranchOfSane
    <3>2. PICK a \in A : a.via = h
      BY <1>5, <3>1
    <3>3. a.at = j /\ Within(m, a.at, a.via, s, j, x)
      BY <1>5, <3>1, <3>2 DEF Within
    <3>4. a \in ts /\ v \in ts /\ a # v /\ a.scope = v.scope /\ a.lane = v.lane
      BY <1>2, <2>3
    <3>5. Separate(m, a, v)
      BY <3>4 DEF Orderly
    <3> QED  BY <1>5, <3>3, <3>5, NoneIsLeftBehind
  <2> QED  BY <1>3, <2>2, <2>3
<1>6. \A s, j : IsBlock(m, s, j) => Replaces(m, ts, t, A, new, s, j)
  BY <1>4, <1>5
<1>7. w \in new /\ \A v \in A \union new : v.scope = t.scope /\ v.lane = t.lane
  BY <1>2, <1>3
<1>8. Fed(m, (ts \ A) \union new)
  BY <1>6, <1>7, FedSwap
<1> QED  BY <1>3, <1>8

(* Where tokens start, they are in no block.                               *)
LEMMA StartsAreLoose ==
    ASSUME NEW m, Sane(m), NEW t, m.kind[t.at] = "start"
    PROVE  Loose(m, t)
<1> SUFFICES ASSUME NEW s, NEW j, IsBlock(m, s, j), NEW f \in Out(m, s),
                    Within(m, t.at, t.via, s, j, f)
             PROVE  FALSE
  BY DEF Loose
<1>1. t.at # j
  BY DEF IsBlock, MatchingJoins, JoinCandidates, Joins, OfKind
<1>2. t.at \in Branch(m, s, j, f)
  BY <1>1 DEF Within
<1> QED  BY <1>2, BranchEntry

LEMMA SidePathsAreLoose ==
    ASSUME NEW m, Sane(m), NEW b \in SideStarts(m), NEW f \in Out(m, b), NEW t,
           t.at = m.to[f], t.via = f
    PROVE  Loose(m, t)
<1> SUFFICES ASSUME NEW s, NEW j, IsBlock(m, s, j), NEW x \in Out(m, s),
                    Within(m, t.at, t.via, s, j, x)
             PROVE  FALSE
  BY DEF Loose
<1>1. /\ m.from[f] = b /\ m.from[x] = s /\ f \in In(m, m.to[f]) /\ b \in DOMAIN m.host
      /\ b \notin m.cancels /\ m.kind[b] \in BoundaryEvt /\ m.kind[s] = "parallel"
  BY GraphOfSane DEF In, Out, SideStarts, OfKind, BoundaryEvt, IsBlock, Splits
<1>2. b # s /\ f # x
  BY <1>1 DEF BoundaryEvt
<1>3. b \notin Branch(m, s, j, x)
  BY <1>1, BranchEntry
<1>4. m.to[f] \in Branch(m, s, j, x) => b \in Branch(m, s, j, x)
  BY <1>1, <1>2, BranchEntry
<1> QED  BY <1>1, <1>2, <1>3, <1>4 DEF Within

LEMMA EndsAreLoose ==
    ASSUME NEW m, Sane(m), NEW t, m.kind[t.at] = "end"
    PROVE  Loose(m, t)
<1> SUFFICES ASSUME NEW s, NEW j, IsBlock(m, s, j), NEW f \in Out(m, s),
                    Within(m, t.at, t.via, s, j, f)
             PROVE  FALSE
  BY DEF Loose
<1>1. t.at # j
  BY DEF IsBlock, MatchingJoins, JoinCandidates, Joins, OfKind
<1>2. t.at \in Branch(m, s, j, f)
  BY <1>1 DEF Within
<1> QED  BY <1>2, BranchEntry

-----------------------------------------------------------------------------
(* Every step keeps the branches populated.                                *)

LEMMA LeavesFed ==
    ASSUME Sane(M), NEW ts, Fed(M, ts), NEW t \in ts, t.at \in Nodes(M), M.kind[t.at] \notin BoundaryEvt,
           t.at \notin Joins(M), NEW n, Springs(M, t.at, n),
           LeavesFrom(ts \ {t}, t, n), status' # "broken"
    PROVE  Fed(M, tokens')
<1>1. PICK new : new = {Along(f, t.scope, t.lane) : f \in Out(M, n)}
  OBVIOUS
<1>2. tokens' = (ts \ {t}) \union new /\ Out(M, n) # {}
  BY <1>1 DEF LeavesFrom, Goes, Breaks, Single
<1>3. PICK F \in SUBSET Out(M, n) : F = Out(M, n)
  OBVIOUS
<1>4. \A w \in new : /\ w.scope = t.scope /\ w.lane = t.lane
                     /\ \E f \in F : w.at = M.to[f] /\ w.via = f
  BY <1>1, <1>3 DEF Along, Moving
<1>5. ASSUME NEW f \in F PROVE \E w \in new : w.at = M.to[f] /\ w.via = f
  <2>1. Along(f, t.scope, t.lane) \in new
    BY <1>1, <1>3
  <2>2. Along(f, t.scope, t.lane).at = M.to[f] /\ Along(f, t.scope, t.lane).via = f
    BY DEF Along, Moving
  <2> QED  BY <2>1, <2>2
<1>6. Fed(M, (ts \ {t}) \union new)
  BY <1>2, <1>3, <1>4, <1>5, FedStep
<1> QED  BY <1>2, <1>6

LEMMA WaitsFed ==
    ASSUME Sane(M), Good, Fed(M, tokens), NEW t \in tokens, M.kind[t.at] # "parallel",
           NEW w, w = [t EXCEPT !.wait = "waiting", !.via = NoFlow]
    PROVE  Fed(M, (tokens \ {t}) \union {w})
<1>1. t \in Token(M)
  BY StandingOf
<1>2. w.at = t.at /\ w.scope = t.scope /\ w.lane = t.lane
  BY <1>1 DEF Token
<1>3. t.at \notin Joins(M)
  BY DEF Joins, OfKind
<1> QED  BY <1>2, <1>3, FedWait

LEMMA ConsumedFed ==
    ASSUME Sane(M), Good, NEW t \in tokens, NEW ts2 \in SUBSET tokens, Fed(M, ts2),
           \A o \in tokens \ ts2 : IsPrefix(t.scope, o.scope),
           Consumed(ts2, t.scope), status' # "broken"
    PROVE  Fed(M, tokens')
<1>1. CASE t.scope = << >> \/ InScope(ts2, t.scope) # {}
  <2>1. tokens' = ts2 \union {}
    BY <1>1 DEF Consumed, Goes
  <2>2. tokens' = ts2
    BY <2>1
  <2> QED  BY <2>2
<1>2. CASE t.scope # << >> /\ InScope(ts2, t.scope) = {}
  <2>1. PICK o : o = Owner(t.scope)
    OBVIOUS
  <2>2. LeavesFrom(ts2 \ {o}, o, o.at)
    BY <1>2, <2>1 DEF Consumed
  <2>3. /\ o \in tokens /\ M.kind[o.at] = "subprocess" /\ Len(o.scope) < Len(t.scope)
    BY <1>2, <2>1, OwnerIs
  <2>4. \A v \in tokens : v.scope \in Seq(Nodes(M) \X Nat) /\ v.at \in Nodes(M)
    BY StandingOf DEF ScopePath
  <2>5. ~IsPrefix(t.scope, o.scope)
    <3> SUFFICES ASSUME IsPrefix(t.scope, o.scope) PROVE FALSE
      OBVIOUS
    <3>1. Begins(t.scope, o.scope)
      BY <2>3, <2>4, PrefixBegins
    <3>2. Len(t.scope) \in Nat /\ Len(o.scope) \in Nat
      BY <2>3, <2>4
    <3> QED  BY <2>3, <3>1, <3>2 DEF Begins
  <2>6. o \in ts2 /\ o.at \in Nodes(M)
    BY <2>3, <2>4, <2>5
  <2>7. Springs(M, o.at, o.at) /\ o.at \notin Joins(M) /\ M.kind[o.at] \notin BoundaryEvt
    BY <2>3 DEF Springs, Joins, OfKind, BoundaryEvt
  <2> QED  BY <2>2, <2>6, <2>7, LeavesFed
<1> QED  BY <1>1, <1>2

LEMMA SubProcessFed ==
    ASSUME IsParsed(M), Accepts(M, W, Covered), Good, Fed(M, tokens), NEW t \in tokens,
           EnterSubProcess(t), status' # "broken"
    PROVE  Fed(M, tokens')
<1>0. Sane(M)
  BY AcceptedIsSane
<1>1. PICK w : w = [t EXCEPT !.wait = "waiting", !.via = NoFlow]
  OBVIOUS
<1>2. PICK new : new = {Moving(s, NoFlow, Append(t.scope, <<t.at, t.lane>>), t.lane) :
                            s \in {s \in OfKind(M, {"start"}) : M.scope[s] = t.at}}
  OBVIOUS
<1>3. tokens' = ((tokens \ {t}) \union {w}) \union new /\ M.kind[t.at] = "subprocess"
  BY <1>1, <1>2 DEF EnterSubProcess, Goes, Breaks
<1>4. Fed(M, (tokens \ {t}) \union {w})
  BY <1>0, <1>1, <1>3, WaitsFed
<1>5. ASSUME NEW x \in new PROVE Loose(M, x)
  <2>1. M.kind[x.at] = "start"
    BY <1>2 DEF Moving, OfKind
  <2> QED  BY <1>0, <2>1, StartsAreLoose
<1>6. Fed(M, ((tokens \ {t}) \union {w}) \union new)
  BY <1>4, <1>5, FedMore
<1> QED  BY <1>3, <1>6

LEMMA JoinFed ==
    ASSUME Sane(M), Good, Fed(M, tokens), NEW t \in tokens, EnterJoin(t), status' # "broken"
    PROVE  Fed(M, tokens')
<1>1. t.at \in Joins(M) /\ t.at \in Nodes(M) /\ t \in Token(M)
  BY StandingOf DEF EnterJoin
<1>2. CASE {u.via : u \in Arrived(t)} \union {t.via} = In(M, t.at)
  <2>1. PICK A \in SUBSET tokens : A = Arrived(t) \union {t}
    BY DEF Arrived
  <2>2. LeavesFrom(tokens \ A, t, t.at)
    BY <1>2, <2>1 DEF EnterJoin, Breaks
  <2>3. t \in A /\ \A a \in A : a.at = t.at /\ a.scope = t.scope
    BY <2>1 DEF Arrived
  <2>4. \A h \in In(M, t.at) : \E a \in A : a.via = h
    <3> SUFFICES ASSUME NEW h \in In(M, t.at) PROVE \E a \in A : a.via = h
      OBVIOUS
    <3>1. h \in {u.via : u \in Arrived(t)} \/ h = t.via
      BY <1>2
    <3> QED  BY <2>1, <3>1
  <2>5. Single(Out(M, t.at))
    BY <2>2 DEF LeavesFrom, Breaks
  <2>6. PICK f \in Out(M, t.at) : Goes(tokens \ A, {Along(f, t.scope, t.lane)})
    BY <2>2, <2>5, LeavesBy
  <2>7. PICK w : w = Along(f, t.scope, t.lane)
    OBVIOUS
  <2>8. w.at = M.to[f] /\ w.via = f /\ w.scope = t.scope /\ w.lane = t.lane
    BY <2>7 DEF Along, Moving
  <2>9. Orderly(M, tokens, fired, caught) /\ FiringsFit(M, fired, caught)
    BY DEF Good
  <2>10. Fed(M, (tokens \ A) \union {w})
    BY <1>1, <2>3, <2>4, <2>8, <2>9, FedMerge
  <2>11. tokens' = (tokens \ A) \union {w}
    BY <2>6, <2>7 DEF Goes
  <2> QED  BY <2>10, <2>11
<1>3. CASE {u.via : u \in Arrived(t)} \union {t.via} # In(M, t.at)
  <2>1. PICK w : w = [t EXCEPT !.wait = "join"]
    OBVIOUS
  <2>2. tokens' = ((tokens \ {t}) \union {w}) \union {}
    BY <1>3, <2>1 DEF EnterJoin, Goes, Breaks
  <2>3. w.at = t.at /\ w.scope = t.scope /\ w.lane = t.lane /\ w.via = t.via
    BY <1>1, <2>1 DEF Token
  <2>4. Fed(M, (tokens \ {t}) \union {w})
    BY <2>3, FedWait
  <2>5. tokens' = (tokens \ {t}) \union {w}
    BY <2>2
  <2> QED  BY <2>4, <2>5
<1> QED  BY <1>2, <1>3

LEMMA EnterFed ==
    ASSUME IsParsed(M), Accepts(M, W, Covered), Good, Fed(M, tokens), NEW t \in tokens,
           Enter(t), status' # "broken"
    PROVE  Fed(M, tokens')
<1>1. Sane(M) /\ t.at \in Nodes(M) /\ t \in Token(M) /\ M.kind[t.at] \notin BoundaryEvt
  BY AcceptedIsSane, StandingOf
<1>2. t.at \in Joins(M) => M.kind[t.at] = "parallel"
  BY DEF Joins, OfKind
<1>3. M.kind[t.at] # "event" => Springs(M, t.at, t.at)
  BY DEF Springs
<1>4. ASSUME Waits(t), M.kind[t.at] # "parallel" PROVE Fed(M, tokens')
  <2>1. PICK w : w = [t EXCEPT !.wait = "waiting", !.via = NoFlow]
    OBVIOUS
  <2>2. tokens' = ((tokens \ {t}) \union {w}) \union {}
    BY <1>4, <2>1 DEF Waits, Goes
  <2>3. Fed(M, (tokens \ {t}) \union {w})
    BY <1>1, <1>4, <2>1, WaitsFed
  <2>4. tokens' = (tokens \ {t}) \union {w}
    BY <2>2
  <2> QED  BY <2>3, <2>4
<1>5. CASE EnterWait(t)
  BY <1>4, <1>5 DEF EnterWait, Breaks
<1>6. CASE EnterRule(t)
  <2>1. M.kind[t.at] = "rule" /\ LeavesFrom(tokens \ {t}, t, t.at)
    BY <1>6 DEF EnterRule, Breaks
  <2>2. Springs(M, t.at, t.at) /\ t.at \notin Joins(M)
    BY <1>2, <1>3, <2>1
  <2> QED  BY <1>1, <2>1, <2>2, LeavesFed
<1>7. CASE EnterEvent(t)
  BY <1>4, <1>7 DEF EnterEvent, Breaks
<1>8. CASE EnterSubProcess(t)
  BY <1>8, SubProcessFed
<1>9. CASE EnterStart(t)
  <2>1. M.kind[t.at] = "start" /\ LeavesFrom(tokens \ {t}, t, t.at)
    BY <1>9 DEF EnterStart
  <2>2. Springs(M, t.at, t.at) /\ t.at \notin Joins(M)
    BY <1>2, <1>3, <2>1
  <2> QED  BY <1>1, <2>1, <2>2, LeavesFed
<1>10. CASE EnterExclusive(t)
  <2>1. PICK f \in Out(M, t.at) : Goes(tokens \ {t}, {Along(f, t.scope, t.lane)})
    BY <1>10 DEF EnterExclusive
  <2>2. M.kind[t.at] = "exclusive"
    BY <1>10 DEF EnterExclusive
  <2>3. Springs(M, t.at, t.at) /\ t.at \notin Joins(M) /\ t.at \notin Splits(M)
    BY <1>2, <1>3, <2>2 DEF Splits, OfKind
  <2>4. PICK w : w = Along(f, t.scope, t.lane)
    OBVIOUS
  <2>5. w.at = M.to[f] /\ w.via = f /\ w.scope = t.scope /\ w.lane = t.lane
    BY <2>4 DEF Along, Moving
  <2>6. PICK new : new = {w}
    OBVIOUS
  <2>66. PICK F \in SUBSET Out(M, t.at) : F = {f}
    OBVIOUS
  <2>7. /\ \A v \in new : /\ v.scope = t.scope /\ v.lane = t.lane
                          /\ \E g \in F : v.at = M.to[g] /\ v.via = g
        /\ \A g \in F : \E v \in new : v.at = M.to[g] /\ v.via = g
    BY <2>5, <2>6, <2>66
  <2>8. Fed(M, (tokens \ {t}) \union new)
    BY <1>1, <2>3, <2>66, <2>7, FedStep
  <2>9. tokens' = (tokens \ {t}) \union new
    BY <2>1, <2>4, <2>6 DEF Goes
  <2> QED  BY <2>8, <2>9
<1>11. CASE EnterParallel(t)
  <2>1. PICK new : new = {Along(f, t.scope, t.lane) : f \in Out(M, t.at)}
    OBVIOUS
  <2>2. /\ M.kind[t.at] = "parallel" /\ Single(In(M, t.at))
        /\ tokens' = (tokens \ {t}) \union new
    BY <1>11, <2>1 DEF EnterParallel, Goes
  <2>3. Springs(M, t.at, t.at) /\ t.at \notin Joins(M) /\ Out(M, t.at) # {}
    BY <1>1, <1>3, <2>2, DegreesOfSane DEF Joins, Several, Single, Gateway
  <2>4. PICK F \in SUBSET Out(M, t.at) : F = Out(M, t.at)
    OBVIOUS
  <2>5. \A v \in new : /\ v.scope = t.scope /\ v.lane = t.lane
                       /\ \E g \in F : v.at = M.to[g] /\ v.via = g
    BY <2>1, <2>4 DEF Along, Moving
  <2>6. ASSUME NEW g \in F PROVE \E v \in new : v.at = M.to[g] /\ v.via = g
    <3>1. Along(g, t.scope, t.lane) \in new
      BY <2>1, <2>4
    <3>2. Along(g, t.scope, t.lane).at = M.to[g] /\ Along(g, t.scope, t.lane).via = g
      BY DEF Along, Moving
    <3> QED  BY <3>1, <3>2
  <2>7. Fed(M, (tokens \ {t}) \union new)
    BY <1>1, <2>3, <2>4, <2>5, <2>6, FedStep
  <2> QED  BY <2>2, <2>7
<1>12. CASE EnterJoin(t)
  BY <1>1, <1>12, JoinFed
<1>13. ASSUME NEW u \in tokens PROVE u.scope \in Seq(Nodes(M) \X Nat)
  BY <1>1, StandingOf DEF ScopePath
<1>14. CASE EnterEnd(t)
  <2>1. PICK rest \in SUBSET tokens : rest = tokens \ {t}
    OBVIOUS
  <2>2. M.kind[t.at] = "end" /\ Consumed(rest, t.scope)
    BY <1>14, <2>1 DEF EnterEnd
  <2>3. Loose(M, t)
    BY <1>1, <2>2, EndsAreLoose
  <2>4. \A v \in rest, u \in tokens \ rest : v.scope # u.scope \/ v.lane # u.lane \/ Loose(M, u)
    BY <2>1, <2>3
  <2>5. Fed(M, rest)
    BY <2>4, FedLess
  <2>6. IsPrefix(t.scope, t.scope)
    <3>1. Begins(t.scope, t.scope)
      BY <1>13 DEF Begins
    <3> QED  BY <1>13, <3>1, PrefixBegins
  <2> QED  BY <1>1, <2>1, <2>2, <2>5, <2>6, ConsumedFed
<1>15. CASE EnterTerminate(t)
  <2>1. PICK rest \in SUBSET tokens : rest = tokens \ InScope(tokens, t.scope)
    OBVIOUS
  <2>2. Consumed(rest, t.scope)
    BY <1>15, <2>1 DEF EnterTerminate
  <2>3. /\ \A u \in tokens \ rest : IsPrefix(t.scope, u.scope)
        /\ \A v \in rest : ~IsPrefix(t.scope, v.scope)
    BY <2>1 DEF InScope
  <2>4. \A v \in rest, u \in tokens \ rest : v.scope # u.scope
    BY <2>3
  <2>5. Fed(M, rest)
    BY <2>4, FedLess
  <2> QED  BY <1>1, <2>2, <2>3, <2>5, ConsumedFed
<1>16. ~EnterUnknown(t)
  BY DEF EnterUnknown, Breaks
<1> QED  BY <1>5, <1>6, <1>7, <1>8, <1>9, <1>10, <1>11, <1>12, <1>14, <1>15, <1>16 DEF Enter

LEMMA WaitsEndFed ==
    ASSUME IsParsed(M), Accepts(M, W, Covered), Good, Fed(M, tokens), NEW t \in tokens,
           Done(t) \/ GatewayFires(t), status' # "broken"
    PROVE  Fed(M, tokens')
<1>1. /\ Sane(M) /\ t.at \in Nodes(M) /\ M.kind[t.at] \notin BoundaryEvt
  BY AcceptedIsSane, StandingOf
<1>2. CASE Done(t)
  <2>1. /\ M.kind[t.at] \in {"service", "user", "receive", "message", "timer"}
        /\ LeavesFrom(tokens \ {t}, t, t.at)
    BY <1>2 DEF Done
  <2>2. Springs(M, t.at, t.at) /\ t.at \notin Joins(M)
    BY <2>1 DEF Springs, Joins, OfKind
  <2> QED  BY <1>1, <2>1, <2>2, LeavesFed
<1>3. CASE GatewayFires(t)
  <2>1. PICK f \in Out(M, t.at) : LeavesFrom(tokens \ {t}, t, M.to[f])
    BY <1>3 DEF GatewayFires
  <2>2. M.kind[t.at] = "event"
    BY <1>3 DEF GatewayFires
  <2>3. Springs(M, t.at, M.to[f]) /\ t.at \notin Joins(M)
    BY <2>2 DEF Springs, Joins, OfKind
  <2> QED  BY <1>1, <2>1, <2>3, LeavesFed
<1> QED  BY <1>2, <1>3

(* A boundary that cancels its host takes the host's whole body away.      *)
LEMMA CancelsFed ==
    ASSUME Sane(M), Good, Fed(M, tokens), NEW u \in tokens, NEW b \in BoundariesOn(M, u.at),
           b \in M.cancels, LeavesFrom(Without(tokens, u), u, b), status' # "broken"
    PROVE  Fed(M, tokens')
<1>1. PICK rest \in SUBSET tokens : rest = {v \in tokens : ~Inside(u, v)}
  OBVIOUS
<1>2. u \in Token(M) /\ u.at \in Nodes(M) /\ M.kind[u.at] \notin BoundaryEvt
  BY StandingOf
<1>3. u \in rest
  BY <1>1, <1>2, NotInsideItself
<1>4. \A v \in rest, x \in tokens \ rest : v.scope # x.scope
  BY <1>1 DEF Inside
<1>5. Fed(M, rest)
  BY <1>4, FedLess
<1>6. Without(tokens, u) = rest \ {u}
  BY <1>1 DEF Without
<1>7. u.at \notin Joins(M)
  <2>1. b \in DOMAIN M.host /\ M.host[b] = u.at
    BY DEF BoundariesOn
  <2> QED  BY <2>1, GraphOfSane DEF Joins, OfKind, SupportedHost
<1>8. Springs(M, u.at, b)
  BY DEF Springs
<1>9. LeavesFrom(rest \ {u}, u, b)
  BY <1>6
<1> QED  BY <1>2, <1>3, <1>5, <1>7, <1>8, <1>9, LeavesFed

LEMMA InterruptedFed ==
    ASSUME IsParsed(M), Accepts(M, W, Covered), Good, Fed(M, tokens), NEW t \in tokens,
           InterruptingFires(t), status' # "broken"
    PROVE  Fed(M, tokens')
<1>1. PICK b \in ArmedOn(M, t.at) \intersect M.cancels : LeavesFrom(Without(tokens, t), t, b)
  BY DEF InterruptingFires
<1>2. b \in BoundariesOn(M, t.at) /\ b \in M.cancels
  BY <1>1 DEF ArmedOn
<1> QED  BY <1>1, <1>2, AcceptedIsSane, CancelsFed

LEMMA FailedFed ==
    ASSUME IsParsed(M), Accepts(M, W, Covered), Good, Fed(M, tokens), NEW t \in tokens,
           NEW code, Fails(t, code), status' # "broken"
    PROVE  Fed(M, tokens')
<1>1. CASE UNCHANGED <<tokens, caught>>
  BY <1>1
<1>2. CASE \E u \in Offered(t) : \E b \in CatchesAt(u, code) : LeavesFrom(Without(tokens, u), u, b)
  <2>1. PICK u \in Offered(t) : \E b \in CatchesAt(u, code) : LeavesFrom(Without(tokens, u), u, b)
    BY <1>2
  <2>2. PICK b \in CatchesAt(u, code) : LeavesFrom(Without(tokens, u), u, b)
    BY <2>1
  <2>3. u \in tokens /\ b \in BoundariesOn(M, u.at) /\ M.kind[b] = "errorboundary" /\ Sane(M)
    BY AcceptedIsSane DEF Offered, CatchesAt
  <2>4. b \in M.cancels
    BY <2>3, GraphOfSane DEF BoundariesOn
  <2> QED  BY <2>2, <2>3, <2>4, CancelsFed
<1> QED  BY <1>1, <1>2 DEF Fails

LEMMA SidePathFed ==
    ASSUME IsParsed(M), Accepts(M, W, Covered), Good, Fed(M, tokens), NEW t \in tokens,
           SidePathFires(t), status' # "broken"
    PROVE  Fed(M, tokens')
<1>1. Sane(M)
  BY AcceptedIsSane
<1>2. PICK b \in ArmedOn(M, t.at) \ M.cancels :
        LeavesFrom(tokens, [t EXCEPT !.lane = Len(fired) + 1], b)
  BY DEF SidePathFires
<1>3. b \in SideStarts(M)
  BY <1>1, <1>2, GraphOfSane DEF ArmedOn, BoundariesOn, OfKind, SideStarts, BoundaryEvt
<1>4. PICK x : x = [t EXCEPT !.lane = Len(fired) + 1]
  OBVIOUS
<1>5. PICK new : new = {Along(f, x.scope, x.lane) : f \in Out(M, b)}
  OBVIOUS
<1>6. tokens' = tokens \union new
  BY <1>2, <1>4, <1>5 DEF LeavesFrom, Goes, Breaks
<1>7. ASSUME NEW w \in new PROVE Loose(M, w)
  <2>1. PICK f \in Out(M, b) : w.at = M.to[f] /\ w.via = f
    BY <1>5 DEF Along, Moving
  <2> QED  BY <1>1, <1>3, <2>1, SidePathsAreLoose
<1> QED  BY <1>6, <1>7, FedMore

(* A token waits as at a join only at a join.                              *)
JoinsHold(ts) == \A t \in ts : t.wait = "join" => t.at \in Joins(M)

LEMMA LeavesHold ==
    ASSUME JoinsHold(tokens), NEW ts \in SUBSET tokens, NEW t, NEW n, LeavesFrom(ts, t, n),
           status' # "broken"
    PROVE  JoinsHold(tokens')
<1>1. PICK new : new = {Along(f, t.scope, t.lane) : f \in Out(M, n)}
  OBVIOUS
<1>2. tokens' = ts \union new
  BY <1>1 DEF LeavesFrom, Goes, Breaks
<1>3. \A w \in new : w.wait = "moving"
  BY <1>1 DEF Along, Moving
<1> QED  BY <1>2, <1>3 DEF JoinsHold

LEMMA ConsumedHolds ==
    ASSUME JoinsHold(tokens), NEW ts \in SUBSET tokens, NEW scope, Consumed(ts, scope),
           status' # "broken"
    PROVE  JoinsHold(tokens')
<1>1. CASE scope = << >> \/ InScope(ts, scope) # {}
  <2>1. tokens' = ts \union {}
    BY <1>1 DEF Consumed, Goes
  <2>2. \A w \in tokens' : w \in tokens
    BY <2>1
  <2> QED  BY <2>2 DEF JoinsHold
<1>2. CASE scope # << >> /\ InScope(ts, scope) = {}
  <2>1. PICK o : o = Owner(scope)
    OBVIOUS
  <2>2. PICK rest \in SUBSET tokens : rest = ts \ {o}
    OBVIOUS
  <2>3. LeavesFrom(rest, o, o.at)
    BY <1>2, <2>1, <2>2 DEF Consumed
  <2> QED  BY <2>3, LeavesHold
<1> QED  BY <1>1, <1>2

LEMMA StepsHold ==
    ASSUME Sane(M), Good, JoinsHold(tokens), NEW t \in tokens, status' # "broken",
           \/ Enter(t) \/ Done(t) \/ GatewayFires(t)
           \/ InterruptingFires(t) \/ SidePathFires(t)
           \/ \E code \in Codes : Fails(t, code)
    PROVE  JoinsHold(tokens')
<1>1. PICK rest \in SUBSET tokens : rest = tokens \ {t}
  OBVIOUS
<1>2. ASSUME NEW w, w.wait # "join" \/ w.at \in Joins(M), NEW new,
             \A x \in new : x.wait # "join", tokens' = (rest \union {w}) \union new
      PROVE  JoinsHold(tokens')
  BY <1>2 DEF JoinsHold
<1>3. t \in Token(M)
  BY StandingOf
<1>4. PICK none : none = {}
  OBVIOUS
<1>5. ASSUME Waits(t) PROVE JoinsHold(tokens')
  <2>1. PICK w : w = [t EXCEPT !.wait = "waiting", !.via = NoFlow]
    OBVIOUS
  <2>2. w.wait = "waiting"
    BY <1>3, <2>1 DEF Token
  <2>3. tokens' = (rest \union {w}) \union none
    BY <1>1, <1>4, <1>5, <2>1 DEF Waits, Goes
  <2> QED  BY <1>2, <1>4, <2>2, <2>3
<1>6. ASSUME NEW n, LeavesFrom(rest, t, n) PROVE JoinsHold(tokens')
  BY <1>6, LeavesHold
<1>7. CASE EnterWait(t) \/ EnterEvent(t)
  BY <1>5, <1>7 DEF EnterWait, EnterEvent, Breaks
<1>8. CASE EnterRule(t) \/ EnterStart(t)
  BY <1>1, <1>6, <1>8 DEF EnterRule, EnterStart, Breaks
<1>9. CASE EnterSubProcess(t)
  <2>1. PICK w : w = [t EXCEPT !.wait = "waiting", !.via = NoFlow]
    OBVIOUS
  <2>2. PICK new : new = {Moving(s, NoFlow, Append(t.scope, <<t.at, t.lane>>), t.lane) :
                            s \in {s \in OfKind(M, {"start"}) : M.scope[s] = t.at}}
    OBVIOUS
  <2>3. tokens' = (rest \union {w}) \union new
    BY <1>1, <1>9, <2>1, <2>2 DEF EnterSubProcess, Goes, Breaks
  <2>4. w.wait = "waiting" /\ \A x \in new : x.wait = "moving"
    BY <1>3, <2>1, <2>2 DEF Token, Moving
  <2> QED  BY <1>2, <2>3, <2>4
<1>10. CASE EnterExclusive(t)
  <2>1. PICK f \in Out(M, t.at) : Goes(rest, {Along(f, t.scope, t.lane)})
    BY <1>1, <1>10 DEF EnterExclusive
  <2>2. PICK w : w = Along(f, t.scope, t.lane)
    OBVIOUS
  <2>3. w.wait = "moving" /\ tokens' = (rest \union {w}) \union none
    BY <1>4, <2>1, <2>2 DEF Goes, Along, Moving
  <2> QED  BY <1>2, <1>4, <2>3
<1>11. CASE EnterParallel(t)
  <2>1. PICK new : new = {Along(f, t.scope, t.lane) : f \in Out(M, t.at)}
    OBVIOUS
  <2>2. tokens' = rest \union new /\ \A x \in new : x.wait = "moving"
    BY <1>1, <1>11, <2>1 DEF EnterParallel, Goes, Along, Moving
  <2> QED  BY <2>2 DEF JoinsHold
<1>12. CASE EnterJoin(t)
  <2>1. CASE {u.via : u \in Arrived(t)} \union {t.via} = In(M, t.at)
    <3>1. PICK ts \in SUBSET tokens : ts = tokens \ (Arrived(t) \union {t})
      OBVIOUS
    <3>2. LeavesFrom(ts, t, t.at)
      BY <1>12, <2>1, <3>1 DEF EnterJoin, Breaks
    <3> QED  BY <3>2, LeavesHold
  <2>2. CASE {u.via : u \in Arrived(t)} \union {t.via} # In(M, t.at)
    <3>1. PICK w : w = [t EXCEPT !.wait = "join"]
      OBVIOUS
    <3>2. tokens' = (rest \union {w}) \union none /\ t.at \in Joins(M)
      BY <1>1, <1>4, <1>12, <2>2, <3>1 DEF EnterJoin, Goes, Breaks
    <3>3. w.at = t.at
      BY <1>3, <3>1 DEF Token
    <3> QED  BY <1>2, <1>4, <3>2, <3>3
  <2> QED  BY <2>1, <2>2
<1>13. CASE EnterEnd(t)
  BY <1>1, <1>13, ConsumedHolds DEF EnterEnd
<1>14. CASE EnterTerminate(t)
  <2>1. PICK ts \in SUBSET tokens : ts = tokens \ InScope(tokens, t.scope)
    OBVIOUS
  <2> QED  BY <1>14, <2>1, ConsumedHolds DEF EnterTerminate
<1>15. CASE Enter(t)
  BY <1>7, <1>8, <1>9, <1>10, <1>11, <1>12, <1>13, <1>14, <1>15 DEF Enter, EnterUnknown, Breaks
<1>16. CASE Done(t) \/ GatewayFires(t)
  BY <1>1, <1>6, <1>16 DEF Done, GatewayFires
<1>17. ASSUME NEW u, NEW b, LeavesFrom(Without(tokens, u), u, b) PROVE JoinsHold(tokens')
  <2>1. PICK ts \in SUBSET tokens : ts = Without(tokens, u)
    BY DEF Without
  <2> QED  BY <1>17, <2>1, LeavesHold
<1>18. CASE InterruptingFires(t) \/ \E code \in Codes : Fails(t, code)
  BY <1>17, <1>18 DEF InterruptingFires, Fails
<1>19. CASE SidePathFires(t)
  <2>1. PICK b : LeavesFrom(tokens, [t EXCEPT !.lane = Len(fired) + 1], b)
    BY <1>19 DEF SidePathFires
  <2> QED  BY <2>1, LeavesHold
<1> QED  BY <1>15, <1>16, <1>18, <1>19

-----------------------------------------------------------------------------
(* While an instance runs, a block with a token in one of its branches has *)
(* one in each, or at its join for each.                                   *)
Populated == status \notin {"submitted", "refused"} => Fed(M, tokens) /\ JoinsHold(tokens)

LEMMA StartsFed ==
    ASSUME Admitted, Accept PROVE Fed(M, tokens') /\ JoinsHold(tokens')
<1>1. Sane(M) /\ tokens = {}
  BY AcceptedIsSane DEF Accept, Admitted
<1>2. PICK new : new = tokens'
  OBVIOUS
<1>3. ASSUME NEW w \in new PROVE Loose(M, w)
  <2>1. PICK n \in OfKind(M, Starting) : w = Moving(n, NoFlow, << >>, 0)
    BY <1>2 DEF Accept
  <2>2. M.kind[n] = "start"
    BY <1>1, <2>1, GraphOfSane DEF OfKind, Starting
  <2>3. w.at = n
    BY <2>1 DEF Moving
  <2> QED  BY <1>1, <2>2, <2>3, StartsAreLoose
<1>4. \A w \in new : w.wait = "moving"
  BY <1>2 DEF Accept, Moving
<1>5. Fed(M, {})
  BY DEF Fed
<1>6. Fed(M, {} \union new)
  BY <1>3, <1>5, FedMore
<1>7. {} \union new = tokens'
  BY <1>2
<1> QED  BY <1>2, <1>4, <1>6, <1>7 DEF JoinsHold

LEMMA PopulatedIsKept ==
    ASSUME Admitted, Admitted', Populated, [Next]_vars PROVE Populated'
<1>1. CASE Revise
  BY <1>1 DEF Revise, Populated
<1>2. CASE Accept
  <2>1. given' = given
    BY <1>2 DEF Accept
  <2>2. M' = M
    BY <2>1 DEF M
  <2> QED  BY <1>2, <2>2, StartsFed DEF Populated, JoinsHold
<1>3. CASE Refuse
  BY <1>3 DEF Refuse, Populated
<1>4. ASSUME NEW t \in tokens,
             \/ Enter(t) \/ Done(t) \/ GatewayFires(t)
             \/ InterruptingFires(t) \/ SidePathFires(t)
             \/ \E code \in Codes : Fails(t, code)
      PROVE  Populated'
  <2>1. status \notin {"submitted", "refused"}
    BY <1>4 DEF Enter, Done, GatewayFires, InterruptingFires, SidePathFires, Fails, Rests
  <2>2. IsParsed(M) /\ Accepts(M, W, Covered) /\ Good /\ Fed(M, tokens) /\ JoinsHold(tokens)
        /\ status' # "broken"
    BY <2>1 DEF Admitted, Populated
  <2>3. given' = given
    BY <1>4 DEF Enter, Done, GatewayFires, InterruptingFires, SidePathFires, Fails
  <2>4. M' = M
    BY <2>3 DEF M
  <2>5. Fed(M, tokens')
    <3>1. CASE Enter(t)
      BY <2>2, <3>1, EnterFed
    <3>2. CASE Done(t) \/ GatewayFires(t)
      BY <2>2, <3>2, WaitsEndFed
    <3>3. CASE InterruptingFires(t)
      BY <2>2, <3>3, InterruptedFed
    <3>4. CASE SidePathFires(t)
      BY <2>2, <3>4, SidePathFed
    <3>5. CASE \E code \in Codes : Fails(t, code)
      BY <2>2, <3>5, FailedFed
    <3> QED  BY <1>4, <3>1, <3>2, <3>3, <3>4, <3>5
  <2>6. JoinsHold(tokens')
    BY <1>4, <2>2, AcceptedIsSane, StepsHold
  <2> QED  BY <2>4, <2>5, <2>6 DEF Populated, JoinsHold
<1>5. CASE UNCHANGED vars
  <2>1. given' = given /\ UNCHANGED <<status, tokens>>
    BY <1>5 DEF vars
  <2>2. M' = M
    BY <2>1 DEF M
  <2> QED  BY <2>1, <2>2 DEF Populated, JoinsHold
<1> QED  BY <1>1, <1>2, <1>3, <1>4, <1>5 DEF Next

(* Who is in a branch comes to the join by the branch's flow, unless there *)
(* is no way out of where it is.                                           *)
LEMMA BranchComesToJoin ==
    ASSUME Sane(M), NEW s, NEW j, IsBlock(M, s, j), NEW h \in Out(M, s), NEW f \in In(M, j),
           h = f \/ M.from[f] \in Branch(M, s, j, h), NEW u, u.at \in Branch(M, s, j, h)
    PROVE  \/ NeverJoins(u)
           \/ M.from[f] \in Reach({u.at}, [RegionSuccs(M) EXCEPT ![j] = {}])
<1> DEFINE B == Branch(M, s, j, h)
           barred == [RegionSuccs(M) EXCEPT ![j] = {}]
           R == Reach({u.at}, barred)
<1> SUFFICES ASSUME M.from[f] \notin R PROVE NeverJoins(u)
  OBVIOUS
<1>1. /\ s \in Splits(M) /\ j \in MatchingJoins(M, s) /\ j \in Nodes(M) /\ j \notin B
      /\ B \subseteq Nodes(M)
  BY BranchOfSane DEF IsBlock, MatchingJoins, JoinCandidates, Joins, OfKind
<1>2. /\ barred \in [Nodes(M) -> SUBSET Nodes(M)] /\ DOMAIN barred = Nodes(M)
      /\ \A n \in Nodes(M) \ {j} : barred[n] = RegionSuccs(M)[n]
  BY <1>1, RegionSuccsOfSane
<1>3. IsFiniteSet(Nodes(M)) /\ DOMAIN RegionSuccs(M) = Nodes(M)
  BY GraphOfSane, RegionSuccsOfSane
<1>4. u.at \in B /\ {u.at} \in SUBSET Nodes(M)
  BY <1>1
<1>5. /\ \A n \in B : \A g \in Out(M, n) : M.to[g] \in B \union {j}
      /\ \A n \in B : \A e \in BoundariesOn(M, n) : e \in M.cancels => e \in B
  BY <1>1, BranchOfSane DEF BoundariesOn
<1>6. \A g \in In(M, j) : M.from[g] \in B => g = f
  BY JoinEntry
<1>7. \A n \in B : M.kind[n] \notin {"start", "end"}
  BY BranchEntry
<1> HIDE DEF B, barred
<1>8. u.at \in R /\ R \subseteq Nodes(M) /\ \A n \in R : barred[n] \subseteq R
  BY <1>2, <1>3, <1>4, ReachIsClosed, ReachHasSeeds
<1> HIDE DEF R
<1>9. ASSUME NEW n \in R \intersect B, NEW y \in RegionSuccs(M)[n] PROVE y \in R \intersect B
  <2>1. n \in Nodes(M) \ {j} /\ n \in B /\ n \in R
    BY <1>1, <1>9
  <2>2. y \in R
    BY <1>2, <1>8, <1>9, <2>1
  <2>3. (\E g \in Out(M, n) : y = M.to[g]) \/ (y \in BoundariesOn(M, n) /\ y \in M.cancels)
    BY <1>9, <2>1 DEF RegionSuccs
  <2>4. ASSUME NEW g \in Out(M, n), y = M.to[g] PROVE y \in B
    <3>1. y \in B \union {j}
      BY <1>5, <2>1, <2>4
    <3>2. M.from[g] = n /\ g \in In(M, M.to[g])
      BY DEF Out, In
    <3>3. y # j
      BY <1>6, <2>1, <2>4, <3>2
    <3> QED  BY <3>1, <3>3
  <2>5. y \in B
    BY <1>5, <2>1, <2>3, <2>4
  <2> QED  BY <2>2, <2>5
<1>10. Reach({u.at}, RegionSuccs(M)) \subseteq R \intersect B
  <2>1. PICK X : X = R \intersect B
    OBVIOUS
  <2>2. {u.at} \subseteq X
    BY <1>4, <1>8, <2>1
  <2>3. \A n \in X : RegionSuccs(M)[n] \subseteq X
    BY <1>9, <2>1
  <2>4. Reach({u.at}, RegionSuccs(M)) \subseteq X
    BY <1>3, <2>2, <2>3, ReachIsLeast
  <2> QED  BY <2>1, <2>4
<1>11. \A n \in OfKind(M, Ending) : M.kind[n] \in {"end", "terminate"} /\ n \in Nodes(M)
  BY GraphOfSane DEF OfKind, Ending
<1> QED  BY <1>7, <1>10, <1>11 DEF NeverJoins, OfKind

LEMMA FedJoinsComplete ==
    ASSUME IsParsed(M), Accepts(M, W, Covered), Good, Fed(M, tokens), JoinsHold(tokens)
    PROVE  JoinsAreFed
<1> SUFFICES ASSUME NEW t \in tokens, t.wait = "join", NEW f \in In(M, t.at),
                    ~(\E u \in Arrived(t) : u.via = f)
             PROVE  \E u \in tokens :
                      /\ u.scope = t.scope /\ ~(u.at = t.at /\ u.wait = "join")
                      /\ \/ NeverJoins(u)
                         \/ u.at = t.at /\ u.via = f
                         \/ u.at # t.at /\ M.from[f] \in
                              Reach({u.at}, [RegionSuccs(M) EXCEPT ![t.at] = {}])
  BY DEF JoinsAreFed
<1>0. Sane(M)
  BY AcceptedIsSane
<1>1. t.at \in Joins(M) /\ t.via \in In(M, t.at)
  <2>1. t.at \in Joins(M)
    BY DEF JoinsHold
  <2>2. M.kind[t.at] = "parallel" /\ Placed(M, t)
    BY <1>0, <2>1, StandingOf DEF Joins, OfKind
  <2> QED  BY <2>1, <2>2 DEF Placed
<1>2. PICK s \in Splits(M) : t.at \in MatchingJoins(M, s)
  BY <1>0, <1>1, JoinsAreMatched
<1>3. PICK j : j = t.at
  OBVIOUS
<1>4. IsBlock(M, s, j) /\ f \in In(M, j) /\ t.via \in In(M, j)
  BY <1>1, <1>2, <1>3 DEF IsBlock
<1>5. PICK g \in Out(M, s) : t.via = g \/ M.from[t.via] \in Branch(M, s, j, g)
  BY <1>0, <1>4, JoinEntry
<1>6. PICK h \in Out(M, s) : f = h \/ M.from[f] \in Branch(M, s, j, h)
  BY <1>0, <1>4, JoinEntry
<1>7. Within(M, t.at, t.via, s, j, g)
  BY <1>3, <1>5 DEF Within
<1>8. PICK u \in tokens : u.scope = t.scope /\ u.lane = t.lane /\ Within(M, u.at, u.via, s, j, h)
  BY <1>4, <1>7, FedIs
<1>9. CASE u.at = j
  <2>1. j \notin Branch(M, s, j, h) /\ u.via \in In(M, j)
    <3>1. M.kind[u.at] = "parallel" /\ Placed(M, u)
      BY <1>0, <1>1, <1>3, <1>9, StandingOf DEF Joins, OfKind
    <3>2. j \notin Branch(M, s, j, h)
      BY <1>0, <1>4, BranchOfSane DEF IsBlock
    <3> QED  BY <1>9, <3>1, <3>2 DEF Placed
  <2>2. u.via = h \/ M.from[u.via] \in Branch(M, s, j, h)
    BY <1>8, <1>9, <2>1 DEF Within
  <2>3. u.via = f
    BY <1>0, <1>4, <1>6, <2>1, <2>2, JoinEntry
  <2>4. u.wait # "join"
    BY <1>3, <1>8, <1>9, <2>3 DEF Arrived
  <2> QED  BY <1>3, <1>8, <1>9, <2>3, <2>4
<1>10. CASE u.at # j
  <2>1. u.at \in Branch(M, s, j, h)
    BY <1>8, <1>10 DEF Within
  <2>2. NeverJoins(u) \/ M.from[f] \in Reach({u.at}, [RegionSuccs(M) EXCEPT ![j] = {}])
    BY <1>0, <1>4, <1>6, <2>1, BranchComesToJoin
  <2> QED  BY <1>3, <1>8, <1>10, <2>2
<1> QED  BY <1>9, <1>10

(* Whatever model was accepted, a join that holds a token is never left to *)
(* wait for a flow that no token can still come by: the linter's balance   *)
(* of splits and joins keeps every branch of a split populated until the   *)
(* join has taken them all together.                                       *)
THEOREM JoinsStayFed == Spec => []JoinsAreFed
<1>1. Init => Populated
  BY DEF Init, Populated
<1>2. Admitted /\ Admitted' /\ Populated /\ [Next]_vars => Populated'
  BY PopulatedIsKept
<1>3. ASSUME Admitted, Populated PROVE JoinsAreFed
  <2>1. CASE status \in {"submitted", "refused"}
    BY <1>3, <2>1 DEF Admitted, JoinsAreFed
  <2>2. CASE status \notin {"submitted", "refused"}
    BY <1>3, <2>2, FedJoinsComplete DEF Admitted, Populated
  <2> QED  BY <2>1, <2>2
<1> QED  BY <1>1, <1>2, <1>3, TokensStayInOrder, PTL DEF Spec

-----------------------------------------------------------------------------
(* Types.                                                                  *)

LEMMA WarningsAreTyped ==
    ASSUME NEW m, Sane(m), NEW x \in Warnings(m)
    PROVE  x.boundary \in SideStarts(m) /\ x.at \in Nodes(m)
<1>1. PICK b \in SideStarts(m) :
         x \in [rule : {"arm"}, boundary : {b}, at : ArmsRepeated(m, b)]
                 \union [rule : {"failure"}, boundary : {b}, at : FailuresEscaping(m, b)]
  BY DEF Warnings
<1>2. x.boundary = b /\ (x.at \in ArmsRepeated(m, b) \/ x.at \in FailuresEscaping(m, b))
  BY <1>1
<1>3. ArmsRepeated(m, b) \subseteq Nodes(m)
  BY DEF ArmsRepeated, OfKind
<1>4. Owned(m, b) \subseteq Nodes(m)
  BY SidePathOfSane DEF Owned
<1>5. FailuresEscaping(m, b) \subseteq Nodes(m)
  BY <1>4 DEF FailuresEscaping
<1> QED  BY <1>1, <1>2, <1>3, <1>5

(* What Admitted leaves out.                                               *)
Counted ==
    /\ status \in {"submitted", "refused", "running", "frozen", "completed"}
    /\ Len(fired) <= MaxFires
    /\ status \in {"submitted", "refused"} => warned = {}

LEMMA CountedIsKept ==
    ASSUME Admitted, Counted, [Next]_vars PROVE Counted'
<1>1. CASE Revise \/ Accept \/ Refuse \/ UNCHANGED vars
  BY <1>1 DEF Revise, Accept, Refuse, vars, Counted
<1>2. ASSUME NEW t \in tokens,
             \/ Enter(t) \/ Done(t) \/ GatewayFires(t)
             \/ InterruptingFires(t) \/ SidePathFires(t)
             \/ \E code \in Codes : Fails(t, code)
      PROVE  Counted'
  <2>1. status \notin {"submitted", "refused"}
    BY <1>2 DEF Enter, Done, GatewayFires, InterruptingFires, SidePathFires, Fails, Rests
  <2>2. IsParsed(M) /\ Accepts(M, W, Covered) /\ Good
    BY <2>1 DEF Admitted
  <2>3. status' \in {"running", "completed", "frozen"}
    BY <1>2, <2>2, StepsKeepGood
  <2>4. CASE SidePathFires(t)
    <3>1. PICK r : fired' = Append(fired, r)
      BY <2>4 DEF SidePathFires
    <3>2. fired \in Seq(Firing(M)) /\ Len(fired) < MaxFires
      BY <2>2, <2>4 DEF Good, FiringsFit, SidePathFires
    <3>3. Len(fired') = Len(fired) + 1 /\ Len(fired) \in Nat
      BY <3>1, <3>2
    <3> QED  BY <2>3, <3>2, <3>3, Bounds DEF Counted
  <2>5. CASE ~SidePathFires(t)
    <3>1. fired' = fired
      BY <1>2, <2>5 DEF Enter, Done, GatewayFires, InterruptingFires, Fails
    <3> QED  BY <2>3, <3>1 DEF Counted
  <2> QED  BY <2>4, <2>5
<1> QED  BY <1>1, <1>2 DEF Next

(* Tokens are at nodes of the model they run, on a lane that was opened;   *)
(* what a warning or an escape names is a side path and a node of it       *)
(* (check_deploy's verdict and the run agree on the model).                *)
THEOREM TypeCorrect == Spec => []TypeOK
<1>1. Init => Counted
  BY Bounds DEF Init, Counted
<1>2. Admitted /\ Counted /\ [Next]_vars => Counted'
  BY CountedIsKept
<1>3. ASSUME Admitted, Counted PROVE TypeOK
  <2>1. CASE status \in {"submitted", "refused"}
    <3>1. tokens = {} /\ escaped = {} /\ warned = {}
      BY <1>3, <2>1 DEF Admitted, Counted
    <3> QED  BY <1>3, <3>1 DEF TypeOK, Counted
  <2>2. CASE status \notin {"submitted", "refused"}
    <3>1. Sane(M) /\ Good /\ warned = Warnings(M) /\ EscapesAreWarned
      BY <1>3, <2>2, AcceptedIsSane DEF Admitted
    <3>2. ASSUME NEW t \in tokens
          PROVE  /\ t.at \in Nodes(M) /\ t.via \in Flows(M) \union {NoFlow}
                 /\ t.wait \in {"moving", "waiting", "join"} /\ t.lane \in Lane
      <4>1. t \in Token(M) /\ t.lane \in Nat /\ t.lane <= Len(fired)
        BY <3>1, StandingOf DEF OnLane
      <4>2. Len(fired) \in Nat /\ Len(fired) <= MaxFires
        BY <1>3, <3>1 DEF Good, FiringsFit, Counted
      <4>3. t.lane \in Lane
        BY <4>1, <4>2, Bounds DEF Lane
      <4> QED  BY <4>1, <4>3 DEF Token
    <3>3. ASSUME NEW x \in warned PROVE x.boundary \in SideStarts(M) /\ x.at \in Nodes(M)
      BY <3>1, WarningsAreTyped
    <3>4. ASSUME NEW e \in escaped PROVE e.boundary \in SideStarts(M) /\ e.at \in Nodes(M)
      <4>1. PICK x \in warned : /\ x.boundary = e.boundary
                                /\ e.at = x.at \/ e.at \in Body(M, x.at)
        BY <3>1 DEF EscapesAreWarned
      <4>2. x.boundary \in SideStarts(M) /\ x.at \in Nodes(M)
        BY <3>3
      <4>3. Body(M, x.at) \subseteq Nodes(M)
        BY <3>1, <4>2, BodyOfSane
      <4> QED  BY <4>1, <4>2, <4>3
    <3> QED  BY <1>3, <3>2, <3>3, <3>4 DEF TypeOK, Counted
  <2> QED  BY <2>1, <2>2
<1> QED  BY <1>1, <1>2, <1>3, TokensStayInOrder, PTL DEF Spec
=============================================================================
