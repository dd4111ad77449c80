--------------------------- MODULE Blocks_proofs ---------------------------
(***************************************************************************)
(* Parallel blocks and their joins: no step of InstanceStep raises a step  *)
(* error and every waiting join can still be fed, for every graph the      *)
(* assumptions of ProcessGraph describe.                                   *)
(*                                                                         *)
(* The first part is about the graph alone: the branches of a block are    *)
(* disjoint, blocks nest, a branch ends in the one flow it hands over to   *)
(* its join, and a set of seats (Sorted) stays sorted under the few ways   *)
(* in which tokens are taken and put.                                      *)
(*                                                                         *)
(* The second part, from Seats on, reads the seats of a state off its      *)
(* tokens and moves, and shows action by action that they stay sorted      *)
(* (Flowing): two tokens of a scope are always parted by a join, and every *)
(* branch of a block that has begun has a token still to come.  What that  *)
(* means for the joins is the last section.                                *)
(***************************************************************************)
EXTENDS InstanceStep_proofs

-----------------------------------------------------------------------------
(* Reach is the least set that is closed under the steps it follows.       *)

(* Induction over the numbers, for a set.                                  *)
LEMMA SetOfAllNumbers ==
    ASSUME NEW T \in SUBSET Nat, 0 \in T, \A n \in T : n + 1 \in T
    PROVE  T = Nat
<1> SUFFICES ASSUME Nat \ T # {} PROVE FALSE
  OBVIOUS
<1> DEFINE R == OpToRel(<, Nat)
<1>1. \A x, y \in Nat : <<x, y>> \in R <=> x < y
  BY DEF OpToRel
<1>2. IsWellFoundedOn(R, Nat)
  BY NatLessThanWellFounded
<1> HIDE DEF R
<1>3. PICK x \in Nat \ T : \A y \in Nat \ T : <<y, x>> \notin R
  BY <1>2, WFMin
<1>4. x # 0 /\ x - 1 \in Nat /\ x - 1 < x
  OBVIOUS
<1>5. x - 1 \in T
  BY <1>1, <1>3, <1>4
<1> QED  BY <1>4, <1>5

(* One step further from S along next.                                     *)
Widened(S, next) == S \union UNION {next[n] : n \in S}

IsWalk(w, seeds, next) ==
    w = [k \in Nat |-> IF k = 0 THEN seeds ELSE Widened(w[k - 1], next)]

LEMMA ReachIsWalk ==
    ASSUME NEW seeds, NEW next
    PROVE  Reach(seeds, next) = (CHOOSE w : IsWalk(w, seeds, next))[Cardinality(DOMAIN next)]
BY DEF Reach, IsWalk, Widened

(* The first k steps of a walk.                                            *)
IsStart(v, k, seeds, next) ==
    v = [i \in 0 .. k |-> IF i = 0 THEN seeds ELSE Widened(v[i - 1], next)]

LEMMA StartsAgree ==
    ASSUME NEW seeds, NEW next, NEW k \in Nat, NEW l \in Nat, NEW v, NEW u,
           IsStart(v, k, seeds, next), IsStart(u, l, seeds, next)
    PROVE  \A i \in Nat : i <= k /\ i <= l => v[i] = u[i]
<1> DEFINE T == {i \in Nat : i <= k /\ i <= l => v[i] = u[i]}
<1>1. 0 \in T
  BY DEF IsStart
<1>2. ASSUME NEW i \in T PROVE i + 1 \in T
  <2> SUFFICES ASSUME i + 1 <= k, i + 1 <= l PROVE v[i + 1] = u[i + 1]
    OBVIOUS
  <2>1. i \in Nat /\ i + 1 \in 0 .. k /\ i + 1 \in 0 .. l /\ (i + 1) - 1 = i /\ i + 1 # 0
    OBVIOUS
  <2>2. v[i] = u[i]
    BY <2>1
  <2>3. v[i + 1] = Widened(v[i], next) /\ u[i + 1] = Widened(u[i], next)
    BY <2>1 DEF IsStart
  <2> QED  BY <2>2, <2>3
<1> HIDE DEF T
<1>3. T \subseteq Nat
  BY DEF T
<1>4. T = Nat
  BY <1>1, <1>2, <1>3, SetOfAllNumbers
<1> QED  BY <1>4 DEF T

LEMMA StartsExist ==
    ASSUME NEW seeds, NEW next
    PROVE  \A k \in Nat : \E v : IsStart(v, k, seeds, next)
<1> DEFINE T == {k \in Nat : \E v : IsStart(v, k, seeds, next)}
<1>1. 0 \in T
  <2>1. IsStart([i \in 0 .. 0 |-> seeds], 0, seeds, next)
    BY DEF IsStart
  <2> QED  BY <2>1
<1>2. ASSUME NEW k \in T PROVE k + 1 \in T
  <2>1. k \in Nat
    OBVIOUS
  <2>2. PICK v : IsStart(v, k, seeds, next)
    OBVIOUS
  <2> DEFINE u == [i \in 0 .. k + 1 |-> IF i = k + 1 THEN Widened(v[k], next) ELSE v[i]]
  <2>3. ASSUME NEW i \in 0 .. k + 1
        PROVE  u[i] = IF i = 0 THEN seeds ELSE Widened(u[i - 1], next)
    <3>1. CASE i = k + 1
      <4>1. i # 0 /\ i - 1 = k /\ k \in 0 .. k + 1 /\ k # k + 1
        BY <2>1, <3>1
      <4> QED  BY <3>1, <4>1
    <3>2. CASE i # k + 1
      <4>1. i \in 0 .. k /\ (i # 0 => i - 1 \in 0 .. k + 1 /\ i - 1 # k + 1)
        BY <2>1, <3>2
      <4>2. v[i] = IF i = 0 THEN seeds ELSE Widened(v[i - 1], next)
        BY <2>2, <4>1 DEF IsStart
      <4> QED  BY <3>2, <4>1, <4>2
    <3> QED  BY <3>1, <3>2
  <2>4. IsStart(u, k + 1, seeds, next)
    <3>1. u = [i \in 0 .. k + 1 |-> u[i]]
      OBVIOUS
    <3> HIDE DEF u
    <3> QED  BY <2>3, <3>1 DEF IsStart
  <2> QED  BY <2>1, <2>4
<1> HIDE DEF T
<1>3. T \subseteq Nat
  BY DEF T
<1>4. T = Nat
  BY <1>1, <1>2, <1>3, SetOfAllNumbers
<1> QED  BY <1>4 DEF T

LEMMA WalksExist ==
    ASSUME NEW seeds, NEW next
    PROVE  \E w : IsWalk(w, seeds, next)
<1> DEFINE v(k) == CHOOSE v : IsStart(v, k, seeds, next)
           w    == [k \in Nat |-> v(k)[k]]
<1>1. ASSUME NEW k \in Nat PROVE IsStart(v(k), k, seeds, next)
  BY StartsExist
<1> HIDE DEF v
<1>2. ASSUME NEW k \in Nat
      PROVE  w[k] = IF k = 0 THEN seeds ELSE Widened(w[k - 1], next)
  <2>1. k \in 0 .. k
    OBVIOUS
  <2>2. v(k)[k] = IF k = 0 THEN seeds ELSE Widened(v(k)[k - 1], next)
    BY <1>1, <2>1 DEF IsStart
  <2>3. ASSUME k # 0 PROVE v(k)[k - 1] = v(k - 1)[k - 1]
    <3>1. k - 1 \in Nat /\ k - 1 <= k /\ k - 1 <= k - 1
      BY <2>3
    <3>2. IsStart(v(k), k, seeds, next) /\ IsStart(v(k - 1), k - 1, seeds, next)
      BY <1>1, <3>1
    <3>3. \A i \in Nat : i <= k /\ i <= k - 1 => v(k)[i] = v(k - 1)[i]
      BY <3>1, <3>2, StartsAgree
    <3> QED  BY <3>1, <3>3
  <2>4. k # 0 => k - 1 \in Nat
    OBVIOUS
  <2> QED  BY <2>2, <2>3, <2>4
<1>3. w = [k \in Nat |-> w[k]]
  OBVIOUS
<1> HIDE DEF w
<1>4. IsWalk(w, seeds, next)
  BY <1>2, <1>3 DEF IsWalk
<1> QED  BY <1>4

(* What Reach goes through: a walk from the seeds that widens.             *)
LEMMA ReachSteps ==
    ASSUME NEW seeds, NEW next
    PROVE  \E w : /\ w[0] = seeds
                  /\ \A k \in Nat : w[k + 1] = Widened(w[k], next)
                  /\ Reach(seeds, next) = w[Cardinality(DOMAIN next)]
<1> DEFINE w == CHOOSE w : IsWalk(w, seeds, next)
<1>1. IsWalk(w, seeds, next) /\ Reach(seeds, next) = w[Cardinality(DOMAIN next)]
  BY WalksExist, ReachIsWalk
<1> HIDE DEF w
<1>2. w[0] = seeds
  BY <1>1 DEF IsWalk
<1>3. ASSUME NEW k \in Nat PROVE w[k + 1] = Widened(w[k], next)
  <2>1. k + 1 \in Nat /\ k + 1 # 0 /\ (k + 1) - 1 = k
    OBVIOUS
  <2> QED  BY <1>1, <2>1 DEF IsWalk
<1> QED  BY <1>1, <1>2, <1>3

LEMMA ReachHasSeeds ==
    ASSUME NEW seeds, NEW next, IsFiniteSet(DOMAIN next)
    PROVE  seeds \subseteq Reach(seeds, next)
<1>1. PICK w : /\ w[0] = seeds
               /\ \A k \in Nat : w[k + 1] = Widened(w[k], next)
               /\ Reach(seeds, next) = w[Cardinality(DOMAIN next)]
  BY ReachSteps
<1> DEFINE T == {k \in Nat : seeds \subseteq w[k]}
<1>2. 0 \in T /\ \A k \in T : k + 1 \in T
  BY <1>1 DEF Widened
<1>3. T = Nat
  BY <1>2, SetOfAllNumbers
<1>4. Cardinality(DOMAIN next) \in Nat
  BY FS_CardinalityType
<1> QED  BY <1>1, <1>3, <1>4

(* It is in every set that has the seeds and is closed.                    *)
LEMMA ReachIsLeast ==
    ASSUME NEW seeds, NEW next, IsFiniteSet(DOMAIN next),
           NEW X, seeds \subseteq X, \A n \in X : next[n] \subseteq X
    PROVE  Reach(seeds, next) \subseteq X
<1>1. PICK w : /\ w[0] = seeds
               /\ \A k \in Nat : w[k + 1] = Widened(w[k], next)
               /\ Reach(seeds, next) = w[Cardinality(DOMAIN next)]
  BY ReachSteps
<1> DEFINE T == {k \in Nat : w[k] \subseteq X}
<1>2. 0 \in T
  BY <1>1
<1>3. ASSUME NEW k \in T PROVE k + 1 \in T
  <2>1. w[k + 1] = Widened(w[k], next) /\ w[k] \subseteq X
    BY <1>1
  <2> QED  BY <2>1 DEF Widened
<1>4. T = Nat
  BY <1>2, <1>3, SetOfAllNumbers
<1>5. Cardinality(DOMAIN next) \in Nat
  BY FS_CardinalityType
<1> QED  BY <1>1, <1>4, <1>5

(* It is closed: a walk in a finite set comes to rest before it has taken  *)
(* as many steps as there are places.                                      *)
LEMMA ReachIsClosed ==
    ASSUME NEW D, IsFiniteSet(D), NEW next \in [D -> SUBSET D], NEW seeds \in SUBSET D
    PROVE  /\ Reach(seeds, next) \subseteq D
           /\ \A n \in Reach(seeds, next) : next[n] \subseteq Reach(seeds, next)
<1>0. DOMAIN next = D /\ \A n \in D : next[n] \subseteq D
  OBVIOUS
<1>1. PICK w : /\ w[0] = seeds
               /\ \A k \in Nat : w[k + 1] = Widened(w[k], next)
               /\ Reach(seeds, next) = w[Cardinality(D)]
  BY <1>0, ReachSteps
<1> DEFINE c == Cardinality(D)
<1>2. c \in Nat
  BY FS_CardinalityType
<1> HIDE DEF c
<1>3. ASSUME NEW k \in Nat PROVE w[k] \subseteq D
  <2> DEFINE T == {i \in Nat : w[i] \subseteq D}
  <2>1. 0 \in T
    BY <1>1
  <2>2. ASSUME NEW i \in T PROVE i + 1 \in T
    <3>1. w[i + 1] = Widened(w[i], next) /\ w[i] \subseteq D
      BY <1>1
    <3> QED  BY <1>0, <3>1 DEF Widened
  <2>3. T = Nat
    BY <2>1, <2>2, SetOfAllNumbers
  <2> QED  BY <2>3
<1>4. ASSUME Widened(w[c], next) # w[c] PROVE FALSE
  <2>1. ASSUME NEW k \in Nat, k <= c PROVE w[k + 1] # w[k]
    <3> SUFFICES ASSUME w[k + 1] = w[k] PROVE FALSE
      OBVIOUS
    <3> DEFINE T == {i \in Nat : w[k + i] = w[k]}
    <3>1. 0 \in T
      OBVIOUS
    <3>2. ASSUME NEW i \in T PROVE i + 1 \in T
      <4>1. k + i \in Nat /\ k + (i + 1) = (k + i) + 1
        OBVIOUS
      <4>2. w[(k + i) + 1] = Widened(w[k + i], next) /\ w[k + 1] = Widened(w[k], next)
        BY <1>1, <4>1
      <4>3. w[k + i] = w[k]
        OBVIOUS
      <4> QED  BY <4>1, <4>2, <4>3
    <3> HIDE DEF T
    <3>3. T \subseteq Nat
      BY DEF T
    <3>4. T = Nat
      BY <3>1, <3>2, <3>3, SetOfAllNumbers
    <3>5. c - k \in Nat /\ k + (c - k) = c /\ (c + 1) - k \in Nat /\ k + ((c + 1) - k) = c + 1
      BY <1>2, <2>1
    <3>6. w[c] = w[k] /\ w[c + 1] = w[k]
      BY <3>4, <3>5 DEF T
    <3> QED  BY <1>1, <1>2, <1>4, <3>6
  <2> DEFINE T == {k \in Nat : k <= c + 1 => Cardinality(w[k]) >= k}
  <2>2. 0 \in T
    <3>1. IsFiniteSet(w[0]) /\ Cardinality(w[0]) \in Nat
      BY <1>3, FS_Subset, FS_CardinalityType
    <3> QED  BY <1>2, <3>1
  <2>3. ASSUME NEW k \in T PROVE k + 1 \in T
    <3> SUFFICES ASSUME k + 1 <= c + 1 PROVE Cardinality(w[k + 1]) >= k + 1
      OBVIOUS
    <3>1. k \in Nat /\ k <= c /\ k + 1 \in Nat
      BY <1>2
    <3>2. w[k + 1] # w[k] /\ w[k] \subseteq w[k + 1]
      BY <1>1, <2>1, <3>1 DEF Widened
    <3>3. IsFiniteSet(w[k + 1])
      BY <1>3, <3>1, FS_Subset
    <3>4. Cardinality(w[k]) \in Nat /\ Cardinality(w[k + 1]) \in Nat
      BY <3>2, <3>3, FS_Subset, FS_CardinalityType
    <3>5. Cardinality(w[k]) < Cardinality(w[k + 1])
      <4>1. w[k] \in SUBSET w[k + 1]
        BY <3>2
      <4>2. /\ Cardinality(w[k]) <= Cardinality(w[k + 1])
            /\ Cardinality(w[k + 1]) = Cardinality(w[k]) => w[k + 1] = w[k]
        BY <3>3, <4>1, FS_Subset
      <4> QED  BY <3>2, <3>4, <4>2
    <3>6. Cardinality(w[k]) >= k
      BY <1>2, <3>1
    <3> QED  BY <3>1, <3>2, <3>4, <3>5, <3>6
  <2> HIDE DEF T
  <2>4. T \subseteq Nat
    BY DEF T
  <2>5. T = Nat
    BY <2>2, <2>3, <2>4, SetOfAllNumbers
  <2>6. Cardinality(w[c + 1]) >= c + 1
    BY <1>2, <2>5 DEF T
  <2>7. Cardinality(w[c + 1]) <= c /\ Cardinality(w[c + 1]) \in Nat
    BY <1>2, <1>3, FS_Subset, FS_CardinalityType DEF c
  <2> QED  BY <1>2, <2>6, <2>7
<1>5. Reach(seeds, next) = w[c] /\ Widened(w[c], next) = w[c]
  BY <1>1, <1>4 DEF c
<1> QED  BY <1>2, <1>3, <1>5 DEF Widened

(* Whatever is reached and is no seed has been reached from somewhere.     *)
LEMMA ReachHasPreds ==
    ASSUME NEW D, IsFiniteSet(D), NEW next \in [D -> SUBSET D], NEW seeds \in SUBSET D,
           NEW n \in Reach(seeds, next), n \notin seeds
    PROVE  \E x \in Reach(seeds, next) : n \in next[x]
<1> SUFFICES ASSUME \A x \in Reach(seeds, next) : n \notin next[x] PROVE FALSE
  OBVIOUS
<1> DEFINE X == Reach(seeds, next) \ {n}
<1>1. IsFiniteSet(DOMAIN next)
  OBVIOUS
<1>2. seeds \subseteq X
  BY <1>1, ReachHasSeeds
<1>3. \A x \in X : next[x] \subseteq X
  BY ReachIsClosed
<1>4. n \notin X
  OBVIOUS
<1> HIDE DEF X
<1>5. Reach(seeds, next) \subseteq X
  BY <1>1, <1>2, <1>3, ReachIsLeast
<1> QED  BY <1>4, <1>5

-----------------------------------------------------------------------------
(* The graph.                                                              *)

LEMMA FlowsOfNodes ==
    ASSUME NEW n \in Node
    PROVE  /\ Range(Outgoing[n]) \subseteq Flow
           /\ Targets(n) \subseteq Node /\ Attached(n) \subseteq Boundary
           /\ Onward(n) \subseteq Node /\ OnwardInside(n) \subseteq Onward(n)
<1>1. Outgoing[n] \in Seq(Flow)
  BY GraphTyped
<1>2. \A i \in DOMAIN Outgoing[n] : Outgoing[n][i] \in Flow
  BY <1>1
<1>3. Range(Outgoing[n]) \subseteq Flow
  BY <1>2 DEF Range
<1>4. Targets(n) \subseteq Node
  BY <1>3, GraphTyped DEF Targets
<1>5. Range(Boundaries[n]) \subseteq Boundary
  <2>1. Boundaries[n] \in Seq(Node)
    BY GraphTyped
  <2>2. \A i \in DOMAIN Boundaries[n] : Boundaries[n][i] \in Node
    BY <2>1
  <2>3. \A i \in DOMAIN Boundaries[n] : Kind[Boundaries[n][i]] \in {"timerboundary", "messageboundary"}
    BY BoundariesAttached
  <2> QED  BY <2>2, <2>3 DEF Range, Boundary, Nodes
<1>6. ErrorBoundaries[n] \subseteq Boundary
  <2>1. ErrorBoundaries[n] \subseteq Node
    BY GraphTyped
  <2>2. \A b \in ErrorBoundaries[n] : Kind[b] = "errorboundary"
    BY BoundariesAttached
  <2> QED  BY <2>1, <2>2 DEF Boundary, Nodes
<1>7. Attached(n) \subseteq Boundary
  BY <1>5, <1>6 DEF Attached
<1> QED  BY <1>3, <1>4, <1>7 DEF Onward, OnwardInside, Boundary, Nodes

LEMMA Sources ==
    /\ \A f \in Flow : \E n \in Node : f \in Range(Outgoing[n])
    /\ \A n, k \in Node : \A f : f \in Range(Outgoing[n]) /\ f \in Range(Outgoing[k]) => n = k
<1>1. ASSUME NEW f \in Flow PROVE \E n \in Node : f \in Range(Outgoing[n])
  BY FlowsHaveOneSource DEF Range
<1>2. ASSUME NEW n \in Node, NEW k \in Node, NEW f,
             f \in Range(Outgoing[n]), f \in Range(Outgoing[k])
      PROVE  n = k
  <2>1. f \in Flow
    BY <1>2, FlowsOfNodes
  <2>2. PICK i \in DOMAIN Outgoing[n] : Outgoing[n][i] = f
    BY <1>2 DEF Range
  <2>3. PICK l \in DOMAIN Outgoing[k] : Outgoing[k][l] = f
    BY <1>2 DEF Range
  <2>4. PICK m \in Node : \A x \in Node : \A y \in DOMAIN Outgoing[x] : Outgoing[x][y] = f => x = m
    BY <2>1, FlowsHaveOneSource
  <2> QED  BY <2>2, <2>3, <2>4
<1> QED  BY <1>1, <1>2

(* A boundary hangs on one host, and no flow leads to it.                  *)
LEMMA HostIsOne ==
    ASSUME NEW n \in Node, NEW b \in Attached(n)
    PROVE  /\ b \in Boundary /\ HostsOf(b) = {n}
           /\ \A k \in Node : b \in Attached(k) => k = n
           /\ \A k \in Node : b \notin Targets(k)
<1>1. b \in Boundary
  BY FlowsOfNodes
<1>2. HostsOf(b) = {n}
  BY <1>1, BoundariesAttached
<1>3. ASSUME NEW k \in Node, b \in Attached(k) PROVE k = n
  BY <1>2, <1>3 DEF HostsOf
<1>4. ASSUME NEW k \in Node PROVE b \notin Targets(k)
  BY <1>1, FlowsOfNodes, BoundariesNotEntered DEF Targets
<1> QED  BY <1>1, <1>2, <1>3, <1>4

-----------------------------------------------------------------------------
(* Branches.                                                               *)

LEMMA BranchIs ==
    ASSUME NEW s, NEW j, NEW f \in Flow
    PROVE  LET B == Branch(s, j, f)
           IN  /\ B \subseteq Node \ {s, j}
               /\ Target[f] \in B \union {s, j}
               /\ \A n \in B : OnwardInside(n) \subseteq B \union {s, j}
               /\ \A n \in B : n = Target[f] \/ \E x \in B : n \in OnwardInside(x)
               /\ \A X : /\ Target[f] \in X \union {s, j}
                         /\ \A n \in B \intersect X : OnwardInside(n) \intersect B \subseteq X
                         => B \subseteq X
<1> DEFINE next  == [n \in Node |-> IF n \in {s, j} THEN {} ELSE OnwardInside(n)]
           seeds == {Target[f]}
           R     == Reach(seeds, next)
           B     == Branch(s, j, f)
<1>1. B = R \ {s, j}
  BY DEF Branch
<1>2. next \in [Node -> SUBSET Node] /\ seeds \in SUBSET Node
  BY FlowsOfNodes, GraphTyped
<1>3. DOMAIN next = Node /\ IsFiniteSet(Node)
  BY GraphIsFinite
<1>4. \A n \in Node : next[n] = IF n \in {s, j} THEN {} ELSE OnwardInside(n)
  OBVIOUS
<1> HIDE DEF next
<1>5. R \subseteq Node /\ \A n \in R : next[n] \subseteq R
  BY <1>2, <1>3, ReachIsClosed
<1>6. seeds \subseteq R
  BY <1>3, ReachHasSeeds
<1>7. \A n \in R : n \notin seeds => \E x \in R : n \in next[x]
  BY <1>2, <1>3, ReachHasPreds
<1>8. ASSUME NEW X, Target[f] \in X \union {s, j},
             \A n \in B \intersect X : OnwardInside(n) \intersect B \subseteq X
      PROVE  B \subseteq X
  <2> DEFINE Y == {x \in R : x \in X \union {s, j}}
  <2>1. seeds \subseteq Y
    BY <1>6, <1>8
  <2>2. ASSUME NEW n \in Y, NEW y \in next[n] PROVE y \in Y
    <3>1. n \in R /\ n \in Node /\ y \in R
      BY <1>5
    <3>2. n \notin {s, j} /\ y \in OnwardInside(n)
      BY <1>4, <3>1
    <3>3. n \in B /\ n \in X
      BY <1>1, <3>1, <3>2
    <3>4. y \in B => y \in X
      BY <1>8, <3>2, <3>3
    <3> QED  BY <1>1, <3>1, <3>4
  <2>3. \A x \in B : x \notin {s, j} /\ x \in R
    BY <1>1
  <2>4. \A x \in Y : x \in X \union {s, j}
    OBVIOUS
  <2> HIDE DEF Y, R, B
  <2>5. Reach(seeds, next) \subseteq Y
    BY <1>3, <2>1, <2>2, ReachIsLeast
  <2> QED  BY <2>3, <2>4, <2>5 DEF R
<1> HIDE DEF R, B
<1>9. \A n \in B : OnwardInside(n) \subseteq B \union {s, j}
  BY <1>1, <1>4, <1>5
<1>10. \A n \in B : n = Target[f] \/ \E x \in B : n \in OnwardInside(x)
  BY <1>1, <1>4, <1>5, <1>7
<1>11. B \subseteq Node \ {s, j} /\ Target[f] \in B \union {s, j}
  BY <1>1, <1>5, <1>6
<1> QED  BY <1>8, <1>9, <1>10, <1>11 DEF B

(* Which join closes which split.                                          *)
Closing == CHOOSE c \in Bijection(Splits, Joins) : \A s \in Splits : Closes(s, c[s])

Encloses(s, j) == s \in Splits /\ j = Closing[s]

LEMMA BlocksAreOnes ==
    /\ \A s \in Splits : \E j : Encloses(s, j)
    /\ \A j \in Joins : \E s : Encloses(s, j)
    /\ \A s, j : Encloses(s, j) => /\ s \in Splits /\ j \in Joins /\ Closes(s, j)
                                   /\ s \in Node /\ j \in Node
                                   /\ Kind[s] = "parallel" /\ Kind[j] = "parallel"
    /\ \A s, j, r, k : Encloses(s, j) /\ Encloses(r, k) => s # k /\ (s = r <=> j = k)
<1>1. Closing \in Bijection(Splits, Joins) /\ \A s \in Splits : Closes(s, Closing[s])
  BY GatewaysBalance DEF Closing
<1>2. /\ Closing \in [Splits -> Joins]
      /\ \A s, r \in Splits : Closing[s] = Closing[r] => s = r
      /\ \A j \in Joins : \E s \in Splits : Closing[s] = j
  BY <1>1 DEF Bijection, Injection, Surjection, IsInjective
<1>3. \A j \in Joins : j \in Node /\ IsJoin(j) /\ Kind[j] = "parallel"
  BY DEF Joins, IsJoin
<1>4. \A s \in Splits : s \in Node /\ Kind[s] = "parallel" /\ Len(Outgoing[s]) > 1
  BY DEF Splits, Nodes
<1>5. ASSUME NEW s \in Splits, s \in Joins PROVE FALSE
  <2>1. s \in Node /\ Kind[s] = "parallel" /\ IsJoin(s)
    BY <1>3, <1>4, <1>5
  <2> DEFINE k == Len(Outgoing[s])
  <2>2. k > 1
    BY <1>4
  <2>3. \/ Kind[s] \in {"eventgateway", "exclusive", "end", "terminate"}
        \/ Kind[s] = "parallel" /\ ~IsJoin(s) /\ Outgoing[s] # << >>
        \/ k = 1
    BY <2>1, OneWayOn
  <2> HIDE DEF k
  <2>4. k = 1
    BY <2>1, <2>3
  <2> QED  BY <2>2, <2>4
<1> QED  BY <1>1, <1>2, <1>3, <1>4, <1>5 DEF Encloses

LEMMA BlockIs ==
    ASSUME NEW s, NEW j, Encloses(s, j)
    PROVE  LET F == Range(Outgoing[s])
           IN  /\ \A f, g \in F : \A n : n \in Branch(s, j, f) /\ n \in Branch(s, j, g) => f = g
               /\ \A k \in Node : \A n \in Targets(k) :
                    n = j \/ (\E f \in F : n \in Branch(s, j, f))
                      => k = s \/ \E f \in F : k \in Branch(s, j, f)
               /\ \A f \in F : \A n \in Branch(s, j, f) : s \notin Targets(n) /\ Kind[n] # "end"
               /\ \A f \in F : \E h \in Flow : HandsOver(s, j, f) = {h}
<1> DEFINE F == Range(Outgoing[s])
           branch == [f \in F |-> Branch(s, j, f)]
           block == UNION Range(branch)
<1>1. Closes(s, j)
  BY BlocksAreOnes
<1>2. /\ \A f, g \in F : f # g => branch[f] \intersect branch[g] = {}
      /\ \A n \in Node \ (block \union {s}) : Targets(n) \intersect (block \union {j}) = {}
      /\ \A n \in block : s \notin Targets(n) /\ Kind[n] # "end"
      /\ \A f \in F : \E h \in Flow : HandsOver(s, j, f) = {h}
  BY <1>1 DEF Closes
<1>3. \A n : n \in block <=> \E f \in F : n \in Branch(s, j, f)
  BY DEF Range
<1>4. \A f \in F : branch[f] = Branch(s, j, f)
  OBVIOUS
<1> HIDE DEF branch, block, F
<1>5. \A f, g \in F : \A n : n \in Branch(s, j, f) /\ n \in Branch(s, j, g) => f = g
  BY <1>2, <1>4
<1>6. ASSUME NEW k \in Node, NEW n \in Targets(k), n = j \/ \E f \in F : n \in Branch(s, j, f)
      PROVE  k = s \/ \E f \in F : k \in Branch(s, j, f)
  <2>1. n \in block \union {j}
    BY <1>3, <1>6
  <2>2. k \in block \union {s}
    BY <1>2, <2>1
  <2> QED  BY <1>3, <2>2
<1>7. \A f \in F : \A n \in Branch(s, j, f) : s \notin Targets(n) /\ Kind[n] # "end"
  BY <1>2, <1>3
<1> QED  BY <1>2, <1>5, <1>6, <1>7 DEF F

(* A node of a branch is come to from the branch, or first from its split. *)
LEMMA BranchPreds ==
    ASSUME NEW s, NEW j, Encloses(s, j), NEW f \in Range(Outgoing[s]),
           NEW n \in Branch(s, j, f), NEW k \in Node, n \in Onward(k)
    PROVE  k \in Branch(s, j, f) \/ (k = s /\ n = Target[f] /\ n \in Targets(s))
<1>1. s \in Node /\ j \in Node /\ Kind[s] = "parallel" /\ Kind[j] = "parallel"
  BY BlocksAreOnes
<1>2. \A g \in Range(Outgoing[s]) : g \in Flow
  BY <1>1, FlowsOfNodes
<1>3. CASE n \in Targets(k)
  <2>1. k = s \/ \E g \in Range(Outgoing[s]) : k \in Branch(s, j, g)
    BY <1>3, BlockIs
  <2>2. CASE k = s
    <3>1. PICK g \in Range(Outgoing[s]) : Target[g] = n
      BY <1>3, <2>2 DEF Targets
    <3>2. n \in Branch(s, j, g)
      BY <1>2, <3>1, BranchIs
    <3>3. g = f
      BY <3>2, BlockIs
    <3> QED  BY <1>3, <2>2, <3>1, <3>3
  <2>3. ASSUME NEW g \in Range(Outgoing[s]), k \in Branch(s, j, g)
        PROVE  k \in Branch(s, j, f)
    <3>1. n \in OnwardInside(k)
      BY <1>3 DEF OnwardInside
    <3>2. n \in Branch(s, j, g) \union {s, j}
      BY <1>2, <2>3, <3>1, BranchIs
    <3>3. n \in Branch(s, j, g)
      BY <1>2, <3>2, BranchIs
    <3>4. g = f
      BY <3>3, BlockIs
    <3> QED  BY <2>3, <3>4
  <2> QED  BY <2>1, <2>2, <2>3
<1>4. CASE n \in Attached(k)
  <2>1. n \in Boundary /\ \A x \in Node : n \in Attached(x) => x = k
    BY <1>4, HostIsOne
  <2>2. n # Target[f]
    BY <1>2, <2>1, BoundariesNotEntered
  <2>3. PICK x \in Branch(s, j, f) : n \in OnwardInside(x)
    BY <1>2, <2>2, BranchIs
  <2>4. x \in Node
    BY <1>2, <2>3, BranchIs
  <2>5. n \in Attached(x)
    BY <1>4, <2>3, <2>4, HostIsOne DEF OnwardInside
  <2> QED  BY <2>1, <2>3, <2>4, <2>5
<1> QED  BY <1>3, <1>4 DEF Onward

LEMMA Handed ==
    ASSUME NEW s, NEW j, Encloses(s, j)
    PROVE  /\ \A f \in Range(Outgoing[s]) : \E h \in Incoming(j) : HandsOver(s, j, f) = {h}
           /\ \A h \in Incoming(j) : \E f \in Range(Outgoing[s]) : HandsOver(s, j, f) = {h}
           /\ \A f, g \in Range(Outgoing[s]) : HandsOver(s, j, f) = HandsOver(s, j, g) => f = g
           /\ \A f \in Range(Outgoing[s]) : Target[f] = j => HandsOver(s, j, f) = {f}
           /\ \A f \in Range(Outgoing[s]) : \A n \in Branch(s, j, f) : \A h \in Range(Outgoing[n]) :
                Target[h] = j => HandsOver(s, j, f) = {h}
           /\ \A f \in Range(Outgoing[s]) : Target[f] # s
<1> DEFINE F == Range(Outgoing[s])
<1>1. s \in Node /\ j \in Node /\ s # j
  BY BlocksAreOnes
<1>2. F \subseteq Flow
  BY <1>1, FlowsOfNodes
<1>3. \A f \in F : Branch(s, j, f) \subseteq Node \ {s, j}
  BY <1>2, BranchIs
<1>4. \A f \in F : \E h \in Flow : HandsOver(s, j, f) = {h}
  BY BlockIs
<1>5. \A f \in F : \A h : h \in HandsOver(s, j, f) <=>
        h \in Incoming(j) /\ (h = f \/ \E n \in Branch(s, j, f) : h \in Range(Outgoing[n]))
  BY DEF HandsOver
<1>6. \A f : f \in Incoming(j) <=> f \in Flow /\ Target[f] = j
  BY DEF Incoming
<1>7. \A f, g \in F : \A n : n \in Branch(s, j, f) /\ n \in Branch(s, j, g) => f = g
  BY BlockIs
<1>8. ASSUME NEW f \in F, NEW g \in F, NEW h, h \in HandsOver(s, j, f), h \in HandsOver(s, j, g)
      PROVE  f = g
  <2>1. \A n \in Node : h \in Range(Outgoing[n]) => \A k \in Node : h \in Range(Outgoing[k]) => n = k
    BY Sources
  <2>2. CASE h = f /\ h = g
    BY <2>2
  <2>3. ASSUME NEW n \in Branch(s, j, f), h \in Range(Outgoing[n]), h \in F PROVE FALSE
    BY <1>1, <1>3, <2>1, <2>3
  <2>4. ASSUME NEW n \in Branch(s, j, g), h \in Range(Outgoing[n]), h \in F PROVE FALSE
    BY <1>1, <1>3, <2>1, <2>4
  <2>5. ASSUME NEW n \in Branch(s, j, f), h \in Range(Outgoing[n]),
               NEW k \in Branch(s, j, g), h \in Range(Outgoing[k])
        PROVE  f = g
    <3>1. n = k
      BY <1>3, <2>1, <2>5
    <3> QED  BY <1>7, <3>1
  <2> QED  BY <1>5, <1>8, <2>2, <2>3, <2>4, <2>5
<1>9. ASSUME NEW f \in F PROVE \E h \in Incoming(j) : HandsOver(s, j, f) = {h}
  BY <1>4, <1>5
<1>10. ASSUME NEW h \in Incoming(j) PROVE \E f \in F : HandsOver(s, j, f) = {h}
  <2>1. PICK n \in Node : h \in Range(Outgoing[n])
    BY <1>6, Sources
  <2>2. j \in Targets(n)
    BY <1>6, <2>1 DEF Targets
  <2>3. n = s \/ \E f \in F : n \in Branch(s, j, f)
    BY <2>2, BlockIs
  <2>4. \E f \in F : h \in HandsOver(s, j, f)
    BY <1>5, <2>1, <2>3
  <2> QED  BY <1>4, <2>4
<1>11. ASSUME NEW f \in F, NEW g \in F, HandsOver(s, j, f) = HandsOver(s, j, g) PROVE f = g
  BY <1>4, <1>8, <1>11
<1>12. ASSUME NEW f \in F, Target[f] = j PROVE HandsOver(s, j, f) = {f}
  <2>1. f \in HandsOver(s, j, f)
    BY <1>2, <1>5, <1>6, <1>12
  <2> QED  BY <1>4, <2>1
<1>13. ASSUME NEW f \in F, NEW n \in Branch(s, j, f), NEW h \in Range(Outgoing[n]), Target[h] = j
       PROVE  HandsOver(s, j, f) = {h}
  <2>1. h \in Flow
    BY <1>3, FlowsOfNodes
  <2>2. h \in HandsOver(s, j, f)
    BY <1>5, <1>6, <1>13, <2>1
  <2> QED  BY <1>4, <2>2
<1>14. ASSUME NEW f \in F, Target[f] = s PROVE FALSE
  <2>1. Branch(s, j, f) = {}
    <3> DEFINE B == Branch(s, j, f)
               X == {}
    <3>1. Target[f] \in X \union {s, j}
      BY <1>14
    <3>2. \A n \in B \intersect X : OnwardInside(n) \intersect B \subseteq X
      OBVIOUS
    <3>3. f \in Flow
      BY <1>2
    <3> HIDE DEF B, X
    <3>4. B \subseteq X
      BY <3>1, <3>2, <3>3, BranchIs DEF B
    <3> QED  BY <3>4 DEF B, X
  <2>2. f \notin Incoming(j)
    BY <1>1, <1>6, <1>14
  <2> QED  BY <1>4, <1>5, <2>1, <2>2
<1> QED  BY <1>9, <1>10, <1>11, <1>12, <1>13, <1>14

-----------------------------------------------------------------------------
(* Node n lies on the branch that hands its token to join j by flow h.     *)
On(n, j, h) ==
    \E s \in Splits : \E f \in Range(Outgoing[s]) :
        Encloses(s, j) /\ n \in Branch(s, j, f) /\ HandsOver(s, j, f) = {h}

LEMMA OnIs ==
    ASSUME NEW n, NEW j, NEW h, On(n, j, h)
    PROVE  /\ n \in Node /\ n # j /\ j \in Joins /\ h \in Incoming(j)
           /\ Kind[n] # "end" /\ n \notin NonInterrupting
           /\ \A g : On(n, j, g) => g = h
<1>1. PICK s \in Splits : \E f \in Range(Outgoing[s]) :
        Encloses(s, j) /\ n \in Branch(s, j, f) /\ HandsOver(s, j, f) = {h}
  BY DEF On
<1>2. PICK f \in Range(Outgoing[s]) :
        Encloses(s, j) /\ n \in Branch(s, j, f) /\ HandsOver(s, j, f) = {h}
  BY <1>1
<1>3. s \in Node /\ j \in Joins /\ f \in Flow
  BY <1>2, BlocksAreOnes, FlowsOfNodes
<1>4. n \in Node /\ n # j
  BY <1>2, <1>3, BranchIs
<1>5. h \in Incoming(j)
  BY <1>2 DEF HandsOver
<1>6. Kind[n] # "end"
  BY <1>2, BlockIs
<1>7. n \notin NonInterrupting
  <2> SUFFICES ASSUME n \in NonInterrupting PROVE FALSE
    OBVIOUS
  <2>1. n \in Boundary
    BY DEF NonInterrupting, Boundary, Nodes
  <2>2. n # Target[f]
    BY <1>3, <2>1, BoundariesNotEntered
  <2>3. PICK x \in Branch(s, j, f) : n \in OnwardInside(x)
    BY <1>2, <1>3, <2>2, BranchIs
  <2>4. x \in Node
    BY <1>3, <2>3, BranchIs
  <2>5. n \in Targets(x)
    BY <2>3 DEF OnwardInside
  <2>6. PICK g \in Range(Outgoing[x]) : Target[g] = n
    BY <2>5 DEF Targets
  <2>7. g \in Flow
    BY <2>4, FlowsOfNodes
  <2> QED  BY <2>1, <2>6, <2>7, BoundariesNotEntered
<1>8. ASSUME NEW g, On(n, j, g) PROVE g = h
  <2>1. PICK r \in Splits : \E e \in Range(Outgoing[r]) :
          Encloses(r, j) /\ n \in Branch(r, j, e) /\ HandsOver(r, j, e) = {g}
    BY <1>8 DEF On
  <2>2. PICK e \in Range(Outgoing[r]) :
          Encloses(r, j) /\ n \in Branch(r, j, e) /\ HandsOver(r, j, e) = {g}
    BY <2>1
  <2>3. r = s
    BY <1>2, <2>2, BlocksAreOnes
  <2>4. e = f
    BY <1>2, <2>2, <2>3, BlockIs
  <2> QED  BY <1>2, <2>2, <2>3, <2>4
<1> QED  BY <1>3, <1>4, <1>5, <1>6, <1>7, <1>8

LEMMA OnBranch ==
    ASSUME NEW s, NEW j, Encloses(s, j), NEW f \in Range(Outgoing[s]), NEW h,
           HandsOver(s, j, f) = {h}
    PROVE  \A n : On(n, j, h) <=> n \in Branch(s, j, f)
<1>1. ASSUME NEW n \in Branch(s, j, f) PROVE On(n, j, h)
  BY BlocksAreOnes DEF On
<1>2. ASSUME NEW n, On(n, j, h) PROVE n \in Branch(s, j, f)
  <2>1. PICK r \in Splits : \E e \in Range(Outgoing[r]) :
          Encloses(r, j) /\ n \in Branch(r, j, e) /\ HandsOver(r, j, e) = {h}
    BY <1>2 DEF On
  <2>2. PICK e \in Range(Outgoing[r]) :
          Encloses(r, j) /\ n \in Branch(r, j, e) /\ HandsOver(r, j, e) = {h}
    BY <2>1
  <2>3. r = s
    BY <2>2, BlocksAreOnes
  <2>4. e = f
    BY <2>2, <2>3, Handed
  <2> QED  BY <2>2, <2>3, <2>4
<1> QED  BY <1>1, <1>2

LEMMA OnOf ==
    ASSUME NEW n, NEW j, NEW h, On(n, j, h)
    PROVE  \E s \in Splits : \E f \in Range(Outgoing[s]) :
             /\ Encloses(s, j) /\ n \in Branch(s, j, f) /\ HandsOver(s, j, f) = {h}
             /\ s \in Node /\ j \in Node /\ s # j /\ f \in Flow
             /\ Kind[s] = "parallel" /\ Kind[j] = "parallel"
<1>1. PICK s \in Splits : \E f \in Range(Outgoing[s]) :
        Encloses(s, j) /\ n \in Branch(s, j, f) /\ HandsOver(s, j, f) = {h}
  BY DEF On
<1>2. PICK f \in Range(Outgoing[s]) :
        Encloses(s, j) /\ n \in Branch(s, j, f) /\ HandsOver(s, j, f) = {h}
  BY <1>1
<1>3. s \in Node /\ j \in Node /\ s # j /\ Kind[s] = "parallel" /\ Kind[j] = "parallel"
  BY <1>2, BlocksAreOnes
<1>4. f \in Flow
  BY <1>3, FlowsOfNodes
<1> QED  BY <1>2, <1>3, <1>4

(* A token that comes to node y by flow f stands on a branch of join j     *)
(* that hands over by h: y lies on it, or f is it and y is the join.       *)
Brings(y, f, j, h) == On(y, j, h) \/ (y = j /\ j \in Joins /\ h = f)

(* Along a flow from anything but a split a token stays on its branches.   *)
LEMMA FlowKeeps ==
    ASSUME NEW n \in Node, n \notin Splits, NEW f \in Range(Outgoing[n]), NEW j, NEW h
    PROVE  Brings(Target[f], f, j, h) <=> On(n, j, h)
<1> DEFINE y == Target[f]
<1>1. f \in Flow /\ y \in Node /\ y \in Targets(n) /\ y \in Onward(n) /\ y \in OnwardInside(n)
  BY FlowsOfNodes DEF Targets, Onward, OnwardInside
<1> HIDE DEF y
<1>2. ASSUME On(n, j, h) PROVE Brings(y, f, j, h)
  <2>1. PICK s \in Splits : \E g \in Range(Outgoing[s]) :
             /\ Encloses(s, j) /\ n \in Branch(s, j, g) /\ HandsOver(s, j, g) = {h} /\ g \in Flow
    BY <1>2, OnOf
  <2>2. PICK g \in Range(Outgoing[s]) :
             /\ Encloses(s, j) /\ n \in Branch(s, j, g) /\ HandsOver(s, j, g) = {h} /\ g \in Flow
    BY <2>1
  <2>3. y \in Branch(s, j, g) \union {s, j}
    BY <1>1, <2>2, BranchIs
  <2>4. y # s
    BY <1>1, <2>2, BlockIs
  <2>5. CASE y = j
    <3>1. HandsOver(s, j, g) = {f}
      BY <2>2, <2>5, Handed DEF y
    <3> QED  BY <2>2, <2>5, <3>1, BlocksAreOnes DEF Brings
  <2>6. CASE y \in Branch(s, j, g)
    BY <2>2, <2>6, OnBranch DEF Brings
  <2> QED  BY <2>3, <2>4, <2>5, <2>6
<1>3. ASSUME On(y, j, h) PROVE On(n, j, h)
  <2>1. PICK s \in Splits : \E g \in Range(Outgoing[s]) :
             Encloses(s, j) /\ y \in Branch(s, j, g) /\ HandsOver(s, j, g) = {h}
    BY <1>3, OnOf
  <2>2. PICK g \in Range(Outgoing[s]) :
             Encloses(s, j) /\ y \in Branch(s, j, g) /\ HandsOver(s, j, g) = {h}
    BY <2>1
  <2>3. n \in Branch(s, j, g)
    BY <1>1, <2>2, BranchPreds
  <2> QED  BY <2>2, <2>3, OnBranch
<1>4. ASSUME y = j, j \in Joins, h = f PROVE On(n, j, h)
  <2>1. PICK s : Encloses(s, j)
    BY <1>4, BlocksAreOnes
  <2>2. s \in Splits
    BY <2>1, BlocksAreOnes
  <2>3. \E g \in Range(Outgoing[s]) : n \in Branch(s, j, g)
    BY <1>1, <1>4, <2>1, <2>2, BlockIs
  <2>4. PICK g \in Range(Outgoing[s]) : n \in Branch(s, j, g)
    BY <2>3
  <2>5. HandsOver(s, j, g) = {f}
    BY <1>4, <2>1, <2>4, Handed DEF y
  <2> QED  BY <1>4, <2>1, <2>4, <2>5, OnBranch
<1> QED  BY <1>2, <1>3, <1>4 DEF Brings, y

(* An interrupting boundary lies on the branches of its host.              *)
LEMMA BoundaryKeeps ==
    ASSUME NEW n \in Node, NEW b \in Attached(n), b \notin NonInterrupting, NEW j, NEW h
    PROVE  On(b, j, h) <=> On(n, j, h)
<1>1. b \in OnwardInside(n) /\ b \in Onward(n) /\ b \in Boundary
  BY HostIsOne DEF OnwardInside, Onward
<1>2. Kind[b] # "parallel"
  BY <1>1 DEF Boundary, Nodes
<1>3. ASSUME On(n, j, h) PROVE On(b, j, h)
  <2>1. PICK s \in Splits : \E g \in Range(Outgoing[s]) :
             /\ Encloses(s, j) /\ n \in Branch(s, j, g) /\ HandsOver(s, j, g) = {h} /\ g \in Flow
             /\ Kind[s] = "parallel" /\ Kind[j] = "parallel"
    BY <1>3, OnOf
  <2>2. PICK g \in Range(Outgoing[s]) :
             /\ Encloses(s, j) /\ n \in Branch(s, j, g) /\ HandsOver(s, j, g) = {h} /\ g \in Flow
             /\ Kind[s] = "parallel" /\ Kind[j] = "parallel"
    BY <2>1
  <2>3. b \in Branch(s, j, g) \union {s, j}
    BY <1>1, <2>2, BranchIs
  <2> QED  BY <1>2, <2>2, <2>3, OnBranch
<1>4. ASSUME On(b, j, h) PROVE On(n, j, h)
  <2>1. PICK s \in Splits : \E g \in Range(Outgoing[s]) :
             Encloses(s, j) /\ b \in Branch(s, j, g) /\ HandsOver(s, j, g) = {h} /\ s \in Node
    BY <1>4, OnOf
  <2>2. PICK g \in Range(Outgoing[s]) :
             Encloses(s, j) /\ b \in Branch(s, j, g) /\ HandsOver(s, j, g) = {h} /\ s \in Node
    BY <2>1
  <2>3. b \notin Targets(s)
    BY <2>2, HostIsOne
  <2>4. n \in Branch(s, j, g)
    BY <1>1, <2>2, <2>3, BranchPreds
  <2> QED  BY <2>2, <2>4, OnBranch
<1> QED  BY <1>3, <1>4

(* A flow of a split leads to one branch of its own block, and to nothing  *)
(* else its split does not lie on.                                         *)
LEMMA SplitGains ==
    ASSUME NEW s, NEW j, Encloses(s, j), NEW f \in Range(Outgoing[s]), NEW h,
           HandsOver(s, j, f) = {h}, NEW k, NEW g
    PROVE  Brings(Target[f], f, k, g) <=> On(s, k, g) \/ (k = j /\ g = h)
<1> DEFINE y == Target[f]
<1>0. s \in Node /\ s \in Splits /\ j \in Joins /\ s # j
  BY BlocksAreOnes
<1>1. f \in Flow /\ y \in Node /\ y \in Targets(s) /\ y \in Onward(s) /\ y \in OnwardInside(s)
  BY <1>0, FlowsOfNodes DEF Targets, Onward, OnwardInside
<1>2. y \in Branch(s, j, f) \union {j}
  <2>1. y \in Branch(s, j, f) \union {s, j}
    BY <1>1, BranchIs
  <2>2. y # s
    BY Handed
  <2> QED  BY <2>1, <2>2
<1>3. y = j => h = f
  BY Handed
<1> HIDE DEF y
<1>4. ASSUME On(s, k, g) PROVE Brings(y, f, k, g)
  <2>1. PICK r \in Splits : \E e \in Range(Outgoing[r]) :
             /\ Encloses(r, k) /\ s \in Branch(r, k, e) /\ HandsOver(r, k, e) = {g} /\ e \in Flow
    BY <1>4, OnOf
  <2>2. PICK e \in Range(Outgoing[r]) :
             /\ Encloses(r, k) /\ s \in Branch(r, k, e) /\ HandsOver(r, k, e) = {g} /\ e \in Flow
    BY <2>1
  <2>3. y \in Branch(r, k, e) \union {r, k}
    BY <1>1, <2>2, BranchIs
  <2>4. y # r
    BY <1>1, <2>2, BlockIs
  <2>5. CASE y = k
    <3>1. HandsOver(r, k, e) = {f}
      BY <2>2, <2>5, Handed DEF y
    <3> QED  BY <2>2, <2>5, <3>1, BlocksAreOnes DEF Brings
  <2>6. CASE y \in Branch(r, k, e)
    BY <2>2, <2>6, OnBranch DEF Brings
  <2> QED  BY <2>3, <2>4, <2>5, <2>6
<1>5. Brings(y, f, j, h)
  BY <1>0, <1>2, <1>3, OnBranch DEF Brings
<1>6. ASSUME y = k, k \in Joins, g = f PROVE On(s, k, g) \/ (k = j /\ g = h)
  <2>1. PICK r : Encloses(r, k)
    BY <1>6, BlocksAreOnes
  <2>2. CASE r = s
    <3>1. k = j
      BY <2>1, <2>2, BlocksAreOnes
    <3> QED  BY <1>3, <1>6, <3>1
  <2>3. CASE r # s
    <3>1. \E e \in Range(Outgoing[r]) : s \in Branch(r, k, e)
      BY <1>0, <1>1, <1>6, <2>1, <2>3, BlockIs
    <3>2. PICK e \in Range(Outgoing[r]) : s \in Branch(r, k, e)
      BY <3>1
    <3>3. HandsOver(r, k, e) = {f}
      BY <1>6, <2>1, <3>2, Handed DEF y
    <3> QED  BY <1>6, <2>1, <3>2, <3>3, OnBranch
  <2> QED  BY <2>2, <2>3
<1>7. ASSUME On(y, k, g) PROVE On(s, k, g) \/ (k = j /\ g = h)
  <2>1. PICK r \in Splits : \E e \in Range(Outgoing[r]) :
             Encloses(r, k) /\ y \in Branch(r, k, e) /\ HandsOver(r, k, e) = {g} /\ e \in Flow
    BY <1>7, OnOf
  <2>2. PICK e \in Range(Outgoing[r]) :
             Encloses(r, k) /\ y \in Branch(r, k, e) /\ HandsOver(r, k, e) = {g} /\ e \in Flow
    BY <2>1
  <2>3. s \in Branch(r, k, e) \/ s = r
    BY <1>0, <1>1, <2>2, BranchPreds
  <2>4. CASE s \in Branch(r, k, e)
    BY <2>2, <2>4, OnBranch
  <2>5. CASE s = r
    <3>1. k = j
      BY <2>2, <2>5, BlocksAreOnes
    <3>2. y \notin {s, j}
      BY <2>2, <2>5, <3>1, BranchIs
    <3>3. y \in Branch(s, j, f)
      BY <1>2, <3>2
    <3>4. e = f
      BY <2>2, <2>5, <3>1, <3>3, BlockIs
    <3> QED  BY <2>2, <2>5, <3>1, <3>4
  <2> QED  BY <2>3, <2>4, <2>5
<1> QED  BY <1>4, <1>5, <1>6, <1>7 DEF Brings, y

(* A split lies on no branch of its own block.                             *)
LEMMA SplitIsOutside ==
    ASSUME NEW s, NEW j, Encloses(s, j), NEW h
    PROVE  ~On(s, j, h)
<1> SUFFICES ASSUME On(s, j, h) PROVE FALSE
  OBVIOUS
<1>1. PICK r \in Splits : \E e \in Range(Outgoing[r]) :
        Encloses(r, j) /\ s \in Branch(r, j, e) /\ e \in Flow
  BY OnOf
<1>2. PICK e \in Range(Outgoing[r]) : Encloses(r, j) /\ s \in Branch(r, j, e) /\ e \in Flow
  BY <1>1
<1>3. r = s
  BY <1>2, BlocksAreOnes
<1> QED  BY <1>2, <1>3, BranchIs

-----------------------------------------------------------------------------
(* Entered nodes, starts and side paths.                                   *)

Entered(n) == \E k \in Node : n \in Onward(k)

LEMMA StartsAreNot ==
    ASSUME NEW n \in Starts
    PROVE  n \in Node /\ ~Entered(n) /\ Kind[n] = "start" /\ Incoming(n) = {}
<1>1. n \in Node
  <2>1. \A k \in Nodes({"subprocess"}) : BodyStart[k] \in Node
    BY GraphTyped DEF Nodes
  <2> QED  BY <2>1, GraphTyped DEF Starts
<1>2. Kind[n] = "start" /\ Incoming(n) = {}
  BY StartsNotEntered
<1>3. ASSUME NEW k \in Node, n \in Onward(k) PROVE FALSE
  <2>1. CASE n \in Targets(k)
    <3>1. PICK f \in Range(Outgoing[k]) : Target[f] = n
      BY <2>1 DEF Targets
    <3>2. f \in Flow
      BY <3>1, FlowsOfNodes
    <3> QED  BY <1>2, <3>1, <3>2 DEF Incoming
  <2>2. CASE n \in Attached(k)
    BY <1>2, <2>2, HostIsOne DEF Boundary, Nodes
  <2> QED  BY <1>3, <2>1, <2>2 DEF Onward
<1> QED  BY <1>1, <1>2, <1>3 DEF Entered

LEMMA BranchIsEntered ==
    ASSUME NEW s, NEW j, Encloses(s, j), NEW f \in Range(Outgoing[s]), NEW n \in Branch(s, j, f)
    PROVE  n \in Node /\ Entered(n)
<1>1. s \in Node /\ f \in Flow
  BY BlocksAreOnes, FlowsOfNodes
<1>2. n \in Node /\ (n = Target[f] \/ \E x \in Branch(s, j, f) : n \in OnwardInside(x))
  BY <1>1, BranchIs
<1>3. CASE n = Target[f]
  <2>1. n \in Targets(s)
    BY <1>3 DEF Targets
  <2> QED  BY <1>1, <1>2, <2>1 DEF Entered, Onward
<1>4. ASSUME NEW x \in Branch(s, j, f), n \in OnwardInside(x) PROVE Entered(n)
  <2>1. x \in Node
    BY <1>1, BranchIs
  <2> QED  BY <1>4, <2>1, FlowsOfNodes DEF Entered
<1> QED  BY <1>2, <1>3, <1>4

LEMMA StartsLieOnNothing ==
    ASSUME NEW n \in Starts, NEW j, NEW h
    PROVE  ~On(n, j, h)
<1> SUFFICES ASSUME On(n, j, h) PROVE FALSE
  OBVIOUS
<1>1. Entered(n)
  BY OnOf, BranchIsEntered
<1> QED  BY <1>1, StartsAreNot

(* Nodes that are only entered from one another are entered by nobody.     *)
LEMMA NoIsland ==
    ASSUME NEW X, X \subseteq Node, NEW x \in X, \A n \in X : Entered(n),
           \A n \in X : \A k \in Node : n \in Onward(k) => k \in X
    PROVE  FALSE
<1> DEFINE next == [n \in Node |-> Onward(n)]
           Y == Node \ X
<1>1. DOMAIN next = Node /\ IsFiniteSet(Node) /\ \A n \in Node : next[n] = Onward(n)
  BY GraphIsFinite
<1>2. Starts \subseteq Y
  BY StartsAreNot
<1>3. \A n \in Y : next[n] \subseteq Y
  BY FlowsOfNodes
<1>4. \E n \in X : Incoming(n) # {}
  <2>1. ASSUME NEW n \in X, NEW k \in Node, n \in Targets(k) PROVE Incoming(n) # {}
    <3>1. PICK f \in Range(Outgoing[k]) : Target[f] = n
      BY <2>1 DEF Targets
    <3>2. f \in Flow
      BY <3>1, FlowsOfNodes
    <3> QED  BY <3>1, <3>2 DEF Incoming
  <2>2. PICK k \in Node : x \in Onward(k)
    BY DEF Entered
  <2>3. CASE x \in Attached(k)
    <3>1. k \in X /\ k \notin Boundary
      <4>1. k \in X
        BY <2>2
      <4>2. Boundaries[k] # << >> \/ ErrorBoundaries[k] # {}
        BY <2>3 DEF Attached, Range
      <4>3. Kind[k] \in {"task", "message", "subprocess"}
        BY <4>2, BoundariesAttached
      <4> QED  BY <4>1, <4>3 DEF Boundary, Nodes
    <3>2. PICK l \in Node : k \in Onward(l)
      BY <3>1 DEF Entered
    <3>3. k \in Targets(l)
      BY <3>1, <3>2, FlowsOfNodes DEF Onward
    <3> QED  BY <2>1, <3>1, <3>3
  <2> QED  BY <2>1, <2>2, <2>3 DEF Onward
<1>5. {n \in Node : Incoming(n) # {}} \subseteq Reach(Starts, next)
  BY GraphConnected
<1>6. \A n \in Y : n \notin X
  OBVIOUS
<1> HIDE DEF next, Y
<1>7. Reach(Starts, next) \subseteq Y
  BY <1>1, <1>2, <1>3, ReachIsLeast
<1> QED  BY <1>4, <1>5, <1>6, <1>7

LEMMA SidePathIs ==
    /\ \A n \in Node : n \in NonInterrupting => Onward(n) \subseteq SidePath
    /\ \A n \in SidePath : n \in Node /\ Entered(n) /\ Onward(n) \subseteq SidePath
<1> DEFINE next == [n \in Node |-> Onward(n)]
           seeds == UNION {Onward(b) : b \in NonInterrupting}
<1>1. DOMAIN next = Node /\ IsFiniteSet(Node) /\ \A n \in Node : next[n] = Onward(n)
  BY GraphIsFinite
<1>2. NonInterrupting \subseteq Node
  BY DEF NonInterrupting, Nodes
<1>3. next \in [Node -> SUBSET Node] /\ seeds \in SUBSET Node
  BY <1>2, FlowsOfNodes
<1>4. SidePath = Reach(seeds, next)
  BY DEF SidePath
<1>5. \A n \in seeds : Entered(n)
  BY <1>2 DEF Entered
<1>6. \A n \in Node : n \in NonInterrupting => Onward(n) \subseteq seeds
  OBVIOUS
<1> HIDE DEF next, seeds
<1>7. seeds \subseteq SidePath
  BY <1>1, <1>4, ReachHasSeeds
<1>8. SidePath \subseteq Node /\ \A n \in SidePath : next[n] \subseteq SidePath
  BY <1>1, <1>3, <1>4, ReachIsClosed
<1>9. ASSUME NEW n \in SidePath, n \notin seeds PROVE Entered(n)
  <2>1. \E k \in SidePath : n \in next[k]
    BY <1>1, <1>3, <1>4, <1>9, ReachHasPreds
  <2> QED  BY <1>1, <1>8, <2>1 DEF Entered
<1> QED  BY <1>1, <1>5, <1>6, <1>7, <1>8, <1>9

(* Where a token stands decides for good whether it is on a side path.     *)
LEMMA SideKeeps ==
    ASSUME NEW n \in Node, n \notin NonInterrupting, NEW y \in Onward(n)
    PROVE  y \in SidePath <=> n \in SidePath
BY SidePathIs, SidePathsStandApart

LEMMA StartsAreMain ==
    ASSUME NEW n \in Starts PROVE n \notin SidePath
BY StartsAreNot, SidePathIs

LEMMA JoinsAreMain ==
    ASSUME NEW n \in Node, Kind[n] = "parallel" PROVE n \notin SidePath
BY SidePathsStandApart

LEMMA SideLiesOnNothing ==
    ASSUME NEW n \in SidePath, NEW j, NEW h
    PROVE  ~On(n, j, h)
<1> SUFFICES ASSUME On(n, j, h) PROVE FALSE
  OBVIOUS
<1>1. PICK s \in Splits : \E f \in Range(Outgoing[s]) :
             /\ Encloses(s, j) /\ n \in Branch(s, j, f) /\ HandsOver(s, j, f) = {h}
             /\ s \in Node /\ f \in Flow /\ Kind[s] = "parallel"
  BY OnOf
<1>2. PICK f \in Range(Outgoing[s]) :
             /\ Encloses(s, j) /\ n \in Branch(s, j, f) /\ HandsOver(s, j, f) = {h}
             /\ s \in Node /\ f \in Flow /\ Kind[s] = "parallel"
  BY <1>1
<1> DEFINE B == Branch(s, j, f)
           X == Node \ SidePath
<1>3. Target[f] \in X \union {s, j}
  <2>1. Target[f] \in Targets(s)
    BY DEF Targets
  <2>2. Target[f] \in Node /\ Target[f] \in Onward(s)
    BY <1>2, <2>1, FlowsOfNodes DEF Onward
  <2>3. s \notin NonInterrupting
    BY <1>2 DEF NonInterrupting, Nodes
  <2>4. s \notin SidePath
    BY <1>2, JoinsAreMain
  <2> QED  BY <1>2, <2>2, <2>3, <2>4, SideKeeps
<1>4. ASSUME NEW m \in B \intersect X, NEW y \in OnwardInside(m) \intersect B PROVE y \in X
  <2>1. On(m, j, h) /\ m \in Node
    BY <1>2, OnBranch
  <2>2. m \notin NonInterrupting
    BY <2>1, OnIs
  <2>3. y \in Onward(m) /\ y \in Node
    BY <2>1, FlowsOfNodes
  <2>4. y \notin SidePath
    BY <2>1, <2>2, <2>3, SideKeeps
  <2> QED  BY <2>3, <2>4
<1>5. n \in B /\ n \notin X
  BY <1>2
<1> HIDE DEF B, X
<1>6. B \subseteq X
  BY <1>2, <1>3, <1>4, BranchIs DEF B
<1> QED  BY <1>5, <1>6

-----------------------------------------------------------------------------
(* Blocks nest.                                                            *)

Inside(n, s, j) == \E f \in Range(Outgoing[s]) : n \in Branch(s, j, f)

LEMMA InsideIs ==
    ASSUME NEW s, NEW j, Encloses(s, j)
    PROVE  /\ \A n : Inside(n, s, j) => n \in Node /\ Entered(n)
           /\ ~Inside(s, s, j) /\ ~Inside(j, s, j)
           /\ \A n : Inside(n, s, j) => \A k \in Node : n \in Onward(k) => Inside(k, s, j) \/ k = s
           /\ \A k \in Node : j \in Onward(k) => Inside(k, s, j) \/ k = s
           /\ Entered(j) /\ j \in Node
<1>0. s \in Node /\ j \in Joins /\ j \in Node /\ Kind[j] = "parallel"
  BY BlocksAreOnes
<1>1. \A f \in Range(Outgoing[s]) : f \in Flow
  BY <1>0, FlowsOfNodes
<1>2. ASSUME NEW n, Inside(n, s, j) PROVE n \in Node /\ Entered(n)
  BY <1>2, BranchIsEntered DEF Inside
<1>3. ~Inside(s, s, j) /\ ~Inside(j, s, j)
  BY <1>1, BranchIs DEF Inside
<1>4. ASSUME NEW n, Inside(n, s, j), NEW k \in Node, n \in Onward(k)
      PROVE  Inside(k, s, j) \/ k = s
  BY <1>4, BranchPreds DEF Inside
<1>5. ASSUME NEW k \in Node, j \in Onward(k) PROVE Inside(k, s, j) \/ k = s
  <2>1. j \in Targets(k)
    <3>1. j \notin Boundary
      BY <1>0 DEF Boundary, Nodes
    <3> QED  BY <1>5, <3>1, FlowsOfNodes DEF Onward
  <2> QED  BY <2>1, BlockIs DEF Inside
<1>6. Entered(j)
  <2>1. PICK f \in Incoming(j) : TRUE
    <3>1. s \in Splits
      BY BlocksAreOnes
    <3>2. Len(Outgoing[s]) > 1 /\ Outgoing[s] \in Seq(Flow)
      BY <1>0, <3>1, GraphTyped DEF Splits
    <3>3. 1 \in DOMAIN Outgoing[s]
      BY <3>2
    <3>4. Outgoing[s][1] \in Range(Outgoing[s])
      BY <3>3 DEF Range
    <3> QED  BY <3>4, Handed
  <2>2. f \in Flow /\ Target[f] = j
    BY <2>1 DEF Incoming
  <2>3. PICK k \in Node : f \in Range(Outgoing[k])
    BY <2>2, Sources
  <2> QED  BY <2>2, <2>3 DEF Entered, Onward, Targets
<1> QED  BY <1>0, <1>2, <1>3, <1>4, <1>5, <1>6

(* A split has a second branch beside each of its branches.                *)
LEMMA AnotherBranch ==
    ASSUME NEW s \in Splits, NEW f \in Range(Outgoing[s])
    PROVE  \E g \in Range(Outgoing[s]) : g # f
<1> DEFINE k == Len(Outgoing[s])
<1>1. s \in Node /\ Outgoing[s] \in Seq(Flow) /\ k > 1 /\ k \in Nat
  BY GraphTyped DEF Splits, Nodes
<1>2. 1 \in DOMAIN Outgoing[s] /\ 2 \in DOMAIN Outgoing[s]
  BY <1>1
<1>3. Outgoing[s][1] \in Range(Outgoing[s]) /\ Outgoing[s][2] \in Range(Outgoing[s])
  BY <1>2 DEF Range
<1>4. Outgoing[s][1] # Outgoing[s][2]
  <2>1. Outgoing[s][1] \in Flow
    BY <1>1, <1>2
  <2>2. PICK n \in Node : \E i \in DOMAIN Outgoing[n] :
          \A m \in Node : \A l \in DOMAIN Outgoing[m] : Outgoing[m][l] = Outgoing[s][1] => m = n /\ l = i
    BY <2>1, FlowsHaveOneSource
  <2>3. PICK i \in DOMAIN Outgoing[n] :
          \A m \in Node : \A l \in DOMAIN Outgoing[m] : Outgoing[m][l] = Outgoing[s][1] => m = n /\ l = i
    BY <2>2
  <2>4. 1 = i
    BY <1>1, <1>2, <2>3
  <2>5. ASSUME Outgoing[s][2] = Outgoing[s][1] PROVE FALSE
    <3>1. 2 = i
      BY <1>1, <1>2, <2>3, <2>5
    <3> QED  BY <2>4, <3>1
  <2> QED  BY <2>5
<1> QED  BY <1>3, <1>4

(* Every branch has its last step to the join: from the split itself, or   *)
(* from a node of the branch.                                              *)
LEMMA BranchEnds ==
    ASSUME NEW s, NEW j, Encloses(s, j), NEW f \in Range(Outgoing[s])
    PROVE  j \in Onward(s) \/ \E n \in Branch(s, j, f) : n \in Node /\ j \in Onward(n)
<1>1. PICK h \in Incoming(j) : HandsOver(s, j, f) = {h}
  BY Handed
<1>2. h = f \/ \E n \in Branch(s, j, f) : h \in Range(Outgoing[n])
  BY <1>1 DEF HandsOver
<1>3. Target[h] = j
  BY DEF Incoming
<1>4. CASE h = f
  BY <1>3, <1>4 DEF Onward, Targets
<1>5. ASSUME NEW n \in Branch(s, j, f), h \in Range(Outgoing[n])
      PROVE  n \in Node /\ j \in Onward(n)
  <2>1. n \in Node
    BY BranchIsEntered
  <2> QED  BY <1>3, <1>5, <2>1 DEF Onward, Targets
<1> QED  BY <1>2, <1>4, <1>5

(* If a join lies on a branch, the whole of its block does: the two blocks *)
(* cannot overlap otherwise, or nodes would be entered from each other     *)
(* alone.                                                                  *)
LEMMA BlocksNest ==
    ASSUME NEW s, NEW j, Encloses(s, j), NEW r, NEW k, Encloses(r, k),
           NEW e \in Range(Outgoing[r]), j \in Branch(r, k, e),
           NEW n, Inside(n, s, j)
    PROVE  n \in Branch(r, k, e)
<1> DEFINE O == Branch(r, k, e)
<1>0. /\ s # j /\ s # k /\ r # k /\ r # j /\ (s = r <=> j = k)
      /\ s \in Splits /\ r \in Splits /\ s \in Node /\ r \in Node
  BY BlocksAreOnes
<1>1. e \in Flow /\ \A f \in Range(Outgoing[s]) : f \in Flow
  BY <1>0, FlowsOfNodes
<1>2. /\ j # k /\ s # r
      /\ \A m \in O : m \in Node /\ Entered(m)
      /\ \A m \in O : \A l \in Node : m \in Onward(l) => l \in O \/ l = r
      /\ r \notin O /\ k \notin O /\ j \in O
  <2>1. r \notin O /\ k \notin O
    BY <1>1, BranchIs
  <2> QED  BY <1>0, <2>1, BranchIsEntered, BranchPreds
<1>3. /\ \A m : Inside(m, s, j) => m \in Node /\ Entered(m)
      /\ ~Inside(s, s, j) /\ ~Inside(j, s, j)
      /\ \A m : Inside(m, s, j) => \A l \in Node : m \in Onward(l) => Inside(l, s, j) \/ l = s
      /\ \A l \in Node : j \in Onward(l) => Inside(l, s, j) \/ l = s
      /\ Entered(j) /\ j \in Node
  BY InsideIs
<1>4. \A m : Inside(m, s, j) => \E f \in Range(Outgoing[s]) : m \in Branch(s, j, f)
  BY DEF Inside
<1>5. \A f \in Range(Outgoing[s]) : \A m \in Branch(s, j, f) : Inside(m, s, j)
  BY DEF Inside
<1> HIDE DEF O
<1>6. s \in O \/ Inside(r, s, j)
  <2> SUFFICES ASSUME s \notin O, ~Inside(r, s, j) PROVE FALSE
    OBVIOUS
  <2> DEFINE X == {m \in Node : m = j \/ (m \in O /\ Inside(m, s, j))}
  <2>1. j \in X /\ X \subseteq Node /\ \A m \in X : Entered(m)
    BY <1>3
  <2>2. ASSUME NEW m \in X, NEW l \in Node, m \in Onward(l) PROVE l \in X
    <3>1. Inside(l, s, j) \/ l = s
      BY <1>3, <2>2
    <3>2. l \in O \/ l = r
      BY <1>2, <2>2
    <3> QED  BY <1>2, <3>1, <3>2
  <2> HIDE DEF X
  <2> QED  BY <2>1, <2>2, NoIsland
<1>7. ~Inside(r, s, j)
  <2> SUFFICES ASSUME Inside(r, s, j) PROVE FALSE
    OBVIOUS
  <2>1. CASE s \in O
    <3> DEFINE X == {m \in Node : m = j \/ m \in O \/ Inside(m, s, j)}
    <3>1. j \in X /\ X \subseteq Node /\ \A m \in X : Entered(m)
      BY <1>2, <1>3
    <3>2. ASSUME NEW m \in X, NEW l \in Node, m \in Onward(l) PROVE l \in X
      BY <1>2, <1>3, <2>1, <3>2
    <3> HIDE DEF X
    <3> QED  BY <3>1, <3>2, NoIsland
  <2>2. CASE s \notin O
    <3>1. PICK f \in Range(Outgoing[s]) : r \in Branch(s, j, f)
      BY <1>4
    <3>2. PICK g \in Range(Outgoing[s]) : g # f
      BY <1>0, AnotherBranch
    <3> DEFINE I == Branch(s, j, g)
    <3>3. r \notin I
      BY <3>1, <3>2, BlockIs
    <3>4. j \notin Onward(s)
      BY <1>0, <1>2, <2>2
    <3>5. PICK x \in I : x \in Node /\ j \in Onward(x)
      BY <3>4, BranchEnds
    <3>6. x \in O
      BY <1>2, <3>3, <3>5
    <3>7. \A m \in I : m \in Node /\ Entered(m)
      BY BranchIsEntered
    <3>8. \A m \in I : \A l \in Node : m \in Onward(l) => l \in I \/ l = s
      BY BranchPreds
    <3> DEFINE X == {m \in I : m \in O}
    <3>9. ASSUME NEW m \in X, NEW l \in Node, m \in Onward(l) PROVE l \in X
      BY <1>0, <1>2, <2>2, <3>3, <3>8, <3>9
    <3>10. x \in X /\ X \subseteq Node /\ \A m \in X : Entered(m)
      BY <3>5, <3>6, <3>7
    <3> HIDE DEF X
    <3> QED  BY <3>9, <3>10, NoIsland
  <2> QED  BY <2>1, <2>2
<1>8. s \in O
  BY <1>6, <1>7
<1>9. ~Inside(k, s, j)
  <2> SUFFICES ASSUME Inside(k, s, j) PROVE FALSE
    OBVIOUS
  <2>1. PICK f \in Range(Outgoing[s]) : k \in Branch(s, j, f)
    BY <1>4
  <2>2. PICK g \in Range(Outgoing[r]) : g # e
    BY <1>0, AnotherBranch
  <2> DEFINE I == Branch(s, j, f)
             P == Branch(r, k, g)
  <2>3. s \notin P
    BY <1>8, <2>2, BlockIs DEF O
  <2>4. \A m \in I : m \in Node /\ Entered(m)
    BY BranchIsEntered
  <2>5. \A m \in I : \A l \in Node : m \in Onward(l) => l \in I \/ l = s
    BY BranchPreds
  <2>6. \A m \in P : \A l \in Node : m \in Onward(l) => l \in P \/ l = r
    BY BranchPreds
  <2>7. r \notin I
    BY <1>5, <1>7
  <2>8. k \notin Onward(r)
    BY <1>0, <1>2, <2>1, <2>5, <2>7
  <2>9. PICK x \in P : x \in Node /\ k \in Onward(x)
    BY <2>8, BranchEnds
  <2>10. x \in I
    BY <2>1, <2>3, <2>5, <2>9
  <2> DEFINE X == {m \in I : m \in P}
  <2>11. ASSUME NEW m \in X, NEW l \in Node, m \in Onward(l) PROVE l \in X
    BY <1>2, <2>3, <2>5, <2>6, <2>7, <2>11
  <2>12. x \in X /\ X \subseteq Node /\ \A m \in X : Entered(m)
    BY <2>4, <2>9, <2>10
  <2> HIDE DEF X
  <2> QED  BY <2>11, <2>12, NoIsland
<1>10. ASSUME NEW f \in Range(Outgoing[s]) PROVE Branch(s, j, f) \subseteq O
  <2> DEFINE B == Branch(s, j, f)
  <2>1. f \in Flow /\ Target[f] \in Targets(s) /\ Target[f] \in OnwardInside(s)
    BY <1>1 DEF Targets, OnwardInside
  <2>2. \A m \in O : OnwardInside(m) \subseteq O \union {r, k}
    BY <1>1, BranchIs DEF O
  <2>3. Target[f] \in O \union {s, j}
    <3>1. Target[f] \in O \union {r, k}
      BY <1>8, <2>1, <2>2
    <3>2. Target[f] # r
      BY <1>8, <2>1, BlockIs DEF O
    <3>3. Target[f] \in B \union {s, j}
      BY <2>1, BranchIs
    <3>4. Target[f] # k
      BY <1>0, <1>2, <1>5, <1>9, <3>3
    <3> QED  BY <3>1, <3>2, <3>4
  <2>4. \A m \in B \intersect O : OnwardInside(m) \intersect B \subseteq O
    BY <1>5, <1>7, <1>9, <2>2
  <2> HIDE DEF B
  <2>5. /\ Target[f] \in O \union {s, j}
        /\ \A m \in B \intersect O : OnwardInside(m) \intersect B \subseteq O
        => B \subseteq O
    <3>1. f \in Flow
      BY <2>1
    <3> QED  BY <3>1, BranchIs DEF B
  <2>6. B \subseteq O
    BY <2>3, <2>4, <2>5
  <2> QED  BY <2>6 DEF B
<1> QED  BY <1>4, <1>10 DEF O

LEMMA OnNests ==
    ASSUME NEW n, NEW j, NEW h, On(n, j, h), NEW k, NEW d, On(j, k, d)
    PROVE  On(n, k, d)
<1>1. PICK s \in Splits : \E f \in Range(Outgoing[s]) : Encloses(s, j) /\ n \in Branch(s, j, f)
  BY OnOf
<1>2. Encloses(s, j) /\ Inside(n, s, j)
  BY <1>1 DEF Inside
<1>3. PICK r \in Splits : \E e \in Range(Outgoing[r]) :
        Encloses(r, k) /\ j \in Branch(r, k, e) /\ HandsOver(r, k, e) = {d}
  BY OnOf
<1>4. PICK e \in Range(Outgoing[r]) :
        Encloses(r, k) /\ j \in Branch(r, k, e) /\ HandsOver(r, k, e) = {d}
  BY <1>3
<1>5. n \in Branch(r, k, e)
  BY <1>2, <1>4, BlocksNest
<1> QED  BY <1>4, <1>5, OnBranch

-----------------------------------------------------------------------------
(* Tokens sorted by branches.  A token's seat is where it stands or is     *)
(* about to enter, in which scope, and for a join by which flow.           *)

Lies(p, j, h) == Brings(p.at, p.via, j, h)

Main(p) == p.at \notin SidePath

(* A place a token can come to, by a flow that leads there.                *)
Way(p) ==
    /\ p.at \in Node /\ p.at \notin Boundary
    /\ \A g \in Node : Kind[g] = "eventgateway" => p.at \notin Targets(g)
    /\ IsJoin(p.at) => p.via \in Incoming(p.at)

(* Two tokens are parted by a join that waits for both of them.            *)
Parted(p, q) == \E j, a, b : a # b /\ Lies(p, j, a) /\ Lies(q, j, b)

(* In scope x every flow into join j has a token still to come by it.      *)
Covered(P, x, j) ==
    \A b \in Incoming(j) : \E q \in P : Main(q) /\ q.scope = x /\ Lies(q, j, b)

Sorted(P) ==
    /\ \A p \in P : Way(p)
    /\ \A p, q \in P : p # q /\ p.scope = q.scope /\ Main(p) /\ Main(q) => Parted(p, q)
    /\ \A p \in P : \A j, h : Main(p) /\ Lies(p, j, h) => Covered(P, p.scope, j)

LEMMA LiesIs ==
    ASSUME NEW p, Way(p), NEW j, NEW h, Lies(p, j, h)
    PROVE  j \in Joins /\ h \in Incoming(j) /\ Main(p) /\ \A g : Lies(p, j, g) => g = h
<1>1. CASE On(p.at, j, h)
  <2>1. p.at # j /\ j \in Joins /\ h \in Incoming(j) /\ \A g : On(p.at, j, g) => g = h
    BY <1>1, OnIs
  <2>2. Main(p)
    BY <1>1, SideLiesOnNothing DEF Main
  <2> QED  BY <2>1, <2>2 DEF Lies, Brings
<1>2. CASE p.at = j /\ j \in Joins /\ h = p.via
  <2>1. IsJoin(j) /\ j \in Node /\ Kind[j] = "parallel"
    BY <1>2 DEF Joins, IsJoin
  <2>2. h \in Incoming(j) /\ Main(p)
    BY <1>2, <2>1, JoinsAreMain DEF Way, Main
  <2>3. \A g : ~On(p.at, j, g)
    BY <1>2, OnIs
  <2> QED  BY <1>2, <2>2, <2>3 DEF Lies, Brings
<1> QED  BY <1>1, <1>2 DEF Lies, Brings

(* Whole scopes may go.                                                    *)
LEMMA FewerScopesSorted ==
    ASSUME NEW P, Sorted(P), NEW R, R \subseteq P,
           \A p \in R, q \in P : q.scope = p.scope => q \in R
    PROVE  Sorted(R)
<1>1. ASSUME NEW p \in R, NEW j, NEW h, Main(p), Lies(p, j, h)
      PROVE  Covered(R, p.scope, j)
  <2>1. Covered(P, p.scope, j)
    BY <1>1 DEF Sorted
  <2> QED  BY <2>1 DEF Covered
<1> QED  BY <1>1 DEF Sorted

(* One token moves, or becomes several: each is on the branches it was on, *)
(* and on a branch of its own of whatever block they have entered.         *)
LEMMA ReplacedSorted ==
    ASSUME NEW P, Sorted(P), NEW p0 \in P, NEW Q, Q # {}, NEW R,
           \A p \in R : p \in Q \/ (p \in P /\ p # p0),
           Q \subseteq R,
           \A p \in R, q \in P : q.scope = p.scope /\ q # p0 => q \in R,
           \A q \in Q : /\ Way(q) /\ q.scope = p0.scope /\ (Main(q) <=> Main(p0))
                        /\ \A j, h : Lies(p0, j, h) => Lies(q, j, h),
           \A q, r \in Q : q # r => Parted(q, r),
           \A q \in Q : \A j, h : Lies(q, j, h) =>
             Lies(p0, j, h) \/ \A b \in Incoming(j) : \E r \in Q : Lies(r, j, b)
    PROVE  Sorted(R)
<1>1. \A p \in R : Way(p)
  BY DEF Sorted
<1>2. ASSUME NEW p \in R, NEW q \in R, p # q, p.scope = q.scope, Main(p), Main(q)
      PROVE  Parted(p, q)
  <2>1. CASE p \in Q /\ q \in Q
    BY <1>2, <2>1
  <2>2. CASE p \in Q /\ q \notin Q
    <3>1. q \in P /\ q # p0 /\ q.scope = p0.scope /\ Main(p0)
      BY <1>2, <2>2
    <3>2. Parted(p0, q)
      BY <1>2, <3>1 DEF Sorted
    <3> QED  BY <2>2, <3>2 DEF Parted
  <2>3. CASE p \notin Q /\ q \in Q
    <3>1. p \in P /\ p # p0 /\ p.scope = p0.scope /\ Main(p0)
      BY <1>2, <2>3
    <3>2. Parted(p, p0)
      BY <1>2, <3>1 DEF Sorted
    <3> QED  BY <2>3, <3>2 DEF Parted
  <2>4. CASE p \notin Q /\ q \notin Q
    <3>1. p \in P /\ q \in P
      BY <2>4
    <3> QED  BY <1>2, <3>1 DEF Sorted
  <2> QED  BY <2>1, <2>2, <2>3, <2>4
<1>3. ASSUME NEW p \in R, NEW j, NEW h, NEW u \in P, Main(u), Lies(u, j, h), u.scope = p.scope
      PROVE  Covered(R, p.scope, j)
  <2>1. Covered(P, p.scope, j)
    BY <1>3 DEF Sorted
  <2>2. SUFFICES ASSUME NEW b \in Incoming(j)
                 PROVE  \E q \in R : Main(q) /\ q.scope = p.scope /\ Lies(q, j, b)
    BY DEF Covered
  <2>3. PICK w \in P : Main(w) /\ w.scope = p.scope /\ Lies(w, j, b)
    BY <2>1 DEF Covered
  <2>4. CASE w = p0
    <3>1. PICK q \in Q : TRUE
      OBVIOUS
    <3> QED  BY <2>3, <2>4, <3>1
  <2>5. CASE w # p0
    BY <2>3, <2>5
  <2> QED  BY <2>4, <2>5
<1>4. ASSUME NEW p \in R, NEW j, NEW h, Main(p), Lies(p, j, h)
      PROVE  Covered(R, p.scope, j)
  <2>1. CASE p \notin Q
    <3>1. p \in P
      BY <2>1
    <3> QED  BY <1>3, <1>4, <3>1
  <2>2. CASE p \in Q /\ Lies(p0, j, h)
    BY <1>3, <1>4, <2>2
  <2>3. CASE p \in Q /\ ~Lies(p0, j, h)
    <3>1. \A b \in Incoming(j) : \E r \in Q : Lies(r, j, b)
      BY <1>4, <2>3
    <3>2. \A r \in Q : r \in R /\ Main(r) /\ r.scope = p.scope
      BY <1>4, <2>3
    <3> QED  BY <3>1, <3>2 DEF Covered
  <2> QED  BY <2>1, <2>2, <2>3
<1> QED  BY <1>1, <1>2, <1>4 DEF Sorted

(* A join merges the tokens that came by each of its flows.                *)
LEMMA JoinedSorted ==
    ASSUME NEW P, Sorted(P), NEW j \in Joins, NEW x, NEW A, A \subseteq P,
           \A a \in A : a.at = j /\ a.scope = x,
           \A h \in Incoming(j) : \E a \in A : a.via = h,
           NEW q, Way(q), q.scope = x, Main(q), \A k, h : Lies(q, k, h) <=> On(j, k, h),
           NEW R, \A p : p \in R <=> (p \in P /\ p \notin A) \/ p = q
    PROVE  Sorted(R)
<1>1. IsJoin(j) /\ j \in Node /\ Kind[j] = "parallel"
  BY DEF Joins, IsJoin
<1>2. \A a \in A : Main(a) /\ Way(a)
  BY <1>1, JoinsAreMain DEF Main, Sorted
<1>3. \A a \in A : \A k, h : Lies(a, k, h) <=> On(j, k, h) \/ (k = j /\ h = a.via)
  BY <1>1 DEF Lies, Brings
<1>4. PICK a0 \in A : TRUE
  <2>1. Incoming(j) # {}
    <3>1. \E s : Encloses(s, j)
      BY BlocksAreOnes
    <3>2. PICK s : Encloses(s, j)
      BY <3>1
    <3>3. s \in Splits /\ s \in Node /\ Outgoing[s] \in Seq(Flow) /\ Len(Outgoing[s]) > 1
      BY <3>2, BlocksAreOnes, GraphTyped DEF Splits
    <3>4. 1 \in DOMAIN Outgoing[s]
      BY <3>3
    <3>5. Outgoing[s][1] \in Range(Outgoing[s])
      BY <3>4 DEF Range
    <3> QED  BY <3>2, <3>5, Handed
  <2> QED  BY <2>1
<1>5. ASSUME NEW p \in P, p \notin A, Main(p), p.scope = x
      PROVE  (\A h : ~Lies(p, j, h)) /\ Parted(p, q)
  <2>0. Way(p) /\ \A a \in A : a \in P /\ p # a /\ Parted(p, a)
    BY <1>2, <1>5 DEF Sorted
  <2>1. ASSUME NEW h, Lies(p, j, h) PROVE FALSE
    <3>1. h \in Incoming(j) /\ \A g : Lies(p, j, g) => g = h
      BY <2>0, <2>1, LiesIs
    <3>2. PICK a \in A : a.via = h
      BY <3>1
    <3>3. PICK k, b, c : b # c /\ Lies(p, k, b) /\ Lies(a, k, c)
      BY <2>0 DEF Parted
    <3>4. CASE k = j
      <4>1. b = h
        BY <3>1, <3>3, <3>4
      <4>2. Lies(a, j, h) /\ Way(a)
        BY <1>2, <1>3, <3>2
      <4>3. c = h
        BY <3>3, <3>4, <4>2, LiesIs
      <4> QED  BY <3>3, <4>1, <4>3
    <3>5. CASE k # j
      <4>1. On(j, k, c)
        BY <1>3, <3>3, <3>5
      <4>2. On(p.at, j, h) \/ p.at = j
        BY <2>1 DEF Lies, Brings
      <4>3. On(p.at, k, c)
        BY <4>1, <4>2, OnNests
      <4>4. Lies(p, k, c)
        BY <4>3 DEF Lies, Brings
      <4>5. c = b
        BY <2>0, <3>3, <4>4, LiesIs
      <4> QED  BY <3>3, <4>5
    <3> QED  BY <3>4, <3>5
  <2>2. PICK k, b, c : b # c /\ Lies(p, k, b) /\ Lies(a0, k, c)
    BY <1>4, <2>0 DEF Parted
  <2>3. k # j
    BY <2>1, <2>2
  <2>4. On(j, k, c)
    BY <1>3, <1>4, <2>2, <2>3
  <2>5. Lies(q, k, c)
    BY <2>4
  <2>6. Parted(p, q)
    BY <2>2, <2>5 DEF Parted
  <2> QED  BY <2>1, <2>6
<1>6. \A p : Parted(p, q) => Parted(q, p)
  BY DEF Parted
<1>7. ASSUME NEW u \in R, NEW v \in R, u # v, u.scope = v.scope, Main(u), Main(v)
      PROVE  Parted(u, v)
  <2>1. CASE u # q /\ v # q
    BY <1>7, <2>1 DEF Sorted
  <2>2. CASE u = q
    BY <1>5, <1>6, <1>7, <2>2
  <2>3. CASE v = q
    BY <1>5, <1>7, <2>3
  <2> QED  BY <2>1, <2>2, <2>3
<1>8. ASSUME NEW u \in P, Main(u), NEW k, NEW h, Lies(u, k, h), k # j
      PROVE  Covered(R, u.scope, k)
  <2>1. Covered(P, u.scope, k)
    BY <1>8 DEF Sorted
  <2>2. SUFFICES ASSUME NEW b \in Incoming(k)
                 PROVE  \E w \in R : Main(w) /\ w.scope = u.scope /\ Lies(w, k, b)
    BY DEF Covered
  <2>3. PICK w \in P : Main(w) /\ w.scope = u.scope /\ Lies(w, k, b)
    BY <2>1 DEF Covered
  <2>4. CASE w \in A
    <3>1. On(j, k, b) /\ w.scope = x
      BY <1>3, <1>8, <2>3, <2>4
    <3>2. Lies(q, k, b) /\ q \in R
      BY <3>1
    <3> QED  BY <2>3, <3>1, <3>2
  <2>5. CASE w \notin A
    BY <2>3, <2>5
  <2> QED  BY <2>4, <2>5
<1>9. ASSUME NEW u \in R, Main(u), NEW k, NEW h, Lies(u, k, h)
      PROVE  Covered(R, u.scope, k)
  <2>1. CASE u = q
    <3>1. On(j, k, h)
      BY <1>9, <2>1
    <3>2. k # j
      BY <3>1, OnIs
    <3>3. Lies(a0, k, h) /\ a0 \in P /\ Main(a0) /\ a0.scope = x
      BY <1>2, <1>3, <1>4, <3>1
    <3>4. Covered(R, a0.scope, k)
      BY <1>8, <3>2, <3>3
    <3> QED  BY <2>1, <3>3, <3>4
  <2>2. CASE u # q
    <3>1. u \in P /\ u \notin A
      BY <2>2
    <3>2. CASE k # j
      BY <1>8, <1>9, <3>1, <3>2
    <3>3. CASE k = j
      <4>1. u.scope # x
        BY <1>5, <1>9, <3>1, <3>3
      <4>2. Covered(P, u.scope, k)
        BY <1>9, <3>1 DEF Sorted
      <4>3. SUFFICES ASSUME NEW b \in Incoming(k)
                     PROVE  \E w \in R : Main(w) /\ w.scope = u.scope /\ Lies(w, k, b)
        BY DEF Covered
      <4>4. PICK w \in P : Main(w) /\ w.scope = u.scope /\ Lies(w, k, b)
        BY <4>2 DEF Covered
      <4>5. w \notin A
        BY <4>1, <4>4
      <4> QED  BY <4>4, <4>5
    <3> QED  BY <3>2, <3>3
  <2> QED  BY <2>1, <2>2
<1>10. \A u \in R : Way(u)
  BY DEF Sorted
<1> QED  BY <1>7, <1>9, <1>10 DEF Sorted

(* A token may go that no join waits for: it is on a side path, on no      *)
(* branch, or alone in its scope.                                          *)
LEMMA SpentSorted ==
    ASSUME NEW P, Sorted(P), NEW p0 \in P,
           ~Main(p0) \/ (\A j, h : ~Lies(p0, j, h)) \/ (\A p \in P : p.scope = p0.scope => p = p0),
           NEW R, \A p : p \in R <=> p \in P /\ p # p0
    PROVE  Sorted(R)
<1>1. ASSUME NEW p \in R, NEW j, NEW h, Main(p), Lies(p, j, h)
      PROVE  Covered(R, p.scope, j)
  <2>1. Covered(P, p.scope, j)
    BY <1>1 DEF Sorted
  <2>2. SUFFICES ASSUME NEW b \in Incoming(j)
                 PROVE  \E w \in R : Main(w) /\ w.scope = p.scope /\ Lies(w, j, b)
    BY DEF Covered
  <2>3. PICK w \in P : Main(w) /\ w.scope = p.scope /\ Lies(w, j, b)
    BY <2>1 DEF Covered
  <2>4. w # p0
    BY <1>1, <2>3
  <2> QED  BY <2>3, <2>4
<1> QED  BY <1>1 DEF Sorted

(* A token may come that no join waits for: on a side path, or the first   *)
(* of its scope.                                                           *)
LEMMA AddedSorted ==
    ASSUME NEW P, Sorted(P), NEW q, Way(q),
           \/ ~Main(q)
           \/ (\A p \in P : p.scope # q.scope) /\ \A j, h : ~Lies(q, j, h),
           NEW R, \A p : p \in R <=> p \in P \/ p = q
    PROVE  Sorted(R)
<1>1. ASSUME NEW p \in R, NEW j, NEW h, Main(p), Lies(p, j, h)
      PROVE  Covered(R, p.scope, j)
  <2>1. p \in P
    BY <1>1
  <2>2. Covered(P, p.scope, j)
    BY <1>1, <2>1 DEF Sorted
  <2> QED  BY <2>2 DEF Covered
<1>2. ASSUME NEW u \in R, NEW v \in R, u # v, u.scope = v.scope, Main(u), Main(v)
      PROVE  Parted(u, v)
  <2>1. u \in P /\ v \in P
    BY <1>2
  <2> QED  BY <1>2, <2>1 DEF Sorted
<1> QED  BY <1>1, <1>2 DEF Sorted

-----------------------------------------------------------------------------
(* Steps of a token along the graph.                                       *)

SeatAt(id, y, x, f) == [id |-> id, at |-> y, scope |-> x, via |-> IF IsJoin(y) THEN f ELSE NoFlow]

LEMMA SeatLies ==
    ASSUME NEW id, NEW y \in Node, NEW x, NEW f, NEW j, NEW h
    PROVE  Lies(SeatAt(id, y, x, f), j, h) <=> Brings(y, f, j, h)
<1>1. j = y /\ j \in Joins => IsJoin(y)
  BY DEF Joins
<1> QED  BY <1>1 DEF Lies, Brings, SeatAt

(* A token that stands at n is sent to y by flow f: it is on the branches  *)
(* it was on, and as much on a side path as it was.                        *)
Follows(n, y, f) ==
    /\ y \in Node /\ y \notin Boundary
    /\ \A g \in Node : Kind[g] = "eventgateway" => y \notin Targets(g)
    /\ f \in Incoming(y)
    /\ y \in SidePath <=> n \in SidePath
    /\ \A j, h : Brings(y, f, j, h) <=> On(n, j, h)

LEMMA FlowLeads ==
    ASSUME NEW n \in Node, Kind[n] # "eventgateway", NEW f \in Range(Outgoing[n])
    PROVE  LET y == Target[f]
           IN  /\ y \in Node /\ y \notin Boundary
               /\ \A g \in Node : Kind[g] = "eventgateway" => y \notin Targets(g)
               /\ f \in Incoming(y) /\ y \in Onward(n)
<1> DEFINE y == Target[f]
<1>1. f \in Flow /\ y \in Node /\ y \notin Boundary
  BY FlowsOfNodes, GraphTyped, BoundariesNotEntered
<1>2. f \in Incoming(y) /\ y \in Onward(n)
  BY <1>1 DEF Incoming, Onward, Targets
<1>3. ASSUME NEW g \in Node, Kind[g] = "eventgateway", y \in Targets(g) PROVE FALSE
  <2>1. PICK e \in Range(Outgoing[g]) : Target[e] = y
    BY <1>3 DEF Targets
  <2>2. Incoming(y) = {e}
    BY <1>3, <2>1, GatewaysRaceCatches
  <2>3. e = f
    BY <1>2, <2>2
  <2>4. n = g
    BY <2>1, <2>3, Sources
  <2> QED  BY <1>3, <2>4
<1> QED  BY <1>1, <1>2, <1>3

LEMMA FlowFollows ==
    ASSUME NEW n \in Node, Kind[n] # "eventgateway", n \notin Splits, n \notin NonInterrupting,
           NEW f \in Range(Outgoing[n])
    PROVE  Follows(n, Target[f], f)
<1>1. Target[f] \in SidePath <=> n \in SidePath
  BY FlowLeads, SideKeeps
<1> QED  BY <1>1, FlowLeads, FlowKeeps DEF Follows

LEMMA BoundaryFollows ==
    ASSUME NEW n \in Node, NEW b \in Attached(n), b \notin NonInterrupting,
           n \notin NonInterrupting, NEW f \in Range(Outgoing[b])
    PROVE  Follows(n, Target[f], f)
<1>1. b \in Node /\ b \in Boundary /\ b \in Onward(n)
  BY HostIsOne DEF Boundary, Nodes, Onward
<1>2. Kind[b] # "eventgateway" /\ b \notin Splits
  BY <1>1 DEF Boundary, Nodes, Splits
<1>3. Follows(b, Target[f], f)
  BY <1>1, <1>2, FlowFollows
<1>4. b \in SidePath <=> n \in SidePath
  BY <1>1, SideKeeps
<1> QED  BY <1>3, <1>4, BoundaryKeeps DEF Follows

LEMMA AlternativeFollows ==
    ASSUME NEW n \in Node, Kind[n] = "eventgateway", NEW a \in Targets(n),
           NEW f \in Range(Outgoing[a])
    PROVE  Follows(n, Target[f], f)
<1>1. PICK e \in Range(Outgoing[n]) : Target[e] = a
  BY DEF Targets
<1>2. Kind[a] \in {"timer", "message"} /\ a \in Node /\ a \in Onward(n)
  BY <1>1, GatewaysRaceCatches, FlowsOfNodes DEF Onward
<1>3. a \notin Splits /\ a \notin NonInterrupting /\ n \notin Splits /\ n \notin NonInterrupting
      /\ a \notin Joins
  BY <1>2 DEF Splits, NonInterrupting, Nodes, Joins, IsJoin
<1>4. Follows(a, Target[f], f)
  BY <1>2, <1>3, FlowFollows
<1>5. a \in SidePath <=> n \in SidePath
  BY <1>2, <1>3, SideKeeps
<1>6. ASSUME NEW j, NEW h PROVE On(a, j, h) <=> On(n, j, h)
  <2>1. Brings(Target[e], e, j, h) <=> On(n, j, h)
    BY <1>3, FlowKeeps
  <2> QED  BY <1>1, <1>3, <2>1 DEF Brings
<1> QED  BY <1>4, <1>5, <1>6 DEF Follows

(* The side path of a non-interrupting boundary.                           *)
LEMMA SideFollows ==
    ASSUME NEW b \in NonInterrupting, NEW f \in Range(Outgoing[b])
    PROVE  LET y == Target[f]
           IN  /\ y \in Node /\ y \notin Boundary /\ y \in SidePath
               /\ \A g \in Node : Kind[g] = "eventgateway" => y \notin Targets(g)
               /\ f \in Incoming(y)
<1>1. b \in Node /\ Kind[b] # "eventgateway"
  BY DEF NonInterrupting, Nodes
<1> QED  BY <1>1, FlowLeads, SidePathIs

(* The start of a scope.                                                   *)
LEMMA StartFollows ==
    ASSUME NEW n \in Starts
    PROVE  /\ n \in Node /\ n \notin Boundary /\ ~IsJoin(n)
           /\ \A g \in Node : n \notin Targets(g)
           /\ \A f, j, h : ~Brings(n, f, j, h)
<1>1. n \in Node /\ Kind[n] = "start" /\ ~Entered(n)
  BY StartsAreNot
<1>2. n \notin Boundary /\ ~IsJoin(n)
  BY <1>1 DEF Boundary, Nodes, IsJoin
<1>3. \A g \in Node : n \notin Targets(g)
  BY <1>1 DEF Entered, Onward
<1>4. n \notin Joins
  BY <1>2 DEF Joins
<1> QED  BY <1>1, <1>2, <1>3, <1>4, StartsLieOnNothing DEF Brings

(* A split sends a token of its own on each of its branches.               *)
Forked(s, x, k) ==
    {SeatAt(k + i - 1, Target[Outgoing[s][i]], x, Outgoing[s][i]) : i \in DOMAIN Outgoing[s]}

LEMMA ForkSorted ==
    ASSUME NEW P, Sorted(P), NEW p0 \in P, NEW s \in Splits, p0.at = s,
           NEW x, x = p0.scope, NEW k, NEW Q, Q = Forked(s, x, k),
           NEW R, \A p : p \in R <=> (p \in P /\ p # p0) \/ p \in Q
    PROVE  Sorted(R)
<1> DEFINE out == Outgoing[s]
           seat(i) == SeatAt(k + i - 1, Target[out[i]], x, out[i])
<1>1. /\ s \in Node /\ s \in Splits /\ Kind[s] = "parallel" /\ ~IsJoin(s) /\ s \notin SidePath
      /\ s \notin NonInterrupting /\ s \notin Joins
  <2>1. s \in Node /\ s \in Splits /\ Kind[s] = "parallel"
    BY DEF Splits, Nodes
  <2>2. PICK j : Encloses(s, j)
    BY <2>1, BlocksAreOnes
  <2>3. s \notin Joins
    <3> SUFFICES ASSUME s \in Joins PROVE FALSE
      OBVIOUS
    <3>1. PICK r : Encloses(r, s)
      BY BlocksAreOnes
    <3> QED  BY <2>2, <3>1, BlocksAreOnes
  <2> QED  BY <2>1, <2>3, JoinsAreMain DEF Joins, NonInterrupting, Nodes
<1>2. PICK j : Encloses(s, j)
  BY <1>1, BlocksAreOnes
<1>16. \A f \in Range(Outgoing[s]) : \E h \in Incoming(j) : HandsOver(s, j, f) = {h}
  BY <1>2, Handed
<1>17. \A f, g \in Range(Outgoing[s]) : HandsOver(s, j, f) = HandsOver(s, j, g) => f = g
  BY <1>2, Handed
<1>3. \A j1, h1 : Lies(p0, j1, h1) <=> On(s, j1, h1)
  BY <1>1 DEF Lies, Brings
<1>4. ASSUME NEW i \in DOMAIN out PROVE out[i] \in Range(Outgoing[s])
  BY DEF Range
<1>5. \A f \in Range(Outgoing[s]) : \E i \in DOMAIN out : out[i] = f
  BY DEF Range
<1>6. ASSUME NEW i \in DOMAIN out
      PROVE  /\ Way(seat(i)) /\ ~(Target[out[i]] \in SidePath) /\ Target[out[i]] \in Node
             /\ seat(i).scope = x /\ seat(i).at = Target[out[i]]
  <2>1. /\ Target[out[i]] \in Node /\ Target[out[i]] \notin Boundary
        /\ \A g \in Node : Kind[g] = "eventgateway" => Target[out[i]] \notin Targets(g)
        /\ out[i] \in Incoming(Target[out[i]]) /\ Target[out[i]] \in Onward(s)
    BY <1>1, <1>4, FlowLeads
  <2>2. Target[out[i]] \notin SidePath
    BY <1>1, <2>1, SideKeeps
  <2> QED  BY <2>1, <2>2 DEF Way, SeatAt
<1>7. ASSUME NEW i \in DOMAIN out
      PROVE  \E h : /\ HandsOver(s, j, out[i]) = {h}
                    /\ \A k1, g1 : Lies(seat(i), k1, g1) <=> On(s, k1, g1) \/ (k1 = j /\ g1 = h)
  <2> DEFINE f == out[i]
  <2>0. f \in Range(Outgoing[s])
    BY <1>4
  <2> HIDE DEF f
  <2>1. PICK h : HandsOver(s, j, f) = {h}
    BY <1>16, <2>0
  <2>2. \A k1, g1 : Brings(Target[f], f, k1, g1) <=> On(s, k1, g1) \/ (k1 = j /\ g1 = h)
    BY <1>2, <2>0, <2>1, SplitGains
  <2>3. \A k1, g1 : Lies(seat(i), k1, g1) <=> Brings(Target[f], f, k1, g1)
    BY <1>6, SeatLies DEF f
  <2> QED  BY <2>1, <2>2, <2>3 DEF f
<1>8. \A q : q \in Q <=> \E i \in DOMAIN out : q = seat(i)
  BY DEF Forked
<1>9. ASSUME NEW i \in DOMAIN out, NEW l \in DOMAIN out, seat(i) # seat(l)
      PROVE  Parted(seat(i), seat(l))
  <2>1. PICK h : /\ HandsOver(s, j, out[i]) = {h}
                 /\ \A k1, g1 : Lies(seat(i), k1, g1) <=> On(s, k1, g1) \/ (k1 = j /\ g1 = h)
    BY <1>7
  <2>2. PICK g : /\ HandsOver(s, j, out[l]) = {g}
                 /\ \A k1, g1 : Lies(seat(l), k1, g1) <=> On(s, k1, g1) \/ (k1 = j /\ g1 = g)
    BY <1>7
  <2>3. out[i] # out[l]
    <3>1. i # l
      BY <1>9
    <3>2. out[i] \in Flow
      BY <1>1, <1>4, FlowsOfNodes
    <3>3. PICK n \in Node : \E v \in DOMAIN Outgoing[n] :
            \A m \in Node : \A w \in DOMAIN Outgoing[m] : Outgoing[m][w] = out[i] => m = n /\ w = v
      BY <3>2, FlowsHaveOneSource
    <3>4. PICK v \in DOMAIN Outgoing[n] :
            \A m \in Node : \A w \in DOMAIN Outgoing[m] : Outgoing[m][w] = out[i] => m = n /\ w = v
      BY <3>3
    <3> QED  BY <1>1, <3>1, <3>4
  <2>4. h # g
    BY <1>4, <1>17, <2>1, <2>2, <2>3
  <2>5. Lies(seat(i), j, h) /\ Lies(seat(l), j, g)
    BY <2>1, <2>2
  <2> QED  BY <2>4, <2>5 DEF Parted
<1>10. Q # {}
  <2>2. PICK i \in DOMAIN out : TRUE
    <3>1. Outgoing[s] \in Seq(Flow) /\ Len(Outgoing[s]) > 1
      BY <1>1, GraphTyped DEF Splits
    <3>2. 1 \in DOMAIN Outgoing[s]
      BY <3>1
    <3> QED  BY <3>2
  <2> QED  BY <1>8, <2>2
<1>11. ASSUME NEW q \in Q
       PROVE  /\ Way(q) /\ q.scope = p0.scope /\ (Main(q) <=> Main(p0))
              /\ \A j1, h1 : Lies(p0, j1, h1) => Lies(q, j1, h1)
              /\ \A j1, h1 : Lies(q, j1, h1) =>
                   Lies(p0, j1, h1) \/ \A b \in Incoming(j1) : \E r \in Q : Lies(r, j1, b)
  <2>1. PICK i \in DOMAIN out : q = seat(i)
    BY <1>8
  <2>2. PICK h : /\ HandsOver(s, j, out[i]) = {h}
                 /\ \A k1, g1 : Lies(seat(i), k1, g1) <=> On(s, k1, g1) \/ (k1 = j /\ g1 = h)
    BY <1>7
  <2>3. Main(q) <=> Main(p0)
    BY <1>1, <1>6, <2>1 DEF Main
  <2>4. Way(q) /\ q.scope = p0.scope
    BY <1>6, <2>1
  <2>5. ASSUME NEW b \in Incoming(j) PROVE \E r \in Q : Lies(r, j, b)
    <3>1. PICK f \in Range(Outgoing[s]) : HandsOver(s, j, f) = {b}
      BY <1>2, Handed
    <3>2. PICK l \in DOMAIN out : out[l] = f
      BY <1>5
    <3>3. PICK g : /\ HandsOver(s, j, out[l]) = {g}
                   /\ \A k1, g1 : Lies(seat(l), k1, g1) <=> On(s, k1, g1) \/ (k1 = j /\ g1 = g)
      BY <1>7
    <3>4. g = b
      BY <3>1, <3>2, <3>3
    <3>5. Lies(seat(l), j, b) /\ seat(l) \in Q
      BY <1>8, <3>3, <3>4
    <3> QED  BY <3>5
  <2> HIDE DEF seat
  <2> QED  BY <1>3, <2>1, <2>2, <2>3, <2>4, <2>5
<1>12. \A q, r \in Q : q # r => Parted(q, r)
  BY <1>8, <1>9
<1>13. /\ \A p \in R : p \in Q \/ (p \in P /\ p # p0)
       /\ Q \subseteq R
       /\ \A p \in R, q \in P : q.scope = p.scope /\ q # p0 => q \in R
  OBVIOUS
<1> HIDE DEF seat, out
<1>14. \A q \in Q : /\ Way(q) /\ q.scope = p0.scope /\ (Main(q) <=> Main(p0))
                    /\ \A j1, h1 : Lies(p0, j1, h1) => Lies(q, j1, h1)
  BY <1>11
<1>15. \A q \in Q : \A j1, h1 : Lies(q, j1, h1) =>
         Lies(p0, j1, h1) \/ \A b \in Incoming(j1) : \E r \in Q : Lies(r, j1, b)
  BY <1>11
<1> QED  BY <1>10, <1>12, <1>13, <1>14, <1>15, ReplacedSorted

-----------------------------------------------------------------------------
(* The seats of a state: those of its parked tokens and of its moves.      *)

(* Where a token goes on from: the cause of a failure goes on from where a *)
(* repair re-enters.                                                       *)
At(t) == IF t.wait = "incident" THEN CHOOSE r \in ResumePoints(t.node) : TRUE ELSE t.node

Seat(t)     == SeatAt(t.id, At(t), t.scope, t.via)
MoveSeat(m) == SeatAt(m.token, m.node, m.scope, m.via)

Seats(s) == {Seat(t) : t \in s.tokens} \union {MoveSeat(m) : m \in s.queue}

Waiting(s) == {t \in s.tokens : t.wait = "join"}

(* u has the seats of s, save those in the scopes D and of the tokens I,   *)
(* and no token at a join that s does not have there.                      *)
Less(u, s, D, I) ==
    /\ \A p : p \in Seats(u) <=> p \in Seats(s) /\ p.scope \notin D /\ p.id \notin I
    /\ Waiting(u) \subseteq Waiting(s)

(* u has the seats of s and q.                                             *)
More(u, s, q) ==
    /\ \A p : p \in Seats(u) <=> p \in Seats(s) \/ p = q
    /\ Waiting(u) \subseteq Waiting(s)

LEMMA SeatsAre ==
    ASSUME NEW s
    PROVE  \A p : p \in Seats(s) <=> \/ \E t \in s.tokens : p = Seat(t)
                                     \/ \E m \in s.queue : p = MoveSeat(m)
BY DEF Seats

LEMMA SeatFields ==
    /\ \A t : /\ Seat(t).id = t.id /\ Seat(t).scope = t.scope /\ Seat(t).at = At(t)
              /\ t.wait # "incident" => At(t) = t.node
    /\ \A m : MoveSeat(m).id = m.token /\ MoveSeat(m).scope = m.scope /\ MoveSeat(m).at = m.node
BY DEF Seat, MoveSeat, SeatAt, At

LEMMA FewerSeats ==
    ASSUME NEW s, NEW u, NEW D, NEW I,
           \A t : t \in u.tokens <=> t \in s.tokens /\ t.scope \notin D /\ t.id \notin I,
           \A m : m \in u.queue <=> m \in s.queue /\ m.scope \notin D /\ m.token \notin I
    PROVE  Less(u, s, D, I)
<1>1. ASSUME NEW p
      PROVE  p \in Seats(u) <=> p \in Seats(s) /\ p.scope \notin D /\ p.id \notin I
  <2>1. ASSUME p \in Seats(u)
        PROVE  p \in Seats(s) /\ p.scope \notin D /\ p.id \notin I
    <3>1. CASE \E t \in u.tokens : p = Seat(t)
      BY <3>1, SeatsAre, SeatFields
    <3>2. CASE \E m \in u.queue : p = MoveSeat(m)
      BY <3>2, SeatsAre, SeatFields
    <3> QED  BY <2>1, <3>1, <3>2, SeatsAre
  <2>2. ASSUME p \in Seats(s), p.scope \notin D, p.id \notin I
        PROVE  p \in Seats(u)
    <3>1. CASE \E t \in s.tokens : p = Seat(t)
      BY <2>2, <3>1, SeatsAre, SeatFields
    <3>2. CASE \E m \in s.queue : p = MoveSeat(m)
      BY <2>2, <3>2, SeatsAre, SeatFields
    <3> QED  BY <2>2, <3>1, <3>2, SeatsAre
  <2> QED  BY <2>1, <2>2
<1>2. Waiting(u) \subseteq Waiting(s)
  BY DEF Waiting
<1> QED  BY <1>1, <1>2 DEF Less

LEMMA SameSeats ==
    ASSUME NEW s, NEW u, u.tokens = s.tokens, u.queue = s.queue
    PROVE  Less(u, s, {}, {})
BY FewerSeats

LEMMA AlikeLess ==
    ASSUME NEW s, NEW F, "tokens" \notin F, "queue" \notin F, NEW u, Alike(u, s, F)
    PROVE  Less(u, s, {}, {})
<1>1. u.tokens = s.tokens /\ u.queue = s.queue
  BY DEF Alike, Fields
<1> QED  BY <1>1, SameSeats

LEMMA LessOfLess ==
    ASSUME NEW s, NEW u, NEW v, NEW D, NEW I, NEW E, NEW J, Less(u, s, D, I), Less(v, u, E, J)
    PROVE  Less(v, s, D \union E, I \union J)
BY DEF Less

LEMMA LessThenSame ==
    ASSUME NEW s, NEW u, NEW v, NEW D, NEW I, Less(u, s, D, I), Less(v, u, {}, {})
    PROVE  Less(v, s, D, I)
BY DEF Less

LEMMA SameThenLess ==
    ASSUME NEW s, NEW u, NEW v, NEW D, NEW I, Less(u, s, {}, {}), Less(v, u, D, I)
    PROVE  Less(v, s, D, I)
BY DEF Less

LEMMA UnparkLess ==
    ASSUME NEW s, Shaped(s), NEW id, \A m \in s.queue : m.token # id
    PROVE  Less(Unpark(s, id), s, {}, {id})
<1> DEFINE u == Unpark(s, id)
<1>1. Alike(u, s, {"tokens"}) /\ u.tokens = {t \in s.tokens : t.id # id}
  BY UnparkIs
<1> HIDE DEF u
<1>2. u.queue = s.queue
  BY <1>1 DEF Alike, Fields
<1>3. Less(u, s, {}, {id})
  BY <1>1, <1>2, FewerSeats
<1> QED  BY <1>3 DEF u

LEMMA WithdrawArmsLess ==
    ASSUME NEW s, Shaped(s), NEW id
    PROVE  Less(WithdrawArms(s, id), s, {}, {})
<1> DEFINE u == WithdrawArms(s, id)
<1>1. Alike(u, s, {"arms"})
  BY WithdrawArmsIs
<1> HIDE DEF u
<1>2. Less(u, s, {}, {})
  BY <1>1, AlikeLess
<1> QED  BY <1>2 DEF u

LEMMA CloseItemLess ==
    ASSUME NEW s, Shaped(s), NEW id
    PROVE  Less(CloseItem(s, id), s, {}, {})
<1> DEFINE u == CloseItem(s, id)
<1>1. Alike(u, s, {"items"})
  BY CloseItemIs
<1> HIDE DEF u
<1>2. Less(u, s, {}, {})
  BY <1>1, AlikeLess
<1> QED  BY <1>2 DEF u

LEMMA CloseOwnedLess ==
    ASSUME NEW s, Shaped(s), NEW id,
           NEW D, D = Subtree(s, {c.id : c \in {d \in s.scopes : d.token = id}})
    PROVE  Less(CloseOwned(s, id), s, D, {})
<1> DEFINE u == CloseOwned(s, id)
<1>1. /\ \A m : m \in u.queue <=> m \in s.queue /\ m.scope \notin D
      /\ \A t : t \in u.tokens <=> t \in s.tokens /\ t.scope \notin D
  BY CloseOwnedIs
<1> HIDE DEF u
<1>2. Less(u, s, D, {})
  BY <1>1, FewerSeats
<1> QED  BY <1>2 DEF u

LEMMA TearDownLess ==
    ASSUME NEW s, Shaped(s), NEW roots, NEW D, D = Subtree(s, roots)
    PROVE  Less(TearDown(s, roots), s, D, {})
<1> DEFINE u == TearDown(s, roots)
<1>1. /\ \A m : m \in u.queue <=> m \in s.queue /\ m.scope \notin D
      /\ \A t : t \in u.tokens <=> t \in s.tokens /\ t.scope \notin D
  BY TearDownIs
<1> HIDE DEF u
<1>2. Less(u, s, D, {})
  BY <1>1, FewerSeats
<1> QED  BY <1>2 DEF u

LEMMA ParkMore ==
    ASSUME NEW s, Shaped(s), NEW id, NEW node, NEW x, NEW wait, wait # "incident", NEW via,
           NEW t, t = [id |-> id, node |-> node, scope |-> x, wait |-> wait, via |-> via]
    PROVE  LET u == Park(s, id, node, x, wait, via)
           IN  /\ \A p : p \in Seats(u) <=> p \in Seats(s) \/ p = SeatAt(id, node, x, via)
               /\ u.tokens = s.tokens \union {t}
               /\ wait # "join" => Waiting(u) \subseteq Waiting(s)
<1> DEFINE u == Park(s, id, node, x, wait, via)
<1>1. Alike(u, s, {"tokens"}) /\ u.tokens = s.tokens \union {t}
  BY ParkIs
<1>2. t.wait = wait /\ Seat(t) = SeatAt(id, node, x, via)
  BY DEF Seat, At
<1> HIDE DEF u
<1>3. u.queue = s.queue
  BY <1>1 DEF Alike, Fields
<1>4. \A p : p \in Seats(u) <=> p \in Seats(s) \/ p = SeatAt(id, node, x, via)
  BY <1>1, <1>2, <1>3, SeatsAre
<1>5. wait # "join" => Waiting(u) \subseteq Waiting(s)
  BY <1>1, <1>2 DEF Waiting
<1> QED  BY <1>1, <1>4, <1>5 DEF u

LEMMA QueuedMore ==
    ASSUME NEW s, NEW u, u.tokens = s.tokens, NEW m, u.queue = s.queue \union {m}
    PROVE  More(u, s, MoveSeat(m))
<1>1. \A p : p \in Seats(u) <=> p \in Seats(s) \/ p = MoveSeat(m)
  BY SeatsAre
<1>2. Waiting(u) \subseteq Waiting(s)
  BY DEF Waiting
<1> QED  BY <1>1, <1>2 DEF More

LEMMA GoMore ==
    ASSUME NEW s, Shaped(s), NEW id, NEW node, NEW x, NEW via
    PROVE  LET u == Go(s, id, node, x, via)
           IN  More(u, s, SeatAt(id, node, x, via)) /\ u.tokens = s.tokens
<1> DEFINE at == IF s.queue = {} THEN 0 ELSE s.clock
           m  == [token |-> id, node |-> node, scope |-> x, via |-> via, at |-> at]
           q  == s.queue \union {m}
           n  == at + 1
           u  == [s EXCEPT !.queue = q, !.clock = n]
<1>1. Go(s, id, node, x, via) = u
  BY DEF Go
<1>2. MoveSeat(m) = SeatAt(id, node, x, via)
  BY DEF MoveSeat
<1> HIDE DEF at, m, n
<1>3. u.tokens = s.tokens /\ u.queue = s.queue \union {m}
  BY DEF Shaped, Fields
<1> HIDE DEF u
<1>4. More(u, s, MoveSeat(m))
  BY <1>3, QueuedMore
<1> QED  BY <1>1, <1>2, <1>3, <1>4

LEMMA LeaveFreshMore ==
    ASSUME NEW s, Shaped(s), NEW node, NEW x, NEW f, f = Outgoing[node][1]
    PROVE  LET u == LeaveFresh(s, node, x)
           IN  More(u, s, SeatAt(s.nextToken, Target[f], x, f)) /\ u.tokens = s.tokens
<1> DEFINE n == s.nextToken + 1
           v == [s EXCEPT !.nextToken = n]
           u == Go(v, s.nextToken, Target[f], x, f)
<1>1. LeaveFresh(s, node, x) = u
  BY DEF LeaveFresh, Leave
<1> HIDE DEF n
<1>2. Shaped(v) /\ v.tokens = s.tokens /\ v.queue = s.queue
  BY DEF Shaped, Fields
<1> HIDE DEF v
<1>3. More(u, v, SeatAt(s.nextToken, Target[f], x, f)) /\ u.tokens = v.tokens
  BY <1>2, GoMore
<1>4. Less(v, s, {}, {})
  BY <1>2, SameSeats
<1> HIDE DEF u
<1>5. More(u, s, SeatAt(s.nextToken, Target[f], x, f))
  BY <1>3, <1>4 DEF More, Less
<1> QED  BY <1>1, <1>2, <1>3, <1>5

LEMMA ResumeSame ==
    ASSUME NEW s, Shaped(s)
    PROVE  Less(ResumeHalted(s), s, {}, {})
<1> DEFINE H == {t \in s.tokens : t.wait = "inflight"}
           Moved(t) == [token |-> t.id, node |-> t.node, scope |-> t.scope, via |-> t.via,
                        at |-> s.clock + t.id]
           T == s.tokens \ H
           q == s.queue \union {Moved(t) : t \in H}
           n == s.clock + s.nextToken
           u == [s EXCEPT !.tokens = T, !.queue = q, !.clock = n]
<1>1. ResumeHalted(s) = u
  BY DEF ResumeHalted
<1>2. \A t : MoveSeat(Moved(t)) = SeatAt(t.id, t.node, t.scope, t.via)
  BY DEF MoveSeat
<1> HIDE DEF Moved, n
<1>3. u.tokens = T /\ u.queue = q
  BY DEF Shaped, Fields
<1> HIDE DEF u
<1>4. \A t \in H : Seat(t) = MoveSeat(Moved(t))
  BY <1>2 DEF Seat, At
<1>5. /\ \A t : t \in s.tokens <=> t \in T \/ t \in H
      /\ \A m : m \in q <=> m \in s.queue \/ \E t \in H : m = Moved(t)
  OBVIOUS
<1>6. Waiting(u) \subseteq Waiting(s)
  BY <1>3 DEF Waiting
<1> HIDE DEF T, H, q
<1>7. \A p : p \in Seats(u) <=> p \in Seats(s)
  BY <1>3, <1>4, <1>5, SeatsAre
<1> QED  BY <1>1, <1>6, <1>7 DEF Less

LEMMA SettleSame ==
    ASSUME NEW s, Shaped(s)
    PROVE  Less(Settle(s), s, {}, {})
<1>1. CASE Settle(s) = s
  BY <1>1, SameSeats
<1>2. CASE Settle(s) # s
  <2> DEFINE Asked(t) == IF t.wait = "awaiting" THEN [t EXCEPT !.wait = "decision"] ELSE t
             T == {Asked(t) : t \in s.tokens}
             st == IF s.tokens = {} THEN "completed" ELSE "active"
             u == [s EXCEPT !.tokens = T, !.status = st, !.clock = 0]
  <2>1. Settle(s) = u
    BY <1>2 DEF Settle
  <2>2. ASSUME NEW t
        PROVE  Seat(Asked(t)) = Seat(t) /\ (Asked(t).wait = "join" => Asked(t) = t)
    <3>1. CASE t.wait = "awaiting"
      <4> DEFINE k == [t EXCEPT !.wait = "decision"]
      <4>1. k.id = t.id /\ k.node = t.node /\ k.scope = t.scope /\ k.via = t.via
        OBVIOUS
      <4>2. Asked(t) = k
        BY <3>1
      <4>3. k.wait = "decision" \/ k.wait = t.wait
        OBVIOUS
      <4> HIDE DEF k
      <4> QED  BY <3>1, <4>1, <4>2, <4>3 DEF Seat, At
    <3>2. CASE t.wait # "awaiting"
      BY <3>2
    <3> QED  BY <3>1, <3>2
  <2>3. \A w : w \in T <=> \E t \in s.tokens : w = Asked(t)
    OBVIOUS
  <2> HIDE DEF Asked, T, st
  <2>4. u.tokens = T /\ u.queue = s.queue
    BY DEF Shaped, Fields
  <2> HIDE DEF u
  <2>5. \A p : p \in Seats(u) <=> p \in Seats(s)
    BY <2>2, <2>3, <2>4, SeatsAre
  <2>6. Waiting(u) \subseteq Waiting(s)
    BY <2>2, <2>3, <2>4 DEF Waiting
  <2> QED  BY <2>1, <2>5, <2>6 DEF Less
<1> QED  BY <1>1, <1>2

(* A token has one seat.                                                   *)
LEMMA SeatsUnique ==
    ASSUME NEW s, Unique(s), NEW p \in Seats(s), NEW q \in Seats(s), p.id = q.id
    PROVE  p = q
<1>1. CASE \E t \in s.tokens : p = Seat(t)
  BY <1>1, SeatsAre, SeatFields DEF Unique
<1>2. CASE \E m \in s.queue : p = MoveSeat(m)
  BY <1>2, SeatsAre, SeatFields DEF Unique
<1> QED  BY <1>1, <1>2, SeatsAre

-----------------------------------------------------------------------------
(* Where a step leads, node by node.                                       *)

LEMMA FirstFlow ==
    ASSUME NEW n \in Node,
           Kind[n] \notin {"eventgateway", "exclusive", "end", "terminate"},
           Kind[n] = "parallel" => IsJoin(n)
    PROVE  Len(Outgoing[n]) = 1 /\ Outgoing[n][1] \in Range(Outgoing[n])
<1>1. Outgoing[n] \in Seq(Flow) /\ Len(Outgoing[n]) = 1
  BY OneWayOn, GraphTyped
<1>2. DOMAIN Outgoing[n] = 1 .. 1
  BY <1>1
<1> QED  BY <1>1, <1>2 DEF Range

LEMMA StepFollows ==
    ASSUME NEW n \in Node, n \notin Boundary,
           Kind[n] \notin {"eventgateway", "exclusive", "end", "terminate"},
           Kind[n] = "parallel" => IsJoin(n), NEW f, f = Outgoing[n][1]
    PROVE  Follows(n, Target[f], f)
<1>1. f \in Range(Outgoing[n]) /\ Len(Outgoing[n]) = 1
  BY FirstFlow
<1>2. n \notin Splits
  <2> DEFINE k == Len(Outgoing[n])
  <2>1. k = 1
    BY <1>1
  <2> HIDE DEF k
  <2>2. ~(k > 1)
    BY <2>1
  <2> QED  BY <2>2 DEF Splits, k
<1>3. n \notin NonInterrupting
  BY DEF NonInterrupting, Boundary, Nodes
<1> QED  BY <1>1, <1>2, <1>3, FlowFollows

LEMMA BoundaryStep ==
    ASSUME NEW n \in Node, n \notin Boundary, NEW b \in Attached(n), b \notin NonInterrupting,
           NEW f, f = Outgoing[b][1]
    PROVE  Follows(n, Target[f], f)
<1>1. b \in Node /\ Kind[b] \in {"timerboundary", "messageboundary", "errorboundary"}
  BY HostIsOne DEF Boundary, Nodes
<1>2. f \in Range(Outgoing[b])
  BY <1>1, FirstFlow
<1>3. n \notin NonInterrupting
  BY DEF NonInterrupting, Boundary, Nodes
<1> QED  BY <1>2, <1>3, BoundaryFollows

LEMMA AlternativeStep ==
    ASSUME NEW n \in Node, Kind[n] = "eventgateway", NEW a \in Targets(n),
           NEW f, f = Outgoing[a][1]
    PROVE  Follows(n, Target[f], f)
<1>1. a \in Node /\ Kind[a] \in {"timer", "message"}
  BY FlowsOfNodes, GatewaysRaceCatches DEF Targets
<1>2. f \in Range(Outgoing[a])
  BY <1>1, FirstFlow
<1> QED  BY <1>2, AlternativeFollows

LEMMA SideStep ==
    ASSUME NEW b \in NonInterrupting, NEW f, f = Outgoing[b][1]
    PROVE  LET y == Target[f]
           IN  /\ y \in Node /\ y \notin Boundary /\ y \in SidePath
               /\ \A g \in Node : Kind[g] = "eventgateway" => y \notin Targets(g)
               /\ f \in Incoming(y)
<1>1. b \in Node /\ Kind[b] \in {"timerboundary", "messageboundary"}
  BY DEF NonInterrupting, Nodes
<1>2. f \in Range(Outgoing[b])
  BY <1>1, FirstFlow
<1> QED  BY <1>2, SideFollows

LEMMA AlternativesAre ==
    ASSUME NEW n \in Node
    PROVE  Range(Alternatives(n)) = Targets(n)
<1>1. DOMAIN Alternatives(n) = DOMAIN Outgoing[n]
  BY DEF Alternatives
<1>2. \A i \in DOMAIN Outgoing[n] : Alternatives(n)[i] = Target[Outgoing[n][i]]
  BY DEF Alternatives
<1> QED  BY <1>1, <1>2 DEF Range, Targets

(* No token stands on what is not a place of its own.                      *)
Place(n) ==
    /\ n \in Node /\ n \notin Boundary
    /\ \A g \in Node : Kind[g] = "eventgateway" => n \notin Targets(g)

LEMMA PlaceResumes ==
    ASSUME NEW n, Place(n)
    PROVE  ResumePoints(n) = {n}
<1>1. HostsOf(n) = {}
  BY HostIsOne DEF HostsOf, Place
<1>2. GatewaysInto(n) = {}
  BY AlternativesAre DEF GatewaysInto, Place
<1> QED  BY <1>1, <1>2 DEF ResumePoints

LEMMA AttachedResumes ==
    ASSUME NEW n \in Node, NEW b \in Attached(n)
    PROVE  ResumePoints(b) = {n}
BY HostIsOne DEF ResumePoints

LEMMA AlternativeResumes ==
    ASSUME NEW n \in Node, Kind[n] = "eventgateway", NEW a \in Targets(n)
    PROVE  ResumePoints(a) = {n}
<1>1. PICK f \in Range(Outgoing[n]) : a = Target[f]
  BY DEF Targets
<1>2. Incoming(a) = {f} /\ f \in Flow
  BY <1>1, GatewaysRaceCatches, FlowsOfNodes
<1>3. HostsOf(a) = {}
  BY HostIsOne DEF HostsOf
<1>4. ASSUME NEW g \in Node, a \in Range(Alternatives(g))
      PROVE  g = n
  <2>1. PICK h \in Range(Outgoing[g]) : a = Target[h]
    BY <1>4, AlternativesAre DEF Targets
  <2>2. h \in Flow
    BY <2>1, FlowsOfNodes
  <2>3. h = f
    BY <1>2, <2>1, <2>2 DEF Incoming
  <2> QED  BY <1>1, <2>1, <2>3, Sources
<1>5. a \in Range(Alternatives(n))
  BY AlternativesAre
<1>6. GatewaysInto(a) = {n}
  BY <1>4, <1>5 DEF GatewaysInto
<1> QED  BY <1>3, <1>6 DEF ResumePoints

(* What a token arms fails back to where the token waits.                  *)
LEMMA ArmResumes ==
    ASSUME NEW n, Place(n), NEW el \in Range(ArmedAt(n))
    PROVE  ResumePoints(el) = {n}
<1> n \in Node
  BY DEF Place
<1>1. CASE Kind[n] = "timer"
  <2>1. el = n
    BY <1>1 DEF ArmedAt, Range
  <2> QED  BY <2>1, PlaceResumes
<1>2. CASE Kind[n] = "message"
  <2>1. ArmedAt(n) = <<n>> \o Boundaries[n] /\ Boundaries[n] \in Seq(Node)
    BY <1>2, GraphTyped DEF ArmedAt
  <2>2. el = n \/ el \in Range(Boundaries[n])
    BY <2>1 DEF Range
  <2> QED  BY <2>2, PlaceResumes, AttachedResumes DEF Attached
<1>3. CASE Kind[n] \in {"task", "subprocess"}
  <2>1. el \in Range(Boundaries[n])
    BY <1>3 DEF ArmedAt
  <2> QED  BY <2>1, AttachedResumes DEF Attached
<1>4. CASE Kind[n] = "eventgateway"
  <2>1. el \in Targets(n)
    BY <1>4, AlternativesAre DEF ArmedAt
  <2> QED  BY <1>4, <2>1, AlternativeResumes
<1>5. CASE Kind[n] \notin {"timer", "message", "task", "subprocess", "eventgateway"}
  BY <1>5 DEF ArmedAt, Range
<1> QED  BY <1>1, <1>2, <1>3, <1>4, <1>5

LEMMA ResumeIsOne ==
    ASSUME NEW n \in Node, NEW r \in ResumePoints(n)
    PROVE  ResumePoints(n) = {r}
<1>1. CASE HostsOf(n) # {}
  <2>1. PICK k \in Node : n \in Attached(k)
    BY <1>1 DEF HostsOf
  <2> QED  BY <2>1, AttachedResumes
<1>2. CASE HostsOf(n) = {} /\ GatewaysInto(n) # {}
  <2>1. PICK g \in Node : Kind[g] = "eventgateway" /\ n \in Range(Alternatives(g))
    BY <1>2 DEF GatewaysInto
  <2>2. n \in Targets(g)
    BY <2>1, AlternativesAre
  <2> QED  BY <2>1, <2>2, AlternativeResumes
<1>3. CASE HostsOf(n) = {} /\ GatewaysInto(n) = {}
  BY <1>3 DEF ResumePoints
<1> QED  BY <1>1, <1>2, <1>3

-----------------------------------------------------------------------------
(* The inductive invariant of the joins: the seats are sorted, no join has *)
(* all it waits for, and an instance that is active has a token.           *)

Missing(s) ==
    \A t \in Waiting(s) : \E h \in Incoming(t.node) :
        \A w \in Waiting(s) : w.node = t.node /\ w.scope = t.scope => w.via # h

Running(s) ==
    /\ s.status = "created" => s.tokens = {} /\ s.queue = {}
    /\ s.status = "active" /\ s.queue = {} => s.tokens # {}

Orderly(s) == Sorted(Seats(s)) /\ Missing(s)

Flowing(s) == Orderly(s) /\ Running(s)

LEMMA MissingKept ==
    ASSUME NEW s, Missing(s), NEW u, Waiting(u) \subseteq Waiting(s)
    PROVE  Missing(u)
BY DEF Missing

LEMMA SameOrderly ==
    ASSUME NEW s, Orderly(s), NEW u, Less(u, s, {}, {})
    PROVE  Orderly(u)
<1>1. \A p : p \in Seats(u) <=> p \in Seats(s)
  BY DEF Less
<1>2. Seats(u) = Seats(s)
  BY <1>1
<1>3. Missing(u)
  BY MissingKept DEF Less, Orderly
<1> QED  BY <1>2, <1>3 DEF Orderly

LEMMA BecomesFlowing ==
    ASSUME NEW u, Flowing(u), Becomes(u)
    PROVE  Flowing(Now)'
<1> DEFINE n == Now'
<1>1. n.status = u.status /\ n.tokens = u.tokens /\ n.queue = u.queue
  BY DEF Now, Becomes
<1> HIDE DEF n
<1>2. Less(n, u, {}, {})
  BY <1>1, SameSeats
<1>3. Orderly(n)
  BY <1>2, SameOrderly DEF Flowing
<1>4. Running(n)
  BY <1>1 DEF Flowing, Running
<1>5. Flowing(n)
  BY <1>3, <1>4 DEF Flowing
<1> QED  BY <1>5 DEF n

(* The one seat p0 is given up for the seat a step from there leads to.    *)
LEMMA MoveOrderly ==
    ASSUME NEW s, Orderly(s), Unique(s), NEW p0 \in Seats(s), ~IsJoin(p0.at),
           NEW D, p0.scope \notin D, NEW r, Less(r, s, D, {p0.id}),
           NEW y, NEW f, Follows(p0.at, y, f), NEW k, NEW x, x = p0.scope,
           NEW u, More(u, r, SeatAt(k, y, x, f))
    PROVE  Orderly(u)
<1> DEFINE q == SeatAt(k, y, x, f)
           P == Seats(s)
           R == Seats(u)
           Q == {q}
<1>1. q.at = y /\ q.scope = p0.scope /\ (IsJoin(y) => q.via = f)
  BY DEF SeatAt
<1>2. /\ \A j, h : Lies(q, j, h) <=> Brings(y, f, j, h)
      /\ y \in Node /\ (Main(q) <=> Main(p0))
      /\ \A j, h : Brings(y, f, j, h) <=> On(p0.at, j, h)
  BY <1>1, SeatLies DEF Follows, Main
<1>3. \A p : p \in R <=> (p \in P /\ p.scope \notin D /\ p.id # p0.id) \/ p = q
  BY DEF More, Less
<1>4. \A p \in P : p.id = p0.id => p = p0
  BY SeatsUnique
<1>5. Way(q)
  BY <1>1 DEF Way, Follows
<1>6. Sorted(P) /\ p0 \in P
  BY DEF Orderly
<1>7. \A j, h : Lies(p0, j, h) <=> On(p0.at, j, h)
  BY DEF Lies, Brings, Joins
<1> HIDE DEF q, P, R
<1>8. \A p \in R : p \in Q \/ (p \in P /\ p # p0)
  BY <1>3
<1>9. Q \subseteq R /\ Q # {}
  BY <1>3
<1>10. \A p \in R, w \in P : w.scope = p.scope /\ w # p0 => w \in R
  BY <1>1, <1>3, <1>4
<1>11. \A w \in Q : /\ Way(w) /\ w.scope = p0.scope /\ (Main(w) <=> Main(p0))
                    /\ \A j, h : Lies(p0, j, h) => Lies(w, j, h)
  BY <1>1, <1>2, <1>5, <1>7
<1>12. \A w, v \in Q : w # v => Parted(w, v)
  OBVIOUS
<1>13. \A w \in Q : \A j, h : Lies(w, j, h) =>
         Lies(p0, j, h) \/ \A b \in Incoming(j) : \E v \in Q : Lies(v, j, b)
  BY <1>2, <1>7
<1> HIDE DEF Q
<1>14. Sorted(R)
  BY <1>6, <1>8, <1>9, <1>10, <1>11, <1>12, <1>13, ReplacedSorted
<1>15. Waiting(u) \subseteq Waiting(s)
  BY DEF More, Less
<1>16. Missing(u)
  BY <1>15, MissingKept DEF Orderly
<1> QED  BY <1>14, <1>16 DEF Orderly, R

LEMMA GoFlows ==
    ASSUME NEW s, Orderly(s), Unique(s), NEW p0 \in Seats(s), ~IsJoin(p0.at),
           NEW D, p0.scope \notin D, NEW r, Less(r, s, D, {p0.id}), Shaped(r), r.status = "active",
           NEW y, NEW f, Follows(p0.at, y, f), NEW k, NEW x, x = p0.scope
    PROVE  LET u == Go(r, k, y, x, f)
           IN  Flowing(u) /\ Shaped(u) /\ u.status = "active" /\ u.queue # {}
<1> DEFINE u == Go(r, k, y, x, f)
<1>1. More(u, r, SeatAt(k, y, x, f))
  BY GoMore
<1>2. Shaped(u) /\ u.status = "active" /\ u.queue # {}
  BY GoBelow DEF Below
<1> HIDE DEF u
<1>3. Orderly(u)
  BY <1>1, MoveOrderly
<1> QED  BY <1>2, <1>3 DEF Flowing, Running, u

LEMMA SettleFlows ==
    ASSUME NEW s, Orderly(s), Shaped(s), s.status = "active"
    PROVE  Flowing(Settle(s))
<1> DEFINE u == Settle(s)
<1>1. Orderly(u)
  BY SettleSame, SameOrderly
<1>2. Running(u)
  <2>1. CASE s.queue # {}
    BY <2>1 DEF Settle, Running
  <2>2. CASE s.queue = {}
    <3> DEFINE T == {IF t.wait = "awaiting" THEN [t EXCEPT !.wait = "decision"] ELSE t
                       : t \in s.tokens}
               st == IF s.tokens = {} THEN "completed" ELSE "active"
    <3>1. u = [s EXCEPT !.tokens = T, !.status = st, !.clock = 0]
      BY <2>2 DEF Settle
    <3>2. s.tokens # {} => T # {}
      OBVIOUS
    <3>3. st = "completed" \/ (st = "active" /\ s.tokens # {})
      OBVIOUS
    <3> HIDE DEF T, st, u
    <3>4. u.tokens = T /\ u.status = st
      BY <3>1 DEF Shaped, Fields
    <3> QED  BY <3>2, <3>3, <3>4 DEF Running
  <2> QED  BY <2>1, <2>2
<1> QED  BY <1>1, <1>2 DEF Flowing

LEMMA ResumeFlows ==
    ASSUME NEW s, Flowing(s), Shaped(s), s.status = "active"
    PROVE  Flowing(ResumeHalted(s))
<1> DEFINE u == ResumeHalted(s)
<1>1. Orderly(u)
  BY ResumeSame, SameOrderly DEF Flowing
<1>2. u.status = s.status
  BY ResumedFields
<1>3. u.queue = {} => u.tokens # {}
  <2> SUFFICES ASSUME u.queue = {}
               PROVE  u.tokens # {}
    OBVIOUS
  <2>1. s.tokens # {} \/ s.queue # {}
    BY DEF Flowing, Running
  <2>2. \E p : p \in Seats(s)
    BY <2>1, SeatsAre
  <2>3. \E p : p \in Seats(u)
    BY <2>2, ResumeSame DEF Less
  <2> HIDE DEF u
  <2> QED  BY <2>3, SeatsAre
<1> HIDE DEF u
<1>4. Flowing(u)
  BY <1>1, <1>2, <1>3 DEF Flowing, Running
<1> QED  BY <1>4 DEF u

LEMMA NothingFlows ==
    ASSUME NEW s, s.tokens = {}, s.queue = {}, s.status # "active"
    PROVE  Flowing(s)
<1>1. Seats(s) = {}
  BY SeatsAre
<1>2. Sorted(Seats(s))
  BY <1>1 DEF Sorted
<1>3. Missing(s) /\ Running(s)
  BY DEF Missing, Waiting, Running
<1> QED  BY <1>2, <1>3 DEF Flowing, Orderly

(* A freeze leaves every token its seat, the cause included.               *)
LEMMA FreezeFlows ==
    ASSUME NEW s, Orderly(s), NEW id, Failing(s, id), NEW t \in s.tokens, t.id = id,
           \A w \in s.tokens : w.id = id => w = t,
           t.wait # "incident", t.wait # "join", ~IsJoin(t.node),
           NEW x, x = t.scope, NEW el, ResumePoints(el) = {t.node}
    PROVE  Flowing(Freeze(s, id, x, el))
<1> DEFINE n == [id |-> id, node |-> el, scope |-> x, wait |-> "incident", via |-> NoFlow]
           u == Freeze(s, id, x, el)
<1>0. n = [id |-> id, node |-> el, scope |-> x, wait |-> "incident", via |-> NoFlow]
  OBVIOUS
<1> HIDE DEF n
<1>1. /\ u.status = "failed" /\ u.queue = {}
      /\ \A w : w \in u.tokens <=>
           \/ \E k \in s.tokens : k.id # id /\ w = Halted(k)
           \/ \E m \in s.queue : w = InFlight(m)
           \/ w = n
  BY <1>0, FreezeIs
<1>2. Seat(n) = Seat(t) /\ n.wait = "incident"
  <2>1. At(n) = t.node
    BY <1>0 DEF At
  <2>2. At(t) = t.node
    BY DEF At
  <2> QED  BY <1>0, <2>1, <2>2 DEF Seat, SeatAt
<1> HIDE DEF u
<1>3. ASSUME NEW k
      PROVE  Seat(Halted(k)) = Seat(k) /\ (Halted(k).wait = "join" => Halted(k) = k)
  <2>1. CASE k.wait = "decision"
    <3> DEFINE h == [k EXCEPT !.wait = "awaiting"]
    <3>1. h.id = k.id /\ h.node = k.node /\ h.scope = k.scope /\ h.via = k.via
      OBVIOUS
    <3>2. h.wait = "awaiting" \/ h.wait = k.wait
      OBVIOUS
    <3>3. Halted(k) = h
      BY <2>1 DEF Halted
    <3> HIDE DEF h
    <3> QED  BY <2>1, <3>1, <3>2, <3>3 DEF Seat, At
  <2>2. CASE k.wait # "decision"
    BY <2>2 DEF Halted
  <2> QED  BY <2>1, <2>2
<1>4. \A m : Seat(InFlight(m)) = MoveSeat(m) /\ InFlight(m).wait = "inflight"
  BY DEF Seat, MoveSeat, InFlight, At
<1>5. \A p : p \in Seats(u) <=> p \in Seats(s)
  <2>1. ASSUME NEW p \in Seats(u)
        PROVE  p \in Seats(s)
    <3>1. PICK w \in u.tokens : p = Seat(w)
      BY <1>1, <2>1, SeatsAre
    <3> QED  BY <1>1, <1>2, <1>3, <1>4, <3>1, SeatsAre
  <2>2. ASSUME NEW p \in Seats(s)
        PROVE  p \in Seats(u)
    <3>1. CASE \E k \in s.tokens : p = Seat(k)
      <4>1. PICK k \in s.tokens : p = Seat(k)
        BY <3>1
      <4>2. CASE k.id = id
        BY <1>1, <1>2, <4>1, <4>2, SeatsAre
      <4>3. CASE k.id # id
        <5>1. Halted(k) \in u.tokens
          BY <1>1, <4>3
        <5>2. p = Seat(Halted(k))
          BY <1>3, <4>1
        <5> QED  BY <5>1, <5>2, SeatsAre
      <4> QED  BY <4>2, <4>3
    <3>2. CASE \E m \in s.queue : p = MoveSeat(m)
      <4>1. PICK m \in s.queue : p = MoveSeat(m)
        BY <3>2
      <4>2. InFlight(m) \in u.tokens /\ p = Seat(InFlight(m))
        BY <1>1, <1>4, <4>1
      <4> QED  BY <4>2, SeatsAre
    <3> QED  BY <3>1, <3>2, SeatsAre
  <2> QED  BY <2>1, <2>2
<1>6. Waiting(u) \subseteq Waiting(s)
  <2> SUFFICES ASSUME NEW w \in u.tokens, w.wait = "join"
               PROVE  w \in s.tokens
    BY DEF Waiting
  <2> QED  BY <1>1, <1>2, <1>3, <1>4
<1>7. Less(u, s, {}, {})
  BY <1>5, <1>6 DEF Less
<1>8. Orderly(u)
  BY <1>7, SameOrderly
<1> QED  BY <1>1, <1>8 DEF Flowing, Running, u

-----------------------------------------------------------------------------
(* Entering a node.                                                        *)

LEMMA TokenSeat ==
    ASSUME NEW s, Orderly(s), NEW t \in s.tokens
    PROVE  /\ Seat(t) \in Seats(s) /\ Place(At(t)) /\ Way(Seat(t))
           /\ Seat(t).id = t.id /\ Seat(t).at = At(t) /\ Seat(t).scope = t.scope
           /\ t.wait # "incident" => At(t) = t.node
<1>1. Seat(t) \in Seats(s)
  BY SeatsAre
<1>2. Way(Seat(t))
  BY <1>1 DEF Orderly, Sorted
<1> QED  BY <1>1, <1>2, SeatFields DEF Way, Place

LEMMA HeadSeat ==
    ASSUME Good(Now), Coherent(Now), Flowing(Now), status = "active", NEW m \in queue
    PROVE  /\ Orderly(Now) /\ Unique(Now)
           /\ MoveSeat(m) \in Seats(Now) /\ Place(m.node)
           /\ IsJoin(m.node) => m.via \in Incoming(m.node)
           /\ MoveSeat(m).id = m.token /\ MoveSeat(m).at = m.node /\ MoveSeat(m).scope = m.scope
           /\ Shaped(Taken(m)) /\ Taken(m).status = "active"
           /\ Less(Taken(m), Now, {}, {m.token})
           /\ Taken(m).tokens = tokens /\ Taken(m).queue = queue \ {m}
           /\ Taken(m).scopes = scopes /\ Taken(m).nextToken = nextToken
<1> DEFINE n == Now
           s == Taken(m)
<1>1. Orderly(n) /\ Unique(n) /\ n.tokens = tokens /\ n.queue = queue
  BY ActiveIsAwake, NowIs DEF Flowing, Whole
<1>2. s.tokens = tokens /\ s.queue = queue \ {m} /\ s.scopes = scopes /\ s.nextToken = nextToken
  BY DEF Taken, Now
<1>3. Shaped(s) /\ s.status = "active"
  BY TakenIs DEF Awake
<1> HIDE DEF n, s
<1>4. MoveSeat(m) \in Seats(n)
  BY <1>1, SeatsAre
<1>5. Way(MoveSeat(m))
  BY <1>1, <1>4 DEF Orderly, Sorted
<1>6. MoveSeat(m).id = m.token /\ MoveSeat(m).at = m.node /\ MoveSeat(m).scope = m.scope
  BY SeatFields
<1>7. IsJoin(m.node) => MoveSeat(m).via = m.via
  BY DEF MoveSeat, SeatAt
<1>8. \A t \in n.tokens : t.id # m.token
  BY <1>1 DEF Unique
<1>9. \A k \in n.queue : k.token = m.token => k = m
  BY <1>1 DEF Unique
<1>10. Less(s, n, {}, {m.token})
  BY <1>1, <1>2, <1>8, <1>9, FewerSeats
<1> QED
  BY <1>1, <1>2, <1>3, <1>4, <1>5, <1>6, <1>7, <1>10 DEF Way, Place, n, s

LEMMA MoveFlows ==
    ASSUME Good(Now), Coherent(Now), Flowing(Now), status = "active", NEW m \in queue,
           ~IsJoin(m.node), NEW y, NEW f, Follows(m.node, y, f), NEW k,
           Becomes(Go(Taken(m), k, y, m.scope, f))
    PROVE  Flowing(Now)'
<1> DEFINE n == Now
           s == Taken(m)
           u == Go(s, k, y, m.scope, f)
           p0 == MoveSeat(m)
<1>1. /\ Orderly(n) /\ Unique(n) /\ p0 \in Seats(n) /\ p0.id = m.token /\ p0.at = m.node
      /\ p0.scope = m.scope /\ Shaped(s) /\ s.status = "active" /\ Less(s, n, {}, {p0.id})
  BY HeadSeat
<1>2. Becomes(u)
  OBVIOUS
<1> HIDE DEF n, s, p0
<1>3. p0.scope \notin {} /\ m.scope = p0.scope /\ ~IsJoin(p0.at) /\ Follows(p0.at, y, f)
  BY <1>1
<1>4. Flowing(u)
  BY <1>1, <1>3, GoFlows
<1> HIDE DEF u
<1> QED  BY <1>2, <1>4, BecomesFlowing

(* The state in which the token of move m has parked.                      *)
LEMMA ParkedSeats ==
    ASSUME Good(Now), Coherent(Now), Flowing(Now), status = "active", NEW m \in queue,
           ~IsJoin(m.node), NEW wait, wait \notin {"incident", "join"},
           NEW t, t = [id |-> m.token, node |-> m.node, scope |-> m.scope,
                       wait |-> wait, via |-> NoFlow]
    PROVE  LET p == Park(Taken(m), m.token, m.node, m.scope, wait, NoFlow)
           IN  /\ Shaped(p) /\ p.status = "active" /\ Orderly(p) /\ Less(p, Now, {}, {})
               /\ p.tokens = tokens \union {t} /\ p.queue = queue \ {m}
               /\ p.scopes = scopes /\ p.nextToken = nextToken
               /\ \A w \in p.tokens : w.id = m.token => w = t
<1> DEFINE n == Now
           s == Taken(m)
           p == Park(s, m.token, m.node, m.scope, wait, NoFlow)
           q == SeatAt(m.token, m.node, m.scope, NoFlow)
<1>1. /\ Orderly(n) /\ Unique(n) /\ MoveSeat(m) \in Seats(n) /\ MoveSeat(m).id = m.token
      /\ Shaped(s) /\ s.status = "active" /\ Less(s, n, {}, {m.token})
      /\ s.tokens = tokens /\ s.queue = queue \ {m} /\ s.scopes = scopes
      /\ s.nextToken = nextToken
  BY HeadSeat
<1>2. n.tokens = tokens /\ n.queue = queue
  BY NowIs
<1> HIDE DEF n, s
<1>3. q = MoveSeat(m)
  BY DEF SeatAt, MoveSeat
<1>4. /\ \A w : w \in Seats(p) <=> w \in Seats(s) \/ w = q
      /\ p.tokens = s.tokens \union {t}
      /\ Waiting(p) \subseteq Waiting(s)
  BY <1>1, ParkMore
<1>5. Alike(p, s, {"tokens"})
  BY <1>1, ParkIs
<1> HIDE DEF p, q
<1>6. \A w \in Seats(n) : w.id = m.token => w = q
  BY <1>1, <1>3, SeatsUnique
<1>7. \A w : w \in Seats(p) <=> w \in Seats(n)
  BY <1>1, <1>3, <1>4, <1>6 DEF Less
<1>8. Less(p, n, {}, {})
  BY <1>1, <1>4, <1>7 DEF Less
<1>9. Orderly(p)
  BY <1>1, <1>8, SameOrderly
<1>10. \A w \in p.tokens : w.id = m.token => w = t
  BY <1>1, <1>2, <1>4 DEF Unique
<1> QED
  BY <1>1, <1>4, <1>5, <1>8, <1>9, <1>10 DEF Alike, Fields, n, s, p

LEMMA ArmOrFreezeFlows ==
    ASSUME NEW s, Orderly(s), s.status = "active", NEW id, Failing(s, id),
           NEW t \in s.tokens, t.id = id, \A w \in s.tokens : w.id = id => w = t,
           t.wait # "incident", t.wait # "join", ~IsJoin(t.node), Place(t.node),
           NEW x, x = t.scope, NEW els, els = ArmedAt(t.node), ArmOrFreeze(s, id, x, els)
    PROVE  Flowing(Now)'
<1>1. CASE Becomes(Settle(ArmAll(s, els, id)))
  <2> DEFINE u == ArmAll(s, els, id)
  <2>1. Alike(u, s, {"arms"})
    BY ArmAllIs DEF Failing
  <2>2. Becomes(Settle(u))
    BY <1>1
  <2> HIDE DEF u
  <2>3. Shaped(u) /\ u.status = "active" /\ Less(u, s, {}, {})
    BY <2>1, AlikeLess DEF Alike, Fields
  <2>4. Orderly(u)
    BY <2>3, SameOrderly
  <2>5. Flowing(Settle(u))
    BY <2>3, <2>4, SettleFlows
  <2> QED  BY <2>2, <2>5, BecomesFlowing
<1>2. ASSUME NEW k \in DOMAIN els, Becomes(Freeze(s, id, x, els[k]))
      PROVE  Flowing(Now)'
  <2>1. ResumePoints(els[k]) = {t.node}
    BY ArmResumes DEF Range
  <2>2. Flowing(Freeze(s, id, x, els[k]))
    BY <2>1, FreezeFlows
  <2> QED  BY <1>2, <2>2, BecomesFlowing
<1> QED  BY <1>1, <1>2 DEF ArmOrFreeze

LEMMA EnterTaskFlows ==
    ASSUME Good(Now), Coherent(Now), Flowing(Now), NEW m \in queue, EnterTask(m)
    PROVE  Flowing(Now)'
<1> DEFINE s == Taken(m)
           p == Park(s, m.token, m.node, m.scope, "workitem", NoFlow)
           t == [id |-> m.token, node |-> m.node, scope |-> m.scope,
                 wait |-> "workitem", via |-> NoFlow]
           i == [token |-> m.token, element |-> m.node]
           o == [p EXCEPT !.items = @ \union {i}]
<1>1. /\ status = "active" /\ ArmOrFreeze(o, m.token, m.scope, ArmedAt(m.node))
      /\ Kind[m.node] = "task"
  BY DEF EnterTask, Enters
<1>2. Gone(s, m.token)
  BY <1>1, TakenIs
<1>3. s.items = items /\ s.arms = arms
  BY DEF Taken, Now
<1>4. ~IsJoin(m.node) /\ Place(m.node) /\ Shaped(s) /\ s.scopes = scopes
  BY <1>1, HeadSeat DEF IsJoin
<1>5. /\ t.id = m.token /\ t.wait = "workitem" /\ DOMAIN t = TokenFields /\ t.node = m.node
      /\ t.scope = m.scope
  BY DEF TokenFields
<1>0. t = [id |-> m.token, node |-> m.node, scope |-> m.scope,
           wait |-> "workitem", via |-> NoFlow]
  OBVIOUS
<1> HIDE DEF t
<1>6. /\ Shaped(p) /\ p.status = "active" /\ Orderly(p)
      /\ p.tokens = tokens \union {t} /\ p.queue = queue \ {m} /\ p.scopes = scopes
      /\ \A w \in p.tokens : w.id = m.token => w = t
  BY <1>0, <1>1, <1>4, ParkedSeats
<1>7. p.arms = s.arms /\ p.items = s.items
  BY <1>4, ParkIs DEF Alike, Fields
<1> HIDE DEF p, i, s
<1>8. Alike(o, p, {"items"}) /\ o.items = p.items \union {i}
  BY <1>6 DEF Alike, Shaped, Fields
<1> HIDE DEF o
<1>9. /\ o.tokens = p.tokens /\ o.arms = p.arms /\ o.queue = p.queue
      /\ o.scopes = p.scopes /\ items \subseteq o.items /\ Shaped(o) /\ o.status = p.status
  BY <1>3, <1>7, <1>8 DEF Alike, Fields
<1>10. Less(o, p, {}, {})
  BY <1>8, AlikeLess
<1>11. Orderly(o)
  BY <1>6, <1>10, SameOrderly
<1>12. \A c \in o.scopes : c.token # m.token
  BY <1>2, <1>4, <1>6, <1>9 DEF Gone
<1>13. o.tokens = tokens \union {t} /\ o.queue = queue \ {m} /\ o.arms = arms
  BY <1>3, <1>6, <1>7, <1>9
<1>14. /\ Calm(o) /\ \A w \in o.tokens : DOMAIN w = TokenFields
       /\ \A k \in o.queue : k.token # m.token
  <2>1. Shaped(o) /\ items \subseteq o.items /\ t.wait \notin {"incident", "inflight"}
    BY <1>5, <1>9
  <2> QED  BY <1>1, <1>5, <1>13, <2>1, ParkedKeeps
<1>15. Failing(o, m.token)
  BY <1>9, <1>12, <1>14 DEF Failing
<1>16. t \in o.tokens /\ o.status = "active"
  BY <1>6, <1>9
<1> QED
  BY <1>1, <1>4, <1>5, <1>6, <1>9, <1>11, <1>15, <1>16, ArmOrFreezeFlows

LEMMA EnterCatchFlows ==
    ASSUME Good(Now), Coherent(Now), Flowing(Now), NEW m \in queue, EnterCatch(m)
    PROVE  Flowing(Now)'
<1>1. PICK kind \in {"timer", "message", "eventgateway"} :
        /\ Enters(m, kind)
        /\ ArmOrFreeze(Park(Taken(m), m.token, m.node, m.scope, kind, NoFlow),
                       m.token, m.scope, ArmedAt(m.node))
  BY DEF EnterCatch
<1> DEFINE s == Taken(m)
           p == Park(s, m.token, m.node, m.scope, kind, NoFlow)
           t == [id |-> m.token, node |-> m.node, scope |-> m.scope,
                 wait |-> kind, via |-> NoFlow]
<1>2. /\ status = "active" /\ ArmOrFreeze(p, m.token, m.scope, ArmedAt(m.node))
      /\ Kind[m.node] = kind
  BY <1>1 DEF Enters
<1>3. Gone(s, m.token)
  BY <1>2, TakenIs
<1>4. s.items = items /\ s.arms = arms
  BY DEF Taken, Now
<1>5. ~IsJoin(m.node) /\ Place(m.node) /\ Shaped(s) /\ s.scopes = scopes
  BY <1>2, HeadSeat DEF IsJoin
<1>6. /\ t.id = m.token /\ t.wait = kind /\ DOMAIN t = TokenFields /\ t.node = m.node
      /\ t.scope = m.scope
  BY DEF TokenFields
<1>0. t = [id |-> m.token, node |-> m.node, scope |-> m.scope,
           wait |-> kind, via |-> NoFlow]
  OBVIOUS
<1> HIDE DEF t
<1>7. /\ Shaped(p) /\ p.status = "active" /\ Orderly(p)
      /\ p.tokens = tokens \union {t} /\ p.queue = queue \ {m} /\ p.scopes = scopes
      /\ \A w \in p.tokens : w.id = m.token => w = t
  BY <1>0, <1>2, <1>5, ParkedSeats
<1>8. p.arms = s.arms /\ p.items = s.items
  BY <1>5, ParkIs DEF Alike, Fields
<1> HIDE DEF p, s
<1>9. \A c \in p.scopes : c.token # m.token
  BY <1>3, <1>5, <1>7 DEF Gone
<1>10. /\ Calm(p) /\ \A w \in p.tokens : DOMAIN w = TokenFields
       /\ \A k \in p.queue : k.token # m.token
  <2>1. p.arms = arms /\ items \subseteq p.items /\ t.wait \notin {"incident", "inflight"}
    BY <1>4, <1>6, <1>8
  <2> QED  BY <1>2, <1>6, <1>7, <2>1, ParkedKeeps
<1>11. Failing(p, m.token)
  BY <1>7, <1>9, <1>10 DEF Failing
<1>12. t \in p.tokens /\ t.wait # "incident" /\ t.wait # "join"
  BY <1>6, <1>7
<1> QED
  BY <1>2, <1>5, <1>6, <1>7, <1>11, <1>12, ArmOrFreezeFlows

(* A scope that is empty, or about to be closed with all inside it, is     *)
(* left by the token that waits for it.                                    *)
LEMMA CompleteScopeFlows ==
    ASSUME NEW s, Orderly(s), Unique(s), NEW t \in s.tokens, t.wait = "scope",
           NEW c, c.token = t.id, c.element = t.node, c.parent = t.scope,
           Kind[c.element] = "subprocess",
           NEW D, t.scope \notin D, NEW r, Less(r, s, D, {}), Shaped(r), r.status = "active",
           \A m \in r.queue : m.token # c.token
    PROVE  LET u == CompleteScope(r, c)
           IN  Flowing(u) /\ Shaped(u) /\ u.status = "active" /\ u.queue # {}
<1> DEFINE closed == [r EXCEPT !.scopes = {d \in @ : d.id # c.id}]
           v == WithdrawArms(closed, c.token)
           w == Unpark(v, c.token)
           f == Outgoing[c.element][1]
           u == Go(w, c.token, Target[f], c.parent, f)
           p0 == Seat(t)
<1>1. CompleteScope(r, c) = u
  BY DEF CompleteScope, Leave
<1>2. /\ p0 \in Seats(s) /\ Place(t.node) /\ p0.id = t.id /\ p0.at = t.node
      /\ p0.scope = t.scope
  BY TokenSeat
<1>3. ~IsJoin(p0.at) /\ Follows(p0.at, Target[f], f)
  BY <1>2, StepFollows DEF Place, IsJoin
<1>4. Alike(closed, r, {"scopes"})
  BY DEF Alike, Shaped, Fields
<1> HIDE DEF closed, f, p0
<1>5. Alike(v, closed, {"arms"})
  BY <1>4, WithdrawArmsIs DEF Alike
<1> HIDE DEF v
<1>6. Shaped(v) /\ v.queue = r.queue /\ v.status = "active"
  BY <1>4, <1>5 DEF Alike, Fields
<1>7. Less(v, s, D, {})
  <2>1. Less(closed, r, {}, {}) /\ Less(v, closed, {}, {})
    BY <1>4, <1>5, AlikeLess
  <2> QED  BY <2>1, LessThenSame
<1>8. Less(w, v, {}, {c.token}) /\ Below(w, v)
  BY <1>6, UnparkLess, UnparkBelow
<1>9. Less(w, s, D, {p0.id})
  BY <1>2, <1>7, <1>8 DEF Less
<1>10. Shaped(w) /\ w.status = "active"
  BY <1>6, <1>8 DEF Below
<1> HIDE DEF w
<1>11. Flowing(u) /\ Shaped(u) /\ u.status = "active" /\ u.queue # {}
  <2> DEFINE y == Target[f]
             k == c.token
             x == c.parent
  <2>1. x = p0.scope /\ p0.scope \notin D /\ Follows(p0.at, y, f)
    BY <1>2, <1>3
  <2> HIDE DEF x, y, k
  <2>2. LET g == Go(w, k, y, x, f)
        IN  Flowing(g) /\ Shaped(g) /\ g.status = "active" /\ g.queue # {}
    BY <1>2, <1>3, <1>9, <1>10, <2>1, GoFlows
  <2> QED  BY <2>2 DEF x, y, k
<1> QED  BY <1>1, <1>11

(* A host ends with all inside it, and its token goes on elsewhere.        *)
LEMMA HostFlows ==
    ASSUME NEW s, Orderly(s), Unique(s), Nested(s), Shaped(s), s.status = "active",
           NEW k, \A m \in s.queue : m.token # k,
           NEW x \in Nat, \A c \in s.scopes : c.token = k => c.parent = x,
           NEW p0 \in Seats(s), p0.id = k, p0.scope = x, ~IsJoin(p0.at),
           NEW y, NEW f, Follows(p0.at, y, f)
    PROVE  LET u == Go(WithdrawArms(CloseOwned(Unpark(s, k), k), k), k, y, x, f)
           IN  Flowing(u) /\ Shaped(u) /\ u.status = "active"
<1> DEFINE s1 == Unpark(s, k)
           s2 == CloseOwned(s1, k)
           s3 == WithdrawArms(s2, k)
           u  == Go(s3, k, y, x, f)
           D  == Subtree(s1, {c.id : c \in {d \in s1.scopes : d.token = k}})
<1>1. D = Subtree(s1, {c.id : c \in {d \in s1.scopes : d.token = k}})
  OBVIOUS
<1> HIDE DEF D
<1>2. Alike(s1, s, {"tokens"}) /\ s1.tokens = {w \in s.tokens : w.id # k}
  BY UnparkIs
<1>3. Less(s1, s, {}, {k})
  BY UnparkLess
<1> HIDE DEF s1
<1>4. /\ Shaped(s1) /\ s1.scopes = s.scopes /\ s1.queue = s.queue
      /\ s1.nextScope = s.nextScope /\ s1.status = "active"
  BY <1>2 DEF Alike, Fields
<1>5. Nested(s1)
  BY <1>2, <1>4 DEF Nested, Open, ScopeIds
<1>6. \A c \in s1.scopes : c.token = k => c.parent = x
  BY <1>4
<1>7. x \notin D
  BY <1>1, <1>5, <1>6, DoomedAre
<1>8. Less(s2, s1, D, {}) /\ Below(s2, s1)
  BY <1>1, <1>4, CloseOwnedLess, CloseOwnedBelow
<1> HIDE DEF s2
<1>9. Shaped(s2) /\ s2.status = "active"
  BY <1>4, <1>8 DEF Below
<1>10. Less(s3, s2, {}, {}) /\ Below(s3, s2)
  BY <1>9, WithdrawArmsLess, WithdrawArmsBelow
<1> HIDE DEF s3
<1>11. Shaped(s3) /\ s3.status = "active"
  BY <1>9, <1>10 DEF Below
<1>12. Less(s3, s, D, {p0.id})
  BY <1>3, <1>8, <1>10 DEF Less
<1>13. Flowing(u) /\ Shaped(u) /\ u.status = "active"
  <2>1. /\ p0.scope \notin D /\ x = p0.scope /\ Less(s3, s, D, {p0.id})
        /\ Shaped(s3) /\ s3.status = "active" /\ ~IsJoin(p0.at) /\ Follows(p0.at, y, f)
        /\ Orderly(s) /\ Unique(s) /\ p0 \in Seats(s)
    BY <1>7, <1>11, <1>12
  <2>2. LET g == Go(s3, k, y, x, f)
        IN  Flowing(g) /\ Shaped(g) /\ g.status = "active" /\ g.queue # {}
    BY ONLY <2>1, GoFlows
  <2> QED  BY <2>2
<1> QED  BY <1>13 DEF s1, s2, s3

LEMMA InterruptFlows ==
    ASSUME NEW s, Orderly(s), Unique(s), Nested(s), Shaped(s), s.status = "active",
           NEW t \in s.tokens, t.scope \in Nat,
           \A c \in s.scopes : c.token = t.id => c.parent = t.scope,
           ~IsJoin(At(t)), NEW b \in Attached(At(t)), b \notin NonInterrupting
    PROVE  LET u == Interrupt(s, t, b)
           IN  Flowing(u) /\ Shaped(u) /\ u.status = "active"
<1> DEFINE f  == Outgoing[b][1]
           y  == Target[f]
           k  == t.id
           x  == t.scope
           p0 == Seat(t)
<1>1. Interrupt(s, t, b) = Go(WithdrawArms(CloseOwned(Unpark(s, k), k), k), k, y, x, f)
  BY DEF Interrupt, Leave
<1>2. /\ p0 \in Seats(s) /\ Place(At(t)) /\ p0.id = k /\ p0.at = At(t)
      /\ p0.scope = x
  BY TokenSeat
<1>3. ~IsJoin(p0.at) /\ Follows(p0.at, y, f)
  BY <1>2, BoundaryStep DEF Place
<1>4. \A m \in s.queue : m.token # k
  BY DEF Unique
<1>5. x \in Nat /\ \A c \in s.scopes : c.token = k => c.parent = x
  OBVIOUS
<1> HIDE DEF f, y, k, x, p0
<1>6. LET u == Go(WithdrawArms(CloseOwned(Unpark(s, k), k), k), k, y, x, f)
      IN  Flowing(u) /\ Shaped(u) /\ u.status = "active"
  BY <1>2, <1>3, <1>4, <1>5, HostFlows
<1> QED  BY <1>1, <1>6

LEMMA EnterSubProcessFlows ==
    ASSUME Good(Now), Coherent(Now), Flowing(Now), NEW m \in queue, EnterSubProcess(m)
    PROVE  Flowing(Now)'
<1> DEFINE s == Taken(m)
           p == Park(s, m.token, m.node, m.scope, "scope", NoFlow)
           t == [id |-> m.token, node |-> m.node, scope |-> m.scope,
                 wait |-> "scope", via |-> NoFlow]
           child == [id |-> nextScope, element |-> m.node, parent |-> m.scope,
                     token |-> m.token]
           o     == [p EXCEPT !.scopes = @ \union {child}, !.nextScope = @ + 1]
           els   == ArmedAt(m.node)
           armed == ArmAll(o, els, m.token)
           k1    == armed.nextToken
           fresh == [armed EXCEPT !.nextToken = @ + 1]
           u     == Go(fresh, k1, BodyStart[m.node], nextScope, NoFlow)
<1>1. status = "active" /\ Kind[m.node] = "subprocess"
  BY DEF EnterSubProcess, Enters
<1>2. Becomes(u) \/ \E k \in DOMAIN els : Becomes(Freeze(o, m.token, m.scope, els[k]))
  BY Zenon DEF EnterSubProcess
<1>3. Gone(s, m.token)
  BY <1>1, TakenIs
<1>4. s.items = items /\ s.arms = arms
  BY DEF Taken, Now
<1>5. ~IsJoin(m.node) /\ Place(m.node) /\ Shaped(s) /\ s.scopes = scopes
  BY <1>1, HeadSeat DEF IsJoin
<1>6. /\ t.id = m.token /\ t.wait = "scope" /\ DOMAIN t = TokenFields /\ t.node = m.node
      /\ t.scope = m.scope
  BY DEF TokenFields
<1>7. t = [id |-> m.token, node |-> m.node, scope |-> m.scope,
           wait |-> "scope", via |-> NoFlow]
  OBVIOUS
<1>8. child.id = nextScope /\ child.parent = m.scope /\ child.token = m.token
  OBVIOUS
<1> HIDE DEF t, child
<1>9. /\ Shaped(p) /\ p.status = "active" /\ Orderly(p) /\ Less(p, Now, {}, {})
      /\ p.tokens = tokens \union {t} /\ p.queue = queue \ {m} /\ p.scopes = scopes
      /\ \A w \in p.tokens : w.id = m.token => w = t
  BY <1>1, <1>5, <1>7, ParkedSeats
<1>10. p.arms = s.arms /\ p.items = s.items
  BY <1>5, ParkIs DEF Alike, Fields
<1> HIDE DEF p, s
<1>11. /\ Alike(o, p, {"scopes", "nextScope"}) /\ o.scopes = p.scopes \union {child}
  BY <1>9 DEF Alike, Shaped, Fields
<1> HIDE DEF o
<1>12. /\ o.tokens = tokens \union {t} /\ o.arms = arms /\ o.queue = queue \ {m}
       /\ o.scopes = scopes \union {child} /\ o.items = items /\ Shaped(o)
       /\ o.status = "active" /\ o.tokens = p.tokens
  BY <1>4, <1>9, <1>10, <1>11 DEF Alike, Fields
<1>13. Less(o, p, {}, {})
  BY <1>11, AlikeLess
<1>14. Orderly(o)
  BY <1>9, <1>13, SameOrderly
<1>15. /\ \A w \in tokens : w.scope \in Open(Now)
       /\ \A w \in queue : w.scope \in Open(Now)
       /\ \A c \in scopes : c.parent \in Nat /\ c.parent < nextScope /\ c.id < nextScope
       /\ \A y \in Open(Now) : y # nextScope
       /\ nextScope \in Nat
  <2>1. Now.nextScope = nextScope /\ Nested(Now)
    BY DEF Now, Coherent, Whole
  <2>2. /\ nextScope \in Nat \ {0}
        /\ \A c \in scopes : /\ c.id \in Nat /\ c.parent \in Nat
                            /\ c.parent < c.id /\ c.id < nextScope
        /\ \A w \in tokens : w.scope \in Open(Now)
        /\ \A w \in queue : w.scope \in Open(Now)
    BY <2>1, NowIs DEF Nested
  <2>3. \A y \in Open(Now) : y = Root \/ \E c \in scopes : y = c.id
    BY NowIs DEF Open, ScopeIds
  <2> QED  BY <2>2, <2>3 DEF Root
<1>16. CASE Becomes(u)
  <2> DEFINE b == BodyStart[m.node]
             q == SeatAt(k1, b, nextScope, NoFlow)
  <2>1. Alike(armed, o, {"arms"})
    BY <1>12, ArmAllIs
  <2> HIDE DEF armed
  <2>2. Alike(fresh, armed, {"nextToken"})
    BY <2>1 DEF Alike, Shaped, Fields
  <2> HIDE DEF fresh
  <2>3. Shaped(fresh) /\ fresh.status = "active"
    BY <1>12, <2>1, <2>2 DEF Alike, Fields
  <2>4. Less(armed, o, {}, {}) /\ Less(fresh, armed, {}, {})
    BY <2>1, <2>2, AlikeLess
  <2>5. Less(fresh, Now, {}, {})
    BY <1>9, <1>13, <2>4, LessThenSame
  <2>6. b \in Starts
    BY <1>1, <1>5 DEF Starts, Nodes, Place
  <2>7. Way(q) /\ \A j, h : ~Lies(q, j, h)
    <3>1. /\ b \in Node /\ b \notin Boundary /\ ~IsJoin(b)
          /\ \A g \in Node : b \notin Targets(g)
          /\ \A f, j, h : ~Brings(b, f, j, h)
      BY <2>6, StartFollows
    <3>2. q.at = b
      BY DEF SeatAt
    <3> QED  BY <3>1, <3>2 DEF Way, Lies
  <2>8. q.scope = nextScope
    BY DEF SeatAt
  <2>9. More(u, fresh, q) /\ Below(u, fresh) /\ u.queue # {}
    BY <2>3, GoMore, GoBelow
  <2> HIDE DEF q, u
  <2>10. \A w \in Seats(Now) : w.scope # nextScope
    BY <1>15, NowIs, SeatsAre, SeatFields
  <2>11. \A w : w \in Seats(u) <=> w \in Seats(Now) \/ w = q
    BY <2>5, <2>9 DEF More, Less
  <2>12. Sorted(Seats(u))
    BY <2>7, <2>8, <2>10, <2>11, AddedSorted DEF Flowing, Orderly
  <2>13. Waiting(u) \subseteq Waiting(Now)
    BY <2>5, <2>9 DEF More, Less
  <2>14. Missing(u)
    BY <2>13, MissingKept DEF Flowing, Orderly
  <2>15. Flowing(u)
    BY <2>3, <2>9, <2>12, <2>14 DEF Flowing, Orderly, Running, Below
  <2> QED  BY <1>16, <2>15, BecomesFlowing
<1>17. ASSUME NEW k \in DOMAIN els, Becomes(Freeze(o, m.token, m.scope, els[k]))
       PROVE  Flowing(Now)'
  <2>1. m.scope # nextScope
    BY <1>15
  <2>2. \A c \in o.scopes : c.token = m.token => c = child
    BY <1>3, <1>5, <1>12 DEF Gone
  <2>3. \A d \in o.scopes : d.parent # child.id
    BY <1>8, <1>12, <1>15, <2>1
  <2>4. IsEmpty(o, child.id)
    BY <1>6, <1>8, <1>12, <1>15, <2>1 DEF IsEmpty
  <2>5. /\ Calm(o) /\ \A w \in o.tokens : DOMAIN w = TokenFields
        /\ \A w \in o.queue : w.token # m.token
    <3>1. items \subseteq o.items /\ t.wait \notin {"incident", "inflight"}
      BY <1>6, <1>12
    <3> QED  BY <1>1, <1>6, <1>12, <3>1, ParkedKeeps
  <2>6. Failing(o, m.token)
    BY <1>12, <2>2, <2>3, <2>4, <2>5 DEF Failing
  <2>7. ResumePoints(els[k]) = {t.node}
    <3>1. els[k] \in Range(ArmedAt(m.node))
      BY <1>17 DEF Range
    <3> QED  BY <1>5, <1>6, <3>1, ArmResumes
  <2>8. t \in o.tokens /\ \A w \in o.tokens : w.id = m.token => w = t
    BY <1>9, <1>12
  <2> HIDE DEF els
  <2>9. Flowing(Freeze(o, m.token, m.scope, els[k]))
    BY <1>5, <1>6, <1>14, <2>6, <2>7, <2>8, FreezeFlows
  <2> QED  BY <1>17, <2>9, BecomesFlowing
<1> QED  BY <1>2, <1>16, <1>17

LEMMA SplitSeats ==
    ASSUME NEW s, Shaped(s), NEW node, NEW x, NEW Q, Q = Forked(node, x, s.nextToken)
    PROVE  LET u == Split(s, node, x)
           IN  u.tokens = s.tokens /\ \A p : p \in Seats(u) <=> p \in Seats(s) \/ p \in Q
<1> DEFINE out == Outgoing[node]
           at  == IF s.queue = {} THEN 0 ELSE s.clock
           Sent(i) == [token |-> s.nextToken + i - 1, node |-> Target[out[i]], scope |-> x,
                       via |-> out[i], at |-> at + i - 1]
           q == s.queue \union {Sent(i) : i \in DOMAIN out}
           k == s.nextToken + Len(out)
           e == at + Len(out)
           u == [s EXCEPT !.queue = q, !.nextToken = k, !.clock = e]
<1>1. Split(s, node, x) = u
  BY DEF Split
<1>2. \A i : MoveSeat(Sent(i)) = SeatAt(s.nextToken + i - 1, Target[out[i]], x, out[i])
  BY DEF MoveSeat
<1>3. \A m : m \in q <=> m \in s.queue \/ \E i \in DOMAIN out : m = Sent(i)
  OBVIOUS
<1>4. \A p : p \in Q <=> \E i \in DOMAIN out : p = MoveSeat(Sent(i))
  BY <1>2 DEF Forked
<1> HIDE DEF Sent, q, k, e
<1>5. u.tokens = s.tokens /\ u.queue = q
  BY DEF Shaped, Fields
<1> HIDE DEF u
<1>6. \A p : p \in Seats(u) <=> p \in Seats(s) \/ p \in Q
  BY <1>3, <1>4, <1>5, SeatsAre
<1> QED  BY <1>1, <1>5, <1>6

LEMMA EnterSplitFlows ==
    ASSUME Good(Now), Coherent(Now), Flowing(Now), NEW m \in queue, EnterSplit(m)
    PROVE  Flowing(Now)'
<1> DEFINE n   == Now
           s   == Taken(m)
           g   == m.node
           x   == m.scope
           out == Outgoing[g]
           k   == s.nextToken
           p0  == MoveSeat(m)
           Q   == Forked(g, x, k)
           u   == Split(s, g, x)
<1>1. status = "active" /\ Kind[g] = "parallel" /\ ~IsJoin(g) /\ Becomes(u)
  BY DEF EnterSplit, Enters
<1>2. /\ Orderly(n) /\ Unique(n) /\ p0 \in Seats(n) /\ p0.id = m.token /\ p0.at = g
      /\ p0.scope = x /\ Shaped(s) /\ s.status = "active" /\ Less(s, n, {}, {p0.id})
      /\ Place(g)
  BY <1>1, HeadSeat
<1>3. g \in Node /\ Outgoing[g] # << >> /\ out \in Seq(Flow)
  <2>1. g \in Node /\ out \in Seq(Flow)
    BY <1>2, GraphTyped DEF Place
  <2>2. Outgoing[g] # << >> \/ Len(out) = 1
    BY <1>1, <2>1, OneWayOn
  <2>3. CASE Len(out) = 1
    <3>1. DOMAIN out = 1 .. 1
      BY <2>1, <2>3
    <3>2. 1 \in DOMAIN out
      BY <3>1
    <3>3. DOMAIN << >> = {}
      OBVIOUS
    <3> HIDE DEF out
    <3>4. out # << >>
      BY <3>2, <3>3
    <3> QED  BY <2>1, <3>4 DEF out
  <2> QED  BY <2>1, <2>2, <2>3
<1>4. u.tokens = s.tokens /\ \A p : p \in Seats(u) <=> p \in Seats(s) \/ p \in Q
  BY <1>2, SplitSeats
<1>5. Shaped(u) /\ u.status = "active" /\ u.queue # {}
  BY <1>2, <1>3, SplitBelow DEF Below
<1>6. Waiting(u) \subseteq Waiting(n)
  BY <1>2, <1>4 DEF Less, Waiting
<1> HIDE DEF n, s, u, p0, k
<1>7. \A p : p \in Seats(u) <=> (p \in Seats(n) /\ p # p0) \/ p \in Q
  <2>1. \A p \in Seats(n) : p.id = p0.id => p = p0
    BY <1>2, SeatsUnique
  <2> HIDE DEF Q
  <2> QED  BY <1>2, <1>4, <2>1 DEF Less
<1>8. Orderly(u)
  <2>1. CASE g \in Splits
    <3>1. Sorted(Seats(n)) /\ x = p0.scope
      BY <1>2 DEF Orderly
    <3>2. Q = Forked(g, x, k)
      OBVIOUS
    <3> DEFINE R == Seats(u)
               P == Seats(n)
    <3>3. \A p : p \in R <=> (p \in P /\ p # p0) \/ p \in Q
      BY <1>7
    <3>4. Sorted(P) /\ p0 \in P /\ p0.at = g
      BY <1>2, <3>1
    <3> HIDE DEF R, P, Q, g, x
    <3>5. Sorted(R)
      BY ONLY <2>1, <3>1, <3>2, <3>3, <3>4, ForkSorted
    <3>6. Missing(u)
      BY <1>2, <1>6, MissingKept DEF Orderly
    <3> QED  BY <3>5, <3>6 DEF Orderly, R
  <2>2. CASE g \notin Splits
    <3> DEFINE f == out[1]
               i1 == k + 1 - 1
    <3>1. Len(out) = 1
      <4> DEFINE l == Len(out)
      <4>1. l \in Nat /\ ~(l > 1) /\ l # 0
        BY <1>1, <1>3, <2>2 DEF Splits, Nodes
      <4> HIDE DEF l
      <4>2. l = 1
        BY <4>1
      <4> QED  BY <4>2 DEF l
    <3>2. DOMAIN out = {1}
      BY <1>3, <3>1
    <3>3. f \in Range(Outgoing[g])
      BY <3>2 DEF Range
    <3>4. Follows(g, Target[f], f)
      <4>1. g \notin NonInterrupting
        BY <1>1 DEF NonInterrupting, Nodes
      <4> QED  BY <1>1, <1>3, <2>2, <3>3, <4>1, FlowFollows
    <3>5. Q = {SeatAt(i1, Target[f], x, f)}
      BY <3>2 DEF Forked
    <3> HIDE DEF Q, f, i1
    <3>6. More(u, s, SeatAt(i1, Target[f], x, f))
      BY <1>4, <3>5 DEF More, Waiting
    <3> DEFINE y == Target[f]
    <3>7. /\ ~IsJoin(p0.at) /\ p0.scope \notin {} /\ Follows(p0.at, y, f) /\ x = p0.scope
          /\ More(u, s, SeatAt(i1, y, x, f)) /\ Orderly(n) /\ Unique(n) /\ p0 \in Seats(n)
          /\ Less(s, n, {}, {p0.id})
      BY <1>1, <1>2, <3>4, <3>6
    <3> HIDE DEF y, x
    <3> QED  BY ONLY <3>7, MoveOrderly
  <2> QED  BY <2>1, <2>2
<1>9. Flowing(u)
  BY <1>5, <1>8 DEF Flowing, Running
<1> QED  BY <1>1, <1>9, BecomesFlowing DEF u, s

LEMMA JoinParksFlows ==
    ASSUME Good(Now), Coherent(Now), Flowing(Now), NEW m \in queue, EnterJoin(m), JoinParks(m)
    PROVE  Flowing(Now)'
<1> DEFINE n == Now
           s == Taken(m)
           t == [id |-> m.token, node |-> m.node, scope |-> m.scope,
                 wait |-> "join", via |-> m.via]
           p == Park(s, m.token, m.node, m.scope, "join", m.via)
           q == SeatAt(m.token, m.node, m.scope, m.via)
<1>1. /\ status = "active" /\ StillMissing(m) # {} /\ Becomes(Settle(p))
  BY DEF EnterJoin, JoinParks, Enters
<1>2. /\ Orderly(n) /\ Unique(n) /\ MoveSeat(m) \in Seats(n) /\ MoveSeat(m).id = m.token
      /\ Shaped(s) /\ s.status = "active" /\ Less(s, n, {}, {m.token})
      /\ s.tokens = tokens /\ n.tokens = tokens
  BY <1>1, HeadSeat, NowIs
<1>3. t = [id |-> m.token, node |-> m.node, scope |-> m.scope, wait |-> "join", via |-> m.via]
  OBVIOUS
<1>4. t.node = m.node /\ t.scope = m.scope /\ t.via = m.via
  OBVIOUS
<1> HIDE DEF n, s, t
<1>5. q = MoveSeat(m)
  BY DEF MoveSeat
<1>6. (\A w : w \in Seats(p) <=> w \in Seats(s) \/ w = q) /\ p.tokens = s.tokens \union {t}
  BY <1>2, <1>3, ParkMore
<1>7. Alike(p, s, {"tokens"})
  BY <1>2, ParkIs
<1> HIDE DEF p, q
<1>8. \A w : w \in Seats(p) <=> w \in Seats(n)
  <2>1. \A w \in Seats(n) : w.id = m.token => w = q
    BY <1>2, <1>5, SeatsUnique
  <2> QED  BY <1>2, <1>5, <1>6, <2>1 DEF Less
<1>9. Sorted(Seats(p))
  <2>1. Seats(p) = Seats(n)
    BY <1>8
  <2> QED  BY <1>2, <2>1 DEF Orderly
<1>10. Missing(p)
  <2>1. \A w : w \in Waiting(p) => w = t \/ w \in Waiting(n)
    BY <1>2, <1>6 DEF Waiting
  <2>2. ASSUME NEW w \in Waiting(p)
        PROVE  \E h \in Incoming(w.node) : \A v \in Waiting(p) :
                 v.node = w.node /\ v.scope = w.scope => v.via # h
    <3>1. CASE w.node = m.node /\ w.scope = m.scope
      <4>1. PICK h \in Incoming(m.node) : h # m.via /\ \A v \in Arrived(m) : v.via # h
        BY <1>1 DEF StillMissing
      <4>2. \A v \in Waiting(n) : v.node = m.node /\ v.scope = m.scope => v \in Arrived(m)
        BY <1>2 DEF Waiting, Arrived
      <4> QED  BY <1>4, <2>1, <3>1, <4>1, <4>2
    <3>2. CASE ~(w.node = m.node /\ w.scope = m.scope)
      <4>1. w \in Waiting(n)
        BY <1>4, <2>1, <2>2, <3>2
      <4>2. PICK h \in Incoming(w.node) : \A v \in Waiting(n) :
              v.node = w.node /\ v.scope = w.scope => v.via # h
        BY <1>2, <4>1 DEF Orderly, Missing
      <4> QED  BY <1>4, <2>1, <3>2, <4>2
    <3> QED  BY <3>1, <3>2
  <2> QED  BY <2>2 DEF Missing
<1>11. Shaped(p) /\ p.status = "active" /\ Orderly(p)
  BY <1>2, <1>7, <1>9, <1>10 DEF Alike, Fields, Orderly
<1>12. Flowing(Settle(p))
  BY <1>11, SettleFlows
<1> QED  BY <1>1, <1>12, BecomesFlowing DEF p, s

LEMMA JoinFiresFlows ==
    ASSUME Good(Now), Coherent(Now), Flowing(Now), NEW m \in queue, EnterJoin(m), JoinFires(m)
    PROVE  Flowing(Now)'
<1> DEFINE n == Now
           s == Taken(m)
           j == m.node
           x == m.scope
           A == Arrived(m)
           r == [s EXCEPT !.tokens = @ \ A]
           f == Outgoing[j][1]
           y == Target[f]
           k == r.nextToken
           q == SeatAt(k, y, x, f)
           u == LeaveFresh(r, j, x)
           p0 == MoveSeat(m)
           B == {p0} \union {Seat(t) : t \in A}
<1>1. /\ status = "active" /\ StillMissing(m) = {} /\ Becomes(u)
      /\ Kind[j] = "parallel" /\ IsJoin(j)
  BY DEF EnterJoin, JoinFires, Enters
<1>2. /\ Orderly(n) /\ Unique(n) /\ p0 \in Seats(n) /\ p0.id = m.token /\ p0.at = j
      /\ p0.scope = x /\ Shaped(s) /\ s.status = "active" /\ Less(s, n, {}, {m.token})
      /\ s.tokens = tokens /\ n.tokens = tokens /\ s.queue = queue \ {m} /\ n.queue = queue
      /\ Place(j)
  BY <1>1, HeadSeat, NowIs
<1>3. j \in Node /\ j \notin Boundary /\ j \in Joins
  BY <1>1, <1>2 DEF Place, Joins
<1>4. \A t \in A : t \in tokens /\ t.node = j /\ t.scope = x /\ t.wait = "join"
  BY DEF Arrived
<1>5. \A h \in Incoming(j) : h = m.via \/ \E t \in A : t.via = h
  BY <1>1 DEF StillMissing
<1>6. Follows(j, y, f)
  BY <1>1, <1>3, StepFollows
<1>7. p0.via = m.via /\ \A t \in A : Seat(t).at = j /\ Seat(t).scope = x /\ Seat(t).via = t.via
  <2>1. p0.via = m.via
    BY <1>1 DEF MoveSeat, SeatAt
  <2>2. ASSUME NEW t \in A
        PROVE  Seat(t).at = j /\ Seat(t).scope = x /\ Seat(t).via = t.via
    <3>1. At(t) = j
      BY <1>4 DEF At
    <3> QED  BY <1>1, <1>4, <3>1 DEF Seat, SeatAt
  <2> QED  BY <2>1, <2>2
<1>8. \A p : p \in B <=> p = p0 \/ \E t \in A : p = Seat(t)
  OBVIOUS
<1> HIDE DEF n, A, B, j, x, f, y
<1>9. Shaped(r) /\ r.tokens = tokens \ A /\ r.queue = queue \ {m} /\ r.status = "active"
  BY <1>2 DEF Shaped, Fields
<1> HIDE DEF s, r
<1>10. \A p : p \in Seats(r) <=> p \in Seats(n) /\ p \notin B
  <2>1. ASSUME NEW p \in Seats(r)
        PROVE  p \in Seats(n) /\ p \notin B
    <3>1. CASE \E t \in r.tokens : p = Seat(t)
      <4>1. PICK t \in r.tokens : p = Seat(t)
        BY <3>1
      <4>2. t \in tokens /\ t \notin A
        BY <1>9, <4>1
      <4>3. p # p0
        BY <1>2, <4>1, <4>2, SeatFields DEF Unique
      <4>4. \A w \in A : p # Seat(w)
        BY <1>2, <1>4, <4>1, <4>2, SeatFields DEF Unique
      <4> QED  BY <1>2, <1>8, <4>1, <4>2, <4>3, <4>4, SeatsAre
    <3>2. CASE \E w \in r.queue : p = MoveSeat(w)
      <4>1. PICK w \in r.queue : p = MoveSeat(w)
        BY <3>2
      <4>2. w \in queue /\ w # m
        BY <1>9, <4>1
      <4>3. p # p0
        BY <1>2, <4>1, <4>2, SeatFields DEF Unique
      <4>4. \A t \in A : p # Seat(t)
        BY <1>2, <1>4, <4>1, <4>2, SeatFields DEF Unique
      <4> QED  BY <1>2, <1>8, <4>1, <4>2, <4>3, <4>4, SeatsAre
    <3> QED  BY <2>1, <3>1, <3>2, SeatsAre
  <2>2. ASSUME NEW p \in Seats(n), p \notin B
        PROVE  p \in Seats(r)
    <3>1. CASE \E t \in n.tokens : p = Seat(t)
      <4>1. PICK t \in n.tokens : p = Seat(t)
        BY <3>1
      <4>2. t \in r.tokens
        BY <1>2, <1>8, <1>9, <2>2, <4>1
      <4> QED  BY <4>1, <4>2, SeatsAre
    <3>2. CASE \E w \in n.queue : p = MoveSeat(w)
      <4>1. PICK w \in n.queue : p = MoveSeat(w)
        BY <3>2
      <4>2. w \in r.queue
        BY <1>2, <1>8, <1>9, <2>2, <4>1
      <4> QED  BY <4>1, <4>2, SeatsAre
    <3> QED  BY <2>2, <3>1, <3>2, SeatsAre
  <2> QED  BY <2>1, <2>2
<1>11. More(u, r, q) /\ u.tokens = r.tokens
  BY <1>9, LeaveFreshMore DEF f, y
<1>12. Shaped(u) /\ u.status = "active" /\ u.queue # {}
  BY <1>9, LeaveFreshBelow DEF Below
<1>13. q.at = y /\ q.scope = x /\ (IsJoin(y) => q.via = f)
  BY DEF SeatAt
<1>14. \A e, h : Lies(q, e, h) <=> On(j, e, h)
  BY <1>6, SeatLies DEF Follows
<1>15. Way(q) /\ Main(q)
  BY <1>1, <1>3, <1>6, <1>13, JoinsAreMain DEF Way, Main, Follows
<1> HIDE DEF q, k, u, p0
<1>16. \A p : p \in Seats(u) <=> (p \in Seats(n) /\ p \notin B) \/ p = q
  BY <1>10, <1>11 DEF More
<1>17. B \subseteq Seats(n)
  BY <1>2, <1>4, <1>8, SeatsAre
<1>18. \A b \in B : b.at = j /\ b.scope = x
  BY <1>2, <1>7, <1>8
<1>19. \A h \in Incoming(j) : \E b \in B : b.via = h
  BY <1>5, <1>7, <1>8
<1>20. Sorted(Seats(u))
  <2> DEFINE P == Seats(n)
             R == Seats(u)
  <2>1. Sorted(P)
    BY <1>2 DEF Orderly
  <2>2. \A p : p \in R <=> (p \in P /\ p \notin B) \/ p = q
    BY <1>16
  <2> HIDE DEF P, R
  <2>3. Sorted(R)
    <3>1. j \in Joins /\ B \subseteq P
      BY <1>3, <1>17 DEF P
    <3> QED
      BY ONLY <1>13, <1>14, <1>15, <1>18, <1>19, <2>1, <2>2, <3>1, JoinedSorted
  <2> QED  BY <2>3 DEF R
<1>21. Waiting(u) \subseteq Waiting(n)
  BY <1>2, <1>9, <1>11 DEF Waiting
<1>22. Flowing(u)
  BY <1>2, <1>12, <1>20, <1>21, MissingKept DEF Flowing, Orderly, Running
<1> QED  BY <1>1, <1>22, BecomesFlowing DEF u, r, s, j, x, A

LEMMA ScopeEndFlows ==
    ASSUME Sound(Now), Coherent(Now), Orderly(Now), NEW c \in scopes,
           NEW D, c.parent \notin D, NEW r, Less(r, Now, D, {}), Shaped(r),
           r.status = "active", r.queue \subseteq queue
    PROVE  LET u == CompleteScope(r, c)
           IN  Flowing(u) /\ Shaped(u) /\ u.status = "active" /\ u.queue # {}
<1> DEFINE n == Now
<1>1. n.scopes = scopes /\ n.tokens = tokens /\ n.queue = queue
  BY NowIs
<1>2. Unique(n) /\ Parented(n, c)
  BY <1>1 DEF Coherent, Whole
<1>3. Kind[c.element] = "subprocess"
  BY <1>1 DEF Sound, State, Scope, Nodes
<1> HIDE DEF n
<1>4. PICK t \in n.tokens : /\ t.id = c.token /\ t.wait = "scope"
                            /\ t.node = c.element /\ t.scope = c.parent
  BY <1>2 DEF Parented
<1>5. \A m \in r.queue : m.token # c.token
  BY <1>1, <1>2, <1>4 DEF Unique
<1>6. /\ c.token = t.id /\ c.element = t.node /\ c.parent = t.scope /\ t.scope \notin D
      /\ Orderly(n) /\ Less(r, n, D, {}) /\ Shaped(r) /\ r.status = "active"
      /\ t.wait = "scope" /\ t \in n.tokens /\ Unique(n)
  BY <1>2, <1>4 DEF n
<1> QED  BY ONLY <1>3, <1>5, <1>6, CompleteScopeFlows

(* Scope c is above what is inside it.                                     *)
LEMMA ScopeInside ==
    ASSUME NEW s, Nested(s), NEW c \in s.scopes
    PROVE  /\ c.parent \notin Subtree(s, {c.id}) /\ c.id \in Subtree(s, {c.id})
<1>1. {d.id : d \in {e \in s.scopes : e.token = c.token}} = {c.id}
  BY DEF Nested
<1> DEFINE id == c.token
           x  == c.parent
           D  == Subtree(s, {d.id : d \in {e \in s.scopes : e.token = id}})
<1>2. x \in Nat /\ \A e \in s.scopes : e.token = id => e.parent = x
  BY DEF Nested
<1>3. D = Subtree(s, {d.id : d \in {e \in s.scopes : e.token = id}})
  OBVIOUS
<1> HIDE DEF id, x, D
<1>4. x \notin D /\ \A e \in s.scopes : e.token = id => e.id \in D
  BY <1>2, <1>3, DoomedAre
<1> QED  BY <1>1, <1>4 DEF id, x, D

LEMMA EnterEndFlows ==
    ASSUME Good(Now), Coherent(Now), Flowing(Now), NEW m \in queue, EnterEnd(m)
    PROVE  Flowing(Now)'
<1> DEFINE n == Now
           s == Taken(m)
           x == m.scope
           p0 == MoveSeat(m)
<1>1. status = "active" /\ Kind[m.node] = "end" /\ Consumed(s, x)
  BY DEF EnterEnd, Enters
<1>2. /\ Orderly(n) /\ Unique(n) /\ p0 \in Seats(n) /\ p0.id = m.token /\ p0.at = m.node
      /\ p0.scope = x /\ Shaped(s) /\ s.status = "active" /\ Less(s, n, {}, {m.token})
      /\ s.queue = queue \ {m} /\ s.scopes = scopes /\ n.scopes = scopes
  BY <1>1, HeadSeat, NowIs
<1>3. Sound(n) /\ Coherent(n)
  BY DEF Good
<1>4. \A p \in Seats(n) : p.id = m.token => p = p0
  BY <1>2, SeatsUnique
<1> HIDE DEF s, x
<1>5. CASE Becomes(Settle(s))
  <2>1. \A j, h : ~Lies(p0, j, h)
    <3>1. \A j, h : ~On(m.node, j, h)
      BY <1>1, OnIs
    <3>2. ~IsJoin(m.node)
      BY <1>1 DEF IsJoin
    <3> QED  BY <1>2, <3>1, <3>2 DEF Lies, Brings, Joins
  <2> DEFINE P == Seats(n)
             R == Seats(s)
  <2>2. \A p : p \in R <=> p \in P /\ p # p0
    BY <1>2, <1>4 DEF Less
  <2>3. Sorted(P) /\ p0 \in P
    BY <1>2 DEF Orderly
  <2> HIDE DEF P, R, p0
  <2>4. Sorted(R)
    BY <2>1, <2>2, <2>3, SpentSorted
  <2>5. Missing(s)
    BY <1>2, MissingKept DEF Orderly, Less
  <2>6. Orderly(s)
    BY <2>4, <2>5 DEF Orderly, R
  <2> QED  BY <1>2, <1>5, <2>6, SettleFlows, BecomesFlowing
<1>6. ASSUME NEW c \in s.scopes, c.id = x, IsEmpty(s, x), Becomes(CompleteScope(s, c))
      PROVE  Flowing(Now)'
  <2> DEFINE D == {x}
  <2>1. c.parent \notin D
    <3>1. Nested(n)
      BY <1>3 DEF Coherent, Whole
    <3>2. c.parent \in Nat /\ c.id \in Nat /\ c.parent < c.id
      BY <1>2, <3>1 DEF Nested
    <3>3. c.parent # c.id
      BY <3>2
    <3> QED  BY <1>6, <3>3
  <2>2. \A p \in Seats(s) : p.scope # x
    BY <1>6, SeatsAre, SeatFields DEF IsEmpty
  <2>3. Less(s, n, D, {})
    BY <1>2, <1>4, <2>2 DEF Less
  <2> HIDE DEF D
  <2>4. c \in scopes /\ s.queue \subseteq queue
    BY <1>2
  <2>5. LET u == CompleteScope(s, c)
        IN  Flowing(u) /\ Shaped(u) /\ u.status = "active" /\ u.queue # {}
    BY <1>2, <1>3, <2>1, <2>3, <2>4, ScopeEndFlows
  <2> QED  BY <1>6, <2>5, BecomesFlowing
<1> QED  BY <1>1, <1>5, <1>6 DEF Consumed

LEMMA EnterTerminateFlows ==
    ASSUME Good(Now), Coherent(Now), Flowing(Now), NEW m \in queue, EnterTerminate(m)
    PROVE  Flowing(Now)'
<1> DEFINE n == Now
           s == Taken(m)
           x == m.scope
           p0 == MoveSeat(m)
<1>1. status = "active"
  BY DEF EnterTerminate, Enters
<1>2. /\ Orderly(n) /\ Unique(n) /\ p0 \in Seats(n) /\ p0.id = m.token
      /\ p0.scope = x /\ Shaped(s) /\ s.status = "active" /\ Less(s, n, {}, {m.token})
      /\ s.queue = queue \ {m} /\ s.scopes = scopes /\ n.scopes = scopes
  BY <1>1, HeadSeat, NowIs
<1>3. Sound(n) /\ Coherent(n)
  BY DEF Good
<1>4. \A p \in Seats(n) : p.id = m.token => p = p0
  BY <1>2, SeatsUnique
<1>5. Nested(s)
  BY <1>1, TakenIs DEF Loose
<1>6. \/ Becomes(Terminate(s))
      \/ \E c \in scopes : c.id = x /\ Becomes(CompleteScope(TearDown(s, {c.id}), c))
  BY DEF EnterTerminate
<1> HIDE DEF s, x
<1>7. CASE Becomes(Terminate(s))
  <2> DEFINE u == Terminate(s)
  <2>1. u.tokens = {} /\ u.queue = {} /\ u.status = "terminated"
    BY <1>2 DEF Terminate, Shaped, Fields
  <2> HIDE DEF u
  <2>2. Flowing(u)
    BY <2>1, NothingFlows
  <2> QED  BY <1>7, <2>2, BecomesFlowing DEF u
<1>8. ASSUME NEW c \in scopes, c.id = x, Becomes(CompleteScope(TearDown(s, {c.id}), c))
      PROVE  Flowing(Now)'
  <2> DEFINE D == Subtree(s, {c.id})
             r == TearDown(s, {c.id})
  <2>1. c.parent \notin D /\ x \in D
    BY <1>2, <1>5, <1>8, ScopeInside
  <2>2. D = Subtree(s, {c.id})
    OBVIOUS
  <2> HIDE DEF D
  <2>3. Less(r, s, D, {}) /\ Below(r, s)
    BY <1>2, <2>2, TearDownLess, TearDownBelow
  <2>4. \A w \in r.queue : w \in s.queue
    BY <1>2, <2>2, TearDownIs
  <2> HIDE DEF r
  <2>5. Less(r, n, D, {})
    BY <1>2, <1>4, <2>1, <2>3 DEF Less
  <2>6. Shaped(r) /\ r.status = "active" /\ r.queue \subseteq queue
    BY <1>2, <2>3, <2>4 DEF Below
  <2>7. LET u == CompleteScope(r, c)
        IN  Flowing(u) /\ Shaped(u) /\ u.status = "active" /\ u.queue # {}
    BY <1>2, <1>3, <2>1, <2>5, <2>6, ScopeEndFlows
  <2> QED  BY <1>8, <2>7, BecomesFlowing DEF r
<1> QED  BY <1>6, <1>7, <1>8

LEMMA EnterFlows ==
    ASSUME Good(Now), Coherent(Now), Flowing(Now), NEW m \in queue, Enter(m)
    PROVE  Flowing(Now)'
<1>1. status = "active"
  BY DEF Enter, EnterStart, EnterRule, EnterTask, EnterCatch, EnterSubProcess, EnterExclusive,
         EnterSplit, EnterJoin, EnterEnd, EnterTerminate, Enters
<1>2. Place(m.node) /\ m.node \in Node /\ m.node \notin Boundary
  BY <1>1, HeadSeat DEF Place
<1>3. CASE EnterStart(m)
  <2> DEFINE f == Outgoing[m.node][1]
             y == Target[f]
             k == m.token
  <2>1. Kind[m.node] = "start" /\ Becomes(Go(Taken(m), k, y, m.scope, f))
    BY <1>3 DEF EnterStart, Enters, Leave
  <2>2. ~IsJoin(m.node) /\ Follows(m.node, y, f)
    BY <1>2, <2>1, StepFollows DEF IsJoin
  <2> HIDE DEF f, y, k
  <2> QED  BY <1>1, <2>1, <2>2, MoveFlows
<1>4. CASE EnterExclusive(m)
  <2>1. Kind[m.node] = "exclusive"
    BY <1>4 DEF EnterExclusive, Enters
  <2>2. PICK i \in DOMAIN Outgoing[m.node] :
          LET flow == Outgoing[m.node][i]
          IN  Becomes(Go(Taken(m), m.token, Target[flow], m.scope, flow))
    BY <1>4 DEF EnterExclusive
  <2> DEFINE f == Outgoing[m.node][i]
             y == Target[f]
             k == m.token
  <2>3. Becomes(Go(Taken(m), k, y, m.scope, f)) /\ f \in Range(Outgoing[m.node])
    BY <2>2 DEF Range
  <2>4. ~IsJoin(m.node) /\ m.node \notin Splits /\ m.node \notin NonInterrupting
    BY <2>1 DEF IsJoin, Splits, NonInterrupting, Nodes
  <2>5. Follows(m.node, y, f)
    BY <1>2, <2>1, <2>3, <2>4, FlowFollows
  <2> HIDE DEF f, y, k
  <2> QED  BY <1>1, <2>3, <2>4, <2>5, MoveFlows
<1>5. CASE EnterRule(m)
  <2> DEFINE p == Park(Taken(m), m.token, m.node, m.scope, "decision", NoFlow)
             t == [id |-> m.token, node |-> m.node, scope |-> m.scope,
                   wait |-> "decision", via |-> NoFlow]
  <2>1. Becomes(Settle(p)) /\ Kind[m.node] = "rule"
    BY <1>5 DEF EnterRule, Enters
  <2>2. t = [id |-> m.token, node |-> m.node, scope |-> m.scope,
             wait |-> "decision", via |-> NoFlow]
    OBVIOUS
  <2> HIDE DEF t
  <2>3. ~IsJoin(m.node)
    BY <2>1 DEF IsJoin
  <2>4. Shaped(p) /\ p.status = "active" /\ Orderly(p)
    BY <1>1, <2>2, <2>3, ParkedSeats
  <2> HIDE DEF p
  <2> QED  BY <2>1, <2>4, SettleFlows, BecomesFlowing
<1>6. CASE EnterJoin(m)
  BY <1>6, JoinParksFlows, JoinFiresFlows DEF EnterJoin
<1> QED
  BY <1>3, <1>4, <1>5, <1>6, EnterTaskFlows, EnterCatchFlows, EnterSubProcessFlows,
     EnterSplitFlows, EnterEndFlows, EnterTerminateFlows DEF Enter

-----------------------------------------------------------------------------
(* The commands.                                                           *)

LEMMA DepartureFlows ==
    ASSUME NEW s, Orderly(s), Unique(s), NEW t \in s.tokens, ~IsJoin(At(t)),
           NEW r, Less(r, s, {}, {t.id}), Shaped(r), r.status = "active",
           NEW y, NEW f, Follows(At(t), y, f), NEW k, NEW x, x = t.scope
    PROVE  LET u == Go(r, k, y, x, f)
           IN  Flowing(u) /\ Shaped(u) /\ u.status = "active" /\ u.queue # {}
<1> DEFINE p0 == Seat(t)
<1>1. p0 \in Seats(s) /\ p0.id = t.id /\ p0.at = At(t) /\ p0.scope = t.scope
  BY TokenSeat
<1> HIDE DEF p0
<1>2. /\ p0.scope \notin {} /\ x = p0.scope /\ ~IsJoin(p0.at) /\ Follows(p0.at, y, f)
      /\ Less(r, s, {}, {p0.id}) /\ p0 \in Seats(s) /\ Orderly(s) /\ Unique(s)
      /\ Shaped(r) /\ r.status = "active"
  BY <1>1
<1> QED  BY ONLY <1>2, GoFlows

LEMMA ActiveSeats ==
    ASSUME Good(Now), Coherent(Now), Flowing(Now), status = "active"
    PROVE  /\ Shaped(Now) /\ Awake(Now) /\ Whole(Now) /\ Unique(Now) /\ Orderly(Now)
           /\ Now.tokens = tokens /\ Now.queue = queue /\ Now.scopes = scopes
           /\ \A t \in tokens : Fits(t) /\ At(t) = t.node /\ Place(t.node) /\ t.node \in Node
<1> DEFINE n == Now
<1>1. Shaped(n) /\ Awake(n) /\ Whole(n) /\ Unique(n) /\ Orderly(n)
  BY ActiveIsAwake DEF Whole, Flowing
<1>2. n.tokens = tokens /\ n.queue = queue /\ n.scopes = scopes
  BY NowIs
<1>3. \A t \in tokens : Fits(t)
  BY NowFields
<1> HIDE DEF n
<1>4. ASSUME NEW t \in tokens
      PROVE  At(t) = t.node /\ Place(t.node) /\ t.node \in Node
  BY <1>1, <1>2, <1>4, TokenSeat DEF Awake, Place
<1> QED  BY <1>1, <1>2, <1>3, <1>4 DEF n

LEMMA AnswerFlows ==
    ASSUME Good(Now), Coherent(Now), Flowing(Now), Answer
    PROVE  Flowing(Now)'
<1>1. PICK t \in tokens : DecisionFails(t) \/ \E v \in Value : AnswerDecision(t, v)
  BY DEF Answer
<1> DEFINE n == Now
<1>2. status = "active" /\ t.wait = "decision"
  BY <1>1 DEF DecisionFails, AnswerDecision, IsNextDecision
<1>3. /\ Shaped(n) /\ Awake(n) /\ Whole(n) /\ Unique(n) /\ Orderly(n)
      /\ n.tokens = tokens /\ n.queue = queue /\ n.scopes = scopes
      /\ Fits(t) /\ At(t) = t.node /\ Place(t.node) /\ t.node \in Node
  BY <1>2, ActiveSeats
<1>4. Kind[t.node] = "rule" /\ ~IsJoin(t.node)
  BY <1>2, <1>3 DEF Fits, IsJoin
<1> HIDE DEF n
<1>5. CASE DecisionFails(t)
  <2>1. Becomes(Freeze(n, t.id, t.scope, t.node))
    BY <1>5 DEF DecisionFails, n
  <2>2. \A c \in n.scopes : c.token # t.id
    BY <1>2, <1>3, TokenHolds
  <2>3. Failing(n, t.id)
    BY <1>3, <2>2 DEF Failing, Awake, Calm, Whole, Unique
  <2>4. ResumePoints(t.node) = {t.node}
    BY <1>3, PlaceResumes
  <2>5. \A w \in n.tokens : w.id = t.id => w = t
    BY <1>3 DEF Unique
  <2>6. Flowing(Freeze(n, t.id, t.scope, t.node))
    BY <1>2, <1>3, <1>4, <2>3, <2>4, <2>5, FreezeFlows
  <2> QED  BY <2>1, <2>6, BecomesFlowing
<1>6. ASSUME NEW answer \in Value, AnswerDecision(t, answer)
      PROVE  Flowing(Now)'
  <2> DEFINE s == [n EXCEPT !.variables[Result[t.node]] = answer]
             p == Unpark(s, t.id)
             v == WithdrawArms(p, t.id)
             f == Outgoing[t.node][1]
             y == Target[f]
             u == Go(v, t.id, y, t.scope, f)
  <2>1. Becomes(u)
    BY <1>6 DEF AnswerDecision, Leave, n
  <2>2. Alike(s, n, {"variables"})
    BY <1>3 DEF Alike, Shaped, Fields
  <2> HIDE DEF s
  <2>3. Shaped(s) /\ s.queue = n.queue /\ s.status = "active" /\ Less(s, n, {}, {})
    BY <1>3, <2>2, AlikeLess DEF Alike, Fields, Awake
  <2>4. \A m \in s.queue : m.token # t.id
    BY <1>3, <2>3 DEF Unique
  <2>5. Less(p, s, {}, {t.id}) /\ Below(p, s)
    BY <2>3, <2>4, UnparkLess, UnparkBelow
  <2> HIDE DEF p
  <2>6. Less(v, p, {}, {}) /\ Below(v, p)
    BY <2>5, WithdrawArmsLess, WithdrawArmsBelow DEF Below
  <2> HIDE DEF v
  <2>7. Less(v, n, {}, {t.id}) /\ Shaped(v) /\ v.status = "active"
    BY <2>3, <2>5, <2>6 DEF Less, Below
  <2>8. Follows(t.node, y, f)
    BY <1>3, <1>4, StepFollows DEF Place
  <2> HIDE DEF y, f
  <2>9. Flowing(u)
    BY <1>3, <1>4, <2>7, <2>8, DepartureFlows
  <2> HIDE DEF u
  <2> QED  BY <2>1, <2>9, BecomesFlowing
<1> QED  BY <1>1, <1>5, <1>6

LEMMA StartFlows ==
    ASSUME Flowing(Now), NEW doc, Start(doc)
    PROVE  Flowing(Now)'
<1> DEFINE n == Now
           k == nextToken + 1
           s == [n EXCEPT !.status = "active", !.variables = doc, !.nextToken = k]
           q == SeatAt(nextToken, ProcessStart, Root, NoFlow)
           u == Go(s, nextToken, ProcessStart, Root, NoFlow)
<1>1. Becomes(u) /\ status = "created"
  <2>1. n.nextToken = nextToken
    BY NowIs
  <2> QED  BY <2>1 DEF Start
<1>2. n.tokens = {} /\ n.queue = {} /\ Shaped(n)
  <2>1. n.status = "created"
    BY <1>1, NowIs
  <2>2. Shaped(n)
    BY DEF Now, Shaped, Fields
  <2> QED  BY <2>1, <2>2 DEF Flowing, Running
<1> HIDE DEF n, k
<1>3. Shaped(s) /\ s.tokens = {} /\ s.queue = {} /\ s.status = "active"
  BY <1>2 DEF Shaped, Fields
<1> HIDE DEF s
<1>4. More(u, s, q) /\ u.tokens = s.tokens /\ Shaped(u) /\ u.status = "active" /\ u.queue # {}
  BY <1>3, GoMore, GoBelow DEF Below
<1>5. \A p : p \notin Seats(s)
  BY <1>3, SeatsAre
<1>6. Way(q) /\ \A j, h : ~Lies(q, j, h)
  <2>1. ProcessStart \in Starts
    BY DEF Starts
  <2>2. /\ ProcessStart \in Node /\ ProcessStart \notin Boundary /\ ~IsJoin(ProcessStart)
        /\ \A g \in Node : ProcessStart \notin Targets(g)
        /\ \A f, j, h : ~Brings(ProcessStart, f, j, h)
    BY <2>1, StartFollows
  <2>3. q.at = ProcessStart
    BY DEF SeatAt
  <2> QED  BY <2>2, <2>3 DEF Way, Lies
<1> HIDE DEF q, u
<1>7. Sorted(Seats(u))
  <2> DEFINE P == Seats(s)
             R == Seats(u)
  <2>1. Sorted(P)
    BY <1>5 DEF Sorted
  <2>2. \A p : p \in R <=> p \in P \/ p = q
    BY <1>4 DEF More
  <2>3. \A p \in P : p.scope # q.scope
    BY <1>5
  <2> HIDE DEF P, R
  <2>4. Sorted(R)
    BY <1>6, <2>1, <2>2, <2>3, AddedSorted
  <2> QED  BY <2>4 DEF R
<1>8. Missing(u)
  BY <1>3, <1>4 DEF Missing, Waiting
<1>9. Flowing(u)
  BY <1>4, <1>7, <1>8 DEF Flowing, Orderly, Running
<1> QED  BY <1>1, <1>9, BecomesFlowing DEF u, s, k, n

LEMMA CompleteWorkItemFlows ==
    ASSUME Good(Now), Coherent(Now), Flowing(Now), NEW i \in items, NEW doc \in Document,
           CompleteWorkItem(i, doc)
    PROVE  Flowing(Now)'
<1> DEFINE n == Now
           c == CloseItem(n, i.token)
           d == [c EXCEPT !.variables = doc]
           s == Unpark(d, i.token)
           v == WithdrawArms(s, i.token)
           f == Outgoing[i.element][1]
           y == Target[f]
           k == i.token
<1>1. PICK t \in tokens : /\ t.id = i.token
                          /\ Becomes(Go(v, k, y, t.scope, f))
  BY DEF CompleteWorkItem, Leave
<1>2. status = "active"
  BY DEF CompleteWorkItem, Commanded
<1>3. /\ Shaped(n) /\ Awake(n) /\ Whole(n) /\ Unique(n) /\ Orderly(n)
      /\ n.tokens = tokens /\ n.queue = queue /\ n.items = items
      /\ Fits(t) /\ At(t) = t.node /\ Place(t.node) /\ t.node \in Node
  BY <1>2, ActiveSeats, NowIs
<1> HIDE DEF n
<1>4. t.wait = "workitem" /\ t.node = i.element
  BY <1>1, <1>3 DEF Whole, Worked, Unique
<1>5. Kind[t.node] = "task" /\ ~IsJoin(t.node)
  BY <1>3, <1>4 DEF Fits, IsJoin
<1>6. Follows(t.node, y, f)
  BY <1>3, <1>4, <1>5, StepFollows DEF Place
<1>7. Less(c, n, {}, {}) /\ Below(c, n) /\ Alike(c, n, {"items"})
  BY <1>3, CloseItemLess, CloseItemBelow, CloseItemIs
<1> HIDE DEF c
<1>8. Alike(d, c, {"variables"})
  BY <1>7 DEF Alike, Shaped, Fields
<1> HIDE DEF d
<1>9. /\ Less(d, c, {}, {}) /\ Shaped(d) /\ d.status = "active" /\ d.queue = n.queue
  BY <1>3, <1>7, <1>8, AlikeLess DEF Alike, Fields, Awake
<1>10. \A m \in d.queue : m.token # t.id
  BY <1>3, <1>9 DEF Unique
<1>11. Less(s, d, {}, {i.token}) /\ Below(s, d)
  BY <1>1, <1>9, <1>10, UnparkLess, UnparkBelow
<1> HIDE DEF s
<1>12. Less(v, s, {}, {}) /\ Below(v, s)
  BY <1>11, WithdrawArmsLess, WithdrawArmsBelow DEF Below
<1> HIDE DEF v
<1>13. Less(v, n, {}, {t.id}) /\ Shaped(v) /\ v.status = "active"
  BY <1>1, <1>7, <1>9, <1>11, <1>12 DEF Less, Below
<1> HIDE DEF y, f, k
<1>14. Flowing(Go(v, k, y, t.scope, f))
  BY <1>3, <1>5, <1>6, <1>13, DepartureFlows
<1> QED  BY <1>1, <1>14, BecomesFlowing

LEMMA AwaitedFlows ==
    ASSUME Good(Now), Coherent(Now), Flowing(Now), status = "active", NEW a \in arms, NEW doc,
           NEW t \in tokens, t.id = a.token,
           CatchFires(a, t, doc) \/ GatewayFires(a, t, doc)
    PROVE  Flowing(Now)'
<1> DEFINE n == Now
           s == Spent(a, doc)
           w == WithdrawArms(s, t.id)
           v == Unpark(w, t.id)
           f == Outgoing[a.element][1]
           y == Target[f]
           k == t.id
<1>1. Becomes(Go(v, k, y, t.scope, f))
  BY DEF CatchFires, GatewayFires, Leave
<1>2. /\ Shaped(n) /\ Awake(n) /\ Whole(n) /\ Unique(n) /\ Orderly(n)
      /\ n.tokens = tokens /\ n.queue = queue
      /\ Fits(t) /\ At(t) = t.node /\ Place(t.node) /\ t.node \in Node
  BY ActiveSeats
<1>3. Shaped(s) /\ Alike(s, n, {"variables", "arms"})
  BY SpentIs
<1>4. ~IsJoin(t.node) /\ Follows(t.node, y, f)
  <2>1. CASE CatchFires(a, t, doc)
    <3>1. Kind[t.node] \in {"timer", "message"} /\ t.node = a.element
      BY <1>2, <2>1 DEF Fits, CatchFires
    <3> QED  BY <1>2, <3>1, StepFollows DEF Place, IsJoin
  <2>2. CASE GatewayFires(a, t, doc)
    <3>1. Kind[t.node] = "eventgateway" /\ a.element \in Targets(t.node)
      BY <1>2, <2>2, AlternativesAre DEF Fits, GatewayFires
    <3> QED  BY <1>2, <3>1, AlternativeStep DEF IsJoin
  <2> QED  BY <2>1, <2>2
<1> HIDE DEF n, s, y, f, k
<1>5. /\ Less(s, n, {}, {}) /\ s.status = "active" /\ s.queue = n.queue
  BY <1>2, <1>3, AlikeLess DEF Alike, Fields, Awake
<1>6. Alike(w, s, {"arms"}) /\ Less(w, s, {}, {})
  BY <1>3, WithdrawArmsIs, WithdrawArmsLess
<1> HIDE DEF w
<1>7. Shaped(w) /\ w.status = "active" /\ w.queue = n.queue
  BY <1>5, <1>6 DEF Alike, Fields
<1>8. \A m \in w.queue : m.token # t.id
  BY <1>2, <1>7 DEF Unique
<1>9. Less(v, w, {}, {t.id}) /\ Below(v, w)
  BY <1>7, <1>8, UnparkLess, UnparkBelow
<1> HIDE DEF v
<1>10. Less(v, n, {}, {t.id}) /\ Shaped(v) /\ v.status = "active"
  BY <1>5, <1>6, <1>7, <1>9 DEF Less, Below
<1>11. Flowing(Go(v, k, y, t.scope, f))
  BY <1>2, <1>4, <1>10, DepartureFlows
<1> QED  BY <1>1, <1>11, BecomesFlowing

(* What a host holds besides an arm of its own is attached to it.          *)
LEMMA HostedIsAttached ==
    ASSUME Good(Now), Coherent(Now), Flowing(Now), status = "active", NEW a \in arms,
           NEW t \in tokens, t.id = a.token, Hosting(a, t)
    PROVE  ~IsJoin(t.node) /\ a.element \in Attached(t.node)
<1> DEFINE n == Now
<1>1. /\ Whole(n) /\ n.tokens = tokens /\ n.arms = arms
      /\ Fits(t) /\ t.node \in Node
  BY ActiveSeats, NowIs
<1> HIDE DEF n
<1>2. a.element \in Range(ArmedAt(t.node))
  <2>1. PICK u \in n.tokens : u.id = a.token /\ a.element \in Range(ArmedAt(u.node))
    BY <1>1 DEF Whole, HeldArm
  <2>2. u = t
    BY <1>1, <2>1 DEF Whole, Unique
  <2> QED  BY <2>1, <2>2
<1>3. Kind[t.node] \in {"task", "message", "subprocess"}
  <2>1. CASE t.wait = "message"
    BY <1>1, <2>1 DEF Fits
  <2>2. CASE t.wait = "workitem"
    BY <1>1, <2>2 DEF Fits
  <2>3. CASE t.wait = "scope"
    BY <1>1, <2>3 DEF Fits
  <2> QED  BY <2>1, <2>2, <2>3 DEF Hosting
<1>4. a.element \in Range(Boundaries[t.node])
  <2>1. CASE Kind[t.node] = "message"
    <3>1. ArmedAt(t.node) = <<t.node>> \o Boundaries[t.node] /\ Boundaries[t.node] \in Seq(Node)
      BY <1>1, <2>1, GraphTyped DEF ArmedAt
    <3>2. a.element = t.node \/ a.element \in Range(Boundaries[t.node])
      BY <1>2, <3>1 DEF Range
    <3> QED  BY <3>2 DEF Hosting
  <2>2. CASE Kind[t.node] # "message"
    BY <1>2, <1>3, <2>2 DEF ArmedAt
  <2> QED  BY <2>1, <2>2
<1> QED  BY <1>3, <1>4 DEF IsJoin, Attached

(* An interruption in a state that differs from a whole one in nothing its *)
(* seats are of.                                                           *)
LEMMA HeldInterruptFlows ==
    ASSUME NEW r, Orderly(r), Whole(r), NEW F, "tokens" \notin F, "scopes" \notin F,
           "queue" \notin F, "nextScope" \notin F, "nextToken" \notin F,
           NEW s, Alike(s, r, F), s.status = "active", NEW u \in s.tokens,
           ~IsJoin(At(u)), NEW b \in Attached(At(u)), b \notin NonInterrupting
    PROVE  LET v == Interrupt(s, u, b)
           IN  Flowing(v) /\ Shaped(v) /\ v.status = "active"
<1>1. /\ s.tokens = r.tokens /\ s.scopes = r.scopes /\ s.queue = r.queue /\ Shaped(s)
      /\ s.nextScope = r.nextScope /\ s.nextToken = r.nextToken
  BY DEF Alike, Fields
<1>2. Orderly(s)
  BY AlikeLess, SameOrderly
<1>3. Unique(s) /\ Nested(s)
  <2>1. Open(s) = Open(r)
    BY <1>1 DEF Open, ScopeIds
  <2> QED  BY <1>1, <2>1 DEF Whole, Unique, Nested
<1>4. u.scope \in Nat
  <2>1. u.scope = Root \/ \E c \in s.scopes : u.scope = c.id
    BY <1>3 DEF Nested, Open, ScopeIds
  <2> QED  BY <1>3, <2>1 DEF Nested, Root
<1>5. ASSUME NEW c \in s.scopes, c.token = u.id
      PROVE  c.parent = u.scope
  <2>1. PICK w \in r.tokens : w.id = c.token /\ w.scope = c.parent
    BY <1>1 DEF Whole, Parented
  <2>2. w = u
    BY <1>1, <1>5, <2>1 DEF Whole, Unique
  <2> QED  BY <2>1, <2>2
<1>6. \A c \in s.scopes : c.token = u.id => c.parent = u.scope
  BY <1>5
<1> QED  BY <1>1, <1>2, <1>3, <1>4, <1>6, InterruptFlows

LEMMA InterruptingFlows ==
    ASSUME Good(Now), Coherent(Now), Flowing(Now), status = "active", NEW a \in arms, NEW doc,
           NEW t \in tokens, t.id = a.token, InterruptingFires(a, t, doc)
    PROVE  Flowing(Now)'
<1> DEFINE n == Now
           s == Spent(a, doc)
           c == CloseItem(s, t.id)
           u == Interrupt(c, t, a.element)
<1>1. Becomes(u) /\ Hosting(a, t) /\ a.element \notin NonInterrupting
  BY DEF InterruptingFires
<1>2. Shaped(s) /\ Alike(s, n, {"variables", "arms"})
  BY SpentIs
<1>3. Whole(n) /\ Orderly(n) /\ n.tokens = tokens /\ n.status = "active" /\ At(t) = t.node
  BY ActiveSeats, NowIs
<1>4. ~IsJoin(At(t)) /\ a.element \in Attached(At(t))
  BY <1>1, <1>3, HostedIsAttached
<1> HIDE DEF n, s
<1>5. Alike(c, s, {"items"})
  BY <1>2, CloseItemIs
<1> HIDE DEF c
<1>6. Alike(c, n, {"variables", "arms", "items"})
  BY <1>2, <1>5 DEF Alike, Fields
<1>7. t \in c.tokens /\ c.status = "active"
  BY <1>3, <1>6 DEF Alike, Fields
<1>8. Flowing(u)
  <2> DEFINE F == {"variables", "arms", "items"}
             b == a.element
  <2>1. /\ "tokens" \notin F /\ "scopes" \notin F /\ "queue" \notin F /\ "nextScope" \notin F
        /\ "nextToken" \notin F /\ Alike(c, n, F) /\ Orderly(n) /\ Whole(n)
        /\ t \in c.tokens /\ c.status = "active" /\ ~IsJoin(At(t)) /\ b \in Attached(At(t))
        /\ b \notin NonInterrupting
    BY <1>1, <1>3, <1>4, <1>6, <1>7
  <2> HIDE DEF F, b
  <2>2. LET v == Interrupt(c, t, b)
        IN  Flowing(v) /\ Shaped(v) /\ v.status = "active"
    BY ONLY <2>1, HeldInterruptFlows
  <2> QED  BY <2>2 DEF b
<1> QED  BY <1>1, <1>8, BecomesFlowing

LEMMA SidePathFlows ==
    ASSUME Good(Now), Coherent(Now), Flowing(Now), status = "active", NEW a \in arms, NEW doc,
           NEW t \in tokens, t.id = a.token, SidePathFires(a, t, doc)
    PROVE  Flowing(Now)'
<1> DEFINE n == Now
           p == Spent(a, doc)
           R == Rearmed(a, doc)
           s == [p EXCEPT !.arms = @ \union R]
           f == Outgoing[a.element][1]
           y == Target[f]
           q == SeatAt(s.nextToken, y, t.scope, f)
           u == LeaveFresh(s, a.element, t.scope)
<1>1. Becomes(u) /\ a.element \in NonInterrupting
  BY DEF SidePathFires
<1>2. Shaped(p) /\ Awake(p) /\ Alike(p, n, {"variables", "arms"})
  BY SpentIs
<1>3. Orderly(n)
  BY ActiveSeats
<1>4. /\ y \in Node /\ y \notin Boundary /\ y \in SidePath
      /\ \A g \in Node : Kind[g] = "eventgateway" => y \notin Targets(g)
      /\ f \in Incoming(y)
  BY <1>1, SideStep
<1> HIDE DEF n, p, R
<1>5. Alike(s, p, {"arms"})
  BY <1>2 DEF Alike, Shaped, Fields
<1> HIDE DEF s
<1>6. Shaped(s) /\ s.status = "active"
  BY <1>2, <1>5 DEF Alike, Fields, Awake
<1>7. Less(p, n, {}, {}) /\ Less(s, p, {}, {})
  BY <1>2, <1>5, AlikeLess
<1>8. More(u, s, q) /\ u.tokens = s.tokens
  BY <1>6, LeaveFreshMore
<1>9. Shaped(u) /\ u.status = "active" /\ u.queue # {}
  BY <1>6, LeaveFreshBelow DEF Below
<1>10. q.at = y /\ (IsJoin(y) => q.via = f)
  BY DEF SeatAt
<1> HIDE DEF f, y, q, u
<1>11. Way(q) /\ ~Main(q)
  BY <1>4, <1>10 DEF Way, Main
<1>12. Sorted(Seats(u))
  <2> DEFINE P == Seats(n)
             S == Seats(u)
  <2>1. \A w : w \in S <=> w \in P \/ w = q
    BY <1>7, <1>8 DEF More, Less
  <2>2. Sorted(P)
    BY <1>3 DEF Orderly
  <2> HIDE DEF P, S
  <2>3. Sorted(S)
    BY <1>11, <2>1, <2>2, AddedSorted
  <2> QED  BY <2>3 DEF S
<1>13. Waiting(u) \subseteq Waiting(n)
  BY <1>7, <1>8 DEF Waiting, Less
<1>14. Flowing(u)
  BY <1>3, <1>9, <1>12, <1>13, MissingKept DEF Flowing, Orderly, Running
<1> QED  BY <1>1, <1>14, BecomesFlowing DEF u, s, p, R

LEMMA CatchersAreAttached ==
    ASSUME NEW s, NEW host, NEW id, NEW scope, NEW code,
           NEW k \in Catchers(s, host, id, scope, code)
    PROVE  \/ k.token = id /\ k.boundary \in ErrorBoundaries[host]
           \/ \E c \in s.scopes : k.token = c.token /\ k.boundary \in ErrorBoundaries[c.element]
<1> DEFINE Found(h, x) == {[token |-> x, boundary |-> b] : b \in Catching(h, code)}
           enclosing   == {c \in s.scopes : scope \in Subtree(s, {c.id})}
           catching    == {c \in enclosing : Catching(c.element, code) # {}}
           nearest     == {c \in catching : \A d \in catching \ {c} :
                                               d.id \notin Subtree(s, {c.id})}
<1>1. k \in Found(host, id) \/ k \in UNION {Found(c.element, c.token) : c \in nearest}
  BY Zenon DEF Catchers
<1>2. \A c \in nearest : c \in s.scopes
  OBVIOUS
<1>3. \A h, b : b \in Catching(h, code) => b \in ErrorBoundaries[h]
  BY DEF Catching
<1> HIDE DEF nearest
<1>4. CASE k \in Found(host, id)
  BY <1>3, <1>4
<1>5. CASE k \in UNION {Found(c.element, c.token) : c \in nearest}
  <2>1. PICK c \in nearest : k \in Found(c.element, c.token)
    BY <1>5
  <2> QED  BY <1>2, <1>3, <2>1
<1> QED  BY <1>1, <1>4, <1>5

(* A token that waits for a scope sits on a subprocess.                    *)
Hosted(s) == \A w \in s.tokens : w.wait = "scope" => Kind[w.node] = "subprocess"

(* An error is caught on an error boundary of the failing host, or of a    *)
(* host whose token waits for a scope around it.                           *)
LEMMA CaughtFlows ==
    ASSUME NEW r, Orderly(r), Whole(r), NEW t \in r.tokens, ~IsJoin(At(t)),
           Hosted(r),
           NEW F, "tokens" \notin F, "scopes" \notin F,
           "queue" \notin F, "nextScope" \notin F, "nextToken" \notin F,
           NEW s, Alike(s, r, F), s.status = "active",
           NEW host, host = At(t), NEW id, id = t.id, NEW x, NEW code,
           NEW k \in Catchers(s, host, id, x, code),
           NEW u \in s.tokens, u.id = k.token
    PROVE  LET v == Interrupt(s, u, k.boundary)
           IN  Flowing(v) /\ Shaped(v) /\ v.status = "active"
<1>1. s.tokens = r.tokens /\ s.scopes = r.scopes
  BY DEF Alike, Fields
<1>2. ~IsJoin(At(u)) /\ k.boundary \in ErrorBoundaries[At(u)]
  <2>1. CASE k.token = id /\ k.boundary \in ErrorBoundaries[host]
    <3>1. u = t
      BY <1>1, <2>1 DEF Whole, Unique
    <3> QED  BY <2>1, <3>1
  <2>2. ASSUME NEW c \in s.scopes, k.token = c.token, k.boundary \in ErrorBoundaries[c.element]
        PROVE  ~IsJoin(At(u)) /\ k.boundary \in ErrorBoundaries[At(u)]
    <3>1. PICK w \in r.tokens : w.id = c.token /\ w.wait = "scope" /\ w.node = c.element
      BY <1>1 DEF Whole, Parented
    <3>2. u = w
      BY <1>1, <2>2, <3>1 DEF Whole, Unique
    <3>3. At(u) = c.element /\ Kind[c.element] = "subprocess"
      BY <3>1, <3>2, SeatFields DEF Hosted
    <3> QED  BY <2>2, <3>3 DEF IsJoin
  <2> QED  BY <2>1, <2>2, CatchersAreAttached
<1>3. At(u) \in Node
  BY <1>1, TokenSeat DEF Place
<1>4. Kind[k.boundary] = "errorboundary"
  BY <1>2, <1>3, BoundariesAttached
<1> DEFINE b == k.boundary
<1>5. b \in Attached(At(u)) /\ b \notin NonInterrupting
  BY <1>2, <1>4 DEF Attached, NonInterrupting, Nodes
<1> HIDE DEF b
<1>6. LET v == Interrupt(s, u, b)
      IN  Flowing(v) /\ Shaped(v) /\ v.status = "active"
  BY <1>2, <1>5, HeldInterruptFlows
<1> QED  BY <1>6 DEF b

LEMMA RaiseErrorFlows ==
    ASSUME Good(Now), Coherent(Now), Flowing(Now), NEW i \in items, NEW code \in Codes,
           RaiseError(i, code)
    PROVE  Flowing(Now)'
<1> DEFINE n == Now
           s == CloseItem(n, i.token)
<1>1. PICK t \in tokens :
        /\ t.id = i.token
        /\ LET found == Catchers(s, i.element, i.token, t.scope, code)
           IN  \/ \E k \in found : ErrorCaught(s, k)
               \/ found = {} /\ Becomes(Freeze(s, i.token, t.scope, i.element))
  BY Zenon DEF RaiseError
<1>2. status = "active"
  BY DEF RaiseError, Commanded
<1>3. /\ Shaped(n) /\ Awake(n) /\ Whole(n) /\ Unique(n) /\ Orderly(n)
      /\ n.tokens = tokens /\ n.queue = queue /\ n.items = items
      /\ Fits(t) /\ At(t) = t.node /\ Place(t.node) /\ t.node \in Node
      /\ \A w \in n.tokens : Fits(w)
  BY <1>2, ActiveSeats, NowIs
<1> HIDE DEF n
<1>4. t.wait = "workitem" /\ t.node = i.element
  BY <1>1, <1>3 DEF Whole, Worked, Unique
<1>5. Kind[t.node] = "task" /\ ~IsJoin(t.node)
  BY <1>3, <1>4 DEF Fits, IsJoin
<1>6. Alike(s, n, {"items"}) /\ Less(s, n, {}, {})
  BY <1>3, CloseItemIs, CloseItemLess
<1> HIDE DEF s
<1>7. /\ Shaped(s) /\ s.tokens = n.tokens /\ s.scopes = n.scopes
      /\ s.queue = n.queue /\ s.status = "active"
  BY <1>3, <1>6 DEF Alike, Fields, Awake
<1>8. ASSUME NEW k \in Catchers(s, i.element, i.token, t.scope, code), ErrorCaught(s, k)
      PROVE  Flowing(Now)'
  <2>1. PICK u \in s.tokens : u.id = k.token /\ Becomes(Interrupt(s, u, k.boundary))
    BY <1>8 DEF ErrorCaught
  <2> DEFINE F == {"items"}
             host == i.element
             id == i.token
             x == t.scope
             v == Interrupt(s, u, k.boundary)
  <2>2. Hosted(n)
    BY <1>3 DEF Fits, Hosted
  <2>3. /\ "tokens" \notin F /\ "scopes" \notin F /\ "queue" \notin F /\ "nextScope" \notin F
        /\ "nextToken" \notin F /\ Alike(s, n, F) /\ Orderly(n) /\ Whole(n)
        /\ t \in n.tokens /\ s.status = "active" /\ ~IsJoin(At(t))
        /\ host = At(t) /\ id = t.id /\ k \in Catchers(s, host, id, x, code)
        /\ u \in s.tokens /\ u.id = k.token
    BY <1>1, <1>3, <1>4, <1>5, <1>6, <1>7, <1>8, <2>1
  <2> HIDE DEF F, host, id, x
  <2>4. Flowing(Interrupt(s, u, k.boundary))
    BY ONLY <2>2, <2>3, CaughtFlows
  <2>5. Flowing(v) /\ Becomes(v)
    BY <2>1, <2>4
  <2> HIDE DEF v
  <2> QED  BY <2>5, BecomesFlowing
<1>9. CASE Becomes(Freeze(s, i.token, t.scope, i.element))
  <2>1. \A c \in s.scopes : c.token # t.id
    BY <1>3, <1>4, <1>7, TokenHolds
  <2>2. \A m \in s.queue : m.token # t.id
    BY <1>3, <1>7 DEF Unique
  <2>3. Calm(s) /\ \A w \in s.tokens : DOMAIN w = TokenFields
    BY <1>3, <1>7 DEF Awake, Calm, Unique
  <2>4. Failing(s, t.id)
    BY <1>7, <2>1, <2>2, <2>3 DEF Failing
  <2>5. ResumePoints(t.node) = {t.node}
    BY <1>3, PlaceResumes
  <2>6. \A w \in s.tokens : w.id = t.id => w = t
    BY <1>3, <1>7 DEF Unique
  <2>7. Orderly(s)
    BY <1>3, <1>6, SameOrderly
  <2>8. Flowing(Freeze(s, t.id, t.scope, t.node))
    BY <1>3, <1>4, <1>5, <1>7, <2>4, <2>5, <2>6, <2>7, FreezeFlows
  <2> QED  BY <1>1, <1>4, <1>9, <2>8, BecomesFlowing
<1> QED  BY <1>1, <1>8, <1>9

LEMMA CommandFlows ==
    ASSUME Good(Now), Coherent(Now), Flowing(Now), Command
    PROVE  Flowing(Now)'
<1>1. ASSUME NEW a \in arms, NEW doc, NEW t \in tokens, t.id = a.token, status = "active",
             \/ CatchFires(a, t, doc) \/ GatewayFires(a, t, doc)
             \/ InterruptingFires(a, t, doc) \/ SidePathFires(a, t, doc)
      PROVE  Flowing(Now)'
  BY <1>1, AwaitedFlows, InterruptingFlows, SidePathFlows
<1>2. ASSUME NEW a \in arms, FireTimer(a)
      PROVE  Flowing(Now)'
  BY <1>1, <1>2 DEF FireTimer, Commanded
<1>3. ASSUME NEW a \in arms, NEW doc \in Document, DeliverMessage(a, doc)
      PROVE  Flowing(Now)'
  BY <1>1, <1>3 DEF DeliverMessage, Commanded
<1> QED  BY <1>2, <1>3, CompleteWorkItemFlows, RaiseErrorFlows DEF Command

-----------------------------------------------------------------------------
(* The repair of an incident.                                              *)

(* The cause of a failure keeps the seat its repair goes on from.          *)
LEMMA CauseSeat ==
    ASSUME Stable(Now), Coherent(Now), Flowing(Now), NEW t \in tokens, Repairing(t),
           NEW r \in ResumePoints(t.node), NEW doc \in Document
    PROVE  LET s == Patched(doc)
               u == Unpark(s, t.id)
           IN  /\ At(t) = r /\ ~IsJoin(r) /\ r \in Node /\ r \notin Boundary
               /\ Kind[r] \in {"task", "rule", "timer", "message", "subprocess", "eventgateway"}
               /\ Orderly(Now) /\ Whole(Now) /\ Unique(Now) /\ t \in Now.tokens
               /\ Seat(t) \in Seats(Now) /\ Seat(t) = SeatAt(t.id, r, t.scope, NoFlow)
               /\ Shaped(s) /\ Alike(s, Now, {"status", "variables"}) /\ s.status = "active"
               /\ Shaped(u) /\ u.status = "active" /\ u.queue = {} /\ Less(u, Now, {}, {t.id})
<1> DEFINE n == Now
           s == Patched(doc)
           u == Unpark(s, t.id)
<1>1. /\ Kind[r] \in {"task", "rule", "timer", "message", "timerboundary",
                      "messageboundary", "subprocess", "eventgateway"}
      /\ r \in Node
  BY RepairBase
<1>2. t.node \in Node
  BY DEF Stable, Sound, State, Token, Now
<1>3. ResumePoints(t.node) = {r}
  BY <1>2, ResumeIsOne
<1>4. At(t) = r
  BY <1>3 DEF At, Repairing
<1>5. Shaped(n) /\ Whole(n) /\ Unique(n) /\ n.tokens = tokens /\ n.queue = {} /\ Orderly(n)
  <2>1. Shaped(n) /\ n.status = "failed"
    BY DEF Now, Shaped, Fields, Repairing
  <2>2. Frozen(n) /\ Whole(n)
    BY DEF Coherent
  <2>3. n.tokens = tokens
    BY DEF Now
  <2> HIDE DEF n
  <2>4. n.queue = {}
    BY <2>1, <2>2 DEF Frozen
  <2> QED  BY <2>1, <2>2, <2>3, <2>4 DEF Whole, Flowing, n
<1>6. s = [n EXCEPT !.status = "active", !.variables = doc]
  BY DEF Patched
<1> HIDE DEF n, s
<1>7. Shaped(s) /\ Alike(s, n, {"status", "variables"}) /\ s.status = "active"
  BY <1>5, <1>6 DEF Alike, Shaped, Fields
<1>8. Seat(t) \in Seats(n) /\ Place(At(t))
  BY <1>5, TokenSeat
<1>9. ~IsJoin(r) /\ r \notin Boundary
  BY <1>1, <1>4, <1>8 DEF IsJoin, Place
<1>10. Seat(t) = SeatAt(t.id, r, t.scope, NoFlow)
  BY <1>4, <1>9 DEF Seat, SeatAt
<1>11. Less(s, n, {}, {}) /\ s.queue = {}
  <2>1. s.queue = n.queue
    BY <1>7 DEF Alike, Fields
  <2>2. s.tokens = n.tokens
    BY <1>7 DEF Alike, Fields
  <2> QED  BY <1>5, <2>1, <2>2, SameSeats
<1>12. Less(u, s, {}, {t.id}) /\ Below(u, s)
  BY <1>7, <1>11, UnparkLess, UnparkBelow
<1>13. u.queue = {}
  BY <1>7, <1>11 DEF Unpark, Shaped, Fields
<1> HIDE DEF u
<1>14. Less(u, n, {}, {t.id}) /\ Shaped(u) /\ u.status = "active"
  BY <1>7, <1>11, <1>12 DEF Less, Below
<1>15. Kind[r] \in {"task", "rule", "timer", "message", "subprocess", "eventgateway"}
  BY <1>1, <1>9 DEF Boundary, Nodes
<1> QED  BY <1>1, <1>4, <1>5, <1>7, <1>8, <1>9, <1>10, <1>13, <1>14, <1>15 DEF n, s, u

LEMMA RetryFlows ==
    ASSUME Stable(Now), Coherent(Now), Flowing(Now), NEW t \in tokens, NEW doc \in Document,
           Retry(t, doc)
    PROVE  Flowing(Now)'
<1> DEFINE n == Now
           u == Unpark(Patched(doc), t.id)
           x == t.scope
           k == t.id
<1>1. PICK r \in ResumePoints(t.node) :
        Repairing(t) /\ Becomes(ResumeHalted(Go(u, k, r, x, NoFlow)))
  BY DEF Retry
<1> DEFINE q == SeatAt(k, r, x, NoFlow)
           g == Go(u, k, r, x, NoFlow)
           h == ResumeHalted(g)
<1>2. /\ Orderly(n) /\ Unique(n) /\ q \in Seats(n) /\ q.id = k
      /\ Shaped(u) /\ u.status = "active" /\ Less(u, n, {}, {k})
  BY <1>1, CauseSeat, SeatFields
<1>3. \A p \in Seats(n) : p.id = k => p = q
  BY <1>2, SeatsUnique
<1>4. Becomes(h)
  BY <1>1
<1> HIDE DEF n, u, x, k
<1>5. More(g, u, q)
  BY <1>2, GoMore
<1>6. Shaped(g) /\ g.status = "active" /\ g.queue # {}
  BY <1>2, GoBelow DEF Below
<1> HIDE DEF g, q
<1>7. Less(g, n, {}, {})
  BY <1>2, <1>3, <1>5 DEF Less, More
<1>8. Orderly(g)
  BY <1>2, <1>7, SameOrderly
<1>9. Flowing(g)
  BY <1>6, <1>8 DEF Flowing, Running
<1>10. Flowing(h)
  BY <1>6, <1>9, ResumeFlows
<1> HIDE DEF h
<1> QED  BY <1>4, <1>10, BecomesFlowing

LEMMA AdvanceFlows ==
    ASSUME Stable(Now), Coherent(Now), Flowing(Now), NEW t \in tokens, NEW doc \in Document,
           Advance(t, doc)
    PROVE  Flowing(Now)'
<1> DEFINE n == Now
           u == Unpark(Patched(doc), t.id)
           x == t.scope
           k == t.id
<1>1. PICK r \in ResumePoints(t.node) :
        Repairing(t) /\ Kind[r] # "eventgateway" /\ Becomes(ResumeHalted(Leave(u, k, r, x)))
  BY DEF Advance
<1> DEFINE f == Outgoing[r][1]
           y == Target[f]
           g == Go(u, k, y, x, f)
           h == ResumeHalted(g)
<1>2. /\ Orderly(n) /\ Unique(n) /\ t \in n.tokens /\ At(t) = r /\ ~IsJoin(r)
      /\ Shaped(u) /\ u.status = "active" /\ Less(u, n, {}, {k})
      /\ r \in Node /\ r \notin Boundary
      /\ Kind[r] \in {"task", "rule", "timer", "message", "subprocess", "eventgateway"}
  BY <1>1, CauseSeat
<1>3. Follows(r, y, f)
  <2>1. f = Outgoing[r][1]
    OBVIOUS
  <2> HIDE DEF f
  <2> QED  BY <1>1, <1>2, <2>1, StepFollows
<1>4. Becomes(h)
  BY <1>1 DEF Leave
<1> HIDE DEF n, u, f, y
<1>5. /\ Orderly(n) /\ Unique(n) /\ t \in n.tokens /\ ~IsJoin(At(t)) /\ Follows(At(t), y, f)
      /\ Less(u, n, {}, {t.id}) /\ Shaped(u) /\ u.status = "active" /\ x = t.scope
  BY <1>2, <1>3
<1> HIDE DEF x, k
<1>6. Flowing(g) /\ Shaped(g) /\ g.status = "active"
  BY ONLY <1>5, DepartureFlows
<1> HIDE DEF g
<1>7. Flowing(h)
  BY <1>6, ResumeFlows
<1> HIDE DEF h
<1> QED  BY <1>4, <1>7, BecomesFlowing

LEMMA DivertFlows ==
    ASSUME Stable(Now), Coherent(Now), Flowing(Now), NEW t \in tokens, NEW code \in Codes,
           Divert(t, code)
    PROVE  Flowing(Now)'
<1> DEFINE n == Now
           s == Patched(variables)
           x == t.scope
           id == t.id
           F == {"status", "variables"}
<1>1. PICK r \in ResumePoints(t.node) :
        /\ Repairing(t)
        /\ \E k \in Catchers(s, r, id, x, code) :
             \E u \in tokens :
                u.id = k.token /\ Becomes(ResumeHalted(Interrupt(s, u, k.boundary)))
  BY Zenon DEF Divert
<1>2. variables \in Document
  BY DEF Stable, Sound, State, Now
<1>3. /\ Orderly(n) /\ Whole(n) /\ t \in n.tokens /\ ~IsJoin(At(t)) /\ r = At(t)
      /\ Alike(s, n, F) /\ s.status = "active"
  BY <1>1, <1>2, CauseSeat
<1>4. Hosted(n)
  BY DEF Stable, Sound, Fits, Hosted
<1>5. "tokens" \notin F /\ "scopes" \notin F /\ "queue" \notin F /\ "nextScope" \notin F
      /\ "nextToken" \notin F /\ id = t.id
  OBVIOUS
<1>6. n.tokens = tokens
  BY DEF Now
<1>7. PICK k \in Catchers(s, r, id, x, code) :
        \E u \in tokens : u.id = k.token /\ Becomes(ResumeHalted(Interrupt(s, u, k.boundary)))
  BY <1>1
<1> HIDE DEF n, s, x, id
<1>8. PICK u \in tokens : u.id = k.token /\ Becomes(ResumeHalted(Interrupt(s, u, k.boundary)))
  BY <1>7
<1> DEFINE host == r
           v == Interrupt(s, u, k.boundary)
           h == ResumeHalted(v)
<1>9. /\ "tokens" \notin F /\ "scopes" \notin F /\ "queue" \notin F /\ "nextScope" \notin F
      /\ "nextToken" \notin F /\ Alike(s, n, F) /\ Orderly(n) /\ Whole(n)
      /\ t \in n.tokens /\ s.status = "active" /\ ~IsJoin(At(t))
      /\ host = At(t) /\ id = t.id /\ k \in Catchers(s, host, id, x, code)
      /\ u \in s.tokens /\ u.id = k.token
  BY <1>3, <1>5, <1>6, <1>7, <1>8 DEF Alike, Fields
<1>10. Becomes(h)
  BY <1>8
<1> HIDE DEF F, host, v
<1>11. Flowing(v)
  BY ONLY <1>4, <1>9, CaughtFlows DEF v
<1>12. Shaped(v) /\ v.status = "active"
  BY ONLY <1>4, <1>9, CaughtFlows DEF v
<1>13. Flowing(h)
  BY <1>11, <1>12, ResumeFlows
<1> HIDE DEF h
<1> QED  BY <1>10, <1>13, BecomesFlowing

(* What a repair abandons, no join waits for: it is on a side path, or     *)
(* alone in its scope.                                                     *)
LEMMA AbandonFlows ==
    ASSUME Stable(Now), Coherent(Now), Flowing(Now), NEW t \in tokens, Abandon(t)
    PROVE  Flowing(Now)'
<1> DEFINE n == Now
           s == Unpark(Patched(variables), t.id)
           x == t.scope
           p0 == Seat(t)
<1>1. PICK r \in ResumePoints(t.node) :
        /\ Repairing(t) /\ ~StrandsAJoin(t, r)
        /\ \/ (x = Root \/ ~IsEmpty(s, x)) /\ Becomes(Settle(ResumeHalted(s)))
           \/ \E c \in scopes : /\ c.id = x /\ IsEmpty(s, x)
                                /\ Becomes(ResumeHalted(CompleteScope(s, c)))
  BY Zenon DEF Abandon
<1>2. variables \in Document
  BY DEF Stable, Sound, State, Now
<1>3. /\ Orderly(n) /\ Whole(n) /\ Unique(n) /\ t \in n.tokens /\ p0 \in Seats(n) /\ At(t) = r
      /\ Shaped(s) /\ s.status = "active" /\ s.queue = {} /\ Less(s, n, {}, {t.id})
  BY <1>1, <1>2, CauseSeat
<1>4. p0.at = r /\ p0.scope = x /\ p0.id = t.id
  BY <1>3, SeatFields
<1>5. n.tokens = tokens /\ n.queue = {} /\ n.scopes = scopes
  BY <1>1 DEF Repairing, Coherent, Frozen, Now
<1>6. r \in SidePath \/ \A w \in tokens : w.scope = x => w = t
  BY <1>1 DEF StrandsAJoin
<1>7. Sound(n) /\ Coherent(n)
  BY DEF Stable
<1> HIDE DEF n, s
<1>8. \A p \in Seats(n) : p.id = t.id => p = p0
  BY <1>3, <1>4, SeatsUnique
<1>9. \A p : p \in Seats(s) <=> p \in Seats(n) /\ p # p0
  BY <1>3, <1>4, <1>8 DEF Less
<1>10. ~Main(p0) \/ \A p \in Seats(n) : p.scope = p0.scope => p = p0
  <2>1. CASE r \in SidePath
    BY <1>4, <2>1 DEF Main
  <2>2. CASE \A w \in tokens : w.scope = x => w = t
    <3> SUFFICES ASSUME NEW p \in Seats(n), p.scope = x PROVE p = p0
      BY <1>4
    <3>1. PICK w \in n.tokens : p = Seat(w)
      BY <1>5, SeatsAre
    <3>2. w.scope = x
      BY <3>1, SeatFields
    <3> QED  BY <1>5, <2>2, <3>1, <3>2
  <2> QED  BY <1>6, <2>1, <2>2
<1> HIDE DEF p0, x
<1>11. Orderly(s)
  <2>1. Sorted(Seats(n)) /\ Missing(n)
    BY <1>3 DEF Orderly
  <2>2. Sorted(Seats(s))
    BY <1>3, <1>9, <1>10, <2>1, SpentSorted
  <2>3. Missing(s)
    BY <1>3, <2>1, MissingKept DEF Less
  <2> QED  BY <2>2, <2>3 DEF Orderly
<1>12. CASE Becomes(Settle(ResumeHalted(s)))
  <2> DEFINE h == ResumeHalted(s)
             u == Settle(h)
  <2>1. Less(h, s, {}, {}) /\ Shaped(h) /\ h.status = "active"
    BY <1>3, ResumeSame, ResumedFields
  <2>2. Becomes(u)
    BY <1>12
  <2> HIDE DEF h
  <2>3. Orderly(h)
    BY <1>11, <2>1, SameOrderly
  <2>4. Flowing(u)
    BY <2>1, <2>3, SettleFlows
  <2> HIDE DEF u
  <2> QED  BY <2>2, <2>4, BecomesFlowing
<1>13. ASSUME NEW c \in scopes, c.id = x, IsEmpty(s, x),
              Becomes(ResumeHalted(CompleteScope(s, c)))
       PROVE  Flowing(Now)'
  <2> DEFINE D == {x}
             g == CompleteScope(s, c)
             h == ResumeHalted(g)
  <2>1. c.parent \notin D
    <3>1. Nested(n)
      BY <1>3 DEF Whole
    <3>2. c \in n.scopes
      BY <1>5, <1>13
    <3>3. c.parent \notin Subtree(n, {c.id}) /\ c.id \in Subtree(n, {c.id})
      BY <3>1, <3>2, ScopeInside
    <3> QED  BY <1>13, <3>3
  <2>2. \A p \in Seats(s) : p.scope # x
    <3> SUFFICES ASSUME NEW p \in Seats(s), p.scope = x PROVE FALSE
      OBVIOUS
    <3>1. PICK w \in s.tokens : p = Seat(w)
      BY <1>3, SeatsAre
    <3>2. w.scope = x
      BY <3>1, SeatFields
    <3> QED  BY <1>13, <3>1, <3>2 DEF IsEmpty
  <2>3. Less(s, n, D, {})
    <3>1. \A p \in Seats(n) : p.scope # x => p \in Seats(s)
      BY <1>4, <1>9
    <3> QED  BY <1>3, <1>9, <2>2, <3>1 DEF Less
  <2>4. s.queue \subseteq queue
    BY <1>3
  <2>5. Orderly(Now) /\ Sound(Now) /\ Coherent(Now) /\ Less(s, Now, D, {})
    BY <1>3, <1>7, <2>3 DEF n
  <2> HIDE DEF D
  <2>6. Flowing(g) /\ Shaped(g) /\ g.status = "active"
    BY <1>3, <2>1, <2>4, <2>5, ScopeEndFlows
  <2>7. Becomes(h)
    BY <1>13
  <2> HIDE DEF g
  <2>8. Flowing(h)
    BY <2>6, ResumeFlows
  <2> HIDE DEF h
  <2> QED  BY <2>7, <2>8, BecomesFlowing
<1> QED  BY <1>1, <1>12, <1>13 DEF x

LEMMA AbandonInstanceFlows ==
    ASSUME AbandonInstance
    PROVE  Flowing(Now)'
<1> DEFINE n == Now
           u == Terminate(n)
<1>1. Shaped(n) /\ Becomes(u)
  BY DEF AbandonInstance, Now, Shaped, Fields
<1> HIDE DEF n
<1>2. u.tokens = {} /\ u.queue = {} /\ u.status = "terminated"
  BY <1>1 DEF Terminate, Shaped, Fields
<1> HIDE DEF u
<1>3. Flowing(u)
  BY <1>2, NothingFlows
<1> QED  BY <1>1, <1>3, BecomesFlowing

-----------------------------------------------------------------------------
(* Every step of the process keeps it.                                     *)

LEMMA InitFlows == Init => Flowing(Now)
<1> SUFFICES ASSUME Init
             PROVE  Flowing(Now)
  OBVIOUS
<1> DEFINE n == Now
<1>1. n.status = "created" /\ n.tokens = {} /\ n.queue = {}
  BY DEF Init, Now
<1> HIDE DEF n
<1> QED  BY <1>1, NothingFlows DEF n

LEMMA NextFlows ==
    Stable(Now) /\ Coherent(Now) /\ Flowing(Now) /\ [Next]_vars => Flowing(Now)'
<1> SUFFICES ASSUME Stable(Now), Coherent(Now), Flowing(Now), [Next]_vars
             PROVE  Flowing(Now)'
  OBVIOUS
<1>1. CASE \E m \in queue : Enter(m)
  <2>1. PICK m \in queue : Enter(m)
    BY <1>1
  <2>2. status = "active"
    BY <2>1 DEF Enter, EnterStart, EnterRule, EnterTask, EnterCatch, EnterSubProcess,
                EnterExclusive, EnterSplit, EnterJoin, EnterEnd, EnterTerminate, Enters
  <2> QED  BY <2>1, <2>2, NotFailed, EnterFlows
<1>2. CASE Answer
  <2>1. status = "active"
    BY <1>2 DEF Answer, DecisionFails, AnswerDecision, IsNextDecision
  <2> QED  BY <1>2, <2>1, NotFailed, AnswerFlows
<1>3. CASE Command
  <2>1. status = "active"
    BY <1>3 DEF Command, CompleteWorkItem, RaiseError, FireTimer, DeliverMessage, Commanded
  <2> QED  BY <1>3, <2>1, NotFailed, CommandFlows
<1>4. CASE Disposition
  BY <1>4, RetryFlows, AdvanceFlows, DivertFlows, AbandonFlows, AbandonInstanceFlows DEF Disposition
<1>5. CASE \E doc \in Document : Start(doc)
  BY <1>5, StartFlows
<1>6. CASE UNCHANGED vars
  <2> DEFINE n == Now
  <2>1. n' = n
    BY <1>6 DEF vars, Now
  <2>2. PICK c : c = n
    OBVIOUS
  <2>3. Flowing(c) /\ n' = c
    BY <2>1, <2>2
  <2> HIDE DEF n
  <2>4. Flowing(n')
    BY <2>3
  <2> QED
    BY <2>4 DEF n, Flowing, Orderly, Running, Missing, Waiting, Seats
<1> QED  BY <1>1, <1>2, <1>3, <1>4, <1>5, <1>6 DEF Next, Internal, Repair

-----------------------------------------------------------------------------
(* What sorted seats mean for the joins.                                   *)

(* Of some joins, one has none of the others inside its block.             *)
LEMMA InnermostJoin ==
    ASSUME NEW J, J \subseteq Joins, J # {}
    PROVE  \E j \in J : \A k \in J : \A d : ~On(k, j, d)
<1> DEFINE Around(n) == {k \in Joins : \E d : On(n, k, d)}
           size(n)   == Cardinality(Around(n))
           all       == Cardinality(Joins)
           T         == {i \in Nat : \E j \in J : i + size(j) = all}
           R         == OpToRel(<, Nat)
<1>1. IsFiniteSet(Joins) /\ all \in Nat
  <2>1. IsFiniteSet(Node) /\ Joins \in SUBSET Node
    BY GraphIsFinite DEF Joins
  <2> QED  BY <2>1, FS_Subset, FS_CardinalityType
<1>2. ASSUME NEW n
      PROVE  IsFiniteSet(Around(n)) /\ size(n) \in Nat /\ size(n) <= all
  <2>1. Around(n) \in SUBSET Joins
    OBVIOUS
  <2> HIDE DEF Around
  <2> QED  BY <1>1, <2>1, FS_Subset, FS_CardinalityType
<1>3. ASSUME NEW j \in J, NEW k \in J, NEW d, On(k, j, d)
      PROVE  size(j) < size(k)
  <2>1. \A e, c : On(j, e, c) => On(k, e, c)
    BY <1>3, OnNests
  <2>2. j \in Around(k)
    BY <1>3
  <2>3. j \notin Around(j)
    BY OnIs
  <2>4. Around(j) \in SUBSET Around(k)
    BY <2>1
  <2> HIDE DEF Around
  <2>5. Around(j) # Around(k)
    BY <2>2, <2>3
  <2>6. IsFiniteSet(Around(k)) /\ size(j) \in Nat /\ size(k) \in Nat
    BY <1>2
  <2>7. size(j) <= size(k) /\ (size(j) = size(k) => Around(j) = Around(k))
    BY <2>4, <2>6, FS_Subset
  <2> HIDE DEF size
  <2> QED  BY <2>5, <2>6, <2>7
<1> HIDE DEF Around, size, all
<1>4. T # {}
  <2>1. PICK j \in J : TRUE
    OBVIOUS
  <2>2. all - size(j) \in Nat /\ (all - size(j)) + size(j) = all
    BY <1>1, <1>2
  <2> QED  BY <2>2
<1>5. \A i, l \in Nat : <<i, l>> \in R <=> i < l
  BY DEF OpToRel
<1>6. IsWellFoundedOn(R, Nat)
  BY NatLessThanWellFounded
<1> HIDE DEF R
<1>7. PICK i \in T : \A l \in T : <<l, i>> \notin R
  <2>1. T \subseteq Nat
    OBVIOUS
  <2> HIDE DEF T
  <2> QED  BY <1>4, <1>6, <2>1, WFMin
<1>8. PICK j \in J : i + size(j) = all
  BY <1>7
<1>9. ASSUME NEW k \in J, NEW d, On(k, j, d) PROVE FALSE
  <2>1. size(j) < size(k)
    BY <1>3, <1>9
  <2>2. all - size(k) \in Nat /\ (all - size(k)) + size(k) = all /\ all - size(k) < i
    BY <1>1, <1>2, <1>7, <1>8, <2>1
  <2>3. all - size(k) \in T
    BY <2>2
  <2> QED  BY <1>5, <1>7, <2>2, <2>3
<1> QED  BY <1>8, <1>9

(* Two tokens come to one join on different flows.                         *)
LEMMA ArrivalsDiffer ==
    ASSUME NEW P, Sorted(P), NEW p \in P, NEW q \in P, p # q, p.scope = q.scope,
           p.at = q.at, IsJoin(p.at)
    PROVE  p.via # q.via
<1> SUFFICES ASSUME p.via = q.via PROVE FALSE
  OBVIOUS
<1>1. Way(p) /\ Way(q)
  BY DEF Sorted
<1>2. Main(p) /\ Main(q)
  BY <1>1, JoinsAreMain DEF Main, Way, IsJoin
<1>3. Parted(p, q)
  BY <1>2 DEF Sorted
<1>4. PICK j, a, b : a # b /\ Lies(p, j, a) /\ Lies(q, j, b)
  BY <1>3 DEF Parted
<1>5. Lies(p, j, b)
  BY <1>4 DEF Lies
<1> QED  BY <1>1, <1>4, <1>5, LiesIs

(* A token at a join, of the innermost block with one, has a token still   *)
(* to come that is at no join itself.                                      *)
LEMMA JoinIsFed ==
    ASSUME NEW s, Orderly(s), s.queue = {}, NEW x,
           \A w \in s.tokens : w.wait \notin {"incident", "inflight"},
           \A w \in s.tokens : w.wait = "join" => IsJoin(w.node),
           NEW t \in s.tokens, t.wait = "join", t.scope = x
    PROVE  \E u \in s.tokens : u.scope = x /\ u.wait # "join" /\ u.node \notin SidePath
<1> DEFINE W == {w \in s.tokens : w.wait = "join" /\ w.scope = x}
           J == {w.node : w \in W}
<1>1. Sorted(Seats(s)) /\ Missing(s)
  BY DEF Orderly
<1>2. ASSUME NEW w \in s.tokens
      PROVE  /\ Seat(w) \in Seats(s) /\ Seat(w).at = w.node /\ Seat(w).scope = w.scope
             /\ w.node \in Node /\ (IsJoin(w.node) => Seat(w).via = w.via)
  <2>1. Seat(w) \in Seats(s) /\ Place(At(w)) /\ At(w) = w.node
    BY TokenSeat
  <2>2. Seat(w) = SeatAt(w.id, w.node, w.scope, w.via)
    BY <2>1 DEF Seat
  <2> QED  BY <2>1, <2>2 DEF Place, SeatAt
<1>3. J \subseteq Joins /\ J # {}
  BY <1>2 DEF Joins
<1> HIDE DEF J
<1>4. PICK j \in J : \A k \in J : \A d : ~On(k, j, d)
  BY <1>3, InnermostJoin
<1>5. PICK w \in W : w.node = j
  BY <1>4 DEF J
<1>6. PICK h \in Incoming(j) :
        \A v \in Waiting(s) : v.node = j /\ v.scope = x => v.via # h
  BY <1>1, <1>5 DEF Missing, Waiting
<1>7. Lies(Seat(w), j, w.via) /\ Main(Seat(w))
  <2>1. j \in Joins /\ j \in Node /\ IsJoin(j) /\ Kind[j] = "parallel"
    BY <1>3, <1>4 DEF Joins, IsJoin
  <2> QED  BY <1>2, <1>5, <2>1, JoinsAreMain DEF Lies, Brings, Main
<1>8. PICK q \in Seats(s) : Main(q) /\ q.scope = x /\ Lies(q, j, h)
  BY <1>1, <1>2, <1>5, <1>7 DEF Sorted, Covered
<1>9. PICK u \in s.tokens : q = Seat(u)
  BY <1>8, SeatsAre
<1>10. u.scope = x /\ u.node \notin SidePath
  BY <1>2, <1>8, <1>9 DEF Main
<1>11. ASSUME u.wait = "join" PROVE FALSE
  <2>1. u.node \in J /\ u \in Waiting(s) /\ IsJoin(u.node) /\ Seat(u).via = u.via
    BY <1>2, <1>10, <1>11 DEF J, Waiting
  <2>2. On(u.node, j, h) \/ (u.node = j /\ u.via = h)
    BY <1>2, <1>8, <1>9, <2>1 DEF Lies, Brings
  <2> QED  BY <1>4, <1>6, <1>10, <2>1, <2>2
<1> QED  BY <1>10, <1>11

-----------------------------------------------------------------------------
(* The theorems about the joins.                                           *)

LEMMA FlowingInductive == Spec => [](Stable(Now) /\ Coherent(Now) /\ Flowing(Now))
<1>1. Init => Stable(Now) /\ Coherent(Now) /\ Flowing(Now)
  BY InitStable, InitCoherent, InitFlows
<1>2. Stable(Now) /\ Coherent(Now) /\ Flowing(Now) /\ [Next]_vars
        => (Stable(Now) /\ Coherent(Now) /\ Flowing(Now))'
  BY NextStable, NextCoherent, NextFlows
<1> QED  BY <1>1, <1>2, PTL DEF Spec

(* The seats stay sorted on every graph the linter lets through: two       *)
(* tokens of a scope are on different branches of a block, and each branch *)
(* of a block that has begun has a token still to come to its join.  It is *)
(* what the pairing of regions.rs promises of the tokens a step moves.     *)
THEOREM SeatsStaySorted == Spec => []Flowing(Now)
BY FlowingInductive, PTL

(* The two internal errors of a step, a move into a boundary and a second  *)
(* arrival at a join on one flow, are raised on no graph that is linted    *)
(* clean, whatever is answered, completed, fired and repaired.             *)
THEOREM NoStepErrorIsRaised == Spec => []NoStepErrors
<1>1. ASSUME Stable(Now), Coherent(Now), Flowing(Now)
      PROVE  NoStepErrors
  <2> SUFFICES ASSUME NEW m \in queue, status = "active"
               PROVE  /\ Kind[m.node] \notin {"timerboundary", "messageboundary", "errorboundary"}
                      /\ IsJoin(m.node) => m.via # NoFlow /\ \A t \in Arrived(m) : t.via # m.via
    BY DEF NoStepErrors
  <2> DEFINE n == Now
             q == MoveSeat(m)
  <2>1. Good(n)
    BY <1>1, NotFailed
  <2>2. /\ Orderly(n) /\ Unique(n) /\ q \in Seats(n) /\ Place(m.node)
        /\ IsJoin(m.node) => m.via \in Incoming(m.node)
        /\ q.id = m.token /\ q.at = m.node /\ q.scope = m.scope
    BY <1>1, <2>1, HeadSeat
  <2>3. n.tokens = tokens /\ n.queue = queue
    BY NowIs
  <2>4. \A w \in tokens : w.wait # "incident"
    BY <1>1 DEF Coherent, Frozen, Now
  <2> HIDE DEF n
  <2>5. Kind[m.node] \notin {"timerboundary", "messageboundary", "errorboundary"}
    BY <2>2 DEF Place, Boundary, Nodes
  <2>6. IsJoin(m.node) => m.via # NoFlow
    BY <2>2, GraphTyped DEF Incoming
  <2>7. ASSUME IsJoin(m.node), NEW t \in Arrived(m)
        PROVE  t.via # m.via
    <3> DEFINE p == Seat(t)
    <3>1. t \in n.tokens /\ t.node = m.node /\ t.scope = m.scope /\ t.wait = "join"
      BY <2>3 DEF Arrived
    <3>2. /\ p \in Seats(n) /\ p.id = t.id /\ p.at = m.node /\ p.scope = m.scope
      BY <2>2, <3>1, TokenSeat
    <3>3. t.id # m.token
      BY <2>2, <2>3, <3>1 DEF Unique
    <3>4. p.via = t.via /\ q.via = m.via
      BY <2>7, <3>1 DEF Seat, MoveSeat, SeatAt, At
    <3>5. Sorted(Seats(n)) /\ p # q
      BY <2>2, <3>2, <3>3 DEF Orderly
    <3> HIDE DEF p, q
    <3> QED  BY <2>2, <2>7, <3>2, <3>4, <3>5, ArrivalsDiffer
  <2> QED  BY <2>5, <2>6, <2>7
<1> QED  BY <1>1, FlowingInductive, PTL

(* No join waits for a token that was consumed: a wait for it to come, in  *)
(* the same scope and off every side path, stays open whatever boundaries  *)
(* interrupt, freezes halt and repairs divert or abandon.                  *)
THEOREM JoinsStayFed == Spec => []JoinsStillFed
<1>1. ASSUME Stable(Now), Coherent(Now), Flowing(Now)
      PROVE  JoinsStillFed
  <2> SUFFICES ASSUME status = "active", Between
               PROVE  /\ tokens # {}
                      /\ \A t \in tokens : t.wait = "join" =>
                           \E u \in tokens :
                             u.scope = t.scope /\ u.wait # "join" /\ u.node \notin SidePath
    BY DEF JoinsStillFed
  <2> DEFINE n == Now
  <2>1. n.tokens = tokens /\ n.queue = {} /\ n.status = "active"
    BY NowIs DEF Between
  <2>2. /\ Orderly(n) /\ Running(n) /\ Frozen(n)
        /\ \A w \in n.tokens : w.wait = "join" => IsJoin(w.node)
    BY <1>1 DEF Flowing, Coherent, Stable, Sound, Fits
  <2>3. \A w \in n.tokens : w.wait # "decision"
    BY <2>1 DEF Between
  <2> HIDE DEF n
  <2>4. tokens # {}
    BY <2>1, <2>2 DEF Running
  <2>5. \A w \in n.tokens : w.wait \notin {"incident", "inflight"}
    BY <2>1, <2>2, <2>3 DEF Frozen
  <2>6. ASSUME NEW t \in n.tokens, t.wait = "join"
        PROVE  \E u \in n.tokens : u.scope = t.scope /\ u.wait # "join" /\ u.node \notin SidePath
    BY <2>1, <2>2, <2>5, <2>6, JoinIsFed
  <2> QED  BY <2>1, <2>4, <2>6
<1> QED  BY <1>1, FlowingInductive, PTL

=============================================================================
