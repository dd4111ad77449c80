------------------------- MODULE Deployment_proofs -------------------------
(***************************************************************************)
(* Deletion, and deployment beside it.                                     *)
(*                                                                         *)
(* What the two guards of delete_definition do give: no history without a  *)
(* model while it is here, and no deletion once an instance had been       *)
(* started when it was asked for.                                          *)
(*                                                                         *)
(* What had been started when the deletion began had all been retired, as  *)
(* it saw no rows (SeenAreGone), so the counter, which is exact, tells.    *)
(* RemovedHaveNoRows needs starts to wait for the deletion they meet.      *)
(* The policy is a matter of its own: what a deletion that drops it saw of *)
(* the other versions stays true (Looked), as a deleted row stays deleted. *)
(*                                                                         *)
(* Deployment keeps everything DefinitionDeletion promises, since each of  *)
(* its steps is a step of DefinitionDeletion or leaves its rows alone; and *)
(* numbers, declared index and topic hold for any number of engines,       *)
(* versions, deployments and failures.                                     *)
(*                                                                         *)
(* A number is one more than the greatest there was under the key's lock:  *)
(* rows may go meanwhile, and none can come (LockedSeesAll).  The index    *)
(* needs no more than its own statement.  The topic: once a withdrawal has *)
(* looked, and as long as the topic is undeclared, every version that      *)
(* needs it is one that is let through (Unguarded).                        *)
(***************************************************************************)
EXTENDS Deployment, FiniteSetTheorems, WellFoundedInduction, TLAPS

SeenAreGone ==
    \A d \in Deleter : seen[d] \subseteq Gone(call[d].version)

UnretiredSawNothing ==
    \A d \in Deleter : call[d].phase \in {"unretired", "removed", "decided"} => seen[d] = {}

RemovedHaveNoRows ==
    \A d \in Deleter :
        call[d].phase \in {"removed", "decided"} => Rows(call[d].version) = {}

Guarded == /\ TypeOK /\ SeenAreGone /\ UnretiredSawNothing /\ RemovedHaveNoRows
           /\ RowsHaveTheirModel

-----------------------------------------------------------------------------
LEMMA InitIsGuarded == ASSUME Init PROVE Guarded
<1>1. \A v \in Version : Gone(v) = {} /\ Rows(v) = {}
  BY DEF Init, Gone, Rows, Of
<1>2. call \in [Deleter -> Call] /\ \A d \in Deleter : call[d].phase = "idle"
  BY DEF Init, Call
<1>3. TypeOK
  BY <1>1, <1>2, FS_EmptySet DEF Init, TypeOK
<1> QED
  BY <1>1, <1>2, <1>3 DEF Init, Guarded, SeenAreGone, UnretiredSawNothing, RemovedHaveNoRows,
     RowsHaveTheirModel

(* What changes neither versions, nor instances, nor counters.             *)
LEMMA CallsKeep ==
    ASSUME Guarded, UNCHANGED <<version, retired, instance>>,
           policy' \in BOOLEAN, setting' \in BOOLEAN,
           NEW d \in Deleter, NEW new \in Call, NEW S \in SUBSET Instance,
           call' = [call EXCEPT ![d] = new], seen' = [seen EXCEPT ![d] = S],
           S \subseteq Gone(new.version),
           new.phase \in {"unretired", "removed", "decided"} => S = {},
           new.phase \in {"removed", "decided"} => Rows(new.version) = {}
    PROVE  Guarded'
<1>1. /\ call'[d] = new /\ seen'[d] = S
      /\ \A e \in Deleter \ {d} : call'[e] = call[e] /\ seen'[e] = seen[e]
  BY DEF Guarded, TypeOK
<1>2. \A v \in Version : Gone(v)' = Gone(v) /\ Rows(v)' = Rows(v)
  BY DEF Gone, Rows, Of
<1>3. new.version \in Version /\ \A e \in Deleter : call[e].version \in Version
  BY DEF Guarded, TypeOK, Call
<1>4. TypeOK'
  BY <1>2 DEF Guarded, TypeOK
<1>5. SeenAreGone'
  <2>1. \A e \in Deleter : seen'[e] \subseteq Gone(call'[e].version)
    BY <1>1 DEF Guarded, SeenAreGone
  <2> QED
    BY <2>1 DEF SeenAreGone, Gone, Of
<1>6. UnretiredSawNothing'
  BY <1>1 DEF Guarded, UnretiredSawNothing
<1>7. RemovedHaveNoRows'
  <2>1. \A e \in Deleter : call'[e].phase \in {"removed", "decided"} => Rows(call'[e].version) = {}
    BY <1>1 DEF Guarded, RemovedHaveNoRows
  <2> QED
    BY <2>1 DEF RemovedHaveNoRows, Rows, Of
<1>8. RowsHaveTheirModel'
  BY <1>2 DEF Guarded, RowsHaveTheirModel
<1> QED
  BY <1>4, <1>5, <1>6, <1>7, <1>8 DEF Guarded

LEMMA AsideKeeps ==
    ASSUME Guarded, UNCHANGED <<version, retired, instance, call, seen>>,
           policy' \in BOOLEAN, setting' \in BOOLEAN
    PROVE  Guarded'
BY DEF Guarded, TypeOK, SeenAreGone, UnretiredSawNothing, RemovedHaveNoRows,
   RowsHaveTheirModel, Gone, Rows, Of

-----------------------------------------------------------------------------
(* Versions and instances.                                                 *)

LEMMA DeployKeeps == ASSUME Guarded, NEW v \in Version, Deploy(v) PROVE Guarded'
<1>1. /\ version' = [version EXCEPT ![v] = "there"]
      /\ UNCHANGED <<retired, instance, policy, setting, call, seen>>
  BY DEF Deploy
<1>2. TypeOK'
  BY <1>1 DEF Guarded, TypeOK, Gone, Of
<1>3. RowsHaveTheirModel'
  BY <1>1 DEF Guarded, TypeOK, RowsHaveTheirModel, Rows, Of
<1> QED
  BY <1>1, <1>2, <1>3 DEF Guarded, SeenAreGone, UnretiredSawNothing, RemovedHaveNoRows,
     Gone, Rows, Of

(* An instance that moves on and is not retired.                           *)
LEMMA MoveKeeps ==
    ASSUME Guarded, NEW i \in Instance, NEW to \in {"live", "over"},
           instance[i] # "retired", instance' = [instance EXCEPT ![i] = to],
           UNCHANGED <<version, retired, policy, setting, call, seen>>,
           version[RunsOn[i]] = "there", Holding(RunsOn[i]) = {}
    PROVE  Guarded'
<1>1. \A v \in Version : Gone(v)' = Gone(v)
  BY DEF Guarded, TypeOK, Gone, Of
<1>2. \A v \in Version \ {RunsOn[i]} : Rows(v)' = Rows(v)
  BY DEF Guarded, TypeOK, Rows, Of
<1>3. TypeOK'
  BY <1>1 DEF Guarded, TypeOK
<1>4. SeenAreGone' /\ UnretiredSawNothing'
  <2>1. \A d \in Deleter : call[d].version \in Version
    BY DEF Guarded, TypeOK, Call
  <2>2. \A d \in Deleter : Gone(call[d].version)' = Gone(call[d].version)
    BY DEF Guarded, TypeOK, Gone, Of
  <2> QED
    BY <2>2 DEF Guarded, SeenAreGone, UnretiredSawNothing
<1>5. RemovedHaveNoRows'
  <2> SUFFICES ASSUME NEW d \in Deleter, call[d].phase \in {"removed", "decided"}
               PROVE  Rows(call[d].version)' = {}
    BY DEF RemovedHaveNoRows
  <2>1. call[d].version # RunsOn[i]
    BY DEF Holding
  <2>2. Rows(call[d].version) = {}
    BY DEF Guarded, RemovedHaveNoRows
  <2> QED
    BY <2>1, <2>2 DEF Guarded, TypeOK, Rows, Of
<1>6. RowsHaveTheirModel'
  BY <1>2 DEF Guarded, RowsHaveTheirModel
<1> QED
  BY <1>3, <1>4, <1>5, <1>6 DEF Guarded

LEMMA StartKeeps == ASSUME Guarded, NEW i \in Instance, Start(i) PROVE Guarded'
BY MoveKeeps DEF Start, Locked, There

LEMMA EndKeeps == ASSUME Guarded, NEW i \in Instance, End(i) PROVE Guarded'
<1>1. i \in Rows(RunsOn[i]) /\ RunsOn[i] \in Version
  BY Pinned DEF End, Rows, Of
<1>2. version[RunsOn[i]] = "there" /\ Holding(RunsOn[i]) = {}
  BY <1>1 DEF Guarded, RowsHaveTheirModel, RemovedHaveNoRows, Holding
<1> QED
  BY <1>2, MoveKeeps DEF End

LEMMA RetireKeeps == ASSUME Guarded, NEW i \in Instance, Retire(i) PROVE Guarded'
<1>1. /\ instance' = [instance EXCEPT ![i] = "retired"] /\ instance[i] = "over"
      /\ retired' = [retired EXCEPT ![RunsOn[i]] = @ + 1]
      /\ UNCHANGED <<version, policy, setting, call, seen>>
  BY DEF Retire, Counts
<1>2. RunsOn[i] \in Version
  BY Pinned
<1>3. /\ Gone(RunsOn[i])' = Gone(RunsOn[i]) \union {i} /\ i \notin Gone(RunsOn[i])
      /\ \A v \in Version \ {RunsOn[i]} : Gone(v)' = Gone(v)
      /\ \A v \in Version : Gone(v) \subseteq Gone(v)'
      /\ \A v \in Version : Rows(v)' \subseteq Rows(v)
  BY <1>1 DEF Guarded, TypeOK, Gone, Rows, Of
<1>4. IsFiniteSet(Gone(RunsOn[i]))
  BY Pinned, FS_Subset DEF Gone, Of
<1>5. Cardinality(Gone(RunsOn[i]) \union {i}) = Cardinality(Gone(RunsOn[i])) + 1
  BY <1>3, <1>4, FS_AddElement
<1>6. TypeOK'
  <2>1. \A v \in Version : retired'[v] = Cardinality(Gone(v)')
    BY <1>1, <1>2, <1>3, <1>5 DEF Guarded, TypeOK
  <2> QED
    BY <1>1, <1>2, <2>1 DEF Guarded, TypeOK
<1>7. SeenAreGone' /\ UnretiredSawNothing'
  BY <1>1 DEF Guarded, TypeOK, SeenAreGone, UnretiredSawNothing, Gone, Of
<1>8. RemovedHaveNoRows' /\ RowsHaveTheirModel'
  BY <1>1 DEF Guarded, TypeOK, RemovedHaveNoRows, RowsHaveTheirModel, Rows, Of
<1> QED
  BY <1>6, <1>7, <1>8 DEF Guarded

-----------------------------------------------------------------------------
(* The deletion.                                                           *)

LEMMA CountKeeps ==
    ASSUME Guarded, NEW d \in Deleter, NEW v \in Version, CountInstances(d, v)
    PROVE  Guarded'
<1> DEFINE new == [phase |-> "unused", version |-> v, others |-> There \ {v}, drops |-> FALSE]
<1>1. new \in Call /\ new.version = v /\ new.phase = "unused"
  BY DEF Call, There
<1>2. Started(v) \in SUBSET Instance /\ Started(v) \subseteq Gone(v)
  BY DEF CountInstances, Started, Gone, Rows, Of, Guarded, TypeOK
<1>3. call' = [call EXCEPT ![d] = new] /\ seen' = [seen EXCEPT ![d] = Started(v)]
  BY DEF CountInstances
<1>4. /\ UNCHANGED <<version, retired, instance>>
      /\ policy' \in BOOLEAN /\ setting' \in BOOLEAN
  BY DEF CountInstances, Guarded, TypeOK
<1> HIDE DEF new
<1> QED
  BY <1>1, <1>2, <1>3, <1>4, CallsKeep

LEMMA ReadKeeps == ASSUME Guarded, NEW d \in Deleter, ReadRetired(d) PROVE Guarded'
<1> DEFINE new == [call[d] EXCEPT !.phase = "unretired"]
<1>1. new \in Call /\ new.version = call[d].version /\ new.phase = "unretired"
      /\ call[d].version \in Version
  BY DEF Guarded, TypeOK, Call
<1>2. seen[d] = {}
  <2>1. Cardinality(Gone(call[d].version)) = 0
    BY <1>1 DEF ReadRetired, NoneRetired, Guarded, TypeOK
  <2>2. IsFiniteSet(Gone(call[d].version))
    BY Pinned, FS_Subset DEF Gone, Of
  <2>3. Gone(call[d].version) = {}
    BY <2>1, <2>2, FS_EmptySet
  <2> QED
    BY <2>3 DEF Guarded, SeenAreGone
<1>3. call' = [call EXCEPT ![d] = new] /\ seen' = [seen EXCEPT ![d] = {}]
  BY <1>2 DEF ReadRetired, Goes, Guarded, TypeOK
<1>4. /\ UNCHANGED <<version, retired, instance>>
      /\ policy' \in BOOLEAN /\ setting' \in BOOLEAN
  BY DEF ReadRetired, Guarded, TypeOK
<1> HIDE DEF new
<1> QED
  BY <1>1, <1>3, <1>4, CallsKeep

LEMMA RemoveKeeps ==
    ASSUME Guarded, NEW d \in Deleter, Remove(d) \/ DecidePolicy(d)
    PROVE  Guarded'
<1>1. PICK phase \in {"removed", "decided"}, drops \in BOOLEAN :
        call' = [call EXCEPT ![d] = [@ EXCEPT !.phase = phase, !.drops = drops]]
  <2>1. call[d] \in Call /\ call[d].drops \in BOOLEAN /\ policy \in BOOLEAN
    BY DEF Guarded, TypeOK, Call
  <2>2. CASE Remove(d)
    <3>1. [call[d] EXCEPT !.phase = "removed", !.drops = call[d].drops]
            = [call[d] EXCEPT !.phase = "removed"]
      BY <2>1 DEF Call
    <3> QED
      BY <2>1, <2>2, <3>1 DEF Remove, Goes
  <2>3. CASE DecidePolicy(d)
    <3> DEFINE drops == policy /\ LastVersion(call[d].version)
    <3>1. drops \in BOOLEAN
      BY <2>1 DEF LastVersion
    <3>2. call' = [call EXCEPT ![d].phase = "decided", ![d].drops = drops]
      BY <2>3 DEF DecidePolicy
    <3> HIDE DEF drops
    <3> QED
      BY <3>1, <3>2
  <2> QED
    BY <2>2, <2>3
<1> DEFINE new == [call[d] EXCEPT !.phase = phase, !.drops = drops]
<1>2. new \in Call /\ new.version = call[d].version /\ new.phase = phase
  BY DEF Guarded, TypeOK, Call
<1>3. call' = [call EXCEPT ![d] = new]
  BY <1>1
<1>4. seen[d] = {} /\ Rows(call[d].version) = {}
  BY DEF Remove, DecidePolicy, Guarded, UnretiredSawNothing, RemovedHaveNoRows
<1>5. /\ UNCHANGED <<version, retired, instance>> /\ seen' = [seen EXCEPT ![d] = {}]
      /\ policy' \in BOOLEAN /\ setting' \in BOOLEAN
  BY <1>4 DEF Remove, DecidePolicy, Guarded, TypeOK
<1> HIDE DEF new
<1> QED
  BY <1>2, <1>3, <1>4, <1>5, CallsKeep

LEMMA AbortKeeps == ASSUME Guarded, NEW d \in Deleter, Abort(d) PROVE Guarded'
<1> DEFINE new == [call[d] EXCEPT !.phase = "idle", !.others = {}, !.drops = FALSE]
<1>1. new \in Call /\ new.phase = "idle"
  BY DEF Guarded, TypeOK, Call
<1>2. call' = [call EXCEPT ![d] = new] /\ seen' = [seen EXCEPT ![d] = {}]
  BY DEF Abort, Rests
<1>3. /\ UNCHANGED <<version, retired, instance>>
      /\ policy' \in BOOLEAN /\ setting' \in BOOLEAN
  BY DEF Abort, Guarded, TypeOK
<1> HIDE DEF new
<1> QED
  BY <1>1, <1>2, <1>3, CallsKeep

LEMMA CommitKeeps == ASSUME Guarded, NEW d \in Deleter, Commit(d) PROVE Guarded'
<1> DEFINE v == call[d].version
<1>1. /\ version' = [version EXCEPT ![v] = "deleted"]
      /\ call' = [call EXCEPT ![d].phase = "idle", ![d].others = {}, ![d].drops = FALSE]
      /\ seen' = [seen EXCEPT ![d] = {}] /\ policy' \in BOOLEAN /\ setting' \in BOOLEAN
      /\ retired' = retired /\ instance' = instance /\ call[d].phase = "decided"
  BY DEF Commit, Rests, Guarded, TypeOK
<1>2. v \in Version /\ Rows(v) = {}
  BY <1>1 DEF Guarded, RemovedHaveNoRows, TypeOK, Call
<1>3. \A e \in Deleter :
        /\ call'[e] \in Call /\ call'[e].version = call[e].version
        /\ call'[e].phase = IF e = d THEN "idle" ELSE call[e].phase
        /\ seen'[e] = IF e = d THEN {} ELSE seen[e]
  <2> DEFINE new == [call[d] EXCEPT !.phase = "idle", !.others = {}, !.drops = FALSE]
  <2>1. new \in Call /\ new.phase = "idle" /\ new.version = call[d].version
    BY DEF Guarded, TypeOK, Call
  <2>2. call' = [call EXCEPT ![d] = new] /\ call \in [Deleter -> Call]
    BY <1>1 DEF Guarded, TypeOK
  <2> HIDE DEF new
  <2>3. \A e \in Deleter : call'[e] = IF e = d THEN new ELSE call[e]
    BY <2>2
  <2>4. \A e \in Deleter : seen'[e] = IF e = d THEN {} ELSE seen[e]
    BY <1>1 DEF Guarded, TypeOK
  <2> QED
    BY <2>1, <2>2, <2>3, <2>4
<1>4. TypeOK'
  <2>1. call' \in [Deleter -> Call]
    BY <1>1, <1>3 DEF Guarded, TypeOK
  <2> QED
    BY <1>1, <1>2, <2>1 DEF Guarded, TypeOK, Gone, Of
<1>5. SeenAreGone' /\ UnretiredSawNothing'
  <2>1. \A e \in Deleter : seen'[e] \subseteq Gone(call'[e].version)
    BY <1>3 DEF Guarded, SeenAreGone
  <2>2. \A x : Gone(x)' = Gone(x)
    BY <1>1 DEF Gone, Of
  <2>3. SeenAreGone'
    BY <2>1, <2>2 DEF SeenAreGone
  <2>4. UnretiredSawNothing'
    BY <1>3 DEF Guarded, UnretiredSawNothing
  <2> QED
    BY <2>3, <2>4
<1>6. RemovedHaveNoRows'
  BY <1>1, <1>3 DEF Guarded, RemovedHaveNoRows, Rows, Of
<1>7. RowsHaveTheirModel'
  BY <1>1, <1>2 DEF Guarded, TypeOK, RowsHaveTheirModel, Rows, Of
<1> QED
  BY <1>4, <1>5, <1>6, <1>7 DEF Guarded

LEMMA NextIsGuarded == Guarded /\ [Next]_vars => Guarded'
<1> SUFFICES ASSUME Guarded, [Next]_vars PROVE Guarded'
  OBVIOUS
<1>1. CASE UNCHANGED vars
  BY <1>1, AsideKeeps DEF vars, Guarded, TypeOK
<1>2. CASE \E v \in Version : Deploy(v)
  BY <1>2, DeployKeeps
<1>3. CASE \E i \in Instance : Start(i) \/ End(i) \/ Retire(i)
  BY <1>3, StartKeeps, EndKeeps, RetireKeeps
<1>4. CASE FindKey \/ SetPolicy
  BY <1>4, AsideKeeps DEF FindKey, SetPolicy, Guarded, TypeOK
<1>5. CASE \E d \in Deleter :
             \/ ReadRetired(d) \/ Remove(d) \/ DecidePolicy(d) \/ Commit(d) \/ Abort(d)
             \/ \E v \in Version : CountInstances(d, v)
  BY <1>5, ReadKeeps, RemoveKeeps, CommitKeeps, AbortKeeps, CountKeeps
<1> QED
  BY <1>1, <1>2, <1>3, <1>4, <1>5 DEF Next

-----------------------------------------------------------------------------
(* The policy.                                                             *)

OthersWereThere ==
    \A d \in Deleter : \A v \in call[d].others : v # call[d].version /\ version[v] # "none"

DroppersSawTheLast ==
    \A d \in Deleter : call[d].phase = "decided" /\ call[d].drops =>
        \A v \in call[d].others : version[v] = "deleted"

Looked == OthersWereThere /\ DroppersSawTheLast

LEMMA InitHasLooked == ASSUME Init PROVE Looked
BY DEF Init, Looked, OthersWereThere, DroppersSawTheLast

(* A row once there is there or deleted, a deleted one stays deleted.      *)
LEMMA VersionsGoOn ==
    ASSUME TypeOK, Next, NEW v \in Version
    PROVE  /\ version[v] # "none" => version'[v] # "none"
           /\ version[v] = "deleted" => version'[v] = "deleted"
<1>1. CASE \E w \in Version : Deploy(w)
  BY <1>1 DEF Deploy, TypeOK
<1>2. CASE \E i \in Instance : Start(i) \/ End(i) \/ Retire(i)
  BY <1>2 DEF Start, End, Retire
<1>3. CASE FindKey \/ SetPolicy
  BY <1>3 DEF FindKey, SetPolicy
<1>4. CASE \E d \in Deleter :
             \/ ReadRetired(d) \/ Remove(d) \/ DecidePolicy(d) \/ Abort(d)
             \/ \E w \in Version : CountInstances(d, w)
  BY <1>4 DEF ReadRetired, Remove, DecidePolicy, Abort, CountInstances
<1>5. CASE \E d \in Deleter : Commit(d)
  BY <1>5 DEF Commit, TypeOK
<1> QED
  BY <1>1, <1>2, <1>3, <1>4, <1>5 DEF Next

(* A call keeps what it knew of the others, or begins, looks, or rests.     *)
LEMMA CallsGoOn ==
    ASSUME TypeOK, Next, NEW d \in Deleter
    PROVE  \/ /\ call'[d].others = call[d].others /\ call'[d].version = call[d].version
              /\ call'[d].phase = "decided" =>
                    call[d].phase = "decided" /\ call'[d].drops = call[d].drops
           \/ /\ call'[d].phase = "unused" /\ call'[d].others = There \ {call'[d].version}
              /\ UNCHANGED version
           \/ /\ call'[d].others = call[d].others /\ call'[d].version = call[d].version
              /\ call'[d].drops => LastVersion(call[d].version)
              /\ UNCHANGED version
           \/ call'[d].others = {}
<1>0. call[d] \in Call
  BY DEF TypeOK
<1>1. CASE UNCHANGED call
  BY <1>1
<1>2. CASE \E w \in Version : Deploy(w)
  BY <1>1, <1>2 DEF Deploy
<1>3. CASE \E i \in Instance : Start(i) \/ End(i) \/ Retire(i)
  BY <1>1, <1>3 DEF Start, End, Retire
<1>4. CASE FindKey \/ SetPolicy
  BY <1>1, <1>4 DEF FindKey, SetPolicy
<1>5. CASE \E e \in Deleter : ReadRetired(e) \/ Remove(e)
  <2>1. PICK e \in Deleter, phase \in {"unretired", "removed"} :
          call' = [call EXCEPT ![e].phase = phase]
    BY <1>5 DEF ReadRetired, Remove, Goes
  <2>2. CASE e = d
    BY <1>0, <2>1, <2>2 DEF TypeOK, Call
  <2>3. CASE e # d
    BY <2>1, <2>3 DEF TypeOK
  <2> QED
    BY <2>2, <2>3
<1>6. CASE \E e \in Deleter : DecidePolicy(e)
  <2>1. PICK e \in Deleter : DecidePolicy(e)
    BY <1>6
  <2>2. CASE e = d
    <3> DEFINE drops == policy /\ LastVersion(call[d].version)
    <3>1. call' = [call EXCEPT ![d].phase = "decided", ![d].drops = drops] /\ UNCHANGED version
      BY <2>1, <2>2 DEF DecidePolicy
    <3>2. drops => LastVersion(call[d].version)
      OBVIOUS
    <3> HIDE DEF drops
    <3>3. /\ call'[d].others = call[d].others /\ call'[d].version = call[d].version
          /\ call'[d].drops = drops
      BY <1>0, <3>1 DEF TypeOK, Call
    <3> QED
      BY <3>1, <3>2, <3>3
  <2>3. CASE e # d
    BY <2>1, <2>3 DEF DecidePolicy, TypeOK
  <2> QED
    BY <2>2, <2>3
<1>7. CASE \E e \in Deleter, w \in Version : CountInstances(e, w)
  <2>1. PICK e \in Deleter, w \in Version : CountInstances(e, w)
    BY <1>7
  <2>2. CASE e = d
    BY <2>1, <2>2 DEF CountInstances, TypeOK
  <2>3. CASE e # d
    BY <2>1, <2>3 DEF CountInstances, TypeOK
  <2> QED
    BY <2>2, <2>3
<1>8. CASE \E e \in Deleter : Abort(e) \/ Commit(e)
  <2>1. PICK e \in Deleter :
          call' = [call EXCEPT ![e].phase = "idle", ![e].others = {}, ![e].drops = FALSE]
    BY <1>8 DEF Abort, Commit, Rests
  <2>2. CASE e = d
    BY <1>0, <2>1, <2>2 DEF TypeOK, Call
  <2>3. CASE e # d
    BY <2>1, <2>3 DEF TypeOK
  <2> QED
    BY <2>2, <2>3
<1> QED
  BY <1>2, <1>3, <1>4, <1>5, <1>6, <1>7, <1>8 DEF Next

LEMMA NextHasLooked == TypeOK /\ Looked /\ [Next]_vars => Looked'
<1>1. ASSUME TypeOK, Looked, Next
      PROVE  Looked'
  <2> SUFFICES ASSUME NEW d \in Deleter, NEW v \in call'[d].others
               PROVE  /\ v # call'[d].version /\ version'[v] # "none"
                      /\ call'[d].phase = "decided" /\ call'[d].drops => version'[v] = "deleted"
    BY DEF Looked, OthersWereThere, DroppersSawTheLast
  <2>1. CASE /\ call'[d].others = call[d].others /\ call'[d].version = call[d].version
             /\ call'[d].phase = "decided" =>
                   call[d].phase = "decided" /\ call'[d].drops = call[d].drops
    <3>1. v \in Version /\ v # call[d].version /\ version[v] # "none"
      BY <1>1, <2>1 DEF Looked, OthersWereThere, TypeOK, Call
    <3> QED
      BY <1>1, <2>1, <3>1, VersionsGoOn DEF Looked, DroppersSawTheLast
  <2>2. CASE /\ call'[d].phase = "unused" /\ call'[d].others = There \ {call'[d].version}
             /\ UNCHANGED version
    BY <2>2 DEF There
  <2>3. CASE /\ call'[d].others = call[d].others /\ call'[d].version = call[d].version
             /\ call'[d].drops => LastVersion(call[d].version)
             /\ UNCHANGED version
    <3>1. v \in Version /\ v # call[d].version /\ version[v] # "none"
      BY <1>1, <2>3 DEF Looked, OthersWereThere, TypeOK, Call
    <3>2. version[v] # "there" => version[v] = "deleted"
      BY <1>1, <3>1 DEF TypeOK
    <3>3. LastVersion(call[d].version) => version[v] # "there"
      BY <3>1 DEF LastVersion, There
    <3> QED
      BY <2>3, <3>1, <3>2, <3>3
  <2> QED
    BY <1>1, <2>1, <2>2, <2>3, CallsGoOn
<1>2. ASSUME TypeOK, Looked, UNCHANGED vars
      PROVE  Looked'
  BY <1>2 DEF Looked, OthersWereThere, DroppersSawTheLast, vars
<1> QED
  BY <1>1, <1>2

-----------------------------------------------------------------------------
(* The model of every instance that has a row is there, however deletions  *)
(* and starts meet (delete_definition, the foreign key).                   *)
THEOREM ModelsAreThere == Spec => []RowsHaveTheirModel
<1>1. Guarded => RowsHaveTheirModel
  BY DEF Guarded
<1> QED
  BY InitIsGuarded, NextIsGuarded, <1>1, PTL DEF Spec

(* A deletion gets no further when an instance had been started before it  *)
(* was asked for (retired_instances).                                      *)
THEOREM CounterBlocks == Spec => []EarlierRecordsBlock
<1>1. Guarded => EarlierRecordsBlock
  BY DEF Guarded, UnretiredSawNothing, EarlierRecordsBlock
<1> QED
  BY InitIsGuarded, NextIsGuarded, <1>1, PTL DEF Spec

(* A policy goes only with the last of the versions that were there as the *)
(* deletion began (delete_definition).                                     *)
THEOREM PoliciesOutlive == Spec => PolicyOutlivesVersions
<1>1. ASSUME TypeOK, Looked, [Next]_vars, policy, ~policy'
      PROVE  \E d \in Deleter :
                call[d].phase = "decided" /\ call[d].others \intersect There' = {}
  <2>1. PICK d \in Deleter : Commit(d) /\ call[d].drops
    BY <1>1 DEF Next, vars, Deploy, Start, End, Retire, FindKey, SetPolicy, CountInstances,
       ReadRetired, Remove, DecidePolicy, Commit, Abort
  <2>2. \A v \in call[d].others : v \in Version /\ version[v] = "deleted"
    BY <1>1, <2>1 DEF Commit, Looked, DroppersSawTheLast, TypeOK, Call
  <2>3. \A v \in call[d].others : version'[v] = "deleted"
    BY <1>1, <2>1, <2>2 DEF Commit, TypeOK
  <2> QED
    BY <2>1, <2>3 DEF Commit, There
<1>2. Guarded => TypeOK
  BY DEF Guarded
<1> QED
  BY InitIsGuarded, NextIsGuarded, InitHasLooked, NextHasLooked, <1>1, <1>2, PTL
     DEF Spec, PolicyOutlivesVersions

(* Versions, counters and calls have their types, and the counter is the   *)
(* number of retired records (delete_records).                             *)
THEOREM TypeCorrect == Spec => []TypeOK
<1>1. Guarded => TypeOK
  BY DEF Guarded
<1> QED
  BY InitIsGuarded, NextIsGuarded, <1>1, PTL DEF Spec

-----------------------------------------------------------------------------
(* Deployment: every step is one of the above, or leaves its rows alone.   *)

(* The steps of Deployment, by what they do to the rows.                   *)
Asides ==
    \/ \E p \in Process :
        \/ Lock(p) \/ Reuse(p) \/ Create(p) \/ Built(p)
        \/ Probed(p) \/ DropInvalid(p) \/ Return(p) \/ DeployFails(p)
        \/ Restart(p)
        \/ \E c \in Content : Check(p, c)
    \/ \E p \in Operated : Look(p) \/ Withdraw(p) \/ Declare(p)
    \/ \E i \in Instance : Pick(i) \/ Freezes(i) \/ Repair(i)

Rest ==
    \/ \E i \in Instance : StartPicked(i) \/ Ends(i)
    \/ Deletes

LEMMA StepsAre ==
    ASSUME NextAll
    PROVE  Asides \/ Rest \/ \E p \in Process, v \in Version : Insert(p, v)
BY DEF NextAll, Asides, Rest

LEMMA AsidesLeaveRows == ASSUME Asides PROVE UNCHANGED <<vars, catalog>>
BY DEF Asides, Lock, Reuse, Create, Built, Probed, DropInvalid, Return, DeployFails, Restart,
   Check, Look, Withdraw, Declare, Pick, Freezes, Repair

(* No row comes from elsewhere than a deployment.                          *)
LEMMA RestLeaves ==
    ASSUME TypeOK, Rest
    PROVE  /\ Next /\ There' \subseteq There
           /\ UNCHANGED <<catalog, environment, building, deploys>>
<1>1. ASSUME NEW i \in Instance, StartPicked(i) \/ Ends(i)
      PROVE  /\ Start(i) \/ End(i)
             /\ UNCHANGED <<catalog, environment, building, deploys>>
  BY <1>1 DEF StartPicked, Ends, running, counters
<1>2. ASSUME NEW i \in Instance, Start(i) \/ End(i)
      PROVE  Next /\ UNCHANGED version
  BY <1>2 DEF Start, End, Next
<1>3. ASSUME Deletes
      PROVE  Next /\ UNCHANGED <<catalog, environment, building, deploys>>
  BY <1>3 DEF Deletes, Next, counters
<1>4. ASSUME Deletes
      PROVE  \/ UNCHANGED version
             \/ \E v : version' = [version EXCEPT ![v] = "deleted"]
  BY <1>4 DEF Deletes, Retire, FindKey, SetPolicy, ReadRetired, Remove, DecidePolicy, Commit,
     Abort, CountInstances
<1>5. UNCHANGED version \/ (\E v : version' = [version EXCEPT ![v] = "deleted"])
        => There' \subseteq There
  BY DEF TypeOK, There
<1> QED
  BY <1>1, <1>2, <1>3, <1>4, <1>5 DEF Rest

(* The refinement: the rows of Deployment behave as DefinitionDeletion     *)
(* says, deployments being its Deploy (deploy_bundle, delete_definition).  *)
LEMMA StepsImplement == TypeOK /\ [NextAll]_allVars => [Next]_vars
<1>1. \A p, v : Insert(p, v) => Deploy(v)
  BY DEF Insert
<1>2. \A v \in Version : Deploy(v) => Next
  BY DEF Next
<1>3. UNCHANGED allVars => UNCHANGED vars
  BY DEF allVars
<1> QED
  BY <1>1, <1>2, <1>3, StepsAre, AsidesLeaveRows, RestLeaves

THEOREM Refines == SpecAll => Spec
<1>1. InitAll => Init
  BY DEF InitAll
<1>2. Guarded => TypeOK
  BY DEF Guarded
<1> QED
  BY <1>1, <1>2, InitIsGuarded, NextIsGuarded, StepsImplement, PTL DEF SpecAll, Spec

(* So what is proved of DefinitionDeletion holds of its composition with   *)
(* deployments: records keep their model, earlier records block, and the   *)
(* policy outlives the versions.                                           *)
THEOREM DeletionKeepsItsPromises ==
    SpecAll => []RowsHaveTheirModel /\ []EarlierRecordsBlock /\ PolicyOutlivesVersions
BY Refines, ModelsAreThere, CounterBlocks, PoliciesOutlive, PTL

-----------------------------------------------------------------------------
(* Types.                                                                  *)

Typed ==
    /\ number \in [Version -> Nat] /\ content \in [Version -> Content \union {NoBundle}]
    /\ memory \subseteq Process /\ declared \in BOOLEAN
    /\ withdrawing \in [Operated -> {"idle", "unneeded"}]
    /\ deploy \in [Process -> Deploying]
    /\ index \in {"none", "invalid", "valid"} /\ excused \subseteq Version

-----------------------------------------------------------------------------
(* The greatest number.                                                    *)

LEMMA LeastOf ==
    ASSUME NEW T \in SUBSET Nat, T # {}
    PROVE  \E x \in T : \A y \in T : x <= y
<1> DEFINE R == OpToRel(<, Nat)
<1>1. \A x, y \in Nat : <<x, y>> \in R <=> x < y
  BY DEF OpToRel
<1>2. IsWellFoundedOn(R, Nat)
  BY NatLessThanWellFounded
<1> HIDE DEF R
<1>3. PICK x \in T : \A y \in T : <<y, x>> \notin R
  BY <1>2, WFMin
<1>4. x \in Nat /\ \A y \in T : y \in Nat /\ ~(y < x)
  BY <1>1, <1>3
<1> QED
  BY <1>4

NumbersAreBounded == \E n \in Nat : \A v \in There : number[v] <= n

LEMMA LatestIsGreatest ==
    ASSUME Typed, NumbersAreBounded
    PROVE  /\ There = {} => Latest = NoVersion
           /\ There # {} => Latest \in There /\ \A w \in There : number[w] <= number[Latest]
<1>1. There \subseteq Version /\ \A v \in There : number[v] \in Nat
  BY DEF There, Typed
<1>2. PICK n \in Nat : \A v \in There : number[v] <= n
  BY DEF NumbersAreBounded
<1>3. ASSUME There # {}
      PROVE  \E v \in There : \A w \in There : number[w] <= number[v]
  <2> DEFINE T == {n - number[v] : v \in There}
  <2>1. T \in SUBSET Nat /\ T # {}
    BY <1>1, <1>2, <1>3
  <2>2. PICK x \in T : \A y \in T : x <= y
    BY <2>1, LeastOf
  <2>3. PICK v \in There : x = n - number[v]
    BY <2>2
  <2>4. \A w \in There : n - number[v] <= n - number[w]
    BY <2>2, <2>3
  <2>5. \A w \in There : number[w] <= number[v]
    BY <1>1, <2>4
  <2> QED
    BY <2>5
<1> QED
  BY <1>3 DEF Latest

-----------------------------------------------------------------------------
(* The inductive invariant.                                                *)

OneLocked == \A p, q \in Process : At(p, "locked") /\ At(q, "locked") => p = q

(* No row has come since the latest was read.                              *)
LockedSeesAll ==
    \A p \in Process : At(p, "locked") =>
        \A v \in There : deploy[p].latest # NoVersion /\ number[v] <= number[deploy[p].latest]

(* While the topic may go, or is not there, whoever needs it is excused.   *)
Unguarded ==
    /\ \A p \in Operated : withdrawing[p] = "unneeded" => Binding \subseteq excused
    /\ declared \/ Binding \subseteq excused

Tidy == /\ TypeOK /\ Typed /\ NumbersAreBounded /\ OneLocked /\ LockedSeesAll
        /\ NumbersAreUnique /\ DeployedIsIndexed /\ Unguarded

LEMMA InitIsTidy == InitAll => Tidy
<1> SUFFICES ASSUME InitAll PROVE Tidy
  OBVIOUS
<1>1. TypeOK
  BY InitIsGuarded DEF InitAll, Guarded
<1>2. There = {} /\ Binding = {}
  BY DEF InitAll, Init, There, Binding
<1>3. NoDeploy \in Deploying
  BY DEF NoDeploy, Deploying
<1>4. Typed
  BY <1>3 DEF InitAll, Typed
<1>5. \A p \in Process : deploy[p].phase = "idle"
  BY DEF InitAll, NoDeploy
<1> QED
  BY <1>1, <1>2, <1>4, <1>5 DEF InitAll, Tidy, NumbersAreBounded, OneLocked, LockedSeesAll,
     NumbersAreUnique, DeployedIsIndexed, Unguarded, At

(* What a step does to the deployments: one of them moves, and is done     *)
(* only when it has its index, or is locked only when no other is.         *)
Moves(p) ==
    /\ deploy' = [deploy EXCEPT ![p] = deploy'[p]] /\ deploy'[p] \in Deploying
    /\ At(p, "locked")' => HasKeyLock(p) /\ deploy'[p].latest = Latest
    /\ At(p, "done")' /\ deploy'[p].bundle \in DeclaresIndex => index = "valid"
    /\ \/ UNCHANGED index
       \/ index # "valid" /\ index' \in {"none", "invalid", "valid"}

LEMMA LocksMove ==
    ASSUME Tidy, NEW p \in Process, Lock(p)
    PROVE  Moves(p)
<1>1. deploy[p] \in Deploying /\ Latest \in Version \union {NoVersion}
  BY LatestIsGreatest DEF Tidy, Typed, There
<1>2. /\ deploy' = [deploy EXCEPT ![p].phase = "locked", ![p].latest = Latest]
      /\ HasKeyLock(p) /\ UNCHANGED index
  BY DEF Lock
<1>3. deploy'[p] = [deploy[p] EXCEPT !.phase = "locked", !.latest = Latest]
  BY <1>2 DEF Tidy, Typed
<1> HIDE DEF Latest
<1> QED
  BY <1>1, <1>2, <1>3 DEF Moves, Tidy, Typed, Deploying, At

LEMMA StatementsMove ==
    ASSUME Tidy, NEW p \in Process,
           \/ Create(p) \/ Built(p) \/ Probed(p) \/ DropInvalid(p) \/ Return(p)
           \/ DeployFails(p) \/ Restart(p) \/ (\E c \in Content : Check(p, c))
    PROVE  Moves(p)
<1>0. deploy \in [Process -> Deploying] /\ deploy[p] \in Deploying /\ NoDeploy \in Deploying
      /\ NoDeploy.phase = "idle"
  BY DEF Tidy, Typed, Deploying, NoDeploy
<1>1. CASE DropInvalid(p) \/ Return(p) \/ DeployFails(p) \/ Restart(p)
  <2>1. /\ deploy' = [deploy EXCEPT ![p] = NoDeploy]
        /\ UNCHANGED index \/ (index # "valid" /\ index' = "none")
    BY <1>1 DEF DropInvalid, Return, DeployFails, Restart, IsValid
  <2> QED
    BY <1>0, <2>1 DEF Moves, At
<1>2. CASE \E c \in Content : Check(p, c)
  <2>1. PICK c \in Content :
          deploy' = [deploy EXCEPT ![p] = [phase |-> "checked", bundle |-> c, latest |-> NoVersion]]
    BY <1>2 DEF Check
  <2>2. UNCHANGED index
    BY <1>2 DEF Check
  <2>3. [phase |-> "checked", bundle |-> c, latest |-> NoVersion] \in Deploying
    BY DEF Deploying
  <2> QED
    BY <1>0, <2>1, <2>2, <2>3 DEF Moves, At
<1>3. CASE Create(p) \/ Built(p) \/ Probed(p)
  <2>1. PICK phase \in {"building", "probing", "done"} :
          MovesTo(p, phase) /\ (phase = "done" => index = "valid")
    BY <1>3 DEF Create, Built, Probed, IsValid
  <2>2. deploy'[p] = [deploy[p] EXCEPT !.phase = phase]
        /\ deploy' = [deploy EXCEPT ![p] = deploy'[p]]
    BY <1>0, <2>1 DEF MovesTo
  <2>3. deploy'[p] \in Deploying /\ deploy'[p].phase = phase
    BY <1>0, <2>2 DEF Deploying
  <2>4. \/ UNCHANGED index
        \/ index # "valid" /\ index' \in {"none", "invalid", "valid"}
    BY <1>3 DEF Create, Built, Probed
  <2> QED
    BY <2>1, <2>2, <2>3, <2>4 DEF Moves, At
<1> QED
  BY <1>1, <1>2, <1>3

(* After the transaction, there is nothing to build or it is to be built.  *)
LEMMA CommittedMove ==
    ASSUME Tidy, NEW p \in Process, Committed(p), UNCHANGED index
    PROVE  Moves(p) /\ ~At(p, "locked")'
<1> DEFINE phase == IF deploy[p].bundle \in DeclaresIndex THEN "committed" ELSE "done"
<1>1. deploy[p] \in Deploying /\ deploy \in [Process -> Deploying]
  BY DEF Tidy, Typed
<1>2. deploy' = [deploy EXCEPT ![p].latest = NoVersion, ![p].phase = phase]
  BY DEF Committed
<1>3. deploy'[p] = [deploy[p] EXCEPT !.latest = NoVersion, !.phase = phase]
  BY <1>1, <1>2
<1>4. phase \in {"committed", "done"} /\ (phase = "done" => deploy[p].bundle \notin DeclaresIndex)
  OBVIOUS
<1> HIDE DEF phase
<1>5. /\ deploy'[p] \in Deploying /\ deploy'[p].phase = phase
      /\ deploy'[p].bundle = deploy[p].bundle
  BY <1>1, <1>3, <1>4 DEF Deploying
<1>6. deploy' = [deploy EXCEPT ![p] = deploy'[p]]
  BY <1>1, <1>2
<1> QED
  BY <1>4, <1>5, <1>6 DEF Moves, At

LEMMA MovesKeep ==
    ASSUME Tidy, NEW p \in Process, Moves(p)
    PROVE  /\ deploy' \in [Process -> Deploying] /\ index' \in {"none", "invalid", "valid"}
           /\ OneLocked' /\ DeployedIsIndexed'
           /\ \A q \in Process \ {p} : deploy'[q] = deploy[q]
<1>1. deploy \in [Process -> Deploying] /\ index \in {"none", "invalid", "valid"}
  BY DEF Tidy, Typed
<1>2. \A q \in Process \ {p} : deploy'[q] = deploy[q]
  BY <1>1 DEF Moves
<1>3. deploy' \in [Process -> Deploying] /\ index' \in {"none", "invalid", "valid"}
  BY <1>1 DEF Moves
<1>4. OneLocked'
  BY <1>2 DEF Moves, OneLocked, Tidy, HasKeyLock, At
<1>5. DeployedIsIndexed'
  BY <1>2 DEF Moves, DeployedIsIndexed, Tidy, At
<1> QED
  BY <1>2, <1>3, <1>4, <1>5

(* No row comes, and no number is given again.                             *)
RowsStay == There' \subseteq There /\ UNCHANGED catalog

LEMMA RowsStayNumbered ==
    ASSUME Tidy, RowsStay
    PROVE  NumbersAreBounded' /\ NumbersAreUnique' /\ Binding' \subseteq Binding
<1>1. \A v \in There' : v \in There /\ number'[v] = number[v] /\ content'[v] = content[v]
  BY DEF RowsStay, catalog
<1>2. NumbersAreBounded'
  BY <1>1 DEF Tidy, NumbersAreBounded
<1>3. NumbersAreUnique'
  BY <1>1 DEF Tidy, NumbersAreUnique
<1> QED
  BY <1>1, <1>2, <1>3 DEF Binding

LEMMA LockedStillSeesAll ==
    ASSUME Tidy, RowsStay, NEW p \in Process, Moves(p), ~At(p, "locked")' \/ UNCHANGED There
    PROVE  LockedSeesAll'
<1> SUFFICES ASSUME NEW q \in Process, At(q, "locked")', NEW v \in There'
             PROVE  deploy'[q].latest # NoVersion /\ number'[v] <= number'[deploy'[q].latest]
  BY DEF LockedSeesAll
<1>1. v \in There /\ UNCHANGED number
  BY DEF RowsStay, catalog
<1>2. CASE q = p
  <2>1. deploy'[q].latest = Latest
    BY <1>2 DEF Moves
  <2>2. Latest \in There /\ number[v] <= number[Latest]
    BY <1>1, LatestIsGreatest DEF Tidy
  <2>3. Latest # NoVersion
    BY <2>2, Nothing DEF There
  <2> QED
    BY <1>1, <2>1, <2>2, <2>3
<1>3. CASE q # p
  <2>1. deploy'[q] = deploy[q]
    BY <1>3, MovesKeep
  <2> QED
    BY <1>1, <2>1 DEF Tidy, LockedSeesAll, At
<1> QED
  BY <1>2, <1>3

-----------------------------------------------------------------------------
(* The environment.                                                        *)

EnvironmentIsTyped ==
    /\ declared \in BOOLEAN /\ memory \subseteq Process
    /\ withdrawing \in [Operated -> {"idle", "unneeded"}] /\ excused \subseteq Version

LEMMA EnvironmentStays ==
    ASSUME Tidy, RowsStay, UNCHANGED environment
    PROVE  EnvironmentIsTyped' /\ Unguarded'
BY RowsStayNumbered DEF Tidy, Typed, EnvironmentIsTyped, Unguarded, environment

LEMMA RestartUnguarded ==
    ASSUME Tidy, NEW p \in Process, Restart(p)
    PROVE  EnvironmentIsTyped' /\ Unguarded'
<1>1. /\ withdrawing' = [q \in Operated |-> IF q = p THEN "idle" ELSE withdrawing[q]]
      /\ memory' = IF declared THEN memory \union {p} ELSE memory \ {p}
      /\ UNCHANGED <<declared, excused, version, content>>
  BY DEF Restart, catalog, vars
<1>2. UNCHANGED Binding
  BY <1>1 DEF Binding, There
<1>3. EnvironmentIsTyped'
  BY <1>1 DEF EnvironmentIsTyped, Tidy, Typed
<1>4. Unguarded'
  BY <1>1, <1>2 DEF Unguarded, Tidy
<1> QED
  BY <1>3, <1>4

LEMMA OperationsUnguarded ==
    ASSUME Tidy, NEW p \in Operated, Look(p) \/ Withdraw(p) \/ Declare(p)
    PROVE  EnvironmentIsTyped' /\ Unguarded'
<1>0. UNCHANGED Binding /\ Binding \subseteq Version /\ p \in Process
  BY Engines DEF Look, Withdraw, Declare, Binding, There, vars, catalog
<1>1. CASE Look(p)
  <2>1. Binding \subseteq excused'
    BY <1>1 DEF Look, IsUnneeded, Binding
  <2>2. UNCHANGED <<declared, memory>> /\ withdrawing' = [withdrawing EXCEPT ![p] = "unneeded"]
        /\ excused' = excused \union (Binding \ Relevant)
    BY <1>1 DEF Look
  <2> QED
    BY <1>0, <2>1, <2>2 DEF EnvironmentIsTyped, Unguarded, Tidy, Typed
<1>2. CASE Withdraw(p)
  <2>1. Binding \subseteq excused
    BY <1>2 DEF Withdraw, Tidy, Unguarded
  <2> QED
    BY <1>0, <1>2, <2>1 DEF Withdraw, EnvironmentIsTyped, Unguarded, Tidy, Typed
<1>3. CASE Declare(p)
  <2>1. declared' /\ UNCHANGED withdrawing /\ memory' = memory \union {p}
    BY <1>3 DEF Declare
  <2>2. \/ excused' = {} /\ \A q \in Operated : withdrawing[q] # "unneeded"
        \/ UNCHANGED excused
    BY <1>3 DEF Declare
  <2> QED
    BY <1>0, <2>1, <2>2 DEF EnvironmentIsTyped, Unguarded, Tidy, Typed
<1> QED
  BY <1>1, <1>2, <1>3

-----------------------------------------------------------------------------
(* The steps keep the invariant.                                           *)

LEMMA TidyAgain ==
    ASSUME Tidy, TypeOK', EnvironmentIsTyped', Unguarded', OneLocked', LockedSeesAll',
           DeployedIsIndexed', NumbersAreBounded', NumbersAreUnique',
           deploy' \in [Process -> Deploying], index' \in {"none", "invalid", "valid"},
           number' \in [Version -> Nat], content' \in [Version -> Content \union {NoBundle}]
    PROVE  Tidy'
BY DEF Tidy, Typed, EnvironmentIsTyped

LEMMA DeploymentsTidy ==
    ASSUME Tidy, TypeOK', NEW p \in Process,
           \/ Lock(p) \/ Reuse(p) \/ Create(p) \/ Built(p) \/ Probed(p) \/ DropInvalid(p)
           \/ Return(p) \/ DeployFails(p) \/ Restart(p) \/ (\E c \in Content : Check(p, c))
    PROVE  Tidy'
<1>1. UNCHANGED <<vars, catalog>>
  BY AsidesLeaveRows DEF Asides
<1>2. RowsStay /\ UNCHANGED There
  BY <1>1 DEF RowsStay, There, vars
<1>3. Moves(p)
  <2>1. Reuse(p) => Moves(p)
    BY CommittedMove DEF Reuse
  <2> QED
    BY <2>1, LocksMove, StatementsMove
<1>4. EnvironmentIsTyped' /\ Unguarded'
  <2>1. CASE Restart(p)
    BY <2>1, RestartUnguarded
  <2>2. CASE ~Restart(p)
    <3>1. UNCHANGED environment
      BY <2>2 DEF Lock, Reuse, Create, Built, Probed, DropInvalid, Return, DeployFails, Check
    <3> QED
      BY <1>2, <3>1, EnvironmentStays
  <2> QED
    BY <2>1, <2>2
<1>5. number' \in [Version -> Nat] /\ content' \in [Version -> Content \union {NoBundle}]
  BY <1>1 DEF catalog, Tidy, Typed
<1> QED
  BY <1>2, <1>3, <1>4, <1>5, TidyAgain, MovesKeep, RowsStayNumbered, LockedStillSeesAll

(* A step that moves no deployment and adds no row.                        *)
LEMMA OthersTidy ==
    ASSUME Tidy, TypeOK', RowsStay, UNCHANGED building, EnvironmentIsTyped', Unguarded'
    PROVE  Tidy'
<1>1. UNCHANGED <<deploy, index, number, content>>
  BY DEF RowsStay, building, catalog
<1>2. OneLocked' /\ DeployedIsIndexed'
  BY <1>1 DEF Tidy, OneLocked, DeployedIsIndexed, At
<1>3. LockedSeesAll'
  BY <1>1 DEF Tidy, LockedSeesAll, RowsStay, At
<1> QED
  BY <1>1, <1>2, <1>3, TidyAgain, RowsStayNumbered DEF Tidy, Typed

LEMMA InsertTidy ==
    ASSUME Tidy, TypeOK', NEW p \in Process, NEW v \in Version, Insert(p, v)
    PROVE  Tidy'
<1>1. /\ At(p, "locked") /\ version[v] = "none"
      /\ number' = [number EXCEPT ![v] = NextNumber(p)]
      /\ content' = [content EXCEPT ![v] = deploy[p].bundle]
      /\ Committed(p) /\ UNCHANGED <<index, declared, memory, withdrawing>>
      /\ version' = [version EXCEPT ![v] = "there"]
  BY DEF Insert, Deploy, counters
<1>2. There' = There \union {v} /\ v \notin There
  BY <1>1 DEF There, Tidy, TypeOK
<1>3. Moves(p) /\ ~At(p, "locked")'
  BY <1>1, CommittedMove
<1>4. deploy[p].bundle \in Content \union {NoBundle} /\ deploy[p].latest \in Version \union {NoVersion}
  BY DEF Tidy, Typed, Deploying
<1>5. NextNumber(p) \in Nat /\ \A w \in There : number[w] < NextNumber(p)
  <2>1. \A w \in There : deploy[p].latest # NoVersion /\ number[w] <= number[deploy[p].latest]
    BY <1>1 DEF Tidy, LockedSeesAll
  <2>2. deploy[p].latest # NoVersion => number[deploy[p].latest] \in Nat
    BY <1>4 DEF Tidy, Typed
  <2>3. \A w \in There : number[w] \in Nat
    BY DEF Tidy, Typed, There
  <2> QED
    BY <2>1, <2>2, <2>3 DEF NextNumber
<1> HIDE DEF NextNumber
<1>6. number'[v] = NextNumber(p) /\ \A w \in There : number'[w] = number[w]
  BY <1>1, <1>2 DEF Tidy, Typed, There
<1>7. NumbersAreUnique'
  <2> SUFFICES ASSUME NEW x \in There', NEW y \in There', x # y PROVE number'[x] # number'[y]
    BY DEF NumbersAreUnique
  <2>1. \A w \in There : number[w] \in Nat
    BY DEF Tidy, Typed, There
  <2> QED
    BY <1>2, <1>5, <1>6, <2>1 DEF Tidy, NumbersAreUnique
<1>8. NumbersAreBounded'
  <2>1. \A w \in There' : number'[w] <= NextNumber(p)
    <3>1. \A w \in There : number[w] \in Nat
      BY DEF Tidy, Typed, There
    <3> QED
      BY <1>2, <1>5, <1>6, <3>1
  <2> QED
    BY <1>5, <2>1 DEF NumbersAreBounded
<1>9. LockedSeesAll'
  <2>1. \A q \in Process : ~At(q, "locked")'
    BY <1>1, <1>3, MovesKeep DEF Tidy, OneLocked, At
  <2> QED
    BY <2>1 DEF LockedSeesAll, At
<1>10. EnvironmentIsTyped' /\ Unguarded'
  <2>1. excused' = IF declared /\ \A q \in Operated : withdrawing[q] # "unneeded"
                     THEN excused ELSE excused \union {v}
    BY DEF Insert
  <2>2. Binding' \subseteq Binding \union {v}
    BY <1>1, <1>2 DEF Binding, Tidy, Typed, There
  <2> QED
    BY <1>1, <2>1, <2>2 DEF EnvironmentIsTyped, Unguarded, Tidy, Typed
<1>11. number' \in [Version -> Nat] /\ content' \in [Version -> Content \union {NoBundle}]
  BY <1>1, <1>4, <1>5 DEF Tidy, Typed
<1> QED
  BY <1>3, <1>7, <1>8, <1>9, <1>10, <1>11, TidyAgain, MovesKeep

LEMMA NextIsTidy == Tidy /\ TypeOK' /\ [NextAll]_allVars => Tidy'
<1> SUFFICES ASSUME Tidy, TypeOK', [NextAll]_allVars PROVE Tidy'
  OBVIOUS
<1>1. CASE Rest
  <2>1. RowsStay /\ UNCHANGED <<environment, building>>
    BY <1>1, RestLeaves DEF Tidy, RowsStay
  <2> QED
    BY <2>1, OthersTidy, EnvironmentStays
<1>2. CASE \E p \in Process, v \in Version : Insert(p, v)
  BY <1>2, InsertTidy
<1>3. CASE \E p \in Operated : Look(p) \/ Withdraw(p) \/ Declare(p)
  <2>1. RowsStay /\ UNCHANGED building
    BY <1>3 DEF Look, Withdraw, Declare, RowsStay, There, vars
  <2> QED
    BY <1>3, <2>1, OthersTidy, OperationsUnguarded
<1>4. CASE \/ \E i \in Instance : Pick(i) \/ Freezes(i) \/ Repair(i)
          \/ UNCHANGED allVars
  <2>1. UNCHANGED <<environment, building, catalog, version>>
    BY <1>4 DEF Pick, Freezes, Repair, vars, allVars
  <2>2. RowsStay
    BY <2>1 DEF RowsStay, There
  <2> QED
    BY <2>1, <2>2, OthersTidy, EnvironmentStays
<1>5. CASE \E p \in Process :
             \/ Lock(p) \/ Reuse(p) \/ Create(p) \/ Built(p)
             \/ Probed(p) \/ DropInvalid(p) \/ Return(p) \/ DeployFails(p)
             \/ Restart(p)
             \/ \E c \in Content : Check(p, c)
  BY <1>5, DeploymentsTidy
<1> QED
  BY <1>1, <1>2, <1>3, <1>4, <1>5, StepsAre DEF Asides

LEMMA AlwaysTidy == SpecAll => []Tidy
<1>1. Guarded => TypeOK
  BY DEF Guarded
<1> QED
  BY <1>1, InitIsTidy, NextIsTidy, InitIsGuarded, NextIsGuarded, Refines, PTL DEF SpecAll, Spec

-----------------------------------------------------------------------------
(* For any number of engines and versions, whatever fails or is deleted    *)
(* meanwhile: no number is given twice (deploy_bundle under the key's      *)
(* advisory lock).                                                         *)
THEOREM NumbersNeverMeet == SpecAll => []NumbersAreUnique
<1>1. Tidy => NumbersAreUnique
  BY DEF Tidy
<1> QED
  BY <1>1, AlwaysTidy, PTL

(* A deployment that returned has a usable index, whichever engine built   *)
(* it and whatever a failed build left (build_declared_index).             *)
THEOREM ReturnedIsIndexed == SpecAll => []DeployedIsIndexed
<1>1. Tidy => DeployedIsIndexed
  BY DEF Tidy
<1> QED
  BY <1>1, AlwaysTidy, PTL

(* A version that is the latest, or runs, has its topic, save those let    *)
(* through (undeclare_topic, deploy_bundle).                               *)
THEOREM TopicsStay == SpecAll => []TopicsAreGuarded
<1>1. Tidy => TopicsAreGuarded
  BY DEF Tidy, Unguarded, TopicsAreGuarded
<1> QED
  BY <1>1, AlwaysTidy, PTL

-----------------------------------------------------------------------------
(* What Typed leaves out.                                                  *)
Counted ==
    /\ picked \subseteq Instance /\ frozen \subseteq Instance
    /\ deploys \in Nat /\ faults \in Nat

LEMMA NextIsCounted ==
    ASSUME Counted, [NextAll]_allVars PROVE Counted'
<1>1. CASE Rest
  <2>1. frozen' \subseteq frozen /\ UNCHANGED <<picked, deploys, faults>>
    BY <1>1 DEF Rest, StartPicked, Ends, Deletes, running, counters
  <2> QED
    BY <2>1 DEF Counted
<1>2. CASE \E p \in Process, v \in Version : Insert(p, v)
  BY <1>2 DEF Insert, Counted, running, counters
<1>3. CASE \/ \E p \in Operated : Look(p) \/ Withdraw(p) \/ Declare(p)
           \/ \E i \in Instance : Pick(i) \/ Freezes(i) \/ Repair(i)
           \/ UNCHANGED allVars
  BY <1>3 DEF Look, Withdraw, Declare, Pick, Freezes, Repair, Counted, running, counters, allVars
<1>4. CASE \E p \in Process :
             \/ Lock(p) \/ Reuse(p) \/ Create(p) \/ Built(p)
             \/ Probed(p) \/ DropInvalid(p) \/ Return(p) \/ DeployFails(p)
             \/ Restart(p)
             \/ \E c \in Content : Check(p, c)
  <2>1. /\ UNCHANGED running /\ deploys' \in {deploys, deploys + 1}
        /\ faults' \in {faults, faults + 1}
    BY <1>4 DEF Lock, Reuse, Create, Built, Probed, DropInvalid, Return, DeployFails, Restart,
                Check, counters
  <2> QED
    BY <2>1 DEF Counted, running
<1> QED
  BY <1>1, <1>2, <1>3, <1>4, StepsAre DEF Asides

(* Rows, deployments, the environment and the instances have their types   *)
(* throughout (deploy_bundle, undeclare_topic).                            *)
THEOREM TypesStay == SpecAll => []TypeOKAll
<1>1. InitAll => Counted
  BY DEF InitAll, Counted
<1>2. Counted /\ [NextAll]_allVars => Counted'
  BY NextIsCounted
<1>3. Tidy /\ Counted => TypeOKAll
  BY DEF Tidy, Typed, Counted, TypeOKAll
<1> QED
  BY <1>1, <1>2, <1>3, AlwaysTidy, PTL DEF SpecAll
=============================================================================
