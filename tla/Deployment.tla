----------------------------- MODULE Deployment -----------------------------
(***************************************************************************)
(* Where the versions of a key come from: deploy_bundle checks a bundle    *)
(* against the environment, allocates a version under the key's lock, and  *)
(* builds the declared indexes after the commit                            *)
(* (crates/rbpmn-engine/src/deploy.rs, tasks.rs), while versions are       *)
(* deleted (DefinitionDeletion), topics declared and withdrawn (lib.rs),   *)
(* and instances started, frozen and repaired.                             *)
(*                                                                         *)
(* One key, one topic and one declared index.  Each action is a            *)
(* transaction, or what happens in one between two locks or waits.         *)
(***************************************************************************)
EXTENDS DefinitionDeletion

CONSTANTS
    Content,        \* bundles: diagram, manifest and decisions
    BindsTopic,     \* those that bind a task to the topic
    DeclaresIndex,  \* those that declare the index
    Process,        \* engines on the database
    Operated,       \* those asked to declare and to undeclare the topic
    NoVersion,
    NoBundle,
    MaxDeploys,     \* bounds the deployments
    MaxFaults       \* bounds the failures and restarts

ASSUME Bundles == BindsTopic \subseteq Content /\ DeclaresIndex \subseteq Content
ASSUME Engines == Operated \subseteq Process
ASSUME Nothing == NoVersion \notin Version /\ NoBundle \notin Content
ASSUME Bounds == MaxDeploys \in Nat /\ MaxFaults \in Nat

VARIABLES
    number,     \* the version number of each row, 0 before it is there
    content,    \* the bundle of each row
    picked,     \* instances whose start has read the latest version
    frozen,     \* failed instances
    declared,   \* the topic has its row in rbpmn_environment_topic
    memory,     \* the engines that hold it declared in memory
    withdrawing,\* what undeclare_topic is at on each
    deploy,     \* what each engine deploys, and how far it is
    index,      \* the index in the catalogue
    excused,    \* versions that the protection of topics lets through
    deploys,
    faults

catalog     == <<number, content>>
running     == <<picked, frozen>>
environment == <<declared, memory, withdrawing, excused>>
building    == <<deploy, index>>
counters    == <<deploys, faults>>
allVars == <<vars, catalog, running, environment, building, counters>>

Deploying == [phase : {"idle", "checked", "locked", "committed", "building", "probing", "done"},
              bundle : Content \union {NoBundle}, latest : Version \union {NoVersion}]

NoDeploy == [phase |-> "idle", bundle |-> NoBundle, latest |-> NoVersion]

(* The row of the greatest number, as a statement sees it.                 *)
Latest ==
    IF There = {} THEN NoVersion
    ELSE CHOOSE v \in There : \A w \in There : number[w] <= number[v]

Active(i) == instance[i] = "live" /\ i \notin frozen

(* The versions whose manifests still matter.                              *)
Relevant == {v \in There : v = Latest \/ \E i \in Of(v) : Active(i)}

Binding == {v \in There : content[v] \in BindsTopic}

-----------------------------------------------------------------------------
(* deploy_bundle.                                                          *)

At(p, phase) == deploy[p].phase = phase

MovesTo(p, phase) == deploy' = [deploy EXCEPT ![p].phase = phase]

Covered(p) == declared \/ p \in memory

(* The verdict on the bundle, and the link step.                           *)
Check(p, c) ==
    /\ At(p, "idle") /\ (c \in BindsTopic => Covered(p))
    /\ deploys < MaxDeploys /\ deploys' = deploys + 1
    /\ deploy' = [deploy EXCEPT ![p] = [phase |-> "checked", bundle |-> c, latest |-> NoVersion]]
    /\ UNCHANGED <<vars, catalog, running, environment, index, faults>>

(* Mutant: the key is not locked.                                          *)
NeverHeldBack(p) == TRUE

(* One deployment of the key at a time.                                    *)
HasKeyLock(p) == \A q \in Process \ {p} : ~At(q, "locked")

Lock(p) ==
    /\ At(p, "checked") /\ HasKeyLock(p)
    /\ deploy' = [deploy EXCEPT ![p].phase = "locked", ![p].latest = Latest]
    /\ UNCHANGED <<vars, catalog, running, environment, index, counters>>

IsLatest(p) == deploy[p].latest # NoVersion /\ content[deploy[p].latest] = deploy[p].bundle

(* What is left to do after the commit: the index, if there is one.        *)
Committed(p) ==
    deploy' = [deploy EXCEPT ![p].latest = NoVersion, ![p].phase =
                  IF deploy[p].bundle \in DeclaresIndex THEN "committed" ELSE "done"]

Reuse(p) ==
    /\ At(p, "locked") /\ IsLatest(p)
    /\ Committed(p)
    /\ UNCHANGED <<vars, catalog, running, environment, index, counters>>

NextNumber(p) == IF deploy[p].latest = NoVersion THEN 1 ELSE number[deploy[p].latest] + 1

(* A withdrawal that has looked does not see the new version.              *)
Insert(p, v) ==
    /\ At(p, "locked") /\ ~IsLatest(p)
    /\ Deploy(v)
    /\ number' = [number EXCEPT ![v] = NextNumber(p)]
    /\ content' = [content EXCEPT ![v] = deploy[p].bundle]
    /\ Committed(p)
    /\ excused' = IF declared /\ \A q \in Operated : withdrawing[q] # "unneeded"
                    THEN excused ELSE excused \union {v}
    /\ UNCHANGED <<running, declared, memory, withdrawing, index, counters>>

-----------------------------------------------------------------------------
(* The declared index, one build at a time: CREATE INDEX CONCURRENTLY IF   *)
(* NOT EXISTS, which leaves an invalid index when it is interrupted.       *)

HasBuildSlot(p) == \A q \in Process \ {p} : ~(At(q, "building") \/ At(q, "probing"))

Create(p) ==
    /\ At(p, "committed") /\ HasBuildSlot(p)
    /\ MovesTo(p, IF index = "none" THEN "building" ELSE "probing")
    /\ index' = IF index = "none" THEN "invalid" ELSE index
    /\ UNCHANGED <<vars, catalog, running, environment, counters>>

Built(p) ==
    /\ At(p, "building")
    /\ MovesTo(p, "probing") /\ index' = "valid"
    /\ UNCHANGED <<vars, catalog, running, environment, counters>>

(* Mutant: an index that is there is taken for built.                      *)
Exists(p) == index # "none"

IsValid(p) == index = "valid"

Probed(p) ==
    /\ At(p, "probing") /\ IsValid(p)
    /\ MovesTo(p, "done")
    /\ UNCHANGED <<vars, catalog, running, environment, index, counters>>

(* What an interrupted build left is dropped, and the deployment fails.    *)
DropInvalid(p) ==
    /\ At(p, "probing") /\ ~IsValid(p)
    /\ deploy' = [deploy EXCEPT ![p] = NoDeploy] /\ index' = "none"
    /\ UNCHANGED <<vars, catalog, running, environment, counters>>

Return(p) ==
    /\ At(p, "done") /\ deploy' = [deploy EXCEPT ![p] = NoDeploy]
    /\ UNCHANGED <<vars, catalog, running, environment, index, counters>>

(* A statement fails, or no slot comes free: what is committed stays.      *)
DeployFails(p) ==
    /\ ~At(p, "idle") /\ ~At(p, "done") /\ faults < MaxFaults /\ faults' = faults + 1
    /\ deploy' = [deploy EXCEPT ![p] = NoDeploy]
    /\ UNCHANGED <<vars, catalog, running, environment, index, deploys>>

-----------------------------------------------------------------------------
(* The environment.                                                        *)

(* declare_topic.  A withdrawal that has looked may still take it away.    *)
Declare(p) ==
    /\ declared' = TRUE /\ memory' = memory \union {p}
    /\ excused' = IF \A q \in Operated : withdrawing[q] # "unneeded"
                    THEN {} ELSE excused
    /\ UNCHANGED <<vars, catalog, running, withdrawing, building, counters>>

(* Mutant: only the latest version counts.                                 *)
LatestOnly(v) == v # Latest \/ content[v] \notin BindsTopic

IsUnneeded(v) == v \notin Relevant \/ content[v] \notin BindsTopic

(* undeclare_topic: no relevant version needs it; ...                      *)
Look(p) ==
    /\ withdrawing[p] = "idle" /\ \A v \in There : IsUnneeded(v)
    /\ withdrawing' = [withdrawing EXCEPT ![p] = "unneeded"]
    /\ excused' = excused \union (Binding \ Relevant)
    /\ UNCHANGED <<vars, catalog, running, declared, memory, building, counters>>

(* ... its row goes, and this engine, no other, forgets it.                *)
Withdraw(p) ==
    /\ withdrawing[p] = "unneeded"
    /\ withdrawing' = [withdrawing EXCEPT ![p] = "idle"]
    /\ declared' = FALSE /\ memory' = memory \ {p}
    /\ UNCHANGED <<vars, catalog, running, excused, building, counters>>

(* The process ends, and starts again with the persisted topics.           *)
Restart(p) ==
    /\ faults < MaxFaults /\ faults' = faults + 1
    /\ deploy' = [deploy EXCEPT ![p] = NoDeploy]
    /\ withdrawing' = [q \in Operated |-> IF q = p THEN "idle" ELSE withdrawing[q]]
    /\ memory' = IF declared THEN memory \union {p} ELSE memory \ {p}
    /\ UNCHANGED <<vars, catalog, running, declared, excused, index, deploys>>

-----------------------------------------------------------------------------
(* Instances.  A start reads the latest version and inserts the instance   *)
(* in two statements.                                                      *)

Pick(i) ==
    /\ instance[i] = "none" /\ i \notin picked /\ RunsOn[i] = Latest
    /\ picked' = picked \union {i}
    /\ UNCHANGED <<vars, catalog, frozen, environment, building, counters>>

StartPicked(i) ==
    /\ i \in picked /\ Start(i)
    /\ UNCHANGED <<catalog, running, environment, building, counters>>

Freezes(i) ==
    /\ Active(i) /\ frozen' = frozen \union {i}
    /\ UNCHANGED <<vars, catalog, picked, environment, building, counters>>

Repair(i) ==
    /\ i \in frozen /\ frozen' = frozen \ {i}
    /\ UNCHANGED <<vars, catalog, picked, environment, building, counters>>

Ends(i) ==
    /\ End(i) /\ frozen' = frozen \ {i}
    /\ UNCHANGED <<catalog, picked, environment, building, counters>>

(* Everything of DefinitionDeletion that leaves the rest alone.            *)
Deletes ==
    /\ \/ \E i \in Instance : Retire(i)
       \/ FindKey \/ SetPolicy
       \/ \E d \in Deleter :
            \/ ReadRetired(d) \/ Remove(d) \/ DecidePolicy(d) \/ Commit(d) \/ Abort(d)
            \/ \E v \in Version : CountInstances(d, v)
    /\ UNCHANGED <<catalog, running, environment, building, counters>>

-----------------------------------------------------------------------------
InitAll ==
    /\ Init
    /\ number = [v \in Version |-> 0]
    /\ content = [v \in Version |-> NoBundle]
    /\ picked = {} /\ frozen = {}
    /\ declared = FALSE /\ memory = {} /\ withdrawing = [p \in Operated |-> "idle"]
    /\ deploy = [p \in Process |-> NoDeploy]
    /\ index = "none" /\ excused = {} /\ deploys = 0 /\ faults = 0

NextAll ==
    \/ \E p \in Process :
        \/ Lock(p) \/ Reuse(p) \/ Create(p) \/ Built(p)
        \/ Probed(p) \/ DropInvalid(p) \/ Return(p) \/ DeployFails(p)
        \/ Restart(p)
        \/ \E c \in Content : Check(p, c)
        \/ \E v \in Version : Insert(p, v)
    \/ \E p \in Operated : Look(p) \/ Withdraw(p) \/ Declare(p)
    \/ \E i \in Instance : Pick(i) \/ StartPicked(i) \/ Freezes(i) \/ Repair(i) \/ Ends(i)
    \/ Deletes

SpecAll == InitAll /\ [][NextAll]_allVars

-----------------------------------------------------------------------------
(* The variables have their types; a row has a number and a bundle.        *)
TypeOKAll ==
    /\ TypeOK
    /\ number \in [Version -> Nat] /\ content \in [Version -> Content \union {NoBundle}]
    /\ picked \subseteq Instance /\ frozen \subseteq Instance
    /\ declared \in BOOLEAN /\ memory \subseteq Process
    /\ withdrawing \in [Operated -> {"idle", "unneeded"}]
    /\ deploy \in [Process -> Deploying]
    /\ index \in {"none", "invalid", "valid"} /\ excused \subseteq Version /\ deploys \in Nat /\ faults \in Nat

(* Concurrent deployments of a key never meet at a version number: each    *)
(* gets its own, also while versions are deleted between its read and its  *)
(* insert, and the number of a deleted version may return.                 *)
NumbersAreUnique ==
    \A v, w \in There : v # w => number[v] # number[w]

(* A deployment that returned has its index, and the index is usable:      *)
(* whichever of the deployments of a bundle built it, and whatever the     *)
(* failure of an earlier one left behind.                                  *)
DeployedIsIndexed ==
    \A p \in Process :
        At(p, "done") /\ deploy[p].bundle \in DeclaresIndex => index = "valid"

(* A version that is the latest, or runs, has its topic declared.  Let     *)
(* through are a version that was deployed while the topic was being       *)
(* withdrawn, or by an engine that still remembered it, and one that       *)
(* mattered to nobody when the topic was withdrawn, and does again: a      *)
(* newer version was deleted, a failed instance repaired, or a start was   *)
(* under way.                                                              *)
TopicsAreGuarded ==
    (Relevant \intersect Binding) \ excused # {} => declared
=============================================================================
