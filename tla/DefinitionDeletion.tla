------------------------- MODULE DefinitionDeletion -------------------------
(***************************************************************************)
(* Deleting the versions of one definition key, while instances of them    *)
(* are started, ended and retired, versions are deployed, and the key's    *)
(* retention policy is set (crates/rbpmn-engine/src/retention.rs).         *)
(*                                                                         *)
(* delete_definition is one transaction of several statements, each of     *)
(* which sees what was committed before it; it locks nothing before the    *)
(* row is deleted.  Each action here is one statement.                     *)
(***************************************************************************)
EXTENDS Integers, FiniteSets

CONSTANTS
    Version,    \* rows of rbpmn_definition with this key
    Instance,   \* instances of them
    RunsOn,     \* the version of each
    Deleter     \* callers of delete_definition

ASSUME Pinned == RunsOn \in [Instance -> Version] /\ IsFiniteSet(Instance)

VARIABLES
    version,    \* of each row: none yet, there, deleted
    retired,    \* its retired_instances
    instance,   \* of each: none yet, live, over, retired (the row is gone)
    policy,     \* there is a row for the key in rbpmn_retention_policy
    setting,    \* set_retention_policy has found the key known
    call,       \* what each deleter is at; the other versions when it began
    seen        \* the instances that had been started then

vars == <<version, retired, instance, policy, setting, call, seen>>

Call == [phase : {"idle", "unused", "unretired", "removed", "decided"},
         version : Version, others : SUBSET Version, drops : BOOLEAN]

There == {v \in Version : version[v] = "there"}
Of(v) == {i \in Instance : RunsOn[i] = v}
Started(v) == {i \in Of(v) : instance[i] # "none"}
Gone(v) == {i \in Of(v) : instance[i] = "retired"}
Rows(v) == {i \in Of(v) : instance[i] \in {"live", "over"}}

(* The deleters that have deleted this row and have not committed.         *)
Holding(v) == {d \in Deleter : call[d].phase \in {"removed", "decided"} /\ call[d].version = v}

-----------------------------------------------------------------------------
Deploy(v) ==
    /\ version[v] = "none"
    /\ version' = [version EXCEPT ![v] = "there"]
    /\ UNCHANGED <<retired, instance, policy, setting, call, seen>>

(* Mutant: there is no foreign key.                                        *)
Unreferenced(v) == {}

(* The foreign key waits for whoever is deleting the definition.           *)
Locked(v) == Holding(v)

Start(i) ==
    /\ instance[i] = "none" /\ RunsOn[i] \in There /\ Locked(RunsOn[i]) = {}
    /\ instance' = [instance EXCEPT ![i] = "live"]
    /\ UNCHANGED <<version, retired, policy, setting, call, seen>>

End(i) ==
    /\ instance[i] = "live"
    /\ instance' = [instance EXCEPT ![i] = "over"]
    /\ UNCHANGED <<version, retired, policy, setting, call, seen>>

Counts(v) == retired' = [retired EXCEPT ![v] = @ + 1]

(* A sweep, or delete_instance: the record goes, and is counted.           *)
Retire(i) ==
    /\ instance[i] = "over"
    /\ instance' = [instance EXCEPT ![i] = "retired"]
    /\ Counts(RunsOn[i])
    /\ UNCHANGED <<version, policy, setting, call, seen>>

(* set_retention_policy: the key is known, ...                             *)
FindKey ==
    /\ ~setting /\ There # {} /\ setting' = TRUE
    /\ UNCHANGED <<version, retired, instance, policy, call, seen>>

(* ... and the row is written, after whoever is deleting it.               *)
SetPolicy ==
    /\ setting /\ \A d \in Deleter : call[d].phase = "decided" => ~call[d].drops
    /\ setting' = FALSE /\ policy' = TRUE
    /\ UNCHANGED <<version, retired, instance, call, seen>>

-----------------------------------------------------------------------------
(* delete_definition.                                                      *)

Goes(d, phase) == call' = [call EXCEPT ![d].phase = phase]

Rests(d) == call' = [call EXCEPT ![d].phase = "idle", ![d].others = {}, ![d].drops = FALSE]

(* The version is there, and no instance refers to it.                     *)
CountInstances(d, v) ==
    /\ call[d].phase = "idle" /\ v \in There /\ Rows(v) = {}
    /\ call' = [call EXCEPT ![d] = [phase |-> "unused", version |-> v,
                                    others |-> There \ {v}, drops |-> FALSE]]
    /\ seen' = [seen EXCEPT ![d] = Started(v)]
    /\ UNCHANGED <<version, retired, instance, policy, setting>>

(* Mutant: what was retired does not count.                                *)
NoRows(v) == Rows(v) = {}

NoneRetired(v) == retired[v] = 0

ReadRetired(d) ==
    /\ call[d].phase = "unused" /\ NoneRetired(call[d].version)
    /\ Goes(d, "unretired")
    /\ UNCHANGED <<version, retired, instance, policy, setting, seen>>

(* The foreign key refuses while a row refers to it; another deletion of   *)
(* the same row is waited for.                                             *)
Remove(d) ==
    /\ call[d].phase = "unretired"
    /\ Rows(call[d].version) = {} /\ Holding(call[d].version) = {}
    /\ Goes(d, "removed")
    /\ UNCHANGED <<version, retired, instance, policy, setting, seen>>

(* Mutant: the other versions are not looked for.                          *)
NotLooked(v) == TRUE

(* No other version is there, as far as the transaction can see.           *)
LastVersion(v) == There \subseteq {v}

DecidePolicy(d) ==
    /\ call[d].phase = "removed"
    /\ call' = [call EXCEPT ![d].phase = "decided",
                            ![d].drops = policy /\ LastVersion(call[d].version)]
    /\ UNCHANGED <<version, retired, instance, policy, setting, seen>>

Commit(d) ==
    /\ call[d].phase = "decided"
    /\ version' = [version EXCEPT ![call[d].version] = "deleted"]
    /\ policy' = (policy /\ ~call[d].drops)
    /\ Rests(d) /\ seen' = [seen EXCEPT ![d] = {}]
    /\ UNCHANGED <<retired, instance, setting>>

(* Refused, or failed.                                                     *)
Abort(d) ==
    /\ call[d].phase # "idle" /\ Rests(d) /\ seen' = [seen EXCEPT ![d] = {}]
    /\ UNCHANGED <<version, retired, instance, policy, setting>>

-----------------------------------------------------------------------------
Init ==
    /\ version = [v \in Version |-> "none"] /\ retired = [v \in Version |-> 0]
    /\ instance = [i \in Instance |-> "none"]
    /\ policy = FALSE /\ setting = FALSE
    /\ call \in [Deleter -> [phase : {"idle"}, version : Version, others : {{}}, drops : {FALSE}]]
    /\ seen = [d \in Deleter |-> {}]

Next ==
    \/ \E v \in Version : Deploy(v)
    \/ \E i \in Instance : Start(i) \/ End(i) \/ Retire(i)
    \/ FindKey \/ SetPolicy
    \/ \E d \in Deleter :
        \/ ReadRetired(d) \/ Remove(d) \/ DecidePolicy(d) \/ Commit(d) \/ Abort(d)
        \/ \E v \in Version : CountInstances(d, v)

Spec == Init /\ [][Next]_vars

-----------------------------------------------------------------------------
(* Rows and calls have their types, and a version counts what was retired. *)
TypeOK ==
    /\ version \in [Version -> {"none", "there", "deleted"}]
    /\ retired \in [Version -> Nat]
    /\ instance \in [Instance -> {"none", "live", "over", "retired"}]
    /\ policy \in BOOLEAN /\ setting \in BOOLEAN
    /\ call \in [Deleter -> Call] /\ seen \in [Deleter -> SUBSET Instance]
    /\ \A v \in Version : retired[v] = Cardinality(Gone(v))

(* The model of an instance is there as long as its row is: no history is  *)
(* read without it.                                                        *)
RowsHaveTheirModel ==
    \A v \in Version : Rows(v) # {} => version[v] = "there"

(* A version is not deleted when an instance of it had been started before *)
(* the deletion was asked for, whatever became of it since.                *)
EarlierRecordsBlock ==
    \A d \in Deleter : call[d].phase \in {"removed", "decided"} => seen[d] = {}

(* The policy outlives the versions: it goes only when every other version *)
(* that was there as the deletion began has gone before.                   *)
PolicyOutlivesVersions ==
    [][policy /\ ~policy' =>
        \E d \in Deleter :
            call[d].phase = "decided" /\ call[d].others \intersect There' = {}]_vars
=============================================================================
