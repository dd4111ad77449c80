------------------------------ MODULE Retention ------------------------------
(***************************************************************************)
(* The deletion of history: sweeps that plan, archive and delete the       *)
(* records that are due, and calls that delete one instance by name        *)
(* (crates/rbpmn-engine/src/retention.rs), while instances are stepped and *)
(* repaired, the scheduler notes failures, and policies are changed.       *)
(*                                                                         *)
(* A sink is registered.  No transaction is open while it works, and none  *)
(* spans the statements of a plan, so everything may change in between:    *)
(* each action here is one statement or one transaction.                   *)
(*                                                                         *)
(* An event is counted, not described: a log is append-only, so two copies *)
(* of the same size are the same copy.                                     *)
(***************************************************************************)
EXTENDS Integers, FiniteSets, FiniteSetsExt

CONSTANTS
    Instance,       \* instances
    Key,            \* definition keys
    KeyOf,          \* the key of each instance
    DefaultAge,     \* the sweeper's default policy
    Sweeper,        \* the processes that sweep
    Caller,         \* those that delete by name
    MaxInstances,   \* instances considered in a pass
    MaxEvents,      \* events in a pass
    MaxSteps,       \* bound: the steps of an instance
    MaxNotes,       \* bound: the notes of an instance
    MaxFailures     \* bound: passes and calls that fail

Ages == {"forever", "finite"}

ASSUME Policies == KeyOf \in [Instance -> Key] /\ DefaultAge \in Ages
ASSUME Limits == {MaxInstances, MaxEvents, MaxSteps, MaxNotes, MaxFailures} \subseteq Nat
ASSUME Rows == IsFiniteSet(Instance) /\ Instance # {}
ASSUME Nobody == 0 \notin Sweeper

VARIABLES
    status,     \* of each instance; "swept" and "erased" have no row left
    log,        \* its events, or those it had when it was deleted
    endedAt,    \* the order of completed_at, 0 before the end
    old,        \* those that ended longer ago than the finite age
    override,   \* rbpmn_retention_policy
    failing,    \* timers that could not be fired, the note not written yet
    lease,      \* the owner of rbpmn_retention_lease, if any
    pass,       \* what each sweeper is at
    call,       \* what each caller is at
    latest,     \* the last record of each instance the sink was handed
    most,       \* the most steps and the most notes it was handed
    failures    \* passes and calls that failed

rows == <<status, log, endedAt, old, failing>>
sink == <<latest, most>>
vars == <<rows, override, lease, pass, call, sink, failures>>

Copy    == [steps : Nat, notes : Nat]
Nothing == [steps |-> 0, notes |-> 0]
Size(copy) == copy.steps + copy.notes

Pass == [phase : {"idle", "claimed", "candidates", "counted", "headers", "loaded",
                  "archived", "done"},
         batch : SUBSET Instance, copies : [Instance -> Copy], lapsed : BOOLEAN]
Call == [phase : {"idle", "loaded", "archived", "changed"},
         instance : Instance, copy : Copy, again : BOOLEAN]

Resting == [phase |-> "idle", batch |-> {}, copies |-> [i \in Instance |-> Nothing],
            lapsed |-> FALSE]
NoCall  == [phase |-> "idle", instance |-> CHOOSE i \in Instance : TRUE,
            copy |-> Nothing, again |-> FALSE]

Present(i) == status[i] \in {"active", "failed", "ended"}

-----------------------------------------------------------------------------
(* The rest of the engine.                                                 *)

Stamps(i, to) ==
    endedAt' = IF to = "ended"
                 THEN [endedAt EXCEPT ![i] = 1 + Cardinality({j \in Instance : endedAt[j] # 0})]
                 ELSE endedAt

(* A step, or a repair of a failed instance: it appends events.            *)
Step(i) ==
    /\ status[i] \in {"active", "failed"} /\ log[i].steps < MaxSteps
    /\ log' = [log EXCEPT ![i].steps = @ + 1]
    /\ \E to \in {"active", "failed", "ended"} :
        status' = [status EXCEPT ![i] = to] /\ Stamps(i, to)
    /\ UNCHANGED <<old, override, failing, lease, pass, call, sink, failures>>

(* Time passes.                                                            *)
GrowOld(i) ==
    /\ endedAt[i] # 0 /\ i \notin old
    /\ old' = old \union {i}
    /\ UNCHANGED <<status, log, endedAt, override, failing, lease, pass, call, sink, failures>>

(* A timer of an active instance cannot be fired, ...                      *)
FireFails(i) ==
    /\ status[i] = "active" /\ i \notin failing /\ log[i].notes < MaxNotes
    /\ failing' = failing \union {i}
    /\ UNCHANGED <<status, log, endedAt, old, override, lease, pass, call, sink, failures>>

(* ... which is noted some time later, if the instance is still there.     *)
Note(i) ==
    /\ i \in failing /\ failing' = failing \ {i}
    /\ log' = IF Present(i) THEN [log EXCEPT ![i].notes = @ + 1] ELSE log
    /\ UNCHANGED <<status, endedAt, old, override, lease, pass, call, sink, failures>>

SetPolicy(k, age) ==
    /\ override' = [override EXCEPT ![k] = age]
    /\ UNCHANGED <<rows, lease, pass, call, sink, failures>>

-----------------------------------------------------------------------------
(* The sweep.                                                              *)

Age(i) == IF override[KeyOf[i]] = "unset" THEN DefaultAge ELSE override[KeyOf[i]]

Due(i) == status[i] = "ended" /\ i \in old /\ Age(i) = "finite"

Goes(s, phase) == pass' = [pass EXCEPT ![s].phase = phase]

(* The lease runs out by the clock, whatever its owner is doing.           *)
Lapse(s) ==
    /\ lease = s /\ ~pass[s].lapsed
    /\ pass' = [pass EXCEPT ![s].lapsed = TRUE]
    /\ UNCHANGED <<rows, override, lease, call, sink, failures>>

(* Mutant: only a lease that was given back is taken.                      *)
ClaimFree(s) ==
    /\ pass[s].phase = "idle" /\ lease = 0
    /\ lease' = s
    /\ pass' = [pass EXCEPT ![s].phase = "claimed", ![s].lapsed = FALSE]
    /\ UNCHANGED <<rows, override, call, sink, failures>>

Claim(s) ==
    /\ pass[s].phase = "idle"
    /\ lease = 0 \/ (lease \in Sweeper /\ pass[lease].lapsed)
    /\ lease' = s
    /\ pass' = [pass EXCEPT ![s].phase = "claimed", ![s].lapsed = FALSE]
    /\ UNCHANGED <<rows, override, call, sink, failures>>

Sooner(i, j) == endedAt[i] < endedAt[j]

(* What is due, oldest first.                                              *)
Candidates(s) ==
    /\ pass[s].phase = "claimed"
    /\ LET due   == {i \in Instance : Due(i)}
           first == {i \in due : Cardinality({j \in due : Sooner(j, i)}) < MaxInstances}
       IN pass' = [pass EXCEPT ![s].phase = IF first = {} THEN "done" ELSE "candidates",
                               ![s].batch = first]
    /\ UNCHANGED <<rows, override, lease, call, sink, failures>>

(* A record that alone exceeds the ceiling is skipped; of the others, as   *)
(* many as fit together.                                                   *)
Chosen(batch) ==
    LET n(i) == IF Present(i) THEN Size(log[i]) ELSE 0
        fits == {i \in batch : n(i) <= MaxEvents}
    IN {i \in fits : MapThenSumSet(n, {j \in fits : ~Sooner(i, j)}) <= MaxEvents}

Count(s) ==
    /\ pass[s].phase = "candidates"
    /\ LET chosen == Chosen(pass[s].batch) IN
        pass' = [pass EXCEPT ![s].phase = IF chosen = {} THEN "done" ELSE "counted",
                             ![s].batch = chosen]
    /\ UNCHANGED <<rows, override, lease, call, sink, failures>>

Headers(s) ==
    /\ pass[s].phase = "counted"
    /\ LET found == {i \in pass[s].batch : Present(i)} IN
        pass' = [pass EXCEPT ![s].phase = IF found = {} THEN "done" ELSE "headers",
                             ![s].batch = found]
    /\ UNCHANGED <<rows, override, lease, call, sink, failures>>

Histories(s) ==
    /\ pass[s].phase = "headers"
    /\ pass' = [pass EXCEPT ![s].phase = "loaded",
                            ![s].copies = [i \in Instance |->
                                IF i \in pass[s].batch /\ Present(i) THEN log[i] ELSE Nothing]]
    /\ UNCHANGED <<rows, override, lease, call, sink, failures>>

Joined(a, b) == [steps |-> IF a.steps > b.steps THEN a.steps ELSE b.steps,
                 notes |-> IF a.notes > b.notes THEN a.notes ELSE b.notes]

(* The sink keeps the later record of an instance.                         *)
Delivers(batch, copies) ==
    /\ latest' = [i \in Instance |-> IF i \in batch THEN copies[i] ELSE latest[i]]
    /\ most' = [i \in Instance |-> IF i \in batch THEN Joined(most[i], copies[i]) ELSE most[i]]

Archive(s) ==
    /\ pass[s].phase = "loaded"
    /\ Delivers(pass[s].batch, pass[s].copies)
    /\ Goes(s, "archived")
    /\ UNCHANGED <<rows, override, lease, call, failures>>

Removes(gone, how) ==
    /\ status' = [i \in Instance |-> IF i \in gone THEN how ELSE status[i]]
    /\ old' = old \ gone
    /\ UNCHANGED <<log, endedAt, failing>>

(* Mutants: the deletion trusts the plan; or it comes before the upload.   *)
TrustsThePlan(s, taken) ==
    /\ pass[s].phase = "archived"
    /\ taken \subseteq {i \in pass[s].batch : status[i] = "ended"}
    /\ Removes(taken, "swept")
    /\ Goes(s, "done")
    /\ UNCHANGED <<override, lease, call, sink, failures>>
DeletesFirst(s, taken) ==
    /\ pass[s].phase \in {"loaded", "archived"}
    /\ taken \subseteq {i \in pass[s].batch : Due(i)}
    /\ Removes(taken, "swept")
    /\ Goes(s, IF pass[s].phase = "loaded" THEN "loaded" ELSE "done")
    /\ UNCHANGED <<override, lease, call, sink, failures>>

(* Under the row locks that nobody else holds, whatever is still due.      *)
Execute(s, taken) ==
    /\ pass[s].phase = "archived"
    /\ taken \subseteq {i \in pass[s].batch : Due(i)}
    /\ Removes(taken, "swept")
    /\ Goes(s, "done")
    /\ UNCHANGED <<override, lease, call, sink, failures>>

(* Mutant: whoever finishes frees the lease.                               *)
FreesAny(s) == lease' = 0

Frees(s) == lease' = IF lease = s THEN 0 ELSE lease

Release(s) ==
    /\ pass[s].phase = "done"
    /\ Frees(s)
    /\ pass' = [pass EXCEPT ![s] = [Resting EXCEPT !.lapsed = pass[s].lapsed]]
    /\ UNCHANGED <<rows, override, call, sink, failures>>

Fails == failures < MaxFailures /\ failures' = failures + 1

(* The sink, or the database, fails the pass: the lease is freed.          *)
PassFails(s) ==
    /\ pass[s].phase \notin {"idle", "done"} /\ Fails
    /\ Goes(s, "done")
    /\ UNCHANGED <<rows, override, lease, call, sink>>

(* The process dies: the lease stays.                                      *)
Crash(s) ==
    /\ pass[s].phase # "idle" /\ Fails
    /\ pass' = [pass EXCEPT ![s] = [Resting EXCEPT !.lapsed = pass[s].lapsed]]
    /\ UNCHANGED <<rows, override, lease, call, sink>>

-----------------------------------------------------------------------------
(* Deleting one instance by name.                                          *)

Deletable(i) == status[i] \in {"ended", "failed"}

(* Header and history in one snapshot, the status already in order.  The   *)
(* probe before it refuses what this would.                                *)
Snapshot(c, i) ==
    /\ Deletable(i)
    /\ \/ call[c].phase = "idle"
       \/ call[c].phase = "changed" /\ call[c].instance = i
    /\ call' = [call EXCEPT ![c] = [phase |-> "loaded", instance |-> i, copy |-> log[i],
                                    again |-> call[c].phase = "changed"]]
    /\ UNCHANGED <<rows, override, lease, pass, sink, failures>>

Deliver(c) ==
    /\ call[c].phase = "loaded"
    /\ Delivers({call[c].instance}, [i \in Instance |-> call[c].copy])
    /\ call' = [call EXCEPT ![c].phase = "archived"]
    /\ UNCHANGED <<rows, override, lease, pass, failures>>

(* Mutant: only the status is checked again.                               *)
StatusOnly(c) == Deletable(call[c].instance)

(* The archived record is still the whole record.                          *)
Unchanged(c) ==
    Deletable(call[c].instance) /\ Size(log[call[c].instance]) = Size(call[c].copy)

Erase(c) ==
    /\ call[c].phase = "archived" /\ Unchanged(c)
    /\ Removes({call[c].instance}, "erased")
    /\ call' = [call EXCEPT ![c] = NoCall]
    /\ UNCHANGED <<override, lease, pass, sink, failures>>

(* It changed: once more, if this was the first time.                      *)
Changed(c) ==
    /\ call[c].phase = "archived" /\ Deletable(call[c].instance) /\ ~Unchanged(c)
    /\ call' = [call EXCEPT ![c] = IF call[c].again THEN NoCall
                                   ELSE [call[c] EXCEPT !.phase = "changed", !.copy = Nothing]]
    /\ UNCHANGED <<rows, override, lease, pass, sink, failures>>

(* It is active again, or gone.                                            *)
GivesUp(c) ==
    /\ call[c].phase \in {"archived", "changed"} /\ ~Deletable(call[c].instance)
    /\ call' = [call EXCEPT ![c] = NoCall]
    /\ UNCHANGED <<rows, override, lease, pass, sink, failures>>

CallFails(c) ==
    /\ call[c].phase # "idle" /\ Fails
    /\ call' = [call EXCEPT ![c] = NoCall]
    /\ UNCHANGED <<rows, override, lease, pass, sink>>

-----------------------------------------------------------------------------
Init ==
    /\ status = [i \in Instance |-> "active"]
    /\ log = [i \in Instance |-> [steps |-> 1, notes |-> 0]]
    /\ endedAt = [i \in Instance |-> 0] /\ old = {} /\ failing = {}
    /\ override = [k \in Key |-> "unset"]
    /\ lease = 0
    /\ pass = [s \in Sweeper |-> Resting] /\ call = [c \in Caller |-> NoCall]
    /\ latest = [i \in Instance |-> Nothing] /\ most = [i \in Instance |-> Nothing]
    /\ failures = 0

Sweep(s) ==
    \/ Claim(s) \/ Candidates(s) \/ Count(s) \/ Headers(s) \/ Histories(s)
    \/ Archive(s) \/ Release(s)
    \/ \E taken \in SUBSET pass[s].batch : Execute(s, taken)

Next ==
    \/ \E i \in Instance : Step(i) \/ GrowOld(i) \/ FireFails(i) \/ Note(i)
    \/ \E k \in Key, age \in Ages : SetPolicy(k, age)
    \/ \E s \in Sweeper : Sweep(s) \/ Lapse(s) \/ PassFails(s) \/ Crash(s)
    \/ \E c \in Caller :
        \/ Deliver(c) \/ Erase(c) \/ Changed(c) \/ GivesUp(c) \/ CallFails(c)
        \/ \E i \in Instance : Snapshot(c, i)

Spec == Init /\ [][Next]_vars

(* Time passes, and a sweeper keeps sweeping.  The row of a record that    *)
(* has ended is locked only for moments: not at every deletion.            *)
FairSpec ==
    /\ Spec
    /\ \A s \in Sweeper :
        /\ WF_vars(Lapse(s)) /\ WF_vars(Claim(s)) /\ WF_vars(Candidates(s))
        /\ WF_vars(Count(s)) /\ WF_vars(Headers(s)) /\ WF_vars(Histories(s))
        /\ WF_vars(Archive(s)) /\ WF_vars(Release(s))
        /\ SF_vars(Execute(s, {i \in pass[s].batch : Due(i)}))

-----------------------------------------------------------------------------
(* Records, logs and leases have their types; what ended has an end.       *)
TypeOK ==
    /\ status \in [Instance -> {"active", "failed", "ended", "swept", "erased"}]
    /\ log \in [Instance -> Copy] /\ endedAt \in [Instance -> Nat]
    /\ old \subseteq Instance /\ failing \subseteq Instance
    /\ override \in [Key -> Ages \union {"unset"}]
    /\ lease \in Sweeper \union {0}
    /\ pass \in [Sweeper -> Pass] /\ call \in [Caller -> Call]
    /\ latest \in [Instance -> Copy] /\ most \in [Instance -> Copy]
    /\ failures \in Nat
    /\ \A i \in Instance : status[i] \in {"ended", "swept"} => endedAt[i] # 0

(* What a sweep deleted was handed to the sink, with every step, whatever  *)
(* happened between plan and deletion.  (Not every note: see               *)
(* LatestIsWhole.)                                                         *)
SweptWasDelivered ==
    \A i \in Instance : status[i] = "swept" => most[i].steps = log[i].steps

(* What was deleted by name was handed to the sink whole: not as it was    *)
(* before a repair, even one that froze again.                             *)
ErasedAsDelivered ==
    \A i \in Instance : status[i] = "erased" => most[i] = log[i]

(* Nothing live is deleted: not an active instance, and a failed one only  *)
(* by name.                                                                *)
LiveIsKept ==
    [][\A i \in Instance :
        /\ status'[i] = "swept" /\ Present(i) => status[i] = "ended"
        /\ status'[i] = "erased" /\ Present(i) => status[i] \in {"ended", "failed"}]_vars

(* A policy is obeyed as it is when the deletion happens: setting a key to *)
(* forever stops the batch that is at the sink, too.                       *)
ForeverIsKept ==
    [][\A i \in Instance : status'[i] = "swept" /\ Present(i) =>
        \/ override[KeyOf[i]] = "finite"
        \/ override[KeyOf[i]] = "unset" /\ DefaultAge = "finite"]_vars

(* What is deleted may go by its status and its policy as they are at that *)
(* moment, whatever the plan or the snapshot found before the upload.      *)
DeletesAsAllowed == LiveIsKept /\ ForeverIsKept

(* Two passes run side by side only when a lease ran out under one.        *)
OneSweepPerLease ==
    \A s, t \in Sweeper :
        s # t /\ pass[s].phase # "idle" /\ pass[t].phase # "idle"
            => pass[s].lapsed \/ pass[t].lapsed

(* The last record the sink was handed of a deleted instance is its whole  *)
(* record.                                                                 *)
LatestIsWhole ==
    \A i \in Instance : status[i] \in {"swept", "erased"} => latest[i] = log[i]

(* A record that is due, and that fits, is not due for ever.               *)
DueIsRetired ==
    \A i \in Instance :
        Due(i) /\ Size(log[i]) <= MaxEvents ~> ~(Due(i) /\ Size(log[i]) <= MaxEvents)
=============================================================================
