-------------------------- MODULE Retention_proofs --------------------------
(***************************************************************************)
(* What is deleted was delivered, for any number of records, sweepers and  *)
(* callers.                                                                *)
(*                                                                         *)
(* A record that was chosen by a sweep is over for good (ChosenAreOver):   *)
(* its steps are all written, so a copy that was read while it was there   *)
(* has all of them (SweepsCarryAll).  A call compares sizes only: that is  *)
(* enough because no copy is ahead of its log (CopiesAreBehind).           *)
(***************************************************************************)
EXTENDS Retention, FiniteSetTheorems, TLAPS

Behind(copy, l) == copy.steps <= l.steps /\ copy.notes <= l.notes

Over(i) == status[i] \in {"ended", "swept", "erased"}

CopiesAreBehind ==
    /\ \A i \in Instance : Behind(most[i], log[i])
    /\ \A s \in Sweeper, i \in Instance : Behind(pass[s].copies[i], log[i])
    /\ \A c \in Caller : Behind(call[c].copy, log[call[c].instance])

ChosenAreOver ==
    \A s \in Sweeper : \A i \in pass[s].batch : Over(i)

SweepsCarryAll ==
    \A s \in Sweeper : \A i \in pass[s].batch : status[i] = "ended" =>
        /\ pass[s].phase = "loaded" => pass[s].copies[i].steps = log[i].steps
        /\ pass[s].phase = "archived" => most[i].steps = log[i].steps

CallsDeliver ==
    \A c \in Caller : call[c].phase = "archived" => Behind(call[c].copy, most[call[c].instance])

LeaseIsTheOwners ==
    \A s \in Sweeper : pass[s].phase # "idle" /\ ~pass[s].lapsed => lease = s

Careful == /\ TypeOK /\ CopiesAreBehind /\ ChosenAreOver /\ SweepsCarryAll /\ CallsDeliver
           /\ LeaseIsTheOwners /\ SweptWasDelivered /\ ErasedAsDelivered

-----------------------------------------------------------------------------
(* What a pass or a call may do by itself.                                 *)

(* What the invariant says of a pass, but for its lease.                   *)
Sound(p) ==
    /\ \A i \in Instance : Behind(p.copies[i], log[i])
    /\ \A i \in p.batch : Over(i)
    /\ \A i \in p.batch : status[i] = "ended" =>
        /\ p.phase = "loaded" => p.copies[i].steps = log[i].steps
        /\ p.phase = "archived" => most[i].steps = log[i].steps

LEMMA PassesAreSound == ASSUME Careful, NEW s \in Sweeper PROVE Sound(pass[s])
BY DEF Sound, Careful, CopiesAreBehind, ChosenAreOver, SweepsCarryAll

LEMMA PassMoves ==
    ASSUME Careful, NEW s \in Sweeper, NEW new \in Pass,
           pass' = [pass EXCEPT ![s] = new], UNCHANGED <<rows, override, call, sink>>,
           failures' \in Nat, lease' \in Sweeper \union {0},
           Sound(new), LeaseIsTheOwners'
    PROVE  Careful'
<1>1. pass \in [Sweeper -> Pass]
  BY DEF Careful, TypeOK
<1>2. /\ status' = status /\ log' = log /\ endedAt' = endedAt /\ old' = old
      /\ failing' = failing /\ override' = override /\ call' = call
      /\ latest' = latest /\ most' = most
  BY DEF rows, sink
<1>3. pass'[s] = new /\ \A t \in Sweeper \ {s} : pass'[t] = pass[t]
  BY <1>1
<1>4. TypeOK'
  BY <1>1, <1>2 DEF Careful, TypeOK
<1>5. CopiesAreBehind'
  BY <1>2, <1>3 DEF Sound, Careful, CopiesAreBehind, Behind
<1>6. ChosenAreOver'
  BY <1>2, <1>3 DEF Sound, Careful, ChosenAreOver, Over
<1>7. SweepsCarryAll'
  BY <1>2, <1>3 DEF Sound, Careful, SweepsCarryAll
<1>8. CallsDeliver' /\ SweptWasDelivered' /\ ErasedAsDelivered'
  BY <1>2 DEF Careful, CallsDeliver, Behind, SweptWasDelivered, ErasedAsDelivered
<1> QED
  BY <1>4, <1>5, <1>6, <1>7, <1>8 DEF Careful

LEMMA CallMoves ==
    ASSUME Careful, NEW c \in Caller, NEW new \in Call,
           call' = [call EXCEPT ![c] = new],
           UNCHANGED <<rows, override, lease, pass, sink>>, failures' \in Nat,
           Behind(new.copy, log[new.instance]), new.phase # "archived"
    PROVE  Careful'
<1>1. call \in [Caller -> Call]
  BY DEF Careful, TypeOK
<1>2. /\ status' = status /\ log' = log /\ endedAt' = endedAt /\ old' = old
      /\ failing' = failing /\ override' = override /\ pass' = pass /\ lease' = lease
      /\ latest' = latest /\ most' = most
  BY DEF rows, sink
<1>3. call'[c] = new /\ \A d \in Caller \ {c} : call'[d] = call[d]
  BY <1>1
<1>4. TypeOK'
  BY <1>1, <1>2 DEF Careful, TypeOK
<1>5. CopiesAreBehind' /\ CallsDeliver'
  BY <1>2, <1>3 DEF Careful, CopiesAreBehind, CallsDeliver, Behind
<1>6. ChosenAreOver' /\ SweepsCarryAll' /\ LeaseIsTheOwners'
  BY <1>2 DEF Careful, ChosenAreOver, SweepsCarryAll, LeaseIsTheOwners, Over
<1>7. SweptWasDelivered' /\ ErasedAsDelivered'
  BY <1>2 DEF Careful, SweptWasDelivered, ErasedAsDelivered
<1> QED
  BY <1>4, <1>5, <1>6, <1>7 DEF Careful

LEMMA RestIsNothing ==
    /\ Nothing \in Copy
    /\ \A b \in BOOLEAN : [Resting EXCEPT !.lapsed = b] \in Pass
    /\ NoCall \in Call
    /\ \A l \in Copy : Behind(Nothing, l)
<1>1. (CHOOSE i \in Instance : TRUE) \in Instance
  BY Rows
<1> QED
  BY <1>1 DEF Nothing, Copy, Resting, Pass, NoCall, Call, Behind

-----------------------------------------------------------------------------
(* The rest of the engine.                                                 *)

LEMMA LogsGrow ==
    ASSUME Careful, NEW i \in Instance, Present(i),
           log' = [log EXCEPT ![i].steps = @ + 1] \/ log' = [log EXCEPT ![i].notes = @ + 1]
    PROVE  /\ log' \in [Instance -> Copy]
           /\ \A j \in Instance \ {i} : log'[j] = log[j]
           /\ \A j \in Instance : Behind(log[j], log'[j])
<1>1. log \in [Instance -> Copy]
  BY DEF Careful, TypeOK
<1> QED
  BY <1>1 DEF Copy, Behind

LEMMA BehindIsTransitive ==
    \A a, b, c \in Copy : Behind(a, b) /\ Behind(b, c) => Behind(a, c)
BY DEF Copy, Behind

LEMMA Typed ==
    ASSUME Careful
    PROVE  /\ \A i \in Instance : log[i] \in Copy /\ most[i] \in Copy
           /\ \A s \in Sweeper : pass[s] \in Pass
           /\ \A s \in Sweeper, i \in Instance : pass[s].copies[i] \in Copy
           /\ \A s \in Sweeper : pass[s].batch \subseteq Instance
           /\ \A c \in Caller : call[c] \in Call
           /\ \A c \in Caller : call[c].instance \in Instance /\ call[c].copy \in Copy
BY DEF Careful, TypeOK, Pass, Call

LEMMA StepKeeps == ASSUME Careful, NEW i \in Instance, Step(i) PROVE Careful'
<1>1. /\ Present(i) /\ status[i] \in {"active", "failed"}
      /\ log' = [log EXCEPT ![i].steps = @ + 1]
      /\ pass' = pass /\ call' = call /\ most' = most /\ latest' = latest /\ lease' = lease
      /\ old' = old /\ failing' = failing /\ override' = override /\ failures' = failures
  BY DEF Step, Present, sink
<1>2. PICK to \in {"active", "failed", "ended"} :
        status' = [status EXCEPT ![i] = to] /\ Stamps(i, to)
  BY DEF Step
<1>3. /\ status \in [Instance -> {"active", "failed", "ended", "swept", "erased"}]
      /\ endedAt \in [Instance -> Nat]
  BY DEF Careful, TypeOK
<1>4. /\ log' \in [Instance -> Copy] /\ \A j \in Instance \ {i} : log'[j] = log[j]
      /\ \A j \in Instance : Behind(log[j], log'[j])
  BY <1>1, LogsGrow
<1>5. /\ status'[i] = to /\ \A j \in Instance \ {i} : status'[j] = status[j]
      /\ \A j \in Instance : status'[j] \in {"active", "failed", "ended", "swept", "erased"}
      /\ status' \in [Instance -> {"active", "failed", "ended", "swept", "erased"}]
  BY <1>2, <1>3
<1>6. 1 + Cardinality({j \in Instance : endedAt[j] # 0}) \in Nat \ {0}
  BY Rows, FS_Subset, FS_CardinalityType
<1>7. /\ endedAt' \in [Instance -> Nat]
      /\ \A j \in Instance : status'[j] \in {"ended", "swept"} => endedAt'[j] # 0
  <2>1. endedAt' \in [Instance -> Nat]
    BY <1>2, <1>3, <1>6 DEF Stamps
  <2>2. \A j \in Instance \ {i} : endedAt'[j] = endedAt[j]
    BY <1>2, <1>3 DEF Stamps
  <2>3. to = "ended" => endedAt'[i] # 0
    BY <1>2, <1>3, <1>6 DEF Stamps
  <2> QED
    BY <2>1, <2>2, <2>3, <1>5 DEF Careful, TypeOK
<1>8. TypeOK'
  BY <1>1, <1>4, <1>5, <1>7 DEF Careful, TypeOK
<1>9. CopiesAreBehind'
  <2>1. \A j \in Instance : log[j] \in Copy /\ log'[j] \in Copy /\ Behind(log[j], log'[j])
    BY <1>4, Typed
  <2> QED
    BY <1>1, <2>1, Typed, BehindIsTransitive DEF Careful, CopiesAreBehind
<1>10. ChosenAreOver'
  BY <1>1, <1>5, Typed DEF Careful, ChosenAreOver, Over
<1>11. SweepsCarryAll'
  BY <1>1, <1>4, <1>5, Typed DEF Careful, SweepsCarryAll, ChosenAreOver, Over, Pass
<1>12. CallsDeliver' /\ LeaseIsTheOwners'
  BY <1>1 DEF Careful, CallsDeliver, LeaseIsTheOwners, Behind
<1>13. SweptWasDelivered' /\ ErasedAsDelivered'
  BY <1>1, <1>2, <1>4, <1>5 DEF Careful, SweptWasDelivered, ErasedAsDelivered
<1> QED
  BY <1>8, <1>9, <1>10, <1>11, <1>12, <1>13 DEF Careful

LEMMA NoteKeeps == ASSUME Careful, NEW i \in Instance, Note(i) PROVE Careful'
<1>1. /\ failing' \subseteq failing
      /\ pass' = pass /\ call' = call /\ most' = most /\ latest' = latest /\ lease' = lease
      /\ status' = status /\ endedAt' = endedAt /\ old' = old
      /\ override' = override /\ failures' = failures
  BY DEF Note, sink
<1>2. /\ log' \in [Instance -> Copy]
      /\ \A j \in Instance : Behind(log[j], log'[j])
      /\ \A j \in Instance : log'[j].steps = log[j].steps
      /\ \A j \in Instance : ~Present(j) => log'[j] = log[j]
  <2>1. CASE Present(i)
    <3>1. log' = [log EXCEPT ![i].notes = @ + 1]
      BY <2>1 DEF Note
    <3>2. log \in [Instance -> Copy]
      BY DEF Careful, TypeOK
    <3>3. log'[i].steps = log[i].steps
      BY <3>1, <3>2 DEF Copy
    <3> QED
      BY <2>1, <3>1, <3>3, LogsGrow
  <2>2. CASE ~Present(i)
    BY <2>2 DEF Note, Careful, TypeOK, Behind, Copy
  <2> QED
    BY <2>1, <2>2
<1>3. TypeOK'
  BY <1>1, <1>2 DEF Careful, TypeOK
<1>4. CopiesAreBehind'
  <2>1. \A j \in Instance : log[j] \in Copy /\ log'[j] \in Copy /\ Behind(log[j], log'[j])
    BY <1>2, Typed
  <2> QED
    BY <1>1, <2>1, Typed, BehindIsTransitive DEF Careful, CopiesAreBehind
<1>5. ChosenAreOver' /\ LeaseIsTheOwners'
  BY <1>1 DEF Careful, ChosenAreOver, Over, LeaseIsTheOwners
<1>6. SweepsCarryAll'
  BY <1>1, <1>2, Typed DEF Careful, SweepsCarryAll
<1>7. CallsDeliver'
  BY <1>1 DEF Careful, CallsDeliver, Behind
<1>8. SweptWasDelivered' /\ ErasedAsDelivered'
  BY <1>1, <1>2 DEF Careful, SweptWasDelivered, ErasedAsDelivered, Present
<1> QED
  BY <1>3, <1>4, <1>5, <1>6, <1>7, <1>8 DEF Careful

(* What neither a log, nor a status, nor a pass, nor a call depends on.    *)
LEMMA AsideKeeps ==
    ASSUME Careful, UNCHANGED <<status, log, endedAt, lease, pass, call, sink, failures>>,
           old' \subseteq Instance, failing' \subseteq Instance,
           override' \in [Key -> Ages \union {"unset"}]
    PROVE  Careful'
<1>1. /\ status' = status /\ log' = log /\ endedAt' = endedAt /\ lease' = lease
      /\ pass' = pass /\ call' = call /\ latest' = latest /\ most' = most
      /\ failures' = failures
  BY DEF sink
<1>2. TypeOK'
  BY <1>1 DEF Careful, TypeOK
<1>3. CopiesAreBehind' /\ ChosenAreOver' /\ SweepsCarryAll'
  BY <1>1 DEF Careful, CopiesAreBehind, ChosenAreOver, SweepsCarryAll, Over, Behind
<1>4. CallsDeliver' /\ LeaseIsTheOwners' /\ SweptWasDelivered' /\ ErasedAsDelivered'
  BY <1>1 DEF Careful, CallsDeliver, LeaseIsTheOwners, SweptWasDelivered,
              ErasedAsDelivered, Behind
<1> QED
  BY <1>2, <1>3, <1>4 DEF Careful

LEMMA RestKeeps ==
    /\ \A i \in Instance : Careful /\ (GrowOld(i) \/ FireFails(i)) => Careful'
    /\ \A k \in Key, age \in Ages : Careful /\ SetPolicy(k, age) => Careful'
<1>1. ASSUME NEW i \in Instance, Careful, GrowOld(i) PROVE Careful'
  BY <1>1, AsideKeeps DEF GrowOld, Careful, TypeOK
<1>2. ASSUME NEW i \in Instance, Careful, FireFails(i) PROVE Careful'
  BY <1>2, AsideKeeps DEF FireFails, Careful, TypeOK
<1>3. ASSUME NEW k \in Key, NEW age \in Ages, Careful, SetPolicy(k, age) PROVE Careful'
  <2>1. override' \in [Key -> Ages \union {"unset"}]
    BY <1>3 DEF SetPolicy, Careful, TypeOK
  <2>2. old \subseteq Instance /\ failing \subseteq Instance
    BY <1>3 DEF Careful, TypeOK
  <2> QED
    BY <1>3, <2>1, <2>2, AsideKeeps DEF SetPolicy, rows
<1> QED
  BY <1>1, <1>2, <1>3

-----------------------------------------------------------------------------
(* The sweep.                                                              *)

LEMMA DueIsOver == \A i : Due(i) => status[i] = "ended" /\ Over(i)
BY DEF Due, Over

LEMMA ChosenFrom == \A batch : Chosen(batch) \subseteq batch
BY DEF Chosen

LEMMA LapseKeeps == ASSUME Careful, NEW s \in Sweeper, Lapse(s) PROVE Careful'
<1> DEFINE new == [pass[s] EXCEPT !.lapsed = TRUE]
<1>1. /\ new \in Pass /\ new.phase = pass[s].phase /\ new.batch = pass[s].batch
      /\ new.copies = pass[s].copies
  BY Typed DEF Pass
<1>2. pass' = [pass EXCEPT ![s] = new]
  BY DEF Lapse, Careful, TypeOK
<1>3. LeaseIsTheOwners'
  BY <1>2, Typed DEF Lapse, Careful, TypeOK, LeaseIsTheOwners, Pass
<1>4. /\ UNCHANGED <<rows, override, call, sink>> /\ failures' \in Nat
      /\ lease' \in Sweeper \union {0}
  BY DEF Lapse, Careful, TypeOK
<1> HIDE DEF new
<1>5. Sound(new)
  BY <1>1, PassesAreSound DEF Sound
<1> QED
  BY <1>1, <1>2, <1>3, <1>4, <1>5, PassMoves

LEMMA ClaimKeeps == ASSUME Careful, NEW s \in Sweeper, Claim(s) PROVE Careful'
<1> DEFINE new == [pass[s] EXCEPT !.phase = "claimed", !.lapsed = FALSE]
<1>1. /\ new \in Pass /\ new.phase = "claimed" /\ new.batch = pass[s].batch
      /\ new.copies = pass[s].copies /\ new.lapsed = FALSE
  BY Typed DEF Pass
<1>2. pass' = [pass EXCEPT ![s] = new]
  BY DEF Claim, Careful, TypeOK
<1> HIDE DEF new
<1>3. pass'[s] = new /\ \A t \in Sweeper \ {s} : pass'[t] = pass[t]
  BY <1>2 DEF Careful, TypeOK
<1>4. lease' = s /\ (lease = 0 \/ (lease \in Sweeper /\ pass[lease].lapsed))
  BY DEF Claim
<1>5. \A t \in Sweeper \ {s} : pass'[t].phase # "idle" => pass'[t].lapsed
  BY <1>3, <1>4, Nobody, Typed DEF Careful, LeaseIsTheOwners, Pass
<1>6. LeaseIsTheOwners'
  BY <1>3, <1>4, <1>5 DEF LeaseIsTheOwners
<1>7. UNCHANGED <<rows, override, call, sink>> /\ failures' \in Nat
  BY DEF Claim, Careful, TypeOK
<1>8. Sound(new)
  BY <1>1, PassesAreSound DEF Sound
<1> QED
  BY <1>1, <1>2, <1>4, <1>6, <1>7, <1>8, PassMoves

(* A pass that is not about to hand anything over.                         *)
LEMMA PassTurns ==
    ASSUME Careful, NEW s \in Sweeper, NEW new \in Pass, pass' = [pass EXCEPT ![s] = new],
           UNCHANGED <<rows, override, call, sink>>, failures' \in Nat,
           new.phase \notin {"loaded", "archived"}, new.lapsed = pass[s].lapsed,
           \A i \in new.batch : Over(i),
           new.copies = pass[s].copies \/ new.copies = [i \in Instance |-> Nothing],
           pass[s].phase # "idle",
           lease' = lease \/ (new.phase = "idle" /\ lease = s /\ lease' = 0)
    PROVE  Careful'
<1>1. pass'[s] = new /\ \A t \in Sweeper \ {s} : pass'[t] = pass[t]
  BY DEF Careful, TypeOK
<1>2. LeaseIsTheOwners'
  BY <1>1 DEF Careful, LeaseIsTheOwners
<1>3. lease' \in Sweeper \union {0}
  BY DEF Careful, TypeOK
<1>4. \A i \in Instance : Behind(new.copies[i], log[i])
  BY PassesAreSound, RestIsNothing, Typed DEF Sound
<1>5. Sound(new)
  BY <1>4 DEF Sound
<1> QED
  BY <1>2, <1>3, <1>5, PassMoves

LEMMA PlanKeeps ==
    ASSUME Careful, NEW s \in Sweeper, Candidates(s) \/ Count(s) \/ Headers(s)
    PROVE  Careful'
<1>1. PICK phase \in {"done", "candidates", "counted", "headers"}, batch \in SUBSET Instance :
        /\ pass' = [pass EXCEPT ![s].phase = phase, ![s].batch = batch]
        /\ \A i \in batch : Over(i)
  <2>1. CASE Candidates(s)
    <3> DEFINE due   == {i \in Instance : Due(i)}
               first == {i \in due : Cardinality({j \in due : Sooner(j, i)}) < MaxInstances}
    <3>1. first \in SUBSET Instance /\ \A i \in first : Over(i)
      BY DueIsOver
    <3>2. pass' = [pass EXCEPT ![s].phase = IF first = {} THEN "done" ELSE "candidates",
                               ![s].batch = first]
      BY <2>1 DEF Candidates
    <3> HIDE DEF first
    <3> QED
      BY <3>1, <3>2
  <2>2. CASE Count(s)
    <3> DEFINE chosen == Chosen(pass[s].batch)
    <3>1. chosen \in SUBSET Instance /\ \A i \in chosen : Over(i)
      BY ChosenFrom, Typed DEF Careful, ChosenAreOver
    <3>2. pass' = [pass EXCEPT ![s].phase = IF chosen = {} THEN "done" ELSE "counted",
                               ![s].batch = chosen]
      BY <2>2 DEF Count
    <3> HIDE DEF chosen
    <3> QED
      BY <3>1, <3>2
  <2>3. CASE Headers(s)
    <3> DEFINE found == {i \in pass[s].batch : Present(i)}
    <3>1. found \in SUBSET Instance /\ \A i \in found : Over(i)
      BY Typed DEF Careful, ChosenAreOver
    <3>2. pass' = [pass EXCEPT ![s].phase = IF found = {} THEN "done" ELSE "headers",
                               ![s].batch = found]
      BY <2>3 DEF Headers
    <3> HIDE DEF found
    <3> QED
      BY <3>1, <3>2
  <2> QED
    BY <2>1, <2>2, <2>3
<1> DEFINE new == [pass[s] EXCEPT !.phase = phase, !.batch = batch]
<1>2. /\ new \in Pass /\ new.phase = phase /\ new.batch = batch
      /\ new.copies = pass[s].copies /\ new.lapsed = pass[s].lapsed
  BY Typed DEF Pass
<1>3. pass' = [pass EXCEPT ![s] = new]
  BY <1>1 DEF Careful, TypeOK
<1> HIDE DEF new
<1>4. /\ UNCHANGED <<rows, override, call, sink>> /\ failures' \in Nat /\ lease' = lease
      /\ pass[s].phase # "idle"
  BY DEF Candidates, Count, Headers, Careful, TypeOK
<1> QED
  BY <1>1, <1>2, <1>3, <1>4, PassTurns

LEMMA EndKeeps ==
    ASSUME Careful, NEW s \in Sweeper, Release(s) \/ Crash(s)
    PROVE  Careful'
<1> DEFINE new == [Resting EXCEPT !.lapsed = pass[s].lapsed]
<1>1. /\ new \in Pass /\ new.phase = "idle" /\ new.batch = {}
      /\ new.copies = [i \in Instance |-> Nothing] /\ new.lapsed = pass[s].lapsed
  BY RestIsNothing, Typed DEF Pass, Resting
<1>2. pass' = [pass EXCEPT ![s] = new]
  BY DEF Release, Crash
<1> HIDE DEF new
<1>3. /\ UNCHANGED <<rows, override, call, sink>> /\ failures' \in Nat
      /\ pass[s].phase # "idle"
  BY DEF Release, Crash, Fails, Careful, TypeOK
<1>4. lease' = lease \/ (lease = s /\ lease' = 0)
  BY DEF Release, Crash, Frees
<1> QED
  BY <1>1, <1>2, <1>3, <1>4, PassTurns

LEMMA FailureKeeps == ASSUME Careful, NEW s \in Sweeper, PassFails(s) PROVE Careful'
<1> DEFINE new == [pass[s] EXCEPT !.phase = "done"]
<1>1. /\ new \in Pass /\ new.phase = "done" /\ new.batch = pass[s].batch
      /\ new.copies = pass[s].copies /\ new.lapsed = pass[s].lapsed
  BY Typed DEF Pass
<1>2. pass' = [pass EXCEPT ![s] = new]
  BY DEF PassFails, Goes
<1> HIDE DEF new
<1>3. /\ UNCHANGED <<rows, override, call, sink>> /\ failures' \in Nat
      /\ pass[s].phase # "idle" /\ lease' = lease
  BY DEF PassFails, Fails, Careful, TypeOK
<1> QED
  BY <1>1, <1>2, <1>3, PassTurns DEF Careful, ChosenAreOver

LEMMA HistoriesKeeps == ASSUME Careful, NEW s \in Sweeper, Histories(s) PROVE Careful'
<1> DEFINE copies == [i \in Instance |->
                         IF i \in pass[s].batch /\ Present(i) THEN log[i] ELSE Nothing]
           new == [pass[s] EXCEPT !.phase = "loaded", !.copies = copies]
<1>1. copies \in [Instance -> Copy] /\ \A i \in Instance : Behind(copies[i], log[i])
  BY Typed, RestIsNothing DEF Behind, Copy
<1>2. \A i \in pass[s].batch : status[i] = "ended" => copies[i] = log[i]
  BY Typed DEF Present
<1> HIDE DEF copies
<1>3. /\ new \in Pass /\ new.phase = "loaded" /\ new.batch = pass[s].batch
      /\ new.copies = copies /\ new.lapsed = pass[s].lapsed
  BY <1>1, Typed DEF Pass
<1>4. pass' = [pass EXCEPT ![s] = new]
  BY DEF Histories, copies
<1> HIDE DEF new
<1>5. /\ UNCHANGED <<rows, override, call, sink>> /\ failures' \in Nat
      /\ pass[s].phase = "headers" /\ lease' = lease /\ lease' \in Sweeper \union {0}
  BY DEF Histories, Careful, TypeOK
<1>6. Sound(new)
  BY <1>1, <1>2, <1>3, PassesAreSound DEF Sound
<1>7. pass'[s] = new /\ \A t \in Sweeper \ {s} : pass'[t] = pass[t]
  BY <1>4 DEF Careful, TypeOK
<1>8. LeaseIsTheOwners'
  BY <1>3, <1>5, <1>7 DEF Careful, LeaseIsTheOwners
<1> QED
  BY <1>3, <1>4, <1>5, <1>6, <1>8, PassMoves

-----------------------------------------------------------------------------
(* Deliveries.                                                             *)

LEMMA Between ==
    \A a, b \in Copy : Behind(a, b) /\ Behind(b, a) => a = b
BY DEF Copy, Behind

LEMMA Squeezed ==
    \A a, b, l \in Copy : Behind(a, b) /\ Behind(b, l) /\ a.steps = l.steps => b.steps = l.steps
BY DEF Copy, Behind

LEMMA Delivered ==
    ASSUME Careful, NEW batch \in SUBSET Instance, NEW copies \in [Instance -> Copy],
           Delivers(batch, copies), \A i \in Instance : i \in batch => Behind(copies[i], log[i])
    PROVE  /\ latest' \in [Instance -> Copy] /\ most' \in [Instance -> Copy]
           /\ \A i \in Instance : Behind(most[i], most'[i]) /\ Behind(most'[i], log[i])
           /\ \A i \in batch : Behind(copies[i], most'[i])
<1>1. \A a, b \in Copy : /\ Joined(a, b) \in Copy
                        /\ Behind(a, Joined(a, b)) /\ Behind(b, Joined(a, b))
                        /\ \A l \in Copy : Behind(a, l) /\ Behind(b, l) => Behind(Joined(a, b), l)
  BY DEF Joined, Copy, Behind
<1>2. \A a \in Copy : Behind(a, a)
  BY DEF Copy, Behind
<1>3. most \in [Instance -> Copy] /\ latest \in [Instance -> Copy] /\ log \in [Instance -> Copy]
  BY DEF Careful, TypeOK
<1>4. \A i \in Instance : most'[i] = IF i \in batch THEN Joined(most[i], copies[i]) ELSE most[i]
  BY DEF Delivers
<1>5. latest' \in [Instance -> Copy] /\ most' \in [Instance -> Copy]
  BY <1>1, <1>3 DEF Delivers
<1>6. \A i \in Instance : Behind(most[i], log[i])
  BY DEF Careful, CopiesAreBehind
<1>7. \A i \in Instance : Behind(most[i], most'[i]) /\ Behind(most'[i], log[i])
  BY <1>1, <1>2, <1>3, <1>4, <1>6
<1>8. \A i \in batch : Behind(copies[i], most'[i])
  BY <1>1, <1>3, <1>4
<1> QED
  BY <1>5, <1>7, <1>8

(* What a delivery leaves as it was.                                       *)
LEMMA DeliveryKeeps ==
    ASSUME Careful, UNCHANGED <<rows, override, lease, failures>>,
           latest' \in [Instance -> Copy], most' \in [Instance -> Copy],
           \A i \in Instance : Behind(most[i], most'[i]) /\ Behind(most'[i], log[i])
    PROVE  /\ SweptWasDelivered' /\ ErasedAsDelivered'
           /\ \A i \in Instance : most[i].steps = log[i].steps => most'[i].steps = log[i].steps
<1>1. \A i \in Instance : most[i].steps = log[i].steps => most'[i].steps = log[i].steps
  <2>1. \A i \in Instance : most[i] \in Copy /\ most'[i] \in Copy /\ log[i] \in Copy
    BY Typed
  <2> QED
    BY <2>1, Squeezed
<1>2. \A i \in Instance : most[i] = log[i] => most'[i] = log[i]
  BY Typed, Between
<1>3. status' = status /\ log' = log
  BY DEF rows
<1> QED
  BY <1>1, <1>2, <1>3 DEF Careful, SweptWasDelivered, ErasedAsDelivered

LEMMA ArchiveKeeps == ASSUME Careful, NEW s \in Sweeper, Archive(s) PROVE Careful'
<1> DEFINE new == [pass[s] EXCEPT !.phase = "archived"]
<1>1. /\ new \in Pass /\ new.phase = "archived" /\ new.batch = pass[s].batch
      /\ new.copies = pass[s].copies /\ new.lapsed = pass[s].lapsed
  BY Typed DEF Pass
<1>2. pass' = [pass EXCEPT ![s] = new]
  BY DEF Archive, Goes
<1> HIDE DEF new
<1>3. /\ status' = status /\ log' = log /\ endedAt' = endedAt /\ old' = old
      /\ failing' = failing /\ override' = override /\ call' = call /\ lease' = lease
      /\ failures' = failures /\ pass[s].phase = "loaded"
  BY DEF Archive, rows
<1>4. pass'[s] = new /\ \A t \in Sweeper \ {s} : pass'[t] = pass[t]
  BY <1>2 DEF Careful, TypeOK
<1>5. /\ latest' \in [Instance -> Copy] /\ most' \in [Instance -> Copy]
      /\ \A i \in Instance : Behind(most[i], most'[i]) /\ Behind(most'[i], log[i])
      /\ \A i \in pass[s].batch : Behind(pass[s].copies[i], most'[i])
  <2>1. pass[s].batch \in SUBSET Instance /\ pass[s].copies \in [Instance -> Copy]
    BY Typed DEF Pass
  <2>2. \A i \in Instance : Behind(pass[s].copies[i], log[i])
    BY DEF Careful, CopiesAreBehind
  <2>3. Delivers(pass[s].batch, pass[s].copies)
    BY DEF Archive
  <2> QED
    BY <2>1, <2>2, <2>3, Delivered
<1>6. /\ SweptWasDelivered' /\ ErasedAsDelivered'
      /\ \A i \in Instance : most[i].steps = log[i].steps => most'[i].steps = log[i].steps
  BY <1>3, <1>5, DeliveryKeeps DEF rows
<1>7. TypeOK'
  BY <1>1, <1>2, <1>3, <1>5 DEF Careful, TypeOK
<1>8. CopiesAreBehind' /\ ChosenAreOver'
  BY <1>1, <1>3, <1>4, <1>5 DEF Careful, CopiesAreBehind, ChosenAreOver, Over, Behind
<1>9. SweepsCarryAll'
  <2>1. \A i \in pass[s].batch : status[i] = "ended" => most'[i].steps = log[i].steps
    <3>1. \A i \in pass[s].batch : status[i] = "ended" => pass[s].copies[i].steps = log[i].steps
      BY <1>3 DEF Careful, SweepsCarryAll
    <3>2. \A i \in pass[s].batch : most'[i] \in Copy /\ log[i] \in Copy /\ pass[s].copies[i] \in Copy
      BY <1>5, Typed
    <3> QED
      BY <1>5, <3>1, <3>2, Squeezed, Typed
  <2>2. \A t \in Sweeper \ {s} : \A i \in pass[t].batch :
            status[i] = "ended" /\ pass[t].phase = "archived" => most'[i].steps = log[i].steps
    BY <1>6, Typed DEF Careful, SweepsCarryAll
  <2> QED
    BY <1>1, <1>3, <1>4, <2>1, <2>2 DEF Careful, SweepsCarryAll
<1>10. CallsDeliver'
  <2>1. \A c \in Caller : most'[call[c].instance] \in Copy
    BY <1>5, Typed
  <2> QED
    BY <1>3, <1>5, <2>1, Typed, BehindIsTransitive DEF Careful, CallsDeliver
<1>11. LeaseIsTheOwners'
  BY <1>1, <1>3, <1>4 DEF Careful, LeaseIsTheOwners
<1> QED
  BY <1>6, <1>7, <1>8, <1>9, <1>10, <1>11 DEF Careful

LEMMA DeliverKeeps == ASSUME Careful, NEW c \in Caller, Deliver(c) PROVE Careful'
<1> DEFINE new == [call[c] EXCEPT !.phase = "archived"]
           copies == [i \in Instance |-> call[c].copy]
<1>1. /\ new \in Call /\ new.phase = "archived" /\ new.instance = call[c].instance
      /\ new.copy = call[c].copy
  BY Typed DEF Call
<1>2. call' = [call EXCEPT ![c] = new]
  BY DEF Deliver
<1> HIDE DEF new
<1>3. /\ status' = status /\ log' = log /\ endedAt' = endedAt /\ old' = old
      /\ failing' = failing /\ override' = override /\ pass' = pass /\ lease' = lease
      /\ failures' = failures
  BY DEF Deliver, rows
<1>4. call'[c] = new /\ \A d \in Caller \ {c} : call'[d] = call[d]
  BY <1>2 DEF Careful, TypeOK
<1>5. /\ latest' \in [Instance -> Copy] /\ most' \in [Instance -> Copy]
      /\ \A i \in Instance : Behind(most[i], most'[i]) /\ Behind(most'[i], log[i])
      /\ Behind(call[c].copy, most'[call[c].instance])
  <2>1. {call[c].instance} \in SUBSET Instance /\ copies \in [Instance -> Copy]
    BY Typed
  <2>2. \A i \in Instance : i \in {call[c].instance} => Behind(copies[i], log[i])
    BY DEF Careful, CopiesAreBehind
  <2>3. Delivers({call[c].instance}, copies)
    BY DEF Deliver
  <2>4. copies[call[c].instance] = call[c].copy
    BY Typed
  <2> HIDE DEF copies
  <2> QED
    BY <2>1, <2>2, <2>3, <2>4, Delivered
<1>6. /\ SweptWasDelivered' /\ ErasedAsDelivered'
      /\ \A i \in Instance : most[i].steps = log[i].steps => most'[i].steps = log[i].steps
  BY <1>3, <1>5, DeliveryKeeps DEF rows
<1>7. TypeOK'
  BY <1>1, <1>2, <1>3, <1>5 DEF Careful, TypeOK
<1>8. CopiesAreBehind' /\ ChosenAreOver' /\ LeaseIsTheOwners'
  BY <1>1, <1>3, <1>4, <1>5
     DEF Careful, CopiesAreBehind, ChosenAreOver, LeaseIsTheOwners, Over, Behind
<1>9. SweepsCarryAll'
  BY <1>3, <1>6, Typed DEF Careful, SweepsCarryAll
<1>10. CallsDeliver'
  <2>1. \A d \in Caller : most'[call[d].instance] \in Copy
    BY <1>5, Typed
  <2>2. \A d \in Caller \ {c} :
            call[d].phase = "archived" => Behind(call[d].copy, most'[call[d].instance])
    BY <1>5, <2>1, Typed, BehindIsTransitive DEF Careful, CallsDeliver
  <2> QED
    BY <1>1, <1>4, <1>5, <2>2 DEF CallsDeliver, Behind
<1> QED
  BY <1>6, <1>7, <1>8, <1>9, <1>10 DEF Careful

-----------------------------------------------------------------------------
(* Deletions.                                                              *)

LEMMA RemovalKeeps ==
    ASSUME Careful, NEW gone \in SUBSET Instance, NEW how \in {"swept", "erased"},
           Removes(gone, how), UNCHANGED <<override, lease, sink, failures>>,
           \A i \in gone : Over(i) \/ how = "erased",
           how = "swept" => \A i \in gone : status[i] = "ended" /\ most[i].steps = log[i].steps,
           how = "erased" => \A i \in gone : most[i] = log[i]
    PROVE  /\ SweptWasDelivered' /\ ErasedAsDelivered'
           /\ status' \in [Instance -> {"active", "failed", "ended", "swept", "erased"}]
           /\ \A i \in Instance : status'[i] \in {"ended", "swept"} => endedAt'[i] # 0
           /\ old' \subseteq Instance
           /\ \A i \in Instance : Over(i) => Over(i)'
           /\ \A i \in Instance : status'[i] = "ended" => status[i] = "ended"
           /\ log' = log /\ endedAt' = endedAt /\ failing' = failing /\ most' = most
<1>1. /\ log' = log /\ endedAt' = endedAt /\ failing' = failing /\ most' = most
      /\ old' = old \ gone
      /\ status' = [i \in Instance |-> IF i \in gone THEN how ELSE status[i]]
  BY DEF Removes, sink
<1>2. /\ status \in [Instance -> {"active", "failed", "ended", "swept", "erased"}]
      /\ old \subseteq Instance
      /\ \A i \in Instance : status[i] \in {"ended", "swept"} => endedAt[i] # 0
  BY DEF Careful, TypeOK
<1>3. /\ status' \in [Instance -> {"active", "failed", "ended", "swept", "erased"}]
      /\ old' \subseteq Instance
  BY <1>1, <1>2
<1>4. \A i \in Instance : status'[i] \in {"ended", "swept"} => endedAt'[i] # 0
  BY <1>1, <1>2
<1>5. /\ \A i \in Instance : Over(i) => Over(i)'
      /\ \A i \in Instance : status'[i] = "ended" => status[i] = "ended"
  BY <1>1, <1>2 DEF Over
<1>6. SweptWasDelivered'
  BY <1>1, <1>2 DEF Careful, SweptWasDelivered
<1>7. ErasedAsDelivered'
  BY <1>1, <1>2 DEF Careful, ErasedAsDelivered
<1> QED
  BY <1>1, <1>3, <1>4, <1>5, <1>6, <1>7

LEMMA ExecuteKeeps ==
    ASSUME Careful, NEW s \in Sweeper, NEW taken, Execute(s, taken)
    PROVE  Careful'
<1> DEFINE new == [pass[s] EXCEPT !.phase = "done"]
<1>1. /\ new \in Pass /\ new.phase = "done" /\ new.batch = pass[s].batch
      /\ new.copies = pass[s].copies /\ new.lapsed = pass[s].lapsed
  BY Typed DEF Pass
<1>2. pass' = [pass EXCEPT ![s] = new]
  BY DEF Execute, Goes
<1> HIDE DEF new
<1>3. pass'[s] = new /\ \A t \in Sweeper \ {s} : pass'[t] = pass[t]
  BY <1>2 DEF Careful, TypeOK
<1>4. /\ override' = override /\ call' = call /\ lease' = lease /\ failures' = failures
      /\ latest' = latest /\ most' = most /\ Removes(taken, "swept")
      /\ pass[s].phase = "archived"
  BY DEF Execute, sink
<1>5. /\ taken \in SUBSET Instance /\ taken \subseteq pass[s].batch
      /\ \A i \in taken : status[i] = "ended" /\ Over(i)
  BY DueIsOver, Typed DEF Execute
<1>6. \A i \in taken : most[i].steps = log[i].steps
  BY <1>4, <1>5 DEF Careful, SweepsCarryAll
<1>7. /\ SweptWasDelivered' /\ ErasedAsDelivered'
      /\ status' \in [Instance -> {"active", "failed", "ended", "swept", "erased"}]
      /\ \A i \in Instance : status'[i] \in {"ended", "swept"} => endedAt'[i] # 0
      /\ old' \subseteq Instance
      /\ \A i \in Instance : Over(i) => Over(i)'
      /\ \A i \in Instance : status'[i] = "ended" => status[i] = "ended"
      /\ log' = log /\ endedAt' = endedAt /\ failing' = failing /\ most' = most
  BY <1>4, <1>5, <1>6, RemovalKeeps DEF sink
<1>8. TypeOK'
  BY <1>1, <1>2, <1>4, <1>7 DEF Careful, TypeOK
<1>9. CopiesAreBehind'
  BY <1>1, <1>3, <1>4, <1>7 DEF Careful, CopiesAreBehind, Behind
<1>10. ChosenAreOver'
  BY <1>1, <1>3, <1>7, Typed DEF Careful, ChosenAreOver
<1>11. SweepsCarryAll'
  BY <1>1, <1>3, <1>7, Typed DEF Careful, SweepsCarryAll
<1>12. CallsDeliver' /\ LeaseIsTheOwners'
  BY <1>1, <1>3, <1>4, <1>7 DEF Careful, CallsDeliver, LeaseIsTheOwners, Behind
<1> QED
  BY <1>7, <1>8, <1>9, <1>10, <1>11, <1>12 DEF Careful

LEMMA EraseKeeps == ASSUME Careful, NEW c \in Caller, Erase(c) PROVE Careful'
<1> DEFINE gone == {call[c].instance}
<1>1. /\ override' = override /\ pass' = pass /\ lease' = lease /\ failures' = failures
      /\ latest' = latest /\ most' = most /\ Removes(gone, "erased")
      /\ call' = [call EXCEPT ![c] = NoCall] /\ call[c].phase = "archived"
      /\ Size(log[call[c].instance]) = Size(call[c].copy)
  BY DEF Erase, Unchanged, sink
<1>2. call'[c] = NoCall /\ \A d \in Caller \ {c} : call'[d] = call[d]
  BY <1>1 DEF Careful, TypeOK
<1>3. most[call[c].instance] = log[call[c].instance]
  <2>1. \A a, l \in Copy : Behind(a, l) /\ Size(l) = Size(a) => a = l
    BY DEF Copy, Behind, Size
  <2>2. call[c].copy = log[call[c].instance]
    BY <1>1, <2>1, Typed DEF Careful, CopiesAreBehind
  <2>3. Behind(log[call[c].instance], most[call[c].instance])
    BY <1>1, <2>2 DEF Careful, CallsDeliver
  <2>4. Behind(most[call[c].instance], log[call[c].instance])
    BY Typed DEF Careful, CopiesAreBehind
  <2> QED
    BY <2>3, <2>4, Between, Typed
<1>4. gone \in SUBSET Instance /\ \A i \in gone : most[i] = log[i]
  BY <1>3, Typed
<1> HIDE DEF gone
<1>5. /\ SweptWasDelivered' /\ ErasedAsDelivered'
      /\ status' \in [Instance -> {"active", "failed", "ended", "swept", "erased"}]
      /\ \A i \in Instance : status'[i] \in {"ended", "swept"} => endedAt'[i] # 0
      /\ old' \subseteq Instance
      /\ \A i \in Instance : Over(i) => Over(i)'
      /\ \A i \in Instance : status'[i] = "ended" => status[i] = "ended"
      /\ log' = log /\ endedAt' = endedAt /\ failing' = failing /\ most' = most
  BY <1>1, <1>4, RemovalKeeps DEF sink
<1>6. TypeOK'
  BY <1>1, <1>5, RestIsNothing DEF Careful, TypeOK
<1>7. CopiesAreBehind'
  <2>1. NoCall.copy = Nothing /\ NoCall.instance \in Instance /\ NoCall.phase = "idle"
    BY RestIsNothing DEF NoCall, Call
  <2>2. Behind(NoCall.copy, log[NoCall.instance])
    BY <2>1, RestIsNothing, Typed
  <2> QED
    BY <1>1, <1>2, <1>5, <2>2 DEF Careful, CopiesAreBehind, Behind
<1>8. ChosenAreOver' /\ SweepsCarryAll' /\ LeaseIsTheOwners'
  BY <1>1, <1>5, Typed DEF Careful, ChosenAreOver, SweepsCarryAll, LeaseIsTheOwners
<1>9. CallsDeliver'
  BY <1>1, <1>2, <1>5 DEF Careful, CallsDeliver, NoCall, Behind
<1> QED
  BY <1>5, <1>6, <1>7, <1>8, <1>9 DEF Careful

LEMMA OtherCallsKeep ==
    ASSUME Careful, NEW c \in Caller,
           Changed(c) \/ GivesUp(c) \/ CallFails(c) \/ \E i \in Instance : Snapshot(c, i)
    PROVE  Careful'
<1>1. UNCHANGED <<rows, override, lease, pass, sink>> /\ failures' \in Nat
  BY DEF Changed, GivesUp, CallFails, Snapshot, Fails, Careful, TypeOK
<1>2. /\ NoCall \in Call /\ NoCall.phase = "idle"
      /\ Behind(NoCall.copy, log[NoCall.instance])
  <2>1. NoCall.copy = Nothing /\ NoCall.instance \in Instance /\ NoCall.phase = "idle"
    BY RestIsNothing DEF NoCall, Call
  <2> QED
    BY <2>1, RestIsNothing, Typed
<1>3. CASE call' = [call EXCEPT ![c] = NoCall]
  BY <1>1, <1>2, <1>3, CallMoves
<1>4. CASE call' = [call EXCEPT ![c] = [call[c] EXCEPT !.phase = "changed", !.copy = Nothing]]
  <2> DEFINE new == [call[c] EXCEPT !.phase = "changed", !.copy = Nothing]
  <2>1. new \in Call /\ new.phase = "changed" /\ new.copy = Nothing /\ new.instance \in Instance
    BY RestIsNothing, Typed DEF Call
  <2>2. Behind(new.copy, log[new.instance])
    BY <2>1, RestIsNothing, Typed
  <2>3. call' = [call EXCEPT ![c] = new]
    BY <1>4
  <2> HIDE DEF new
  <2> QED
    BY <1>1, <2>1, <2>2, <2>3, CallMoves
<1>5. ASSUME NEW i \in Instance, Snapshot(c, i) PROVE Careful'
  <2> DEFINE new == [phase |-> "loaded", instance |-> i, copy |-> log[i],
                     again |-> call[c].phase = "changed"]
  <2>1. new \in Call /\ new.phase = "loaded" /\ new.copy = log[i] /\ new.instance = i
    BY Typed DEF Call
  <2>2. Behind(new.copy, log[new.instance])
    BY <2>1, Typed DEF Behind, Copy
  <2>3. call' = [call EXCEPT ![c] = new]
    BY <1>5 DEF Snapshot
  <2> HIDE DEF new
  <2> QED
    BY <1>1, <2>1, <2>2, <2>3, CallMoves
<1>6. CASE Changed(c)
  BY <1>3, <1>4, <1>6 DEF Changed
<1>7. CASE GivesUp(c) \/ CallFails(c)
  BY <1>3, <1>7 DEF GivesUp, CallFails
<1> QED
  BY <1>5, <1>6, <1>7

-----------------------------------------------------------------------------
(* The theorems.                                                           *)

LEMMA InitIsCareful == ASSUME Init PROVE Careful
<1>1. /\ \A s \in Sweeper : pass[s] = Resting
      /\ \A c \in Caller : call[c] = NoCall
      /\ \A i \in Instance : /\ log[i] \in Copy /\ most[i] = Nothing /\ status[i] = "active"
  BY DEF Init, Copy
<1>2. Resting \in Pass
  BY RestIsNothing DEF Nothing, Copy, Resting, Pass
<1>3. TypeOK
  BY <1>2, RestIsNothing DEF Init, TypeOK, Copy, Ages
<1>4. CopiesAreBehind
  <2>1. \A i \in Instance : Resting.copies[i] = Nothing
    BY DEF Resting
  <2>2. NoCall.copy = Nothing /\ NoCall.instance \in Instance
    BY RestIsNothing DEF NoCall, Call
  <2> QED
    BY <1>1, <2>1, <2>2, RestIsNothing DEF CopiesAreBehind
<1>5. ChosenAreOver /\ SweepsCarryAll /\ LeaseIsTheOwners
  BY <1>1 DEF ChosenAreOver, SweepsCarryAll, LeaseIsTheOwners, Resting
<1>6. SweptWasDelivered /\ ErasedAsDelivered
  BY <1>1 DEF SweptWasDelivered, ErasedAsDelivered
<1>7. CallsDeliver
  <2>1. NoCall.phase # "archived"
    BY DEF NoCall
  <2> QED
    BY <1>1, <2>1 DEF CallsDeliver
<1> QED
  BY <1>3, <1>4, <1>5, <1>6, <1>7 DEF Careful

LEMMA NextIsCareful == Careful /\ [Next]_vars => Careful'
<1> SUFFICES ASSUME Careful, [Next]_vars PROVE Careful'
  OBVIOUS
<1>1. CASE UNCHANGED vars
  <2>1. UNCHANGED <<status, log, endedAt, lease, pass, call, sink, failures>>
        /\ old' = old /\ failing' = failing /\ override' = override
    BY <1>1 DEF vars, rows
  <2>2. /\ old \subseteq Instance /\ failing \subseteq Instance
        /\ override \in [Key -> Ages \union {"unset"}]
    BY DEF Careful, TypeOK
  <2> QED
    BY <2>1, <2>2, AsideKeeps
<1>2. CASE \E i \in Instance : Step(i) \/ GrowOld(i) \/ FireFails(i) \/ Note(i)
  BY <1>2, StepKeeps, NoteKeeps, RestKeeps
<1>3. CASE \E k \in Key, age \in Ages : SetPolicy(k, age)
  BY <1>3, RestKeeps
<1>4. CASE \E s \in Sweeper : Sweep(s) \/ Lapse(s) \/ PassFails(s) \/ Crash(s)
  BY <1>4, ClaimKeeps, PlanKeeps, HistoriesKeeps, ArchiveKeeps, ExecuteKeeps, EndKeeps,
     LapseKeeps, FailureKeeps DEF Sweep
<1>5. CASE \E c \in Caller :
             \/ Deliver(c) \/ Erase(c) \/ Changed(c) \/ GivesUp(c) \/ CallFails(c)
             \/ \E i \in Instance : Snapshot(c, i)
  BY <1>5, DeliverKeeps, EraseKeeps, OtherCallsKeep
<1> QED
  BY <1>1, <1>2, <1>3, <1>4, <1>5 DEF Next

(* Whatever happens between plan and deletion, and however passes overlap, *)
(* a sweep deletes no instance some step of which the sink was not handed  *)
(* (execute_retention).                                                    *)
THEOREM SweepsArchiveFirst == Spec => []SweptWasDelivered
<1>1. Careful => SweptWasDelivered
  BY DEF Careful
<1> QED
  BY InitIsCareful, NextIsCareful, <1>1, PTL DEF Spec

(* An instance that is deleted by name was archived as it was, notes       *)
(* included, whatever was done to it in the meantime (delete_instance).    *)
THEOREM ErasuresArchiveFirst == Spec => []ErasedAsDelivered
<1>1. Careful => ErasedAsDelivered
  BY DEF Careful
<1> QED
  BY InitIsCareful, NextIsCareful, <1>1, PTL DEF Spec

(* The lease row lets one pass run at a time, unless it ran out under one  *)
(* (claim_retention_lease, release_retention_lease).                       *)
THEOREM LeaseExcludes == Spec => []OneSweepPerLease
<1>1. Careful => OneSweepPerLease
  BY DEF Careful, LeaseIsTheOwners, OneSweepPerLease
<1> QED
  BY InitIsCareful, NextIsCareful, <1>1, PTL DEF Spec

(* Who removes a record, and when.                                         *)
LEMMA OnlyDeletionsRemove ==
    ASSUME Careful, [Next]_vars, NEW i \in Instance, Present(i),
           status'[i] \in {"swept", "erased"}
    PROVE  \/ status'[i] = "swept" /\ Due(i)
           \/ status'[i] = "erased" /\ Deletable(i)
<1>1. status \in [Instance -> {"active", "failed", "ended", "swept", "erased"}]
  BY DEF Careful, TypeOK
<1>2. ~(status' = status)
  BY <1>1 DEF Present
<1>3. ~UNCHANGED vars
  BY <1>2 DEF vars, rows
<1>4. \A j \in Instance : ~Step(j)
  <2> SUFFICES ASSUME NEW j \in Instance, Step(j) PROVE FALSE
    OBVIOUS
  <2>1. PICK to \in {"active", "failed", "ended"} : status' = [status EXCEPT ![j] = to]
    BY DEF Step
  <2> QED
    BY <1>1, <2>1 DEF Present
<1>5. \A j \in Instance : ~(GrowOld(j) \/ FireFails(j) \/ Note(j))
  BY <1>2 DEF GrowOld, FireFails, Note
<1>6. \A k \in Key, age \in Ages : ~SetPolicy(k, age)
  BY <1>2 DEF SetPolicy, rows
<1>7. ASSUME NEW s \in Sweeper, Sweep(s) \/ Lapse(s) \/ PassFails(s) \/ Crash(s)
      PROVE  status'[i] = "swept" /\ Due(i)
  <2>1. PICK taken \in SUBSET pass[s].batch : Execute(s, taken)
    BY <1>2, <1>7 DEF Sweep, Lapse, PassFails, Crash, Claim, Candidates, Count, Headers,
       Histories, Archive, Release, rows
  <2>2. status' = [j \in Instance |-> IF j \in taken THEN "swept" ELSE status[j]]
    BY <2>1 DEF Execute, Removes
  <2>3. i \in taken
    BY <2>2, <1>1 DEF Present
  <2> QED
    BY <2>1, <2>2, <2>3 DEF Execute
<1>8. ASSUME NEW c \in Caller,
             \/ Deliver(c) \/ Erase(c) \/ Changed(c) \/ GivesUp(c) \/ CallFails(c)
             \/ \E j \in Instance : Snapshot(c, j)
      PROVE  status'[i] = "erased" /\ Deletable(i)
  <2>1. Erase(c)
    BY <1>2, <1>8 DEF Deliver, Changed, GivesUp, CallFails, Snapshot, rows
  <2>2. status' = [j \in Instance |->
                      IF j \in {call[c].instance} THEN "erased" ELSE status[j]]
    BY <2>1 DEF Erase, Removes
  <2>3. i = call[c].instance
    BY <2>2, <1>1 DEF Present
  <2> QED
    BY <2>1, <2>2, <2>3 DEF Erase, Unchanged
<1> QED
  BY <1>3, <1>4, <1>5, <1>6, <1>7, <1>8 DEF Next

(* Only a policy that is finite as the deletion happens deletes a record   *)
(* (the DUE predicate, applied again under the row lock).                  *)
THEOREM PoliciesAreObeyed == Spec => ForeverIsKept
<1> DEFINE Obeyed == \A i \in Instance : status'[i] = "swept" /\ Present(i) =>
        \/ override[KeyOf[i]] = "finite"
        \/ override[KeyOf[i]] = "unset" /\ DefaultAge = "finite"
<1>1. Careful /\ [Next]_vars => Obeyed
  BY OnlyDeletionsRemove DEF Due, Age
<1>2. Careful /\ [Next]_vars => [Obeyed]_vars
  BY <1>1
<1> QED
  BY InitIsCareful, NextIsCareful, <1>2, PTL DEF Spec, ForeverIsKept

(* No active instance is deleted, and no failed one by a sweep (DUE,       *)
(* is_deletable).                                                          *)
THEOREM NothingLiveIsDeleted == Spec => LiveIsKept
<1> DEFINE Kept == \A i \in Instance :
        /\ status'[i] = "swept" /\ Present(i) => status[i] = "ended"
        /\ status'[i] = "erased" /\ Present(i) => status[i] \in {"ended", "failed"}
<1>1. Careful /\ [Next]_vars => Kept
  BY OnlyDeletionsRemove DEF Due, Deletable
<1>2. Careful /\ [Next]_vars => [Kept]_vars
  BY <1>1
<1> QED
  BY InitIsCareful, NextIsCareful, <1>2, PTL DEF Spec, LiveIsKept

(* The types of rows, passes and calls.                                    *)
THEOREM TypeCorrect == Spec => []TypeOK
<1>1. Careful => TypeOK
  BY DEF Careful
<1> QED
  BY InitIsCareful, NextIsCareful, <1>1, PTL DEF Spec

(* Status and policy count as they are at the deletion.                    *)
THEOREM DeletionsAreAllowed == Spec => DeletesAsAllowed
BY PoliciesAreObeyed, NothingLiveIsDeleted DEF DeletesAsAllowed
=============================================================================
