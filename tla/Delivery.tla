------------------------------ MODULE Delivery ------------------------------
(***************************************************************************)
(* Timers and messages meeting the waits of the instances: schedulers that *)
(* drain what is due and sleep (crates/rbpmn-engine/src/scheduler.rs,      *)
(* listen.rs, the deferrals of lib.rs), clients that correlate messages    *)
(* and repair (runtime.rs), and the clock arithmetic of armed timers.      *)
(*                                                                         *)
(* Both find their target without a lock, so it may be gone, or another,   *)
(* when the row is theirs.  An instance is seen through one wait, a timer  *)
(* or a message; what a step does to it is free here (InstanceStep says    *)
(* it), and so are its other waits.                                        *)
(*                                                                         *)
(* Instants are ticks of the database's clock, which stops at MaxTime: a   *)
(* due date past it is Beyond, a nap or a deferral past it ends there.     *)
(***************************************************************************)
EXTENDS Integers, FiniteSets

CONSTANTS
    Instance,       \* instances
    Scheduler,      \* processes that run the scheduler loop
    Sender,         \* callers that deliver messages
    Caller,         \* callers of other verbs, repairs among them
    KeyOf,          \* the correlation key each instance waits on
    Kinds,          \* the kinds of wait: duration, cycle, date, message
    Length,         \* how long a duration is
    Period,         \* the period of a cycle
    Anchors,        \* the anchors a cycle may have
    Fires,          \* how often a cycle fires
    Date,           \* the instant of a date
    Poll,           \* SchedulerOptions::poll_interval
    SkipBase, SkipMax, FailBase, FailMax, Forget,   \* the backoffs
    MaxTime,        \* bound: the clock
    MaxWork,        \* bound: how long a transaction takes
    MaxArms,        \* bound: the waits an instance arms
    MaxFaults       \* bound: crashes, lost connections and failed firings

ASSUME Times == {Length, Period, Fires, Poll, SkipBase, SkipMax, FailBase, FailMax, MaxArms}
                \subseteq Nat \ {0}
ASSUME Bounds == {Date, Forget, MaxTime, MaxWork, MaxFaults} \union Anchors \subseteq Nat
ASSUME FiniteInstances == IsFiniteSet(Instance)
ASSUME Waits == Kinds \subseteq {"duration", "cycle", "date", "message"}
Client == Sender \union Caller

ASSUME Locks == "none" \notin Scheduler \union Client /\ Scheduler \intersect Client = {}

VARIABLES
    now,        \* the database's clock
    status,     \* rbpmn_instance.status
    frozenAt,   \* rbpmn_instance.frozen_at, while it is failed
    wait,       \* the timer or subscription row of each instance, if it waits
    made,       \* the waits it armed so far
    holder,     \* who holds the row lock (and, a scheduler, the advisory lock)
    deferral,   \* the deferrals each scheduler's process remembers
    loop,       \* where each scheduler loop is
    client,     \* where each client is
    lived,      \* how long the armed duration's instance has been active since
    faults      \* faults so far

rows == <<status, frozenAt, wait, made, lived>>
vars == <<now, rows, holder, deferral, loop, client, faults>>

Min(a, b) == IF a <= b THEN a ELSE b
Max(a, b) == IF a <= b THEN b ELSE a
Beyond == MaxTime + 1
Instant(t) == Min(t, Beyond)
Lapse(t) == Min(t, MaxTime)

NoWait == [no |-> 0, kind |-> "none", due |-> 0, left |-> 0]
Armed(i) == wait[i].kind \in {"duration", "cycle", "date"}
Due(i, at) == Armed(i) /\ wait[i].due <= at

-----------------------------------------------------------------------------
(* Deferrals: why, and until when, a scheduler leaves an instance alone.   *)

NoDeferral == [until |-> 0, skips |-> 0, failures |-> 0]

Deferred(p, i) == deferral[p][i].until > now

(* A deferral that lapsed is remembered for a while, so backoffs escalate. *)
Retained(p) ==
    [deferral EXCEPT ![p] = [i \in Instance |->
        IF Lapse(deferral[p][i].until + Forget) > now THEN deferral[p][i] ELSE NoDeferral]]

Backoff(base, max, n) == Min(base * 2 ^ (n - 1), max)

Defer(p, i, d) == deferral' = [deferral EXCEPT ![p][i] = d]

DeferTransient(p, i) ==
    LET d == deferral[p][i] IN
    Defer(p, i, [d EXCEPT !.skips = Min(@ + 1, SkipMax),
                          !.until = Lapse(now + Backoff(SkipBase, SkipMax, d.skips + 1))])

DeferFailed(p, i) ==
    LET d == deferral[p][i] IN
    Defer(p, i, [d EXCEPT !.failures = Min(@ + 1, FailMax),
                          !.until = Lapse(now + Backoff(FailBase, FailMax, d.failures + 1))])

ClearDeferral(p, i) == Defer(p, i, NoDeferral)

Deferrals(p) == {i \in Instance : Deferred(p, i)}

-----------------------------------------------------------------------------
(* Arming, firing and repairing: persist_step's clock arithmetic.          *)

(* How many periods take due to at: rounded up, at least least.            *)
Periods(due, at, least) == Max(least, (at - due + Period - 1) \div Period)

(* Mutant: a period after the firing, however late.                        *)
PeriodFromNow(due, at) == at + Period

(* The occurrence after the one that fired: on its grid, and in the future.*)
NextOccurrence(due, at) == due + Period * Periods(due, at, 1)

(* The first occurrence of a cycle: a period away, or the first of its     *)
(* anchor's grid that is not past.                                         *)
FirstDues(kind, at) ==
    CASE kind = "duration" -> {at + Length}
      [] kind = "date"     -> {Date}
      [] kind = "cycle"    -> {at + Period} \union {a + Period * Periods(a, at, 0) : a \in Anchors}
      [] kind = "message"  -> {0}

New(no, kind, due) ==
    [no |-> no, kind |-> kind, due |-> Instant(due), left |-> IF kind = "cycle" THEN Fires ELSE 1]

News(no, at) == UNION {{New(no, kind, due) : due \in FirstDues(kind, at)} : kind \in Kinds}

(* What is left of the timer when it has fired: the arm of the next        *)
(* occurrence, with a number of its own.                                   *)
Fired(i, at) ==
    LET t == wait[i] IN
    IF t.left = 1 THEN NoWait
    ELSE [t EXCEPT !.no = made[i] + 1, !.due = Instant(NextOccurrence(t.due, at)),
                   !.left = @ - 1]

(* Mutant: an outage is given back twice.                                  *)
MovedTwice(i, at) == [wait[i] EXCEPT !.due = Instant(@ + 2 * (at - frozenAt[i]))]

(* A repair moves what the freeze kept as though the clock had stopped: a  *)
(* duration by the outage, a cycle that came due in it along its grid.     *)
Thawed(i, at) ==
    LET t == wait[i] IN
    CASE t.kind = "duration" -> [t EXCEPT !.due = Instant(@ + at - frozenAt[i])]
      [] t.kind = "cycle" /\ t.due >= frozenAt[i] ->
            [t EXCEPT !.due = Instant(@ + Period * Periods(@, at, 0))]
      [] OTHER -> t

(* Mutant: the schedulers are left to their polls.                         *)
Silent(l) == l

(* NOTIFY rbpmn_timer, delivered with the commit.                          *)
Notify(l) ==
    [p \in Scheduler |-> IF l[p].link = "up" THEN [l[p] EXCEPT !.woken = TRUE] ELSE l[p]]

StepsTo(i, to, at) ==
    /\ status' = [status EXCEPT ![i] = to]
    /\ frozenAt' = [frozenAt EXCEPT ![i] = IF to = "failed" THEN at ELSE 0]

(* A step of i that found its wait as w: it may withdraw it, arm another,  *)
(* freeze or end.  Its clock reads at, before its commit.                  *)
Settle(i, at, w) ==
    \/ /\ status' = [status EXCEPT ![i] = "ended"] /\ wait' = [wait EXCEPT ![i] = NoWait]
       /\ UNCHANGED <<frozenAt, made>>
    \/ \E to \in {"active", "failed"},
          u \in {w, NoWait} \union News(made[i] + 1, at) :
        /\ StepsTo(i, to, at)
        /\ wait' = [wait EXCEPT ![i] = u]
        /\ made' = [made EXCEPT ![i] = Max(@, u.no)] /\ made'[i] <= MaxArms

(* The schedulers are told of a timer that was armed.                      *)
Tells(i) == wait'[i].no > made[i] /\ wait'[i].kind # "message"

(* How long the armed duration has run: from the clock that armed it, to   *)
(* the one that froze it.                                                  *)
Lives(i, at) ==
    lived' = [lived EXCEPT ![i] =
                IF wait'[i].kind # "duration" THEN 0
                ELSE (IF Tells(i) THEN now - at ELSE @)
                     - (IF status'[i] = "failed" THEN now - at ELSE 0)]

-----------------------------------------------------------------------------
(* The scheduler loop.                                                     *)

Loop == [at : {"drain", "try", "hold", "park"}, todo : SUBSET (Instance \X Nat),
         of : (Instance \X Nat) \union {<< >>}, saw : BOOLEAN, start : Nat,
         since : Nat, wake : Nat, link : {"none", "up", "patched"}, woken : BOOLEAN]

Fresher == [at |-> "drain", todo |-> {}, of |-> << >>, saw |-> FALSE, start |-> 0,
            since |-> 0, wake |-> 0, link |-> "none", woken |-> FALSE]

(* The pick, without a lock: due timers of active instances that are not   *)
(* deferred.                                                               *)
Pick(p) ==
    /\ loop[p].at = "drain"
    /\ loop' = [loop EXCEPT ![p].at = "try", ![p].saw = Deferrals(p) # {},
                            ![p].todo = {<<i, wait[i].no>> : i \in
                                {j \in Instance : Due(j, now) /\ status[j] = "active"
                                                  /\ ~Deferred(p, j)}}]
    /\ deferral' = Retained(p)
    /\ UNCHANGED <<now, rows, holder, client, faults>>

(* Both locks are taken without waiting for them.                          *)
Begin(p, c) ==
    /\ loop[p].at = "try" /\ c \in loop[p].todo /\ holder[c[1]] = "none"
    /\ holder' = [holder EXCEPT ![c[1]] = p]
    /\ loop' = [loop EXCEPT ![p].at = "hold", ![p].todo = @ \ {c}, ![p].of = c, ![p].start = now]
    /\ UNCHANGED <<now, rows, deferral, client, faults>>

Busy(p, c) ==
    /\ loop[p].at = "try" /\ c \in loop[p].todo /\ holder[c[1]] # "none"
    /\ DeferTransient(p, c[1])
    /\ loop' = [loop EXCEPT ![p].todo = @ \ {c}, ![p].saw = TRUE]
    /\ UNCHANGED <<now, rows, holder, client, faults>>

(* Mutant: the re-check asks for the row only.                             *)
StillThere(p) == wait[loop[p].of[1]].no = loop[p].of[2]

(* The re-check under the lock, by the clock of the transaction's start.   *)
StillArmed(p) ==
    LET c == loop[p].of IN wait[c[1]].no = c[2] /\ Due(c[1], loop[p].start)

Actionable(p) == status[loop[p].of[1]] = "active" /\ StillArmed(p)

Releases(i) == holder' = [holder EXCEPT ![i] = "none"]

Back(l, p, at) == [l EXCEPT ![p].at = at, ![p].of = << >>, ![p].start = 0]

Resolved(p) ==
    /\ loop[p].at = "hold" /\ ~Actionable(p)
    /\ Releases(loop[p].of[1])
    /\ loop' = Back(loop, p, "try")
    /\ UNCHANGED <<now, rows, deferral, client, faults>>

Fire(p) ==
    LET i == loop[p].of[1]
        l == [Back(loop, p, "drain") EXCEPT ![p].todo = {}, ![p].saw = FALSE]
    IN  /\ loop[p].at = "hold" /\ Actionable(p)
        /\ \E at \in loop[p].start .. now :
            Settle(i, at, Fired(i, at)) /\ Lives(i, at)
        /\ Releases(i) /\ ClearDeferral(p, i)
        /\ loop' = IF Tells(i) THEN Notify(l) ELSE l
        /\ UNCHANGED <<now, client, faults>>

(* The step errors and rolls back, a decision that cannot be read, say.    *)
FireFails(p) ==
    /\ loop[p].at = "hold" /\ Actionable(p) /\ faults < MaxFaults
    /\ Releases(loop[p].of[1]) /\ DeferFailed(p, loop[p].of[1])
    /\ loop' = [Back(loop, p, "try") EXCEPT ![p].saw = TRUE]
    /\ faults' = faults + 1
    /\ UNCHANGED <<now, rows, client>>

(* Wakeup::ensure: a connection that was not listening does now, and the   *)
(* gap is looked at again.                                                 *)
Listen(p) ==
    /\ loop[p].at = "try" /\ loop[p].todo = {} /\ loop[p].link = "none"
    /\ loop' = [loop EXCEPT ![p].at = "drain", ![p].link = "up"]
    /\ UNCHANGED <<now, rows, holder, deferral, client, faults>>

(* It parks when it listened already, or cannot.                           *)
Listens(p) == loop[p].link # "none" /\ UNCHANGED faults

CannotListen(p) == loop[p].link = "none" /\ faults < MaxFaults /\ faults' = faults + 1

Soonest(S, default) == IF S = {} THEN default ELSE CHOOSE t \in S : \A u \in S : t <= u

(* The time until the earliest deferral lapses; until the next timer that  *)
(* is neither frozen nor deferred is due.                                  *)
UntilEligible(p, default) == Soonest({deferral[p][i].until - now : i \in Deferrals(p)}, default)
NextDueIn(p) ==
    Soonest({Max(wait[i].due - now, 0) : i \in
        {j \in Instance : Armed(j) /\ status[j] = "active" /\ ~Deferred(p, j)}}, Poll)

Wait(p) ==
    IF loop[p].saw THEN UntilEligible(p, 1)
    ELSE Min(Min(NextDueIn(p), UntilEligible(p, Poll)), Poll)

Park(p) ==
    /\ loop[p].at = "try" /\ loop[p].todo = {}
    /\ loop' = [loop EXCEPT ![p].at = "park", ![p].since = now,
                            ![p].wake = Lapse(now + Max(Wait(p), 1))]
    /\ UNCHANGED <<now, rows, holder, deferral, client>>

(* Mutant: only a notification ends a nap.                                 *)
Unrested(p) == FALSE

(* The nap is over, or a notification came before or during it.            *)
Rested(p) == loop[p].wake <= now

Wake(p) ==
    /\ loop[p].at = "park" /\ (Rested(p) \/ loop[p].woken)
    /\ loop' = [loop EXCEPT ![p] = [Fresher EXCEPT
                    !.link = IF loop[p].link = "none" THEN "none" ELSE "up"]]
    /\ UNCHANGED <<now, rows, holder, deferral, client, faults>>

(* A query of the pass fails: back off, without listening.                 *)
PassFails(p) ==
    /\ loop[p].at = "drain" /\ faults < MaxFaults
    /\ loop' = [loop EXCEPT ![p].at = "park", ![p].since = now, ![p].wake = Lapse(now + 1)]
    /\ faults' = faults + 1
    /\ UNCHANGED <<now, rows, holder, deferral, client>>

(* The listener's connection breaks, and what is notified meanwhile is     *)
(* lost: the loop is told and listens anew, or the library has reconnected *)
(* on its own.                                                             *)
Break(p) ==
    /\ loop[p].link = "up" /\ faults < MaxFaults
    /\ \E to \in {"none", "patched"} :
        loop' = [loop EXCEPT ![p].link = to, ![p].woken = FALSE,
                             ![p].at = IF to = "none" /\ @ = "park" THEN "drain" ELSE @]
    /\ faults' = faults + 1
    /\ UNCHANGED <<now, rows, holder, deferral, client>>

(* The process dies: what it knew is lost, its transaction rolls back.     *)
Crash(p) ==
    /\ faults < MaxFaults /\ faults' = faults + 1
    /\ holder' = [i \in Instance |-> IF holder[i] = p THEN "none" ELSE holder[i]]
    /\ deferral' = [deferral EXCEPT ![p] = [i \in Instance |-> NoDeferral]]
    /\ loop' = [loop EXCEPT ![p] = Fresher]
    /\ UNCHANGED <<now, rows, client>>

-----------------------------------------------------------------------------
(* Clients: messages, other steps, repairs.                                *)

Work == [at : {"idle", "matched", "delivers", "steps", "mends"},
         of : (Instance \X Nat) \union {<< >>}, start : Nat]

Idle == [at |-> "idle", of |-> << >>, start |-> 0]

(* The open subscriptions of active instances for a key.                   *)
Matches(k) ==
    {<<i, wait[i].no>> : i \in {j \in Instance :
        KeyOf[j] = k /\ wait[j].kind = "message" /\ status[j] = "active"}}

Goes(c, at, of, start) == client' = [client EXCEPT ![c] = [at |-> at, of |-> of, start |-> start]]
Rests(c)        == client' = [client EXCEPT ![c] = Idle]

(* resolve_subscription: exactly one, found without a lock.                *)
Match(c, k) ==
    /\ client[c].at = "idle"
    /\ \E m \in Matches(k) : Matches(k) = {m} /\ Goes(c, "matched", m, 0)
    /\ UNCHANGED <<now, rows, holder, deferral, loop, faults>>

(* Mutant: the subscription that was found, if its instance is active.     *)
FoundBefore(c) == IF status[client[c].of[1]] = "active" THEN {client[c].of} ELSE {}

(* The subscription delivered to, under the lock: the one found, or the    *)
(* one there is now.                                                       *)
Found(c) ==
    LET m == client[c].of
        again == Matches(KeyOf[m[1]])
    IN  IF status[m[1]] # "active" THEN {}
        ELSE IF wait[m[1]].no = m[2] THEN {m}
        ELSE {a \in again : again = {a} /\ a[1] = m[1]}

Locked(c, i) == holder[i] = "none" /\ holder' = [holder EXCEPT ![i] = c]

Take(c) ==
    /\ client[c].at = "matched" /\ Locked(c, client[c].of[1])
    /\ \E m \in Found(c) : Goes(c, "delivers", m, now)
    /\ UNCHANGED <<now, rows, deferral, loop, faults>>

Refuse(c) ==
    /\ client[c].at = "matched" /\ holder[client[c].of[1]] = "none" /\ Found(c) = {}
    /\ Rests(c)
    /\ UNCHANGED <<now, rows, holder, deferral, loop, faults>>

(* A completion, say, or an embedder that keeps the row for a while; or a  *)
(* repair.                                                                 *)
Hold(c, i) ==
    /\ client[c].at = "idle" /\ status[i] \in {"active", "failed"} /\ Locked(c, i)
    /\ Goes(c, IF status[i] = "active" THEN "steps" ELSE "mends", <<i, 0>>, now)
    /\ UNCHANGED <<now, rows, deferral, loop, faults>>

Commits(c, i, told) ==
    /\ Releases(i) /\ Rests(c)
    /\ loop' = IF told THEN Notify(loop) ELSE loop
    /\ UNCHANGED <<now, deferral, faults>>

Deliver(c) ==
    LET i == client[c].of[1] IN
    /\ client[c].at = "delivers"
    /\ \E at \in client[c].start .. now : Settle(i, at, NoWait) /\ Lives(i, at)
    /\ Commits(c, i, Tells(i))

StepOther(c) ==
    LET i == client[c].of[1] IN
    /\ client[c].at = "steps"
    /\ \E at \in client[c].start .. now : Settle(i, at, wait[i]) /\ Lives(i, at)
    /\ Commits(c, i, Tells(i))

(* Another process's scheduler, of which only the transaction is seen.     *)
FireElsewhere(c) ==
    LET i == client[c].of[1] IN
    /\ client[c].at = "steps" /\ Due(i, client[c].start)
    /\ \E at \in client[c].start .. now :
        Settle(i, at, Fired(i, at)) /\ Lives(i, at)
    /\ Commits(c, i, Tells(i))

(* A repair resumes what the freeze kept and wakes the schedulers; what    *)
(* its own step does is left to the steps after it.                        *)
Mend(c) ==
    LET i == client[c].of[1] IN
    /\ client[c].at = "mends"
    /\ \E at \in client[c].start .. now :
        /\ wait' = [wait EXCEPT ![i] = Thawed(i, at)]
        /\ lived' = [lived EXCEPT ![i] = IF wait[i].kind = "duration" THEN @ + now - at ELSE 0]
    /\ status' = [status EXCEPT ![i] = "active"]
    /\ frozenAt' = [frozenAt EXCEPT ![i] = 0]
    /\ UNCHANGED made
    /\ Commits(c, i, TRUE)

Rollback(c) ==
    /\ client[c].at \in {"delivers", "steps", "mends"}
    /\ Releases(client[c].of[1]) /\ Rests(c)
    /\ UNCHANGED <<now, rows, deferral, loop, faults>>

Tick ==
    /\ now < MaxTime /\ now' = now + 1
    /\ \A p \in Scheduler : loop[p].at = "hold" => now < loop[p].start + MaxWork
    /\ \A c \in Client : client[c].at \notin {"idle", "matched"} => now < client[c].start + MaxWork
    /\ lived' = [i \in Instance |->
        lived[i] + IF wait[i].kind = "duration" /\ status[i] = "active" THEN 1 ELSE 0]
    /\ UNCHANGED <<status, frozenAt, wait, made, holder, deferral, loop, client, faults>>

-----------------------------------------------------------------------------
Init ==
    /\ now = 0 /\ faults = 0
    /\ status = [i \in Instance |-> "active"] /\ frozenAt = [i \in Instance |-> 0]
    /\ made = [i \in Instance |-> 1]
    /\ wait \in [Instance -> {[w EXCEPT !.due = Min(@, 1)] : w \in News(1, 0)}]
    /\ lived = [i \in Instance |-> IF wait[i].kind = "duration" THEN Length - 1 ELSE 0]
    /\ holder = [i \in Instance |-> "none"]
    /\ deferral = [p \in Scheduler |-> [i \in Instance |-> NoDeferral]]
    /\ loop = [p \in Scheduler |-> Fresher]
    /\ client = [c \in Client |-> Idle]

Drain(p) ==
    \/ Pick(p) \/ Resolved(p) \/ Fire(p) \/ Listen(p) \/ Wake(p)
    \/ (Park(p) /\ Listens(p))
    \/ \E i \in Instance, no \in 1 .. MaxArms : Begin(p, <<i, no>>) \/ Busy(p, <<i, no>>)

Ends(c) == Deliver(c) \/ StepOther(c) \/ FireElsewhere(c) \/ Mend(c) \/ Rollback(c)

Next ==
    \/ Tick
    \/ \E p \in Scheduler :
        Drain(p) \/ FireFails(p) \/ (Park(p) /\ CannotListen(p)) \/ PassFails(p) \/ Break(p) \/ Crash(p)
    \/ \E c \in Sender : Take(c) \/ Refuse(c) \/ \E i \in Instance : Match(c, KeyOf[i])
    \/ \E c \in Caller, i \in Instance : Hold(c, i)
    \/ \E c \in Client : Ends(c)

Spec == Init /\ [][Next]_vars

(* Time passes, the loop goes on, and a transaction ends.                  *)
FairSpec ==
    /\ Spec /\ WF_vars(Tick)
    /\ \A p \in Scheduler : WF_vars(Drain(p))
    /\ \A c \in Client : WF_vars(Ends(c))

-----------------------------------------------------------------------------
(* The row lock is held by whoever is in a transaction on the instance.    *)
TypeOK ==
    /\ now \in 0 .. MaxTime /\ faults \in 0 .. MaxFaults
    /\ status \in [Instance -> {"active", "failed", "ended"}]
    /\ frozenAt \in [Instance -> 0 .. MaxTime]
    /\ made \in [Instance -> 1 .. MaxArms]
    /\ wait \in [Instance -> [no : 0 .. MaxArms, kind : Kinds \union {"none"},
                               due : 0 .. Beyond, left : 0 .. Fires]]
    /\ lived \in [Instance -> Int]
    /\ holder \in [Instance -> {"none"} \union Scheduler \union Client]
    /\ loop \in [Scheduler -> Loop] /\ client \in [Client -> Work]
    /\ \A i \in Instance, p \in Scheduler :
        holder[i] = p <=> loop[p].at = "hold" /\ loop[p].of[1] = i

(* No timer fires before it is due, by the due date it has when it fires:  *)
(* not one that a repair moved after it was picked.                        *)
NeverFiresEarly ==
    [][\A p \in Scheduler, i \in Instance :
        holder[i] = p /\ wait'[i] # wait[i] => wait[i].due <= now]_vars

(* When the transaction on i began.                                        *)
Began(i) == IF holder[i] \in Scheduler THEN loop[holder[i]].start ELSE client[holder[i]].start

(* A cycle keeps to its grid, whoever was late: what fires next, and where *)
(* a repair moves what came due in the outage, is whole periods on and the *)
(* first occurrence that is not past.  None to come is skipped and none    *)
(* missed is replayed; one due before the freeze is still owed.            *)
CyclesKeepTheirGrid ==
    [][\A i \in Instance :
        LET t == wait[i] u == wait'[i]
            resumes == status[i] = "failed" /\ status'[i] = "active" IN
        /\ t.kind = "cycle" /\ u.kind = "cycle" /\ u.due < Beyond
        /\ u.left = t.left - 1 \/ u.no = t.no
        => /\ u.due >= t.due /\ (u.due - t.due) % Period = 0 /\ (u.no # t.no => u.due > t.due)
           /\ u.due # t.due => u.due <= now + Period
           /\ u.no # t.no \/ (resumes /\ t.due >= frozenAt[i]) => u.due >= Began(i)
           /\ resumes /\ t.due < frozenAt[i] => u.due = t.due]_vars

(* A duration runs while its instance does: it is due when its instance    *)
(* will have been active for its length, so what a freeze took away is     *)
(* given back, and no more.                                                *)
OutagesAreNotCounted ==
    \A i \in Instance :
        wait[i].kind = "duration" /\ wait[i].due < Beyond
        => wait[i].due + lived[i] = Length + IF status[i] = "failed" THEN frozenAt[i] ELSE now

(* A scheduler that found nothing it had to leave alone, and that listens, *)
(* does not sleep past a timer it may fire: what is armed or moved         *)
(* meanwhile wakes it.                                                     *)
WokenInTime ==
    \A p \in Scheduler, i \in Instance :
        /\ loop[p].at = "park" /\ ~loop[p].saw /\ loop[p].link = "up" /\ ~loop[p].woken
        /\ status[i] = "active" /\ Armed(i)
        => loop[p].wake <= Max(wait[i].due, loop[p].since + 1) \/ loop[p].wake <= now

(* A message is delivered only to a wait that is open, and refused only    *)
(* where none is.                                                          *)
MessagesFollowTheWait ==
    [][\A c \in Client :
        LET i == client[c].of[1] IN
        /\ client[c].at = "matched" /\ client'[c].at = "idle"
            => status[i] # "active" \/ wait[i].kind # "message" \/ Cardinality(Matches(KeyOf[i])) > 1
        /\ client[c].at = "delivers" /\ wait'[i] # wait[i]
            => status[i] = "active" /\ wait[i].kind = "message" /\ wait[i].no = client[c].of[2]]_vars

(* No instance stays overdue: a timer that is due is fired, or withdrawn,  *)
(* or its instance frozen, in the end, unless callers keep the row busy.   *)
DueIsFired ==
    \A i \in Instance :
        <>[](holder[i] \notin Client) => []<>~(status[i] = "active" /\ Due(i, now))
=============================================================================
