------------------------------ MODULE TaskLease ------------------------------
(***************************************************************************)
(* The task API: the work items of one instance, claimed under leases by   *)
(* clients that crash, dawdle and repeat themselves                        *)
(* (crates/rbpmn-engine/src/tasks.rs, runtime.rs, worker.rs).              *)
(*                                                                         *)
(* A request is a transaction in two moments: it begins, which fixes the   *)
(* time its SQL calls now(), and later, having waited for the instance's   *)
(* and the item's row locks, it decides.  Times are kept relative to the   *)
(* present: "until" is what is left of a lease, negative once it is past,  *)
(* "gap" what is left of a retry's backoff, "age" how long ago a request   *)
(* began.  So the clock needs no bound.                                    *)
(*                                                                         *)
(* What a step does to the rest of the instance is free: it may withdraw   *)
(* other items, open new ones, freeze the instance or end it.              *)
(***************************************************************************)
EXTENDS Integers, FiniteSets

CONSTANTS
    Item,       \* the rows of rbpmn_work_item, made or yet to be made
    Owner,      \* lease holders
    NoOwner,    \* no holder: an item nobody claimed, a request without owner
    BareVerbs,  \* the verbs that are also sent without an owner and a lease
    Attempts,   \* the retry budget an item is made with
    Ttl,        \* how long a claim holds
    Gap,        \* the backoff of a retry
    MaxWait,    \* how long a transaction waits for a lock, at most
    MaxLease,   \* how often an item is claimed, at most
    MaxCalls    \* requests under way at once, at most

ASSUME Numbers ==
    /\ Attempts \in Nat \ {0} /\ Ttl \in Nat \ {0} /\ Gap \in Nat
    /\ MaxWait \in Nat /\ MaxLease \in Nat /\ MaxCalls \in Nat

ASSUME Nobody == NoOwner \notin Owner

ASSUME BareRequests == BareVerbs \subseteq {"complete", "fail"}

VARIABLES
    status,   \* the instance: active, failed, ended
    rows,     \* the item rows
    held,     \* the claims some client is still working on
    calls     \* the requests under way

vars == <<status, rows, held, calls>>

Verb      == {"complete", "fail", "release", "extend"}
RowState  == {"unmade", "available", "locked", "completed", "failed", "cancelled"}
Row       == [state : RowState, owner : Owner \union {NoOwner}, until : Int,
              lease : Nat, retries : Nat, gap : Nat]
Claimed   == [item : Item, owner : Owner, lease : Nat]
NotBegun  == 0 - 1
Call      == [verb : Verb, item : Item, owner : Owner \union {NoOwner}, lease : Nat,
              age : Nat \union {NotBegun}]

NoLease == 0    \* the lease number of a request that names none

Unmade == [state |-> "unmade", owner |-> NoOwner, until |-> 0, lease |-> 0,
           retries |-> Attempts, gap |-> 0]
Fresh  == [Unmade EXCEPT !.state = "available"]

Open(r) == r.state \in {"available", "locked"}

-----------------------------------------------------------------------------
(* The clock.                                                              *)

Max0(n)    == IF n > 0 THEN n ELSE 0
Later(n)   == IF n > 0 - MaxWait THEN n - 1 ELSE n

(* Time passes, unless that would keep a transaction waiting for too long. *)
Tick ==
    /\ \A c \in calls : c.age < MaxWait
    /\ rows' = [i \in Item |->
                   [rows[i] EXCEPT !.until = Later(@), !.gap = Max0(@ - 1)]]
    /\ calls' = {IF c.age = NotBegun THEN c ELSE [c EXCEPT !.age = @ + 1] : c \in calls}
    /\ UNCHANGED <<status, held>>

-----------------------------------------------------------------------------
(* Claims: one statement, so one moment.                                   *)

(* Mutant: a lapsed lease is not taken for available.                      *)
ClaimableUnlessLocked(r) ==
    r.state = "available" /\ r.gap = 0 /\ status = "active"

Claimable(r) ==
    /\ r.state = "available" \/ (r.state = "locked" /\ r.until < 0)
    /\ r.gap = 0
    /\ status = "active"

Lock(r, o) ==
    [r EXCEPT !.state = "locked", !.owner = o, !.until = Ttl, !.lease = r.lease + 1]

Claim(o, i) ==
    /\ Claimable(rows[i]) /\ rows[i].lease < MaxLease
    /\ rows' = [rows EXCEPT ![i] = Lock(@, o)]
    /\ held' = held \union {[item |-> i, owner |-> o, lease |-> rows[i].lease + 1]}
    /\ UNCHANGED <<status, calls>>

(* The client is done with a claim, has crashed, or was never answered.    *)
Forget(h) == h \in held /\ held' = held \ {h} /\ UNCHANGED <<status, rows, calls>>

-----------------------------------------------------------------------------
(* Requests.  A client repeats a request as often as it likes.             *)

Request(verb, i, o, n) ==
    /\ Cardinality(calls) < MaxCalls
    /\ calls' = calls \union
          {[verb |-> verb, item |-> i, owner |-> o, lease |-> n, age |-> NotBegun]}
    /\ UNCHANGED <<status, rows, held>>

Ask(h, verb) == h \in held /\ Request(verb, h.item, h.owner, h.lease)

AskBare(i, verb) == rows[i].state # "unmade" /\ Request(verb, i, NoOwner, NoLease)

Begin(c) ==
    /\ c \in calls /\ c.age = NotBegun
    /\ calls' = (calls \ {c}) \union {[c EXCEPT !.age = 0]}
    /\ UNCHANGED <<status, rows, held>>

Deciding(c, verb) ==
    c \in calls /\ c.verb = verb /\ c.age # NotBegun /\ calls' = calls \ {c} /\ UNCHANGED held

(* A request changes nothing: it was lost, rolled back, or refused.        *)
Drop(c) == c \in calls /\ calls' = calls \ {c} /\ UNCHANGED <<status, rows, held>>

(* Whether the lease was live when the transaction that asks began.        *)
LiveFor(r, c) == r.until + c.age > 0

(* Mutant: the gate is left out.                                           *)
GuardLeaseOpen(r, c) == TRUE

(* The lease gate: a lease that is live is its owner's alone.              *)
GuardLease(r, c) == r.state = "locked" /\ LiveFor(r, c) => c.owner = r.owner

(* Mutant: the owner alone is compared.                                    *)
NamesOwner(c, r) == r.state = "locked" /\ r.owner = c.owner

(* The request names the claim that is current.                            *)
Names(c, r) == r.state = "locked" /\ r.owner = c.owner /\ r.lease = c.lease

(* What else a step of the instance does, after it made the rows rs.       *)
Proceeds(rs) ==
    \E gone \in SUBSET {i \in Item : Open(rs[i])},
       made \in SUBSET {i \in Item : rs[i].state = "unmade"},
       next \in {"active", "failed", "ended"} :
        /\ next = "ended" => made = {} /\ \A i \in Item : Open(rs[i]) => i \in gone
        /\ status' = next
        /\ rows' = [i \in Item |-> IF i \in gone THEN [rs[i] EXCEPT !.state = "cancelled"]
                                   ELSE IF i \in made THEN Fresh ELSE rs[i]]

Complete(c) ==
    /\ Deciding(c, "complete")
    /\ Open(rows[c.item]) /\ GuardLease(rows[c.item], c)
    /\ status = "active"
    /\ Proceeds([rows EXCEPT ![c.item].state = "completed"])

(* A failure names its claim, or comes without a lease through the gate.   *)
MayFail(r, c) ==
    Open(r) /\ IF c.lease = NoLease THEN GuardLease(r, c) ELSE Names(c, r)

Spend(r) == [r EXCEPT !.state = "available", !.owner = NoOwner, !.until = 0,
                      !.retries = r.retries - 1, !.gap = Gap]

(* Mutant: the status is not looked at.                                    *)
RetryFrozen(c) ==
    /\ Deciding(c, "fail") /\ MayFail(rows[c.item], c)
    /\ rows[c.item].retries > 1
    /\ rows' = [rows EXCEPT ![c.item] = Spend(@)]
    /\ UNCHANGED status

Retry(c) ==
    /\ Deciding(c, "fail") /\ MayFail(rows[c.item], c)
    /\ status = "active"
    /\ rows[c.item].retries > 1
    /\ rows' = [rows EXCEPT ![c.item] = Spend(@)]
    /\ UNCHANGED status

(* The last retry is spent: the error is raised, caught or not.            *)
Exhaust(c) ==
    /\ Deciding(c, "fail") /\ MayFail(rows[c.item], c)
    /\ status = "active"
    /\ rows[c.item].retries <= 1
    /\ Proceeds([rows EXCEPT ![c.item] = [Spend(@) EXCEPT !.state = "failed"]])

Unlock(r) == [r EXCEPT !.state = "available", !.owner = NoOwner, !.until = 0]

Release(c) ==
    /\ Deciding(c, "release")
    /\ Names(c, rows[c.item])
    /\ rows' = [rows EXCEPT ![c.item] = Unlock(@)]
    /\ UNCHANGED status

Extend(c) ==
    /\ Deciding(c, "extend")
    /\ rows[c.item].state = "locked" /\ rows[c.item].owner = c.owner
    /\ LiveFor(rows[c.item], c)
    /\ rows' = [rows EXCEPT ![c.item].until = Ttl - c.age]
    /\ UNCHANGED status

Decide(c) ==
    Complete(c) \/ Retry(c) \/ Exhaust(c) \/ Release(c) \/ Extend(c) \/ Drop(c)

(* A step nobody asked for through an item: a timer, a message, a repair.  *)
Step == status # "ended" /\ Proceeds(rows) /\ UNCHANGED <<held, calls>>

-----------------------------------------------------------------------------
Init ==
    /\ status = "active"
    /\ rows \in [Item -> {Unmade, Fresh}]
    /\ held = {} /\ calls = {}

Next ==
    \/ Tick \/ Step
    \/ \E o \in Owner, i \in Item : Claim(o, i)
    \/ \E h \in held : Forget(h) \/ \E verb \in Verb : Ask(h, verb)
    \/ \E i \in Item, verb \in BareVerbs : AskBare(i, verb)
    \/ \E c \in calls : Begin(c) \/ Decide(c)

Spec == Init /\ [][Next]_vars

(* Time passes, and no transaction waits for longer than MaxWait.          *)
FairSpec ==
    /\ Spec
    /\ WF_vars(Tick)
    /\ WF_vars(\E c \in calls : c.age = MaxWait /\ Decide(c))

-----------------------------------------------------------------------------
Sound(r) ==
    /\ r.state = "locked" => r.owner \in Owner
    /\ Open(r) => r.retries \in 1..Attempts

(* Every column holds what the schema lets it hold; an item has a holder   *)
(* while it is locked, and the budget of an open item is not spent.        *)
TypeOK ==
    /\ status \in {"active", "failed", "ended"}
    /\ rows \in [Item -> Row]
    /\ held \subseteq Claimed /\ calls \subseteq Call
    /\ \A i \in Item : Sound(rows[i])

(* A lease that is running ends only by a request of its holder, or by the *)
(* process withdrawing the item: no other client, whatever it believes,    *)
(* and no late request of anyone ends it (guard_lease, release_task).      *)
LiveLeaseIsRespected ==
    [][\A i \in Item :
        LET r == rows[i] IN
        r.state = "locked" /\ r.until > 0
            => \/ rows'[i].state = "locked" /\ rows'[i].owner = r.owner /\ rows'[i].lease = r.lease
               \/ rows'[i].state = "cancelled"
               \/ \E c \in calls \ calls' : c.item = i /\ c.owner = r.owner]_vars

(* A failure or a release that is repeated, or late, never frees a claim   *)
(* made after the one it names, not even one by the same holder.           *)
ReplayFreesNoLaterClaim ==
    [][\A i \in Item :
        rows[i].state = "locked" /\ rows'[i].state = "available"
            => \E c \in calls \ calls' :
                /\ c.item = i /\ c.verb \in {"fail", "release"}
                /\ c.lease = rows[i].lease \/ (c.lease = NoLease /\ rows[i].until <= 0)]_vars

(* A closed item stays closed, whatever reaches it afterwards: its result  *)
(* was taken, or it was withdrawn, once and for all.                       *)
ClosedStaysClosed ==
    [][\A i \in Item :
        rows[i].state \in {"completed", "failed", "cancelled"} => rows'[i].state = rows[i].state]_vars

(* On a frozen or ended instance nothing is completed, fails or spends a   *)
(* retry: requests that began before the freeze find it when they decide.  *)
FrozenItemsKeep ==
    [][status # "active" => \A i \in Item : rows[i].state # "unmade" =>
        /\ rows'[i].retries = rows[i].retries
        /\ rows'[i].state \in {"completed", "failed"} => rows'[i].state = rows[i].state]_vars

(* An item is settled once: a late, repeated or delayed request changes    *)
(* nothing after the item is closed or its instance has frozen or ended.   *)
ItemsAreSettled == ClosedStaysClosed /\ FrozenItemsKeep

Paid(r) ==
    (Attempts - r.retries) + (IF r.state = "locked" THEN 1 ELSE 0) <= r.lease

(* Every retry that was spent was claimed first, and a claim spends one at *)
(* most: lost answers and repeated failures do not eat the budget.         *)
RetriesWereClaimed ==
    "fail" \notin BareVerbs => \A i \in Item : Paid(rows[i])

(* Nobody with the holder's name works on the item any more.               *)
Abandoned(i) ==
    /\ rows[i].state = "locked"
    /\ \A h \in held : h.item # i \/ h.owner # rows[i].owner

(* An item whose holder is gone comes back: it can be claimed again, if    *)
(* the instance is running and nobody closed it.                           *)
AbandonedComesBack ==
    \A i \in Item :
        Abandoned(i) ~> (Claimable(rows[i]) \/ ~Open(rows[i]) \/ status # "active")
=============================================================================
