----------------------------- MODULE EventStream -----------------------------
(***************************************************************************)
(* The event stream: transactions append events to the histories of        *)
(* instances, retention deletes whole histories, and a consumer tails the  *)
(* table with a cursor (crates/rbpmn-engine/src/events.rs, runtime.rs,     *)
(* retention.rs).                                                          *)
(*                                                                         *)
(* Three orders disagree: the order in which transactions take their       *)
(* numbers (at their first write), in which events take their ids (at the  *)
(* insert), and in which transactions commit.  An event's place in the     *)
(* stream is its transaction's number, then its id.                        *)
(*                                                                         *)
(* A transaction is a client's; it runs any number of verbs on any number  *)
(* of instances, as an embedder's may.  What a client sees of the others'  *)
(* events is what is committed.                                            *)
(***************************************************************************)
EXTENDS Integers, FiniteSets

CONSTANTS
    Client,     \* connections that write
    Instance,   \* instances
    MaxXid,     \* transactions that take a number, at most
    MaxId       \* events, at most

ASSUME Limits == MaxXid \in Nat /\ MaxId \in Nat

VARIABLES
    xid,        \* the number of each client's transaction, if it has one
    locks,      \* the instance rows each client's transaction holds
    wrote,      \* the events it inserted
    nextXid,    \* the number the next transaction takes
    nextId,     \* the id the next event takes
    events,     \* rbpmn_event, as committed
    deleted,    \* the events retention has deleted
    gone,       \* the instances retention has deleted
    floor,      \* rbpmn_retention_floor
    cursor,     \* where the consumer is
    came,       \* how it got there: from the start, with a page, from the floor
    read,       \* the events it was given
    early,      \* those deleted before it was given its first page
    skipped     \* the floor it last resumed from, if any

writers == <<xid, locks, wrote, nextXid, nextId>>
reader  == <<cursor, came, read, early, skipped>>
table   == <<events, deleted, gone, floor>>
vars    == <<writers, table, reader>>

Place == [txid : Nat, id : Nat]
Zero  == [txid |-> 0, id |-> 0]
Event == [txid : Nat \ {0}, id : Nat \ {0}, instance : Instance, kind : {"step", "note"}]

(* Lexicographic, on events and cursors alike.                             *)
Before(p, q) == p.txid < q.txid \/ (p.txid = q.txid /\ p.id < q.id)
UpTo(p, q)   == ~Before(q, p)
At(e)        == [txid |-> e.txid, id |-> e.id]

Running == {c \in Client : xid[c] # 0}

-----------------------------------------------------------------------------
(* Writers.                                                                *)

(* The first write of a transaction gives it its number.                   *)
Numbered(c) ==
    IF xid[c] # 0
      THEN UNCHANGED <<xid, nextXid>>
      ELSE /\ nextXid <= MaxXid
           /\ xid' = [xid EXCEPT ![c] = nextXid] /\ nextXid' = nextXid + 1

(* Something outside the engine: an embedder's own write, or any other     *)
(* transaction of the cluster.                                             *)
Write(c) ==
    /\ xid[c] = 0 /\ Numbered(c)
    /\ UNCHANGED <<locks, wrote, nextId, table, reader>>

(* Mutant: the row is read, not locked.                                    *)
NeverHeld(i, c) == TRUE

(* No other transaction holds the row: what "for update" waits for.        *)
Free(i, c) == \A d \in Client \ {c} : i \notin locks[d]

(* A verb locks its instance's row, which is kept until the end.           *)
Load(c, i) ==
    /\ i \notin gone /\ i \notin locks[c] /\ Free(i, c)
    /\ \A e \in wrote[c] : e.kind = "step"
    /\ Numbered(c)
    /\ locks' = [locks EXCEPT ![c] = @ \union {i}]
    /\ UNCHANGED <<wrote, nextId, table, reader>>

Insert(c, i, kind) ==
    /\ nextId <= MaxId
    /\ wrote' = [wrote EXCEPT ![c] = @ \union
                    {[txid |-> xid'[c], id |-> nextId, instance |-> i, kind |-> kind]}]
    /\ nextId' = nextId + 1

(* An event of a step, appended under the lock.                            *)
Append(c, i) ==
    /\ i \in locks[c]
    /\ Numbered(c) /\ Insert(c, i, "step")
    /\ UNCHANGED <<locks, table, reader>>

(* The scheduler notes that a timer cannot be fired: a transaction of its  *)
(* own, one statement long, without the lock.                              *)
Note(c, i) ==
    /\ xid[c] = 0 /\ i \notin gone
    /\ Numbered(c) /\ Insert(c, i, "note")
    /\ UNCHANGED <<locks, table, reader>>

(* The foreign key lets an event in when nobody else holds its instance,   *)
(* and the instance is there.                                              *)
Referenced(c) ==
    \A e \in wrote[c] : e.instance \notin gone /\ Free(e.instance, c)

End(c) ==
    /\ xid[c] # 0
    /\ xid' = [xid EXCEPT ![c] = 0]
    /\ locks' = [locks EXCEPT ![c] = {}]
    /\ wrote' = [wrote EXCEPT ![c] = {}]
    /\ UNCHANGED <<nextXid, nextId, deleted, gone, floor, reader>>

Commit(c) == End(c) /\ Referenced(c) /\ events' = events \union wrote[c]

Abort(c)  == End(c) /\ UNCHANGED events

-----------------------------------------------------------------------------
(* Retention: the histories of the instances it locked go in one           *)
(* transaction, and the floor rises to the last of the deleted events.     *)
(* Which instances those are is another matter.  The transaction has no    *)
(* number here: it appends no event, and that it holds pages back while it *)
(* runs is what a Write shows.                                             *)

LastOf(es) == {e \in es : \A f \in es : UpTo(f, e)}

Rises(es) ==
    \/ es = {} /\ UNCHANGED floor
    \/ \E last \in LastOf(es) :
        floor' = IF Before(floor, last) THEN At(last) ELSE floor

Retire(batch) ==
    /\ batch # {} /\ batch \intersect gone = {}
    /\ \A c \in Client : locks[c] \intersect batch = {}
    /\ LET history == {e \in events : e.instance \in batch} IN
        /\ events' = events \ history
        /\ deleted' = deleted \union history
        /\ Rises(history)
    /\ gone' = gone \union batch
    /\ UNCHANGED <<writers, reader>>

-----------------------------------------------------------------------------
(* The consumer.                                                           *)

(* Mutants: every committed event is final; the last one never is.         *)
CommittedIsFinal(n) == n < nextXid
FinalTooLate(n) == n + 1 < nextXid /\ \A c \in Running : n + 1 < xid[c]

(* No transaction that is still running has this number or a lower one,    *)
(* and none will: the number is below the snapshot's xmin.                 *)
Final(n) == n < nextXid /\ \A c \in Running : n < xid[c]

(* Mutant: the consumer is never told.                                     *)
NeverTruncated(at) == FALSE

(* A resume from below the floor; the start is no resume.                  *)
Truncated(at) == at # Zero /\ Before(at, floor)

Readable == {e \in events : Before(cursor, e) /\ Final(e.txid)}

(* A page: the first of what is readable, up to the event at its end, and  *)
(* the floor, in one snapshot.  The caller's limit decides how long it is. *)
Read ==
    /\ ~Truncated(cursor)
    /\ \E end \in Readable :
        /\ cursor' = At(end)
        /\ read' = read \union {e \in Readable : UpTo(e, end)}
    /\ came' = "page"
    /\ early' = IF cursor = Zero THEN deleted ELSE early
    /\ UNCHANGED <<writers, table, skipped>>

(* Told of a truncation, the consumer takes the floor it is given.         *)
Resume ==
    /\ Truncated(cursor)
    /\ cursor' = floor /\ came' = "floor" /\ skipped' = floor
    /\ UNCHANGED <<writers, table, read, early>>

-----------------------------------------------------------------------------
Init ==
    /\ xid = [c \in Client |-> 0]
    /\ locks = [c \in Client |-> {}] /\ wrote = [c \in Client |-> {}]
    /\ nextXid = 1 /\ nextId = 1
    /\ events = {} /\ deleted = {} /\ gone = {} /\ floor = Zero
    /\ cursor = Zero /\ came = "start" /\ read = {} /\ early = {} /\ skipped = Zero

Next ==
    \/ \E c \in Client :
        \/ Write(c) \/ Commit(c) \/ Abort(c)
        \/ \E i \in Instance : Load(c, i) \/ Append(c, i) \/ Note(c, i)
    \/ \E batch \in SUBSET Instance : Retire(batch)
    \/ Read \/ Resume

Spec == Init /\ [][Next]_vars

(* Transactions end, and the consumer keeps reading.                       *)
FairSpec ==
    /\ Spec
    /\ \A c \in Client : WF_vars(Commit(c) \/ Abort(c))
    /\ WF_vars(Read) /\ WF_vars(Resume)

-----------------------------------------------------------------------------
(* Rows have the types of their columns.                                   *)
TypeOK ==
    /\ xid \in [Client -> Nat] /\ locks \in [Client -> SUBSET Instance]
    /\ wrote \in [Client -> SUBSET Event]
    /\ nextXid \in Nat \ {0} /\ nextId \in Nat \ {0}
    /\ events \subseteq Event /\ deleted \subseteq Event /\ gone \subseteq Instance
    /\ floor \in Place /\ cursor \in Place /\ skipped \in Place
    /\ came \in {"start", "page", "floor"}
    /\ read \subseteq Event /\ early \subseteq Event

(* The consumer misses nothing: an event at or behind its cursor was given *)
(* to it, or had been deleted before it began, or lies in the gap it was   *)
(* told of and accepted.                                                   *)
NothingMissed ==
    \A e \in events \union deleted :
        UpTo(e, cursor) => e \in read \union early \/ UpTo(e, skipped)

(* No event ever appears at or behind a place a page ended at: a           *)
(* transaction that could still write there holds the page back.           *)
NothingBehindAPage ==
    [][came = "page" => \A e \in events' \ events : Before(cursor, e)]_vars

(* No event ever appears at or behind the cursor, wherever it came from.   *)
NothingBehindTheCursor ==
    [][\A e \in events' \ events : Before(cursor, e)]_vars

(* Sorted by id, the steps of an instance are in the order they committed  *)
(* in, even when the stream's own order is another one.                    *)
IdsFollowSteps ==
    [][\A e \in events' \ events, f \in events :
        e.kind = "step" /\ f.kind = "step" /\ e.instance = f.instance => f.id < e.id]_vars

(* The floor is the place of a deleted event, and none is above it: the    *)
(* consumer is not told too late, nor for nothing.                         *)
FloorIsTheLastDeleted ==
    /\ \A e \in deleted : UpTo(e, floor)
    /\ floor = Zero \/ \E e \in deleted : At(e) = floor

(* Late is not lost: what was committed is read in the end, or deleted, or *)
(* given up with a gap.                                                    *)
CommittedIsRead ==
    \A n \in 1..MaxId :
        (\E e \in events : e.id = n)
            ~> (\A e \in events : e.id = n => e \in read \/ UpTo(e, skipped))
=============================================================================
