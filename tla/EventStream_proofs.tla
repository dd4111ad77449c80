-------------------------- MODULE EventStream_proofs --------------------------
(***************************************************************************)
(* What EventStream promises for any number of connections, instances and  *)
(* events: nothing is missed, nothing appears behind a page, the ids of an *)
(* instance's steps follow their commits, and the floor is exact.          *)
(*                                                                         *)
(* NothingMissed is not inductive.  A page's place must stay final         *)
(* (PagesAreFinal), which needs numbers to be taken in order and by one    *)
(* transaction each (NumbersInOrder); what was deleted must be at or below *)
(* the floor; and IdsFollowSteps needs that a step's events are appended   *)
(* under a lock nobody shares (StepsHoldTheirLock).                        *)
(***************************************************************************)
EXTENDS EventStream, TLAPS

NumbersInOrder ==
    /\ \A c \in Client : xid[c] < nextXid
    /\ \A c, d \in Client : c # d /\ xid[c] # 0 => xid[c] # xid[d]
    /\ \A c \in Client : \A e \in wrote[c] : e.txid = xid[c] /\ e.id < nextId
    /\ \A e \in events \union deleted : e.txid < nextXid /\ e.id < nextId
    /\ \A e \in events \union deleted, c \in Client : e.txid # xid[c]

StepsHoldTheirLock ==
    /\ \A c, d \in Client : c # d => locks[c] \intersect locks[d] = {}
    /\ \A c \in Client : \A e \in wrote[c] :
        e.kind = "step" => /\ e.instance \in locks[c]
                           /\ \A f \in events : f.kind = "step" /\ f.instance = e.instance
                                                   => f.id < e.id

PagesAreFinal ==
    /\ came = "start" => cursor = Zero
    /\ came = "page" => Final(cursor.txid)
    /\ came = "floor" => cursor = skipped

Tidy == /\ TypeOK /\ NumbersInOrder /\ StepsHoldTheirLock
        /\ PagesAreFinal /\ FloorIsTheLastDeleted /\ NothingMissed

-----------------------------------------------------------------------------
(* The order of places.                                                    *)

Placed(p) == p.txid \in Nat /\ p.id \in Nat

LEMMA PlacedAll ==
    /\ \A e \in Event : Placed(e) /\ At(e) \in Place /\ e.txid # 0
    /\ \A p \in Place : Placed(p)
    /\ Zero \in Place
BY DEF Event, Place, Placed, At, Zero

LEMMA OrderIsTotal ==
    ASSUME NEW p, NEW q, NEW r, Placed(p), Placed(q), Placed(r)
    PROVE  /\ UpTo(p, p)
           /\ Before(p, q) => UpTo(p, q) /\ ~UpTo(q, p)
           /\ ~UpTo(p, q) <=> Before(q, p)
           /\ UpTo(p, q) /\ UpTo(q, r) => UpTo(p, r)
           /\ Before(p, q) /\ UpTo(q, r) => Before(p, r)
           /\ UpTo(p, q) /\ Before(q, r) => Before(p, r)
           /\ UpTo(p, q) => p.txid <= q.txid
BY DEF Placed, Before, UpTo

LEMMA AtIsSamePlace ==
    ASSUME NEW e
    PROVE  /\ At(e).txid = e.txid /\ At(e).id = e.id
           /\ \A p : Before(p, At(e)) <=> Before(p, e)
           /\ \A p : UpTo(p, At(e)) <=> UpTo(p, e)
BY DEF At, Before, UpTo

(* Every event lies after the start.                                       *)
LEMMA AfterTheStart == \A e \in Event : ~UpTo(e, Zero)
BY DEF Event, UpTo, Before, Zero

-----------------------------------------------------------------------------
(* Writers.                                                                *)

(* What taking a number, or having one, does.                              *)
LEMMA NumberedKeeps ==
    ASSUME Tidy, NEW c \in Client, Numbered(c)
    PROVE  /\ xid' \in [Client -> Nat] /\ nextXid' \in Nat \ {0}
           /\ nextXid <= nextXid'
           /\ \A d \in Client \ {c} : xid'[d] = xid[d]
           /\ xid'[c] # 0 /\ xid'[c] < nextXid'
           /\ xid[c] # 0 => xid'[c] = xid[c]
           /\ xid[c] = 0 => xid'[c] = nextXid
BY DEF Tidy, TypeOK, NumbersInOrder, Numbered

LEMMA NumbersStay ==
    ASSUME Tidy, NEW c \in Client, Numbered(c), UNCHANGED <<wrote, nextId, table>>
    PROVE  NumbersInOrder'
<1>1. /\ xid \in [Client -> Nat] /\ wrote \in [Client -> SUBSET Event]
      /\ nextXid \in Nat /\ nextId \in Nat /\ events \union deleted \subseteq Event
  BY DEF Tidy, TypeOK
<1>2. \A d \in Client : \A e \in wrote'[d] : e.txid = xid'[d] /\ e.id < nextId'
  BY <1>1, NumberedKeeps, PlacedAll DEF Tidy, NumbersInOrder
<1>3. \A e \in events' \union deleted' : e.txid < nextXid' /\ e.id < nextId'
  BY <1>1, NumberedKeeps DEF Tidy, NumbersInOrder, Event, table
<1>4. \A e \in events' \union deleted', d \in Client : e.txid # xid'[d]
  BY <1>1, NumberedKeeps DEF Tidy, NumbersInOrder, Event, table
<1>5. \A d \in Client : xid'[d] < nextXid'
  BY <1>1, NumberedKeeps DEF Tidy, NumbersInOrder
<1>6. \A d, f \in Client : d # f /\ xid'[d] # 0 => xid'[d] # xid'[f]
  BY <1>1, NumberedKeeps DEF Tidy, NumbersInOrder
<1> QED  BY <1>2, <1>3, <1>4, <1>5, <1>6 DEF NumbersInOrder

LEMMA PagesStay ==
    ASSUME Tidy, NEW c \in Client, Numbered(c), UNCHANGED reader
    PROVE  PagesAreFinal'
<1>1. cursor.txid \in Nat /\ xid \in [Client -> Nat] /\ nextXid \in Nat
  BY DEF Tidy, TypeOK, Place
<1>2. Final(cursor.txid) => Final(cursor.txid)'
  BY <1>1, NumberedKeeps DEF Final, Running, reader
<1> QED  BY <1>2 DEF Tidy, PagesAreFinal, reader

(* A transaction's next number: everything but locks and wrote.            *)
LEMMA WriteStays ==
    ASSUME Tidy, NEW c \in Client, Write(c)
    PROVE  Tidy'
<1>1. Numbered(c) /\ UNCHANGED <<locks, wrote, nextId, table, reader>>
  BY DEF Write
<1>2. TypeOK'
  BY <1>1, NumberedKeeps DEF Tidy, TypeOK, table, reader
<1>3. NumbersInOrder' /\ PagesAreFinal'
  BY <1>1, NumbersStay, PagesStay
<1>4. StepsHoldTheirLock' /\ FloorIsTheLastDeleted' /\ NothingMissed'
  BY <1>1 DEF Tidy, StepsHoldTheirLock, FloorIsTheLastDeleted, NothingMissed, table, reader
<1> QED  BY <1>2, <1>3, <1>4 DEF Tidy

LEMMA LoadStays ==
    ASSUME Tidy, NEW c \in Client, NEW i \in Instance, Load(c, i)
    PROVE  Tidy'
<1>1. /\ Numbered(c) /\ Free(i, c)
      /\ locks' = [locks EXCEPT ![c] = locks[c] \union {i}]
      /\ UNCHANGED <<wrote, nextId, table, reader>>
  BY DEF Load
<1>2. locks \in [Client -> SUBSET Instance]
  BY DEF Tidy, TypeOK
<1>3. TypeOK'
  BY <1>1, NumberedKeeps DEF Tidy, TypeOK, table, reader
<1>4. NumbersInOrder' /\ PagesAreFinal'
  BY <1>1, NumbersStay, PagesStay
<1>5. FloorIsTheLastDeleted' /\ NothingMissed'
  BY <1>1 DEF Tidy, FloorIsTheLastDeleted, NothingMissed, table, reader
<1>6. StepsHoldTheirLock'
  <2>1. \A d \in Client : locks[d] \subseteq locks'[d]
    BY <1>1, <1>2
  <2>2. \A d, f \in Client : d # f => locks'[d] \intersect locks'[f] = {}
    BY <1>1, <1>2 DEF Tidy, StepsHoldTheirLock, Free
  <2> QED  BY <1>1, <2>1, <2>2 DEF Tidy, StepsHoldTheirLock, table
<1> QED  BY <1>3, <1>4, <1>5, <1>6 DEF Tidy

LEMMA InsertStays ==
    ASSUME Tidy, NEW c \in Client, NEW i \in Instance, NEW kind \in {"step", "note"},
           Numbered(c), Insert(c, i, kind), kind = "step" => i \in locks[c],
           xid[c] = 0 => wrote[c] = {},
           UNCHANGED <<locks, table, reader>>
    PROVE  Tidy'
<1> DEFINE e == [txid |-> xid'[c], id |-> nextId, instance |-> i, kind |-> kind]
<1>1. /\ xid' \in [Client -> Nat] /\ nextXid \in Nat /\ nextId \in Nat \ {0}
      /\ wrote \in [Client -> SUBSET Event] /\ events \union deleted \subseteq Event
  BY NumberedKeeps DEF Tidy, TypeOK
<1>2. e \in Event /\ nextId' = nextId + 1
  BY <1>1, NumberedKeeps DEF Insert, Event
<1>3. wrote' = [wrote EXCEPT ![c] = wrote[c] \union {e}]
  BY DEF Insert
<1>4. TypeOK'
  <2>1. wrote' \in [Client -> SUBSET Event]
    BY <1>1, <1>2, <1>3
  <2>2. nextId' \in Nat \ {0}
    BY <1>1, <1>2
  <2> QED  BY <2>1, <2>2, NumberedKeeps DEF Tidy, TypeOK, table, reader
<1>5. e.txid = xid'[c] /\ e.id = nextId /\ e.instance = i /\ e.kind = kind
  OBVIOUS
<1> HIDE DEF e
<1>6. NumbersInOrder'
  <2>1. \A d \in Client : \A f \in wrote'[d] : f.txid = xid'[d] /\ f.id < nextId'
    <3> SUFFICES ASSUME NEW d \in Client, NEW f \in wrote'[d]
                 PROVE  f.txid = xid'[d] /\ f.id < nextId'
      OBVIOUS
    <3>1. CASE d = c /\ f = e
      BY <3>1, <1>1, <1>2, <1>5
    <3>2. CASE f \in wrote[d]
      <4>1. f \in Event /\ f.txid = xid[d] /\ f.id < nextId
        BY <1>1, <3>2 DEF Tidy, NumbersInOrder
      <4> QED  BY <4>1, <1>1, <1>2, <3>2, NumberedKeeps DEF Event
    <3> QED  BY <1>1, <1>3, <3>1, <3>2
  <2>2. \A f \in events' \union deleted' : f.txid < nextXid' /\ f.id < nextId'
    BY <1>1, <1>2, NumberedKeeps DEF Tidy, NumbersInOrder, Event, table
  <2>3. \A f \in events' \union deleted', d \in Client : f.txid # xid'[d]
    BY <1>1, NumberedKeeps DEF Tidy, NumbersInOrder, Event, table
  <2>4. \A d \in Client : xid'[d] < nextXid'
    BY <1>1, NumberedKeeps DEF Tidy, TypeOK, NumbersInOrder
  <2>5. \A d, f \in Client : d # f /\ xid'[d] # 0 => xid'[d] # xid'[f]
    BY <1>1, NumberedKeeps DEF Tidy, TypeOK, NumbersInOrder
  <2> QED  BY <2>1, <2>2, <2>3, <2>4, <2>5 DEF NumbersInOrder
<1>7. StepsHoldTheirLock'
  <2>1. ASSUME NEW d \in Client, NEW f \in wrote'[d], f.kind = "step"
        PROVE  /\ f.instance \in locks[d]
               /\ \A g \in events : g.kind = "step" /\ g.instance = f.instance => g.id < f.id
    <3>1. CASE d = c /\ f = e
      BY <2>1, <3>1, <1>5 DEF Tidy, NumbersInOrder
    <3>2. CASE f \in wrote[d]
      BY <2>1, <3>2 DEF Tidy, StepsHoldTheirLock
    <3> QED  BY <1>1, <1>3, <3>1, <3>2
  <2> QED  BY <2>1 DEF Tidy, StepsHoldTheirLock, table
<1>8. PagesAreFinal' /\ FloorIsTheLastDeleted' /\ NothingMissed'
  BY PagesStay DEF Tidy, FloorIsTheLastDeleted, NothingMissed, table, reader
<1> QED  BY <1>4, <1>6, <1>7, <1>8 DEF Tidy

LEMMA AppendStays ==
    ASSUME Tidy, NEW c \in Client, NEW i \in Instance, Append(c, i) \/ Note(c, i)
    PROVE  Tidy'
<1>1. xid[c] = 0 => wrote[c] = {}
  BY DEF Tidy, TypeOK, NumbersInOrder, Event
<1> QED  BY <1>1, InsertStays DEF Append, Note

(* What the end of a transaction leaves of it.                             *)
LEMMA EndKeeps ==
    ASSUME Tidy, NEW c \in Client, End(c)
    PROVE  /\ xid' \in [Client -> Nat] /\ locks' \in [Client -> SUBSET Instance]
           /\ wrote' \in [Client -> SUBSET Event]
           /\ xid'[c] = 0 /\ locks'[c] = {} /\ wrote'[c] = {}
           /\ \A d \in Client \ {c} :
                xid'[d] = xid[d] /\ locks'[d] = locks[d] /\ wrote'[d] = wrote[d]
           /\ PagesAreFinal'
<1>1. /\ xid' \in [Client -> Nat] /\ locks' \in [Client -> SUBSET Instance]
      /\ wrote' \in [Client -> SUBSET Event]
      /\ xid'[c] = 0 /\ locks'[c] = {} /\ wrote'[c] = {}
      /\ \A d \in Client \ {c} :
           xid'[d] = xid[d] /\ locks'[d] = locks[d] /\ wrote'[d] = wrote[d]
      /\ UNCHANGED <<nextXid, reader>>
  BY DEF Tidy, TypeOK, End
<1>2. Final(cursor.txid) => Final(cursor.txid)'
  BY <1>1 DEF Final, Running, reader
<1>3. PagesAreFinal'
  BY <1>1, <1>2 DEF Tidy, PagesAreFinal, reader
<1> QED  BY <1>1, <1>3

(* An event whose transaction still runs lies after the end of any page.   *)
LEMMA RunningIsAfter ==
    ASSUME Tidy, came = "page", NEW c \in Client, NEW e \in wrote[c]
    PROVE  Before(cursor, e)
<1>1. e \in Event /\ cursor \in Place /\ e.txid = xid[c]
  BY DEF Tidy, TypeOK, NumbersInOrder
<1>2. cursor.txid < xid[c]
  BY <1>1 DEF Tidy, PagesAreFinal, Final, Running, Event
<1> QED  BY <1>1, <1>2 DEF Before

(* What a commit adds holds the same promises.                             *)
LEMMA CommitStays ==
    ASSUME Tidy, NEW c \in Client, Commit(c)
    PROVE  Tidy'
<1>1. End(c) /\ events' = events \union wrote[c]
      /\ UNCHANGED <<nextXid, nextId, deleted, gone, floor, reader>>
  BY DEF Commit, End
<1>2. /\ wrote[c] \subseteq Event /\ events \union deleted \subseteq Event
      /\ cursor \in Place /\ skipped \in Place /\ xid \in [Client -> Nat] /\ xid[c] # 0
  BY DEF Tidy, TypeOK, Commit, End
<1>3. TypeOK'
  BY <1>1, <1>2, EndKeeps DEF Tidy, TypeOK, reader
<1>4. NumbersInOrder'
  <2>1. \A e \in wrote[c] : e.txid = xid[c] /\ e.id < nextId /\ xid[c] < nextXid
    BY DEF Tidy, NumbersInOrder
  <2>2. \A e \in events' \union deleted' : e.txid < nextXid' /\ e.id < nextId'
    BY <1>1, <2>1 DEF Tidy, NumbersInOrder
  <2>3. \A e \in events' \union deleted', d \in Client : e.txid # xid'[d]
    <3> SUFFICES ASSUME NEW e \in events' \union deleted', NEW d \in Client
                 PROVE  e.txid # xid'[d]
      OBVIOUS
    <3>1. e \in Event /\ (e \in events \union deleted \/ e \in wrote[c])
      BY <1>1, <1>2
    <3>2. e.txid # 0
      BY <3>1 DEF Event
    <3> QED  BY <1>1, <1>2, <2>1, <3>1, <3>2, EndKeeps DEF Tidy, NumbersInOrder
  <2>4. \A d \in Client : xid'[d] < nextXid'
    BY <1>1, EndKeeps DEF Tidy, TypeOK, NumbersInOrder
  <2>5. \A d, f \in Client : d # f /\ xid'[d] # 0 => xid'[d] # xid'[f]
    BY <1>1, EndKeeps DEF Tidy, NumbersInOrder
  <2>6. \A d \in Client : \A e \in wrote'[d] : e.txid = xid'[d] /\ e.id < nextId'
    BY <1>1, EndKeeps DEF Tidy, NumbersInOrder
  <2> QED  BY <2>2, <2>3, <2>4, <2>5, <2>6 DEF NumbersInOrder
<1>5. StepsHoldTheirLock'
  <2>1. \A d, f \in Client : d # f => locks'[d] \intersect locks'[f] = {}
    BY <1>1, EndKeeps DEF Tidy, StepsHoldTheirLock
  <2>2. ASSUME NEW d \in Client, NEW e \in wrote'[d], e.kind = "step"
        PROVE  /\ e.instance \in locks'[d]
               /\ \A f \in events' : f.kind = "step" /\ f.instance = e.instance => f.id < e.id
    <3>1. d # c /\ e \in wrote[d] /\ locks'[d] = locks[d] /\ e.instance \in locks[d]
      BY <1>1, <2>2, EndKeeps DEF Tidy, StepsHoldTheirLock
    <3>2. ASSUME NEW f \in wrote[c], f.kind = "step", f.instance = e.instance
          PROVE  FALSE
      BY <3>1, <3>2 DEF Tidy, StepsHoldTheirLock
    <3> QED  BY <1>1, <2>2, <3>1, <3>2 DEF Tidy, StepsHoldTheirLock
  <2> QED  BY <2>1, <2>2 DEF StepsHoldTheirLock
<1>6. FloorIsTheLastDeleted'
  BY <1>1 DEF Tidy, FloorIsTheLastDeleted
<1>7. NothingMissed'
  <2> SUFFICES ASSUME NEW e \in events' \union deleted', UpTo(e, cursor)
               PROVE  e \in read \union early \/ UpTo(e, skipped)
    BY <1>1 DEF NothingMissed, reader
  <2>1. CASE e \in events \union deleted
    BY <2>1 DEF Tidy, NothingMissed
  <2>2. CASE e \in wrote[c]
    <3>1. came # "start"
      BY <1>2, <2>2, AfterTheStart DEF Tidy, PagesAreFinal
    <3>2. came # "page"
      BY <2>2, RunningIsAfter DEF UpTo
    <3> QED  BY <3>1, <3>2 DEF Tidy, TypeOK, PagesAreFinal
  <2> QED  BY <1>1, <2>1, <2>2
<1> QED  BY <1>1, <1>3, <1>4, <1>5, <1>6, <1>7, EndKeeps DEF Tidy

LEMMA AbortStays ==
    ASSUME Tidy, NEW c \in Client, Abort(c)
    PROVE  Tidy'
<1>1. End(c) /\ UNCHANGED <<nextXid, nextId, events, deleted, gone, floor, reader>>
  BY DEF Abort, End
<1>2. TypeOK'
  BY <1>1, EndKeeps DEF Tidy, TypeOK, reader
<1>3. NumbersInOrder'
  <2>1. \A e \in events' \union deleted' : e.txid # 0
    BY <1>1 DEF Tidy, TypeOK, Event
  <2> QED  BY <1>1, <2>1, EndKeeps DEF Tidy, TypeOK, NumbersInOrder
<1>4. StepsHoldTheirLock'
  BY <1>1, EndKeeps DEF Tidy, StepsHoldTheirLock
<1>5. FloorIsTheLastDeleted' /\ NothingMissed'
  BY <1>1 DEF Tidy, FloorIsTheLastDeleted, NothingMissed, reader
<1> QED  BY <1>1, <1>2, <1>3, <1>4, <1>5, EndKeeps DEF Tidy

-----------------------------------------------------------------------------
(* Retention.                                                              *)

LEMMA RetireStays ==
    ASSUME Tidy, NEW batch \in SUBSET Instance, Retire(batch)
    PROVE  Tidy'
<1> DEFINE history == {e \in events : e.instance \in batch}
<1>1. /\ events' = events \ history /\ deleted' = deleted \union history
      /\ Rises(history) /\ UNCHANGED <<writers, reader>> /\ gone' = gone \union batch
  BY DEF Retire
<1>2. history \subseteq events /\ events \subseteq Event /\ deleted \subseteq Event
      /\ floor \in Place
  BY DEF Tidy, TypeOK
<1> HIDE DEF history
<1>3. floor' \in Place /\ FloorIsTheLastDeleted'
  <2>1. CASE history = {} /\ floor' = floor
    BY <1>1, <1>2, <2>1 DEF Tidy, FloorIsTheLastDeleted
  <2>2. CASE \E last \in LastOf(history) :
              floor' = IF Before(floor, last) THEN At(last) ELSE floor
    <3>1. PICK last \in LastOf(history) :
              floor' = IF Before(floor, last) THEN At(last) ELSE floor
      BY <2>2
    <3>2. last \in history /\ (\A e \in history : UpTo(e, last)) /\ last \in Event
      BY <1>2, <3>1 DEF LastOf
    <3>3. CASE Before(floor, last)
      <4>1. floor' = At(last) /\ floor' \in Place
        BY <3>1, <3>2, <3>3, PlacedAll
      <4>2. \A e \in deleted \union history : UpTo(e, last)
        <5> SUFFICES ASSUME NEW e \in deleted PROVE UpTo(e, last)
          BY <3>2
        <5>1. UpTo(e, floor) /\ Placed(e) /\ Placed(floor) /\ Placed(last)
          BY <1>2, <3>2, PlacedAll DEF Tidy, FloorIsTheLastDeleted
        <5> QED  BY <3>3, <5>1, OrderIsTotal
      <4>3. \A e \in deleted' : UpTo(e, floor')
        BY <1>1, <4>1, <4>2, AtIsSamePlace
      <4> QED  BY <1>1, <3>2, <4>1, <4>3 DEF FloorIsTheLastDeleted
    <3>4. CASE ~Before(floor, last)
      <4>1. floor' = floor
        BY <3>1, <3>4
      <4>2. \A e \in history : UpTo(e, floor)
        <5> SUFFICES ASSUME NEW e \in history PROVE UpTo(e, floor)
          OBVIOUS
        <5>1. UpTo(e, last) /\ UpTo(last, floor)
              /\ Placed(e) /\ Placed(floor) /\ Placed(last)
          BY <1>2, <3>2, <3>4, PlacedAll DEF UpTo
        <5> QED  BY <5>1, OrderIsTotal
      <4> QED  BY <1>1, <1>2, <4>1, <4>2 DEF Tidy, FloorIsTheLastDeleted
    <3> QED  BY <3>3, <3>4
  <2> QED  BY <1>1, <2>1, <2>2 DEF Rises
<1>4. events' \subseteq events /\ events' \union deleted' = events \union deleted
  BY <1>1, <1>2
<1>5. TypeOK'
  BY <1>1, <1>2, <1>3 DEF Tidy, TypeOK, writers, reader
<1>6. NumbersInOrder'
  BY <1>1, <1>4 DEF Tidy, NumbersInOrder, writers
<1>7. StepsHoldTheirLock'
  BY <1>1, <1>4 DEF Tidy, StepsHoldTheirLock, writers
<1>8. PagesAreFinal'
  BY <1>1 DEF Tidy, PagesAreFinal, Final, Running, writers, reader
<1>9. NothingMissed'
  BY <1>1, <1>4 DEF Tidy, NothingMissed, reader
<1> QED  BY <1>3, <1>5, <1>6, <1>7, <1>8, <1>9 DEF Tidy

-----------------------------------------------------------------------------
(* The consumer.                                                           *)

LEMMA ReadStays ==
    ASSUME Tidy, Read
    PROVE  Tidy'
<1>1. PICK end \in Readable :
        /\ cursor' = At(end)
        /\ read' = read \union {e \in Readable : UpTo(e, end)}
  BY DEF Read
<1>2. /\ ~Truncated(cursor) /\ came' = "page" /\ UNCHANGED <<writers, table, skipped>>
      /\ early' = IF cursor = Zero THEN deleted ELSE early
  BY DEF Read
<1>3. /\ Readable \subseteq events /\ events \subseteq Event /\ deleted \subseteq Event
      /\ cursor \in Place /\ floor \in Place /\ Final(end.txid) /\ Before(cursor, end)
  BY DEF Tidy, TypeOK, Readable
<1>4. end \in Event
  BY <1>3
<1>5. TypeOK'
  BY <1>1, <1>2, <1>3, <1>4, PlacedAll DEF Tidy, TypeOK, writers, table
<1>6. PagesAreFinal'
  BY <1>1, <1>2, <1>3, AtIsSamePlace DEF PagesAreFinal, Final, Running, writers
<1>7. NothingMissed'
  <2> SUFFICES ASSUME NEW e \in events \union deleted, UpTo(e, end)
               PROVE  e \in read' \union early' \/ UpTo(e, skipped)
    BY <1>1, <1>2, AtIsSamePlace DEF NothingMissed, table
  <2>1. e \in Event /\ Placed(e) /\ Placed(end) /\ Placed(cursor) /\ Placed(floor)
    BY <1>3, <1>4, PlacedAll
  <2>2. CASE UpTo(e, cursor)
    <3>1. e \in read \union early \/ UpTo(e, skipped)
      BY <2>2 DEF Tidy, NothingMissed
    <3>2. cursor # Zero
      BY <2>1, <2>2, AfterTheStart
    <3> QED  BY <1>1, <1>2, <3>1, <3>2
  <2>3. CASE Before(cursor, e) /\ e \in events
    <3>1. e.txid <= end.txid
      BY <2>1, OrderIsTotal
    <3>2. Final(e.txid)
      BY <1>3, <2>1, <3>1 DEF Tidy, TypeOK, Final, Placed, Running
    <3>3. e \in Readable
      BY <2>3, <3>2 DEF Readable
    <3> QED  BY <1>1, <3>3
  <2>4. CASE Before(cursor, e) /\ e \in deleted
    <3>1. CASE cursor = Zero
      BY <1>2, <2>4, <3>1
    <3>2. CASE cursor # Zero
      <4>1. UpTo(floor, cursor)
        BY <1>2, <3>2 DEF Truncated, UpTo
      <4>2. UpTo(e, floor)
        BY <2>4 DEF Tidy, FloorIsTheLastDeleted
      <4>3. UpTo(e, cursor)
        BY <2>1, <4>1, <4>2, OrderIsTotal
      <4> QED  BY <2>4, <4>3 DEF UpTo
    <3> QED  BY <3>1, <3>2
  <2> QED  BY <2>2, <2>3, <2>4 DEF UpTo
<1>8. NumbersInOrder' /\ StepsHoldTheirLock' /\ FloorIsTheLastDeleted'
  BY <1>2 DEF Tidy, NumbersInOrder, StepsHoldTheirLock, FloorIsTheLastDeleted, writers, table
<1> QED  BY <1>5, <1>6, <1>7, <1>8 DEF Tidy

LEMMA ResumeStays ==
    ASSUME Tidy, Resume
    PROVE  Tidy'
BY DEF Resume, Tidy, TypeOK, NumbersInOrder, StepsHoldTheirLock, PagesAreFinal,
   FloorIsTheLastDeleted, NothingMissed, writers, table

-----------------------------------------------------------------------------
LEMMA InitTidy == Init => Tidy
BY PlacedAll DEF Init, Tidy, TypeOK, NumbersInOrder, StepsHoldTheirLock, PagesAreFinal,
   FloorIsTheLastDeleted, NothingMissed

LEMMA NextTidy == Tidy /\ [Next]_vars => Tidy'
<1> SUFFICES ASSUME Tidy, [Next]_vars PROVE Tidy'
  OBVIOUS
<1>1. CASE \E c \in Client : Write(c) \/ Commit(c) \/ Abort(c)
  BY <1>1, WriteStays, CommitStays, AbortStays
<1>2. CASE \E c \in Client, i \in Instance : Load(c, i) \/ Append(c, i) \/ Note(c, i)
  BY <1>2, LoadStays, AppendStays
<1>3. CASE \E batch \in SUBSET Instance : Retire(batch)
  BY <1>3, RetireStays
<1>4. CASE Read \/ Resume
  BY <1>4, ReadStays, ResumeStays
<1>5. CASE UNCHANGED vars
  BY <1>5 DEF vars, writers, table, reader, Tidy, TypeOK, NumbersInOrder, StepsHoldTheirLock,
     PagesAreFinal, Final, Running, FloorIsTheLastDeleted, NothingMissed
<1> QED  BY <1>1, <1>2, <1>3, <1>4, <1>5 DEF Next

LEMMA AlwaysTidy == Spec => []Tidy
BY InitTidy, NextTidy, PTL DEF Spec

(* Only a commit adds events: those of a transaction that was running.     *)
LEMMA OnlyCommitsAdd ==
    ASSUME Tidy, [Next]_vars, NEW e \in events' \ events
    PROVE  \E c \in Client : e \in wrote[c]
<1>1. \/ \E c \in Client : Commit(c)
      \/ events' \subseteq events
  <2>1. CASE \E c \in Client : Write(c) \/ Abort(c)
    BY <2>1 DEF Write, Abort, table
  <2>2. CASE \E c \in Client, i \in Instance : Load(c, i) \/ Append(c, i) \/ Note(c, i)
    BY <2>2 DEF Load, Append, Note, table
  <2>3. CASE \E batch \in SUBSET Instance : Retire(batch)
    BY <2>3 DEF Retire
  <2>4. CASE Read \/ Resume \/ UNCHANGED vars
    BY <2>4 DEF Read, Resume, vars, table
  <2> QED  BY <2>1, <2>2, <2>3, <2>4 DEF Next
<1> QED  BY <1>1 DEF Commit

(* Whatever the order of numbers, ids and commits, and whatever retention  *)
(* deletes: the consumer is given every event at or behind its cursor but  *)
(* those deleted before it began and those in a gap it was told of.        *)
THEOREM CursorMissesNothing == Spec => []NothingMissed
<1>1. Tidy => NothingMissed
  BY DEF Tidy
<1> QED  BY <1>1, AlwaysTidy, PTL

(* The horizon does its work: nothing ever appears behind a page.          *)
THEOREM PagesAreClosed == Spec => NothingBehindAPage
<1>1. Tidy /\ [Next]_vars
      => (came = "page" => \A e \in events' \ events : Before(cursor, e))
  BY OnlyCommitsAdd, RunningIsAfter
<1> QED  BY <1>1, AlwaysTidy, PTL DEF Spec, NothingBehindAPage

(* The row lock does its work: the ids of an instance's steps ascend in    *)
(* the order of their commits.                                             *)
THEOREM IdsAscend == Spec => IdsFollowSteps
<1>1. Tidy /\ [Next]_vars
      => \A e \in events' \ events, f \in events :
           e.kind = "step" /\ f.kind = "step" /\ e.instance = f.instance => f.id < e.id
  BY OnlyCommitsAdd DEF Tidy, StepsHoldTheirLock
<1> QED  BY <1>1, AlwaysTidy, PTL DEF Spec, IdsFollowSteps

(* The floor is the last deleted place, no more and no less.               *)
THEOREM FloorIsExact == Spec => []FloorIsTheLastDeleted
<1>1. Tidy => FloorIsTheLastDeleted
  BY DEF Tidy
<1> QED  BY <1>1, AlwaysTidy, PTL

(* Writers, rows and cursor have their types: no id is used twice, and a   *)
(* transaction writes under a number it has.                               *)
THEOREM TypeCorrect == Spec => []TypeOK
<1>1. Tidy => TypeOK
  BY DEF Tidy
<1> QED  BY <1>1, AlwaysTidy, PTL
=============================================================================
