-------------------------- MODULE TaskLease_proofs --------------------------
(***************************************************************************)
(* What TaskLease promises for any number of items, holders and requests,  *)
(* and for any times: types, the authority of a live lease, that a closed  *)
(* item stays closed, and that every retry was claimed.                    *)
(*                                                                         *)
(* TypeOK is inductive.  RetriesWereClaimed is not: a failure without a    *)
(* lease could be under way.  RequestsAreNamed excludes it, and needs that *)
(* claims are numbered from one.  It also says that a request without a    *)
(* lease names nobody, so the gate never takes it for the holder's.        *)
(***************************************************************************)
EXTENDS TaskLease, TLAPS

RequestsAreNamed ==
    /\ \A h \in held : h.lease # NoLease
    /\ \A c \in calls : c.lease = NoLease => c.verb \in BareVerbs /\ c.owner = NoOwner

(* What the rows of a step may have become.                                *)
Closing(r, x) ==
    \/ r = x
    \/ Open(r) /\ x = [r EXCEPT !.state = "cancelled"]
    \/ r.state = "unmade" /\ x = Fresh

-----------------------------------------------------------------------------
(* One row at a time.                                                      *)

LEMMA FreshRow == Fresh \in Row /\ Sound(Fresh) /\ Paid(Fresh)
BY Numbers, Nobody DEF Fresh, Unmade, Row, RowState, Sound, Open, Paid

LEMMA ClosedRow ==
    ASSUME NEW r \in Row, Sound(r), NEW x, Closing(r, x)
    PROVE  x \in Row /\ Sound(x) /\ (Paid(r) => Paid(x))
<1>1. CASE r = x
  BY <1>1
<1>2. CASE Open(r) /\ x = [r EXCEPT !.state = "cancelled"]
  BY <1>2, Numbers DEF Row, RowState, Sound, Open, Paid
<1>3. CASE x = Fresh
  BY <1>3, FreshRow
<1> QED  BY <1>1, <1>2, <1>3 DEF Closing

LEMMA ClaimedRow ==
    ASSUME NEW r \in Row, Sound(r), Claimable(r), NEW o \in Owner
    PROVE  Lock(r, o) \in Row /\ Sound(Lock(r, o)) /\ (Paid(r) => Paid(Lock(r, o)))
<1>1. r.lease + 1 \in Nat /\ r.retries \in Nat /\ Ttl \in Int /\ Open(r)
  BY Numbers DEF Claimable, Open, Row
<1>2. Lock(r, o) \in Row
  BY <1>1 DEF Lock, Row, RowState
<1>3. /\ Lock(r, o).state = "locked" /\ Lock(r, o).owner = o
      /\ Lock(r, o).lease = r.lease + 1 /\ Lock(r, o).retries = r.retries
  BY DEF Lock, Row
<1>4. Sound(Lock(r, o))
  BY <1>1, <1>3 DEF Sound, Open
<1>5. Paid(r) => Paid(Lock(r, o))
  <2>1. r.lease \in Nat
    BY DEF Row
  <2> QED  BY <1>1, <1>3, <2>1, Numbers DEF Paid
<1> QED  BY <1>2, <1>4, <1>5

LEMMA UnlockedRow ==
    ASSUME NEW r \in Row, Sound(r), r.state = "locked"
    PROVE  Unlock(r) \in Row /\ Sound(Unlock(r)) /\ (Paid(r) => Paid(Unlock(r)))
<1>1. Unlock(r) \in Row
  <2>1. "available" \in RowState /\ NoOwner \in Owner \union {NoOwner} /\ 0 \in Int
    BY DEF RowState
  <2> QED  BY <2>1 DEF Unlock, Row
<1>2. /\ Unlock(r).state = "available" /\ Unlock(r).lease = r.lease
      /\ Unlock(r).retries = r.retries /\ r.lease \in Nat /\ r.retries \in Nat
  BY DEF Unlock, Row
<1>3. Sound(Unlock(r))
  BY <1>2 DEF Sound, Open
<1>4. Paid(r) => Paid(Unlock(r))
  BY <1>2, Numbers DEF Paid
<1> QED  BY <1>1, <1>3, <1>4

LEMMA SpentRow ==
    ASSUME NEW r \in Row, Sound(r), Open(r)
    PROVE  /\ Spend(r) \in Row
           /\ Spend(r).state = "available" /\ Spend(r).retries = r.retries - 1
           /\ Spend(r).lease = r.lease /\ Spend(r).owner = NoOwner
           /\ r.state = "locked" /\ Paid(r) => Paid(Spend(r))
<1>1. r.retries \in 1..Attempts /\ r.retries - 1 \in Nat /\ r.lease \in Nat
  BY Numbers DEF Sound, Row
<1>2. Spend(r) \in Row
  <2>1. /\ "available" \in RowState /\ NoOwner \in Owner \union {NoOwner}
        /\ 0 \in Int /\ Gap \in Nat
    BY Numbers DEF RowState
  <2> QED  BY <1>1, <2>1 DEF Spend, Row
<1>3. /\ Spend(r).state = "available" /\ Spend(r).retries = r.retries - 1
      /\ Spend(r).lease = r.lease /\ Spend(r).owner = NoOwner
  BY DEF Spend, Row
<1>4. r.state = "locked" /\ Paid(r) => Paid(Spend(r))
  BY <1>1, <1>3, Numbers DEF Paid
<1> QED  BY <1>2, <1>3, <1>4

LEMMA FailedRow ==
    ASSUME NEW r \in Row, Sound(r), Open(r)
    PROVE  LET x == [Spend(r) EXCEPT !.state = "failed"]
           IN  /\ x \in Row /\ Sound(x)
               /\ r.state = "locked" /\ Paid(r) => Paid(x)
<1> DEFINE s == Spend(r)
           x == [s EXCEPT !.state = "failed"]
<1>1. s \in Row /\ s.state = "available" /\ (r.state = "locked" /\ Paid(r) => Paid(s))
  BY SpentRow
<1> HIDE DEF s
<1>2. x \in Row /\ x.state = "failed" /\ x.retries = s.retries /\ x.lease = s.lease
  BY <1>1 DEF Row, RowState
<1>3. Sound(x)
  BY <1>2 DEF Sound, Open
<1>4. Paid(s) => Paid(x)
  BY <1>1, <1>2 DEF Paid
<1> QED  BY <1>1, <1>2, <1>3, <1>4 DEF s

LEMMA TickedRow ==
    ASSUME NEW r \in Row, Sound(r)
    PROVE  LET x == [r EXCEPT !.until = Later(@), !.gap = Max0(@ - 1)]
           IN  /\ x \in Row /\ Sound(x) /\ (Paid(r) => Paid(x))
               /\ x.state = r.state /\ x.owner = r.owner /\ x.lease = r.lease
<1> DEFINE x == [r EXCEPT !.until = Later(@), !.gap = Max0(@ - 1)]
<1>1. Later(r.until) \in Int /\ Max0(r.gap - 1) \in Nat
  BY Numbers DEF Row, Later, Max0
<1>2. x \in Row
  BY <1>1 DEF Row
<1>3. x.state = r.state /\ x.owner = r.owner /\ x.lease = r.lease /\ x.retries = r.retries
  BY DEF Row
<1> QED  BY <1>2, <1>3 DEF Sound, Open, Paid

(* What a step makes of the rows rs.                                       *)
LEMMA ProceedsCloses ==
    ASSUME NEW rs, rs \in [Item -> Row], Proceeds(rs)
    PROVE  /\ status' \in {"active", "failed", "ended"}
           /\ rows' = [i \in Item |-> rows'[i]]
           /\ \A i \in Item : Closing(rs[i], rows'[i])
BY DEF Proceeds, Closing

(* The rows of a request's own item, and of a step as a whole.             *)
Fine == TypeOK /\ RequestsAreNamed /\ RetriesWereClaimed

LEMMA RowsStay ==
    ASSUME rows' = [i \in Item |-> rows'[i]],
           \A i \in Item : rows'[i] \in Row /\ Sound(rows'[i])
                           /\ ("fail" \notin BareVerbs => Paid(rows'[i])),
           status' \in {"active", "failed", "ended"},
           held' \subseteq Claimed, calls' \subseteq Call, RequestsAreNamed'
    PROVE  Fine'
BY DEF Fine, TypeOK, RetriesWereClaimed

LEMMA StepStays ==
    ASSUME Fine, NEW rs, rs \in [Item -> Row], Proceeds(rs),
           \A i \in Item : Sound(rs[i]) /\ ("fail" \notin BareVerbs => Paid(rs[i])),
           UNCHANGED held, calls' \subseteq calls
    PROVE  Fine'
<1>1. \A i \in Item : rows'[i] \in Row /\ Sound(rows'[i])
                      /\ ("fail" \notin BareVerbs => Paid(rows'[i]))
  BY ProceedsCloses, ClosedRow
<1>2. RequestsAreNamed'
  BY DEF Fine, RequestsAreNamed
<1> QED
  BY <1>1, <1>2, ProceedsCloses, RowsStay DEF Fine, TypeOK

(* A request that changes its own row and nothing else.                    *)
LEMMA RowStays ==
    ASSUME Fine, NEW c \in calls, NEW x \in Row, Sound(x),
           "fail" \notin BareVerbs => Paid(x),
           rows' = [rows EXCEPT ![c.item] = x],
           UNCHANGED status, UNCHANGED held, calls' = calls \ {c}
    PROVE  Fine'
<1>1. RequestsAreNamed'
  BY DEF Fine, RequestsAreNamed
<1> QED
  BY <1>1, RowsStay DEF Fine, TypeOK, RetriesWereClaimed

-----------------------------------------------------------------------------
(* One lemma per action.                                                   *)

LEMMA TickStays == Fine /\ Tick => Fine'
<1> SUFFICES ASSUME Fine, Tick PROVE Fine'
  OBVIOUS
<1>1. \A i \in Item : rows'[i] \in Row /\ Sound(rows'[i])
                      /\ ("fail" \notin BareVerbs => Paid(rows'[i]))
  BY TickedRow DEF Tick, Fine, TypeOK, RetriesWereClaimed
<1>2. calls' \subseteq Call
  <2>1. \A c \in Call : c.age # NotBegun => [c EXCEPT !.age = @ + 1] \in Call
    BY DEF Call, NotBegun
  <2> QED  BY <2>1 DEF Tick, Fine, TypeOK
<1>3. RequestsAreNamed'
  <2>1. \A c \in Call : [c EXCEPT !.age = @ + 1].lease = c.lease
                        /\ [c EXCEPT !.age = @ + 1].verb = c.verb
                        /\ [c EXCEPT !.age = @ + 1].owner = c.owner
    BY DEF Call
  <2>2. calls \subseteq Call /\ held' = held
    BY DEF Tick, Fine, TypeOK
  <2>3. \A d \in calls' : \E c \in calls : d.lease = c.lease /\ d.verb = c.verb /\ d.owner = c.owner
    <3> SUFFICES ASSUME NEW d \in calls'
                 PROVE  \E c \in calls : d.lease = c.lease /\ d.verb = c.verb /\ d.owner = c.owner
      OBVIOUS
    <3>1. PICK c \in calls : d = IF c.age = NotBegun THEN c ELSE [c EXCEPT !.age = @ + 1]
      BY DEF Tick
    <3> QED  BY <2>1, <2>2, <3>1
  <2> QED  BY <2>2, <2>3 DEF Fine, RequestsAreNamed
<1> QED  BY <1>1, <1>2, <1>3, RowsStay DEF Tick, Fine, TypeOK

LEMMA ClaimStays ==
    ASSUME Fine, NEW o \in Owner, NEW i \in Item, Claim(o, i)
    PROVE  Fine'
<1> DEFINE x == Lock(rows[i], o)
           h == [item |-> i, owner |-> o, lease |-> rows[i].lease + 1]
<1>1. x \in Row /\ Sound(x) /\ ("fail" \notin BareVerbs => Paid(x))
  BY ClaimedRow DEF Fine, TypeOK, RetriesWereClaimed, Claim
<1>2. rows' = [rows EXCEPT ![i] = x] /\ held' = held \union {h}
      /\ UNCHANGED <<status, calls>>
  BY DEF Claim
<1>3. h \in Claimed /\ h.lease # NoLease
  BY DEF Fine, TypeOK, Row, Claimed, NoLease
<1>4. RequestsAreNamed'
  BY <1>2, <1>3 DEF Fine, RequestsAreNamed
<1> HIDE DEF x, h
<1> QED  BY <1>1, <1>2, <1>3, <1>4, RowsStay DEF Fine, TypeOK, RetriesWereClaimed

LEMMA ForgetStays ==
    ASSUME Fine, NEW h, Forget(h)
    PROVE  Fine'
BY RowsStay DEF Forget, Fine, TypeOK, RetriesWereClaimed, RequestsAreNamed

LEMMA RequestStays ==
    ASSUME Fine, NEW verb \in Verb, NEW i \in Item, NEW o \in Owner \union {NoOwner},
           NEW n \in Nat, n = NoLease => verb \in BareVerbs /\ o = NoOwner,
           Request(verb, i, o, n)
    PROVE  Fine'
<1>1. [verb |-> verb, item |-> i, owner |-> o, lease |-> n, age |-> NotBegun] \in Call
  BY DEF Call
<1> QED
  BY <1>1, RowsStay DEF Request, Fine, TypeOK, RetriesWereClaimed, RequestsAreNamed

LEMMA BeginStays ==
    ASSUME Fine, NEW c, Begin(c)
    PROVE  Fine'
<1>1. [c EXCEPT !.age = 0] \in Call /\ [c EXCEPT !.age = 0].lease = c.lease
      /\ [c EXCEPT !.age = 0].verb = c.verb /\ [c EXCEPT !.age = 0].owner = c.owner
  BY DEF Begin, Fine, TypeOK, Call
<1> QED
  BY <1>1, RowsStay DEF Begin, Fine, TypeOK, RetriesWereClaimed, RequestsAreNamed

(* A failure that decides found its item open; when no failure comes       *)
(* without a lease, it found it locked.                                    *)
LEMMA FailsOnItsClaim ==
    ASSUME Fine, NEW c \in calls, c.verb = "fail", MayFail(rows[c.item], c)
    PROVE  /\ Open(rows[c.item])
           /\ "fail" \notin BareVerbs => rows[c.item].state = "locked"
BY DEF Fine, RequestsAreNamed, MayFail, Names

LEMMA CompleteStays ==
    ASSUME Fine, NEW c, Complete(c)
    PROVE  Fine'
<1> DEFINE rs == [rows EXCEPT ![c.item].state = "completed"]
<1>1. c \in calls /\ c.item \in Item /\ Proceeds(rs) /\ Open(rows[c.item])
      /\ UNCHANGED held /\ calls' \subseteq calls
  BY DEF Complete, Deciding, Fine, TypeOK, Call
<1>2. rs \in [Item -> Row]
  BY <1>1 DEF Fine, TypeOK, Row, RowState
<1>3. \A i \in Item : Sound(rs[i]) /\ ("fail" \notin BareVerbs => Paid(rs[i]))
  BY <1>1, Numbers DEF Fine, TypeOK, RetriesWereClaimed, Row, RowState, Sound, Open, Paid
<1> HIDE DEF rs
<1> QED  BY <1>1, <1>2, <1>3, StepStays

LEMMA RetryStays ==
    ASSUME Fine, NEW c, Retry(c)
    PROVE  Fine'
<1>1. c \in calls /\ c.verb = "fail" /\ c.item \in Item
      /\ MayFail(rows[c.item], c) /\ rows[c.item].retries > 1
      /\ rows' = [rows EXCEPT ![c.item] = Spend(rows[c.item])]
      /\ UNCHANGED <<status, held>> /\ calls' = calls \ {c}
  BY DEF Retry, Deciding, Fine, TypeOK, Call
<1>2. rows[c.item] \in Row /\ Sound(rows[c.item])
      /\ ("fail" \notin BareVerbs => Paid(rows[c.item]))
  BY <1>1 DEF Fine, TypeOK, RetriesWereClaimed
<1>3. Spend(rows[c.item]) \in Row
      /\ ("fail" \notin BareVerbs => Paid(Spend(rows[c.item])))
  BY <1>1, <1>2, FailsOnItsClaim, SpentRow
<1>4. Sound(Spend(rows[c.item]))
  BY <1>1, <1>2, FailsOnItsClaim, SpentRow, Numbers DEF Sound, Open, Row
<1> QED  BY <1>1, <1>3, <1>4, RowStays

LEMMA ExhaustStays ==
    ASSUME Fine, NEW c, Exhaust(c)
    PROVE  Fine'
<1> DEFINE x  == [Spend(rows[c.item]) EXCEPT !.state = "failed"]
           rs == [rows EXCEPT ![c.item] = x]
<1>1. c \in calls /\ c.verb = "fail" /\ c.item \in Item
      /\ MayFail(rows[c.item], c) /\ Proceeds(rs)
      /\ UNCHANGED held /\ calls' \subseteq calls
  BY DEF Exhaust, Deciding, Fine, TypeOK, Call
<1>2. rows[c.item] \in Row /\ Sound(rows[c.item])
      /\ ("fail" \notin BareVerbs => Paid(rows[c.item]))
  BY <1>1 DEF Fine, TypeOK, RetriesWereClaimed
<1>3. x \in Row /\ Sound(x) /\ ("fail" \notin BareVerbs => Paid(x))
  BY <1>1, <1>2, FailsOnItsClaim, FailedRow
<1> HIDE DEF x
<1>4. rs \in [Item -> Row]
      /\ \A i \in Item : Sound(rs[i]) /\ ("fail" \notin BareVerbs => Paid(rs[i]))
  BY <1>1, <1>3 DEF Fine, TypeOK, RetriesWereClaimed
<1> HIDE DEF rs
<1> QED  BY <1>1, <1>4, StepStays

LEMMA ReleaseStays ==
    ASSUME Fine, NEW c, Release(c)
    PROVE  Fine'
<1> DEFINE x == Unlock(rows[c.item])
<1>1. c \in calls /\ c.item \in Item /\ rows[c.item].state = "locked"
      /\ rows' = [rows EXCEPT ![c.item] = x]
      /\ UNCHANGED <<status, held>> /\ calls' = calls \ {c}
  BY DEF Release, Names, Deciding, Fine, TypeOK, Call
<1>2. x \in Row /\ Sound(x) /\ ("fail" \notin BareVerbs => Paid(x))
  BY <1>1, UnlockedRow DEF Fine, TypeOK, RetriesWereClaimed
<1> HIDE DEF x
<1> QED  BY <1>1, <1>2, RowStays

LEMMA ExtendStays ==
    ASSUME Fine, NEW c, Extend(c)
    PROVE  Fine'
<1> DEFINE x == [rows[c.item] EXCEPT !.until = Ttl - c.age]
<1>1. c \in calls /\ c.item \in Item /\ rows' = [rows EXCEPT ![c.item] = x]
      /\ UNCHANGED <<status, held>> /\ calls' = calls \ {c} /\ c.age \in Int
  BY DEF Extend, Deciding, Fine, TypeOK, Call, NotBegun
<1>2. x \in Row /\ Sound(x) /\ ("fail" \notin BareVerbs => Paid(x))
  BY <1>1, Numbers DEF Fine, TypeOK, RetriesWereClaimed, Row, RowState, Sound, Open, Paid
<1> HIDE DEF x
<1> QED  BY <1>1, <1>2, RowStays

LEMMA DropStays ==
    ASSUME Fine, NEW c, Drop(c)
    PROVE  Fine'
BY RowsStay DEF Drop, Fine, TypeOK, RetriesWereClaimed, RequestsAreNamed

-----------------------------------------------------------------------------
LEMMA InitFine == Init => Fine
BY FreshRow, Numbers DEF Init, Fine, TypeOK, RetriesWereClaimed, RequestsAreNamed,
   Unmade, Fresh, Row, RowState, Sound, Open, Paid

LEMMA NextFine == Fine /\ [Next]_vars => Fine'
<1> SUFFICES ASSUME Fine, [Next]_vars PROVE Fine'
  OBVIOUS
<1>1. CASE Tick
  BY <1>1, TickStays
<1>2. CASE Step
  <2>1. rows \in [Item -> Row] /\ Proceeds(rows) /\ UNCHANGED held /\ calls' \subseteq calls
        /\ \A i \in Item : Sound(rows[i]) /\ ("fail" \notin BareVerbs => Paid(rows[i]))
    BY <1>2 DEF Step, Fine, TypeOK, RetriesWereClaimed
  <2> QED  BY <2>1, StepStays
<1>3. CASE \E o \in Owner, i \in Item : Claim(o, i)
  BY <1>3, ClaimStays
<1>4. CASE \E h \in held : Forget(h)
  BY <1>4, ForgetStays
<1>5. CASE \E h \in held, verb \in Verb : Ask(h, verb)
  <2>1. PICK h \in held, verb \in Verb : Ask(h, verb)
    BY <1>5
  <2>2. h.item \in Item /\ h.owner \in Owner \union {NoOwner} /\ h.lease \in Nat
        /\ h.lease # NoLease
    BY DEF Fine, TypeOK, Claimed, RequestsAreNamed
  <2> QED  BY <2>1, <2>2, RequestStays DEF Ask
<1>6. CASE \E i \in Item, verb \in BareVerbs : AskBare(i, verb)
  <2>1. PICK i \in Item, verb \in BareVerbs : AskBare(i, verb)
    BY <1>6
  <2>2. verb \in Verb /\ NoLease \in Nat
    BY BareRequests DEF Verb, NoLease
  <2> QED  BY <2>1, <2>2, RequestStays DEF AskBare
<1>7. CASE \E c \in calls : Begin(c)
  BY <1>7, BeginStays
<1>8. CASE \E c \in calls : Decide(c)
  BY <1>8, CompleteStays, RetryStays, ExhaustStays, ReleaseStays, ExtendStays, DropStays
     DEF Decide
<1>9. CASE UNCHANGED vars
  BY <1>9 DEF vars, Fine, TypeOK, RetriesWereClaimed, RequestsAreNamed
<1> QED  BY <1>1, <1>2, <1>3, <1>4, <1>5, <1>6, <1>7, <1>8, <1>9 DEF Next

LEMMA AlwaysFine == Spec => []Fine
BY InitFine, NextFine, PTL DEF Spec

(* The columns of the work items keep their types, through every request   *)
(* and every step of the instance.                                         *)
THEOREM TypeCorrect == Spec => []TypeOK
<1>1. Fine => TypeOK
  BY DEF Fine
<1> QED  BY <1>1, AlwaysFine, PTL

(* No retry is spent without a claim of its own, however often failures    *)
(* are repeated, as long as none comes without a lease.                    *)
THEOREM BudgetIsClaimed == Spec => []RetriesWereClaimed
<1>1. Fine => RetriesWereClaimed
  BY DEF Fine
<1> QED  BY <1>1, AlwaysFine, PTL

-----------------------------------------------------------------------------
(* What an action may do to one row.                                       *)

Closed(r) == r.state \in {"completed", "failed", "cancelled"}

Respects(i) ==
    \/ rows'[i].state = "locked" /\ rows'[i].owner = rows[i].owner
       /\ rows'[i].lease = rows[i].lease
    \/ rows'[i].state = "cancelled"
    \/ \E c \in calls \ calls' : c.item = i /\ c.owner = rows[i].owner

Kept(i) == Closed(rows[i]) => rows'[i].state = rows[i].state

Live(i) == rows[i].state = "locked" /\ rows[i].until > 0

(* Of a step that leaves the row alone but may withdraw the item.          *)
LEMMA ClosingKeeps ==
    ASSUME NEW i \in Item, rows[i] \in Row, Closing(rows[i], rows'[i])
    PROVE  Kept(i) /\ (Live(i) => Respects(i))
<1>1. Open(rows[i]) => ~Closed(rows[i])
  BY DEF Open, Closed
<1>2. CASE rows[i] = rows'[i]
  BY <1>2 DEF Kept, Live, Respects
<1>3. CASE Open(rows[i]) /\ rows'[i] = [rows[i] EXCEPT !.state = "cancelled"]
  BY <1>1, <1>3 DEF Kept, Respects, Row
<1>4. CASE rows[i].state = "unmade"
  BY <1>4 DEF Kept, Live, Closed
<1> QED  BY <1>2, <1>3, <1>4 DEF Closing

(* A request decides on its own row through the gate or its holder's name, *)
(* and on no other: that row was open, and if its lease was running, it    *)
(* was the requester's.                                                    *)
LEMMA GatePasses ==
    ASSUME Fine, NEW c \in calls, c.age # NotBegun, Live(c.item),
           GuardLease(rows[c.item], c)
    PROVE  c.owner = rows[c.item].owner
<1>1. c \in Call /\ rows[c.item] \in Row
  BY DEF Fine, TypeOK, Call
<1>2. c.age \in Nat /\ rows[c.item].until \in Int
  BY <1>1 DEF Call, Row
<1> QED  BY <1>2 DEF GuardLease, LiveFor, Live

LEMMA DecisionKeeps ==
    ASSUME Fine, NEW c, Complete(c) \/ Retry(c) \/ Exhaust(c) \/ Release(c) \/ Extend(c),
           NEW i \in Item
    PROVE  Kept(i) /\ (Live(i) => Respects(i))
<1>1. c \in calls /\ c.item \in Item /\ c.age # NotBegun /\ calls' = calls \ {c}
      /\ rows \in [Item -> Row]
  BY DEF Complete, Retry, Exhaust, Release, Extend, Deciding, Fine, TypeOK, Call
<1>2. CASE i = c.item
  <2>1. Open(rows[i])
    BY <1>2 DEF Complete, Retry, Exhaust, Release, Extend, MayFail, Names, Open
  <2>2. Live(i) => c.owner = rows[i].owner
    BY <1>1, <1>2, GatePasses
       DEF Complete, Retry, Exhaust, Release, Extend, MayFail, Names
  <2> QED  BY <1>1, <1>2, <2>1, <2>2 DEF Kept, Respects, Open, Closed
<1>3. CASE i # c.item
  <2>1. ASSUME NEW x, Proceeds([rows EXCEPT ![c.item] = x])
        PROVE  Closing(rows[i], rows'[i])
    BY <1>1, <1>3, <2>1 DEF Proceeds, Closing
  <2>2. CASE Complete(c) \/ Exhaust(c)
    BY <2>1, <2>2, <1>1, ClosingKeeps DEF Complete, Exhaust
  <2>3. CASE Retry(c) \/ Release(c) \/ Extend(c)
    <3>1. rows'[i] = rows[i]
      BY <2>3, <1>1, <1>3 DEF Retry, Release, Extend
    <3> QED  BY <3>1, <1>1, ClosingKeeps DEF Closing
  <2> QED  BY <2>2, <2>3
<1> QED  BY <1>2, <1>3

LEMMA TickKeeps ==
    ASSUME Fine, Tick, NEW i \in Item
    PROVE  Kept(i) /\ (Live(i) => Respects(i))
<1>1. rows[i] \in Row /\ Sound(rows[i])
  BY DEF Fine, TypeOK
<1>2. rows'[i].state = rows[i].state /\ rows'[i].owner = rows[i].owner
      /\ rows'[i].lease = rows[i].lease
  BY <1>1, TickedRow DEF Tick
<1> QED  BY <1>2 DEF Kept, Live, Respects

(* Only a lease that is past can be claimed over.                          *)
LEMMA ClaimKeeps ==
    ASSUME Fine, NEW o \in Owner, NEW j \in Item, Claim(o, j), NEW i \in Item
    PROVE  Kept(i) /\ (Live(i) => Respects(i))
<1>1. rows \in [Item -> Row] /\ rows[i].until \in Int
  BY DEF Fine, TypeOK, Row
<1>2. CASE i = j
  BY <1>1, <1>2 DEF Claim, Claimable, Kept, Closed, Live
<1>3. CASE i # j
  BY <1>1, <1>3 DEF Claim, Kept, Live, Respects
<1> QED  BY <1>2, <1>3

LEMMA NextKeeps ==
    ASSUME Fine, [Next]_vars, NEW i \in Item
    PROVE  Kept(i) /\ (Live(i) => Respects(i))
<1>1. CASE Tick
  BY <1>1, TickKeeps
<1>2. CASE Step
  BY <1>2, ProceedsCloses, ClosingKeeps DEF Step, Fine, TypeOK
<1>3. CASE \E o \in Owner, j \in Item : Claim(o, j)
  BY <1>3, ClaimKeeps
<1>4. CASE \E c \in calls : Complete(c) \/ Retry(c) \/ Exhaust(c) \/ Release(c) \/ Extend(c)
  BY <1>4, DecisionKeeps
<1>5. CASE UNCHANGED rows
  BY <1>5 DEF Kept, Live, Respects
<1>6. \/ \E h \in held : Forget(h) \/ \E verb \in Verb : Ask(h, verb)
      \/ \E j \in Item, verb \in BareVerbs : AskBare(j, verb)
      \/ \E c \in calls : Begin(c) \/ Drop(c)
      \/ UNCHANGED vars
      => UNCHANGED rows
  BY DEF Forget, Ask, AskBare, Request, Begin, Drop, vars
<1> QED  BY <1>1, <1>2, <1>3, <1>4, <1>5, <1>6 DEF Next, Decide

(* A running lease ends only by its holder's request or with the item,     *)
(* for any number of clients and however late and often they ask: the      *)
(* gate of guard_lease, and the holder's name that release_task and        *)
(* extend_lock compare, are enough.                                        *)
THEOREM LeasesHold == Spec => LiveLeaseIsRespected
<1>1. Fine /\ [Next]_vars
      => \A i \in Item :
           LET r == rows[i] IN
           r.state = "locked" /\ r.until > 0
               => \/ rows'[i].state = "locked" /\ rows'[i].owner = r.owner
                     /\ rows'[i].lease = r.lease
                  \/ rows'[i].state = "cancelled"
                  \/ \E c \in calls \ calls' : c.item = i /\ c.owner = r.owner
  BY NextKeeps DEF Live, Respects
<1> QED  BY <1>1, AlwaysFine, PTL DEF Spec, LiveLeaseIsRespected

(* A closed item stays closed: every request looks at the state once the   *)
(* row is locked, and a step withdraws open items only.                    *)
THEOREM ClosedForGood == Spec => ClosedStaysClosed
<1>1. Fine /\ [Next]_vars
      => \A i \in Item :
           rows[i].state \in {"completed", "failed", "cancelled"}
               => rows'[i].state = rows[i].state
  BY NextKeeps DEF Kept, Closed
<1> QED  BY <1>1, AlwaysFine, PTL DEF Spec, ClosedStaysClosed

(* What a step of an instance that is not active leaves of its items.      *)
Frozen(i) == rows[i].state # "unmade" =>
    /\ rows'[i].retries = rows[i].retries
    /\ rows'[i].state \in {"completed", "failed"} => rows'[i].state = rows[i].state

LEMMA NextKeepsFrozen ==
    ASSUME Fine, [Next]_vars, status # "active", NEW i \in Item
    PROVE  Frozen(i)
<1>0. rows[i] \in Row
  BY DEF Fine, TypeOK
<1>1. CASE Tick
  BY <1>0, <1>1 DEF Tick, Frozen, Row
<1>2. CASE Step
  BY <1>0, <1>2 DEF Step, Frozen, Proceeds, Fresh, Unmade, Row
<1>3. CASE \E o \in Owner, j \in Item : Claim(o, j)
  BY <1>3 DEF Claim, Claimable
<1>4. CASE UNCHANGED rows
  BY <1>4 DEF Frozen
<1>5. CASE \E c \in calls : Complete(c) \/ Retry(c) \/ Exhaust(c)
  BY <1>5 DEF Complete, Retry, Exhaust
<1>6. CASE \E c \in calls : Release(c) \/ Extend(c)
  <2>1. PICK c \in calls : Release(c) \/ Extend(c)
    BY <1>6
  <2>2. \/ rows' = [rows EXCEPT ![c.item] = Unlock(@)]
        \/ rows' = [rows EXCEPT ![c.item].until = Ttl - c.age]
    BY <2>1 DEF Release, Extend
  <2>3. CASE c.item = i
    BY <1>0, <2>2, <2>3 DEF Frozen, Unlock, Fine, TypeOK, Row
  <2>4. CASE c.item # i
    BY <2>2, <2>4 DEF Frozen, Fine, TypeOK
  <2> QED
    BY <2>3, <2>4
<1>7. \/ \E h \in held : Forget(h) \/ \E verb \in Verb : Ask(h, verb)
      \/ \E j \in Item, verb \in BareVerbs : AskBare(j, verb)
      \/ \E c \in calls : Begin(c) \/ Drop(c)
      \/ UNCHANGED vars
      => UNCHANGED rows
  BY DEF Forget, Ask, AskBare, Request, Begin, Drop, vars
<1> QED
  BY <1>1, <1>2, <1>3, <1>4, <1>5, <1>6, <1>7 DEF Next, Decide

(* Nothing is settled on a frozen or ended instance: a request reads the   *)
(* status after it has the row (fail_work_item_in_tx).                     *)
THEOREM FrozenIsLeftAlone == Spec => FrozenItemsKeep
<1>1. Fine /\ [Next]_vars
      => (status # "active" => \A i \in Item : rows[i].state # "unmade" =>
            /\ rows'[i].retries = rows[i].retries
            /\ rows'[i].state \in {"completed", "failed"} => rows'[i].state = rows[i].state)
  BY NextKeepsFrozen DEF Frozen
<1> QED  BY <1>1, AlwaysFine, PTL DEF Spec, FrozenItemsKeep

(* An item is settled once, whatever is late or repeated.                  *)
THEOREM SettledOnce == Spec => ItemsAreSettled
BY ClosedForGood, FrozenIsLeftAlone DEF ItemsAreSettled

-----------------------------------------------------------------------------
(* Who may make a claimed item available again.                            *)

FreedBy(c, i) ==
    /\ c.item = i /\ c.verb \in {"fail", "release"}
    /\ c.lease = rows[i].lease \/ (c.lease = NoLease /\ rows[i].until <= 0)

Freed(i) ==
    rows[i].state = "locked" /\ rows'[i].state = "available"
        => \E c \in calls \ calls' : FreedBy(c, i)

(* A failure without a lease comes from nobody: the gate lets it pass a    *)
(* lease that has run out, and no other.                                   *)
LEMMA NobodyPassesALiveLease ==
    ASSUME Fine, NEW c \in calls, c.age # NotBegun, c.lease = NoLease,
           rows[c.item].state = "locked", GuardLease(rows[c.item], c)
    PROVE  rows[c.item].until <= 0
<1>1. c \in Call /\ rows[c.item] \in Row /\ Sound(rows[c.item]) /\ c.owner = NoOwner
  BY DEF Fine, TypeOK, Call, RequestsAreNamed
<1>2. c.age \in Nat /\ rows[c.item].until \in Int /\ rows[c.item].owner \in Owner
  BY <1>1 DEF Call, Row, Sound
<1>3. ~LiveFor(rows[c.item], c)
  BY <1>1, <1>2, Nobody DEF GuardLease
<1> QED  BY <1>2, <1>3 DEF LiveFor

LEMMA FailFrees ==
    ASSUME Fine, NEW c, Retry(c), NEW i \in Item
    PROVE  Freed(i)
<1>1. c \in calls /\ c.item \in Item /\ c.age # NotBegun /\ calls' = calls \ {c}
      /\ c.verb = "fail" /\ MayFail(rows[c.item], c) /\ rows \in [Item -> Row]
      /\ rows' = [rows EXCEPT ![c.item] = Spend(@)]
  BY DEF Retry, Deciding, Fine, TypeOK, Call
<1>2. CASE i # c.item
  BY <1>1, <1>2 DEF Freed
<1>3. CASE i = c.item /\ rows[i].state = "locked"
  <2>1. c.lease # NoLease => c.lease = rows[i].lease
    BY <1>1, <1>3 DEF MayFail, Names
  <2>2. c.lease = NoLease => rows[i].until <= 0
    BY <1>1, <1>3, NobodyPassesALiveLease DEF MayFail
  <2> QED  BY <1>1, <1>3, <2>1, <2>2 DEF Freed, FreedBy
<1> QED  BY <1>2, <1>3 DEF Freed

LEMMA ReleaseFrees ==
    ASSUME Fine, NEW c, Release(c), NEW i \in Item
    PROVE  Freed(i)
<1>1. c \in calls /\ c.item \in Item /\ calls' = calls \ {c} /\ c.verb = "release"
      /\ rows[c.item].lease = c.lease /\ rows \in [Item -> Row]
      /\ rows' = [rows EXCEPT ![c.item] = Unlock(@)]
  BY DEF Release, Names, Deciding, Fine, TypeOK, Call
<1> QED  BY <1>1 DEF Freed, FreedBy

LEMMA ClosingFreesNone ==
    ASSUME NEW rs, rs \in [Item -> Row], Proceeds(rs), NEW i \in Item,
           rows[i].state = "locked" => rs[i].state \notin {"available", "unmade"}
    PROVE  Freed(i)
<1>1. Closing(rs[i], rows'[i]) /\ rs[i] \in Row
  BY ProceedsCloses
<1> QED  BY <1>1 DEF Closing, Freed, Row

LEMMA NextFrees ==
    ASSUME Fine, [Next]_vars, NEW i \in Item
    PROVE  Freed(i)
<1>0. rows \in [Item -> Row] /\ Sound(rows[i]) /\ \A c \in calls : c.item \in Item
  BY DEF Fine, TypeOK, Call
<1>1. CASE Tick
  BY <1>0, <1>1, TickedRow DEF Tick, Freed
<1>2. CASE Step
  BY <1>0, <1>2, ClosingFreesNone DEF Step
<1>3. CASE \E o \in Owner, j \in Item : Claim(o, j)
  BY <1>0, <1>3 DEF Claim, Lock, Freed, Row
<1>4. CASE \E c \in calls : Complete(c)
  <2>1. PICK c \in calls : Complete(c)
    BY <1>4
  <2> DEFINE rs == [rows EXCEPT ![c.item].state = "completed"]
  <2>2. rs \in [Item -> Row] /\ Proceeds(rs)
    BY <1>0, <2>1 DEF Complete, Row, RowState
  <2>3. rows[i].state = "locked" => rs[i].state \notin {"available", "unmade"}
    BY <1>0 DEF Row
  <2> HIDE DEF rs
  <2> QED  BY <2>2, <2>3, ClosingFreesNone
<1>5. CASE \E c \in calls : Exhaust(c)
  <2>1. PICK c \in calls : Exhaust(c)
    BY <1>5
  <2> DEFINE x  == [Spend(rows[c.item]) EXCEPT !.state = "failed"]
             rs == [rows EXCEPT ![c.item] = x]
  <2>2. x \in Row /\ x.state = "failed"
    <3>1. Open(rows[c.item]) /\ rows[c.item] \in Row /\ Sound(rows[c.item])
      BY <1>0, <2>1, FailsOnItsClaim DEF Exhaust, Deciding, Fine, TypeOK
    <3>2. Spend(rows[c.item]) \in Row
      BY <3>1, SpentRow
    <3> QED  BY <3>1, <3>2, FailedRow DEF Row
  <2>3. Proceeds(rs)
    BY <2>1 DEF Exhaust
  <2> HIDE DEF x
  <2>4. rs \in [Item -> Row] /\ (rows[i].state = "locked" => rs[i].state \notin {"available", "unmade"})
    BY <1>0, <2>2
  <2> HIDE DEF rs
  <2> QED  BY <2>3, <2>4, ClosingFreesNone
<1>6. CASE \E c \in calls : Retry(c) \/ Release(c)
  BY <1>6, FailFrees, ReleaseFrees
<1>7. CASE \E c \in calls : Extend(c)
  BY <1>0, <1>7 DEF Extend, Freed, Row
<1>8. \/ \E h \in held : Forget(h) \/ \E verb \in Verb : Ask(h, verb)
      \/ \E j \in Item, verb \in BareVerbs : AskBare(j, verb)
      \/ \E c \in calls : Begin(c) \/ Drop(c)
      \/ UNCHANGED vars
      => Freed(i)
  BY DEF Forget, Ask, AskBare, Request, Begin, Drop, vars, Freed
<1> QED
  BY <1>1, <1>2, <1>3, <1>4, <1>5, <1>6, <1>7, <1>8 DEF Next, Decide

(* A failure or a release that comes late or twice frees the claim it      *)
(* names and none made after it, not even by the same holder: the lease    *)
(* number is compared with the row's (fail_work_item_in_tx, release_task). *)
(* A failure that names no lease frees only a claim that has lapsed.       *)
THEOREM ReplaysAreHarmless == Spec => ReplayFreesNoLaterClaim
<1>1. Fine /\ [Next]_vars
      => \A i \in Item :
           rows[i].state = "locked" /\ rows'[i].state = "available"
             => \E c \in calls \ calls' :
                 /\ c.item = i /\ c.verb \in {"fail", "release"}
                 /\ c.lease = rows[i].lease \/ (c.lease = NoLease /\ rows[i].until <= 0)
  BY NextFrees DEF Freed, FreedBy
<1> QED  BY <1>1, AlwaysFine, PTL DEF Spec, ReplayFreesNoLaterClaim
=============================================================================
