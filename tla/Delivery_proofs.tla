--------------------------- MODULE Delivery_proofs ---------------------------
(***************************************************************************)
(* What Delivery promises for any number of instances, schedulers and      *)
(* callers, for any intervals and any backoffs.                            *)
(*                                                                         *)
(* All of it rests on the row lock: whoever is in a transaction on an      *)
(* instance holds its row (LocksFine), so what was found under the lock    *)
(* still holds at the commit (ClientFine), though what was found before it *)
(* need not.  RowFine adds what a row remembers: waits are numbered, and   *)
(* what an armed duration has run and what is ahead of it make its length. *)
(***************************************************************************)
EXTENDS Delivery, FiniteSetTheorems, WellFoundedInduction, TLAPS

LEMMA Numbers ==
    /\ Length \in Nat /\ Length >= 1 /\ Period \in Nat \ {0} /\ Fires \in Nat /\ Fires >= 1
    /\ Poll \in Nat /\ Poll >= 1 /\ MaxArms \in Nat /\ MaxArms >= 1
    /\ SkipBase \in Nat /\ SkipMax \in Nat /\ FailBase \in Nat /\ FailMax \in Nat
    /\ Date \in Nat /\ Anchors \subseteq Nat /\ Forget \in Nat /\ MaxTime \in Nat /\ MaxWork \in Nat /\ MaxFaults \in Nat
    /\ Beyond \in Nat /\ Beyond = MaxTime + 1
BY Times, Bounds DEF Beyond

-----------------------------------------------------------------------------
(* Waits, one at a time.                                                   *)

WaitRow == [no : 0 .. MaxArms, kind : Kinds \union {"none"},
            due : 0 .. Beyond, left : 0 .. Fires]

(* A wait has a number, up to n, and something left; no wait has neither.  *)
WaitFine(w, n) ==
    /\ w.no <= n /\ (w.kind = "none" <=> w.no = 0)
    /\ w.kind # "none" => w.left >= 1
    /\ w.kind = "duration" => w.left = 1

(* A duration due at w.due has run for lv when its clock reads t.          *)
Runs(w, lv, t) == w.kind = "duration" /\ w.due < Beyond => w.due + lv = Length + t

LEMMA NoWaitFine == \A n \in Nat : NoWait \in WaitRow /\ WaitFine(NoWait, n)
BY Numbers DEF NoWait, WaitRow, WaitFine

(* The next occurrence is whole periods away, not past, and the first.     *)
LEMMA PeriodsAreWhole ==
    ASSUME NEW due \in Nat, NEW at \in Nat, NEW least \in Nat
    PROVE  LET n == Periods(due, at, least)
           IN  /\ n \in Nat /\ n >= least
               /\ Period * n \in Nat /\ Period * n >= n /\ (Period * n) % Period = 0
               /\ due + Period * n >= at
               /\ n # least => due + Period * n < at + Period
<1> DEFINE n == Periods(due, at, least)
           x == at - due + Period - 1
           q == x \div Period
<1>1. Period \in Nat \ {0} /\ x \in Int
  BY Numbers
<1>2. q \in Int /\ Period * q <= x /\ x < Period * q + Period
  <2> HIDE DEF x
  <2> QED  BY <1>1
<1>3. n = Max(least, q)
  BY DEF Periods
<1> HIDE DEF n, q
<1>4. n \in Nat /\ n >= least /\ n >= q /\ (n # least => n = q)
  BY <1>2, <1>3 DEF Max
<1>5. Period * n \in Nat /\ Period * n >= n /\ (Period * n) % Period = 0
  BY <1>1, <1>4
<1>6. Period * n >= Period * q /\ Period * q \in Int
  BY <1>1, <1>2, <1>4
<1>7. due + Period * n >= at
  BY <1>1, <1>2, <1>5, <1>6
<1>8. n # least => due + Period * n < at + Period
  BY <1>1, <1>2, <1>4, <1>6
<1> QED  BY <1>4, <1>5, <1>7, <1>8 DEF n

LEMMA DuesAreNat ==
    ASSUME NEW kind \in Kinds, NEW at \in Nat, NEW due \in FirstDues(kind, at)
    PROVE  due \in Nat /\ (kind = "duration" => due = at + Length)
<1>1. kind \in {"duration", "cycle", "date", "message"}
  BY Waits
<1>2. CASE kind = "cycle"
  <2>1. ASSUME NEW a \in Anchors
        PROVE  a + Period * Periods(a, at, 0) \in Nat
    <3>1. a \in Nat /\ Period * Periods(a, at, 0) \in Nat
      BY PeriodsAreWhole, Numbers
    <3> QED  BY <3>1
  <2>2. due \in {at + Period} \union {a + Period * Periods(a, at, 0) : a \in Anchors}
    BY <1>2 DEF FirstDues
  <2> QED  BY <1>2, <2>1, <2>2, Numbers
<1>3. CASE kind # "cycle"
  BY <1>1, <1>3, Numbers DEF FirstDues
<1> QED  BY <1>2, <1>3

LEMMA NewFine ==
    ASSUME NEW n \in Nat, NEW at \in Nat, NEW w \in News(n + 1, at)
    PROVE  /\ n + 1 <= MaxArms => w \in WaitRow
           /\ WaitFine(w, n + 1) /\ w.no = n + 1 /\ w.kind \in Kinds
           /\ w.kind = "cycle" => w.left = Fires
           /\ w.kind = "duration" => w.due = Instant(at + Length)
<1>0. PICK kind \in Kinds : \E due \in FirstDues(kind, at) : w = New(n + 1, kind, due)
  BY DEF News
<1>1. PICK due \in FirstDues(kind, at) : w = New(n + 1, kind, due)
  BY <1>0
<1>2. due \in Nat /\ (kind = "duration" => due = at + Length)
  BY DuesAreNat
<1>3. Instant(due) \in 0 .. Beyond
  BY <1>2, Numbers DEF Instant, Min
<1>4. w = [no |-> n + 1, kind |-> kind, due |-> Instant(due),
           left |-> IF kind = "cycle" THEN Fires ELSE 1]
  BY <1>1 DEF New
<1>5. /\ n + 1 <= MaxArms => n + 1 \in 0 .. MaxArms
      /\ 1 \in 0 .. Fires /\ Fires \in 0 .. Fires /\ kind # "none"
  BY Waits, Numbers
<1>6. n + 1 <= MaxArms => w \in WaitRow
  BY <1>3, <1>4, <1>5 DEF WaitRow
<1>7. w.no = n + 1 /\ w.kind = kind /\ w.left >= 1 /\ (kind = "cycle" => w.left = Fires)
      /\ (kind # "cycle" => w.left = 1) /\ w.due = Instant(due)
  BY <1>4, Numbers
<1> QED  BY <1>2, <1>5, <1>6, <1>7 DEF WaitFine

(* What fired is gone, or is the next occurrence of its cycle.             *)
LEMMA FiredFine ==
    ASSUME NEW i \in Instance, NEW at \in Nat, wait[i] \in WaitRow, made[i] \in Nat,
           WaitFine(wait[i], made[i]), Armed(i)
    PROVE  LET w == Fired(i, at)
           IN  \/ w = NoWait
               \/ /\ made[i] + 1 <= MaxArms => w \in WaitRow
                  /\ WaitFine(w, made[i] + 1) /\ w.no = made[i] + 1
                  /\ w.kind = wait[i].kind /\ w.kind # "duration" /\ w.left = wait[i].left - 1
                  /\ w.due < Beyond => /\ w.due \in Nat /\ w.due > wait[i].due /\ w.due >= at
                                       /\ (w.due - wait[i].due) % Period = 0
                                       /\ wait[i].due <= at => w.due <= at + Period
<1> DEFINE t == wait[i]
           due == NextOccurrence(t.due, at)
           step == Period * Periods(t.due, at, 1)
           w == [t EXCEPT !.no = made[i] + 1, !.due = Instant(due), !.left = @ - 1]
<1>1. CASE t.left = 1
  BY <1>1 DEF Fired
<1>2. CASE t.left # 1
  <2>1. t \in WaitRow /\ t.kind \in {"duration", "cycle", "date"} /\ t.left >= 1
        /\ t.left \in Nat /\ t.due \in Nat /\ t.kind # "duration"
    BY <1>2, Numbers DEF Armed, WaitRow, WaitFine
  <2>2. /\ step \in Nat /\ step >= 1 /\ step % Period = 0 /\ due = t.due + step
        /\ t.due + step >= at /\ (t.due <= at => t.due + step <= at + Period)
    <3> DEFINE n == Periods(t.due, at, 1)
    <3>1. /\ n >= 1 /\ n \in Nat /\ Period * n \in Nat /\ Period * n >= n
          /\ (Period * n) % Period = 0 /\ t.due + Period * n >= at
          /\ n # 1 => t.due + Period * n < at + Period
      BY <2>1, PeriodsAreWhole
    <3>2. n = 1 => Period * n = Period
      BY Numbers
    <3> HIDE DEF n
    <3>3. t.due <= at => t.due + Period * n <= at + Period
      BY <2>1, <3>1, <3>2, Numbers
    <3> QED  BY <3>1, <3>3 DEF NextOccurrence, n
  <2> HIDE DEF step, due
  <2>3. Instant(due) \in 0 .. Beyond /\ (Instant(due) < Beyond => Instant(due) = t.due + step)
    BY <2>1, <2>2, Numbers DEF Instant, Min
  <2>4. /\ w.no = made[i] + 1 /\ w.kind = t.kind /\ w.due = Instant(due) /\ w.left = t.left - 1
    BY <2>1 DEF WaitRow
  <2>5. made[i] + 1 <= MaxArms => w \in WaitRow
    <3>1. t.left - 1 \in 0 .. Fires /\ (made[i] + 1 <= MaxArms => made[i] + 1 \in 0 .. MaxArms)
      BY <2>1, Numbers DEF WaitRow
    <3> QED  BY <2>1, <2>3, <3>1 DEF WaitRow
  <2>6. Fired(i, at) = w
    BY <1>2 DEF Fired, due
  <2> HIDE DEF w, t
  <2>7. WaitFine(w, made[i] + 1)
    BY <1>2, <2>1, <2>4 DEF WaitFine
  <2>8. Instant(due) < Beyond => Instant(due) - t.due = step /\ Instant(due) > t.due
    BY <2>1, <2>2, <2>3
  <2> QED  BY <2>1, <2>2, <2>3, <2>4, <2>5, <2>6, <2>7, <2>8 DEF t
<1> QED  BY <1>1, <1>2

(* A repair keeps the wait, and moves a cycle along its grid.              *)
LEMMA ThawedFine ==
    ASSUME NEW i \in Instance, NEW at \in Nat, wait[i] \in WaitRow, frozenAt[i] \in Nat,
           frozenAt[i] <= at
    PROVE  LET w == Thawed(i, at)
           IN  /\ w \in WaitRow /\ w.no = wait[i].no /\ w.kind = wait[i].kind /\ w.left = wait[i].left
               /\ w.kind = "duration" => w.due = Instant(wait[i].due + at - frozenAt[i])
               /\ w.kind = "cycle" /\ w.due < Beyond
                    => /\ w.due >= wait[i].due /\ (w.due - wait[i].due) % Period = 0
                       /\ w.due # wait[i].due => w.due <= at + Period
                       /\ IF wait[i].due >= frozenAt[i] THEN w.due >= at ELSE w.due = wait[i].due
<1> DEFINE t == wait[i]
           w == Thawed(i, at)
           step == Period * Periods(t.due, at, 0)
<1>1. t \in WaitRow /\ t.due \in Nat /\ t.due <= Beyond
  BY Numbers DEF WaitRow
<1>2. CASE t.kind = "duration"
  <2>1. w = [t EXCEPT !.due = Instant(t.due + at - frozenAt[i])]
    BY <1>2 DEF Thawed
  <2>2. Instant(t.due + at - frozenAt[i]) \in 0 .. Beyond
    BY <1>1, Numbers DEF Instant, Min
  <2> HIDE DEF w
  <2> QED  BY <1>1, <1>2, <2>1, <2>2 DEF WaitRow, w
<1>3. CASE t.kind = "cycle" /\ t.due >= frozenAt[i]
  <2>1. w = [t EXCEPT !.due = Instant(t.due + step)]
    BY <1>3 DEF Thawed
  <2>2. /\ step \in Nat /\ step % Period = 0 /\ t.due + step >= at
        /\ step # 0 => t.due + step <= at + Period
    <3> DEFINE n == Periods(t.due, at, 0)
    <3>1. /\ n \in Nat /\ Period * n \in Nat /\ (Period * n) % Period = 0
          /\ t.due + Period * n >= at /\ (n # 0 => t.due + Period * n < at + Period)
      BY <1>1, PeriodsAreWhole
    <3>2. n = 0 => Period * n = 0
      BY Numbers
    <3> HIDE DEF n
    <3> QED  BY <1>1, <3>1, <3>2, Numbers DEF n
  <2> HIDE DEF step, w
  <2>3. Instant(t.due + step) \in 0 .. Beyond
        /\ (Instant(t.due + step) < Beyond
              => Instant(t.due + step) >= t.due /\ Instant(t.due + step) - t.due = step)
    BY <1>1, <2>2, Numbers DEF Instant, Min
  <2>4. w \in WaitRow /\ w.no = t.no /\ w.kind = t.kind /\ w.left = t.left
        /\ w.due = Instant(t.due + step)
    BY <1>1, <2>1, <2>3 DEF WaitRow
  <2>5. w.due < Beyond => /\ w.due = t.due + step /\ w.due >= at /\ w.due >= t.due
                          /\ w.due - t.due = step /\ (w.due # t.due => step # 0)
    BY <1>1, <2>2, <2>3, <2>4, Numbers
  <2> HIDE DEF t
  <2>6. /\ w \in WaitRow /\ w.no = t.no /\ w.kind = t.kind /\ w.left = t.left
        /\ t.kind # "duration"
        /\ w.kind = "cycle" /\ w.due < Beyond
             => /\ w.due >= t.due /\ (w.due - t.due) % Period = 0
                /\ w.due # t.due => w.due <= at + Period
                /\ w.due >= at
    BY <1>3, <2>2, <2>4, <2>5
  <2> QED  BY <1>3, <2>6 DEF w, t
<1>4. CASE t.kind # "duration" /\ ~(t.kind = "cycle" /\ t.due >= frozenAt[i])
  <2>1. w = t
    BY <1>4 DEF Thawed
  <2>2. (t.due - t.due) % Period = 0
    BY <1>1, Numbers
  <2> QED  BY <1>1, <1>4, <2>1, <2>2
<1> QED  BY <1>2, <1>3, <1>4

-----------------------------------------------------------------------------
(* The rows, and what a committed step does to them.                       *)

RowsTyped ==
    /\ now \in 0 .. MaxTime
    /\ status \in [Instance -> {"active", "failed", "ended"}]
    /\ frozenAt \in [Instance -> 0 .. MaxTime]
    /\ made \in [Instance -> 1 .. MaxArms]
    /\ wait \in [Instance -> WaitRow]
    /\ lived \in [Instance -> Int]

RowFine(i) ==
    /\ WaitFine(wait[i], made[i]) /\ frozenAt[i] <= now
    /\ status[i] = "ended" => wait[i].kind = "none"
    /\ Runs(wait[i], lived[i], IF status[i] = "failed" THEN frozenAt[i] ELSE now)

RowsFine == RowsTyped /\ \A i \in Instance : RowFine(i)

(* A step on i leaves the other instances alone, and the wait of i is kept *)
(* (a repair may move it), gone, or new.                                   *)
Moved(i) ==
    /\ UNCHANGED now
    /\ \A j \in Instance \ {i} : /\ wait'[j] = wait[j] /\ made'[j] = made[j]
                                 /\ status'[j] = status[j] /\ frozenAt'[j] = frozenAt[j]
    /\ made'[i] >= made[i]
    /\ \/ wait'[i].no = wait[i].no /\ wait'[i].kind = wait[i].kind
       \/ wait'[i].no = 0
       \/ wait'[i].no > made[i]

LEMMA RowsFollow ==
    ASSUME RowsFine, NEW i \in Instance, UNCHANGED now,
           status' = [status EXCEPT ![i] = status'[i]],
           frozenAt' = [frozenAt EXCEPT ![i] = frozenAt'[i]],
           wait' = [wait EXCEPT ![i] = wait'[i]], made' = [made EXCEPT ![i] = made'[i]],
           lived' = [lived EXCEPT ![i] = lived'[i]],
           status'[i] \in {"active", "failed", "ended"}, frozenAt'[i] \in 0 .. MaxTime,
           wait'[i] \in WaitRow, made'[i] \in 1 .. MaxArms, lived'[i] \in Int,
           WaitFine(wait'[i], made'[i]), frozenAt'[i] <= now,
           status'[i] = "ended" => wait'[i].kind = "none",
           Runs(wait'[i], lived'[i], IF status'[i] = "failed" THEN frozenAt'[i] ELSE now)
    PROVE  RowsFine'
<1>1. RowsTyped'
  BY DEF RowsFine, RowsTyped
<1>2. \A j \in Instance \ {i} : /\ status'[j] = status[j] /\ frozenAt'[j] = frozenAt[j]
                                /\ wait'[j] = wait[j] /\ made'[j] = made[j]
                                /\ lived'[j] = lived[j]
  BY DEF RowsFine, RowsTyped
<1>3. RowFine(i)'
  BY DEF RowFine
<1>4. \A j \in Instance \ {i} : RowFine(j)'
  BY <1>2 DEF RowsFine, RowFine
<1> QED  BY <1>1, <1>3, <1>4 DEF RowsFine

(* What the step of an active instance makes of its wait.                  *)
Outcomes(i, at, w) == {w, NoWait} \union News(made[i] + 1, at)

LEMMA OutcomesFine ==
    ASSUME RowsFine, NEW i \in Instance, NEW at \in 0 .. now, NEW w,
           w \in {NoWait, wait[i]} \/ (w = Fired(i, at) /\ Armed(i)),
           NEW u \in Outcomes(i, at, w), Max(made[i], u.no) <= MaxArms
    PROVE  /\ u \in WaitRow /\ Max(made[i], u.no) \in 1 .. MaxArms /\ Max(made[i], u.no) >= made[i]
           /\ WaitFine(u, Max(made[i], u.no))
           /\ u = wait[i] \/ u.no = 0 \/ u.no = made[i] + 1
           /\ u.no # 0 /\ u # wait[i] /\ u.kind = "duration" => u.due = Instant(at + Length)
<1>1. /\ made[i] \in 1 .. MaxArms /\ wait[i] \in WaitRow /\ WaitFine(wait[i], made[i])
      /\ at \in Nat /\ wait[i].no \in Nat
  BY Numbers DEF RowsFine, RowsTyped, RowFine, WaitRow
<1>2. CASE u = NoWait
  BY <1>1, <1>2, NoWaitFine, Numbers DEF NoWait, Max
<1>3. CASE u = wait[i]
  BY <1>1, <1>3, Numbers DEF Max, WaitFine
<1>4. CASE u \in News(made[i] + 1, at)
  <2>1. /\ made[i] + 1 <= MaxArms => u \in WaitRow
        /\ WaitFine(u, made[i] + 1) /\ u.no = made[i] + 1
        /\ u.kind = "duration" => u.due = Instant(at + Length)
    BY <1>1, <1>4, NewFine
  <2>2. made[i] + 1 <= MaxArms /\ Max(made[i], u.no) = made[i] + 1
    BY <1>1, <2>1, Numbers DEF Max
  <2> QED  BY <1>1, <2>1, <2>2, Numbers
<1>5. CASE u = Fired(i, at) /\ u # NoWait /\ Armed(i)
  <2>1. /\ made[i] + 1 <= MaxArms => u \in WaitRow
        /\ WaitFine(u, made[i] + 1) /\ u.no = made[i] + 1 /\ u.kind # "duration"
    BY <1>1, <1>5, FiredFine
  <2>2. made[i] + 1 <= MaxArms /\ Max(made[i], u.no) = made[i] + 1
    BY <1>1, <2>1, Numbers DEF Max
  <2> QED  BY <1>1, <2>1, <2>2, Numbers
<1> QED  BY <1>2, <1>3, <1>4, <1>5 DEF Outcomes

LEMMA SettleMoves ==
    ASSUME RowsFine, NEW i \in Instance, status[i] = "active", NEW at \in 0 .. now, NEW w,
           w \in {NoWait, wait[i]} \/ (w = Fired(i, at) /\ Armed(i)),
           Settle(i, at, w), Lives(i, at), UNCHANGED now
    PROVE  /\ RowsFine' /\ Moved(i) /\ wait' = [wait EXCEPT ![i] = wait'[i]]
           /\ wait'[i] \in Outcomes(i, at, w)
           /\ ~Tells(i) /\ Armed(i)' => wait'[i] = wait[i]
<1>0. /\ made[i] \in 1 .. MaxArms /\ wait[i] \in WaitRow /\ WaitFine(wait[i], made[i])
      /\ wait[i].no <= made[i] /\ now \in 0 .. MaxTime /\ frozenAt[i] \in 0 .. MaxTime
      /\ frozenAt[i] <= now /\ lived[i] \in Int /\ at \in 0 .. MaxTime
      /\ Runs(wait[i], lived[i], now) /\ wait[i].no \in Nat
      /\ \A f \in [Instance -> {"active", "failed", "ended"}] : f = [f EXCEPT ![i] = f[i]]
  BY Numbers DEF RowsFine, RowsTyped, RowFine, WaitFine, WaitRow
<1>1. CASE status' = [status EXCEPT ![i] = "ended"] /\ wait' = [wait EXCEPT ![i] = NoWait]
           /\ UNCHANGED <<frozenAt, made>>
  <2>1. wait'[i] = NoWait /\ wait'[i].kind = "none"
    BY <1>1 DEF RowsFine, RowsTyped, NoWait
  <2>2. lived' = [lived EXCEPT ![i] = 0]
    BY <2>1 DEF Lives
  <2>3. frozenAt' = [frozenAt EXCEPT ![i] = frozenAt[i]] /\ made' = [made EXCEPT ![i] = made[i]]
        /\ 0 \in Int /\ Runs(NoWait, 0, now) /\ NoWait.kind = "none"
    BY <1>1, Numbers DEF RowsFine, RowsTyped, Runs, NoWait
  <2>4. RowsFine'
    <3>1. /\ status'[i] = "ended" /\ frozenAt'[i] = frozenAt[i] /\ made'[i] = made[i]
          /\ lived'[i] = 0
      BY <1>1, <2>2, <2>3 DEF RowsFine, RowsTyped
    <3>2. NoWait \in WaitRow /\ WaitFine(NoWait, made[i])
      BY <1>0, NoWaitFine
    <3> QED  BY <1>0, <1>1, <2>1, <2>2, <2>3, <3>1, <3>2, RowsFollow
  <2>5. Moved(i)
    BY <1>0, <1>1, <2>1 DEF Moved, RowsFine, RowsTyped, NoWait
  <2> QED  BY <1>1, <2>1, <2>4, <2>5 DEF Outcomes, Armed
<1>2. CASE \E to \in {"active", "failed"}, u \in Outcomes(i, at, w) :
             /\ StepsTo(i, to, at) /\ wait' = [wait EXCEPT ![i] = u]
             /\ made' = [made EXCEPT ![i] = Max(@, u.no)] /\ made'[i] <= MaxArms
  <2>1. PICK to \in {"active", "failed"}, u \in Outcomes(i, at, w) :
             /\ StepsTo(i, to, at) /\ wait' = [wait EXCEPT ![i] = u]
             /\ made' = [made EXCEPT ![i] = Max(@, u.no)] /\ made'[i] <= MaxArms
    BY <1>2
  <2> DEFINE n  == Max(made[i], u.no)
             fr == IF to = "failed" THEN at ELSE 0
             lv == lived'[i]
  <2>2. wait'[i] = u /\ made'[i] = n /\ n <= MaxArms /\ made' = [made EXCEPT ![i] = n]
    BY <2>1 DEF RowsFine, RowsTyped
  <2>3. /\ u \in WaitRow /\ n \in 1 .. MaxArms /\ n >= made[i] /\ WaitFine(u, n)
        /\ u = wait[i] \/ u.no = 0 \/ u.no = made[i] + 1
        /\ u.no # 0 /\ u # wait[i] /\ u.kind = "duration" => u.due = Instant(at + Length)
    BY <2>2, OutcomesFine
  <2>4. Tells(i) <=> u.no > made[i] /\ u.kind # "message"
    BY <2>2 DEF Tells
  <2>5. lv = IF u.kind # "duration" THEN 0
             ELSE (IF Tells(i) THEN now - at ELSE lived[i]) - (IF to = "failed" THEN now - at ELSE 0)
    BY <2>1, <2>2 DEF Lives, StepsTo, RowsFine, RowsTyped
  <2>6. lived' = [lived EXCEPT ![i] = lv]
    BY DEF Lives, RowsFine, RowsTyped
  <2>7. lv \in Int
    BY <1>0, <2>5, Numbers
  <2>8. Runs(u, lv, IF to = "failed" THEN at ELSE now)
    <3>1. CASE u.kind # "duration"
      BY <3>1 DEF Runs
    <3>2. CASE u.kind = "duration" /\ u = wait[i]
      <4>1. ~Tells(i) /\ u.due \in Nat
        BY <1>0, <2>4, <3>2, Numbers DEF WaitRow
      <4>2. u.due < Beyond => u.due + lived[i] = Length + now
        BY <1>0, <3>2 DEF Runs
      <4> QED  BY <1>0, <2>5, <3>2, <4>1, <4>2, Numbers DEF Runs
    <3>3. CASE u.kind = "duration" /\ u # wait[i]
      <4>1. u.no # 0
        BY <2>3, <3>3 DEF WaitFine
      <4>2. u.no > made[i] /\ u.due = Instant(at + Length)
        BY <1>0, <2>3, <3>3, <4>1
      <4>3. Tells(i)
        BY <2>4, <3>3, <4>2
      <4>4. u.due < Beyond => u.due = at + Length
        BY <1>0, <4>2, Numbers DEF Instant, Min
      <4> QED  BY <1>0, <2>5, <3>3, <4>3, <4>4, Numbers DEF Runs
    <3> QED  BY <3>1, <3>2, <3>3
  <2>9. /\ status' = [status EXCEPT ![i] = to] /\ frozenAt' = [frozenAt EXCEPT ![i] = fr]
        /\ fr \in 0 .. MaxTime /\ fr <= now /\ (to = "failed" => fr = at)
    BY <1>0, <2>1, Numbers DEF StepsTo
  <2> HIDE DEF n, fr, lv
  <2>10. RowsFine'
    <3>1. status'[i] = to /\ frozenAt'[i] = fr /\ lived'[i] = lv /\ to # "ended"
      BY <2>6, <2>9 DEF RowsFine, RowsTyped
    <3>2. Runs(u, lv, IF to = "failed" THEN fr ELSE now)
      BY <2>8, <2>9
    <3> QED  BY <1>0, <2>1, <2>2, <2>3, <2>6, <2>7, <2>9, <3>1, <3>2, RowsFollow
  <2>11. Moved(i)
    BY <1>0, <2>1, <2>2, <2>3, <2>9 DEF Moved, RowsFine, RowsTyped
  <2>12. ~Tells(i) /\ Armed(i)' => wait'[i] = wait[i]
    BY <1>0, <2>2, <2>3, <2>4 DEF Armed, WaitFine
  <2> QED  BY <2>1, <2>2, <2>10, <2>11, <2>12
<1> QED  BY <1>1, <1>2 DEF Settle, Outcomes

LEMMA MendMoves ==
    ASSUME RowsFine, NEW i \in Instance, status[i] = "failed", NEW at \in 0 .. now,
           frozenAt[i] <= at, UNCHANGED now,
           wait' = [wait EXCEPT ![i] = Thawed(i, at)],
           lived' = [lived EXCEPT ![i] =
                        IF wait[i].kind = "duration" THEN @ + now - at ELSE 0],
           status' = [status EXCEPT ![i] = "active"], frozenAt' = [frozenAt EXCEPT ![i] = 0],
           UNCHANGED made
    PROVE  RowsFine' /\ Moved(i)
<1> DEFINE w  == Thawed(i, at)
           lv == IF wait[i].kind = "duration" THEN lived[i] + now - at ELSE 0
<1>0. /\ made[i] \in 1 .. MaxArms /\ wait[i] \in WaitRow /\ WaitFine(wait[i], made[i])
      /\ now \in 0 .. MaxTime /\ frozenAt[i] \in 0 .. MaxTime /\ lived[i] \in Int
      /\ at \in Nat /\ Runs(wait[i], lived[i], frozenAt[i])
  BY Numbers DEF RowsFine, RowsTyped, RowFine
<1>1. /\ w \in WaitRow /\ w.no = wait[i].no /\ w.kind = wait[i].kind /\ w.left = wait[i].left
      /\ w.kind = "duration" => w.due = Instant(wait[i].due + at - frozenAt[i])
  BY <1>0, ThawedFine, Numbers
<1>2. lv \in Int
  BY <1>0, Numbers
<1>3. Runs(w, lv, now)
  <2>1. ASSUME w.kind = "duration", w.due < Beyond
        PROVE  w.due + lv = Length + now
    <3>1. wait[i].due \in Nat /\ lv = lived[i] + now - at
      BY <1>0, <1>1, <2>1, Numbers DEF WaitRow
    <3>2. w.due = wait[i].due + at - frozenAt[i] /\ wait[i].due < Beyond
      BY <1>0, <1>1, <2>1, <3>1, Numbers DEF Instant, Min
    <3>3. wait[i].due + lived[i] = Length + frozenAt[i]
      BY <1>0, <1>1, <2>1, <3>2 DEF Runs
    <3> QED  BY <1>0, <3>1, <3>2, <3>3, Numbers
  <2> QED  BY <2>1 DEF Runs
<1>4. WaitFine(w, made[i])
  BY <1>0, <1>1 DEF WaitFine
<1>5. /\ wait' = [wait EXCEPT ![i] = w] /\ lived' = [lived EXCEPT ![i] = lv]
      /\ made' = [made EXCEPT ![i] = made[i]] /\ 0 \in 0 .. MaxTime /\ 0 <= now
  BY <1>0, Numbers DEF RowsFine, RowsTyped
<1> HIDE DEF w, lv
<1>6. RowsFine'
  <2>1. /\ status'[i] = "active" /\ frozenAt'[i] = 0 /\ wait'[i] = w /\ made'[i] = made[i]
        /\ lived'[i] = lv
    BY <1>5 DEF RowsFine, RowsTyped
  <2> QED  BY <1>0, <1>1, <1>2, <1>3, <1>4, <1>5, <2>1, RowsFollow
<1>7. Moved(i)
  BY <1>0, <1>1, <1>5 DEF Moved, RowsFine, RowsTyped
<1> QED  BY <1>6, <1>7

LEMMA TickMoves ==
    ASSUME RowsFine, Tick
    PROVE  RowsFine'
<1>1. now \in 0 .. MaxTime /\ now' = now + 1 /\ now' \in 0 .. MaxTime
  BY Numbers DEF Tick, RowsFine, RowsTyped
<1>2. RowsTyped'
  <2>1. lived' \in [Instance -> Int]
    BY DEF Tick, RowsFine, RowsTyped
  <2> QED  BY <1>1, <2>1 DEF Tick, RowsFine, RowsTyped
<1>3. ASSUME NEW i \in Instance
      PROVE  RowFine(i)'
  <2>1. /\ WaitFine(wait[i], made[i]) /\ frozenAt[i] <= now /\ frozenAt[i] \in 0 .. MaxTime
        /\ lived[i] \in Int /\ wait[i].due \in 0 .. Beyond
        /\ status[i] \in {"active", "failed", "ended"}
        /\ wait'[i] = wait[i] /\ made'[i] = made[i] /\ frozenAt'[i] = frozenAt[i]
        /\ status'[i] = status[i]
        /\ lived'[i] = lived[i]
                         + IF wait[i].kind = "duration" /\ status[i] = "active" THEN 1 ELSE 0
        /\ status[i] = "ended" => wait[i].kind = "none"
        /\ Runs(wait[i], lived[i], IF status[i] = "failed" THEN frozenAt[i] ELSE now)
    BY DEF Tick, RowsFine, RowsTyped, RowFine, WaitRow
  <2>2. status[i] = "active" => Runs(wait[i], lived'[i], now')
    BY <1>1, <2>1, Numbers DEF Runs
  <2>3. status[i] = "failed" => Runs(wait[i], lived'[i], frozenAt[i])
    BY <2>1 DEF Runs
  <2>4. status[i] = "ended" => Runs(wait[i], lived'[i], now')
    BY <2>1 DEF Runs
  <2>5. Runs(wait[i], lived'[i], IF status[i] = "failed" THEN frozenAt[i] ELSE now')
    BY <2>1, <2>2, <2>3, <2>4
  <2>6. frozenAt[i] <= now'
    BY <1>1, <2>1, Numbers
  <2> QED  BY <2>1, <2>5, <2>6 DEF RowFine
<1> QED  BY <1>2, <1>3 DEF RowsFine

LEMMA InitRows == Init => RowsFine
<1> SUFFICES ASSUME Init PROVE RowsFine
  OBVIOUS
<1>1. ASSUME NEW i \in Instance
      PROVE  /\ wait[i] \in WaitRow /\ WaitFine(wait[i], 1)
             /\ wait[i].kind = "duration" => wait[i].due = 1
  <2>1. PICK w \in News(1, 0) : wait[i] = [w EXCEPT !.due = Min(@, 1)]
    BY DEF Init
  <2>2. /\ w \in WaitRow /\ WaitFine(w, 1)
        /\ w.kind = "duration" => w.due = Instant(0 + Length)
    <3>1. w \in News(0 + 1, 0) /\ 0 + 1 <= MaxArms
      BY Numbers
    <3>2. /\ 0 + 1 <= MaxArms => w \in WaitRow
          /\ WaitFine(w, 0 + 1)
          /\ w.kind = "duration" => w.due = Instant(0 + Length)
      BY <3>1, NewFine
    <3> QED  BY <3>1, <3>2
  <2>3. wait[i] \in WaitRow /\ wait[i].no = w.no /\ wait[i].kind = w.kind /\ wait[i].left = w.left
        /\ wait[i].due = Min(w.due, 1)
    BY <2>1, <2>2, Numbers DEF WaitRow, Min
  <2> QED  BY <2>2, <2>3, Numbers DEF WaitFine, Instant, Min
<1>2. \A i \in Instance : lived[i] \in Int
  BY Numbers DEF Init
<1>3. RowsTyped
  BY <1>1, <1>2, Numbers DEF Init, RowsTyped
<1>4. \A i \in Instance : RowFine(i)
  BY <1>1, Numbers DEF Init, RowFine, Runs
<1> QED  BY <1>3, <1>4 DEF RowsFine

-----------------------------------------------------------------------------
(* Who holds which row.                                                    *)

Working == {"delivers", "steps", "mends"}

Deferral == [until : Nat, skips : Nat, failures : Nat]

LocksTyped ==
    /\ faults \in 0 .. MaxFaults
    /\ holder \in [Instance -> {"none"} \union Scheduler \union Client]
    /\ loop \in [Scheduler -> Loop] /\ client \in [Client -> Work]
    /\ deferral \in [Scheduler -> [Instance -> Deferral]]

LoopHolds(p) ==
    /\ \A i \in Instance : holder[i] = p <=> loop[p].at = "hold" /\ loop[p].of[1] = i
    /\ loop[p].at = "hold" => loop[p].of \in Instance \X Nat /\ loop[p].start <= now

ClientHolds(c) ==
    /\ \A i \in Instance : holder[i] = c <=> client[c].at \in Working /\ client[c].of[1] = i
    /\ client[c].at # "idle" => client[c].of \in Instance \X Nat
    /\ client[c].at \in Working => client[c].start <= now

LocksFine ==
    /\ LocksTyped
    /\ \A p \in Scheduler : LoopHolds(p)
    /\ \A c \in Client : ClientHolds(c)

LEMMA HoldersDiffer ==
    /\ \A p \in Scheduler : p # "none" /\ \A c \in Client : p # c
    /\ \A c \in Client : c # "none"
BY Locks

LEMMA NotifyKeeps ==
    ASSUME NEW l \in [Scheduler -> Loop]
    PROVE  /\ Notify(l) \in [Scheduler -> Loop]
           /\ \A q \in Scheduler :
                /\ Notify(l)[q].at = l[q].at /\ Notify(l)[q].of = l[q].of
                /\ Notify(l)[q].start = l[q].start /\ Notify(l)[q].saw = l[q].saw
                /\ Notify(l)[q].since = l[q].since /\ Notify(l)[q].wake = l[q].wake
                /\ Notify(l)[q].link = l[q].link
                /\ l[q].link = "up" => Notify(l)[q].woken
<1>1. ASSUME NEW q \in Scheduler
      PROVE  [l[q] EXCEPT !.woken = TRUE] \in Loop
  BY DEF Loop
<1>2. \A q \in Scheduler : Notify(l)[q] = IF l[q].link = "up" THEN [l[q] EXCEPT !.woken = TRUE]
                                          ELSE l[q]
  BY DEF Notify
<1>3. Notify(l) \in [Scheduler -> Loop]
  BY <1>1 DEF Notify
<1>4. \A q \in Scheduler :
        LET x == [l[q] EXCEPT !.woken = TRUE]
        IN  /\ x.at = l[q].at /\ x.of = l[q].of /\ x.start = l[q].start /\ x.saw = l[q].saw
            /\ x.since = l[q].since /\ x.wake = l[q].wake /\ x.link = l[q].link /\ x.woken
  BY DEF Loop
<1> QED  BY <1>2, <1>3, <1>4

(* The loop of p, or the client c, goes on without taking or giving back.  *)
LEMMA LoopTurns ==
    ASSUME LocksFine, NEW p \in Scheduler, loop' = [loop EXCEPT ![p] = loop'[p]],
           loop'[p] \in Loop, loop'[p].at = "hold" <=> loop[p].at = "hold",
           loop[p].at = "hold" => loop'[p].of = loop[p].of /\ loop'[p].start = loop[p].start,
           deferral' \in [Scheduler -> [Instance -> Deferral]], faults' \in 0 .. MaxFaults,
           UNCHANGED <<now, holder, client>>
    PROVE  LocksFine'
<1>1. LocksTyped'
  BY DEF LocksFine, LocksTyped
<1>2. \A q \in Scheduler \ {p} : loop'[q] = loop[q]
  BY DEF LocksFine, LocksTyped
<1>3. \A q \in Scheduler : LoopHolds(q)'
  BY <1>2 DEF LocksFine, LoopHolds
<1>4. \A c \in Client : ClientHolds(c)'
  BY DEF LocksFine, ClientHolds
<1> QED  BY <1>1, <1>3, <1>4 DEF LocksFine

LEMMA ClientTurns ==
    ASSUME LocksFine, NEW c \in Client, client' = [client EXCEPT ![c] = client'[c]],
           client'[c] \in Work, client[c].at \notin Working, client'[c].at \notin Working,
           client'[c].at # "idle" => client'[c].of \in Instance \X Nat,
           UNCHANGED <<now, holder, loop, deferral, faults>>
    PROVE  LocksFine'
<1>1. LocksTyped'
  BY DEF LocksFine, LocksTyped
<1>2. \A q \in Client \ {c} : client'[q] = client[q]
  BY DEF LocksFine, LocksTyped
<1>3. \A q \in Scheduler : LoopHolds(q)'
  BY DEF LocksFine, LoopHolds
<1>4. \A q \in Client : ClientHolds(q)'
  BY <1>2 DEF LocksFine, ClientHolds
<1> QED  BY <1>1, <1>3, <1>4 DEF LocksFine

(* A free row is taken by scheduler p, or by client c.                     *)
LEMMA LoopTakes ==
    ASSUME LocksFine, NEW p \in Scheduler, NEW i \in Instance, holder[i] = "none",
           holder' = [holder EXCEPT ![i] = p],
           loop' = [loop EXCEPT ![p] = loop'[p]], loop'[p] \in Loop, loop[p].at # "hold",
           loop'[p].at = "hold", loop'[p].of \in Instance \X Nat, loop'[p].of[1] = i,
           loop'[p].start <= now, UNCHANGED <<now, client, deferral, faults>>
    PROVE  LocksFine'
<1>1. LocksTyped'
  BY DEF LocksFine, LocksTyped
<1>2. /\ \A q \in Scheduler \ {p} : loop'[q] = loop[q]
      /\ holder'[i] = p /\ \A j \in Instance \ {i} : holder'[j] = holder[j]
  BY DEF LocksFine, LocksTyped
<1>3. LoopHolds(p)'
  BY <1>2 DEF LocksFine, LoopHolds
<1>4. ASSUME NEW q \in Scheduler \ {p}
      PROVE  LoopHolds(q)'
  <2>1. \A j \in Instance : holder'[j] = q <=> holder[j] = q
    BY <1>2, HoldersDiffer
  <2> QED  BY <1>2, <2>1 DEF LocksFine, LoopHolds
<1>5. \A c \in Client : ClientHolds(c)'
  BY <1>2, HoldersDiffer DEF LocksFine, ClientHolds
<1> QED  BY <1>1, <1>3, <1>4, <1>5 DEF LocksFine

LEMMA ClientTakes ==
    ASSUME LocksFine, NEW c \in Client, NEW i \in Instance, Locked(c, i),
           client' = [client EXCEPT ![c] = client'[c]], client'[c] \in Work,
           client[c].at \notin Working, client'[c].at \in Working,
           client'[c].of \in Instance \X Nat, client'[c].of[1] = i, client'[c].start <= now,
           UNCHANGED <<now, loop, deferral, faults>>
    PROVE  LocksFine'
<1>1. LocksTyped'
  BY DEF LocksFine, LocksTyped, Locked
<1>2. /\ \A q \in Client \ {c} : client'[q] = client[q]
      /\ holder[i] = "none" /\ holder'[i] = c /\ \A j \in Instance \ {i} : holder'[j] = holder[j]
  BY DEF LocksFine, LocksTyped, Locked
<1>3. ClientHolds(c)'
  BY <1>2 DEF LocksFine, ClientHolds, Working
<1>4. ASSUME NEW q \in Client \ {c}
      PROVE  ClientHolds(q)'
  <2>1. \A j \in Instance : holder'[j] = q <=> holder[j] = q
    BY <1>2, HoldersDiffer
  <2> QED  BY <1>2, <2>1 DEF LocksFine, ClientHolds
<1>5. \A p \in Scheduler : LoopHolds(p)'
  BY <1>2, HoldersDiffer DEF LocksFine, LoopHolds
<1> QED  BY <1>1, <1>3, <1>4, <1>5 DEF LocksFine

(* A row is given back; who is told keeps its hold.                        *)
LEMMA LoopGives ==
    ASSUME LocksFine, NEW p \in Scheduler,
           holder' = [i \in Instance |-> IF holder[i] = p THEN "none" ELSE holder[i]],
           loop' \in [Scheduler -> Loop], loop'[p].at # "hold",
           \A q \in Scheduler \ {p} : /\ loop'[q].at = loop[q].at /\ loop'[q].of = loop[q].of
                                      /\ loop'[q].start = loop[q].start,
           deferral' \in [Scheduler -> [Instance -> Deferral]], faults' \in 0 .. MaxFaults,
           UNCHANGED <<now, client>>
    PROVE  LocksFine'
<1>1. LocksTyped'
  BY DEF LocksFine, LocksTyped
<1>2. \A i \in Instance : holder'[i] = IF holder[i] = p THEN "none" ELSE holder[i]
  OBVIOUS
<1>3. ASSUME NEW q \in Scheduler
      PROVE  LoopHolds(q)'
  <2>1. CASE q = p
    <3>1. \A i \in Instance : holder'[i] # p
      BY <1>2, HoldersDiffer
    <3> QED  BY <2>1, <3>1 DEF LoopHolds
  <2>2. CASE q # p
    <3>1. \A i \in Instance : holder'[i] = q <=> holder[i] = q
      BY <1>2, <2>2, HoldersDiffer
    <3> QED  BY <2>2, <3>1 DEF LocksFine, LoopHolds
  <2> QED  BY <2>1, <2>2
<1>4. \A c \in Client : ClientHolds(c)'
  BY <1>2, HoldersDiffer DEF LocksFine, ClientHolds
<1> QED  BY <1>1, <1>3, <1>4 DEF LocksFine

LEMMA ClientGives ==
    ASSUME LocksFine, NEW c \in Client, NEW i \in Instance, client[c].at \in Working,
           client[c].of[1] = i, Releases(i), Rests(c),
           loop' \in [Scheduler -> Loop],
           \A q \in Scheduler : /\ loop'[q].at = loop[q].at /\ loop'[q].of = loop[q].of
                                /\ loop'[q].start = loop[q].start,
           UNCHANGED <<now, deferral, faults>>
    PROVE  LocksFine'
<1>0. Idle \in Work /\ Idle.at = "idle" /\ "idle" \notin Working
  BY DEF Idle, Work, Working
<1>1. LocksTyped'
  BY <1>0 DEF LocksFine, LocksTyped, Releases, Rests
<1>2. /\ client'[c] = Idle /\ \A q \in Client \ {c} : client'[q] = client[q]
      /\ holder[i] = c /\ holder'[i] = "none" /\ \A j \in Instance \ {i} : holder'[j] = holder[j]
  BY DEF LocksFine, LocksTyped, Releases, Rests, ClientHolds
<1>3. ClientHolds(c)'
  <2>1. \A j \in Instance : holder'[j] # c
    BY <1>2, HoldersDiffer DEF LocksFine, ClientHolds
  <2> QED  BY <1>0, <1>2, <2>1 DEF ClientHolds
<1>4. ASSUME NEW q \in Client \ {c}
      PROVE  ClientHolds(q)'
  <2>1. \A j \in Instance : holder'[j] = q <=> holder[j] = q
    BY <1>2, HoldersDiffer
  <2> QED  BY <1>2, <2>1 DEF LocksFine, ClientHolds
<1>5. \A p \in Scheduler : LoopHolds(p)'
  BY <1>2, HoldersDiffer DEF LocksFine, LoopHolds
<1> QED  BY <1>0, <1>1, <1>2, <1>3, <1>4, <1>5 DEF LocksFine

-----------------------------------------------------------------------------
(* Deferrals and naps.                                                     *)

LEMMA LeastOf ==
    ASSUME NEW T \in SUBSET Nat, T # {}
    PROVE  \E x \in T : \A y \in T : x <= y
<1> DEFINE R == OpToRel(<, Nat)
<1>1. \A x, y \in Nat : <<x, y>> \in R <=> x < y
  BY DEF OpToRel
<1>2. IsWellFoundedOn(R, Nat)
  BY NatLessThanWellFounded
<1> HIDE DEF R
<1>3. PICK x \in T : \A y \in T : <<y, x>> \notin R
  BY <1>2, WFMin
<1>4. x \in Nat /\ \A y \in T : y \in Nat /\ ~(y < x)
  BY <1>1, <1>3
<1> QED
  BY <1>4

LEMMA SoonestIs ==
    ASSUME NEW S \in SUBSET Nat, NEW d \in Nat
    PROVE  /\ Soonest(S, d) \in Nat /\ (S = {} => Soonest(S, d) = d)
           /\ \A t \in S : Soonest(S, d) <= t
<1>1. CASE S = {}
  BY <1>1 DEF Soonest
<1>2. CASE S # {}
  <2>1. \E t \in S : \A u \in S : t <= u
    BY <1>2, LeastOf
  <2> QED  BY <1>2, <2>1 DEF Soonest
<1> QED  BY <1>1, <1>2

(* The powers of two are the sizes of power sets.                          *)
LEMMA PowerIsNat == ASSUME NEW n \in Nat PROVE 2 ^ n \in Nat
<1>1. IsFiniteSet(1 .. n) /\ Cardinality(1 .. n) = n
  BY FS_Interval
<1>2. IsFiniteSet(SUBSET (1 .. n)) /\ Cardinality(SUBSET (1 .. n)) = 2 ^ n
  BY <1>1, FS_SUBSET
<1> QED  BY <1>2, FS_CardinalityType

LEMMA BackoffIsNat ==
    ASSUME NEW base \in Nat, NEW max \in Nat, NEW n \in Nat
    PROVE  Backoff(base, max, n + 1) \in Nat
<1>1. n + 1 - 1 = n /\ 2 ^ n \in Nat
  BY PowerIsNat
<1>2. base * 2 ^ n \in Nat
  BY <1>1
<1> QED  BY <1>1, <1>2 DEF Backoff, Min

LEMMA RetainedTyped ==
    ASSUME LocksTyped, NEW p \in Scheduler
    PROVE  /\ Retained(p) \in [Scheduler -> [Instance -> Deferral]]
           /\ \A i \in Instance : Retained(p)[p][i] \in {deferral[p][i], NoDeferral}
           /\ \A q \in Scheduler \ {p} : Retained(p)[q] = deferral[q]
BY DEF LocksTyped, Retained, NoDeferral, Deferral

LEMMA DeferTyped ==
    ASSUME LocksTyped, now \in Nat, NEW p \in Scheduler, NEW i \in Instance,
           DeferTransient(p, i) \/ DeferFailed(p, i) \/ ClearDeferral(p, i)
    PROVE  /\ deferral' \in [Scheduler -> [Instance -> Deferral]]
           /\ \A q \in Scheduler \ {p} : deferral'[q] = deferral[q]
<1> DEFINE d == deferral[p][i]
<1>1. d \in Deferral /\ d.skips \in Nat /\ d.failures \in Nat
  BY DEF LocksTyped, Deferral
<1>2. ASSUME NEW x \in Deferral, Defer(p, i, x)
      PROVE  /\ deferral' \in [Scheduler -> [Instance -> Deferral]]
             /\ \A q \in Scheduler \ {p} : deferral'[q] = deferral[q]
  BY <1>2 DEF Defer, LocksTyped
<1>3. CASE DeferTransient(p, i)
  <2> DEFINE b == Backoff(SkipBase, SkipMax, d.skips + 1)
             x == [d EXCEPT !.skips = Min(@ + 1, SkipMax), !.until = Lapse(now + b)]
  <2>1. b \in Nat
    BY <1>1, BackoffIsNat, Numbers
  <2>2. Defer(p, i, x)
    BY <1>3 DEF DeferTransient
  <2> HIDE DEF b, d
  <2>3. Lapse(now + b) \in Nat /\ Min(d.skips + 1, SkipMax) \in Nat
    BY <1>1, <2>1, Numbers DEF Lapse, Min
  <2>4. x \in Deferral
    BY <1>1, <2>3 DEF Deferral
  <2> QED  BY <1>2, <2>2, <2>4
<1>4. CASE DeferFailed(p, i)
  <2> DEFINE b == Backoff(FailBase, FailMax, d.failures + 1)
             x == [d EXCEPT !.failures = Min(@ + 1, FailMax), !.until = Lapse(now + b)]
  <2>1. b \in Nat
    BY <1>1, BackoffIsNat, Numbers
  <2>2. Defer(p, i, x)
    BY <1>4 DEF DeferFailed
  <2> HIDE DEF b, d
  <2>3. Lapse(now + b) \in Nat /\ Min(d.failures + 1, FailMax) \in Nat
    BY <1>1, <2>1, Numbers DEF Lapse, Min
  <2>4. x \in Deferral
    BY <1>1, <2>3 DEF Deferral
  <2> QED  BY <1>2, <2>2, <2>4
<1>5. CASE ClearDeferral(p, i)
  <2>1. NoDeferral \in Deferral
    BY DEF NoDeferral, Deferral
  <2> QED  BY <1>2, <1>5, <2>1 DEF ClearDeferral
<1> QED  BY <1>3, <1>4, <1>5

Eligible(p, j) == Armed(j) /\ status[j] = "active" /\ ~Deferred(p, j)

(* A scheduler that left nothing alone waits for no longer than until the  *)
(* next timer it may fire.                                                 *)
LEMMA WaitIsShort ==
    ASSUME RowsTyped, LocksTyped, NEW p \in Scheduler
    PROVE  /\ Wait(p) \in Nat
           /\ ~loop[p].saw
                => \A j \in Instance : Eligible(p, j) => Wait(p) <= Max(wait[j].due - now, 0)
<1> DEFINE lapses == {deferral[p][i].until - now : i \in Deferrals(p)}
           naps == {Max(wait[i].due - now, 0) : i \in {j \in Instance : Eligible(p, j)}}
<1>1. now \in Nat /\ \A j \in Instance : wait[j].due \in Nat
  BY Numbers DEF RowsTyped, WaitRow
<1>2. lapses \in SUBSET Nat
  BY <1>1 DEF Deferrals, Deferred, LocksTyped, Deferral
<1>3. naps \in SUBSET Nat
  BY <1>1 DEF Max
<1>4. UntilEligible(p, 1) \in Nat /\ UntilEligible(p, Poll) \in Nat
  BY <1>2, SoonestIs, Numbers DEF UntilEligible
<1>5. NextDueIn(p) = Soonest(naps, Poll)
  BY DEF NextDueIn, Eligible
<1> HIDE DEF naps
<1>6. NextDueIn(p) \in Nat /\ \A t \in naps : NextDueIn(p) <= t
  BY <1>3, <1>5, SoonestIs, Numbers
<1>7. Wait(p) \in Nat /\ (~loop[p].saw => Wait(p) <= NextDueIn(p))
  BY <1>4, <1>6, Numbers DEF Wait, Min
<1>8. ASSUME NEW j \in Instance, Eligible(p, j)
      PROVE  NextDueIn(p) <= Max(wait[j].due - now, 0)
  BY <1>6, <1>8 DEF naps
<1>9. \A j \in Instance : Max(wait[j].due - now, 0) \in Nat
  BY <1>1 DEF Max
<1> QED  BY <1>6, <1>7, <1>8, <1>9

-----------------------------------------------------------------------------
(* The inductive invariant.                                                *)

(* What a client relies on: found under the lock, it still holds; found    *)
(* without it, it is a message's wait as long as it is the same wait.      *)
ClientFine(c) ==
    LET i == client[c].of[1] IN
    /\ client[c].at \in {"delivers", "steps"} => status[i] = "active"
    /\ client[c].at = "mends" => status[i] = "failed" /\ frozenAt[i] <= client[c].start
    /\ client[c].at = "delivers" => wait[i].kind = "message" /\ wait[i].no = client[c].of[2]
    /\ client[c].at = "matched" =>
         /\ client[c].of[2] >= 1 /\ client[c].of[2] <= made[i]
         /\ wait[i].no = client[c].of[2] => wait[i].kind = "message"

Napping(p) == loop[p].at = "park" /\ ~loop[p].saw /\ loop[p].link = "up" /\ ~loop[p].woken

RisesFor(p, i) ==
    Napping(p) /\ status[i] = "active" /\ Armed(i)
        => loop[p].wake <= Max(wait[i].due, loop[p].since + 1) \/ loop[p].wake <= now

(* A pass that left nothing alone has no deferral; a nap after it ends in  *)
(* time.                                                                   *)
LoopFine(p) ==
    /\ loop[p].at \in {"try", "hold"} /\ ~loop[p].saw => Deferrals(p) = {}
    /\ \A i \in Instance : RisesFor(p, i)

Fine == /\ RowsFine /\ LocksFine
        /\ \A c \in Client : ClientFine(c)
        /\ \A p \in Scheduler : LoopFine(p)

(* A step that commits nothing.                                            *)
LEMMA QuietRows ==
    ASSUME RowsFine, UNCHANGED <<now, rows>>
    PROVE  RowsFine'
BY DEF RowsFine, RowsTyped, RowFine, rows

LEMMA QuietClients ==
    ASSUME UNCHANGED <<now, rows, client>>, \A c \in Client : ClientFine(c)
    PROVE  \A c \in Client : ClientFine(c)'
BY DEF ClientFine, rows

LEMMA QuietLoops ==
    ASSUME UNCHANGED <<now, rows>>, NEW p \in Scheduler,
           \A q \in Scheduler : LoopFine(q),
           \A q \in Scheduler \ {p} : loop'[q] = loop[q] /\ deferral'[q] = deferral[q],
           LoopFine(p)'
    PROVE  \A q \in Scheduler : LoopFine(q)'
<1> SUFFICES ASSUME NEW q \in Scheduler \ {p} PROVE LoopFine(q)'
  OBVIOUS
<1>1. LoopFine(q) /\ loop'[q] = loop[q] /\ deferral'[q] = deferral[q]
  OBVIOUS
<1>2. Deferrals(q)' = Deferrals(q)
  BY <1>1 DEF Deferrals, Deferred
<1>3. \A i \in Instance : RisesFor(q, i)'
  BY <1>1 DEF LoopFine, RisesFor, Napping, Armed, rows
<1> QED  BY <1>1, <1>2, <1>3 DEF LoopFine

(* A step of one loop that commits nothing and holds what it held.         *)
LEMMA LoopStays ==
    ASSUME Fine, NEW p \in Scheduler, loop' = [loop EXCEPT ![p] = loop'[p]],
           loop'[p] \in Loop, loop'[p].at = "hold" <=> loop[p].at = "hold",
           loop[p].at = "hold" => loop'[p].of = loop[p].of /\ loop'[p].start = loop[p].start,
           deferral' \in [Scheduler -> [Instance -> Deferral]], faults' \in 0 .. MaxFaults,
           \A q \in Scheduler \ {p} : deferral'[q] = deferral[q],
           UNCHANGED <<now, rows, holder, client>>, LoopFine(p)'
    PROVE  Fine'
<1>1. LocksFine'
  BY LoopTurns DEF Fine
<1>2. \A q \in Scheduler \ {p} : loop'[q] = loop[q]
  BY DEF Fine, LocksFine, LocksTyped
<1>3. \A q \in Scheduler : LoopFine(q)'
  BY <1>2, QuietLoops DEF Fine
<1> QED  BY <1>1, <1>3, QuietRows, QuietClients DEF Fine

LEMMA Types ==
    ASSUME Fine
    PROVE  /\ now \in Nat /\ loop \in [Scheduler -> Loop] /\ client \in [Client -> Work]
           /\ deferral \in [Scheduler -> [Instance -> Deferral]] /\ faults \in 0 .. MaxFaults
           /\ LocksTyped /\ RowsTyped
           /\ \A i \in Instance : wait[i] \in WaitRow /\ made[i] \in 1 .. MaxArms
                                  /\ frozenAt[i] \in Nat /\ frozenAt[i] <= now
                                  /\ WaitFine(wait[i], made[i]) /\ wait[i].no \in Nat
                                  /\ wait[i].due \in Nat
BY Numbers DEF Fine, LocksFine, LocksTyped, RowsFine, RowsTyped, RowFine, WaitRow

-----------------------------------------------------------------------------
(* The loop's steps that commit nothing.                                   *)

LEMMA PickStays ==
    ASSUME Fine, NEW p \in Scheduler, Pick(p)
    PROVE  Fine'
<1> DEFINE found == {<<i, wait[i].no>> : i \in {j \in Instance :
                        Due(j, now) /\ status[j] = "active" /\ ~Deferred(p, j)}}
           x == [loop[p] EXCEPT !.at = "try", !.saw = Deferrals(p) # {}, !.todo = found]
<1>0. loop[p] \in Loop /\ loop[p].at = "drain"
  BY Types DEF Pick
<1>1. found \in SUBSET (Instance \X Nat)
  BY Types
<1>2. loop' = [loop EXCEPT ![p] = x]
  BY DEF Pick
<1> HIDE DEF found
<1>3. x \in Loop /\ x.at = "try" /\ (~x.saw => Deferrals(p) = {})
  BY <1>0, <1>1 DEF Loop
<1>4. loop'[p] = x
  BY <1>2, Types
<1>5. /\ deferral' \in [Scheduler -> [Instance -> Deferral]]
      /\ \A i \in Instance : deferral'[p][i] \in {deferral[p][i], NoDeferral}
      /\ \A q \in Scheduler \ {p} : deferral'[q] = deferral[q]
  BY Types, RetainedTyped DEF Pick
<1>6. \A i \in Instance : Deferred(p, i)' => Deferred(p, i)
  <2>1. NoDeferral.until = 0 /\ now' = now /\ now \in Nat
    BY Types DEF Pick, NoDeferral
  <2> QED  BY <1>5, <2>1 DEF Deferred
<1>7. LoopFine(p)'
  BY <1>3, <1>4, <1>6 DEF LoopFine, Deferrals, RisesFor, Napping
<1> HIDE DEF x
<1> QED  BY <1>0, <1>2, <1>3, <1>4, <1>5, <1>7, Types, LoopStays DEF Pick

LEMMA BusyStays ==
    ASSUME Fine, NEW p \in Scheduler, NEW i \in Instance, NEW no \in Nat, Busy(p, <<i, no>>)
    PROVE  Fine'
<1> DEFINE x == [loop[p] EXCEPT !.todo = @ \ {<<i, no>>}, !.saw = TRUE]
<1>0. loop[p] \in Loop /\ loop[p].at = "try"
  BY Types DEF Busy
<1>1. loop' = [loop EXCEPT ![p] = x] /\ loop'[p] = x
  BY Types DEF Busy
<1>2. x \in Loop /\ x.at = "try" /\ x.saw
  BY <1>0 DEF Loop
<1>3. LoopFine(p)'
  BY <1>1, <1>2 DEF LoopFine, RisesFor, Napping
<1>4. /\ deferral' \in [Scheduler -> [Instance -> Deferral]]
      /\ \A q \in Scheduler \ {p} : deferral'[q] = deferral[q]
  BY Types, DeferTyped DEF Busy
<1> HIDE DEF x
<1> QED  BY <1>0, <1>1, <1>2, <1>3, <1>4, Types, LoopStays DEF Busy

LEMMA ListenStays ==
    ASSUME Fine, NEW p \in Scheduler, Listen(p)
    PROVE  Fine'
<1> DEFINE x == [loop[p] EXCEPT !.at = "drain", !.link = "up"]
<1>0. loop[p] \in Loop /\ loop[p].at = "try"
  BY Types DEF Listen
<1>1. loop' = [loop EXCEPT ![p] = x] /\ loop'[p] = x
  BY Types DEF Listen
<1>2. x \in Loop /\ x.at = "drain"
  BY <1>0 DEF Loop
<1>3. LoopFine(p)'
  BY <1>1, <1>2 DEF LoopFine, RisesFor, Napping
<1> HIDE DEF x
<1> QED  BY <1>0, <1>1, <1>2, <1>3, Types, LoopStays DEF Listen

LEMMA WakeStays ==
    ASSUME Fine, NEW p \in Scheduler, Wake(p)
    PROVE  Fine'
<1> DEFINE x == [Fresher EXCEPT !.link = IF loop[p].link = "none" THEN "none" ELSE "up"]
<1>0. loop[p] \in Loop /\ loop[p].at = "park"
  BY Types DEF Wake
<1>1. loop' = [loop EXCEPT ![p] = x] /\ loop'[p] = x
  BY Types DEF Wake
<1>2. x \in Loop /\ x.at = "drain"
  BY <1>0 DEF Loop, Fresher
<1>3. LoopFine(p)'
  BY <1>1, <1>2 DEF LoopFine, RisesFor, Napping
<1> HIDE DEF x
<1> QED  BY <1>0, <1>1, <1>2, <1>3, Types, LoopStays DEF Wake

LEMMA ParkStays ==
    ASSUME Fine, NEW p \in Scheduler, Park(p), faults' \in 0 .. MaxFaults
    PROVE  Fine'
<1> DEFINE until == Lapse(now + Max(Wait(p), 1))
           x == [loop[p] EXCEPT !.at = "park", !.since = now, !.wake = until]
<1>0. loop[p] \in Loop /\ loop[p].at = "try" /\ LoopFine(p)
  BY Types DEF Park, Fine
<1>1. loop' = [loop EXCEPT ![p] = x] /\ loop'[p] = x
  BY Types DEF Park
<1>2. until \in Nat /\ until <= now + Max(Wait(p), 1) /\ Wait(p) \in Nat
  BY Types, WaitIsShort, Numbers DEF Lapse, Min, Max
<1> HIDE DEF until
<1>3. x \in Loop /\ x.at = "park" /\ x.saw = loop[p].saw /\ x.wake = until /\ x.since = now
  BY <1>0, <1>2, Types DEF Loop
<1>4. ASSUME NEW i \in Instance
      PROVE  RisesFor(p, i)'
  <2>1. SUFFICES ASSUME ~loop[p].saw, status[i] = "active", Armed(i)
                 PROVE  until <= Max(wait[i].due, now + 1)
    BY <1>1, <1>3 DEF RisesFor, Napping, Park, Armed, rows
  <2>2. ~Deferred(p, i)
    BY <1>0, <2>1 DEF LoopFine, Deferrals
  <2>3. Wait(p) <= Max(wait[i].due - now, 0)
    BY <2>1, <2>2, Types, WaitIsShort DEF Eligible
  <2> QED  BY <1>2, <2>3, Types DEF Max
<1>5. LoopFine(p)'
  BY <1>1, <1>3, <1>4 DEF LoopFine
<1> HIDE DEF x
<1> QED  BY <1>0, <1>1, <1>3, <1>5, Types, LoopStays DEF Park

LEMMA PassFailsStays ==
    ASSUME Fine, NEW p \in Scheduler, PassFails(p)
    PROVE  Fine'
<1> DEFINE until == Lapse(now + 1)
           x == [loop[p] EXCEPT !.at = "park", !.since = now, !.wake = until]
<1>0. loop[p] \in Loop /\ loop[p].at = "drain"
  BY Types DEF PassFails
<1>1. loop' = [loop EXCEPT ![p] = x] /\ loop'[p] = x
  BY Types DEF PassFails
<1>2. until \in Nat /\ until <= now + 1
  BY Types, Numbers DEF Lapse, Min
<1> HIDE DEF until
<1>3. x \in Loop /\ x.at = "park" /\ x.wake = until /\ x.since = now
  BY <1>0, <1>2, Types DEF Loop
<1>4. \A i \in Instance : until <= Max(wait[i].due, now + 1)
  BY <1>2, Types DEF Max
<1> HIDE DEF x
<1>5. LoopFine(p)'
  <2>1. \A i \in Instance : wait'[i] = wait[i]
    BY DEF PassFails, rows
  <2>2. loop'[p].wake = until /\ loop'[p].since = now /\ loop'[p].at = "park"
    BY <1>1, <1>3
  <2>3. \A i \in Instance : RisesFor(p, i)'
    BY <1>4, <2>1, <2>2 DEF RisesFor
  <2> QED  BY <2>2, <2>3 DEF LoopFine
<1>6. faults' \in 0 .. MaxFaults
  BY Types, Numbers DEF PassFails
<1> QED  BY <1>0, <1>1, <1>3, <1>5, <1>6, Types, LoopStays DEF PassFails

LEMMA BreakStays ==
    ASSUME Fine, NEW p \in Scheduler, Break(p)
    PROVE  Fine'
<1>0. loop[p] \in Loop /\ LoopFine(p) /\ faults' \in 0 .. MaxFaults
  BY Types, Numbers DEF Break, Fine
<1>1. PICK to \in {"none", "patched"} :
        loop' = [loop EXCEPT ![p].link = to, ![p].woken = FALSE,
                             ![p].at = IF to = "none" /\ @ = "park" THEN "drain" ELSE @]
  BY DEF Break
<1> DEFINE x == [loop[p] EXCEPT !.link = to, !.woken = FALSE,
                                !.at = IF to = "none" /\ @ = "park" THEN "drain" ELSE @]
<1>2. loop' = [loop EXCEPT ![p] = x] /\ loop'[p] = x
  BY <1>1, Types
<1>3. /\ x \in Loop /\ x.link # "up" /\ x.of = loop[p].of /\ x.start = loop[p].start
      /\ x.saw = loop[p].saw /\ x.at \in {loop[p].at, "drain"}
      /\ x.at = "hold" <=> loop[p].at = "hold"
  BY <1>0 DEF Loop
<1> HIDE DEF x
<1>4. Deferrals(p)' = Deferrals(p)
  BY DEF Deferrals, Deferred, Break
<1>5. LoopFine(p)'
  BY <1>0, <1>2, <1>3, <1>4 DEF LoopFine, RisesFor, Napping
<1> QED  BY <1>0, <1>2, <1>3, <1>5, Types, LoopStays DEF Break

-----------------------------------------------------------------------------
(* Rows taken, and given back without a commit.                            *)

LEMMA BeginStays ==
    ASSUME Fine, NEW p \in Scheduler, NEW i \in Instance, NEW no \in Nat, Begin(p, <<i, no>>)
    PROVE  Fine'
<1> DEFINE x == [loop[p] EXCEPT !.at = "hold", !.todo = @ \ {<<i, no>>},
                                !.of = <<i, no>>, !.start = now]
<1>0. loop[p] \in Loop /\ loop[p].at = "try" /\ LoopFine(p)
  BY Types DEF Begin, Fine
<1>1. loop' = [loop EXCEPT ![p] = x] /\ loop'[p] = x /\ holder[i] = "none"
      /\ holder' = [holder EXCEPT ![i] = p]
  BY Types DEF Begin
<1>2. /\ x \in Loop /\ x.at = "hold" /\ x.of = <<i, no>> /\ x.start = now
      /\ x.saw = loop[p].saw
  BY <1>0, Types DEF Loop
<1> HIDE DEF x
<1>3. LocksFine'
  <2>1. /\ loop'[p].of \in Instance \X Nat /\ loop'[p].of[1] = i /\ loop'[p].start <= now
        /\ loop' = [loop EXCEPT ![p] = loop'[p]]
        /\ loop'[p] \in Loop /\ loop'[p].at = "hold" /\ loop[p].at # "hold"
    BY <1>0, <1>1, <1>2, Types
  <2>2. UNCHANGED <<now, client, deferral, faults>>
    BY DEF Begin
  <2> QED  BY <1>1, <2>1, <2>2, LoopTakes DEF Fine
<1>4. Deferrals(p)' = Deferrals(p)
  BY DEF Deferrals, Deferred, Begin
<1>5. LoopFine(p)'
  BY <1>0, <1>1, <1>2, <1>4 DEF LoopFine, RisesFor, Napping
<1>6. \A q \in Scheduler \ {p} : loop'[q] = loop[q] /\ deferral'[q] = deferral[q]
  BY <1>1, Types DEF Begin
<1>7. \A q \in Scheduler : LoopFine(q)'
  BY <1>5, <1>6, QuietLoops DEF Begin, Fine
<1> QED  BY <1>3, <1>7, QuietRows, QuietClients DEF Begin, Fine

(* Who holds a row in a loop that is at "hold".                            *)
LEMMA HoldsOne ==
    ASSUME Fine, NEW p \in Scheduler, loop[p].at = "hold"
    PROVE  /\ loop[p].of \in Instance \X Nat /\ loop[p].start \in Nat /\ loop[p].start <= now
           /\ loop[p].of[1] \in Instance /\ holder[loop[p].of[1]] = p
           /\ [holder EXCEPT ![loop[p].of[1]] = "none"]
                = [i \in Instance |-> IF holder[i] = p THEN "none" ELSE holder[i]]
<1>1. /\ loop[p].of \in Instance \X Nat /\ loop[p].start \in Nat /\ loop[p].start <= now
      /\ \A i \in Instance : holder[i] = p <=> loop[p].of[1] = i
  BY Types DEF Fine, LocksFine, LoopHolds, Loop
<1>2. loop[p].of[1] \in Instance
  BY <1>1
<1>3. \A i \in Instance : [holder EXCEPT ![loop[p].of[1]] = "none"][i]
                           = IF holder[i] = p THEN "none" ELSE holder[i]
  BY <1>1, <1>2, Types DEF LocksTyped
<1>4. [holder EXCEPT ![loop[p].of[1]] = "none"]
        = [i \in Instance |-> [holder EXCEPT ![loop[p].of[1]] = "none"][i]]
  BY Types DEF LocksTyped
<1> QED  BY <1>1, <1>2, <1>3, <1>4

(* One loop gives its row back, and commits nothing.                       *)
LEMMA LoopLetsGo ==
    ASSUME Fine, NEW p \in Scheduler,
           holder' = [i \in Instance |-> IF holder[i] = p THEN "none" ELSE holder[i]],
           loop' = [loop EXCEPT ![p] = loop'[p]], loop'[p] \in Loop, loop'[p].at # "hold",
           deferral' \in [Scheduler -> [Instance -> Deferral]], faults' \in 0 .. MaxFaults,
           \A q \in Scheduler \ {p} : deferral'[q] = deferral[q],
           UNCHANGED <<now, rows, client>>, LoopFine(p)'
    PROVE  Fine'
<1>1. loop' \in [Scheduler -> Loop] /\ \A q \in Scheduler \ {p} : loop'[q] = loop[q]
  BY Types
<1>2. LocksFine'
  BY <1>1, LoopGives DEF Fine
<1>3. \A q \in Scheduler : LoopFine(q)'
  BY <1>1, QuietLoops DEF Fine
<1> QED  BY <1>2, <1>3, QuietRows, QuietClients DEF Fine

LEMMA ResolvedStays ==
    ASSUME Fine, NEW p \in Scheduler, Resolved(p)
    PROVE  Fine'
<1> DEFINE x == [loop[p] EXCEPT !.at = "try", !.of = << >>, !.start = 0]
<1>0. loop[p] \in Loop /\ loop[p].at = "hold" /\ LoopFine(p)
  BY Types DEF Resolved, Fine
<1>1. loop' = [loop EXCEPT ![p] = x] /\ loop'[p] = x
  BY Types DEF Resolved, Back
<1>2. x \in Loop /\ x.at = "try" /\ x.saw = loop[p].saw
  BY <1>0 DEF Loop
<1> HIDE DEF x
<1>3. Deferrals(p)' = Deferrals(p)
  BY DEF Deferrals, Deferred, Resolved
<1>4. LoopFine(p)'
  BY <1>0, <1>1, <1>2, <1>3 DEF LoopFine, RisesFor, Napping
<1> QED
  BY <1>0, <1>1, <1>2, <1>4, Types, HoldsOne, LoopLetsGo DEF Resolved, Releases

LEMMA FireFailsStays ==
    ASSUME Fine, NEW p \in Scheduler, FireFails(p)
    PROVE  Fine'
<1> DEFINE x == [loop[p] EXCEPT !.at = "try", !.of = << >>, !.start = 0, !.saw = TRUE]
<1>0. loop[p] \in Loop /\ loop[p].at = "hold" /\ faults' \in 0 .. MaxFaults
  BY Types, Numbers DEF FireFails
<1>1. loop' = [loop EXCEPT ![p] = x] /\ loop'[p] = x
  BY Types DEF FireFails, Back
<1>2. x \in Loop /\ x.at = "try" /\ x.saw
  BY <1>0 DEF Loop
<1> HIDE DEF x
<1>3. LoopFine(p)'
  BY <1>1, <1>2 DEF LoopFine, RisesFor, Napping
<1>4. /\ deferral' \in [Scheduler -> [Instance -> Deferral]]
      /\ \A q \in Scheduler \ {p} : deferral'[q] = deferral[q]
  BY <1>0, HoldsOne, Types, DeferTyped DEF FireFails
<1> QED
  BY <1>0, <1>1, <1>2, <1>3, <1>4, HoldsOne, LoopLetsGo DEF FireFails, Releases

LEMMA CrashStays ==
    ASSUME Fine, NEW p \in Scheduler, Crash(p)
    PROVE  Fine'
<1>1. loop' = [loop EXCEPT ![p] = Fresher] /\ loop'[p] = Fresher /\ faults' \in 0 .. MaxFaults
  BY Types, Numbers DEF Crash
<1>2. Fresher \in Loop /\ Fresher.at = "drain"
  BY DEF Fresher, Loop
<1>3. LoopFine(p)'
  BY <1>1, <1>2 DEF LoopFine, RisesFor, Napping
<1>4. /\ deferral' \in [Scheduler -> [Instance -> Deferral]]
      /\ \A q \in Scheduler \ {p} : deferral'[q] = deferral[q]
  <2>1. NoDeferral \in Deferral
    BY DEF NoDeferral, Deferral
  <2> QED  BY <2>1, Types DEF Crash
<1> QED
  BY <1>1, <1>2, <1>3, <1>4, LoopLetsGo DEF Crash

(* A client goes on, and nothing is committed.                             *)
LEMMA ClientStays ==
    ASSUME Fine, NEW c \in Client, client' = [client EXCEPT ![c] = client'[c]],
           UNCHANGED <<now, rows, loop, deferral>>, LocksFine', ClientFine(c)'
    PROVE  Fine'
<1>1. \A q \in Client \ {c} : client'[q] = client[q]
  BY Types
<1>2. \A q \in Client \ {c} : ClientFine(q)'
  BY <1>1 DEF Fine, ClientFine, rows
<1>3. \A p \in Scheduler : LoopFine(p)'
  BY DEF Fine, LoopFine, Deferrals, Deferred, RisesFor, Napping, Armed, rows
<1> QED  BY <1>2, <1>3, QuietRows DEF Fine

(* What a lookup without a lock finds.                                     *)
LEMMA MatchesAreWaits ==
    ASSUME Fine, NEW k, NEW m \in Matches(k)
    PROVE  /\ m \in Instance \X Nat /\ m[1] \in Instance /\ m[2] = wait[m[1]].no
           /\ wait[m[1]].kind = "message" /\ status[m[1]] = "active"
           /\ m[2] >= 1 /\ m[2] <= made[m[1]]
<1>1. PICK i \in Instance : m = <<i, wait[i].no>> /\ wait[i].kind = "message"
                            /\ status[i] = "active"
  BY DEF Matches
<1>2. wait[i].no \in Nat /\ wait[i].no >= 1 /\ wait[i].no <= made[i]
  BY <1>1, Types DEF WaitFine
<1> QED  BY <1>1, <1>2

LEMMA MatchStays ==
    ASSUME Fine, NEW c \in Client, NEW k, Match(c, k)
    PROVE  Fine'
<1>1. PICK m \in Matches(k) : Goes(c, "matched", m, 0)
  BY DEF Match
<1> DEFINE x == [at |-> "matched", of |-> m, start |-> 0]
<1>2. client' = [client EXCEPT ![c] = x] /\ client'[c] = x /\ client[c].at = "idle"
  BY <1>1, Types DEF Goes, Match
<1>3. x \in Work /\ m \in Instance \X Nat /\ x.of = m /\ x.at = "matched"
  BY MatchesAreWaits DEF Work
<1> HIDE DEF x
<1>4. LocksFine'
  <2>1. /\ client' = [client EXCEPT ![c] = client'[c]] /\ client'[c] \in Work
        /\ client[c].at \notin Working /\ client'[c].at \notin Working
        /\ client'[c].of \in Instance \X Nat
    BY <1>2, <1>3 DEF Working
  <2>2. UNCHANGED <<now, holder, loop, deferral, faults>>
    BY DEF Match
  <2> QED  BY <2>1, <2>2, ClientTurns DEF Fine
<1>5. ClientFine(c)'
  BY <1>2, <1>3, MatchesAreWaits DEF ClientFine, Match, rows
<1> QED  BY <1>2, <1>4, <1>5, ClientStays DEF Match

LEMMA RefuseStays ==
    ASSUME Fine, NEW c \in Client, Refuse(c)
    PROVE  Fine'
<1>1. client' = [client EXCEPT ![c] = Idle] /\ client'[c] = Idle /\ client[c].at = "matched"
  BY Types DEF Rests, Refuse
<1>2. Idle \in Work /\ Idle.at = "idle"
  BY DEF Idle, Work
<1>3. LocksFine'
  BY <1>1, <1>2, ClientTurns DEF Refuse, Fine, Working
<1>4. ClientFine(c)'
  BY <1>1, <1>2 DEF ClientFine
<1> QED  BY <1>1, <1>3, <1>4, ClientStays DEF Refuse

LEMMA RollbackStays ==
    ASSUME Fine, NEW c \in Client, Rollback(c)
    PROVE  Fine'
<1>1. client' = [client EXCEPT ![c] = Idle] /\ client'[c] = Idle /\ client[c].at \in Working
  BY Types DEF Rests, Rollback, Working
<1>2. Idle.at = "idle" /\ client[c].of \in Instance \X Nat
  BY <1>1, Types DEF Idle, Fine, LocksFine, ClientHolds, Working
<1>3. LocksFine'
  BY <1>1, <1>2, Types, ClientGives DEF Rollback, Fine
<1>4. ClientFine(c)'
  BY <1>1, <1>2 DEF ClientFine
<1> QED  BY <1>1, <1>3, <1>4, ClientStays DEF Rollback

(* Under the lock, a client finds a message's wait of an active instance.  *)
LEMMA FoundIsOpen ==
    ASSUME Fine, NEW c \in Client, client[c].at = "matched", NEW m \in Found(c)
    PROVE  /\ m \in Instance \X Nat /\ m[1] = client[c].of[1] /\ status[m[1]] = "active"
           /\ wait[m[1]].kind = "message" /\ wait[m[1]].no = m[2]
<1> DEFINE f == client[c].of
<1>1. f \in Instance \X Nat /\ ClientFine(c) /\ status[f[1]] = "active"
  BY DEF Fine, LocksFine, ClientHolds, Found
<1>2. CASE wait[f[1]].no = f[2]
  <2>1. m = f
    BY <1>1, <1>2 DEF Found
  <2> QED  BY <1>1, <1>2, <2>1 DEF ClientFine
<1>3. CASE wait[f[1]].no # f[2]
  <2>1. m \in Matches(KeyOf[f[1]]) /\ m[1] = f[1]
    BY <1>1, <1>3 DEF Found
  <2> QED  BY <2>1, MatchesAreWaits
<1> QED  BY <1>2, <1>3

LEMMA TakeStays ==
    ASSUME Fine, NEW c \in Client, Take(c)
    PROVE  Fine'
<1>1. PICK m \in Found(c) : Goes(c, "delivers", m, now)
  BY DEF Take
<1> DEFINE x == [at |-> "delivers", of |-> m, start |-> now]
<1>2. client' = [client EXCEPT ![c] = x] /\ client'[c] = x /\ client[c].at = "matched"
      /\ Locked(c, client[c].of[1])
  BY <1>1, Types DEF Goes, Take
<1>3. /\ m \in Instance \X Nat /\ m[1] = client[c].of[1] /\ status[m[1]] = "active"
      /\ wait[m[1]].kind = "message" /\ wait[m[1]].no = m[2] /\ x \in Work /\ m[1] \in Instance
  BY <1>2, FoundIsOpen, Types DEF Work
<1>4. LocksFine'
  <2>1. /\ client' = [client EXCEPT ![c] = client'[c]] /\ client'[c] \in Work
        /\ client[c].at \notin Working /\ client'[c].at \in Working
        /\ client'[c].of \in Instance \X Nat /\ client'[c].of[1] = client[c].of[1]
        /\ client'[c].start <= now /\ client[c].of[1] \in Instance
    BY <1>2, <1>3, Types DEF Working
  <2>2. UNCHANGED <<now, loop, deferral, faults>>
    BY DEF Take
  <2> QED  BY <1>2, <2>1, <2>2, ClientTakes DEF Fine
<1>5. ClientFine(c)'
  BY <1>2, <1>3 DEF ClientFine, Take, rows
<1> QED  BY <1>2, <1>4, <1>5, ClientStays DEF Take

LEMMA HoldStays ==
    ASSUME Fine, NEW c \in Client, NEW i \in Instance, Hold(c, i)
    PROVE  Fine'
<1> DEFINE x == [at |-> IF status[i] = "active" THEN "steps" ELSE "mends",
                 of |-> <<i, 0>>, start |-> now]
<1>1. client' = [client EXCEPT ![c] = x] /\ client'[c] = x /\ client[c].at = "idle"
      /\ Locked(c, i)
  BY Types DEF Goes, Hold
<1>2. x \in Work /\ x.of[1] = i /\ x.at \in Working /\ x.start = now
  BY Types DEF Work, Working
<1>3. LocksFine'
  <2>1. /\ client' = [client EXCEPT ![c] = client'[c]] /\ client'[c] \in Work
        /\ client[c].at \notin Working /\ client'[c].at \in Working
        /\ client'[c].of \in Instance \X Nat /\ client'[c].of[1] = i
        /\ client'[c].start <= now /\ i \in Instance
    BY <1>1, <1>2, Types DEF Working
  <2>2. UNCHANGED <<now, loop, deferral, faults>>
    BY DEF Hold
  <2> QED  BY <1>1, <2>1, <2>2, ClientTakes DEF Fine
<1>4. ClientFine(c)'
  BY <1>1, Types DEF ClientFine, Hold, rows
<1> QED  BY <1>1, <1>3, <1>4, ClientStays DEF Hold

-----------------------------------------------------------------------------
(* Commits.                                                                *)

(* No loop naps through a commit on i that it should have been told of.    *)
Tolled(i) ==
    \A q \in Scheduler :
        \/ loop'[q].at = "drain"
        \/ /\ loop'[q].at = loop[q].at /\ loop'[q].saw = loop[q].saw
           /\ loop'[q].link = loop[q].link /\ loop'[q].since = loop[q].since
           /\ loop'[q].wake = loop[q].wake /\ deferral'[q] = deferral[q]
           /\ \/ loop'[q].link = "up" => loop'[q].woken
              \/ /\ loop'[q].woken = loop[q].woken
                 /\ status'[i] = "active" /\ Armed(i)'
                        => wait'[i] = wait[i] /\ status[i] = "active"

LEMMA LoopsHear ==
    ASSUME Fine, NEW i \in Instance, Moved(i), Tolled(i)
    PROVE  \A q \in Scheduler : LoopFine(q)'
<1> SUFFICES ASSUME NEW q \in Scheduler PROVE LoopFine(q)'
  OBVIOUS
<1>1. LoopFine(q)
  BY DEF Fine
<1>2. CASE loop'[q].at = "drain"
  BY <1>2 DEF LoopFine, RisesFor, Napping
<1>3. CASE /\ loop'[q].at # "drain"
           /\ loop'[q].at = loop[q].at /\ loop'[q].saw = loop[q].saw
           /\ loop'[q].link = loop[q].link /\ loop'[q].since = loop[q].since
           /\ loop'[q].wake = loop[q].wake /\ deferral'[q] = deferral[q]
  <2>1. Deferrals(q)' = Deferrals(q)
    BY <1>3 DEF Deferrals, Deferred, Moved
  <2>2. ASSUME NEW j \in Instance \ {i}
        PROVE  RisesFor(q, j)'
    <3>1. wait'[j] = wait[j] /\ status'[j] = status[j] /\ now' = now
      BY DEF Moved
    <3>2. CASE loop'[q].woken = loop[q].woken
      BY <1>1, <1>3, <3>1, <3>2 DEF LoopFine, RisesFor, Napping, Armed
    <3>3. CASE loop'[q].link = "up" => loop'[q].woken
      BY <3>3 DEF RisesFor, Napping
    <3> QED  BY <1>3, <3>2, <3>3 DEF Tolled
  <2>3. RisesFor(q, i)'
    <3>1. CASE loop'[q].link = "up" => loop'[q].woken
      BY <3>1 DEF RisesFor, Napping
    <3>2. CASE /\ loop'[q].woken = loop[q].woken
               /\ status'[i] = "active" /\ Armed(i)' => wait'[i] = wait[i] /\ status[i] = "active"
      BY <1>1, <1>3, <3>2 DEF LoopFine, RisesFor, Napping, Armed, Moved
    <3> QED  BY <1>3, <3>1, <3>2 DEF Tolled
  <2> QED  BY <1>1, <1>3, <2>1, <2>2, <2>3 DEF LoopFine
<1> QED  BY <1>2, <1>3 DEF Tolled

(* The others find what they found: who holds another row is not concerned,*)
(* and who holds none relied on little.                                    *)
LEMMA ClientsFollow ==
    ASSUME Fine, NEW i \in Instance, Moved(i), NEW h, holder[i] = h, RowsFine',
           \A c \in Client \ {h} : client'[c] = client[c],
           h \in Client => client'[h] = Idle
    PROVE  \A c \in Client : ClientFine(c)'
<1> SUFFICES ASSUME NEW c \in Client PROVE ClientFine(c)'
  OBVIOUS
<1>1. CASE c = h
  BY <1>1 DEF ClientFine, Idle
<1>2. CASE c # h
  <2>1. client'[c] = client[c] /\ ClientFine(c)
    BY <1>2 DEF Fine
  <2>2. client[c].at # "idle" => client[c].of[1] \in Instance /\ client[c].of[2] \in Nat
    BY DEF Fine, LocksFine, ClientHolds
  <2>3. CASE client[c].at = "idle"
    BY <2>1, <2>3 DEF ClientFine
  <2>4. CASE client[c].at # "idle" /\ client[c].of[1] # i
    BY <2>1, <2>2, <2>4 DEF ClientFine, Moved
  <2>5. CASE client[c].at # "idle" /\ client[c].of[1] = i
    <3>1. client[c].at \notin Working
      BY <1>2, <2>5 DEF Fine, LocksFine, ClientHolds
    <3>2. client[c].at = "matched"
      BY <2>5, <3>1, Types DEF Work, Working
    <3>3. /\ client[c].of[2] >= 1 /\ client[c].of[2] <= made[i]
          /\ wait[i].no = client[c].of[2] => wait[i].kind = "message"
      BY <2>1, <2>5, <3>2 DEF ClientFine
    <3>4. /\ made[i] \in Nat /\ made'[i] \in Nat /\ made'[i] >= made[i] /\ wait'[i].no \in Nat
      BY Types DEF Moved, RowsFine, RowsTyped, WaitRow
    <3>5. wait'[i].no = client[c].of[2] => wait'[i].kind = "message"
      BY <2>2, <2>5, <3>3, <3>4 DEF Moved
    <3> QED  BY <2>1, <2>2, <2>5, <3>2, <3>3, <3>4, <3>5 DEF ClientFine
  <2> QED  BY <2>3, <2>4, <2>5
<1> QED  BY <1>1, <1>2

LEMMA FireStays ==
    ASSUME Fine, NEW p \in Scheduler, Fire(p)
    PROVE  Fine'
<1>0. PICK i \in Instance : i = loop[p].of[1]
  BY HoldsOne DEF Fire
<1> DEFINE l == [Back(loop, p, "drain") EXCEPT ![p].todo = {}, ![p].saw = FALSE]
           x == [loop[p] EXCEPT !.at = "drain", !.of = << >>, !.start = 0, !.todo = {}, !.saw = FALSE]
<1>1. /\ loop[p].at = "hold" /\ holder[i] = p /\ loop[p].start \in Nat
      /\ loop[p].start <= now /\ now \in Nat /\ UNCHANGED <<now, client, faults>>
      /\ holder' = [j \in Instance |-> IF holder[j] = p THEN "none" ELSE holder[j]]
  BY <1>0, HoldsOne, Types DEF Fire, Releases
<1>2. status[i] = "active" /\ Armed(i) /\ wait[i].due <= loop[p].start
  BY <1>0 DEF Fire, Actionable, StillArmed, Due
<1>3. PICK at \in loop[p].start .. now : Settle(i, at, Fired(i, at)) /\ Lives(i, at)
  BY <1>0 DEF Fire
<1>4. at \in 0 .. now
  BY <1>1
<1>5. /\ RowsFine' /\ Moved(i) /\ (~Tells(i) /\ Armed(i)' => wait'[i] = wait[i])
  BY <1>1, <1>2, <1>3, <1>4, SettleMoves DEF Fine
<1>6. ClearDeferral(p, i) /\ loop' = IF Tells(i) THEN Notify(l) ELSE l
  BY <1>0 DEF Fire
<1>7. /\ deferral' \in [Scheduler -> [Instance -> Deferral]]
      /\ \A q \in Scheduler \ {p} : deferral'[q] = deferral[q]
  BY <1>1, <1>6, Types, DeferTyped
<1>8. l = [loop EXCEPT ![p] = x]
  BY Types DEF Back
<1>9. x \in Loop /\ x.at = "drain"
  BY Types DEF Loop
<1> HIDE DEF x, l
<1>10. l \in [Scheduler -> Loop] /\ l[p].at = "drain" /\ \A q \in Scheduler \ {p} : l[q] = loop[q]
  BY <1>8, <1>9, Types
<1>11. loop' \in [Scheduler -> Loop] /\ loop'[p].at = "drain"
       /\ \A q \in Scheduler \ {p} :
            /\ loop'[q].at = loop[q].at /\ loop'[q].of = loop[q].of
            /\ loop'[q].start = loop[q].start /\ loop'[q].saw = loop[q].saw
            /\ loop'[q].link = loop[q].link /\ loop'[q].since = loop[q].since
            /\ loop'[q].wake = loop[q].wake
            /\ Tells(i) => (loop'[q].link = "up" => loop'[q].woken)
            /\ ~Tells(i) => loop'[q].woken = loop[q].woken
  <2>1. CASE Tells(i)
    BY <1>6, <1>10, <2>1, NotifyKeeps
  <2>2. CASE ~Tells(i)
    BY <1>6, <1>10, <2>2
  <2> QED  BY <2>1, <2>2
<1>12. Tolled(i)
  BY <1>2, <1>5, <1>7, <1>11 DEF Tolled
<1>13. \A q \in Scheduler : LoopFine(q)'
  BY <1>1, <1>5, <1>12, LoopsHear
<1>14. LocksFine'
  BY <1>1, <1>7, <1>11, Types, LoopGives DEF Fine
<1>15. \A c \in Client : ClientFine(c)'
  BY <1>1, <1>5, ClientsFollow, HoldersDiffer
<1> QED  BY <1>5, <1>13, <1>14, <1>15 DEF Fine

(* A client's commit: it has the row, moved the rows as a step may, and    *)
(* told the schedulers, or had nothing to tell them.                       *)
LEMMA CommitStays ==
    ASSUME Fine, NEW c \in Client, client[c].at \in Working, NEW told, told \in BOOLEAN,
           NEW i \in Instance, i = client[c].of[1],
           RowsFine', Moved(i), Commits(c, i, told), UNCHANGED now,
           ~told => (status'[i] = "active" /\ Armed(i)'
                       => wait'[i] = wait[i] /\ status[i] = "active")
    PROVE  Fine'
<1>1. holder[i] = c
  BY DEF Fine, LocksFine, ClientHolds, Working
<1>2. /\ RowsFine' /\ Moved(i) /\ Releases(i) /\ Rests(c) /\ UNCHANGED <<now, deferral, faults>>
      /\ loop' = IF told THEN Notify(loop) ELSE loop
      /\ ~told => (status'[i] = "active" /\ Armed(i)'
                     => wait'[i] = wait[i] /\ status[i] = "active")
  BY DEF Commits
<1>3. loop' \in [Scheduler -> Loop]
      /\ \A q \in Scheduler :
            /\ loop'[q].at = loop[q].at /\ loop'[q].of = loop[q].of
            /\ loop'[q].start = loop[q].start /\ loop'[q].saw = loop[q].saw
            /\ loop'[q].link = loop[q].link /\ loop'[q].since = loop[q].since
            /\ loop'[q].wake = loop[q].wake
            /\ told => (loop'[q].link = "up" => loop'[q].woken)
            /\ ~told => loop'[q].woken = loop[q].woken
  <2>1. CASE told
    BY <1>2, <2>1, NotifyKeeps, Types
  <2>2. CASE ~told
    BY <1>2, <2>2, Types
  <2> QED  BY <2>1, <2>2
<1>4. Tolled(i)
  BY <1>2, <1>3 DEF Tolled
<1>5. \A q \in Scheduler : LoopFine(q)'
  BY <1>1, <1>2, <1>4, LoopsHear
<1>6. LocksFine'
  BY <1>1, <1>2, <1>3, ClientGives DEF Fine
<1>7. client'[c] = Idle /\ \A d \in Client \ {c} : client'[d] = client[d]
  BY <1>2, Types DEF Rests
<1>8. \A d \in Client : ClientFine(d)'
  BY <1>1, <1>2, <1>7, ClientsFollow
<1> QED  BY <1>2, <1>5, <1>6, <1>8 DEF Fine

LEMMA AtWork ==
    ASSUME Fine, NEW c \in Client, client[c].at \in Working
    PROVE  /\ client[c].of[1] \in Instance /\ holder[client[c].of[1]] = c
           /\ client[c].start \in Nat /\ client[c].start <= now /\ ClientFine(c)
BY Types DEF Fine, LocksFine, ClientHolds, Working, Work

LEMMA StepStays ==
    ASSUME Fine, NEW c \in Client, Deliver(c) \/ StepOther(c) \/ FireElsewhere(c)
    PROVE  /\ Fine'
           /\ \A i \in Instance : i = client[c].of[1] => Moved(i)
<1>0. client[c].at \in Working
  BY DEF Deliver, StepOther, FireElsewhere, Working
<1> SUFFICES ASSUME NEW i \in Instance, i = client[c].of[1] PROVE Fine' /\ Moved(i)
  BY <1>0, AtWork
<1>1. client[c].at \in Working /\ client[c].at \in {"delivers", "steps"}
      /\ Commits(c, i, Tells(i)) /\ UNCHANGED now
  BY DEF Deliver, StepOther, FireElsewhere, Working, Commits
<1>2. status[i] = "active" /\ i \in Instance /\ client[c].start \in Nat /\ client[c].start <= now
      /\ now \in Nat
  BY <1>1, AtWork, Types DEF ClientFine
<1>3. PICK at, w :
        /\ at \in client[c].start .. now
        /\ Settle(i, at, w) /\ Lives(i, at)
        /\ w \in {NoWait, wait[i]} \/ (w = Fired(i, at) /\ Armed(i))
  BY DEF Deliver, StepOther, FireElsewhere, Due
<1>4. at \in 0 .. now
  BY <1>2, <1>3
<1>5. RowsFine' /\ Moved(i) /\ (~Tells(i) /\ Armed(i)' => wait'[i] = wait[i])
  BY <1>1, <1>2, <1>3, <1>4, SettleMoves DEF Fine
<1>6. Tells(i) \in BOOLEAN
  BY DEF Tells
<1> QED  BY <1>1, <1>2, <1>5, <1>6, CommitStays

LEMMA MendStays ==
    ASSUME Fine, NEW c \in Client, Mend(c)
    PROVE  /\ Fine'
           /\ \A i \in Instance : i = client[c].of[1] => Moved(i)
<1>0. client[c].at \in Working
  BY DEF Mend, Working
<1> SUFFICES ASSUME NEW i \in Instance, i = client[c].of[1] PROVE Fine' /\ Moved(i)
  BY <1>0, AtWork
<1>1. client[c].at \in Working /\ client[c].at = "mends" /\ Commits(c, i, TRUE) /\ UNCHANGED now
  BY DEF Mend, Working, Commits
<1>2. /\ status[i] = "failed" /\ i \in Instance /\ client[c].start \in Nat /\ client[c].start <= now
      /\ frozenAt[i] <= client[c].start /\ now \in Nat /\ frozenAt[i] \in Nat
  BY <1>1, AtWork, Types DEF ClientFine
<1>3. PICK at \in client[c].start .. now :
        /\ wait' = [wait EXCEPT ![i] = Thawed(i, at)]
        /\ lived' = [lived EXCEPT ![i] =
                        IF wait[i].kind = "duration" THEN @ + now - at ELSE 0]
  BY DEF Mend
<1>4. at \in 0 .. now /\ frozenAt[i] <= at
  BY <1>2
<1>5. status' = [status EXCEPT ![i] = "active"] /\ frozenAt' = [frozenAt EXCEPT ![i] = 0]
      /\ UNCHANGED made
  BY DEF Mend
<1>6. RowsFine' /\ Moved(i)
  BY <1>1, <1>2, <1>3, <1>4, <1>5, MendMoves DEF Fine
<1> QED  BY <1>1, <1>6, CommitStays

LEMMA TickStays ==
    ASSUME Fine, Tick
    PROVE  Fine'
<1>1. now \in Nat /\ now' = now + 1
      /\ UNCHANGED <<status, frozenAt, wait, made, holder, deferral, loop, client, faults>>
  BY Types DEF Tick
<1>2. LocksTyped'
  BY <1>1 DEF Fine, LocksFine, LocksTyped
<1>3. LocksFine'
  <2>1. \A p \in Scheduler : loop[p].start \in Nat
    BY Types DEF Loop
  <2>2. \A c \in Client : client[c].start \in Nat
    BY Types DEF Work
  <2>3. \A p \in Scheduler : LoopHolds(p)'
    BY <1>1, <2>1 DEF Fine, LocksFine, LoopHolds
  <2>4. \A c \in Client : ClientHolds(c)'
    BY <1>1, <2>2 DEF Fine, LocksFine, ClientHolds
  <2> QED  BY <1>2, <2>3, <2>4 DEF LocksFine
<1>4. \A c \in Client : ClientFine(c)'
  BY <1>1 DEF Fine, ClientFine
<1>5. ASSUME NEW p \in Scheduler
      PROVE  LoopFine(p)'
  <2>1. LoopFine(p) /\ loop[p].wake \in Nat
    BY Types DEF Fine, Loop
  <2>2. \A i \in Instance : Deferred(p, i)' => Deferred(p, i)
    BY <1>1, Types DEF Deferred, Deferral
  <2>3. \A i \in Instance : RisesFor(p, i)'
    BY <1>1, <2>1 DEF LoopFine, RisesFor, Napping, Armed
  <2> QED  BY <1>1, <2>1, <2>2, <2>3 DEF LoopFine, Deferrals
<1> QED  BY <1>3, <1>4, <1>5, TickMoves DEF Fine

-----------------------------------------------------------------------------
LEMMA InitFine == Init => Fine
<1> SUFFICES ASSUME Init PROVE Fine
  OBVIOUS
<1>1. Fresher \in Loop /\ Fresher.at = "drain" /\ Idle \in Work /\ Idle.at = "idle"
      /\ NoDeferral \in Deferral
  BY DEF Fresher, Loop, Idle, Work, NoDeferral, Deferral
<1>2. /\ \A p \in Scheduler : loop[p] = Fresher
      /\ \A c \in Client : client[c] = Idle
      /\ \A i \in Instance : holder[i] = "none"
  BY DEF Init
<1>3. LocksTyped
  BY <1>1, Numbers DEF Init, LocksTyped
<1>4. \A p \in Scheduler : LoopHolds(p)
  BY <1>1, <1>2, HoldersDiffer DEF LoopHolds
<1>5. \A c \in Client : ClientHolds(c)
  BY <1>1, <1>2, HoldersDiffer DEF ClientHolds, Working
<1>6. \A c \in Client : ClientFine(c)
  BY <1>1, <1>2 DEF ClientFine
<1>7. \A p \in Scheduler : LoopFine(p)
  BY <1>1, <1>2 DEF LoopFine, RisesFor, Napping
<1> QED  BY <1>3, <1>4, <1>5, <1>6, <1>7, InitRows DEF Fine, LocksFine

(* The steps, by who takes them.                                           *)
LoopStep(p) ==
    \/ Pick(p) \/ Resolved(p) \/ Listen(p) \/ Wake(p) \/ FireFails(p) \/ PassFails(p)
    \/ Break(p) \/ Crash(p)
    \/ Park(p) /\ faults' \in 0 .. MaxFaults
    \/ \E i \in Instance, no \in Nat : Begin(p, <<i, no>>) \/ Busy(p, <<i, no>>)

ClientStep(c) ==
    \/ Take(c) \/ Refuse(c) \/ Rollback(c)
    \/ \E i \in Instance : Match(c, KeyOf[i]) \/ Hold(c, i)

ClientCommit(c) == Deliver(c) \/ StepOther(c) \/ FireElsewhere(c) \/ Mend(c)

LEMMA StepsAre ==
    ASSUME Fine, Next
    PROVE  \/ Tick
           \/ \E p \in Scheduler : LoopStep(p) \/ Fire(p)
           \/ \E c \in Client : ClientStep(c) \/ ClientCommit(c)
<1>1. ASSUME NEW p \in Scheduler, Drain(p) \/ (Park(p) /\ CannotListen(p))
      PROVE  LoopStep(p) \/ Fire(p)
  <2>1. Listens(p) \/ CannotListen(p) => faults' \in 0 .. MaxFaults
    BY Types, Numbers DEF Listens, CannotListen
  <2>2. 1 .. MaxArms \subseteq Nat
    BY Numbers
  <2> QED  BY <1>1, <2>1, <2>2 DEF Drain, LoopStep
<1>2. Sender \subseteq Client /\ Caller \subseteq Client
  BY DEF Client
<1>3. ASSUME NEW p \in Scheduler,
             \/ Drain(p) \/ FireFails(p) \/ (Park(p) /\ CannotListen(p))
             \/ PassFails(p) \/ Break(p) \/ Crash(p)
      PROVE  LoopStep(p) \/ Fire(p)
  BY <1>1, <1>3 DEF LoopStep
<1>4. ASSUME NEW c \in Client,
             \/ Take(c) \/ Refuse(c) \/ Ends(c)
             \/ \E i \in Instance : Match(c, KeyOf[i]) \/ Hold(c, i)
      PROVE  ClientStep(c) \/ ClientCommit(c)
  BY <1>4 DEF ClientStep, ClientCommit, Ends
<1> QED  BY <1>2, <1>3, <1>4 DEF Next

LEMMA NextFine == Fine /\ [Next]_vars => Fine'
<1> SUFFICES ASSUME Fine, [Next]_vars PROVE Fine'
  OBVIOUS
<1>1. CASE Tick
  BY <1>1, TickStays
<1>2. ASSUME NEW p \in Scheduler, LoopStep(p)
      PROVE  Fine'
  BY <1>2, PickStays, ResolvedStays, ListenStays, WakeStays, FireFailsStays, PassFailsStays,
     BreakStays, CrashStays, ParkStays, BeginStays, BusyStays DEF LoopStep
<1>3. ASSUME NEW c \in Client, ClientStep(c)
      PROVE  Fine'
  BY <1>3, TakeStays, RefuseStays, RollbackStays, MatchStays, HoldStays DEF ClientStep
<1>4. ASSUME NEW c \in Client, ClientCommit(c)
      PROVE  Fine'
  BY <1>4, StepStays, MendStays DEF ClientCommit
<1>5. CASE UNCHANGED vars
  <2>1. UNCHANGED <<now, rows, holder, deferral, loop, client, faults>>
    BY <1>5 DEF vars
  <2>2. LocksFine'
    BY <2>1 DEF Fine, LocksFine, LocksTyped, LoopHolds, ClientHolds
  <2>3. \A p \in Scheduler : LoopFine(p)'
    BY <2>1 DEF Fine, LoopFine, Deferrals, Deferred, RisesFor, Napping, Armed, rows
  <2> QED  BY <2>1, <2>2, <2>3, QuietRows, QuietClients DEF Fine
<1> QED  BY <1>1, <1>2, <1>3, <1>4, <1>5, FireStays, StepsAre

LEMMA AlwaysFine == Spec => []Fine
BY InitFine, NextFine, PTL DEF Spec

(* The rows, the locks and the processes keep their types, and a row is    *)
(* locked by the loop that fires its timer, and by no other.               *)
THEOREM TypeCorrect == Spec => []TypeOK
<1>1. Fine => TypeOK
  BY Numbers DEF Fine, RowsFine, RowsTyped, WaitRow, LocksFine, LocksTyped, LoopHolds, TypeOK
<1> QED  BY <1>1, AlwaysFine, PTL

(* No scheduler sleeps past a timer: not one it had looked at, nor one     *)
(* armed, moved or thawed while it slept, as long as it listens            *)
(* (Wakeup::ensure before the wait, NOTIFY with every arm).                *)
THEOREM NobodyOversleeps == Spec => []WokenInTime
<1>1. Fine => WokenInTime
  BY DEF Fine, LoopFine, RisesFor, Napping, WokenInTime
<1> QED  BY <1>1, AlwaysFine, PTL

-----------------------------------------------------------------------------
(* Who changes a wait.                                                     *)

LEMMA WaitsChange ==
    ASSUME Fine, [Next]_vars, NEW i \in Instance, wait'[i] # wait[i] \/ status'[i] # status[i]
    PROVE  \/ \E p \in Scheduler : Fire(p) /\ loop[p].of[1] = i /\ holder[i] = p
           \/ \E c \in Client : ClientCommit(c) /\ client[c].of[1] = i /\ holder[i] = c
<1>1. Next
  BY DEF vars, rows
<1>2. /\ ~Tick
      /\ \A p \in Scheduler : ~LoopStep(p)
      /\ \A c \in Client : ~ClientStep(c)
  <2>1. Tick => FALSE
    BY DEF Tick
  <2>2. ASSUME NEW p \in Scheduler, LoopStep(p)
        PROVE  FALSE
    <3>1. \A c : ~Begin(p, c) /\ ~Busy(p, c)
      BY DEF Begin, Busy, rows
    <3>2. ~Pick(p) /\ ~Resolved(p) /\ ~Listen(p) /\ ~Wake(p) /\ ~Park(p)
      BY DEF Pick, Resolved, Listen, Wake, Park, rows
    <3>3. ~FireFails(p) /\ ~PassFails(p) /\ ~Break(p) /\ ~Crash(p)
      BY DEF FireFails, PassFails, Break, Crash, rows
    <3> QED  BY <2>2, <3>1, <3>2, <3>3 DEF LoopStep
  <2>3. ASSUME NEW c \in Client, ClientStep(c)
        PROVE  FALSE
    BY <2>3 DEF ClientStep, Take, Refuse, Rollback, Match, Hold, rows
  <2> QED  BY <2>1, <2>2, <2>3
<1>3. ASSUME NEW p \in Scheduler, Fire(p)
      PROVE  loop[p].of[1] = i /\ holder[i] = p
  <2>1. PICK j \in Instance : j = loop[p].of[1] /\ holder[j] = p
    BY <1>3, HoldsOne DEF Fire
  <2>2. wait' = [wait EXCEPT ![j] = wait'[j]] /\ status' = [status EXCEPT ![j] = status'[j]]
    BY <1>3, <2>1, Types DEF Fire, Settle, StepsTo, RowsTyped
  <2> QED  BY <2>1, <2>2, Types DEF RowsTyped
<1>4. ASSUME NEW c \in Client, ClientCommit(c)
      PROVE  client[c].of[1] = i /\ holder[i] = c
  <2>1. PICK j \in Instance : j = client[c].of[1] /\ holder[j] = c
    BY <1>4, AtWork DEF ClientCommit, Deliver, StepOther, FireElsewhere, Mend, Working
  <2>2. Moved(j)
    BY <1>4, <2>1, StepStays, MendStays DEF ClientCommit
  <2> QED  BY <2>1, <2>2 DEF Moved
<1> QED  BY <1>1, <1>2, <1>3, <1>4, StepsAre

LEMMA FiresDue ==
    ASSUME Fine, NEW p \in Scheduler, Fire(p), NEW i \in Instance, loop[p].of[1] = i
    PROVE  status[i] = "active" /\ wait[i].due <= now
<1>1. loop[p].start \in Nat /\ loop[p].start <= now
  BY HoldsOne DEF Fire
<1> QED  BY <1>1, Types DEF Fire, Actionable, StillArmed, Due

(* A timer that is fired is due, also when it was moved after it had been  *)
(* picked: the row is read again under the lock (timer_still_due).         *)
THEOREM NoTimerIsEarly == Spec => NeverFiresEarly
<1>1. ASSUME Fine, [Next]_vars, NEW p \in Scheduler, NEW i \in Instance,
             holder[i] = p, wait'[i] # wait[i]
      PROVE  wait[i].due <= now
  BY <1>1, WaitsChange, FiresDue, HoldersDiffer
<1>2. Fine /\ [Next]_vars
      => \A p \in Scheduler, i \in Instance :
            holder[i] = p /\ wait'[i] # wait[i] => wait[i].due <= now
  BY <1>1
<1> QED  BY <1>2, AlwaysFine, PTL DEF Spec, NeverFiresEarly

(* A duration is due when its instance will have been active for its       *)
(* length, neither sooner nor later: a repair gives back what the outage   *)
(* took, once, whoever freezes, repairs and fires in whatever order.       *)
THEOREM OutagesAreGivenBack == Spec => []OutagesAreNotCounted
<1>1. Fine => OutagesAreNotCounted
  BY DEF Fine, RowsFine, RowFine, Runs, OutagesAreNotCounted
<1> QED  BY <1>1, AlwaysFine, PTL

(* What CyclesKeepTheirGrid says of a wait t that becomes u in a           *)
(* transaction that began at from and ends at to.                          *)
OnGrid(t, u, from, to, resumes, frozen) ==
    /\ t.kind = "cycle" /\ u.kind = "cycle" /\ u.due < Beyond
    /\ u.left = t.left - 1 \/ u.no = t.no
    => /\ u.due >= t.due /\ (u.due - t.due) % Period = 0 /\ (u.no # t.no => u.due > t.due)
       /\ u.due # t.due => u.due <= to + Period
       /\ u.no # t.no \/ (resumes /\ t.due >= frozen) => u.due >= from
       /\ resumes /\ t.due < frozen => u.due = t.due

LEMMA SettleKeepsGrid ==
    ASSUME Fine, NEW i \in Instance, NEW at \in 0 .. now, NEW from \in 0 .. at, NEW w,
           w \in {NoWait, wait[i]} \/ (w = Fired(i, at) /\ Due(i, at)),
           NEW u \in Outcomes(i, at, w), Max(made[i], u.no) <= MaxArms
    PROVE  OnGrid(wait[i], u, from, now, FALSE, frozenAt[i])
<1>1. /\ wait[i] \in WaitRow /\ made[i] \in 1 .. MaxArms /\ WaitFine(wait[i], made[i])
      /\ wait[i].no \in Nat /\ wait[i].no <= made[i] /\ wait[i].due \in Nat
      /\ wait[i].left \in 0 .. Fires /\ made[i] \in Nat /\ at \in Nat /\ now \in Nat /\ at <= now
      /\ from \in Nat /\ from <= at
  BY Types, Numbers DEF WaitRow, WaitFine
<1>2. CASE u = NoWait
  BY <1>2 DEF OnGrid, NoWait
<1>3. CASE u = wait[i]
  <2>1. (wait[i].due - wait[i].due) % Period = 0
    BY <1>1, Numbers
  <2> QED  BY <1>1, <1>3, <2>1 DEF OnGrid
<1>4. CASE u \in News(made[i] + 1, at)
  <2>1. u.no = made[i] + 1 /\ (u.kind = "cycle" => u.left = Fires)
    BY <1>1, <1>4, NewFine
  <2> QED  BY <1>1, <2>1, Numbers DEF OnGrid
<1>5. CASE u = Fired(i, at) /\ u # NoWait /\ Due(i, at)
  <2>1. /\ u.no = made[i] + 1
        /\ u.due < Beyond => /\ u.due \in Nat /\ u.due > wait[i].due /\ u.due >= at
                             /\ (u.due - wait[i].due) % Period = 0
                             /\ wait[i].due <= at => u.due <= at + Period
    BY <1>1, <1>5, FiredFine DEF Due
  <2> QED  BY <1>1, <1>5, <2>1, Numbers DEF OnGrid, Due
<1> QED  BY <1>2, <1>3, <1>4, <1>5 DEF Outcomes

LEMMA ThawKeepsGrid ==
    ASSUME Fine, NEW i \in Instance, NEW at \in 0 .. now, frozenAt[i] <= at, NEW from \in 0 .. at
    PROVE  OnGrid(wait[i], Thawed(i, at), from, now, TRUE, frozenAt[i])
<1>1. /\ wait[i] \in WaitRow /\ frozenAt[i] \in Nat /\ at \in Nat /\ now \in Nat /\ at <= now
      /\ from \in Nat /\ from <= at /\ wait[i].due \in Nat
  BY Types, Numbers DEF WaitRow
<1> DEFINE w == Thawed(i, at)
<1>2. /\ w \in WaitRow /\ w.no = wait[i].no
      /\ w.kind = "cycle" /\ w.due < Beyond
           => /\ w.due >= wait[i].due /\ (w.due - wait[i].due) % Period = 0
              /\ w.due # wait[i].due => w.due <= at + Period
              /\ IF wait[i].due >= frozenAt[i] THEN w.due >= at ELSE w.due = wait[i].due
  BY <1>1, ThawedFine
<1> HIDE DEF w
<1>3. w.due \in Nat
  BY <1>2, Numbers DEF WaitRow
<1> QED  BY <1>1, <1>2, <1>3, Numbers DEF OnGrid, w

LEMMA ActiveKeepsGrid ==
    ASSUME Fine, NEW i \in Instance, NEW at \in 0 .. now, NEW from \in 0 .. at, NEW w,
           status[i] = "active",
           w \in {NoWait, wait[i]} \/ (w = Fired(i, at) /\ Due(i, at)),
           Settle(i, at, w), Lives(i, at), UNCHANGED now
    PROVE  OnGrid(wait[i], wait'[i], from, now, FALSE, frozenAt[i])
<1>1. wait'[i] \in Outcomes(i, at, w) /\ RowsFine'
  BY SettleMoves DEF Fine, Due
<1>2. Max(made[i], wait'[i].no) <= MaxArms
  <2>1. wait'[i].no <= MaxArms /\ made[i] <= MaxArms
    BY <1>1, Types, Numbers DEF RowsFine, RowsTyped, WaitRow
  <2> QED  BY <2>1 DEF Max
<1> QED  BY <1>1, <1>2, SettleKeepsGrid

(* A cycle never leaves its grid and never goes back: neither late firings *)
(* nor repairs make it drift, skip an occurrence that is still to come or  *)
(* replay one that is past, for any period and any number of firings (the  *)
(* re-arm of insert_timer, the shift of resume_after_freeze).              *)
THEOREM GridIsKept == Spec => CyclesKeepTheirGrid
<1> DEFINE Resumes(i) == status[i] = "failed" /\ status'[i] = "active"
           Kept(i) == OnGrid(wait[i], wait'[i], Began(i), now, Resumes(i), frozenAt[i])
<1>1. ASSUME Fine, [Next]_vars, NEW i \in Instance
      PROVE  Kept(i)
  <2>1. CASE wait'[i] = wait[i] /\ status'[i] = status[i]
    <3>1. wait[i].due \in Nat /\ (wait[i].due - wait[i].due) % Period = 0
      BY <1>1, Types, Numbers
    <3> QED  BY <2>1, <3>1 DEF OnGrid
  <2>2. ASSUME NEW p \in Scheduler, Fire(p), loop[p].of[1] = i, holder[i] = p
        PROVE  Kept(i)
    <3>1. loop[p].start \in Nat /\ now \in Nat /\ status[i] = "active" /\ Armed(i)
          /\ wait[i].due <= loop[p].start /\ wait[i].due \in Nat /\ UNCHANGED now
      BY <1>1, <2>2, HoldsOne, Types DEF Fire, Actionable, StillArmed, Due
    <3>2. PICK at \in loop[p].start .. now : Settle(i, at, Fired(i, at)) /\ Lives(i, at)
      BY <2>2 DEF Fire
    <3>3. at \in 0 .. now /\ Due(i, at) /\ loop[p].start \in 0 .. at
      BY <3>1 DEF Due
    <3>4. OnGrid(wait[i], wait'[i], loop[p].start, now, FALSE, frozenAt[i])
      BY <1>1, <3>1, <3>2, <3>3, ActiveKeepsGrid
    <3>5. Began(i) = loop[p].start /\ Resumes(i) = FALSE
      BY <2>2, <3>1 DEF Began
    <3> QED  BY <3>4, <3>5
  <2>3. ASSUME NEW c \in Client, Deliver(c) \/ StepOther(c) \/ FireElsewhere(c),
               client[c].of[1] = i, holder[i] = c
        PROVE  Kept(i)
    <3>0. client[c].at \in Working /\ client[c].at \in {"delivers", "steps"} /\ UNCHANGED now
      BY <2>3 DEF Deliver, StepOther, FireElsewhere, Working, Commits
    <3>1. client[c].start \in Nat /\ now \in Nat /\ status[i] = "active" /\ wait[i].due \in Nat
      BY <1>1, <2>3, <3>0, AtWork, Types DEF ClientFine
    <3>2. PICK at, w :
            /\ at \in client[c].start .. now
            /\ Settle(i, at, w) /\ Lives(i, at)
            /\ w \in {NoWait, wait[i]} \/ (w = Fired(i, at) /\ Due(i, client[c].start))
      BY <2>3 DEF Deliver, StepOther, FireElsewhere
    <3>3. at \in 0 .. now /\ client[c].start \in 0 .. at /\ (Due(i, client[c].start) => Due(i, at))
      BY <3>1, <3>2 DEF Due
    <3>4. OnGrid(wait[i], wait'[i], client[c].start, now, FALSE, frozenAt[i])
      BY <1>1, <3>0, <3>1, <3>2, <3>3, ActiveKeepsGrid
    <3>5. Began(i) = client[c].start /\ Resumes(i) = FALSE
      BY <2>3, <3>1, HoldersDiffer DEF Began
    <3> QED  BY <3>4, <3>5
  <2>4. ASSUME NEW c \in Client, Mend(c), client[c].of[1] = i, holder[i] = c
        PROVE  Kept(i)
    <3>0. client[c].at \in Working /\ client[c].at = "mends"
      BY <2>4 DEF Mend, Working
    <3>1. /\ client[c].start \in Nat /\ now \in Nat /\ frozenAt[i] <= client[c].start
          /\ frozenAt[i] \in Nat /\ status[i] = "failed"
      BY <1>1, <2>4, <3>0, AtWork, Types DEF ClientFine
    <3>2. PICK at \in client[c].start .. now : wait' = [wait EXCEPT ![i] = Thawed(i, at)]
      BY <2>4 DEF Mend
    <3>3. /\ at \in 0 .. now /\ frozenAt[i] <= at /\ client[c].start \in 0 .. at
          /\ wait'[i] = Thawed(i, at)
      BY <1>1, <3>1, <3>2, Types DEF RowsTyped
    <3>4. OnGrid(wait[i], wait'[i], client[c].start, now, TRUE, frozenAt[i])
      BY <1>1, <3>3, ThawKeepsGrid
    <3>5. Began(i) = client[c].start /\ Resumes(i) = TRUE
      <4>1. status'[i] = "active"
        BY <1>1, <2>4, Types DEF Mend, RowsTyped
      <4>2. holder[i] \notin Scheduler
        BY <2>4, HoldersDiffer
      <4> QED  BY <2>4, <3>1, <4>1, <4>2 DEF Began
    <3> QED  BY <3>4, <3>5
  <2> QED  BY <1>1, <2>1, <2>2, <2>3, <2>4, WaitsChange DEF ClientCommit
<1>2. Fine /\ [Next]_vars
      => \A i \in Instance :
           LET t == wait[i] u == wait'[i]
               resumes == status[i] = "failed" /\ status'[i] = "active" IN
           /\ t.kind = "cycle" /\ u.kind = "cycle" /\ u.due < Beyond
           /\ u.left = t.left - 1 \/ u.no = t.no
           => /\ u.due >= t.due /\ (u.due - t.due) % Period = 0 /\ (u.no # t.no => u.due > t.due)
              /\ u.due # t.due => u.due <= now + Period
              /\ u.no # t.no \/ (resumes /\ t.due >= frozenAt[i]) => u.due >= Began(i)
              /\ resumes /\ t.due < frozenAt[i] => u.due = t.due
  BY <1>1 DEF OnGrid
<1> QED  BY <1>2, AlwaysFine, PTL DEF Spec, CyclesKeepTheirGrid

-----------------------------------------------------------------------------
(* Messages.                                                               *)

(* The open waits for a key are finitely many: one of them beside another  *)
(* makes two.                                                              *)
LEMMA TwoMatches ==
    ASSUME NEW k, NEW m \in Matches(k), Matches(k) # {m}
    PROVE  Cardinality(Matches(k)) > 1
<1> DEFINE S == Matches(k)
           f == [x \in S |-> x[1]]
<1>1. \A x \in S : x[1] \in Instance /\ x = <<x[1], wait[x[1]].no>>
  BY DEF Matches
<1>2. \A x, y \in S : x[1] = y[1] => x = y
  BY <1>1
<1> HIDE DEF S
<1>3. f \in Injection(S, Instance)
  BY <1>1, <1>2 DEF Injection, IsInjective
<1>4. IsFiniteSet(S)
  BY <1>3, FiniteInstances, FS_Injection
<1>5. PICK n \in S : n # m
  BY DEF S
<1>6. IsFiniteSet({m}) /\ Cardinality({m}) = 1
  BY FS_Singleton
<1>7. Cardinality({m} \union {n}) = 2
  BY <1>5, <1>6, FS_AddElement
<1>8. Cardinality({m} \union {n}) <= Cardinality(S) /\ Cardinality(S) \in Nat
  BY <1>4, <1>5, FS_Subset, FS_CardinalityType DEF S
<1> QED  BY <1>7, <1>8 DEF S

LEMMA OnlyRefusals ==
    ASSUME Fine, [Next]_vars, NEW c \in Client, client[c].at = "matched", client'[c].at = "idle"
    PROVE  Refuse(c)
<1>0. \A d \in Client : \A x : client' = [client EXCEPT ![d] = x] => d = c \/ client'[c] = client[c]
  BY Types
<1>1. ~UNCHANGED client
  OBVIOUS
<1>2. /\ Next /\ ~Tick
      /\ \A p \in Scheduler : ~LoopStep(p) /\ ~Fire(p)
  <2>1. Next
    BY <1>1 DEF vars
  <2>2. Tick => FALSE
    BY <1>1 DEF Tick
  <2>3. ASSUME NEW p \in Scheduler
        PROVE  ~LoopStep(p) /\ ~Fire(p)
    <3>1. \A d : ~Begin(p, d) /\ ~Busy(p, d)
      BY <1>1 DEF Begin, Busy
    <3>2. ~Pick(p) /\ ~Resolved(p) /\ ~Listen(p) /\ ~Wake(p) /\ ~Park(p)
      BY <1>1 DEF Pick, Resolved, Listen, Wake, Park
    <3>3. ~FireFails(p) /\ ~PassFails(p) /\ ~Break(p) /\ ~Crash(p) /\ ~Fire(p)
      BY <1>1 DEF FireFails, PassFails, Break, Crash, Fire
    <3> QED  BY <3>1, <3>2, <3>3 DEF LoopStep
  <2> QED  BY <2>1, <2>2, <2>3
<1>3. ASSUME NEW d \in Client, ClientStep(d) \/ ClientCommit(d)
      PROVE  d = c
  BY <1>0, <1>3 DEF ClientStep, ClientCommit, Take, Refuse, Rollback, Match, Hold, Deliver,
     StepOther, FireElsewhere, Mend, Commits, Goes, Rests
<1>4. ~Take(c)
  BY Types DEF Take, Goes
<1>5. ~Rollback(c) /\ ~ClientCommit(c) /\ \A i \in Instance : ~Match(c, KeyOf[i]) /\ ~Hold(c, i)
  BY DEF Rollback, ClientCommit, Deliver, StepOther, FireElsewhere, Mend, Match, Hold
<1> QED  BY <1>2, <1>3, <1>4, <1>5, StepsAre DEF ClientStep

LEMMA RefusedIsShut ==
    ASSUME Fine, NEW c \in Client, Refuse(c), NEW i \in Instance, i = client[c].of[1],
           status[i] = "active", wait[i].kind = "message"
    PROVE  Cardinality(Matches(KeyOf[i])) > 1
<1> DEFINE m == <<i, wait[i].no>>
<1>1. Found(c) = {}
  BY DEF Refuse
<1>2. wait[i].no # client[c].of[2]
  BY <1>1 DEF Found
<1>3. m \in Matches(KeyOf[i]) /\ m[1] = i
  BY DEF Matches
<1> HIDE DEF m
<1>4. Matches(KeyOf[i]) # {m}
  BY <1>1, <1>2, <1>3 DEF Found
<1> QED  BY <1>3, <1>4, TwoMatches

(* A message reaches an open wait of an active instance or is refused for  *)
(* want of one, though the wait was looked up without the lock: it may     *)
(* have been replaced, withdrawn or frozen meanwhile.                      *)
THEOREM MessagesMeetTheirWait == Spec => MessagesFollowTheWait
<1>1. ASSUME Fine, [Next]_vars, NEW c \in Client
      PROVE  LET i == client[c].of[1] IN
             /\ client[c].at = "matched" /\ client'[c].at = "idle"
                 => status[i] # "active" \/ wait[i].kind # "message"
                    \/ Cardinality(Matches(KeyOf[i])) > 1
             /\ client[c].at = "delivers" /\ wait'[i] # wait[i]
                 => status[i] = "active" /\ wait[i].kind = "message"
                    /\ wait[i].no = client[c].of[2]
  <2>1. client[c].at # "idle" => client[c].of[1] \in Instance
    BY <1>1 DEF Fine, LocksFine, ClientHolds
  <2>2. ClientFine(c)
    BY <1>1 DEF Fine
  <2> QED  BY <1>1, <2>1, <2>2, OnlyRefusals, RefusedIsShut DEF ClientFine
<1>2. Fine /\ [Next]_vars
      => \A c \in Client :
           LET i == client[c].of[1] IN
           /\ client[c].at = "matched" /\ client'[c].at = "idle"
               => status[i] # "active" \/ wait[i].kind # "message"
                  \/ Cardinality(Matches(KeyOf[i])) > 1
           /\ client[c].at = "delivers" /\ wait'[i] # wait[i]
               => status[i] = "active" /\ wait[i].kind = "message"
                  /\ wait[i].no = client[c].of[2]
  BY <1>1
<1> QED  BY <1>2, AlwaysFine, PTL DEF Spec, MessagesFollowTheWait
=============================================================================
