---------------------- MODULE SubscriptionLease_proofs ----------------------
(***************************************************************************)
(* Proofs about SubscriptionLease, and about SubscriptionTx, its handlers  *)
(* as overlapping transactions: for every number of subscribers and locks, *)
(* every calendar and every setting of the limits.                         *)
(***************************************************************************)
EXTENDS SubscriptionTx, FiniteSetTheorems, TLAPS

-----------------------------------------------------------------------------
(* The calendar                                                            *)

\* Local dates follow the clock.
LEMMA LocalDateMonotone ==
    ASSUME NEW a \in Int, NEW b \in Int, NEW zone \in Int, a <= b
    PROVE  /\ LocalDate(a, zone) \in Int
           /\ LocalDate(a, zone) <= LocalDate(b, zone)
  <1> DEFINE x == a + zone
             y == b + zone
             D == DayLen
  <1>1. D \in Int /\ D > 0 /\ x \in Int /\ y \in Int /\ x <= y
    BY CalendarAssumption
  <1> HIDE DEF x, y, D
  <1>2. /\ x \div D \in Int /\ y \div D \in Int
        /\ D * (x \div D) <= x
        /\ y < D * (y \div D) + D
    BY <1>1, SMT
  <1>3. x \div D <= y \div D
    <2>1. SUFFICES ASSUME x \div D >= y \div D + 1 PROVE FALSE
      BY <1>2
    <2> DEFINE p == x \div D
               q == y \div D
    <2>2. p \in Int /\ q \in Int /\ p >= q + 1
      BY <2>1, <1>2
    <2>3. D * p <= x /\ y < D * q + D
      BY <1>2
    <2> HIDE DEF p, q
    <2>4. D * p >= D * (q + 1)
      BY <2>2, <1>1
    <2>5. D * (q + 1) = D * q + D
      BY <2>2, <1>1
    <2>6. D * p \in Int /\ D * q \in Int /\ D * (q + 1) \in Int
      BY <2>2, <1>1
    <2> QED BY <2>3, <2>4, <2>5, <2>6, <1>1
  <1> QED BY <1>2, <1>3 DEF LocalDate, x, y, D

\* A subscriber's local date is at most one day from the UTC date.
LEMMA LocalDateNearUtc ==
    ASSUME NEW t \in Int, NEW zone \in (-DayLen)..DayLen
    PROVE  LocalDate(t, zone) \in {LocalDate(t, 0) - 1, LocalDate(t, 0), LocalDate(t, 0) + 1}
  <1>1. /\ DayLen \in Int /\ zone \in Int /\ -DayLen <= zone /\ zone <= DayLen
        /\ DayLen > 0
    BY CalendarAssumption
  <1>2. LocalDate(t, zone) \in Int /\ LocalDate(t, 0) \in Int
    BY <1>1, LocalDateMonotone
  <1>3. LocalDate(t + DayLen, 0) = LocalDate(t, 0) + 1
    BY <1>1 DEF LocalDate
  <1>4. LocalDate(t - DayLen, 0) = LocalDate(t, 0) - 1
    BY <1>1 DEF LocalDate
  <1>5. LocalDate(t + zone, 0) = LocalDate(t, zone)
    BY <1>1 DEF LocalDate
  <1>6. LocalDate(t, zone) <= LocalDate(t, 0) + 1
    <2>1. t + zone <= t + DayLen /\ t + zone \in Int /\ t + DayLen \in Int
      BY <1>1
    <2> QED BY <2>1, <1>3, <1>5, LocalDateMonotone
  <1>7. LocalDate(t, 0) - 1 <= LocalDate(t, zone)
    <2>1. t - DayLen <= t + zone /\ t + zone \in Int /\ t - DayLen \in Int
      BY <1>1
    <2> QED BY <2>1, <1>4, <1>5, LocalDateMonotone
  <1> QED BY <1>2, <1>6, <1>7

\* The weekday of the day before and of the day after, from today's weekday.
LEMMA NeighbouringWeekdays ==
    ASSUME NEW d \in Int
    PROVE  /\ (d - 1) % WeekLen = ((d % WeekLen) - 1) % WeekLen
           /\ (d + 1) % WeekLen = ((d % WeekLen) + 1) % WeekLen
  <1>1. WeekLen \in Int /\ WeekLen > 0
    BY CalendarAssumption
  <1> DEFINE W == WeekLen
             r == d % W
             q == d \div W
  <1>2. d = W * q + r /\ q \in Int /\ r \in Int /\ 0 <= r /\ r < W
    BY <1>1
  <1> HIDE DEF r, q
  <1>3. ASSUME NEW x \in Int, NEW k \in Int PROVE (W * k + x) % W = x % W
    <2> DEFINE xr == x % W
               xq == x \div W
               y == W * k + x
               yr == y % W
               yq == y \div W
    <2>1. x = W * xq + xr /\ xq \in Int /\ xr \in Int /\ 0 <= xr /\ xr < W
      BY <1>1
    <2>2. W * k \in Int /\ y \in Int
      BY <1>1
    <2>3. y = W * yq + yr /\ yq \in Int /\ yr \in Int /\ 0 <= yr /\ yr < W
      <3> HIDE DEF y
      <3> QED BY <1>1, <2>2
    <2>4. W * yq + yr = W * (k + xq) + xr
      <3> HIDE DEF yq, yr, xq, xr
      <3>1. W * (k + xq) = W * k + W * xq
        BY <1>1, <2>1
      <3> QED BY <3>1, <2>1, <2>3, <1>1
    <2> HIDE DEF xr, xq, y, yr, yq
    <2>5. yq = k + xq
      <3> DEFINE n == k + xq
      <3>1. n \in Int
        BY <2>1
      <3> HIDE DEF n
      <3>2. W * yq + yr = W * n + xr
        BY <2>4 DEF n
      <3>3. ASSUME yq >= n + 1 PROVE FALSE
        <4>1. W * yq >= W * (n + 1)
          BY <1>1, <2>3, <3>1, <3>3
        <4>2. W * (n + 1) = W * n + W /\ W * n \in Int /\ W * yq \in Int
          BY <1>1, <2>3, <3>1
        <4> QED BY <4>1, <4>2, <3>2, <2>1, <2>3, <1>1
      <3>4. ASSUME n >= yq + 1 PROVE FALSE
        <4>1. W * n >= W * (yq + 1)
          BY <1>1, <2>3, <3>1, <3>4
        <4>2. W * (yq + 1) = W * yq + W /\ W * n \in Int /\ W * yq \in Int
          BY <1>1, <2>3, <3>1
        <4> QED BY <4>1, <4>2, <3>2, <2>1, <2>3, <1>1
      <3> QED BY <3>1, <3>3, <3>4, <2>3 DEF n
    <2>6. yr = xr
      <3> DEFINE p == W * yq
      <3>1. p \in Int
        BY <1>1, <2>3
      <3>2. p + yr = p + xr
        BY <2>4, <2>5
      <3> HIDE DEF p
      <3> QED BY <3>1, <3>2, <2>1, <2>3
    <2> QED BY <2>6 DEF xr, yr, y
  <1>4. d - 1 = W * q + (r - 1) /\ d + 1 = W * q + (r + 1)
    <2> DEFINE p == W * q
    <2>1. p \in Int /\ d = p + r
      BY <1>1, <1>2
    <2> HIDE DEF p
    <2>2. d - 1 = p + (r - 1) /\ d + 1 = p + (r + 1)
      BY <2>1, <1>2
    <2> QED BY <2>2 DEF p
  <1>5. r - 1 \in Int /\ r + 1 \in Int
    BY <1>2
  <1>6. (W * q + (r - 1)) % W = (r - 1) % W /\ (W * q + (r + 1)) % W = (r + 1) % W
    BY <1>3, <1>5, <1>2
  <1> QED BY <1>4, <1>6 DEF r

-----------------------------------------------------------------------------
(* Type correctness                                                        *)

\* UTC itself is a zone, and zones are numbers of ticks.
LEMMA ZoneFacts == 0 \in Zone /\ Zone \subseteq Int
  BY CalendarAssumption DEF Zone

\* Every handler makes a row of a row.
LEMMA PrefTypes ==
    ASSUME NEW r \in Row, NEW t \in Nat, NEW p \in Prefs, NEW id \in Nat
    PROVE  /\ Stamped(WithPrefs(r, p), t) \in Row
           /\ NewRow(id, p, t) \in Row
  <1>1. /\ p.active \in BOOLEAN /\ p.weekday % WeekLen \in Nat
        /\ p.time \in Nat /\ p.zone \in Zone
    BY LeaseAssumption, CalendarAssumption DEF Zone
  <1>2. NoRow \in Row
    BY ZoneFacts DEF NoRow, Row, Null
  <1>3. Stamped(WithPrefs(r, p), t) \in Row
    BY <1>1 DEF WithPrefs, Stamped, Row
  <1>4. WithPrefs(NoRow, p) \in Row
    BY <1>1, <1>2 DEF WithPrefs, Row
  <1>5. NewRow(id, p, t) \in Row
    BY <1>4 DEF NewRow, Stamped, Row
  <1> QED BY <1>3, <1>5

\* The same for the handlers that do not change the settings.
LEMMA RowTypes ==
    ASSUME NEW r \in Row, NEW t \in Nat
    PROVE  /\ NoRow \in Row
           /\ \A lock \in Lock : Leased(r, lock, t) \in Row
           /\ AckedSent(r, t) \in Row
           /\ AckedFailed(r, t) \in Row
           /\ MarkedSent(r, t) \in Row
  <1>1. NoRow \in Row
    BY ZoneFacts DEF NoRow, Row, Null
  <1>2. ASSUME NEW lock \in Lock PROVE Leased(r, lock, t) \in Row
    <2>1. r.attempt + 1 \in Nat
      BY DEF Row
    <2> QED BY <2>1 DEF Leased, Stamped, Row
  <1>3. AckedSent(r, t) \in Row
    BY DEF AckedSent, Stamped, Row, Null
  <1>4. AckedFailed(r, t) \in Row
    <2> DEFINE b == IF r.attempt >= BackoffFrom THEN t + BackoffTime ELSE r.backoff
    <2>1. b \in Nat
      BY LeaseAssumption DEF Row
    <2>2. AckedFailed(r, t) = [r EXCEPT !.lock = NoLock, !.backoff = b,
                                        !.updatedAt = t]
      BY DEF AckedFailed, Stamped, Row
    <2> HIDE DEF b
    <2> QED BY <2>1, <2>2 DEF Row
  <1>5. MarkedSent(r, t) \in Row
    BY DEF MarkedSent, Stamped, Row
  <1> QED BY <1>1, <1>2, <1>3, <1>4, <1>5

\* What the handlers do to the columns the proofs below look at.
SameLease(x, r) == x.id = r.id /\ x.lock = r.lock /\ x.lastSent = r.lastSent

\* Each handler's effect on id, lock and last_sent_at.
LEMMA RowColumns ==
    ASSUME NEW r \in Row, NEW t \in Nat
    PROVE  /\ NoRow.id = 0 /\ NoRow.lock = NoLock
           /\ \A p : SameLease(Stamped(WithPrefs(r, p), t), r)
           /\ \A p, id : /\ NewRow(id, p, t).id = id
                         /\ NewRow(id, p, t).lock = NoLock
                         /\ NewRow(id, p, t).lastSent = 0
           /\ \A lock : /\ Leased(r, lock, t).id = r.id
                        /\ Leased(r, lock, t).lock = lock
                        /\ Leased(r, lock, t).lastSent = r.lastSent
           /\ /\ AckedSent(r, t).id = r.id
              /\ AckedSent(r, t).lock = NoLock
              /\ AckedSent(r, t).lastSent = t
           /\ /\ AckedFailed(r, t).id = r.id
              /\ AckedFailed(r, t).lock = NoLock
              /\ AckedFailed(r, t).lastSent = r.lastSent
           /\ /\ MarkedSent(r, t).id = r.id
              /\ MarkedSent(r, t).lock = r.lock
              /\ MarkedSent(r, t).lastSent = t
  BY DEF NoRow, WithPrefs, NewRow, Leased, AckedSent, AckedFailed, MarkedSent,
         Stamped, Row, Null, SameLease

\* history stays finite, so that it can be counted.
TypeInv == TypeOK /\ IsFiniteSet(history)

\* A claim grants well-formed leases.
LEMMA GrantTypes ==
    ASSUME TypeInv, NEW s \in Subscriber, NEW lock \in Lock
    PROVE  GrantOf(s, row[s], lock, now) \in Grant
  <1>1. row[s] \in Row /\ now \in Nat
    BY DEF TypeInv, TypeOK
  <1>2. Recorded(row[s].id) \subseteq history
    BY DEF Recorded
  <1>3. Cardinality(Recorded(row[s].id)) \in Nat
    BY <1>2, FS_Subset, FS_CardinalityType DEF TypeInv
  <1>4. row[s].id \in Nat /\ row[s].zone \in Zone /\ row[s].attempt + 1 \in Nat
    BY <1>1 DEF Row
  <1> QED BY <1>1, <1>3, <1>4 DEF GrantOf, Grant

\* Every column starts with its type, whatever the settings.
LEMMA TypeInvInit == Init => TypeInv
  <1>1. NoRow \in Row
    BY ZoneFacts DEF NoRow, Row, Null
  <1> QED BY <1>1, FS_EmptySet DEF Init, TypeInv, TypeOK

\* No handler spoils a column.
LEMMA TypeInvStep == TypeInv /\ [Next]_leaseVars => TypeInv'
  <1> SUFFICES ASSUME TypeInv, [Next]_leaseVars PROVE TypeInv'
    OBVIOUS
  <1> USE DEF TypeInv, TypeOK
  <1>0. /\ \A s \in Subscriber : row[s] \in Row
        /\ now \in Nat
        /\ nextId \in Nat
    OBVIOUS
  <1>1. CASE Tick
    BY <1>1 DEF Tick
  <1>2. ASSUME NEW choice, Claim(choice) PROVE TypeInv'
    <2>1. \A s \in ClaimableSet : s \in Subscriber /\ choice[s] \in Lock
      BY <1>2 DEF Claim, ClaimableSet
    <2>2. \A s \in ClaimableSet : Leased(row[s], choice[s], now) \in Row
      BY <2>1, <1>0, RowTypes
    <2>3. row' \in [Subscriber -> Row]
      BY <1>2, <1>0, <2>2 DEF Claim
    <2>4. grants' \subseteq Grant
      BY <1>2, <2>1, GrantTypes DEF Claim
    <2> QED BY <1>2, <2>3, <2>4 DEF Claim
  <1>3. ASSUME NEW s \in Subscriber, NEW p \in Prefs, Subscribe(s, p)
        PROVE  TypeInv'
    <2>1. NewRow(nextId, p, now) \in Row
      BY <1>0, PrefTypes
    <2> QED BY <1>3, <2>1 DEF Subscribe
  <1>4. ASSUME NEW s \in Subscriber, NEW p \in Prefs, Change(s, p)
        PROVE  TypeInv'
    <2>1. Stamped(WithPrefs(row[s], p), now) \in Row
      BY <1>0, PrefTypes
    <2> QED BY <1>4, <2>1 DEF Change
  <1>5. ASSUME NEW s \in Subscriber, Delete(s) PROVE TypeInv'
    <2>1. NoRow \in Row
      BY <1>0, RowTypes
    <2> QED BY <1>5, <2>1 DEF Delete
  <1>6. ASSUME NEW s \in Subscriber, MarkSent(s) PROVE TypeInv'
    <2>1. MarkedSent(row[s], now) \in Row
      BY <1>0, RowTypes
    <2> QED BY <1>6, <2>1 DEF MarkSent
  <1>7. ASSUME NEW s \in Subscriber, NEW lock \in Issued, AckSent(s, lock)
        PROVE  TypeInv'
    <2>1. lock \in Lock
      BY DEF Issued, Grant
    <2>2. AckedSent(row[s], now) \in Row
      BY <1>0, RowTypes
    <2>3. RecordOf(s, row[s], lock, now) \in Record
      <3>1. AttemptToRecord(AckedSent(row[s], now)) \in Nat
        BY <2>2 DEF AttemptToRecord, Row
      <3>2. row[s].id \in Nat
        BY <1>0 DEF Row
      <3> QED BY <2>1, <1>0, <3>1, <3>2 DEF RecordOf, Record
    <2>4. IsFiniteSet(history')
      BY <1>7, FS_AddElement DEF AckSent
    <2> QED BY <1>7, <2>2, <2>3, <2>4 DEF AckSent
  <1>8. ASSUME NEW s \in Subscriber, NEW lock \in Issued, AckFailed(s, lock)
        PROVE  TypeInv'
    <2>1. AckedFailed(row[s], now) \in Row
      BY <1>0, RowTypes
    <2> QED BY <1>8, <2>1 DEF AckFailed
  <1>9. CASE UNCHANGED leaseVars
    BY <1>9 DEF leaseVars
  <1> QED BY <1>1, <1>2, <1>3, <1>4, <1>5, <1>6, <1>7, <1>8, <1>9
          DEF Next, UserRequest, DoClaim, Ack

\* Whatever the clients do, every column keeps its type, and the history can be
\* counted.
LEMMA TypeInvHolds == Spec => []TypeInv
  BY TypeInvInit, TypeInvStep, PTL DEF Spec

\* Type correctness, as the runs check it.
THEOREM TypeCorrect == Spec => []TypeOK
  <1>1. TypeInv => TypeOK
    BY DEF TypeInv
  <1> QED BY <1>1, TypeInvHolds, PTL

-----------------------------------------------------------------------------
(* The inductive invariant                                                 *)

\* A handler that records nothing and leases nothing keeps the invariant, as
\* long as it leaves the row's id alone, never sets a lock, and stamps
\* last_sent_at with the current time at most.
LEMMA QuietUpdate ==
    ASSUME TypeInv, TypeInv', LeaseInv, NEW s \in Subscriber,
           UNCHANGED <<now, nextId, history, grants>>,
           \A t \in Subscriber : t # s => row'[t] = row[t],
           row'[s].id = row[s].id,
           row'[s].lock \in {row[s].lock, NoLock},
           row'[s].lastSent \in {row[s].lastSent, now}
    PROVE  LeaseInv'
  <1>0. /\ \A t \in Subscriber : row[t] \in Row /\ row'[t] \in Row
        /\ now \in Nat \ {0}
        /\ \A h \in history : h.at \in Nat
    BY DEF TypeInv, TypeOK, Record
  <1>1. \A t \in Subscriber : /\ row'[t].id = row[t].id
                              /\ row'[t].lock \in {row[t].lock, NoLock}
                              /\ row'[t].lastSent \in {row[t].lastSent, now}
    OBVIOUS
  <1>2. \A t \in Subscriber : row[t].lastSent \in Nat /\ row'[t].lastSent \in Nat
    BY <1>0 DEF Row
  <1>3. IdsGivenOut'
    BY <1>1 DEF LeaseInv, IdsGivenOut, Exists
  <1>4. NothingFromTheFuture'
    BY <1>1, <1>0 DEF LeaseInv, NothingFromTheFuture
  <1>5. LockIsFresh'
    BY <1>1 DEF LeaseInv, LockIsFresh, Exists
  <1>6. LeaseIsForANewDate'
    <2>1. SUFFICES ASSUME NEW t \in Subscriber, NEW h \in history,
                          row[t].id # 0, h.id = row[t].id
                   PROVE  /\ row'[t].lastSent # Null
                          /\ h.at <= row'[t].lastSent
                          /\ \A g \in grants :
                               (row'[t].lock # NoLock /\ g.lock = row'[t].lock) =>
                                 /\ h.at <= g.at
                                 /\ LocalDate(h.at, g.zone) < LocalDate(g.at, g.zone)
      BY <1>1 DEF LeaseIsForANewDate, Exists
    <2>2. /\ row[t].lastSent # Null
          /\ h.at <= row[t].lastSent
          /\ \A g \in grants :
               (row[t].lock # NoLock /\ g.lock = row[t].lock) =>
                 /\ h.at <= g.at
                 /\ LocalDate(h.at, g.zone) < LocalDate(g.at, g.zone)
      BY <2>1 DEF LeaseInv, LeaseIsForANewDate, Exists
    <2>3. h.at <= now
      BY DEF LeaseInv, NothingFromTheFuture
    <2> QED BY <2>2, <2>3, <1>0, <1>1, <1>2 DEF Null
  <1>7. OneRecordPerLock' /\ OneRecordPerLocalDay'
    BY DEF LeaseInv, OneRecordPerLock, OneRecordPerLocalDay
  <1> QED BY <1>3, <1>4, <1>5, <1>6, <1>7 DEF LeaseInv

\* A claim: the lease is granted on a later local date than last_sent_at, hence
\* than everything recorded for the row.
LEMMA ClaimStep ==
    ASSUME TypeInv, TypeInv', LeaseInv, NEW choice, Claim(choice)
    PROVE  LeaseInv'
  <1> DEFINE C == ClaimableSet
             New == { GrantOf(s, row[s], choice[s], now) : s \in C }
  <1>0. /\ \A t \in Subscriber : row[t] \in Row
        /\ now \in Nat \ {0}
        /\ \A h \in history : h.at \in Nat
        /\ \A g \in grants : g \in Grant
    BY DEF TypeInv, TypeOK, Record
  <1>1. /\ \A s \in C : s \in Subscriber /\ choice[s] \in Lock /\ choice[s] \notin Issued
        /\ \A s, t \in C : choice[s] = choice[t] => s = t
        /\ grants' = grants \cup New
        /\ UNCHANGED <<now, nextId, history>>
    BY DEF Claim, ClaimableSet
  <1>2. ASSUME NEW s \in C
        PROVE  /\ row[s].id # 0 /\ row'[s].id = row[s].id
               /\ row'[s].lock = choice[s] /\ row'[s].lastSent = row[s].lastSent
               /\ row[s].lastSent # Null =>
                     LocalDate(row[s].lastSent, row[s].zone) # LocalDate(now, row[s].zone)
    <2>1. row'[s] = Leased(row[s], choice[s], now) /\ s \in Subscriber
      BY <1>1 DEF Claim
    <2>2. ClaimableRow(row[s], now)
      BY DEF ClaimableSet, Claimable
    <2> QED BY <2>1, <2>2, <1>0, RowColumns DEF ClaimableRow, IsDue
  <1>3. \A t \in Subscriber : t \notin C => row'[t] = row[t]
    BY DEF Claim
  <1>4. \A s \in C : LET g == GrantOf(s, row[s], choice[s], now) IN
            /\ g.sub = s /\ g.id = row[s].id /\ g.lock = choice[s]
            /\ g.zone = row[s].zone /\ g.at = now
    BY DEF GrantOf
  <1>5. \A g \in grants : g.lock \in Issued
    BY DEF Issued
  <1>6. \A t \in Subscriber : row'[t].id = row[t].id /\ row'[t].lastSent = row[t].lastSent
    BY <1>2, <1>3
  <1>7. IdsGivenOut'
    BY <1>1, <1>4, <1>6 DEF LeaseInv, IdsGivenOut, Exists
  <1>8. NothingFromTheFuture'
    BY <1>0, <1>1, <1>4, <1>6 DEF LeaseInv, NothingFromTheFuture
  <1>9. LockIsFresh'
    <2>1. \A g1, g2 \in grants' : g1.lock = g2.lock => g1 = g2
      BY <1>1, <1>4, <1>5 DEF LeaseInv, LockIsFresh
    <2>2. ASSUME NEW s \in Subscriber, row'[s].lock # NoLock
          PROVE  /\ row'[s].id # 0
                 /\ \E g \in grants' : g.lock = row'[s].lock /\ g.sub = s /\ g.id = row'[s].id
                 /\ \A h \in history : h.lock # row'[s].lock
      <3>1. CASE s \in C
        <4>1. \A h \in history : h.lock \in Issued
          BY <1>5 DEF LeaseInv, OneRecordPerLock
        <4> QED BY <3>1, <4>1, <1>1, <1>2, <1>4
      <3>2. CASE s \notin C
        BY <3>2, <2>2, <1>1, <1>3 DEF LeaseInv, LockIsFresh, Exists
      <3> QED BY <3>1, <3>2
    <2> QED BY <2>1, <2>2, <1>1 DEF LockIsFresh, Exists
  <1>10. LeaseIsForANewDate'
    <2>1. SUFFICES ASSUME NEW s \in Subscriber, NEW h \in history,
                          row[s].id # 0, h.id = row[s].id
                   PROVE  /\ row[s].lastSent # Null
                          /\ h.at <= row[s].lastSent
                          /\ \A g \in grants' :
                               (row'[s].lock # NoLock /\ g.lock = row'[s].lock) =>
                                 /\ h.at <= g.at
                                 /\ LocalDate(h.at, g.zone) < LocalDate(g.at, g.zone)
      BY <1>1, <1>6 DEF LeaseIsForANewDate, Exists
    <2>2. /\ row[s].lastSent # Null
          /\ h.at <= row[s].lastSent
          /\ \A g \in grants :
               (row[s].lock # NoLock /\ g.lock = row[s].lock) =>
                 /\ h.at <= g.at
                 /\ LocalDate(h.at, g.zone) < LocalDate(g.at, g.zone)
      BY <2>1 DEF LeaseInv, LeaseIsForANewDate, Exists
    <2>3. CASE s \in C
      <3>1. /\ row[s].lastSent \in Nat /\ row[s].zone \in Int
            /\ row[s].lastSent <= now
        BY <1>0, ZoneFacts DEF Row, LeaseInv, NothingFromTheFuture
      <3>2. /\ LocalDate(h.at, row[s].zone) <= LocalDate(row[s].lastSent, row[s].zone)
            /\ LocalDate(row[s].lastSent, row[s].zone) <= LocalDate(now, row[s].zone)
            /\ LocalDate(h.at, row[s].zone) \in Int
            /\ LocalDate(row[s].lastSent, row[s].zone) \in Int
            /\ LocalDate(now, row[s].zone) \in Int
        BY <2>2, <3>1, <1>0, LocalDateMonotone
      <3>3. LocalDate(h.at, row[s].zone) < LocalDate(now, row[s].zone)
        BY <3>2, <2>2, <2>3, <1>2
      <3>4. \A g \in grants' : g.lock = choice[s] => g.zone = row[s].zone /\ g.at = now
        BY <1>1, <1>4, <1>5, <2>3
      <3> QED BY <2>2, <2>3, <3>1, <3>3, <3>4, <1>0, <1>2
    <2>4. CASE s \notin C
      <3>1. row'[s] = row[s]
        BY <2>4, <1>3
      <3>2. \A g \in grants' : (row[s].lock # NoLock /\ g.lock = row[s].lock) => g \in grants
        BY <1>1, <1>4 DEF LeaseInv, LockIsFresh, Issued
      <3> QED BY <2>2, <3>1, <3>2
    <2> QED BY <2>3, <2>4
  <1>11. OneRecordPerLock'
    BY <1>1 DEF LeaseInv, OneRecordPerLock
  <1>12. OneRecordPerLocalDay'
    <2>1. \A h \in history : h.lock \in Issued
      BY <1>5 DEF LeaseInv, OneRecordPerLock
    <2>2. \A h \in history, g \in grants' : g.lock = h.lock => g \in grants
      BY <1>1, <1>4, <2>1
    <2> QED BY <1>1, <2>2 DEF LeaseInv, OneRecordPerLocalDay
  <1> QED BY <1>7, <1>8, <1>9, <1>10, <1>11, <1>12 DEF LeaseInv

\* An acknowledged delivery: recorded under a lease granted on a later local
\* date than every earlier record, at a time no earlier than the grant.
LEMMA AckSentStep ==
    ASSUME TypeInv, TypeInv', LeaseInv,
           NEW s \in Subscriber, NEW lock \in Issued, AckSent(s, lock)
    PROVE  LeaseInv'
  <1> DEFINE new == RecordOf(s, row[s], lock, now)
  <1>0. /\ \A t \in Subscriber : row[t] \in Row
        /\ now \in Nat \ {0}
        /\ \A h \in history : h.at \in Nat
        /\ \A g \in grants : g \in Grant
        /\ lock # NoLock
    BY LeaseAssumption DEF TypeInv, TypeOK, Record, Issued, Grant
  <1>1. /\ row[s].id # 0 /\ row[s].lock = lock
        /\ history' = history \cup {new}
        /\ UNCHANGED <<now, nextId, grants>>
        /\ row'[s] = AckedSent(row[s], now)
        /\ \A t \in Subscriber : t # s => row'[t] = row[t]
    BY <1>0 DEF AckSent, HoldsLease, Exists, TypeInv, TypeOK
  <1>2. row'[s].id = row[s].id /\ row'[s].lock = NoLock /\ row'[s].lastSent = now
    BY <1>0, <1>1, RowColumns
  <1>3. new.sub = s /\ new.id = row[s].id /\ new.lock = lock /\ new.at = now
    BY DEF RecordOf
  <1>4. PICK g \in grants : g.lock = lock /\ g.sub = s /\ g.id = row[s].id
    BY <1>0, <1>1 DEF LeaseInv, LockIsFresh
  <1>5. /\ \A h \in history : h.lock # lock
        /\ \A g2 \in grants : g2.lock = lock => g2 = g
    BY <1>0, <1>1, <1>4 DEF LeaseInv, LockIsFresh
  <1>6. g.at \in Nat /\ g.zone \in Int /\ g.at <= now
    BY <1>0, ZoneFacts DEF Grant, LeaseInv, NothingFromTheFuture
  <1>7. IdsGivenOut'
    BY <1>1, <1>2, <1>3 DEF LeaseInv, IdsGivenOut, Exists
  <1>8. NothingFromTheFuture'
    BY <1>0, <1>1, <1>2, <1>3 DEF LeaseInv, NothingFromTheFuture
  <1>9. LockIsFresh'
    <2>1. \A t \in Subscriber : (t # s /\ row[t].lock # NoLock) => row[t].lock # lock
      <3>1. SUFFICES ASSUME NEW t \in Subscriber, t # s, row[t].lock = lock PROVE FALSE
        OBVIOUS
      <3>2. PICK g3 \in grants : g3.lock = lock /\ g3.sub = t
        BY <3>1, <1>0 DEF LeaseInv, LockIsFresh
      <3> QED BY <3>1, <3>2, <1>4, <1>5
    <2> QED BY <2>1, <1>1, <1>2, <1>3 DEF LeaseInv, LockIsFresh, Exists
  <1>10. LeaseIsForANewDate'
    <2>1. SUFFICES ASSUME NEW t \in Subscriber, NEW h \in history',
                          row'[t].id # 0, h.id = row'[t].id
                   PROVE  /\ row'[t].lastSent # Null
                          /\ h.at <= row'[t].lastSent
                          /\ \A g2 \in grants :
                               (row'[t].lock # NoLock /\ g2.lock = row'[t].lock) =>
                                 /\ h.at <= g2.at
                                 /\ LocalDate(h.at, g2.zone) < LocalDate(g2.at, g2.zone)
      BY <1>1 DEF LeaseIsForANewDate, Exists
    <2>2. CASE t = s
      BY <2>2, <1>0, <1>1, <1>2, <1>3 DEF Null, LeaseInv, NothingFromTheFuture
    <2>3. CASE t # s
      <3>1. h \in history
        BY <2>1, <2>3, <1>1, <1>3 DEF LeaseInv, IdsGivenOut, Exists
      <3> QED BY <3>1, <2>1, <2>3, <1>1 DEF LeaseInv, LeaseIsForANewDate, Exists
    <2> QED BY <2>2, <2>3
  <1>11. OneRecordPerLock'
    <2>1. \A h1, h2 \in history' : h1.lock = h2.lock => h1 = h2
      BY <1>1, <1>3, <1>5 DEF LeaseInv, OneRecordPerLock
    <2>2. \A h \in history' : \E g2 \in grants :
             g2.lock = h.lock /\ g2.sub = h.sub /\ g2.id = h.id /\ g2.at <= h.at
      BY <1>1, <1>3, <1>4, <1>6 DEF LeaseInv, OneRecordPerLock
    <2> QED BY <2>1, <2>2, <1>1 DEF OneRecordPerLock
  <1>12. OneRecordPerLocalDay'
    \* Earlier records of the row are of an earlier local date than the lease.
    <2>1. ASSUME NEW h \in history, h.id = row[s].id
          PROVE  h.at < now /\ LocalDate(h.at, g.zone) < LocalDate(now, g.zone)
      <3>1. /\ h.at <= g.at
            /\ LocalDate(h.at, g.zone) < LocalDate(g.at, g.zone)
        BY <2>1, <1>0, <1>1, <1>4 DEF LeaseInv, LeaseIsForANewDate, Exists
      <3>a. h.at \in Int /\ g.at \in Int /\ now \in Int /\ g.zone \in Int
        BY <1>0, <1>6
      <3>b. LocalDate(h.at, g.zone) \in Int
        BY <3>a, <3>1, LocalDateMonotone
      <3>c. /\ LocalDate(g.at, g.zone) \in Int
            /\ LocalDate(g.at, g.zone) <= LocalDate(now, g.zone)
        BY <3>a, <1>6, LocalDateMonotone
      <3>d. LocalDate(now, g.zone) \in Int
        <4>1. now <= now
          BY <3>a
        <4> QED BY <4>1, <3>a, LocalDateMonotone
      <3>2. /\ LocalDate(g.at, g.zone) <= LocalDate(now, g.zone)
            /\ LocalDate(h.at, g.zone) \in Int
            /\ LocalDate(g.at, g.zone) \in Int
            /\ LocalDate(now, g.zone) \in Int
        BY <3>b, <3>c, <3>d
      <3>3. LocalDate(h.at, g.zone) < LocalDate(now, g.zone)
        BY <3>1, <3>2
      <3>4. h.at # now
        BY <3>2, <3>3
      <3> QED BY <3>1, <3>3, <3>4, <1>0, <1>6
    <2>2. SUFFICES ASSUME NEW h1 \in history', NEW h2 \in history', NEW g2 \in grants,
                          h1.id = h2.id, h1.lock # h2.lock, h1.at <= h2.at,
                          g2.lock = h2.lock
                   PROVE  LocalDate(h1.at, g2.zone) < LocalDate(h2.at, g2.zone)
      BY <1>1 DEF OneRecordPerLocalDay
    <2>3. CASE h1 \in history /\ h2 \in history
      BY <2>2, <2>3 DEF LeaseInv, OneRecordPerLocalDay
    <2>4. CASE h1 \in history /\ h2 = new
      BY <2>1, <2>2, <2>4, <1>3, <1>5
    <2>5. CASE h1 = new
      <3>1. h2 \in history /\ h2.id = row[s].id
        BY <2>2, <2>5, <1>1, <1>3
      <3>2. h2.at < now
        BY <3>1, <2>1
      <3> QED BY <3>1, <3>2, <2>2, <2>5, <1>0, <1>3
    <2> QED BY <2>3, <2>4, <2>5, <1>1
  <1> QED BY <1>7, <1>8, <1>9, <1>10, <1>11, <1>12 DEF LeaseInv

\* Subscribing anew starts with a row id nothing refers to.
LEMMA SubscribeStep ==
    ASSUME TypeInv, TypeInv', LeaseInv,
           NEW s \in Subscriber, NEW p \in Prefs, Subscribe(s, p)
    PROVE  LeaseInv'
  <1>0. /\ \A t \in Subscriber : row[t] \in Row /\ row[t].id \in Nat
        /\ now \in Nat \ {0} /\ nextId \in Nat \ {0}
        /\ \A h \in history : h.id \in Nat
        /\ \A g \in grants : g.id \in Nat
    BY DEF TypeInv, TypeOK, Record, Grant, Row
  <1>1. /\ row'[s] = NewRow(nextId, p, now)
        /\ \A t \in Subscriber : t # s => row'[t] = row[t]
        /\ nextId' = nextId + 1
        /\ UNCHANGED <<now, history, grants>>
    BY DEF Subscribe, TypeInv, TypeOK
  <1>2. row'[s].id = nextId /\ row'[s].lock = NoLock /\ row'[s].lastSent = 0
    BY <1>0, <1>1, RowColumns
  <1>3. IdsGivenOut'
    BY <1>0, <1>1, <1>2 DEF LeaseInv, IdsGivenOut, Exists
  <1>4. NothingFromTheFuture'
    BY <1>0, <1>1, <1>2 DEF LeaseInv, NothingFromTheFuture
  <1>5. LockIsFresh'
    BY <1>1, <1>2 DEF LeaseInv, LockIsFresh, Exists
  <1>6. LeaseIsForANewDate'
    <2>1. \A h \in history : h.id # nextId
      BY <1>0 DEF LeaseInv, IdsGivenOut
    <2> QED BY <2>1, <1>1, <1>2 DEF LeaseInv, LeaseIsForANewDate, Exists
  <1>7. OneRecordPerLock' /\ OneRecordPerLocalDay'
    BY <1>1 DEF LeaseInv, OneRecordPerLock, OneRecordPerLocalDay
  <1> QED BY <1>3, <1>4, <1>5, <1>6, <1>7 DEF LeaseInv

\* Unsubscribing leaves nothing behind that refers to the row.
LEMMA DeleteStep ==
    ASSUME TypeInv, TypeInv', LeaseInv, NEW s \in Subscriber, Delete(s)
    PROVE  LeaseInv'
  <1>0. /\ \A t \in Subscriber : row[t] \in Row
        /\ now \in Nat \ {0} /\ nextId \in Nat \ {0}
    BY DEF TypeInv, TypeOK
  <1>1. /\ row'[s] = NoRow
        /\ \A t \in Subscriber : t # s => row'[t] = row[t]
        /\ UNCHANGED <<now, nextId, history, grants>>
    BY DEF Delete, TypeInv, TypeOK
  <1>2. row'[s].id = 0 /\ row'[s].lock = NoLock /\ row'[s].lastSent = 0
    BY <1>1 DEF NoRow, Null
  <1>3. IdsGivenOut'
    BY <1>0, <1>1, <1>2 DEF LeaseInv, IdsGivenOut, Exists
  <1>4. NothingFromTheFuture'
    BY <1>0, <1>1, <1>2 DEF LeaseInv, NothingFromTheFuture
  <1>5. LockIsFresh'
    BY <1>1, <1>2 DEF LeaseInv, LockIsFresh, Exists
  <1>6. LeaseIsForANewDate'
    BY <1>1, <1>2 DEF LeaseInv, LeaseIsForANewDate, Exists
  <1>7. OneRecordPerLock' /\ OneRecordPerLocalDay'
    BY <1>1 DEF LeaseInv, OneRecordPerLock, OneRecordPerLocalDay
  <1> QED BY <1>3, <1>4, <1>5, <1>6, <1>7 DEF LeaseInv

\* The lease invariant holds in every reachable state: a held lock is fresh and
\* was granted on a later local date than every delivery recorded for its row.
THEOREM LeaseIsSafe == Spec => []LeaseInv
  <1>1. Init => LeaseInv
    <2>1. Init => /\ \A s \in Subscriber : row[s] = NoRow
                  /\ now = 1 /\ nextId = 1 /\ history = {} /\ grants = {}
      BY DEF Init
    <2>2. NoRow.id = 0 /\ NoRow.lock = NoLock /\ NoRow.lastSent = 0
      BY DEF NoRow, Null
    <2> QED BY <2>1, <2>2 DEF LeaseInv, IdsGivenOut, NothingFromTheFuture,
                              LockIsFresh, LeaseIsForANewDate, OneRecordPerLock,
                              OneRecordPerLocalDay, Exists
  <1>2. TypeInv /\ TypeInv' /\ LeaseInv /\ [Next]_leaseVars => LeaseInv'
    <2> SUFFICES ASSUME TypeInv, TypeInv', LeaseInv, [Next]_leaseVars
                 PROVE  LeaseInv'
      OBVIOUS
    <2>0. \A s \in Subscriber : row[s] \in Row /\ now \in Nat
      BY DEF TypeInv, TypeOK
    <2>1. CASE Tick
      <3>1. /\ now \in Nat /\ now' = now + 1
            /\ \A s \in Subscriber : row[s].lastSent \in Nat
            /\ \A h \in history : h.at \in Nat
            /\ \A g \in grants : g.at \in Nat
        BY <2>1, <2>0 DEF Tick, TypeInv, TypeOK, Record, Grant, Row
      <3>2. NothingFromTheFuture'
        BY <2>1, <3>1 DEF Tick, LeaseInv, NothingFromTheFuture
      <3> QED BY <2>1, <3>2 DEF Tick, LeaseInv, IdsGivenOut, LockIsFresh,
                                LeaseIsForANewDate, OneRecordPerLock,
                                OneRecordPerLocalDay, Exists
    <2>2. ASSUME NEW s \in Subscriber, NEW p \in Prefs, Change(s, p)
          PROVE  LeaseInv'
      <3>1. SameLease(row'[s], row[s])
        BY <2>0, <2>2, RowColumns DEF Change, TypeInv, TypeOK
      <3>2. \A t \in Subscriber : t # s => row'[t] = row[t]
        BY <2>2 DEF Change
      <3> QED BY <2>2, <3>1, <3>2, QuietUpdate DEF Change, SameLease
    <2>3. ASSUME NEW s \in Subscriber, MarkSent(s) PROVE LeaseInv'
      <3>1. /\ row'[s].id = row[s].id /\ row'[s].lock = row[s].lock
            /\ row'[s].lastSent = now
        BY <2>0, <2>3, RowColumns DEF MarkSent, TypeInv, TypeOK
      <3>2. \A t \in Subscriber : t # s => row'[t] = row[t]
        BY <2>3 DEF MarkSent
      <3> QED BY <2>3, <3>1, <3>2, QuietUpdate DEF MarkSent
    <2>4. ASSUME NEW s \in Subscriber, NEW lock \in Issued, AckFailed(s, lock)
          PROVE  LeaseInv'
      <3>1. /\ row'[s].id = row[s].id /\ row'[s].lock = NoLock
            /\ row'[s].lastSent = row[s].lastSent
        BY <2>0, <2>4, RowColumns DEF AckFailed, TypeInv, TypeOK
      <3>2. \A t \in Subscriber : t # s => row'[t] = row[t]
        BY <2>4 DEF AckFailed
      <3> QED BY <2>4, <3>1, <3>2, QuietUpdate DEF AckFailed
    <2>5. CASE UNCHANGED leaseVars
      BY <2>5 DEF leaseVars, LeaseInv, IdsGivenOut, NothingFromTheFuture, LockIsFresh,
                  LeaseIsForANewDate, OneRecordPerLock, OneRecordPerLocalDay, Exists
    <2> QED BY <2>1, <2>2, <2>3, <2>4, <2>5, ClaimStep, AckSentStep, SubscribeStep,
               DeleteStep DEF Next, UserRequest, DoClaim, Ack
  <1> QED BY <1>1, <1>2, TypeInvHolds, PTL DEF Spec

\* The SQL prefilter of the due and claim queries never hides a subscription
\* that _is_subscription_due would report.
THEOREM PrefilterComplete == Spec => []PrefilterKeepsDue
  <1>1. TypeInv => PrefilterKeepsDue
    <2> SUFFICES ASSUME TypeInv, NEW s \in Subscriber, IsDue(row[s], now)
                 PROVE  row[s].weekday \in CandidateWeekdays(now)
      BY DEF PrefilterKeepsDue
    <2> DEFINE d == LocalDate(now, 0)
               e == LocalDate(now, row[s].zone)
    <2>1. row[s] \in Row /\ now \in Int
      BY DEF TypeInv, TypeOK
    <2>2. row[s].zone \in (-DayLen)..DayLen
      BY <2>1 DEF Row, Zone
    <2>3. e \in {d - 1, d, d + 1}
      BY <2>1, <2>2, LocalDateNearUtc
    <2>4. d \in Int
      BY <2>1, LocalDateMonotone
    <2>5. row[s].weekday = e % WeekLen
      BY DEF IsDue, LocalWeekday
    <2>6. CandidateWeekdays(now) = { ((d % WeekLen) - 1) % WeekLen, d % WeekLen,
                                     ((d % WeekLen) + 1) % WeekLen }
      BY DEF CandidateWeekdays, LocalWeekday
    <2> HIDE DEF d, e
    <2>7. CASE e = d - 1
      BY <2>4, <2>5, <2>6, <2>7, NeighbouringWeekdays
    <2>8. CASE e = d
      BY <2>5, <2>6, <2>8
    <2>9. CASE e = d + 1
      BY <2>4, <2>5, <2>6, <2>9, NeighbouringWeekdays
    <2> QED BY <2>3, <2>7, <2>8, <2>9
  <1> QED BY <1>1, TypeInvHolds, PTL

\* The two promises about digest_history, for every instance.
THEOREM OncePerLocalDay == Spec => [](OneRecordPerLocalDay /\ OneRecordPerLock)
  <1>1. LeaseInv => OneRecordPerLocalDay /\ OneRecordPerLock
    BY DEF LeaseInv
  <1> QED BY <1>1, LeaseIsSafe, PTL

-----------------------------------------------------------------------------
(* The attempts between two recorded deliveries                            *)

\* The attempts a row spends until a delivery is recorded for it are numbered: no two
\* claims share a number, and the row remembers the highest one.
AttemptsInv ==
    /\ \A g \in grants : /\ g.attempt \in 1..MaxAttempt
                         /\ g.epoch <= Cardinality(Recorded(g.id))
    /\ \A s \in Subscriber, g \in grants :
          (/\ Exists(s) /\ g.id = row[s].id
           /\ g.epoch = Cardinality(Recorded(g.id))) => g.attempt <= row[s].attempt
    /\ \A g1, g2 \in grants :
          (g1.id = g2.id /\ g1.epoch = g2.epoch /\ g1.attempt = g2.attempt) => g1 = g2

\* A handler that records and leases nothing, and takes no attempts back.
LEMMA AttemptsKept ==
    ASSUME TypeInv, LeaseInv, AttemptsInv, UNCHANGED <<history, grants>>,
           NEW s \in Subscriber, \A t \in Subscriber : t # s => row'[t] = row[t],
           row'[s].id # 0 => \/ row'[s].id = nextId
                             \/ row'[s].id = row[s].id /\ row'[s].attempt = row[s].attempt
    PROVE  AttemptsInv'
<1>1. \A id : Recorded(id)' = Recorded(id)
  BY DEF Recorded
<1>2. \A g \in grants : g.id < nextId /\ g.id \in Nat /\ nextId \in Nat
  BY DEF LeaseInv, IdsGivenOut, TypeInv, TypeOK, Grant
<1>3. \A t \in Subscriber, g \in grants :
        (/\ row'[t].id # 0 /\ g.id = row'[t].id
         /\ g.epoch = Cardinality(Recorded(g.id))) => g.attempt <= row'[t].attempt
  BY <1>2 DEF AttemptsInv, Exists
<1> QED BY <1>1, <1>3 DEF AttemptsInv, Exists

\* A claim takes the next number, and only while the limit is not reached.
LEMMA AttemptsClaimed ==
    ASSUME TypeInv, LeaseInv, AttemptsInv, NEW choice, Claim(choice) PROVE AttemptsInv'
<1> DEFINE new(s) == GrantOf(s, row[s], choice[s], now)
<1>0. row \in [Subscriber -> Row] /\ MaxAttempt \in Nat
  BY LeaseAssumption DEF TypeInv, TypeOK
<1>1. /\ history' = history /\ grants' = grants \cup { new(s) : s \in ClaimableSet }
      /\ row' = [s \in Subscriber |-> IF s \in ClaimableSet THEN Leased(row[s], choice[s], now)
                                      ELSE row[s]]
  BY DEF Claim
<1>2. \A s \in ClaimableSet :
        /\ s \in Subscriber /\ row[s].id # 0 /\ row[s].attempt \in Nat
        /\ row[s].attempt < MaxAttempt
        /\ row'[s].id = row[s].id /\ row'[s].attempt = row[s].attempt + 1
        /\ new(s).id = row[s].id /\ new(s).attempt = row[s].attempt + 1
        /\ new(s).epoch = Cardinality(Recorded(row[s].id))
  <2> TAKE s \in ClaimableSet
  <2>1. s \in Subscriber /\ row[s] \in Row /\ ClaimableRow(row[s], now)
    BY <1>0 DEF ClaimableSet, Claimable
  <2>2. row'[s] = Leased(row[s], choice[s], now)
    BY <1>1, <2>1
  <2> QED BY <2>1, <2>2 DEF ClaimableRow, Leased, Stamped, Row, GrantOf
<1>3. \A id : Recorded(id)' = Recorded(id) /\ Cardinality(Recorded(id)) \in Nat
  <2> TAKE id
  <2>1. IsFiniteSet(Recorded(id))
    BY FS_Subset DEF Recorded, TypeInv
  <2> QED BY <1>1, <2>1, FS_CardinalityType DEF Recorded
<1>4. \A s \in Subscriber : s \notin ClaimableSet => row'[s] = row[s]
  BY <1>1
<1>5. \A s \in ClaimableSet, g \in grants :
        (g.id = row[s].id /\ g.epoch = Cardinality(Recorded(g.id))) => g.attempt <= row[s].attempt
  BY <1>2 DEF AttemptsInv, Exists
<1>6. \A g \in grants : g.attempt \in Nat
  BY DEF TypeInv, TypeOK, Grant
<1>7. \A s, t \in ClaimableSet : row[s].id = row[t].id => s = t
  BY <1>2 DEF LeaseInv, IdsGivenOut, Exists
<1> HIDE DEF new
<1>8. \A g \in grants' : g.attempt \in 1..MaxAttempt /\ g.epoch <= Cardinality(Recorded(g.id)')
  BY <1>1, <1>2, <1>3, <1>0 DEF AttemptsInv
<1>9. ASSUME NEW s \in Subscriber, NEW g \in grants', row'[s].id # 0, g.id = row'[s].id,
             g.epoch = Cardinality(Recorded(g.id)')
      PROVE  g.attempt <= row'[s].attempt
  <2>1. CASE s \in ClaimableSet /\ g \in grants
    BY <1>2, <1>3, <1>5, <1>6, <1>9, <2>1
  <2>2. CASE s \notin ClaimableSet /\ g \in grants
    BY <1>3, <1>4, <1>9, <2>2 DEF AttemptsInv, Exists
  <2>3. CASE g \notin grants
    <3>1. PICK t \in ClaimableSet : g = new(t)
      BY <1>1, <2>3
    <3>2. row'[s].id = row[s].id
      BY <1>2, <1>4
    <3>3. s = t
      BY <1>2, <1>9, <3>1, <3>2 DEF LeaseInv, IdsGivenOut, Exists
    <3> QED BY <1>2, <3>1, <3>3
  <2> QED BY <2>1, <2>2, <2>3
<1>10. ASSUME NEW g1 \in grants', NEW g2 \in grants',
              g1.id = g2.id, g1.epoch = g2.epoch, g1.attempt = g2.attempt
       PROVE  g1 = g2
  <2>1. \A s \in ClaimableSet, g \in grants :
          ~(g.id = new(s).id /\ g.epoch = new(s).epoch /\ g.attempt = new(s).attempt)
    BY <1>2, <1>5, <1>6
  <2>2. \A s, t \in ClaimableSet : new(s).id = new(t).id => s = t
    BY <1>2, <1>7
  <2>3. CASE g1 \in grants /\ g2 \in grants
    BY <1>10, <2>3 DEF AttemptsInv
  <2> QED BY <1>1, <1>10, <2>1, <2>2, <2>3
<1> QED BY <1>8, <1>9, <1>10 DEF AttemptsInv, Exists

\* A recorded delivery starts a new count for its row and leaves the others alone.
LEMMA AttemptsRecorded ==
    ASSUME TypeInv, LeaseInv, AttemptsInv,
           NEW s \in Subscriber, NEW lock \in Issued, AckSent(s, lock)
    PROVE  AttemptsInv'
<1> DEFINE new == RecordOf(s, row[s], lock, now)
<1>1. /\ row \in [Subscriber -> Row] /\ row[s] \in Row /\ lock # NoLock
      /\ row[s].id # 0 /\ row[s].lock = lock
      /\ history' = history \cup {new} /\ grants' = grants
      /\ \A t \in Subscriber : t # s => row'[t] = row[t]
  BY LeaseAssumption DEF AckSent, HoldsLease, Exists, TypeInv, TypeOK, Issued, Grant
<1>2. row'[s].id = row[s].id
  <2>1. row'[s] = AckedSent(row[s], now)
    BY <1>1 DEF AckSent
  <2> QED BY <1>1, <2>1 DEF AckedSent, Stamped, Row
<1>3. new.id = row[s].id /\ new.lock = lock /\ new \notin history
  BY <1>1 DEF RecordOf, LeaseInv, LockIsFresh
<1> HIDE DEF new
<1>4. \A id : IsFiniteSet(Recorded(id)) /\ Cardinality(Recorded(id)) \in Nat
  <2> TAKE id
  <2>1. IsFiniteSet(Recorded(id))
    BY FS_Subset DEF Recorded, TypeInv
  <2> QED BY <2>1, FS_CardinalityType
<1>5. \A id : id # row[s].id => Recorded(id)' = Recorded(id)
  BY <1>1, <1>3 DEF Recorded
<1>6. \A id : id = row[s].id => Cardinality(Recorded(id)') = Cardinality(Recorded(id)) + 1
  <2> TAKE id
  <2> SUFFICES ASSUME id = row[s].id
               PROVE  Cardinality(Recorded(id)') = Cardinality(Recorded(id)) + 1
    OBVIOUS
  <2>1. Recorded(id)' = Recorded(id) \cup {new} /\ new \notin Recorded(id)
    BY <1>1, <1>3 DEF Recorded
  <2> QED BY <1>4, <2>1, FS_AddElement
<1>7. \A g \in grants : g.epoch <= Cardinality(Recorded(g.id)) /\ g.epoch \in Nat
  BY DEF AttemptsInv, TypeInv, TypeOK, Grant
<1>8. \A g \in grants : g.epoch <= Cardinality(Recorded(g.id)')
  <2> TAKE g \in grants
  <2>1. CASE g.id = row[s].id
    BY <1>4, <1>6, <1>7, <2>1
  <2>2. CASE g.id # row[s].id
    BY <1>5, <1>7, <2>2
  <2> QED BY <2>1, <2>2
<1>9. ASSUME NEW t \in Subscriber, NEW g \in grants, row'[t].id # 0, g.id = row'[t].id,
             g.epoch = Cardinality(Recorded(g.id)')
      PROVE  g.attempt <= row'[t].attempt
  <2>1. g.id # row[s].id
    BY <1>4, <1>6, <1>7, <1>9
  <2>2. t # s /\ row'[t] = row[t]
    BY <1>1, <1>2, <1>9, <2>1
  <2> QED BY <1>5, <1>9, <2>1, <2>2 DEF AttemptsInv, Exists
<1> QED BY <1>1, <1>8, <1>9 DEF AttemptsInv, Exists

\* The handlers that count no attempts.
LEMMA AttemptColumns ==
    ASSUME NEW r \in Row, NEW t \in Nat
    PROVE  /\ \A p : Stamped(WithPrefs(r, p), t).attempt = r.attempt
           /\ AckedFailed(r, t).attempt = r.attempt
           /\ MarkedSent(r, t).attempt = r.attempt
BY DEF WithPrefs, AckedFailed, MarkedSent, Stamped, Row

LEMMA AttemptsStep ==
    ASSUME TypeInv, LeaseInv, AttemptsInv, [Next]_leaseVars PROVE AttemptsInv'
<1>0. /\ row \in [Subscriber -> Row] /\ now \in Nat
      /\ \A s \in Subscriber : row[s] \in Row
  BY DEF TypeInv, TypeOK
<1>1. CASE Tick \/ UNCHANGED leaseVars
  BY <1>1 DEF Tick, leaseVars, AttemptsInv, Exists, Recorded
<1>2. ASSUME NEW s \in Subscriber, NEW p \in Prefs, Subscribe(s, p) PROVE AttemptsInv'
  <2>1. row'[s].id = nextId /\ \A t \in Subscriber : t # s => row'[t] = row[t]
    BY <1>0, <1>2, RowColumns DEF Subscribe
  <2> QED BY <1>2, <2>1, AttemptsKept DEF Subscribe
<1>3. ASSUME NEW s \in Subscriber, NEW new \in Row, row' = [row EXCEPT ![s] = new],
             new.id # 0 => new.id = row[s].id /\ new.attempt = row[s].attempt,
             UNCHANGED <<history, grants>>
      PROVE  AttemptsInv'
  <2>1. row'[s] = new /\ \A t \in Subscriber : t # s => row'[t] = row[t]
    BY <1>0, <1>3
  <2> QED BY <1>3, <2>1, AttemptsKept
<1>4. ASSUME NEW s \in Subscriber, NEW p \in Prefs, Change(s, p) PROVE AttemptsInv'
  <2> DEFINE new == Stamped(WithPrefs(row[s], p), now)
  <2>1. new \in Row /\ new.id = row[s].id /\ new.attempt = row[s].attempt
    BY <1>0, PrefTypes, RowColumns, AttemptColumns DEF SameLease
  <2>2. row' = [row EXCEPT ![s] = new] /\ UNCHANGED <<history, grants>>
    BY <1>4 DEF Change
  <2> HIDE DEF new
  <2> QED BY <1>3, <2>1, <2>2
<1>5. ASSUME NEW s \in Subscriber, MarkSent(s) PROVE AttemptsInv'
  <2> DEFINE new == MarkedSent(row[s], now)
  <2>1. new \in Row /\ new.id = row[s].id /\ new.attempt = row[s].attempt
    BY <1>0, RowTypes, RowColumns, AttemptColumns
  <2>2. row' = [row EXCEPT ![s] = new] /\ UNCHANGED <<history, grants>>
    BY <1>5 DEF MarkSent
  <2> HIDE DEF new
  <2> QED BY <1>3, <2>1, <2>2
<1>6. ASSUME NEW s \in Subscriber, NEW lock, AckFailed(s, lock) PROVE AttemptsInv'
  <2> DEFINE new == AckedFailed(row[s], now)
  <2>1. new \in Row /\ new.id = row[s].id /\ new.attempt = row[s].attempt
    BY <1>0, RowTypes, RowColumns, AttemptColumns
  <2>2. row' = [row EXCEPT ![s] = new] /\ UNCHANGED <<history, grants>>
    BY <1>6 DEF AckFailed
  <2> HIDE DEF new
  <2> QED BY <1>3, <2>1, <2>2
<1>7. ASSUME NEW s \in Subscriber, Delete(s) PROVE AttemptsInv'
  <2>1. NoRow \in Row /\ NoRow.id = 0
    BY <1>0, RowTypes DEF NoRow
  <2> QED BY <1>3, <1>7, <2>1 DEF Delete
<1> QED BY <1>1, <1>2, <1>4, <1>5, <1>6, <1>7, AttemptsClaimed, AttemptsRecorded
        DEF Next, DoClaim, UserRequest, Ack

\* Whatever the clients do, a row spends at most MaxAttempt claims on one recorded delivery,
\* and each of them under a number of its own.
THEOREM AttemptsAreNumbered == Spec => []AttemptsInv
<1>1. Init => AttemptsInv
  BY DEF Init, AttemptsInv
<1>2. TypeInv /\ LeaseInv /\ AttemptsInv /\ [Next]_leaseVars => AttemptsInv'
  BY AttemptsStep
<1> QED BY <1>1, <1>2, TypeInvHolds, LeaseIsSafe, PTL DEF Spec

-----------------------------------------------------------------------------
(* Giving up                                                               *)

\* A handler leaves a given-up row given up as long as it keeps the id, the attempts and
\* the lock.
LEMMA KeepsGivenUp ==
    ASSUME NEW r, NEW x, GivenUp(r), x.id = r.id, x.attempt = r.attempt, x.lock = r.lock
    PROVE  GivenUp(x)
BY DEF GivenUp

\* A row out of attempts and out of lease is claimed by nobody and acknowledged by nobody,
\* and changed settings give it no new attempts.
THEOREM GivenUpForGood == Spec => GivingUpIsFinal
<1>1. ASSUME TypeInv, [Next]_leaseVars, NEW s \in Subscriber, GivenUp(row[s]),
             row'[s].id = row[s].id
      PROVE  GivenUp(row'[s])
  <2>0. /\ row \in [Subscriber -> Row] /\ row[s] \in Row /\ now \in Nat
        /\ row[s].id # 0 /\ row[s].lock = NoLock /\ row[s].attempt \in Nat
        /\ ~(row[s].attempt < MaxAttempt)
    BY <1>1, LeaseAssumption DEF TypeInv, TypeOK, GivenUp, Row
  <2>1. CASE row'[s] = row[s]
    BY <1>1, <2>1
  <2>2. ASSUME NEW choice, Claim(choice) PROVE row'[s] = row[s]
    BY <2>0, <2>2 DEF Claim, ClaimableSet, Claimable, ClaimableRow
  <2>3. ASSUME NEW u \in Subscriber, NEW p \in Prefs, Subscribe(u, p)
        PROVE  row'[s] = row[s]
    BY <2>0, <2>3 DEF Subscribe, Exists
  <2>4. ASSUME NEW u \in Subscriber, NEW p \in Prefs, Change(u, p)
        PROVE  GivenUp(row'[s])
    <3>1. row'[s] = row[s] \/ row'[s] = Stamped(WithPrefs(row[s], p), now)
      BY <2>0, <2>4 DEF Change
    <3>2. /\ Stamped(WithPrefs(row[s], p), now).id = row[s].id
          /\ Stamped(WithPrefs(row[s], p), now).attempt = row[s].attempt
          /\ Stamped(WithPrefs(row[s], p), now).lock = row[s].lock
      BY <2>0 DEF Stamped, WithPrefs, Row
    <3> QED BY <1>1, <3>1, <3>2, KeepsGivenUp
  <2>5. ASSUME NEW u \in Subscriber, Delete(u) PROVE row'[s] = row[s]
    BY <1>1, <2>0, <2>5 DEF Delete, NoRow
  <2>6. ASSUME NEW u \in Subscriber, MarkSent(u) PROVE GivenUp(row'[s])
    <3>1. row'[s] = row[s] \/ row'[s] = MarkedSent(row[s], now)
      BY <2>0, <2>6 DEF MarkSent
    <3>2. /\ MarkedSent(row[s], now).id = row[s].id
          /\ MarkedSent(row[s], now).attempt = row[s].attempt
          /\ MarkedSent(row[s], now).lock = row[s].lock
      BY <2>0 DEF MarkedSent, Stamped, Row
    <3> QED BY <1>1, <3>1, <3>2, KeepsGivenUp
  <2>7. ASSUME NEW u \in Subscriber, NEW lock \in Issued, Ack(u, lock)
        PROVE  row'[s] = row[s]
    <3>1. lock # NoLock
      BY <1>1, LeaseAssumption DEF Issued, TypeInv, TypeOK, Grant
    <3>2. u # s
      BY <2>0, <2>7, <3>1 DEF Ack, AckSent, AckFailed, HoldsLease
    <3> QED BY <2>0, <2>7, <3>2 DEF Ack, AckSent, AckFailed
  <2>8. CASE UNCHANGED row
    BY <1>1, <2>8
  <2> QED BY <1>1, <2>1, <2>2, <2>3, <2>4, <2>5, <2>6, <2>7, <2>8
          DEF Next, Tick, DoClaim, UserRequest, leaseVars
<1>2. TypeInv /\ [Next]_leaseVars
        => [\A s \in Subscriber :
              (GivenUp(row[s]) /\ row'[s].id = row[s].id) => GivenUp(row'[s])]_leaseVars
  BY <1>1
<1> QED BY <1>2, TypeInvHolds, PTL DEF Spec, GivingUpIsFinal

-----------------------------------------------------------------------------
(* Overlapping transactions: what an open one has decided                  *)

\* A transaction about the row of one subscriber.
About(t, s, op, new, record) ==
    /\ t.op = op /\ t.touched = {s} /\ t.granted = {} /\ t.record = record
    /\ t.new = [t.seen EXCEPT ![s] = new]

WithPrefsAt(r, p) == IF WithPrefs(r, p) = r THEN r ELSE Stamped(WithPrefs(r, p), now)

IsSubscribe(t, s) ==
    /\ t.seen[s].id = 0
    /\ \E p \in Prefs, id \in Nat : About(t, s, "insert", NewRow(id, p, now), {})

IsDelete(t, s) == t.seen[s].id # 0 /\ About(t, s, "delete", NoRow, {})

IsChange(t, s) ==
    /\ t.seen[s].id # 0
    /\ \E p \in Prefs : About(t, s, "update", WithPrefsAt(t.seen[s], p), {})

IsMark(t, s) == t.seen[s].id # 0 /\ About(t, s, "update", MarkedSent(t.seen[s], now), {})

IsAckSent(t, s) ==
    /\ t.seen[s].id # 0 /\ t.seen[s].lock \in Issued
    /\ About(t, s, "update", AckedSent(t.seen[s], now),
             {RecordOf(s, t.seen[s], t.seen[s].lock, now)})

IsAckFailed(t, s) ==
    /\ t.seen[s].id # 0 /\ t.seen[s].lock \in Issued
    /\ About(t, s, "update", AckedFailed(t.seen[s], now), {})

\* The rows a claim found claimable, and the lease of one of them.
Due(t) == { s \in Subscriber : ClaimableRow(t.seen[s], now) }

LeaseOf(s, r, lock, epoch) ==
    [ sub |-> s, id |-> r.id, lock |-> lock, zone |-> r.zone, at |-> now,
      attempt |-> r.attempt + 1, epoch |-> epoch ]

ClaimsWith(t, choice, epoch) ==
    /\ \A s, u \in Due(t) : choice[s] = choice[u] => s = u
    /\ t.new = [s \in Subscriber |-> IF s \in Due(t) THEN Leased(t.seen[s], choice[s], now)
                                     ELSE t.seen[s]]
    /\ t.granted = { LeaseOf(s, t.seen[s], choice[s], epoch[s]) : s \in Due(t) }

IsClaim(t) ==
    /\ t.op = "update" /\ t.touched = Due(t) /\ t.touched # {} /\ t.record = {}
    /\ \E choice \in [Due(t) -> Lock], epoch \in [Due(t) -> Nat] : ClaimsWith(t, choice, epoch)

\* Every open transaction is one of the handlers', on the rows it has seen.
Made(t) ==
    \/ \E s \in Subscriber :
          \/ IsSubscribe(t, s) \/ IsDelete(t, s) \/ IsChange(t, s)
          \/ IsMark(t, s) \/ IsAckSent(t, s) \/ IsAckFailed(t, s)
    \/ IsClaim(t)

-----------------------------------------------------------------------------
(* Overlapping transactions: the inductive invariant                       *)

\* The rows and the history, whatever transactions have merged.
MergedInv ==
    /\ \A s \in Subscriber : row[s].id < nextId /\ row[s].lastSent <= now
    /\ \A s, u \in Subscriber : row[s].id # 0 /\ row[s].id = row[u].id => s = u
    /\ \A h \in history : h.id # 0 /\ h.id < nextId /\ h.at <= now
    /\ \A s \in Subscriber : row[s].lock \in Issued \cup {NoLock}

\* What an open transaction has seen was so: its rows existed, within the limits, and a row
\* that is still there has not lost a delivery since.
SeenInv ==
    \A t \in open : \A s \in Subscriber :
        /\ t.seen[s].id < nextId /\ t.seen[s].attempt <= MaxAttempt
        /\ t.seen[s].lastSent <= now /\ t.seen[s].lock \in Issued \cup {NoLock}
        /\ t.seen[s].id # 0 /\ t.seen[s].id = row[s].id => t.seen[s].lastSent <= row[s].lastSent

\* A drawn lock is not issued, and no other transaction has drawn it.
DrawnInv ==
    /\ \A t \in open : \A g \in t.granted : g.lock \notin Issued
    /\ \A t, u \in open : \A g \in t.granted, d \in u.granted : g.lock = d.lock => t = u

\* A drawn lease counts what is recorded for its row, unless a delivery has been recorded
\* since, and then the row says so.
EpochInv ==
    \A t \in open : \A g \in t.granted :
        row[g.sub].id = g.id =>
            g.epoch = Cardinality(Recorded(g.id)) \/ row[g.sub].lastSent = now

\* The histories can be counted.
Countable == IsFiniteSet(history) /\ \A t \in open : IsFiniteSet(t.record)

TxInv ==
    /\ TxTypeOK /\ Countable /\ \A t \in open : Made(t)
    /\ MergedInv /\ SeenInv /\ DrawnInv /\ EpochInv /\ NoUpdateIsLost

-----------------------------------------------------------------------------
(* Overlapping transactions: columns                                       *)

\* What each handler makes of the columns the proofs look at.
LEMMA HandlersColumns ==
    ASSUME NEW r \in Row
    PROVE  /\ \A p : LET x == WithPrefsAt(r, p) IN
                /\ x.id = r.id /\ x.lock = r.lock
                /\ x.attempt = r.attempt /\ x.lastSent = r.lastSent
           /\ LET x == MarkedSent(r, now) IN
                /\ x.id = r.id /\ x.lock = r.lock
                /\ x.attempt = r.attempt /\ x.lastSent = now
           /\ LET x == AckedSent(r, now) IN
                /\ x.id = r.id /\ x.lock = NoLock /\ x.attempt = 0 /\ x.lastSent = now
           /\ LET x == AckedFailed(r, now) IN
                /\ x.id = r.id /\ x.lock = NoLock
                /\ x.attempt = r.attempt /\ x.lastSent = r.lastSent
           /\ \A lock : LET x == Leased(r, lock, now) IN
                /\ x.id = r.id /\ x.lock = lock
                /\ x.attempt = r.attempt + 1 /\ x.lastSent = r.lastSent
           /\ \A p, id : LET x == NewRow(id, p, now) IN
                /\ x.id = id /\ x.lock = NoLock /\ x.attempt = 0 /\ x.lastSent = 0
BY DEF WithPrefsAt, WithPrefs, MarkedSent, AckedSent, AckedFailed, Leased, NewRow, NoRow,
       Stamped, Row, Null

\* Only the id of a new row depends on the id.
LEMMA NewRowTakesId ==
    ASSUME NEW p, NEW id, NEW next
    PROVE  [NewRow(id, p, now) EXCEPT !.id = next] = NewRow(next, p, now)
BY DEF NewRow, WithPrefs, NoRow, Stamped

\* An UPDATE writes a row: each column is the new value, or what is stored.
LEMMA UpdateWrites ==
    ASSUME NEW t \in Transaction, t.op = "update", NEW s \in Subscriber, row[s] \in Row
    PROVE  /\ Written(t, s) \in Row
           /\ \A c \in {"id", "lock", "attempt", "lastSent"} :
                 Written(t, s)[c] = IF t.new[s][c] # t.seen[s][c] THEN t.new[s][c]
                                    ELSE row[s][c]
           /\ t.seen[s] = row[s] => Written(t, s) = t.new[s]
<1> DEFINE x == t.new[s]
           y == t.seen[s]
           z == row[s]
           w(c) == IF x[c] # y[c] THEN x[c] ELSE z[c]
<1>1. x \in Row /\ y \in Row /\ z \in Row
  BY DEF Transaction
<1>2. Columns = { "id", "active", "weekday", "time", "zone", "lock", "attempt",
                  "lastSent", "backoff", "updatedAt" }
  BY DEF Columns, NoRow
<1>3. Written(t, s) = [c \in Columns |-> w(c)]
  BY DEF Written
<1>4. /\ w("id") \in Nat /\ w("active") \in BOOLEAN /\ w("weekday") \in Nat
      /\ w("time") \in Nat /\ w("zone") \in Zone /\ w("lock") \in Lock \cup {NoLock}
      /\ w("attempt") \in Nat /\ w("lastSent") \in Nat /\ w("backoff") \in Nat
      /\ w("updatedAt") \in Nat
  <2> HIDE DEF x, y, z
  <2> QED BY <1>1 DEF Row
<1>5. t.seen[s] = row[s] => \A c \in Columns : w(c) = x[c]
  OBVIOUS
<1>6. x = [c \in Columns |-> x[c]]
  <2> HIDE DEF x
  <2> QED BY <1>1, <1>2 DEF Row
<1> HIDE DEF w, x
<1>7. [c \in Columns |-> w(c)] =
        [ id |-> w("id"), active |-> w("active"), weekday |-> w("weekday"),
          time |-> w("time"), zone |-> w("zone"), lock |-> w("lock"),
          attempt |-> w("attempt"), lastSent |-> w("lastSent"), backoff |-> w("backoff"),
          updatedAt |-> w("updatedAt") ]
  BY <1>2
<1>8. Written(t, s) \in Row
  BY <1>3, <1>4, <1>7 DEF Row
<1>9. \A c \in {"id", "lock", "attempt", "lastSent"} : Written(t, s)[c] = w(c)
  BY <1>2, <1>3
<1>10. t.seen[s] = row[s] => Written(t, s) = x
  BY <1>3, <1>5, <1>6
<1> QED BY <1>8, <1>9, <1>10 DEF w, x

-----------------------------------------------------------------------------
(* Overlapping transactions: a request begins                              *)

\* Time stands still while a transaction is open, and locks stay issued.
LEMMA MadeStays ==
    ASSUME NEW t, Made(t), now' = now, Issued \subseteq Issued'
    PROVE  Made(t)'
<1>1. Due(t)' = Due(t)
  BY DEF Due
<1>2. \A choice, epoch : ClaimsWith(t, choice, epoch)' <=> ClaimsWith(t, choice, epoch)
  BY <1>1 DEF ClaimsWith, LeaseOf
<1>3. IsClaim(t) => IsClaim(t)'
  BY <1>1, <1>2 DEF IsClaim
<1>4. ASSUME NEW s \in Subscriber
      PROVE  /\ IsSubscribe(t, s) => IsSubscribe(t, s)'
             /\ IsDelete(t, s) => IsDelete(t, s)'
             /\ IsChange(t, s) => IsChange(t, s)'
             /\ IsMark(t, s) => IsMark(t, s)'
             /\ IsAckSent(t, s) => IsAckSent(t, s)'
             /\ IsAckFailed(t, s) => IsAckFailed(t, s)'
  BY DEF IsSubscribe, IsDelete, IsChange, IsMark, IsAckSent, IsAckFailed, About, WithPrefsAt
<1> QED BY <1>3, <1>4 DEF Made

\* A transaction that has seen the stored rows, and has drawn fresh locks, may begin.
Begun(t) ==
    /\ t \in Transaction /\ t.seen = row /\ Made(t) /\ IsFiniteSet(t.record)
    /\ \A g \in t.granted : g.lock \notin Drawn /\ g.epoch = Cardinality(Recorded(g.id))
    /\ open' = open \cup {t} /\ UNCHANGED leaseVars

LEMMA BeginKeeps == ASSUME TxInv, NEW t, Begun(t) PROVE TxInv'
<1>1. /\ open' = open \cup {t} /\ now' = now /\ row' = row /\ nextId' = nextId
      /\ history' = history /\ grants' = grants /\ t.seen = row
  BY DEF Begun, leaseVars
<1>2. Issued' = Issued /\ (\A id : Recorded(id)' = Recorded(id))
  BY <1>1 DEF Issued, Recorded
<1>3. TxTypeOK'
  BY <1>1 DEF TxInv, TxTypeOK, TypeOK, Begun
<1>4. Countable'
  BY <1>1 DEF TxInv, Countable, Begun
<1>5. \A u \in open' : Made(u)'
  BY <1>1, <1>2, MadeStays DEF TxInv, Begun
<1>6. MergedInv'
  BY <1>1, <1>2 DEF TxInv, MergedInv
<1>7. SeenInv'
  <2>1. \A s \in Subscriber :
          /\ row[s].id < nextId /\ row[s].attempt <= MaxAttempt /\ row[s].lastSent <= now
          /\ row[s].lock \in Issued \cup {NoLock} /\ row[s].lastSent <= row[s].lastSent
    BY DEF TxInv, MergedInv, NoUpdateIsLost, LeaseIsCounted, TxTypeOK, TypeOK, Row
  <2> QED BY <1>1, <1>2, <2>1 DEF TxInv, SeenInv
<1>8. DrawnInv'
  <2>1. \A g \in t.granted : g.lock \notin Issued /\
          \A u \in open : \A d \in u.granted : d.lock # g.lock
    BY DEF Begun, Drawn
  <2> QED BY <1>1, <1>2, <2>1 DEF TxInv, DrawnInv
<1>9. EpochInv'
  BY <1>1, <1>2 DEF TxInv, EpochInv, Begun
<1>10. NoUpdateIsLost'
  BY <1>1 DEF TxInv, NoUpdateIsLost, LeaseIsCounted, RecordIsRemembered
<1> QED BY <1>3, <1>4, <1>5, <1>6, <1>7, <1>8, <1>9, <1>10 DEF TxInv

\* A request about one subscriber, given by what it makes of the row.
LEMMA BeginsAbout ==
    ASSUME TxInv, NEW s \in Subscriber, NEW op \in {"insert", "update", "delete"},
           NEW rows, NEW new \in Row, rows[s] = new,
           NEW record \in SUBSET Record, IsFiniteSet(record),
           Begin(op, {s}, rows, record, {}),
           \A t : t.seen = row /\ About(t, s, op, new, record) => Made(t)
    PROVE  TxInv'
<1> DEFINE t == [ op |-> op, touched |-> {s}, seen |-> row,
                  new |-> [u \in Subscriber |-> IF u \in {s} THEN rows[u] ELSE row[u]],
                  record |-> record, granted |-> {} ]
<1>1. row \in [Subscriber -> Row]
  BY DEF TxInv, TxTypeOK, TypeOK
<1>2. t.new = [row EXCEPT ![s] = new] /\ t.new \in [Subscriber -> Row]
  BY <1>1
<1>3. t \in Transaction
  BY <1>1, <1>2 DEF Transaction
<1>4. About(t, s, op, new, record)
  BY <1>2 DEF About
<1>5. open' = open \cup {t} /\ UNCHANGED leaseVars
  BY DEF Begin
<1>6. t.seen = row /\ t.record = record /\ t.granted = {}
  OBVIOUS
<1> HIDE DEF t
<1>7. Begun(t)
  BY <1>3, <1>4, <1>5, <1>6 DEF Begun
<1> QED BY <1>7, BeginKeeps

\* An issued lock is none that is missing.
LEMMA IssuedLocks == ASSUME TypeOK PROVE Issued \subseteq Lock /\ NoLock \notin Issued
BY LeaseAssumption DEF TypeOK, Issued, Grant

LEMMA UserBegins ==
    ASSUME TxInv, NEW s \in Subscriber,
           (\E p \in Prefs : BeginUpsert(s, p)) \/ BeginDelete(s) \/ BeginMarkSent(s)
    PROVE  TxInv'
<1>1. row \in [Subscriber -> Row] /\ row[s] \in Row /\ now \in Nat /\ nextId \in Nat
  BY DEF TxInv, TxTypeOK, TypeOK
<1>2. {} \in SUBSET Record /\ IsFiniteSet({})
  BY FS_EmptySet
<1>3. ASSUME NEW p \in Prefs, BeginUpsert(s, p), Exists(s) PROVE TxInv'
  <2> DEFINE new == WithPrefsAt(row[s], p)
             rows == [row EXCEPT ![s] = new]
  <2>1. new \in Row
    BY <1>1, PrefTypes DEF WithPrefsAt
  <2>2. Begin("update", {s}, rows, {}, {})
    BY <1>1, <1>3 DEF BeginUpsert, WithPrefsAt
  <2>3. rows[s] = new
    BY <1>1
  <2>4. \A t : t.seen = row /\ About(t, s, "update", new, {}) => Made(t)
    BY <1>3 DEF Made, IsChange, Exists
  <2> HIDE DEF new, rows
  <2> QED BY <1>2, <2>1, <2>2, <2>3, <2>4, BeginsAbout
<1>4. ASSUME NEW p \in Prefs, BeginUpsert(s, p), ~Exists(s) PROVE TxInv'
  <2> DEFINE new == NewRow(nextId, p, now)
             rows == [row EXCEPT ![s] = new]
  <2>1. new \in Row
    BY <1>1, PrefTypes
  <2>2. Begin("insert", {s}, rows, {}, {})
    BY <1>4 DEF BeginUpsert
  <2>3. rows[s] = new
    BY <1>1
  <2>4. \A t : t.seen = row /\ About(t, s, "insert", new, {}) => Made(t)
    BY <1>1, <1>4 DEF Made, IsSubscribe, Exists
  <2> HIDE DEF new, rows
  <2> QED BY <1>2, <2>1, <2>2, <2>3, <2>4, BeginsAbout
<1>5. ASSUME BeginDelete(s) PROVE TxInv'
  <2> DEFINE rows == [row EXCEPT ![s] = NoRow]
  <2>1. NoRow \in Row /\ Begin("delete", {s}, rows, {}, {}) /\ rows[s] = NoRow
    BY <1>1, <1>5, RowTypes DEF BeginDelete
  <2>2. \A t : t.seen = row /\ About(t, s, "delete", NoRow, {}) => Made(t)
    BY <1>5 DEF Made, IsDelete, Exists, BeginDelete
  <2> HIDE DEF rows
  <2> QED BY <1>2, <2>1, <2>2, BeginsAbout
<1>6. ASSUME BeginMarkSent(s) PROVE TxInv'
  <2> DEFINE new == MarkedSent(row[s], now)
             rows == [row EXCEPT ![s] = new]
  <2>1. new \in Row /\ Begin("update", {s}, rows, {}, {}) /\ rows[s] = new
    BY <1>1, <1>6, RowTypes DEF BeginMarkSent
  <2>2. \A t : t.seen = row /\ About(t, s, "update", new, {}) => Made(t)
    BY <1>6 DEF Made, IsMark, Exists, BeginMarkSent
  <2> HIDE DEF new, rows
  <2> QED BY <1>2, <2>1, <2>2, BeginsAbout
<1> QED BY <1>3, <1>4, <1>5, <1>6

LEMMA AckBegins ==
    ASSUME TxInv, NEW s \in Subscriber, NEW lock \in Issued,
           BeginAckSent(s, lock) \/ BeginAckFailed(s, lock)
    PROVE  TxInv'
<1>1. /\ row \in [Subscriber -> Row] /\ row[s] \in Row /\ now \in Nat
      /\ lock \in Lock /\ row[s].id # 0 /\ row[s].lock = lock
  BY IssuedLocks DEF TxInv, TxTypeOK, TypeOK, BeginAckSent, BeginAckFailed, HoldsLease, Exists
<1>2. ASSUME BeginAckSent(s, lock) PROVE TxInv'
  <2> DEFINE new == AckedSent(row[s], now)
             rows == [row EXCEPT ![s] = new]
             record == {RecordOf(s, row[s], lock, now)}
  <2>1. new \in Row /\ Begin("update", {s}, rows, record, {}) /\ rows[s] = new
    BY <1>1, <1>2, RowTypes DEF BeginAckSent
  <2>2. \A t : t.seen = row /\ About(t, s, "update", new, record) => Made(t)
    BY <1>1 DEF Made, IsAckSent
  <2>3. record \in SUBSET Record
    <3>1. AttemptToRecord(AckedSent(row[s], now)) \in Nat
      BY <2>1 DEF AttemptToRecord, Row
    <3>2. row[s].id \in Nat
      BY <1>1 DEF Row
    <3> QED BY <1>1, <3>1, <3>2 DEF RecordOf, Record
  <2>4. IsFiniteSet(record)
    BY FS_Singleton
  <2> HIDE DEF new, rows, record
  <2> QED BY <2>1, <2>2, <2>3, <2>4, BeginsAbout
<1>3. ASSUME BeginAckFailed(s, lock) PROVE TxInv'
  <2> DEFINE new == AckedFailed(row[s], now)
             rows == [row EXCEPT ![s] = new]
  <2>1. new \in Row /\ Begin("update", {s}, rows, {}, {}) /\ rows[s] = new
    BY <1>1, <1>3, RowTypes DEF BeginAckFailed
  <2>2. \A t : t.seen = row /\ About(t, s, "update", new, {}) => Made(t)
    BY <1>1 DEF Made, IsAckFailed
  <2>3. {} \in SUBSET Record /\ IsFiniteSet({})
    BY FS_EmptySet
  <2> HIDE DEF new, rows
  <2> QED BY <2>1, <2>2, <2>3, BeginsAbout
<1> QED BY <1>2, <1>3

\* A claim draws fresh locks and counts what is recorded.
LEMMA ClaimBegins ==
    ASSUME TxInv, NEW choice, BeginClaim(choice)
    PROVE  TxInv'
<1> DEFINE epoch == [s \in ClaimableSet |-> Cardinality(Recorded(row[s].id))]
           new == [s \in ClaimableSet |-> Leased(row[s], choice[s], now)]
           granted == { GrantOf(s, row[s], choice[s], now) : s \in ClaimableSet }
           t == [ op |-> "update", touched |-> ClaimableSet, seen |-> row,
                  new |-> [s \in Subscriber |-> IF s \in ClaimableSet THEN new[s] ELSE row[s]],
                  record |-> {}, granted |-> granted ]
<1>1. /\ row \in [Subscriber -> Row] /\ now \in Nat /\ TypeInv
      /\ ClaimableSet \subseteq Subscriber /\ ClaimableSet # {}
      /\ choice \in [ClaimableSet -> Lock \ Drawn]
      /\ \A s, u \in ClaimableSet : choice[s] = choice[u] => s = u
      /\ open' = open \cup {t} /\ UNCHANGED leaseVars
  BY DEF TxInv, TxTypeOK, TypeOK, TypeInv, Countable, ClaimableSet, BeginClaim, Begin
<1>2. \A s \in ClaimableSet : GrantOf(s, row[s], choice[s], now) \in Grant
  BY <1>1, GrantTypes
<1>3. epoch \in [ClaimableSet -> Nat]
  BY <1>2 DEF GrantOf, Grant
<1>4. \A s \in ClaimableSet : Leased(row[s], choice[s], now) \in Row
  BY <1>1, RowTypes
<1>5. t.new \in [Subscriber -> Row]
  BY <1>1, <1>4
<1>6. granted \subseteq Grant
  BY <1>2
<1>7. t \in Transaction
  BY <1>1, <1>5, <1>6 DEF Transaction
<1>8. /\ t.op = "update" /\ t.touched = ClaimableSet /\ t.seen = row /\ t.record = {}
      /\ t.new = [s \in Subscriber |-> IF s \in ClaimableSet
                                       THEN Leased(row[s], choice[s], now) ELSE row[s]]
      /\ t.granted = granted
  BY <1>1
<1>9. Due(t) = ClaimableSet
  BY DEF Due, ClaimableSet, Claimable
<1>10. granted = { LeaseOf(s, row[s], choice[s], epoch[s]) : s \in ClaimableSet }
  BY DEF GrantOf, LeaseOf
<1> HIDE DEF t, epoch, granted, new
<1>11. ClaimsWith(t, choice, epoch)
  <2>1. \A s, u \in Due(t) : choice[s] = choice[u] => s = u
    BY <1>1, <1>9
  <2>2. t.new = [s \in Subscriber |-> IF s \in Due(t) THEN Leased(t.seen[s], choice[s], now)
                                      ELSE t.seen[s]]
    BY <1>8, <1>9
  <2>3. t.granted = { LeaseOf(s, t.seen[s], choice[s], epoch[s]) : s \in Due(t) }
    BY <1>8, <1>9, <1>10
  <2> QED BY <2>1, <2>2, <2>3 DEF ClaimsWith
<1>12. Made(t)
  <2>1. choice \in [Due(t) -> Lock] /\ epoch \in [Due(t) -> Nat]
    BY <1>1, <1>3, <1>9
  <2>2. t.op = "update" /\ t.touched = Due(t) /\ t.touched # {} /\ t.record = {}
    BY <1>1, <1>8, <1>9
  <2> QED BY <1>11, <2>1, <2>2 DEF Made, IsClaim
<1>13. \A g \in t.granted : g.lock \notin Drawn /\ g.epoch = Cardinality(Recorded(g.id))
  BY <1>1, <1>8 DEF GrantOf, granted
<1> QED BY <1>1, <1>7, <1>8, <1>12, <1>13, FS_EmptySet, BeginKeeps DEF Begun

-----------------------------------------------------------------------------
(* Overlapping transactions: a request commits                             *)

\* What an update has made of a row it touches: the id stays, last_sent_at is what it was or
\* the time, and of the lease it leaves both columns, or ends it, or grants it.
Updates(t, s) ==
    LET x == t.new[s]
        y == t.seen[s]
    IN  /\ y.id # 0 /\ x.id = y.id /\ x.lastSent \in {y.lastSent, now}
        /\ \/ x.lock = y.lock /\ x.attempt = y.attempt
           \/ x.lock = NoLock /\ y.lock # NoLock /\ x.attempt \in {0, y.attempt}
           \/ /\ x.attempt = y.attempt + 1 /\ y.attempt < MaxAttempt
              /\ \E g \in t.granted : g.lock = x.lock /\ g.id = y.id

\* The delivery a transaction records is of the row it has stamped.
Records(t) ==
    t.record = {} \/
    \E s \in Subscriber, h \in t.record :
        /\ t.op = "update" /\ t.touched = {s} /\ t.record = {h} /\ t.granted = {}
        /\ h.sub = s /\ h.id = t.seen[s].id /\ h.at = now /\ t.new[s].lastSent = now

\* A drawn lease is of a row that is touched, and whose last delivery is not of this moment.
Grants(t) ==
    \A g \in t.granted :
        /\ t.op = "update" /\ g.sub \in t.touched /\ g.id = t.seen[g.sub].id /\ g.id # 0
        /\ t.seen[g.sub].lastSent # now

LEMMA DueWasNotSent ==
    ASSUME NEW r, NEW t \in Nat \ {0}, IsDue(r, t) PROVE r.lastSent # t
BY DEF IsDue, Null

LEMMA MadeUpdates ==
    ASSUME TxInv, NEW t \in open
    PROVE  /\ t.op = "update" => \A s \in t.touched : s \in Subscriber /\ Updates(t, s)
           /\ Records(t) /\ Grants(t)
<1>1. t \in Transaction /\ Made(t) /\ now \in Nat \ {0}
  BY DEF TxInv, TxTypeOK, TypeOK
<1>2. \A s \in Subscriber : t.seen[s] \in Row
  BY <1>1 DEF Transaction
<1>3. NoLock \notin Issued
  BY IssuedLocks DEF TxInv, TxTypeOK
<1>4. ASSUME NEW s \in Subscriber, NEW new, About(t, s, "update", new, {}), new.id = t.seen[s].id,
             t.seen[s].id # 0, new.lastSent \in {t.seen[s].lastSent, now},
             \/ new.lock = t.seen[s].lock /\ new.attempt = t.seen[s].attempt
             \/ new.lock = NoLock /\ t.seen[s].lock # NoLock
                                  /\ new.attempt \in {0, t.seen[s].attempt}
      PROVE  /\ \A u \in t.touched : u \in Subscriber /\ Updates(t, u)
             /\ Records(t) /\ Grants(t)
  <2>1. t.touched = {s} /\ t.new[s] = new /\ t.record = {} /\ t.granted = {}
    BY <1>1, <1>4 DEF About, Transaction
  <2>2. Updates(t, s)
    BY <1>4, <2>1 DEF Updates
  <2> QED BY <2>1, <2>2 DEF Records, Grants
<1>5. ASSUME NEW s \in Subscriber, IsSubscribe(t, s) \/ IsDelete(t, s)
      PROVE  t.op # "update" /\ Records(t) /\ Grants(t)
  BY <1>5 DEF IsSubscribe, IsDelete, About, Records, Grants
<1>6. ASSUME NEW s \in Subscriber, IsChange(t, s) \/ IsMark(t, s) \/ IsAckFailed(t, s)
      PROVE  /\ \A u \in t.touched : u \in Subscriber /\ Updates(t, u)
             /\ Records(t) /\ Grants(t)
  <2>1. t.seen[s] \in Row
    BY <1>2
  <2>2. CASE IsChange(t, s)
    <3>1. PICK p \in Prefs : About(t, s, "update", WithPrefsAt(t.seen[s], p), {})
      BY <2>2 DEF IsChange
    <3>2. t.seen[s].id # 0
      BY <2>2 DEF IsChange
    <3> QED BY <1>4, <2>1, <3>1, <3>2, HandlersColumns
  <2>3. CASE IsMark(t, s)
    <3>1. t.seen[s].id # 0 /\ About(t, s, "update", MarkedSent(t.seen[s], now), {})
      BY <2>3 DEF IsMark
    <3> QED BY <1>4, <2>1, <3>1, HandlersColumns
  <2>4. CASE IsAckFailed(t, s)
    <3>1. /\ t.seen[s].id # 0 /\ About(t, s, "update", AckedFailed(t.seen[s], now), {})
          /\ t.seen[s].lock # NoLock
      BY <1>3, <2>4 DEF IsAckFailed
    <3> QED BY <1>4, <2>1, <3>1, HandlersColumns
  <2> QED BY <1>6, <2>2, <2>3, <2>4
<1>7. ASSUME NEW s \in Subscriber, IsAckSent(t, s)
      PROVE  /\ \A u \in t.touched : u \in Subscriber /\ Updates(t, u)
             /\ Records(t) /\ Grants(t)
  <2> DEFINE new == AckedSent(t.seen[s], now)
             h == RecordOf(s, t.seen[s], t.seen[s].lock, now)
  <2>1. /\ t.seen[s].id # 0 /\ t.seen[s].lock # NoLock
        /\ t.op = "update" /\ t.touched = {s} /\ t.record = {h} /\ t.granted = {}
        /\ t.new[s] = new
    BY <1>1, <1>3, <1>7 DEF IsAckSent, About, Transaction
  <2>2. new.id = t.seen[s].id /\ new.lock = NoLock /\ new.attempt = 0 /\ new.lastSent = now
    BY <1>2, HandlersColumns
  <2>3. h.sub = s /\ h.id = t.seen[s].id /\ h.at = now
    BY DEF RecordOf
  <2> HIDE DEF new, h
  <2>4. Updates(t, s)
    BY <2>1, <2>2 DEF Updates
  <2> QED BY <2>1, <2>2, <2>3, <2>4 DEF Records, Grants
<1>8. ASSUME IsClaim(t)
      PROVE  /\ \A u \in t.touched : u \in Subscriber /\ Updates(t, u)
             /\ Records(t) /\ Grants(t)
  <2>1. PICK choice \in [Due(t) -> Lock], epoch \in [Due(t) -> Nat] : ClaimsWith(t, choice, epoch)
    BY <1>8 DEF IsClaim
  <2>2. t.op = "update" /\ t.touched = Due(t) /\ t.record = {}
    BY <1>8 DEF IsClaim
  <2>3. ASSUME NEW s \in Due(t)
        PROVE  /\ s \in Subscriber /\ t.new[s] = Leased(t.seen[s], choice[s], now)
               /\ t.seen[s].id # 0 /\ t.seen[s].attempt < MaxAttempt
               /\ t.seen[s].lastSent # now
               /\ LeaseOf(s, t.seen[s], choice[s], epoch[s]) \in t.granted
    BY <1>1, <2>1, DueWasNotSent DEF ClaimsWith, Due, ClaimableRow
  <2>4. ASSUME NEW s \in Due(t) PROVE Updates(t, s)
    <3> DEFINE g == LeaseOf(s, t.seen[s], choice[s], epoch[s])
    <3>1. g.lock = choice[s] /\ g.id = t.seen[s].id
      BY DEF LeaseOf
    <3>2. /\ t.new[s].id = t.seen[s].id /\ t.new[s].lock = choice[s]
          /\ t.new[s].attempt = t.seen[s].attempt + 1 /\ t.new[s].lastSent = t.seen[s].lastSent
      BY <1>2, <2>3, HandlersColumns
    <3>3. g \in t.granted
      BY <2>3
    <3> HIDE DEF g
    <3> QED BY <2>3, <3>1, <3>2, <3>3 DEF Updates
  <2>5. Grants(t)
    <3>1. \A g \in t.granted : \E s \in Due(t) : g.sub = s /\ g.id = t.seen[s].id
      BY <2>1 DEF ClaimsWith, LeaseOf
    <3> QED BY <2>2, <2>3, <3>1 DEF Grants
  <2> QED BY <2>2, <2>3, <2>4, <2>5 DEF Records
<1> QED BY <1>1, <1>5, <1>6, <1>7, <1>8 DEF Made

\* What a commit makes of a row: nothing, if the transaction does not touch it; a merged row
\* with the same id, a lease that is counted, and the last delivery or this one; a new row;
\* or none.
Merges(t, s) ==
    /\ row[s].id # 0 /\ row'[s].id = row[s].id /\ t.seen[s].id = row[s].id
    /\ row'[s].lastSent \in {row[s].lastSent, now}
    /\ t.new[s].lastSent = now => row'[s].lastSent = now
    /\ row'[s].attempt <= MaxAttempt
    /\ row'[s].lock # NoLock =>
          /\ row'[s].attempt >= 1
          /\ \/ row'[s].lock = row[s].lock
             \/ \E g \in t.granted : g.lock = row'[s].lock /\ g.id = row[s].id

Inserts(s) ==
    /\ row[s].id = 0 /\ row'[s].id = nextId /\ nextId' = nextId + 1
    /\ row'[s].lock = NoLock /\ row'[s].attempt = 0 /\ row'[s].lastSent = 0

Deletes(s) == row[s].id # 0 /\ row'[s] = NoRow

Effect(t, s) ==
    \/ s \notin t.touched /\ row'[s] = row[s]
    \/ s \in t.touched /\ t.op = "update" /\ Merges(t, s)
    \/ t.touched = {s} /\ t.op = "insert" /\ t.granted = {} /\ t.record = {} /\ Inserts(s)
    \/ t.touched = {s} /\ t.op = "delete" /\ t.granted = {} /\ t.record = {} /\ Deletes(s)

LEMMA UpdateMerges ==
    ASSUME TxInv, NEW t \in open, Commit(t), t.op = "update", NEW s \in t.touched
    PROVE  row'[s] \in Row /\ Merges(t, s)
<1>1. s \in Subscriber /\ Updates(t, s) /\ t \in Transaction /\ now \in Nat
  BY MadeUpdates DEF TxInv, TxTypeOK, TypeOK
<1> DEFINE x == t.new[s]
           y == t.seen[s]
           z == row[s]
<1>2. x \in Row /\ y \in Row /\ z \in Row
  BY <1>1 DEF Transaction, TxInv, TxTypeOK, TypeOK
<1>3. row'[s] = Written(t, s) /\ z.id = y.id
  BY <1>1 DEF Commit, StillThere
<1>4. /\ row'[s] \in Row
      /\ row'[s].id = IF x.id # y.id THEN x.id ELSE z.id
      /\ row'[s].lock = IF x.lock # y.lock THEN x.lock ELSE z.lock
      /\ row'[s].attempt = IF x.attempt # y.attempt THEN x.attempt ELSE z.attempt
      /\ row'[s].lastSent = IF x.lastSent # y.lastSent THEN x.lastSent ELSE z.lastSent
  BY <1>1, <1>2, <1>3, UpdateWrites
<1>5. /\ y.id # 0 /\ x.id = y.id /\ x.lastSent \in {y.lastSent, now}
      /\ \/ x.lock = y.lock /\ x.attempt = y.attempt
         \/ x.lock = NoLock /\ y.lock # NoLock /\ x.attempt \in {0, y.attempt}
         \/ /\ x.attempt = y.attempt + 1 /\ y.attempt < MaxAttempt
            /\ \E g \in t.granted : g.lock = x.lock /\ g.id = y.id
  BY <1>1 DEF Updates
<1>6. /\ y.attempt <= MaxAttempt /\ y.lastSent <= now /\ y.lock \in Issued \cup {NoLock}
      /\ y.id # 0 /\ y.id = z.id => y.lastSent <= z.lastSent
      /\ z.lastSent <= now
      /\ z.attempt <= MaxAttempt /\ (z.lock # NoLock => z.attempt >= 1)
  BY <1>1 DEF TxInv, SeenInv, MergedInv, NoUpdateIsLost, LeaseIsCounted
<1>7. \A g \in t.granted : g.lock \notin Issued /\ g.lock # NoLock
  BY <1>1, LeaseAssumption DEF TxInv, DrawnInv, Transaction, Grant
<1> HIDE DEF x, y, z
<1>8. x.attempt \in Nat /\ y.attempt \in Nat /\ z.attempt \in Nat /\ MaxAttempt \in Nat
  BY <1>2, LeaseAssumption DEF Row
<1>9. /\ z.id # 0 /\ row'[s].id = z.id /\ y.id = z.id
      /\ row'[s].lastSent \in {z.lastSent, now}
  BY <1>3, <1>4, <1>5
<1>10. x.lastSent = now => row'[s].lastSent = now
  <2>1. x.lastSent \in Nat /\ y.lastSent \in Nat /\ z.lastSent \in Nat
    BY <1>2 DEF Row
  <2> QED BY <1>1, <1>4, <1>6, <1>9, <2>1
<1>11. row'[s].attempt <= MaxAttempt
  BY <1>4, <1>5, <1>6, <1>8
<1>12. ASSUME row'[s].lock # NoLock
       PROVE  /\ row'[s].attempt >= 1
              /\ \/ row'[s].lock = z.lock
                 \/ \E g \in t.granted : g.lock = row'[s].lock /\ g.id = z.id
  <2>1. CASE x.lock = y.lock /\ x.attempt = y.attempt
    BY <1>4, <1>6, <1>12, <2>1
  <2>2. CASE x.lock = NoLock /\ y.lock # NoLock
    BY <1>4, <1>12, <2>2
  <2>3. CASE /\ x.attempt = y.attempt + 1
             /\ \E g \in t.granted : g.lock = x.lock /\ g.id = y.id
    <3>1. x.lock # y.lock
      BY <1>6, <1>7, <2>3
    <3>2. row'[s].attempt = y.attempt + 1
      BY <1>4, <1>8, <2>3
    <3> QED BY <1>4, <1>8, <1>9, <2>3, <3>1, <3>2
  <2> QED BY <1>5, <2>1, <2>2, <2>3
<1> QED BY <1>4, <1>9, <1>10, <1>11, <1>12 DEF Merges, x, y, z

LEMMA CommitEffect ==
    ASSUME TxInv, NEW t \in open, Commit(t)
    PROVE  /\ row' \in [Subscriber -> Row] /\ nextId' \in {nextId, nextId + 1}
           /\ (t.op # "insert" => nextId' = nextId)
           /\ \A s \in Subscriber : Effect(t, s)
<1>1. /\ t \in Transaction /\ Made(t) /\ row \in [Subscriber -> Row]
      /\ now \in Nat /\ nextId \in Nat
  BY DEF TxInv, TxTypeOK, TypeOK
<1>2. /\ row' = [s \in Subscriber |-> IF s \in t.touched THEN Written(t, s) ELSE row[s]]
      /\ nextId' = IF t.op = "insert" THEN nextId + 1 ELSE nextId
      /\ \A s \in t.touched : row[s].id = t.seen[s].id
  BY DEF Commit, StillThere
<1>3. CASE t.op = "update"
  <2>1. \A s \in t.touched : s \in Subscriber /\ row'[s] \in Row /\ Merges(t, s)
    BY <1>3, MadeUpdates, UpdateMerges
  <2>2. \A s \in Subscriber \ t.touched : row'[s] = row[s]
    BY <1>2
  <2>3. row' \in [Subscriber -> Row]
    BY <1>1, <1>2, <2>1, <2>2
  <2> QED BY <1>2, <1>3, <2>1, <2>2, <2>3 DEF Effect
<1>4. CASE t.op = "insert"
  <2>1. PICK s \in Subscriber : IsSubscribe(t, s)
    BY <1>1, <1>4 DEF Made, IsDelete, IsChange, IsMark, IsAckSent, IsAckFailed, About, IsClaim
  <2>2. PICK p \in Prefs, id \in Nat : About(t, s, "insert", NewRow(id, p, now), {})
    BY <2>1 DEF IsSubscribe
  <2>3. t.touched = {s} /\ t.granted = {} /\ t.record = {} /\ t.new[s] = NewRow(id, p, now)
    BY <1>1, <2>2 DEF About, Transaction
  <2>4. row'[s] = NewRow(nextId, p, now) /\ row[s].id = 0
    BY <1>2, <1>4, <2>1, <2>3, NewRowTakesId DEF Written, IsSubscribe
  <2>5. row'[s] \in Row /\ row[s] \in Row
    BY <1>1, <2>4, PrefTypes
  <2>6. Inserts(s)
    BY <1>2, <1>4, <2>4, <2>5, HandlersColumns DEF Inserts
  <2>7. row' \in [Subscriber -> Row]
    BY <1>1, <1>2, <2>3, <2>5
  <2>8. \A u \in Subscriber \ {s} : row'[u] = row[u]
    BY <1>2, <2>3
  <2> QED BY <1>2, <1>4, <2>3, <2>6, <2>7, <2>8 DEF Effect
<1>5. CASE t.op = "delete"
  <2>1. PICK s \in Subscriber : IsDelete(t, s)
    BY <1>1, <1>5 DEF Made, IsSubscribe, IsChange, IsMark, IsAckSent, IsAckFailed, About, IsClaim
  <2>2. t.touched = {s} /\ t.granted = {} /\ t.record = {} /\ t.seen[s].id # 0
    BY <2>1 DEF IsDelete, About
  <2>3. row'[s] = NoRow /\ row[s].id # 0
    BY <1>2, <1>5, <2>2 DEF Written
  <2>4. NoRow \in Row
    BY <1>1, RowTypes
  <2>5. row' \in [Subscriber -> Row]
    BY <1>1, <1>2, <2>2, <2>3, <2>4
  <2>6. \A u \in Subscriber \ {s} : row'[u] = row[u]
    BY <1>2, <2>2
  <2> QED BY <1>2, <1>5, <2>2, <2>3, <2>5, <2>6 DEF Effect, Deletes
<1> QED BY <1>1, <1>3, <1>4, <1>5 DEF Transaction

\* What a commit leaves for the next: at most one new delivery, of a row it has stamped, and
\* the leases it has drawn.
Committed(t) ==
    /\ now' = now /\ history' = history \cup t.record /\ grants' = grants \cup t.granted
    /\ open' = open \ {t} /\ nextId' \in {nextId, nextId + 1} /\ nextId \in Nat
    /\ Issued' = Issued \cup { g.lock : g \in t.granted }
    /\ \A s \in Subscriber : Effect(t, s)
    /\ \A h \in t.record :
          /\ h.sub \in Subscriber /\ row'[h.sub].id = h.id /\ row[h.sub].id = h.id
          /\ h.id # 0 /\ h.at = now /\ row'[h.sub].lastSent = now

LEMMA CommitCommits == ASSUME TxInv, NEW t \in open, Commit(t) PROVE Committed(t)
<1>1. /\ now' = now /\ history' = history \cup t.record /\ grants' = grants \cup t.granted
      /\ open' = open \ {t} /\ nextId \in Nat
  BY DEF Commit, TxInv, TxTypeOK, TypeOK
<1>2. Issued' = Issued \cup { g.lock : g \in t.granted }
  BY <1>1 DEF Issued
<1>3. /\ nextId' \in {nextId, nextId + 1} /\ \A s \in Subscriber : Effect(t, s)
  BY CommitEffect
<1>4. ASSUME NEW h \in t.record
      PROVE  /\ h.sub \in Subscriber /\ row'[h.sub].id = h.id /\ row[h.sub].id = h.id
             /\ h.id # 0 /\ h.at = now /\ row'[h.sub].lastSent = now
  <2>1. /\ h.sub \in Subscriber /\ t.op = "update" /\ t.touched = {h.sub}
        /\ h.id = t.seen[h.sub].id /\ h.at = now /\ t.new[h.sub].lastSent = now
    BY <1>4, MadeUpdates DEF Records
  <2>2. Merges(t, h.sub)
    BY <2>1, UpdateMerges
  <2> QED BY <2>1, <2>2 DEF Merges
<1> QED BY <1>1, <1>2, <1>3, <1>4 DEF Committed

LEMMA CommitKeepsTypes ==
    ASSUME TxInv, NEW t \in open, Commit(t) PROVE TxTypeOK' /\ Countable'
<1>1. /\ t \in Transaction /\ Committed(t) /\ row' \in [Subscriber -> Row]
  BY CommitEffect, CommitCommits DEF TxInv, TxTypeOK
<1>2. TxTypeOK'
  BY <1>1 DEF TxInv, TxTypeOK, TypeOK, Transaction, Committed
<1>3. Countable'
  BY <1>1, FS_Union DEF TxInv, Countable, Committed
<1> QED BY <1>2, <1>3

LEMMA CommitKeepsMerged ==
    ASSUME TxInv, NEW t \in open, Commit(t) PROVE MergedInv' /\ NoUpdateIsLost'
<1>1. Committed(t) /\ TxTypeOK' /\ TxTypeOK
  BY CommitCommits, CommitKeepsTypes DEF TxInv
<1>2. /\ now' = now /\ now \in Nat \ {0} /\ nextId \in Nat \ {0} /\ nextId' \in Nat
      /\ nextId <= nextId' /\ Issued \subseteq Issued' /\ NoRow.id = 0
      /\ NoRow.lock = NoLock /\ NoRow.attempt = 0 /\ NoRow.lastSent = 0 /\ MaxAttempt \in Nat
  BY <1>1, LeaseAssumption DEF Committed, TxTypeOK, TypeOK, NoRow, Null
<1>3. \A s \in Subscriber :
        /\ row[s].id \in Nat /\ row[s].id < nextId /\ row[s].lastSent <= now
        /\ row[s].lock \in Issued \cup {NoLock} /\ row[s].attempt <= MaxAttempt
        /\ row[s].lastSent \in Nat /\ row'[s].lastSent \in Nat
  BY <1>1 DEF TxInv, MergedInv, NoUpdateIsLost, LeaseIsCounted, TxTypeOK, TypeOK, Row
<1>4. ASSUME NEW s \in Subscriber
      PROVE  /\ row'[s].id < nextId' /\ row'[s].lastSent <= now
             /\ row'[s].id \in {0, row[s].id, nextId}
             /\ row'[s].id = nextId => nextId' = nextId + 1 /\ t.touched = {s} /\ t.op = "insert"
             /\ row'[s].lock \in Issued' \cup {NoLock} /\ row'[s].attempt <= MaxAttempt
             /\ row'[s].id = row[s].id => row[s].lastSent <= row'[s].lastSent \/ row[s].id = 0
  <2>1. Effect(t, s)
    BY <1>1 DEF Committed
  <2>2. CASE row'[s] = row[s]
    BY <1>2, <1>3, <2>2
  <2>3. CASE Merges(t, s)
    <3>1. row'[s].lock \in Issued' \cup {NoLock}
      BY <1>1, <1>3, <2>3 DEF Merges, Committed
    <3> QED BY <1>2, <1>3, <2>3, <3>1 DEF Merges
  <2>4. CASE t.touched = {s} /\ t.op = "insert" /\ Inserts(s)
    BY <1>2, <1>3, <2>4 DEF Inserts
  <2>5. CASE Deletes(s)
    BY <1>2, <1>3, <2>5 DEF Deletes
  <2> QED BY <2>1, <2>2, <2>3, <2>4, <2>5 DEF Effect
<1>5. \A s, u \in Subscriber : row'[s].id # 0 /\ row'[s].id = row'[u].id => s = u
  <2> SUFFICES ASSUME NEW s \in Subscriber, NEW u \in Subscriber,
                      row'[s].id # 0, row'[s].id = row'[u].id
               PROVE  s = u
    OBVIOUS
  <2>1. CASE row'[s].id = nextId
    BY <1>4, <2>1
  <2>2. CASE row'[s].id # nextId
    <3>1. row'[s].id = row[s].id /\ row'[u].id = row[u].id
      BY <1>4, <2>2
    <3> QED BY <3>1 DEF TxInv, MergedInv
  <2> QED BY <2>1, <2>2
<1>6. \A h \in history' : h.id # 0 /\ h.id < nextId' /\ h.at <= now
  <2>1. ASSUME NEW h \in t.record PROVE h.id # 0 /\ h.id < nextId' /\ h.at <= now
    BY <1>1, <1>2, <1>4 DEF Committed
  <2>2. ASSUME NEW h \in history PROVE h.id # 0 /\ h.id < nextId' /\ h.at <= now
    <3>1. h.id \in Nat
      BY <1>1 DEF TxTypeOK, TypeOK, Record
    <3> QED BY <1>2, <3>1 DEF TxInv, MergedInv
  <2> QED BY <1>1, <2>1, <2>2 DEF Committed
<1>7. MergedInv'
  BY <1>2, <1>4, <1>5, <1>6 DEF MergedInv
<1>8. ASSUME NEW s \in Subscriber, row'[s].lock # NoLock
      PROVE  /\ row'[s].attempt >= 1
             /\ \E g \in grants' : g.lock = row'[s].lock /\ g.id = row'[s].id
  <2>1. Effect(t, s)
    BY <1>1 DEF Committed
  <2>2. row[s].lock # NoLock =>
          /\ row[s].attempt >= 1
          /\ \E g \in grants : g.lock = row[s].lock /\ g.id = row[s].id
    BY DEF TxInv, NoUpdateIsLost, LeaseIsCounted
  <2>3. grants' = grants \cup t.granted
    BY <1>1 DEF Committed
  <2>4. CASE row'[s] = row[s]
    BY <1>8, <2>2, <2>3, <2>4
  <2>5. CASE Merges(t, s)
    BY <1>8, <2>2, <2>3, <2>5 DEF Merges
  <2>6. CASE Inserts(s) \/ Deletes(s)
    BY <1>2, <1>8, <2>6 DEF Inserts, Deletes
  <2> QED BY <2>1, <2>4, <2>5, <2>6 DEF Effect
<1>9. LeaseIsCounted'
  BY <1>4, <1>8 DEF LeaseIsCounted
<1>10. RecordIsRemembered'
  <2> SUFFICES ASSUME NEW h \in history', row'[h.sub].id = h.id
               PROVE  row'[h.sub].lastSent >= h.at
    BY DEF RecordIsRemembered
  <2>1. CASE h \in t.record
    BY <1>1, <1>2, <2>1 DEF Committed
  <2>2. CASE h \in history
    <3>1. h.sub \in Subscriber /\ h.id \in Nat /\ h.at \in Nat /\ h.id # 0 /\ h.id < nextId
      BY <1>1, <2>2 DEF TxTypeOK, TypeOK, Record, TxInv, MergedInv
    <3>2. row'[h.sub].id = row[h.sub].id
      BY <1>2, <1>4, <3>1
    <3>3. row[h.sub].lastSent >= h.at
      BY <2>2, <3>2 DEF TxInv, NoUpdateIsLost, RecordIsRemembered
    <3>4. row[h.sub].lastSent <= row'[h.sub].lastSent
      BY <1>4, <3>1, <3>2
    <3> QED BY <1>3, <3>1, <3>3, <3>4
  <2> QED BY <1>1, <2>1, <2>2 DEF Committed
<1> QED BY <1>7, <1>9, <1>10 DEF NoUpdateIsLost

LEMMA CommitKeepsOpen ==
    ASSUME TxInv, NEW t \in open, Commit(t)
    PROVE  (\A u \in open' : Made(u)') /\ SeenInv' /\ DrawnInv'
<1>1. Committed(t) /\ TxTypeOK' /\ TxTypeOK
  BY CommitCommits, CommitKeepsTypes DEF TxInv
<1>2. /\ now' = now /\ now \in Nat \ {0} /\ nextId \in Nat \ {0} /\ nextId' \in Nat
      /\ nextId <= nextId' /\ Issued \subseteq Issued' /\ NoRow.id = 0
      /\ open' = open \ {t}
  BY <1>1 DEF Committed, TxTypeOK, TypeOK, NoRow
<1>3. \A u \in open' : Made(u)'
  BY <1>2, MadeStays DEF TxInv
<1>4. DrawnInv'
  BY <1>1, <1>2 DEF TxInv, DrawnInv, Committed
<1>5. ASSUME NEW u \in open', NEW s \in Subscriber
      PROVE  /\ u.seen[s].id < nextId' /\ u.seen[s].attempt <= MaxAttempt
             /\ u.seen[s].lastSent <= now' /\ u.seen[s].lock \in Issued' \cup {NoLock}
             /\ u.seen[s].id # 0 /\ u.seen[s].id = row'[s].id
                  => u.seen[s].lastSent <= row'[s].lastSent
  <2>1. /\ u.seen[s].id < nextId /\ u.seen[s].attempt <= MaxAttempt
        /\ u.seen[s].lastSent <= now /\ u.seen[s].lock \in Issued \cup {NoLock}
        /\ u.seen[s].id # 0 /\ u.seen[s].id = row[s].id
             => u.seen[s].lastSent <= row[s].lastSent
    BY <1>2 DEF TxInv, SeenInv
  <2>2. /\ u.seen[s] \in Row /\ row[s] \in Row /\ row'[s] \in Row
    BY <1>1, <1>2 DEF TxTypeOK, TypeOK, Transaction
  <2>3. /\ u.seen[s].id \in Nat /\ u.seen[s].lastSent \in Nat /\ row[s].lastSent \in Nat
    BY <2>2 DEF Row
  <2>4. Effect(t, s)
    BY <1>1 DEF Committed
  <2>5. ASSUME u.seen[s].id # 0, u.seen[s].id = row'[s].id
        PROVE  u.seen[s].lastSent <= row'[s].lastSent
    <3>1. CASE row'[s] = row[s]
      BY <2>1, <2>5, <3>1
    <3>2. CASE Merges(t, s)
      BY <2>1, <2>5, <3>2 DEF Merges
    <3>3. CASE Inserts(s)
      BY <1>2, <2>1, <2>3, <2>5, <3>3 DEF Inserts
    <3>4. CASE Deletes(s)
      BY <1>2, <2>5, <3>4 DEF Deletes
    <3> QED BY <2>4, <3>1, <3>2, <3>3, <3>4 DEF Effect
  <2> QED BY <1>2, <2>1, <2>3, <2>5
<1>6. SeenInv'
  BY <1>5 DEF SeenInv
<1> QED BY <1>3, <1>4, <1>6

LEMMA CommitKeepsEpochs == ASSUME TxInv, NEW t \in open, Commit(t) PROVE EpochInv'
<1>1. Committed(t) /\ TxTypeOK' /\ TxTypeOK
  BY CommitCommits, CommitKeepsTypes DEF TxInv
<1> SUFFICES ASSUME NEW u \in open', NEW g \in u.granted, row'[g.sub].id = g.id
             PROVE  g.epoch = Cardinality(Recorded(g.id)') \/ row'[g.sub].lastSent = now'
  BY DEF EpochInv, Recorded
<1>2. /\ u \in open /\ now' = now /\ nextId \in Nat /\ NoRow.id = 0
      /\ history' = history \cup t.record
  BY <1>1 DEF Committed, NoRow
<1>3. g.sub \in Subscriber /\ g.id = u.seen[g.sub].id /\ g.id # 0
  BY <1>1, <1>2, MadeUpdates DEF Grants, TxTypeOK, Transaction, Grant
<1>4. g.id < nextId /\ g.id \in Nat
  BY <1>1, <1>2, <1>3 DEF TxInv, SeenInv, TxTypeOK, Transaction, Grant
<1>5. Effect(t, g.sub)
  BY <1>1, <1>3 DEF Committed
<1>6. row[g.sub].id = g.id /\ row'[g.sub].lastSent \in {row[g.sub].lastSent, now}
  <2>1. CASE row'[g.sub] = row[g.sub]
    BY <2>1
  <2>2. CASE Merges(t, g.sub)
    BY <2>2 DEF Merges
  <2>3. CASE Inserts(g.sub)
    BY <1>2, <1>4, <2>3 DEF Inserts
  <2>4. CASE Deletes(g.sub)
    BY <1>2, <1>3, <2>4 DEF Deletes
  <2> QED BY <1>5, <2>1, <2>2, <2>3, <2>4 DEF Effect
<1>7. CASE \E h \in t.record : h.id = g.id
  <2>1. PICK h \in t.record : h.id = g.id
    BY <1>7
  <2>2. h.sub \in Subscriber /\ row[h.sub].id = row[g.sub].id /\ row'[h.sub].lastSent = now
    BY <1>1, <1>6, <2>1 DEF Committed
  <2>3. h.sub = g.sub
    BY <1>3, <1>6, <2>2 DEF TxInv, MergedInv
  <2> QED BY <1>2, <2>2, <2>3
<1>8. CASE ~ \E h \in t.record : h.id = g.id
  <2>1. Recorded(g.id)' = Recorded(g.id)
    BY <1>2, <1>8 DEF Recorded
  <2>2. g.epoch = Cardinality(Recorded(g.id)) \/ row[g.sub].lastSent = now
    BY <1>2, <1>6 DEF TxInv, EpochInv
  <2> QED BY <1>2, <1>6, <2>1, <2>2
<1> QED BY <1>7, <1>8

LEMMA TimePassesBetween == ASSUME TxInv, TxTick PROVE TxInv'
<1>1. /\ open = {} /\ open' = {} /\ now' = now + 1 /\ now \in Nat \ {0}
      /\ row' = row /\ nextId' = nextId /\ history' = history /\ grants' = grants
  BY DEF TxTick, Tick, TxInv, TxTypeOK, TypeOK
<1>2. TxTypeOK' /\ Countable' /\ (\A t \in open' : Made(t)')
  BY <1>1 DEF TxInv, TxTypeOK, TypeOK, Countable
<1>3. SeenInv' /\ DrawnInv' /\ EpochInv'
  BY <1>1 DEF SeenInv, DrawnInv, EpochInv
<1>4. NoUpdateIsLost'
  BY <1>1 DEF TxInv, NoUpdateIsLost, LeaseIsCounted, RecordIsRemembered
<1>5. Issued' = Issued
  BY <1>1 DEF Issued
<1>6. /\ \A s \in Subscriber : row[s].lastSent \in Nat
      /\ \A h \in history : h.at \in Nat
  BY DEF TxInv, TxTypeOK, TypeOK, Row, Record
<1>7. MergedInv'
  BY <1>1, <1>5, <1>6 DEF TxInv, MergedInv
<1> QED BY <1>2, <1>3, <1>4, <1>7 DEF TxInv

LEMMA RollbackKeeps == ASSUME TxInv, NEW t \in open, Rollback(t) PROVE TxInv'
<1>1. /\ open' = open \ {t} /\ now' = now /\ row' = row /\ nextId' = nextId
      /\ history' = history /\ grants' = grants
  BY DEF Rollback, leaseVars
<1>2. Issued' = Issued /\ (\A id : Recorded(id)' = Recorded(id))
  BY <1>1 DEF Issued, Recorded
<1>3. TxTypeOK' /\ Countable'
  BY <1>1 DEF TxInv, TxTypeOK, TypeOK, Countable
<1>4. \A u \in open' : Made(u)'
  BY <1>1, <1>2, MadeStays DEF TxInv
<1>5. MergedInv' /\ SeenInv' /\ DrawnInv' /\ EpochInv'
  BY <1>1, <1>2 DEF TxInv, MergedInv, SeenInv, DrawnInv, EpochInv
<1>6. NoUpdateIsLost'
  BY <1>1 DEF TxInv, NoUpdateIsLost, LeaseIsCounted, RecordIsRemembered
<1> QED BY <1>3, <1>4, <1>5, <1>6 DEF TxInv

LEMMA TxInvStarts == TxInit => TxInv
<1> SUFFICES ASSUME TxInit PROVE TxInv
  OBVIOUS
<1>1. /\ now = 1 /\ row = [s \in Subscriber |-> NoRow] /\ nextId = 1
      /\ history = {} /\ grants = {} /\ open = {} /\ TypeOK
  BY TypeInvInit DEF TxInit, Init, TypeInv
<1>2. NoRow.id = 0 /\ NoRow.lastSent = 0 /\ NoRow.lock = NoLock /\ NoRow.attempt = 0
  BY DEF NoRow, Null
<1>3. MergedInv
  BY <1>1, <1>2 DEF MergedInv
<1>4. NoUpdateIsLost
  BY <1>1, <1>2, LeaseAssumption DEF NoUpdateIsLost, LeaseIsCounted, RecordIsRemembered
<1> QED BY <1>1, <1>3, <1>4, FS_EmptySet
        DEF TxInv, TxTypeOK, Countable, SeenInv, DrawnInv, EpochInv

LEMMA TxInvStep == TxInv /\ [TxNext]_txVars => TxInv'
<1> SUFFICES ASSUME TxInv, [TxNext]_txVars PROVE TxInv'
  OBVIOUS
<1>1. ASSUME NEW t \in open, Commit(t) PROVE TxInv'
  BY <1>1, CommitKeepsTypes, CommitKeepsMerged, CommitKeepsOpen, CommitKeepsEpochs DEF TxInv
<1>2. CASE UNCHANGED txVars
  BY <1>2, MadeStays DEF txVars, leaseVars, TxInv, TxTypeOK, TypeOK, Countable, MergedInv,
     SeenInv, DrawnInv, EpochInv, NoUpdateIsLost, LeaseIsCounted, RecordIsRemembered,
     Recorded, Issued
<1> QED BY <1>1, <1>2, TimePassesBetween, UserBegins, AckBegins, ClaimBegins, RollbackKeeps
        DEF TxNext

\* The state of a transaction that overlaps others is still a state of the tables.
LEMMA TxInvHolds == TxSpec => []TxInv
BY TxInvStarts, TxInvStep, PTL DEF TxSpec

\* Whatever requests overlap, a held lease is counted within the limit and was granted for
\* this row, and a recorded delivery is never forgotten by its row.
THEOREM MergedColumnsAgree == TxSpec => []NoUpdateIsLost
<1>1. TxInv => NoUpdateIsLost
  BY DEF TxInv
<1> QED BY <1>1, TxInvHolds, PTL

-----------------------------------------------------------------------------
(* A request that sees what is stored is a handler's step                  *)

\* Nothing was recorded for a row since a claim that has seen it drew its lease: the row
\* would say so.
LEMMA EpochIsNow ==
    ASSUME TxInv, NEW t \in open, t.seen = row, NEW g \in t.granted
    PROVE  g.epoch = Cardinality(Recorded(g.id))
<1>1. g.id = row[g.sub].id /\ row[g.sub].lastSent # now
  BY MadeUpdates DEF Grants
<1> QED BY <1>1 DEF TxInv, EpochInv

\* An update that has seen the stored row stores what the handler makes of it.
LEMMA UpdateIsWhole ==
    ASSUME TxInv, NEW t \in open, Commit(t), t.seen = row, NEW s \in Subscriber, NEW new,
           NEW record, About(t, s, "update", new, record)
    PROVE  /\ row' = [row EXCEPT ![s] = new] /\ history' = history \cup record
           /\ UNCHANGED <<now, nextId, grants>>
<1>1. t \in Transaction /\ row \in [Subscriber -> Row]
  BY DEF TxInv, TxTypeOK, TypeOK
<1>2. /\ t.op = "update" /\ t.touched = {s} /\ t.new[s] = new /\ t.granted = {}
      /\ t.record = record
  BY <1>1 DEF About
<1>3. Written(t, s) = new
  BY <1>1, <1>2, UpdateWrites
<1>4. /\ row' = [u \in Subscriber |-> IF u \in {s} THEN Written(t, u) ELSE row[u]]
      /\ nextId' = nextId /\ now' = now /\ grants' = grants /\ history' = history \cup record
  BY <1>2 DEF Commit
<1>5. row' = [row EXCEPT ![s] = new]
  BY <1>1, <1>3, <1>4
<1> QED BY <1>4, <1>5

LEMMA UserCommits ==
    ASSUME TxInv, NEW t \in open, Commit(t), t.seen = row, NEW s \in Subscriber,
           IsSubscribe(t, s) \/ IsDelete(t, s) \/ IsChange(t, s) \/ IsMark(t, s)
    PROVE  [Next]_leaseVars
<1>1. t \in Transaction /\ row \in [Subscriber -> Row] /\ row[s] \in Row
  BY DEF TxInv, TxTypeOK, TypeOK
<1>2. CASE IsSubscribe(t, s)
  <2>1. PICK p \in Prefs, id \in Nat : About(t, s, "insert", NewRow(id, p, now), {})
    BY <1>2 DEF IsSubscribe
  <2>2. /\ t.op = "insert" /\ t.touched = {s} /\ t.new[s] = NewRow(id, p, now)
        /\ t.granted = {} /\ t.record = {}
    BY <1>1, <2>1 DEF About
  <2>3. Written(t, s) = NewRow(nextId, p, now)
    BY <2>2, NewRowTakesId DEF Written
  <2>4. /\ row' = [u \in Subscriber |-> IF u \in {s} THEN Written(t, u) ELSE row[u]]
        /\ nextId <= MaxRows /\ nextId' = nextId + 1
        /\ now' = now /\ grants' = grants /\ history' = history
    BY <2>2 DEF Commit
  <2>5. row' = [row EXCEPT ![s] = NewRow(nextId, p, now)]
    BY <1>1, <2>3, <2>4
  <2>6. Subscribe(s, p)
    BY <1>2, <2>4, <2>5 DEF Subscribe, Exists, IsSubscribe
  <2> QED BY <2>6 DEF Next, UserRequest
<1>3. CASE IsDelete(t, s)
  <2>1. t.op = "delete" /\ t.touched = {s} /\ t.granted = {} /\ t.record = {}
    BY <1>3 DEF IsDelete, About
  <2>2. /\ row' = [u \in Subscriber |-> IF u \in {s} THEN NoRow ELSE row[u]]
        /\ nextId' = nextId /\ now' = now /\ grants' = grants /\ history' = history
    BY <2>1 DEF Commit, Written
  <2>3. row' = [row EXCEPT ![s] = NoRow]
    BY <1>1, <2>2
  <2>4. Delete(s)
    BY <1>3, <2>2, <2>3 DEF Delete, Exists, IsDelete
  <2> QED BY <2>4 DEF Next, UserRequest
<1>4. CASE IsChange(t, s)
  <2>1. PICK p \in Prefs : About(t, s, "update", WithPrefsAt(row[s], p), {})
    BY <1>4 DEF IsChange
  <2>2. /\ row' = [row EXCEPT ![s] = WithPrefsAt(row[s], p)] /\ history' = history
        /\ UNCHANGED <<now, nextId, grants>>
    BY <2>1, UpdateIsWhole
  <2>3. CASE WithPrefs(row[s], p) = row[s]
    <3>1. row' = row
      BY <1>1, <2>2, <2>3 DEF WithPrefsAt
    <3> QED BY <2>2, <3>1 DEF leaseVars
  <2>4. CASE WithPrefs(row[s], p) # row[s]
    <3>1. Change(s, p)
      BY <1>4, <2>2, <2>4 DEF Change, Exists, IsChange, WithPrefsAt
    <3> QED BY <3>1 DEF Next, UserRequest
  <2> QED BY <2>3, <2>4
<1>5. CASE IsMark(t, s)
  <2>1. About(t, s, "update", MarkedSent(row[s], now), {}) /\ row[s].id # 0
    BY <1>5 DEF IsMark
  <2>2. /\ row' = [row EXCEPT ![s] = MarkedSent(row[s], now)] /\ history' = history
        /\ UNCHANGED <<now, nextId, grants>>
    <3> DEFINE new == MarkedSent(row[s], now)
    <3>1. About(t, s, "update", new, {})
      BY <2>1
    <3> HIDE DEF new
    <3>2. /\ row' = [row EXCEPT ![s] = new] /\ history' = history \cup {}
          /\ UNCHANGED <<now, nextId, grants>>
      BY <3>1, UpdateIsWhole
    <3> QED BY <3>2 DEF new
  <2>3. MarkSent(s)
    BY <2>1, <2>2 DEF MarkSent, Exists
  <2> QED BY <2>3 DEF Next, UserRequest
<1> QED BY <1>2, <1>3, <1>4, <1>5

LEMMA AckCommits ==
    ASSUME TxInv, NEW t \in open, Commit(t), t.seen = row, NEW s \in Subscriber,
           IsAckSent(t, s) \/ IsAckFailed(t, s)
    PROVE  Next
<1>1. CASE IsAckSent(t, s)
  <2> DEFINE lock == row[s].lock
  <2>1. /\ About(t, s, "update", AckedSent(row[s], now), {RecordOf(s, row[s], lock, now)})
        /\ row[s].id # 0 /\ lock \in Issued
    BY <1>1 DEF IsAckSent
  <2>2. AckSent(s, lock)
    BY <2>1, UpdateIsWhole DEF AckSent, HoldsLease, Exists
  <2> QED BY <2>1, <2>2 DEF Next, Ack
<1>2. CASE IsAckFailed(t, s)
  <2> DEFINE lock == row[s].lock
  <2>1. /\ About(t, s, "update", AckedFailed(row[s], now), {})
        /\ row[s].id # 0 /\ lock \in Issued
    BY <1>2 DEF IsAckFailed
  <2>2. AckFailed(s, lock)
    BY <2>1, UpdateIsWhole DEF AckFailed, HoldsLease, Exists
  <2> QED BY <2>1, <2>2 DEF Next, Ack
<1> QED BY <1>1, <1>2

LEMMA ClaimCommits ==
    ASSUME TxInv, NEW t \in open, Commit(t), t.seen = row, IsClaim(t)
    PROVE  Next
<1>1. t \in Transaction /\ row \in [Subscriber -> Row]
  BY DEF TxInv, TxTypeOK, TypeOK
<1>2. /\ t.op = "update" /\ t.touched = Due(t) /\ t.touched # {} /\ t.record = {}
      /\ Due(t) = ClaimableSet /\ ClaimableSet \subseteq Subscriber
  BY DEF IsClaim, Due, ClaimableSet, Claimable
<1>3. PICK choice \in [Due(t) -> Lock], epoch \in [Due(t) -> Nat] : ClaimsWith(t, choice, epoch)
  BY DEF IsClaim
<1>4. /\ \A s, u \in ClaimableSet : choice[s] = choice[u] => s = u
      /\ \A s \in Subscriber : t.new[s] = IF s \in ClaimableSet
                                          THEN Leased(row[s], choice[s], now) ELSE row[s]
      /\ t.granted = { LeaseOf(s, row[s], choice[s], epoch[s]) : s \in ClaimableSet }
  BY <1>2, <1>3 DEF ClaimsWith
<1>5. ASSUME NEW s \in ClaimableSet
      PROVE  /\ LeaseOf(s, row[s], choice[s], epoch[s]) = GrantOf(s, row[s], choice[s], now)
             /\ choice[s] \in Lock \ Issued
  <2> DEFINE g == LeaseOf(s, row[s], choice[s], epoch[s])
  <2>1. g \in t.granted
    BY <1>4
  <2>2. g.epoch = epoch[s] /\ g.id = row[s].id /\ g.lock = choice[s]
    BY DEF LeaseOf
  <2>3. epoch[s] = Cardinality(Recorded(row[s].id))
    <3> HIDE DEF g
    <3> QED BY <2>1, <2>2, EpochIsNow
  <2>4. choice[s] \notin Issued
    <3> HIDE DEF g
    <3> QED BY <2>1, <2>2 DEF TxInv, DrawnInv
  <2> QED BY <1>2, <1>3, <2>3, <2>4 DEF LeaseOf, GrantOf
<1>6. t.granted = { GrantOf(s, row[s], choice[s], now) : s \in ClaimableSet }
  BY <1>4, <1>5
<1>7. \A s \in ClaimableSet : Written(t, s) = Leased(row[s], choice[s], now)
  BY <1>1, <1>2, <1>4, UpdateWrites
<1>8. /\ row' = [s \in Subscriber |-> IF s \in ClaimableSet THEN Written(t, s) ELSE row[s]]
      /\ nextId' = nextId /\ now' = now /\ grants' = grants \cup t.granted
      /\ history' = history
  BY <1>2 DEF Commit
<1>9. row' = [s \in Subscriber |-> IF s \in ClaimableSet
                                   THEN Leased(row[s], choice[s], now) ELSE row[s]]
  BY <1>7, <1>8
<1>10. choice \in [ClaimableSet -> Lock \ Issued]
  BY <1>2, <1>3, <1>5
<1>11. Claim(choice)
  BY <1>4, <1>6, <1>8, <1>9, <1>10 DEF Claim
<1> QED BY <1>2, <1>10, <1>11 DEF Next, DoClaim

\* A request whose rows nobody has changed since it read them is one step of the handlers
\* of SubscriptionLease; beginning or giving up a request changes nothing.
THEOREM SerialRequestsAreLeaseSteps == TxSpec => IsLeaseStep
<1>1. TxInv /\ [TxNext]_txVars
        => [(\A t \in open \ open' : t.seen = row) => Next]_leaseVars
  <2> SUFFICES ASSUME TxInv, [TxNext]_txVars, \A t \in open \ open' : t.seen = row,
                      ~UNCHANGED leaseVars
               PROVE  Next
    OBVIOUS
  <2>1. CASE TxTick
    BY <2>1 DEF TxTick, Next
  <2>2. ASSUME NEW t \in open, Commit(t) PROVE Next
    <3>1. t.seen = row
      BY <2>2 DEF Commit
    <3>2. Made(t)
      BY DEF TxInv
    <3>3. [Next]_leaseVars
      BY <2>2, <3>1, <3>2, UserCommits, AckCommits, ClaimCommits DEF Made
    <3> QED BY <3>3
  <2>3. ASSUME NEW op, NEW touched, NEW new, NEW record, NEW granted,
               Begin(op, touched, new, record, granted)
        PROVE  UNCHANGED leaseVars
    BY <2>3 DEF Begin
  <2>4. \A s \in Subscriber, p \in Prefs : ~BeginUpsert(s, p)
    BY <2>3 DEF BeginUpsert
  <2>5. \A s \in Subscriber : ~BeginDelete(s) /\ ~BeginMarkSent(s)
    BY <2>3 DEF BeginDelete, BeginMarkSent
  <2>6. \A choice \in [ClaimableSet -> Lock \ Drawn] : ~BeginClaim(choice)
    BY <2>3 DEF BeginClaim
  <2>7. \A s \in Subscriber, lock \in Issued : ~BeginAckSent(s, lock) /\ ~BeginAckFailed(s, lock)
    BY <2>3 DEF BeginAckSent, BeginAckFailed
  <2>8. \A t \in open : ~Rollback(t)
    BY DEF Rollback
  <2> QED BY <2>1, <2>2, <2>4, <2>5, <2>6, <2>7, <2>8 DEF TxNext, txVars, leaseVars
<1> QED BY <1>1, TxInvHolds, PTL DEF TxSpec, IsLeaseStep

=============================================================================
