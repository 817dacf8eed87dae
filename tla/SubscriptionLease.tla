------------------------- MODULE SubscriptionLease -------------------------
(***************************************************************************)
(* The weekly-digest part of the API (routers/subscriptions.py) on the     *)
(* table weekly_subscriptions: every request handler is one action.  The   *)
(* clients are arbitrary: anybody who was ever given a lock may            *)
(* acknowledge it, in any order and any number of times.                   *)
(*                                                                         *)
(* A claim is a lease: it stamps the row with a fresh lock (uuid4) and the *)
(* ORM stamps updated_at, the age of the lease.  ack-sent and ack-failed   *)
(* end the lease; a claim takes over a lease older than StaleAfter.        *)
(*                                                                         *)
(* row[s] is subscriber s's row, with id 0 when there is none.  history is *)
(* the table digest_history.  grants is a history variable: every lock     *)
(* ever handed out, with the row it leased and the circumstances.          *)
(***************************************************************************)
EXTENDS DigestSchedule, FiniteSets

CONSTANTS
    Subscriber,      \* Telegram users that may subscribe
    Lock,            \* the uuid4 values claims may draw (bounds the claims)
    NoLock,          \* SQL NULL in the column lock
    Prefs,           \* the settings a user may choose
    StaleAfter,      \* stale_lock_seconds
    MaxAttempt,      \* subscription_max_attempt
    BackoffFrom,     \* ack-failed starts a backoff from this attempt on (3)
    BackoffTime,     \* subscription_backoff_seconds
    Horizon,         \* bound on the clock
    MaxRows          \* bound on the rows ever inserted

ASSUME LeaseAssumption ==
    /\ NoLock \notin Lock
    /\ Prefs \subseteq [active : BOOLEAN, weekday : Nat, time : Nat,
                        zone : (-DayLen)..DayLen]
    /\ StaleAfter \in Nat
    /\ MaxAttempt \in Nat \ {0}
    /\ BackoffFrom \in Nat
    /\ BackoffTime \in Nat
    /\ Horizon \in Nat \ {0}
    /\ MaxRows \in Nat

VARIABLES now, row, nextId, history, grants

leaseVars == <<now, row, nextId, history, grants>>

\* A zone is at most a day away from UTC.
Zone == (-DayLen)..DayLen

Row == [ id        : Nat,
         active    : BOOLEAN,
         weekday   : Nat,
         time      : Nat,
         zone      : Zone,
         lock      : Lock \cup {NoLock},
         attempt   : Nat,
         lastSent  : Nat,
         backoff   : Nat,
         updatedAt : Nat ]

\* A row of digest_history; lock is added by the model.
Record == [ sub : Subscriber, id : Nat, lock : Lock, at : Nat, attempt : Nat ]

\* A ClaimedSubscription of the claim response, with the row's id, the time of
\* the claim and the number of deliveries recorded for the row before it.
Grant == [ sub : Subscriber, id : Nat, lock : Lock, zone : Zone, at : Nat,
           attempt : Nat, epoch : Nat ]

NoRow == [ id |-> 0, active |-> FALSE, weekday |-> 0, time |-> 0, zone |-> 0,
           lock |-> NoLock, attempt |-> 0, lastSent |-> Null,
           backoff |-> Null, updatedAt |-> Null ]

Exists(s) == row[s].id # 0

Issued == { g.lock : g \in grants }

Recorded(id) == { h \in history : h.id = id }

TypeOK ==
    /\ now \in Nat \ {0}
    /\ row \in [Subscriber -> Row]
    /\ nextId \in Nat \ {0}
    /\ history \subseteq Record
    /\ grants \subseteq Grant

Init ==
    /\ now = 1
    /\ row = [s \in Subscriber |-> NoRow]
    /\ nextId = 1
    /\ history = {}
    /\ grants = {}

-----------------------------------------------------------------------------
(* What a handler makes of a row it read as r, at time t                   *)

Stamped(r, t) == [r EXCEPT !.updatedAt = t]

\* Mistake: saving the settings clears the attempts.
WithPrefsAndFreshAttempts(r, p) ==
    [r EXCEPT !.active = p.active, !.weekday = p.weekday % WeekLen,
              !.time = p.time, !.zone = p.zone, !.attempt = 0]

WithPrefs(r, p) ==
    [r EXCEPT !.active = p.active, !.weekday = p.weekday % WeekLen,
              !.time = p.time, !.zone = p.zone]

\* upsert_weekly_subscription for a user without a row.
NewRow(id, p, t) == Stamped([WithPrefs(NoRow, p) EXCEPT !.id = id], t)

\* Mistake: the attempts are not limited.
ClaimableForEver(r, t) ==
    /\ r.id # 0
    /\ r.active
    /\ r.weekday \in CandidateWeekdays(t)
    /\ IsDue(r, t)
    /\ ~(r.backoff > t)
    /\ ~(r.lock # NoLock /\ r.updatedAt > t - StaleAfter)

\* What claim_due_subscriptions checks of one row, in its order: the query,
\* the schedule, the attempts, the backoff, and a lease that is still fresh.
ClaimableRow(r, t) ==
    /\ r.id # 0
    /\ r.active
    /\ r.weekday \in CandidateWeekdays(t)
    /\ IsDue(r, t)
    /\ r.attempt < MaxAttempt
    /\ ~(r.backoff > t)
    /\ ~(r.lock # NoLock /\ r.updatedAt > t - StaleAfter)

Leased(r, lock, t) == Stamped([r EXCEPT !.lock = lock, !.attempt = @ + 1], t)

AckedSent(r, t) ==
    Stamped([r EXCEPT !.lastSent = t, !.lock = NoLock, !.attempt = 0,
                      !.backoff = Null], t)

AckedFailed(r, t) ==
    Stamped([r EXCEPT !.lock = NoLock,
                      !.backoff = IF r.attempt >= BackoffFrom
                                  THEN t + BackoffTime ELSE @], t)

MarkedSent(r, t) == Stamped([r EXCEPT !.lastSent = t], t)

\* `subscription.attempt or 1`, read after the handler has cleared attempt.
AttemptToRecord(r) == IF r.attempt = 0 THEN 1 ELSE r.attempt

RecordOf(s, r, lock, t) ==
    [ sub |-> s, id |-> r.id, lock |-> lock, at |-> t,
      attempt |-> AttemptToRecord(AckedSent(r, t)) ]

GrantOf(s, r, lock, t) ==
    [ sub |-> s, id |-> r.id, lock |-> lock, zone |-> r.zone, at |-> t,
      attempt |-> r.attempt + 1, epoch |-> Cardinality(Recorded(r.id)) ]

-----------------------------------------------------------------------------
(* User requests                                                           *)

Subscribe(s, p) ==
    /\ ~Exists(s)
    /\ nextId <= MaxRows
    /\ row' = [row EXCEPT ![s] = NewRow(nextId, p, now)]
    /\ nextId' = nextId + 1
    /\ UNCHANGED <<now, history, grants>>

\* upsert_weekly_subscription for a user with a row: only the settings change,
\* never the lease, and the ORM stamps updated_at when any of them does.
Change(s, p) ==
    /\ Exists(s)
    /\ WithPrefs(row[s], p) # row[s]
    /\ row' = [row EXCEPT ![s] = Stamped(WithPrefs(row[s], p), now)]
    /\ UNCHANGED <<now, nextId, history, grants>>

\* delete_weekly_subscription
Delete(s) ==
    /\ Exists(s)
    /\ row' = [row EXCEPT ![s] = NoRow]
    /\ UNCHANGED <<now, nextId, history, grants>>

-----------------------------------------------------------------------------
(* Requests of the delivery clients                                        *)

Claimable(s) == ClaimableRow(row[s], now)

ClaimableSet == { s \in Subscriber : Claimable(s) }

\* claim_due_subscriptions: every claimable row gets a lock of its own.
Claim(choice) ==
    /\ choice \in [ClaimableSet -> Lock \ Issued]
    /\ \A s, t \in ClaimableSet : choice[s] = choice[t] => s = t
    /\ row' = [s \in Subscriber |->
                 IF s \in ClaimableSet THEN Leased(row[s], choice[s], now)
                 ELSE row[s]]
    /\ grants' = grants \cup
                 { GrantOf(s, row[s], choice[s], now) : s \in ClaimableSet }
    /\ UNCHANGED <<now, nextId, history>>

\* The 404 / 409 checks shared by both acknowledgements.
HoldsLease(s, lock) == Exists(s) /\ row[s].lock = lock

\* ack_subscription_sent
AckSent(s, lock) ==
    /\ HoldsLease(s, lock)
    /\ row' = [row EXCEPT ![s] = AckedSent(row[s], now)]
    /\ history' = history \cup {RecordOf(s, row[s], lock, now)}
    /\ UNCHANGED <<now, nextId, grants>>

\* ack_subscription_failed
AckFailed(s, lock) ==
    /\ HoldsLease(s, lock)
    /\ row' = [row EXCEPT ![s] = AckedFailed(row[s], now)]
    /\ UNCHANGED <<now, nextId, history, grants>>

\* mark_subscription_sent without a body, as the bot's client calls it
MarkSent(s) ==
    /\ Exists(s)
    /\ row' = [row EXCEPT ![s] = MarkedSent(row[s], now)]
    /\ UNCHANGED <<now, nextId, history, grants>>

-----------------------------------------------------------------------------
Tick ==
    /\ now < Horizon
    /\ now' = now + 1
    /\ UNCHANGED <<row, nextId, history, grants>>

UserRequest(s) ==
    \/ \E p \in Prefs : Subscribe(s, p) \/ Change(s, p)
    \/ Delete(s)
    \/ MarkSent(s)

DoClaim ==
    /\ ClaimableSet # {}
    /\ \E choice \in [ClaimableSet -> Lock \ Issued] : Claim(choice)

Ack(s, lock) == AckSent(s, lock) \/ AckFailed(s, lock)

Next ==
    \/ Tick
    \/ DoClaim
    \/ \E s \in Subscriber : UserRequest(s)
    \/ \E s \in Subscriber, lock \in Issued : Ack(s, lock)

Spec == Init /\ [][Next]_leaseVars

-----------------------------------------------------------------------------
(* Properties                                                              *)

\* A subscriber never gets two deliveries recorded on one local date, in the
\* time zone the later one was claimed under, whatever the clients do: late,
\* repeated and crossing acknowledgements, stale takeovers and setting changes
\* included.  A new row (unsubscribe, subscribe) starts anew.
OneRecordPerLocalDay ==
    \A h1, h2 \in history :
        (h1.id = h2.id /\ h1.lock # h2.lock /\ h1.at <= h2.at) =>
            \A g \in grants : g.lock = h2.lock =>
                LocalDate(h1.at, g.zone) < LocalDate(h2.at, g.zone)

\* A lock is good for one recorded delivery, of the row it was issued for: a
\* repeated ack-sent (the client retries on a lost response) adds no second row
\* to digest_history.
OneRecordPerLock ==
    /\ \A h1, h2 \in history : h1.lock = h2.lock => h1 = h2
    /\ \A h \in history : \E g \in grants :
            g.lock = h.lock /\ g.sub = h.sub /\ g.id = h.id /\ g.at <= h.at

\* A row out of attempts and out of lease.
GivenUp(r) == r.id # 0 /\ r.attempt >= MaxAttempt /\ r.lock = NoLock

\* Giving up is final for the row: neither a new week nor pausing, resuming or
\* rescheduling makes it claimable again; only unsubscribing does.
GivingUpIsFinal ==
    [][\A s \in Subscriber :
          (GivenUp(row[s]) /\ row'[s].id = row[s].id) => GivenUp(row'[s])]_leaseVars

\* The SQL prefilter of the claim query never hides a due subscription, whatever
\* its time zone (the docstring of _candidate_weekdays), around the end of the
\* week as well.
PrefilterKeepsDue ==
    \A s \in Subscriber :
        (Exists(s) /\ row[s].active /\ IsDue(row[s], now)) =>
            row[s].weekday \in CandidateWeekdays(now)

\* What DigestHistoryItem.attempt is described as: the attempt number at the
\* time of the send, that is the attempt the claim response carried.
HistoryShowsAttempt ==
    \A h \in history : \A g \in grants : g.lock = h.lock => h.attempt = g.attempt
-----------------------------------------------------------------------------
(* The inductive invariant behind the properties above                     *)

\* Nothing carries a row id the table has not given out, and no two
\* subscribers share a row.
IdsGivenOut ==
    /\ \A s \in Subscriber : row[s].id < nextId
    /\ \A s, t \in Subscriber : (Exists(s) /\ row[s].id = row[t].id) => s = t
    /\ \A h \in history : h.id < nextId /\ h.id # 0
    /\ \A g \in grants : g.id < nextId

\* Nothing is stamped with a time to come.
NothingFromTheFuture ==
    /\ \A s \in Subscriber : row[s].lastSent <= now
    /\ \A h \in history : h.at <= now
    /\ \A g \in grants : g.at <= now

\* A lock was issued once, and while it is on a row nothing is recorded for it.
LockIsFresh ==
    /\ \A g1, g2 \in grants : g1.lock = g2.lock => g1 = g2
    /\ \A s \in Subscriber : row[s].lock # NoLock =>
          /\ Exists(s)
          /\ \E g \in grants : g.lock = row[s].lock /\ g.sub = s /\ g.id = row[s].id
          /\ \A h \in history : h.lock # row[s].lock

\* What was recorded for a row is remembered in its last_sent_at, and a lease
\* was granted on a later local date than everything recorded before.
LeaseIsForANewDate ==
    \A s \in Subscriber, h \in history :
        (Exists(s) /\ h.id = row[s].id) =>
            /\ row[s].lastSent # Null
            /\ h.at <= row[s].lastSent
            /\ \A g \in grants : (row[s].lock # NoLock /\ g.lock = row[s].lock) =>
                  h.at <= g.at /\ LocalDate(h.at, g.zone) < LocalDate(g.at, g.zone)

\* OneRecordPerLocalDay is not inductive by itself: an acknowledgement is as
\* good as the lease it ends, so the invariant has to know when and from what
\* state of last_sent_at every outstanding lease was granted.
LeaseInv ==
    /\ IdsGivenOut
    /\ NothingFromTheFuture
    /\ LockIsFresh
    /\ LeaseIsForANewDate
    /\ OneRecordPerLock
    /\ OneRecordPerLocalDay

=============================================================================
