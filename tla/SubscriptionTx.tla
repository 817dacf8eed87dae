--------------------------- MODULE SubscriptionTx ---------------------------
(***************************************************************************)
(* The handlers of SubscriptionLease as the database transactions they     *)
(* are: a SELECT without a row lock, Python code on the loaded objects,    *)
(* and one COMMIT, in which the ORM writes the columns whose value differs *)
(* from the loaded one (and updated_at, when there is any).  Transactions  *)
(* of other requests commit in between (PostgreSQL READ COMMITTED; the     *)
(* table has no version column).                                           *)
(*                                                                         *)
(* A transaction that is open has decided everything: what it read (seen), *)
(* what it made of it (new), which locks it will return and which history  *)
(* row it will insert.  It is short: the clock does not advance while one  *)
(* is open.                                                                *)
(***************************************************************************)
EXTENDS SubscriptionLease

CONSTANT MaxOpen     \* bound on the requests the API serves at once

ASSUME TxAssumption == MaxOpen \in Nat \ {0}

VARIABLE open

txVars == <<leaseVars, open>>

Columns == DOMAIN NoRow

\* op names the handler; touched are the rows it writes.
Transaction == [ op      : {"insert", "update", "delete"},
                 touched : SUBSET Subscriber,
                 seen    : [Subscriber -> Row],
                 new     : [Subscriber -> Row],
                 record  : SUBSET Record,
                 granted : SUBSET Grant ]

TxTypeOK == TypeOK /\ open \subseteq Transaction

TxInit == Init /\ open = {}

Begin(op, touched, new, record, granted) ==
    /\ Cardinality(open) < MaxOpen
    /\ open' = open \cup
         {[ op |-> op, touched |-> touched, seen |-> row,
            new |-> [s \in Subscriber |-> IF s \in touched THEN new[s] ELSE row[s]],
            record |-> record, granted |-> granted ]}
    /\ UNCHANGED leaseVars

\* Locks drawn by open transactions are fresh as well.
Drawn == Issued \cup { g.lock : g \in UNION { t.granted : t \in open } }

-----------------------------------------------------------------------------
(* The handlers up to their COMMIT                                         *)

BeginUpsert(s, p) ==
    IF Exists(s)
    THEN Begin("update", {s},
               [row EXCEPT ![s] = IF WithPrefs(@, p) = @ THEN @
                                  ELSE Stamped(WithPrefs(@, p), now)], {}, {})
    ELSE /\ nextId <= MaxRows
         /\ Begin("insert", {s}, [row EXCEPT ![s] = NewRow(nextId, p, now)], {}, {})

BeginDelete(s) ==
    Exists(s) /\ Begin("delete", {s}, [row EXCEPT ![s] = NoRow], {}, {})

BeginClaim(choice) ==
    /\ ClaimableSet # {}
    /\ choice \in [ClaimableSet -> Lock \ Drawn]
    /\ \A s, t \in ClaimableSet : choice[s] = choice[t] => s = t
    /\ Begin("update", ClaimableSet,
             [s \in ClaimableSet |-> Leased(row[s], choice[s], now)], {},
             { GrantOf(s, row[s], choice[s], now) : s \in ClaimableSet })

BeginAckSent(s, lock) ==
    /\ HoldsLease(s, lock)
    /\ Begin("update", {s}, [row EXCEPT ![s] = AckedSent(@, now)],
             {RecordOf(s, row[s], lock, now)}, {})

BeginAckFailed(s, lock) ==
    /\ HoldsLease(s, lock)
    /\ Begin("update", {s}, [row EXCEPT ![s] = AckedFailed(@, now)], {}, {})

BeginMarkSent(s) ==
    Exists(s) /\ Begin("update", {s}, [row EXCEPT ![s] = MarkedSent(@, now)], {}, {})

-----------------------------------------------------------------------------
(* COMMIT                                                                  *)

\* Mistake: the whole row is written back.
WrittenWholeRow(t, s) ==
    CASE t.op = "insert" -> [t.new[s] EXCEPT !.id = nextId]
      [] t.op = "delete" -> NoRow
      [] t.op = "update" -> t.new[s]

\* INSERT with the next id, DELETE, or UPDATE ... SET the changed columns
\* WHERE id = ...
Written(t, s) ==
    CASE t.op = "insert" -> [t.new[s] EXCEPT !.id = nextId]
      [] t.op = "delete" -> NoRow
      [] t.op = "update" ->
            [ c \in Columns |-> IF t.new[s][c] # t.seen[s][c] THEN t.new[s][c]
                                ELSE row[s][c] ]

\* The row the transaction loaded is still there (for an insert: the user still
\* has none).  Otherwise an update fails (StaleDataError), an insert violates
\* the unique user_id, and a delete finds nothing to do.
StillThere(t) == \A s \in t.touched : row[s].id = t.seen[s].id

\* Mistake: the history row is not part of the transaction.
CommitWithoutRecord(t) ==
    /\ t \in open
    /\ StillThere(t)
    /\ t.op = "insert" => nextId <= MaxRows
    /\ row' = [s \in Subscriber |->
                 IF s \in t.touched THEN Written(t, s) ELSE row[s]]
    /\ nextId' = IF t.op = "insert" THEN nextId + 1 ELSE nextId
    /\ grants' = grants \cup t.granted
    /\ open' = open \ {t}
    /\ UNCHANGED <<now, history>>

Commit(t) ==
    /\ t \in open
    /\ StillThere(t)
    /\ t.op = "insert" => nextId <= MaxRows
    /\ row' = [s \in Subscriber |->
                 IF s \in t.touched THEN Written(t, s) ELSE row[s]]
    /\ nextId' = IF t.op = "insert" THEN nextId + 1 ELSE nextId
    /\ history' = history \cup t.record
    /\ grants' = grants \cup t.granted
    /\ open' = open \ {t}
    /\ UNCHANGED now

\* A failed or cancelled request leaves the database alone.
Rollback(t) ==
    /\ t \in open
    /\ open' = open \ {t}
    /\ UNCHANGED leaseVars

TxTick == open = {} /\ Tick /\ UNCHANGED open

TxNext ==
    \/ TxTick
    \/ \E s \in Subscriber, p \in Prefs : BeginUpsert(s, p)
    \/ \E s \in Subscriber : BeginDelete(s) \/ BeginMarkSent(s)
    \/ \E choice \in [ClaimableSet -> Lock \ Drawn] : BeginClaim(choice)
    \/ \E s \in Subscriber, lock \in Issued :
          BeginAckSent(s, lock) \/ BeginAckFailed(s, lock)
    \/ \E t \in open : Commit(t) \/ Rollback(t)

TxSpec == TxInit /\ [][TxNext]_txVars

-----------------------------------------------------------------------------
(* Properties                                                              *)

\* A transaction that commits against the rows it loaded is one step of the
\* handler in SubscriptionLease (and with one request at a time, that is all of
\* them); nothing else changes the database or lets time pass.
IsLeaseStep ==
    [][(\A t \in open \ open' : t.seen = row) => Next]_leaseVars

\* Whatever transactions overlap, the merged columns agree: a leased row carries
\* an issued lock and has been counted, within the attempt limit.
LeaseIsCounted ==
    \A s \in Subscriber :
        /\ row[s].attempt <= MaxAttempt
        /\ row[s].lock # NoLock =>
              /\ row[s].attempt >= 1
              /\ \E g \in grants : g.lock = row[s].lock /\ g.id = row[s].id

\* A recorded delivery is visible to the next due check, however its commit
\* overlapped with others: no lost update of last_sent_at.
RecordIsRemembered ==
    \A h \in history : row[h.sub].id = h.id => row[h.sub].lastSent >= h.at

\* No transaction that overlaps another one makes it unhappen.
NoUpdateIsLost == LeaseIsCounted /\ RecordIsRemembered
=============================================================================
