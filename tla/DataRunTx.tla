----------------------------- MODULE DataRunTx -----------------------------
(***************************************************************************)
(* The handlers of DataRuns as database transactions: SELECT the run,      *)
(* decide, and for a publication or an activation read the pointer, then   *)
(* COMMIT.  The reads lock nothing; reading the pointer first flushes the  *)
(* pending UPDATE or INSERT of the run (the session autoflushes), whose    *)
(* row lock is held until the end.  An UPDATE names the columns that       *)
(* differ from the loaded ones, at READ COMMITTED.                         *)
(***************************************************************************)
EXTENDS DataRuns

CONSTANTS
    Session,      \* the requests the API serves at once
    OneClient     \* TRUE: the updates of one run come one after the other

ASSUME TxAssumption == OneClient \in BOOLEAN

VARIABLE tx       \* Session -> its open transaction, or Idle

txVars == <<data_runs, active, tx>>

Idle   == [op |-> "idle"]
Unread == [run |-> "unread", meta |-> NoMeta]

\* run is the row it loaded (seen) and the same row with the new values (new);
\* pointer is the active row it loaded.
Transaction ==
    [ op : {"upsert", "activate"}, run : Run, seen : DataRun \cup {NoRun},
      new : DataRun, pointer : Pointer \cup {NoPointer, Unread} ]

TxTypeOK == TypeOK /\ tx \in [Session -> Transaction \cup {Idle}]

TxInit == Init /\ tx = [s \in Session |-> Idle]

\* The transaction will write the pointer.
Points(t) == t.op = "activate" \/ t.new.state = "published"

Begin(s, t) ==
    /\ tx[s] = Idle
    /\ tx' = [tx EXCEPT ![s] = t]
    /\ UNCHANGED registryVars

\* The row of t.run is written and locked by another open transaction.
LockedByOther(s) ==
    /\ tx[s].op = "upsert"
    /\ \E o \in Session \ {s} :
          /\ tx[o].op = "upsert" /\ tx[o].run = tx[s].run
          /\ tx[o].pointer # Unread

-----------------------------------------------------------------------------
(* upsert_data_run_state up to the validation, activate_data_run likewise  *)

BeginUpsert(s, p) ==
    /\ OneClient => \A o \in Session : tx[o].op = "upsert" => tx[o].run # p.run
    /\ Allowed(data_runs[p.run], p.state)
    /\ Begin(s, [ op |-> "upsert", run |-> p.run, seen |-> data_runs[p.run],
                  new |-> Updated(data_runs[p.run], p), pointer |-> Unread ])

BeginActivate(s, r) ==
    /\ data_runs[r].state = "published"
    /\ Begin(s, [ op |-> "activate", run |-> r, seen |-> data_runs[r],
                  new |-> data_runs[r], pointer |-> Unread ])

\* _set_active_dataset: session.get(ActiveDataset, 1)
ReadPointer(s) ==
    /\ tx[s] # Idle /\ Points(tx[s]) /\ tx[s].pointer = Unread
    /\ ~LockedByOther(s)
    /\ tx' = [tx EXCEPT ![s].pointer = active]
    /\ UNCHANGED registryVars

-----------------------------------------------------------------------------
(* COMMIT                                                                  *)

\* The columns of stored after an UPDATE by a transaction that loaded seen.
Merged(stored, seen, new) ==
    [c \in DOMAIN stored |-> IF new[c] # seen[c] THEN new[c] ELSE stored[c]]

\* Neither unique key is taken: an INSERT of the run finds no row of it, an
\* INSERT of the pointer none at all.
NoDuplicate(t) ==
    /\ t.seen = NoRun => data_runs[t.run] = NoRun
    /\ Points(t) /\ t.pointer = NoPointer => active = NoPointer

\* Mistake: the pointer is committed without the run.
CommitPointerOnly(s) ==
    LET t == tx[s] IN
    /\ t # Idle /\ (Points(t) => t.pointer # Unread)
    /\ ~LockedByOther(s) /\ NoDuplicate(t)
    /\ data_runs' = IF Points(t) THEN data_runs ELSE
                    [data_runs EXCEPT ![t.run] = Merged(@, t.seen, t.new)]
    /\ active' = IF Points(t) THEN Merged(active, t.pointer, PointerTo(t.run, t.new))
                 ELSE active
    /\ tx' = [tx EXCEPT ![s] = Idle]

Commit(s) ==
    LET t == tx[s] IN
    /\ t # Idle /\ (Points(t) => t.pointer # Unread)
    /\ ~LockedByOther(s) /\ NoDuplicate(t)
    /\ data_runs' = [data_runs EXCEPT ![t.run] = Merged(@, t.seen, t.new)]
    /\ active' = IF Points(t) THEN Merged(active, t.pointer, PointerTo(t.run, t.new))
                 ELSE active
    /\ tx' = [tx EXCEPT ![s] = Idle]

\* An integrity error, a cancelled request or a lost connection.
RollBack(s) ==
    /\ tx[s] # Idle
    /\ tx' = [tx EXCEPT ![s] = Idle]
    /\ UNCHANGED registryVars

TxNext ==
    \E s \in Session :
        \/ \E p \in Post : BeginUpsert(s, p)
        \/ \E r \in Run : BeginActivate(s, r)
        \/ ReadPointer(s) \/ Commit(s) \/ RollBack(s)

TxSpec == TxInit /\ [][TxNext]_txVars

-----------------------------------------------------------------------------
(* Properties                                                              *)

\* The abstract specification: with one client per run every transaction that
\* commits is one step of the registry, or changes nothing.
RegistrySpec == Spec

\* What makes overlapping requests harmless when each run has one client: the
\* row an update loaded is still the stored one when it commits, an activation's
\* run is still published, and a pointer once loaded still exists.
OneClientInv ==
    /\ \A s, o \in Session :
          /\ tx[s].op = "upsert" /\ tx[o].op = "upsert"
          /\ tx[s].run = tx[o].run
          => s = o
    /\ \A s \in Session :
          /\ tx[s].op = "upsert" =>
                /\ tx[s].seen = data_runs[tx[s].run]
                /\ Allowed(tx[s].seen, tx[s].new.state)
          /\ tx[s].op = "activate" =>
                /\ tx[s].new = tx[s].seen /\ tx[s].new.state = "published"
                /\ data_runs[tx[s].run].state = "published"
          /\ tx[s].op # "idle" /\ tx[s].pointer \in Pointer => active \in Pointer
    /\ ActiveIsPublished
=============================================================================
