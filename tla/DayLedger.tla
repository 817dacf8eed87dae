------------------------------- MODULE DayLedger -------------------------------
(***************************************************************************)
(* What a historical backfill promises of its bucket: the snapshots of the *)
(* days appear in order, each once and whole, and a backfill that is       *)
(* quarantined adds nothing more.                                          *)
(***************************************************************************)
EXTENDS Naturals, Sequences, Functions

CONSTANTS
    Day, Vacancy,
    Listed,          \* the vacancies the site lists for a day
    Wrong,           \* those whose publication date is another day's
    Limit,           \* limit_per_day
    NoSnapshot

VARIABLES
    stored,          \* snapshot.csv of each day in the bucket: a sequence of vacancies
    skipped,         \* vacancies of a day that could not be loaded when they were listed
    completed,       \* the days that state.json calls complete
    announced,       \* the days with a success line in manifest.jsonl
    quarantined      \* the local marker of the backfill exists

ledgerVars == <<stored, skipped, completed, announced, quarantined>>

Rows(snapshot) == {snapshot[n] : n \in DOMAIN snapshot}

\* Without duplicates, and without gaps below the limit.
IsWhole(d, snapshot) ==
    /\ IsInjective(snapshot)
    /\ Rows(snapshot) \cap Wrong = {}
    /\ Len(snapshot) >= Limit \/ Listed[d] \subseteq Rows(snapshot) \cup skipped[d]

IsNext(d) == d \notin completed /\ \A e \in Day : e < d => e \in completed

LedgerInit ==
    /\ stored = [d \in Day |-> NoSnapshot] /\ skipped = [d \in Day |-> {}]
    /\ completed = {} /\ announced = {} /\ quarantined = FALSE

Skip(d) ==
    /\ IsNext(d) /\ stored[d] = NoSnapshot
    /\ skipped' = [skipped EXCEPT ![d] = skipped'[d]] /\ skipped[d] \subseteq skipped'[d]
    /\ UNCHANGED <<stored, completed, announced, quarantined>>

Store(d) ==
    /\ ~quarantined /\ IsNext(d) /\ stored[d] = NoSnapshot
    /\ stored' = [stored EXCEPT ![d] = stored'[d]]
    /\ stored'[d] # NoSnapshot /\ IsWhole(d, stored'[d])
    /\ UNCHANGED <<skipped, completed, announced, quarantined>>

Complete(d) ==
    /\ ~quarantined /\ IsNext(d) /\ stored[d] # NoSnapshot
    /\ completed' = completed \cup {d}
    /\ UNCHANGED <<stored, skipped, announced, quarantined>>

\* Only the last day completed is announced: a line lost in a crash stays lost.
Announce(d) ==
    /\ d \in completed \ announced /\ \A e \in completed : e <= d
    /\ announced' = announced \cup {d}
    /\ UNCHANGED <<stored, skipped, completed, quarantined>>

Quarantine(d) ==
    /\ IsNext(d) /\ stored[d] = NoSnapshot
    /\ quarantined' = TRUE
    /\ UNCHANGED <<stored, skipped, completed, announced>>

LedgerNext ==
    \E d \in Day : Skip(d) \/ Store(d) \/ Complete(d) \/ Announce(d) \/ Quarantine(d)

LedgerSpec == LedgerInit /\ [][LedgerNext]_ledgerVars
=============================================================================
