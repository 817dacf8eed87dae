------------------------------ MODULE BackfillDays ------------------------------
(***************************************************************************)
(* scripts/hh_backfill_to_minio.py: the collection of past days, one after *)
(* the other, into the raw bucket.  Rows go to a partial file as they are  *)
(* loaded and a checkpoint follows every search page; any call may fail,   *)
(* which starts the day over from its files, and the process may die.      *)
(* flock keeps a second process out, so there is one at a time.            *)
(***************************************************************************)
EXTENDS Naturals, Sequences, FiniteSets

CONSTANTS
    Day, Vacancy,
    Shards,          \* the number of searches of a day: areas times experience filters
    Listing,         \* Listing[day][shard][page]: the vacancies a search page lists
    MaxPages, Limit, \* max_pages, limit_per_day
    MaxAttempts,     \* max_attempts_per_day, 0 for no limit
    Wrong,           \* the vacancies that the date semantics gate rejects
    NoSnapshot,
    MaxFailures      \* bound: the failures of a day that are explored

ASSUME BackfillDaysAssumption ==
    /\ Day \subseteq Nat /\ Shards \in Nat \ {0} /\ MaxPages \in Nat \ {0} /\ Limit \in Nat \ {0}
    /\ MaxAttempts \in Nat
    /\ Listing \in [Day -> [1..Shards -> [0..MaxPages - 1 -> SUBSET Vacancy]]]
    /\ NoSnapshot \notin Seq(Vacancy)

VARIABLES
    \* files of the backfill: state.json, manifest.jsonl, _QUARANTINE.json
    completed, attempts, announced, quarantined,
    \* files of each day: progress.json, snapshot.csv.tmp, snapshot.csv
    progress, partial, snapshot,
    stored,          \* the snapshots in the bucket
    skipped,         \* history: vacancies that could not be loaded
    run              \* the process: where it is, its day and the links of the page

fileVars     == <<completed, attempts, announced, quarantined, progress, partial, snapshot>>
backfillVars == <<fileVars, stored, skipped, run>>

Rows(rows) == {rows[n] : n \in DOMAIN rows}

RunState == [at : {"stopped", "idle", "search", "page", "judge", "upload", "mark", "announce",
                   "publish"},
             links : SUBSET Vacancy]
Stopped == [at |-> "stopped", links |-> {}]

DaysTypeOK ==
    /\ completed \subseteq Day /\ announced \subseteq Day /\ quarantined \in BOOLEAN
    /\ attempts \in [Day -> 0..MaxFailures]
    /\ progress \in [Day -> [shard : 1..(Shards + 1), page : 0..MaxPages]]
    /\ partial \in [Day -> Seq(Vacancy)]
    /\ snapshot \in [Day -> Seq(Vacancy) \cup {NoSnapshot}]
    /\ stored \in [Day -> Seq(Vacancy) \cup {NoSnapshot}]
    /\ skipped \in [Day -> SUBSET Vacancy]
    /\ run \in RunState

DaysInit ==
    /\ completed = {} /\ announced = {} /\ quarantined = FALSE
    /\ attempts = [d \in Day |-> 0]
    /\ progress = [d \in Day |-> [shard |-> 1, page |-> 0]]
    /\ partial = [d \in Day |-> <<>>]
    /\ snapshot = [d \in Day |-> NoSnapshot] /\ stored = [d \in Day |-> NoSnapshot]
    /\ skipped = [d \in Day |-> {}]
    /\ run = Stopped

-----------------------------------------------------------------------------
(* The process                                                             *)

Pending == Day \ completed
Next(d) == d \in Pending /\ \A e \in Pending : d <= e         \* next_pending_date

Go(at) == run' = [run EXCEPT !.at = at]

\* A quarantined backfill is not resumed: run_backfill_locked asks once, at its start.
Start ==
    /\ run.at = "stopped" /\ ~quarantined
    /\ Go("idle") /\ UNCHANGED <<fileVars, stored, skipped>>

Finish ==
    /\ run.at = "idle" /\ Pending = {}
    /\ run' = Stopped /\ UNCHANGED <<fileVars, stored, skipped>>

\* collect_day: a snapshot that exists is judged again, a partial one is continued.
Take(d) ==
    /\ run.at = "idle" /\ Next(d)
    /\ Go(IF snapshot[d] # NoSnapshot THEN "judge" ELSE "search")
    /\ UNCHANGED <<fileVars, stored, skipped>>

IsOver(d) == Len(partial[d]) >= Limit \/ progress[d].shard > Shards

Advanced(p) == [shard |-> p.shard + 1, page |-> 0]

\* The last page, an empty one and 404 end a shard.
Search(d) ==
    LET p == progress[d]
        isLast == p.page >= MaxPages \/ Listing[d][p.shard][p.page] = {} IN
    /\ run.at = "search" /\ Next(d) /\ ~IsOver(d)
    /\ IF isLast
       THEN progress' = [progress EXCEPT ![d] = Advanced(p)] /\ run' = run
       ELSE run' = [at |-> "page", links |-> Listing[d][p.shard][p.page]] /\ UNCHANGED progress
    /\ UNCHANGED <<completed, attempts, announced, quarantined, partial, snapshot, stored, skipped>>

\* A vacancy that cannot be loaded is passed over, and so is one of the rows so far,
\* of which a restart reads the ids from the file.
Load(d, v) ==
    /\ run.at = "page" /\ Next(d) /\ v \in run.links
    /\ \/ /\ skipped' = [skipped EXCEPT ![d] = @ \cup {v}]
          /\ run' = [run EXCEPT !.links = @ \ {v}] /\ UNCHANGED partial
       \/ /\ partial' = [partial EXCEPT ![d] = IF v \in Rows(@) THEN @ ELSE Append(@, v)]
          /\ run' = [run EXCEPT !.links = IF Len(partial'[d]) >= Limit THEN {} ELSE @ \ {v}]
          /\ UNCHANGED skipped
    /\ UNCHANGED <<completed, attempts, announced, quarantined, progress, snapshot, stored>>

\* Mistake: the page is counted when its links are known, before they are loaded.
FinishPageEarly(d) ==
    /\ run.at = "page" /\ Next(d)
    /\ progress[d].page < MaxPages
    /\ progress' = [progress EXCEPT ![d].page =
                        IF run.links = Listing[d][progress[d].shard][@] THEN @ + 1 ELSE @]
    /\ run' = IF run.links = {} THEN [run EXCEPT !.at = "search"] ELSE run
    /\ UNCHANGED <<completed, attempts, announced, quarantined, partial, snapshot, stored, skipped>>

\* The rows are on disk before progress.json counts their page.
FinishPage(d) ==
    /\ run.at = "page" /\ Next(d) /\ run.links = {}
    /\ progress' = [progress EXCEPT ![d].page = @ + 1]
    /\ Go("search")
    /\ UNCHANGED <<completed, attempts, announced, quarantined, partial, snapshot, stored, skipped>>

\* os.replace of the partial file by the snapshot
Collected(d) ==
    /\ run.at = "search" /\ Next(d) /\ IsOver(d)
    /\ snapshot' = [snapshot EXCEPT ![d] = partial[d]]
    /\ partial' = [partial EXCEPT ![d] = <<>>]
    /\ Go("judge")
    /\ UNCHANGED <<completed, attempts, announced, quarantined, progress, stored, skipped>>

Passes(d) == Rows(snapshot[d]) \cap Wrong = {}                \* evaluate_csv_date_semantics

Judge(d) ==
    /\ run.at = "judge" /\ Next(d) /\ Passes(d)
    /\ Go("upload") /\ UNCHANGED <<fileVars, stored, skipped>>

\* The root marker is the first of four that are written and uploaded; an upload that
\* fails counts as a failure of the day, which is then tried again.
Quarantine(d) ==
    /\ run.at = "judge" /\ Next(d) /\ ~Passes(d) /\ attempts[d] < MaxFailures
    /\ quarantined' = TRUE
    /\ attempts' = [attempts EXCEPT ![d] = @ + 1]
    /\ \/ Go("stopped")
       \/ (attempts'[d] < MaxAttempts \/ MaxAttempts = 0) /\ Go("idle")
    /\ UNCHANGED <<completed, announced, progress, partial, snapshot, stored, skipped>>

Upload(d) ==
    /\ run.at = "upload" /\ Next(d)
    /\ stored' = [stored EXCEPT ![d] = snapshot[d]]
    /\ Go("mark") /\ UNCHANGED <<fileVars, skipped>>

\* mark_day_complete: state.json, then manifest.jsonl, then both to the bucket
Mark(d) ==
    /\ run.at = "mark" /\ Next(d)
    /\ completed' = completed \cup {d}
    /\ Go("announce")
    /\ UNCHANGED <<attempts, announced, quarantined, progress, partial, snapshot, stored, skipped>>

Last == CHOOSE d \in completed : \A e \in completed : e <= d

Announce ==
    /\ run.at = "announce"
    /\ announced' = announced \cup {Last}
    /\ Go("publish")
    /\ UNCHANGED <<completed, attempts, quarantined, progress, partial, snapshot, stored, skipped>>

Publish == run.at = "publish" /\ Go("idle") /\ UNCHANGED <<fileVars, stored, skipped>>

\* record_failure, then the next attempt, unless there were enough of them
Fail(d) ==
    /\ run.at \notin {"stopped", "idle"} /\ attempts[d] < MaxFailures
    /\ IF run.at \in {"announce", "publish"} THEN d = Last ELSE Next(d)
    /\ attempts' = [attempts EXCEPT ![d] = @ + 1]
    /\ run' = IF MaxAttempts # 0 /\ attempts'[d] >= MaxAttempts THEN Stopped
              ELSE [at |-> "idle", links |-> {}]
    /\ UNCHANGED <<completed, announced, quarantined, progress, partial, snapshot, stored, skipped>>

Crash ==
    /\ run.at # "stopped"
    /\ run' = Stopped /\ UNCHANGED <<fileVars, stored, skipped>>

DaysNext ==
    \/ Start \/ Finish \/ Announce \/ Publish \/ Crash
    \/ \E d \in Day :
          \/ Take(d) \/ Search(d) \/ FinishPage(d) \/ Collected(d)
          \/ Judge(d) \/ Quarantine(d) \/ Upload(d) \/ Mark(d) \/ Fail(d)
          \/ \E v \in Vacancy : Load(d, v)

DaysSpec == DaysInit /\ [][DaysNext]_backfillVars

-----------------------------------------------------------------------------
(* Properties                                                              *)

\* The pages of a search up to its first empty one
PagesOf(d, s) == {p \in 0..MaxPages - 1 : \A q \in 0..p - 1 : Listing[d][s][q] # {}}

ListedOn == [d \in Day |-> UNION {UNION {Listing[d][s][p] : p \in PagesOf(d, s)} : s \in 1..Shards}]

Ledger == INSTANCE DayLedger WITH Listed <- ListedOn

\* Whatever fails or dies, and however often the backfill is started again, the days
\* are stored in order, whole and without duplicates, and nothing after a quarantine.
LedgerIsKept == Ledger!LedgerSpec
=============================================================================
