------------------------------ MODULE DataRuns ------------------------------
(***************************************************************************)
(* The dataset registry (services/data_runs.py): the table data_runs, one  *)
(* row per pipeline run, and the single row of active_datasets, a pointer  *)
(* to the run being served with copies of that run's columns.              *)
(*                                                                         *)
(* A handler is one step here; DataRunTx splits it into the reads and the  *)
(* COMMIT it is made of.  Of the descriptive columns only                  *)
(* dataset_meta_path is kept (meta): it is the one the API follows when it *)
(* reloads.  The others are written by the same assignments.               *)
(***************************************************************************)
EXTENDS Naturals

CONSTANTS
    Run,        \* run ids
    Meta,       \* dataset_meta.json paths
    NoMeta,     \* NULL dataset_meta_path
    Post        \* the state updates clients may send

NoRun == [state |-> "none", meta |-> NoMeta, error |-> FALSE, finished |-> FALSE]

\* Lowest, "none": there is no row yet, and every state may follow.
StateOrder ==
    [ none |-> 0, collecting |-> 10, raw_committed |-> 20, raw_validated |-> 30,
      processing |-> 40, processed_validated |-> 50, staged |-> 60,
      indexing |-> 70, published |-> 80, failed |-> 90 ]

State    == DOMAIN StateOrder \ {"none"}
Terminal == {"published", "failed"}

DataRun == [ state : State, meta : Meta \cup {NoMeta},
             error : BOOLEAN, finished : BOOLEAN ]

\* The payload of POST /data-runs/{run}/state; NULL fields leave a column alone.
ASSUME PostAssumption ==
    Post \subseteq [ run : Run, state : State, meta : Meta \cup {NoMeta},
                     error : BOOLEAN ]

ASSUME RunAssumption == Run \cap {"none", "unread"} = {}

\* There is no dataset before the first publication.
Pointer   == [run : Run, meta : Meta \cup {NoMeta}]
NoPointer == [run |-> "none", meta |-> NoMeta]

VARIABLES
    data_runs,   \* Run -> DataRun, or NoRun when there is no row
    active       \* the row of active_datasets, or NoPointer

registryVars == <<data_runs, active>>

TypeOK ==
    /\ data_runs \in [Run -> DataRun \cup {NoRun}]
    /\ active \in Pointer \cup {NoPointer}

Init ==
    /\ data_runs = [r \in Run |-> NoRun]
    /\ active = NoPointer

-----------------------------------------------------------------------------
(* The handlers                                                            *)

\* validate_data_run_transition: a repeated state is accepted, a terminal run
\* stays as it is, otherwise the move is forward or to "failed".
Allowed(current, next) ==
    \/ current.state = next
    \/ /\ current.state \notin Terminal
       /\ \/ next = "failed"
          \/ StateOrder[next] >= StateOrder[current.state]

\* The columns after the update: an error message survives only on a failed
\* run, and finished_at says whether the run has ended.
Updated(old, p) ==
    [ state    |-> p.state,
      meta     |-> IF p.meta = NoMeta THEN old.meta ELSE p.meta,
      error    |-> p.error \/ (p.state = "failed" /\ old.error),
      finished |-> p.state \in Terminal ]

\* Mistake: the pointer does not receive the path.
PointerWithoutPath(r, dataRun) == [run |-> r, meta |-> NoMeta]

\* _set_active_dataset
PointerTo(r, dataRun) == [run |-> r, meta |-> dataRun.meta]

\* upsert_data_run_state: publication moves the pointer in the same commit,
\* also when the run was published before.
Upsert(p) ==
    LET updated == Updated(data_runs[p.run], p) IN
    /\ Allowed(data_runs[p.run], p.state)
    /\ data_runs' = [data_runs EXCEPT ![p.run] = updated]
    /\ active' = IF p.state = "published" THEN PointerTo(p.run, updated) ELSE active

\* activate_data_run: a rollback or an operator's choice.
Activate(r) ==
    /\ data_runs[r].state = "published"
    /\ active' = PointerTo(r, data_runs[r])
    /\ UNCHANGED data_runs

Next ==
    \/ \E p \in Post : Upsert(p)
    \/ \E r \in Run : Activate(r)

Spec == Init /\ [][Next]_registryVars

-----------------------------------------------------------------------------
(* Properties                                                              *)

\* The API serves the active run; reload-data refuses one that is not
\* published (_active_reload_plan), so the pointer must never name one.
ActiveIsPublished ==
    active # NoPointer => data_runs[active.run].state = "published"

\* The pointer's copies agree with the run they were copied from: reload-data
\* follows the copied path and compares the run id it finds there.
ActiveMirrorsRun ==
    active # NoPointer => active.meta = data_runs[active.run].meta

\* finished_at, which the last-success and last-failure metrics and the health
\* report read, is set exactly on ended runs.
FinishedIsTerminal ==
    \A r \in Run : data_runs[r].finished <=> data_runs[r].state \in Terminal

RegistryInv == ActiveIsPublished /\ ActiveMirrorsRun /\ FinishedIsTerminal

\* A run's row is never removed or moved back, and a terminal state is final
\* (the docstring of validate_data_run_transition: "Reject state regressions").
Advances(old, new) ==
    /\ old.state \in Terminal => new.state = old.state
    /\ StateOrder[new.state] >= StateOrder[old.state]

StateOnlyAdvances ==
    [][\A r \in Run : Advances(data_runs[r], data_runs'[r])]_registryVars
=============================================================================
