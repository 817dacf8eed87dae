----------------------------- MODULE VacancySearch -----------------------------
(***************************************************************************)
(* What a search for vacancies finds, and what it says of it:              *)
(* vacancy_indexer.py writes the frame an API process serves to the table  *)
(* vacancy_snapshots and to the search index, through a staging index that *)
(* is named after the run; routers/admin.py records the beginning and the  *)
(* end of that in indexer_runs; and routers/search.py tells the user from  *)
(* the newest record whether the index is ready and of the run that is     *)
(* served.  Publication has these steps as a few of many, for whole runs.  *)
(* The search engine executes its tasks in order, so a task nobody waits   *)
(* for is no later than the next call's.  Batches are one step; retries    *)
(* and batches that fail half-way are a call that fails, as is a full      *)
(* refresh whose rows another one has inserted meanwhile.                  *)
(*                                                                         *)
(* A document is known by the dataset whose frame it was made from and by  *)
(* the dataset_run_id it carries, which are read one after the other.      *)
(***************************************************************************)
EXTENDS Naturals, Sequences, FiniteSets

CONSTANTS
    Server,          \* API processes
    Dataset, NoDataset,
    Offered,         \* the vacancies of each dataset
    MaxIndexings,    \* bound: runs of the indexer
    MaxTroubles      \* bound: steps that fail, and crashes

ASSUME SearchAssumption ==
    /\ NoDataset \notin Dataset /\ {MaxIndexings, MaxTroubles} \subseteq Nat
    /\ DOMAIN Offered = Dataset /\ \A d \in Dataset : IsFiniteSet(Offered[d]) /\ Offered[d] # {}

VARIABLES
    frames,          \* the dataset each process serves
    records,         \* indexer_runs, by started_at
    stored,          \* the rows of vacancy_snapshots, by hh_vacancy_id
    searched,        \* the documents of the index "vacancies"
    staging,         \* the staging index of each run, if it is there
    indexings,       \* the calls of the indexer
    query,           \* a search
    troubles

searchingVars == <<frames, records, stored, searched, staging, indexings, query, troubles>>

Indexing == 1..MaxIndexings
Offer    == UNION {Offered[d] : d \in Dataset}
Gone     == [of |-> NoDataset, label |-> NoDataset]   \* no such row or document
Nothing  == [v \in Offer |-> Gone]
NoIndex  == <<>>                                  \* no such index
Has(docs) == {v \in Offer : docs[v] # Gone}

Unbegun == [at |-> "none"]
At(n)   == indexings[n].at
Running(n) == At(n) \notin {"none", "over"}

Unasked == [at |-> "quiet"]

SearchingInit ==
    /\ frames \in [Server -> Dataset]
    /\ records = <<>> /\ stored = Nothing /\ searched = Nothing
    /\ staging = [d \in Dataset |-> NoIndex]
    /\ indexings = [n \in Indexing |-> Unbegun]
    /\ query = Unasked /\ troubles = 0

Trouble == troubles < MaxTroubles /\ troubles' = troubles + 1

Proceeds(n, at) == indexings' = [indexings EXCEPT ![n].at = at]

\* A search that is under way notes that what it reads has changed.
Disturbed(s) == IF query.at \in {"status", "trust", "find"} /\ query.server = s
                THEN [query EXCEPT !.excused = TRUE] ELSE query
IndexMoves   == IF query.at \in {"status", "trust", "find"}
                THEN [query EXCEPT !.excused = TRUE] ELSE query

-----------------------------------------------------------------------------
(* What is served: reloads, rollbacks and the subscriber                   *)

Serve(s, d) ==
    /\ frames[s] # d /\ frames' = [frames EXCEPT ![s] = d]
    /\ query' = Disturbed(s)
    /\ UNCHANGED <<records, stored, searched, staging, indexings, troubles>>

-----------------------------------------------------------------------------
(* Beginning: the label and the frame                                      *)

\* _create_indexer_run
Record(label) == records' = Append(records, [label |-> label, status |-> "running"])

Begun(n, new) ==
    /\ At(n) = "none" /\ (n > 1 => At(n - 1) # "none")
    /\ LET others == {o \in Indexing : Running(o)} IN
       indexings' = [o \in Indexing |->
          IF o = n THEN [new EXCEPT !.alone = (others = {})]
          ELSE IF o \in others THEN [indexings[o] EXCEPT !.alone = FALSE] ELSE indexings[o]]
    /\ UNCHANGED <<frames, stored, searched, staging, query, troubles>>

\* _run_vacancy_indexer, of reload-data: the label, an await, and the frame; loads run
\* in threads of their own, so they come between any two reads
BeginReloading(n, s) ==
    /\ Begun(n, [at |-> "frame", server |-> s, force |-> FALSE, label |-> frames[s],
                 frame |-> NoDataset, seen |-> Nothing, record |-> Len(records) + 1,
                 alone |-> TRUE])
    /\ Record(frames[s])

\* index_meilisearch: the frame, and then the label
BeginManual(n, s, force) ==
    /\ Begun(n, [at |-> "label", server |-> s, force |-> force, label |-> NoDataset,
                 frame |-> frames[s], seen |-> Nothing, record |-> 0, alone |-> TRUE])
    /\ UNCHANGED records

TableAndIndexOnly == UNCHANGED <<frames, query, troubles>>

ReadFrame(n) ==
    /\ At(n) = "frame"
    /\ indexings' = [indexings EXCEPT ![n].at = "read", ![n].frame = frames[indexings[n].server]]
    /\ UNCHANGED <<records, stored, searched, staging>> /\ TableAndIndexOnly

ReadLabel(n) ==
    LET label == frames[indexings[n].server] IN
    /\ At(n) = "label" /\ Record(label)
    /\ indexings' = [indexings EXCEPT ![n].at = "read", ![n].label = label,
                                      ![n].record = Len(records) + 1]
    /\ UNCHANGED <<stored, searched, staging>> /\ TableAndIndexOnly

-----------------------------------------------------------------------------
(* The table                                                               *)

RunOf(n) == indexings[n].label
Seen(n)  == indexings[n].seen

\* _snapshots_from_df
Documents(of, label) ==
    [v \in Offer |-> IF v \in Offered[of] THEN [of |-> of, label |-> label] ELSE Gone]
Incoming(n) == Documents(indexings[n].frame, RunOf(n))
Expected(n) == Cardinality(Has(Incoming(n)))

Closed(n, status) ==
    /\ records' = [records EXCEPT ![indexings[n].record].status = status]
    /\ indexings' = [indexings EXCEPT ![n].at = "over", ![n].seen = Nothing]

ReadTable(n) ==
    /\ At(n) = "read"
    /\ indexings' = [indexings EXCEPT ![n].at = "table", ![n].seen = stored]
    /\ UNCHANGED <<records, stored, searched, staging>> /\ TableAndIndexOnly

Full(n) == indexings[n].force \/ Has(Seen(n)) = {}

\* The columns that _copy_snapshot_fields has changed are written.
MergedRow(row, seen, new) ==
    [ of    |-> IF new.of # seen.of THEN new.of ELSE row.of,
      label |-> IF new.label # seen.label THEN new.label ELSE row.label ]

\* Rows that were not there when the table was read are neither deleted nor looked at.
Reconciled(n) ==
    [v \in Offer |->
        IF v \notin Has(Incoming(n)) THEN IF v \in Has(Seen(n)) THEN Gone ELSE stored[v]
        ELSE IF v \notin Has(Seen(n)) THEN Incoming(n)[v]
        ELSE MergedRow(stored[v], Seen(n)[v], Incoming(n)[v])]

\* An INSERT of a row that is there by now fails, and an UPDATE of one that is gone.
Fits(n) ==
    \A v \in Has(Incoming(n)) :
        IF v \in Has(Seen(n))
        THEN Incoming(n)[v] = Seen(n)[v] \/ v \in Has(stored)
        ELSE v \notin Has(stored)

\* sync_vacancy_snapshots, or the reconciliation
ReconcileTable(n) ==
    /\ At(n) = "table"
    /\ IF Full(n) \/ Fits(n)
       THEN /\ stored' = IF Full(n) THEN Incoming(n) ELSE Reconciled(n)
            /\ Proceeds(n, "drop") /\ UNCHANGED records
       ELSE Closed(n, "failed") /\ UNCHANGED stored
    /\ UNCHANGED <<searched, staging>> /\ TableAndIndexOnly

-----------------------------------------------------------------------------
(* The index: _replace_vacancies_index                                     *)

Staged(n) == staging[RunOf(n)]
Stages(n, docs) == staging' = [staging EXCEPT ![RunOf(n)] = docs]
StagingOnly == UNCHANGED <<records, stored, searched>> /\ TableAndIndexOnly

\* Two of one run share the staging index.
DropStaging(n) ==
    /\ At(n) = "drop" /\ Stages(n, NoIndex) /\ Proceeds(n, "create") /\ StagingOnly

CreateStaging(n) ==
    /\ At(n) = "create" /\ Proceeds(n, "fill")
    /\ Stages(n, IF Staged(n) = NoIndex THEN Nothing ELSE Staged(n)) /\ StagingOnly

\* Documents that are sent to an index that is gone create it.
FillStaging(n) ==
    LET there == IF Staged(n) = NoIndex THEN Nothing ELSE Staged(n) IN
    /\ At(n) = "fill" /\ Proceeds(n, "verify")
    /\ Stages(n, [v \in Offer |-> IF v \in Has(Incoming(n)) THEN Incoming(n)[v] ELSE there[v]])
    /\ StagingOnly

\* The count of an index that is gone is an error; of one that has not what was sent,
\* an error after its deletion.
VerifyStaging(n) ==
    /\ At(n) = "verify"
    /\ IF Staged(n) # NoIndex /\ Cardinality(Has(Staged(n))) = Expected(n)
       THEN Proceeds(n, "swap") /\ UNCHANGED <<records, staging>>
       ELSE Closed(n, "failed") /\ Stages(n, NoIndex)
    /\ UNCHANGED <<stored, searched>> /\ TableAndIndexOnly

SwapStaging(n) ==
    /\ At(n) = "swap"
    /\ IF Staged(n) # NoIndex
       THEN /\ searched' = Staged(n) /\ Stages(n, searched) /\ Proceeds(n, "clean")
            /\ query' = IndexMoves /\ UNCHANGED records
       ELSE Closed(n, "failed") /\ UNCHANGED <<searched, staging, query>>
    /\ UNCHANGED <<frames, stored, troubles>>

CleanStaging(n) ==
    /\ At(n) = "clean" /\ Stages(n, NoIndex) /\ Proceeds(n, "rows") /\ StagingOnly

-----------------------------------------------------------------------------
(* The end: what is there is counted by its label                          *)

Labelled(docs, label) == Cardinality({v \in Has(docs) : docs[v].label = label})

CountRows(n) ==
    /\ At(n) = "rows"
    /\ IF Labelled(stored, RunOf(n)) = Expected(n)
       THEN Proceeds(n, "documents") /\ UNCHANGED records
       ELSE Closed(n, "failed")
    /\ UNCHANGED <<stored, searched, staging>> /\ TableAndIndexOnly

CountDocs(n) ==
    /\ At(n) = "documents"
    /\ IF Labelled(searched, RunOf(n)) = Expected(n)
       THEN Proceeds(n, "record") /\ UNCHANGED records
       ELSE Closed(n, "failed")
    /\ UNCHANGED <<stored, searched, staging>> /\ TableAndIndexOnly

\* _set_indexer_success
RecordSuccess(n) ==
    /\ At(n) = "record" /\ Closed(n, "success")
    /\ UNCHANGED <<stored, searched, staging>> /\ TableAndIndexOnly

\* A call fails before it is executed; the failure is recorded, or cannot be.
CallFails(n) ==
    /\ At(n) \in {"read", "table", "drop", "create", "fill", "verify", "swap", "clean",
                  "rows", "documents", "record"} /\ Trouble
    /\ \E status \in {"failed", "running"} : Closed(n, status)
    /\ UNCHANGED <<frames, stored, searched, staging, query>>

\* A task of the search engine is not waited for any longer, and is executed.
SwapLate(n) ==
    /\ At(n) = "swap" /\ Staged(n) # NoIndex /\ Trouble
    /\ searched' = Staged(n) /\ Stages(n, searched) /\ query' = IndexMoves
    /\ Closed(n, "failed")
    /\ UNCHANGED <<frames, stored>>

KillServer(s) ==
    /\ Trouble
    /\ indexings' = [n \in Indexing |->
          IF Running(n) /\ indexings[n].server = s
          THEN [indexings[n] EXCEPT !.at = "over", !.seen = Nothing] ELSE indexings[n]]
    /\ query' = IF query.at # "quiet" /\ query.server = s THEN Unasked ELSE query
    /\ UNCHANGED <<frames, records, stored, searched, staging>>

-----------------------------------------------------------------------------
(* GET /v1/search/vacancies                                                *)

Newest == records[Len(records)]

\* History: the call that wrote the newest record ran alone, and no load came between its label
\* and its frame.
NewestWasAlone ==
    \E n \in Indexing :
        /\ At(n) # "none" /\ indexings[n].record = Len(records)
        /\ indexings[n].alone /\ indexings[n].label = indexings[n].frame

AskOnly == UNCHANGED <<frames, records, stored, searched, staging, indexings, troubles>>

\* _search_trust_context: the run that is served, and after an await the newest record
AskSearch(s) ==
    /\ query.at \in {"quiet", "answered"}
    /\ query' = [ at |-> "status", server |-> s, run |-> frames[s], state |-> "unknown",
                 excused |-> FALSE ]
    /\ AskOnly

\* Mistake: the record's run is not compared with the one that is served.
SearchStateByStatus(run) ==
    IF records # <<>> /\ Newest.status = "success" THEN "ready" ELSE "degraded"

\* _search_state, without the fallback and the warnings about the profile
SearchState(run) ==
    IF records # <<>> /\ Newest.status = "success" /\ Newest.label = run
    THEN "ready" ELSE "degraded"

ReadStatus ==
    /\ query.at = "status"
    /\ query' = [query EXCEPT !.at = "trust", !.excused = @ \/ ~NewestWasAlone,
                              !.state = SearchState(query.run)]
    /\ AskOnly

\* dataset_trust_payload, once the user's profile has been read: the label of the answer
ReadTrust ==
    /\ query.at = "trust"
    /\ query' = [query EXCEPT !.at = "find", !.run = frames[query.server]]
    /\ AskOnly

Answered(state, hits) ==
    [ at |-> "answered", server |-> query.server, run |-> query.run, state |-> state,
      hits |-> {hits[v] : v \in Has(hits)}, excused |-> query.excused ]

\* Any document may be a hit.
Find ==
    /\ query.at = "find"
    /\ query' = Answered(query.state, searched)
    /\ AskOnly

\* _search_vacancies_db_fallback
FindStored ==
    /\ query.at = "find" /\ Trouble
    /\ query' = Answered("fallback", stored)
    /\ UNCHANGED <<frames, records, stored, searched, staging, indexings>>

-----------------------------------------------------------------------------
IndexingNext(n) ==
    \/ \E s \in Server : BeginReloading(n, s) \/ \E force \in BOOLEAN : BeginManual(n, s, force)
    \/ ReadFrame(n) \/ ReadLabel(n) \/ ReadTable(n) \/ ReconcileTable(n)
    \/ DropStaging(n) \/ CreateStaging(n) \/ FillStaging(n) \/ VerifyStaging(n)
    \/ SwapStaging(n) \/ CleanStaging(n) \/ CountRows(n) \/ CountDocs(n) \/ RecordSuccess(n)
    \/ CallFails(n) \/ SwapLate(n)

SearchingNext ==
    \/ \E s \in Server : KillServer(s) \/ AskSearch(s) \/ \E d \in Dataset : Serve(s, d)
    \/ \E n \in Indexing : IndexingNext(n)
    \/ ReadStatus \/ ReadTrust \/ Find \/ FindStored

SearchingSpec == SearchingInit /\ [][SearchingNext]_searchingVars

-----------------------------------------------------------------------------
(* Properties                                                              *)

\* Once the newest record is a success the table and the index hold that run's vacancies
\* and no others, whatever failed, died or was left over before; unless two calls
\* overlapped, or a load came in between.
SuccessIsWhole ==
    records # <<>> /\ Newest.status = "success" /\ NewestWasAlone =>
        stored = Documents(Newest.label, Newest.label) /\ searched = stored

\* A search that calls the index ready shows vacancies of the run it names, unless a
\* swap or a load came in between, or such a call before.
ReadyIsOfTheRun ==
    query.at = "answered" /\ query.state = "ready" /\ ~query.excused =>
        \A hit \in query.hits : hit.of = query.run

SearchIsSound == SuccessIsWhole /\ ReadyIsOfTheRun
=============================================================================
