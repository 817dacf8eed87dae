---------------------------- MODULE BackfillPublish ----------------------------
(***************************************************************************)
(* publish_hh_backfill_to_app.py: the completed days of a backfill are     *)
(* downloaded, merged into one raw file and run through the pipeline; then *)
(* --direct-index rewrites vacancy_snapshots and the search index, and     *)
(* --reload-api reloads the API and publishes the run.  Meanwhile the      *)
(* collection goes on or is quarantined, the daily run publishes, and the  *)
(* API is reloaded.                                                        *)
(*                                                                         *)
(* Days are collected in order, so the days 1..n make a selection, and n   *)
(* stands for it, for its raw file and for its run.  A lock file lets one  *)
(* publisher run at a time.  Publication has the replicas, the registry    *)
(* and the steps of a reload in detail; here are one API and the pointer.  *)
(***************************************************************************)
EXTENDS Naturals

CONSTANTS
    LastDay,      \* bound: the days of the backfill
    Supported,    \* the source has a valid capability_ref, and its rows the dates asked for
    Option,       \* the options it is called with
    MaxStarts     \* bound: calls of the script

Selected  == 1..LastDay
Daily     == LastDay + 1    \* a run of the daily pipeline; 0 is none

ASSUME PublishAssumption ==
    /\ LastDay \in Nat \ {0} /\ MaxStarts \in Nat /\ Supported \in BOOLEAN
    /\ Option \subseteq [ max : Selected, force : BOOLEAN, allow : BOOLEAN,
                          pipeline : BOOLEAN, direct : BOOLEAN, reload : BOOLEAN ]

VARIABLES
    completed,    \* state.json in the bucket: the days that are completed
    marked,       \* the quarantine markers: 0 for the prefix, and days
    cache,        \* the days in the cache
    raw,          \* latest.csv, latest.csv.previous, and state.json beside them
    script,       \* the publisher
    processed,    \* data/processed/runs: the semantic type of each run
    link,         \* the run that data/processed/latest links to
    pointer,      \* the active run of the registry
    entries,      \* vacancy_snapshots: the run they are of, and the run they name
    documents,    \* the index: the run they are of, and whether all are there
    starts,
    torn          \* history: what an interrupted or a raced call has left

bucketVars  == <<completed, marked>>
rawVars     == <<cache, raw>>
serveVars   == <<processed, link, pointer, entries, documents>>
publishVars == <<bucketVars, rawVars, script, serveVars, starts, torn>>

Off     == [at |-> "off"]
NoState == [days |-> 0, status |-> "none", type |-> "none"]

PublishInit ==
    /\ completed = 0 /\ marked = {} /\ cache = {}
    /\ raw = [newest |-> 0, previous |-> 0, state |-> NoState]
    /\ script = Off /\ processed = [d \in Selected |-> "none"]
    /\ pointer \in {0, Daily} /\ link = pointer
    /\ entries = [of |-> pointer, named |-> pointer] /\ documents = [of |-> pointer, whole |-> TRUE]
    /\ starts = 0 /\ torn = {}

-----------------------------------------------------------------------------
(* What goes on meanwhile                                                  *)

BucketOnly == UNCHANGED <<rawVars, script, serveVars, starts, torn>>

CompleteDay ==
    /\ {0, completed + 1} \cap marked = {} /\ completed < LastDay
    /\ completed' = completed + 1
    /\ BucketOnly /\ UNCHANGED marked

\* The collection marks the prefix and the day it stopped at; an operator may mark a day.
Quarantine(which) ==
    /\ which \notin marked /\ which <= completed + 1
    /\ marked' = marked \cup {which}
    /\ BucketOnly /\ UNCHANGED completed

\* pipeline_runner.sh takes another lock.
Races == script' = IF script = Off THEN Off ELSE [script EXCEPT !.raced = TRUE]

DailyOnly == UNCHANGED <<bucketVars, rawVars, processed, starts>>

DailyRun ==
    /\ link' = Daily /\ Races
    /\ DailyOnly /\ UNCHANGED <<pointer, entries, documents, torn>>

DailyPublished ==
    /\ link = Daily /\ pointer' = Daily /\ Races
    /\ DailyOnly /\ UNCHANGED <<link, entries, documents, torn>>

\* What a reload loads: no path is registered with the run of a backfill, so that
\* it is refused while one is active.
Loadable == IF pointer = 0 THEN link ELSE pointer
Refused  == pointer \in Selected \/ Loadable = 0

\* A reload rewrites the table and then the index, from what it has loaded.
Reindex(loaded) ==
    /\ entries' = [of |-> loaded, named |-> loaded]
    /\ \/ documents' = [of |-> loaded, whole |-> TRUE] /\ torn' = torn \ {"label", "index"}
       \/ UNCHANGED documents /\ torn' = (torn \ {"label"}) \cup {"index"}

OtherReload ==
    /\ ~Refused /\ Reindex(Loadable) /\ Races
    /\ DailyOnly /\ UNCHANGED <<link, pointer>>

-----------------------------------------------------------------------------
(* The selection                                                           *)

ScriptAt(label)   == script # Off /\ script.at = label
Goes(label) == script' = [script EXCEPT !.at = label]

\* state_already_published
AlreadyPublished(n) == raw.state.days = n /\ raw.state.status = "success"

\* The lock, then load_backfill_selection: what they refuse leaves no trace.
StartPublish(option) ==
    LET n == IF completed < option.max THEN completed ELSE option.max IN
    /\ script = Off /\ starts < MaxStarts
    /\ 0 \in marked => option.allow
    /\ n > 0 /\ (AlreadyPublished(n) => option.force)
    /\ script' = [ at |-> "day", n |-> n, day |-> 1, option |-> option, raced |-> FALSE,
                   marked |-> marked, state |-> raw.state.days, before |-> pointer, documents |-> 0 ]
    /\ starts' = starts + 1
    /\ UNCHANGED <<bucketVars, rawVars, serveVars, torn>>

\* Mistake: only the prefix is looked at for a marker.
CacheAnyDay ==
    /\ ScriptAt("day") /\ cache' = cache \cup {script.day}
    /\ script' = IF script.day = script.n THEN [script EXCEPT !.at = "previous"]
                 ELSE [script EXCEPT !.day = @ + 1]
    /\ UNCHANGED <<bucketVars, raw, serveVars, starts, torn>>

\* ensure_cached_day, of each day; a day that is marked ends the call.
CacheDay ==
    /\ ScriptAt("day") /\ (script.day \in marked => script.option.allow)
    /\ cache' = cache \cup {script.day}
    /\ script' = IF script.day = script.n THEN [script EXCEPT !.at = "previous"]
                 ELSE [script EXCEPT !.day = @ + 1]
    /\ UNCHANGED <<bucketVars, raw, serveVars, starts, torn>>

-----------------------------------------------------------------------------
(* materialize_latest, validate_materialized_raw                           *)

RawOnly == UNCHANGED <<bucketVars, cache, serveVars, starts>>

KeepPrevious ==
    /\ ScriptAt("previous") /\ Goes("latest")
    /\ raw' = IF raw.newest = 0 THEN raw ELSE [raw EXCEPT !.previous = raw.newest]
    /\ RawOnly /\ UNCHANGED torn

ReplaceLatest ==
    /\ ScriptAt("latest") /\ Goes("state") /\ raw' = [raw EXCEPT !.newest = script.n]
    /\ RawOnly /\ UNCHANGED torn

\* resolve_dataset_semantic_type: the marker of the prefix that the selection was made with.
SemanticType ==
    IF 0 \in script.marked THEN "forensic"
    ELSE IF Supported THEN "historical" ELSE "current"

WriteState ==
    /\ ScriptAt("state") /\ Goes("gate")
    /\ raw' = [raw EXCEPT !.state = [days |-> script.n, status |-> "pending", type |-> SemanticType]]
    /\ RawOnly /\ torn' = torn \ {"state"}

ValidateRaw ==
    /\ ScriptAt("gate") /\ Goes(IF script.option.pipeline THEN "run" ELSE "materialized")
    /\ RawOnly /\ UNCHANGED <<raw, torn>>

-----------------------------------------------------------------------------
(* The run, its index and its publication                                  *)

ServeOnly == UNCHANGED <<bucketVars, rawVars, starts>>

\* run_pipeline.py writes the files of the run, over those of an earlier call.
WriteRun ==
    /\ ScriptAt("run") /\ Goes("link")
    /\ processed' = [processed EXCEPT ![script.n] = raw.state.type]
    /\ ServeOnly /\ UNCHANGED <<link, pointer, entries, documents, torn>>

AfterIndex == IF script.option.reload THEN "reload" ELSE "success"

LinkRun ==
    /\ ScriptAt("link") /\ Goes(IF script.option.direct THEN "table" ELSE AfterIndex)
    /\ link' = script.n
    /\ ServeOnly /\ UNCHANGED <<processed, pointer, entries, documents, torn>>

\* replace_vacancy_snapshots_from_latest: one transaction, of the configured features_path,
\* under the name of this run.
WriteTable ==
    /\ ScriptAt("table") /\ script' = [script EXCEPT !.at = "drop", !.documents = link]
    /\ entries' = [of |-> link, named |-> script.n]
    /\ torn' = IF script.raced THEN torn \cup {"label", "index"} ELSE (torn \ {"label"}) \cup {"index"}
    /\ ServeOnly /\ UNCHANGED <<processed, link, pointer, documents>>

\* rebuild_meili_vacancies_index
DropIndex ==
    /\ ScriptAt("drop") /\ Goes("fill") /\ documents' = [of |-> 0, whole |-> FALSE]
    /\ torn' = torn \cup {"index"}
    /\ ServeOnly /\ UNCHANGED <<processed, link, pointer, entries>>

\* The batches, all of them, and record_direct_indexer_success; or the wait for a task
\* times out, though Meilisearch finishes it.
FillIndex ==
    /\ ScriptAt("fill") /\ (Goes(AfterIndex) \/ Goes("failed"))
    /\ documents' = [of |-> script.documents, whole |-> TRUE]
    /\ torn' = IF script.raced THEN torn \cup {"index"} ELSE torn \ {"index"}
    /\ ServeOnly /\ UNCHANGED <<processed, link, pointer, entries>>

\* reload_api: the client may give up on a reload that the API goes on with.
CallsReload ==
    /\ ScriptAt("reload") /\ ~Refused /\ Reindex(Loadable)
    /\ \/ Goes("publish") /\ documents'.of = entries'.of
       \/ Goes("failed")
    /\ ServeOnly /\ UNCHANGED <<processed, link, pointer>>

\* update_data_run_state, whose answer may be lost
PublishRun ==
    /\ ScriptAt("publish") /\ pointer' = script.n /\ (Goes("success") \/ Goes("failed"))
    /\ ServeOnly /\ UNCHANGED <<processed, link, entries, documents, torn>>

\* update_pipeline_status
EndsAs(status) ==
    /\ ScriptAt(status) /\ script' = Off /\ raw' = [raw EXCEPT !.state.status = status]
    /\ RawOnly /\ UNCHANGED torn

\* A step inside the try fails before it has an effect.
StepFailed ==
    /\ script # Off /\ script.at \in {"run", "link", "table", "drop", "fill", "reload", "publish"}
    /\ Goes("failed")
    /\ ServeOnly /\ UNCHANGED <<serveVars, torn>>

\* The process stops, or a step outside the try raises.
Stops ==
    /\ script # Off /\ script' = Off
    /\ torn' = IF script.at = "state" THEN torn \cup {"state"} ELSE torn
    /\ UNCHANGED <<bucketVars, rawVars, serveVars, starts>>

PublishNext ==
    \/ CompleteDay \/ \E which \in {0} \cup Selected : Quarantine(which)
    \/ DailyRun \/ DailyPublished \/ OtherReload
    \/ \E option \in Option : StartPublish(option)
    \/ CacheDay \/ KeepPrevious \/ ReplaceLatest \/ WriteState \/ ValidateRaw
    \/ WriteRun \/ LinkRun \/ WriteTable \/ DropIndex \/ FillIndex
    \/ CallsReload \/ PublishRun
    \/ \E status \in {"success", "materialized", "failed"} : EndsAs(status)
    \/ StepFailed \/ Stops

-----------------------------------------------------------------------------
(* Properties                                                              *)

\* What state.json calls published has been through the pipeline, with the type that
\* state.json gives, and so has the active run.
PublishedWasProcessed ==
    /\ raw.state.status = "success" => processed[raw.state.days] = raw.state.type
    /\ pointer \in Selected => processed[pointer] # "none"

\* Without the flag no run is made of what was marked when the call began, and a run that
\* is not called forensic is of a prefix that was not.
MarkedIsForensic ==
    /\ ScriptAt("run") /\ ~script.option.allow => script.marked \cap (0..script.n) = {}
    /\ ScriptAt("link") /\ processed[script.n] # "forensic" => 0 \notin script.marked

\* The delta of a selection is to the one that state.json names, unless a call stopped
\* between the two files.
DeltaIsToLast == ScriptAt("state") /\ "state" \notin torn => raw.previous = script.state

\* The rows of the table are of the run they name, and the index is whole and holds them,
\* unless a rebuild is under way or was interrupted or raced.
SearchIsWhole ==
    /\ entries.of # entries.named => "label" \in torn
    /\ ~documents.whole \/ documents.of # entries.of => "index" \in torn

\* At the end of a call the search has its run, unless another was active before it.
SearchIsOfRun ==
    /\ ScriptAt("success") /\ ~script.raced /\ (script.option.direct \/ script.option.reload)
    /\ script.option.reload => script.before = 0
    => entries.of = script.n /\ documents.of = script.n

\* What the calls of the script leave behind, with the daily run, other reloads, markers, lost
\* answers and a stop anywhere among their steps.
PublishIsSound ==
    PublishedWasProcessed /\ MarkedIsForensic /\ DeltaIsToLast /\ SearchIsWhole /\ SearchIsOfRun
=============================================================================
