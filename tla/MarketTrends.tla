------------------------------ MODULE MarketTrends ------------------------------
(***************************************************************************)
(* The weekly snapshots of the market and the trends told from them:       *)
(* run_pipeline.py, which writes the snapshot of the week before it knows  *)
(* whether the run is good enough to be served; the reload that copies all *)
(* snapshots into market_snapshots; the endpoints under /market/trends;    *)
(* and the report of trend_readiness.py.                                   *)
(*                                                                         *)
(* One API process.  A segment is a role, grade, city tier, work mode and  *)
(* domain together, and a snapshot is known by the run that wrote it.      *)
(***************************************************************************)
EXTENDS Naturals, Sequences, FiniteSets

CONSTANTS
    LastWeek,        \* bound: the clock's weeks are 1..LastWeek
    MaxRun,          \* bound: the runs of the pipeline, in the order they start
    Input,           \* what a run may be given: records [payload, named, rows]
    NoPayload,       \* run without --dataset-meta-extra
    Segment, Unknown,
    Skilled,         \* the segments whose ten top skills have the one asked for
    Query,           \* what is asked for: records [skill, segments, weeks]
    MinRows, MinSegmentRows, MinPeriods,               \* thresholds, and
    MaxUnknown, MinSalary, MinTrendSalary, MinSegmentSalary,   \* in percent
    Reloader         \* bound: reload-data requests at a time

NoPipeRun == 0
PipeRun   == 1..MaxRun
Week      == 1..LastWeek
Row       == [id : Nat, seg : Segment \cup {Unknown}, at : Nat, salary : BOOLEAN]

ASSUME TrendsAssumption ==
    /\ {LastWeek, MaxRun, MinRows, MinPeriods, MinSegmentRows} \subseteq Nat \ {0}
    /\ {MaxUnknown, MinSalary, MinTrendSalary, MinSegmentSalary} \subseteq 0..100
    /\ Unknown \notin Segment /\ Skilled \subseteq Segment
    /\ Query \subseteq [skill : BOOLEAN, segments : SUBSET Segment, weeks : Week]
    /\ \A i \in Input : i.rows \in Seq(Row) /\ i.named \in BOOLEAN

VARIABLES
    week,            \* the week of the clock
    runs,            \* each run: what it was given, its week, and how far it is
    file,            \* market_snapshots/: the run that wrote the file of each week
    latestRun,       \* the run data/processed/latest links to
    store,           \* the DataStore: the run of its metadata, and the files as it read them
    copying,         \* the requests that execute
    snapshots,       \* market_snapshots: the run each row is from
    ask,             \* a request for a trend
    copied           \* history: the files that the last reload copied while it was alone

trendVars == <<week, runs, file, latestRun, store, copying, snapshots, ask, copied>>

Key == Week \X (Segment \cup {Unknown})
NoFiles == [w \in Week |-> NoPipeRun]
Unstarted == [stage |-> "none"]
Resting   == [at |-> "idle"]
NotAsked  == [at |-> "quiet"]

TrendsInit ==
    /\ week = 1 /\ runs = [r \in PipeRun |-> Unstarted]
    /\ file = NoFiles /\ latestRun = NoPipeRun
    /\ store = [run |-> NoPipeRun, files |-> NoFiles]
    /\ copying = [q \in Reloader |-> Resting] /\ snapshots = [k \in Key |-> NoPipeRun]
    /\ ask = NotAsked /\ copied = NoFiles

-----------------------------------------------------------------------------
(* The gates of a run                                                      *)

\* cleaning.deduplicate looks at vacancy_id, if the raw file has it, and keeps the newest
\* row, which is given first; the gate also knows other names.
Kept(given) ==
    {n \in DOMAIN given.rows :
        given.named => \A m \in 1..(n - 1) : given.rows[m].id # given.rows[n].id}

\* The features: numbered rows, for two may be alike
Features == [given \in Input |-> {<<n, given.rows[n]>> : n \in Kept(given)}]
Groups   == [given \in Input |-> {row[2].seg : row \in Features[given]}]

Rows(r) == Features[runs[r].given]

WithSalary(rows) == {row \in rows : row[2].salary}
Share(part, rows, percent) == 100 * Cardinality(part) >= percent * Cardinality(rows)

Repeated(rows) == {row \in rows : \E other \in rows : other[2].id = row[2].id /\ other[1] < row[1]}

\* _evaluate_quality_gates
QualityPassed(rows) ==
    /\ rows # {} /\ Cardinality(rows) >= MinRows
    /\ Repeated(rows) = {}
    /\ Share(WithSalary(rows), rows, MinSalary)
    /\ 100 * Cardinality({row \in rows : row[2].seg = Unknown}) <= MaxUnknown * Cardinality(rows)

\* _segment_quality_report
SegmentsPassed(rows) ==
    \A s \in {row[2].seg : row \in rows} :
        LET group == {row \in rows : row[2].seg = s} IN
        /\ s # Unknown /\ Cardinality(group) >= MinSegmentRows
        /\ Share(WithSalary(group), group, MinSegmentSalary)

\* _lineage_metadata
Semantics(payload) ==
    IF payload = NoPayload THEN "current_market_snapshot"
    ELSE IF payload.declared # "" THEN payload.declared
    ELSE IF payload.kind = "minio_backfill_completed" /\ payload.dates # ""
    THEN "historical_publication_facts" ELSE "current_market_snapshot"

DatesPassed(payload) == payload # NoPayload /\ payload.dates = "passed"
Historical(payload)  == Semantics(payload) = "historical_publication_facts"

\* validate_source_capability_ref: registered as it is now, for this use, supported,
\* and with its report.
SourceSupported(payload) ==
    /\ payload # NoPayload
    /\ payload.source \in [registered : {TRUE}, use : {"historical_collection"},
                           status : {"supported"}, report : {TRUE}]

Periods(rows) == {row[2].at : row \in rows}

\* _evaluate_trend_ready_gate
TrendReady(rows, payload) ==
    /\ QualityPassed(rows) /\ Historical(payload) /\ DatesPassed(payload)
    /\ SourceSupported(payload)
    /\ Cardinality(Periods(rows)) >= MinPeriods
    /\ Repeated(rows) = {}
    /\ Share(WithSalary(rows), rows, MinTrendSalary)
    /\ SegmentsPassed(rows)

-----------------------------------------------------------------------------
(* The pipeline                                                            *)

StageOf(r) == runs[r].stage

NewWeek ==
    /\ week < LastWeek /\ week' = week + 1
    /\ UNCHANGED <<runs, file, latestRun, store, copying, snapshots, ask, copied>>

StartRun(r) ==
    /\ StageOf(r) = "none" /\ (r > 1 => StageOf(r - 1) # "none")
    /\ \E i \in Input :
          runs' = [runs EXCEPT ![r] = [stage |-> "started", given |-> i, week |-> week]]
    /\ UNCHANGED <<week, file, latestRun, store, copying, snapshots, ask, copied>>

\* timeseries.build_weekly_snapshot: the week is that of the start, and a later run
\* of the week takes the file.
WriteSnapshot(r) ==
    /\ StageOf(r) = "started"
    /\ file' = [file EXCEPT ![runs[r].week] = r]
    /\ runs' = [runs EXCEPT ![r].stage = "snapshot"]
    /\ UNCHANGED <<week, latestRun, store, copying, snapshots, ask, copied>>

\* dataset_meta.json, the quality report and the manifest
WriteMeta(r) ==
    /\ StageOf(r) = "snapshot"
    /\ runs' = [runs EXCEPT ![r].stage = "described"]
    /\ UNCHANGED <<week, file, latestRun, store, copying, snapshots, ask, copied>>

\* _publish_latest_if_quality_passed
PublishLatest(r) ==
    /\ StageOf(r) = "described"
    /\ IF QualityPassed(Rows(r))
       THEN latestRun' = r /\ runs' = [runs EXCEPT ![r].stage = "done"]
       ELSE runs' = [runs EXCEPT ![r].stage = "failed"] /\ UNCHANGED latestRun
    /\ UNCHANGED <<week, file, store, copying, snapshots, ask, copied>>

-----------------------------------------------------------------------------
(* The reload                                                              *)

At(q) == copying[q].at
PipelineOnly == UNCHANGED <<week, runs, file, latestRun>>

Moves(a) == IF a.at \in {"rows", "label"} THEN [a EXCEPT !.moved = TRUE] ELSE a

BeginReload(q) ==
    /\ At(q) = "idle"
    /\ copying' = [copying EXCEPT ![q] = [at |-> "load", prev |-> store]]
    /\ PipelineOnly /\ UNCHANGED <<store, snapshots, ask, copied>>

\* The DataStore's lock is held from here to the end of LoadFiles.
LoadRun(q) ==
    /\ At(q) = "load" /\ latestRun # NoPipeRun /\ \A o \in Reloader : At(o) # "files"
    /\ copying' = [copying EXCEPT ![q] = [at |-> "files", prev |-> @.prev, run |-> latestRun]]
    /\ PipelineOnly /\ UNCHANGED <<store, snapshots, ask, copied>>

\* load_snapshot_history
LoadFiles(q) ==
    /\ At(q) = "files"
    /\ store' = [run |-> copying[q].run, files |-> file]
    /\ ask' = Moves(ask)
    /\ copying' = [copying EXCEPT ![q] = [at |-> "loaded", prev |-> @.prev]]
    /\ PipelineOnly /\ UNCHANGED <<snapshots, copied>>

Segments(r) == IF r = NoPipeRun THEN {} ELSE Groups[runs[r].given]
InFiles(files) == {k \in Key : k[2] \in Segments(files[k[1]])}

\* upsert_snapshots, row by row in the order of the weeks: the rows of a week are taken
\* together.
NothingSeen == [k \in {} |-> NoPipeRun]

Upserting(q) == At(q) \in {"select", "flush"}

BeginCopy(q) ==
    /\ At(q) = "loaded"
    /\ LET others == {o \in Reloader : Upserting(o)} IN
       copying' = [p \in Reloader |->
          IF p = q THEN [at |-> "select", prev |-> copying[q].prev, files |-> store.files,
                         week |-> 1, seen |-> NothingSeen, pending |-> {}, alone |-> others = {}]
          ELSE IF p \in others THEN [copying[p] EXCEPT !.alone = FALSE] ELSE copying[p]]
    /\ PipelineOnly /\ UNCHANGED <<store, snapshots, ask, copied>>

OfWeek(q) == {k \in InFiles(copying[q].files) : k[1] = copying[q].week}

SelectRows(q) ==
    /\ At(q) = "select" /\ copying[q].week \in Week
    /\ copying' = [copying EXCEPT ![q].at = "flush", ![q].seen = [k \in OfWeek(q) |-> snapshots[k]]]
    /\ PipelineOnly /\ UNCHANGED <<store, snapshots, ask, copied>>

\* An attribute that is set to what it is makes no UPDATE.
Changed(q) == {k \in OfWeek(q) : copying[q].seen[k] # copying[q].files[k[1]]}

\* A row that another transaction has written makes it wait.
Flush(q) ==
    LET changed == Changed(q) IN
    /\ At(q) = "flush"
    /\ \A o \in Reloader \ {q} : Upserting(o) => copying[o].pending \cap changed = {}
    /\ \A k \in changed : copying[q].seen[k] = NoPipeRun => snapshots[k] = NoPipeRun
    /\ copying' = [copying EXCEPT ![q].at = "select", ![q].week = @ + 1,
                                ![q].seen = NothingSeen,
                                ![q].pending = @ \cup changed]
    /\ PipelineOnly /\ UNCHANGED <<store, snapshots, ask, copied>>

CommitCopy(q) ==
    /\ At(q) = "select" /\ copying[q].week \notin Week
    /\ snapshots' = [k \in Key |->
          IF k \in copying[q].pending THEN copying[q].files[k[1]] ELSE snapshots[k]]
    /\ copied' = IF copying[q].alone THEN copying[q].files ELSE NoFiles
    /\ copying' = [copying EXCEPT ![q] = Resting]
    /\ PipelineOnly /\ UNCHANGED <<store, ask>>

\* No data, another request's row in the way of an INSERT, or an error of the indexer
\* or of the database: what was served before is put back.
Fail(q) ==
    /\ At(q) \in {"load", "loaded", "select", "flush"}
    /\ store' = copying[q].prev /\ ask' = Moves(ask)
    /\ copying' = [copying EXCEPT ![q] = Resting]
    /\ PipelineOnly /\ UNCHANGED <<snapshots, copied>>

-----------------------------------------------------------------------------
(* The endpoints                                                           *)

\* Mistake: the lineage is looked at, and not the gate.
TrendTrustByLineage(r) ==
    r # NoPipeRun /\ Historical(runs[r].given.payload) /\ DatesPassed(runs[r].given.payload)

\* _trend_trust: the eligibility and the gate in the metadata, and its lineage again
TrendTrust(r) ==
    /\ r # NoPipeRun /\ TrendReady(Rows(r), runs[r].given.payload)
    /\ Historical(runs[r].given.payload) /\ DatesPassed(runs[r].given.payload)

ApiOnly == PipelineOnly /\ UNCHANGED <<store, copying, snapshots, copied>>

\* query.skill is TRUE for skill-demand; its segments are those of the role and grade asked for.
AskTrend(query) ==
    /\ ask.at \in {"quiet", "answered"}
    /\ ask' = [ at |-> IF TrendTrust(store.run) THEN "rows" ELSE "answered",
                query |-> query, trust |-> store.run, label |-> store.run,
                files |-> store.files, points |-> {}, moved |-> FALSE ]
    /\ ApiOnly

\* _normalize_snapshot_row keeps a list, and parquet gives an array: no row of the table
\* has skills.
HistoryRow(k, run, skills) == [week |-> k[1], seg |-> k[2], run |-> run, skills |-> skills]

HistoryRows ==
    LET stored == {k \in Key : snapshots[k] # NoPipeRun}
    IN  IF stored # {} THEN {HistoryRow(k, snapshots[k], FALSE) : k \in stored}
        ELSE {HistoryRow(k, store.files[k[1]], k[2] \in Skilled) : k \in InFiles(store.files)}

\* The last weeks that have rows: each is a point.
Series(rows, weeks) ==
    LET with == {row.week : row \in rows} IN
    {[week |-> w, runs |-> {row.run : row \in {o \in rows : o.week = w}}] :
        w \in {v \in with : Cardinality({u \in with : u > v}) < weeks}}

ReadHistory ==
    /\ ask.at = "rows"
    /\ LET asked == {row \in HistoryRows :
              row.seg \in ask.query.segments /\ (ask.query.skill => row.skills)} IN
       ask' = [ask EXCEPT !.at = "label", !.points = Series(asked, ask.query.weeks)]
    /\ ApiOnly

\* _dataset_run_id reads the metadata again, after the await.
AnswerTrend ==
    /\ ask.at = "label"
    /\ ask' = [ask EXCEPT !.at = "answered", !.label = store.run]
    /\ ApiOnly

-----------------------------------------------------------------------------
(* The report                                                              *)

Evidence == {r \in PipeRun : StageOf(r) \in {"described", "done", "failed"}}

IsPublicTrendReady(r) ==
    /\ QualityPassed(Rows(r)) /\ Historical(runs[r].given.payload)
    /\ DatesPassed(runs[r].given.payload) /\ TrendReady(Rows(r), runs[r].given.payload)

\* build_trend_readiness_report: the newest run decides.
PublicTrendsAllowed ==
    \E r \in Evidence : (\A o \in Evidence : o <= r) /\ IsPublicTrendReady(r)

-----------------------------------------------------------------------------
TrendsNext ==
    \/ NewWeek
    \/ \E r \in PipeRun : StartRun(r) \/ WriteSnapshot(r) \/ WriteMeta(r) \/ PublishLatest(r)
    \/ \E q \in Reloader : \/ BeginReload(q) \/ LoadRun(q) \/ LoadFiles(q) \/ BeginCopy(q)
                          \/ SelectRows(q) \/ Flush(q) \/ CommitCopy(q) \/ Fail(q)
    \/ \E query \in Query : AskTrend(query)
    \/ ReadHistory \/ AnswerTrend

TrendsSpec == TrendsInit /\ [][TrendsNext]_trendVars

-----------------------------------------------------------------------------
(* Properties                                                              *)

\* After a reload that overlapped no other, every row that a file has is in the table as
\* the file has it, until another reload commits: whatever was there before, and whatever
\* reloads failed on the way.
TableHasTheFiles ==
    \A k \in InFiles(copied) : snapshots[k] = copied[k[1]]

\* A row of the table is from a run of its week that had its segment.
RowsAreOfTheirWeek ==
    \A k \in Key : snapshots[k] # NoPipeRun =>
        runs[snapshots[k]].week = k[1] /\ k[2] \in Segments(snapshots[k])

\* What a run must be for its trends to be shown: each vacancy once, all of known segments
\* that are large enough, dated and collected as history from a source that can give it.
Earned(r) ==
    LET rows == Rows(r)  payload == runs[r].given.payload IN
    /\ \A row, other \in rows : row[2].id = other[2].id => row = other
    /\ \A row \in rows :
          /\ row[2].seg # Unknown
          /\ Cardinality({o \in rows : o[2].seg = row[2].seg}) >= MinSegmentRows
    /\ Cardinality({row[2].at : row \in rows}) >= MinPeriods
    /\ payload # NoPayload /\ payload.dates = "passed" /\ payload.source.status = "supported"

\* A trend is shown only under a run that has earned it; it is labelled with that run,
\* unless a reload came in between; and it has each week once.
TrendsAreEarned ==
    ask.at = "answered" =>
        /\ ask.points # {} => Earned(ask.trust)
        /\ ask.label = ask.trust \/ ask.moved
        /\ \A p, o \in ask.points : p.week = o.week => p = o

\* The report allows trends exactly if the API shows them, once the newest run is served.
ReportAgrees ==
    \A r \in PipeRun :
        store.run = r /\ (\A o \in PipeRun : o > r => StageOf(o) \in {"none", "started", "snapshot"})
            => (PublicTrendsAllowed <=> TrendTrust(r))

\* The four of them: what is copied, and what is told from it.
TrendsAreSound == TableHasTheFiles /\ RowsAreOfTheirWeek /\ TrendsAreEarned /\ ReportAgrees

\* docs/product.md:70: "Trend endpoints use weekly market snapshots and return salary,
\* vacancy count, skill-demand and career-transition series."  So a run that has earned its
\* trends and files that have the skill make a skill-demand series, if nothing is reloaded
\* meanwhile.
SkillDemandIsShown ==
    /\ ask.at = "answered" /\ ask.query.skill /\ ~ask.moved
    /\ TrendTrust(ask.trust)
    /\ \E k \in InFiles(ask.files) : k[2] \in Skilled \cap ask.query.segments
    => ask.points # {}
=============================================================================
