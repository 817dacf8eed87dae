----------------------------- MODULE Publication -----------------------------
(***************************************************************************)
(* How a run becomes the one that is served: the pipeline runner and the   *)
(* backfill publisher, clients of the dataset registry DataRuns, and the   *)
(* replicas of the API, each with a DataStore and a subscriber, around one *)
(* vacancy table and one search index.                                     *)
(*                                                                         *)
(* Every run has a client of its own, so DataRuns stands for the registry. *)
(* Inside a replica a load is one step; DataStore opens it up.             *)
(***************************************************************************)
EXTENDS DataRuns, Naturals

CONSTANTS
    Replica,     \* API processes
    MetaOf,      \* the path of each run's dataset_meta.json
    Refresh,     \* TRUE: SKILLRA_REFRESH_HH=1, runners lock .refresh.lock
    MaxFaults    \* bound: lost calls and messages, failing steps, crashes

ASSUME PublicationAssumption ==
    /\ MetaOf \in [Run -> Meta] /\ NoMeta \notin Meta
    /\ Refresh \in BOOLEAN /\ MaxFaults \in Nat
    /\ [run : Run, state : State, meta : Meta \cup {NoMeta}, error : {FALSE}] \subseteq Post

VARIABLES
    backfill,     \* the runs of publish_hh_backfill_to_app.py
    pc, prev,     \* each client's next step; previous_active_run_id
    broken,       \* history: clients that lost a call, or were killed
    latest,       \* the run data/processed/latest links to
    served,       \* what each replica's DataStore holds
    sub, subPlan, \* each replica's life and subscriber, and the plan it loads
    inbox,        \* datastore_reload messages it has not handled
    behind,       \* history: since it last read the pointer it has missed a
                  \* message, or a failed reload has put back another run
    reload,       \* each client's reload-data request, as the API executes it
    table, index, \* the run that labels the rows of vacancy_snapshots, and the
                  \* documents of Meilisearch
    faults

clientVars  == <<backfill, pc, prev, broken>>
replicaVars == <<served, sub, subPlan, inbox, behind>>
searchVars  == <<table, index>>
vars == <<registryVars, clientVars, latest, replicaVars, reload, searchVars, faults>>

None     == "none"
MaybeRun == Run \cup {None}

\* What a DataStore holds, or will load: from is the run's own directory, or the
\* configured paths under latest.
Data    == [run : MaybeRun, from : {"run", "latest"}]
NoData  == [run |-> None, from |-> "latest"]

Stage == {"collecting", "raw_committed", "raw_validated", "processing",
          "processed_validated", "staged", "indexing"}

Ended == {"idle", "done", "failed"}
Label == Ended \cup Stage \cup
         {"process", "previous", "published", "reload", "answer", "rollback", "report"}

NextLabel ==
    [ collecting |-> "raw_committed", raw_committed |-> "raw_validated",
      raw_validated |-> "processing", processing |-> "process",
      processed_validated |-> "staged", staged |-> "indexing", indexing |-> "previous" ]

\* A request being executed, with the DataStoreSnapshot of its beginning.
Request == [ at : Replica, step : {"plan", "load", "check", "table", "index", "count", "announce"},
             snap : Data, plan : Data, docs : MaybeRun ]
NoRequest == [step |-> "none"]
Executed  == [step : {"ok", "failed"}, docs : MaybeRun]

\* "booting" and "booted" are the start-up before the subscription.
Life == {"down", "booting", "booted", "listening", "loading", "loaded", "stopped"}

PubTypeOK ==
    /\ TypeOK
    /\ backfill \subseteq Run /\ pc \in [Run -> Label]
    /\ prev \in [Run -> MaybeRun] /\ broken \subseteq Run
    /\ latest \in MaybeRun
    /\ served \in [Replica -> Data] /\ subPlan \in [Replica -> Data]
    /\ sub \in [Replica -> Life] /\ inbox \in [Replica -> Nat]
    /\ behind \in [Replica -> BOOLEAN]
    /\ reload \in [Run -> Request \cup Executed \cup {NoRequest}]
    /\ table \in MaybeRun /\ index \in MaybeRun
    /\ faults \in 0..MaxFaults

PubInit ==
    /\ Init
    /\ backfill = {} /\ pc = [r \in Run |-> "idle"] /\ prev = [r \in Run |-> None] /\ broken = {}
    /\ latest = None
    /\ served = [a \in Replica |-> NoData] /\ subPlan = [a \in Replica |-> NoData]
    /\ sub = [a \in Replica |-> "listening"] /\ inbox = [a \in Replica |-> 0]
    /\ behind = [a \in Replica |-> FALSE]
    /\ reload = [r \in Run |-> NoRequest]
    /\ table = None /\ index = None
    /\ faults = 0

Fault == faults < MaxFaults /\ faults' = faults + 1

Go(r, label) == pc' = [pc EXCEPT ![r] = label]

-----------------------------------------------------------------------------
(* The clients                                                             *)

ClientOnly == UNCHANGED <<replicaVars, reload, searchVars>>

\* A state update: executed and answered; executed and the answer lost; refused;
\* or lost.
Reports(r, state, meta, next, otherwise) ==
    LET p == [run |-> r, state |-> state, meta |-> meta, error |-> FALSE]
    IN  \/ Upsert(p) /\ Go(r, next) /\ UNCHANGED <<broken, faults>>
        \/ Upsert(p) /\ Go(r, otherwise) /\ broken' = broken \cup {r} /\ Fault
        \/ /\ ~Allowed(data_runs[r], state)
           /\ Go(r, otherwise) /\ UNCHANGED <<registryVars, broken, faults>>
        \/ Go(r, otherwise) /\ UNCHANGED registryVars /\ broken' = broken \cup {r} /\ Fault

\* A run of pipeline_runner.sh.
Start(r) ==
    /\ pc[r] = "idle"
    /\ Refresh => \A o \in Run \ backfill : pc[o] \in Ended
    /\ Go(r, IF Refresh THEN "collecting" ELSE "processing")
    /\ UNCHANGED <<registryVars, backfill, prev, broken, latest, faults>> /\ ClientOnly

\* A run of publish_hh_backfill_to_app.py, which has a lock file of its own.
StartBackfill(r) ==
    /\ pc[r] = "idle" /\ \A o \in backfill : pc[o] \in Ended
    /\ backfill' = backfill \cup {r} /\ Go(r, "process")
    /\ UNCHANGED <<registryVars, prev, broken, latest, faults>> /\ ClientOnly

Progress(r) ==
    /\ pc[r] \in Stage
    /\ Reports(r, pc[r], IF pc[r] = "processed_validated" THEN MetaOf[r] ELSE NoMeta,
               NextLabel[pc[r]], "report")
    /\ UNCHANGED <<backfill, prev, latest>> /\ ClientOnly

\* run_pipeline.py writes the run's directory and links latest to it.
Process(r) ==
    /\ pc[r] = "process"
    /\ latest' = r
    /\ Go(r, IF r \in backfill THEN "reload" ELSE "processed_validated")
    /\ UNCHANGED <<registryVars, backfill, prev, broken, faults>> /\ ClientOnly

\* A script before the publication fails.
StepFails(r) ==
    /\ pc[r] \in Stage \cup {"process"} /\ Fault
    /\ Go(r, IF r \in backfill THEN "failed" ELSE "report")
    /\ UNCHANGED <<registryVars, backfill, prev, broken, latest>> /\ ClientOnly

\* current_active_data_run_id: an error reads as no previous run.
ReadPrevious(r) ==
    /\ pc[r] = "previous" /\ Go(r, "published")
    /\ \/ prev' = [prev EXCEPT ![r] = active.run] /\ UNCHANGED <<broken, faults>>
       \/ broken' = broken \cup {r} /\ Fault /\ UNCHANGED prev
    /\ UNCHANGED <<registryVars, backfill, latest>> /\ ClientOnly

\* The backfill sends no dataset_meta_path, and it is done.
Publish(r) ==
    /\ pc[r] = "published"
    /\ IF r \in backfill THEN Reports(r, "published", NoMeta, "done", "failed")
       ELSE Reports(r, "published", MetaOf[r], "reload", "report")
    /\ UNCHANGED <<backfill, prev, latest>> /\ ClientOnly

Serving(a) == sub[a] \notin {"down", "booting"}

\* Mistake: the pointer is left where the failed reload found it.
AfterReloadKeepingPointer(r) == IF r \in backfill THEN "failed" ELSE "report"

AfterReload(r) == IF r \in backfill THEN "failed" ELSE "rollback"

CallReload(r) ==
    /\ pc[r] = "reload"
    /\ \/ /\ \E a \in Replica :
                /\ Serving(a)
                /\ reload' = [reload EXCEPT ![r] =
                      [ at |-> a, step |-> "plan", snap |-> served[a],
                        plan |-> NoData, docs |-> None ]]
          /\ Go(r, "answer") /\ UNCHANGED <<broken, faults>>
       \/ /\ Go(r, AfterReload(r)) /\ UNCHANGED reload
          /\ broken' = broken \cup {r} /\ Fault
    /\ UNCHANGED <<registryVars, backfill, prev, latest, replicaVars, searchVars>>

\* The runner compares the run it is told with its own; the backfill does not.
Answer(r) ==
    /\ pc[r] = "answer" /\ reload[r].step \in {"ok", "failed"}
    /\ Go(r, CASE reload[r].step = "ok" /\ r \in backfill -> "published"
               [] reload[r].step = "ok" /\ r \notin backfill /\ reload[r].docs = r -> "done"
               [] OTHER -> AfterReload(r))
    /\ UNCHANGED <<registryVars, backfill, prev, broken, latest, faults>> /\ ClientOnly

\* The connection breaks, or the backfill's timeout ends it; the API goes on.
LoseAnswer(r) ==
    /\ pc[r] = "answer" /\ Fault
    /\ Go(r, AfterReload(r)) /\ broken' = broken \cup {r}
    /\ UNCHANGED <<registryVars, backfill, prev, latest>> /\ ClientOnly

\* activate_data_run_pointer "${previous_active_run_id}" || true
Rollback(r) ==
    /\ pc[r] = "rollback" /\ Go(r, "report")
    /\ \/ prev[r] = None /\ UNCHANGED <<registryVars, broken, faults>>
       \/ prev[r] # None /\ Activate(prev[r]) /\ UNCHANGED <<broken, faults>>
       \/ UNCHANGED registryVars /\ broken' = broken \cup {r} /\ Fault
    /\ UNCHANGED <<backfill, prev, latest>> /\ ClientOnly

\* mark_data_run_failed_on_exit: update_data_run_state failed || true
ReportFailure(r) ==
    /\ pc[r] = "report"
    /\ Reports(r, "failed", NoMeta, "failed", "failed")
    /\ UNCHANGED <<backfill, prev, latest>> /\ ClientOnly

\* The client is killed, and its exit trap does not run.
Kill(r) ==
    /\ pc[r] \notin Ended /\ Fault
    /\ Go(r, "failed") /\ broken' = broken \cup {r}
    /\ UNCHANGED <<registryVars, backfill, prev, latest>> /\ ClientOnly

-----------------------------------------------------------------------------
(* Loading: what _active_reload_plan finds, and what is read                *)

Configured == [run |-> None, from |-> "latest"]

\* Mistake: the newest run is taken for the pointer's.
PointedAtLatest == [run |-> latest, from |-> "run"]

Pointed    == [run |-> active.run, from |-> "run"]

Usable == data_runs[active.run].state = "published" /\ active.meta = MetaOf[active.run]

\* The planned files; if one is absent or unreadable the DataStore is not ready
\* and, unless it is dataset_meta.json, its metadata names the run all the same.
Files(plan) == IF plan.from = "run" THEN plan ELSE [run |-> latest, from |-> "latest"]

Load(a, plan) ==
    \/ served' = [served EXCEPT ![a] = Files(plan)] /\ UNCHANGED faults
    \/ served' = [served EXCEPT ![a] = [plan EXCEPT !.run = None]] /\ Fault

\* The check after a load: another load may have come in between.
Mismatch(a, plan) == plan.from = "run" /\ served[a].run # plan.run

-----------------------------------------------------------------------------
(* POST /v1/admin/reload-data                                              *)

RequestOnly == UNCHANGED <<registryVars, clientVars, latest, sub, subPlan, inbox>>

Step(r, step) == reload' = [reload EXCEPT ![r].step = step]

Failed == [step |-> "failed", docs |-> None]

\* Mistake: what was served is put back, and the request is answered as a success.
RestoredQuietly(r) ==
    LET a == reload[r].at IN
    /\ served' = [served EXCEPT ![a] = reload[r].snap]
    /\ behind' = [behind EXCEPT ![a] = @ \/ reload[r].snap.run # active.run]
    /\ reload' = [reload EXCEPT ![r] = [step |-> "ok", docs |-> reload[r].docs]]

Restored(r) ==
    LET a == reload[r].at IN
    /\ served' = [served EXCEPT ![a] = reload[r].snap]
    /\ behind' = [behind EXCEPT ![a] = @ \/ reload[r].snap.run # active.run]
    /\ reload' = [reload EXCEPT ![r] = Failed]

\* A database error is not caught: nothing is put back.
ReloadPlan(r) ==
    /\ reload[r].step = "plan"
    /\ \/ active = NoPointer /\ UNCHANGED <<served, behind, faults>>
          /\ reload' = [reload EXCEPT ![r].step = "load", ![r].plan = Configured]
       \/ active # NoPointer /\ Usable /\ UNCHANGED <<served, behind, faults>>
          /\ reload' = [reload EXCEPT ![r].step = "load", ![r].plan = Pointed]
       \/ active # NoPointer /\ ~Usable /\ Restored(r) /\ UNCHANGED faults
       \/ active # NoPointer /\ Restored(r) /\ Fault
       \/ reload' = [reload EXCEPT ![r] = Failed] /\ UNCHANGED <<served, behind>> /\ Fault
    /\ RequestOnly /\ UNCHANGED searchVars

ReloadLoad(r) ==
    /\ reload[r].step = "load"
    /\ Load(reload[r].at, reload[r].plan)
    /\ Step(r, "check")
    /\ RequestOnly /\ UNCHANGED <<behind, searchVars>>

\* The configured paths may be ready without metadata, hence of no run.
ReloadCheck(r) ==
    LET a == reload[r].at IN
    /\ reload[r].step = "check"
    /\ \/ (Mismatch(a, reload[r].plan) \/ served[a].run = None) /\ Restored(r)
       \/ /\ ~Mismatch(a, reload[r].plan)
          /\ (served[a].run # None \/ latest # None)
          /\ reload' = [reload EXCEPT ![r].step = "table", ![r].docs = served[a].run]
          /\ UNCHANGED <<served, behind>>
    /\ RequestOnly /\ UNCHANGED <<searchVars, faults>>

\* The table is committed before the index is touched.  A load since the check
\* may have left no frame.
SyncTable(r) ==
    /\ reload[r].step = "table"
    /\ \/ table' = reload[r].docs /\ Step(r, "index") /\ UNCHANGED <<served, behind, faults>>
       \/ Restored(r) /\ UNCHANGED table /\ Fault
       \/ served[reload[r].at].run = None /\ Restored(r) /\ UNCHANGED <<table, faults>>
    /\ RequestOnly /\ UNCHANGED index

\* A staging index is filled, and swapped in at once (its steps are in VacancySearch).
SwapIndex(r) ==
    /\ reload[r].step = "index"
    /\ \/ index' = reload[r].docs /\ Step(r, "count") /\ UNCHANGED <<served, behind, faults>>
       \/ Restored(r) /\ Fault /\ UNCHANGED index
    /\ RequestOnly /\ UNCHANGED table

\* Both hold all that was sent, under the request's run.
Counts(docs) == table = docs /\ index = docs

\* _raise_if_incomplete, and _upsert_market_snapshots.
CountDocuments(r) ==
    /\ reload[r].step = "count"
    /\ \/ Counts(reload[r].docs) /\ Step(r, "announce") /\ UNCHANGED <<served, behind, faults>>
       \/ ~Counts(reload[r].docs) /\ Restored(r) /\ UNCHANGED faults
       \/ Restored(r) /\ Fault
    /\ RequestOnly /\ UNCHANGED searchVars

Hears(a) == sub[a] \in {"listening", "loading", "loaded"}

\* Mistake: a subscriber that is loading misses the message.
AnnounceToIdle(r) ==
    /\ reload[r].step = "announce"
    /\ reload' = [reload EXCEPT ![r] = [step |-> "ok", docs |-> reload[r].docs]]
    /\ inbox' = [a \in Replica |-> IF sub[a] = "listening" THEN inbox[a] + 1 ELSE inbox[a]]
    /\ behind' = [a \in Replica |-> behind[a] \/ ~Hears(a)]
    /\ UNCHANGED <<registryVars, clientVars, latest, served, sub, subPlan, searchVars, faults>>

\* redis.publish reaches the subscribed replicas, or nobody.
Announce(r) ==
    /\ reload[r].step = "announce"
    /\ reload' = [reload EXCEPT ![r] = [step |-> "ok", docs |-> reload[r].docs]]
    /\ \/ /\ inbox' = [a \in Replica |-> IF Hears(a) THEN inbox[a] + 1 ELSE inbox[a]]
          /\ behind' = [a \in Replica |-> behind[a] \/ ~Hears(a)]
          /\ UNCHANGED faults
       \/ /\ behind' = [a \in Replica |-> TRUE] /\ Fault /\ UNCHANGED inbox
    /\ UNCHANGED <<registryVars, clientVars, latest, served, sub, subPlan, searchVars>>

-----------------------------------------------------------------------------
(* Start-up, and the subscriber                                            *)

ReplicaOnly == UNCHANGED <<registryVars, clientVars, latest, reload, searchVars>>

\* _reload_datastore_from_active_pointer: an unusable pointer, or none, means the
\* configured paths.
PlanFor(a) ==
    /\ \/ subPlan' = [subPlan EXCEPT ![a] = IF active # NoPointer /\ Usable
                                            THEN Pointed ELSE Configured]
          /\ UNCHANGED faults
       \/ active # NoPointer /\ subPlan' = [subPlan EXCEPT ![a] = Configured] /\ Fault
    /\ behind' = [behind EXCEPT ![a] = FALSE]

Lives(a, from, to) == sub[a] = from /\ sub' = [sub EXCEPT ![a] = to]

\* The plan is a local variable.
PlanDone(a) == subPlan' = [subPlan EXCEPT ![a] = NoData]

Boot(a) ==
    /\ Lives(a, "down", "booting") /\ PlanFor(a)
    /\ UNCHANGED <<served, inbox>> /\ ReplicaOnly

\* Metadata of no run end the start-up.
BootLoad(a) ==
    /\ Load(a, subPlan[a])
    /\ \/ Lives(a, "booting", "booted")
       \/ subPlan[a].from = "run" /\ served'[a].run = None /\ Lives(a, "booting", "down")
    /\ PlanDone(a) /\ UNCHANGED <<inbox, behind>> /\ ReplicaOnly

Subscribe(a) ==
    /\ Lives(a, "booted", "listening")
    /\ UNCHANGED <<served, subPlan, inbox, behind, faults>> /\ ReplicaOnly

\* Mistake: the subscriber polls.
ReceiveAlways(a) ==
    /\ inbox' = [inbox EXCEPT ![a] = @ - 1]
    /\ Lives(a, "listening", "loading") /\ PlanFor(a)
    /\ UNCHANGED served /\ ReplicaOnly

Receive(a) ==
    /\ inbox[a] > 0 /\ inbox' = [inbox EXCEPT ![a] = @ - 1]
    /\ Lives(a, "listening", "loading") /\ PlanFor(a)
    /\ UNCHANGED served /\ ReplicaOnly

SubscriberLoad(a) ==
    /\ Lives(a, "loading", "loaded") /\ Load(a, subPlan[a])
    /\ UNCHANGED <<subPlan, inbox, behind>> /\ ReplicaOnly

\* The end of the subscription loses what was waiting.
Ends(a) ==
    /\ sub' = [sub EXCEPT ![a] = "stopped"]
    /\ inbox' = [inbox EXCEPT ![a] = 0]
    /\ behind' = [behind EXCEPT ![a] = @ \/ inbox[a] > 0]

\* Another run than the planned one ends the subscription for good.
SubscriberCheck(a) ==
    /\ sub[a] = "loaded"
    /\ \/ Mismatch(a, subPlan[a]) /\ Ends(a)
       \/ /\ ~Mismatch(a, subPlan[a]) \/ served[a].run = None
          /\ Lives(a, "loaded", "listening") /\ UNCHANGED <<inbox, behind>>
    /\ PlanDone(a) /\ UNCHANGED <<served, faults>> /\ ReplicaOnly

\* So does an error of Redis.
LoseSubscription(a) ==
    /\ sub[a] = "listening" /\ Fault /\ Ends(a)
    /\ UNCHANGED <<served, subPlan>> /\ ReplicaOnly

\* The process stops: its requests are never answered.
Crash(a) ==
    /\ sub[a] # "down" /\ Fault
    /\ sub' = [sub EXCEPT ![a] = "down"] /\ inbox' = [inbox EXCEPT ![a] = 0]
    /\ served' = [served EXCEPT ![a] = NoData] /\ PlanDone(a)
    /\ reload' = [r \in Run |->
          IF reload[r] \in Request /\ reload[r].at = a
          THEN Failed ELSE reload[r]]
    /\ UNCHANGED <<registryVars, clientVars, latest, behind, searchVars>>

-----------------------------------------------------------------------------
ClientNext(r) ==
    \/ Start(r) \/ StartBackfill(r) \/ Progress(r) \/ Process(r) \/ StepFails(r) \/ ReadPrevious(r)
    \/ Publish(r) \/ CallReload(r) \/ Answer(r) \/ LoseAnswer(r) \/ Rollback(r)
    \/ ReportFailure(r) \/ Kill(r)

ReloadNext(r) ==
    \/ ReloadPlan(r) \/ ReloadLoad(r) \/ ReloadCheck(r) \/ SyncTable(r)
    \/ SwapIndex(r) \/ CountDocuments(r) \/ Announce(r)

ReplicaNext(a) ==
    \/ Boot(a) \/ BootLoad(a) \/ Subscribe(a) \/ Receive(a) \/ SubscriberLoad(a)
    \/ SubscriberCheck(a) \/ LoseSubscription(a) \/ Crash(a)

PubNext ==
    \/ \E r \in Run : ClientNext(r) \/ ReloadNext(r)
    \/ \E a \in Replica : ReplicaNext(a)

PubSpec == PubInit /\ [][PubNext]_vars

-----------------------------------------------------------------------------
(* Properties                                                              *)

\* No replica serves a run directory whose run was not published, whatever is
\* rolled back, put back, restarted or late.
ServedWasPublished ==
    \A a \in Replica : served[a].from = "run" /\ served[a].run # None =>
        data_runs[served[a].run].state = "published"

\* A run that failed after its publication is not left active: the runner puts
\* the pointer back, unless there was nothing before it or it could not make the
\* calls.
FailedRunIsNotActive ==
    \A r \in Run : pc[r] = "failed" /\ active.run = r => prev[r] = None \/ r \in broken

Quiet ==
    /\ \A r \in Run : pc[r] \in Ended /\ reload[r].step \in {"none", "ok", "failed"}
    /\ \A a \in Replica : sub[a] \in {"listening", "stopped"} /\ inbox[a] = 0

\* When all is quiet a replica serves the active run of a client that succeeded,
\* or says it is not ready.  Otherwise it has missed a message, was put back by a
\* failed reload, uses the configured paths, or took the run of a client that
\* failed while it was active (a rollback of the pointer reloads nobody); or the
\* pointer has no path to the run's metadata.
StaleOnlyIfExplained ==
    Quiet /\ active # NoPointer /\ Usable /\ pc[active.run] = "done" =>
        \A a \in Replica :
            \/ served[a].run \in {active.run, None}
            \/ behind[a] \/ served[a].from = "latest" \/ pc[served[a].run] = "failed"

\* The vacancy table and the search index hold the same run when all is quiet,
\* unless a reload failed after the one was committed.
SearchSplitOnlyIfFailed ==
    Quiet /\ table # index => \E r \in Run : reload[r].step = "failed"
=============================================================================
