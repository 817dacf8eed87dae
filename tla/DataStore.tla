----------------------------- MODULE DataStore -----------------------------
(***************************************************************************)
(* The DataStore of one API process and the coroutines that use it.        *)
(*                                                                         *)
(* The process runs one event loop: a coroutine keeps it from one await to *)
(* the next.  asyncio.to_thread moves a reload, and the computation of a   *)
(* meta value, to other threads.  All of them share one lock that is not   *)
(* re-entrant; a coroutine that waits for it keeps the loop.  A step is    *)
(* what happens between two such points: one critical section, or one      *)
(* await.                                                                  *)
(*                                                                         *)
(* A frame is named by the run it was computed from.  Of the meta values   *)
(* one is kept, computed from the market view.                             *)
(***************************************************************************)
EXTENDS Naturals

CONSTANTS
    Run, NoRun,   \* data runs, and no data at all
    Latest,       \* a reload plan: the configured paths
    Request,      \* tasks that answer /v1/meta requests and digest previews
    Reload,       \* tasks that answer /v1/admin/reload-data
    Subscriber,   \* the task _subscribe_datastore_reload
    Free,         \* nobody has the loop, or the lock
    MaxEvents,    \* bound: messages under way
    MaxChanges    \* bound: changes of the pointer and of latest, failed reads,
                  \* verifications and indexings, taken together

ASSUME DataStoreAssumption ==
    /\ NoRun \notin Run /\ Latest \notin Run \cup {NoRun}
    /\ Free \notin Request \cup Reload \cup {Subscriber}
    /\ Request \cap Reload = {} /\ Subscriber \notin Request \cup Reload
    /\ MaxEvents \in Nat /\ MaxChanges \in Nat

VARIABLES
    served,       \* the frames and the metadata the DataStore holds
    meta_cache,   \* the run its cached meta value comes from, or NoRun
    lock, loop,   \* the task that has the lock, and the loop
    pc, frame,    \* what each task does next, and the frame it took
    snap, plan,   \* a reload's DataStoreSnapshot, and the paths it reads
    events,       \* datastore_reload messages not yet received
    active, latest,  \* the registry's pointer, and the run latest links to
    changes,
    overlapped    \* history: meta requests with a frame of an earlier run were
                  \* under way when the meta cache was last cleared

vars == <<served, meta_cache, lock, loop, pc, frame, snap, plan, events,
          active, latest, changes, overlapped>>

stored   == <<served, meta_cache>>
external == <<active, latest>>
loading  == <<snap, plan>>

Task     == Request \cup Reload \cup {Subscriber}
Loader   == Reload \cup {Subscriber}
MaybeRun == Run \cup {NoRun}

\* from is where the files were read: a run's directory or the configured paths.
Served == [features : MaybeRun, market : MaybeRun, meta : MaybeRun,
           from : {"run", "configured"}]

Empty == [features |-> NoRun, market |-> NoRun, meta |-> NoRun, from |-> "configured"]

IsReady(s) == s.features # NoRun /\ s.market # NoRun

\* Steps at which the next critical section follows without an await.
KeepsLoop == {"market", "status", "segment market", "segment features", "check ready", "restore"}

Label == KeepsLoop \cup
    {"idle", "redis", "lookup", "compute", "store", "match", "plan",
     "features", "load market", "load meta", "check run", "index", "sync",
     "publish", "stopped"}

DSTypeOK ==
    /\ served \in Served
    /\ meta_cache \in MaybeRun
    /\ lock \in Task \cup {Free} /\ loop \in Task \cup {Free}
    /\ pc \in [Task -> Label]
    /\ frame \in [Request -> MaybeRun]
    /\ snap \in [Reload -> Served]
    /\ plan \in [Loader -> MaybeRun \cup {Latest}]
    /\ events \in 0..MaxEvents
    /\ active \in MaybeRun /\ latest \in MaybeRun
    /\ changes \in 0..MaxChanges
    /\ overlapped \in BOOLEAN

\* lifespan: the pointer's run was loaded before the first request, or there was
\* neither a pointer nor a file yet.
Init ==
    /\ \E r \in Run :
          /\ latest = r
          /\ \/ /\ active = r
                /\ served = [features |-> r, market |-> r, meta |-> r, from |-> "run"]
             \/ active = NoRun /\ served = Empty
    /\ meta_cache = NoRun
    /\ lock = Free /\ loop = Free
    /\ pc = [t \in Task |-> "idle"]
    /\ frame = [t \in Request |-> NoRun]
    /\ snap = [t \in Reload |-> Empty]
    /\ plan = [t \in Loader |-> NoRun]
    /\ events = 0 /\ changes = 0
    /\ overlapped = FALSE

-----------------------------------------------------------------------------
(* The loop and the lock                                                   *)

\* A step of the coroutine t on the event loop.
OnLoop(t, from, to) ==
    /\ pc[t] = from
    /\ loop \in {t, Free}
    /\ pc' = [pc EXCEPT ![t] = to]
    /\ loop' = IF to \in KeepsLoop THEN t ELSE Free

\* A step of a thread started for t.
InThread(t, from, to) ==
    /\ pc[t] = from
    /\ pc' = [pc EXCEPT ![t] = to]
    /\ UNCHANGED loop

\* with self._lock: one critical section, from beginning to end.
Locked == lock = Free /\ UNCHANGED lock

Change == changes < MaxChanges /\ changes' = changes + 1

\* get_features_df, get_market_view_df: an absent frame makes the getter call
\* status() while it holds the lock, and status() takes the lock.
Getter(t, value, from, to) ==
    /\ lock = Free
    /\ \/ value # NoRun /\ OnLoop(t, from, to) /\ UNCHANGED lock
       \/ value = NoRun /\ OnLoop(t, from, "status") /\ lock' = t

-----------------------------------------------------------------------------
(* GET /v1/meta/roles and its siblings                                     *)

MetaReady(t) ==
    /\ Locked
    /\ OnLoop(t, "idle", IF IsReady(served) THEN "market" ELSE "idle")
    /\ UNCHANGED <<stored, frame, loading, events, external, changes, overlapped>>

MetaFrame(t) ==
    /\ Getter(t, served.market, "market", "redis")
    /\ frame' = [frame EXCEPT ![t] = served.market]
    /\ UNCHANGED <<stored, loading, events, external, changes, overlapped>>

\* cached_meta: Redis, which all replicas and earlier processes fill, may have a
\* value of any age; if it has none, or fails, get_cached_meta is asked.
RedisGet(t) ==
    /\ \/ OnLoop(t, "redis", "idle") /\ frame' = [frame EXCEPT ![t] = NoRun]
       \/ OnLoop(t, "redis", "lookup") /\ UNCHANGED frame
    /\ UNCHANGED <<stored, lock, loading, events, external, changes, overlapped>>

\* The cached value, if there is one, is the answer.
Lookup(t) ==
    /\ Locked
    /\ \/ /\ meta_cache # NoRun /\ InThread(t, "lookup", "store")
          /\ frame' = [frame EXCEPT ![t] = NoRun]
       \/ meta_cache = NoRun /\ InThread(t, "lookup", "compute") /\ UNCHANGED frame
    /\ UNCHANGED <<stored, loading, events, external, changes, overlapped>>

\* The value is computed from frame[t]; setdefault: the first writer wins.
Insert(t) ==
    /\ Locked /\ InThread(t, "compute", "store")
    /\ meta_cache' = IF meta_cache = NoRun THEN frame[t] ELSE meta_cache
    /\ frame' = [frame EXCEPT ![t] = NoRun]
    /\ UNCHANGED <<served, loading, events, external, changes, overlapped>>

\* setex, which may fail, and the answer.
RedisSet(t) ==
    /\ OnLoop(t, "store", "idle")
    /\ UNCHANGED <<stored, lock, frame, loading, events, external, changes, overlapped>>

-----------------------------------------------------------------------------
(* GET /v1/digest/preview: the segment summary, then the vacancy matches    *)

Reading(t) ==
    UNCHANGED <<stored, frame, loading, events, external, changes,
                                overlapped>>

\* compute_segment_summary asks is_ready; so did the handler, with the same answer
\* if it was no.
SegmentReady(t) ==
    /\ Locked /\ Reading(t)
    /\ OnLoop(t, "idle", IF IsReady(served) THEN "segment market" ELSE "idle")

SegmentMarket(t) ==
    Reading(t) /\ Getter(t, served.market, "segment market", "segment features")

SegmentFeatures(t) ==
    Reading(t) /\ Getter(t, served.features, "segment features", "match")

\* _find_vacancy_matches: after the computations, without asking is_ready again.
MatchFeatures(t) ==
    Reading(t) /\ Getter(t, served.features, "match", "idle")

\* The computations took more than _DIGEST_BUILD_TIMEOUT_SECONDS.
DigestTimeout(t) ==
    Reading(t) /\ OnLoop(t, "match", "idle") /\ UNCHANGED lock

-----------------------------------------------------------------------------
(* reload_from_paths, in a thread: the lock is held from the first file to  *)
(* the last                                                                 *)

\* The run whose file is read at the planned path, or NoRun if it is absent or
\* unreadable.
Read(t, value) ==
    \/ value = (IF plan[t] = Latest THEN latest ELSE plan[t]) /\ UNCHANGED changes
    \/ value = NoRun /\ Change

\* Clearing the cache leaves the requests that hold a frame of another run.
ClearMetaCache ==
    /\ meta_cache' = NoRun
    /\ overlapped' = \E t \in Request :
          /\ pc[t] \in {"redis", "lookup", "compute"}
          /\ frame[t] # served'.market

\* Mistake: each file has a critical section of its own.
LoadFeaturesUnlocked(t) ==
    /\ Locked /\ InThread(t, "features", "load market")
    /\ \E v \in MaybeRun :
          Read(t, v) /\ served' = [served EXCEPT !.features = v]
    /\ UNCHANGED <<meta_cache, frame, loading, events, external, overlapped>>

LoadFeatures(t) ==
    /\ lock = Free /\ lock' = t /\ InThread(t, "features", "load market")
    /\ \E v \in MaybeRun :
          Read(t, v) /\ served' = [served EXCEPT !.features = v]
    /\ UNCHANGED <<meta_cache, frame, loading, events, external, overlapped>>

LoadMarket(t) ==
    /\ UNCHANGED lock /\ InThread(t, "load market", "load meta")
    /\ \E v \in MaybeRun :
          Read(t, v) /\ served' = [served EXCEPT !.market = v]
    /\ UNCHANGED <<meta_cache, frame, loading, events, external, overlapped>>

\* Mistake: the lock is acquired by hand and not released.
LoadMetaKeepsLock(t) ==
    /\ UNCHANGED lock /\ InThread(t, "load meta", "check run")
    /\ \E v \in MaybeRun :
          /\ Read(t, v)
          /\ served' = [served EXCEPT !.meta = v,
                           !.from = IF plan[t] = Latest THEN "configured" ELSE "run"]
    /\ ClearMetaCache
    /\ UNCHANGED <<frame, loading, events, external>>

LoadMeta(t) ==
    /\ lock' = Free /\ InThread(t, "load meta", "check run")
    /\ \E v \in MaybeRun :
          /\ Read(t, v)
          /\ served' = [served EXCEPT !.meta = v,
                           !.from = IF plan[t] = Latest THEN "configured" ELSE "run"]
    /\ ClearMetaCache
    /\ UNCHANGED <<frame, loading, events, external>>

-----------------------------------------------------------------------------
(* POST /v1/admin/reload-data                                              *)

Snapshot(t) ==
    /\ Locked /\ OnLoop(t, "idle", "plan")
    /\ snap' = [snap EXCEPT ![t] = served]
    /\ UNCHANGED <<stored, frame, plan, events, external, changes, overlapped>>

\* _active_reload_plan: the run of the pointer if its artifacts verify, the
\* configured paths if there is no pointer.
Plan(t) ==
    /\ \/ /\ OnLoop(t, "plan", "features") /\ UNCHANGED changes
          /\ plan' = [plan EXCEPT ![t] = IF active = NoRun THEN Latest ELSE active]
       \/ active # NoRun /\ Change /\ OnLoop(t, "plan", "restore") /\ UNCHANGED plan
    /\ UNCHANGED <<stored, lock, frame, snap, events, external, overlapped>>

CheckRun(t) ==
    /\ Locked
    /\ OnLoop(t, "check run", IF plan[t] \in {Latest, served.meta}
                              THEN "check ready" ELSE "restore")
    /\ UNCHANGED <<stored, frame, loading, events, external, changes, overlapped>>

CheckReady(t) ==
    /\ Locked
    /\ OnLoop(t, "check ready", IF IsReady(served) THEN "index" ELSE "restore")
    /\ UNCHANGED <<stored, frame, loading, events, external, changes, overlapped>>

\* _run_vacancy_indexer: the frame is taken after _create_indexer_run is awaited.
IndexFrame(t) ==
    /\ Getter(t, served.features, "index", "sync")
    /\ UNCHANGED <<stored, frame, loading, events, external, changes, overlapped>>

\* sync_vacancy_snapshots_incremental and _upsert_market_snapshots.
Sync(t) ==
    /\ \/ OnLoop(t, "sync", "publish") /\ UNCHANGED changes
       \/ OnLoop(t, "sync", "restore") /\ Change
    /\ UNCHANGED <<stored, lock, frame, loading, events, external, overlapped>>

\* Mistake: the meta cache survives the rollback.
RestoreKeepsCache(t) ==
    /\ Locked /\ OnLoop(t, "restore", "idle")
    /\ served' = snap[t]
    /\ snap' = [snap EXCEPT ![t] = Empty] /\ plan' = [plan EXCEPT ![t] = NoRun]
    /\ UNCHANGED <<meta_cache, overlapped, frame, events, external, changes>>

\* restore_state, and the answer reload_failed.
Restore(t) ==
    /\ Locked /\ OnLoop(t, "restore", "idle")
    /\ served' = snap[t]
    /\ ClearMetaCache
    /\ snap' = [snap EXCEPT ![t] = Empty] /\ plan' = [plan EXCEPT ![t] = NoRun]
    /\ UNCHANGED <<frame, events, external, changes>>

\* _delete_meta_cache, the message and the answer "reloaded"; an error of Redis
\* loses the message.
PublishReload(t) ==
    /\ OnLoop(t, "publish", "idle")
    /\ events' \in {events, events + 1} \cap 0..MaxEvents
    /\ snap' = [snap EXCEPT ![t] = Empty] /\ plan' = [plan EXCEPT ![t] = NoRun]
    /\ UNCHANGED <<stored, lock, frame, external, changes, overlapped>>

-----------------------------------------------------------------------------
(* _subscribe_datastore_reload: the process receives its own message too    *)

\* Mistake: the subscriber reloads without a message and counts one off.
ReceiveAlways ==
    /\ events' = events - 1
    /\ OnLoop(Subscriber, "idle", "plan")
    /\ UNCHANGED <<stored, lock, frame, loading, external, changes, overlapped>>

Receive ==
    /\ events > 0 /\ events' = events - 1
    /\ OnLoop(Subscriber, "idle", "plan")
    /\ UNCHANGED <<stored, lock, frame, loading, external, changes, overlapped>>

\* An unusable pointer falls back to the configured paths.
SubscriberPlan ==
    /\ OnLoop(Subscriber, "plan", "features")
    /\ \/ /\ plan' = [plan EXCEPT ![Subscriber] = IF active = NoRun THEN Latest ELSE active]
          /\ UNCHANGED changes
       \/ active # NoRun /\ Change /\ plan' = [plan EXCEPT ![Subscriber] = Latest]
    /\ UNCHANGED <<stored, lock, frame, snap, events, external, overlapped>>

\* Another run than the pointer's ends the subscription for good.
SubscriberCheck ==
    /\ Locked
    /\ OnLoop(Subscriber, "check run", IF plan[Subscriber] \in {Latest, served.meta}
                                       THEN "idle" ELSE "stopped")
    /\ plan' = [plan EXCEPT ![Subscriber] = NoRun]
    /\ UNCHANGED <<stored, frame, snap, events, external, changes, overlapped>>

-----------------------------------------------------------------------------
(* The pipeline: it relinks latest in two steps, and moves the pointer      *)

Pipeline ==
    UNCHANGED <<stored, lock, loop, pc, frame, loading, events, overlapped>>

UnlinkLatest ==
    /\ latest # NoRun /\ latest' = NoRun /\ Change
    /\ UNCHANGED active /\ Pipeline

LinkLatest(r) ==
    /\ latest = NoRun /\ latest' = r
    /\ UNCHANGED <<active, changes>> /\ Pipeline

MoveActive(r) ==
    /\ active # r /\ active' = r /\ Change
    /\ UNCHANGED latest /\ Pipeline

MetaNext(t) ==
    MetaReady(t) \/ MetaFrame(t) \/ RedisGet(t) \/ Lookup(t) \/ Insert(t) \/ RedisSet(t)

DigestNext(t) ==
    \/ SegmentReady(t) \/ SegmentMarket(t) \/ SegmentFeatures(t)
    \/ MatchFeatures(t) \/ DigestTimeout(t)

LoadNext(t) ==
    LoadFeatures(t) \/ LoadMarket(t) \/ LoadMeta(t)

ReloadNext(t) ==
    \/ Snapshot(t) \/ Plan(t) \/ LoadNext(t) \/ CheckRun(t)
    \/ CheckReady(t) \/ IndexFrame(t) \/ Sync(t) \/ Restore(t)
    \/ PublishReload(t)

SubscriberNext == Receive \/ SubscriberPlan \/ LoadNext(Subscriber) \/ SubscriberCheck

PipelineNext == UnlinkLatest \/ \E r \in Run : LinkLatest(r) \/ MoveActive(r)

Next ==
    \/ \E t \in Request : MetaNext(t) \/ DigestNext(t)
    \/ \E t \in Reload : ReloadNext(t)
    \/ SubscriberNext \/ PipelineNext

Spec == Init /\ [][Next]_vars

-----------------------------------------------------------------------------
(* Fairness: asyncio runs the callbacks that are ready in the order they    *)
(* became ready, and the lock is free for whole database or index accesses  *)
(* between two loads, so a task that again and again could go on does go    *)
(* on.  Nobody has to send a request.                                       *)

RequestWork(t) == pc[t] # "idle" /\ (MetaNext(t) \/ DigestNext(t))

ReloadWork(t) == pc[t] # "idle" /\ ReloadNext(t)

Fairness ==
    /\ \A t \in Request : SF_vars(RequestWork(t))
    /\ \A t \in Reload : SF_vars(ReloadWork(t))
    /\ SF_vars(SubscriberNext)

FairSpec == Spec /\ Fairness

-----------------------------------------------------------------------------
(* Properties                                                              *)

\* What is served after a load or a rollback comes from one run, whatever the
\* readers, the other loads and the pipeline do meanwhile, unless it was read
\* through the configured paths, which the pipeline may relink between two files.
ServedIsOneRun ==
    lock = Free /\ served.from = "run" =>
        \E r \in Run : {served.features, served.market, served.meta} \subseteq {r, NoRun}

\* What is true instead: a cached value of another run was computed by a request
\* that had taken its frame before the last reload or rollback.
StaleOnlyIfOverlapped ==
    lock = Free /\ meta_cache # NoRun /\ meta_cache # served.market => overlapped

\* The event loop waits for a lock its own thread holds.
Stuck == \E t \in Task : pc[t] = "status" /\ lock = t

\* Every request and every reload is answered: no wait for the lock or the loop
\* lasts for ever, but for the one of a getter that waits for itself.
AnsweredUnlessStuck ==
    \A t \in Request \cup Reload : pc[t] # "idle" ~> pc[t] = "idle" \/ Stuck
=============================================================================
