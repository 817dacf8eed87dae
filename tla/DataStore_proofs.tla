-------------------------- MODULE DataStore_proofs --------------------------
(***************************************************************************)
(* Proofs about the DataStore, for every set of runs and any number of     *)
(* requests and reloads on the event loop; and about MarketTrends, for any *)
(* number of weeks, runs, segments and reloads.                            *)
(***************************************************************************)
EXTENDS DataStore, MarketTrends, TLAPS

-----------------------------------------------------------------------------
(* Types                                                                   *)

\* A step of a task moves that task alone.
LEMMA OneTaskMoves ==
    ASSUME DSTypeOK, NEW t \in Task, NEW from, NEW to \in Label,
           OnLoop(t, from, to) \/ InThread(t, from, to)
    PROVE  /\ pc' \in [Task -> Label] /\ loop' \in Task \cup {Free}
           /\ pc[t] = from /\ pc'[t] = to
           /\ \A o \in Task : o # t => pc'[o] = pc[o]
BY DEF DSTypeOK, OnLoop, InThread

LEMMA GetterMoves ==
    ASSUME DSTypeOK, NEW t \in Task, NEW value, NEW from, NEW to \in Label,
           Getter(t, value, from, to)
    PROVE  /\ pc' \in [Task -> Label] /\ loop' \in Task \cup {Free}
           /\ lock' \in Task \cup {Free}
           /\ pc[t] = from /\ lock = Free
           /\ \/ value # NoRun /\ pc'[t] = to /\ lock' = lock
              \/ value = NoRun /\ pc'[t] = "status" /\ lock' = t
           /\ \A o \in Task : o # t => pc'[o] = pc[o]
<1>1. "status" \in Label
  BY DEF Label, KeepsLoop
<1>2. CASE value # NoRun /\ OnLoop(t, from, to) /\ UNCHANGED lock
  BY <1>2, OneTaskMoves DEF DSTypeOK, Getter
<1>3. CASE value = NoRun /\ OnLoop(t, from, "status") /\ lock' = t
  BY <1>1, <1>3, OneTaskMoves DEF DSTypeOK, Getter
<1> QED BY <1>2, <1>3 DEF Getter

LEMMA ChangeType == ASSUME DSTypeOK, Change PROVE changes' \in 0..MaxChanges
BY DataStoreAssumption DEF DSTypeOK, Change

\* What a step of a request, a load, a reload or the subscriber leaves: every
\* variable keeps its type.
LEMMA RequestTypes ==
    ASSUME DSTypeOK, NEW t \in Request, MetaNext(t) \/ DigestNext(t) PROVE DSTypeOK'
<1>t. t \in Task
  BY DEF Task
<1>1. CASE MetaReady(t)
  BY <1>1, <1>t, OneTaskMoves DEF MetaReady, Locked, DSTypeOK, Label, KeepsLoop, stored, external, loading
<1>2. CASE MetaFrame(t)
  BY <1>2, <1>t, GetterMoves DEF MetaFrame, DSTypeOK, Served, Label, KeepsLoop, stored, external, loading
<1>3. CASE RedisGet(t)
  BY <1>3, <1>t, OneTaskMoves DEF RedisGet, DSTypeOK, MaybeRun, Label, KeepsLoop, stored, external, loading
<1>4. CASE Lookup(t)
  BY <1>4, <1>t, OneTaskMoves DEF Lookup, Locked, DSTypeOK, MaybeRun, Label, KeepsLoop, stored, external, loading
<1>5. CASE Insert(t)
  BY <1>5, <1>t, OneTaskMoves DEF Insert, Locked, DSTypeOK, MaybeRun, Label, KeepsLoop, external, loading
<1>6. CASE RedisSet(t)
  BY <1>6, <1>t, OneTaskMoves DEF RedisSet, DSTypeOK, Label, KeepsLoop, stored, external, loading
<1>7. CASE SegmentReady(t)
  BY <1>7, <1>t, OneTaskMoves DEF SegmentReady, Reading, Locked, DSTypeOK, Label, KeepsLoop, stored, external, loading
<1>8. CASE SegmentMarket(t) \/ SegmentFeatures(t) \/ MatchFeatures(t)
  BY <1>8, <1>t, GetterMoves DEF SegmentMarket, SegmentFeatures, MatchFeatures, Reading, DSTypeOK, Label, KeepsLoop, stored, external, loading
<1>9. CASE DigestTimeout(t)
  BY <1>9, <1>t, OneTaskMoves DEF DigestTimeout, Reading, DSTypeOK, Label, KeepsLoop, stored, external, loading
<1> QED BY <1>1, <1>2, <1>3, <1>4, <1>5, <1>6, <1>7, <1>8, <1>9 DEF MetaNext, DigestNext

LEMMA LoadTypes ==
    ASSUME DSTypeOK, NEW t \in Loader, LoadNext(t) PROVE DSTypeOK'
<1>t. t \in Task
  BY DEF Task, Loader
<1>r. \A v \in MaybeRun : Read(t, v) => changes' \in 0..MaxChanges
  BY ChangeType DEF Read, DSTypeOK
<1>1. CASE LoadFeatures(t)
  BY <1>1, <1>t, <1>r, OneTaskMoves DEF LoadFeatures, DSTypeOK, Served, Label, KeepsLoop, external, loading
<1>2. CASE LoadMarket(t)
  BY <1>2, <1>t, <1>r, OneTaskMoves DEF LoadMarket, DSTypeOK, Served, Label, KeepsLoop, external, loading
<1>3. CASE LoadMeta(t)
  <2>1. PICK v \in MaybeRun :
          /\ Read(t, v)
          /\ served' = [served EXCEPT !.meta = v,
                           !.from = IF plan[t] = Latest THEN "configured" ELSE "run"]
    BY <1>3 DEF LoadMeta
  <2>2. served' \in Served /\ changes' \in 0..MaxChanges
    BY <2>1, <1>r DEF DSTypeOK, Served
  <2> QED BY <1>3, <1>t, <2>2, OneTaskMoves DEF LoadMeta, ClearMetaCache, DSTypeOK, MaybeRun, Label, KeepsLoop, external, loading
<1> QED BY <1>1, <1>2, <1>3 DEF LoadNext

LEMMA ReloadTypes ==
    ASSUME DSTypeOK, NEW t \in Reload, ReloadNext(t) PROVE DSTypeOK'
<1>t. t \in Task /\ t \in Loader
  BY DEF Task, Loader
<1>1. CASE Snapshot(t)
  BY <1>1, <1>t, OneTaskMoves DEF Snapshot, Locked, DSTypeOK, Label, KeepsLoop, stored, external
<1>2. CASE Plan(t)
  <2>1. plan' \in [Loader -> MaybeRun \cup {Latest}] /\ changes' \in 0..MaxChanges
    BY <1>2, <1>t, ChangeType DEF Plan, DSTypeOK
  <2>2. CASE OnLoop(t, "plan", "features")
    BY <1>2, <1>t, <2>1, <2>2, OneTaskMoves DEF Plan, DSTypeOK, Label, stored, external
  <2>3. CASE OnLoop(t, "plan", "restore")
    BY <1>2, <1>t, <2>1, <2>3, OneTaskMoves DEF Plan, DSTypeOK, Label, KeepsLoop, stored, external
  <2> QED BY <1>2, <2>2, <2>3 DEF Plan
<1>3. CASE LoadNext(t)
  BY <1>3, <1>t, LoadTypes
<1>4. CASE CheckRun(t) \/ CheckReady(t)
  BY <1>4, <1>t, OneTaskMoves DEF CheckRun, CheckReady, Locked, DSTypeOK, Label, KeepsLoop, stored, external, loading
<1>5. CASE IndexFrame(t)
  BY <1>5, <1>t, GetterMoves DEF IndexFrame, DSTypeOK, Label, KeepsLoop, stored, external, loading
<1>6. CASE Sync(t)
  BY <1>6, <1>t, OneTaskMoves, ChangeType DEF Sync, DSTypeOK, Label, KeepsLoop, stored, external, loading
<1>7. CASE Restore(t)
  BY <1>7, <1>t, OneTaskMoves DEF Restore, Locked, ClearMetaCache, DSTypeOK, MaybeRun, Served, Empty, Label, KeepsLoop, external
<1>8. CASE PublishReload(t)
  BY <1>8, <1>t, OneTaskMoves DEF PublishReload, DSTypeOK, MaybeRun, Served, Empty, Label, KeepsLoop, stored, external
<1> QED BY <1>1, <1>2, <1>3, <1>4, <1>5, <1>6, <1>7, <1>8 DEF ReloadNext

LEMMA SubscriberTypes ==
    ASSUME DSTypeOK, SubscriberNext PROVE DSTypeOK'
<1>t. Subscriber \in Task /\ Subscriber \in Loader
  BY DEF Task, Loader
<1>1. CASE Receive
  <2>1. events' \in 0..MaxEvents
    BY <1>1, DataStoreAssumption DEF Receive, DSTypeOK
  <2> QED BY <1>1, <1>t, <2>1, OneTaskMoves DEF Receive, DSTypeOK, Label, KeepsLoop, stored, external, loading
<1>2. CASE SubscriberPlan
  <2>1. plan' \in [Loader -> MaybeRun \cup {Latest}] /\ changes' \in 0..MaxChanges
    BY <1>2, <1>t, ChangeType DEF SubscriberPlan, DSTypeOK
  <2> QED BY <1>2, <1>t, <2>1, OneTaskMoves DEF SubscriberPlan, DSTypeOK, Label, stored, external
<1>3. CASE LoadNext(Subscriber)
  BY <1>3, <1>t, LoadTypes
<1>4. CASE SubscriberCheck
  BY <1>4, <1>t, OneTaskMoves DEF SubscriberCheck, Locked, DSTypeOK, MaybeRun, Label, KeepsLoop, stored, external
<1> QED BY <1>1, <1>2, <1>3, <1>4 DEF SubscriberNext

\* Every variable keeps its type, whatever the tasks and the pipeline do.
THEOREM DataStoreTypes == Spec => []DSTypeOK
<1>1. Init => DSTypeOK
  <2> SUFFICES ASSUME Init PROVE DSTypeOK
    OBVIOUS
  <2>1. Empty \in Served
    BY DEF Empty, Served, MaybeRun
  <2>2. served \in Served /\ active \in MaybeRun /\ latest \in MaybeRun
    <3>1. PICK r \in Run :
             /\ latest = r
             /\ \/ /\ active = r
                   /\ served = [features |-> r, market |-> r, meta |-> r, from |-> "run"]
                \/ active = NoRun /\ served = Empty
      BY DEF Init
    <3>2. [features |-> r, market |-> r, meta |-> r, from |-> "run"] \in Served
      BY DEF Served, MaybeRun
    <3> QED BY <2>1, <3>1, <3>2 DEF MaybeRun
  <2>3. "idle" \in Label
    BY DEF Label
  <2>4. 0 \in 0..MaxEvents /\ 0 \in 0..MaxChanges
    BY DataStoreAssumption
  <2> QED BY <2>1, <2>2, <2>3, <2>4 DEF Init, DSTypeOK, MaybeRun
<1>2. DSTypeOK /\ [Next]_vars => DSTypeOK'
  <2> SUFFICES ASSUME DSTypeOK, [Next]_vars PROVE DSTypeOK'
    OBVIOUS
  <2>1. CASE PipelineNext
    BY <2>1, ChangeType DEF PipelineNext, UnlinkLatest, LinkLatest, MoveActive, Pipeline,
       DSTypeOK, MaybeRun, stored, loading
  <2>2. CASE UNCHANGED vars
    BY <2>2 DEF vars, DSTypeOK
  <2> QED BY <2>1, <2>2, RequestTypes, ReloadTypes, SubscriberTypes DEF Next
<1> QED BY <1>1, <1>2, PTL DEF Spec

-----------------------------------------------------------------------------
(* What is served comes from one run                                       *)

OneRun(s) ==
    s.from = "run" => \E r \in Run : {s.features, s.market, s.meta} \subseteq {r, NoRun}

\* A load keeps the lock from its first file to its last, so the files read so far
\* are those of its plan; and what a rollback puts back was complete when taken.
LoadInv ==
    /\ \A t \in Task : pc[t] \in {"load market", "load meta"} => lock = t
    /\ \A t \in Loader :
          /\ pc[t] \in {"features", "load market", "load meta"} => plan[t] \in Run \cup {Latest}
          /\ pc[t] \in {"load market", "load meta"} /\ plan[t] # Latest
             => served.features \in {plan[t], NoRun}
          /\ pc[t] = "load meta" /\ plan[t] # Latest => served.market \in {plan[t], NoRun}
    /\ \A t \in Reload : OneRun(snap[t])
    /\ lock = Free => OneRun(served)

\* A step that loads nothing: the frames stay, and at most the task's own plan and
\* snapshot change.
LEMMA LoadInvKept ==
    ASSUME DSTypeOK, LoadInv, served' = served,
           NEW t \in Task, pc' \in [Task -> Label],
           \A o \in Task : o # t => pc'[o] = pc[o],
           pc'[t] \notin {"load market", "load meta"},
           \A o \in Loader : o # t => plan'[o] = plan[o],
           t \in Loader /\ pc'[t] = "features" => plan'[t] \in Run \cup {Latest},
           \A o \in Reload : OneRun(snap'[o]),
           lock' = lock \/ (lock = Free /\ lock' = t)
    PROVE  LoadInv'
<1>f. Free \notin Task
  BY DataStoreAssumption DEF Task
<1>l. \A o \in Loader : o \in Task
  BY DEF Loader, Task
<1>1. \A o \in Task : pc'[o] \in {"load market", "load meta"} => lock' = o
  BY <1>f DEF LoadInv
<1>2. ASSUME NEW o \in Loader
      PROVE  /\ pc'[o] \in {"features", "load market", "load meta"}
                => plan'[o] \in Run \cup {Latest}
             /\ pc'[o] \in {"load market", "load meta"} /\ plan'[o] # Latest
                => served'.features \in {plan'[o], NoRun}
             /\ pc'[o] = "load meta" /\ plan'[o] # Latest
                => served'.market \in {plan'[o], NoRun}
  <2>1. CASE o = t
    BY <2>1
  <2>2. CASE o # t
    BY <2>2, <1>l DEF LoadInv
  <2> QED BY <2>1, <2>2
<1>4. lock' = Free => OneRun(served')
  BY <1>f DEF LoadInv
<1> QED BY <1>1, <1>2, <1>4 DEF LoadInv

QuietLabel == Label \ {"features", "load market", "load meta"}

LEMMA QuietStep ==
    ASSUME DSTypeOK, LoadInv, served' = served, snap' = snap, plan' = plan,
           NEW t \in Task,
           \/ /\ \E from, to \in QuietLabel : OnLoop(t, from, to) \/ InThread(t, from, to)
              /\ UNCHANGED lock
           \/ \E value : \E from, to \in QuietLabel : Getter(t, value, from, to)
    PROVE  LoadInv'
<1>s. \A o \in Reload : OneRun(snap'[o])
  BY DEF LoadInv
<1>1. CASE /\ \E from, to \in QuietLabel : OnLoop(t, from, to) \/ InThread(t, from, to)
           /\ UNCHANGED lock
  <2>1. PICK from, to \in QuietLabel : OnLoop(t, from, to) \/ InThread(t, from, to)
    BY <1>1
  <2>2. /\ pc' \in [Task -> Label] /\ pc'[t] = to
        /\ \A o \in Task : o # t => pc'[o] = pc[o]
    BY <2>1, OneTaskMoves DEF QuietLabel
  <2> QED BY <1>1, <1>s, <2>2, LoadInvKept DEF QuietLabel
<1>2. CASE \E value : \E from, to \in QuietLabel : Getter(t, value, from, to)
  <2>1. PICK value : \E from, to \in QuietLabel : Getter(t, value, from, to)
    BY <1>2
  <2>2. PICK from, to \in QuietLabel : Getter(t, value, from, to)
    BY <2>1
  <2>3. /\ pc' \in [Task -> Label] /\ pc'[t] \in {to, "status"}
        /\ lock' = lock \/ (lock = Free /\ lock' = t)
        /\ \A o \in Task : o # t => pc'[o] = pc[o]
    BY <2>2, GetterMoves DEF QuietLabel
  <2> QED BY <1>s, <2>3, LoadInvKept DEF QuietLabel
<1> QED BY <1>1, <1>2

LEMMA RequestLoads ==
    ASSUME DSTypeOK, LoadInv, NEW t \in Request, MetaNext(t) \/ DigestNext(t)
    PROVE  LoadInv'
<1>t. t \in Task
  BY DEF Task
<1>1. served' = served /\ snap' = snap /\ plan' = plan
  BY DEF MetaNext, DigestNext, MetaReady, MetaFrame, RedisGet, Lookup, Insert, RedisSet,
     SegmentReady, SegmentMarket, SegmentFeatures, MatchFeatures, DigestTimeout, Reading,
     stored, loading
<1>2. CASE MetaReady(t) \/ RedisGet(t) \/ Lookup(t) \/ Insert(t) \/ RedisSet(t)
  <2>1. /\ \E from, to \in QuietLabel : OnLoop(t, from, to) \/ InThread(t, from, to)
        /\ UNCHANGED lock
    BY <1>2 DEF MetaReady, RedisGet, Lookup, Insert, RedisSet, Locked, QuietLabel, Label, KeepsLoop
  <2> QED BY <1>t, <1>1, <2>1, QuietStep
<1>3. CASE SegmentReady(t) \/ DigestTimeout(t)
  <2>1. /\ \E from, to \in QuietLabel : OnLoop(t, from, to)
        /\ UNCHANGED lock
    BY <1>3 DEF SegmentReady, DigestTimeout, Locked, QuietLabel, Label, KeepsLoop
  <2> QED BY <1>t, <1>1, <2>1, QuietStep
<1>4. CASE MetaFrame(t) \/ SegmentMarket(t) \/ SegmentFeatures(t) \/ MatchFeatures(t)
  <2>1. \E value : \E from, to \in QuietLabel : Getter(t, value, from, to)
    BY <1>4 DEF MetaFrame, SegmentMarket, SegmentFeatures, MatchFeatures, QuietLabel, Label, KeepsLoop
  <2> QED BY <1>t, <1>1, <2>1, QuietStep
<1> QED BY <1>2, <1>3, <1>4 DEF MetaNext, DigestNext

\* Only the task that holds the lock is between two files.
LEMMA OneLoads ==
    ASSUME DSTypeOK, LoadInv, NEW t \in Task, lock \in {t, Free}
    PROVE  \A o \in Task : o # t => pc[o] \notin {"load market", "load meta"}
BY DataStoreAssumption DEF LoadInv, Task

LEMMA LoadLoads ==
    ASSUME DSTypeOK, LoadInv, NEW t \in Loader, LoadNext(t)
    PROVE  LoadInv'
<1>t. t \in Task /\ t # Free /\ \A o \in Loader : o \in Task
  BY DataStoreAssumption DEF Task, Loader
<1>l. "load market" \in Label /\ "load meta" \in Label /\ "check run" \in Label
  BY DEF Label
<1>p. plan' = plan /\ snap' = snap
  BY DEF LoadNext, LoadFeatures, LoadMarket, LoadMeta, loading
<1>s. \A o \in Reload : OneRun(snap'[o])
  BY <1>p DEF LoadInv
<1>1. CASE LoadFeatures(t)
  <2>1. /\ pc' \in [Task -> Label] /\ pc[t] = "features" /\ pc'[t] = "load market"
        /\ \A o \in Task : o # t => pc'[o] = pc[o]
    BY <1>1, <1>t, <1>l, OneTaskMoves DEF LoadFeatures
  <2>2. lock = Free /\ lock' = t
    BY <1>1 DEF LoadFeatures
  <2>3. \A o \in Task : o # t => pc'[o] \notin {"load market", "load meta"}
    BY <1>t, <2>1, <2>2, OneLoads
  <2>4. PICK v \in MaybeRun : Read(t, v) /\ served' = [served EXCEPT !.features = v]
    BY <1>1 DEF LoadFeatures
  <2>5. served'.features = v /\ (plan[t] # Latest => v \in {plan[t], NoRun})
    BY <2>4 DEF Read, DSTypeOK, Served
  <2> QED BY <1>t, <1>p, <1>s, <2>1, <2>2, <2>3, <2>5 DEF LoadInv
<1>2. CASE LoadMarket(t)
  <2>1. /\ pc' \in [Task -> Label] /\ pc[t] = "load market" /\ pc'[t] = "load meta"
        /\ \A o \in Task : o # t => pc'[o] = pc[o]
    BY <1>2, <1>t, <1>l, OneTaskMoves DEF LoadMarket
  <2>2. lock = t /\ lock' = t
    BY <1>2, <1>t, <2>1 DEF LoadMarket, LoadInv
  <2>3. \A o \in Task : o # t => pc'[o] \notin {"load market", "load meta"}
    BY <1>t, <2>1, <2>2, OneLoads
  <2>4. PICK v \in MaybeRun : Read(t, v) /\ served' = [served EXCEPT !.market = v]
    BY <1>2 DEF LoadMarket
  <2>5. /\ served'.market = v /\ served'.features = served.features
        /\ plan[t] # Latest => v \in {plan[t], NoRun}
    BY <2>4 DEF Read, DSTypeOK, Served
  <2> QED BY <1>t, <1>p, <1>s, <2>1, <2>2, <2>3, <2>5 DEF LoadInv
<1>3. CASE LoadMeta(t)
  <2>1. /\ pc' \in [Task -> Label] /\ pc[t] = "load meta" /\ pc'[t] = "check run"
        /\ \A o \in Task : o # t => pc'[o] = pc[o]
    BY <1>3, <1>t, <1>l, OneTaskMoves DEF LoadMeta
  <2>2. lock = t /\ lock' = Free
    BY <1>3, <1>t, <2>1 DEF LoadMeta, LoadInv
  <2>3. \A o \in Task : pc'[o] \notin {"load market", "load meta"}
    BY <1>t, <2>1, <2>2, OneLoads
  <2>4. PICK v \in MaybeRun :
           /\ Read(t, v)
           /\ served' = [served EXCEPT !.meta = v,
                            !.from = IF plan[t] = Latest THEN "configured" ELSE "run"]
    BY <1>3 DEF LoadMeta
  <2>5. /\ served'.meta = v /\ served'.features = served.features
        /\ served'.market = served.market
        /\ served'.from = IF plan[t] = Latest THEN "configured" ELSE "run"
        /\ plan[t] # Latest => v \in {plan[t], NoRun}
    BY <2>4 DEF Read, DSTypeOK, Served
  <2>6. plan[t] # Latest =>
           /\ plan[t] \in Run
           /\ {served'.features, served'.market, served'.meta} \subseteq {plan[t], NoRun}
    BY <1>t, <2>1, <2>5 DEF LoadInv
  <2>7. OneRun(served')
    BY <2>5, <2>6 DEF OneRun
  <2>8. \A o \in Loader : pc'[o] = "features" => plan'[o] \in Run \cup {Latest}
    BY <1>t, <1>p, <2>1 DEF LoadInv
  <2> QED BY <1>t, <1>s, <2>2, <2>3, <2>7, <2>8 DEF LoadInv
<1> QED BY <1>1, <1>2, <1>3 DEF LoadNext

LEMMA ReloadLoads ==
    ASSUME DSTypeOK, LoadInv, NEW t \in Reload, ReloadNext(t)
    PROVE  LoadInv'
<1>t. t \in Task /\ t \in Loader
  BY DEF Task, Loader
<1>s. \A o \in Reload : OneRun(snap[o])
  BY DEF LoadInv
<1>e. OneRun(Empty)
  BY DEF OneRun, Empty
<1>1. CASE Snapshot(t)
  <2>1. /\ pc' \in [Task -> Label] /\ pc'[t] = "plan"
        /\ \A o \in Task : o # t => pc'[o] = pc[o]
    BY <1>1, <1>t, OneTaskMoves DEF Snapshot, Label
  <2>2. /\ served' = served /\ plan' = plan /\ lock' = lock /\ lock = Free
        /\ snap' = [snap EXCEPT ![t] = served]
    BY <1>1 DEF Snapshot, Locked, stored
  <2>3. \A o \in Reload : OneRun(snap'[o])
    BY <1>s, <2>2 DEF LoadInv, DSTypeOK
  <2> QED BY <1>t, <2>1, <2>2, <2>3, LoadInvKept
<1>2. CASE Plan(t)
  <2>1. /\ pc' \in [Task -> Label] /\ pc'[t] \in {"features", "restore"}
        /\ \A o \in Task : o # t => pc'[o] = pc[o]
    <3>1. CASE OnLoop(t, "plan", "features")
      BY <3>1, <1>t, OneTaskMoves DEF Label
    <3>2. CASE OnLoop(t, "plan", "restore")
      BY <3>2, <1>t, OneTaskMoves DEF Label, KeepsLoop
    <3> QED BY <1>2, <3>1, <3>2 DEF Plan
  <2>2. served' = served /\ lock' = lock /\ snap' = snap
    BY <1>2 DEF Plan, stored
  <2>3. /\ \A o \in Loader : o # t => plan'[o] = plan[o]
        /\ pc'[t] = "features" => plan'[t] \in Run \cup {Latest}
    BY <1>2, <1>t, <2>1 DEF Plan, OnLoop, DSTypeOK, MaybeRun
  <2> QED BY <1>t, <1>s, <2>1, <2>2, <2>3, LoadInvKept
<1>3. CASE LoadNext(t)
  BY <1>3, <1>t, LoadLoads
<1>4. CASE CheckRun(t) \/ CheckReady(t) \/ Sync(t)
  <2>1. /\ \E from, to \in QuietLabel : OnLoop(t, from, to)
        /\ UNCHANGED lock
    BY <1>4 DEF CheckRun, CheckReady, Sync, Locked, QuietLabel, Label, KeepsLoop
  <2>2. served' = served /\ snap' = snap /\ plan' = plan
    BY <1>4 DEF CheckRun, CheckReady, Sync, stored, loading
  <2> QED BY <1>t, <2>1, <2>2, QuietStep
<1>5. CASE IndexFrame(t)
  <2>1. \E value : \E from, to \in QuietLabel : Getter(t, value, from, to)
    BY <1>5 DEF IndexFrame, QuietLabel, Label, KeepsLoop
  <2>2. served' = served /\ snap' = snap /\ plan' = plan
    BY <1>5 DEF IndexFrame, stored, loading
  <2> QED BY <1>t, <2>1, <2>2, QuietStep
<1>6. CASE Restore(t)
  <2>1. /\ pc' \in [Task -> Label] /\ pc'[t] = "idle"
        /\ \A o \in Task : o # t => pc'[o] = pc[o]
    BY <1>6, <1>t, OneTaskMoves DEF Restore, Label
  <2>2. /\ served' = snap[t] /\ lock = Free /\ lock' = Free
        /\ snap' = [snap EXCEPT ![t] = Empty]
        /\ plan' = [plan EXCEPT ![t] = NoRun]
    BY <1>6 DEF Restore, Locked
  <2>3. \A o \in Task : pc'[o] \notin {"load market", "load meta"}
    BY <1>t, <2>1, <2>2, OneLoads
  <2>4. OneRun(served') /\ \A o \in Reload : OneRun(snap'[o])
    BY <1>s, <1>e, <2>2 DEF DSTypeOK
  <2>5. \A o \in Loader : pc'[o] = "features" => plan'[o] \in Run \cup {Latest}
    BY <1>t, <2>1, <2>2 DEF LoadInv, Loader, Task, DSTypeOK
  <2>6. \A o \in Loader : o \in Task
    BY DEF Loader, Task
  <2> QED BY <2>3, <2>4, <2>5, <2>6 DEF LoadInv
<1>7. CASE PublishReload(t)
  <2>1. /\ pc' \in [Task -> Label] /\ pc'[t] = "idle"
        /\ \A o \in Task : o # t => pc'[o] = pc[o]
    BY <1>7, <1>t, OneTaskMoves DEF PublishReload, Label
  <2>2. /\ served' = served /\ lock' = lock
        /\ snap' = [snap EXCEPT ![t] = Empty]
        /\ plan' = [plan EXCEPT ![t] = NoRun]
    BY <1>7 DEF PublishReload, stored
  <2>3. \A o \in Reload : OneRun(snap'[o])
    BY <1>s, <1>e, <2>2 DEF DSTypeOK
  <2>4. \A o \in Loader : o # t => plan'[o] = plan[o]
    BY <2>2 DEF DSTypeOK
  <2> QED BY <1>t, <2>1, <2>2, <2>3, <2>4, LoadInvKept
<1> QED BY <1>1, <1>2, <1>3, <1>4, <1>5, <1>6, <1>7 DEF ReloadNext

LEMMA SubscriberLoads ==
    ASSUME DSTypeOK, LoadInv, SubscriberNext
    PROVE  LoadInv'
<1> DEFINE t == Subscriber
<1>t. t \in Task /\ t \in Loader
  BY DEF Task, Loader
<1>s. \A o \in Reload : OneRun(snap[o])
  BY DEF LoadInv
<1>1. CASE Receive
  <2>1. /\ pc' \in [Task -> Label] /\ pc'[t] = "plan"
        /\ \A o \in Task : o # t => pc'[o] = pc[o]
    BY <1>1, <1>t, OneTaskMoves DEF Receive, Label
  <2>2. served' = served /\ lock' = lock /\ snap' = snap /\ plan' = plan
    BY <1>1 DEF Receive, stored, loading
  <2> QED BY <1>t, <1>s, <2>1, <2>2, LoadInvKept
<1>2. CASE SubscriberPlan
  <2>1. /\ pc' \in [Task -> Label] /\ pc'[t] = "features"
        /\ \A o \in Task : o # t => pc'[o] = pc[o]
    BY <1>2, <1>t, OneTaskMoves DEF SubscriberPlan, Label
  <2>2. served' = served /\ lock' = lock /\ snap' = snap
    BY <1>2 DEF SubscriberPlan, stored
  <2>3. /\ \A o \in Loader : o # t => plan'[o] = plan[o]
        /\ plan'[t] \in Run \cup {Latest}
    BY <1>2, <1>t DEF SubscriberPlan, DSTypeOK, MaybeRun
  <2> QED BY <1>t, <1>s, <2>1, <2>2, <2>3, LoadInvKept
<1>3. CASE LoadNext(t)
  BY <1>3, <1>t, LoadLoads
<1>4. CASE SubscriberCheck
  <2>1. /\ pc' \in [Task -> Label] /\ pc'[t] \in {"idle", "stopped"}
        /\ \A o \in Task : o # t => pc'[o] = pc[o]
    BY <1>4, <1>t, OneTaskMoves DEF SubscriberCheck, Label
  <2>2. served' = served /\ lock' = lock /\ snap' = snap
    BY <1>4 DEF SubscriberCheck, Locked, stored
  <2>3. \A o \in Loader : o # t => plan'[o] = plan[o]
    BY <1>4 DEF SubscriberCheck, DSTypeOK
  <2> QED BY <1>t, <1>s, <2>1, <2>2, <2>3, LoadInvKept
<1> QED BY <1>1, <1>2, <1>3, <1>4 DEF SubscriberNext

LEMMA LoadHolds == Spec => []LoadInv
<1>1. Init => LoadInv
  <2> SUFFICES ASSUME Init PROVE LoadInv
    OBVIOUS
  <2>1. OneRun(Empty) /\ \A r \in Run :
           OneRun([features |-> r, market |-> r, meta |-> r, from |-> "run"])
    BY DEF OneRun, Empty
  <2>2. OneRun(served)
    BY <2>1 DEF Init
  <2>3. \A t \in Task : pc[t] = "idle"
    BY DEF Init
  <2>4. \A t \in Reload : OneRun(snap[t])
    BY <2>1 DEF Init
  <2>5. \A t \in Loader : t \in Task
    BY DEF Loader, Task
  <2> QED BY <2>2, <2>3, <2>4, <2>5 DEF LoadInv
<1>2. DSTypeOK /\ LoadInv /\ [Next]_vars => LoadInv'
  <2> SUFFICES ASSUME DSTypeOK, LoadInv, [Next]_vars PROVE LoadInv'
    OBVIOUS
  <2>1. ASSUME PipelineNext \/ UNCHANGED vars PROVE LoadInv'
    <3>1. /\ served' = served /\ pc' = pc /\ lock' = lock
          /\ snap' = snap /\ plan' = plan
      BY <2>1 DEF PipelineNext, UnlinkLatest, LinkLatest, MoveActive, Pipeline, stored,
         loading, vars
    <3>2. (\A t \in Reload : OneRun(snap'[t])) /\ (lock' = Free => OneRun(served'))
      BY <3>1 DEF LoadInv
    <3> QED BY <3>1, <3>2 DEF LoadInv
  <2> QED BY <2>1, RequestLoads, ReloadLoads, SubscriberLoads DEF Next
<1> QED BY <1>1, <1>2, DataStoreTypes, PTL DEF Spec

\* Whatever the pipeline does, neither a load nor a rollback mixes the files of two
\* runs, unless they were read through the configured paths.
THEOREM ServedRunIsOne == Spec => []ServedIsOneRun
<1>1. LoadInv => ServedIsOneRun
  BY DEF LoadInv, OneRun, ServedIsOneRun
<1> QED BY <1>1, LoadHolds, PTL

-----------------------------------------------------------------------------
(* Where a stale meta value comes from                                      *)

InFlight(t) == pc[t] \in {"redis", "lookup", "compute"}

\* A cached value, or the frame of a request that may still fill the cache, is of
\* the run served now, or the last clearing found such a request.
StaleInv ==
    lock = Free =>
        /\ \A t \in Request : InFlight(t) /\ frame[t] # served.market => overlapped
        /\ meta_cache # NoRun /\ meta_cache # served.market => overlapped

LEMMA StaleKept ==
    ASSUME StaleInv, served' = served, meta_cache' = meta_cache, overlapped' = overlapped,
           lock' = Free => lock = Free,
           \A o \in Request : InFlight(o)' => InFlight(o) /\ frame'[o] = frame[o]
    PROVE  StaleInv'
BY DEF StaleInv

LEMMA RequestStale ==
    ASSUME DSTypeOK, StaleInv, NEW t \in Request, MetaNext(t) \/ DigestNext(t)
    PROVE  StaleInv'
<1>t. t \in Task /\ t # Free /\ \A o \in Request : o \in Task
  BY DataStoreAssumption DEF Task
<1>1. CASE MetaReady(t) \/ SegmentReady(t) \/ DigestTimeout(t) \/ RedisSet(t) \/ RedisGet(t)
           \/ Lookup(t)
  <2>1. /\ served' = served /\ meta_cache' = meta_cache /\ overlapped' = overlapped
        /\ lock' = lock
    BY <1>1 DEF MetaReady, SegmentReady, DigestTimeout, RedisSet, RedisGet, Lookup, Reading,
       Locked, stored
  <2>2. /\ \A o \in Request : o # t => pc'[o] = pc[o] /\ frame'[o] = frame[o]
        /\ InFlight(t)' => InFlight(t) /\ frame'[t] = frame[t]
    BY <1>1, <1>t DEF MetaReady, SegmentReady, DigestTimeout, RedisSet, RedisGet, Lookup,
       Reading, OnLoop, InThread, InFlight, DSTypeOK
  <2> QED BY <2>1, <2>2, StaleKept DEF InFlight
<1>2. CASE SegmentMarket(t) \/ SegmentFeatures(t) \/ MatchFeatures(t)
  <2>1. /\ served' = served /\ meta_cache' = meta_cache /\ overlapped' = overlapped
        /\ frame' = frame /\ lock = Free
    BY <1>2 DEF SegmentMarket, SegmentFeatures, MatchFeatures, Reading, Getter, stored
  <2>2. /\ \A o \in Request : o # t => pc'[o] = pc[o]
        /\ ~InFlight(t)'
    BY <1>2, <1>t DEF SegmentMarket, SegmentFeatures, MatchFeatures, Getter, OnLoop, InFlight,
       DSTypeOK
  <2> QED BY <2>1, <2>2, StaleKept DEF InFlight
<1>3. CASE MetaFrame(t)
  <2>1. /\ served' = served /\ meta_cache' = meta_cache /\ overlapped' = overlapped
        /\ lock = Free
        /\ \A o \in Request : o # t => pc'[o] = pc[o] /\ frame'[o] = frame[o]
        /\ frame'[t] = served.market
    BY <1>3, <1>t DEF MetaFrame, Getter, OnLoop, DSTypeOK, stored
  <2> QED BY <2>1 DEF StaleInv, InFlight
<1>4. CASE Insert(t)
  <2>1. /\ served' = served /\ overlapped' = overlapped /\ lock = Free
        /\ InFlight(t) /\ ~InFlight(t)'
        /\ \A o \in Request : o # t => pc'[o] = pc[o] /\ frame'[o] = frame[o]
        /\ meta_cache' \in {meta_cache, frame[t]}
    BY <1>4, <1>t DEF Insert, Locked, InThread, InFlight, DSTypeOK
  <2> QED BY <2>1 DEF StaleInv, InFlight
<1> QED BY <1>1, <1>2, <1>3, <1>4 DEF MetaNext, DigestNext

\* The steps of the loaders leave the requests where they are.
LEMMA LoaderLeavesRequests ==
    ASSUME DSTypeOK, NEW t \in Loader, NEW from, NEW to, NEW value,
           OnLoop(t, from, to) \/ InThread(t, from, to) \/ Getter(t, value, from, to)
    PROVE  \A o \in Request : pc'[o] = pc[o]
<1>1. t \notin Request /\ t \in Task /\ \A o \in Request : o \in Task
  BY DataStoreAssumption DEF Loader, Task
<1> QED BY <1>1 DEF OnLoop, InThread, Getter, DSTypeOK

\* A load or a rollback that ends notes the requests it overtook.
LEMMA ClearedStale ==
    ASSUME NEW t \in Loader, ClearMetaCache, frame' = frame,
           \A o \in Request : pc'[o] = pc[o]
    PROVE  StaleInv'
BY DEF StaleInv, ClearMetaCache, InFlight

LEMMA LoadStale ==
    ASSUME DSTypeOK, LoadInv, StaleInv, NEW t \in Loader, LoadNext(t)
    PROVE  StaleInv'
<1>t. t \in Task /\ t # Free
  BY DataStoreAssumption DEF Loader, Task
<1>1. CASE LoadFeatures(t)
  BY <1>1, <1>t DEF LoadFeatures, StaleInv
<1>2. CASE LoadMarket(t)
  <2>1. lock' = t
    BY <1>2, <1>t DEF LoadMarket, InThread, LoadInv
  <2> QED BY <2>1, <1>t DEF StaleInv
<1>3. CASE LoadMeta(t)
  <2>1. \A o \in Request : pc'[o] = pc[o]
    BY <1>3, LoaderLeavesRequests DEF LoadMeta
  <2> QED BY <1>3, <2>1, ClearedStale DEF LoadMeta
<1> QED BY <1>1, <1>2, <1>3 DEF LoadNext

LEMMA ReloadStale ==
    ASSUME DSTypeOK, LoadInv, StaleInv, NEW t \in Reload, ReloadNext(t)
    PROVE  StaleInv'
<1>t. t \in Loader /\ t # Free
  BY DataStoreAssumption DEF Loader
<1>1. CASE LoadNext(t)
  BY <1>1, <1>t, LoadStale
<1>2. CASE Restore(t)
  <2>1. \A o \in Request : pc'[o] = pc[o]
    BY <1>2, <1>t, LoaderLeavesRequests DEF Restore
  <2> QED BY <1>2, <1>t, <2>1, ClearedStale DEF Restore
<1>3. CASE Snapshot(t) \/ Plan(t) \/ CheckRun(t) \/ CheckReady(t) \/ Sync(t) \/ PublishReload(t)
  <2>1. \A o \in Request : pc'[o] = pc[o]
    BY <1>3, <1>t, LoaderLeavesRequests DEF Snapshot, Plan, CheckRun, CheckReady, Sync,
       PublishReload
  <2>2. /\ served' = served /\ meta_cache' = meta_cache /\ overlapped' = overlapped
        /\ lock' = lock /\ frame' = frame
    BY <1>3 DEF Snapshot, Plan, CheckRun, CheckReady, Sync, PublishReload, Locked, stored
  <2> QED BY <2>1, <2>2, StaleKept DEF InFlight
<1>4. CASE IndexFrame(t)
  <2>1. \A o \in Request : pc'[o] = pc[o]
    BY <1>4, <1>t, LoaderLeavesRequests DEF IndexFrame
  <2>2. /\ served' = served /\ meta_cache' = meta_cache /\ overlapped' = overlapped
        /\ lock = Free /\ frame' = frame
    BY <1>4 DEF IndexFrame, Getter, stored
  <2> QED BY <2>1, <2>2, StaleKept DEF InFlight
<1> QED BY <1>1, <1>2, <1>3, <1>4 DEF ReloadNext

LEMMA SubscriberStale ==
    ASSUME DSTypeOK, LoadInv, StaleInv, SubscriberNext
    PROVE  StaleInv'
<1>t. Subscriber \in Loader
  BY DEF Loader
<1>1. CASE LoadNext(Subscriber)
  BY <1>1, <1>t, LoadStale
<1>2. CASE Receive \/ SubscriberPlan \/ SubscriberCheck
  <2>1. \A o \in Request : pc'[o] = pc[o]
    BY <1>2, <1>t, LoaderLeavesRequests DEF Receive, SubscriberPlan, SubscriberCheck
  <2>2. /\ served' = served /\ meta_cache' = meta_cache /\ overlapped' = overlapped
        /\ lock' = lock /\ frame' = frame
    BY <1>2 DEF Receive, SubscriberPlan, SubscriberCheck, Locked, stored
  <2> QED BY <2>1, <2>2, StaleKept DEF InFlight
<1> QED BY <1>1, <1>2 DEF SubscriberNext

\* A meta value of another run than the one served was computed by a request that
\* overlapped the last reload or rollback, however many requests and reloads there are.
THEOREM StaleNeedsOverlap == Spec => []StaleOnlyIfOverlapped
<1>1. Init => StaleInv
  BY DEF Init, StaleInv, InFlight, Task
<1>2. DSTypeOK /\ LoadInv /\ StaleInv /\ [Next]_vars => StaleInv'
  <2> SUFFICES ASSUME DSTypeOK, LoadInv, StaleInv, [Next]_vars PROVE StaleInv'
    OBVIOUS
  <2>1. ASSUME PipelineNext \/ UNCHANGED vars PROVE StaleInv'
    <3>1. /\ served' = served /\ meta_cache' = meta_cache /\ overlapped' = overlapped
          /\ lock' = lock /\ pc' = pc /\ frame' = frame
      BY <2>1 DEF PipelineNext, UnlinkLatest, LinkLatest, MoveActive, Pipeline, stored, vars
    <3> QED BY <3>1, StaleKept DEF InFlight
  <2> QED BY <2>1, RequestStale, ReloadStale, SubscriberStale DEF Next
<1>3. StaleInv => StaleOnlyIfOverlapped
  BY DEF StaleInv, StaleOnlyIfOverlapped
<1> QED BY <1>1, <1>2, <1>3, DataStoreTypes, LoadHolds, PTL DEF Spec

-----------------------------------------------------------------------------
(* Trends: types                                                           *)

RunNo    == 0..MaxRun
FileSet  == [Week -> RunNo]
StoreRec == [run : RunNo, files : FileSet]
RunRec   == [ stage : {"started", "snapshot", "described", "done", "failed"},
              given : Input, week : Week ]

SeenSet  == UNION {[keys -> RunNo] : keys \in SUBSET Key}
Loads    == [at : {"load", "loaded"}, prev : StoreRec]
ReadsRec == [at : {"files"}, prev : StoreRec, run : PipeRun]
CopyRec  == [ at : {"select", "flush"}, prev : StoreRec, files : FileSet, week : Nat \ {0},
              seen : SeenSet, pending : SUBSET Key, alone : BOOLEAN ]

Point    == [week : Week, runs : SUBSET RunNo]
AskRec   == [ at : {"rows", "label", "answered"}, query : Query, trust : RunNo, label : RunNo,
              files : FileSet, points : SUBSET Point, moved : BOOLEAN ]

TrendsTypes ==
    /\ week \in Week
    /\ runs \in [PipeRun -> RunRec \cup {Unstarted}]
    /\ file \in FileSet /\ latestRun \in RunNo /\ store \in StoreRec
    /\ copying \in [Reloader -> {Resting} \cup Loads \cup ReadsRec \cup CopyRec]
    /\ snapshots \in [Key -> RunNo]
    /\ ask \in AskRec \cup {NotAsked}
    /\ copied \in FileSet

\* What the other parts know of the runs: none is lost, and what a run was given and its
\* week stay.
Started(r)  == r # NoPipeRun => StageOf(r) # "none"
Finished(r) == r # NoPipeRun => StageOf(r) = "done"

RunsKept ==
    \A r \in PipeRun : StageOf(r) # "none" =>
        /\ runs'[r].stage # "none"
        /\ runs'[r].given = runs[r].given /\ runs'[r].week = runs[r].week
        /\ StageOf(r) = "done" => runs'[r].stage = "done"

PipelineStep ==
    \E r \in PipeRun : StartRun(r) \/ WriteSnapshot(r) \/ WriteMeta(r) \/ PublishLatest(r)

LEMMA StageFacts ==
    ASSUME TrendsTypes, NEW r \in PipeRun, StageOf(r) # "none" PROVE runs[r] \in RunRec
BY DEF TrendsTypes, StageOf, Unstarted

\* A run's record after its next step.
LEMMA RunStep ==
    ASSUME TrendsTypes, NEW r \in PipeRun,
           StartRun(r) \/ WriteSnapshot(r) \/ WriteMeta(r) \/ PublishLatest(r)
    PROVE  /\ runs' \in [PipeRun -> RunRec \cup {Unstarted}]
           /\ RunsKept
           /\ \A o \in PipeRun : o # r => runs'[o] = runs[o]
           /\ UNCHANGED <<week, store, copying, snapshots, ask, copied>>
<1> DEFINE new == runs'[r]
<1>1. CASE StartRun(r)
  <2>1. PICK i \in Input :
           runs' = [runs EXCEPT ![r] = [stage |-> "started", given |-> i, week |-> week]]
    BY <1>1 DEF StartRun
  <2>2. [stage |-> "started", given |-> i, week |-> week] \in RunRec
    BY DEF RunRec, TrendsTypes
  <2> QED BY <1>1, <2>1, <2>2 DEF StartRun, TrendsTypes, RunsKept, StageOf
<1>2. ASSUME NEW stage \in {"snapshot", "described", "done", "failed"},
             runs[r].stage \notin {"none", "done"}, runs' = [runs EXCEPT ![r].stage = stage]
      PROVE  /\ runs' \in [PipeRun -> RunRec \cup {Unstarted}]
             /\ RunsKept
             /\ \A o \in PipeRun : o # r => runs'[o] = runs[o]
  <2>1. runs[r] \in RunRec
    BY <1>2, StageFacts DEF StageOf
  <2>2. runs' = [runs EXCEPT ![r] = [runs[r] EXCEPT !.stage = stage]]
    BY <1>2
  <2>3. /\ [runs[r] EXCEPT !.stage = stage] \in RunRec
        /\ [runs[r] EXCEPT !.stage = stage].given = runs[r].given
        /\ [runs[r] EXCEPT !.stage = stage].week = runs[r].week
        /\ [runs[r] EXCEPT !.stage = stage].stage = stage
    BY <2>1 DEF RunRec
  <2> QED BY <1>2, <2>2, <2>3 DEF TrendsTypes, RunsKept, StageOf
<1>3. CASE WriteSnapshot(r)
  BY <1>2, <1>3 DEF WriteSnapshot, StageOf
<1>4. CASE WriteMeta(r)
  BY <1>2, <1>4 DEF WriteMeta, StageOf
<1>5. CASE PublishLatest(r)
  BY <1>2, <1>5 DEF PublishLatest, StageOf
<1> QED BY <1>1, <1>3, <1>4, <1>5

LEMMA Shapes ==
    /\ \A c \in Loads : c.at \in {"load", "loaded"} /\ c.prev \in StoreRec
    /\ \A c \in ReadsRec : c.at = "files" /\ c.prev \in StoreRec /\ c.run \in PipeRun
    /\ \A c \in CopyRec : /\ c.at \in {"select", "flush"} /\ c.prev \in StoreRec
                          /\ c.files \in FileSet /\ c.week \in Nat \ {0}
                          /\ c.seen \in SeenSet /\ c.pending \in SUBSET Key
                          /\ c.alone \in BOOLEAN
    /\ Resting.at = "idle"
BY DEF Loads, ReadsRec, CopyRec, Resting

\* The record of a request by what it does.
LEMMA ByDoing ==
    ASSUME TrendsTypes, NEW q \in Reloader
    PROVE  /\ At(q) \in {"load", "loaded"} => copying[q] \in Loads
           /\ At(q) = "files" => copying[q] \in ReadsRec
           /\ Upserting(q) => copying[q] \in CopyRec
           /\ At(q) = "idle" => copying[q] = Resting
           /\ At(q) # "idle" => copying[q].prev \in StoreRec
<1>1. copying[q] \in {Resting} \cup Loads \cup ReadsRec \cup CopyRec
  BY DEF TrendsTypes
<1> QED BY <1>1, Shapes DEF At, Upserting

LEMMA MovesFacts ==
    ASSUME TrendsTypes
    PROVE  /\ Moves(ask) \in AskRec \cup {NotAsked}
           /\ Moves(ask).at = ask.at
           /\ ask.at \notin {"rows", "label"} => Moves(ask) = ask
           /\ ask.at \in {"rows", "label"} =>
                 /\ Moves(ask).moved /\ Moves(ask).trust = ask.trust
                 /\ Moves(ask).files = ask.files /\ Moves(ask).points = ask.points
<1>1. ask \in AskRec \/ ask = NotAsked
  BY DEF TrendsTypes
<1>2. CASE ask \in AskRec
  BY <1>2 DEF Moves, AskRec
<1>3. CASE ask = NotAsked
  BY <1>3 DEF Moves, NotAsked
<1> QED BY <1>1, <1>2, <1>3

LEMMA NoFilesIsFiles == NoFiles \in FileSet
BY TrendsAssumption DEF NoFiles, FileSet, RunNo, NoPipeRun

LEMMA NothingSeenType == NothingSeen \in SeenSet
<1>1. NothingSeen \in [{} -> RunNo] /\ {} \in SUBSET Key
  BY DEF NothingSeen
<1> QED BY <1>1 DEF SeenSet

LEMMA SeenType ==
    ASSUME TrendsTypes, NEW keys \in SUBSET Key PROVE [k \in keys |-> snapshots[k]] \in SeenSet
<1>1. [k \in keys |-> snapshots[k]] \in [keys -> RunNo]
  BY DEF TrendsTypes
<1> QED BY <1>1 DEF SeenSet

LEMMA InFilesKeys == \A files : InFiles(files) \in SUBSET Key
BY DEF InFiles

\* One request's step changes that request's record, and begins no copy.
LEMMA OneCopies ==
    ASSUME TrendsTypes, NEW q \in Reloader, NEW c,
           copying' = [copying EXCEPT ![q] = c],
           c \in {Resting} \cup Loads \cup ReadsRec \cup CopyRec
    PROVE  /\ copying' \in [Reloader -> {Resting} \cup Loads \cup ReadsRec \cup CopyRec]
           /\ copying'[q] = c
           /\ \A o \in Reloader : o # q => copying'[o] = copying[o]
BY DEF TrendsTypes

\* What each step of a copy makes of its record.
Selected(q) == [copying[q] EXCEPT !.at = "flush", !.seen = [k \in OfWeek(q) |-> snapshots[k]]]
Flushed(q)  == [copying[q] EXCEPT !.at = "select", !.week = @ + 1, !.seen = NothingSeen,
                                  !.pending = @ \cup Changed(q)]

LEMMA SelectedFacts ==
    ASSUME TrendsTypes, NEW q \in Reloader, SelectRows(q)
    PROVE  /\ copying[q] \in CopyRec /\ copying' = [copying EXCEPT ![q] = Selected(q)]
           /\ Selected(q) \in CopyRec /\ Selected(q).at = "flush"
           /\ Selected(q).seen = [k \in OfWeek(q) |-> snapshots[k]]
           /\ Selected(q).files = copying[q].files /\ Selected(q).week = copying[q].week
           /\ Selected(q).pending = copying[q].pending /\ Selected(q).alone = copying[q].alone
           /\ Selected(q).prev = copying[q].prev
<1>1. copying[q] \in CopyRec
  BY ByDoing DEF SelectRows, Upserting
<1>2. [k \in OfWeek(q) |-> snapshots[k]] \in SeenSet
  BY SeenType, InFilesKeys DEF OfWeek
<1>3. copying' = [copying EXCEPT ![q] = Selected(q)]
  BY DEF SelectRows, Selected
<1> QED BY <1>1, <1>2, <1>3 DEF Selected, CopyRec

LEMMA FlushedFacts ==
    ASSUME TrendsTypes, NEW q \in Reloader, Flush(q)
    PROVE  /\ copying[q] \in CopyRec /\ copying' = [copying EXCEPT ![q] = Flushed(q)]
           /\ Flushed(q) \in CopyRec /\ Flushed(q).at = "select"
           /\ Flushed(q).files = copying[q].files /\ Flushed(q).week = copying[q].week + 1
           /\ Flushed(q).pending = copying[q].pending \cup Changed(q)
           /\ Flushed(q).alone = copying[q].alone
           /\ Flushed(q).prev = copying[q].prev
<1>1. copying[q] \in CopyRec
  BY ByDoing DEF Flush, Upserting
<1>2. Changed(q) \in SUBSET Key
  BY InFilesKeys DEF Changed, OfWeek
<1>3. copying' = [copying EXCEPT ![q] = Flushed(q)]
  BY DEF Flush, Flushed
<1>4. copying[q].week + 1 \in Nat \ {0} /\ copying[q].pending \cup Changed(q) \in SUBSET Key
  BY <1>1, <1>2, Shapes
<1> QED BY <1>1, <1>3, <1>4, NothingSeenType DEF Flushed, CopyRec

\* A copy that begins.
Copying(q) ==
    [at |-> "select", prev |-> copying[q].prev, files |-> store.files, week |-> 1,
     seen |-> NothingSeen, pending |-> {}, alone |-> {o \in Reloader : Upserting(o)} = {}]

Accompanied(o) == [copying[o] EXCEPT !.alone = FALSE]

LEMMA BeganFacts ==
    ASSUME TrendsTypes, NEW q \in Reloader, BeginCopy(q)
    PROVE  /\ copying' \in [Reloader -> {Resting} \cup Loads \cup ReadsRec \cup CopyRec]
           /\ At(q) = "loaded" /\ copying'[q] = Copying(q) /\ Copying(q) \in CopyRec
           /\ \A o \in Reloader : o # q =>
                 copying'[o] = IF Upserting(o) THEN Accompanied(o) ELSE copying[o]
<1>1. At(q) = "loaded" /\ copying[q] \in Loads
  BY ByDoing DEF BeginCopy
<1>2. Copying(q) \in CopyRec
  <2>1. copying[q].prev \in StoreRec /\ store.files \in FileSet
    BY <1>1, Shapes DEF TrendsTypes, StoreRec
  <2>2. ({o \in Reloader : Upserting(o)} = {}) \in BOOLEAN
    OBVIOUS
  <2> QED BY <2>1, <2>2, NothingSeenType DEF Copying, CopyRec
<1>3. \A o \in Reloader : Upserting(o) => Accompanied(o) \in CopyRec
  <2> TAKE o \in Reloader
  <2>1. Upserting(o) => copying[o] \in CopyRec
    BY ByDoing
  <2> QED BY <2>1 DEF Accompanied, CopyRec
<1>4. copying' = [o \in Reloader |-> IF o = q THEN Copying(q)
                                     ELSE IF Upserting(o) THEN Accompanied(o) ELSE copying[o]]
  BY DEF BeginCopy, Copying, Accompanied
<1> QED BY <1>1, <1>2, <1>3, <1>4 DEF TrendsTypes

ReloadStep(q) ==
    \/ BeginReload(q) \/ LoadRun(q) \/ LoadFiles(q) \/ BeginCopy(q)
    \/ SelectRows(q) \/ Flush(q) \/ CommitCopy(q) \/ Fail(q)

LEMMA ReloadStepTypes ==
    ASSUME TrendsTypes, NEW q \in Reloader, ReloadStep(q) PROVE TrendsTypes'
<1> DEFINE Records == {Resting} \cup Loads \cup ReadsRec \cup CopyRec
<1>0. ASSUME copying' \in [Reloader -> Records], PipelineOnly, store' \in StoreRec,
             snapshots' \in [Key -> RunNo], ask' \in AskRec \cup {NotAsked}, copied' \in FileSet
      PROVE  TrendsTypes'
  BY <1>0 DEF TrendsTypes, PipelineOnly
<1>t. /\ store \in StoreRec /\ snapshots \in [Key -> RunNo] /\ ask \in AskRec \cup {NotAsked}
      /\ copied \in FileSet /\ file \in FileSet /\ latestRun \in RunNo
  BY DEF TrendsTypes
<1>1. CASE BeginReload(q)
  <2>1. [at |-> "load", prev |-> store] \in Records
    BY <1>t DEF Loads
  <2> QED BY <1>0, <1>1, <1>t, <2>1, OneCopies DEF BeginReload
<1>2. CASE LoadRun(q)
  <2>1. copying[q].prev \in StoreRec /\ latestRun \in PipeRun
    BY <1>2, <1>t, ByDoing DEF LoadRun, RunNo, PipeRun, NoPipeRun
  <2>2. [at |-> "files", prev |-> copying[q].prev, run |-> latestRun] \in Records
    BY <2>1 DEF ReadsRec
  <2> QED BY <1>0, <1>2, <1>t, <2>2, OneCopies DEF LoadRun
<1>3. CASE LoadFiles(q)
  <2>1. copying[q].prev \in StoreRec /\ copying[q].run \in RunNo
    BY <1>3, ByDoing, Shapes DEF LoadFiles, RunNo, PipeRun
  <2>2. [at |-> "loaded", prev |-> copying[q].prev] \in Records
    BY <2>1 DEF Loads
  <2>3. [run |-> copying[q].run, files |-> file] \in StoreRec
    BY <1>t, <2>1 DEF StoreRec
  <2> QED BY <1>0, <1>3, <1>t, <2>2, <2>3, OneCopies, MovesFacts DEF LoadFiles
<1>4. CASE BeginCopy(q)
  BY <1>0, <1>4, <1>t, BeganFacts DEF BeginCopy
<1>5. CASE SelectRows(q)
  <2>1. copying' = [copying EXCEPT ![q] = Selected(q)] /\ Selected(q) \in CopyRec
    BY <1>5, SelectedFacts
  <2>2. copying' \in [Reloader -> Records]
    BY <2>1, OneCopies
  <2>3. PipelineOnly /\ UNCHANGED <<store, snapshots, ask, copied>>
    BY <1>5 DEF SelectRows
  <2> QED BY <1>0, <1>t, <2>2, <2>3
<1>6. CASE Flush(q)
  <2>1. copying' = [copying EXCEPT ![q] = Flushed(q)] /\ Flushed(q) \in CopyRec
    BY <1>6, FlushedFacts
  <2>2. copying' \in [Reloader -> Records]
    BY <2>1, OneCopies
  <2>3. PipelineOnly /\ UNCHANGED <<store, snapshots, ask, copied>>
    BY <1>6 DEF Flush
  <2> QED BY <1>0, <1>t, <2>2, <2>3
<1>7. CASE CommitCopy(q)
  <2>1. copying[q] \in CopyRec /\ copying[q].files \in FileSet
    BY <1>7, ByDoing, Shapes DEF CommitCopy, Upserting
  <2>2. snapshots' \in [Key -> RunNo]
    BY <1>7, <1>t, <2>1 DEF CommitCopy, FileSet, Key
  <2>3. copied' \in FileSet
    BY <1>7, <2>1, NoFilesIsFiles DEF CommitCopy
  <2> QED BY <1>0, <1>7, <1>t, <2>2, <2>3, OneCopies DEF CommitCopy
<1>8. CASE Fail(q)
  <2>1. copying[q].prev \in StoreRec
    BY <1>8, ByDoing DEF Fail
  <2> QED BY <1>0, <1>8, <1>t, <2>1, OneCopies, MovesFacts DEF Fail
<1> QED BY <1>1, <1>2, <1>3, <1>4, <1>5, <1>6, <1>7, <1>8 DEF ReloadStep

LEMMA HistoryTypes ==
    ASSUME TrendsTypes
    PROVE  \A row \in HistoryRows : row.week \in Week /\ row.run \in RunNo
<1>1. \A k \in Key : k[1] \in Week
  BY DEF Key
<1>2. \A k \in Key : snapshots[k] \in RunNo
  BY DEF TrendsTypes
<1>3. \A k \in InFiles(store.files) : k[1] \in Week /\ store.files[k[1]] \in RunNo
  BY <1>1, InFilesKeys DEF TrendsTypes, StoreRec, FileSet
<1> QED BY <1>1, <1>2, <1>3 DEF HistoryRows, HistoryRow

LEMMA SeriesFacts ==
    ASSUME NEW rows, \A row \in rows : row.week \in Week /\ row.run \in RunNo, NEW weeks
    PROVE  /\ Series(rows, weeks) \in SUBSET Point
           /\ \A p, o \in Series(rows, weeks) : p.week = o.week => p = o
<1>1. ASSUME NEW p \in Series(rows, weeks)
      PROVE  /\ p.week \in Week
             /\ p = [week |-> p.week, runs |-> {row.run : row \in {o \in rows : o.week = p.week}}]
  <2>1. PICK w \in {row.week : row \in rows} :
           p = [week |-> w, runs |-> {row.run : row \in {o \in rows : o.week = w}}]
    BY DEF Series
  <2> QED BY <2>1
<1>2. ASSUME NEW p \in Series(rows, weeks) PROVE p \in Point
  <2>1. {row.run : row \in {o \in rows : o.week = p.week}} \in SUBSET RunNo
    OBVIOUS
  <2>2. [week |-> p.week, runs |-> {row.run : row \in {o \in rows : o.week = p.week}}] \in Point
    BY <1>1, <2>1 DEF Point
  <2> QED BY <1>1, <2>2
<1>3. ASSUME NEW p \in Series(rows, weeks), NEW o \in Series(rows, weeks), p.week = o.week
      PROVE  p = o
  BY <1>1, <1>3
<1> QED BY <1>2, <1>3

AskStep == (\E query \in Query : AskTrend(query)) \/ ReadHistory \/ AnswerTrend

\* What each step of a request makes of it.
LEMMA AskFacts ==
    ASSUME TrendsTypes, AskStep
    PROVE  /\ ask' \in AskRec /\ ApiOnly
           /\ \/ /\ ask'.at = IF TrendTrust(store.run) THEN "rows" ELSE "answered"
                 /\ ask'.trust = store.run /\ ask'.label = store.run /\ ask'.files = store.files
                 /\ ask'.points = {}
              \/ /\ ask.at = "rows" /\ ask'.at = "label" /\ ask'.trust = ask.trust
                 /\ ask'.files = ask.files /\ ask'.moved = ask.moved
                 /\ \A p, o \in ask'.points : p.week = o.week => p = o
              \/ /\ ask.at = "label" /\ ask'.at = "answered" /\ ask'.trust = ask.trust
                 /\ ask'.files = ask.files /\ ask'.moved = ask.moved
                 /\ ask'.points = ask.points /\ ask'.label = store.run
<1>s. store.run \in RunNo /\ store.files \in FileSet
  BY DEF TrendsTypes, StoreRec
<1>a. ask.at \in {"rows", "label"} => ask \in AskRec
  BY DEF TrendsTypes, NotAsked
<1>1. ASSUME NEW query \in Query, AskTrend(query)
      PROVE  /\ ask' \in AskRec /\ ApiOnly
             /\ ask'.at = IF TrendTrust(store.run) THEN "rows" ELSE "answered"
             /\ ask'.trust = store.run /\ ask'.label = store.run /\ ask'.files = store.files
             /\ ask'.points = {}
  <2>1. (IF TrendTrust(store.run) THEN "rows" ELSE "answered") \in {"rows", "label", "answered"}
    OBVIOUS
  <2> DEFINE at == IF TrendTrust(store.run) THEN "rows" ELSE "answered"
  <2>2. ask' = [ at |-> at, query |-> query, trust |-> store.run, label |-> store.run,
                 files |-> store.files, points |-> {}, moved |-> FALSE ]
    BY <1>1 DEF AskTrend
  <2>3. at \in {"rows", "label", "answered"}
    BY <2>1
  <2> HIDE DEF at
  <2>4. ask' \in AskRec /\ ask'.at = at
    BY <1>s, <2>2, <2>3 DEF AskRec
  <2> QED BY <1>1, <2>2, <2>4 DEF AskTrend, at
<1>2. CASE ReadHistory
  <2> DEFINE asked == {row \in HistoryRows :
                          row.seg \in ask.query.segments /\ (ask.query.skill => row.skills)}
             points == Series(asked, ask.query.weeks)
  <2>1. /\ ask.at = "rows" /\ ApiOnly
        /\ ask' = [ask EXCEPT !.at = "label", !.points = points]
    BY <1>2 DEF ReadHistory
  <2>2. points \in SUBSET Point /\ \A p, o \in points : p.week = o.week => p = o
    BY HistoryTypes, SeriesFacts
  <2> HIDE DEF points
  <2> QED BY <1>a, <2>1, <2>2 DEF AskRec
<1>3. CASE AnswerTrend
  BY <1>a, <1>s, <1>3 DEF AnswerTrend, AskRec
<1> QED BY <1>1, <1>2, <1>3 DEF AskStep

LEMMA TrendsTypesStep == ASSUME TrendsTypes, [TrendsNext]_trendVars PROVE TrendsTypes'
<1>1. CASE UNCHANGED trendVars
  BY <1>1 DEF trendVars, TrendsTypes
<1>2. CASE NewWeek
  <2>1. week' \in Week
    BY <1>2, TrendsAssumption DEF NewWeek, TrendsTypes, Week
  <2> QED BY <1>2, <2>1 DEF NewWeek, TrendsTypes
<1>3. ASSUME NEW r \in PipeRun, StartRun(r) \/ WriteSnapshot(r) \/ WriteMeta(r) \/ PublishLatest(r)
      PROVE  TrendsTypes'
  <2>1. /\ runs' \in [PipeRun -> RunRec \cup {Unstarted}]
        /\ UNCHANGED <<week, store, copying, snapshots, ask, copied>>
    BY <1>3, RunStep
  <2>2. r \in RunNo
    BY DEF RunNo, PipeRun
  <2>3. file' \in FileSet /\ latestRun' \in RunNo
    BY <1>3, <2>2 DEF StartRun, WriteSnapshot, WriteMeta, PublishLatest, TrendsTypes, FileSet
  <2> QED BY <2>1, <2>3 DEF TrendsTypes
<1>4. CASE AskStep
  BY <1>4, AskFacts DEF TrendsTypes, ApiOnly, PipelineOnly
<1> QED BY <1>1, <1>2, <1>3, <1>4, ReloadStepTypes DEF TrendsNext, AskStep, ReloadStep

-----------------------------------------------------------------------------
(* Trends: what is copied and what is told                                 *)

\* A file of a week is from a run of that week.
OfTheirWeek(files) ==
    \A w \in Week : files[w] # NoPipeRun =>
        StageOf(files[w]) # "none" /\ runs[files[w]].week = w

KnownInv ==
    /\ OfTheirWeek(file) /\ OfTheirWeek(store.files) /\ OfTheirWeek(copied)
    /\ Finished(latestRun) /\ Finished(store.run)
    /\ \A q \in Reloader :
          /\ At(q) # "idle" => OfTheirWeek(copying[q].prev.files) /\ Finished(copying[q].prev.run)
          /\ At(q) = "files" => Finished(copying[q].run)
          /\ Upserting(q) => OfTheirWeek(copying[q].files)

RowsInv ==
    /\ \A k \in Key : Started(snapshots[k])
    /\ RowsAreOfTheirWeek

\* A copy that has been alone since it began has the table to itself: what it has read is
\* there, and of the weeks it has done each row is as the file has it, or will be.
AloneInv(q) ==
    LET c == copying[q] IN
    /\ \A o \in Reloader : o # q => ~Upserting(o)
    /\ c.at = "flush" => c.week \in Week /\ \A k \in OfWeek(q) : c.seen[k] = snapshots[k]
    /\ \A k \in InFiles(c.files) :
          k[1] < c.week => k \in c.pending \/ snapshots[k] = c.files[k[1]]

CopiesInv ==
    \A q \in Reloader : Upserting(q) =>
        /\ copying[q].pending \subseteq InFiles(copying[q].files)
        /\ copying[q].alone => AloneInv(q)

\* The rows that are told were asked for under a run with a trend gate that passed.
AskInv ==
    ask # NotAsked =>
        /\ Started(ask.trust)
        /\ ask.at \in {"rows", "label"} \/ ask.points # {} => TrendTrust(ask.trust)
        /\ ask.at \in {"rows", "label"} => ask.moved \/ store.run = ask.trust
        /\ ask.at = "answered" => ask.moved \/ ask.label = ask.trust
        /\ \A p, o \in ask.points : p.week = o.week => p = o

TrendsInv == KnownInv /\ RowsInv /\ CopiesInv /\ TableHasTheFiles /\ AskInv

\* What is known of a run stays.
LEMMA RunsStay ==
    ASSUME TrendsTypes, RunsKept, NEW r \in RunNo
    PROVE  /\ Finished(r) => Started(r)
           /\ Finished(r) => Finished(r)'
           /\ Started(r) => Started(r)'
           /\ Started(r) => Segments(r)' = Segments(r) /\ (TrendTrust(r)' <=> TrendTrust(r))
           /\ \A w : r # NoPipeRun /\ StageOf(r) # "none" /\ runs[r].week = w
                => runs'[r].stage # "none" /\ runs'[r].week = w
<1>1. CASE r = NoPipeRun
  BY <1>1 DEF Finished, Started, Segments, TrendTrust
<1>2. CASE r # NoPipeRun
  <2>1. r \in PipeRun
    BY <1>2 DEF RunNo, PipeRun, NoPipeRun
  <2>2. Started(r) => runs'[r].given = runs[r].given
    BY <1>2, <2>1 DEF RunsKept, Started, StageOf
  <2>3. Started(r) => Segments(r)' = Segments(r)
    BY <2>2 DEF Segments
  <2>4. Started(r) => (TrendTrust(r)' <=> TrendTrust(r))
    BY <2>2 DEF TrendTrust, Rows
  <2> QED BY <1>2, <2>1, <2>3, <2>4 DEF RunsKept, Started, Finished, StageOf
<1> QED BY <1>1, <1>2

LEMMA FilesStay ==
    ASSUME TrendsTypes, RunsKept, NEW files \in FileSet, OfTheirWeek(files)
    PROVE  OfTheirWeek(files)' /\ InFiles(files)' = InFiles(files)
<1>1. ASSUME NEW w \in Week
      PROVE  /\ files[w] \in RunNo /\ Started(files[w])
             /\ Segments(files[w])' = Segments(files[w])
             /\ (files[w] # NoPipeRun => StageOf(files[w]) # "none" /\ runs[files[w]].week = w)'
  <2>1. files[w] \in RunNo
    BY DEF FileSet
  <2>2. Started(files[w])
    BY DEF OfTheirWeek, Started
  <2>3. Segments(files[w])' = Segments(files[w])
    BY <2>1, <2>2, RunsStay
  <2>4. files[w] # NoPipeRun => runs'[files[w]].stage # "none" /\ runs'[files[w]].week = w
    BY <2>1, RunsStay DEF OfTheirWeek
  <2> QED BY <2>1, <2>2, <2>3, <2>4 DEF StageOf
<1>2. OfTheirWeek(files)'
  BY <1>1 DEF OfTheirWeek
<1>3. \A k \in Key : k[1] \in Week
  BY DEF Key
<1>4. ASSUME NEW k \in Key PROVE k[2] \in Segments(files[k[1]])' <=> k[2] \in Segments(files[k[1]])
  BY <1>1, <1>3
<1>5. InFiles(files)' = InFiles(files)
  BY <1>4 DEF InFiles
<1> QED BY <1>2, <1>5

LEMMA SameRuns == ASSUME TrendsTypes, UNCHANGED runs PROVE RunsKept
BY DEF RunsKept, StageOf

LEMMA KeyWeek == \A k \in Key : k[1] \in Week
BY DEF Key

LEMMA NoFilesHasNone == ASSUME TrendsTypes PROVE OfTheirWeek(NoFiles) /\ InFiles(NoFiles) = {}
BY KeyWeek DEF OfTheirWeek, InFiles, NoFiles, Segments

\* A step of the pipeline.
LEMMA PipelineTrends ==
    ASSUME TrendsTypes, TrendsInv, NEW r \in PipeRun,
           StartRun(r) \/ WriteSnapshot(r) \/ WriteMeta(r) \/ PublishLatest(r)
    PROVE  TrendsInv'
<1>k. RunsKept /\ UNCHANGED <<week, store, copying, snapshots, ask, copied>>
  BY RunStep
<1>t. /\ store \in StoreRec /\ store.run \in RunNo /\ store.files \in FileSet
      /\ copied \in FileSet /\ file \in FileSet /\ latestRun \in RunNo
  BY DEF TrendsTypes, StoreRec
<1>c. ASSUME NEW q \in Reloader
      PROVE  /\ At(q) # "idle" => copying[q].prev.run \in RunNo /\ copying[q].prev.files \in FileSet
             /\ At(q) = "files" => copying[q].run \in RunNo
             /\ Upserting(q) => copying[q].files \in FileSet
  BY ByDoing, Shapes DEF StoreRec, RunNo, PipeRun
<1>s. r \in RunNo /\ r # NoPipeRun
  BY DEF RunNo, PipeRun, NoPipeRun
<1>1. KnownInv'
  <2>1. OfTheirWeek(file)'
    <3>1. CASE file' = file
      BY <1>k, <1>t, <3>1, FilesStay DEF TrendsInv, KnownInv, OfTheirWeek
    <3>2. CASE WriteSnapshot(r)
      <4>1. runs[r] \in RunRec
        BY <3>2, StageFacts DEF WriteSnapshot
      <4>2. runs[r].week \in Week /\ runs'[r].stage # "none" /\ runs'[r].week = runs[r].week
        BY <1>k, <3>2, <4>1 DEF RunRec, RunsKept, WriteSnapshot, StageOf
      <4>3. file' = [file EXCEPT ![runs[r].week] = r]
        BY <3>2 DEF WriteSnapshot
      <4>4. \A w \in Week : file'[w] = IF w = runs[r].week THEN r ELSE file[w]
        BY <1>t, <4>3 DEF FileSet
      <4>5. OfTheirWeek(file)
        BY DEF TrendsInv, KnownInv
      <4>6. \A w \in Week : file[w] # NoPipeRun =>
                 runs'[file[w]].stage # "none" /\ runs'[file[w]].week = w
        BY <1>k, <1>t, <4>5, RunsStay DEF OfTheirWeek, FileSet
      <4> QED BY <4>2, <4>4, <4>6 DEF OfTheirWeek, StageOf
    <3> QED BY <3>1, <3>2 DEF StartRun, WriteMeta, PublishLatest
  <2>2. OfTheirWeek(store.files)' /\ OfTheirWeek(copied)'
    BY <1>k, <1>t, FilesStay DEF TrendsInv, KnownInv, OfTheirWeek
  <2>3. Finished(store.run)'
    BY <1>k, <1>t, RunsStay DEF TrendsInv, KnownInv, Finished
  <2>4. Finished(latestRun)'
    <3>1. CASE latestRun' = latestRun
      BY <1>k, <1>t, <3>1, RunsStay DEF TrendsInv, KnownInv, Finished
    <3>2. CASE latestRun' # latestRun
      <4>1. latestRun' = r /\ runs' = [runs EXCEPT ![r].stage = "done"] /\ StageOf(r) # "none"
        BY <3>2 DEF StartRun, WriteSnapshot, WriteMeta, PublishLatest
      <4>2. runs[r] \in RunRec
        BY <4>1, StageFacts
      <4>3. runs'[r].stage = "done"
        BY <4>1, <4>2 DEF TrendsTypes, RunRec
      <4> QED BY <4>1, <4>3 DEF Finished, StageOf
    <3> QED BY <3>1, <3>2
  <2>5. ASSUME NEW q \in Reloader
        PROVE  (/\ At(q) # "idle" => OfTheirWeek(copying[q].prev.files) /\ Finished(copying[q].prev.run)
                /\ At(q) = "files" => Finished(copying[q].run)
                /\ Upserting(q) => OfTheirWeek(copying[q].files))'
    <3>1. /\ At(q) # "idle" => OfTheirWeek(copying[q].prev.files) /\ Finished(copying[q].prev.run)
          /\ At(q) = "files" => Finished(copying[q].run)
          /\ Upserting(q) => OfTheirWeek(copying[q].files)
      BY DEF TrendsInv, KnownInv
    <3>2. At(q)' = At(q) /\ (Upserting(q)' <=> Upserting(q))
      BY <1>k DEF At, Upserting
    <3>3. At(q) # "idle" => Finished(copying[q].prev.run)'
      BY <1>k, <1>c, <3>1, RunsStay DEF Finished
    <3>4. At(q) = "files" => Finished(copying[q].run)'
      BY <1>k, <1>c, <3>1, RunsStay DEF Finished
    <3>5. At(q) # "idle" => OfTheirWeek(copying[q].prev.files)'
      BY <1>k, <1>c, <3>1, FilesStay DEF OfTheirWeek
    <3>6. Upserting(q) => OfTheirWeek(copying[q].files)'
      BY <1>k, <1>c, <3>1, FilesStay DEF OfTheirWeek
    <3> QED BY <3>2, <3>3, <3>4, <3>5, <3>6
  <2> QED BY <2>1, <2>2, <2>3, <2>4, <2>5 DEF KnownInv
<1>2. RowsInv'
  <2>1. ASSUME NEW k \in Key
        PROVE  /\ Started(snapshots[k])'
               /\ (snapshots[k] # NoPipeRun =>
                     runs[snapshots[k]].week = k[1] /\ k[2] \in Segments(snapshots[k]))'
    <3>1. /\ snapshots[k] \in RunNo /\ Started(snapshots[k]) /\ snapshots'[k] = snapshots[k]
          /\ snapshots[k] # NoPipeRun =>
                runs[snapshots[k]].week = k[1] /\ k[2] \in Segments(snapshots[k])
      BY <1>k DEF TrendsInv, RowsInv, RowsAreOfTheirWeek, TrendsTypes
    <3>2. Started(snapshots[k])' /\ Segments(snapshots[k])' = Segments(snapshots[k])
      BY <1>k, <3>1, RunsStay DEF Started, Segments
    <3>3. snapshots[k] # NoPipeRun => runs'[snapshots[k]].week = k[1]
      BY <1>k, <3>1, RunsStay DEF Started
    <3> QED BY <3>1, <3>2, <3>3
  <2> QED BY <2>1 DEF RowsInv, RowsAreOfTheirWeek
<1>3. CopiesInv'
  <2> SUFFICES ASSUME NEW q \in Reloader, Upserting(q)
               PROVE  (/\ copying[q].pending \subseteq InFiles(copying[q].files)
                       /\ copying[q].alone => AloneInv(q))'
    BY <1>k DEF CopiesInv, Upserting, At
  <2>1. /\ copying[q].pending \subseteq InFiles(copying[q].files)
        /\ copying[q].alone => AloneInv(q)
        /\ copying[q].files \in FileSet /\ OfTheirWeek(copying[q].files)
    BY <1>c DEF TrendsInv, CopiesInv, KnownInv
  <2>2. InFiles(copying[q].files)' = InFiles(copying[q].files)
    <3>1. \A files \in FileSet : OfTheirWeek(files) => InFiles(files)' = InFiles(files)
      BY <1>k, FilesStay
    <3> QED BY <1>k, <2>1, <3>1 DEF InFiles
  <2>3. OfWeek(q)' = OfWeek(q)
    BY <1>k, <2>2 DEF OfWeek
  <2> QED BY <1>k, <2>1, <2>2, <2>3 DEF AloneInv, Upserting, At
<1>4. TableHasTheFiles'
  <2>1. InFiles(copied)' = InFiles(copied)
    <3>1. \A files \in FileSet : OfTheirWeek(files) => InFiles(files)' = InFiles(files)
      BY <1>k, FilesStay
    <3> QED BY <1>k, <1>t, <3>1 DEF InFiles, TrendsInv, KnownInv
  <2> QED BY <1>k, <2>1 DEF TrendsInv, TableHasTheFiles
<1>5. AskInv'
  <2> SUFFICES ASSUME ask # NotAsked PROVE AskInv'
    BY <1>k DEF AskInv
  <2>1. ask.trust \in RunNo /\ Started(ask.trust)
    BY DEF TrendsTypes, AskRec, TrendsInv, AskInv
  <2>2. Started(ask.trust)' /\ (TrendTrust(ask.trust)' <=> TrendTrust(ask.trust))
    BY <1>k, <2>1, RunsStay DEF Started, TrendTrust, Rows
  <2> QED BY <1>k, <2>2 DEF TrendsInv, AskInv
<1> QED BY <1>1, <1>2, <1>3, <1>4, <1>5 DEF TrendsInv

\* A step of a reload leaves the runs, and the files of the market.
LEMMA ReloadLeavesRuns ==
    ASSUME TrendsTypes, NEW q \in Reloader, ReloadStep(q)
    PROVE  PipelineOnly /\ RunsKept
BY SameRuns DEF ReloadStep, BeginReload, LoadRun, LoadFiles, BeginCopy, SelectRows, Flush,
     CommitCopy, Fail, PipelineOnly

LEMMA SameFiles ==
    ASSUME UNCHANGED runs
    PROVE  /\ \A files : (OfTheirWeek(files)' <=> OfTheirWeek(files)) /\ InFiles(files)' = InFiles(files)
           /\ \A r : /\ Finished(r)' <=> Finished(r)
                     /\ Started(r)' <=> Started(r)
                     /\ Segments(r)' = Segments(r)
                     /\ TrendTrust(r)' <=> TrendTrust(r)
BY DEF OfTheirWeek, StageOf, InFiles, Segments, Finished, Started, TrendTrust, Rows

LEMMA ReloadKnown ==
    ASSUME TrendsTypes, TrendsInv, NEW q \in Reloader, ReloadStep(q) PROVE KnownInv'
<1>u. UNCHANGED <<week, runs, file, latestRun>>
  BY ReloadLeavesRuns DEF PipelineOnly
<1> DEFINE Fine(c) ==
             /\ c.at # "idle" => OfTheirWeek(c.prev.files) /\ Finished(c.prev.run)
             /\ c.at = "files" => Finished(c.run)
             /\ c.at \in {"select", "flush"} => OfTheirWeek(c.files)
<1>f. \A o \in Reloader : Fine(copying[o])
  BY DEF TrendsInv, KnownInv, At, Upserting
<1>k. /\ OfTheirWeek(file) /\ OfTheirWeek(store.files) /\ OfTheirWeek(copied)
      /\ Finished(latestRun) /\ Finished(store.run)
  BY DEF TrendsInv, KnownInv
<1>0. ASSUME \A o \in Reloader : Fine(copying'[o]),
             OfTheirWeek(store'.files), Finished(store'.run), OfTheirWeek(copied')
      PROVE  KnownInv'
  <2>1. /\ \A o \in Reloader :
             /\ copying'[o].at # "idle" => OfTheirWeek(copying[o].prev.files)' /\ Finished(copying[o].prev.run)'
             /\ copying'[o].at = "files" => Finished(copying[o].run)'
             /\ copying'[o].at \in {"select", "flush"} => OfTheirWeek(copying[o].files)'
    BY <1>0, <1>u DEF OfTheirWeek, Finished, StageOf
  <2>2. OfTheirWeek(store.files)' /\ Finished(store.run)' /\ OfTheirWeek(copied)'
        /\ OfTheirWeek(file)' /\ Finished(latestRun)'
    BY <1>0, <1>u, <1>k DEF OfTheirWeek, Finished, StageOf
  <2> QED BY <2>1, <2>2 DEF KnownInv, At, Upserting
<1> HIDE DEF Fine
<1>r. Fine(Resting)
  BY DEF Fine, Resting
<1>1. CASE BeginReload(q)
  <2>1. Fine([at |-> "load", prev |-> store])
    BY <1>k DEF Fine
  <2>2. \A o \in Reloader : Fine(copying'[o])
    BY <1>1, <1>f, <2>1 DEF BeginReload, TrendsTypes
  <2> QED BY <1>0, <1>1, <1>k, <2>2 DEF BeginReload
<1>2. CASE LoadRun(q)
  <2>1. Fine([at |-> "files", prev |-> copying[q].prev, run |-> latestRun])
    BY <1>2, <1>f, <1>k DEF Fine, LoadRun, At
  <2>2. \A o \in Reloader : Fine(copying'[o])
    BY <1>2, <1>f, <2>1 DEF LoadRun, TrendsTypes
  <2> QED BY <1>0, <1>2, <1>k, <2>2 DEF LoadRun
<1>3. CASE LoadFiles(q)
  <2>1. Fine([at |-> "loaded", prev |-> copying[q].prev]) /\ Finished(copying[q].run)
    BY <1>3, <1>f DEF Fine, LoadFiles, At
  <2>2. \A o \in Reloader : Fine(copying'[o])
    BY <1>3, <1>f, <2>1 DEF LoadFiles, TrendsTypes
  <2>3. store'.files = file /\ store'.run = copying[q].run
    BY <1>3 DEF LoadFiles
  <2> QED BY <1>0, <1>3, <1>k, <2>1, <2>2, <2>3 DEF LoadFiles
<1>4. CASE BeginCopy(q)
  <2>1. Fine(Copying(q))
    <3>1. Fine(copying[q]) /\ copying[q].at = "loaded"
      BY <1>4, <1>f DEF BeginCopy, At
    <3> QED BY <1>k, <3>1 DEF Fine, Copying
  <2>2. ASSUME NEW o \in Reloader, Upserting(o) PROVE Fine(Accompanied(o))
    <3>1. copying[o] \in CopyRec /\ Fine(copying[o])
      BY <1>f, <2>2, ByDoing
    <3>2. /\ Accompanied(o).at = copying[o].at /\ Accompanied(o).prev = copying[o].prev
          /\ Accompanied(o).files = copying[o].files
      BY <3>1 DEF Accompanied, CopyRec
    <3> QED BY <3>1, <3>2, Shapes DEF Fine
  <2>3. \A o \in Reloader : Fine(copying'[o])
    BY <1>4, <1>f, <2>1, <2>2, BeganFacts
  <2> QED BY <1>0, <1>4, <1>k, <2>3 DEF BeginCopy
<1>5. CASE SelectRows(q)
  <2>1. Fine(Selected(q))
    <3>1. Fine(copying[q]) /\ copying[q].at = "select"
      BY <1>5, <1>f DEF SelectRows, At
    <3>2. /\ Selected(q).at = "flush" /\ Selected(q).prev = copying[q].prev
          /\ Selected(q).files = copying[q].files
      BY <1>5, SelectedFacts
    <3> QED BY <3>1, <3>2 DEF Fine
  <2>2. copying' = [copying EXCEPT ![q] = Selected(q)]
    BY <1>5, SelectedFacts
  <2>3. \A o \in Reloader : Fine(copying'[o])
    BY <1>f, <2>1, <2>2 DEF TrendsTypes
  <2> QED BY <1>0, <1>5, <1>k, <2>3 DEF SelectRows
<1>6. CASE Flush(q)
  <2>1. Fine(Flushed(q))
    <3>1. Fine(copying[q]) /\ copying[q].at = "flush"
      BY <1>6, <1>f DEF Flush, At
    <3>2. /\ Flushed(q).at = "select" /\ Flushed(q).prev = copying[q].prev
          /\ Flushed(q).files = copying[q].files
      BY <1>6, FlushedFacts
    <3> QED BY <3>1, <3>2 DEF Fine
  <2>2. copying' = [copying EXCEPT ![q] = Flushed(q)]
    BY <1>6, FlushedFacts
  <2>3. \A o \in Reloader : Fine(copying'[o])
    BY <1>f, <2>1, <2>2 DEF TrendsTypes
  <2> QED BY <1>0, <1>6, <1>k, <2>3 DEF Flush
<1>7. CASE CommitCopy(q)
  <2>1. \A o \in Reloader : Fine(copying'[o])
    BY <1>7, <1>f, <1>r DEF CommitCopy, TrendsTypes
  <2>2. OfTheirWeek(copied')
    BY <1>7, <1>f, NoFilesHasNone DEF CommitCopy, Fine, At
  <2> QED BY <1>0, <1>7, <1>k, <2>1, <2>2 DEF CommitCopy
<1>8. CASE Fail(q)
  <2>1. \A o \in Reloader : Fine(copying'[o])
    BY <1>8, <1>f, <1>r DEF Fail, TrendsTypes
  <2>2. OfTheirWeek(store'.files) /\ Finished(store'.run)
    BY <1>8, <1>f DEF Fail, Fine, At
  <2> QED BY <1>0, <1>8, <1>k, <2>1, <2>2 DEF Fail
<1> QED BY <1>1, <1>2, <1>3, <1>4, <1>5, <1>6, <1>7, <1>8 DEF ReloadStep

\* What a commit leaves in the table.
LEMMA CommitRows ==
    ASSUME TrendsTypes, TrendsInv, NEW q \in Reloader, CommitCopy(q)
    PROVE  RowsInv' /\ TableHasTheFiles'
<1> DEFINE files == copying[q].files
           pending == copying[q].pending
<1>u. UNCHANGED runs
  BY DEF CommitCopy, PipelineOnly
<1>1. /\ copying[q] \in CopyRec /\ files \in FileSet /\ pending \in SUBSET Key
      /\ copying[q].week \in Nat \ {0} /\ copying[q].week \notin Week /\ Upserting(q)
      /\ copying[q].at = "select"
  BY ByDoing, Shapes DEF CommitCopy, Upserting, At
<1>2. OfTheirWeek(files) /\ pending \subseteq InFiles(files)
  BY <1>1 DEF TrendsInv, KnownInv, CopiesInv
<1>3. \A k \in Key : snapshots'[k] = IF k \in pending THEN files[k[1]] ELSE snapshots[k]
  BY DEF CommitCopy
<1>4. ASSUME NEW k \in Key
      PROVE  /\ Started(snapshots'[k])
             /\ snapshots'[k] # NoPipeRun =>
                  runs[snapshots'[k]].week = k[1] /\ k[2] \in Segments(snapshots'[k])
  <2>1. CASE k \in pending
    <3>1. k \in InFiles(files) /\ k[1] \in Week
      BY <1>2, <2>1, KeyWeek
    <3> QED BY <1>2, <1>3, <2>1, <3>1 DEF InFiles, OfTheirWeek, Started
  <2>2. CASE k \notin pending
    BY <1>3, <2>2 DEF TrendsInv, RowsInv, RowsAreOfTheirWeek
  <2> QED BY <2>1, <2>2
<1>5. RowsInv'
  BY <1>4, <1>u DEF RowsInv, RowsAreOfTheirWeek, Started, StageOf, Segments
<1>6. TableHasTheFiles'
  <2>1. CASE ~copying[q].alone
    <3>1. copied' = NoFiles
      BY <2>1 DEF CommitCopy
    <3>2. InFiles(copied)' = {}
      BY <1>u, <3>1, NoFilesHasNone DEF InFiles, Segments
    <3> QED BY <3>2 DEF TableHasTheFiles
  <2>2. CASE copying[q].alone
    <3>1. copied' = files
      BY <2>2 DEF CommitCopy
    <3>2. InFiles(copied)' = InFiles(files)
      BY <1>u, <3>1 DEF InFiles, Segments
    <3>3. AloneInv(q)
      BY <1>1, <2>2 DEF TrendsInv, CopiesInv
    <3>4. \A k \in Key : k[1] < copying[q].week
      BY <1>1, KeyWeek, TrendsAssumption DEF Week
    <3>5. \A k \in InFiles(files) : k \in pending \/ snapshots[k] = files[k[1]]
      BY <3>3, <3>4, InFilesKeys DEF AloneInv
    <3>6. \A k \in InFiles(files) : snapshots'[k] = files[k[1]]
      BY <1>3, <3>5, InFilesKeys
    <3> QED BY <3>1, <3>2, <3>6 DEF TableHasTheFiles
  <2> QED BY <2>1, <2>2
<1> QED BY <1>5, <1>6

LEMMA ReloadRows ==
    ASSUME TrendsTypes, TrendsInv, NEW q \in Reloader, ReloadStep(q)
    PROVE  RowsInv' /\ TableHasTheFiles'
<1>1. CASE CommitCopy(q)
  BY <1>1, CommitRows
<1>2. CASE ~CommitCopy(q)
  <2>1. UNCHANGED <<runs, snapshots, copied>>
    BY <1>2 DEF ReloadStep, BeginReload, LoadRun, LoadFiles, BeginCopy, SelectRows, Flush, Fail,
         PipelineOnly
  <2>2. InFiles(copied)' = InFiles(copied)
    BY <2>1 DEF InFiles, Segments
  <2>3. TableHasTheFiles'
    BY <2>1, <2>2 DEF TrendsInv, TableHasTheFiles
  <2>4. RowsInv'
    BY <2>1 DEF TrendsInv, RowsInv, RowsAreOfTheirWeek, Started, StageOf, Segments
  <2> QED BY <2>3, <2>4
<1> QED BY <1>1, <1>2

LEMMA ReloadAsk ==
    ASSUME TrendsTypes, TrendsInv, NEW q \in Reloader, ReloadStep(q) PROVE AskInv'
<1>u. UNCHANGED runs
  BY ReloadLeavesRuns DEF PipelineOnly
<1>1. (UNCHANGED <<ask, store>>) \/ ask' = Moves(ask)
  BY DEF ReloadStep, BeginReload, LoadRun, LoadFiles, BeginCopy, SelectRows, Flush, CommitCopy, Fail
<1>2. CASE UNCHANGED <<ask, store>>
  BY <1>u, <1>2 DEF TrendsInv, AskInv, Started, StageOf, TrendTrust, Rows
<1>3. CASE ask' = Moves(ask)
  <2>1. CASE ask.at \in {"rows", "label"}
    <3>1. /\ ask # NotAsked /\ ask'.at = ask.at /\ ask'.moved /\ ask'.trust = ask.trust
          /\ ask'.points = ask.points
      BY <1>3, <2>1, MovesFacts DEF NotAsked
    <3>2. /\ Started(ask.trust) /\ TrendTrust(ask.trust)
          /\ \A p, o \in ask.points : p.week = o.week => p = o
      BY <2>1, <3>1 DEF TrendsInv, AskInv
    <3>3. Started(ask.trust)' /\ TrendTrust(ask.trust)'
      BY <1>u, <3>1, <3>2 DEF Started, StageOf, TrendTrust, Rows
    <3> QED BY <2>1, <3>1, <3>2, <3>3 DEF AskInv
  <2>2. CASE ask.at \notin {"rows", "label"}
    <3>1. ask' = ask
      BY <1>3, <2>2, MovesFacts
    <3> QED BY <1>u, <2>2, <3>1 DEF TrendsInv, AskInv, Started, StageOf, TrendTrust, Rows
  <2> QED BY <2>1, <2>2
<1> QED BY <1>1, <1>2, <1>3

\* A step that changes no table row and only q's record, and leaves q's copy as far as it is.
LEMMA OthersCopy ==
    ASSUME TrendsTypes, TrendsInv, NEW q \in Reloader, UNCHANGED runs,
           \A o \in Reloader : o # q => copying'[o] = copying[o],
           NEW o \in Reloader, o # q, Upserting(o),
           UNCHANGED snapshots \/ Upserting(q), Upserting(q)' => Upserting(q)
    PROVE  (/\ copying[o].pending \subseteq InFiles(copying[o].files)
            /\ copying[o].alone => AloneInv(o))'
<1>1. /\ copying[o].pending \subseteq InFiles(copying[o].files)
      /\ copying[o].alone => AloneInv(o)
      /\ copying'[o] = copying[o]
  BY DEF TrendsInv, CopiesInv
<1>2. InFiles(copying[o].files)' = InFiles(copying[o].files) /\ OfWeek(o)' = OfWeek(o)
  BY <1>1 DEF OfWeek, InFiles, Segments
<1>3. copying[o].alone => ~Upserting(q) /\ UNCHANGED snapshots
  BY <1>1 DEF AloneInv
<1>4. \A p \in Reloader : p # o /\ copying[o].alone => ~Upserting(p)'
  BY <1>1, <1>3 DEF AloneInv, Upserting, At
<1> QED BY <1>1, <1>2, <1>3, <1>4 DEF AloneInv

LEMMA ReloadCopies ==
    ASSUME TrendsTypes, TrendsInv, NEW q \in Reloader, ReloadStep(q) PROVE CopiesInv'
<1>u. UNCHANGED runs
  BY ReloadLeavesRuns DEF PipelineOnly
<1>i. \A files : InFiles(files)' = InFiles(files)
  BY <1>u, SameFiles
<1> DEFINE Fine(o) == /\ copying[o].pending \subseteq InFiles(copying[o].files)
                      /\ copying[o].alone => AloneInv(o)
<1>f. \A o \in Reloader : Upserting(o) => Fine(o)
  BY DEF TrendsInv, CopiesInv
<1>0. ASSUME \A o \in Reloader : Upserting(o)' => Fine(o)' PROVE CopiesInv'
  BY <1>0 DEF CopiesInv
<1>1. CASE BeginReload(q) \/ LoadRun(q) \/ LoadFiles(q) \/ CommitCopy(q) \/ Fail(q)
  <2>1. /\ \A o \in Reloader : o # q => copying'[o] = copying[o]
        /\ ~Upserting(q)'
        /\ UNCHANGED snapshots \/ Upserting(q)
    BY <1>1 DEF BeginReload, LoadRun, LoadFiles, CommitCopy, Fail, TrendsTypes, Upserting, At, Resting
  <2>2. ASSUME NEW o \in Reloader, Upserting(o)' PROVE Fine(o)'
    <3>1. o # q /\ Upserting(o)
      BY <2>1, <2>2 DEF Upserting, At
    <3> QED BY <1>u, <2>1, <3>1, OthersCopy
  <2> QED BY <1>0, <2>2
<1>2. CASE BeginCopy(q)
  <2>1. /\ UNCHANGED snapshots /\ ~Upserting(q)
        /\ copying'[q] = Copying(q)
        /\ \A o \in Reloader : o # q =>
              copying'[o] = IF Upserting(o) THEN Accompanied(o) ELSE copying[o]
    BY <1>2, BeganFacts DEF BeginCopy, Upserting
  <2>2. ASSUME NEW o \in Reloader, o # q, Upserting(o)' PROVE Fine(o)'
    <3>1. Upserting(o)
      BY <2>1, <2>2 DEF Upserting, At
    <3>2. copying[o] \in CopyRec /\ copying'[o] = Accompanied(o)
      BY <2>1, <2>2, <3>1, ByDoing
    <3>3. /\ ~copying'[o].alone /\ copying'[o].pending = copying[o].pending
          /\ copying'[o].files = copying[o].files
      BY <3>2 DEF Accompanied, CopyRec
    <3> QED BY <1>f, <1>i, <3>1, <3>3
  <2>3. Fine(q)'
    <3>1. /\ copying'[q].pending = {} /\ copying'[q].week = 1 /\ copying'[q].at = "select"
          /\ copying'[q].alone = ({o \in Reloader : Upserting(o)} = {})
      BY <2>1 DEF Copying
    <3>2. \A k \in Key : ~(k[1] < 1)
      BY KeyWeek, TrendsAssumption DEF Week
    <3>3. copying'[q].alone => \A o \in Reloader : o # q => ~Upserting(o)'
      BY <2>1, <3>1 DEF Upserting, At
    <3>4. InFiles(copying[q].files)' \subseteq Key
      BY DEF InFiles
    <3> QED BY <3>1, <3>2, <3>3, <3>4 DEF AloneInv
  <2> QED BY <1>0, <2>2, <2>3
<1>3. CASE SelectRows(q)
  <2> DEFINE new == Selected(q)
  <2>1. /\ copying[q] \in CopyRec /\ new \in CopyRec /\ copying' = [copying EXCEPT ![q] = new]
        /\ new.at = "flush" /\ new.seen = [k \in OfWeek(q) |-> snapshots[k]]
        /\ new.files = copying[q].files /\ new.week = copying[q].week
        /\ new.pending = copying[q].pending /\ new.alone = copying[q].alone
    BY <1>3, SelectedFacts
  <2>2. /\ UNCHANGED snapshots /\ Upserting(q) /\ copying[q].week \in Week
    BY <1>3 DEF SelectRows, Upserting
  <2> HIDE DEF new
  <2>3. copying'[q] = new /\ \A o \in Reloader : o # q => copying'[o] = copying[o]
    BY <2>1 DEF TrendsTypes
  <2>4. ASSUME NEW o \in Reloader, o # q, Upserting(o)' PROVE Fine(o)'
    <3>1. Upserting(o)
      BY <2>3, <2>4 DEF Upserting, At
    <3> QED BY <1>u, <2>2, <2>3, <2>4, <3>1, OthersCopy
  <2>5. Fine(q)'
    <3>1. Fine(q)
      BY <1>f, <2>2
    <3>2. InFiles(copying[q].files)' = InFiles(copying[q].files) /\ OfWeek(q)' = OfWeek(q)
      BY <1>i, <2>1, <2>3 DEF OfWeek
    <3>3. \A o \in Reloader : o # q => (Upserting(o)' <=> Upserting(o))
      BY <2>3 DEF Upserting, At
    <3>4. copying'[q].alone => AloneInv(q)
      BY <2>1, <2>3, <3>1
    <3> QED BY <2>1, <2>2, <2>3, <3>1, <3>2, <3>3, <3>4 DEF AloneInv
  <2> QED BY <1>0, <2>4, <2>5
<1>4. CASE Flush(q)
  <2> DEFINE new == Flushed(q)
  <2>1. /\ copying[q] \in CopyRec /\ new \in CopyRec /\ copying' = [copying EXCEPT ![q] = new]
        /\ new.at = "select"
        /\ new.files = copying[q].files /\ new.week = copying[q].week + 1
        /\ new.pending = copying[q].pending \cup Changed(q) /\ new.alone = copying[q].alone
    BY <1>4, FlushedFacts
  <2>2. UNCHANGED snapshots /\ Upserting(q) /\ copying[q].at = "flush"
    BY <1>4 DEF Flush, Upserting, At
  <2> HIDE DEF new
  <2>3. copying'[q] = new /\ \A o \in Reloader : o # q => copying'[o] = copying[o]
    BY <2>1 DEF TrendsTypes
  <2>4. ASSUME NEW o \in Reloader, o # q, Upserting(o)' PROVE Fine(o)'
    <3>1. Upserting(o)
      BY <2>3, <2>4 DEF Upserting, At
    <3> QED BY <1>u, <2>2, <2>3, <2>4, <3>1, OthersCopy
  <2>5. Fine(q)'
    <3>1. Fine(q) /\ Changed(q) \subseteq InFiles(copying[q].files)
      BY <1>f, <2>2 DEF Changed, OfWeek
    <3>2. InFiles(copying[q].files)' = InFiles(copying[q].files)
      BY <1>i, <2>1, <2>3
    <3>3. copying'[q].pending \subseteq InFiles(copying[q].files)'
      BY <2>1, <2>3, <3>1, <3>2
    <3>4. ASSUME copying'[q].alone PROVE AloneInv(q)'
      <4>1. AloneInv(q)
        BY <2>1, <2>3, <3>1, <3>4
      <4>2. \A o \in Reloader : o # q => ~Upserting(o)'
        BY <2>3, <4>1 DEF AloneInv, Upserting, At
      <4>3. ASSUME NEW k \in InFiles(copying[q].files), k[1] < copying[q].week + 1
            PROVE  k \in new.pending \/ snapshots[k] = copying[q].files[k[1]]
        <5>0. k[1] \in Nat /\ copying[q].week \in Nat
          BY <2>1, KeyWeek, Shapes DEF InFiles, Week
        <5>1. CASE k[1] < copying[q].week
          BY <2>1, <4>1, <5>1 DEF AloneInv
        <5>2. CASE k[1] = copying[q].week
          <6>1. k \in OfWeek(q)
            BY <5>2 DEF OfWeek
          <6>2. copying[q].seen[k] = snapshots[k]
            BY <2>2, <4>1, <6>1 DEF AloneInv
          <6> QED BY <2>1, <6>1, <6>2 DEF Changed
        <5> QED BY <4>3, <5>0, <5>1, <5>2
      <4> QED BY <2>1, <2>2, <2>3, <3>2, <4>2, <4>3 DEF AloneInv
    <3> QED BY <3>3, <3>4
  <2> QED BY <1>0, <2>4, <2>5
<1> QED BY <1>1, <1>2, <1>3, <1>4 DEF ReloadStep

LEMMA AskTrends == ASSUME TrendsTypes, TrendsInv, AskStep PROVE TrendsInv'
<1>1. UNCHANGED <<week, runs, file, latestRun, store, copying, snapshots, copied>>
  BY AskFacts DEF ApiOnly, PipelineOnly
<1>2. KnownInv' /\ RowsInv' /\ CopiesInv' /\ TableHasTheFiles'
  <2>1. KnownInv'
    BY <1>1 DEF TrendsInv, KnownInv, OfTheirWeek, StageOf, Finished, At, Upserting
  <2>2. RowsInv'
    BY <1>1 DEF TrendsInv, RowsInv, RowsAreOfTheirWeek, Started, StageOf, Segments
  <2>3. CopiesInv'
    BY <1>1 DEF TrendsInv, CopiesInv, AloneInv, OfWeek, InFiles, Segments, Upserting, At
  <2>4. TableHasTheFiles'
    BY <1>1 DEF TrendsInv, TableHasTheFiles, InFiles, Segments
  <2> QED BY <2>1, <2>2, <2>3, <2>4
<1>3. AskInv'
  <2>0. \A r : (Started(r)' <=> Started(r)) /\ (TrendTrust(r)' <=> TrendTrust(r))
    BY <1>1, SameFiles
  <2>1. Started(store.run)
    <3>1. Finished(store.run)
      BY DEF TrendsInv, KnownInv
    <3> QED BY <3>1 DEF Finished, Started
  <2>2. ask.at \in {"rows", "label"} => ask # NotAsked
    BY DEF NotAsked
  <2> DEFINE r == ask'.trust
  <2>3. Started(r) /\ (ask'.at \in {"rows", "label"} \/ ask'.points # {} => TrendTrust(r))
    BY <2>1, <2>2, AskFacts DEF TrendsInv, AskInv
  <2>4. Started(ask.trust)' /\ (ask'.at \in {"rows", "label"} \/ ask'.points # {} => TrendTrust(ask.trust)')
    BY <1>1, <2>3 DEF Started, StageOf, TrendTrust, Rows
  <2>5. /\ ask'.at \in {"rows", "label"} => ask'.moved \/ store'.run = ask'.trust
        /\ ask'.at = "answered" => ask'.moved \/ ask'.label = ask'.trust
        /\ \A p, o \in ask'.points : p.week = o.week => p = o
    BY <1>1, <2>2, AskFacts DEF TrendsInv, AskInv
  <2> QED BY <2>4, <2>5 DEF AskInv
<1> QED BY <1>2, <1>3 DEF TrendsInv

\* A run that passes the trend gate has earned its trends.
LEMMA TrustIsEarned == ASSUME TrendsTypes, NEW r \in RunNo, Started(r), TrendTrust(r) PROVE Earned(r)
<1> DEFINE rows == Rows(r)
           payload == runs[r].given.payload
<1>1. r \in PipeRun /\ runs[r].given \in Input
  <2>1. r \in PipeRun /\ StageOf(r) # "none"
    BY DEF TrendTrust, Started, RunNo, PipeRun, NoPipeRun
  <2> QED BY <2>1, StageFacts DEF RunRec
<1>2. \A row \in rows : row = <<row[1], runs[r].given.rows[row[1]]>> /\ row[1] \in Nat
  <2>1. rows = {<<n, runs[r].given.rows[n]>> : n \in Kept(runs[r].given)}
    BY <1>1 DEF Rows, Features
  <2>2. runs[r].given.rows \in Seq(Row)
    BY <1>1, TrendsAssumption
  <2>3. Kept(runs[r].given) \subseteq Nat
    BY <2>2 DEF Kept
  <2> QED BY <2>1, <2>3
<1>3. /\ Repeated(rows) = {} /\ SegmentsPassed(rows)
      /\ Cardinality(Periods(rows)) >= MinPeriods
      /\ payload # NoPayload /\ payload.dates = "passed"
      /\ SourceSupported(payload)
  BY DEF TrendTrust, TrendReady, DatesPassed
<1>4. ASSUME NEW row \in rows, NEW other \in rows, row[2].id = other[2].id PROVE row = other
  <2>1. ~(other[1] < row[1]) /\ ~(row[1] < other[1])
    BY <1>3, <1>4 DEF Repeated
  <2>2. row[1] = other[1]
    BY <1>2, <2>1
  <2> QED BY <1>2, <2>2
<1>5. \A row \in rows :
         /\ row[2].seg # Unknown
         /\ Cardinality({o \in rows : o[2].seg = row[2].seg}) >= MinSegmentRows
  BY <1>3 DEF SegmentsPassed
<1>6. payload.source.status = "supported"
  BY <1>3 DEF SourceSupported
<1> QED BY <1>3, <1>4, <1>5, <1>6 DEF Earned, Periods

LEMMA ReportFollowsTrust == ASSUME TrendsTypes, TrendsInv PROVE ReportAgrees
<1> SUFFICES ASSUME NEW r \in PipeRun, store.run = r,
                    \A o \in PipeRun : o > r => StageOf(o) \in {"none", "started", "snapshot"}
             PROVE  PublicTrendsAllowed <=> TrendTrust(r)
  BY DEF ReportAgrees
<1>1. r # NoPipeRun /\ r \in Evidence
  BY DEF PipeRun, NoPipeRun, TrendsInv, KnownInv, Finished, Evidence
<1>2. \A o \in Evidence : o \in PipeRun /\ o <= r
  BY DEF Evidence, PipeRun
<1>3. IsPublicTrendReady(r) <=> TrendTrust(r)
  BY <1>1 DEF IsPublicTrendReady, TrendTrust, TrendReady
<1>4. \A s \in Evidence : (\A o \in Evidence : o <= s) => s = r
  BY <1>1, <1>2 DEF PipeRun
<1> QED BY <1>1, <1>2, <1>3, <1>4 DEF PublicTrendsAllowed

\* For any number of weeks, runs, reloads that overlap and requests: the table has the
\* files of the last reload that was alone, each row is from a run of its week, a trend is
\* told only under a run that earned it, and the report allows what the API would show.
THEOREM TrendsStaySound == TrendsSpec => []TrendsAreSound
<1>1. TrendsInit => TrendsTypes /\ TrendsInv
  <2> SUFFICES ASSUME TrendsInit PROVE TrendsTypes /\ TrendsInv
    OBVIOUS
  <2>0. NoPipeRun \in RunNo /\ 1 \in Week
    BY TrendsAssumption DEF NoPipeRun, RunNo, Week
  <2>1. TrendsTypes
    BY <2>0, NoFilesIsFiles DEF TrendsInit, TrendsTypes, StoreRec
  <2>2. OfTheirWeek(NoFiles) /\ InFiles(NoFiles) = {}
    BY <2>1, NoFilesHasNone
  <2>3. \A q \in Reloader : At(q) = "idle" /\ ~Upserting(q)
    BY DEF TrendsInit, At, Upserting, Resting
  <2> QED BY <2>1, <2>2, <2>3
          DEF TrendsInit, TrendsInv, KnownInv, RowsInv, RowsAreOfTheirWeek, CopiesInv,
              TableHasTheFiles, AskInv, Started, Finished
<1>2. ASSUME TrendsTypes, TrendsInv, [TrendsNext]_trendVars PROVE TrendsTypes' /\ TrendsInv'
  <2>1. TrendsTypes'
    BY <1>2, TrendsTypesStep
  <2>2. CASE UNCHANGED trendVars \/ NewWeek
    <3>1. UNCHANGED <<runs, file, latestRun, store, copying, snapshots, ask, copied>>
      BY <2>2 DEF trendVars, NewWeek
    <3>2. KnownInv' /\ RowsInv'
      BY <1>2, <3>1 DEF TrendsInv, KnownInv, OfTheirWeek, StageOf, Finished, At, Upserting,
           RowsInv, RowsAreOfTheirWeek, Started, Segments
    <3>3. CopiesInv' /\ TableHasTheFiles'
      BY <1>2, <3>1 DEF TrendsInv, CopiesInv, AloneInv, OfWeek, InFiles, Segments, Upserting, At,
           TableHasTheFiles
    <3>4. AskInv'
      BY <1>2, <3>1 DEF TrendsInv, AskInv, Started, StageOf, TrendTrust, Rows
    <3> QED BY <2>1, <3>2, <3>3, <3>4 DEF TrendsInv
  <2>3. ASSUME NEW r \in PipeRun,
               StartRun(r) \/ WriteSnapshot(r) \/ WriteMeta(r) \/ PublishLatest(r)
        PROVE  TrendsInv'
    BY <1>2, <2>3, PipelineTrends
  <2>4. ASSUME NEW q \in Reloader, ReloadStep(q) PROVE TrendsInv'
    BY <1>2, <2>4, ReloadKnown, ReloadRows, ReloadCopies, ReloadAsk DEF TrendsInv
  <2>5. CASE AskStep
    BY <1>2, <2>1, <2>5, AskTrends
  <2> QED BY <1>2, <2>1, <2>2, <2>3, <2>4, <2>5 DEF TrendsNext, AskStep, ReloadStep
<1>3. ASSUME TrendsTypes, TrendsInv PROVE TrendsAreSound
  <2>1. TrendsAreEarned
    <3> SUFFICES ASSUME ask.at = "answered" PROVE TrendsAreEarned
      BY DEF TrendsAreEarned
    <3>1. ask # NotAsked /\ ask \in AskRec
      BY <1>3 DEF NotAsked, TrendsTypes
    <3>2. ask.points # {} => Earned(ask.trust)
      BY <1>3, <3>1, TrustIsEarned DEF TrendsInv, AskInv, AskRec
    <3> QED BY <1>3, <3>1, <3>2 DEF TrendsInv, AskInv, TrendsAreEarned
  <2> QED BY <1>3, <2>1, ReportFollowsTrust DEF TrendsAreSound, TrendsInv, RowsInv
<1> QED BY <1>1, <1>2, <1>3, PTL DEF TrendsSpec
=============================================================================
