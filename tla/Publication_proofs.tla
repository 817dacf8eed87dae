------------------------- MODULE Publication_proofs -------------------------
(***************************************************************************)
(* Proofs about Publication, for every set of runs, replicas and paths and *)
(* any number of faults, and about BackfillPublish, for any number of days *)
(* and calls.                                                              *)
(***************************************************************************)
EXTENDS Publication, BackfillPublish, DataRunTx_proofs

-----------------------------------------------------------------------------
(* The clients drive the registry                                          *)

LEMMA StageIsState == Stage \subseteq State
BY DEF Stage, State, StateOrder

LEMMA FaultType == ASSUME PubTypeOK, Fault PROVE faults' \in 0..MaxFaults
BY PublicationAssumption DEF PubTypeOK, Fault

\* A report is a step of the registry or leaves it alone, and moves its client.
LEMMA ReportsStep ==
    ASSUME PubTypeOK, NEW r \in Run, NEW state \in State,
           NEW meta \in Meta \cup {NoMeta}, NEW next \in Label, NEW otherwise \in Label,
           Reports(r, state, meta, next, otherwise)
    PROVE  /\ [Next]_registryVars
           /\ pc' \in [Run -> Label]
           /\ broken' \subseteq Run /\ faults' \in 0..MaxFaults
<1> DEFINE p == [run |-> r, state |-> state, meta |-> meta, error |-> FALSE]
<1>1. p \in Post
  BY PublicationAssumption
<1>2. Upsert(p) \/ UNCHANGED registryVars
  BY DEF Reports
<1>3. Go(r, next) \/ Go(r, otherwise)
  BY DEF Reports
<1>4. /\ UNCHANGED faults \/ Fault
      /\ UNCHANGED broken \/ broken' = broken \cup {r}
  BY DEF Reports
<1>5. pc' \in [Run -> Label]
  BY <1>3 DEF Go, PubTypeOK
<1>6. broken' \subseteq Run /\ faults' \in 0..MaxFaults
  BY <1>4, FaultType DEF PubTypeOK
<1> QED BY <1>1, <1>2, <1>5, <1>6 DEF Next

LEMMA ActivateStep == ASSUME NEW r \in Run, Activate(r) PROVE Next
BY DEF Next

LEMMA NextLabelType == \A s \in Stage : NextLabel[s] \in Label
BY DEF Stage, NextLabel, Label, Ended

-----------------------------------------------------------------------------
(* Types                                                                   *)

LEMMA GoType ==
    ASSUME PubTypeOK, NEW r \in Run, NEW label \in Label, Go(r, label)
    PROVE  pc' \in [Run -> Label]
BY DEF PubTypeOK, Go

\* Only a request that is being executed has a step other than these.
LEMMA RequestByStep ==
    ASSUME PubTypeOK, NEW r \in Run, reload[r].step \notin {"none", "ok", "failed"}
    PROVE  reload[r] \in Request
BY DEF PubTypeOK, Executed, NoRequest

\* The clients.
LEMMA ClientTypes ==
    ASSUME PubTypeOK, NEW r \in Run, ClientNext(r)
    PROVE  PubTypeOK' /\ [Next]_registryVars
<1> DEFINE Clients == /\ backfill' \subseteq Run /\ pc' \in [Run -> Label]
                      /\ prev' \in [Run -> MaybeRun] /\ broken' \subseteq Run
                      /\ latest' \in MaybeRun /\ faults' \in 0..MaxFaults
<1>l. /\ Stage \cup Ended \subseteq Label
      /\ {"process", "previous", "published", "reload", "answer", "rollback", "report"} \subseteq Label
      /\ "collecting" \in Label /\ "processing" \in Label /\ "processed_validated" \in Label
      /\ "failed" \in Label /\ "done" \in Label
      /\ "published" \in State /\ "failed" \in State
  BY DEF Label, Stage, Ended, State, StateOrder
<1>m. MetaOf[r] \in Meta \cup {NoMeta} /\ NoMeta \in Meta \cup {NoMeta}
  BY PublicationAssumption
<1>a. AfterReload(r) \in Label
  BY <1>l DEF AfterReload
<1>1. CASE Start(r)
  BY <1>1, <1>l, GoType DEF Start, ClientOnly, replicaVars, searchVars, registryVars, PubTypeOK, TypeOK
<1>2. CASE StartBackfill(r)
  BY <1>2, <1>l, GoType DEF StartBackfill, ClientOnly, replicaVars, searchVars, registryVars, PubTypeOK, TypeOK
<1>3. CASE Progress(r)
  <2>1. Clients /\ [Next]_registryVars
    BY <1>3, <1>l, <1>m, StageIsState, NextLabelType, ReportsStep DEF Progress, PubTypeOK
  <2>2. TypeOK'
    BY <2>1, TypesStep DEF PubTypeOK
  <2> QED BY <1>3, <2>1, <2>2 DEF Progress, ClientOnly, replicaVars, searchVars, PubTypeOK
<1>4. CASE Process(r)
  BY <1>4, <1>l, GoType DEF Process, MaybeRun, ClientOnly, replicaVars, searchVars, registryVars, PubTypeOK, TypeOK
<1>5. CASE StepFails(r)
  BY <1>5, <1>l, GoType, FaultType DEF StepFails, ClientOnly, replicaVars, searchVars, registryVars, PubTypeOK, TypeOK
<1>6. CASE ReadPrevious(r)
  <2>1. active.run \in MaybeRun
    BY DEF PubTypeOK, TypeOK, Pointer, NoPointer, MaybeRun, None
  <2>2. Clients
    BY <1>6, <2>1, <1>l, GoType, FaultType DEF ReadPrevious, PubTypeOK
  <2> QED BY <1>6, <2>2 DEF ReadPrevious, ClientOnly, replicaVars, searchVars, registryVars, PubTypeOK, TypeOK
<1>7. CASE Publish(r)
  <2>1. Clients /\ [Next]_registryVars
    BY <1>7, <1>l, <1>m, ReportsStep DEF Publish, PubTypeOK
  <2>2. TypeOK'
    BY <2>1, TypesStep DEF PubTypeOK
  <2> QED BY <1>7, <2>1, <2>2 DEF Publish, ClientOnly, replicaVars, searchVars, PubTypeOK
<1>8. CASE CallReload(r)
  <2>1. Clients
    BY <1>8, <1>l, <1>a, GoType, FaultType DEF CallReload, PubTypeOK
  <2>2. reload' \in [Run -> Request \cup Executed \cup {NoRequest}]
    <3>1. ASSUME NEW a \in Replica
          PROVE  [ at |-> a, step |-> "plan", snap |-> served[a],
                   plan |-> NoData, docs |-> None ] \in Request
      BY DEF PubTypeOK, Request, NoData, Data, MaybeRun
    <3> QED BY <1>8, <3>1 DEF CallReload, PubTypeOK
  <2> QED BY <1>8, <2>1, <2>2 DEF CallReload, replicaVars, searchVars, registryVars, PubTypeOK, TypeOK
<1>9. CASE Answer(r)
  <2>1. Clients
    BY <1>9, <1>l, <1>a, GoType DEF Answer, PubTypeOK
  <2> QED BY <1>9, <2>1 DEF Answer, ClientOnly, replicaVars, searchVars, registryVars, PubTypeOK, TypeOK
<1>10. CASE LoseAnswer(r)
  BY <1>10, <1>a, GoType, FaultType DEF LoseAnswer, ClientOnly, replicaVars, searchVars, registryVars, PubTypeOK, TypeOK
<1>11. CASE Rollback(r)
  <2>1. Clients /\ [Next]_registryVars
    BY <1>11, <1>l, GoType, FaultType, ActivateStep DEF Rollback, PubTypeOK, MaybeRun
  <2>2. TypeOK'
    BY <2>1, TypesStep DEF PubTypeOK
  <2> QED BY <1>11, <2>1, <2>2 DEF Rollback, ClientOnly, replicaVars, searchVars, PubTypeOK
<1>12. CASE ReportFailure(r)
  <2>1. Clients /\ [Next]_registryVars
    BY <1>12, <1>l, <1>m, ReportsStep DEF ReportFailure, PubTypeOK
  <2>2. TypeOK'
    BY <2>1, TypesStep DEF PubTypeOK
  <2> QED BY <1>12, <2>1, <2>2 DEF ReportFailure, ClientOnly, replicaVars, searchVars, PubTypeOK
<1>13. CASE Kill(r)
  BY <1>13, <1>l, GoType, FaultType DEF Kill, ClientOnly, replicaVars, searchVars, registryVars, PubTypeOK, TypeOK
<1> QED BY <1>1, <1>2, <1>3, <1>4, <1>5, <1>6, <1>7, <1>8, <1>9, <1>10, <1>11, <1>12, <1>13
        DEF ClientNext

\* What a request under way is left as.
LEMMA StepType ==
    ASSUME PubTypeOK, NEW r \in Run, reload[r] \in Request,
           NEW step \in {"load", "check", "table", "index", "count", "announce"},
           Step(r, step)
    PROVE  reload' \in [Run -> Request \cup Executed \cup {NoRequest}]
<1>1. [reload[r] EXCEPT !.step = step] \in Request
  BY DEF Request
<1> QED BY <1>1 DEF Step, PubTypeOK

LEMMA RestoredTypes ==
    ASSUME PubTypeOK, NEW r \in Run, reload[r] \in Request, Restored(r)
    PROVE  /\ served' \in [Replica -> Data] /\ behind' \in [Replica -> BOOLEAN]
           /\ reload' \in [Run -> Request \cup Executed \cup {NoRequest}]
<1>1. reload[r].at \in Replica /\ reload[r].snap \in Data
  BY DEF Request
<1>2. Failed \in Executed
  BY DEF Failed, Executed, MaybeRun
<1>3. served' \in [Replica -> Data] /\ reload' \in [Run -> Request \cup Executed \cup {NoRequest}]
  BY <1>1, <1>2 DEF Restored, PubTypeOK
<1>4. behind' \in [Replica -> BOOLEAN]
  <2>1. \A a \in Replica : (behind[a] \/ reload[r].snap.run # active.run) \in BOOLEAN
    OBVIOUS
  <2> QED BY <2>1, <1>1 DEF Restored, PubTypeOK
<1> QED BY <1>3, <1>4

LEMMA LoadTypes ==
    ASSUME PubTypeOK, NEW a \in Replica, NEW plan \in Data, Load(a, plan)
    PROVE  served' \in [Replica -> Data] /\ faults' \in 0..MaxFaults
<1>1. Files(plan) \in Data /\ [plan EXCEPT !.run = None] \in Data
  BY DEF Files, Data, MaybeRun, PubTypeOK
<1> QED BY <1>1, FaultType DEF Load, PubTypeOK

LEMMA PointerInRun == ASSUME PubTypeOK, active # NoPointer PROVE active.run \in Run
BY DEF PubTypeOK, TypeOK, Pointer

LEMMA PlanTypes == Configured \in Data /\ (PubTypeOK /\ active # NoPointer => Pointed \in Data)
BY PointerInRun DEF Configured, Pointed, Data, MaybeRun

\* The requests.
LEMMA ReloadTypes ==
    ASSUME PubTypeOK, NEW r \in Run, ReloadNext(r)
    PROVE  PubTypeOK' /\ UNCHANGED registryVars
<1> DEFINE Kept == /\ served' \in [Replica -> Data] /\ behind' \in [Replica -> BOOLEAN]
                   /\ reload' \in [Run -> Request \cup Executed \cup {NoRequest}]
                   /\ faults' \in 0..MaxFaults
           Rest == UNCHANGED <<registryVars, clientVars, latest, sub, subPlan>>
<1>0. ASSUME Kept, Rest, inbox' \in [Replica -> Nat], table' \in MaybeRun, index' \in MaybeRun
      PROVE  PubTypeOK' /\ UNCHANGED registryVars
  BY <1>0 DEF PubTypeOK, TypeOK, registryVars, clientVars
<1>r. reload[r] \in Request
  BY RequestByStep DEF ReloadNext, ReloadPlan, ReloadLoad, ReloadCheck, SyncTable,
       SwapIndex, CountDocuments, Announce
<1>d. reload[r].docs \in MaybeRun /\ reload[r].plan \in Data /\ reload[r].at \in Replica
  BY <1>r DEF Request
<1>t. inbox \in [Replica -> Nat] /\ table \in MaybeRun /\ index \in MaybeRun
  BY DEF PubTypeOK
<1>1. CASE ReloadPlan(r)
  <2>1. ASSUME NEW plan \in Data,
               reload' = [reload EXCEPT ![r].step = "load", ![r].plan = plan]
        PROVE  reload' \in [Run -> Request \cup Executed \cup {NoRequest}]
    <3>1. [reload[r] EXCEPT !.step = "load", !.plan = plan] \in Request
      BY <1>r DEF Request
    <3> QED BY <3>1, <2>1 DEF PubTypeOK
  <2>2. Failed \in Executed
    BY DEF Failed, Executed, MaybeRun
  <2>3. reload' = [reload EXCEPT ![r] = Failed]
        => reload' \in [Run -> Request \cup Executed \cup {NoRequest}]
    BY <2>2 DEF PubTypeOK
  <2>4. Kept
    BY <1>1, <1>r, <2>1, <2>3, RestoredTypes, PlanTypes, FaultType DEF ReloadPlan, PubTypeOK
  <2> QED BY <1>0, <1>1, <1>t, <2>4 DEF ReloadPlan, RequestOnly, searchVars
<1>2. CASE ReloadLoad(r)
  <2>1. Kept
    BY <1>2, <1>r, <1>d, StepType, LoadTypes DEF ReloadLoad, PubTypeOK
  <2> QED BY <1>0, <1>2, <1>t, <2>1 DEF ReloadLoad, RequestOnly, searchVars
<1>3. CASE ReloadCheck(r)
  <2>1. served[reload[r].at].run \in MaybeRun
    BY <1>d DEF PubTypeOK, Data
  <2>2. [reload[r] EXCEPT !.step = "table", !.docs = served[reload[r].at].run] \in Request
    BY <1>r, <2>1 DEF Request
  <2>3. Kept
    BY <1>3, <1>r, <2>2, RestoredTypes DEF ReloadCheck, PubTypeOK
  <2> QED BY <1>0, <1>3, <1>t, <2>3 DEF ReloadCheck, RequestOnly, searchVars
<1>4. CASE SyncTable(r)
  <2>1. Kept
    BY <1>4, <1>r, StepType, RestoredTypes, FaultType DEF SyncTable, PubTypeOK
  <2> QED BY <1>0, <1>4, <1>t, <1>d, <2>1 DEF SyncTable, RequestOnly
<1>5. CASE SwapIndex(r)
  <2>1. Kept
    BY <1>5, <1>r, StepType, RestoredTypes, FaultType DEF SwapIndex, PubTypeOK
  <2> QED BY <1>0, <1>5, <1>t, <1>d, <2>1 DEF SwapIndex, RequestOnly
<1>6. CASE CountDocuments(r)
  <2>1. Kept
    BY <1>6, <1>r, StepType, RestoredTypes, FaultType DEF CountDocuments, PubTypeOK
  <2> QED BY <1>0, <1>6, <1>t, <2>1 DEF CountDocuments, RequestOnly, searchVars
<1>7. CASE Announce(r)
  <2>1. [step |-> "ok", docs |-> reload[r].docs] \in Executed
    BY <1>d DEF Executed
  <2>2. inbox' \in [Replica -> Nat]
    BY <1>7, <1>t DEF Announce
  <2>3. behind' \in [Replica -> BOOLEAN]
    <3>1. \A a \in Replica : (behind[a] \/ ~Hears(a)) \in BOOLEAN
      OBVIOUS
    <3>2. TRUE \in BOOLEAN
      OBVIOUS
    <3> QED BY <1>7, <3>1, <3>2 DEF Announce
  <2>4. Kept
    BY <1>7, <2>1, <2>3, FaultType DEF Announce, PubTypeOK
  <2> QED BY <1>0, <1>7, <1>t, <2>2, <2>4 DEF Announce, searchVars
<1> QED BY <1>1, <1>2, <1>3, <1>4, <1>5, <1>6, <1>7 DEF ReloadNext

LEMMA LivesType ==
    ASSUME PubTypeOK, NEW a \in Replica, NEW from, NEW to \in Life, Lives(a, from, to)
    PROVE  sub' \in [Replica -> Life]
BY DEF PubTypeOK, Lives

LEMMA PlanForTypes ==
    ASSUME PubTypeOK, NEW a \in Replica, PlanFor(a)
    PROVE  /\ subPlan' \in [Replica -> Data] /\ behind' \in [Replica -> BOOLEAN]
           /\ faults' \in 0..MaxFaults
BY PlanTypes, FaultType DEF PubTypeOK, PlanFor

LEMMA PlanDoneType ==
    ASSUME PubTypeOK, NEW a \in Replica, PlanDone(a)
    PROVE  subPlan' \in [Replica -> Data]
BY DEF PubTypeOK, PlanDone, NoData, Data, MaybeRun

LEMMA EndsTypes ==
    ASSUME PubTypeOK, NEW a \in Replica, Ends(a)
    PROVE  /\ sub' \in [Replica -> Life] /\ inbox' \in [Replica -> Nat]
           /\ behind' \in [Replica -> BOOLEAN]
<1>1. sub' \in [Replica -> Life] /\ inbox' \in [Replica -> Nat]
  BY DEF Ends, PubTypeOK, Life
<1>2. (behind[a] \/ inbox[a] > 0) \in BOOLEAN
  OBVIOUS
<1> QED BY <1>1, <1>2 DEF Ends, PubTypeOK

\* The replicas.
LEMMA ReplicaTypes ==
    ASSUME PubTypeOK, NEW a \in Replica, ReplicaNext(a)
    PROVE  PubTypeOK' /\ UNCHANGED registryVars
<1> DEFINE Kept == /\ served' \in [Replica -> Data] /\ subPlan' \in [Replica -> Data]
                   /\ sub' \in [Replica -> Life] /\ inbox' \in [Replica -> Nat]
                   /\ behind' \in [Replica -> BOOLEAN] /\ faults' \in 0..MaxFaults
<1>0. ASSUME Kept, ReplicaOnly PROVE PubTypeOK' /\ UNCHANGED registryVars
  BY <1>0 DEF PubTypeOK, TypeOK, ReplicaOnly, registryVars, clientVars, searchVars
<1>l. {"down", "booting", "booted", "listening", "loading", "loaded"} \subseteq Life
  BY DEF Life
<1>p. subPlan[a] \in Data
  BY DEF PubTypeOK
<1>1. CASE Boot(a)
  BY <1>0, <1>1, <1>l, LivesType, PlanForTypes DEF Boot, PubTypeOK
<1>2. CASE BootLoad(a)
  BY <1>0, <1>2, <1>l, <1>p, LivesType, LoadTypes, PlanDoneType DEF BootLoad, PubTypeOK
<1>3. CASE Subscribe(a)
  BY <1>0, <1>3, <1>l, LivesType DEF Subscribe, PubTypeOK
<1>4. CASE Receive(a)
  <2>1. inbox' \in [Replica -> Nat]
    BY <1>4 DEF Receive, PubTypeOK
  <2> QED BY <1>0, <1>4, <1>l, <2>1, LivesType, PlanForTypes DEF Receive, PubTypeOK
<1>5. CASE SubscriberLoad(a)
  BY <1>0, <1>5, <1>l, <1>p, LivesType, LoadTypes, PlanDoneType DEF SubscriberLoad, PubTypeOK
<1>6. CASE SubscriberCheck(a)
  BY <1>0, <1>6, <1>l, LivesType, EndsTypes, PlanDoneType DEF SubscriberCheck, PubTypeOK
<1>7. CASE LoseSubscription(a)
  BY <1>0, <1>7, EndsTypes, FaultType DEF LoseSubscription, PubTypeOK
<1>8. CASE Crash(a)
  <2>1. Failed \in Executed /\ NoData \in Data
    BY DEF Failed, Executed, MaybeRun, NoData, Data
  <2>2. reload' \in [Run -> Request \cup Executed \cup {NoRequest}]
    BY <1>8, <2>1 DEF Crash, PubTypeOK
  <2>3. Kept
    BY <1>8, <1>l, <2>1, PlanDoneType, FaultType DEF Crash, PubTypeOK
  <2> QED BY <1>8, <2>2, <2>3 DEF Crash, PubTypeOK, TypeOK, registryVars, clientVars, searchVars
<1> QED BY <1>1, <1>2, <1>3, <1>4, <1>5, <1>6, <1>7, <1>8 DEF ReplicaNext

LEMMA InitTypes == PubInit => PubTypeOK
<1> SUFFICES ASSUME PubInit PROVE PubTypeOK
  OBVIOUS
<1>1. TypeOK
  BY InitIsConsistent DEF PubInit
<1>2. NoData \in Data /\ None \in MaybeRun /\ "idle" \in Label /\ "listening" \in Life
  BY DEF NoData, Data, MaybeRun, Label, Ended, Life
<1>3. 0 \in 0..MaxFaults
  BY PublicationAssumption
<1> QED BY <1>1, <1>2, <1>3 DEF PubInit, PubTypeOK

LEMMA PubStep ==
    ASSUME PubTypeOK, [PubNext]_vars PROVE PubTypeOK' /\ [Next]_registryVars
<1>1. CASE UNCHANGED vars
  BY <1>1 DEF vars, clientVars, replicaVars, searchVars, registryVars, PubTypeOK, TypeOK
<1> QED BY <1>1, ClientTypes, ReloadTypes, ReplicaTypes DEF PubNext

\* Every variable of the clients, the replicas and the stores keeps its type.
THEOREM PubTypes == PubSpec => []PubTypeOK
BY InitTypes, PubStep, PTL DEF PubSpec

\* As a client of the registry the publication takes none but its steps, so what
\* is proved of the registry holds of the pointer here.
THEOREM PublicationUsesRegistry == PubSpec => Spec
<1>1. PubInit => Init
  BY DEF PubInit
<1> QED BY <1>1, PubStep, PubTypes, PTL DEF PubSpec, Spec

COROLLARY PointerIsConsistent == PubSpec => []RegistryInv
BY PublicationUsesRegistry, RegistryIsConsistent, PTL

-----------------------------------------------------------------------------
(* What is served was published                                            *)

\* What is held or will be loaded from a run's directory is a published run.
Good(d) == d.from = "run" /\ d.run # None => data_runs[d.run].state = "published"

\* ServedWasPublished is not inductive: a plan or a snapshot is served later than
\* it was made, so they must be good as well, and a run must stay published.
ServedInv ==
    /\ \A a \in Replica : Good(served[a]) /\ Good(subPlan[a])
    /\ \A r \in Run : reload[r] \in Request => Good(reload[r].snap) /\ Good(reload[r].plan)

LEMMA PublishedStays ==
    ASSUME PubTypeOK, [Next]_registryVars, NEW d \in Data, Good(d) PROVE Good(d)'
<1> SUFFICES ASSUME d.from = "run", d.run # None PROVE data_runs'[d.run].state = "published"
  BY DEF Good
<1>1. d.run \in Run /\ data_runs[d.run].state = "published"
  BY DEF Data, MaybeRun, Good
<1>2. CASE UNCHANGED registryVars
  BY <1>1, <1>2 DEF registryVars
<1>3. CASE Next
  BY <1>1, <1>3, AdvancesStep DEF PubTypeOK, Advances, Terminal
<1> QED BY <1>2, <1>3

LEMMA GoodConstants ==
    Good(NoData) /\ Good(Configured) /\ (Usable => Good(Pointed)) /\ Good(Files(NoData))
BY DEF Good, NoData, Configured, Usable, Pointed, Files

\* The steps of the clients leave what the replicas hold and plan.
LEMMA ClientServed ==
    ASSUME PubTypeOK, ServedInv, NEW r \in Run, ClientNext(r) PROVE ServedInv'
<1>1. [Next]_registryVars
  BY ClientTypes
<1>2. UNCHANGED <<served, subPlan>>
  BY DEF ClientNext, Start, StartBackfill, Progress, Process, StepFails, ReadPrevious,
         Publish, CallReload, Answer, LoseAnswer, Rollback, ReportFailure, Kill,
         ClientOnly, replicaVars
<1>3. \A a \in Replica : Good(served[a])' /\ Good(subPlan[a])'
  <2> TAKE a \in Replica
  <2>1. served[a] \in Data /\ subPlan[a] \in Data /\ Good(served[a]) /\ Good(subPlan[a])
    BY DEF PubTypeOK, ServedInv
  <2> QED BY <1>1, <1>2, <2>1, PublishedStays DEF Good
<1>4. ASSUME NEW o \in Run, reload'[o] \in Request
      PROVE  Good(reload[o].snap)' /\ Good(reload[o].plan)'
  <2>1. CASE reload'[o] = reload[o]
    <3>1. /\ reload[o].snap \in Data /\ reload[o].plan \in Data
          /\ Good(reload[o].snap) /\ Good(reload[o].plan)
      BY <1>4, <2>1 DEF ServedInv, Request
    <3> QED BY <1>1, <2>1, <3>1, PublishedStays DEF Good
  <2>2. CASE reload'[o] # reload[o]
    <3>1. CallReload(r) /\ o = r
      BY <2>2 DEF PubTypeOK, ClientNext, Start, StartBackfill, Progress, Process,
           StepFails, ReadPrevious, Publish, CallReload, Answer, LoseAnswer, Rollback,
           ReportFailure, Kill, ClientOnly
    <3>2. PICK a \in Replica :
             reload'[r] = [ at |-> a, step |-> "plan", snap |-> served[a],
                            plan |-> NoData, docs |-> None ]
      BY <2>2, <3>1 DEF CallReload, PubTypeOK
    <3>3. reload'[o].snap = served'[a] /\ reload'[o].plan = NoData
      BY <1>2, <3>1, <3>2
    <3>4. Good(NoData)'
      BY DEF Good, NoData
    <3> QED BY <1>3, <3>3, <3>4 DEF Good
  <2> QED BY <2>1, <2>2
<1> QED BY <1>3, <1>4 DEF ServedInv

\* A load leaves the plan's run, what latest links to, or nothing.
LEMMA LoadIsGood ==
    ASSUME PubTypeOK, NEW a \in Replica, NEW plan \in Data, Good(plan), Load(a, plan),
           UNCHANGED registryVars, \A b \in Replica : Good(served[b])
    PROVE  \A b \in Replica : Good(served[b])'
<1>1. Good(Files(plan))
  BY DEF Files, Good
<1>2. Good([plan EXCEPT !.run = None])
  BY DEF Good, Data
<1>3. PICK d : served' = [served EXCEPT ![a] = d] /\ Good(d)
  BY <1>1, <1>2 DEF Load
<1> QED BY <1>3 DEF Good, PubTypeOK, registryVars

\* A request puts back the snapshot it took, or loads the plan it found.
LEMMA ReloadServed ==
    ASSUME PubTypeOK, ServedInv, NEW r \in Run, ReloadNext(r) PROVE ServedInv'
<1>1. UNCHANGED registryVars
  BY ReloadTypes
<1>2. reload[r] \in Request
  BY RequestByStep DEF ReloadNext, ReloadPlan, ReloadLoad, ReloadCheck, SyncTable,
       SwapIndex, CountDocuments, Announce
<1>3. /\ Good(reload[r].snap) /\ Good(reload[r].plan)
      /\ reload[r].plan \in Data /\ reload[r].at \in Replica
  BY <1>2 DEF ServedInv, Request
<1>4. UNCHANGED subPlan
  BY DEF ReloadNext, ReloadPlan, ReloadLoad, ReloadCheck, SyncTable, SwapIndex,
         CountDocuments, Announce, RequestOnly
<1>5. Restored(r) \/ UNCHANGED served \/ Load(reload[r].at, reload[r].plan)
  BY DEF ReloadNext, ReloadPlan, ReloadLoad, ReloadCheck, SyncTable, SwapIndex,
         CountDocuments, Announce, RequestOnly
<1>6. \A a \in Replica : Good(served[a])' /\ Good(subPlan[a])'
  <2>1. \A a \in Replica : Good(subPlan[a])'
    BY <1>1, <1>4 DEF ServedInv, Good, registryVars
  <2>2. CASE Restored(r)
    BY <1>1, <1>3, <2>1, <2>2 DEF Restored, ServedInv, Good, registryVars, PubTypeOK
  <2>3. CASE UNCHANGED served
    BY <1>1, <2>1, <2>3 DEF ServedInv, Good, registryVars
  <2>4. CASE Load(reload[r].at, reload[r].plan)
    BY <1>1, <1>3, <2>1, <2>4, LoadIsGood DEF ServedInv
  <2> QED BY <1>5, <2>1, <2>2, <2>3, <2>4
<1>7. ASSUME NEW o \in Run, reload'[o] \in Request
      PROVE  Good(reload[o].snap)' /\ Good(reload[o].plan)'
  <2>1. CASE o # r
    <3>1. reload'[o] = reload[o]
      BY <2>1 DEF ReloadNext, ReloadPlan, ReloadLoad, ReloadCheck, SyncTable, SwapIndex,
           CountDocuments, Announce, Restored, Step, PubTypeOK
    <3> QED BY <1>1, <1>7, <3>1 DEF ServedInv, Good, registryVars
  <2>2. CASE o = r
    <3>1. Failed \notin Request /\ \A d : [step |-> "ok", docs |-> d] \notin Request
      BY DEF Failed, Request
    <3>2. \/ reload'[r].snap = reload[r].snap /\ reload'[r].plan = reload[r].plan
          \/ /\ reload'[r].snap = reload[r].snap
             /\ \/ reload'[r].plan = Configured
                \/ Usable /\ reload'[r].plan = Pointed
      BY <1>2, <1>7, <2>2, <3>1
         DEF ReloadNext, ReloadPlan, ReloadLoad, ReloadCheck, SyncTable, SwapIndex,
             CountDocuments, Announce, Restored, Step, PubTypeOK, Request
    <3> QED BY <1>1, <1>3, <2>2, <3>2, GoodConstants DEF Good, registryVars
  <2> QED BY <2>1, <2>2
<1> QED BY <1>6, <1>7 DEF ServedInv

\* A replica loads the plan it made, or starts from nothing.
LEMMA ReplicaServed ==
    ASSUME PubTypeOK, ServedInv, NEW a \in Replica, ReplicaNext(a) PROVE ServedInv'
<1>1. UNCHANGED registryVars
  BY ReplicaTypes
<1>2. subPlan[a] \in Data /\ Good(subPlan[a])
  BY DEF PubTypeOK, ServedInv
<1>3. \A o \in Run : reload'[o] \in Request => reload'[o] = reload[o]
  <2>1. Failed \notin Request
    BY DEF Failed, Request
  <2> QED BY <2>1 DEF ReplicaNext, Boot, BootLoad, Subscribe, Receive, SubscriberLoad,
        SubscriberCheck, LoseSubscription, Crash, ReplicaOnly, PubTypeOK
<1>4. PlanFor(a) \/ PlanDone(a) \/ UNCHANGED subPlan
  BY DEF ReplicaNext, Boot, BootLoad, Subscribe, Receive, SubscriberLoad,
         SubscriberCheck, LoseSubscription, Crash
<1>5. Load(a, subPlan[a]) \/ UNCHANGED served \/ served' = [served EXCEPT ![a] = NoData]
  BY DEF ReplicaNext, Boot, BootLoad, Subscribe, Receive, SubscriberLoad,
         SubscriberCheck, LoseSubscription, Crash
<1>6. \A b \in Replica : Good(served[b])'
  <2>1. CASE Load(a, subPlan[a])
    BY <1>1, <1>2, <2>1, LoadIsGood DEF ServedInv
  <2>2. CASE UNCHANGED served
    BY <1>1, <2>2 DEF ServedInv, Good, registryVars
  <2>3. CASE served' = [served EXCEPT ![a] = NoData]
    BY <1>1, <2>3, GoodConstants DEF ServedInv, Good, registryVars, PubTypeOK
  <2> QED BY <1>5, <2>1, <2>2, <2>3
<1>7. \A b \in Replica : Good(subPlan[b])'
  BY <1>1, <1>4, GoodConstants DEF ServedInv, PlanFor, PlanDone, Good, registryVars, PubTypeOK
<1>8. \A o \in Run : reload'[o] \in Request => Good(reload[o].snap)' /\ Good(reload[o].plan)'
  BY <1>1, <1>3 DEF ServedInv, Good, registryVars
<1> QED BY <1>6, <1>7, <1>8 DEF ServedInv

\* No replica ever serves a run directory whose run was not published: whatever is
\* rolled back, put back, restarted, lost or late, for any number of replicas,
\* concurrent clients and faults.
THEOREM OnlyPublishedIsServed == PubSpec => []ServedWasPublished
<1>1. PubInit => ServedInv
  BY GoodConstants DEF PubInit, ServedInv, NoRequest, Request
<1>2. ASSUME PubTypeOK, ServedInv, [PubNext]_vars PROVE ServedInv'
  <2>1. CASE UNCHANGED vars
    BY <1>2, <2>1 DEF vars, replicaVars, registryVars, ServedInv, Good
  <2> QED BY <1>2, <2>1, ClientServed, ReloadServed, ReplicaServed DEF PubNext
<1>3. ServedInv => ServedWasPublished
  BY DEF ServedInv, ServedWasPublished, Good
<1> QED BY <1>1, <1>2, <1>3, PubTypes, PTL DEF PubSpec

-----------------------------------------------------------------------------
(* A failed run is not left active                                         *)

Excused(r) == prev[r] = None \/ r \in broken

\* Before the publication has been sent.
Before == {"idle", "process", "previous", "published"} \cup Stage

BackfillLabel == {"process", "reload", "answer", "published", "done", "failed"}

\* The excuse must hold from the moment the runner has only the failure report
\* left, and a runner is not published before it says so.
Own(r) ==
    /\ r \in backfill => pc[r] \in BackfillLabel
    /\ r \in backfill \/ pc[r] = "idle" => prev[r] = None
    /\ r \notin backfill /\ pc[r] \in Before => data_runs[r].state # "published"
    /\ prev[r] # r
    /\ pc[r] \in {"report", "failed"} /\ active.run = r => Excused(r)

\* Runners exclude each other, so the run a rollback returns to is over, and if it
\* failed and was active all the same it had an excuse.
Pair(o, r) ==
    /\ o \in backfill \/ r \in backfill \/ pc[o] \in Ended \/ pc[r] \in Ended
    /\ pc[o] \notin Ended /\ prev[o] = r /\ pc[r] = "failed" => Excused(r)

FailInv ==
    /\ ActiveIsPublished
    /\ \A r \in Run : Own(r)
    /\ \A o, r \in Run : o # r => Pair(o, r)

LEMMA NoneIsNoRun == None \notin Run /\ NoPointer.run = None
BY RunAssumption DEF None, NoPointer

\* What a client's step leaves alone.
LEMMA ReportsFrame ==
    ASSUME PubTypeOK, NEW r \in Run, NEW state \in State, NEW meta, NEW next, NEW otherwise,
           Reports(r, state, meta, next, otherwise)
    PROVE  /\ pc' = [pc EXCEPT ![r] = pc'[r]] /\ pc'[r] \in {next, otherwise}
           /\ \A o \in Run : o # r => data_runs'[o] = data_runs[o]
           /\ broken' = broken \/ broken' = broken \cup {r}
           /\ active' = active \/ (state = "published" /\ active'.run = r)
           /\ state # "published" /\ data_runs[r].state # "published"
                => data_runs'[r].state # "published"
           /\ pc'[r] # next =>
                \/ r \in broken'
                \/ UNCHANGED registryVars /\ ~Allowed(data_runs[r], state)
           /\ UNCHANGED registryVars \/ Allowed(data_runs[r], state)
<1> DEFINE p == [run |-> r, state |-> state, meta |-> meta, error |-> FALSE]
<1>1. CASE UNCHANGED registryVars /\ (Go(r, next) \/ Go(r, otherwise))
  BY <1>1 DEF Reports, Go, PubTypeOK, registryVars, Fault
<1>2. CASE Upsert(p) /\ (Go(r, next) \/ Go(r, otherwise))
  <2>1. /\ data_runs' = [data_runs EXCEPT ![r] = Updated(data_runs[r], p)]
        /\ Updated(data_runs[r], p).state = state
        /\ Allowed(data_runs[r], state)
        /\ active' = active \/ (state = "published" /\ active'.run = r)
    BY <1>2 DEF Upsert, Updated, PointerTo
  <2>2. /\ \A o \in Run : o # r => data_runs'[o] = data_runs[o]
        /\ data_runs'[r].state = state
    BY <2>1 DEF PubTypeOK, TypeOK
  <2>3. pc' = [pc EXCEPT ![r] = pc'[r]] /\ pc'[r] \in {next, otherwise}
    BY <1>2 DEF Go, PubTypeOK
  <2>4. /\ broken' = broken \/ broken' = broken \cup {r}
        /\ \/ Go(r, next) \/ r \in broken'
           \/ UNCHANGED registryVars /\ ~Allowed(data_runs[r], state)
    BY DEF Reports
  <2>5. Go(r, next) => pc'[r] = next
    BY DEF Go, PubTypeOK
  <2> QED BY <2>1, <2>2, <2>3, <2>4, <2>5
<1> QED BY <1>1, <1>2 DEF Reports

LEMMA ClientFrame ==
    ASSUME PubTypeOK, NEW r \in Run, ClientNext(r)
    PROVE  /\ pc' = [pc EXCEPT ![r] = pc'[r]]
           /\ \A o \in Run : o # r =>
                 prev'[o] = prev[o] /\ data_runs'[o] = data_runs[o]
           /\ backfill' = backfill \/ (pc[r] = "idle" /\ backfill' = backfill \cup {r})
           /\ broken' = broken \/ broken' = broken \cup {r}
           /\ \/ active' = active \/ active'.run = r
              \/ pc[r] = "rollback" /\ prev[r] # None /\ active'.run = prev[r]
<1>s. Stage \subseteq State /\ {"published", "failed"} \subseteq State
  BY DEF Stage, State, StateOrder
<1>1. CASE Start(r) \/ StartBackfill(r) \/ Process(r) \/ StepFails(r) \/ ReadPrevious(r)
           \/ CallReload(r) \/ Answer(r) \/ LoseAnswer(r) \/ Kill(r)
  BY <1>1 DEF Start, StartBackfill, Process, StepFails, ReadPrevious, CallReload, Answer,
       LoseAnswer, Kill, Go, PubTypeOK, registryVars
<1>2. CASE Progress(r)
  <2>1. Reports(r, pc[r], IF pc[r] = "processed_validated" THEN MetaOf[r] ELSE NoMeta,
                NextLabel[pc[r]], "report") /\ pc[r] \in State
    BY <1>2, <1>s DEF Progress
  <2> QED BY <1>2, <2>1, ReportsFrame DEF Progress
<1>3. CASE Publish(r)
  <2>1. \/ Reports(r, "published", NoMeta, "done", "failed")
        \/ Reports(r, "published", MetaOf[r], "reload", "report")
    BY <1>3 DEF Publish
  <2> QED BY <1>3, <1>s, <2>1, ReportsFrame DEF Publish
<1>4. CASE Rollback(r)
  BY <1>4 DEF Rollback, Activate, PointerTo, Go, PubTypeOK, registryVars
<1>5. CASE ReportFailure(r)
  <2>1. Reports(r, "failed", NoMeta, "failed", "failed")
    BY <1>5 DEF ReportFailure
  <2> QED BY <1>5, <1>s, <2>1, ReportsFrame DEF ReportFailure
<1> QED BY <1>1, <1>2, <1>3, <1>4, <1>5 DEF ClientNext

\* The client's own part of the invariant.
LEMMA OwnStep ==
    ASSUME PubTypeOK, FailInv, NEW r \in Run, ClientNext(r) PROVE Own(r)'
<1> USE NoneIsNoRun
<1>o. Own(r)
  BY DEF FailInv
<1>n. r \notin backfill /\ pc[r] \in Before => active.run # r
  BY <1>o DEF Own, FailInv, ActiveIsPublished
<1>s. /\ Stage \subseteq State /\ {"published", "failed"} \subseteq State
      /\ Stage \subseteq Before \ {"idle", "process", "previous", "published"}
      /\ "published" \notin Stage
  BY DEF Stage, State, StateOrder, Before
<1>b. \A l \in {"report", "failed", "done", "reload", "answer", "rollback"} : l \notin Before
  BY DEF Before, Stage
<1>c. r \in backfill => pc[r] \notin Stage \cup {"idle", "previous", "rollback", "report"}
  BY <1>o DEF Own, BackfillLabel, Stage
<1> USE <1>c DEF BackfillLabel
<1>1. CASE Start(r) \/ StartBackfill(r) \/ Process(r) \/ StepFails(r)
  BY <1>1, <1>o, <1>n, <1>s, <1>b
     DEF Start, StartBackfill, Process, StepFails, Own, Excused, Go, Before, PubTypeOK, registryVars
<1>2. CASE Progress(r)
  <2>1. /\ Reports(r, pc[r], IF pc[r] = "processed_validated" THEN MetaOf[r] ELSE NoMeta,
                   NextLabel[pc[r]], "report")
        /\ pc[r] \in Stage /\ UNCHANGED <<backfill, prev>>
    BY <1>2 DEF Progress
  <2>2. pc[r] \in State /\ pc[r] # "published" /\ pc[r] \in Before /\ pc[r] # "idle"
    BY <1>s, <2>1
  <2>3. /\ pc'[r] \in {NextLabel[pc[r]], "report"}
        /\ active' = active
        /\ broken' = broken \/ broken' = broken \cup {r}
        /\ data_runs[r].state # "published" => data_runs'[r].state # "published"
    BY <2>1, <2>2, ReportsFrame
  <2>4. NextLabel[pc[r]] \notin {"idle", "report", "failed"}
    BY <2>1 DEF Stage, NextLabel
  <2> QED BY <2>1, <2>2, <2>3, <2>4, <1>o, <1>n DEF Own, Excused
<1>3. CASE ReadPrevious(r)
  BY <1>3, <1>o, <1>n DEF ReadPrevious, Own, Excused, Go, Before, PubTypeOK, registryVars
<1>4. CASE Publish(r)
  <2>1. CASE r \in backfill
    <3>1. Reports(r, "published", NoMeta, "done", "failed") /\ UNCHANGED <<backfill, prev>>
      BY <1>4, <2>1 DEF Publish
    <3>2. pc'[r] \in {"done", "failed"}
      BY <1>s, <3>1, ReportsFrame
    <3> QED BY <2>1, <3>1, <3>2, <1>o, <1>b DEF Own, Excused
  <2>2. CASE r \notin backfill
    <3>1. /\ Reports(r, "published", MetaOf[r], "reload", "report")
          /\ UNCHANGED <<backfill, prev>> /\ pc[r] = "published"
      BY <1>4, <2>2 DEF Publish
    <3>2. /\ pc'[r] \in {"reload", "report"}
          /\ pc'[r] # "reload" => r \in broken' \/ UNCHANGED registryVars
      BY <1>s, <3>1, ReportsFrame
    <3>3. active.run # r
      BY <2>2, <3>1, <1>n DEF Before
    <3> QED BY <2>2, <3>1, <3>2, <3>3, <1>o, <1>b DEF Own, Excused, registryVars
  <2> QED BY <2>1, <2>2
<1>5. CASE CallReload(r) \/ Answer(r) \/ LoseAnswer(r) \/ Kill(r)
  BY <1>5, <1>o, <1>b
     DEF CallReload, Answer, LoseAnswer, Kill, AfterReload, Own, Excused, Go, PubTypeOK, registryVars
<1>6. CASE Rollback(r)
  BY <1>6, <1>o, <1>b DEF Rollback, Activate, PointerTo, Own, Excused, Go, PubTypeOK, registryVars
<1>7. CASE ReportFailure(r)
  <2>1. /\ Reports(r, "failed", NoMeta, "failed", "failed")
        /\ UNCHANGED <<backfill, prev>> /\ pc[r] = "report"
    BY <1>7 DEF ReportFailure
  <2>2. /\ pc'[r] = "failed" /\ active' = active
        /\ broken' = broken \/ broken' = broken \cup {r}
    BY <1>s, <2>1, ReportsFrame
  <2> QED BY <2>1, <2>2, <1>o, <1>b DEF Own, Excused
<1> QED BY <1>1, <1>2, <1>3, <1>4, <1>5, <1>6, <1>7 DEF ClientNext

LEMMA OthersOwnStep ==
    ASSUME PubTypeOK, FailInv, NEW r \in Run, ClientNext(r), NEW o \in Run, o # r
    PROVE  Own(o)'
<1>1. /\ pc'[o] = pc[o] /\ prev'[o] = prev[o] /\ data_runs'[o] = data_runs[o]
      /\ o \in backfill' <=> o \in backfill
      /\ o \in broken => o \in broken'
  BY ClientFrame DEF PubTypeOK
<1>2. Own(o) /\ Pair(r, o) /\ Own(r)
  BY DEF FailInv
<1>3. ASSUME active'.run = o, active'.run # active.run, pc[o] \in {"report", "failed"}
      PROVE  Excused(o)
  <2>1. pc[r] = "rollback" /\ prev[r] = o
    BY <1>3, ClientFrame
  <2>2. pc[r] \notin Ended /\ r \notin backfill
    BY <2>1, <1>2, NoneIsNoRun DEF Ended, Own
  <2>3. CASE pc[o] = "failed"
    BY <2>1, <2>2, <2>3, <1>2 DEF Pair
  <2>4. CASE pc[o] = "report"
    BY <2>2, <2>4, <1>2 DEF Pair, Own, Ended, Excused
  <2> QED BY <1>3, <2>3, <2>4
<1> QED BY <1>1, <1>2, <1>3 DEF Own, Excused

\* Runners exclude each other, and a rollback's target stays excused.
LEMMA PairStep ==
    ASSUME Refresh, PubTypeOK, FailInv, NEW r \in Run, ClientNext(r),
           NEW o \in Run, NEW q \in Run, o # q
    PROVE  Pair(o, q)'
<1> USE NoneIsNoRun
<1>f. /\ \A x \in Run : x # r => pc'[x] = pc[x] /\ prev'[x] = prev[x]
      /\ \A x \in Run : x # r => (x \in backfill' <=> x \in backfill)
      /\ \A x \in Run : x \in broken => x \in broken'
      /\ backfill \subseteq backfill'
  BY ClientFrame DEF PubTypeOK
<1>p. Pair(o, q) /\ Pair(q, o) /\ Own(o) /\ Own(q) /\ Own(r)
  BY DEF FailInv
<1>g. \/ pc[r] \notin Ended
      \/ Start(r) \/ StartBackfill(r)
  BY DEF ClientNext, Progress, Process, StepFails, ReadPrevious, Publish, CallReload, Answer,
         LoseAnswer, Rollback, ReportFailure, Kill, Ended, Stage
<1>h. /\ Start(r) => \A x \in Run \ backfill : pc[x] \in Ended
      /\ StartBackfill(r) => r \in backfill'
      /\ Start(r) \/ StartBackfill(r) => prev'[r] = prev[r] /\ pc[r] = "idle"
  BY DEF Start, StartBackfill
<1>e. prev'[r] = prev[r] \/ (prev'[r] = active.run /\ pc'[r] = "published")
  <2>1. CASE ReadPrevious(r)
    BY <2>1 DEF ReadPrevious, Go, PubTypeOK
  <2>2. CASE ~ReadPrevious(r)
    BY <2>2 DEF ClientNext, Start, StartBackfill, Progress, Process, StepFails, Publish,
         CallReload, Answer, LoseAnswer, Rollback, ReportFailure, Kill
  <2> QED BY <2>1, <2>2
<1>1. CASE o # r /\ q # r
  BY <1>1, <1>f, <1>p DEF Pair, Excused
<1>2. CASE o = r
  <2>1. (o \in backfill \/ q \in backfill \/ pc[o] \in Ended \/ pc[q] \in Ended)'
    BY <1>2, <1>f, <1>g, <1>h, <1>p DEF Pair, Ended
  <2>2. ASSUME prev'[r] = q, pc[q] = "failed", pc'[r] \notin Ended PROVE Excused(q)
    <3>1. CASE prev'[r] = prev[r]
      BY <1>2, <1>g, <1>h, <1>p, <2>2, <3>1 DEF Pair, Own, Ended
    <3>2. CASE prev'[r] = active.run
      BY <1>p, <2>2, <3>2 DEF Own
    <3> QED BY <1>e, <3>1, <3>2
  <2> QED BY <1>2, <1>f, <2>1, <2>2 DEF Pair, Excused
<1>3. CASE q = r
  <2>1. (o \in backfill \/ q \in backfill \/ pc[o] \in Ended \/ pc[q] \in Ended)'
    BY <1>3, <1>f, <1>g, <1>h, <1>p DEF Pair, Ended
  <2>2. ASSUME pc[o] \notin Ended, prev[o] = r, pc'[r] = "failed" PROVE Excused(r)'
    <3>1. o \notin backfill
      BY <2>2, <1>p DEF Own
    <3>2. pc[r] \notin Ended => r \in backfill
      BY <1>3, <1>p, <2>2, <3>1 DEF Pair
    <3>3. r \in backfill \/ pc[r] = "idle" => prev[r] = None
      BY <1>p DEF Own
    <3>4. prev'[r] = prev[r]
      BY <1>e, <2>2
    <3> QED BY <1>g, <1>h, <3>2, <3>3, <3>4 DEF Excused
  <2> QED BY <1>3, <1>f, <2>1, <2>2 DEF Pair
<1> QED BY <1>1, <1>2, <1>3

LEMMA FailStep ==
    ASSUME Refresh, PubTypeOK, FailInv, ActiveIsPublished', [PubNext]_vars PROVE FailInv'
<1>1. ASSUME UNCHANGED <<registryVars, clientVars>> PROVE FailInv'
  BY <1>1 DEF FailInv, Own, Pair, Excused, ActiveIsPublished, registryVars, clientVars
<1>2. ASSUME NEW r \in Run, ClientNext(r) PROVE FailInv'
  <2>1. \A o \in Run : Own(o)'
    BY <1>2, OwnStep, OthersOwnStep
  <2>2. \A o, q \in Run : o # q => Pair(o, q)'
    BY <1>2, PairStep
  <2> QED BY <2>1, <2>2 DEF FailInv
<1>3. ASSUME NEW r \in Run, ReloadNext(r) PROVE UNCHANGED clientVars
  BY <1>3 DEF ReloadNext, ReloadPlan, ReloadLoad, ReloadCheck, SyncTable, SwapIndex,
       CountDocuments, Announce, RequestOnly
<1>4. ASSUME NEW a \in Replica, ReplicaNext(a) PROVE UNCHANGED clientVars
  BY <1>4 DEF ReplicaNext, Boot, BootLoad, Subscribe, Receive, SubscriberLoad,
       SubscriberCheck, LoseSubscription, Crash, ReplicaOnly
<1> QED BY <1>1, <1>2, <1>3, <1>4, ReloadTypes, ReplicaTypes DEF PubNext, vars

LEMMA FailHolds == ASSUME Refresh PROVE PubSpec => []FailInv
<1>1. PubInit => FailInv
  BY NoneIsNoRun, InitIsConsistent
     DEF PubInit, Init, FailInv, RegistryInv, Own, Pair, Excused, Before, NoRun, Ended
<1>2. ASSUME PubTypeOK, FailInv, RegistryInv', [PubNext]_vars PROVE FailInv'
  BY <1>2, FailStep DEF RegistryInv
<1> QED BY <1>1, <1>2, PubTypes, PointerIsConsistent, PTL DEF PubSpec

\* When the runners take the refresh lock, a run that failed after its publication
\* is not left active, unless there was nothing before it or its calls were lost:
\* for any number of runners, backfills, replicas and faults.
THEOREM FailedRunIsPutBack ==
    ASSUME Refresh PROVE PubSpec => []FailedRunIsNotActive
<1>1. FailInv => FailedRunIsNotActive
  BY DEF FailInv, FailedRunIsNotActive, Own, Excused
<1> QED BY <1>1, FailHolds, PTL

-----------------------------------------------------------------------------
(* The table and the index                                                 *)

NotCalled(r) ==
    pc[r] \in IF r \in backfill THEN {"process", "reload"} ELSE Before \cup {"reload"}

\* Why the table and the index may differ: a failed reload, or one that will set
\* the index right, or one that will find at its count that it is too late.
Explains(r) ==
    \/ reload[r].step = "failed"
    \/ reload[r].step = "index" /\ reload[r].docs = table
    \/ reload[r].step = "count" /\ reload[r].docs = index

\* A client asks once, so the trace of a failed reload stays.
SplitInv ==
    /\ \A r \in Run : r \in backfill => pc[r] \in BackfillLabel
    /\ \A r \in Run : NotCalled(r) => reload[r].step = "none"
    /\ table # index => \E r \in Run : Explains(r)

LEMMA CallsOnce ==
    ASSUME PubTypeOK, SplitInv, NEW r \in Run, ClientNext(r)
    PROVE  /\ r \in backfill' => pc'[r] \in BackfillLabel
           /\ NotCalled(r)' => NotCalled(r) /\ pc[r] # "reload"
<1>1. CASE Progress(r)
  <2>1. pc'[r] \in {NextLabel[pc[r]], "report"}
    BY <1>1, ReportsFrame, StageIsState DEF Progress
  <2>2. r \notin backfill /\ backfill' = backfill /\ pc[r] \in Stage
    BY <1>1 DEF Progress, SplitInv, BackfillLabel, Stage
  <2> QED BY <2>1, <2>2 DEF NotCalled, Before, Stage, NextLabel
<1>2. CASE Publish(r)
  <2>1. pc[r] = "published" /\ backfill' = backfill
    BY <1>2 DEF Publish
  <2>2. {"published", "failed"} \subseteq State
    BY DEF State, StateOrder
  <2>3. pc'[r] \in IF r \in backfill THEN {"done", "failed"} ELSE {"reload", "report"}
    BY <1>2, <2>2, ReportsFrame DEF Publish
  <2> QED BY <2>1, <2>3 DEF NotCalled, Before, BackfillLabel, Stage
<1>3. CASE ReportFailure(r)
  <2>1. Reports(r, "failed", NoMeta, "failed", "failed") /\ "failed" \in State
    BY <1>3 DEF ReportFailure, State, StateOrder
  <2>2. pc'[r] = "failed"
    BY <2>1, ReportsFrame
  <2> QED BY <2>2 DEF NotCalled, Before, BackfillLabel, Stage
<1>4. CASE Start(r) \/ StartBackfill(r) \/ Process(r) \/ StepFails(r) \/ ReadPrevious(r)
           \/ CallReload(r) \/ Answer(r) \/ LoseAnswer(r) \/ Rollback(r) \/ Kill(r)
  BY <1>4 DEF Start, StartBackfill, Process, StepFails, ReadPrevious, CallReload, Answer,
       LoseAnswer, Rollback, Kill, AfterReload, Go, PubTypeOK, SplitInv, NotCalled, Before,
       BackfillLabel, Stage
<1> QED BY <1>1, <1>2, <1>3, <1>4 DEF ClientNext

LEMMA ClientSplit ==
    ASSUME PubTypeOK, SplitInv, NEW r \in Run, ClientNext(r) PROVE SplitInv'
<1>1. \A o \in Run : o # r => pc'[o] = pc[o] /\ (o \in backfill' <=> o \in backfill)
  BY ClientFrame DEF PubTypeOK
<1>2. UNCHANGED <<table, index>>
  BY DEF ClientNext, Start, StartBackfill, Progress, Process, StepFails, ReadPrevious,
         Publish, CallReload, Answer, LoseAnswer, Rollback, ReportFailure, Kill,
         ClientOnly, searchVars
<1>3. \A o \in Run : \/ reload'[o] = reload[o]
                     \/ o = r /\ pc[r] = "reload" /\ pc'[r] = "answer"
  <2>1. CASE CallReload(r)
    BY <2>1 DEF CallReload, Go, PubTypeOK
  <2>2. CASE ~CallReload(r)
    BY <2>2 DEF ClientNext, Start, StartBackfill, Progress, Process, StepFails, ReadPrevious,
         Publish, Answer, LoseAnswer, Rollback, ReportFailure, Kill, ClientOnly
  <2> QED BY <2>1, <2>2
<1>4. ASSUME NEW o \in Run, Explains(o) PROVE Explains(o)'
  <2>1. pc[r] = "reload" => reload[r].step = "none"
    BY DEF SplitInv, NotCalled
  <2> QED BY <1>2, <1>3, <1>4, <2>1 DEF Explains
<1>5. \A o \in Run : NotCalled(o)' => reload'[o].step = "none"
  BY <1>1, <1>3, CallsOnce DEF SplitInv, NotCalled
<1> QED BY <1>1, <1>2, <1>4, <1>5, CallsOnce DEF SplitInv

LEMMA ReloadSplit ==
    ASSUME PubTypeOK, SplitInv, NEW r \in Run, ReloadNext(r) PROVE SplitInv'
<1>1. UNCHANGED <<pc, backfill>>
  BY DEF ReloadNext, ReloadPlan, ReloadLoad, ReloadCheck, SyncTable, SwapIndex,
         CountDocuments, Announce, RequestOnly, clientVars
<1>2. \A o \in Run : o # r => reload'[o] = reload[o]
  BY DEF ReloadNext, ReloadPlan, ReloadLoad, ReloadCheck, SyncTable, SwapIndex,
         CountDocuments, Announce, Restored, Step, PubTypeOK
<1>3. reload[r] \in Request /\ reload[r].step \notin {"none", "failed"}
  BY RequestByStep DEF ReloadNext, ReloadPlan, ReloadLoad, ReloadCheck, SyncTable,
       SwapIndex, CountDocuments, Announce
<1>4. ~NotCalled(r)
  BY <1>3 DEF SplitInv
<1>r. Restored(r) => reload'[r].step = "failed"
  BY DEF Restored, Failed, PubTypeOK
<1>s. ASSUME NEW step, Step(r, step)
      PROVE  reload'[r].step = step /\ reload'[r].docs = reload[r].docs
  BY <1>s, <1>3 DEF Step, PubTypeOK, Request
<1>5. table' # index' => \E o \in Run : Explains(o)'
  <2>1. CASE ReloadPlan(r) \/ ReloadLoad(r) \/ ReloadCheck(r) \/ Announce(r)
    <3>1. UNCHANGED <<table, index>> /\ reload[r].step \notin {"failed", "index", "count"}
      BY <2>1 DEF ReloadPlan, ReloadLoad, ReloadCheck, Announce, searchVars
    <3> QED BY <1>2, <3>1 DEF SplitInv, Explains
  <2>2. CASE SyncTable(r)
    <3>1. Explains(r)'
      <4>1. CASE Restored(r)
        BY <1>r, <4>1 DEF Explains
      <4>2. CASE table' = reload[r].docs /\ Step(r, "index")
        BY <1>s, <4>2 DEF Explains
      <4> QED BY <2>2, <4>1, <4>2 DEF SyncTable
    <3> QED BY <3>1
  <2>3. CASE SwapIndex(r)
    <3>1. Explains(r)'
      <4>1. CASE Restored(r)
        BY <1>r, <4>1 DEF Explains
      <4>2. CASE index' = reload[r].docs /\ Step(r, "count")
        BY <1>s, <4>2 DEF Explains
      <4> QED BY <2>3, <4>1, <4>2 DEF SwapIndex
    <3> QED BY <3>1
  <2>4. CASE CountDocuments(r)
    <3>1. CASE Restored(r)
      BY <1>r, <3>1 DEF Explains
    <3>2. CASE ~Restored(r)
      BY <2>4, <3>2 DEF CountDocuments, Counts, searchVars
    <3> QED BY <3>1, <3>2
  <2> QED BY <2>1, <2>2, <2>3, <2>4 DEF ReloadNext
<1>6. \A o \in Run : NotCalled(o)' => reload'[o].step = "none"
  BY <1>1, <1>2, <1>4 DEF SplitInv, NotCalled
<1> QED BY <1>1, <1>5, <1>6 DEF SplitInv

LEMMA ReplicaSplit ==
    ASSUME PubTypeOK, SplitInv, NEW a \in Replica, ReplicaNext(a) PROVE SplitInv'
<1>1. UNCHANGED <<pc, backfill, table, index>>
  BY DEF ReplicaNext, Boot, BootLoad, Subscribe, Receive, SubscriberLoad,
       SubscriberCheck, LoseSubscription, Crash, ReplicaOnly, clientVars, searchVars
<1>2. \A o \in Run : \/ reload'[o] = reload[o]
                     \/ reload'[o].step = "failed" /\ reload[o] \in Request
  BY DEF ReplicaNext, Boot, BootLoad, Subscribe, Receive, SubscriberLoad,
       SubscriberCheck, LoseSubscription, Crash, ReplicaOnly, Failed, PubTypeOK
<1>3. \A o \in Run : reload[o] \in Request => reload[o].step # "none"
  BY DEF Request
<1> QED BY <1>1, <1>2, <1>3 DEF SplitInv, NotCalled, Explains

LEMMA SplitHolds == PubSpec => []SplitInv
<1>1. PubInit => SplitInv
  BY DEF PubInit, SplitInv, NoRequest
<1>2. ASSUME PubTypeOK, SplitInv, [PubNext]_vars PROVE SplitInv'
  <2>1. CASE UNCHANGED vars
    BY <1>2, <2>1 DEF vars, clientVars, searchVars, SplitInv, NotCalled, Explains
  <2> QED BY <1>2, <2>1, ClientSplit, ReloadSplit, ReplicaSplit DEF PubNext
<1> QED BY <1>1, <1>2, PubTypes, PTL DEF PubSpec

\* Two reloads may write the table and the index in any order, and be cut off
\* anywhere: when nothing is under way the two hold one run, or a reload failed.
THEOREM SearchSplitIsExplained == PubSpec => []SearchSplitOnlyIfFailed
<1>1. SplitInv => SearchSplitOnlyIfFailed
  BY DEF SplitInv, SearchSplitOnlyIfFailed, Quiet, Explains
<1> QED BY <1>1, SplitHolds, PTL

-----------------------------------------------------------------------------
(* A stale replica is explained                                            *)

\* A runner that may put the pointer back on the run it found there, and one that
\* is about to fail or has failed.
Returning(r) == r \notin backfill /\ pc[r] \in {"published", "reload", "answer", "rollback"}
Losing(r)    == r \in Run \ backfill /\ pc[r] \in {"reload", "answer", "rollback", "report", "failed"}

\* The runs that are active, or will be after a rollback; and the ones whose
\* reload has been announced.
Target(t)    == t \in Run \ backfill /\ (active.run = t \/ \E r \in Run : Returning(r) /\ prev[r] = t)
Announced(t) == pc[t] = "done" \/ (pc[t] = "answer" /\ reload[t].step = "ok")

\* What the property lets a replica hold when t is active and all is quiet, and
\* what it may hold before, as long as its client has not succeeded.
Suits(d, t) == d.from = "latest" \/ d.run \in {t, None} \/ (d.run # t /\ Losing(d.run))

\* A request that has loaded will announce its run, or put back what was served.
Requested(a) ==
    \E r \in Run : reload[r] \in Request /\ reload[r].at = a /\ reload[r].step \notin {"plan", "load"}

Loading(a) == sub[a] \in {"booting", "loading"}

Settled(a, t) ==
    \/ behind[a] \/ inbox[a] > 0
    \/ Loading(a) /\ Suits(subPlan[a], t)
    \/ ~Loading(a) /\ (Suits(served[a], t) \/ Requested(a))

SettledInv == \A t \in Run : Target(t) /\ Announced(t) => \A a \in Replica : Settled(a, t)

\* While a runner publishes, only a backfill moves the pointer beside it.
MovedInv ==
    \A r \in Run \ backfill :
        /\ pc[r] \in Before \ {"published"} => prev[r] = None
        /\ pc[r] = "published" /\ prev[r] # None => active.run \in {prev[r]} \cup backfill
        /\ pc[r] \in {"reload", "answer", "rollback"} => active.run \in {r} \cup backfill

\* A backfill has no path, so a plan for a run's directory is a runner's.
OfRunner(d) == d.from = "run" /\ d.run # None => d.run \in Run \ backfill /\ pc[d.run] # "idle"

PathsInv ==
    /\ \A r \in Run : r \in backfill \/ pc[r] = "idle" => data_runs[r].meta = NoMeta
    /\ \A a \in Replica : OfRunner(served[a]) /\ OfRunner(subPlan[a])
    /\ \A r \in Run : reload[r] \in Request => OfRunner(reload[r].snap) /\ OfRunner(reload[r].plan)

StaleInv == PathsInv /\ MovedInv /\ SettledInv

LEMMA ReportsTell ==
    ASSUME PubTypeOK, NEW r \in Run, NEW state \in State, NEW meta \in Meta \cup {NoMeta},
           NEW next, NEW otherwise, Reports(r, state, meta, next, otherwise)
    PROVE  /\ meta = NoMeta => data_runs'[r].meta = data_runs[r].meta
           /\ state = "published" /\ pc'[r] # otherwise => active'.run = r
<1> DEFINE p == [run |-> r, state |-> state, meta |-> meta, error |-> FALSE]
<1>1. CASE Upsert(p)
  <2>1. /\ data_runs' = [data_runs EXCEPT ![r] = Updated(data_runs[r], p)]
        /\ Updated(data_runs[r], p).meta = IF meta = NoMeta THEN data_runs[r].meta ELSE meta
        /\ state = "published" => active'.run = r
    BY <1>1 DEF Upsert, Updated, PointerTo
  <2> QED BY <2>1 DEF PubTypeOK, TypeOK
<1>2. CASE UNCHANGED registryVars /\ Go(r, otherwise)
  BY <1>2 DEF registryVars, Go, PubTypeOK
<1> QED BY <1>1, <1>2 DEF Reports

\* How a runner goes on.
LEMMA RunnerGoesOn ==
    ASSUME PubTypeOK, NEW r \in Run, ClientNext(r), r \notin backfill'
    PROVE  /\ r \notin backfill
           /\ pc'[r] # "idle"
           /\ pc'[r] \in Before \ {"published"} =>
                 pc[r] \in Before \ {"published"} /\ prev'[r] = prev[r]
           /\ pc'[r] = "published" => pc[r] = "previous" /\ ReadPrevious(r)
           /\ pc'[r] = "reload" => active'.run = r
           /\ pc'[r] \in {"answer", "rollback"} =>
                 pc[r] \in {"reload", "answer"} /\ UNCHANGED active
           /\ pc'[r] = "answer" => reload'[r].step = "plan"
           /\ pc'[r] = "done" => pc[r] = "answer" /\ reload[r].step = "ok"
           /\ Losing(r) => pc'[r] = "done" \/ Losing(r)'
           /\ Returning(r)' => (Returning(r) /\ prev'[r] = prev[r]) \/ ReadPrevious(r)
           /\ active' # active =>
                 \/ pc[r] = "published" /\ active'.run = r /\ pc'[r] # "done"
                 \/ pc[r] = "rollback" /\ prev[r] # None /\ active'.run = prev[r]
<1> USE DEF Returning, Losing, Before, Stage
<1>s. Stage \subseteq State /\ {"published", "failed"} \subseteq State
  BY DEF State, StateOrder
<1>b. backfill \subseteq backfill'
  BY ClientFrame
<1>1. CASE Start(r) \/ StartBackfill(r) \/ Process(r) \/ StepFails(r) \/ LoseAnswer(r) \/ Kill(r)
  BY <1>1, <1>b DEF Start, StartBackfill, Process, StepFails, LoseAnswer, Kill, AfterReload,
       Go, PubTypeOK, registryVars, Ended
<1>2. CASE Progress(r)
  <2>1. /\ pc'[r] \in {NextLabel[pc[r]], "report"} /\ active' = active
        /\ pc[r] \in Stage /\ UNCHANGED <<backfill, prev>>
    BY <1>2, <1>s, ReportsFrame DEF Progress
  <2> QED BY <2>1, <1>b DEF NextLabel
<1>3. CASE Publish(r)
  <2>1. /\ Reports(r, "published", MetaOf[r], "reload", "report")
        /\ UNCHANGED <<backfill, prev>> /\ pc[r] = "published"
    BY <1>3, <1>b DEF Publish
  <2>2. MetaOf[r] \in Meta \cup {NoMeta}
    BY PublicationAssumption
  <2>3. /\ pc'[r] \in {"reload", "report"}
        /\ pc'[r] = "reload" => active'.run = r
        /\ active' # active => active'.run = r
    BY <1>s, <2>1, <2>2, ReportsFrame, ReportsTell
  <2> QED BY <2>1, <2>3
<1>4. CASE ReadPrevious(r)
  BY <1>4 DEF ReadPrevious, Go, PubTypeOK, registryVars
<1>5. CASE CallReload(r)
  BY <1>5, <1>b DEF CallReload, AfterReload, Go, PubTypeOK, registryVars
<1>6. CASE Answer(r)
  BY <1>6, <1>b DEF Answer, AfterReload, Go, PubTypeOK, registryVars
<1>7. CASE Rollback(r)
  BY <1>7, <1>b DEF Rollback, Activate, PointerTo, Go, PubTypeOK, registryVars
<1>8. CASE ReportFailure(r)
  <2>1. /\ Reports(r, "failed", NoMeta, "failed", "failed")
        /\ UNCHANGED <<backfill, prev>> /\ pc[r] = "report"
    BY <1>8 DEF ReportFailure
  <2>2. pc'[r] = "failed" /\ active' = active
    BY <1>s, <2>1, ReportsFrame
  <2> QED BY <2>1, <2>2, <1>b
<1> QED BY <1>1, <1>2, <1>3, <1>4, <1>5, <1>6, <1>7, <1>8 DEF ClientNext

\* A client's step takes no plan back, and gives no path to a backfill.
LEMMA ClientPaths ==
    ASSUME PubTypeOK, FailInv, PathsInv, NEW r \in Run, ClientNext(r) PROVE PathsInv'
<1> USE NoneIsNoRun
<1>f. /\ \A o \in Run : o # r => pc'[o] = pc[o] /\ data_runs'[o] = data_runs[o]
      /\ backfill' = backfill \/ (pc[r] = "idle" /\ backfill' = backfill \cup {r})
  BY ClientFrame DEF PubTypeOK
<1>i. pc'[r] # "idle"
  <2>1. CASE r \notin backfill'
    BY <2>1, RunnerGoesOn
  <2>2. CASE r \in backfill'
    <3>1. Own(r)'
      BY OwnStep
    <3> QED BY <2>2, <3>1 DEF Own, BackfillLabel
  <2> QED BY <2>1, <2>2
<1>1. ASSUME NEW o \in Run, o \in backfill' \/ pc'[o] = "idle"
      PROVE  data_runs'[o].meta = NoMeta
  <2>1. CASE o # r
    BY <1>1, <1>f, <2>1 DEF PathsInv
  <2>2. CASE o = r
    <3>1. r \in backfill' /\ (r \in backfill \/ pc[r] = "idle")
      BY <1>1, <1>f, <1>i, <2>2
    <3>2. data_runs[r].meta = NoMeta
      BY <3>1 DEF PathsInv
    <3>3. r \in backfill => pc[r] \in BackfillLabel
      BY DEF FailInv, Own
    <3>4. CASE Publish(r)
      <4>1. Reports(r, "published", NoMeta, "done", "failed") /\ "published" \in State
        BY <3>1, <3>4 DEF Publish, State, StateOrder
      <4> QED BY <2>2, <3>2, <4>1, ReportsTell
    <3>5. CASE ~Publish(r)
      <4>1. ~Progress(r) /\ ~ReportFailure(r)
        BY <3>1, <3>3 DEF Progress, ReportFailure, Stage, BackfillLabel
      <4>2. data_runs' = data_runs
        BY <3>5, <4>1 DEF ClientNext, Start, StartBackfill, Process, StepFails, ReadPrevious,
             CallReload, Answer, LoseAnswer, Rollback, Activate, Kill, registryVars
      <4> QED BY <2>2, <3>2, <4>2
    <3> QED BY <3>4, <3>5
  <2> QED BY <2>1, <2>2
<1>2. ASSUME NEW d, OfRunner(d) PROVE OfRunner(d)'
  BY <1>2, <1>f, <1>i DEF OfRunner
<1>3. UNCHANGED <<served, subPlan>>
  BY DEF ClientNext, Start, StartBackfill, Progress, Process, StepFails, ReadPrevious,
         Publish, CallReload, Answer, LoseAnswer, Rollback, ReportFailure, Kill,
         ClientOnly, replicaVars
<1>4. \A a \in Replica : OfRunner(served[a])' /\ OfRunner(subPlan[a])'
  <2> TAKE a \in Replica
  <2>1. OfRunner(served[a]) /\ OfRunner(subPlan[a])
    BY DEF PathsInv
  <2> QED BY <1>2, <1>3, <2>1 DEF OfRunner
<1>5. ASSUME NEW o \in Run, reload'[o] \in Request
      PROVE  OfRunner(reload[o].snap)' /\ OfRunner(reload[o].plan)'
  <2>1. CASE reload'[o] = reload[o]
    <3>1. OfRunner(reload[o].snap) /\ OfRunner(reload[o].plan)
      BY <1>5, <2>1 DEF PathsInv
    <3> QED BY <1>2, <2>1, <3>1 DEF OfRunner
  <2>2. CASE reload'[o] # reload[o]
    <3>1. CallReload(r) /\ o = r
      BY <2>2 DEF PubTypeOK, ClientNext, Start, StartBackfill, Progress, Process,
           StepFails, ReadPrevious, Publish, CallReload, Answer, LoseAnswer, Rollback,
           ReportFailure, Kill, ClientOnly
    <3>2. PICK a \in Replica :
             reload'[r] = [ at |-> a, step |-> "plan", snap |-> served[a],
                            plan |-> NoData, docs |-> None ]
      BY <2>2, <3>1 DEF CallReload, PubTypeOK
    <3>3. reload'[o].snap = served'[a] /\ reload'[o].plan = NoData
      BY <1>3, <3>1, <3>2
    <3> QED BY <1>4, <3>3 DEF OfRunner, NoData
  <2> QED BY <2>1, <2>2
<1> QED BY <1>1, <1>4, <1>5 DEF PathsInv

LEMMA ClientMoved ==
    ASSUME PubTypeOK, FailInv, MovedInv, NEW r \in Run, ClientNext(r) PROVE MovedInv'
<1> USE NoneIsNoRun
<1>f. /\ \A o \in Run : o # r => pc'[o] = pc[o] /\ prev'[o] = prev[o]
      /\ \A o \in Run : o # r => (o \in backfill' <=> o \in backfill)
      /\ backfill \subseteq backfill'
  BY ClientFrame DEF PubTypeOK
<1>r. /\ r \notin backfill' => r \notin backfill
      /\ \/ active' = active \/ active'.run = r
         \/ pc[r] = "rollback" /\ prev[r] # None /\ active'.run = prev[r]
  BY <1>f, ClientFrame
<1> SUFFICES ASSUME NEW o \in Run, o \notin backfill'
             PROVE  /\ pc'[o] \in Before \ {"published"} => prev'[o] = None
                    /\ pc'[o] = "published" /\ prev'[o] # None
                         => active'.run \in {prev'[o]} \cup backfill'
                    /\ pc'[o] \in {"reload", "answer", "rollback"}
                         => active'.run \in {o} \cup backfill'
  BY DEF MovedInv, Before, Stage
<1>m. /\ pc[o] \in Before \ {"published"} => prev[o] = None
      /\ pc[o] = "published" /\ prev[o] # None => active.run \in {prev[o]} \cup backfill
      /\ pc[o] \in {"reload", "answer", "rollback"} => active.run \in {o} \cup backfill
  BY <1>f DEF MovedInv
<1>1. CASE o = r
  <2>1. ReadPrevious(r) => prev'[r] = active.run \/ prev'[r] = prev[r]
    BY DEF ReadPrevious, PubTypeOK
  <2>2. ReadPrevious(r) => UNCHANGED active
    BY DEF ReadPrevious, registryVars
  <2>3. "previous" \in Before \ {"published"}
    BY DEF Before
  <2> QED BY <1>1, <1>m, <1>f, <2>1, <2>2, <2>3, RunnerGoesOn
<1>2. CASE o # r
  <2>1. CASE active' = active
    BY <1>2, <1>m, <1>f, <2>1
  <2>2. CASE active' # active
    <3>1. CASE r \in backfill'
      <4>1. r \in backfill => pc[r] # "rollback"
        BY DEF FailInv, Own, BackfillLabel
      <4>2. r \notin backfill => pc[r] = "idle"
        BY <3>1, ClientFrame
      <4> QED BY <1>2, <1>m, <1>f, <1>r, <2>2, <3>1, <4>1, <4>2
    <3>2. CASE r \notin backfill'
      <4>1. pc[r] \in {"published", "rollback"}
        BY <2>2, <3>2, RunnerGoesOn
      <4>2. Pair(o, r) /\ o \notin backfill /\ r \notin backfill
        BY <1>2, <1>f, <3>2 DEF FailInv
      <4>3. pc[o] \in Ended
        BY <4>1, <4>2 DEF Pair, Ended
      <4> QED BY <1>2, <1>m, <1>f, <4>3 DEF Ended
    <3> QED BY <3>1, <3>2
  <2> QED BY <2>1, <2>2
<1> QED BY <1>1, <1>2

\* What a client's step leaves of the data that fits an announced target.
LEMMA ClientSettled ==
    ASSUME PubTypeOK, FailInv, SplitInv, StaleInv, NEW r \in Run, ClientNext(r)
    PROVE  SettledInv'
<1> USE NoneIsNoRun
<1>f. /\ \A o \in Run : o # r => pc'[o] = pc[o] /\ prev'[o] = prev[o]
      /\ \A o \in Run : o # r => (o \in backfill' <=> o \in backfill)
      /\ backfill \subseteq backfill'
      /\ r \in backfill' => r \in backfill \/ pc[r] = "idle"
  BY ClientFrame DEF PubTypeOK
<1>u. UNCHANGED <<served, sub, subPlan, inbox, behind>>
  BY DEF ClientNext, Start, StartBackfill, Progress, Process, StepFails, ReadPrevious,
         Publish, CallReload, Answer, LoseAnswer, Rollback, ReportFailure, Kill,
         ClientOnly, replicaVars
<1>q. \A o \in Run : reload'[o] = reload[o] \/ (o = r /\ CallReload(r))
  BY DEF ClientNext, Start, StartBackfill, Progress, Process, StepFails, ReadPrevious,
         Publish, CallReload, Answer, LoseAnswer, Rollback, ReportFailure, Kill,
         ClientOnly, PubTypeOK
<1> SUFFICES ASSUME NEW t \in Run, Target(t)', Announced(t)' PROVE \A a \in Replica : Settled(a, t)'
  BY DEF SettledInv
<1>t. t \notin backfill' /\ t \notin backfill
  BY <1>f DEF Target
<1>b. r \in backfill => pc[r] \in BackfillLabel
  BY DEF FailInv, Own
<1>1. Announced(t)
  <2>1. CASE t = r
    <3>1. r \notin backfill'
      BY <1>t, <2>1
    <3> QED BY <1>q, <2>1, <3>1, RunnerGoesOn DEF Announced, CallReload
  <2>2. CASE t # r
    BY <1>f, <1>q, <2>2 DEF Announced
  <2> QED BY <2>1, <2>2
<1>2. Target(t)
  <2>1. ASSUME active'.run = t PROVE Target(t)
    <3>1. CASE active' = active
      BY <1>t, <2>1, <3>1 DEF Target
    <3>2. CASE active' # active
      <4>1. CASE active'.run = r
        <5>1. t = r /\ r \notin backfill'
          BY <1>t, <2>1, <4>1
        <5>2. pc[r] = "published" \/ (pc[r] = "rollback" /\ prev[r] = r)
          BY <2>1, <3>2, <4>1, <5>1, RunnerGoesOn
        <5>3. prev[r] # r
          BY DEF FailInv, Own
        <5>4. pc[r] = "published"
          BY <5>2, <5>3
        <5> QED BY <1>1, <5>1, <5>4 DEF Announced
      <4>2. CASE active'.run # r
        <5>1. pc[r] = "rollback" /\ prev[r] = t
          BY <2>1, <3>2, <4>2, ClientFrame
        <5>2. Returning(r)
          BY <1>b, <5>1 DEF Returning, BackfillLabel
        <5> QED BY <1>t, <5>1, <5>2 DEF Target
      <4> QED BY <4>1, <4>2
    <3> QED BY <3>1, <3>2
  <2>2. ASSUME NEW o \in Run, Returning(o)', prev'[o] = t PROVE Target(t)
    <3>1. CASE o # r
      <4>1. Returning(o) /\ prev[o] = t
        BY <1>f, <2>2, <3>1 DEF Returning
      <4> QED BY <1>t, <4>1 DEF Target
    <3>2. CASE o = r
      <4>1. r \notin backfill'
        BY <2>2, <3>2 DEF Returning
      <4>2. CASE Returning(r) /\ prev'[r] = prev[r]
        BY <1>t, <2>2, <3>2, <4>2 DEF Target
      <4>3. CASE ReadPrevious(r)
        <5>1. prev'[r] = active.run \/ prev'[r] = prev[r]
          BY <4>3 DEF ReadPrevious, PubTypeOK
        <5>2. prev[r] = None
          BY <4>1, <4>3, RunnerGoesOn DEF StaleInv, MovedInv, ReadPrevious, Before
        <5> QED BY <1>t, <2>2, <3>2, <5>1, <5>2 DEF Target
      <4> QED BY <2>2, <3>2, <4>1, <4>2, <4>3, RunnerGoesOn
    <3> QED BY <3>1, <3>2
  <2>3. (active.run = t \/ \E o \in Run : Returning(o) /\ prev[o] = t)'
    BY DEF Target
  <2> QED BY <2>1, <2>2, <2>3
<1>3. ASSUME NEW x \in Run, x # t, Losing(x) PROVE Losing(x)'
  <2>1. x \notin backfill'
    BY <1>3, <1>f DEF Losing
  <2>2. CASE x # r
    BY <1>3, <1>f, <2>1, <2>2 DEF Losing
  <2>3. CASE x = r /\ ~Losing(r)'
    <3>1. pc'[r] = "done" /\ pc[r] = "answer"
      BY <1>3, <2>1, <2>3, RunnerGoesOn
    <3>2. active' = active
      BY <2>1, <2>3, <3>1, RunnerGoesOn
    <3>3. active.run \in {r} \cup backfill
      BY <2>1, <2>3, <3>1, <1>f DEF StaleInv, MovedInv
    <3>4. PICK o \in Run : Returning(o)' /\ prev'[o] = t
      BY <1>3, <1>t, <2>3, <3>2, <3>3 DEF Target
    <3>5. o # r /\ o \notin backfill /\ r \notin backfill /\ pc[o] \notin Ended
      BY <1>f, <2>1, <2>3, <3>1, <3>4 DEF Returning, Ended
    <3>6. Pair(o, r)
      BY <3>5 DEF FailInv
    <3> QED BY <3>1, <3>5, <3>6 DEF Pair, Ended
  <2> QED BY <2>2, <2>3
<1>4. ASSUME NEW d \in Data, Suits(d, t) PROVE Suits(d, t)'
  <2>1. d.run \in Run \/ d.run = None
    BY DEF Data, MaybeRun
  <2> QED BY <1>3, <1>4, <2>1 DEF Suits
<1>5. ASSUME NEW a \in Replica, Requested(a) PROVE Requested(a)'
  <2>1. PICK o \in Run : /\ reload[o] \in Request /\ reload[o].at = a
                         /\ reload[o].step \notin {"plan", "load"}
    BY <1>5 DEF Requested
  <2>2. reload'[o] = reload[o] \/ (o = r /\ CallReload(r))
    BY <1>q
  <2>3. CallReload(r) => reload[r].step = "none"
    BY DEF CallReload, SplitInv, NotCalled
  <2>4. reload[o].step # "none"
    BY <2>1 DEF Request
  <2> QED BY <2>1, <2>2, <2>3, <2>4 DEF Requested
<1> TAKE a \in Replica
<1>6. Settled(a, t)
  BY <1>1, <1>2 DEF StaleInv, SettledInv
<1>7. served[a] \in Data /\ subPlan[a] \in Data
  BY DEF PubTypeOK
<1>8. (Suits(served[a], t) => Suits(served[a], t)') /\ (Suits(subPlan[a], t) => Suits(subPlan[a], t)')
  BY <1>4, <1>7, <1>u DEF Suits
<1> QED BY <1>5, <1>6, <1>8, <1>u DEF Settled, Loading

\* What was loaded from the pointer, or is the pointer's run, fits every target.
LEMMA ActiveFits ==
    ASSUME StaleInv, NEW t \in Run, Target(t),
           NEW d \in Data, OfRunner(d), d.run = active.run
    PROVE  Suits(d, t)
<1> USE NoneIsNoRun
<1>1. CASE d.from = "latest" \/ active.run = None \/ active.run = t
  BY <1>1 DEF Suits
<1>2. CASE d.from = "run" /\ active.run # None /\ active.run # t
  <2>1. d.run \in Run \ backfill
    BY <1>2 DEF OfRunner
  <2>2. PICK r \in Run : Returning(r) /\ prev[r] = t
    BY <1>2 DEF Target
  <2>3. pc[r] \in {"reload", "answer", "rollback"} /\ d.run = r
    BY <1>2, <2>1, <2>2 DEF StaleInv, MovedInv, Returning
  <2> QED BY <1>2, <2>1, <2>3 DEF Suits, Losing
<1> QED BY <1>1, <1>2 DEF Data

\* A usable pointer names a runner's run.
LEMMA UsableIsOfRunner ==
    ASSUME PubTypeOK, ActiveMirrorsRun, StaleInv, active # NoPointer, Usable
    PROVE  active.run \in Run \ backfill /\ OfRunner(Pointed)
<1>1. active.run \in Run /\ MetaOf[active.run] # NoMeta
  BY PointerInRun, PublicationAssumption
<1>2. data_runs[active.run].meta # NoMeta
  BY <1>1 DEF ActiveMirrorsRun, Usable
<1> QED BY <1>1, <1>2 DEF StaleInv, PathsInv, OfRunner, Pointed

LEMMA SamePointer ==
    ASSUME UNCHANGED <<registryVars, clientVars>>, NEW t \in Run
    PROVE  /\ Target(t)' <=> Target(t)
           /\ \A d : (Suits(d, t) <=> Suits(d, t)')
BY DEF registryVars, clientVars, Target, Returning, Suits, Losing

LEMMA SamePaths ==
    ASSUME UNCHANGED <<registryVars, clientVars>>, StaleInv,
           \A a \in Replica : OfRunner(served'[a]) /\ OfRunner(subPlan'[a]),
           \A r \in Run : reload'[r] \in Request
               => OfRunner(reload'[r].snap) /\ OfRunner(reload'[r].plan)
    PROVE  PathsInv' /\ MovedInv'
BY DEF registryVars, clientVars, StaleInv, PathsInv, MovedInv, OfRunner

\* What a load leaves fits where the plan does.
LEMMA LoadFits ==
    ASSUME PubTypeOK, NEW a \in Replica, NEW plan \in Data, OfRunner(plan), Load(a, plan)
    PROVE  /\ \A b \in Replica : b # a => served'[b] = served[b]
           /\ OfRunner(served'[a])
           /\ \A t \in Run : Suits(plan, t) => Suits(served'[a], t)
<1>1. served'[a] \in {Files(plan), [plan EXCEPT !.run = None]}
      /\ \A b \in Replica : b # a => served'[b] = served[b]
  BY DEF Load, PubTypeOK
<1>2. /\ OfRunner(Files(plan)) /\ OfRunner([plan EXCEPT !.run = None])
      /\ \A t \in Run : Suits(plan, t) => Suits(Files(plan), t)
      /\ \A t \in Run : Suits([plan EXCEPT !.run = None], t)
  BY DEF Files, OfRunner, Suits, Data
<1> QED BY <1>1, <1>2

\* What a failed reload puts back fits every target, or the replica is behind.
LEMMA RestoredFits ==
    ASSUME PubTypeOK, StaleInv, NEW r \in Run, reload[r] \in Request, Restored(r),
           UNCHANGED <<registryVars, clientVars>>
    PROVE  /\ \A b \in Replica : b # reload[r].at =>
                 served'[b] = served[b] /\ behind'[b] = behind[b]
           /\ OfRunner(served'[reload[r].at])
           /\ behind[reload[r].at] => behind'[reload[r].at]
           /\ \A t \in Run : Target(t) =>
                 behind'[reload[r].at] \/ Suits(served'[reload[r].at], t)
<1> DEFINE a == reload[r].at
           d == reload[r].snap
<1>1. a \in Replica /\ d \in Data /\ OfRunner(d)
  BY DEF Request, StaleInv, PathsInv
<1>2. /\ served' = [served EXCEPT ![a] = d]
      /\ behind' = [behind EXCEPT ![a] = behind[a] \/ d.run # active.run]
  BY DEF Restored
<1>3. /\ served'[a] = d
      /\ \A b \in Replica : b # a => served'[b] = served[b] /\ behind'[b] = behind[b]
  BY <1>1, <1>2 DEF PubTypeOK
<1>4. behind'[a] = (behind[a] \/ d.run # active.run)
  BY <1>1, <1>2, Zenon DEF PubTypeOK
<1>5. \A t \in Run : Target(t) /\ d.run = active.run => Suits(d, t)
  BY <1>1, ActiveFits
<1> QED BY <1>1, <1>3, <1>4, <1>5

LEMMA ReloadStale ==
    ASSUME PubTypeOK, ActiveMirrorsRun, StaleInv, NEW r \in Run, ReloadNext(r)
    PROVE  StaleInv'
<1>1. /\ UNCHANGED <<registryVars, clientVars>> /\ UNCHANGED <<sub, subPlan>>
      /\ UNCHANGED inbox \/ Announce(r)
      /\ reload[r].step \notin {"none", "ok", "failed"}
  BY DEF ReloadNext, ReloadPlan, ReloadLoad, ReloadCheck, SyncTable, SwapIndex,
         CountDocuments, Announce, RequestOnly
<1>2. reload[r] \in Request
  BY <1>1, RequestByStep
<1> DEFINE a == reload[r].at
<1>3. /\ a \in Replica /\ reload[r].plan \in Data
      /\ OfRunner(reload[r].snap) /\ OfRunner(reload[r].plan)
  BY <1>2 DEF Request, StaleInv, PathsInv
<1>4. /\ \A o \in Run : o # r => reload'[o] = reload[o]
      /\ reload'[r].step = "ok" <=> Announce(r)
  <2>1. Failed.step = "failed"
    BY DEF Failed
  <2> QED BY <1>2, <2>1 DEF ReloadNext, ReloadPlan, ReloadLoad, ReloadCheck, SyncTable, SwapIndex,
       CountDocuments, Announce, Restored, Step, PubTypeOK, Request
<1>5. \/ Restored(r)
      \/ UNCHANGED <<served, behind>>
      \/ UNCHANGED behind /\ ReloadLoad(r)
      \/ UNCHANGED served /\ Announce(r)
  BY DEF ReloadNext, ReloadPlan, ReloadLoad, ReloadCheck, SyncTable, SwapIndex,
         CountDocuments, Announce, RequestOnly
<1>6. \A b \in Replica : OfRunner(served'[b])
  <2>0. \A b \in Replica : OfRunner(served[b])
    BY DEF StaleInv, PathsInv
  <2>1. CASE Restored(r)
    BY <1>1, <1>2, <2>0, <2>1, RestoredFits
  <2>2. CASE ReloadLoad(r)
    <3>1. Load(a, reload[r].plan)
      BY <2>2 DEF ReloadLoad
    <3> QED BY <1>3, <2>0, <3>1, LoadFits
  <2>3. CASE UNCHANGED served
    BY <2>0, <2>3
  <2> QED BY <1>5, <2>1, <2>2, <2>3
<1>7. ASSUME NEW o \in Run, reload'[o] \in Request
      PROVE  OfRunner(reload'[o].snap) /\ OfRunner(reload'[o].plan)
  <2>1. CASE o # r
    BY <1>4, <1>7, <2>1 DEF StaleInv, PathsInv
  <2>2. CASE o = r
    <3>1. Failed \notin Request /\ \A d : [step |-> "ok", docs |-> d] \notin Request
      BY DEF Failed, Request
    <3>2. \/ reload'[r].snap = reload[r].snap /\ reload'[r].plan = reload[r].plan
          \/ /\ reload'[r].snap = reload[r].snap
             /\ \/ reload'[r].plan = Configured
                \/ active # NoPointer /\ Usable /\ reload'[r].plan = Pointed
      BY <1>2, <1>7, <2>2, <3>1
         DEF ReloadNext, ReloadPlan, ReloadLoad, ReloadCheck, SyncTable, SwapIndex,
             CountDocuments, Announce, Restored, Step, PubTypeOK, Request
    <3>3. OfRunner(Configured)
      BY DEF OfRunner, Configured
    <3> QED BY <1>3, <2>2, <3>2, <3>3, UsableIsOfRunner
  <2> QED BY <2>1, <2>2
<1>8. PathsInv' /\ MovedInv'
  <2>1. \A b \in Replica : OfRunner(subPlan'[b])
    BY <1>1 DEF StaleInv, PathsInv
  <2> QED BY <1>1, <1>6, <1>7, <2>1, SamePaths
<1>9. ASSUME NEW t \in Run, Target(t)', Announced(t)', NEW b \in Replica PROVE Settled(b, t)'
  <2>1. Target(t) /\ \A d : (Suits(d, t) <=> Suits(d, t)')
    BY <1>1, <1>9, SamePointer
  <2>2. CASE Announce(r)
    <3>1. behind'[b] \/ inbox'[b] > 0
      <4>1. inbox[b] \in Nat
        BY DEF PubTypeOK
      <4>2. CASE behind' = [x \in Replica |-> TRUE]
        BY <4>2
      <4>3. CASE /\ inbox' = [x \in Replica |-> IF Hears(x) THEN inbox[x] + 1 ELSE inbox[x]]
                 /\ behind' = [x \in Replica |-> behind[x] \/ ~Hears(x)]
        <5>1. CASE Hears(b)
          BY <4>1, <4>3, <5>1
        <5>2. CASE ~Hears(b)
          <6>1. behind'[b] = (behind[b] \/ ~Hears(b))
            BY <4>3, Zenon
          <6> QED BY <5>2, <6>1
        <5> QED BY <5>1, <5>2
      <4> QED BY <2>2, <4>2, <4>3 DEF Announce
    <3> QED BY <3>1 DEF Settled
  <2>3. CASE ~Announce(r)
    <3>1. Announced(t)
      BY <1>1, <1>4, <1>9, <2>3 DEF Announced, clientVars
    <3>2. Settled(b, t)
      BY <2>1, <3>1 DEF StaleInv, SettledInv
    <3>3. inbox' = inbox
      BY <1>1, <2>3
    <3>4. CASE b = a /\ Restored(r)
      <4>1. (behind[b] => behind'[b]) /\ (behind'[b] \/ Suits(served'[b], t))
        BY <1>1, <1>2, <2>1, <3>4, RestoredFits
      <4>2. Suits(served'[b], t) => Suits(served[b], t)'
        BY <1>1, Zenon DEF Suits, Losing, clientVars
      <4>3. Suits(subPlan[b], t) => Suits(subPlan[b], t)'
        BY <1>1, Zenon DEF Suits, Losing, clientVars
      <4> QED BY <1>1, <3>2, <3>3, <4>1, <4>2, <4>3 DEF Settled, Loading
    <3>5. CASE b = a /\ ReloadLoad(r) /\ UNCHANGED behind
      <4>1. reload'[r] \in Request /\ reload'[r].at = a /\ reload'[r].step = "check"
        BY <1>2, <3>5 DEF ReloadLoad, Step, PubTypeOK, Request
      <4>2. Requested(b)'
        BY <3>5, <4>1 DEF Requested
      <4>3. Suits(subPlan[b], t) => Suits(subPlan[b], t)'
        BY <1>1, Zenon DEF Suits, Losing, clientVars
      <4> QED BY <1>1, <3>2, <3>3, <3>5, <4>2, <4>3 DEF Settled, Loading
    <3>6. CASE ~Restored(r) /\ ~ReloadLoad(r)
      <4>1. UNCHANGED <<served, behind>>
        BY <1>5, <2>3, <3>6
      <4>2. Requested(b) => Requested(b)'
        <5>1. ASSUME Requested(b) PROVE Requested(b)'
          <6>1. PICK o \in Run : /\ reload[o] \in Request /\ reload[o].at = b
                                 /\ reload[o].step \notin {"plan", "load"}
            BY <5>1 DEF Requested
          <6>2. CASE o # r
            BY <1>4, <6>1, <6>2 DEF Requested
          <6>3. CASE o = r
            <7>1. ReloadCheck(r) \/ SyncTable(r) \/ SwapIndex(r) \/ CountDocuments(r)
              BY <2>3, <3>6, <6>1, <6>3 DEF ReloadNext, ReloadPlan
            <7>2. \E step \in {"table", "index", "count", "announce"} : reload'[r].step = step
              BY <1>2, <3>6, <7>1 DEF ReloadCheck, SyncTable, SwapIndex, CountDocuments, Step,
                   PubTypeOK, Request
            <7>3. reload'[r] \in Request /\ reload'[r].at = reload[r].at
              <8>1. reload' \in [Run -> Request \cup Executed \cup {NoRequest}]
                BY ReloadTypes DEF PubTypeOK
              <8>2. reload'[r] \in Request
                BY <7>2, <8>1 DEF Executed, NoRequest
              <8> QED BY <1>2, <3>6, <7>1, <8>2 DEF ReloadCheck, SyncTable, SwapIndex,
                    CountDocuments, Step, PubTypeOK, Request
            <7> QED BY <6>1, <6>3, <7>2, <7>3 DEF Requested
          <6> QED BY <6>2, <6>3
        <5> QED BY <5>1
      <4>3. /\ Suits(subPlan[b], t) => Suits(subPlan[b], t)'
            /\ Suits(served[b], t) => Suits(served[b], t)'
        BY <1>1, <4>1, Zenon DEF Suits, Losing, clientVars
      <4> QED BY <1>1, <3>2, <3>3, <4>1, <4>2, <4>3 DEF Settled, Loading
    <3>7. CASE b # a /\ (Restored(r) \/ ReloadLoad(r))
      <4>1. served'[b] = served[b] /\ behind'[b] = behind[b]
        <5>1. CASE Restored(r)
          BY <1>1, <1>2, <3>7, <5>1, RestoredFits
        <5>2. CASE ReloadLoad(r)
          <6>1. Load(a, reload[r].plan) /\ UNCHANGED behind
            BY <5>2 DEF ReloadLoad
          <6> QED BY <1>3, <3>7, <6>1, LoadFits
        <5> QED BY <3>7, <5>1, <5>2
      <4>2. Requested(b) => Requested(b)'
        <5>1. \A o \in Run : reload[o].at = b => o # r
          BY <3>7
        <5> QED BY <1>4, <5>1 DEF Requested
      <4>3. /\ Suits(subPlan[b], t) => Suits(subPlan[b], t)'
            /\ Suits(served[b], t) => Suits(served[b], t)'
        BY <1>1, <4>1, Zenon DEF Suits, Losing, clientVars
      <4> QED BY <1>1, <3>2, <3>3, <4>1, <4>2, <4>3 DEF Settled, Loading
    <3>8. ReloadLoad(r) => UNCHANGED behind
      BY DEF ReloadLoad
    <3> QED BY <3>4, <3>5, <3>6, <3>7, <3>8
  <2> QED BY <2>2, <2>3
<1> QED BY <1>8, <1>9 DEF StaleInv, SettledInv

LEMMA ReplicaStale ==
    ASSUME PubTypeOK, ActiveMirrorsRun, StaleInv, NEW a \in Replica, ReplicaNext(a)
    PROVE  StaleInv'
<1>1. UNCHANGED <<registryVars, clientVars>>
  BY DEF ReplicaNext, Boot, BootLoad, Subscribe, Receive, SubscriberLoad, SubscriberCheck,
         LoseSubscription, Crash, ReplicaOnly
<1>2. \A b \in Replica : b # a =>
         /\ sub'[b] = sub[b] /\ inbox'[b] = inbox[b] /\ behind'[b] = behind[b]
         /\ served'[b] = served[b] /\ subPlan'[b] = subPlan[b]
  BY DEF ReplicaNext, Boot, BootLoad, Subscribe, Receive, SubscriberLoad, SubscriberCheck,
         LoseSubscription, Crash, Lives, Load, PlanFor, PlanDone, Ends, PubTypeOK
<1>3. \A o \in Run :
         \/ reload'[o] = reload[o]
         \/ reload[o] \in Request /\ reload[o].at = a /\ reload'[o] = Failed /\ Crash(a)
  BY DEF ReplicaNext, Boot, BootLoad, Subscribe, Receive, SubscriberLoad, SubscriberCheck,
         LoseSubscription, Crash, ReplicaOnly, PubTypeOK
<1>4. Failed \notin Request /\ Failed.step = "failed"
  BY DEF Failed, Request
<1>p. /\ subPlan[a] \in Data /\ OfRunner(subPlan[a]) /\ OfRunner(served[a])
      /\ inbox[a] \in Nat /\ behind[a] \in BOOLEAN
  BY DEF PubTypeOK, StaleInv, PathsInv
<1>n. OfRunner(NoData) /\ OfRunner(Configured) /\ \A t \in Run : Suits(NoData, t) /\ Suits(Configured, t)
  BY DEF OfRunner, Suits, NoData, Configured
<1>5. ASSUME PlanFor(a)
      PROVE  OfRunner(subPlan'[a]) /\ \A t \in Run : Target(t) => Suits(subPlan'[a], t)
  <2>1. \/ subPlan'[a] = Configured
        \/ active # NoPointer /\ Usable /\ subPlan'[a] = Pointed
    BY <1>5 DEF PlanFor, PubTypeOK
  <2>2. active # NoPointer /\ Usable =>
           /\ OfRunner(Pointed) /\ Pointed \in Data /\ Pointed.run = active.run
    BY UsableIsOfRunner, PlanTypes DEF Pointed
  <2> QED BY <1>n, <2>1, <2>2, ActiveFits
<1>6. ASSUME Load(a, subPlan[a])
      PROVE  /\ OfRunner(served'[a])
             /\ \A t \in Run : Suits(subPlan[a], t) => Suits(served'[a], t)
  BY <1>6, <1>p, LoadFits
<1>7. PathsInv' /\ MovedInv'
  <2>1. PlanFor(a) \/ subPlan'[a] \in {subPlan[a], NoData}
    BY DEF ReplicaNext, Boot, BootLoad, Subscribe, Receive, SubscriberLoad, SubscriberCheck,
           LoseSubscription, Crash, PlanDone, PubTypeOK
  <2>2. Load(a, subPlan[a]) \/ served'[a] \in {served[a], NoData}
    BY DEF ReplicaNext, Boot, BootLoad, Subscribe, Receive, SubscriberLoad, SubscriberCheck,
           LoseSubscription, Crash, PubTypeOK
  <2>3. OfRunner(served'[a]) /\ OfRunner(subPlan'[a])
    BY <1>5, <1>6, <1>n, <1>p, <2>1, <2>2
  <2>4. \A b \in Replica : OfRunner(served'[b]) /\ OfRunner(subPlan'[b])
    BY <1>2, <2>3 DEF StaleInv, PathsInv
  <2>5. \A o \in Run : reload'[o] \in Request =>
           OfRunner(reload'[o].snap) /\ OfRunner(reload'[o].plan)
    BY <1>3, <1>4 DEF StaleInv, PathsInv
  <2> QED BY <1>1, <2>4, <2>5, SamePaths
<1>8. ASSUME NEW t \in Run, Target(t)', Announced(t)', NEW b \in Replica PROVE Settled(b, t)'
  <2>1. Target(t)
    BY <1>1, <1>8, SamePointer
  <2>2. Announced(t)
    BY <1>1, <1>3, <1>4, <1>8 DEF Announced, clientVars
  <2>3. Settled(b, t)
    BY <2>1, <2>2 DEF StaleInv, SettledInv
  <2>f. /\ Suits(served'[b], t) => Suits(served[b], t)'
        /\ Suits(subPlan'[b], t) => Suits(subPlan[b], t)'
    BY <1>1, Zenon DEF Suits, Losing, clientVars
  <2>r. b # a \/ ~Crash(a) => (Requested(b) => Requested(b)')
    BY <1>3 DEF Requested
  <2>4. CASE b # a
    BY <1>2, <2>3, <2>4, <2>f, <2>r DEF Settled, Loading
  <2>5. CASE b = a
    <3>1. CASE PlanFor(a) /\ (Boot(a) \/ Receive(a))
      <4>1. sub'[a] \in {"booting", "loading"}
        BY <3>1 DEF Boot, Receive, Lives, PubTypeOK
      <4> QED BY <1>5, <2>1, <2>5, <2>f, <3>1, <4>1 DEF Settled, Loading
    <3>2. CASE BootLoad(a) \/ SubscriberLoad(a)
      <4>1. /\ sub[a] \in {"booting", "loading"} /\ sub'[a] \in {"booted", "down", "loaded"}
            /\ Load(a, subPlan[a]) /\ UNCHANGED <<inbox, behind>>
        BY <3>2 DEF BootLoad, SubscriberLoad, Lives, PubTypeOK
      <4> QED BY <1>6, <2>3, <2>5, <2>f, <4>1 DEF Settled, Loading
    <3>3. CASE Subscribe(a)
      <4>1. sub[a] = "booted" /\ sub'[a] = "listening" /\ UNCHANGED <<inbox, behind, served>>
        BY <3>3 DEF Subscribe, Lives, PubTypeOK
      <4>2. ~Crash(a)
        BY <4>1 DEF Crash, PubTypeOK
      <4> QED BY <2>3, <2>5, <2>f, <2>r, <4>1, <4>2 DEF Settled, Loading
    <3>4. CASE SubscriberCheck(a) \/ LoseSubscription(a)
      <4>1. /\ sub[a] \in {"loaded", "listening"} /\ sub'[a] \in {"stopped", "listening"}
            /\ UNCHANGED served
            /\ Ends(a) \/ UNCHANGED <<inbox, behind>>
        BY <3>4 DEF SubscriberCheck, LoseSubscription, Ends, Lives, PubTypeOK
      <4>2. ~Crash(a)
        BY <4>1 DEF Crash, PubTypeOK
      <4>3. behind[a] \/ inbox[a] > 0 => behind'[a] \/ inbox'[a] > 0
        <5>1. CASE Ends(a)
          <6>1. behind'[a] = (behind[a] \/ inbox[a] > 0)
            BY <5>1, Zenon DEF Ends, PubTypeOK
          <6> QED BY <6>1
        <5> QED BY <4>1, <5>1
      <4> QED BY <2>3, <2>5, <2>f, <2>r, <4>1, <4>2, <4>3 DEF Settled, Loading
    <3>5. CASE Crash(a)
      <4>1. sub'[a] = "down" /\ served'[a] = NoData
        BY <3>5 DEF Crash, PubTypeOK
      <4> QED BY <1>n, <2>5, <2>f, <4>1 DEF Settled, Loading
    <3> QED BY <3>1, <3>2, <3>3, <3>4, <3>5 DEF ReplicaNext, Boot, Receive
  <2> QED BY <2>4, <2>5
<1> QED BY <1>7, <1>8 DEF StaleInv, SettledInv

\* When the runners take the refresh lock: once nothing is under way and the client
\* of the active run has succeeded, a replica serves that run, or is behind, uses the
\* configured paths or took the run of a client that failed; for any number of
\* runners, backfills, replicas and faults.
THEOREM StaleIsExplained ==
    ASSUME Refresh PROVE PubSpec => []StaleOnlyIfExplained
<1>1. PubInit => StaleInv
  <2> SUFFICES ASSUME PubInit PROVE StaleInv
    OBVIOUS
  <2>1. /\ \A a \in Replica : OfRunner(served[a]) /\ OfRunner(subPlan[a])
        /\ \A r \in Run : reload[r] \notin Request
    BY DEF PubInit, OfRunner, NoData, NoRequest, Request
  <2>2. PathsInv /\ MovedInv
    BY <2>1 DEF PubInit, Init, NoRun, PathsInv, MovedInv
  <2>3. \A t \in Run : ~Announced(t)
    BY DEF PubInit, Announced
  <2> QED BY <2>2, <2>3 DEF StaleInv, SettledInv
<1>2. ASSUME PubTypeOK, FailInv, SplitInv, RegistryInv, StaleInv, [PubNext]_vars PROVE StaleInv'
  <2>1. CASE UNCHANGED vars
    BY <1>2, <2>1 DEF vars, registryVars, clientVars, replicaVars, StaleInv, PathsInv, MovedInv,
         SettledInv, Settled, Target, Announced, Returning, Losing, Suits, Requested, Loading, OfRunner
  <2>2. ASSUME NEW r \in Run, ClientNext(r) PROVE StaleInv'
    BY <1>2, <2>2, ClientPaths, ClientMoved, ClientSettled DEF StaleInv
  <2> QED BY <1>2, <2>1, <2>2, ReloadStale, ReplicaStale DEF PubNext, RegistryInv
<1>3. ASSUME PubTypeOK, RegistryInv, StaleInv PROVE StaleOnlyIfExplained
  <2> SUFFICES ASSUME Quiet, active # NoPointer, Usable, pc[active.run] = "done",
                      NEW a \in Replica
               PROVE  \/ served[a].run \in {active.run, None}
                      \/ behind[a] \/ served[a].from = "latest" \/ pc[served[a].run] = "failed"
    BY DEF StaleOnlyIfExplained
  <2>1. active.run \in Run \ backfill
    BY <1>3, UsableIsOfRunner DEF RegistryInv
  <2>2. Settled(a, active.run)
    BY <1>3, <2>1 DEF StaleInv, SettledInv, Target, Announced
  <2>3. ~Requested(a) /\ ~Loading(a) /\ ~(inbox[a] > 0)
    <3>1. inbox[a] = 0 /\ sub[a] \in {"listening", "stopped"}
      BY DEF Quiet
    <3>2. \A r \in Run : reload[r] \notin Request
      BY DEF Quiet, Request
    <3> QED BY <3>1, <3>2 DEF Requested, Loading
  <2>4. Losing(served[a].run) => pc[served[a].run] = "failed"
    BY DEF Losing, Quiet, Ended
  <2> QED BY <2>2, <2>3, <2>4 DEF Settled, Suits
<1> QED BY <1>1, <1>2, <1>3, FailHolds, SplitHolds, PubTypes, PointerIsConsistent, PTL DEF PubSpec

-----------------------------------------------------------------------------
(* The publisher of the backfill                                           *)

PublishSpec == PublishInit /\ [][PublishNext]_publishVars

PublishLabel ==
    { "day", "previous", "latest", "state", "gate", "run", "link", "table", "drop", "fill",
      "reload", "publish", "success", "materialized", "failed" }

PublishOption == [ max : Selected, force : BOOLEAN, allow : BOOLEAN,
                   pipeline : BOOLEAN, direct : BOOLEAN, reload : BOOLEAN ]

PublishCall ==
    [ at : PublishLabel, n : Selected, day : Selected, option : PublishOption,
      raced : BOOLEAN, marked : SUBSET ({0} \cup Selected), state : 0..LastDay,
      before : 0..Daily, documents : 0..Daily ]

SemanticTypes == {"forensic", "historical", "current"}

RawState == [ days : 0..LastDay, type : SemanticTypes \cup {"none"},
              status : {"none", "pending", "success", "materialized", "failed"} ]

PublishTypes ==
    /\ completed \in 0..LastDay /\ marked \subseteq {0} \cup Selected
    /\ raw \in [newest : 0..LastDay, previous : 0..LastDay, state : RawState]
    /\ script = Off \/ script \in PublishCall
    /\ processed \in [Selected -> SemanticTypes \cup {"none"}]
    /\ link \in 0..Daily /\ pointer \in 0..Daily
    /\ entries \in [of : 0..Daily, named : 0..Daily]
    /\ documents \in [of : 0..Daily, whole : BOOLEAN]
    /\ torn \subseteq {"state", "label", "index"}

\* The raw file is the one that state.json names, unless a call stopped between the two.
FilesInv ==
    /\ script.at # "state" /\ "state" \notin torn => raw.newest = raw.state.days
    /\ raw.newest = 0 => raw.previous = 0
    /\ raw.state.status = "success" => raw.state.days \in Selected

\* Where a call has not written state.json yet, and where its run has been linked.
Early  == {"day", "previous", "latest", "state"}
Linked == {"table", "drop", "fill", "reload", "publish", "success"}

\* The markers that were there when a call began have been looked at, day by day.
LookedAt == IF script.at = "day" THEN script.day - 1 ELSE script.n

MarkersInv ==
    script # Off =>
        /\ script.marked \subseteq marked /\ script.day <= script.n
        /\ ~script.option.allow => script.marked \cap (0..LookedAt) = {}

\* What a call has established of the raw files and of its run.
ScriptInv ==
    script # Off =>
        /\ script.at \in Early => script.state = raw.state.days
        /\ script.at \in {"latest", "state"} /\ "state" \notin torn => raw.previous = script.state
        /\ script.at = "state" => raw.newest = script.n
        /\ script.at \notin Early =>
               /\ raw.state.days = script.n /\ raw.state.status = "pending"
               /\ raw.state.type = SemanticType
        /\ script.at \in Linked \cup {"link"} => processed[script.n] = SemanticType
        /\ script.at \in {"reload", "publish"} => script.option.reload

\* What it may rely on as long as nothing has raced it.
SearchHasRun ==
    /\ script.option.direct \/ script.option.reload
    /\ script.option.reload => script.before = 0
    => entries.of = script.n /\ documents.of = script.n

UnracedInv ==
    script # Off /\ ~script.raced =>
        /\ script.at \in Linked => link = script.n
        /\ script.at \in {"drop", "fill"} => entries.of = script.n /\ script.documents = script.n
        /\ script.at \notin {"success", "failed"} => pointer = script.before
        /\ script.at \in {"publish", "success"} => SearchHasRun

PublishInv ==
    /\ PublishTypes /\ FilesInv /\ MarkersInv /\ ScriptInv /\ UnracedInv
    /\ PublishedWasProcessed /\ SearchIsWhole

LEMMA InvIsSound == PublishInv => PublishIsSound
BY DEF PublishInv, PublishIsSound, MarkedIsForensic, DeltaIsToLast, SearchIsOfRun, ScriptAt,
       FilesInv, MarkersInv, ScriptInv, UnracedInv, PublishTypes, SemanticType, SearchHasRun, LookedAt,
       PublishCall, PublishLabel, PublishOption, Off

LEMMA OffIsNoCall == Off \notin PublishCall /\ (\A c \in PublishCall : c.at # "off") /\ Off.at = "off"
BY DEF PublishCall, PublishLabel, Off

LEMMA SemanticTypeType == SemanticType \in SemanticTypes
BY DEF SemanticType, SemanticTypes

LEMMA SelectedNumbers == LastDay \in Nat \ {0} /\ Daily = LastDay + 1 /\ Selected = 1..LastDay
BY PublishAssumption DEF Daily, Selected

\* What Goes does to the record of the call.
GoneTo(label) ==
    /\ script' \in PublishCall /\ script'.at = label
    /\ script'.n = script.n /\ script'.day = script.day /\ script'.option = script.option
    /\ script'.raced = script.raced /\ script'.marked = script.marked
    /\ script'.state = script.state /\ script'.before = script.before
    /\ script'.documents = script.documents
    /\ script' # Off /\ script # Off /\ script \in PublishCall

LEMMA Going ==
    ASSUME PublishInv, script # Off, NEW label \in PublishLabel, Goes(label) PROVE GoneTo(label)
<1>1. script \in PublishCall
  BY DEF PublishInv, PublishTypes
<1>2. /\ script' \in PublishCall /\ script'.at = label
      /\ script'.n = script.n /\ script'.day = script.day /\ script'.option = script.option
      /\ script'.raced = script.raced /\ script'.marked = script.marked
      /\ script'.state = script.state /\ script'.before = script.before
      /\ script'.documents = script.documents
  BY <1>1 DEF Goes, PublishCall
<1> QED BY <1>1, <1>2, OffIsNoCall DEF GoneTo

\* A raced call is held to less.
LEMMA Racing ==
    ASSUME PublishInv, Races
    PROVE  \/ script = Off /\ script' = Off
           \/ /\ GoneTo(script.at) \/ script'.raced
              /\ script # Off /\ script' # Off /\ script' \in PublishCall
              /\ script'.at = script.at /\ script'.n = script.n /\ script'.day = script.day
              /\ script'.option = script.option /\ script'.marked = script.marked
              /\ script'.state = script.state /\ script'.raced
<1>1. CASE script = Off
  BY <1>1 DEF Races
<1>2. CASE script # Off
  <2>1. script \in PublishCall /\ script' = [script EXCEPT !.raced = TRUE]
    BY <1>2 DEF PublishInv, PublishTypes, Races
  <2>2. /\ script' \in PublishCall
        /\ script'.at = script.at /\ script'.n = script.n /\ script'.day = script.day
        /\ script'.option = script.option /\ script'.marked = script.marked
        /\ script'.state = script.state /\ script'.raced
    BY <2>1 DEF PublishCall
  <2> QED BY <1>2, <2>2, OffIsNoCall
<1> QED BY <1>1, <1>2

-----------------------------------------------------------------------------

LEMMA BucketKeeps ==
    ASSUME PublishInv, CompleteDay \/ \E which \in {0} \cup Selected : Quarantine(which)
    PROVE  PublishInv'
<1>1. /\ UNCHANGED <<cache, raw, script, processed, link, pointer, entries, documents, torn>>
      /\ marked \subseteq marked' /\ marked' \subseteq {0} \cup Selected
      /\ completed' \in 0..LastDay
  <2>1. CASE CompleteDay
    BY <2>1, SelectedNumbers
    DEF PublishInv, PublishTypes, CompleteDay, BucketOnly, rawVars, serveVars
  <2>2. ASSUME NEW which \in {0} \cup Selected, Quarantine(which)
        PROVE  /\ UNCHANGED <<completed, cache, raw, script, processed, link, pointer, entries,
                              documents, torn>>
               /\ marked' = marked \cup {which}
    BY <2>2 DEF Quarantine, BucketOnly, rawVars, serveVars
  <2>3. completed \in 0..LastDay /\ marked \subseteq {0} \cup Selected
    BY DEF PublishInv, PublishTypes
  <2>4. CASE \E which \in {0} \cup Selected : Quarantine(which)
    <3>1. PICK which \in {0} \cup Selected : Quarantine(which)
      BY <2>4
    <3> QED BY <2>2, <2>3, <3>1
  <2> QED BY <2>1, <2>4
<1>2. PublishTypes' /\ FilesInv' /\ PublishedWasProcessed' /\ SearchIsWhole'
  BY <1>1 DEF PublishInv, PublishTypes, FilesInv, PublishedWasProcessed, SearchIsWhole
<1>3. MarkersInv' /\ ScriptInv' /\ UnracedInv'
  BY <1>1 DEF PublishInv, MarkersInv, ScriptInv, UnracedInv, LookedAt, SemanticType, SearchHasRun
<1> QED BY <1>2, <1>3 DEF PublishInv

LEMMA OthersKeep ==
    ASSUME PublishInv, DailyRun \/ DailyPublished \/ OtherReload
    PROVE  PublishInv'
<1>1. Races /\ UNCHANGED <<completed, marked, cache, raw, processed>>
  BY DEF DailyRun, DailyPublished, OtherReload, DailyOnly, bucketVars, rawVars
<1>2. \/ script = Off /\ script' = Off
      \/ /\ script # Off /\ script' # Off /\ script' \in PublishCall
         /\ script'.at = script.at /\ script'.n = script.n /\ script'.day = script.day
         /\ script'.option = script.option /\ script'.marked = script.marked
         /\ script'.state = script.state /\ script'.raced
  BY <1>1, Racing
<1>3. /\ link' \in 0..Daily /\ pointer' \in {pointer, Daily}
      /\ entries' \in [of : 0..Daily, named : 0..Daily]
      /\ documents' \in [of : 0..Daily, whole : BOOLEAN]
      /\ torn' \subseteq {"state", "label", "index"} /\ ("state" \in torn' <=> "state" \in torn)
      /\ SearchIsWhole'
  <2>1. CASE DailyRun \/ DailyPublished
    <3>1. UNCHANGED <<entries, documents, torn>> /\ Daily \in 0..Daily
      BY <2>1, SelectedNumbers DEF DailyRun, DailyPublished
    <3>2. link' \in {link, Daily} /\ pointer' \in {pointer, Daily}
      BY <2>1 DEF DailyRun, DailyPublished
    <3> QED BY <3>1, <3>2 DEF PublishInv, PublishTypes, SearchIsWhole
  <2>2. CASE OtherReload
    <3>1. Loadable \in 0..Daily
      BY DEF PublishInv, PublishTypes, Loadable
    <3>2. Reindex(Loadable) /\ UNCHANGED <<link, pointer>>
      BY <2>2 DEF OtherReload
    <3>3. /\ entries' = [of |-> Loadable, named |-> Loadable]
          /\ \/ /\ documents' = [of |-> Loadable, whole |-> TRUE]
                /\ torn' = torn \ {"label", "index"}
             \/ documents' = documents /\ torn' = (torn \ {"label"}) \cup {"index"}
      BY <3>2 DEF Reindex
    <3>4. SearchIsWhole'
      BY <3>3 DEF SearchIsWhole
    <3>5. documents' \in [of : 0..Daily, whole : BOOLEAN]
      <4>1. documents \in [of : 0..Daily, whole : BOOLEAN]
        BY DEF PublishInv, PublishTypes
      <4>2. [of |-> Loadable, whole |-> TRUE] \in [of : 0..Daily, whole : BOOLEAN]
        BY <3>1
      <4> QED BY <3>3, <4>1, <4>2
    <3> QED BY <3>1, <3>2, <3>3, <3>4, <3>5 DEF PublishInv, PublishTypes
  <2> QED BY <2>1, <2>2
<1>4. PublishTypes' /\ script'.at = script.at
  BY <1>1, <1>2, <1>3, SelectedNumbers DEF PublishInv, PublishTypes
<1>5. FilesInv' /\ PublishedWasProcessed'
  BY <1>1, <1>3, <1>4, SelectedNumbers DEF PublishInv, FilesInv, PublishedWasProcessed
<1>6. MarkersInv' /\ ScriptInv' /\ UnracedInv'
  BY <1>1, <1>2, <1>3 DEF PublishInv, MarkersInv, ScriptInv, UnracedInv, LookedAt, SemanticType
<1> QED BY <1>3, <1>4, <1>5, <1>6 DEF PublishInv

LEMMA StartKeeps ==
    ASSUME PublishInv, NEW option \in Option, StartPublish(option)
    PROVE  PublishInv'
<1> DEFINE n == IF completed < option.max THEN completed ELSE option.max
<1>1. n \in Selected /\ option \in PublishOption
  BY SelectedNumbers, PublishAssumption
  DEF PublishInv, PublishTypes, StartPublish, PublishOption
<1>2. script' = [ at |-> "day", n |-> n, day |-> 1, option |-> option, raced |-> FALSE,
                  marked |-> marked, state |-> raw.state.days, before |-> pointer,
                  documents |-> 0 ]
  BY DEF StartPublish
<1>3. /\ UNCHANGED <<completed, marked, cache, raw, processed, link, pointer, entries, documents, torn>>
      /\ 0 \in marked => option.allow
      /\ script = Off
  BY DEF StartPublish, bucketVars, rawVars, serveVars
<1>4. script' \in PublishCall
  BY <1>1, <1>2, <1>3, SelectedNumbers
  DEF PublishInv, PublishTypes, PublishCall, PublishLabel, RawState
<1>5. script'.at = "day" /\ script'.n = n /\ script'.day = 1 /\ script'.option = option
      /\ script'.marked = marked /\ script'.state = raw.state.days /\ script'.before = pointer
  BY <1>2
<1> HIDE DEF n
<1>6. PublishTypes' /\ FilesInv' /\ PublishedWasProcessed' /\ SearchIsWhole'
  BY <1>3, <1>4, <1>5, OffIsNoCall
  DEF PublishInv, PublishTypes, FilesInv, PublishedWasProcessed, SearchIsWhole
<1>7. MarkersInv' /\ ScriptInv' /\ UnracedInv'
  <2>1. 1 <= n
    BY <1>1, SelectedNumbers
  <2> QED BY <1>3, <1>5, <2>1
          DEF MarkersInv, ScriptInv, UnracedInv, LookedAt, SemanticType, Early, Linked
<1> QED BY <1>6, <1>7 DEF PublishInv


LEMMA SelectionKeeps == ASSUME PublishInv, CacheDay PROVE PublishInv'
<1>1. /\ script # Off /\ script.at = "day" /\ (script.day \in marked => script.option.allow)
      /\ UNCHANGED <<completed, marked, raw, processed, link, pointer, entries, documents, torn>>
      /\ script \in PublishCall /\ script.day <= script.n
  BY DEF CacheDay, ScriptAt, bucketVars, serveVars, PublishInv, PublishTypes, MarkersInv
<1>2. PICK next \in {"day", "previous"} :
        /\ script' \in PublishCall /\ script'.at = next
        /\ script'.day = (IF next = "day" THEN script.day + 1 ELSE script.day)
        /\ (next = "day") = (script.day # script.n)
        /\ script'.n = script.n /\ script'.option = script.option
        /\ script'.raced = script.raced /\ script'.marked = script.marked
        /\ script'.state = script.state /\ script'.before = script.before
  <2>1. CASE script.day = script.n
    <3>1. script' = [script EXCEPT !.at = "previous"]
      BY <2>1 DEF CacheDay
    <3> QED BY <1>1, <2>1, <3>1 DEF PublishCall, PublishLabel
  <2>2. CASE script.day # script.n
    <3>1. script' = [script EXCEPT !.day = script.day + 1]
      BY <2>2 DEF CacheDay
    <3>2. script.day + 1 \in Selected
      BY <1>1, <2>2, SelectedNumbers DEF PublishCall
    <3> QED BY <1>1, <2>2, <3>1, <3>2 DEF PublishCall, PublishLabel
  <2> QED BY <2>1, <2>2
<1>3. script' # Off
  BY <1>2, OffIsNoCall
<1>4. PublishTypes' /\ SearchIsWhole'
  BY <1>1, <1>2 DEF PublishInv, PublishTypes, SearchIsWhole
<1>5. FilesInv' /\ PublishedWasProcessed'
  BY <1>1, <1>2 DEF PublishInv, FilesInv, PublishedWasProcessed
<1>6. ScriptInv' /\ UnracedInv'
  BY <1>1, <1>2, <1>3 DEF PublishInv, ScriptInv, UnracedInv, Early, Linked
<1>7. MarkersInv'
  <2>1. script'.day <= script'.n
    BY <1>1, <1>2, SelectedNumbers DEF PublishCall
  <2>2. ASSUME ~script.option.allow PROVE script.marked \cap (0..script.day) = {}
    <3>1. script.marked \cap (0..(script.day - 1)) = {} /\ script.marked \subseteq marked
      BY <1>1, <2>2 DEF PublishInv, MarkersInv, LookedAt
    <3>2. script.day \notin script.marked
      BY <1>1, <2>2, <3>1
    <3>3. \A x \in 0..script.day : x = script.day \/ x \in 0..(script.day - 1)
      BY <1>1, SelectedNumbers DEF PublishCall
    <3> QED BY <3>1, <3>2, <3>3
  <2>3. LookedAt' = script.day
    <3>1. CASE script'.at = "day"
      BY <1>1, <1>2, <3>1, SelectedNumbers DEF LookedAt, PublishCall
    <3>2. CASE script'.at # "day"
      BY <1>1, <1>2, <3>2 DEF LookedAt
    <3> QED BY <3>1, <3>2
  <2>4. script.marked \subseteq marked
    BY <1>1 DEF PublishInv, MarkersInv
  <2> QED BY <1>1, <1>2, <2>1, <2>2, <2>3, <2>4 DEF MarkersInv
<1> QED BY <1>4, <1>5, <1>6, <1>7 DEF PublishInv

\* A label change alone keeps what is known of the markers.
LEMMA MarkersKept ==
    ASSUME PublishInv, NEW label \in PublishLabel, GoneTo(label), script.at # "day", label # "day",
           UNCHANGED marked
    PROVE  MarkersInv'
BY DEF PublishInv, MarkersInv, GoneTo, LookedAt

LEMMA FilesKeep ==
    ASSUME PublishInv, KeepPrevious \/ ReplaceLatest \/ WriteState \/ ValidateRaw
    PROVE  PublishInv'
<1>1. /\ UNCHANGED <<completed, marked, cache, processed, link, pointer, entries, documents>>
      /\ script # Off
  BY DEF KeepPrevious, ReplaceLatest, WriteState, ValidateRaw, RawOnly, bucketVars, serveVars, ScriptAt
<1>2. raw \in [newest : 0..LastDay, previous : 0..LastDay, state : RawState]
      /\ script \in PublishCall /\ script.n \in 0..LastDay /\ torn \subseteq {"state", "label", "index"}
  BY <1>1, SelectedNumbers DEF PublishInv, PublishTypes, PublishCall
<1>3. CASE KeepPrevious
  <2>1. GoneTo("latest") /\ script.at = "previous" /\ UNCHANGED torn
    BY <1>1, <1>3, Going DEF KeepPrevious, ScriptAt, PublishLabel
  <2>2. /\ raw' \in [newest : 0..LastDay, previous : 0..LastDay, state : RawState]
        /\ raw'.newest = raw.newest /\ raw'.state = raw.state
        /\ raw'.previous = (IF raw.newest = 0 THEN raw.previous ELSE raw.newest)
    BY <1>2, <1>3 DEF KeepPrevious
  <2>3. PublishTypes' /\ SearchIsWhole' /\ PublishedWasProcessed'
    BY <1>1, <2>1, <2>2 DEF PublishInv, PublishTypes, SearchIsWhole, PublishedWasProcessed, GoneTo
  <2>4. FilesInv'
    BY <2>1, <2>2 DEF PublishInv, FilesInv, GoneTo
  <2>5. ScriptInv' /\ UnracedInv'
    BY <1>1, <2>1, <2>2, OffIsNoCall
    DEF PublishInv, FilesInv, ScriptInv, UnracedInv, GoneTo, Early, Linked
  <2> QED BY <1>1, <2>1, <2>3, <2>4, <2>5, MarkersKept DEF PublishInv, PublishLabel
<1>4. CASE ReplaceLatest
  <2>1. GoneTo("state") /\ script.at = "latest" /\ UNCHANGED torn
    BY <1>1, <1>4, Going DEF ReplaceLatest, ScriptAt, PublishLabel
  <2>2. /\ raw' \in [newest : 0..LastDay, previous : 0..LastDay, state : RawState]
        /\ raw'.newest = script.n /\ raw'.state = raw.state /\ raw'.previous = raw.previous
    BY <1>2, <1>4 DEF ReplaceLatest
  <2>3. PublishTypes' /\ SearchIsWhole' /\ PublishedWasProcessed'
    BY <1>1, <2>1, <2>2 DEF PublishInv, PublishTypes, SearchIsWhole, PublishedWasProcessed, GoneTo
  <2>4. FilesInv'
    BY <1>2, <2>1, <2>2, SelectedNumbers DEF PublishInv, FilesInv, GoneTo, PublishCall
  <2>5. ScriptInv' /\ UnracedInv'
    BY <1>1, <2>1, <2>2, OffIsNoCall
    DEF PublishInv, ScriptInv, UnracedInv, GoneTo, Early, Linked
  <2> QED BY <1>1, <2>1, <2>3, <2>4, <2>5, MarkersKept DEF PublishInv, PublishLabel
<1>5. CASE WriteState
  <2>1. GoneTo("gate") /\ script.at = "state" /\ torn' = torn \ {"state"}
    BY <1>1, <1>5, Going DEF WriteState, ScriptAt, PublishLabel
  <2> DEFINE new == [days |-> script.n, status |-> "pending", type |-> SemanticType]
  <2>2. new \in RawState /\ new.days = script.n /\ new.status = "pending" /\ new.type = SemanticType
    BY <1>2, SemanticTypeType DEF RawState
  <2>3. raw' = [raw EXCEPT !.state = new]
    BY <1>5 DEF WriteState
  <2> HIDE DEF new
  <2>4. /\ raw' \in [newest : 0..LastDay, previous : 0..LastDay, state : RawState]
        /\ raw'.newest = raw.newest /\ raw'.state = new /\ raw'.previous = raw.previous
    BY <1>2, <2>2, <2>3
  <2>5. raw.newest = script.n /\ script.n # 0
    BY <1>1, <1>2, <2>1, SelectedNumbers DEF PublishInv, ScriptInv, PublishCall
  <2>6. PublishTypes'
    BY <1>1, <2>1, <2>4 DEF PublishInv, PublishTypes, GoneTo
  <2>7. SearchIsWhole' /\ PublishedWasProcessed'
    BY <1>1, <2>1, <2>2, <2>4 DEF PublishInv, SearchIsWhole, PublishedWasProcessed
  <2>8. FilesInv'
    BY <2>1, <2>2, <2>4, <2>5 DEF PublishInv, FilesInv, GoneTo
  <2>9. SemanticType' = SemanticType
    BY <2>1 DEF SemanticType, GoneTo
  <2>10. ScriptInv'
    BY <1>1, <2>1, <2>2, <2>4, <2>9, OffIsNoCall DEF ScriptInv, GoneTo, Early, Linked
  <2>11. UnracedInv'
    BY <1>1, <2>1, <2>4, OffIsNoCall DEF PublishInv, UnracedInv, GoneTo, Linked
  <2> QED BY <1>1, <2>1, <2>6, <2>7, <2>8, <2>10, <2>11, MarkersKept DEF PublishInv, PublishLabel
<1>6. CASE ValidateRaw
  <2>1. PICK label \in {"run", "materialized"} : GoneTo(label)
    BY <1>1, <1>6, Going DEF ValidateRaw, PublishLabel
  <2>2. script.at = "gate" /\ UNCHANGED <<raw, torn>>
    BY <1>6 DEF ValidateRaw, ScriptAt
  <2>3. PublishTypes' /\ SearchIsWhole' /\ PublishedWasProcessed' /\ FilesInv'
    BY <1>1, <2>1, <2>2
    DEF PublishInv, PublishTypes, SearchIsWhole, PublishedWasProcessed, GoneTo, FilesInv
  <2>4. SemanticType' = SemanticType
    BY <2>1 DEF SemanticType, GoneTo
  <2>5. ScriptInv' /\ UnracedInv'
    BY <1>1, <2>1, <2>2, <2>4, OffIsNoCall
    DEF PublishInv, ScriptInv, UnracedInv, GoneTo, Early, Linked
  <2> QED BY <1>1, <2>1, <2>2, <2>3, <2>5, MarkersKept DEF PublishInv, PublishLabel
<1> QED BY <1>3, <1>4, <1>5, <1>6

LEMMA RunKeeps == ASSUME PublishInv, WriteRun \/ LinkRun PROVE PublishInv'
<1>1. /\ UNCHANGED <<completed, marked, cache, raw, pointer, entries, documents, torn>>
      /\ script # Off
  BY DEF WriteRun, LinkRun, ServeOnly, bucketVars, rawVars, ScriptAt
<1>2. script \in PublishCall /\ script.n \in Selected /\ script.n \in 0..Daily
  BY <1>1, SelectedNumbers DEF PublishInv, PublishTypes, PublishCall
<1>3. CASE WriteRun
  <2>1. GoneTo("link") /\ script.at = "run" /\ UNCHANGED link
    BY <1>1, <1>3, Going DEF WriteRun, ScriptAt, PublishLabel
  <2>2. /\ raw.state.days = script.n /\ raw.state.status = "pending"
        /\ raw.state.type = SemanticType
    BY <1>1, <2>1 DEF PublishInv, ScriptInv, Early
  <2>3. processed' = [processed EXCEPT ![script.n] = SemanticType]
    BY <1>3, <2>2 DEF WriteRun
  <2>4. /\ processed' \in [Selected -> SemanticTypes \cup {"none"}]
        /\ processed'[script.n] = SemanticType /\ SemanticType # "none"
        /\ \A d \in Selected : processed[d] # "none" => processed'[d] # "none"
    BY <1>2, <2>3, SemanticTypeType DEF PublishInv, PublishTypes, SemanticTypes
  <2>5. PublishTypes' /\ SearchIsWhole' /\ FilesInv'
    BY <1>1, <2>1, <2>4 DEF PublishInv, PublishTypes, SearchIsWhole, FilesInv, GoneTo
  <2>6. PublishedWasProcessed'
    BY <1>1, <2>2, <2>4 DEF PublishInv, PublishedWasProcessed
  <2>7. SemanticType' = SemanticType
    BY <2>1 DEF SemanticType, GoneTo
  <2>8. ScriptInv' /\ UnracedInv'
    BY <1>1, <2>1, <2>2, <2>4, <2>7, OffIsNoCall
    DEF PublishInv, ScriptInv, UnracedInv, GoneTo, Early, Linked
  <2> QED BY <1>1, <2>1, <2>5, <2>6, <2>8, MarkersKept DEF PublishInv, PublishLabel
<1>4. CASE LinkRun
  <2>1. PICK label \in {"table", "reload", "success"} :
          GoneTo(label) /\ (label = "reload" => script.option.reload)
          /\ (label = "success" => ~script.option.direct /\ ~script.option.reload)
    BY <1>1, <1>4, Going DEF LinkRun, AfterIndex, PublishLabel
  <2>2. script.at = "link" /\ link' = script.n /\ UNCHANGED processed
    BY <1>4 DEF LinkRun, ScriptAt
  <2>3. PublishTypes' /\ SearchIsWhole' /\ FilesInv' /\ PublishedWasProcessed'
    BY <1>1, <1>2, <2>1, <2>2
    DEF PublishInv, PublishTypes, SearchIsWhole, FilesInv, PublishedWasProcessed, GoneTo
  <2>4. SemanticType' = SemanticType
    BY <2>1 DEF SemanticType, GoneTo
  <2>5. ScriptInv'
    BY <1>1, <2>1, <2>2, <2>4, OffIsNoCall DEF PublishInv, ScriptInv, GoneTo, Early, Linked
  <2>6. UnracedInv'
    BY <1>1, <2>1, <2>2, OffIsNoCall DEF PublishInv, UnracedInv, GoneTo, Linked, SearchHasRun
  <2> QED BY <1>1, <2>1, <2>2, <2>3, <2>5, <2>6, MarkersKept DEF PublishInv, PublishLabel
<1> QED BY <1>3, <1>4

\* The steps that write the table and the index.
LEMMA IndexKeeps == ASSUME PublishInv, WriteTable \/ DropIndex \/ FillIndex PROVE PublishInv'
<1>1. /\ UNCHANGED <<completed, marked, cache, raw, processed, link, pointer>>
      /\ script # Off
  BY DEF WriteTable, DropIndex, FillIndex, ServeOnly, bucketVars, rawVars, ScriptAt
<1>2. /\ script \in PublishCall /\ script.n \in 0..Daily /\ script.documents \in 0..Daily
      /\ link \in 0..Daily /\ torn \subseteq {"state", "label", "index"}
  BY <1>1, SelectedNumbers DEF PublishInv, PublishTypes, PublishCall
<1>3. CASE WriteTable
  <2>1. /\ script' \in PublishCall /\ script'.at = "drop"
        /\ script'.n = script.n /\ script'.day = script.day /\ script'.option = script.option
        /\ script'.raced = script.raced /\ script'.marked = script.marked
        /\ script'.state = script.state /\ script'.before = script.before
        /\ script'.documents = link /\ script.at = "table" /\ script' # Off
    <3>1. script' = [script EXCEPT !.at = "drop", !.documents = link] /\ script.at = "table"
      BY <1>3 DEF WriteTable, ScriptAt
    <3> QED BY <1>2, <3>1, OffIsNoCall DEF PublishCall, PublishLabel
  <2>2. /\ entries' = [of |-> link, named |-> script.n] /\ UNCHANGED documents
        /\ torn' = IF script.raced THEN torn \cup {"label", "index"}
                   ELSE (torn \ {"label"}) \cup {"index"}
    BY <1>3 DEF WriteTable
  <2>3. entries'.of = link /\ entries'.named = script.n /\ "index" \in torn'
        /\ torn' \subseteq {"state", "label", "index"} /\ ("state" \in torn' <=> "state" \in torn)
        /\ (script.raced => "label" \in torn') /\ entries' \in [of : 0..Daily, named : 0..Daily]
    BY <1>2, <2>2
  <2>4. ~script.raced => link = script.n
    BY <1>1, <2>1 DEF PublishInv, UnracedInv, Linked
  <2>5. PublishTypes' /\ FilesInv' /\ PublishedWasProcessed' /\ SearchIsWhole'
    BY <1>1, <2>1, <2>2, <2>3, <2>4
    DEF PublishInv, PublishTypes, FilesInv, PublishedWasProcessed, SearchIsWhole
  <2>6. SemanticType' = SemanticType
    BY <2>1 DEF SemanticType
  <2>7. MarkersInv' /\ ScriptInv'
    BY <1>1, <2>1, <2>6 DEF PublishInv, MarkersInv, LookedAt, ScriptInv, Early, Linked
  <2>8. UnracedInv'
    BY <1>1, <2>1, <2>3, <2>4 DEF PublishInv, UnracedInv, Linked
  <2> QED BY <2>5, <2>7, <2>8 DEF PublishInv
<1>4. CASE DropIndex
  <2>1. GoneTo("fill") /\ script.at = "drop"
    BY <1>1, <1>4, Going DEF DropIndex, ScriptAt, PublishLabel
  <2>2. /\ documents' = [of |-> 0, whole |-> FALSE] /\ UNCHANGED entries
        /\ torn' = torn \cup {"index"}
    BY <1>4 DEF DropIndex
  <2>3. documents' \in [of : 0..Daily, whole : BOOLEAN]
    <3>1. 0 \in 0..Daily
      BY SelectedNumbers
    <3> QED BY <2>2, <3>1
  <2>4. PublishTypes' /\ FilesInv' /\ PublishedWasProcessed' /\ SearchIsWhole'
    BY <1>1, <2>1, <2>2, <2>3
    DEF PublishInv, PublishTypes, FilesInv, PublishedWasProcessed, SearchIsWhole, GoneTo
  <2>5. SemanticType' = SemanticType
    BY <2>1 DEF SemanticType, GoneTo
  <2>6. ScriptInv' /\ UnracedInv'
    BY <1>1, <2>1, <2>2, <2>5, OffIsNoCall
    DEF PublishInv, ScriptInv, UnracedInv, GoneTo, Early, Linked
  <2> QED BY <1>1, <2>1, <2>4, <2>6, MarkersKept DEF PublishInv, PublishLabel
<1>5. CASE FillIndex
  <2>1. PICK label \in {"reload", "success", "failed"} :
          GoneTo(label) /\ (label = "reload" => script.option.reload)
          /\ (label = "success" => ~script.option.reload)
    BY <1>1, <1>5, Going DEF FillIndex, AfterIndex, PublishLabel
  <2>2. /\ documents' = [of |-> script.documents, whole |-> TRUE] /\ UNCHANGED entries
        /\ torn' = (IF script.raced THEN torn \cup {"index"} ELSE torn \ {"index"})
        /\ script.at = "fill"
    BY <1>5 DEF FillIndex, ScriptAt
  <2>3. documents' \in [of : 0..Daily, whole : BOOLEAN] /\ documents'.of = script.documents
        /\ documents'.whole
    BY <1>2, <2>2
  <2>4. ~script.raced => /\ link = script.n /\ entries.of = script.n
                         /\ script.documents = script.n /\ pointer = script.before
    BY <1>1, <2>2 DEF PublishInv, UnracedInv, Linked
  <2>5. SearchIsWhole'
    BY <2>2, <2>3, <2>4 DEF PublishInv, SearchIsWhole
  <2>6. PublishTypes' /\ FilesInv' /\ PublishedWasProcessed'
    BY <1>1, <1>2, <2>1, <2>2, <2>3
    DEF PublishInv, PublishTypes, FilesInv, PublishedWasProcessed, GoneTo
  <2>7. SemanticType' = SemanticType
    BY <2>1 DEF SemanticType, GoneTo
  <2>8. ScriptInv'
    BY <1>1, <2>1, <2>2, <2>7, OffIsNoCall DEF PublishInv, ScriptInv, GoneTo, Early, Linked
  <2>9. UnracedInv'
    BY <1>1, <2>1, <2>2, <2>3, <2>4, OffIsNoCall DEF UnracedInv, GoneTo, Linked, SearchHasRun
  <2> QED BY <1>1, <2>1, <2>2, <2>5, <2>6, <2>8, <2>9, MarkersKept DEF PublishInv, PublishLabel
<1> QED BY <1>3, <1>4, <1>5

LEMMA ReloadKeeps == ASSUME PublishInv, CallsReload PROVE PublishInv'
<1>1. /\ UNCHANGED <<completed, marked, cache, raw, processed, link, pointer>>
      /\ script # Off /\ script.at = "reload"
  BY DEF CallsReload, ServeOnly, bucketVars, rawVars, ScriptAt
<1>2. PICK label \in {"publish", "failed"} :
        GoneTo(label) /\ (label = "publish" => documents'.of = entries'.of)
  BY <1>1, Going DEF CallsReload, PublishLabel
<1>3. /\ entries' = [of |-> Loadable, named |-> Loadable]
      /\ \/ /\ documents' = [of |-> Loadable, whole |-> TRUE]
            /\ torn' = torn \ {"label", "index"}
         \/ documents' = documents /\ torn' = (torn \ {"label"}) \cup {"index"}
  BY DEF CallsReload, Reindex
<1>4. Loadable \in 0..Daily
  BY DEF PublishInv, PublishTypes, Loadable
<1>5. SearchIsWhole'
  BY <1>3 DEF SearchIsWhole
<1>6. documents' \in [of : 0..Daily, whole : BOOLEAN]
  <2>1. documents \in [of : 0..Daily, whole : BOOLEAN]
    BY DEF PublishInv, PublishTypes
  <2>2. [of |-> Loadable, whole |-> TRUE] \in [of : 0..Daily, whole : BOOLEAN]
    BY <1>4
  <2> QED BY <1>3, <2>1, <2>2
<1>7. /\ torn' \subseteq {"state", "label", "index"} /\ ("state" \in torn' <=> "state" \in torn)
      /\ entries' \in [of : 0..Daily, named : 0..Daily] /\ entries'.of = Loadable
  BY <1>3, <1>4 DEF PublishInv, PublishTypes
<1>8. PublishTypes' /\ FilesInv' /\ PublishedWasProcessed'
  BY <1>1, <1>2, <1>6, <1>7 DEF PublishInv, PublishTypes, FilesInv, PublishedWasProcessed, GoneTo
<1>9. SemanticType' = SemanticType
  BY <1>2 DEF SemanticType, GoneTo
<1>10. ScriptInv'
  BY <1>1, <1>2, <1>7, <1>9, OffIsNoCall DEF PublishInv, ScriptInv, GoneTo, Early, Linked
<1>11. UnracedInv'
  <2>1. ~script.raced => link = script.n /\ pointer = script.before
    BY <1>1 DEF PublishInv, UnracedInv, Linked
  <2>2. ~script.raced /\ script.before = 0 => Loadable = script.n
    BY <2>1 DEF Loadable
  <2>3. script.option.reload
    BY <1>1 DEF PublishInv, ScriptInv
  <2> QED BY <1>1, <1>2, <1>7, <2>1, <2>2, <2>3, OffIsNoCall
          DEF UnracedInv, GoneTo, Linked, SearchHasRun
<1> QED BY <1>1, <1>2, <1>5, <1>8, <1>10, <1>11, MarkersKept DEF PublishInv, PublishLabel

LEMMA PublishRunKeeps == ASSUME PublishInv, PublishRun PROVE PublishInv'
<1>1. /\ UNCHANGED <<completed, marked, cache, raw, processed, link, entries, documents, torn>>
      /\ script # Off /\ script.at = "publish" /\ pointer' = script.n
  BY DEF PublishRun, ServeOnly, bucketVars, rawVars, ScriptAt
<1>2. PICK label \in {"success", "failed"} : GoneTo(label)
  BY <1>1, Going DEF PublishRun, PublishLabel
<1>3. script.n \in Selected /\ script.n \in 0..Daily
  BY <1>2, SelectedNumbers DEF GoneTo, PublishCall
<1>4. processed[script.n] = SemanticType /\ SemanticType # "none"
  BY <1>1, SemanticTypeType DEF PublishInv, ScriptInv, Linked, SemanticTypes
<1>5. PublishTypes' /\ FilesInv' /\ PublishedWasProcessed' /\ SearchIsWhole'
  BY <1>1, <1>2, <1>3, <1>4
  DEF PublishInv, PublishTypes, FilesInv, PublishedWasProcessed, SearchIsWhole, GoneTo
<1>6. SemanticType' = SemanticType
  BY <1>2 DEF SemanticType, GoneTo
<1>7. ScriptInv'
  BY <1>1, <1>2, <1>6, OffIsNoCall DEF PublishInv, ScriptInv, GoneTo, Early, Linked
<1>8. UnracedInv'
  BY <1>1, <1>2, OffIsNoCall DEF PublishInv, UnracedInv, GoneTo, Linked, SearchHasRun
<1> QED BY <1>1, <1>2, <1>5, <1>7, <1>8, MarkersKept DEF PublishInv, PublishLabel

LEMMA EndsKeep ==
    ASSUME PublishInv, NEW status \in {"success", "materialized", "failed"}, EndsAs(status)
    PROVE  PublishInv'
<1>1. /\ UNCHANGED <<completed, marked, cache, processed, link, pointer, entries, documents, torn>>
      /\ script # Off /\ script.at = status /\ script' = Off
      /\ raw' = [raw EXCEPT !.state.status = status]
  BY DEF EndsAs, RawOnly, bucketVars, serveVars, ScriptAt
<1>2. raw \in [newest : 0..LastDay, previous : 0..LastDay, state : RawState]
  BY DEF PublishInv, PublishTypes
<1>3. /\ raw' \in [newest : 0..LastDay, previous : 0..LastDay, state : RawState]
      /\ raw'.newest = raw.newest /\ raw'.previous = raw.previous
      /\ raw'.state.days = raw.state.days /\ raw'.state.type = raw.state.type
      /\ raw'.state.status = status
  BY <1>1, <1>2 DEF RawState
<1>4. raw.state.days = script.n /\ raw.state.type = SemanticType
  BY <1>1 DEF PublishInv, ScriptInv, Early
<1>5. script.n \in Selected
  BY <1>1 DEF PublishInv, PublishTypes, PublishCall
<1>6. PublishTypes' /\ SearchIsWhole'
  BY <1>1, <1>3 DEF PublishInv, PublishTypes, SearchIsWhole
<1>7. FilesInv'
  BY <1>1, <1>3, <1>4, <1>5, OffIsNoCall DEF PublishInv, FilesInv
<1>8. PublishedWasProcessed'
  BY <1>1, <1>3, <1>4 DEF PublishInv, ScriptInv, PublishedWasProcessed, Linked
<1>9. MarkersInv' /\ ScriptInv' /\ UnracedInv'
  BY <1>1 DEF MarkersInv, ScriptInv, UnracedInv
<1> QED BY <1>6, <1>7, <1>8, <1>9 DEF PublishInv

LEMMA CutShortKeeps == ASSUME PublishInv, StepFailed \/ Stops PROVE PublishInv'
<1>1. /\ UNCHANGED <<completed, marked, cache, raw, processed, link, pointer, entries, documents>>
      /\ script # Off
  BY DEF StepFailed, Stops, ServeOnly, bucketVars, rawVars, serveVars
<1>2. CASE StepFailed
  <2>1. GoneTo("failed") /\ UNCHANGED torn
        /\ script.at \notin Early
    BY <1>1, <1>2, Going DEF StepFailed, PublishLabel, Early
  <2>2. PublishTypes' /\ SearchIsWhole' /\ FilesInv' /\ PublishedWasProcessed'
    BY <1>1, <2>1
    DEF PublishInv, PublishTypes, SearchIsWhole, FilesInv, PublishedWasProcessed, GoneTo, Early
  <2>3. SemanticType' = SemanticType
    BY <2>1 DEF SemanticType, GoneTo
  <2>4. ScriptInv' /\ UnracedInv'
    BY <1>1, <2>1, <2>3, OffIsNoCall
    DEF PublishInv, ScriptInv, UnracedInv, GoneTo, Early, Linked
  <2> QED BY <1>1, <2>1, <2>2, <2>4, MarkersKept DEF PublishInv, PublishLabel, Early
<1>3. CASE Stops
  <2>1. /\ script' = Off /\ torn \subseteq torn' /\ torn' \subseteq torn \cup {"state"}
        /\ script.at = "state" => "state" \in torn'
    BY <1>3 DEF Stops
  <2>2. PublishTypes' /\ SearchIsWhole' /\ PublishedWasProcessed'
    BY <1>1, <2>1 DEF PublishInv, PublishTypes, SearchIsWhole, PublishedWasProcessed
  <2>3. FilesInv'
    BY <1>1, <2>1 DEF PublishInv, FilesInv
  <2>4. MarkersInv' /\ ScriptInv' /\ UnracedInv'
    BY <2>1 DEF MarkersInv, ScriptInv, UnracedInv
  <2> QED BY <2>2, <2>3, <2>4 DEF PublishInv
<1> QED BY <1>2, <1>3

LEMMA PublishStarts == PublishInit => PublishInv
<1> SUFFICES ASSUME PublishInit PROVE PublishInv
  OBVIOUS
<1>1. /\ completed = 0 /\ marked = {} /\ cache = {} /\ script = Off /\ torn = {}
      /\ raw = [newest |-> 0, previous |-> 0, state |-> NoState]
      /\ processed = [d \in Selected |-> "none"]
      /\ pointer \in {0, Daily} /\ link = pointer
      /\ entries = [of |-> pointer, named |-> pointer]
      /\ documents = [of |-> pointer, whole |-> TRUE]
  BY DEF PublishInit
<1>2. 0 \in 0..LastDay /\ pointer \in 0..Daily /\ pointer \notin Selected
  BY <1>1, SelectedNumbers
<1>3. NoState \in RawState /\ NoState.days = 0 /\ NoState.status = "none"
  BY <1>2 DEF NoState, RawState
<1>4. documents \in [of : 0..Daily, whole : BOOLEAN]
  BY <1>1, <1>2
<1>5. PublishTypes
  BY <1>1, <1>2, <1>3, <1>4 DEF PublishTypes
<1>6. FilesInv
  BY <1>1, <1>3 DEF FilesInv
<1>7. PublishedWasProcessed /\ SearchIsWhole
  BY <1>1, <1>2, <1>3 DEF PublishedWasProcessed, SearchIsWhole
<1>8. MarkersInv /\ ScriptInv /\ UnracedInv
  BY <1>1 DEF MarkersInv, ScriptInv, UnracedInv
<1> QED BY <1>5, <1>6, <1>7, <1>8 DEF PublishInv

\* What the backfill publisher calls published went through the pipeline under the type that
\* state.json gives it, marked days are not read without the flag, the delta is to the selection
\* that state.json names, and the search is whole and of the run, unless a call was cut short or
\* raced (publish_hh_backfill_to_app.py), for any number of days, options and calls.
THEOREM BackfillPublishesSoundly == PublishSpec => []PublishIsSound
<1>1. PublishInv /\ [PublishNext]_publishVars => PublishInv'
  <2> SUFFICES ASSUME PublishInv, [PublishNext]_publishVars PROVE PublishInv'
    OBVIOUS
  <2>1. CASE UNCHANGED publishVars
    <3>1. UNCHANGED <<completed, marked, raw, script, processed, link, pointer, entries, documents, torn>>
      BY <2>1 DEF publishVars, bucketVars, rawVars, serveVars
    <3> QED BY <3>1
            DEF PublishInv, PublishTypes, FilesInv, MarkersInv, ScriptInv, UnracedInv, LookedAt,
                SearchHasRun, SemanticType, PublishedWasProcessed, SearchIsWhole
  <2>2. CASE PublishNext
    BY <2>2, BucketKeeps, OthersKeep, StartKeeps, SelectionKeeps, FilesKeep, RunKeeps, IndexKeeps,
       ReloadKeeps, PublishRunKeeps, EndsKeep, CutShortKeeps DEF PublishNext
  <2> QED BY <2>1, <2>2
<1> QED BY <1>1, PublishStarts, InvIsSound, PTL DEF PublishSpec
=============================================================================
