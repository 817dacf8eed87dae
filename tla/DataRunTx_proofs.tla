-------------------------- MODULE DataRunTx_proofs --------------------------
(***************************************************************************)
(* Proofs about the dataset registry, for every set of runs and paths and  *)
(* every payload: one handler at a time (DataRuns), and as overlapping     *)
(* transactions (DataRunTx), as long as each run has one client; and about *)
(* the indexer and the search of the run that is served (VacancySearch).   *)
(***************************************************************************)
EXTENDS DataRunTx, VacancySearch, TLAPS

-----------------------------------------------------------------------------
(* One handler at a time                                                   *)

LEMMA UpdatedType ==
    ASSUME NEW old \in DataRun \cup {NoRun}, NEW p \in Post
    PROVE  /\ Updated(old, p) \in DataRun
           /\ Updated(old, p).state = p.state
           /\ Updated(old, p).finished <=> p.state \in Terminal
<1>1. /\ p.state \in State /\ p.meta \in Meta \cup {NoMeta}
      /\ p.error \in BOOLEAN
  BY PostAssumption
<1>2. old.meta \in Meta \cup {NoMeta} /\ old.error \in BOOLEAN
  <2>1. CASE old \in DataRun
    BY <2>1 DEF DataRun
  <2>2. CASE old = NoRun
    <3>1. old.meta = NoMeta /\ old.error = FALSE
      BY <2>2 DEF NoRun
    <3>2. FALSE \in BOOLEAN
      OBVIOUS
    <3> QED BY <3>1, <3>2
  <2> QED BY <2>1, <2>2
<1> DEFINE e == p.error \/ (p.state = "failed" /\ old.error)
           f == p.state \in Terminal
<1>4. e \in BOOLEAN /\ f \in BOOLEAN
  OBVIOUS
<1>5. Updated(old, p) =
        [ state |-> p.state, meta |-> IF p.meta = NoMeta THEN old.meta ELSE p.meta,
          error |-> e, finished |-> f ]
  BY DEF Updated
<1> HIDE DEF e, f
<1>6. Updated(old, p) \in DataRun /\ Updated(old, p).state = p.state
  BY <1>1, <1>2, <1>4, <1>5 DEF DataRun
<1>7. Updated(old, p).finished = f
  BY <1>5
<1> QED BY <1>6, <1>7 DEF f

\* An accepted update moves the state forward, or leaves it.
LEMMA AllowedAdvances ==
    ASSUME NEW old \in DataRun \cup {NoRun}, NEW new \in DataRun,
           Allowed(old, new.state)
    PROVE  Advances(old, new)
BY DEF Allowed, Advances, State, StateOrder, Terminal, DataRun, NoRun

LEMMA InitIsConsistent == Init => TypeOK /\ RegistryInv
BY DEF Init, TypeOK, RegistryInv, ActiveIsPublished, ActiveMirrorsRun,
       FinishedIsTerminal, NoRun, Terminal

LEMMA TypesStep == ASSUME TypeOK, [Next]_registryVars PROVE TypeOK'
<1>1. ASSUME NEW p \in Post, Upsert(p) PROVE TypeOK'
  <2>1. p.run \in Run
    BY PostAssumption
  <2>2. Updated(data_runs[p.run], p) \in DataRun
    BY <2>1, UpdatedType DEF TypeOK
  <2>3. PointerTo(p.run, Updated(data_runs[p.run], p)) \in Pointer
    BY <2>1, <2>2 DEF PointerTo, Pointer, DataRun
  <2> QED BY <1>1, <2>1, <2>2, <2>3 DEF Upsert, TypeOK
<1>2. ASSUME NEW r \in Run, Activate(r) PROVE TypeOK'
  <2>1. PointerTo(r, data_runs[r]) \in Pointer
    BY DEF PointerTo, Pointer, TypeOK, DataRun, NoRun
  <2> QED BY <1>2, <2>1 DEF Activate, TypeOK
<1>3. CASE UNCHANGED registryVars
  BY <1>3 DEF TypeOK, registryVars
<1> QED BY <1>1, <1>2, <1>3 DEF Next

LEMMA ConsistentStep ==
    ASSUME TypeOK, RegistryInv, [Next]_registryVars PROVE RegistryInv'
<1>1. ASSUME NEW p \in Post, Upsert(p) PROVE RegistryInv'
  <2> DEFINE new == Updated(data_runs[p.run], p)
  <2>1. p.run \in Run /\ data_runs[p.run] \in DataRun \cup {NoRun}
    BY PostAssumption DEF TypeOK
  <2>2. /\ new \in DataRun /\ new.state = p.state
        /\ new.finished <=> p.state \in Terminal
    BY <2>1, UpdatedType
  <2>3. /\ data_runs' = [data_runs EXCEPT ![p.run] = new]
        /\ active' = IF p.state = "published" THEN PointerTo(p.run, new) ELSE active
        /\ Allowed(data_runs[p.run], p.state)
    BY <1>1 DEF Upsert
  <2>4. FinishedIsTerminal'
    BY <2>1, <2>2, <2>3 DEF FinishedIsTerminal, RegistryInv, TypeOK
  <2>5. CASE p.state = "published"
    <3>1. active' = PointerTo(p.run, new) /\ data_runs'[p.run] = new
      BY <2>1, <2>3, <2>5 DEF TypeOK
    <3> QED BY <2>2, <2>4, <2>5, <3>1
            DEF RegistryInv, ActiveIsPublished, ActiveMirrorsRun, PointerTo
  <2>6. CASE p.state # "published"
    <3>1. active' = active
      BY <2>3, <2>6
    <3>2. active # NoPointer => active.run # p.run
      BY <2>3, <2>6 DEF Allowed, Terminal, RegistryInv, ActiveIsPublished
    <3>3. active # NoPointer => data_runs'[active.run] = data_runs[active.run]
      BY <3>2, <2>1, <2>3 DEF TypeOK, Pointer
    <3> QED BY <3>1, <3>3, <2>4
            DEF RegistryInv, ActiveIsPublished, ActiveMirrorsRun
  <2> QED BY <2>5, <2>6
<1>2. ASSUME NEW r \in Run, Activate(r) PROVE RegistryInv'
  BY <1>2 DEF Activate, RegistryInv, ActiveIsPublished, ActiveMirrorsRun,
              FinishedIsTerminal, PointerTo
<1>3. CASE UNCHANGED registryVars
  BY <1>3 DEF registryVars, RegistryInv, ActiveIsPublished, ActiveMirrorsRun,
              FinishedIsTerminal
<1> QED BY <1>1, <1>2, <1>3 DEF Next

LEMMA AdvancesStep ==
    ASSUME TypeOK, Next, NEW r \in Run
    PROVE  Advances(data_runs[r], data_runs'[r])
<1>1. data_runs'[r] = data_runs[r] => Advances(data_runs[r], data_runs'[r])
  BY DEF Advances, TypeOK, DataRun, NoRun, State, StateOrder
<1>2. ASSUME NEW p \in Post, Upsert(p)
      PROVE  Advances(data_runs[r], data_runs'[r])
  <2>1. p.run \in Run /\ data_runs[p.run] \in DataRun \cup {NoRun}
    BY PostAssumption DEF TypeOK
  <2>2. /\ Updated(data_runs[p.run], p) \in DataRun
        /\ Updated(data_runs[p.run], p).state = p.state
    BY <2>1, UpdatedType
  <2>3. Advances(data_runs[p.run], Updated(data_runs[p.run], p))
    BY <1>2, <2>1, <2>2, AllowedAdvances DEF Upsert
  <2>4. data_runs' = [data_runs EXCEPT ![p.run] = Updated(data_runs[p.run], p)]
    BY <1>2 DEF Upsert
  <2> QED BY <1>1, <2>1, <2>3, <2>4 DEF TypeOK
<1>3. ASSUME NEW q \in Run, Activate(q)
      PROVE  Advances(data_runs[r], data_runs'[r])
  BY <1>1, <1>3 DEF Activate
<1> QED BY <1>2, <1>3 DEF Next

\* The registry's columns keep their types, whatever is posted.
THEOREM RegistryTypes == Spec => []TypeOK
BY InitIsConsistent, TypesStep, PTL DEF Spec

\* The pointer names a published run and agrees with it, and finished_at marks
\* the ended runs: activate and a repeated publication included.
THEOREM RegistryIsConsistent == Spec => []RegistryInv
BY InitIsConsistent, ConsistentStep, RegistryTypes, PTL DEF Spec

\* A terminal run never leaves its state and no run moves back, one handler at
\* a time.
THEOREM RegistryAdvances == Spec => StateOnlyAdvances
<1>1. TypeOK /\ [Next]_registryVars
        => [\A r \in Run : Advances(data_runs[r], data_runs'[r])]_registryVars
  BY AdvancesStep
<1> QED BY <1>1, RegistryTypes, PTL DEF Spec, StateOnlyAdvances

-----------------------------------------------------------------------------
(* Overlapping transactions                                                *)

\* An UPDATE whose row has not changed since it was loaded stores the new row.
LEMMA MergedIsNew ==
    ASSUME NEW old \in DataRun \cup {NoRun}, NEW new \in DataRun \cup {NoRun}
    PROVE  Merged(old, old, new) = new
<1>1. /\ DOMAIN old = {"state", "meta", "error", "finished"}
      /\ DOMAIN new = {"state", "meta", "error", "finished"}
  BY DEF DataRun, NoRun
<1>2. new = [c \in {"state", "meta", "error", "finished"} |-> new[c]]
  BY <1>1 DEF DataRun, NoRun
<1> QED BY <1>1, <1>2 DEF Merged

\* Writing some columns of one pointer over another gives a pointer, whose run
\* is the new one or the stored one.
LEMMA MergedPointer ==
    ASSUME NEW kept \in Pointer \cup {NoPointer},
           NEW seen \in Pointer \cup {NoPointer}, NEW new \in Pointer,
           seen = NoPointer => kept = NoPointer,
           seen \in Pointer => kept \in Pointer
    PROVE  /\ Merged(kept, seen, new) \in Pointer
           /\ Merged(kept, seen, new).run \in {new.run, kept.run}
           /\ kept = NoPointer => Merged(kept, seen, new).run = new.run
<1>1. DOMAIN kept = {"run", "meta"}
  BY DEF Pointer, NoPointer
<1>2. Merged(kept, seen, new) =
        [ run |-> IF new.run # seen.run THEN new.run ELSE kept.run,
          meta |-> IF new.meta # seen.meta THEN new.meta ELSE kept.meta ]
  BY <1>1 DEF Merged
<1>3. kept = NoPointer => seen.run # new.run
  BY RunAssumption DEF Pointer, NoPointer
<1> QED BY <1>2, <1>3 DEF Pointer, NoPointer

\* Writing some columns of one row over another gives a row.
LEMMA MergedRunRow ==
    ASSUME NEW kept \in DataRun, NEW seen \in DataRun, NEW new \in DataRun
    PROVE  Merged(kept, seen, new) \in DataRun
<1>1. DOMAIN kept = {"state", "meta", "error", "finished"}
  BY DEF DataRun
<1>2. Merged(kept, seen, new) =
        [ state    |-> IF new.state # seen.state THEN new.state ELSE kept.state,
          meta     |-> IF new.meta # seen.meta THEN new.meta ELSE kept.meta,
          error    |-> IF new.error # seen.error THEN new.error ELSE kept.error,
          finished |-> IF new.finished # seen.finished THEN new.finished
                       ELSE kept.finished ]
  BY <1>1 DEF Merged
<1> QED BY <1>2 DEF DataRun

\* Rows are never deleted, so what a transaction loaded still exists.
StillThere ==
    \A s \in Session : tx[s] # Idle =>
        /\ tx[s].seen # NoRun => data_runs[tx[s].run] # NoRun
        /\ tx[s].pointer \in Pointer => active \in Pointer

LEMMA UnreadIsNoPointer == Unread \notin Pointer \cup {NoPointer}
BY RunAssumption DEF Unread, Pointer, NoPointer

LEMMA BeginTypes ==
    ASSUME TxTypeOK, StillThere, NEW s \in Session, NEW t \in Transaction,
           Begin(s, t), t.seen = data_runs[t.run], t.pointer = Unread
    PROVE  TxTypeOK' /\ StillThere'
<1>1. tx' = [tx EXCEPT ![s] = t] /\ UNCHANGED registryVars
  BY DEF Begin
<1>2. TxTypeOK'
  BY <1>1 DEF TxTypeOK, TypeOK, registryVars
<1>3. StillThere'
  BY <1>1, UnreadIsNoPointer DEF StillThere, TxTypeOK, registryVars
<1> QED BY <1>2, <1>3

\* A transaction that commits stores rows: the run's, over the one it loaded,
\* and a pointer to a run.
LEMMA CommitStores ==
    ASSUME TxTypeOK, StillThere, NEW s \in Session, Commit(s)
    PROVE  /\ tx[s] \in Transaction
           /\ Merged(data_runs[tx[s].run], tx[s].seen, tx[s].new) \in DataRun
           /\ Points(tx[s]) =>
                 LET pointer == Merged(active, tx[s].pointer,
                                       PointerTo(tx[s].run, tx[s].new))
                 IN  /\ pointer \in Pointer
                     /\ pointer.run \in {tx[s].run, active.run}
                     /\ active = NoPointer => pointer.run = tx[s].run
<1> DEFINE t == tx[s]
<1>1. t \in Transaction
  BY DEF Commit, TxTypeOK
<1>2. /\ t.run \in Run /\ t.seen \in DataRun \cup {NoRun} /\ t.new \in DataRun
      /\ t.pointer \in Pointer \cup {NoPointer, Unread}
      /\ data_runs[t.run] \in DataRun \cup {NoRun}
      /\ active \in Pointer \cup {NoPointer}
  BY <1>1 DEF Transaction, TxTypeOK, TypeOK
<1>3. /\ t # Idle /\ (Points(t) => t.pointer # Unread) /\ NoDuplicate(t)
      /\ t.seen # NoRun => data_runs[t.run] # NoRun
      /\ t.pointer \in Pointer => active \in Pointer
  BY DEF Commit, StillThere
<1> HIDE DEF t
<1>4. Merged(data_runs[t.run], t.seen, t.new) \in DataRun
  <2>1. CASE t.seen = NoRun
    BY <1>2, <1>3, <2>1, MergedIsNew DEF NoDuplicate
  <2>2. CASE t.seen # NoRun
    BY <1>2, <1>3, <2>2, MergedRunRow
  <2> QED BY <2>1, <2>2
<1>5. ASSUME Points(t)
      PROVE  LET pointer == Merged(active, t.pointer, PointerTo(t.run, t.new))
             IN  /\ pointer \in Pointer
                 /\ pointer.run \in {t.run, active.run}
                 /\ active = NoPointer => pointer.run = t.run
  <2>1. PointerTo(t.run, t.new) \in Pointer /\ PointerTo(t.run, t.new).run = t.run
    BY <1>2 DEF PointerTo, Pointer, DataRun
  <2>2. t.pointer \in Pointer \cup {NoPointer}
    BY <1>2, <1>3, <1>5
  <2>3. t.pointer = NoPointer => active = NoPointer
    BY <1>3, <1>5 DEF NoDuplicate
  <2> QED BY <1>2, <1>3, <2>1, <2>2, <2>3, MergedPointer
<1> QED BY <1>1, <1>4, <1>5 DEF t

\* Every session's transaction is well formed and the columns keep their types,
\* however transactions overlap.
THEOREM TxTypes == TxSpec => [](TxTypeOK /\ StillThere)
<1>1. TxInit => TxTypeOK /\ StillThere
  BY DEF TxInit, Init, TxTypeOK, TypeOK, StillThere
<1>2. TxTypeOK /\ StillThere /\ [TxNext]_txVars => (TxTypeOK /\ StillThere)'
  <2> SUFFICES ASSUME TxTypeOK, StillThere, [TxNext]_txVars
               PROVE  TxTypeOK' /\ StillThere'
    OBVIOUS
  <2>1. ASSUME NEW s \in Session, NEW p \in Post, BeginUpsert(s, p)
        PROVE  TxTypeOK' /\ StillThere'
    <3>1. p.run \in Run /\ data_runs[p.run] \in DataRun \cup {NoRun}
      BY PostAssumption DEF TxTypeOK, TypeOK
    <3>2. Updated(data_runs[p.run], p) \in DataRun
      BY <3>1, UpdatedType
    <3> DEFINE t == [ op |-> "upsert", run |-> p.run, seen |-> data_runs[p.run],
                      new |-> Updated(data_runs[p.run], p), pointer |-> Unread ]
    <3>3. t \in Transaction
      BY <3>1, <3>2 DEF Transaction
    <3>4. Begin(s, t)
      BY <2>1 DEF BeginUpsert
    <3> QED BY <3>3, <3>4, BeginTypes
  <2>2. ASSUME NEW s \in Session, NEW r \in Run, BeginActivate(s, r)
        PROVE  TxTypeOK' /\ StillThere'
    <3>1. data_runs[r] \in DataRun
      BY <2>2 DEF BeginActivate, TxTypeOK, TypeOK, NoRun
    <3> DEFINE t == [ op |-> "activate", run |-> r, seen |-> data_runs[r],
                      new |-> data_runs[r], pointer |-> Unread ]
    <3>2. t \in Transaction
      BY <3>1 DEF Transaction
    <3>3. Begin(s, t)
      BY <2>2 DEF BeginActivate
    <3> QED BY <3>2, <3>3, BeginTypes
  <2>3. ASSUME NEW s \in Session, ReadPointer(s) PROVE TxTypeOK' /\ StillThere'
    <3>1. tx[s] \in Transaction /\ active \in Pointer \cup {NoPointer}
      BY <2>3 DEF ReadPointer, TxTypeOK, TypeOK
    <3>2. tx' = [tx EXCEPT ![s] = [tx[s] EXCEPT !.pointer = active]]
          /\ UNCHANGED registryVars
      BY <2>3 DEF ReadPointer
    <3>3. [tx[s] EXCEPT !.pointer = active] \in Transaction
      BY <3>1 DEF Transaction
    <3>4. TxTypeOK'
      BY <3>2, <3>3 DEF TxTypeOK, TypeOK, registryVars
    <3>5. /\ [tx[s] EXCEPT !.pointer = active].run = tx[s].run
          /\ [tx[s] EXCEPT !.pointer = active].seen = tx[s].seen
          /\ [tx[s] EXCEPT !.pointer = active].pointer = active
      BY <3>1 DEF Transaction
    <3>6. tx[s] # Idle
      BY <2>3 DEF ReadPointer
    <3>7. StillThere'
      BY <3>2, <3>5, <3>6 DEF StillThere, TxTypeOK, registryVars
    <3> QED BY <3>4, <3>7
  <2>4. ASSUME NEW s \in Session, Commit(s) PROVE TxTypeOK' /\ StillThere'
    <3> DEFINE t == tx[s]
               kept == Merged(data_runs[t.run], t.seen, t.new)
    <3>1. /\ tx' = [tx EXCEPT ![s] = Idle]
          /\ data_runs' = [data_runs EXCEPT ![t.run] = kept]
          /\ active' = IF Points(t) THEN Merged(active, t.pointer, PointerTo(t.run, t.new))
                       ELSE active
      BY <2>4 DEF Commit
    <3>2. t.run \in Run /\ kept \in DataRun
      BY <2>4, CommitStores DEF Transaction
    <3>3. active' \in Pointer \/ active' = active
      BY <2>4, <3>1, CommitStores
    <3> HIDE DEF kept
    <3>4. TxTypeOK'
      BY <3>1, <3>2, <3>3 DEF TxTypeOK, TypeOK
    <3>5. kept # NoRun
      BY <3>2 DEF DataRun, State, StateOrder, NoRun
    <3>6. StillThere'
      BY <3>1, <3>2, <3>3, <3>5 DEF StillThere, TxTypeOK, TypeOK
    <3> QED BY <3>4, <3>6
  <2>5. ASSUME NEW s \in Session, RollBack(s) PROVE TxTypeOK' /\ StillThere'
    BY <2>5 DEF RollBack, TxTypeOK, TypeOK, StillThere, registryVars
  <2>6. CASE UNCHANGED txVars
    BY <2>6 DEF txVars, TxTypeOK, TypeOK, StillThere
  <2> QED BY <2>1, <2>2, <2>3, <2>4, <2>5, <2>6 DEF TxNext
<1> QED BY <1>1, <1>2, PTL DEF TxSpec

\* The effect of a commit when each run has one client: the run's row becomes
\* the new one, which is an advance on the stored one.
LEMMA CommitAdvances ==
    ASSUME TxTypeOK, StillThere, OneClientInv, NEW s \in Session, Commit(s)
    PROVE  /\ data_runs' = [data_runs EXCEPT ![tx[s].run] = @]
              \/ /\ tx[s].op = "upsert"
                 /\ data_runs' = [data_runs EXCEPT ![tx[s].run] = tx[s].new]
           /\ \A r \in Run : Advances(data_runs[r], data_runs'[r])
           /\ Points(tx[s]) => data_runs'[tx[s].run].state = "published"
<1> DEFINE t == tx[s]
<1>1. t \in Transaction
  BY CommitStores
<1>2. /\ t.run \in Run /\ t.seen \in DataRun \cup {NoRun} /\ t.new \in DataRun
      /\ data_runs[t.run] \in DataRun \cup {NoRun}
  BY <1>1 DEF Transaction, TxTypeOK, TypeOK
<1>3. data_runs' = [data_runs EXCEPT ![t.run] = Merged(@, t.seen, t.new)]
  BY DEF Commit
<1>4. \A r \in Run : data_runs'[r] = data_runs[r] => Advances(data_runs[r], data_runs'[r])
  BY DEF Advances, TxTypeOK, TypeOK, DataRun, NoRun, State, StateOrder
<1>5. CASE t.op = "upsert"
  <2>1. t.seen = data_runs[t.run] /\ Allowed(t.seen, t.new.state)
    BY <1>5 DEF OneClientInv
  <2>2. data_runs' = [data_runs EXCEPT ![t.run] = t.new]
    BY <1>2, <1>3, <2>1, MergedIsNew
  <2>3. Advances(data_runs[t.run], t.new)
    BY <1>2, <2>1, AllowedAdvances
  <2>4. \A r \in Run : Advances(data_runs[r], data_runs'[r])
    BY <1>2, <1>4, <2>2, <2>3 DEF TxTypeOK, TypeOK
  <2>5. Points(t) => data_runs'[t.run].state = "published"
    BY <1>2, <1>5, <2>2 DEF Points, TxTypeOK, TypeOK
  <2> QED BY <1>5, <2>2, <2>4, <2>5
<1>6. CASE t.op = "activate"
  <2>1. t.new = t.seen /\ data_runs[t.run].state = "published"
    BY <1>6 DEF OneClientInv
  <2>2. data_runs[t.run] = [c \in DOMAIN data_runs[t.run] |-> data_runs[t.run][c]]
    BY <1>2 DEF DataRun, NoRun
  <2>3. Merged(data_runs[t.run], t.seen, t.new) = data_runs[t.run]
    BY <2>1, <2>2 DEF Merged
  <2>4. data_runs' = data_runs
    BY <1>2, <1>3, <2>3 DEF TxTypeOK, TypeOK
  <2> QED BY <1>2, <1>4, <2>1, <2>4 DEF TxTypeOK, TypeOK
<1> QED BY <1>1, <1>5, <1>6 DEF Transaction

LEMMA OneClientStep ==
    ASSUME OneClient, TxTypeOK, StillThere, OneClientInv, [TxNext]_txVars
    PROVE  OneClientInv'
<1>1. ASSUME NEW s \in Session, NEW p \in Post, BeginUpsert(s, p)
      PROVE  OneClientInv'
  <2> DEFINE t == [ op |-> "upsert", run |-> p.run, seen |-> data_runs[p.run],
                    new |-> Updated(data_runs[p.run], p), pointer |-> Unread ]
  <2>1. /\ \A o \in Session : tx[o].op = "upsert" => tx[o].run # p.run
        /\ Allowed(data_runs[p.run], p.state)
        /\ tx' = [tx EXCEPT ![s] = t] /\ UNCHANGED registryVars
    BY <1>1 DEF BeginUpsert, Begin
  <2>2. p.run \in Run /\ data_runs[p.run] \in DataRun \cup {NoRun}
    BY PostAssumption DEF TxTypeOK, TypeOK
  <2>3. Updated(data_runs[p.run], p).state = p.state
    BY <2>2, UpdatedType
  <2>4. /\ t.op = "upsert" /\ t.run = p.run /\ t.seen = data_runs[p.run]
        /\ t.new.state = p.state /\ t.pointer \notin Pointer
    BY <2>3, UnreadIsNoPointer
  <2> HIDE DEF t
  <2>5. \A o \in Session : tx'[o] = IF o = s THEN t ELSE tx[o]
    BY <2>1 DEF TxTypeOK
  <2> QED BY <2>1, <2>4, <2>5 DEF OneClientInv, ActiveIsPublished, registryVars
<1>2. ASSUME NEW s \in Session, NEW r \in Run, BeginActivate(s, r)
      PROVE  OneClientInv'
  <2> DEFINE t == [ op |-> "activate", run |-> r, seen |-> data_runs[r],
                    new |-> data_runs[r], pointer |-> Unread ]
  <2>1. /\ data_runs[r].state = "published"
        /\ tx' = [tx EXCEPT ![s] = t] /\ UNCHANGED registryVars
    BY <1>2 DEF BeginActivate, Begin
  <2>2. /\ t.op = "activate" /\ t.run = r /\ t.seen = t.new
        /\ t.new.state = "published" /\ t.pointer \notin Pointer
    BY <2>1, UnreadIsNoPointer
  <2> HIDE DEF t
  <2>3. \A o \in Session : tx'[o] = IF o = s THEN t ELSE tx[o]
    BY <2>1 DEF TxTypeOK
  <2> QED BY <2>1, <2>2, <2>3 DEF OneClientInv, ActiveIsPublished, registryVars
<1>3. ASSUME NEW s \in Session, ReadPointer(s) PROVE OneClientInv'
  <2> DEFINE t == [tx[s] EXCEPT !.pointer = active]
  <2>1. tx[s] \in Transaction /\ tx' = [tx EXCEPT ![s] = t] /\ UNCHANGED registryVars
    BY <1>3 DEF ReadPointer, TxTypeOK
  <2>2. /\ t.op = tx[s].op /\ t.run = tx[s].run /\ t.seen = tx[s].seen
        /\ t.new = tx[s].new /\ t.pointer = active
    BY <2>1 DEF Transaction
  <2> HIDE DEF t
  <2>3. \A o \in Session : tx'[o] = IF o = s THEN t ELSE tx[o]
    BY <2>1 DEF TxTypeOK
  <2> QED BY <2>1, <2>2, <2>3 DEF OneClientInv, ActiveIsPublished, registryVars
<1>4. ASSUME NEW s \in Session, Commit(s) PROVE OneClientInv'
  <2> DEFINE t == tx[s]
  <2>1. /\ tx' = [tx EXCEPT ![s] = Idle]
        /\ active' = IF Points(t) THEN Merged(active, t.pointer, PointerTo(t.run, t.new))
                     ELSE active
    BY <1>4 DEF Commit
  <2>2. \A o \in Session : tx'[o] = IF o = s THEN Idle ELSE tx[o]
    BY <2>1 DEF TxTypeOK
  <2>3. /\ \A r \in Run : Advances(data_runs[r], data_runs'[r])
        /\ Points(t) => data_runs'[t.run].state = "published"
    BY <1>4, CommitAdvances
  <2>4. t \in Transaction
    BY <1>4, CommitStores
  <2>5. ActiveIsPublished'
    <3>1. active # NoPointer => data_runs'[active.run].state = "published"
      BY <2>3 DEF OneClientInv, ActiveIsPublished, Advances, Terminal,
                  TxTypeOK, TypeOK, Pointer
    <3>2. CASE Points(t)
      <4>1. /\ active'.run \in {t.run, active.run}
            /\ active = NoPointer => active'.run = t.run
        BY <1>4, <2>1, <3>2, CommitStores
      <4> QED BY <2>3, <3>1, <3>2, <4>1 DEF ActiveIsPublished
    <3>3. CASE ~Points(t)
      BY <2>1, <3>1, <3>3 DEF ActiveIsPublished
    <3> QED BY <3>2, <3>3
  <2>6. active \in Pointer => active' \in Pointer
    BY <1>4, <2>1, CommitStores
  <2>7. ASSUME NEW o \in Session \ {s}, tx[o].op = "upsert"
        PROVE  data_runs'[tx[o].run] = data_runs[tx[o].run]
    <3>1. tx[o] \in Transaction
      BY <2>7 DEF TxTypeOK, Idle
    <3>2. t.op = "upsert" => tx[o].run # t.run
      BY <2>7 DEF OneClientInv
    <3> QED BY <1>4, <2>4, <3>1, <3>2, CommitAdvances DEF Transaction, TxTypeOK, TypeOK
  <2>8. ASSUME NEW o \in Session \ {s}, tx[o].op = "activate"
        PROVE  data_runs'[tx[o].run].state = "published"
    <3>1. tx[o] \in Transaction
      BY <2>8 DEF TxTypeOK, Idle
    <3> QED BY <2>3, <2>8, <3>1 DEF OneClientInv, Advances, Terminal, Transaction
  <2>9. Idle.op = "idle"
    BY DEF Idle
  <2> QED BY <2>2, <2>5, <2>6, <2>7, <2>8, <2>9 DEF OneClientInv
<1>5. ASSUME NEW s \in Session, RollBack(s) PROVE OneClientInv'
  <2>1. tx' = [tx EXCEPT ![s] = Idle] /\ UNCHANGED registryVars
    BY <1>5 DEF RollBack
  <2>2. \A o \in Session : tx'[o] = IF o = s THEN Idle ELSE tx[o]
    BY <2>1 DEF TxTypeOK
  <2>3. Idle.op = "idle"
    BY DEF Idle
  <2> QED BY <2>1, <2>2, <2>3 DEF OneClientInv, ActiveIsPublished, registryVars
<1>6. CASE UNCHANGED txVars
  BY <1>6 DEF txVars, OneClientInv, ActiveIsPublished
<1> QED BY <1>1, <1>2, <1>3, <1>4, <1>5, <1>6 DEF TxNext

\* However the requests of different runs overlap, the pointer names a
\* published run, provided each run's updates come from one client that waits
\* for each answer, as pipeline_runner.sh does.
THEOREM OneClientIsSafe ==
    ASSUME OneClient PROVE TxSpec => []OneClientInv
<1>1. TxInit => OneClientInv
  BY DEF TxInit, Init, OneClientInv, ActiveIsPublished, Idle
<1>2. OneClient
  OBVIOUS
<1>3. TxTypeOK /\ StillThere /\ OneClientInv /\ [TxNext]_txVars => OneClientInv'
  BY <1>2, OneClientStep
<1> QED BY <1>1, <1>3, TxTypes, PTL DEF TxSpec

\* Under the same condition no run moves back and terminal states are final.
THEOREM OneClientAdvances ==
    ASSUME OneClient PROVE TxSpec => StateOnlyAdvances
<1>1. TxTypeOK /\ StillThere /\ OneClientInv /\ [TxNext]_txVars
        => [\A r \in Run : Advances(data_runs[r], data_runs'[r])]_registryVars
  <2> SUFFICES ASSUME TxTypeOK, StillThere, OneClientInv, [TxNext]_txVars,
                      ~UNCHANGED registryVars
               PROVE  \A r \in Run : Advances(data_runs[r], data_runs'[r])
    OBVIOUS
  <2>1. PICK s \in Session : Commit(s)
    BY DEF TxNext, BeginUpsert, BeginActivate, Begin, ReadPointer, RollBack,
           txVars, registryVars
  <2> QED BY <2>1, CommitAdvances
<1> QED BY <1>1, OneClientIsSafe, TxTypes, PTL DEF TxSpec, StateOnlyAdvances

-----------------------------------------------------------------------------
(* Runs that have a path each                                              *)

\* Every client writes its run's own dataset_meta_path, and writes it with the publication;
\* an error is reported with a failure only.  pipeline_runner.sh does both.
OwnPaths(path) ==
    /\ path \in [Run -> Meta] /\ \A r, q \in Run : path[r] = path[q] => r = q
    /\ \A p \in Post :
          /\ p.meta \in {NoMeta, path[p.run]}
          /\ p.state = "published" => p.meta = path[p.run]

ErrorsAreFailures == \A p \in Post : p.error => p.state = "failed"

\* The rows have their runs' paths, a published row for certain.
RowsHavePaths(path) ==
    \A r \in Run :
       /\ data_runs[r].meta \in {NoMeta, path[r]}
       /\ data_runs[r].state = "published" => data_runs[r].meta = path[r]

\* So has the pointer, and what a transaction has loaded of it; the run it named then is
\* published still.
PointersHavePaths(path) ==
    /\ active # NoPointer => active.meta = path[active.run]
    /\ \A s \in Session : tx[s] # Idle /\ tx[s].pointer \in Pointer =>
          /\ tx[s].pointer.meta = path[tx[s].pointer.run]
          /\ data_runs[tx[s].pointer.run].state = "published"

\* A transaction will write what was posted.
Writes(t) == \E p \in Post : p.run = t.run /\ t.new = Updated(t.seen, p)

WritesPosts == \A s \in Session : tx[s].op = "upsert" => Writes(tx[s])

ActivatesPaths(path) ==
    \A s \in Session : tx[s].op = "activate" => tx[s].new.meta = path[tx[s].run]

PathInv(path) ==
    RowsHavePaths(path) /\ PointersHavePaths(path) /\ WritesPosts /\ ActivatesPaths(path)

\* The new row has its run's path.
LEMMA UpdatedHasPath ==
    ASSUME NEW path, OwnPaths(path), NEW p \in Post, NEW old,
           old.meta \in {NoMeta, path[p.run]}
    PROVE  /\ Updated(old, p).meta \in {NoMeta, path[p.run]}
           /\ p.state = "published" => Updated(old, p).meta = path[p.run]
BY DEF OwnPaths, Updated

\* A pointer that is written over another with its run's path has its run's path: the two
\* differ in both columns or in none.
LEMMA MergedPath ==
    ASSUME NEW path, OwnPaths(path),
           NEW kept \in Pointer \cup {NoPointer}, NEW seen \in Pointer \cup {NoPointer},
           NEW new \in Pointer, new.meta = path[new.run],
           seen \in Pointer => seen.meta = path[seen.run] /\ kept \in Pointer,
           seen = NoPointer => kept = NoPointer,
           kept \in Pointer => kept.meta = path[kept.run]
    PROVE  /\ seen = NoPointer \/ seen.run # new.run => Merged(kept, seen, new) = new
           /\ seen \in Pointer /\ seen.run = new.run => Merged(kept, seen, new) = kept
<1>1. DOMAIN kept = {"run", "meta"}
  BY DEF Pointer, NoPointer
<1>2. Merged(kept, seen, new) =
        [ run |-> IF new.run # seen.run THEN new.run ELSE kept.run,
          meta |-> IF new.meta # seen.meta THEN new.meta ELSE kept.meta ]
  BY <1>1 DEF Merged
<1>3. /\ new = [run |-> new.run, meta |-> new.meta] /\ new.run \in Run
      /\ kept = [run |-> kept.run, meta |-> kept.meta]
  BY DEF Pointer, NoPointer
<1>4. CASE seen = NoPointer
  <2>1. new.run # seen.run /\ kept.meta = seen.meta
    BY <1>3, <1>4, RunAssumption DEF NoPointer
  <2>2. (IF new.meta # seen.meta THEN new.meta ELSE kept.meta) = new.meta
    BY <2>1
  <2>3. seen \notin Pointer
    BY <1>4, RunAssumption DEF Pointer, NoPointer
  <2> QED BY <1>2, <1>3, <2>1, <2>2, <2>3
<1>5. CASE seen \in Pointer /\ seen.run # new.run
  <2>1. seen.run \in Run
    BY <1>5 DEF Pointer
  <2>2. new.meta # seen.meta
    BY <1>3, <1>5, <2>1 DEF OwnPaths
  <2> QED BY <1>2, <1>3, <1>5, <2>2
<1>6. CASE seen \in Pointer /\ seen.run = new.run
  <2>1. seen # NoPointer
    BY <1>6, RunAssumption DEF Pointer, NoPointer
  <2> QED BY <1>2, <1>3, <1>6, <2>1
<1> QED BY <1>4, <1>5, <1>6

\* What a commit stores: an update its new row, an activation no row; and either the
\* pointer to the run, or nothing, when the run was the one that was active.
LEMMA CommitStoresPaths ==
    ASSUME TxTypeOK, StillThere, OneClientInv, NEW path, OwnPaths(path), PathInv(path),
           NEW s \in Session, Commit(s)
    PROVE  LET t == tx[s] IN
           /\ t.op = "upsert" => data_runs' = [data_runs EXCEPT ![t.run] = t.new]
           /\ t.op = "activate" => data_runs' = data_runs
           /\ t.new.meta \in {NoMeta, path[t.run]}
           /\ Points(t) =>
                 /\ t.new.state = "published" /\ t.new.meta = path[t.run]
                 /\ \/ active' = PointerTo(t.run, t.new)
                    \/ /\ t.pointer \in Pointer /\ t.pointer.run = t.run
                       /\ active' = active
           /\ ~Points(t) => active' = active
<1> DEFINE t == tx[s]
<1>1. /\ t \in Transaction /\ t # Idle
      /\ data_runs' = [data_runs EXCEPT ![t.run] = Merged(@, t.seen, t.new)]
      /\ active' = IF Points(t) THEN Merged(active, t.pointer, PointerTo(t.run, t.new)) ELSE active
      /\ Points(t) => t.pointer # Unread
      /\ NoDuplicate(t)
  BY CommitStores DEF Commit
<1>2. /\ t.run \in Run /\ t.seen \in DataRun \cup {NoRun} /\ t.new \in DataRun
      /\ t.op \in {"upsert", "activate"} /\ data_runs[t.run] \in DataRun \cup {NoRun}
      /\ t.pointer \in Pointer \cup {NoPointer, Unread} /\ active \in Pointer \cup {NoPointer}
  BY <1>1 DEF Transaction, TxTypeOK, TypeOK
<1>3. t.op = "upsert" => data_runs' = [data_runs EXCEPT ![t.run] = t.new]
  <2>1. t.op = "upsert" => t.seen = data_runs[t.run]
    BY DEF OneClientInv
  <2> HIDE DEF t
  <2> QED BY <1>1, <1>2, <2>1, MergedIsNew
<1>4. t.op = "activate" => data_runs' = data_runs
  <2> SUFFICES ASSUME t.op = "activate" PROVE data_runs' = data_runs
    OBVIOUS
  <2>1. t.new = t.seen
    BY DEF OneClientInv
  <2>2. data_runs[t.run] = [c \in DOMAIN data_runs[t.run] |-> data_runs[t.run][c]]
    BY <1>2 DEF DataRun, NoRun
  <2>3. Merged(data_runs[t.run], t.seen, t.new) = data_runs[t.run]
    BY <2>1, <2>2 DEF Merged
  <2> HIDE DEF t
  <2> QED BY <1>1, <1>2, <2>3 DEF TxTypeOK, TypeOK
<1>5. ASSUME t.op = "upsert"
      PROVE  /\ t.new.meta \in {NoMeta, path[t.run]}
             /\ t.new.state = "published" => t.new.meta = path[t.run]
  <2>1. PICK p \in Post : p.run = t.run /\ t.new = Updated(t.seen, p)
    BY <1>5 DEF PathInv, WritesPosts, Writes
  <2>2. t.seen = data_runs[t.run] /\ t.seen.meta \in {NoMeta, path[t.run]}
    BY <1>2, <1>5 DEF OneClientInv, PathInv, RowsHavePaths
  <2>3. t.new.state = p.state
    BY <1>2, <2>1, UpdatedType
  <2> HIDE DEF t
  <2> QED BY <2>1, <2>2, <2>3, UpdatedHasPath
<1>6. t.op = "activate" => t.new.state = "published" /\ t.new.meta = path[t.run]
  BY DEF OneClientInv, PathInv, ActivatesPaths
<1>7. ASSUME Points(t)
      PROVE  \/ active' = PointerTo(t.run, t.new)
             \/ t.pointer \in Pointer /\ t.pointer.run = t.run /\ active' = active
  <2>1. t.new.meta = path[t.run]
    BY <1>2, <1>5, <1>6, <1>7 DEF Points
  <2>2. /\ PointerTo(t.run, t.new) \in Pointer
        /\ PointerTo(t.run, t.new).meta = path[t.run] /\ PointerTo(t.run, t.new).run = t.run
    BY <1>2, <2>1 DEF PointerTo, Pointer, DataRun
  <2>3. t.pointer \in Pointer \cup {NoPointer}
    BY <1>1, <1>2, <1>7
  <2>4. /\ t.pointer \in Pointer => t.pointer.meta = path[t.pointer.run] /\ active \in Pointer
        /\ t.pointer = NoPointer => active = NoPointer
        /\ active \in Pointer => active.meta = path[active.run]
    <3>1. active \in Pointer => active # NoPointer
      BY RunAssumption DEF Pointer, NoPointer
    <3> QED BY <1>1, <1>7, <3>1 DEF PathInv, PointersHavePaths, StillThere, NoDuplicate
  <2>5. t.pointer = NoPointer => t.pointer \notin Pointer
    BY RunAssumption DEF Pointer, NoPointer
  <2> DEFINE new == PointerTo(t.run, t.new)
  <2> HIDE DEF t, new
  <2>6. /\ t.pointer = NoPointer \/ t.pointer.run # new.run => Merged(active, t.pointer, new) = new
        /\ t.pointer \in Pointer /\ t.pointer.run = new.run
             => Merged(active, t.pointer, new) = active
    BY <1>2, <2>2, <2>3, <2>4, MergedPath DEF new
  <2> QED BY <1>1, <1>7, <2>2, <2>3, <2>6 DEF new
<1> QED BY <1>1, <1>2, <1>3, <1>4, <1>5, <1>6, <1>7 DEF Points

\* What a new transaction must have in common with the posts and the stored rows.
BeginsWell(t, path) ==
    /\ t.pointer = Unread
    /\ t.op = "upsert" => Writes(t)
    /\ t.op = "activate" => t.new.meta = path[t.run]

LEMMA BeginKeepsPaths ==
    ASSUME TxTypeOK, NEW path, PathInv(path), NEW s \in Session, NEW t \in Transaction,
           Begin(s, t), BeginsWell(t, path)
    PROVE  PathInv(path)'
<1>1. tx' = [tx EXCEPT ![s] = t] /\ data_runs' = data_runs /\ active' = active
  BY DEF Begin, registryVars
<1>2. \A o \in Session : tx'[o] = IF o = s THEN t ELSE tx[o]
  BY <1>1 DEF TxTypeOK
<1>3. t.pointer \notin Pointer
  BY UnreadIsNoPointer DEF BeginsWell
<1>4. RowsHavePaths(path)'
  BY <1>1 DEF PathInv, RowsHavePaths
<1>5. PointersHavePaths(path)'
  BY <1>1, <1>2, <1>3 DEF PathInv, PointersHavePaths
<1>6. WritesPosts'
  BY <1>2 DEF PathInv, WritesPosts, BeginsWell
<1>7. ActivatesPaths(path)'
  BY <1>2 DEF PathInv, ActivatesPaths, BeginsWell
<1> QED BY <1>4, <1>5, <1>6, <1>7 DEF PathInv

LEMMA CommitKeepsPaths ==
    ASSUME TxTypeOK, StillThere, OneClientInv, NEW path, OwnPaths(path), PathInv(path),
           NEW s \in Session, Commit(s)
    PROVE  PathInv(path)'
<1> DEFINE t == tx[s]
<1>1. /\ t.op = "upsert" => data_runs' = [data_runs EXCEPT ![t.run] = t.new]
      /\ t.op = "activate" => data_runs' = data_runs
      /\ t.new.meta \in {NoMeta, path[t.run]}
      /\ Points(t) =>
            /\ t.new.state = "published" /\ t.new.meta = path[t.run]
            /\ \/ active' = PointerTo(t.run, t.new)
               \/ /\ t.pointer \in Pointer /\ t.pointer.run = t.run
                  /\ active' = active
      /\ ~Points(t) => active' = active
  BY CommitStoresPaths
<1>2. t.run \in Run /\ t.op \in {"upsert", "activate"} /\ t.new \in DataRun
  BY CommitStores DEF Transaction
<1>3. \A o \in Session : tx'[o] = IF o = s THEN Idle ELSE tx[o]
  BY DEF Commit, TxTypeOK
<1>4. \A r \in Run : Advances(data_runs[r], data_runs'[r])
  BY CommitAdvances
<1>5. t.new.state = "published" => Points(t)
  BY DEF Points
<1> HIDE DEF t
<1>6. RowsHavePaths(path)'
  <2>1. CASE t.op = "upsert"
    BY <1>1, <1>2, <1>5, <2>1 DEF PathInv, RowsHavePaths, TxTypeOK, TypeOK
  <2>2. CASE t.op = "activate"
    BY <1>1, <2>2 DEF PathInv, RowsHavePaths
  <2> QED BY <1>2, <2>1, <2>2
<1>7. PointersHavePaths(path)'
  <2>1. active' # NoPointer => active'.meta = path[active'.run]
    BY <1>1 DEF PathInv, PointersHavePaths, PointerTo
  <2>2. ASSUME NEW o \in Session, tx'[o] # Idle, tx'[o].pointer \in Pointer
        PROVE  /\ tx'[o].pointer.meta = path[tx'[o].pointer.run]
               /\ data_runs'[tx'[o].pointer.run].state = "published"
    <3>1. tx'[o] = tx[o]
      BY <1>3, <2>2
    <3>2. /\ tx[o].pointer.meta = path[tx[o].pointer.run]
          /\ data_runs[tx[o].pointer.run].state = "published"
          /\ tx[o].pointer.run \in Run
      BY <2>2, <3>1 DEF PathInv, PointersHavePaths, Pointer
    <3> QED BY <1>4, <3>1, <3>2 DEF Advances, Terminal
  <2> QED BY <2>1, <2>2 DEF PointersHavePaths
<1>8. Idle.op = "idle"
  BY DEF Idle
<1>9. WritesPosts'
  BY <1>3, <1>8 DEF PathInv, WritesPosts
<1>10. ActivatesPaths(path)'
  BY <1>3, <1>8 DEF PathInv, ActivatesPaths
<1> QED BY <1>6, <1>7, <1>9, <1>10 DEF PathInv

LEMMA PathStep ==
    ASSUME TxTypeOK, StillThere, OneClientInv, NEW path, OwnPaths(path), PathInv(path),
           [TxNext]_txVars
    PROVE  PathInv(path)'
<1>1. ASSUME NEW s \in Session, NEW p \in Post, BeginUpsert(s, p)
      PROVE  PathInv(path)'
  <2> DEFINE t == [ op |-> "upsert", run |-> p.run, seen |-> data_runs[p.run],
                    new |-> Updated(data_runs[p.run], p), pointer |-> Unread ]
  <2>1. p.run \in Run /\ data_runs[p.run] \in DataRun \cup {NoRun}
    BY PostAssumption DEF TxTypeOK, TypeOK
  <2>2. t \in Transaction
    BY <2>1, UpdatedType DEF Transaction
  <2>3. Begin(s, t)
    BY <1>1 DEF BeginUpsert
  <2>4. BeginsWell(t, path)
    BY DEF BeginsWell, Writes
  <2> HIDE DEF t
  <2> QED BY <2>2, <2>3, <2>4, BeginKeepsPaths
<1>2. ASSUME NEW s \in Session, NEW r \in Run, BeginActivate(s, r)
      PROVE  PathInv(path)'
  <2> DEFINE t == [ op |-> "activate", run |-> r, seen |-> data_runs[r],
                    new |-> data_runs[r], pointer |-> Unread ]
  <2>1. data_runs[r].state = "published" /\ Begin(s, t)
    BY <1>2 DEF BeginActivate
  <2>2. data_runs[r] \in DataRun
    BY <2>1 DEF TxTypeOK, TypeOK, NoRun
  <2>3. t \in Transaction
    BY <2>2 DEF Transaction
  <2>4. BeginsWell(t, path)
    BY <2>1 DEF BeginsWell, PathInv, RowsHavePaths
  <2> HIDE DEF t
  <2> QED BY <2>1, <2>3, <2>4, BeginKeepsPaths
<1>3. ASSUME NEW s \in Session, ReadPointer(s) PROVE PathInv(path)'
  <2> DEFINE t == [tx[s] EXCEPT !.pointer = active]
  <2>1. /\ tx[s] \in Transaction /\ tx' = [tx EXCEPT ![s] = t] /\ tx[s] # Idle
        /\ data_runs' = data_runs /\ active' = active
    BY <1>3 DEF ReadPointer, TxTypeOK, registryVars
  <2>2. /\ t.op = tx[s].op /\ t.run = tx[s].run /\ t.seen = tx[s].seen
        /\ t.new = tx[s].new /\ t.pointer = active
    BY <2>1 DEF Transaction
  <2> HIDE DEF t
  <2>3. \A o \in Session : tx'[o] = IF o = s THEN t ELSE tx[o]
    BY <2>1 DEF TxTypeOK
  <2>4. active \in Pointer => active # NoPointer
    BY RunAssumption DEF Pointer, NoPointer
  <2>5. RowsHavePaths(path)'
    BY <2>1 DEF PathInv, RowsHavePaths
  <2>6. PointersHavePaths(path)'
    BY <2>1, <2>2, <2>3, <2>4
       DEF PathInv, PointersHavePaths, OneClientInv, ActiveIsPublished
  <2>7. Writes(tx[s]) => Writes(t)
    BY <2>2 DEF Writes
  <2>8. WritesPosts'
    BY <2>2, <2>3, <2>7 DEF PathInv, WritesPosts
  <2>9. ActivatesPaths(path)'
    BY <2>2, <2>3 DEF PathInv, ActivatesPaths
  <2> QED BY <2>5, <2>6, <2>8, <2>9 DEF PathInv
<1>4. ASSUME NEW s \in Session, Commit(s) PROVE PathInv(path)'
  BY <1>4, CommitKeepsPaths
<1>5. ASSUME NEW s \in Session, RollBack(s) PROVE PathInv(path)'
  <2>1. /\ \A o \in Session : tx'[o] = IF o = s THEN Idle ELSE tx[o]
        /\ data_runs' = data_runs /\ active' = active /\ Idle.op = "idle"
    BY <1>5 DEF RollBack, TxTypeOK, registryVars, Idle
  <2> QED BY <2>1 DEF PathInv, RowsHavePaths, PointersHavePaths, WritesPosts, ActivatesPaths
<1>6. CASE UNCHANGED txVars
  BY <1>6 DEF txVars, PathInv, RowsHavePaths, PointersHavePaths, WritesPosts, ActivatesPaths
<1> QED BY <1>1, <1>2, <1>3, <1>4, <1>5, <1>6 DEF TxNext

LEMMA PathsAreKept ==
    ASSUME OneClient, NEW path, OwnPaths(path) PROVE TxSpec => []PathInv(path)
<1>1. TxInit => PathInv(path)
  BY DEF TxInit, Init, PathInv, RowsHavePaths, PointersHavePaths, WritesPosts,
         ActivatesPaths, NoRun, Idle
<1>2. OwnPaths(path)
  OBVIOUS
<1>3. TxTypeOK /\ StillThere /\ OneClientInv /\ PathInv(path) /\ [TxNext]_txVars
        => PathInv(path)'
  BY <1>2, PathStep
<1> QED BY <1>1, <1>3, OneClientIsSafe, TxTypes, PTL DEF TxSpec

\* The pointer's copy of dataset_meta_path is its run's, however the requests of different
\* runs overlap: if each run has one client, a path of its own, and is published with it.
THEOREM PointerMirrorsRun ==
    ASSUME OneClient, NEW path, OwnPaths(path) PROVE TxSpec => []ActiveMirrorsRun
<1>1. TxTypeOK /\ OneClientInv /\ PathInv(path) => ActiveMirrorsRun
  BY DEF PathInv, RowsHavePaths, PointersHavePaths, OneClientInv, ActiveIsPublished,
         ActiveMirrorsRun, TxTypeOK, TypeOK, Pointer
<1> QED BY <1>1, PathsAreKept, OneClientIsSafe, TxTypes, PTL

-----------------------------------------------------------------------------
(* The transactions implement the handlers                                 *)

\* A published row has ended without an error.
PublishedIsClean ==
    \A r \in Run : data_runs[r].state = "published" =>
                      data_runs[r].error = FALSE /\ data_runs[r].finished = TRUE

\* The new row of a publication differs from no published row of the run.
LEMMA UpdatedIsClean ==
    ASSUME ErrorsAreFailures, NEW p \in Post, NEW old \in DataRun \cup {NoRun},
           p.state = "published"
    PROVE  Updated(old, p).error = FALSE /\ Updated(old, p).finished = TRUE
<1>1. p.error \in BOOLEAN /\ p.error = FALSE
  BY PostAssumption DEF ErrorsAreFailures
<1>2. Updated(old, p).error = (p.error \/ (p.state = "failed" /\ old.error))
  BY DEF Updated
<1>3. p.state # "failed"
  OBVIOUS
<1>4. Updated(old, p).error = FALSE
  BY <1>1, <1>2, <1>3
<1>5. Updated(old, p).finished = (p.state \in Terminal)
  BY DEF Updated
<1> QED BY <1>4, <1>5 DEF Terminal

LEMMA CleanStep ==
    ASSUME ErrorsAreFailures, TxTypeOK, StillThere, OneClientInv, NEW path, OwnPaths(path),
           PathInv(path), PublishedIsClean, [TxNext]_txVars
    PROVE  PublishedIsClean'
<1>1. ASSUME NEW s \in Session, Commit(s) PROVE PublishedIsClean'
  <2> DEFINE t == tx[s]
  <2>1. /\ t.op = "upsert" => data_runs' = [data_runs EXCEPT ![t.run] = t.new]
        /\ t.op = "activate" => data_runs' = data_runs
    BY <1>1, CommitStoresPaths
  <2>2. t.run \in Run /\ t.op \in {"upsert", "activate"} /\ t.seen \in DataRun \cup {NoRun}
    BY <1>1, CommitStores DEF Transaction
  <2>3. CASE t.op = "upsert"
    <3>1. PICK p \in Post : p.run = t.run /\ t.new = Updated(t.seen, p)
      BY <2>3 DEF PathInv, WritesPosts, Writes
    <3> HIDE DEF t
    <3>2. t.new.state = p.state
      BY <2>2, <3>1, UpdatedType
    <3>3. t.new.state = "published" => t.new.error = FALSE /\ t.new.finished = TRUE
      BY <2>2, <3>1, <3>2, UpdatedIsClean
    <3> QED BY <2>1, <2>2, <2>3, <3>3 DEF PublishedIsClean, TxTypeOK, TypeOK
  <2>4. CASE t.op = "activate"
    BY <2>1, <2>4 DEF PublishedIsClean
  <2> QED BY <2>2, <2>3, <2>4
<1>2. CASE UNCHANGED data_runs
  BY <1>2 DEF PublishedIsClean
<1> QED BY <1>1, <1>2 DEF TxNext, BeginUpsert, BeginActivate, Begin, ReadPointer, RollBack,
                           txVars, registryVars

\* An update that commits is the handler's step, unless it repeats the publication of the
\* run it saw active: then it writes what is stored.
LEMMA UpsertCommits ==
    ASSUME ErrorsAreFailures, TxTypeOK, StillThere, OneClientInv, NEW path, OwnPaths(path),
           PathInv(path), PublishedIsClean, NEW s \in Session, Commit(s),
           tx[s].op = "upsert"
    PROVE  [Next]_registryVars
<1> DEFINE t == tx[s]
<1>1. /\ data_runs' = [data_runs EXCEPT ![t.run] = t.new]
      /\ Points(t) =>
            /\ t.new.state = "published" /\ t.new.meta = path[t.run]
            /\ \/ active' = PointerTo(t.run, t.new)
               \/ /\ t.pointer \in Pointer /\ t.pointer.run = t.run
                  /\ active' = active
      /\ ~Points(t) => active' = active
      /\ Points(t) <=> t.new.state = "published"
  BY CommitStoresPaths DEF Points
<1>2. /\ t.run \in Run /\ t.new \in DataRun /\ t.seen = data_runs[t.run]
      /\ t.seen \in DataRun \cup {NoRun} /\ Allowed(t.seen, t.new.state)
  BY CommitStores DEF Transaction, OneClientInv
<1>3. PICK p \in Post : p.run = t.run /\ t.new = Updated(t.seen, p)
  BY DEF PathInv, WritesPosts, Writes
<1>4. t # Idle
  BY DEF Commit
<1>5. t.pointer \in Pointer => data_runs[t.pointer.run].state = "published"
  BY <1>4 DEF PathInv, PointersHavePaths
<1> HIDE DEF t
<1>6. t.new.state = p.state
  BY <1>2, <1>3, UpdatedType
<1>7. CASE active' = IF p.state = "published" THEN PointerTo(t.run, t.new) ELSE active
  <2>1. Upsert(p)
    BY <1>1, <1>2, <1>3, <1>6, <1>7 DEF Upsert
  <2> QED BY <2>1 DEF Next
<1>8. CASE Points(t) /\ t.pointer \in Pointer /\ t.pointer.run = t.run /\ active' = active
  <2>1. data_runs[t.run].state = "published" /\ t.new.state = "published"
    BY <1>1, <1>5, <1>8
  <2>2. t.seen \in DataRun
    BY <1>2, <2>1 DEF NoRun
  <2>3. /\ t.seen.state = "published" /\ t.seen.meta = path[t.run]
        /\ t.seen.error = FALSE /\ t.seen.finished = TRUE
    BY <1>2, <2>1 DEF PublishedIsClean, PathInv, RowsHavePaths
  <2>4. /\ t.new.meta = path[t.run] /\ t.new.error = FALSE /\ t.new.finished = TRUE
    BY <1>1, <1>2, <1>3, <1>6, <1>8, <2>1, UpdatedIsClean
  <2>5. t.new = t.seen
    BY <1>2, <2>1, <2>2, <2>3, <2>4 DEF DataRun
  <2>6. data_runs' = data_runs
    BY <1>1, <1>2, <2>5 DEF TxTypeOK, TypeOK
  <2> QED BY <1>8, <2>6 DEF registryVars
<1> QED BY <1>1, <1>6, <1>7, <1>8

\* An activation that commits is the handler's step, unless it saw the run active already.
LEMMA ActivateCommits ==
    ASSUME TxTypeOK, StillThere, OneClientInv, NEW path, OwnPaths(path), PathInv(path),
           NEW s \in Session, Commit(s), tx[s].op = "activate"
    PROVE  [Next]_registryVars
<1> DEFINE t == tx[s]
<1>1. /\ data_runs' = data_runs /\ t.new.meta = path[t.run]
      /\ active' = PointerTo(t.run, t.new) \/ active' = active
  BY CommitStoresPaths DEF Points
<1>2. t.run \in Run /\ data_runs[t.run].state = "published"
  BY CommitStores DEF Transaction, OneClientInv
<1>3. data_runs[t.run].meta = path[t.run]
  BY <1>2 DEF PathInv, RowsHavePaths
<1> HIDE DEF t
<1>4. CASE active' = PointerTo(t.run, t.new)
  <2>1. Activate(t.run)
    BY <1>1, <1>2, <1>3, <1>4 DEF Activate, PointerTo
  <2> QED BY <1>2, <2>1 DEF Next
<1>5. CASE active' = active
  BY <1>1, <1>5 DEF registryVars
<1> QED BY <1>1, <1>4, <1>5

\* Requests that overlap do to the registry what some order of single handlers does, when
\* each run has one client and a path of its own, is published with it, and reports
\* an error only when it fails: as pipeline_runner.sh posts.
THEOREM OneClientImplementsRegistry ==
    ASSUME OneClient, NEW path, OwnPaths(path), ErrorsAreFailures
    PROVE  TxSpec => RegistrySpec
<1>1. TxInit => Init /\ PublishedIsClean
  BY DEF TxInit, Init, PublishedIsClean, NoRun
<1>2. ErrorsAreFailures /\ OwnPaths(path)
  OBVIOUS
<1>3. TxTypeOK /\ StillThere /\ OneClientInv /\ PathInv(path) /\ PublishedIsClean
        /\ [TxNext]_txVars => PublishedIsClean'
  BY <1>2, CleanStep
<1>4. TxTypeOK /\ StillThere /\ OneClientInv /\ PathInv(path) /\ PublishedIsClean
        /\ [TxNext]_txVars => [Next]_registryVars
  <2> SUFFICES ASSUME TxTypeOK, StillThere, OneClientInv, PathInv(path),
                      PublishedIsClean, [TxNext]_txVars, ~UNCHANGED registryVars
               PROVE  [Next]_registryVars
    OBVIOUS
  <2>1. PICK s \in Session : Commit(s)
    BY DEF TxNext, BeginUpsert, BeginActivate, Begin, ReadPointer, RollBack,
           txVars, registryVars
  <2>2. tx[s].op \in {"upsert", "activate"}
    BY <2>1, CommitStores DEF Transaction
  <2> QED BY <1>2, <2>1, <2>2, UpsertCommits, ActivateCommits
<1> QED BY <1>1, <1>3, <1>4, PathsAreKept, OneClientIsSafe, TxTypes, PTL
        DEF TxSpec, RegistrySpec, Spec

-----------------------------------------------------------------------------
(* What a search finds: VacancySearch, for any processes, datasets, calls   *)
(* of the indexer and troubles                                             *)

MaybeDataset == Dataset \cup {NoDataset}
Doc   == [of : MaybeDataset, label : MaybeDataset]
Docs  == [Offer -> Doc]

\* The places of a call that has its record, from the frame to the last step.
WorkPlaces == {"frame", "read", "table", "drop", "create", "fill", "verify", "swap",
               "clean", "rows", "documents", "record"}

Call == [ at : WorkPlaces \cup {"label", "over"}, server : Server, force : BOOLEAN,
          label : MaybeDataset, frame : MaybeDataset, seen : Docs, record : Nat, alone : BOOLEAN ]

QueryState == {"unknown", "ready", "degraded", "fallback"}
Query ==
    {Unasked}
    \cup [at : {"status", "trust", "find"}, server : Server, run : Dataset,
          state : QueryState, excused : BOOLEAN]
    \cup [at : {"answered"}, server : Server, run : Dataset, state : QueryState,
          hits : SUBSET Doc, excused : BOOLEAN]

Recorded == [label : Dataset, status : {"running", "success", "failed"}]

SearchTypes ==
    /\ frames \in [Server -> Dataset]
    /\ records \in Seq(Recorded)
    /\ stored \in Docs /\ searched \in Docs
    /\ staging \in [Dataset -> Docs \cup {NoIndex}]
    /\ indexings \in [Indexing -> Call \cup {Unbegun}]
    /\ query \in Query

Works(n) == At(n) \in WorkPlaces

\* A call and its record.
RecordInv(n) ==
    At(n) # "none" =>
        /\ indexings[n].record <= Len(records)
        /\ Works(n) => indexings[n].record # 0 /\ indexings[n].label \in Dataset
        /\ At(n) = "label" => indexings[n].record = 0
        /\ indexings[n].record # 0 =>
              /\ records[indexings[n].record].label = indexings[n].label
              /\ At(n) # "over" => records[indexings[n].record].status = "running"

\* A call that ran alone is over before another one runs, and has the earlier record.
PairInv(n, o) ==
    At(n) # "none" /\ At(o) # "none" /\ n # o =>
        /\ indexings[n].record = indexings[o].record => indexings[n].record = 0
        /\ indexings[n].alone /\ At(o) # "over" =>
              /\ At(n) = "over"
              /\ At(o) = "label" \/ indexings[o].record > indexings[n].record

CallsInv ==
    /\ \A n \in Indexing : RecordInv(n)
    /\ \A n, o \in Indexing : PairInv(n, o)

NewestAlone(n) ==
    /\ At(n) # "none" /\ records # <<>> /\ indexings[n].record = Len(records)
    /\ indexings[n].alone /\ indexings[n].label = indexings[n].frame

\* What a call that ran alone has written when it gets to each of its steps.
WrittenBy(n) ==
    LET label == indexings[n].label
        want  == Documents(label, label)
    IN  /\ At(n) = "table" => indexings[n].seen = stored
        /\ At(n) \in {"drop", "create", "fill", "verify", "swap", "clean", "rows",
                      "documents", "record"} => stored = want
        /\ At(n) = "create" => staging[label] = NoIndex
        /\ At(n) = "fill" => staging[label] = Nothing
        /\ At(n) \in {"verify", "swap"} => staging[label] = want
        /\ At(n) \in {"clean", "rows", "documents", "record"} => searched = want
        /\ At(n) = "over" /\ Newest.status = "success" => stored = want /\ searched = want

NewestInv == \A n \in Indexing : NewestAlone(n) => WrittenBy(n)

\* A search that is under way and has not been disturbed.
AskedInv ==
    ~query.excused =>
        /\ query.at \in {"status", "trust", "find"} => frames[query.server] = query.run
        /\ query.at \in {"trust", "find"} /\ query.state = "ready" =>
              searched = Documents(query.run, query.run)

QueryInv == query # Unasked => AskedInv /\ ReadyIsOfTheRun

SearchInv == SearchTypes /\ CallsInv /\ NewestInv /\ QueryInv

-----------------------------------------------------------------------------

LEMMA DocumentsType == ASSUME NEW of \in MaybeDataset, NEW label \in MaybeDataset
                       PROVE  Documents(of, label) \in Docs
BY DEF Documents, Docs, Doc, Gone, MaybeDataset

LEMMA NothingType == Nothing \in Docs /\ Gone \in Doc
BY DEF Nothing, Docs, Doc, Gone, MaybeDataset

LEMMA CallType ==
    ASSUME SearchTypes, NEW n \in Indexing, At(n) # "none"
    PROVE  indexings[n] \in Call
BY DEF SearchTypes, At, Unbegun

\* A call that goes on with the record it has, or is over and closes it.
GoesOn(o, c) ==
    /\ Works(o) /\ c \in Call /\ c.at \in WorkPlaces \cup {"over"}
    /\ indexings' = [indexings EXCEPT ![o] = c]
    /\ c.record = indexings[o].record /\ c.label = indexings[o].label
    /\ c.alone = indexings[o].alone
    /\ \/ records' = records
       \/ /\ c.at = "over"
          /\ \E status \in {"running", "success", "failed"} :
                records' = [records EXCEPT ![c.record].status = status]

LEMMA GoingOnRecords ==
    ASSUME SearchTypes, CallsInv, NEW o \in Indexing, NEW c, GoesOn(o, c)
    PROVE  /\ records' \in Seq(Recorded)
           /\ Len(records') = Len(records)
           /\ \A i \in 1..Len(records) :
                 /\ records'[i].label = records[i].label
                 /\ i # c.record => records'[i] = records[i]
<1>1. c.record \in 1..Len(records)
  <2>1. RecordInv(o) /\ At(o) # "none" /\ c.record \in Nat
    BY DEF CallsInv, GoesOn, Works, WorkPlaces, Call
  <2> QED BY <2>1 DEF RecordInv, GoesOn, SearchTypes
<1>2. CASE records' = records
  BY <1>2 DEF SearchTypes
<1>3. ASSUME NEW status \in {"running", "success", "failed"},
             records' = [records EXCEPT ![c.record].status = status]
      PROVE  /\ records' \in Seq(Recorded)
             /\ Len(records') = Len(records)
             /\ \A i \in 1..Len(records) :
                   /\ records'[i].label = records[i].label
                   /\ i # c.record => records'[i] = records[i]
  <2> DEFINE row == [records[c.record] EXCEPT !.status = status]
  <2>1. records \in Seq(Recorded) /\ records[c.record] \in Recorded
    BY <1>1 DEF SearchTypes
  <2>2. /\ row \in Recorded
        /\ row.label = records[c.record].label
    BY <2>1 DEF Recorded
  <2>3. records' = [records EXCEPT ![c.record] = row]
    BY <1>3
  <2> HIDE DEF row
  <2> QED BY <1>1, <2>1, <2>2, <2>3
<1> QED BY <1>2, <1>3 DEF GoesOn

LEMMA GoingOnCalls ==
    ASSUME SearchTypes, CallsInv, NEW o \in Indexing, NEW c, GoesOn(o, c)
    PROVE  CallsInv' /\ indexings' \in [Indexing -> Call \cup {Unbegun}]
<1>1. /\ indexings' \in [Indexing -> Call \cup {Unbegun}] /\ indexings'[o] = c
      /\ \A n \in Indexing : n # o => indexings'[n] = indexings[n]
  BY DEF GoesOn, SearchTypes
<1>2. /\ Len(records') = Len(records)
      /\ \A i \in 1..Len(records) :
            /\ records'[i].label = records[i].label
            /\ i # c.record => records'[i] = records[i]
  BY GoingOnRecords
<1>3. /\ At(o) \in WorkPlaces /\ At(o) # "none" /\ At(o) # "over" /\ At(o) # "label"
      /\ c.at # "none" /\ c.at # "label" /\ (c.at # "over" => c.at \in WorkPlaces)
      /\ c.at # "over" => records' = records
  BY DEF GoesOn, Works, WorkPlaces
<1>4. /\ c.record = indexings[o].record /\ c.label = indexings[o].label
      /\ c.alone = indexings[o].alone /\ c.record \in Nat
  BY DEF GoesOn, Call
<1>5. Len(records) \in Nat
  BY DEF SearchTypes
<1>6. RecordInv(o)'
  <2>1. RecordInv(o)
    BY DEF CallsInv
  <2> QED BY <1>1, <1>2, <1>3, <1>4, <1>5, <2>1 DEF RecordInv, At, Works
<1>7. ASSUME NEW n \in Indexing, n # o
      PROVE  RecordInv(n)'
  <2>1. RecordInv(n) /\ PairInv(n, o)
    BY DEF CallsInv
  <2>2. At(n) # "none" => indexings[n].record \in Nat
    BY CallType DEF Call
  <2> QED BY <1>1, <1>2, <1>3, <1>4, <1>5, <1>7, <2>1, <2>2 DEF RecordInv, PairInv, At, Works
<1>8. ASSUME NEW n \in Indexing, NEW m \in Indexing
      PROVE  PairInv(n, m)'
  <2>1. PairInv(n, m)
    BY DEF CallsInv
  <2> QED BY <1>1, <1>3, <1>4, <2>1 DEF PairInv, At
<1> QED BY <1>1, <1>6, <1>7, <1>8 DEF CallsInv

\* While the newest record is one of a call that ran alone, no other call is at work.
LEMMA NobodyElseWorks ==
    ASSUME SearchTypes, CallsInv, NEW n \in Indexing, NewestAlone(n),
           NEW o \in Indexing, Works(o)
    PROVE  o = n
<1>1. PairInv(n, o) /\ RecordInv(o) /\ At(o) # "none" /\ At(o) # "over" /\ At(o) # "label"
  BY DEF CallsInv, Works, WorkPlaces
<1>2. indexings[o].record \in Nat /\ Len(records) \in Nat
  BY <1>1, CallType DEF SearchTypes, Call
<1> QED BY <1>1, <1>2 DEF PairInv, RecordInv, NewestAlone

\* So what is to be shown of a step of a call is shown for that call.
LEMMA GoingOnNewest ==
    ASSUME SearchTypes, CallsInv, NEW o \in Indexing, NEW c, GoesOn(o, c),
           NewestAlone(o)' => WrittenBy(o)'
    PROVE  NewestInv'
<1> SUFFICES ASSUME NEW n \in Indexing, n # o, NewestAlone(n)'
             PROVE  FALSE
  BY DEF NewestInv
<1>1. indexings'[n] = indexings[n] /\ Len(records') = Len(records) /\ Works(o)
  BY GoingOnRecords DEF GoesOn, SearchTypes
<1>2. records \in Seq(Recorded)
      /\ records' \in Seq(Recorded)
  BY GoingOnRecords DEF SearchTypes
<1>3. records # <<>>
  BY <1>1, <1>2 DEF NewestAlone
<1>4. NewestAlone(n)
  BY <1>1, <1>3 DEF NewestAlone, At
<1> QED BY <1>1, <1>4, NobodyElseWorks

LEMMA WorkingCall ==
    ASSUME SearchTypes, CallsInv, NEW n \in Indexing, Works(n)
    PROVE  /\ indexings[n] \in Call /\ indexings[n].label \in Dataset
           /\ indexings[n].record \in 1..Len(records)
<1>1. At(n) # "none" /\ RecordInv(n)
  BY DEF Works, WorkPlaces, CallsInv
<1> QED BY <1>1, CallType DEF RecordInv, Call, SearchTypes

LEMMA Proceeding ==
    ASSUME SearchTypes, CallsInv, NEW n \in Indexing, Works(n),
           NEW at \in WorkPlaces, Proceeds(n, at), records' = records
    PROVE  /\ GoesOn(n, indexings'[n]) /\ At(n)' = at
           /\ indexings'[n].label = indexings[n].label
           /\ indexings'[n].frame = indexings[n].frame
           /\ indexings'[n].seen = indexings[n].seen
           /\ NewestAlone(n)' => NewestAlone(n)
<1> DEFINE c == [indexings[n] EXCEPT !.at = at]
<1>1. indexings[n] \in Call
  BY WorkingCall
<1>2. /\ c \in Call /\ c.at = at /\ c.record = indexings[n].record
      /\ c.label = indexings[n].label /\ c.alone = indexings[n].alone
      /\ c.frame = indexings[n].frame /\ c.seen = indexings[n].seen
  BY <1>1 DEF Call
<1>3. indexings' = [indexings EXCEPT ![n] = c]
  BY DEF Proceeds
<1> HIDE DEF c
<1>4. indexings'[n] = c
  BY <1>3 DEF SearchTypes
<1>5. GoesOn(n, indexings'[n])
  BY <1>2, <1>3, <1>4 DEF GoesOn
<1>6. NewestAlone(n)' => NewestAlone(n)
  BY <1>2, <1>4 DEF NewestAlone, At, Works, WorkPlaces
<1> QED BY <1>2, <1>4, <1>5, <1>6 DEF At

LEMMA Closing ==
    ASSUME SearchTypes, CallsInv, NEW n \in Indexing, Works(n),
           NEW status \in {"running", "success", "failed"}, Closed(n, status)
    PROVE  /\ GoesOn(n, indexings'[n]) /\ At(n)' = "over"
           /\ indexings'[n].label = indexings[n].label
           /\ NewestAlone(n)' => NewestAlone(n) /\ Newest'.status = status
<1> DEFINE c == [indexings[n] EXCEPT !.at = "over", !.seen = Nothing]
<1>1. indexings[n] \in Call /\ indexings[n].record \in 1..Len(records)
  BY WorkingCall
<1>2. /\ c \in Call /\ c.at = "over" /\ c.record = indexings[n].record
      /\ c.label = indexings[n].label /\ c.alone = indexings[n].alone
      /\ c.frame = indexings[n].frame
  BY <1>1, NothingType DEF Call
<1>3. /\ indexings' = [indexings EXCEPT ![n] = c]
      /\ records' = [records EXCEPT ![c.record].status = status]
  BY <1>2 DEF Closed
<1> HIDE DEF c
<1>4. indexings'[n] = c
  BY <1>3 DEF SearchTypes
<1>5. GoesOn(n, indexings'[n])
  BY <1>2, <1>3, <1>4 DEF GoesOn
<1>6. Len(records') = Len(records) /\ records # <<>> /\ Len(records) \in Nat
  BY <1>1, <1>5, GoingOnRecords DEF SearchTypes
<1>7. NewestAlone(n)' => NewestAlone(n) /\ c.record = Len(records)
  BY <1>2, <1>4, <1>6 DEF NewestAlone, At, Works, WorkPlaces
<1>8. c.record = Len(records) => Newest'.status = status
  <2> DEFINE row == [records[c.record] EXCEPT !.status = status]
  <2>1. records \in Seq(Recorded) /\ records[c.record] \in Recorded
    BY <1>1, <1>2 DEF SearchTypes
  <2>2. row.status = status
    BY <2>1 DEF Recorded
  <2>3. records' = [records EXCEPT ![c.record] = row]
    BY <1>3
  <2> HIDE DEF row
  <2> QED BY <1>1, <1>2, <1>6, <2>1, <2>2, <2>3 DEF Newest
<1> QED BY <1>2, <1>4, <1>5, <1>7, <1>8 DEF At

LEMMA IndexMovesQuery ==
    ASSUME SearchTypes, QueryInv, query' = IndexMoves
    PROVE  query' \in Query /\ QueryInv'
<1>1. CASE query = Unasked
  BY <1>1 DEF IndexMoves, Unasked, Query, QueryInv
<1>2. CASE query \in [at : {"status", "trust", "find"}, server : Server, run : Dataset,
                      state : QueryState, excused : BOOLEAN]
  <2>1. query' = [query EXCEPT !.excused = TRUE]
    BY <1>2 DEF IndexMoves
  <2>2. /\ query' \in [at : {"status", "trust", "find"}, server : Server, run : Dataset,
                       state : QueryState, excused : BOOLEAN]
        /\ query'.excused = TRUE
    BY <1>2, <2>1
  <2> QED BY <2>2 DEF Query, QueryInv, AskedInv, ReadyIsOfTheRun
<1>3. CASE query \in [at : {"answered"}, server : Server, run : Dataset, state : QueryState,
                      hits : SUBSET Doc, excused : BOOLEAN]
  <2>1. query' = query /\ query.at = "answered"
    BY <1>3 DEF IndexMoves
  <2> QED BY <1>3, <2>1 DEF SearchTypes, QueryInv, AskedInv, ReadyIsOfTheRun, Unasked
<1> QED BY <1>1, <1>2, <1>3 DEF SearchTypes, Query

\* What remains to be shown of a step of a call that is at work.
LEMMA StepOfCall ==
    ASSUME SearchInv, NEW n \in Indexing, GoesOn(n, indexings'[n]), frames' = frames,
           stored' \in Docs, searched' \in Docs,
           staging' \in [Dataset -> Docs \cup {NoIndex}],
           UNCHANGED <<searched, query>> \/ query' = IndexMoves,
           NewestAlone(n)' => WrittenBy(n)'
    PROVE  SearchInv'
<1>1. CallsInv' /\ indexings' \in [Indexing -> Call \cup {Unbegun}]
  BY GoingOnCalls DEF SearchInv
<1>2. NewestInv'
  BY GoingOnNewest DEF SearchInv
<1>3. records' \in Seq(Recorded)
  BY GoingOnRecords DEF SearchInv
<1>4. query' \in Query /\ QueryInv'
  <2>1. CASE UNCHANGED <<searched, query>>
    BY <2>1 DEF SearchInv, SearchTypes, QueryInv, AskedInv, ReadyIsOfTheRun
  <2>2. CASE query' = IndexMoves
    BY <2>2, IndexMovesQuery DEF SearchInv
  <2> QED BY <2>1, <2>2
<1> QED BY <1>1, <1>2, <1>3, <1>4 DEF SearchInv, SearchTypes

LEMMA IncomingType ==
    ASSUME SearchTypes, CallsInv, NEW n \in Indexing, Works(n)
    PROVE  /\ Incoming(n) \in Docs
           /\ NewestAlone(n) =>
                 Incoming(n) = Documents(indexings[n].label, indexings[n].label)
BY WorkingCall, DocumentsType DEF Incoming, RunOf, Call, NewestAlone

LEMMA ReadFrameKeeps ==
    ASSUME SearchInv, NEW n \in Indexing, ReadFrame(n) PROVE SearchInv'
<1>1. SearchTypes /\ CallsInv /\ Works(n) /\ indexings[n] \in Call
  BY WorkingCall DEF SearchInv, ReadFrame, Works, WorkPlaces
<1> DEFINE frame == frames[indexings[n].server]
           c == [indexings[n] EXCEPT !.at = "read", !.frame = frame]
<1>2. frame \in MaybeDataset
  BY <1>1 DEF SearchTypes, Call, MaybeDataset
<1> HIDE DEF frame
<1>3. /\ c \in Call /\ c.at = "read" /\ c.record = indexings[n].record
      /\ c.label = indexings[n].label /\ c.alone = indexings[n].alone
  BY <1>1, <1>2 DEF Call, WorkPlaces
<1>4. indexings' = [indexings EXCEPT ![n] = c] /\ records' = records
  BY DEF ReadFrame, frame
<1> HIDE DEF c
<1>5. indexings'[n] = c /\ GoesOn(n, c)
  BY <1>1, <1>3, <1>4 DEF SearchTypes, GoesOn, WorkPlaces
<1>6. WrittenBy(n)'
  BY <1>3, <1>5 DEF WrittenBy, At
<1> QED BY <1>1, <1>5, <1>6, StepOfCall DEF ReadFrame, TableAndIndexOnly, SearchTypes

LEMMA ReadTableKeeps ==
    ASSUME SearchInv, NEW n \in Indexing, ReadTable(n) PROVE SearchInv'
<1>1. SearchTypes /\ CallsInv /\ Works(n) /\ indexings[n] \in Call
  BY WorkingCall DEF SearchInv, ReadTable, Works, WorkPlaces
<1> DEFINE c == [indexings[n] EXCEPT !.at = "table", !.seen = stored]
<1>3. /\ c \in Call /\ c.at = "table" /\ c.record = indexings[n].record
      /\ c.label = indexings[n].label /\ c.alone = indexings[n].alone /\ c.seen = stored
  BY <1>1 DEF Call, WorkPlaces, SearchTypes
<1>4. indexings' = [indexings EXCEPT ![n] = c] /\ records' = records /\ stored' = stored
  BY DEF ReadTable
<1> HIDE DEF c
<1>5. indexings'[n] = c /\ GoesOn(n, c)
  BY <1>1, <1>3, <1>4 DEF SearchTypes, GoesOn, WorkPlaces
<1>6. WrittenBy(n)'
  BY <1>3, <1>4, <1>5 DEF WrittenBy, At
<1> QED BY <1>1, <1>5, <1>6, StepOfCall DEF ReadTable, TableAndIndexOnly, SearchTypes

LEMMA MergedDoc ==
    ASSUME NEW row \in Doc, NEW seen \in Doc, NEW new \in Doc
    PROVE  MergedRow(row, seen, new) \in Doc /\ MergedRow(seen, seen, new) = new
BY DEF MergedRow, Doc

\* What a reconciliation leaves of a table that nobody changed since it was read is
\* what came in.
LEMMA ReconciledTable ==
    ASSUME SearchTypes, CallsInv, NEW n \in Indexing, Works(n)
    PROVE  /\ Reconciled(n) \in Docs
           /\ Seen(n) = stored => Reconciled(n) = Incoming(n)
<1>1. stored \in Docs /\ Seen(n) \in Docs /\ Incoming(n) \in Docs /\ Gone \in Doc
  BY WorkingCall, IncomingType, NothingType DEF SearchTypes, Seen, Call
<1> DEFINE row(v) ==
      IF v \notin Has(Incoming(n)) THEN IF v \in Has(Seen(n)) THEN Gone ELSE stored[v]
      ELSE IF v \notin Has(Seen(n)) THEN Incoming(n)[v]
      ELSE MergedRow(stored[v], Seen(n)[v], Incoming(n)[v])
<1>2. Reconciled(n) = [v \in Offer |-> row(v)]
  BY DEF Reconciled
<1>3. ASSUME NEW v \in Offer
      PROVE  row(v) \in Doc /\ (Seen(n) = stored => row(v) = Incoming(n)[v])
  <2>1. stored[v] \in Doc /\ Seen(n)[v] \in Doc /\ Incoming(n)[v] \in Doc
    BY <1>1 DEF Docs
  <2>2. /\ MergedRow(stored[v], Seen(n)[v], Incoming(n)[v]) \in Doc
        /\ MergedRow(Seen(n)[v], Seen(n)[v], Incoming(n)[v]) = Incoming(n)[v]
    BY <2>1, MergedDoc
  <2> QED BY <1>1, <2>1, <2>2 DEF Has
<1> HIDE DEF row
<1>4. Reconciled(n) \in Docs
  BY <1>2, <1>3 DEF Docs
<1>5. ASSUME Seen(n) = stored PROVE Reconciled(n) = Incoming(n)
  <2>1. Incoming(n) = [v \in Offer |-> Incoming(n)[v]]
    BY <1>1 DEF Docs
  <2> QED BY <1>2, <1>3, <1>5, <2>1
<1> QED BY <1>4, <1>5

LEMMA ReconcileTableKeeps ==
    ASSUME SearchInv, NEW n \in Indexing, ReconcileTable(n) PROVE SearchInv'
<1>1. /\ SearchTypes /\ CallsInv /\ NewestInv /\ Works(n) /\ At(n) = "table"
      /\ UNCHANGED <<frames, query, searched, staging>>
  BY DEF SearchInv, ReconcileTable, TableAndIndexOnly, Works, WorkPlaces
<1>2. CASE /\ stored' = IF Full(n) THEN Incoming(n) ELSE Reconciled(n)
           /\ Proceeds(n, "drop") /\ records' = records
  <2>1. /\ GoesOn(n, indexings'[n]) /\ At(n)' = "drop"
        /\ indexings'[n].label = indexings[n].label /\ (NewestAlone(n)' => NewestAlone(n))
    <3>1. "drop" \in WorkPlaces
      BY DEF WorkPlaces
    <3> QED BY <1>1, <1>2, <3>1, Proceeding
  <2>2. stored' \in Docs
    BY <1>1, <1>2, IncomingType, ReconciledTable
  <2>3. NewestAlone(n) => stored' = Documents(indexings[n].label, indexings[n].label)
    <3>1. NewestAlone(n) => Seen(n) = stored
      BY <1>1 DEF NewestInv, WrittenBy, Seen
    <3> QED BY <1>1, <1>2, <3>1, IncomingType, ReconciledTable
  <2>4. NewestAlone(n)' => WrittenBy(n)'
    BY <2>1, <2>3 DEF WrittenBy, At
  <2> QED BY <1>1, <2>1, <2>2, <2>4, StepOfCall DEF SearchTypes
<1>3. CASE Closed(n, "failed") /\ stored' = stored
  <2>1. /\ GoesOn(n, indexings'[n]) /\ At(n)' = "over"
        /\ NewestAlone(n)' => Newest'.status = "failed"
    BY <1>1, <1>3, Closing
  <2>2. NewestAlone(n)' => WrittenBy(n)'
    BY <2>1 DEF WrittenBy, At, Newest
  <2> QED BY <1>1, <1>3, <2>1, <2>2, StepOfCall DEF SearchTypes
<1> QED BY <1>2, <1>3 DEF ReconcileTable

\* What a call writes to its staging index.
LEMMA StagesWhat ==
    ASSUME SearchTypes, CallsInv, NEW n \in Indexing, Works(n),
           NEW docs \in Docs \cup {NoIndex}, Stages(n, docs)
    PROVE  /\ staging' \in [Dataset -> Docs \cup {NoIndex}]
           /\ staging'[indexings[n].label] = docs
           /\ Staged(n) \in Docs \cup {NoIndex}
BY WorkingCall DEF SearchTypes, Stages, Staged, RunOf

\* A call that fails has written nothing that counts.
LEMMA FailingKeeps ==
    ASSUME SearchInv, NEW n \in Indexing, Works(n),
           NEW status \in {"running", "failed"}, Closed(n, status),
           frames' = frames, stored' = stored, searched' \in Docs,
           staging' \in [Dataset -> Docs \cup {NoIndex}],
           UNCHANGED <<searched, query>> \/ query' = IndexMoves
    PROVE  SearchInv'
<1>1. /\ GoesOn(n, indexings'[n]) /\ At(n)' = "over"
      /\ NewestAlone(n)' => Newest'.status = status
  BY Closing DEF SearchInv
<1>2. NewestAlone(n)' => WrittenBy(n)'
  BY <1>1 DEF WrittenBy, At, Newest
<1> QED BY <1>1, <1>2, StepOfCall DEF SearchInv, SearchTypes

LEMMA CallFailsKeeps ==
    ASSUME SearchInv, NEW n \in Indexing, CallFails(n) PROVE SearchInv'
<1>1. Works(n) /\ UNCHANGED <<frames, stored, searched, staging, query>>
  BY DEF CallFails, Works, WorkPlaces
<1>2. PICK status \in {"failed", "running"} : Closed(n, status)
  BY DEF CallFails
<1> QED BY <1>1, <1>2, FailingKeeps DEF SearchInv, SearchTypes

LEMMA DropStagingKeeps ==
    ASSUME SearchInv, NEW n \in Indexing, DropStaging(n) PROVE SearchInv'
<1>1. /\ SearchTypes /\ CallsInv /\ NewestInv /\ Works(n) /\ At(n) = "drop"
      /\ UNCHANGED <<frames, query, records, stored, searched>>
  BY DEF SearchInv, DropStaging, StagingOnly, TableAndIndexOnly, Works, WorkPlaces
<1>2. /\ GoesOn(n, indexings'[n]) /\ At(n)' = "create"
      /\ indexings'[n].label = indexings[n].label /\ (NewestAlone(n)' => NewestAlone(n))
  <2>1. "create" \in WorkPlaces
    BY DEF WorkPlaces
  <2> QED BY <1>1, <2>1, Proceeding DEF DropStaging
<1>3. staging' \in [Dataset -> Docs \cup {NoIndex}] /\ staging'[indexings[n].label] = NoIndex
  BY <1>1, StagesWhat DEF DropStaging
<1>4. NewestAlone(n)' => WrittenBy(n)'
  BY <1>1, <1>2, <1>3 DEF NewestInv, WrittenBy, At
<1> QED BY <1>1, <1>2, <1>3, <1>4, StepOfCall DEF SearchTypes

LEMMA CreateStagingKeeps ==
    ASSUME SearchInv, NEW n \in Indexing, CreateStaging(n) PROVE SearchInv'
<1>1. /\ SearchTypes /\ CallsInv /\ NewestInv /\ Works(n) /\ At(n) = "create"
      /\ UNCHANGED <<frames, query, records, stored, searched>>
  BY DEF SearchInv, CreateStaging, StagingOnly, TableAndIndexOnly, Works, WorkPlaces
<1>2. /\ GoesOn(n, indexings'[n]) /\ At(n)' = "fill"
      /\ indexings'[n].label = indexings[n].label /\ (NewestAlone(n)' => NewestAlone(n))
  <2>1. "fill" \in WorkPlaces
    BY DEF WorkPlaces
  <2> QED BY <1>1, <2>1, Proceeding DEF CreateStaging
<1> DEFINE docs == IF Staged(n) = NoIndex THEN Nothing ELSE Staged(n)
<1>3. docs \in Docs \cup {NoIndex} /\ Stages(n, docs)
  BY <1>1, WorkingCall, NothingType DEF CreateStaging, SearchTypes, Staged, RunOf
<1>4. NewestAlone(n) => docs = Nothing
  BY <1>1 DEF NewestInv, WrittenBy, Staged, RunOf
<1>5. PICK written \in Docs \cup {NoIndex} : written = docs
  BY <1>3
<1> HIDE DEF docs
<1>6. /\ staging' \in [Dataset -> Docs \cup {NoIndex}]
      /\ staging'[indexings[n].label] = written
  BY <1>1, <1>3, <1>5, StagesWhat
<1>7. NewestAlone(n)' => WrittenBy(n)'
  BY <1>1, <1>2, <1>4, <1>5, <1>6 DEF NewestInv, WrittenBy, At
<1> QED BY <1>1, <1>2, <1>6, <1>7, StepOfCall DEF SearchTypes

LEMMA FillStagingKeeps ==
    ASSUME SearchInv, NEW n \in Indexing, FillStaging(n) PROVE SearchInv'
<1>1. /\ SearchTypes /\ CallsInv /\ NewestInv /\ Works(n) /\ At(n) = "fill"
      /\ UNCHANGED <<frames, query, records, stored, searched>>
  BY DEF SearchInv, FillStaging, StagingOnly, TableAndIndexOnly, Works, WorkPlaces
<1>2. /\ GoesOn(n, indexings'[n]) /\ At(n)' = "verify"
      /\ indexings'[n].label = indexings[n].label /\ (NewestAlone(n)' => NewestAlone(n))
  <2>1. "verify" \in WorkPlaces
    BY DEF WorkPlaces
  <2> QED BY <1>1, <2>1, Proceeding DEF FillStaging
<1> DEFINE there == IF Staged(n) = NoIndex THEN Nothing ELSE Staged(n)
           docs == [v \in Offer |-> IF v \in Has(Incoming(n)) THEN Incoming(n)[v] ELSE there[v]]
<1>3. there \in Docs /\ Incoming(n) \in Docs
  BY <1>1, WorkingCall, IncomingType, NothingType DEF SearchTypes, Staged, RunOf
<1>4. NewestAlone(n) => there = Nothing
  BY <1>1 DEF NewestInv, WrittenBy, Staged, RunOf
<1>5. Stages(n, docs)
  BY DEF FillStaging
<1> HIDE DEF there
<1>6. docs \in Docs
  BY <1>3 DEF Docs
<1>7. NewestAlone(n) => docs = Incoming(n)
  <2>1. Incoming(n) = [v \in Offer |-> Incoming(n)[v]]
    BY <1>3 DEF Docs
  <2>2. there = Nothing => \A v \in Offer : docs[v] = Incoming(n)[v]
    BY DEF Has, Nothing
  <2> QED BY <1>4, <2>1, <2>2
<1>8. PICK written \in Docs \cup {NoIndex} : written = docs
  BY <1>6
<1> HIDE DEF docs
<1>9. /\ staging' \in [Dataset -> Docs \cup {NoIndex}]
      /\ staging'[indexings[n].label] = written
  BY <1>1, <1>5, <1>8, StagesWhat
<1>10. NewestAlone(n) => written = Documents(indexings[n].label, indexings[n].label)
  BY <1>1, <1>7, <1>8, IncomingType
<1>11. NewestAlone(n)' => WrittenBy(n)'
  BY <1>1, <1>2, <1>9, <1>10 DEF NewestInv, WrittenBy, At
<1> QED BY <1>1, <1>2, <1>9, <1>11, StepOfCall DEF SearchTypes

LEMMA VerifyStagingKeeps ==
    ASSUME SearchInv, NEW n \in Indexing, VerifyStaging(n) PROVE SearchInv'
<1>1. /\ SearchTypes /\ CallsInv /\ NewestInv /\ Works(n) /\ At(n) = "verify"
      /\ UNCHANGED <<frames, query, stored, searched>>
  BY DEF SearchInv, VerifyStaging, TableAndIndexOnly, Works, WorkPlaces
<1>2. CASE Proceeds(n, "swap") /\ UNCHANGED <<records, staging>>
  <2>1. /\ GoesOn(n, indexings'[n]) /\ At(n)' = "swap"
        /\ indexings'[n].label = indexings[n].label /\ (NewestAlone(n)' => NewestAlone(n))
    <3>1. "swap" \in WorkPlaces
      BY DEF WorkPlaces
    <3> QED BY <1>1, <1>2, <3>1, Proceeding
  <2>2. NewestAlone(n)' => WrittenBy(n)'
    BY <1>1, <1>2, <2>1 DEF NewestInv, WrittenBy, At
  <2> QED BY <1>1, <1>2, <2>1, <2>2, StepOfCall DEF SearchTypes
<1>3. CASE Closed(n, "failed") /\ Stages(n, NoIndex)
  BY <1>1, <1>3, StagesWhat, FailingKeeps DEF SearchTypes
<1> QED BY <1>2, <1>3 DEF VerifyStaging

LEMMA SwapStagingKeeps ==
    ASSUME SearchInv, NEW n \in Indexing, SwapStaging(n) PROVE SearchInv'
<1>1. /\ SearchTypes /\ CallsInv /\ NewestInv /\ Works(n) /\ At(n) = "swap"
      /\ UNCHANGED <<frames, stored>>
  BY DEF SearchInv, SwapStaging, Works, WorkPlaces
<1>2. CASE /\ Staged(n) # NoIndex /\ searched' = Staged(n) /\ Stages(n, searched)
           /\ Proceeds(n, "clean") /\ query' = IndexMoves /\ records' = records
  <2>1. /\ GoesOn(n, indexings'[n]) /\ At(n)' = "clean"
        /\ indexings'[n].label = indexings[n].label /\ (NewestAlone(n)' => NewestAlone(n))
    <3>1. "clean" \in WorkPlaces
      BY DEF WorkPlaces
    <3> QED BY <1>1, <1>2, <3>1, Proceeding
  <2>2. staging' \in [Dataset -> Docs \cup {NoIndex}] /\ searched' \in Docs
    BY <1>1, <1>2, StagesWhat DEF SearchTypes
  <2>3. NewestAlone(n)' => WrittenBy(n)'
    BY <1>1, <1>2, <2>1 DEF NewestInv, WrittenBy, At, Staged, RunOf
  <2> QED BY <1>1, <1>2, <2>1, <2>2, <2>3, StepOfCall DEF SearchTypes
<1>3. CASE Closed(n, "failed") /\ UNCHANGED <<searched, staging, query>>
  BY <1>1, <1>3, FailingKeeps DEF SearchTypes
<1> QED BY <1>2, <1>3 DEF SwapStaging

LEMMA SwapLateKeeps ==
    ASSUME SearchInv, NEW n \in Indexing, SwapLate(n) PROVE SearchInv'
<1>1. SearchTypes /\ CallsInv /\ Works(n) /\ UNCHANGED <<frames, stored>>
  BY DEF SearchInv, SwapLate, Works, WorkPlaces
<1>2. staging' \in [Dataset -> Docs \cup {NoIndex}] /\ searched' \in Docs
  BY <1>1, StagesWhat DEF SwapLate, SearchTypes
<1> QED BY <1>1, <1>2, FailingKeeps DEF SwapLate

LEMMA CleanStagingKeeps ==
    ASSUME SearchInv, NEW n \in Indexing, CleanStaging(n) PROVE SearchInv'
<1>1. /\ SearchTypes /\ CallsInv /\ NewestInv /\ Works(n) /\ At(n) = "clean"
      /\ UNCHANGED <<frames, query, records, stored, searched>>
  BY DEF SearchInv, CleanStaging, StagingOnly, TableAndIndexOnly, Works, WorkPlaces
<1>2. /\ GoesOn(n, indexings'[n]) /\ At(n)' = "rows"
      /\ indexings'[n].label = indexings[n].label /\ (NewestAlone(n)' => NewestAlone(n))
  <2>1. "rows" \in WorkPlaces
    BY DEF WorkPlaces
  <2> QED BY <1>1, <2>1, Proceeding DEF CleanStaging
<1>3. staging' \in [Dataset -> Docs \cup {NoIndex}]
  BY <1>1, StagesWhat DEF CleanStaging
<1>4. NewestAlone(n)' => WrittenBy(n)'
  BY <1>1, <1>2 DEF NewestInv, WrittenBy, At
<1> QED BY <1>1, <1>2, <1>3, <1>4, StepOfCall DEF SearchTypes

LEMMA CountingKeeps ==
    ASSUME SearchInv, NEW n \in Indexing, CountRows(n) \/ CountDocs(n) PROVE SearchInv'
<1>1. /\ SearchTypes /\ CallsInv /\ NewestInv /\ Works(n) /\ At(n) \in {"rows", "documents"}
      /\ UNCHANGED <<frames, query, stored, searched, staging>>
  BY DEF SearchInv, CountRows, CountDocs, TableAndIndexOnly, Works, WorkPlaces
<1>2. ASSUME NEW at \in {"documents", "record"}, Proceeds(n, at), records' = records
      PROVE  SearchInv'
  <2>1. /\ GoesOn(n, indexings'[n]) /\ At(n)' = at
        /\ indexings'[n].label = indexings[n].label /\ (NewestAlone(n)' => NewestAlone(n))
    <3>1. at \in WorkPlaces
      BY DEF WorkPlaces
    <3> QED BY <1>1, <1>2, <3>1, Proceeding
  <2>2. NewestAlone(n)' => WrittenBy(n)'
    BY <1>1, <1>2, <2>1 DEF NewestInv, WrittenBy, At
  <2> QED BY <1>1, <1>2, <2>1, <2>2, StepOfCall DEF SearchTypes
<1>3. CASE Closed(n, "failed")
  BY <1>1, <1>3, FailingKeeps DEF SearchTypes
<1> QED BY <1>2, <1>3 DEF CountRows, CountDocs

LEMMA RecordSuccessKeeps ==
    ASSUME SearchInv, NEW n \in Indexing, RecordSuccess(n) PROVE SearchInv'
<1>1. /\ SearchTypes /\ CallsInv /\ NewestInv /\ Works(n) /\ At(n) = "record"
      /\ UNCHANGED <<frames, query, stored, searched, staging>>
  BY DEF SearchInv, RecordSuccess, TableAndIndexOnly, Works, WorkPlaces
<1>2. /\ GoesOn(n, indexings'[n]) /\ At(n)' = "over"
      /\ indexings'[n].label = indexings[n].label /\ (NewestAlone(n)' => NewestAlone(n))
  BY <1>1, Closing DEF RecordSuccess
<1>3. NewestAlone(n)' => WrittenBy(n)'
  BY <1>1, <1>2 DEF NewestInv, WrittenBy, At
<1> QED BY <1>1, <1>2, <1>3, StepOfCall DEF SearchTypes

-----------------------------------------------------------------------------
(* A call begins, and gets its record                                      *)

\* A row more.
LEMMA RecordMore ==
    ASSUME SearchTypes, NEW label \in Dataset, Record(label)
    PROVE  /\ records' \in Seq(Recorded) /\ Len(records') = Len(records) + 1
           /\ records'[Len(records) + 1] = [label |-> label, status |-> "running"]
           /\ \A i \in 1..Len(records) : records'[i] = records[i]
<1>1. [label |-> label, status |-> "running"] \in Recorded
  BY DEF Recorded
<1> QED BY <1>1 DEF SearchTypes, Record

LEMMA QueryKept ==
    ASSUME SearchInv, UNCHANGED <<frames, searched, query>> PROVE QueryInv' /\ query' \in Query
BY DEF SearchInv, SearchTypes, QueryInv, AskedInv, ReadyIsOfTheRun

\* What the others are after a call has begun.
LEMMA BegunCalls ==
    ASSUME SearchTypes, NEW n \in Indexing, NEW new \in Call, Begun(n, new)
    PROVE  /\ indexings' \in [Indexing -> Call \cup {Unbegun}]
           /\ indexings'[n] \in Call /\ indexings'[n].at = new.at
           /\ indexings'[n].label = new.label /\ indexings'[n].record = new.record
           /\ indexings'[n].alone => \A o \in Indexing : ~Running(o)
           /\ \A o \in Indexing : o # n =>
                 /\ At(o)' = At(o)
                 /\ At(o) # "none" =>
                       /\ indexings'[o].record = indexings[o].record
                       /\ indexings'[o].label = indexings[o].label
                       /\ indexings'[o].frame = indexings[o].frame
                       /\ indexings'[o].seen = indexings[o].seen
                       /\ indexings'[o].alone => indexings[o].alone /\ At(o) = "over"
<1> DEFINE others == {o \in Indexing : Running(o)}
           alone  == others = {}
           c      == [new EXCEPT !.alone = alone]
           d(o)   == [indexings[o] EXCEPT !.alone = FALSE]
<1>1. indexings' = [o \in Indexing |->
                      IF o = n THEN c ELSE IF o \in others THEN d(o) ELSE indexings[o]]
  BY DEF Begun
<1>2. alone \in BOOLEAN /\ (alone => \A o \in Indexing : ~Running(o))
  OBVIOUS
<1> HIDE DEF alone
<1>3. /\ c \in Call /\ c.at = new.at /\ c.label = new.label /\ c.record = new.record
      /\ c.alone = alone
  BY <1>2 DEF Call
<1>4. ASSUME NEW o \in others
      PROVE  /\ d(o) \in Call /\ d(o).at = At(o) /\ d(o).record = indexings[o].record
             /\ d(o).label = indexings[o].label /\ d(o).frame = indexings[o].frame
             /\ d(o).seen = indexings[o].seen /\ d(o).alone = FALSE
  <2>1. indexings[o] \in Call
    BY CallType DEF Running
  <2> QED BY <2>1 DEF Call, At
<1>5. ASSUME NEW o \in Indexing, o \notin others
      PROVE  At(o) \in {"none", "over"}
  BY <1>5 DEF Running
<1> HIDE DEF others, c, d
<1>6. indexings'[n] = c /\ \A o \in Indexing : o # n =>
         indexings'[o] = IF o \in others THEN d(o) ELSE indexings[o]
  BY <1>1
<1>7. indexings' \in [Indexing -> Call \cup {Unbegun}]
  BY <1>1, <1>3, <1>4 DEF SearchTypes
<1> QED BY <1>2, <1>3, <1>4, <1>5, <1>6, <1>7 DEF At

LEMMA BegunKeeps ==
    ASSUME SearchInv, NEW n \in Indexing, NEW new \in Call, Begun(n, new),
           \/ /\ new.at = "frame" /\ new.label \in Dataset
              /\ new.record = Len(records) + 1 /\ Record(new.label)
           \/ new.at = "label" /\ new.record = 0 /\ records' = records
    PROVE  SearchInv'
<1>1. /\ SearchTypes /\ CallsInv /\ NewestInv /\ At(n) = "none"
      /\ UNCHANGED <<frames, stored, searched, staging, query, troubles>>
  BY DEF SearchInv, Begun
<1>2. /\ indexings' \in [Indexing -> Call \cup {Unbegun}]
      /\ indexings'[n] \in Call /\ indexings'[n].at = new.at
      /\ indexings'[n].label = new.label /\ indexings'[n].record = new.record
      /\ indexings'[n].alone => \A o \in Indexing : ~Running(o)
      /\ \A o \in Indexing : o # n =>
            /\ At(o)' = At(o)
            /\ At(o) # "none" =>
                  /\ indexings'[o].record = indexings[o].record
                  /\ indexings'[o].label = indexings[o].label
                  /\ indexings'[o].frame = indexings[o].frame
                  /\ indexings'[o].seen = indexings[o].seen
                  /\ indexings'[o].alone => indexings[o].alone /\ At(o) = "over"
  BY <1>1, BegunCalls
<1>3. /\ records' \in Seq(Recorded) /\ Len(records) \in Nat /\ Len(records') >= Len(records)
      /\ \A i \in 1..Len(records) : records'[i] = records[i]
      /\ new.record <= Len(records')
      /\ new.record # 0 => /\ records'[new.record].label = new.label
                           /\ records'[new.record].status = "running"
                           /\ new.record = Len(records') /\ new.record > Len(records)
                           /\ new.label \in Dataset
      /\ (new.at = "frame" /\ new.record # 0) \/ (new.at = "label" /\ new.record = 0)
      /\ Len(records') = IF new.record = 0 THEN Len(records) ELSE Len(records) + 1
      /\ new.record = 0 => records' = records
  <2>1. records \in Seq(Recorded) /\ Len(records) \in Nat
    BY <1>1 DEF SearchTypes
  <2>2. CASE /\ new.at = "frame" /\ new.label \in Dataset
             /\ new.record = Len(records) + 1 /\ Record(new.label)
    <3>1. /\ records' \in Seq(Recorded) /\ Len(records') = Len(records) + 1
          /\ records'[Len(records) + 1] = [label |-> new.label, status |-> "running"]
          /\ \A i \in 1..Len(records) : records'[i] = records[i]
      BY <1>1, <2>2, RecordMore
    <3> QED BY <2>1, <2>2, <3>1
  <2>3. CASE new.at = "label" /\ new.record = 0 /\ records' = records
    BY <2>1, <2>3
  <2> QED BY <2>2, <2>3
<1>4. \A o \in Indexing : At(o) # "none" => indexings[o].record \in Nat
  BY <1>1, CallType DEF Call
<1>5. At(n)' = new.at
  BY <1>2 DEF At
<1>6. ASSUME NEW o \in Indexing PROVE RecordInv(o)'
  <2>1. CASE o = n
    BY <1>2, <1>3, <1>5, <2>1 DEF RecordInv, Works, WorkPlaces
  <2>2. CASE o # n
    <3>1. RecordInv(o)
      BY <1>1 DEF CallsInv
    <3> QED BY <1>2, <1>3, <1>4, <2>2, <3>1 DEF RecordInv, Works
  <2> QED BY <2>1, <2>2
<1>7. ASSUME NEW x \in Indexing, NEW y \in Indexing PROVE PairInv(x, y)'
  <2>1. PairInv(x, y) /\ RecordInv(x) /\ RecordInv(y)
    BY <1>1 DEF CallsInv
  <2>2. CASE x # n /\ y # n
    BY <1>2, <2>1, <2>2 DEF PairInv
  <2>3. CASE x = n /\ y # n
    BY <1>2, <1>3, <1>4, <1>5, <2>1, <2>3 DEF PairInv, RecordInv, Running
  <2>4. CASE x # n /\ y = n
    BY <1>2, <1>3, <1>4, <1>5, <2>1, <2>4 DEF PairInv, RecordInv
  <2> QED BY <2>2, <2>3, <2>4 DEF PairInv
<1>8. ASSUME NEW o \in Indexing, NewestAlone(o)' PROVE WrittenBy(o)'
  <2>1. CASE o = n
    BY <1>3, <1>5, <1>8, <2>1 DEF WrittenBy, NewestAlone
  <2>2. CASE o # n
    <3>1. RecordInv(o) /\ At(o) # "none" /\ At(o)' = "over" /\ At(o) = "over"
      BY <1>1, <1>2, <1>8, <2>2 DEF CallsInv, NewestAlone
    <3>2. new.record = 0 /\ records' = records
      BY <1>2, <1>3, <1>4, <1>8, <2>2, <3>1 DEF NewestAlone, RecordInv
    <3>3. NewestAlone(o)
      BY <1>2, <1>8, <2>2, <3>1, <3>2 DEF NewestAlone
    <3>4. WrittenBy(o)
      BY <1>1, <3>3 DEF NewestInv
    <3> QED BY <1>1, <1>2, <2>2, <3>1, <3>2, <3>4 DEF WrittenBy, Newest
  <2> QED BY <2>1, <2>2
<1>9. SearchTypes'
  BY <1>1, <1>2, <1>3, QueryKept DEF SearchTypes
<1> QED BY <1>1, <1>6, <1>7, <1>8, <1>9, QueryKept DEF SearchInv, CallsInv, NewestInv

LEMMA BeginKeeps ==
    ASSUME SearchInv, NEW n \in Indexing, NEW s \in Server,
           BeginReloading(n, s) \/ \E force \in BOOLEAN : BeginManual(n, s, force)
    PROVE  SearchInv'
<1>1. frames[s] \in Dataset /\ Len(records) + 1 \in Nat /\ Nothing \in Docs
  BY NothingType DEF SearchInv, SearchTypes
<1>2. CASE BeginReloading(n, s)
  <2> DEFINE new == [at |-> "frame", server |-> s, force |-> FALSE, label |-> frames[s],
                     frame |-> NoDataset, seen |-> Nothing, record |-> Len(records) + 1,
                     alone |-> TRUE]
  <2>1. /\ new \in Call /\ new.at = "frame" /\ new.label = frames[s]
        /\ new.record = Len(records) + 1
    BY <1>1 DEF Call, MaybeDataset, WorkPlaces
  <2>2. Begun(n, new) /\ Record(frames[s])
    BY <1>2 DEF BeginReloading
  <2> HIDE DEF new
  <2>3. PICK c \in Call : c = new
    BY <2>1
  <2> QED BY <1>1, <2>1, <2>2, <2>3, BegunKeeps
<1>3. ASSUME NEW force \in BOOLEAN, BeginManual(n, s, force) PROVE SearchInv'
  <2> DEFINE new == [at |-> "label", server |-> s, force |-> force, label |-> NoDataset,
                     frame |-> frames[s], seen |-> Nothing, record |-> 0, alone |-> TRUE]
  <2>1. new \in Call /\ new.at = "label" /\ new.record = 0
    BY <1>1 DEF Call, MaybeDataset
  <2>2. Begun(n, new) /\ records' = records
    BY <1>3 DEF BeginManual
  <2> HIDE DEF new
  <2>3. PICK c \in Call : c = new
    BY <2>1
  <2> QED BY <2>1, <2>2, <2>3, BegunKeeps
<1> QED BY <1>2, <1>3

LEMMA ReadLabelKeeps ==
    ASSUME SearchInv, NEW n \in Indexing, ReadLabel(n) PROVE SearchInv'
<1>1. /\ SearchTypes /\ CallsInv /\ NewestInv /\ At(n) = "label" /\ indexings[n] \in Call
      /\ UNCHANGED <<frames, stored, searched, staging, query>>
  BY CallType DEF SearchInv, ReadLabel, TableAndIndexOnly
<1>2. PICK label \in Dataset : label = frames[indexings[n].server]
  BY <1>1 DEF SearchTypes, Call
<1>3. Len(records) \in Nat
  BY <1>1 DEF SearchTypes
<1> PICK number \in Nat : number = Len(records) + 1
  BY <1>3
<1> DEFINE c == [indexings[n] EXCEPT !.at = "read", !.label = label, !.record = number]
<1>4. /\ c \in Call /\ c.at = "read" /\ c.label = label /\ c.record = Len(records) + 1
      /\ c.alone = indexings[n].alone
  BY <1>1 DEF Call, MaybeDataset, WorkPlaces
<1>5. indexings' = [indexings EXCEPT ![n] = c] /\ Record(label)
  BY <1>2 DEF ReadLabel
<1> HIDE DEF c
<1>6. /\ indexings' \in [Indexing -> Call \cup {Unbegun}] /\ indexings'[n] = c
      /\ \A o \in Indexing : o # n => indexings'[o] = indexings[o]
  BY <1>1, <1>4, <1>5 DEF SearchTypes
<1>7. /\ records' \in Seq(Recorded) /\ Len(records') = Len(records) + 1
      /\ records'[Len(records) + 1].label = label
      /\ records'[Len(records) + 1].status = "running"
      /\ \A i \in 1..Len(records) : records'[i] = records[i]
  <2>1. /\ records' \in Seq(Recorded) /\ Len(records') = Len(records) + 1
        /\ records'[Len(records) + 1] = [label |-> label, status |-> "running"]
        /\ \A i \in 1..Len(records) : records'[i] = records[i]
    BY <1>1, <1>5, RecordMore
  <2> QED BY <2>1
<1>8. \A o \in Indexing : At(o) # "none" => indexings[o].record \in Nat
  BY <1>1, CallType DEF Call
<1>9. ASSUME NEW o \in Indexing PROVE RecordInv(o)'
  <2>1. RecordInv(o)
    BY <1>1 DEF CallsInv
  <2>2. CASE o = n
    BY <1>3, <1>4, <1>6, <1>7, <2>2 DEF RecordInv, At, Works
  <2>3. CASE o # n
    BY <1>3, <1>6, <1>7, <1>8, <2>1, <2>3 DEF RecordInv, At, Works
  <2> QED BY <2>2, <2>3
<1>10. ASSUME NEW x \in Indexing, NEW y \in Indexing PROVE PairInv(x, y)'
  <2>1. PairInv(x, y) /\ RecordInv(x) /\ RecordInv(y)
    BY <1>1 DEF CallsInv
  <2>2. CASE x # n /\ y # n
    BY <1>6, <2>1, <2>2 DEF PairInv, At
  <2>3. CASE x = n /\ y # n
    BY <1>1, <1>3, <1>4, <1>6, <1>8, <2>1, <2>3 DEF PairInv, RecordInv, At
  <2>4. CASE x # n /\ y = n
    BY <1>1, <1>3, <1>4, <1>6, <1>8, <2>1, <2>4 DEF PairInv, RecordInv, At
  <2> QED BY <2>2, <2>3, <2>4 DEF PairInv
<1>11. ASSUME NEW o \in Indexing, NewestAlone(o)' PROVE WrittenBy(o)'
  <2>1. o = n
    <3>1. RecordInv(o)
      BY <1>1 DEF CallsInv
    <3> QED BY <1>3, <1>6, <1>7, <1>8, <1>11, <3>1 DEF RecordInv, NewestAlone, At
  <2> QED BY <1>4, <1>6, <2>1 DEF WrittenBy, At
<1>12. SearchTypes'
  BY <1>1, <1>6, <1>7, QueryKept DEF SearchTypes
<1> QED BY <1>1, <1>9, <1>10, <1>11, <1>12, QueryKept DEF SearchInv, CallsInv, NewestInv

-----------------------------------------------------------------------------
(* Processes and searches                                                  *)

LEMMA KillServerKeeps ==
    ASSUME SearchInv, NEW s \in Server, KillServer(s) PROVE SearchInv'
<1>1. /\ SearchTypes /\ CallsInv /\ NewestInv /\ QueryInv
      /\ UNCHANGED <<frames, records, stored, searched, staging>>
  BY DEF SearchInv, KillServer
<1> DEFINE dead(n) == [indexings[n] EXCEPT !.at = "over", !.seen = Nothing]
           dies(n) == Running(n) /\ indexings[n].server = s
<1>2. indexings' = [n \in Indexing |-> IF dies(n) THEN dead(n) ELSE indexings[n]]
  BY DEF KillServer
<1>3. ASSUME NEW n \in Indexing, dies(n)
      PROVE  /\ dead(n) \in Call /\ dead(n).at = "over" /\ At(n) # "over" /\ At(n) # "none"
             /\ dead(n).record = indexings[n].record /\ dead(n).label = indexings[n].label
             /\ dead(n).frame = indexings[n].frame /\ dead(n).alone = indexings[n].alone
  <2>1. indexings[n] \in Call /\ At(n) # "over" /\ At(n) # "none"
    BY <1>1, <1>3, CallType DEF Running
  <2> QED BY <2>1, NothingType DEF Call
<1> HIDE DEF dead, dies
<1>4. \A n \in Indexing : indexings'[n] = IF dies(n) THEN dead(n) ELSE indexings[n]
  BY <1>2
<1>5. indexings' \in [Indexing -> Call \cup {Unbegun}]
  BY <1>1, <1>2, <1>3 DEF SearchTypes
<1>6. ASSUME NEW n \in Indexing PROVE RecordInv(n)'
  <2>1. RecordInv(n)
    BY <1>1 DEF CallsInv
  <2>2. CASE dies(n)
    BY <1>1, <1>3, <1>4, <2>1, <2>2 DEF RecordInv, At, Works, WorkPlaces
  <2>3. CASE ~dies(n)
    BY <1>1, <1>4, <2>1, <2>3 DEF RecordInv, At, Works
  <2> QED BY <2>2, <2>3
<1>7. ASSUME NEW n \in Indexing, NEW o \in Indexing PROVE PairInv(n, o)'
  <2>1. PairInv(n, o)
    BY <1>1 DEF CallsInv
  <2>2. /\ indexings'[n].at = At(n) \/ (indexings'[n].at = "over" /\ At(n) # "none")
        /\ indexings'[o].at = At(o) \/ (indexings'[o].at = "over" /\ At(o) # "none")
        /\ indexings'[n].record = indexings[n].record
        /\ indexings'[o].record = indexings[o].record
        /\ indexings'[n].alone = indexings[n].alone
    BY <1>3, <1>4 DEF At
  <2> QED BY <2>1, <2>2 DEF PairInv, At
<1>8. ASSUME NEW n \in Indexing, NewestAlone(n)' PROVE WrittenBy(n)'
  <2>1. NewestAlone(n)
    BY <1>1, <1>3, <1>4, <1>8 DEF NewestAlone, At
  <2>2. CASE dies(n)
    <3>1. RecordInv(n) /\ Len(records) # 0
      BY <1>1, <2>1 DEF CallsInv, NewestAlone, SearchTypes
    <3>2. Newest'.status = "running"
      BY <1>1, <1>3, <2>1, <2>2, <3>1 DEF RecordInv, NewestAlone, Newest
    <3> QED BY <1>3, <1>4, <2>2, <3>2 DEF WrittenBy, At, Newest
  <2>3. CASE ~dies(n)
    BY <1>1, <1>4, <2>1, <2>3 DEF NewestInv, WrittenBy, At, Newest
  <2> QED BY <2>2, <2>3
<1>9. query' \in Query /\ QueryInv'
  <2>1. CASE query' = Unasked
    BY <2>1 DEF Query, QueryInv
  <2>2. CASE query' = query
    BY <1>1, <2>2, QueryKept
  <2> QED BY <2>1, <2>2 DEF KillServer
<1> QED BY <1>1, <1>5, <1>6, <1>7, <1>8, <1>9 DEF SearchInv, SearchTypes, CallsInv, NewestInv

\* The calls and what they write are as they were.
LEMMA OnlyAsked ==
    ASSUME SearchInv, frames' \in [Server -> Dataset], query' \in Query, QueryInv',
           UNCHANGED <<records, stored, searched, staging, indexings>>
    PROVE  SearchInv'
<1>1. SearchTypes'
  BY DEF SearchInv, SearchTypes
<1>2. CallsInv'
  BY DEF SearchInv, CallsInv, RecordInv, PairInv, Works, At
<1>3. NewestInv'
  BY DEF SearchInv, NewestInv, NewestAlone, WrittenBy, Newest, At
<1> QED BY <1>1, <1>2, <1>3 DEF SearchInv

UnderWay == [at : {"status", "trust", "find"}, server : Server, run : Dataset,
             state : QueryState, excused : BOOLEAN]
Told == [at : {"answered"}, server : Server, run : Dataset, state : QueryState,
         hits : SUBSET Doc, excused : BOOLEAN]

LEMMA QueryCases == Query = {Unasked} \cup UnderWay \cup Told
BY DEF Query, UnderWay, Told

LEMMA ServeKeeps ==
    ASSUME SearchInv, NEW s \in Server, NEW d \in Dataset, Serve(s, d) PROVE SearchInv'
<1>1. /\ SearchTypes /\ QueryInv /\ query' = Disturbed(s)
      /\ UNCHANGED <<records, stored, searched, staging, indexings>>
  BY DEF SearchInv, Serve
<1>2. frames' \in [Server -> Dataset] /\ \A t \in Server : t # s => frames'[t] = frames[t]
  BY DEF SearchInv, SearchTypes, Serve
<1>3. CASE query \in UnderWay /\ query.server = s
  <2>1. query' = [query EXCEPT !.excused = TRUE]
    BY <1>1, <1>3 DEF Disturbed, UnderWay
  <2>2. query' \in UnderWay /\ query'.excused = TRUE
    BY <1>3, <2>1 DEF UnderWay
  <2>3. QueryInv'
    BY <2>2 DEF QueryInv, AskedInv, ReadyIsOfTheRun, UnderWay
  <2> QED BY <1>1, <1>2, <2>2, <2>3, OnlyAsked, QueryCases
<1>4. CASE query \in UnderWay /\ query.server # s
  <2>1. query' = query /\ frames'[query.server] = frames[query.server]
    BY <1>1, <1>2, <1>4 DEF Disturbed, UnderWay
  <2>2. QueryInv'
    BY <1>1, <2>1 DEF QueryInv, AskedInv, ReadyIsOfTheRun
  <2> QED BY <1>1, <1>2, <2>1, <2>2, OnlyAsked DEF SearchTypes
<1>5. CASE query \in {Unasked} \cup Told
  <2>1. query' = query /\ query.at \notin {"status", "trust", "find"}
    BY <1>1, <1>5 DEF Disturbed, Told, Unasked
  <2>2. QueryInv'
    BY <1>1, <2>1 DEF QueryInv, AskedInv, ReadyIsOfTheRun
  <2> QED BY <1>1, <1>2, <2>1, <2>2, OnlyAsked DEF SearchTypes
<1> QED BY <1>1, <1>3, <1>4, <1>5, QueryCases DEF SearchTypes

LEMMA AskSearchKeeps ==
    ASSUME SearchInv, NEW s \in Server, AskSearch(s) PROVE SearchInv'
<1>1. frames[s] \in Dataset
  BY DEF SearchInv, SearchTypes
<1>2. /\ query' \in UnderWay /\ query'.at = "status" /\ query'.server = s
      /\ query'.run = frames[s]
  BY <1>1 DEF AskSearch, UnderWay, QueryState
<1>3. QueryInv'
  BY <1>2 DEF QueryInv, AskedInv, ReadyIsOfTheRun, AskSearch, AskOnly
<1> QED BY <1>2, <1>3, OnlyAsked, QueryCases DEF AskSearch, AskOnly, SearchInv, SearchTypes

\* A success is whole: what the table and the index hold.
LEMMA NewestIsWhole ==
    ASSUME SearchInv, records # <<>>, Newest.status = "success", NewestWasAlone
    PROVE  stored = Documents(Newest.label, Newest.label) /\ searched = stored
<1>1. PICK n \in Indexing : NewestAlone(n)
  BY DEF NewestWasAlone, NewestAlone
<1>2. RecordInv(n) /\ WrittenBy(n) /\ Len(records) \in Nat /\ Len(records) # 0
  BY <1>1 DEF SearchInv, CallsInv, NewestInv, SearchTypes
<1>3. At(n) = "over" /\ indexings[n].label = Newest.label
  BY <1>1, <1>2 DEF RecordInv, NewestAlone, Newest
<1> QED BY <1>2, <1>3 DEF WrittenBy

LEMMA ReadStatusKeeps == ASSUME SearchInv, ReadStatus PROVE SearchInv'
<1>1. SearchTypes /\ QueryInv /\ query \in UnderWay /\ query.at = "status"
  BY QueryCases DEF SearchInv, ReadStatus, SearchTypes, Unasked, Told
<1>2. PICK excused \in BOOLEAN : excused = (query.excused \/ ~NewestWasAlone)
  OBVIOUS
<1>3. PICK state \in QueryState : state = SearchState(query.run)
  BY DEF SearchState, QueryState
<1>4. query' = [query EXCEPT !.at = "trust", !.excused = excused, !.state = state]
  BY <1>2, <1>3 DEF ReadStatus
<1>5. /\ query' \in UnderWay /\ query'.at = "trust" /\ query'.run = query.run
      /\ query'.server = query.server /\ query'.excused = excused /\ query'.state = state
  BY <1>1, <1>4 DEF UnderWay
<1>6. ASSUME ~excused, state = "ready"
      PROVE  searched = Documents(query.run, query.run)
  <2>1. NewestWasAlone /\ records # <<>> /\ Newest.status = "success" /\ Newest.label = query.run
    BY <1>2, <1>3, <1>6 DEF SearchState
  <2> QED BY <2>1, NewestIsWhole
<1>7. ~excused => frames[query.server] = query.run
  BY <1>1, <1>2 DEF QueryInv, AskedInv, Unasked, UnderWay
<1>8. QueryInv'
  BY <1>5, <1>6, <1>7 DEF QueryInv, AskedInv, ReadyIsOfTheRun, ReadStatus, AskOnly
<1> QED BY <1>1, <1>5, <1>8, OnlyAsked, QueryCases DEF ReadStatus, AskOnly, SearchTypes

LEMMA ReadTrustKeeps == ASSUME SearchInv, ReadTrust PROVE SearchInv'
<1>1. SearchTypes /\ QueryInv /\ query \in UnderWay /\ query.at = "trust"
  BY QueryCases DEF SearchInv, ReadTrust, SearchTypes, Unasked, Told
<1>2. PICK run \in Dataset : run = frames[query.server]
  BY <1>1 DEF SearchTypes, UnderWay
<1>3. query' = [query EXCEPT !.at = "find", !.run = run]
  BY <1>2 DEF ReadTrust
<1>4. /\ query' \in UnderWay /\ query'.at = "find" /\ query'.run = run
      /\ query'.server = query.server /\ query'.excused = query.excused
      /\ query'.state = query.state
  BY <1>1, <1>3 DEF UnderWay
<1>5. query # Unasked
  BY <1>1 DEF Unasked
<1>6. AskedInv
  BY <1>1, <1>5 DEF QueryInv
<1>7. QueryInv'
  BY <1>1, <1>2, <1>4, <1>6 DEF QueryInv, AskedInv, ReadyIsOfTheRun, ReadTrust, AskOnly
<1> QED BY <1>1, <1>4, <1>7, OnlyAsked, QueryCases DEF ReadTrust, AskOnly, SearchTypes

LEMMA FindKeeps == ASSUME SearchInv, Find \/ FindStored PROVE SearchInv'
<1>1. /\ SearchTypes /\ QueryInv /\ query \in UnderWay /\ query.at = "find"
      /\ UNCHANGED <<frames, records, stored, searched, staging, indexings>>
  BY QueryCases DEF SearchInv, Find, FindStored, AskOnly, SearchTypes, Unasked, Told
<1>2. /\ query.server \in Server /\ query.run \in Dataset /\ query.state \in QueryState
      /\ query.excused \in BOOLEAN
  BY <1>1 DEF UnderWay
<1>3. ASSUME NEW docs \in Docs, NEW state \in QueryState, query' = Answered(state, docs)
      PROVE  /\ query' \in Told /\ query'.at = "answered" /\ query'.run = query.run
             /\ query'.state = state /\ query'.excused = query.excused
             /\ query'.hits = {docs[v] : v \in Has(docs)}
  <2>1. {docs[v] : v \in Has(docs)} \in SUBSET Doc
    BY DEF Docs, Has
  <2> QED BY <1>2, <1>3, <2>1 DEF Answered, Told
<1>4. CASE Find
  <2>1. /\ query' \in Told /\ query'.at = "answered" /\ query'.run = query.run
        /\ query'.state = query.state /\ query'.excused = query.excused
        /\ query'.hits = {searched[v] : v \in Has(searched)}
    BY <1>1, <1>2, <1>3, <1>4 DEF Find, SearchTypes
  <2>2. ASSUME query.state = "ready", ~query.excused, NEW v \in Has(searched)
        PROVE  searched[v].of = query.run
    <3>1. query # Unasked
      BY <1>1 DEF Unasked
    <3>2. searched = Documents(query.run, query.run)
      BY <1>1, <2>2, <3>1 DEF QueryInv, AskedInv
    <3> QED BY <3>2 DEF Has, Documents
  <2>3. QueryInv'
    BY <2>1, <2>2 DEF QueryInv, AskedInv, ReadyIsOfTheRun
  <2> QED BY <1>1, <2>1, <2>3, OnlyAsked, QueryCases DEF SearchTypes
<1>5. CASE FindStored
  <2>1. query' \in Told /\ query'.at = "answered" /\ query'.state = "fallback"
    BY <1>1, <1>3, <1>5 DEF FindStored, SearchTypes, QueryState
  <2>2. QueryInv'
    BY <2>1 DEF QueryInv, AskedInv, ReadyIsOfTheRun
  <2> QED BY <1>1, <2>1, <2>2, OnlyAsked, QueryCases DEF SearchTypes
<1> QED BY <1>4, <1>5

-----------------------------------------------------------------------------

LEMMA SearchStep == SearchInv /\ [SearchingNext]_searchingVars => SearchInv'
<1> SUFFICES ASSUME SearchInv, [SearchingNext]_searchingVars PROVE SearchInv'
  OBVIOUS
<1>1. CASE UNCHANGED searchingVars
  BY <1>1, OnlyAsked, QueryKept DEF searchingVars, SearchInv, SearchTypes
<1>2. ASSUME NEW n \in Indexing, IndexingNext(n) PROVE SearchInv'
  <2>1. CASE \E s \in Server :
                BeginReloading(n, s) \/ \E force \in BOOLEAN : BeginManual(n, s, force)
    BY <2>1, BeginKeeps
  <2>2. CASE ReadFrame(n) \/ ReadLabel(n) \/ ReadTable(n) \/ ReconcileTable(n)
    BY <2>2, ReadFrameKeeps, ReadLabelKeeps, ReadTableKeeps, ReconcileTableKeeps
  <2>3. CASE \/ DropStaging(n) \/ CreateStaging(n) \/ FillStaging(n) \/ VerifyStaging(n)
             \/ SwapStaging(n) \/ CleanStaging(n)
    BY <2>3, DropStagingKeeps, CreateStagingKeeps, FillStagingKeeps, VerifyStagingKeeps,
       SwapStagingKeeps, CleanStagingKeeps
  <2>4. CASE CountRows(n) \/ CountDocs(n) \/ RecordSuccess(n) \/ CallFails(n) \/ SwapLate(n)
    BY <2>4, CountingKeeps, RecordSuccessKeeps, CallFailsKeeps, SwapLateKeeps
  <2> QED BY <1>2, <2>1, <2>2, <2>3, <2>4 DEF IndexingNext
<1>3. CASE \E s \in Server : KillServer(s) \/ AskSearch(s) \/ \E d \in Dataset : Serve(s, d)
  BY <1>3, KillServerKeeps, AskSearchKeeps, ServeKeeps
<1>4. CASE ReadStatus \/ ReadTrust \/ Find \/ FindStored
  BY <1>4, ReadStatusKeeps, ReadTrustKeeps, FindKeeps
<1> QED BY <1>1, <1>2, <1>3, <1>4 DEF SearchingNext

LEMMA SearchStart == SearchingInit => SearchInv
<1> SUFFICES ASSUME SearchingInit PROVE SearchInv
  OBVIOUS
<1>1. \A n \in Indexing : At(n) = "none" /\ indexings[n] = Unbegun
  BY DEF SearchingInit, At, Unbegun
<1>2. SearchTypes
  BY NothingType DEF SearchingInit, SearchTypes, Query
<1>3. CallsInv /\ NewestInv /\ QueryInv
  BY <1>1 DEF CallsInv, RecordInv, PairInv, NewestInv, NewestAlone, QueryInv, SearchingInit
<1> QED BY <1>2, <1>3 DEF SearchInv

\* For any number of processes, datasets, calls of the indexer that overlap, loads, failures
\* and crashes: a success that is the newest record means that the table and the index hold
\* that run's vacancies and no others, and a search that calls the index ready shows
\* vacancies of the run it names; apart from the calls that overlapped and the loads and
\* swaps that came in between.
THEOREM SearchStaysSound == SearchingSpec => []SearchIsSound
<1>1. SearchInv => SearchIsSound
  <2> SUFFICES ASSUME SearchInv PROVE SearchIsSound
    OBVIOUS
  <2>1. SuccessIsWhole
    BY NewestIsWhole DEF SuccessIsWhole
  <2>2. ReadyIsOfTheRun
    BY DEF SearchInv, QueryInv, ReadyIsOfTheRun, Unasked
  <2> QED BY <2>1, <2>2 DEF SearchIsSound
<1> QED BY <1>1, SearchStart, SearchStep, PTL DEF SearchingSpec

=============================================================================
