--------------------------- MODULE Collection_proofs ---------------------------
(***************************************************************************)
(* Proofs about the collection of raw data (RawRefresh, BackfillShards,    *)
(* BackfillDays, SiteScrape) and its copies (ProcessedMirror), for every   *)
(* number of processes, days, postings, adverts and files.                 *)
(***************************************************************************)
EXTENDS RawRefresh, ProcessedMirror, BackfillShards, BackfillDays, SiteScrape,
        FiniteSetTheorems, SequenceTheorems, TLAPS

-----------------------------------------------------------------------------
(* The raw files of a day                                                  *)

\* The names that are left to copy.
NamesLeft == {<<>>, <<"manifest">>, <<"state", "manifest">>, <<"latest", "state", "manifest">>}

\* The steps of the three scripts that follow the gate.
Gated == {"sync", "digest", "upload", "point", "reload", "verify", "process"}

RawTypes ==
    /\ files \in Content /\ runs \in 0..MaxRuns
    /\ objects \in [1..MaxRuns -> Content]
    /\ process \in [Process -> [at : Steps, run : 0..MaxRuns, left : NamesLeft,
                                digests : Content]]
    /\ overlapped \in BOOLEAN

\* state.json is written after a line of the manifest.
ManifestInv ==
    /\ files.state # 0 => files.manifest # 0
    /\ \A p \in Process : At(p, "write") => files.manifest # 0
    /\ \A p \in Process : process[p].at \in {"scrape", "copy", "append", "write"} => process[p].run # 0

\* A process that is alone works on one run from the gate on.
AloneInv ==
    /\ \A p, q \in Process : ~At(p, "off") /\ ~At(q, "off") => p = q
    /\ \A p \in Process :
        /\ process[p].at \in {"gate"} \cup Gated => process[p].run = files.state /\ files.state # 0
        /\ process[p].at \in Gated => files.latest = files.state

\* What is stored under runs/<run>/ is the run's, and its manifest is not longer than
\* the local one.
StoredInv ==
    \A r \in 1..MaxRuns :
        /\ objects[r].latest \in {0, r} /\ objects[r].state \in {0, r}
        /\ objects[r].manifest <= files.manifest

\* A pointer with these digests would name what is stored.
Described(r, digests) ==
    /\ digests.latest = r /\ digests.state = r
    /\ objects[r].latest = r /\ objects[r].state = r
    /\ objects[r].manifest \in 1..digests.manifest

\* The copies are made in the order of Names.
UploadInv ==
    \A p \in Process :
        /\ At(p, "upload") =>
              /\ process[p].digests = files
              /\ process[p].left \in {<<"latest", "state", "manifest">>,
                                      <<"state", "manifest">>, <<"manifest">>}
              /\ process[p].left # <<"latest", "state", "manifest">> =>
                    objects[process[p].run].latest = process[p].run
              /\ process[p].left = <<"manifest">> =>
                    objects[process[p].run].state = process[p].run
        /\ At(p, "point") => Described(process[p].run, process[p].digests)

PointerInv ==
    pointer # NoPointer =>
        /\ pointer.run \in 1..MaxRuns /\ pointer.digests \in Content
        /\ Described(pointer.run, pointer.digests)

RawAlone == AloneInv /\ StoredInv /\ UploadInv /\ PointerInv /\ ProcessedIsValidated

\* RawIsWhole says nothing of what is on its way.
RawInv == RawTypes /\ ManifestInv /\ (overlapped \/ RawAlone)

\* What is in the files is numbered.
LEMMA Contents ==
    ASSUME NEW c \in Content
    PROVE  /\ c.latest \in 0..MaxRuns /\ c.state \in 0..MaxRuns /\ c.manifest \in 0..MaxLines
           /\ c.latest \in Nat /\ c.state \in Nat /\ c.manifest \in Nat
           /\ MaxRuns \in Nat /\ MaxLines \in Nat
  BY RawRefreshAssumption DEF Content

Working == [at : Steps, run : 0..MaxRuns, left : NamesLeft, digests : Content]

LEMMA NamesTake ==
    /\ Names = <<"latest", "state", "manifest">>
    /\ Head(Names) = "latest" /\ Tail(Names) = <<"state", "manifest">>
    /\ Len(Names) = 3
    /\ Head(<<"state", "manifest">>) = "state" /\ Tail(<<"state", "manifest">>) = <<"manifest">>
    /\ Len(<<"state", "manifest">>) = 2
    /\ Head(<<"manifest">>) = "manifest" /\ Tail(<<"manifest">>) = <<>>
    /\ Len(<<"manifest">>) = 1
    /\ Names # <<"state", "manifest">> /\ Names # <<"manifest">>
    /\ <<"state", "manifest">> # <<"manifest">> /\ <<"manifest">> # <<>>
  BY DEF Names

\* A process takes a step, alone, which leaves the bucket and the local files as they are.
QuietStep(p, new) ==
    /\ process' = [process EXCEPT ![p] = new] /\ new \in Working
    /\ UNCHANGED <<files, runs, objects, pointer, processed, overlapped>>

LEMMA RawQuiet ==
    ASSUME RawInv, NEW p \in Process, NEW new, QuietStep(p, new),
           new.at = "write" => files.manifest # 0,
           new.at \in {"scrape", "copy", "append", "write"} => new.run # 0,
           new.at # "off" => ~At(p, "off"),
           RawAlone => /\ new.at \in {"gate"} \cup Gated =>
                            new.run = files.state /\ files.state # 0
                       /\ new.at \in Gated => files.latest = files.state
                       /\ new.at = "upload" => new.digests = files /\ new.left = Names
                       /\ new.at = "point" => Described(new.run, new.digests)
    PROVE  RawInv'
  <1>1. process \in [Process -> Working]
    BY DEF RawInv, RawTypes, Working
  <1>2. process'[p] = new /\ \A q \in Process : q # p => process'[q] = process[q]
    BY <1>1 DEF QuietStep
  <1>3. RawTypes'
    BY <1>1 DEF RawInv, RawTypes, QuietStep, Working
  <1>4. ManifestInv'
    BY <1>2 DEF RawInv, ManifestInv, QuietStep, At
  <1>5. ASSUME RawAlone PROVE AloneInv'
    <2>1. \A q \in Process : ~At(q, "off")' => ~At(q, "off")
      BY <1>2 DEF At
    <2> QED BY <1>2, <1>5, <2>1 DEF RawAlone, AloneInv, QuietStep
  <1>6. ASSUME RawAlone PROVE UploadInv'
    <2>1. \A r, d : Described(r, d)' <=> Described(r, d)
      BY DEF Described, QuietStep
    <2> QED BY <1>2, <1>6, <2>1, NamesTake DEF RawAlone, UploadInv, QuietStep, At
  <1>7. ASSUME RawAlone PROVE StoredInv' /\ PointerInv' /\ ProcessedIsValidated'
    BY <1>7 DEF RawAlone, StoredInv, PointerInv, ProcessedIsValidated, QuietStep, Described
  <1> QED BY <1>3, <1>4, <1>5, <1>6, <1>7 DEF RawInv, RawAlone, QuietStep

LEMMA OffIsWorking == Off \in Working /\ Off.at = "off"
  <1>1. <<>> \in NamesLeft /\ 0 \in 0..MaxRuns /\ 0 \in 0..MaxLines
    BY RawRefreshAssumption DEF NamesLeft
  <1> QED BY <1>1 DEF Off, Working, Steps, Content

\* The three scripts read, decide and go on.
LEMMA RawReads ==
    ASSUME RawInv, NEW p \in Process,
           SaveRun(p) \/ LoadState(p) \/ Gate(p) \/ Digest(p) \/ Verify(p) \/ End(p)
    PROVE  RawInv'
  <1>0. /\ process \in [Process -> Working] /\ process[p] \in Working
        /\ files \in Content /\ files.state \in 0..MaxRuns
    BY DEF RawInv, RawTypes, Working, Content
  <1>1. ASSUME NEW goal \in {"copy", "sync", "process"}, GoTo(p, goal),
               UNCHANGED <<files, runs, objects, pointer, processed, overlapped>>,
               ~At(p, "off"), goal = "copy" => process[p].run # 0,
               RawAlone /\ goal # "copy" => /\ process[p].run = files.state /\ files.state # 0
                                          /\ files.latest = files.state
        PROVE  RawInv'
    <2> DEFINE new == [process[p] EXCEPT !.at = goal]
    <2>1. /\ new \in Working /\ new.at = goal /\ new.run = process[p].run
      BY <1>0, <1>1 DEF Working, Steps
    <2>2. QuietStep(p, new)
      BY <1>1, <2>1 DEF QuietStep, GoTo, Step
    <2> HIDE DEF new
    <2> QED BY <1>1, <2>1, <2>2, RawQuiet DEF Gated
  <1>2. CASE SaveRun(p)
    BY <1>1, <1>2 DEF SaveRun, At, RawInv, ManifestInv
  <1>3. CASE Gate(p)
    BY <1>1, <1>3 DEF Gate, At, RawAlone, AloneInv, Gated, LatestMatches
  <1>4. CASE Verify(p)
    BY <1>1, <1>4 DEF Verify, At, RawAlone, AloneInv, Gated
  <1>5. CASE End(p)
    <2>1. QuietStep(p, Off)
      BY <1>5, OffIsWorking DEF End, QuietStep, Step
    <2> QED BY <2>1, OffIsWorking, RawQuiet DEF Gated
  <1>6. CASE LoadState(p)
    <2> DEFINE next == CASE process[p].at = "load" -> "gate" [] process[p].at = "sync" -> "digest"
                         [] process[p].at = "reload" -> "verify"
               new == [process[p] EXCEPT !.run = files.state, !.at = next]
    <2>1. /\ next \in {"gate", "digest", "verify"}
          /\ next # "gate" => process[p].at \in Gated
          /\ process[p].at \in {"load", "sync", "reload"}
          /\ files.state # 0
      BY <1>6 DEF LoadState, Gated
    <2>2. process' = [process EXCEPT ![p] = new]
      BY <1>6 DEF LoadState, Step
    <2> HIDE DEF next
    <2>3. /\ new \in Working /\ new.at = next /\ new.run = files.state
      BY <1>0, <2>1 DEF Working, Steps
    <2>4. QuietStep(p, new)
      BY <1>6, <2>2, <2>3 DEF LoadState, QuietStep
    <2> HIDE DEF new
    <2>5. RawAlone /\ next # "gate" => files.latest = files.state
      BY <2>1 DEF RawAlone, AloneInv
    <2> QED BY <2>1, <2>3, <2>4, <2>5, RawQuiet DEF At, Gated
  <1>7. CASE Digest(p)
    <2> DEFINE new == [process[p] EXCEPT !.at = "upload", !.digests = files, !.left = Names]
    <2>1. Names \in NamesLeft
      BY DEF Names, NamesLeft
    <2>2. /\ new \in Working /\ new.at = "upload" /\ new.run = process[p].run
          /\ new.digests = files /\ new.left = Names
      BY <1>0, <2>1 DEF Working, Steps
    <2>3. QuietStep(p, new)
      BY <1>7, <2>2 DEF Digest, QuietStep, Step
    <2> HIDE DEF new
    <2>4. RawAlone => /\ process[p].run = files.state /\ files.state # 0
                      /\ files.latest = files.state
      BY <1>7 DEF Digest, At, RawAlone, AloneInv, Gated
    <2> QED BY <1>7, <2>2, <2>3, <2>4, RawQuiet DEF Digest, At
  <1> QED BY <1>2, <1>3, <1>4, <1>5, <1>6, <1>7

\* Process p makes its step new; what else changes is said where the lemma is used.
Goes(p, new) == process' = [process EXCEPT ![p] = new] /\ new \in Working

\* A process that is alone makes a step that does not lie between the gate and the end.
LEMMA RawWrites ==
    ASSUME RawInv, NEW p \in Process, NEW new, Goes(p, new),
           files' \in Content, runs' \in 0..MaxRuns, UNCHANGED <<objects, pointer, processed>>,
           new.at \in {"off", "scrape", "append", "write", "load"},
           new.at \in {"scrape", "append", "write"} => new.run # 0,
           new.at = "write" => files'.manifest # 0,
           files'.manifest \in {files.manifest, files.manifest + 1},
           files'.state # 0 => files'.manifest # 0,
           overlapped' \in BOOLEAN, overlapped => overlapped',
           ~overlapped' /\ RawAlone => \A q \in Process \ {p} : At(q, "off")
    PROVE  RawInv'
  <1>1. process \in [Process -> Working]
    BY DEF RawInv, RawTypes, Working
  <1>2. process'[p] = new /\ \A q \in Process : q # p => process'[q] = process[q]
    BY <1>1 DEF Goes
  <1>3. RawTypes'
    BY <1>1 DEF RawInv, RawTypes, Goes, Working
  <1>4. ManifestInv'
    <2>1. files.manifest \in Nat /\ files'.manifest \in Nat
      BY Contents DEF RawInv, RawTypes
    <2> QED BY <1>2, <2>1 DEF RawInv, ManifestInv, At
  <1>5. ASSUME ~overlapped' PROVE RawAlone'
    <2>1. RawAlone /\ ~overlapped /\ \A q \in Process : q # p => At(q, "off") /\ At(q, "off")'
      BY <1>2, <1>5 DEF RawInv, At
    <2>2. AloneInv'
      BY <1>2, <2>1 DEF AloneInv, At, Gated
    <2>3. UploadInv'
      BY <1>2, <2>1 DEF UploadInv, At
    <2>4. StoredInv'
      <3>1. files.manifest \in Nat /\ files'.manifest \in Nat
            /\ \A r \in 1..MaxRuns : objects[r].manifest \in Nat
        BY Contents DEF RawInv, RawTypes
      <3> QED BY <2>1, <3>1 DEF RawAlone, StoredInv
    <2>5. PointerInv' /\ ProcessedIsValidated'
      BY <1>5, <2>1 DEF RawAlone, PointerInv, Described, ProcessedIsValidated
    <2> QED BY <2>2, <2>3, <2>4, <2>5 DEF RawAlone
  <1> QED BY <1>3, <1>4, <1>5 DEF RawInv

LEMMA RawBegins ==
    ASSUME RawInv, NEW p \in Process, Scrape(p) \/ Republish(p)
    PROVE  RawInv'
  <1> DEFINE begun == [Off EXCEPT !.at = "scrape", !.run = runs + 1]
             again == [Off EXCEPT !.at = "load"]
  <1>0. /\ files \in Content /\ runs \in 0..MaxRuns /\ MaxRuns \in Nat /\ overlapped \in BOOLEAN
        /\ files.manifest \in Nat /\ (files.state # 0 => files.manifest # 0)
    BY Contents DEF RawInv, RawTypes, ManifestInv
  <1>1. again \in Working /\ again.at = "load"
    BY RawRefreshAssumption DEF Off, Working, Steps, NamesLeft, Content
  <1>2. runs < MaxRuns => begun \in Working /\ begun.at = "scrape" /\ begun.run = runs + 1
    <2> SUFFICES ASSUME runs < MaxRuns
                 PROVE  begun \in Working /\ begun.at = "scrape" /\ begun.run = runs + 1
      OBVIOUS
    <2>1. runs + 1 \in 0..MaxRuns
      BY <1>0
    <2>2. Off \in Working
      BY OffIsWorking
    <2> QED BY <2>1, <2>2 DEF Working, Steps
  <1> HIDE DEF begun, again
  <1>3. ASSUME NEW new \in {begun, again}, Begin(p, new), new \in Working,
               new.at \in {"scrape", "load"}, new.at = "scrape" => new.run # 0,
               UNCHANGED <<files, objects, pointer, processed>>, runs' \in 0..MaxRuns
        PROVE  RawInv'
    <2>1. Goes(p, new) /\ overlapped' = (overlapped \/ \E q \in Process \ {p} : ~At(q, "off"))
      BY <1>3 DEF Begin, Step, Goes
    <2> QED BY <1>0, <1>3, <2>1, RawWrites
  <1>4. CASE Scrape(p)
    <2>1. Begin(p, begun) /\ runs < MaxRuns /\ runs' = runs + 1
          /\ UNCHANGED <<files, objects, pointer, processed>>
      BY <1>4 DEF Scrape, begun
    <2>2. runs + 1 \in 0..MaxRuns /\ runs + 1 # 0
      BY <1>0, <2>1
    <2> QED BY <1>2, <1>3, <2>1, <2>2
  <1>5. CASE Republish(p)
    <2>1. Begin(p, again) /\ UNCHANGED <<files, runs, objects, pointer, processed>>
      BY <1>5 DEF Republish, again
    <2> QED BY <1>0, <1>1, <1>3, <2>1
  <1> QED BY <1>4, <1>5

LEMMA RawRefreshes ==
    ASSUME RawInv, NEW p \in Process,
           CopyLatest(p) \/ AppendManifest(p) \/ WriteState(p) \/ RefreshFails(p)
    PROVE  RawInv'
  <1>0. /\ process \in [Process -> Working] /\ process[p] \in Working /\ MaxRuns \in Nat
        /\ files \in Content /\ runs \in 0..MaxRuns /\ overlapped \in BOOLEAN /\ MaxLines \in Nat
        /\ files.manifest \in 0..MaxLines /\ (files.state # 0 => files.manifest # 0)
    BY RawRefreshAssumption DEF RawInv, RawTypes, ManifestInv, Content, Working
  <1>1. ASSUME NEW new \in Working, process' = [process EXCEPT ![p] = new], ~At(p, "off"),
               UNCHANGED <<runs, objects, pointer, processed, overlapped>>, files' \in Content,
               new.at \in {"off", "append", "write", "load"},
               new.at \in {"append", "write"} => new.run # 0,
               files'.manifest \in {files.manifest, files.manifest + 1},
               new.at = "write" => files'.manifest # 0,
               files'.state # 0 => files'.manifest # 0
        PROVE  RawInv'
    <2>1. RawAlone => \A q \in Process \ {p} : At(q, "off")
      BY <1>1 DEF RawAlone, AloneInv
    <2> QED BY <1>0, <1>1, <2>1, RawWrites DEF Goes
  <1> DEFINE goes(goal) == [process[p] EXCEPT !.at = goal]
  <1>2. \A goal \in {"append", "write", "load"} :
            goes(goal) \in Working /\ goes(goal).at = goal /\ goes(goal).run = process[p].run
    BY <1>0 DEF Working, Steps
  <1>3. CASE CopyLatest(p)
    <2>1. /\ files' \in Content /\ files'.manifest = files.manifest /\ files'.state = files.state
          /\ process[p].run # 0
      BY <1>0, <1>3 DEF CopyLatest, Content, Working, RawInv, ManifestInv, At
    <2>2. process' = [process EXCEPT ![p] = goes("append")] /\ ~At(p, "off")
          /\ UNCHANGED <<runs, objects, pointer, processed, overlapped>>
      BY <1>3 DEF CopyLatest, GoTo, Step, At
    <2> HIDE DEF goes
    <2> QED BY <1>0, <1>1, <1>2, <2>1, <2>2
  <1>4. CASE AppendManifest(p)
    <2>1. /\ files' \in Content /\ files'.manifest = files.manifest + 1
          /\ process[p].run # 0
      BY <1>0, <1>4 DEF AppendManifest, Content, Working, RawInv, ManifestInv, At
    <2>0. files'.manifest # 0
      BY <1>0, <2>1
    <2>2. process' = [process EXCEPT ![p] = goes("write")] /\ ~At(p, "off")
          /\ UNCHANGED <<runs, objects, pointer, processed, overlapped>>
      BY <1>4 DEF AppendManifest, GoTo, Step, At
    <2> HIDE DEF goes
    <2> QED BY <1>0, <1>1, <1>2, <2>0, <2>1, <2>2
  <1>5. CASE WriteState(p)
    <2>1. /\ files' \in Content /\ files'.manifest = files.manifest /\ files.manifest # 0
      BY <1>0, <1>5 DEF WriteState, Content, Working, RawInv, ManifestInv, At
    <2>2. process' = [process EXCEPT ![p] = goes("load")] /\ ~At(p, "off")
          /\ UNCHANGED <<runs, objects, pointer, processed, overlapped>>
      BY <1>5 DEF WriteState, GoTo, Step, At
    <2> HIDE DEF goes
    <2> QED BY <1>0, <1>1, <1>2, <2>1, <2>2
  <1>6. CASE RefreshFails(p)
    <2>1. /\ files' \in Content /\ files'.manifest = files.manifest + 1
      BY <1>0, <1>6 DEF RefreshFails, Content
    <2>2. process' = [process EXCEPT ![p] = Off] /\ ~At(p, "off")
          /\ UNCHANGED <<runs, objects, pointer, processed, overlapped>>
      BY <1>6 DEF RefreshFails, Step, At
    <2>3. Off.at = "off" /\ Off \in Working /\ files'.state = files.state
      BY <1>0, <1>6, OffIsWorking DEF RefreshFails, Content
    <2>4. files'.state # 0 => files'.manifest # 0
      BY <1>0, <2>1, <2>3
    <2> QED BY <1>1, <2>1, <2>2, <2>3, <2>4
  <1> QED BY <1>3, <1>4, <1>5, <1>6

\* One object after the other, none twice.
LEMMA RawCopies == ASSUME RawInv, NEW p \in Process, CopyToBucket(p) PROVE RawInv'
  <1> DEFINE own == process[p].run
             name == Head(process[p].left)
             copied == [objects[own] EXCEPT ![name] = IF @ = 0 THEN files[name] ELSE @]
             new == [process[p] EXCEPT !.left = Tail(@),
                        !.at = IF Len(process[p].left) = 1 THEN "point" ELSE @]
  <1>0. /\ process \in [Process -> Working] /\ process[p] \in Working /\ own \in 0..MaxRuns
        /\ objects \in [1..MaxRuns -> Content] /\ files \in Content
    BY DEF RawInv, RawTypes, Working
  <1>1. /\ At(p, "upload") /\ process[p].left # <<>>
        /\ objects' = [objects EXCEPT ![own] = copied] /\ process' = [process EXCEPT ![p] = new]
        /\ UNCHANGED <<files, runs, pointer, processed, overlapped>>
    BY DEF CopyToBucket, Step
  <1>2. process[p].left \in {<<"manifest">>, <<"state", "manifest">>, Names}
    BY <1>0, <1>1, NamesTake DEF Working, NamesLeft
  <1>3. name \in {"latest", "state", "manifest"}
    BY <1>2, NamesTake
  <1>4. /\ name = "latest" <=> process[p].left = Names
        /\ name = "state" <=> process[p].left = <<"state", "manifest">>
        /\ name = "manifest" <=> process[p].left = <<"manifest">>
    BY <1>2, NamesTake
  <1>5. /\ new \in Working /\ new.run = own /\ new.digests = process[p].digests
        /\ name = "latest" => new.at = "upload" /\ new.left = <<"state", "manifest">>
        /\ name = "state" => new.at = "upload" /\ new.left = <<"manifest">>
        /\ name = "manifest" => new.at = "point" /\ new.left = <<>>
    <2>1. /\ Tail(process[p].left) \in NamesLeft
          /\ name = "latest" => Tail(process[p].left) = <<"state", "manifest">>
                                /\ Len(process[p].left) # 1
          /\ name = "state" => Tail(process[p].left) = <<"manifest">>
                                /\ Len(process[p].left) # 1
          /\ name = "manifest" => Tail(process[p].left) = <<>>
                                /\ Len(process[p].left) = 1
      <3> HIDE DEF name
      <3>1. CASE name = "latest"
        <4>1. process[p].left = Names
          BY <1>4, <3>1
        <4>2. Tail(process[p].left) = <<"state", "manifest">> /\ Len(process[p].left) = 3
          BY <4>1, NamesTake
        <4>3. Tail(process[p].left) \in NamesLeft
          BY <4>2 DEF NamesLeft
        <4> QED BY <3>1, <4>2, <4>3
      <3>2. CASE name = "state"
        <4>1. process[p].left = <<"state", "manifest">>
          BY <1>4, <3>2
        <4>2. Tail(process[p].left) = <<"manifest">> /\ Len(process[p].left) = 2
          BY <4>1, NamesTake
        <4>3. Tail(process[p].left) \in NamesLeft
          BY <4>2 DEF NamesLeft
        <4> QED BY <3>2, <4>2, <4>3
      <3>3. CASE name = "manifest"
        <4>1. process[p].left = <<"manifest">>
          BY <1>4, <3>3
        <4>2. Tail(process[p].left) = <<>> /\ Len(process[p].left) = 1
          BY <4>1, NamesTake
        <4>3. Tail(process[p].left) \in NamesLeft
          BY <4>2 DEF NamesLeft
        <4> QED BY <3>3, <4>2, <4>3
      <3> QED BY <1>3, <3>1, <3>2, <3>3
    <2>2. process[p].at = "upload" /\ {"upload", "point"} \subseteq Steps
      BY <1>1 DEF At, Steps
    <2> HIDE DEF name
    <2> QED BY <1>0, <1>3, <2>1, <2>2 DEF Working
  <1>6. objects[own] \in Content =>
            /\ copied \in Content
            /\ copied.latest = IF name = "latest" /\ objects[own].latest = 0 THEN files.latest
                               ELSE objects[own].latest
            /\ copied.state = IF name = "state" /\ objects[own].state = 0 THEN files.state
                              ELSE objects[own].state
            /\ copied.manifest = IF name = "manifest" /\ objects[own].manifest = 0
                                 THEN files.manifest ELSE objects[own].manifest
    <2> HIDE DEF name
    <2> QED BY <1>0, <1>3 DEF Content
  <1> HIDE DEF name, copied, new
  <1>7. process'[p] = new /\ \A q \in Process : q # p => process'[q] = process[q]
    BY <1>0, <1>1
  <1>8. RawTypes'
    <2>1. process' \in [Process -> Working]
      BY <1>0, <1>1, <1>5
    <2>2. objects' \in [1..MaxRuns -> Content]
      BY <1>0, <1>1, <1>6
    <2> QED BY <1>1, <2>1, <2>2 DEF RawInv, RawTypes, Working
  <1>9. ManifestInv'
    <2>1. new.at \in {"upload", "point"}
      BY <1>3, <1>5
    <2> QED BY <1>1, <1>7, <2>1 DEF RawInv, ManifestInv, At
  <1>10. ASSUME RawAlone PROVE RawAlone'
    <2>1. /\ own = files.state /\ files.state = files.latest /\ own \in 1..MaxRuns
          /\ files.manifest \in Nat \ {0} /\ process[p].digests = files
      <3>1. files.state \in 0..MaxRuns /\ files.manifest \in Nat /\ files.state \in Nat
        BY <1>0, Contents
      <3> QED BY <1>1, <1>10, <3>1 DEF RawAlone, AloneInv, UploadInv, At, Gated, RawInv, ManifestInv
    <2>2. /\ objects[own] \in Content /\ objects'[own] = copied
          /\ \A r \in 1..MaxRuns : r # own => objects'[r] = objects[r]
      BY <1>0, <1>1, <2>1
    <2>3. /\ objects[own].latest \in {0, own} /\ objects[own].state \in {0, own}
          /\ objects[own].manifest <= files.manifest /\ objects[own].manifest \in Nat
      BY <1>0, <1>10, <2>1, Contents DEF RawAlone, StoredInv
    <2>4. /\ copied.latest \in {0, own} /\ copied.state \in {0, own}
          /\ copied.manifest <= files.manifest /\ copied.manifest \in Nat
          /\ objects[own].latest # 0 => copied.latest = objects[own].latest
          /\ objects[own].state # 0 => copied.state = objects[own].state
          /\ objects[own].manifest # 0 => copied.manifest = objects[own].manifest
          /\ name = "latest" => copied.latest = own
          /\ name = "state" => copied.state = own
          /\ name = "manifest" => copied.manifest # 0
      BY <1>6, <2>1, <2>2, <2>3
    <2>5. \A r \in 1..MaxRuns : \A d : Described(r, d) => Described(r, d)'
      <3> SUFFICES ASSUME NEW r \in 1..MaxRuns, NEW d, Described(r, d) PROVE Described(r, d)'
        OBVIOUS
      <3>1. CASE r = own
        <4>1. objects'[r] = objects[r] \/ objects'[r] = copied
          BY <2>2
        <4>2. objects[own].manifest # 0 /\ objects[own].latest # 0 /\ objects[own].state # 0
          BY <2>1, <3>1 DEF Described
        <4>3. /\ objects'[r].latest = objects[r].latest /\ objects'[r].state = objects[r].state
              /\ objects'[r].manifest = objects[r].manifest
          BY <2>2, <2>4, <3>1, <4>2
        <4> QED BY <4>3 DEF Described
      <3>2. CASE r # own
        BY <2>2, <3>2 DEF Described
      <3> QED BY <3>1, <3>2
    <2>6. AloneInv'
      <3>1. \A q \in Process : ~At(q, "off")' => ~At(q, "off")
        BY <1>1, <1>7 DEF At
      <3>2. new.run = files.state /\ files.state # 0 /\ files.latest = files.state
        BY <1>5, <2>1
      <3>3. \A q \in Process : q # p => At(q, "off")' /\ At(q, "off")
        BY <1>1, <1>7, <1>10 DEF RawAlone, AloneInv, At
      <3> QED BY <1>1, <1>7, <3>1, <3>2, <3>3 DEF RawAlone, AloneInv, At, Gated
    <2>7. StoredInv'
      BY <1>1, <1>10, <2>2, <2>4 DEF RawAlone, StoredInv
    <2>8. PointerInv'
      BY <1>1, <1>10, <2>5 DEF RawAlone, PointerInv
    <2>9. UploadInv'
      <3>1. \A q \in Process : q # p => At(q, "off")'
        BY <1>1, <1>7, <1>10 DEF RawAlone, AloneInv, At
      <3>2. new.at \in {"upload", "point"} /\ new.run = own /\ new.digests = files
        BY <1>3, <1>5, <2>1
      <3>3. name # "latest" => objects[own].latest = own
        BY <1>1, <1>2, <1>4, <1>10, NamesTake DEF RawAlone, UploadInv
      <3>4. name = "manifest" => objects[own].state = own
        BY <1>1, <1>4, <1>10 DEF RawAlone, UploadInv
      <3>5. new.at = "upload" =>
                /\ new.left \in {<<"state", "manifest">>, <<"manifest">>}
                /\ copied.latest = own
                /\ new.left = <<"manifest">> => copied.state = own
        BY <1>3, <1>5, <2>1, <2>4, <3>3, NamesTake
      <3>6. new.at = "point" => name = "manifest"
        BY <1>3, <1>5
      <3>7. ASSUME new.at = "point", NEW r, r = own, NEW d, d = new.digests
            PROVE  Described(r, d)'
        <4>1. /\ files.manifest \in Nat /\ copied.manifest \in Nat /\ copied.manifest # 0
              /\ copied.latest = own /\ copied.state = own /\ copied.manifest <= files.manifest
          BY <1>0, <2>1, <2>3, <2>4, <3>3, <3>4, <3>6, <3>7, Contents
        <4>2. d = files /\ objects'[r] = copied
          BY <2>2, <3>2, <3>7
        <4> QED BY <2>1, <3>7, <4>1, <4>2 DEF Described
      <3>8. \A r, d : new.at = "point" /\ r = process'[p].run /\ d = process'[p].digests
                         => Described(r, d)'
        BY <1>5, <1>7, <3>7
      <3>9. At(p, "upload")' => /\ process'[p].digests = files'
                                /\ process'[p].left \in {<<"state", "manifest">>, <<"manifest">>}
                                /\ objects'[process'[p].run].latest = process'[p].run
                                /\ process'[p].left = <<"manifest">> =>
                                      objects'[process'[p].run].state = process'[p].run
        BY <1>1, <1>7, <2>2, <3>2, <3>5 DEF At
      <3> QED BY <1>7, <3>1, <3>8, <3>9 DEF UploadInv, At
    <2>10. ProcessedIsValidated'
      BY <1>1, <1>10 DEF RawAlone, ProcessedIsValidated
    <2> QED BY <2>6, <2>7, <2>8, <2>9, <2>10 DEF RawAlone
  <1> QED BY <1>1, <1>8, <1>9, <1>10 DEF RawInv

\* The pointer is written when all that it names is stored, and the pipeline reads what
\* the gate passed.
LEMMA RawPoints == ASSUME RawInv, NEW p \in Process, Point(p) \/ ReadRaw(p) PROVE RawInv'
  <1>0. /\ process \in [Process -> Working] /\ process[p] \in Working
        /\ files \in Content /\ process[p].run \in 0..MaxRuns
    BY DEF RawInv, RawTypes, Working
  <1>1. CASE Point(p)
    <2> DEFINE new == [process[p] EXCEPT !.at = "reload"]
               own == process[p].run
               d == process[p].digests
    <2>1. /\ new \in Working /\ new.at = "reload" /\ new.run = own
      BY <1>0 DEF Working, Steps
    <2>2. /\ process' = [process EXCEPT ![p] = new] /\ At(p, "point")
          /\ pointer' = [run |-> own, digests |-> d]
          /\ UNCHANGED <<files, runs, objects, processed, overlapped>>
      BY <1>1 DEF Point, GoTo, Step
    <2>3. pointer'.run = own /\ pointer'.digests = d
      BY <2>2
    <2> HIDE DEF new
    <2>4. process'[p] = new /\ \A q \in Process : q # p => process'[q] = process[q]
      BY <1>0, <2>2
    <2>5. RawTypes' /\ ManifestInv'
      BY <1>0, <2>1, <2>2, <2>4 DEF RawInv, RawTypes, ManifestInv, At, Working
    <2>6. ASSUME RawAlone PROVE RawAlone'
      <3>1. AloneInv'
        BY <2>1, <2>2, <2>4, <2>6 DEF RawAlone, AloneInv, At, Gated
      <3>2. \A r, e : Described(r, e)' <=> Described(r, e)
        BY <2>2 DEF Described
      <3>3. UploadInv'
        BY <2>1, <2>2, <2>4, <2>6, <3>2 DEF RawAlone, UploadInv, At
      <3>4. Described(own, d) /\ own \in 1..MaxRuns /\ d \in Content
        <4>1. own # 0 /\ own \in Nat /\ MaxRuns \in Nat
          BY <1>0, <2>2, <2>6, Contents DEF RawAlone, AloneInv, At, Gated
        <4> QED BY <1>0, <2>2, <2>6, <4>1 DEF RawAlone, UploadInv, Working
      <3>5. PointerInv'
        BY <2>3, <3>2, <3>4 DEF PointerInv
      <3>6. StoredInv' /\ ProcessedIsValidated'
        BY <2>2, <2>6 DEF RawAlone, StoredInv, ProcessedIsValidated
      <3> QED BY <3>1, <3>3, <3>5, <3>6 DEF RawAlone
    <2> QED BY <2>2, <2>5, <2>6 DEF RawInv
  <1>2. CASE ReadRaw(p)
    <2>1. /\ process' = [process EXCEPT ![p] = Off] /\ At(p, "process")
          /\ processed' = [latest |-> files.latest, state |-> files.state, gate |-> process[p].run]
          /\ UNCHANGED <<files, runs, objects, pointer, overlapped>>
      BY <1>2 DEF ReadRaw, Step
    <2>2. process'[p] = Off /\ \A q \in Process : q # p => process'[q] = process[q]
      BY <1>0, <2>1
    <2>3. RawTypes' /\ ManifestInv'
      BY <1>0, <2>1, <2>2, OffIsWorking DEF RawInv, RawTypes, ManifestInv, At, Working
    <2>4. ASSUME RawAlone PROVE RawAlone'
      <3>1. AloneInv'
        BY <2>1, <2>2, <2>4, OffIsWorking DEF RawAlone, AloneInv, At, Gated
      <3>2. \A r, e : Described(r, e)' <=> Described(r, e)
        BY <2>1 DEF Described
      <3>3. UploadInv'
        BY <2>1, <2>2, <2>4, <3>2, OffIsWorking DEF RawAlone, UploadInv, At
      <3>4. StoredInv' /\ PointerInv'
        BY <2>1, <2>4, <3>2 DEF RawAlone, StoredInv, PointerInv
      <3>5. ProcessedIsValidated'
        <4>1. process[p].run = files.state /\ files.latest = files.state
          BY <2>1, <2>4 DEF RawAlone, AloneInv, At, Gated
        <4> QED BY <2>1, <4>1 DEF ProcessedIsValidated
      <3> QED BY <3>1, <3>3, <3>4, <3>5 DEF RawAlone
    <2> QED BY <2>1, <2>3, <2>4 DEF RawInv
  <1> QED BY <1>1, <1>2

LEMMA RawInvInit == RawInit => RawInv
  <1> SUFFICES ASSUME RawInit PROVE RawInv
    OBVIOUS
  <1>1. Nothing \in Content /\ Nothing.latest = 0 /\ Nothing.state = 0 /\ Nothing.manifest = 0
    BY RawRefreshAssumption DEF Nothing, Content
  <1>2. \A p \in Process : process[p] = Off /\ Off \in Working /\ Off.at = "off"
    BY OffIsWorking DEF RawInit
  <1>3. RawTypes
    <2>1. process \in [Process -> Working] /\ objects \in [1..MaxRuns -> Content]
      BY <1>1, OffIsWorking DEF RawInit
    <2>2. files \in Content /\ runs \in 0..MaxRuns /\ overlapped \in BOOLEAN
      <3>1. MaxRuns \in Nat
        BY RawRefreshAssumption
      <3>2. 0 \in 0..MaxRuns
        BY <3>1
      <3> QED BY <1>1, <3>2 DEF RawInit
    <2> QED BY <2>1, <2>2 DEF RawTypes, Working
  <1>4. ManifestInv
    BY <1>1, <1>2 DEF RawInit, ManifestInv, At
  <1>5. AloneInv /\ UploadInv
    BY <1>2 DEF AloneInv, UploadInv, At, Gated
  <1>6. StoredInv
    BY <1>1 DEF RawInit, StoredInv
  <1>7. PointerInv /\ ProcessedIsValidated
    BY DEF RawInit, PointerInv, ProcessedIsValidated
  <1> QED BY <1>3, <1>4, <1>5, <1>6, <1>7 DEF RawInv, RawAlone

\* The pointer is exact but for the manifest, which may have grown since it was stored.
LEMMA RawInvSuffices == RawInv => RawIsWhole
  <1> SUFFICES ASSUME RawInv, ~overlapped, pointer # NoPointer
               PROVE  PointerIsExact
    BY DEF RawInv, RawAlone, RawIsWhole, PointerIsExact, ProcessedIsValidated
  <1> DEFINE r == pointer.run
             d == pointer.digests
  <1>1. r \in 1..MaxRuns /\ d \in Content /\ Described(r, d)
    BY DEF RawInv, RawAlone, PointerInv
  <1>2. objects[r].manifest \in 1..d.manifest
    BY <1>1 DEF Described
  <1>3. d.manifest \in Nat
    BY <1>1, Contents
  <1>4. d.manifest = objects[r].manifest \/ objects[r].manifest \in 1..(d.manifest - 1)
    BY <1>2, <1>3
  <1> QED BY <1>1, <1>4 DEF Described, PointerIsExact

\* The raw files that the pointer names are the stored ones, and the pipeline reads what
\* the gate passed, unless a publication by hand overlapped with a refresh
\* (s3_sync_raw_hh.py).
THEOREM RawStaysWhole == RawSpec => []RawIsWhole
  <1>1. RawInv /\ [RawNext]_rawVars => RawInv'
    <2> SUFFICES ASSUME RawInv, [RawNext]_rawVars PROVE RawInv'
      OBVIOUS
    <2>1. CASE UNCHANGED rawVars
      BY <2>1 DEF rawVars, RawInv, RawTypes, ManifestInv, RawAlone, AloneInv, StoredInv,
           UploadInv, PointerInv, ProcessedIsValidated, Described, At
    <2>2. CASE RawNext
      BY <2>2, RawReads, RawBegins, RawRefreshes, RawCopies, RawPoints DEF RawNext
    <2> QED BY <2>1, <2>2
  <1> QED BY <1>1, RawInvInit, RawInvSuffices, PTL DEF RawSpec

-----------------------------------------------------------------------------
(* The shards of a historical backfill                                     *)

Live(s) == s.status # "split"

Fixed == [Dimension -> (UNION {SplitValues[n] : n \in Dimension}) \cup {AnyValue}]

\* A posting belongs to one shard, unless a split by dimension has passed it over; and
\* nothing is said to be empty that is not.
UniqueInv ==
    \A p \in source : \A s, t \in shards :
        Live(s) /\ Matches(p, s) /\ Live(t) /\ Matches(p, t) => s = t
CoverInv == \A p \in source : IsOutOfReach(p) \/ \E s \in shards : Live(s) /\ Matches(p, s)
EmptyInv == \A s \in shards : s.status = "accepted_empty" => \A p \in source : ~Matches(p, s)

ShardsInv == ShardsTypeOK /\ UniqueInv /\ CoverInv /\ EmptyInv

LEMMA WindowParts ==
    ASSUME NEW a \in Nat, NEW l \in Nat \ {0}
    PROVE  /\ a \div l \in Nat /\ (a \div l) * l <= a /\ a < ((a \div l) + 1) * l
           /\ \A n, m \in Nat : n < m => (n + 1) * l <= m * l
  BY SMT

\* The search that finds nothing has nothing to find.
LEMMA FoundNothing ==
    ASSUME ShardsTypeOK, NEW s \in shards, Found(s) = 0
    PROVE  \A p \in source : ~Matches(p, s)
  <1> DEFINE found == {p \in source : Matches(p, s)}
  <1>1. IsFiniteSet(Posting) /\ found \subseteq Posting
    BY BackfillShardsAssumption DEF ShardsTypeOK
  <1>2. IsFiniteSet(found)
    BY <1>1, FS_Subset
  <1>3. found = {}
    BY <1>2, FS_EmptySet DEF Found
  <1> QED BY <1>3

\* A posting of a shard that is split is in one of its children, unless it is out of reach.
LEMMA ChildrenPart ==
    ASSUME NEW s \in Shard, NEW p \in Posting, Matches(p, s), Children(s) # {}
    PROVE  IsOutOfReach(p) \/ \E c \in Children(s) : Matches(p, c)
  <1>0. /\ s.from \in Int /\ s.to \in Int /\ p.at \in Int /\ MinWindow \in Nat \ {0}
        /\ s.fixed \in Fixed
    BY BackfillShardsAssumption DEF Shard, Fixed
  <1>1. CASE Halves(s) # {}
    <2> DEFINE middle == (s.from + s.to) \div 2
               left == NewShard(s.from, middle, s.fixed)
               right == NewShard(middle, s.to, s.fixed)
    <2>1. Children(s) = {left, right}
      BY <1>1 DEF Children, Halves
    <2>2. middle \in Int
      BY <1>0
    <2>3. /\ left.from = s.from /\ left.to = middle /\ left.fixed = s.fixed
          /\ right.from = middle /\ right.to = s.to /\ right.fixed = s.fixed
      BY DEF NewShard
    <2> HIDE DEF middle, left, right
    <2>4. CASE p.at < middle
      BY <2>1, <2>3, <2>4 DEF Matches
    <2>5. CASE middle <= p.at
      BY <2>1, <2>3, <2>5 DEF Matches
    <2> QED BY <1>0, <2>2, <2>4, <2>5
  <1>2. CASE Halves(s) = {}
    <2>1. Children(s) = ByDimension(s)
      BY <1>2 DEF Children
    <2>2. PICK n \in First(Splittable(s)) : TRUE
      BY <2>1 DEF ByDimension
    <2>3. n \in Dimension /\ s.fixed[n] = AnyValue /\ SplitValues[n] # {}
      BY <2>2 DEF First, Splittable
    <2>4. CASE p.has[n] \notin SplitValues[n]
      BY <2>3, <2>4 DEF IsOutOfReach
    <2>5. CASE p.has[n] \in SplitValues[n]
      <3> DEFINE fixed == [s.fixed EXCEPT ![n] = p.has[n]]
                 c == NewShard(s.from, s.to, fixed)
      <3>1. c \in Children(s)
        BY <2>1, <2>2, <2>5 DEF ByDimension
      <3>2. fixed[n] = p.has[n] /\ \A m \in Dimension \ {n} : fixed[m] = s.fixed[m]
        BY <1>0, <2>3 DEF Fixed
      <3>3. c.from = s.from /\ c.to = s.to /\ c.fixed = fixed
        BY DEF NewShard
      <3> HIDE DEF c, fixed
      <3>4. Matches(p, c)
        BY <3>2, <3>3 DEF Matches
      <3> QED BY <3>1, <3>4
    <2> QED BY <2>4, <2>5
  <1> QED BY <1>1, <1>2

\* The children of a shard are parts of it that exclude each other.
LEMMA ChildrenExclude ==
    ASSUME NEW s \in Shard, NEW p, p.at \in Int
    PROVE  /\ \A c \in Children(s) : c \in Shard /\ c.status = "planned"
                                    /\ (Matches(p, c) => Matches(p, s))
           /\ \A c, d \in Children(s) : Matches(p, c) /\ Matches(p, d) => c = d
  <1>0. /\ s.from \in Int /\ s.to \in Int /\ p.at \in Int /\ MinWindow \in Nat \ {0}
        /\ s.from \in 0..Horizon /\ s.to \in 0..Horizon /\ Horizon \in Nat
        /\ s.fixed \in Fixed
    BY BackfillShardsAssumption DEF Shard, Fixed
  <1>1. CASE Halves(s) # {}
    <2> DEFINE middle == (s.from + s.to) \div 2
               left == NewShard(s.from, middle, s.fixed)
               right == NewShard(middle, s.to, s.fixed)
    <2>1. Children(s) = {left, right} /\ ~(s.to - s.from <= MinWindow)
      BY <1>1 DEF Children, Halves
    <2>2. middle \in 0..Horizon /\ s.from <= middle /\ middle <= s.to
      BY <1>0, <2>1
    <2>3. /\ left.from = s.from /\ left.to = middle /\ left.fixed = s.fixed
          /\ right.from = middle /\ right.to = s.to /\ right.fixed = s.fixed
          /\ left.status = "planned" /\ right.status = "planned"
      BY DEF NewShard
    <2>4. left \in Shard /\ right \in Shard
      BY <1>0, <2>2 DEF NewShard, Shard, Fixed, Status
    <2> HIDE DEF middle, left, right
    <2>5. /\ Matches(p, left) => Matches(p, s) /\ p.at < middle
          /\ Matches(p, right) => Matches(p, s) /\ middle <= p.at
      BY <1>0, <2>2, <2>3 DEF Matches
    <2> QED BY <1>0, <2>1, <2>2, <2>3, <2>4, <2>5
  <1>2. CASE Halves(s) = {}
    <2>1. Children(s) = ByDimension(s)
      BY <1>2 DEF Children
    <2>2. \A n, m \in First(Splittable(s)) : n = m
      <3>1. Splittable(s) \subseteq Nat
        BY BackfillShardsAssumption DEF Splittable
      <3>2. \A n, m \in First(Splittable(s)) : n \in Nat /\ m \in Nat /\ n <= m /\ m <= n
        BY <3>1 DEF First
      <3> QED BY <3>2
    <2>3. ASSUME NEW c \in Children(s)
          PROVE  \E n \in First(Splittable(s)) : \E v \in SplitValues[n] :
                    c = NewShard(s.from, s.to, [s.fixed EXCEPT ![n] = v])
      BY <2>1 DEF ByDimension
    <2>4. ASSUME NEW n \in First(Splittable(s)), NEW v \in SplitValues[n], NEW c,
                 c = NewShard(s.from, s.to, [s.fixed EXCEPT ![n] = v])
          PROVE  /\ c \in Shard /\ c.status = "planned"
                 /\ Matches(p, c) => Matches(p, s) /\ p.has[n] = v
      <3> DEFINE fixed == [s.fixed EXCEPT ![n] = v]
      <3>1. n \in Dimension /\ s.fixed[n] = AnyValue /\ v # AnyValue
        BY BackfillShardsAssumption DEF First, Splittable
      <3>2. fixed[n] = v /\ \A m \in Dimension \ {n} : fixed[m] = s.fixed[m]
        BY <1>0, <3>1 DEF Fixed
      <3>3. fixed \in Fixed
        BY <1>0, <3>1 DEF Fixed
      <3> HIDE DEF fixed
      <3>4. c = [from |-> s.from, to |-> s.to, fixed |-> fixed, status |-> "planned"]
        BY <2>4 DEF NewShard, fixed
      <3>5. c \in Shard
        BY <1>0, <3>3, <3>4 DEF Shard, Fixed, Status
      <3>6. ASSUME Matches(p, c) PROVE Matches(p, s) /\ p.has[n] = v
        <4>1. fixed[n] \in {AnyValue, p.has[n]}
          BY <3>1, <3>4, <3>6 DEF Matches
        <4> QED BY <3>1, <3>2, <3>4, <3>6, <4>1 DEF Matches
      <3> QED BY <3>4, <3>5, <3>6
    <2>5. ASSUME NEW c \in Children(s), NEW d \in Children(s), Matches(p, c), Matches(p, d)
          PROVE  c = d
      <3>1. PICK n \in First(Splittable(s)) : \E v \in SplitValues[n] :
                c = NewShard(s.from, s.to, [s.fixed EXCEPT ![n] = v])
        BY <2>3
      <3>2. PICK v \in SplitValues[n] : c = NewShard(s.from, s.to, [s.fixed EXCEPT ![n] = v])
        BY <3>1
      <3>3. PICK m \in First(Splittable(s)) : \E w \in SplitValues[m] :
                d = NewShard(s.from, s.to, [s.fixed EXCEPT ![m] = w])
        BY <2>3
      <3>4. PICK w \in SplitValues[m] : d = NewShard(s.from, s.to, [s.fixed EXCEPT ![m] = w])
        BY <3>3
      <3>5. n = m
        BY <2>2
      <3>6. p.has[n] = v /\ p.has[m] = w
        BY <2>4, <2>5, <3>2, <3>4
      <3> QED BY <3>2, <3>4, <3>5, <3>6
    <2>6. ASSUME NEW c \in Children(s)
          PROVE  c \in Shard /\ c.status = "planned" /\ (Matches(p, c) => Matches(p, s))
      <3>1. PICK n \in First(Splittable(s)) : \E v \in SplitValues[n] :
                c = NewShard(s.from, s.to, [s.fixed EXCEPT ![n] = v])
        BY <2>3
      <3>2. PICK v \in SplitValues[n] : c = NewShard(s.from, s.to, [s.fixed EXCEPT ![n] = v])
        BY <3>1
      <3> QED BY <2>4, <3>2
    <2> QED BY <2>5, <2>6
  <1> QED BY <1>1, <1>2

\* A day of the window is one shard.
LEMMA PlannedParts ==
    /\ Planned \subseteq Shard
    /\ \A p \in Posting :
          /\ \E s \in Planned : Matches(p, s)
          /\ \A s, t \in Planned : Matches(p, s) /\ Matches(p, t) => s = t
  <1> DEFINE any == [m \in Dimension |-> AnyValue]
             day(n) == NewShard(n * DayLength, (n + 1) * DayLength, any)
             last == Horizon \div DayLength - 1
  <1>0. DayLength \in Nat \ {0} /\ Horizon \in Nat /\ Horizon % DayLength = 0
    BY BackfillShardsAssumption
  <1>1. Horizon = (last + 1) * DayLength /\ last \in Int
    BY <1>0, Z3
  <1>2. any \in Fixed /\ \A n \in Dimension : any[n] = AnyValue
    <2>1. AnyValue \in (UNION {SplitValues[n] : n \in Dimension}) \cup {AnyValue}
      OBVIOUS
    <2> QED BY <2>1 DEF Fixed
  <1> HIDE DEF any, last
  <1>3. Planned = {day(n) : n \in 0..last}
    BY DEF Planned, any, last
  <1>4. \A n : day(n).from = n * DayLength /\ day(n).to = (n + 1) * DayLength
               /\ day(n).fixed = any /\ day(n).status = "planned"
    BY DEF NewShard
  <1>5. ASSUME NEW n \in 0..last PROVE day(n) \in Shard
    <2>1. n * DayLength \in 0..Horizon /\ (n + 1) * DayLength \in 0..Horizon
      <3>1. n \in Nat /\ n + 1 \in Nat /\ last + 1 \in Nat /\ n + 1 <= last + 1
        BY <1>1
      <3>2. (n + 1) * DayLength <= (last + 1) * DayLength
        BY <1>0, <3>1, WindowParts
      <3> QED BY <1>0, <1>1, <3>1, <3>2
    <2> QED BY <1>2, <2>1 DEF NewShard, Shard, Status, Fixed
  <1>6. ASSUME NEW p \in Posting, NEW n \in 0..last
        PROVE  Matches(p, day(n)) <=> n * DayLength <= p.at /\ p.at < (n + 1) * DayLength
    <2> HIDE DEF day
    <2> QED BY <1>2, <1>4 DEF Matches
  <1>7. ASSUME NEW p \in Posting PROVE \E n \in 0..last : Matches(p, day(n))
    <2> DEFINE n == p.at \div DayLength
    <2>1. p.at \in 0..Horizon - 1
      BY BackfillShardsAssumption
    <2>2. n \in Nat /\ n * DayLength <= p.at /\ p.at < (n + 1) * DayLength
      <3>1. p.at \in Nat
        BY <1>0, <2>1
      <3> QED BY <1>0, <3>1, WindowParts
    <2> HIDE DEF n
    <2>3. n <= last
      <3> SUFFICES ASSUME last < n PROVE FALSE
        BY <1>1, <2>2
      <3>1. (last + 1) * DayLength <= n * DayLength
        BY <1>0, <1>1, <2>2, Z3
      <3> QED BY <1>0, <1>1, <2>1, <2>2, <3>1
    <2> QED BY <1>1, <1>6, <2>2, <2>3
  <1>8. ASSUME NEW p \in Posting, NEW n \in 0..last, NEW m \in 0..last,
               Matches(p, day(n)), Matches(p, day(m))
        PROVE  n = m
    <2>1. /\ n * DayLength <= p.at /\ p.at < (n + 1) * DayLength
          /\ m * DayLength <= p.at /\ p.at < (m + 1) * DayLength /\ p.at \in Int
      BY <1>6, <1>8, BackfillShardsAssumption
    <2>2. ~(n < m) /\ ~(m < n)
      <3>1. n \in Nat /\ m \in Nat
        BY <1>1
      <3>2. /\ n < m => (n + 1) * DayLength <= m * DayLength
            /\ m < n => (m + 1) * DayLength <= n * DayLength
        BY <1>0, <3>1, WindowParts
      <3> QED BY <1>0, <2>1, <3>1, <3>2
    <2> QED BY <1>1, <2>2
  <1> HIDE DEF day
  <1> QED BY <1>3, <1>5, <1>7, <1>8

LEMMA ShardsInvInit == ShardsInit => ShardsInv
  <1> SUFFICES ASSUME ShardsInit PROVE ShardsInv
    OBVIOUS
  <1>1. source \subseteq Posting
    BY DEF ShardsInit
  <1>2. CASE job = "planned" /\ shards = Planned
    <2>1. \A s \in shards : s.status = "planned"
      BY <1>2 DEF Planned, NewShard
    <2>2. ShardsTypeOK
      BY <1>1, <1>2, PlannedParts DEF ShardsTypeOK
    <2>3. UniqueInv /\ CoverInv /\ EmptyInv
      BY <1>1, <1>2, <2>1, PlannedParts DEF UniqueInv, CoverInv, EmptyInv, Live
    <2> QED BY <2>2, <2>3 DEF ShardsInv
  <1>3. CASE job = "blocked" /\ shards = Blocked(Planned)
    <2> DEFINE blocked(s) == [s EXCEPT !.status = "blocked_source_capability"]
    <2>1. shards = {blocked(s) : s \in Planned}
      BY <1>3 DEF Blocked
    <2>2. \A s \in Planned : blocked(s) \in Shard /\ blocked(s).status = "blocked_source_capability"
      BY PlannedParts DEF Shard, Status
    <2>3. \A p \in Posting, s \in Planned : Matches(p, blocked(s)) <=> Matches(p, s)
      BY PlannedParts DEF Shard, Matches
    <2> HIDE DEF blocked
    <2>4. ShardsTypeOK
      BY <1>1, <1>3, <2>1, <2>2 DEF ShardsTypeOK
    <2>5. UniqueInv /\ CoverInv /\ EmptyInv
      BY <1>1, <2>1, <2>2, <2>3, PlannedParts DEF UniqueInv, CoverInv, EmptyInv, Live
    <2> QED BY <2>4, <2>5 DEF ShardsInv
  <1> QED BY <1>2, <1>3 DEF ShardsInit

\* One shard is judged: it stays where it is, with another status.
LEMMA ShardJudged ==
    ASSUME ShardsInv, NEW s \in shards, Live(s), NEW status \in Status \ {"split"},
           shards' = Becomes(s, status), UNCHANGED <<source, job>>,
           status = "accepted_empty" => Found(s) = 0
    PROVE  ShardsInv'
  <1> DEFINE judged == [s EXCEPT !.status = status]
  <1>1. /\ judged \in Shard /\ judged.status = status /\ judged.from = s.from
        /\ judged.to = s.to /\ judged.fixed = s.fixed
    BY DEF ShardsInv, ShardsTypeOK, Shard
  <1>2. shards' = (shards \ {s}) \cup {judged}
    BY DEF Becomes
  <1> HIDE DEF judged
  <1>3. \A p : Matches(p, judged) <=> Matches(p, s)
    BY <1>1 DEF Matches
  <1>4. ShardsTypeOK'
    BY <1>1, <1>2 DEF ShardsInv, ShardsTypeOK
  <1>5. UniqueInv' /\ CoverInv'
    BY <1>1, <1>2, <1>3 DEF ShardsInv, UniqueInv, CoverInv, Live
  <1>6. EmptyInv'
    BY <1>1, <1>2, <1>3, FoundNothing DEF ShardsInv, EmptyInv
  <1> QED BY <1>4, <1>5, <1>6 DEF ShardsInv

LEMMA ShardSplit ==
    ASSUME ShardsInv, NEW s \in shards, Live(s), Children(s) # {},
           shards' = Becomes(s, "split") \cup Children(s), UNCHANGED <<source, job>>
    PROVE  ShardsInv'
  <1> DEFINE split == [s EXCEPT !.status = "split"]
  <1>0. s \in Shard /\ source \subseteq Posting
    BY DEF ShardsInv, ShardsTypeOK
  <1>1. split \in Shard /\ split.status = "split"
    BY <1>0 DEF Shard, Status
  <1>2. shards' = ((shards \ {s}) \cup {split}) \cup Children(s)
    BY DEF Becomes
  <1> HIDE DEF split
  <1>3. \A c \in Children(s) : /\ Live(c) /\ c.status = "planned"
                              /\ \A p \in source : Matches(p, c) => Matches(p, s)
    <2>1. \A c \in Children(s) : c.status = "planned"
      <3> DEFINE p == [at |-> 0]
      <3>1. p.at \in Int
        OBVIOUS
      <3> QED BY <1>0, <3>1, ChildrenExclude
    <2> QED BY <1>0, <2>1, ChildrenExclude, BackfillShardsAssumption DEF Live
  <1>4. \A p \in source : \A c, d \in Children(s) : Matches(p, c) /\ Matches(p, d) => c = d
    BY <1>0, ChildrenExclude, BackfillShardsAssumption
  <1>5. ShardsTypeOK'
    <2>1. Children(s) \subseteq Shard
      <3> DEFINE p == [at |-> 0]
      <3>1. p.at \in Int
        OBVIOUS
      <3> QED BY <1>0, <3>1, ChildrenExclude
    <2> QED BY <1>0, <1>1, <1>2, <2>1 DEF ShardsInv, ShardsTypeOK
  <1>6. UniqueInv'
    <2> SUFFICES ASSUME NEW p \in source, NEW t \in shards', NEW u \in shards',
                        Live(t), Matches(p, t), Live(u), Matches(p, u)
                 PROVE  t = u
      BY DEF UniqueInv, Live, Matches
    <2>1. /\ t \in shards \ {s} \/ t \in Children(s)
          /\ u \in shards \ {s} \/ u \in Children(s)
      BY <1>1, <1>2 DEF Live
    <2> QED BY <1>3, <1>4, <2>1 DEF ShardsInv, UniqueInv
  <1>7. CoverInv'
    <2> SUFFICES ASSUME NEW p \in source, ~IsOutOfReach(p)
                 PROVE  \E t \in shards' : Live(t) /\ Matches(p, t)
      BY DEF CoverInv, Live, Matches, IsOutOfReach
    <2>1. PICK t \in shards : Live(t) /\ Matches(p, t)
      BY DEF ShardsInv, CoverInv
    <2>2. CASE t # s
      BY <1>2, <2>1, <2>2
    <2>3. CASE t = s
      BY <1>0, <1>2, <1>3, <2>1, <2>3, ChildrenPart
    <2> QED BY <2>2, <2>3
  <1>8. EmptyInv'
    BY <1>1, <1>2, <1>3 DEF ShardsInv, EmptyInv
  <1> QED BY <1>5, <1>6, <1>7, <1>8 DEF ShardsInv

LEMMA ShardsInvNext == ShardsInv /\ [ShardsNext]_shardVars => ShardsInv'
  <1> SUFFICES ASSUME ShardsInv, [ShardsNext]_shardVars PROVE ShardsInv'
    OBVIOUS
  <1>1. CASE UNCHANGED shardVars
    BY <1>1 DEF shardVars, ShardsInv, ShardsTypeOK, UniqueInv, CoverInv, EmptyInv
  <1>2. ASSUME NEW s \in shards, Observe(s) PROVE ShardsInv'
    <2>1. Live(s) /\ UNCHANGED <<source, job>>
      BY <1>2 DEF Observe, Live, Blocking
    <2>2. CASE Children(s) # {} /\ shards' = Becomes(s, "split") \cup Children(s)
      BY <2>1, <2>2, ShardSplit
    <2>3. CASE \E status \in {"blocked_source", "blocked_over_cap", "blocked_empty", "accepted"} :
                  shards' = Becomes(s, status)
      BY <2>1, <2>3, ShardJudged DEF Status
    <2>4. CASE Found(s) = 0 /\ shards' = Becomes(s, "accepted_empty")
      BY <2>1, <2>4, ShardJudged DEF Status
    <2> QED BY <1>2, <2>2, <2>3, <2>4 DEF Observe
  <1> QED BY <1>1, <1>2 DEF ShardsNext

\* No posting is collected twice, and what the gate accepts is all of the window, except
\* for shards still planned and postings that a split by dimension cannot reach
\* (split_shard, evaluate_shard_completeness).
THEOREM AcceptedStaysWhole == ShardsSpec => []AcceptedIsWhole
  <1>1. ShardsInv => AcceptedIsWhole
    <2> SUFFICES ASSUME ShardsInv, NEW p \in source
                 PROVE  /\ Cardinality(Collecting(p)) <= 1
                        /\ GateAccepts =>
                             \/ IsCollected(p) \/ IsOutOfReach(p)
                             \/ \E s \in shards : s.status = "planned" /\ Matches(p, s)
      BY DEF AcceptedIsWhole
    <2>1. Cardinality(Collecting(p)) <= 1
      <3>1. CASE Collecting(p) = {}
        BY <3>1, FS_EmptySet
      <3>2. ASSUME NEW s \in Collecting(p) PROVE Cardinality(Collecting(p)) <= 1
        <4>1. Collecting(p) = {s}
          BY <3>2 DEF Collecting, ShardsInv, UniqueInv, Live
        <4> QED BY <4>1, FS_Singleton
      <3> QED BY <3>1, <3>2
    <2>2. ASSUME GateAccepts, ~IsOutOfReach(p), ~IsCollected(p)
          PROVE  \E s \in shards : s.status = "planned" /\ Matches(p, s)
      <3>1. PICK s \in shards : Live(s) /\ Matches(p, s)
        BY <2>2 DEF ShardsInv, CoverInv
      <3>2. s.status \in Status /\ s.status # "split" /\ s.status \notin Blocking
        BY <2>2, <3>1 DEF ShardsInv, ShardsTypeOK, Shard, Live, GateAccepts, IsComplete, Blocks
      <3>3. s.status # "accepted_empty" /\ s.status # "accepted"
        BY <2>2, <3>1 DEF ShardsInv, EmptyInv, IsCollected, Collecting
      <3> QED BY <3>1, <3>2, <3>3 DEF Status, Blocking
    <2> QED BY <2>1, <2>2
  <1> QED BY <1>1, ShardsInvInit, ShardsInvNext, PTL DEF ShardsSpec

-----------------------------------------------------------------------------
(* The processed files in object storage                                   *)

Remains(a, left) == \E i \in 1..Len(left) : left[i] = a
Ordered(left)    == \A i, j \in 1..Len(left) : i < j => left[i] < left[j]

LEMMA FirstIsTaken ==
    ASSUME NEW left \in Seq(Artifact), Ordered(left), left # <<>>
    PROVE  /\ Head(left) \in Artifact /\ Tail(left) \in Seq(Artifact) /\ Ordered(Tail(left))
           /\ \A a : Remains(a, left) <=> a = Head(left) \/ Remains(a, Tail(left))
           /\ ~Remains(Head(left), Tail(left))
           /\ Len(left) = 1 <=> Tail(left) = <<>>
           /\ Len(left) \in Nat \ {0}
  <1>1. Len(left) \in Nat \ {0} /\ Head(left) = left[1] /\ Head(left) \in Artifact
    OBVIOUS
  <1>2. /\ Tail(left) \in Seq(Artifact) /\ Len(Tail(left)) = Len(left) - 1
        /\ \A i \in 1..Len(left) - 1 : Tail(left)[i] = left[i + 1]
    OBVIOUS
  <1>3. Artifact \subseteq Int
    BY BackfillShardsAssumption, ProcessedMirrorAssumption DEF Artifact, RunFiles, File
  <1>4. \A i \in 1..Len(left) : left[i] \in Int
    <2>1. \A i \in 1..Len(left) : left[i] \in Artifact
      OBVIOUS
    <2> QED BY <1>3, <2>1
  <1>5. Ordered(Tail(left)) /\ ~Remains(Head(left), Tail(left))
    BY <1>1, <1>2, <1>4 DEF Ordered, Remains
  <1>6. ASSUME NEW a PROVE Remains(a, left) <=> a = Head(left) \/ Remains(a, Tail(left))
    <2>1. ASSUME NEW i \in 1..Len(left), left[i] = a, i # 1 PROVE Remains(a, Tail(left))
      <3>1. i - 1 \in 1..Len(left) - 1 /\ Tail(left)[i - 1] = a
        BY <1>1, <1>2, <2>1
      <3> QED BY <1>2, <3>1 DEF Remains
    <2>2. ASSUME NEW i \in 1..Len(Tail(left)), Tail(left)[i] = a PROVE Remains(a, left)
      <3>1. i + 1 \in 1..Len(left) /\ left[i + 1] = a
        BY <1>1, <1>2, <2>2
      <3> QED BY <3>1 DEF Remains
    <2> QED BY <1>1, <2>1, <2>2 DEF Remains
  <1>7. Len(left) = 1 <=> Tail(left) = <<>>
    <2>1. \A rest \in Seq(Artifact) : Len(rest) = 0 <=> rest = <<>>
      OBVIOUS
    <2>2. Len(Tail(left)) = 0 <=> Tail(left) = <<>>
      BY <1>2, <2>1
    <2> QED BY <1>1, <1>2, <2>2
  <1> QED BY <1>1, <1>2, <1>5, <1>6, <1>7

\* The artifacts of a pointer in order: those of the run, and those of latest unless it
\* was gone.
LEMMA ArtifactsOfPointer ==
    ASSUME NEW pt
    PROVE  /\ Artifacts(pt) \in Seq(Artifact) /\ Ordered(Artifacts(pt)) /\ Artifacts(pt) # <<>>
           /\ Remains(RunFiles, Artifacts(pt))
           /\ pt.latest # NoRun => \A f \in File : Remains(f, Artifacts(pt))
  <1>0. Files \in Nat \ {0}
    BY ProcessedMirrorAssumption
  <1>1. <<RunFiles>> \in Seq(Artifact) /\ Len(<<RunFiles>>) = 1 /\ <<RunFiles>>[1] = 0
    BY DEF Artifact, RunFiles
  <1>2. CASE pt.latest = NoRun
    <2>1. Artifacts(pt) = <<RunFiles>>
      BY <1>2 DEF Artifacts
    <2> QED BY <1>1, <1>2, <2>1 DEF Ordered, Remains, RunFiles
  <1>3. CASE pt.latest # NoRun
    <2> DEFINE all == [f \in File |-> f]
               both == <<RunFiles>> \o all
    <2>1. all \in Seq(Artifact) /\ Len(all) = Files /\ \A f \in File : all[f] = f
      BY <1>0 DEF File, Artifact
    <2> HIDE DEF all
    <2>2. /\ both \in Seq(Artifact) /\ Len(both) = Files + 1
          /\ both[1] = 0 /\ \A i \in 2..Files + 1 : both[i] = all[i - 1]
      BY <1>0, <1>1, <2>1
    <2>3. \A i \in 1..Files + 1 : both[i] = i - 1
      <3> SUFFICES ASSUME NEW i \in 1..Files + 1 PROVE both[i] = i - 1
        OBVIOUS
      <3>1. CASE i = 1
        BY <2>2, <3>1
      <3>2. CASE i # 1
        BY <1>0, <2>1, <2>2, <3>2 DEF File
      <3> QED BY <3>1, <3>2
    <2>4. Artifacts(pt) = both
      BY <1>3 DEF Artifacts, all
    <2> HIDE DEF both
    <2>5. Ordered(both)
      BY <1>0, <2>2, <2>3 DEF Ordered
    <2>6. \A f \in File : Remains(f, both)
      <3> SUFFICES ASSUME NEW f \in File PROVE Remains(f, both)
        OBVIOUS
      <3>1. f + 1 \in 1..Files + 1 /\ both[f + 1] = f
        BY <1>0, <2>3 DEF File
      <3> QED BY <2>2, <3>1 DEF Remains
    <2>7. Remains(RunFiles, both)
      BY <1>0, <2>2 DEF Remains, RunFiles
    <2>8. both # <<>>
      BY <1>0, <2>2
    <2> QED BY <2>2, <2>4, <2>5, <2>6, <2>7, <2>8
  <1> QED BY <1>2, <1>3

\* What a sync has copied is in the bucket.
SyncKept(sync) ==
    /\ Ordered(sync.left)
    /\ sync.at \in {"upload", "verify"} => sync.left # <<>>
    /\ sync.at = "upload" /\ ~Remains(RunFiles, sync.left) => sync.run \in bucket.runs
    /\ sync.at = "point" => sync.run \in bucket.runs
    /\ sync.at = "check" => bucket.pointer # NoRun

SyncsInv   == \A s \in Syncer : syncs[s] # Idle => SyncKept(syncs[s])
PointedInv == bucket.pointer # NoRun => bucket.pointer.run \in bucket.runs

\* A file of latest/ that is not the pointer's was copied by a sync that will write the
\* pointer, or will be found by one that verifies it.
Mends(sync, f) ==
    \/ sync.at = "upload" /\ ~Remains(f, sync.left)
    \/ sync.at \in {"point", "check"}
    \/ sync.at = "verify" /\ sync.latest = bucket.pointer.latest /\ Remains(f, sync.left)

MendedInv ==
    (~syncFailed /\ bucket.pointer # NoRun /\ bucket.pointer.latest # NoRun) =>
        \A f \in File : \/ bucket.latest[f] = bucket.pointer.latest
                        \/ \E s \in Syncer : Mends(syncs[s], f)

\* A restore is exact so far, and nothing of what is left is in its way.
RestoreInv ==
    /\ restore # Idle => Ordered(restore.left)
    /\ restore.at = "fetch" => restore.left # <<>>
    /\ restore.at = "done" => restore.left = <<>>
    /\ restore # Idle /\ restore.fresh =>
          /\ disk.pointer = restore.pointer
          /\ Remains(RunFiles, restore.left) \/ restore.pointer.run \in disk.runs
          /\ restore.pointer.latest # NoRun => \A f \in File :
                Remains(f, restore.left) \/ disk.latest[f] = restore.pointer.latest
          /\ restore.overwrite \/ \A a \in Artifact : Remains(a, restore.left) => ~Exists(a)

MirrorInv == MirrorTypeOK /\ SyncsInv /\ PointedInv /\ MendedInv /\ RestoreInv

\* A step of a sync: what it does to itself is new.
SyncStep(s, new) ==
    /\ syncs' = [syncs EXCEPT ![s] = new]
    /\ UNCHANGED <<link, pipelineRuns, disk, restore>>

\* The files of latest/ that the pointer does not name are mended as before.
StillMends(s, new) ==
    bucket.pointer.latest # NoRun =>
        \A f \in File : \/ bucket'.latest[f] = bucket.pointer.latest
                        \/ Mends(new, f)'
                        \/ bucket'.latest[f] = bucket.latest[f] /\ ~Mends(syncs[s], f)

KeepsMending(s, new) ==
    \/ syncFailed'
    \/ \A f \in File : Mends(new, f)'
    \/ bucket'.pointer = bucket.pointer /\ StillMends(s, new)

Renewed(sync, goal, latest, left) == [sync EXCEPT !.at = goal, !.latest = latest, !.left = left]

LEMMA SyncFields ==
    ASSUME NEW sync \in Sync, NEW goal \in {"list", "upload", "point", "check", "verify"},
           NEW latest \in RunOr, NEW left \in Seq(Artifact)
    PROVE  /\ Renewed(sync, goal, latest, left) \in Sync
           /\ Renewed(sync, goal, latest, left).at = goal
           /\ Renewed(sync, goal, latest, left).latest = latest
           /\ Renewed(sync, goal, latest, left).left = left
           /\ Renewed(sync, goal, latest, left).run = sync.run
           /\ Renewed(sync, goal, latest, left) # Idle
  BY DEF Sync, Renewed, Idle

LEMMA SyncAtWork ==
    ASSUME MirrorInv, NEW s \in Syncer, syncs[s] # Idle
    PROVE  syncs[s] \in Sync /\ SyncKept(syncs[s])
  BY DEF MirrorInv, MirrorTypeOK, SyncsInv

LEMMA MirrorSyncs ==
    ASSUME MirrorInv, NEW s \in Syncer, NEW new \in Sync \cup {Idle}, SyncStep(s, new),
           bucket' \in Store, bucket.runs \subseteq bucket'.runs,
           bucket.pointer # NoRun => bucket'.pointer # NoRun,
           syncFailed' \in BOOLEAN, syncFailed => syncFailed', PointedInv',
           new # Idle => SyncKept(new)',
           KeepsMending(s, new)
    PROVE  MirrorInv'
  <1>1. syncs \in [Syncer -> Sync \cup {Idle}]
    BY DEF MirrorInv, MirrorTypeOK
  <1>2. syncs'[s] = new /\ \A t \in Syncer : t # s => syncs'[t] = syncs[t]
    BY <1>1 DEF SyncStep
  <1>3. MirrorTypeOK'
    BY <1>1 DEF MirrorInv, MirrorTypeOK, SyncStep
  <1>4. SyncsInv'
    <2> SUFFICES ASSUME NEW t \in Syncer, t # s, syncs[t] # Idle PROVE SyncKept(syncs[t])'
      BY <1>2 DEF SyncsInv, SyncKept
    <2>1. SyncKept(syncs[t]) /\ syncs'[t] = syncs[t]
      BY <1>2 DEF MirrorInv, SyncsInv
    <2> QED BY <2>1 DEF SyncKept
  <1>5. MendedInv'
    <2> SUFFICES ASSUME ~syncFailed', bucket'.pointer # NoRun, bucket'.pointer.latest # NoRun,
                        NEW f \in File
                 PROVE  \/ bucket'.latest[f] = bucket'.pointer.latest
                        \/ \E t \in Syncer : Mends(syncs[t], f)'
      BY DEF MendedInv, Mends, Remains
    <2>1. Mends(new, f)' => Mends(syncs[s], f)'
      BY <1>2 DEF Mends
    <2>2. CASE Mends(new, f)'
      BY <2>1, <2>2
    <2>3. CASE bucket'.pointer = bucket.pointer /\ StillMends(s, new) /\ ~Mends(new, f)'
      <3>1. CASE bucket'.latest[f] = bucket.pointer.latest
        BY <2>3, <3>1
      <3>2. CASE bucket'.latest[f] = bucket.latest[f] /\ ~Mends(syncs[s], f)
        <4>1. ~syncFailed /\ bucket.pointer # NoRun /\ bucket.pointer.latest # NoRun
          BY <2>3
        <4>2. CASE bucket.latest[f] = bucket.pointer.latest
          BY <2>3, <3>2, <4>2
        <4>3. ASSUME NEW t \in Syncer, Mends(syncs[t], f) PROVE Mends(syncs[t], f)'
          <5>1. t # s /\ syncs'[t] = syncs[t]
            BY <1>2, <3>2, <4>3
          <5> QED BY <2>3, <4>3, <5>1 DEF Mends, Remains
        <4> QED BY <4>1, <4>2, <4>3 DEF MirrorInv, MendedInv
      <3> QED BY <2>3, <3>1, <3>2 DEF StillMends
    <2> QED BY <2>2, <2>3 DEF KeepsMending
  <1>6. RestoreInv'
    BY DEF MirrorInv, RestoreInv, SyncStep, Exists, Remains, Ordered
  <1> QED BY <1>3, <1>4, <1>5, <1>6 DEF MirrorInv

\* A sync that reads, or stops.
LEMMA MirrorReads ==
    ASSUME MirrorInv, NEW s \in Syncer,
           ReadMeta(s) \/ List(s) \/ CheckPointer(s) \/ VerifyNext(s) \/ SyncFails(s)
    PROVE  MirrorInv'
  <1>0. /\ syncs[s] \in Sync \cup {Idle} /\ bucket \in Store /\ link \in RunOr
        /\ syncs[s] # Idle => SyncKept(syncs[s])
    BY DEF MirrorInv, MirrorTypeOK, SyncsInv
  <1>1. UNCHANGED <<bucket, link>>
    BY DEF ReadMeta, List, CheckPointer, VerifyNext, SyncFails
  <1>2. ASSUME NEW new \in Sync \cup {Idle}, SyncStep(s, new), syncFailed' \in BOOLEAN,
               syncFailed => syncFailed', new # Idle => SyncKept(new),
               \/ syncFailed'
               \/ bucket.pointer.latest # NoRun =>
                     \A f \in File : \/ bucket.latest[f] = bucket.pointer.latest
                                     \/ Mends(new, f) \/ ~Mends(syncs[s], f)
        PROVE  MirrorInv'
    <2>1. PointedInv' /\ (SyncKept(new)' <=> SyncKept(new))
      BY <1>1 DEF MirrorInv, PointedInv, SyncKept
    <2>2. \A f : Mends(new, f)' <=> Mends(new, f)
      BY <1>1 DEF Mends
    <2>3. KeepsMending(s, new)
      BY <1>1, <1>2, <2>2 DEF KeepsMending, StillMends
    <2>4. bucket' = bucket /\ bucket'.pointer = bucket.pointer /\ bucket.runs \subseteq bucket'.runs
      BY <1>1
    <2>5. new # Idle => SyncKept(new)'
      BY <1>2, <2>1
    <2> QED BY <1>0, <1>2, <2>1, <2>3, <2>4, <2>5, MirrorSyncs
  <1>3. CASE ReadMeta(s)
    <2> DEFINE new == [at |-> "list", run |-> link, latest |-> NoRun, left |-> <<>>]
    <2>1. new \in Sync /\ new.at = "list" /\ new.left = <<>>
      BY <1>0, <1>3 DEF ReadMeta, Sync, RunOr
    <2>2. SyncStep(s, new) /\ syncs[s] = Idle /\ syncFailed' = syncFailed
      BY <1>3 DEF ReadMeta, SyncStep, Moves
    <2> HIDE DEF new
    <2>3. SyncKept(new)
      BY <2>1 DEF SyncKept, Ordered
    <2>4. \A f : ~Mends(syncs[s], f)
      BY <2>2 DEF Mends, Idle
    <2> QED BY <1>2, <2>1, <2>2, <2>3, <2>4 DEF MirrorInv, MirrorTypeOK
  <1>4. CASE List(s)
    <2> DEFINE left == Artifacts([run |-> syncs[s].run, latest |-> link])
               new == Renewed(syncs[s], "upload", link, left)
    <2>1. left \in Seq(Artifact) /\ Ordered(left) /\ left # <<>> /\ Remains(RunFiles, left)
      BY ArtifactsOfPointer
    <2> HIDE DEF left
    <2>2. syncs[s].at = "list" /\ SyncStep(s, new) /\ syncFailed' = syncFailed
      BY <1>4 DEF List, SyncStep, Moves, left, Renewed
    <2>3. syncs[s] \in Sync
      BY <2>2, SyncAtWork DEF Idle
    <2>4. new \in Sync /\ new.at = "upload" /\ new.left = left
      BY <1>0, <2>1, <2>3, SyncFields
    <2> HIDE DEF new
    <2>5. SyncKept(new)
      BY <2>1, <2>4 DEF SyncKept
    <2>6. \A f : ~Mends(syncs[s], f)
      BY <2>2 DEF Mends
    <2> QED BY <1>2, <2>2, <2>4, <2>5, <2>6 DEF MirrorInv, MirrorTypeOK
  <1>5. CASE CheckPointer(s)
    <2> DEFINE left == Artifacts(bucket.pointer)
               latest == bucket.pointer.latest
               new == Renewed(syncs[s], "verify", latest, left)
    <2>1. left \in Seq(Artifact) /\ Ordered(left) /\ left # <<>>
          /\ (latest # NoRun => \A f \in File : Remains(f, left))
      BY ArtifactsOfPointer
    <2> HIDE DEF left
    <2>2. syncs[s].at = "check" /\ SyncStep(s, new) /\ syncFailed' = syncFailed
      BY <1>5 DEF CheckPointer, SyncStep, Moves, left, Renewed
    <2>3. syncs[s] \in Sync /\ SyncKept(syncs[s])
      BY <2>2, SyncAtWork DEF Idle
    <2>4. latest \in RunOr
      BY <1>0, <2>2, <2>3 DEF SyncKept, Store, Pointer
    <2>5. new \in Sync /\ new.at = "verify" /\ new.left = left /\ new.latest = latest
      BY <2>1, <2>3, <2>4, SyncFields
    <2> HIDE DEF new
    <2>6. SyncKept(new)
      BY <2>1, <2>5 DEF SyncKept
    <2>7. latest # NoRun => \A f \in File : Mends(new, f)
      BY <2>1, <2>5 DEF Mends
    <2> QED BY <1>2, <2>2, <2>5, <2>6, <2>7 DEF MirrorInv, MirrorTypeOK
  <1>6. CASE VerifyNext(s)
    <2> DEFINE left == syncs[s].left
               a == Head(left)
               more == [syncs[s] EXCEPT !.left = Tail(left)]
               new == IF Len(left) > 1 THEN more ELSE Idle
    <2>1. /\ syncs[s].at = "verify" /\ Holds(bucket, syncs[s], a) /\ SyncStep(s, new)
          /\ syncFailed' = syncFailed
      BY <1>6 DEF VerifyNext, SyncStep, Moves
    <2>2. syncs[s] \in Sync /\ SyncKept(syncs[s])
      BY <2>1, SyncAtWork DEF Idle
    <2>3. left \in Seq(Artifact) /\ Ordered(left) /\ left # <<>>
      BY <2>1, <2>2 DEF Sync, SyncKept
    <2> HIDE DEF left
    <2>4. /\ Tail(left) \in Seq(Artifact) /\ Ordered(Tail(left)) /\ Len(left) \in Nat \ {0}
          /\ \A b : Remains(b, left) => b = a \/ Remains(b, Tail(left))
          /\ Len(left) = 1 <=> Tail(left) = <<>>
      BY <2>3, FirstIsTaken
    <2>5. /\ more \in Sync /\ more.at = "verify" /\ more.left = Tail(left)
          /\ more.latest = syncs[s].latest /\ more # Idle
      BY <2>1, <2>2, <2>4 DEF Sync, Idle
    <2> HIDE DEF more
    <2>6. new \in Sync \cup {Idle} /\ (new # Idle => new = more /\ Tail(left) # <<>>)
          /\ (new = Idle => Tail(left) = <<>>)
      BY <2>4, <2>5
    <2>7. new # Idle => SyncKept(new)
      BY <2>4, <2>5, <2>6 DEF SyncKept
    <2>8. ASSUME NEW f \in File, bucket.latest[f] # bucket.pointer.latest, Mends(syncs[s], f)
          PROVE  Mends(new, f)
      <3>1. syncs[s].latest = bucket.pointer.latest /\ Remains(f, left)
        BY <2>1, <2>8 DEF Mends, left
      <3>2. f # RunFiles
        BY DEF File, RunFiles
      <3>3. a # f
        BY <2>1, <2>8, <3>1, <3>2 DEF Holds
      <3>4. Remains(f, Tail(left))
        BY <2>4, <3>1, <3>3
      <3>5. Tail(left) # <<>>
        <4>1. ~Remains(f, <<>>)
          BY DEF Remains
        <4> QED BY <3>4, <4>1
      <3> QED BY <2>5, <2>6, <3>1, <3>4, <3>5 DEF Mends
    <2> HIDE DEF new
    <2> QED BY <1>2, <2>1, <2>6, <2>7, <2>8 DEF MirrorInv, MirrorTypeOK
  <1>7. CASE SyncFails(s)
    <2>1. Idle \in Sync \cup {Idle} /\ SyncStep(s, Idle) /\ syncFailed' = TRUE
      BY <1>7 DEF SyncFails, SyncStep, Moves
    <2> QED BY <1>2, <2>1
  <1> QED BY <1>3, <1>4, <1>5, <1>6, <1>7

\* A file of latest/ that a sync replaces is mended by it.
LEMMA MirrorUploads == ASSUME MirrorInv, NEW s \in Syncer, UploadNext(s) PROVE MirrorInv'
  <1> DEFINE own == syncs[s].run
             latest == syncs[s].latest
             left == syncs[s].left
             a == Head(left)
             goal == IF Len(left) = 1 THEN "point" ELSE "upload"
             done == Renewed(syncs[s], goal, latest, Tail(left))
  <1>1. /\ syncs[s].at = "upload" /\ SyncStep(s, done) /\ syncFailed' = syncFailed
        /\ bucket' = Put(own, latest, a)
    <2>1. UploadNext(s) => syncs[s].at = "upload"
      BY DEF UploadNext
    <2>2. [syncs[s] EXCEPT !.left = Tail(@), !.at = IF Len(syncs[s].left) = 1 THEN "point" ELSE @] = done
      BY <2>1, SyncAtWork DEF Renewed, Sync, Idle
    <2> QED BY <2>1, <2>2 DEF UploadNext, SyncStep, Moves
  <1>2. /\ syncs[s] \in Sync /\ SyncKept(syncs[s]) /\ bucket \in Store /\ MirrorTypeOK
        /\ own \in Run /\ latest \in RunOr
    BY <1>1, SyncAtWork DEF Idle, MirrorInv, MirrorTypeOK, Sync
  <1>3. left \in Seq(Artifact) /\ Ordered(left) /\ left # <<>>
    BY <1>1, <1>2 DEF Sync, SyncKept
  <1>4. /\ a \in Artifact /\ Tail(left) \in Seq(Artifact) /\ Ordered(Tail(left))
        /\ \A b : Remains(b, left) <=> b = a \/ Remains(b, Tail(left))
        /\ ~Remains(a, Tail(left))
        /\ Len(left) = 1 <=> Tail(left) = <<>>
    BY <1>3, FirstIsTaken
  <1>5. \A b : ~Remains(b, <<>>)
    BY DEF Remains
  <1> HIDE DEF left, a
  <1>6. /\ goal \in {"upload", "point"} /\ (goal = "point" <=> Tail(left) = <<>>)
        /\ goal \in {"list", "upload", "point", "check", "verify"}
    BY <1>4
  <1> HIDE DEF goal, latest, own
  <1>7. /\ done \in Sync /\ done.at = goal /\ done.left = Tail(left) /\ done.run = syncs[s].run
        /\ done # Idle
    <2>1. ASSUME NEW sync \in Sync, NEW to \in RunOr, NEW rest \in Seq(Artifact)
          PROVE  /\ Renewed(sync, goal, to, rest) \in Sync
                 /\ Renewed(sync, goal, to, rest).at = goal
                 /\ Renewed(sync, goal, to, rest).left = rest
                 /\ Renewed(sync, goal, to, rest).run = sync.run
                 /\ Renewed(sync, goal, to, rest) # Idle
      BY <1>6, SyncFields
    <2>2. syncs[s] \in Sync /\ latest \in RunOr /\ Tail(left) \in Seq(Artifact)
      BY <1>2, <1>4
    <2> QED BY <2>1, <2>2
  <1> HIDE DEF done
  <1>13. PICK new \in Sync : new = done
    BY <1>7
  <1>14. PICK rest : rest = Tail(left)
    OBVIOUS
  <1>15. new.at = goal /\ new.left = rest /\ new.run = own /\ new # Idle /\ SyncStep(s, new)
    BY <1>1, <1>7, <1>13, <1>14 DEF own
  <1>8. /\ bucket' \in Store /\ bucket'.pointer = bucket.pointer
        /\ bucket'.runs = IF a = RunFiles THEN bucket.runs \cup {own} ELSE bucket.runs
        /\ \A f \in File : bucket'.latest[f] = IF f = a THEN latest ELSE bucket.latest[f]
    <2>1. CASE a = RunFiles
      <3>1. bucket' = [bucket EXCEPT !.runs = @ \cup {own}]
        BY <1>1, <2>1 DEF Put
      <3>2. a \notin File
        BY <2>1 DEF File, RunFiles
      <3> QED BY <1>2, <2>1, <3>1, <3>2 DEF Store
    <2>2. CASE a # RunFiles
      <3>1. bucket' = [bucket EXCEPT !.latest[a] = latest] /\ a \in File
        BY <1>1, <1>4, <2>2 DEF Put, Artifact
      <3> QED BY <1>2, <2>2, <3>1 DEF Store
    <2> QED BY <2>1, <2>2
  <1>9. SyncKept(new)'
    <2>1. ~Remains(RunFiles, Tail(left)) => own \in bucket'.runs
      BY <1>1, <1>2, <1>4, <1>8 DEF SyncKept, left, own
    <2>2. Ordered(rest) /\ (new.at = "upload" => rest # <<>>) /\ new.at \in {"upload", "point"}
          /\ (~Remains(RunFiles, rest) => new.run \in bucket'.runs)
          /\ (new.at = "point" => new.run \in bucket'.runs)
      BY <1>4, <1>5, <1>6, <1>14, <1>15, <2>1
    <2> QED BY <1>15, <2>2 DEF SyncKept
  <1>10. StillMends(s, new)
    <2> SUFFICES ASSUME NEW f \in File, bucket'.latest[f] # bucket.latest[f] \/ Mends(syncs[s], f)
                 PROVE  Mends(new, f)'
      BY DEF StillMends
    <2>1. ~Remains(f, Tail(left))
      BY <1>1, <1>4, <1>8 DEF Mends, left
    <2>2. new.at \in {"upload", "point"} /\ ~Remains(f, new.left)
      BY <1>6, <1>14, <1>15, <2>1
    <2> QED BY <2>2 DEF Mends
  <1>11. PointedInv'
    BY <1>8 DEF MirrorInv, PointedInv
  <1>12. KeepsMending(s, new)
    BY <1>8, <1>10 DEF KeepsMending
  <1> QED BY <1>1, <1>2, <1>8, <1>9, <1>11, <1>12, <1>13, <1>15, MirrorSyncs DEF MirrorTypeOK

\* The pointer names what the sync has copied.
LEMMA MirrorPoints == ASSUME MirrorInv, NEW s \in Syncer, WritePointer(s) PROVE MirrorInv'
  <1> DEFINE pt == [run |-> syncs[s].run, latest |-> syncs[s].latest]
             done == Renewed(syncs[s], "check", syncs[s].latest, syncs[s].left)
  <1>1. /\ syncs[s].at = "point" /\ syncs[s] \in Sync /\ SyncKept(syncs[s])
        /\ bucket \in Store /\ MirrorTypeOK
    BY SyncAtWork DEF WritePointer, Idle, MirrorInv, MirrorTypeOK
  <1>2. /\ SyncStep(s, done) /\ syncFailed' = syncFailed
        /\ bucket' = [bucket EXCEPT !.pointer = pt]
    BY <1>1 DEF WritePointer, SyncStep, Moves, Renewed, Sync
  <1>9. done \in Sync /\ done.at = "check" /\ done.left = syncs[s].left /\ done # Idle
    BY <1>1, SyncFields DEF Sync
  <1> HIDE DEF done
  <1>3. PICK new \in Sync : new = done /\ new.at = "check" /\ new.left = syncs[s].left /\ new # Idle
    BY <1>9
  <1>4. pt \in Pointer /\ pt # NoRun /\ pt.run = syncs[s].run
    BY <1>1, ProcessedMirrorAssumption DEF Sync, Pointer, Run, RunOr
  <1> HIDE DEF pt
  <1>5. bucket' \in Store /\ bucket'.pointer = pt /\ bucket'.runs = bucket.runs
    BY <1>1, <1>2, <1>4 DEF Store
  <1>6. SyncKept(new)'
    <2>1. Ordered(new.left) /\ bucket'.pointer # NoRun
      BY <1>1, <1>3, <1>4, <1>5 DEF SyncKept
    <2> QED BY <1>3, <2>1 DEF SyncKept
  <1>7. PointedInv'
    BY <1>1, <1>4, <1>5 DEF PointedInv, SyncKept
  <1>8. KeepsMending(s, new)
    BY <1>3 DEF KeepsMending, Mends
  <1>10. SyncStep(s, new)
    BY <1>2, <1>3
  <1> QED BY <1>1, <1>2, <1>3, <1>4, <1>5, <1>6, <1>7, <1>8, <1>10, MirrorSyncs DEF MirrorTypeOK

\* The syncs and the bucket, when they are left as they are.
LEMMA MirrorRests ==
    ASSUME MirrorInv, UNCHANGED <<bucket, syncs, syncFailed>>, MirrorTypeOK', RestoreInv'
    PROVE  MirrorInv'
  <1>1. SyncsInv' /\ PointedInv'
    BY DEF MirrorInv, SyncsInv, SyncKept, PointedInv
  <1>2. MendedInv'
    BY DEF MirrorInv, MendedInv, Mends
  <1> QED BY <1>1, <1>2 DEF MirrorInv

LEMMA MirrorRestores ==
    ASSUME MirrorInv, NEW overwrite \in BOOLEAN, NEW purge \in BOOLEAN,
           BeginRestore(overwrite, purge)
    PROVE  MirrorInv'
  <1> DEFINE before == IF purge THEN NoFiles ELSE disk
             pt == bucket.pointer
             left == Artifacts(pt)
             fresh == overwrite \/ before = NoFiles
  <1>0. /\ disk \in Store /\ bucket \in Store /\ pt # NoRun /\ MirrorTypeOK
        /\ UNCHANGED <<link, pipelineRuns, bucket, syncs, syncFailed>>
    BY DEF MirrorInv, MirrorTypeOK, BeginRestore
  <1>1. NoFiles \in Store /\ NoFiles.runs = {} /\ NoFiles.pointer = NoRun
        /\ \A f \in File : NoFiles.latest[f] = NoRun
    BY DEF NoFiles, Store, RunOr
  <1>2. before \in Store /\ pt \in Pointer
    BY <1>0, <1>1 DEF Store
  <1>3. /\ disk' = IF before.pointer # NoRun /\ ~overwrite THEN before
                   ELSE [before EXCEPT !.pointer = pt]
        /\ restore' = [at |-> "fetch", pointer |-> pt, overwrite |-> overwrite,
                       left |-> left, fresh |-> fresh]
    BY DEF BeginRestore
  <1>4. /\ left \in Seq(Artifact) /\ Ordered(left) /\ left # <<>> /\ Remains(RunFiles, left)
        /\ pt.latest # NoRun => \A f \in File : Remains(f, left)
    BY ArtifactsOfPointer
  <1> HIDE DEF before, left
  <1>5. /\ disk' \in Store
        /\ disk'.runs = before.runs /\ disk'.latest = before.latest
        /\ fresh => disk'.pointer = pt
    BY <1>1, <1>2, <1>3 DEF Store
  <1>6. fresh \in BOOLEAN
    OBVIOUS
  <1> HIDE DEF fresh
  <1>7. /\ restore' \in Restore /\ restore'.at = "fetch" /\ restore'.pointer = pt
        /\ restore'.overwrite = overwrite /\ restore'.left = left /\ restore'.fresh = fresh
    BY <1>2, <1>3, <1>4, <1>6 DEF Restore
  <1>8. MirrorTypeOK'
    BY <1>0, <1>5, <1>7 DEF MirrorTypeOK
  <1>9. fresh /\ ~overwrite => \A a \in Artifact : ~Exists(a)'
    <2> SUFFICES ASSUME fresh, ~overwrite, NEW a \in Artifact PROVE ~Exists(a)'
      OBVIOUS
    <2>1. before = NoFiles
      BY DEF fresh
    <2> QED BY <1>1, <1>5, <2>1 DEF Exists, Artifact, RunFiles
  <1>10. RestoreInv'
    BY <1>4, <1>5, <1>7, <1>9 DEF RestoreInv
  <1> QED BY <1>0, <1>8, <1>10, MirrorRests

\* A file that is fetched is as the pointer says.
LEMMA MirrorFetches == ASSUME MirrorInv, Fetch PROVE MirrorInv'
  <1> DEFINE left == restore.left
             a == Head(left)
             pt == restore.pointer
             goal == IF Len(left) = 1 THEN "done" ELSE "fetch"
  <1>0. /\ disk \in Store /\ bucket \in Store /\ MirrorTypeOK /\ RestoreInv
        /\ restore.at = "fetch"
        /\ UNCHANGED <<link, pipelineRuns, bucket, syncs, syncFailed>>
    BY DEF MirrorInv, MirrorTypeOK, Fetch
  <1>1. restore \in Restore /\ restore # Idle /\ pt \in Pointer
    BY <1>0 DEF MirrorTypeOK, Idle, Restore
  <1>2. left \in Seq(Artifact) /\ Ordered(left) /\ left # <<>>
    BY <1>0, <1>1 DEF Restore, RestoreInv
  <1>3. \/ Exists(a) /\ ~restore.overwrite /\ disk' = disk
        \/ Holds(bucket, pt, a) /\ disk' = Fetched(a)
    BY DEF Fetch, Skips
  <1> HIDE DEF left, a
  <1>4. /\ a \in Artifact /\ Tail(left) \in Seq(Artifact) /\ Ordered(Tail(left))
        /\ \A b : Remains(b, left) <=> b = a \/ Remains(b, Tail(left))
        /\ ~Remains(a, Tail(left))
        /\ Len(left) = 1 <=> Tail(left) = <<>>
    BY <1>2, FirstIsTaken DEF a
  <1>5. /\ restore'.left = Tail(left) /\ restore'.at = goal /\ restore'.pointer = pt
        /\ restore'.overwrite = restore.overwrite /\ restore'.fresh = restore.fresh
        /\ restore' \in Restore
    <2>1. restore' = [restore EXCEPT !.left = Tail(left), !.at = goal]
      BY <1>0, <1>1 DEF Fetch, Restore, left
    <2>2. goal \in {"fetch", "done"}
      OBVIOUS
    <2> HIDE DEF goal
    <2> QED BY <1>1, <1>4, <2>1, <2>2 DEF Restore
  <1>6. /\ disk' \in Store /\ disk'.pointer = disk.pointer
        /\ a = RunFiles => disk'.latest = disk.latest
        /\ \A f \in File : f # a => disk'.latest[f] = disk.latest[f]
        /\ a # RunFiles => disk'.runs = disk.runs
        /\ disk.runs \subseteq disk'.runs
        /\ (Exists(a) /\ ~restore.overwrite) \/ (a # RunFiles => disk'.latest[a] = pt.latest)
        /\ (Exists(a) /\ ~restore.overwrite) \/ (a = RunFiles => pt.run \in disk'.runs)
    <2>1. CASE disk' = disk /\ Exists(a) /\ ~restore.overwrite
      BY <1>0, <2>1
    <2>2. CASE Holds(bucket, pt, a) /\ disk' = Fetched(a) /\ a = RunFiles
      <3>1. disk' = [disk EXCEPT !.runs = @ \cup {pt.run}]
        BY <2>2 DEF Fetched
      <3> QED BY <1>0, <1>1, <2>2, <3>1 DEF Store, Pointer
    <2>3. CASE Holds(bucket, pt, a) /\ disk' = Fetched(a) /\ a # RunFiles
      <3>1. disk' = [disk EXCEPT !.latest[a] = bucket.latest[a]] /\ a \in File
        BY <1>4, <2>3 DEF Fetched, Artifact
      <3>2. bucket.latest[a] = pt.latest /\ bucket.latest[a] \in RunOr
        BY <1>0, <2>3, <3>1 DEF Holds, Store
      <3> QED BY <1>0, <2>3, <3>1, <3>2 DEF Store
    <2> QED BY <1>3, <2>1, <2>2, <2>3
  <1>7. MirrorTypeOK'
    BY <1>0, <1>5, <1>6 DEF MirrorTypeOK
  <1>8. restore' # Idle /\ (goal = "done" => Tail(left) = <<>>) /\ (goal = "fetch" => Tail(left) # <<>>)
    BY <1>4, <1>5 DEF Idle
  <1>9. ASSUME restore.fresh
        PROVE  /\ disk'.pointer = pt
               /\ Remains(RunFiles, Tail(left)) \/ pt.run \in disk'.runs
               /\ pt.latest # NoRun => \A f \in File :
                      Remains(f, Tail(left)) \/ disk'.latest[f] = pt.latest
               /\ restore.overwrite \/ \A b \in Artifact : Remains(b, Tail(left)) => ~Exists(b)'
    <2>1. /\ disk.pointer = pt
          /\ Remains(RunFiles, left) \/ pt.run \in disk.runs
          /\ pt.latest # NoRun => \A f \in File : Remains(f, left) \/ disk.latest[f] = pt.latest
          /\ restore.overwrite \/ \A b \in Artifact : Remains(b, left) => ~Exists(b)
      BY <1>0, <1>1, <1>9 DEF RestoreInv, left
    <2>2. ~(Exists(a) /\ ~restore.overwrite)
      BY <1>4, <2>1
    <2>3. Remains(RunFiles, Tail(left)) \/ pt.run \in disk'.runs
      BY <1>4, <1>6, <2>1, <2>2
    <2>4. ASSUME pt.latest # NoRun, NEW f \in File
          PROVE  Remains(f, Tail(left)) \/ disk'.latest[f] = pt.latest
      <3>1. f # RunFiles
        BY DEF File, RunFiles
      <3> QED BY <1>4, <1>6, <2>1, <2>2, <2>4, <3>1
    <2>5. ASSUME ~restore.overwrite, NEW b \in Artifact, Remains(b, Tail(left)) PROVE ~Exists(b)'
      <3>1. b # a /\ ~Exists(b)
        BY <1>4, <2>1, <2>5
      <3>2. CASE b = RunFiles
        <4>1. disk'.runs = disk.runs
          BY <1>6, <3>1, <3>2
        <4> QED BY <1>5, <3>1, <3>2, <4>1 DEF Exists
      <3>3. CASE b # RunFiles
        <4>1. b \in File
          BY <3>3, <2>5 DEF Artifact
        <4> QED BY <1>6, <3>1, <3>3, <4>1 DEF Exists
      <3> QED BY <3>2, <3>3
    <2> QED BY <1>6, <2>1, <2>3, <2>4, <2>5
  <1>10. RestoreInv'
    <2>1. \A b : Remains(b, restore.left)' <=> Remains(b, Tail(left))
      BY <1>5 DEF Remains
    <2>2. Ordered(restore.left)'
      BY <1>4, <1>5 DEF Ordered
    <2> HIDE DEF goal
    <2> QED BY <1>5, <1>8, <1>9, <2>1, <2>2 DEF RestoreInv
  <1> QED BY <1>0, <1>7, <1>10, MirrorRests

LEMMA MirrorInvNext == MirrorInv /\ [MirrorNext]_mirrorVars => MirrorInv'
  <1> SUFFICES ASSUME MirrorInv, [MirrorNext]_mirrorVars PROVE MirrorInv'
    OBVIOUS
  <1>1. CASE UNCHANGED mirrorVars
    BY <1>1, MirrorRests DEF mirrorVars, MirrorInv, MirrorTypeOK, RestoreInv, Exists
  <1>2. CASE Unlink \/ Relink
    <2>1. UNCHANGED <<bucket, syncs, disk, restore, syncFailed>>
      BY <1>2 DEF Unlink, Relink
    <2>2. link' \in RunOr /\ pipelineRuns' \in 0..MaxRun
      <3>1. pipelineRuns \in 0..MaxRun /\ MaxRun \in Nat
        BY ProcessedMirrorAssumption DEF MirrorInv, MirrorTypeOK
      <3> QED BY <1>2, <3>1 DEF Unlink, Relink, RunOr, Run, MirrorInv, MirrorTypeOK
    <2>3. MirrorTypeOK'
      BY <2>1, <2>2 DEF MirrorInv, MirrorTypeOK
    <2>4. RestoreInv'
      BY <2>1 DEF MirrorInv, RestoreInv, Exists
    <2> QED BY <2>1, <2>3, <2>4, MirrorRests
  <1>3. CASE RestoreFails
    <2>1. restore' = Idle /\ UNCHANGED <<link, pipelineRuns, bucket, syncs, disk, syncFailed>>
      BY <1>3 DEF RestoreFails
    <2>2. MirrorTypeOK'
      BY <2>1 DEF MirrorInv, MirrorTypeOK
    <2>3. RestoreInv'
      BY <2>1 DEF RestoreInv, Idle
    <2> QED BY <2>1, <2>2, <2>3, MirrorRests
  <1> QED BY <1>1, <1>2, <1>3, MirrorReads, MirrorUploads, MirrorPoints, MirrorRestores,
        MirrorFetches DEF MirrorNext

LEMMA MirrorInvInit == MirrorInit => MirrorInv
  <1> SUFFICES ASSUME MirrorInit PROVE MirrorInv
    OBVIOUS
  <1>1. NoFiles \in Store /\ NoFiles.pointer = NoRun
    BY DEF NoFiles, Store, RunOr
  <1>2. 0 \in 0..MaxRun
    BY ProcessedMirrorAssumption
  <1>3. syncs \in [Syncer -> Sync \cup {Idle}] /\ \A s \in Syncer : syncs[s] = Idle
    BY DEF MirrorInit
  <1>4. MirrorTypeOK
    BY <1>1, <1>2, <1>3 DEF MirrorInit, MirrorTypeOK, RunOr
  <1> QED BY <1>1, <1>3, <1>4 DEF MirrorInit, MirrorInv, SyncsInv, PointedInv, MendedInv,
        RestoreInv, Idle

\* The pointer can be restored while no sync has failed or is under way, and what was
\* restored into an empty directory or over what was there is the files of one pointer
\* (s3_sync_processed.py, s3_restore.py).
THEOREM MirrorStaysWhole == MirrorSpec => []MirrorIsWhole
  <1>1. MirrorInv => MirrorIsWhole
    <2> SUFFICES ASSUME MirrorInv PROVE MirrorIsWhole
      OBVIOUS
    <2>1. PointerIsRestorable
      <3> SUFFICES ASSUME ~syncFailed, bucket.pointer # NoRun, \A s \in Syncer : syncs[s] = Idle
                   PROVE  IsExactly(bucket, bucket.pointer)
        BY DEF PointerIsRestorable
      <3>1. \A s \in Syncer, f \in File : ~Mends(syncs[s], f)
        BY DEF Mends, Idle
      <3> QED BY <3>1 DEF MirrorInv, PointedInv, MendedInv, IsExactly
    <2>2. RestoredIsWhole
      <3> SUFFICES ASSUME restore.at = "done", restore.fresh
                   PROVE  disk.pointer = restore.pointer /\ IsExactly(disk, disk.pointer)
        BY DEF RestoredIsWhole
      <3>1. restore # Idle /\ restore.left = <<>>
        BY DEF Idle, MirrorInv, RestoreInv
      <3>2. \A a : ~Remains(a, restore.left)
        BY <3>1 DEF Remains
      <3> QED BY <3>1, <3>2 DEF MirrorInv, RestoreInv, IsExactly
    <2> QED BY <2>1, <2>2 DEF MirrorIsWhole
  <1> QED BY <1>1, MirrorInvInit, MirrorInvNext, PTL DEF MirrorSpec

-----------------------------------------------------------------------------
(* The days of a historical backfill                                       *)

DaysTypes ==
    /\ completed \subseteq Day /\ announced \subseteq completed
    /\ progress \in [Day -> [shard : 1..(Shards + 1), page : 0..MaxPages]]
    /\ partial \in [Day -> Seq(Vacancy)]
    /\ snapshot \in [Day -> Seq(Vacancy) \cup {NoSnapshot}]
    /\ stored \in [Day -> Seq(Vacancy) \cup {NoSnapshot}]
    /\ skipped \in [Day -> SUBSET Vacancy]
    /\ run \in RunState

Distinct(taken) == \A i, j \in 1..Len(taken) : taken[i] = taken[j] => i = j

\* The rows of a day so far
Kept(d) == IF snapshot[d] = NoSnapshot THEN partial[d] ELSE snapshot[d]

\* Nothing of these vacancies is missing, unless the day has enough.
Full(d, taken, vacancies) == Len(taken) >= Limit \/ vacancies \subseteq Rows(taken) \cup skipped[d]

Passed(d, s, p) == s < progress[d].shard \/ (s = progress[d].shard /\ p < progress[d].page)

\* The pages that are counted are among the rows, each once.
DayInv(d) ==
    /\ Distinct(Kept(d)) /\ Distinct(partial[d])
    /\ \A s \in 1..Shards : \A p \in PagesOf(d, s) :
          Passed(d, s, p) => Full(d, Kept(d), Listing[d][s][p])
    /\ snapshot[d] # NoSnapshot => Len(snapshot[d]) >= Limit \/ progress[d].shard > Shards
    /\ stored[d] # NoSnapshot => stored[d] = snapshot[d] /\ Passes(d)

\* What the process knows of the day it works on.
NextInv(d) ==
    /\ run.at \in {"search", "page"} => snapshot[d] = NoSnapshot
    /\ run.at \in {"judge", "upload", "mark"} => snapshot[d] # NoSnapshot
    /\ run.at \in {"upload", "mark"} => Passes(d)
    /\ run.at = "mark" => stored[d] # NoSnapshot
    /\ quarantined => snapshot[d] # NoSnapshot /\ ~Passes(d)
    /\ run.at = "page" =>
          /\ progress[d].shard <= Shards /\ progress[d].page < MaxPages
          /\ Full(d, partial[d], Listing[d][progress[d].shard][progress[d].page] \ run.links)

CompletedInv ==
    /\ \A c \in completed : \A e \in Day : e < c => e \in completed
    /\ run.at = "announce" =>
          \E c \in completed \ announced : \A e \in completed : e <= c

DaysInv ==
    /\ DaysTypes /\ CompletedInv
    /\ \A d \in Day : DayInv(d)
    /\ \A d \in Day : Next(d) => NextInv(d)

LEMMA NextDay ==
    ASSUME DaysInv
    PROVE  /\ Day \subseteq Nat
           /\ \A d, e \in Day : Next(d) /\ Next(e) => d = e
           /\ \A d \in Day : Next(d) => Ledger!IsNext(d) /\ \A c \in completed : c < d
  <1>1. Day \subseteq Nat /\ completed \subseteq Day
    BY BackfillDaysAssumption DEF DaysInv, DaysTypes
  <1>2. \A d, e \in Day : Next(d) /\ Next(e) => d = e
    BY <1>1 DEF Next, Pending
  <1>3. \A d \in Day : Next(d) => Ledger!IsNext(d)
    BY <1>1 DEF Next, Pending, Ledger!IsNext
  <1>4. ASSUME NEW d \in Day, Next(d), NEW c \in completed PROVE c < d
    <2>1. c \in Nat /\ d \in Nat /\ c # d /\ ~(d < c)
      BY <1>1, <1>4 DEF Next, Pending, DaysInv, CompletedInv
    <2> QED BY <2>1
  <1> QED BY <1>1, <1>2, <1>3, <1>4

\* The process goes on, and no file of a day changes.
LEMMA DaysGoOn ==
    ASSUME DaysInv, UNCHANGED <<progress, partial, snapshot, stored, skipped>>,
           run' \in RunState, UNCHANGED <<completed, announced>>,
           run'.at # "announce", run'.at # "page",
           \A d \in Day : Next(d) => NextInv(d)'
    PROVE  DaysInv'
  <1>1. DaysTypes' /\ CompletedInv'
    BY DEF DaysInv, DaysTypes, CompletedInv
  <1>2. \A d \in Day : DayInv(d)'
    BY DEF DaysInv, DayInv, Kept, Full, Passed, Passes
  <1>3. \A d \in Day : Next(d)' => Next(d)
    BY DEF Next, Pending
  <1> QED BY <1>1, <1>2, <1>3 DEF DaysInv

LEMMA DaysMove ==
    ASSUME DaysInv,
           \/ Start \/ Finish \/ Publish \/ Crash
           \/ \E d \in Day : Take(d) \/ Judge(d) \/ Quarantine(d) \/ Fail(d)
    PROVE  DaysInv'
  <1>0. run \in RunState
    BY DEF DaysInv, DaysTypes
  <1>1. ASSUME NEW goal \in {"stopped", "idle", "judge", "upload", "search"}, run'.at = goal,
               run' \in RunState, UNCHANGED <<fileVars, stored, skipped>>,
               \A d \in Day : Next(d) =>
                   /\ goal = "search" => snapshot[d] = NoSnapshot
                   /\ goal \in {"judge", "upload"} => snapshot[d] # NoSnapshot
                   /\ goal = "upload" => Passes(d)
        PROVE  DaysInv'
    <2>1. UNCHANGED <<completed, attempts, announced, quarantined, progress, partial, snapshot>>
      BY <1>1 DEF fileVars
    <2>2. ASSUME NEW d \in Day, Next(d) PROVE NextInv(d)'
      BY <1>1, <2>1, <2>2 DEF DaysInv, NextInv, Passes
    <2> QED BY <1>1, <2>1, <2>2, DaysGoOn
  <1>2. CASE Start \/ Finish \/ Publish \/ Crash
    <2>1. \E goal \in {"stopped", "idle"} :
              run' \in RunState /\ run'.at = goal /\ UNCHANGED <<fileVars, stored, skipped>>
      BY <1>0, <1>2 DEF Start, Finish, Publish, Crash, Go, Stopped, RunState
    <2> QED BY <1>1, <2>1
  <1>3. ASSUME NEW d \in Day, Take(d) PROVE DaysInv'
    <2>1. \A e \in Day : Next(e) => e = d
      BY <1>3, NextDay DEF Take
    <2>2. CASE snapshot[d] # NoSnapshot
      <3>1. run' \in RunState /\ run'.at = "judge" /\ UNCHANGED <<fileVars, stored, skipped>>
        BY <1>0, <1>3, <2>2 DEF Take, Go, RunState
      <3> QED BY <1>1, <2>1, <2>2, <3>1
    <2>3. CASE snapshot[d] = NoSnapshot
      <3>1. run' \in RunState /\ run'.at = "search" /\ UNCHANGED <<fileVars, stored, skipped>>
        BY <1>0, <1>3, <2>3 DEF Take, Go, RunState
      <3> QED BY <1>1, <2>1, <2>3, <3>1
    <2> QED BY <2>2, <2>3
  <1>4. ASSUME NEW d \in Day, Judge(d) PROVE DaysInv'
    <2>1. \A e \in Day : Next(e) => e = d
      BY <1>4, NextDay DEF Judge
    <2>2. Passes(d) /\ snapshot[d] # NoSnapshot
      BY <1>4 DEF Judge, DaysInv, NextInv
    <2>3. run' \in RunState /\ run'.at = "upload" /\ UNCHANGED <<fileVars, stored, skipped>>
      BY <1>0, <1>4 DEF Judge, Go, RunState
    <2> QED BY <1>1, <2>1, <2>2, <2>3
  <1>5. ASSUME NEW d \in Day, Quarantine(d) PROVE DaysInv'
    <2>1. \A e \in Day : Next(e) => e = d
      BY <1>5, NextDay DEF Quarantine
    <2>2. ~Passes(d) /\ snapshot[d] # NoSnapshot
      BY <1>5 DEF Quarantine, DaysInv, NextInv
    <2>3. /\ run' \in RunState /\ run'.at \in {"stopped", "idle"} /\ quarantined' = TRUE
          /\ UNCHANGED <<completed, announced, progress, partial, snapshot, stored, skipped>>
      BY <1>0, <1>5 DEF Quarantine, Go, RunState
    <2>4. ASSUME NEW e \in Day, Next(e) PROVE NextInv(e)'
      BY <2>1, <2>2, <2>3, <2>4 DEF NextInv, Passes
    <2> QED BY <2>3, <2>4, DaysGoOn
  <1>6. ASSUME NEW d \in Day, Fail(d) PROVE DaysInv'
    <2>1. /\ run' \in RunState /\ run'.at \in {"stopped", "idle"}
          /\ UNCHANGED <<completed, announced, quarantined, progress, partial, snapshot, stored, skipped>>
      BY <1>0, <1>6 DEF Fail, Stopped, RunState
    <2>2. ASSUME NEW e \in Day, Next(e) PROVE NextInv(e)'
      BY <2>1, <2>2 DEF NextInv, Passes, DaysInv
    <2> QED BY <2>1, <2>2, DaysGoOn
  <1> QED BY <1>2, <1>3, <1>4, <1>5, <1>6

\* One day's files change; the others stay as they are.
OnlyDay(d) ==
    /\ \A e \in Day \ {d} : /\ progress'[e] = progress[e] /\ partial'[e] = partial[e]
                            /\ snapshot'[e] = snapshot[e] /\ stored'[e] = stored[e]
                            /\ skipped'[e] = skipped[e]
    /\ UNCHANGED <<completed, announced, quarantined>>

LEMMA DayChanges ==
    ASSUME DaysInv, NEW d \in Day, Next(d), OnlyDay(d), DaysTypes', run'.at # "announce",
           DayInv(d)', NextInv(d)'
    PROVE  DaysInv'
  <1>1. ASSUME NEW e \in Day PROVE DayInv(e)'
    <2>1. CASE e = d
      BY <2>1
    <2>2. CASE e # d
      BY <2>2 DEF OnlyDay, DaysInv, DayInv, Kept, Full, Passed, Passes
    <2> QED BY <2>1, <2>2
  <1>2. \A e \in Day : Next(e)' => e = d
    <2>1. \A e \in Day : Next(e)' => Next(e)
      BY DEF Next, Pending, OnlyDay
    <2> QED BY <2>1, NextDay
  <1>3. CompletedInv'
    BY DEF DaysInv, CompletedInv, OnlyDay
  <1> QED BY <1>1, <1>2, <1>3 DEF DaysInv

LEMMA DaySearches == ASSUME DaysInv, NEW d \in Day, Search(d) PROVE DaysInv'
  <1> DEFINE p == progress[d]
             s == p.shard
  <1>0. /\ run.at = "search" /\ Next(d) /\ ~IsOver(d) /\ snapshot[d] = NoSnapshot
        /\ UNCHANGED <<completed, announced, quarantined, partial, snapshot, stored, skipped>>
        /\ DaysTypes /\ DayInv(d) /\ NextInv(d) /\ ~quarantined
    BY DEF Search, DaysInv, NextInv
  <1>1. /\ p \in [shard : 1..(Shards + 1), page : 0..MaxPages] /\ Shards \in Nat /\ MaxPages \in Nat
        /\ s \in 1..Shards /\ p.page \in 0..MaxPages /\ partial[d] \in Seq(Vacancy) /\ Limit \in Nat
    <2>1. /\ p \in [shard : 1..(Shards + 1), page : 0..MaxPages] /\ Shards \in Nat /\ MaxPages \in Nat
          /\ Limit \in Nat /\ partial[d] \in Seq(Vacancy)
      BY <1>0, BackfillDaysAssumption DEF DaysTypes
    <2> QED BY <1>0, <2>1 DEF IsOver
  <1>2. ASSUME p.page >= MaxPages \/ Listing[d][s][p.page] = {},
               progress' = [progress EXCEPT ![d] = Advanced(p)], run' = run
        PROVE  DaysInv'
    <2>1. /\ progress'[d].shard = s + 1 /\ progress'[d].page = 0
          /\ progress' \in [Day -> [shard : 1..(Shards + 1), page : 0..MaxPages]]
          /\ \A e \in Day \ {d} : progress'[e] = progress[e]
      BY <1>0, <1>1, <1>2 DEF Advanced, DaysTypes
    <2>2. DaysTypes'
      BY <1>0, <1>2, <2>1 DEF DaysTypes
    <2>3. ASSUME NEW t \in 1..Shards, NEW q \in PagesOf(d, t), Passed(d, t, q)'
          PROVE  Full(d, Kept(d), Listing[d][t][q])
      <3>1. t <= s /\ q \in 0..MaxPages - 1
        BY <1>1, <2>1, <2>3 DEF Passed, PagesOf
      <3>2. CASE t < s
        BY <1>0, <2>3, <3>2 DEF DayInv, Passed
      <3>3. CASE t = s /\ q < p.page
        BY <1>0, <2>3, <3>3 DEF DayInv, Passed
      <3>4. CASE t = s /\ p.page <= q
        <4>1. p.page < MaxPages /\ Listing[d][s][p.page] = {}
          BY <1>1, <1>2, <3>1, <3>4
        <4>2. q = p.page
          <5>1. ~(p.page < q)
            <6> SUFFICES ASSUME p.page < q PROVE FALSE
              OBVIOUS
            <6>1. p.page \in 0..q - 1
              BY <1>1, <3>1
            <6> QED BY <2>3, <3>4, <4>1, <6>1 DEF PagesOf
          <5> QED BY <1>1, <3>1, <3>4, <5>1
        <4> QED BY <3>4, <4>1, <4>2 DEF Full
      <3> QED BY <1>1, <3>1, <3>2, <3>3, <3>4
    <2>4. DayInv(d)'
      <3>1. /\ Distinct(Kept(d))' /\ Distinct(partial[d])'
            /\ snapshot'[d] = NoSnapshot
            /\ stored'[d] # NoSnapshot => stored'[d] = snapshot'[d] /\ Passes(d)'
        BY <1>0 DEF DayInv, Kept, Distinct, Passes
      <3>2. ASSUME NEW t \in 1..Shards, NEW q \in PagesOf(d, t), Passed(d, t, q)'
            PROVE  Full(d, Kept(d), Listing[d][t][q])'
        BY <1>0, <2>3, <3>2 DEF Full, Kept
      <3> QED BY <3>1, <3>2 DEF DayInv
    <2>5. NextInv(d)'
      BY <1>0, <1>2 DEF NextInv
    <2>6. OnlyDay(d)
      BY <1>0, <2>1 DEF OnlyDay
    <2> QED BY <1>0, <1>2, <2>2, <2>4, <2>5, <2>6, DayChanges
  <1>3. ASSUME p.page < MaxPages, run' = [at |-> "page", links |-> Listing[d][s][p.page]],
               UNCHANGED progress
        PROVE  DaysInv'
    <2>1. Listing[d][s][p.page] \subseteq Vacancy
      <3>1. p.page \in 0..MaxPages - 1
        BY <1>1, <1>3
      <3>2. Listing[d] \in [1..Shards -> [0..MaxPages - 1 -> SUBSET Vacancy]]
        BY BackfillDaysAssumption
      <3>3. Listing[d][s] \in [0..MaxPages - 1 -> SUBSET Vacancy]
        BY <1>1, <3>2
      <3> QED BY <3>1, <3>3
    <2>2. run' \in RunState /\ run'.at = "page" /\ run'.links = Listing[d][s][p.page]
      BY <1>3, <2>1 DEF RunState
    <2>3. DaysTypes'
      BY <1>0, <1>3, <2>2 DEF DaysTypes
    <2>4. DayInv(d)'
      BY <1>0, <1>3 DEF DayInv, Kept, Full, Passed, Passes
    <2>5. NextInv(d)'
      BY <1>0, <1>1, <1>3, <2>2 DEF NextInv, Full
    <2>6. OnlyDay(d)
      BY <1>0, <1>3 DEF OnlyDay
    <2> QED BY <1>0, <2>2, <2>3, <2>4, <2>5, <2>6, DayChanges
  <1> QED BY <1>1, <1>2, <1>3 DEF Search

LEMMA RowsAppended ==
    ASSUME NEW taken \in Seq(Vacancy), NEW v \in Vacancy
    PROVE  /\ Append(taken, v) \in Seq(Vacancy)
           /\ Len(taken) \in Nat /\ Len(Append(taken, v)) = Len(taken) + 1
           /\ Rows(taken) \subseteq Rows(Append(taken, v)) /\ v \in Rows(Append(taken, v))
           /\ Distinct(taken) /\ v \notin Rows(taken) => Distinct(Append(taken, v))
  <1>1. /\ Append(taken, v) \in Seq(Vacancy) /\ Len(taken) \in Nat
        /\ Len(Append(taken, v)) = Len(taken) + 1 /\ Append(taken, v)[Len(taken) + 1] = v
        /\ \A i \in 1..Len(taken) : Append(taken, v)[i] = taken[i]
        /\ DOMAIN taken = 1..Len(taken) /\ DOMAIN Append(taken, v) = 1..(Len(taken) + 1)
    OBVIOUS
  <1>2. Rows(taken) \subseteq Rows(Append(taken, v)) /\ v \in Rows(Append(taken, v))
    BY <1>1 DEF Rows
  <1>3. ASSUME Distinct(taken), v \notin Rows(taken) PROVE Distinct(Append(taken, v))
    <2>1. \A i \in 1..Len(taken) : taken[i] # v
      BY <1>1, <1>3 DEF Rows
    <2> QED BY <1>1, <1>3, <2>1 DEF Distinct
  <1> QED BY <1>1, <1>2, <1>3

\* A page's vacancy becomes a row, or is passed over for good.
LEMMA DayLoads ==
    ASSUME DaysInv, NEW d \in Day, NEW v \in Vacancy, Load(d, v) PROVE DaysInv'
  <1> DEFINE listed == Listing[d][progress[d].shard][progress[d].page]
             taken == partial[d]
  <1>0. /\ run.at = "page" /\ Next(d) /\ v \in run.links /\ snapshot[d] = NoSnapshot
        /\ UNCHANGED <<completed, attempts, announced, quarantined, progress, snapshot, stored>>
        /\ DaysTypes /\ DayInv(d) /\ NextInv(d) /\ ~quarantined /\ run \in RunState
        /\ taken \in Seq(Vacancy) /\ skipped[d] \in SUBSET Vacancy /\ Limit \in Nat
        /\ Full(d, taken, listed \ run.links)
    BY BackfillDaysAssumption DEF Load, DaysInv, NextInv, DaysTypes
  <1>1. PICK new \in Seq(Vacancy), more \in SUBSET Vacancy, others \in SUBSET Vacancy :
            /\ partial' = [partial EXCEPT ![d] = new] /\ skipped' = [skipped EXCEPT ![d] = more]
            /\ run' = [run EXCEPT !.links = others]
            /\ Rows(taken) \subseteq Rows(new) /\ skipped[d] \subseteq more /\ Len(taken) <= Len(new)
            /\ Distinct(new) /\ (Len(new) >= Limit \/ v \in Rows(new) \cup more)
            /\ Len(new) >= Limit \/ others = run.links \ {v}
            /\ Len(new) \in Nat
    <2>1. Distinct(taken) /\ Len(taken) \in Nat /\ run.links \ {v} \in SUBSET Vacancy
          /\ {} \in SUBSET Vacancy
      BY <1>0 DEF DayInv, RunState
    <2>2. CASE /\ skipped' = [skipped EXCEPT ![d] = @ \cup {v}]
               /\ run' = [run EXCEPT !.links = @ \ {v}] /\ UNCHANGED partial
      <3>1. partial' = [partial EXCEPT ![d] = taken]
        BY <1>0, <2>2 DEF DaysTypes
      <3>2. skipped' = [skipped EXCEPT ![d] = skipped[d] \cup {v}]
            /\ run' = [run EXCEPT !.links = run.links \ {v}]
        BY <1>0, <2>2 DEF DaysTypes, RunState
      <3> DEFINE more == skipped[d] \cup {v}
                 others == run.links \ {v}
      <3>3. more \in SUBSET Vacancy /\ skipped[d] \subseteq more /\ v \in Rows(taken) \cup more
        BY <1>0
      <3>4. Rows(taken) \subseteq Rows(taken) /\ Len(taken) <= Len(taken)
        BY <2>1
      <3>5. skipped' = [skipped EXCEPT ![d] = more] /\ run' = [run EXCEPT !.links = others]
            /\ others = run.links \ {v} /\ others \in SUBSET Vacancy
        BY <2>1, <3>2
      <3> HIDE DEF more, others
      <3> QED BY <1>0, <2>1, <3>1, <3>3, <3>4, <3>5
    <2>3. CASE /\ partial' = [partial EXCEPT ![d] = IF v \in Rows(@) THEN @ ELSE Append(@, v)]
               /\ run' = [run EXCEPT !.links = IF Len(partial'[d]) >= Limit THEN {} ELSE @ \ {v}]
               /\ UNCHANGED skipped
      <3> DEFINE added == IF v \in Rows(taken) THEN taken ELSE Append(taken, v)
                 others == IF Len(added) >= Limit THEN {} ELSE run.links \ {v}
      <3>1. partial' = [partial EXCEPT ![d] = added] /\ skipped' = [skipped EXCEPT ![d] = skipped[d]]
            /\ partial'[d] = added
        BY <1>0, <2>3 DEF DaysTypes
      <3>2. /\ added \in Seq(Vacancy) /\ Rows(taken) \subseteq Rows(added) /\ Len(taken) <= Len(added)
            /\ Distinct(added) /\ v \in Rows(added) /\ Len(added) \in Nat
        BY <1>0, <2>1, RowsAppended
      <3> HIDE DEF added
      <3>3. run' = [run EXCEPT !.links = others]
        BY <1>0, <2>3, <3>1 DEF RunState
      <3>4. others \in SUBSET Vacancy /\ (Len(added) >= Limit \/ others = run.links \ {v})
        BY <2>1
      <3> HIDE DEF others
      <3> QED BY <1>0, <3>1, <3>2, <3>3, <3>4
    <2> QED BY <2>2, <2>3 DEF Load
  <1>2. /\ partial'[d] = new /\ skipped'[d] = more /\ run'.at = "page" /\ run'.links = others
        /\ run' \in RunState
        /\ \A e \in Day \ {d} : partial'[e] = partial[e] /\ skipped'[e] = skipped[e]
    BY <1>0, <1>1 DEF DaysTypes, RunState
  <1>3. DaysTypes'
    BY <1>0, <1>1, <1>2 DEF DaysTypes
  <1>4. OnlyDay(d)
    BY <1>0, <1>2 DEF OnlyDay
  <1>5. \A set : Full(d, taken, set) => Full(d, new, set)'
    BY <1>0, <1>1, <1>2 DEF Full
  <1>6. DayInv(d)'
    <2>1. Distinct(Kept(d))' /\ Distinct(partial[d])'
      BY <1>0, <1>1, <1>2 DEF Kept, Distinct
    <2>2. ASSUME NEW s \in 1..Shards, NEW p \in PagesOf(d, s), Passed(d, s, p)'
          PROVE  Full(d, Kept(d), Listing[d][s][p])'
      <3>1. Full(d, taken, Listing[d][s][p])
        BY <1>0, <2>2 DEF DayInv, Kept, Passed
      <3>2. Full(d, new, Listing[d][s][p])'
        BY <1>5, <3>1
      <3>3. Kept(d)' = new
        BY <1>0, <1>2 DEF Kept
      <3> QED BY <1>0, <1>2, <3>2, <3>3 DEF Full
    <2> QED BY <1>0, <2>1, <2>2 DEF DayInv, Passes
  <1>7. NextInv(d)'
    <2>1. Full(d, new, listed \ others)'
      <3>1. CASE Len(new) >= Limit
        BY <3>1 DEF Full
      <3>2. CASE Len(new) < Limit
        <4>1. others = run.links \ {v} /\ v \in Rows(new) \cup more
          BY <1>0, <1>1, <3>2
        <4>2. listed \ run.links \subseteq Rows(new) \cup more
          BY <1>0, <1>1, <3>2 DEF Full
        <4>3. listed' = listed
          BY <1>0
        <4> QED BY <1>2, <4>1, <4>2, <4>3 DEF Full
      <3> QED BY <1>0, <1>1, <3>1, <3>2
    <2> QED BY <1>0, <1>2, <2>1 DEF NextInv, Full
  <1> QED BY <1>0, <1>2, <1>3, <1>4, <1>6, <1>7, DayChanges

LEMMA DayFinishesPage == ASSUME DaysInv, NEW d \in Day, FinishPage(d) PROVE DaysInv'
  <1> DEFINE p == progress[d]
             s == p.shard
  <1>0. /\ run.at = "page" /\ Next(d) /\ run.links = {} /\ snapshot[d] = NoSnapshot
        /\ UNCHANGED <<completed, attempts, announced, quarantined, partial, snapshot, stored, skipped>>
        /\ DaysTypes /\ DayInv(d) /\ NextInv(d) /\ ~quarantined /\ run \in RunState
        /\ s <= Shards /\ p.page < MaxPages /\ Full(d, partial[d], Listing[d][s][p.page])
    BY DEF FinishPage, DaysInv, NextInv, DaysTypes
  <1>1. /\ p \in [shard : 1..(Shards + 1), page : 0..MaxPages] /\ Shards \in Nat /\ MaxPages \in Nat
        /\ s \in Nat /\ p.page \in Nat
    BY <1>0, BackfillDaysAssumption DEF DaysTypes
  <1>2. progress' = [progress EXCEPT ![d].page = @ + 1] /\ run' = [run EXCEPT !.at = "search"]
    BY DEF FinishPage, Go
  <1>3. /\ progress'[d].shard = s /\ progress'[d].page = p.page + 1
        /\ progress' \in [Day -> [shard : 1..(Shards + 1), page : 0..MaxPages]]
        /\ \A e \in Day \ {d} : progress'[e] = progress[e]
    <2> DEFINE next == [p EXCEPT !.page = @ + 1]
    <2>1. /\ next \in [shard : 1..(Shards + 1), page : 0..MaxPages]
          /\ next.shard = s /\ next.page = p.page + 1
      BY <1>0, <1>1
    <2>2. progress' = [progress EXCEPT ![d] = next]
      BY <1>0, <1>2 DEF DaysTypes
    <2> HIDE DEF next
    <2> QED BY <1>0, <2>1, <2>2 DEF DaysTypes
  <1>4. run' \in RunState /\ run'.at = "search"
    BY <1>0, <1>2 DEF RunState
  <1>5. DaysTypes'
    BY <1>0, <1>3, <1>4 DEF DaysTypes
  <1>6. OnlyDay(d)
    BY <1>0, <1>3 DEF OnlyDay
  <1>7. DayInv(d)'
    <2>1. Distinct(Kept(d))' /\ Distinct(partial[d])'
      BY <1>0 DEF DayInv, Kept, Distinct
    <2>2. ASSUME NEW t \in 1..Shards, NEW q \in PagesOf(d, t), Passed(d, t, q)'
          PROVE  Full(d, Kept(d), Listing[d][t][q])'
      <3>1. q \in 0..MaxPages - 1
        BY DEF PagesOf
      <3>2. Passed(d, t, q) \/ (t = s /\ q = p.page)
        BY <1>1, <1>3, <2>2, <3>1 DEF Passed
      <3>3. Full(d, partial[d], Listing[d][t][q])
        BY <1>0, <3>2 DEF DayInv, Kept
      <3> QED BY <1>0, <3>3 DEF Full, Kept
    <2> QED BY <1>0, <2>1, <2>2 DEF DayInv, Passes
  <1>8. NextInv(d)'
    BY <1>0, <1>4 DEF NextInv
  <1> QED BY <1>0, <1>4, <1>5, <1>6, <1>7, <1>8, DayChanges

LEMMA DayIsCollected == ASSUME DaysInv, NEW d \in Day, Collected(d) PROVE DaysInv'
  <1>0. /\ run.at = "search" /\ Next(d) /\ IsOver(d) /\ snapshot[d] = NoSnapshot
        /\ UNCHANGED <<completed, attempts, announced, quarantined, progress, stored, skipped>>
        /\ DaysTypes /\ DayInv(d) /\ NextInv(d) /\ ~quarantined /\ run \in RunState
        /\ partial[d] \in Seq(Vacancy) /\ stored[d] = NoSnapshot
        /\ snapshot' = [snapshot EXCEPT ![d] = partial[d]]
        /\ partial' = [partial EXCEPT ![d] = <<>>]
        /\ run' = [run EXCEPT !.at = "judge"]
    BY DEF Collected, DaysInv, NextInv, DaysTypes, DayInv, Go
  <1>1. /\ snapshot'[d] = partial[d] /\ snapshot'[d] # NoSnapshot /\ partial'[d] = <<>>
        /\ \A e \in Day \ {d} : snapshot'[e] = snapshot[e] /\ partial'[e] = partial[e]
        /\ run'.at = "judge" /\ run' \in RunState
    BY <1>0, BackfillDaysAssumption DEF DaysTypes, RunState
  <1>2. DaysTypes'
    BY <1>0, <1>1 DEF DaysTypes
  <1>3. OnlyDay(d)
    BY <1>0, <1>1 DEF OnlyDay
  <1>4. DayInv(d)'
    <2>1. Kept(d)' = partial[d] /\ Kept(d) = partial[d]
      BY <1>0, <1>1 DEF Kept
    <2>2. Distinct(Kept(d))' /\ Distinct(partial[d])'
      BY <1>0, <1>1, <2>1 DEF DayInv, Distinct
    <2>3. ASSUME NEW t \in 1..Shards, NEW q \in PagesOf(d, t), Passed(d, t, q)'
          PROVE  Full(d, Kept(d), Listing[d][t][q])'
      <3>1. Full(d, partial[d], Listing[d][t][q])
        BY <1>0, <2>1, <2>3 DEF DayInv, Passed
      <3> QED BY <1>0, <2>1, <3>1 DEF Full
    <2> QED BY <1>0, <1>1, <2>2, <2>3 DEF DayInv, IsOver
  <1>5. NextInv(d)'
    BY <1>0, <1>1 DEF NextInv
  <1> QED BY <1>0, <1>1, <1>2, <1>3, <1>4, <1>5, DayChanges

LEMMA DayUploads == ASSUME DaysInv, NEW d \in Day, Upload(d) PROVE DaysInv'
  <1>0. /\ run.at = "upload" /\ Next(d) /\ snapshot[d] # NoSnapshot /\ Passes(d)
        /\ UNCHANGED <<completed, attempts, announced, quarantined, progress, partial, snapshot, skipped>>
        /\ DaysTypes /\ DayInv(d) /\ NextInv(d) /\ ~quarantined /\ run \in RunState
        /\ stored' = [stored EXCEPT ![d] = snapshot[d]] /\ run' = [run EXCEPT !.at = "mark"]
    BY DEF Upload, DaysInv, NextInv, DaysTypes, Go, fileVars
  <1>1. /\ stored'[d] = snapshot[d] /\ \A e \in Day \ {d} : stored'[e] = stored[e]
        /\ run'.at = "mark" /\ run' \in RunState
    BY <1>0 DEF DaysTypes, RunState
  <1>2. DaysTypes'
    BY <1>0, <1>1 DEF DaysTypes
  <1>3. OnlyDay(d)
    BY <1>0, <1>1 DEF OnlyDay
  <1>4. DayInv(d)'
    BY <1>0, <1>1 DEF DayInv, Kept, Full, Passed, Passes
  <1>5. NextInv(d)'
    BY <1>0, <1>1 DEF NextInv, Passes
  <1> QED BY <1>0, <1>1, <1>2, <1>3, <1>4, <1>5, DayChanges

\* The day that is marked is the last one completed, and not yet announced.
LEMMA DayIsMarked == ASSUME DaysInv, NEW d \in Day, Mark(d) PROVE DaysInv'
  <1>0. /\ run.at = "mark" /\ Next(d) /\ completed' = completed \cup {d}
        /\ UNCHANGED <<attempts, announced, quarantined, progress, partial, snapshot, stored, skipped>>
        /\ DaysTypes /\ run \in RunState /\ run' = [run EXCEPT !.at = "announce"]
        /\ ~quarantined
    BY DEF Mark, DaysInv, NextInv, DaysTypes, Go
  <1>1. run'.at = "announce" /\ run' \in RunState
    BY <1>0 DEF RunState
  <1>2. /\ Day \subseteq Nat /\ Ledger!IsNext(d) /\ \A c \in completed : c < d
        /\ d \notin completed
    BY <1>0, NextDay DEF Next, Pending
  <1>3. DaysTypes'
    BY <1>0, <1>1 DEF DaysTypes
  <1>4. CompletedInv'
    <2>1. \A c \in completed' : \A e \in Day : e < c => e \in completed'
      BY <1>0, <1>2 DEF DaysInv, CompletedInv, Ledger!IsNext
    <2>2. d \in completed' \ announced' /\ \A e \in completed' : e <= d
      BY <1>0, <1>2 DEF DaysTypes
    <2> QED BY <2>1, <2>2 DEF CompletedInv
  <1>5. \A e \in Day : DayInv(e)'
    BY <1>0 DEF DaysInv, DayInv, Kept, Full, Passed, Passes
  <1>6. \A e \in Day : NextInv(e)'
    BY <1>0, <1>1 DEF NextInv
  <1> QED BY <1>3, <1>4, <1>5, <1>6 DEF DaysInv

LEMMA DayIsAnnounced ==
    ASSUME DaysInv, Announce PROVE DaysInv' /\ Last \in Day /\ Ledger!Announce(Last)
  <1>0. /\ run.at = "announce" /\ announced' = announced \cup {Last}
        /\ UNCHANGED <<completed, attempts, quarantined, progress, partial, snapshot, stored, skipped>>
        /\ DaysTypes /\ run \in RunState /\ run' = [run EXCEPT !.at = "publish"]
    BY DEF Announce, DaysInv, DaysTypes, Go
  <1>1. run'.at = "publish" /\ run' \in RunState
    BY <1>0 DEF RunState
  <1>2. Last \in completed \ announced /\ \A e \in completed : e <= Last
    <2>1. PICK c \in completed \ announced : \A e \in completed : e <= c
      BY <1>0 DEF DaysInv, CompletedInv
    <2>2. completed \subseteq Nat
      BY <1>0, BackfillDaysAssumption DEF DaysTypes
    <2>3. Last \in completed /\ \A e \in completed : e <= Last
      BY <2>1 DEF Last
    <2>4. Last = c
      BY <2>1, <2>2, <2>3
    <2> QED BY <2>1, <2>3, <2>4
  <1> HIDE DEF Last
  <1>3. DaysTypes' /\ CompletedInv'
    BY <1>0, <1>1, <1>2 DEF DaysInv, DaysTypes, CompletedInv
  <1>4. \A e \in Day : DayInv(e)'
    BY <1>0 DEF DaysInv, DayInv, Kept, Full, Passed, Passes
  <1>5. ASSUME NEW e \in Day, Next(e)' PROVE NextInv(e)'
    <2>1. Next(e)
      BY <1>0, <1>5 DEF Next, Pending
    <2> QED BY <1>0, <1>1, <2>1 DEF DaysInv, NextInv, Passes
  <1>6. Last \in Day /\ Ledger!Announce(Last)
    BY <1>0, <1>2 DEF DaysTypes, Ledger!Announce
  <1> QED BY <1>3, <1>4, <1>5, <1>6 DEF DaysInv

LEMMA DaysInvInit == DaysInit => DaysInv
  <1> SUFFICES ASSUME DaysInit PROVE DaysInv
    OBVIOUS
  <1>1. /\ Shards \in Nat \ {0} /\ MaxPages \in Nat \ {0} /\ Day \subseteq Nat
        /\ run.at = "stopped" /\ run \in RunState
    BY BackfillDaysAssumption DEF DaysInit, Stopped, RunState
  <1>2. \A d \in Day : /\ progress[d].shard = 1 /\ progress[d].page = 0
                      /\ partial[d] = <<>> /\ snapshot[d] = NoSnapshot /\ stored[d] = NoSnapshot
    BY DEF DaysInit
  <1>3. DaysTypes
    <2>1. [shard |-> 1, page |-> 0] \in [shard : 1..(Shards + 1), page : 0..MaxPages]
      BY <1>1
    <2>2. <<>> \in Seq(Vacancy)
      OBVIOUS
    <2> QED BY <1>1, <2>1, <2>2 DEF DaysInit, DaysTypes
  <1>4. ASSUME NEW d \in Day PROVE DayInv(d)
    <2>1. Distinct(Kept(d)) /\ Distinct(partial[d])
      BY <1>2 DEF Kept, Distinct
    <2>2. \A s \in 1..Shards : \A p \in PagesOf(d, s) : ~Passed(d, s, p)
      BY <1>1, <1>2 DEF Passed, PagesOf
    <2> QED BY <1>2, <2>1, <2>2 DEF DayInv
  <1>5. \A d \in Day : NextInv(d)
    BY <1>1 DEF NextInv, DaysInit
  <1>6. CompletedInv
    BY <1>1 DEF CompletedInv, DaysInit
  <1> QED BY <1>3, <1>4, <1>5, <1>6 DEF DaysInv

LEMMA DaysInvNext == DaysInv /\ [DaysNext]_backfillVars => DaysInv'
  <1> SUFFICES ASSUME DaysInv, [DaysNext]_backfillVars PROVE DaysInv'
    OBVIOUS
  <1>1. CASE UNCHANGED backfillVars
    BY <1>1 DEF backfillVars, fileVars, DaysInv, DaysTypes, CompletedInv, DayInv, NextInv, Kept, Full,
         Passed, Passes, Next, Pending
  <1>2. CASE DaysNext
    BY <1>2, DaysMove, DaySearches, DayLoads, DayFinishesPage, DayIsCollected, DayUploads,
       DayIsMarked, DayIsAnnounced DEF DaysNext
  <1> QED BY <1>1, <1>2

\* A snapshot that passed the gate is what the site listed for the day.
LEMMA SnapshotIsWhole ==
    ASSUME DaysInv, NEW d \in Day, snapshot[d] # NoSnapshot, Passes(d)
    PROVE  Ledger!IsWhole(d, snapshot[d])
  <1> DEFINE taken == snapshot[d]
  <1>1. taken \in Seq(Vacancy) /\ Distinct(taken) /\ DayInv(d) /\ Len(taken) \in Nat /\ Limit \in Nat
        /\ Shards \in Nat /\ progress[d].shard \in Nat /\ Kept(d) = taken
    BY BackfillDaysAssumption DEF DaysInv, DaysTypes, DayInv, Kept
  <1>2. Ledger!Rows(taken) = Rows(taken)
    BY DEF Rows, Ledger!Rows
  <1>3. Ledger!IsInjective(taken)
    <2>1. DOMAIN taken = 1..Len(taken)
      BY <1>1
    <2> QED BY <1>1, <2>1 DEF Ledger!IsInjective, Distinct
  <1>4. Rows(taken) \cap Wrong = {}
    BY DEF Passes
  <1>5. CASE Len(taken) >= Limit
    BY <1>2, <1>3, <1>4, <1>5 DEF Ledger!IsWhole
  <1>6. CASE progress[d].shard > Shards /\ Len(taken) < Limit
    <2>1. ASSUME NEW s \in 1..Shards, NEW p \in PagesOf(d, s)
          PROVE  Listing[d][s][p] \subseteq Rows(taken) \cup skipped[d]
      <3>1. Passed(d, s, p)
        BY <1>1, <1>6 DEF Passed
      <3>2. Full(d, taken, Listing[d][s][p])
        BY <1>1, <3>1 DEF DayInv
      <3> QED BY <1>1, <1>6, <3>2 DEF Full
    <2>2. ListedOn[d] \subseteq Rows(taken) \cup skipped[d]
      BY <2>1 DEF ListedOn
    <2> QED BY <1>2, <1>3, <1>4, <2>2 DEF Ledger!IsWhole
  <1> QED BY <1>1, <1>5, <1>6 DEF DayInv

LEMMA DaysAreLedgerSteps ==
    ASSUME DaysInv, [DaysNext]_backfillVars
    PROVE  [Ledger!LedgerNext]_<<stored, skipped, completed, announced, quarantined>>
  <1> DEFINE ledger == <<stored, skipped, completed, announced, quarantined>>
  <1>1. CASE UNCHANGED backfillVars
    BY <1>1 DEF backfillVars, fileVars
  <1>2. CASE Start \/ Finish \/ Publish \/ Crash
    BY <1>2 DEF Start, Finish, Publish, Crash, fileVars
  <1>3. CASE Announce
    BY <1>3, DayIsAnnounced DEF Ledger!LedgerNext
  <1>4. ASSUME NEW d \in Day,
               \/ Take(d) \/ Search(d) \/ FinishPage(d) \/ Collected(d) \/ Judge(d) \/ Fail(d)
        PROVE  UNCHANGED ledger
    BY <1>4 DEF Take, Search, FinishPage, Collected, Judge, Fail, fileVars
  <1>5. ASSUME NEW d \in Day, Next(d) PROVE Ledger!IsNext(d) /\ DayInv(d) /\ NextInv(d) /\ DaysTypes
    BY <1>5, NextDay DEF DaysInv
  <1>6. ASSUME NEW d \in Day, NEW v \in Vacancy, Load(d, v)
        PROVE  UNCHANGED ledger \/ Ledger!Skip(d)
    <2>1. /\ Ledger!IsNext(d) /\ stored[d] = NoSnapshot /\ skipped \in [Day -> SUBSET Vacancy]
          /\ UNCHANGED <<stored, completed, announced, quarantined>>
      <3>1. /\ Next(d) /\ run.at = "page"
            /\ UNCHANGED <<stored, completed, announced, quarantined>>
        BY <1>6 DEF Load
      <3>2. snapshot[d] = NoSnapshot /\ stored[d] = NoSnapshot
        <4>1. NextInv(d) /\ DayInv(d)
          BY <1>5, <3>1
        <4>2. snapshot[d] = NoSnapshot
          BY <3>1, <4>1 DEF NextInv
        <4> QED BY <4>1, <4>2 DEF DayInv
      <3> QED BY <1>5, <3>1, <3>2 DEF DaysTypes
    <2>2. CASE skipped' = [skipped EXCEPT ![d] = @ \cup {v}]
      <3>1. skipped'[d] = skipped[d] \cup {v}
        BY <2>1, <2>2
      <3> QED BY <2>1, <2>2, <3>1 DEF Ledger!Skip
    <2> QED BY <1>6, <2>1, <2>2 DEF Load
  <1>7. ASSUME NEW d \in Day, Quarantine(d) PROVE Ledger!Quarantine(d)
    <2>1. Ledger!IsNext(d) /\ stored[d] = NoSnapshot
      BY <1>5, <1>7 DEF Quarantine, DayInv
    <2> QED BY <1>7, <2>1 DEF Quarantine, Ledger!Quarantine
  <1>8. ASSUME NEW d \in Day, Upload(d) PROVE UNCHANGED ledger \/ Ledger!Store(d)
    <2>1. /\ Next(d) /\ run.at = "upload" /\ stored' = [stored EXCEPT ![d] = snapshot[d]]
          /\ UNCHANGED <<skipped, completed, announced, quarantined>>
      BY <1>8 DEF Upload, fileVars
    <2>2. /\ Ledger!IsNext(d) /\ snapshot[d] # NoSnapshot /\ Passes(d) /\ ~quarantined
          /\ stored \in [Day -> Seq(Vacancy) \cup {NoSnapshot}]
          /\ stored[d] # NoSnapshot => stored[d] = snapshot[d]
      BY <1>5, <2>1 DEF DayInv, NextInv, DaysTypes
    <2>3. stored'[d] = snapshot[d]
      BY <2>1, <2>2
    <2>4. CASE stored[d] # NoSnapshot
      BY <2>1, <2>2, <2>4
    <2>5. CASE stored[d] = NoSnapshot
      <3>1. Ledger!IsWhole(d, stored'[d])
        BY <2>2, <2>3, SnapshotIsWhole
      <3> QED BY <2>1, <2>2, <2>3, <2>5, <3>1 DEF Ledger!Store
    <2> QED BY <2>4, <2>5
  <1>9. ASSUME NEW d \in Day, Mark(d) PROVE Ledger!Complete(d)
    <2>1. Ledger!IsNext(d) /\ stored[d] # NoSnapshot /\ ~quarantined
      BY <1>5, <1>9 DEF Mark, NextInv
    <2> QED BY <1>9, <2>1 DEF Mark, Ledger!Complete
  <1> HIDE DEF ledger
  <1>10. CASE DaysNext
    <2>1. Ledger!LedgerNext \/ UNCHANGED ledger
      <3>1. CASE \E d \in Day : \E v \in Vacancy : Load(d, v)
        BY <1>6, <3>1 DEF Ledger!LedgerNext
      <3>2. CASE \E d \in Day : Quarantine(d) \/ Upload(d) \/ Mark(d)
        BY <1>7, <1>8, <1>9, <3>2 DEF Ledger!LedgerNext
      <3> QED BY <1>2, <1>3, <1>4, <1>10, <3>1, <3>2 DEF DaysNext, ledger
    <2> QED BY <2>1 DEF ledger
  <1> QED BY <1>1, <1>10

\* The backfill keeps the ledger of its bucket: the days in order, each whole and once,
\* and nothing after a quarantine (hh_backfill_to_minio.py), for every listing, every
\* number of failures and every number of restarts.
THEOREM BackfillKeepsLedger == DaysSpec => LedgerIsKept
  <1>1. DaysInit => Ledger!LedgerInit
    BY DEF DaysInit, Ledger!LedgerInit
  <1>2. DaysInv /\ [DaysNext]_backfillVars => [Ledger!LedgerNext]_<<stored, skipped, completed, announced, quarantined>>
    BY DaysAreLedgerSteps
  <1> QED BY <1>1, <1>2, DaysInvInit, DaysInvNext, PTL
        DEF DaysSpec, LedgerIsKept, Ledger!LedgerSpec, Ledger!ledgerVars

-----------------------------------------------------------------------------
(* The loops over searches, pages and vacancies                            *)

\* What a run has or has given up.
Got == Elements(rows) \cup unloaded

\* The first vacancies of the list at hand are in some set.
Has(set, count) == \A n \in DOMAIN Listed[shard] : n <= count => Listed[shard][n] \in set

\* Nothing is there twice, and the limit ends the page.
RowsInv ==
    /\ IsFiniteSet(Elements(rows)) /\ Cardinality(Elements(rows)) = Len(rows)
    /\ Len(rows) <= limit
    /\ links # <<>> => Len(rows) < limit

\* The HTML search has the pages before the present one, which has the rest in its links.
HtmlInv ==
    /\ \A n \in Nat : n < page => Elements(PageOf(Listed[shard], n, SitePage)) \subseteq Got
    /\ at = "load" =>
         Elements(PageOf(Listed[shard], page, SitePage)) \subseteq Got \cup Elements(links)

\* The API has as many vacancies as the pages asked for would be in the present size, which
\* only shrinks.
ApiInv ==
    /\ at = "ask" => Has(Got, page * ApiSize)
    /\ at = "load" => Has(Got \cup Elements(links), (page + 1) * ApiSize)
    /\ at = "last" => Has(Got \cup Elements(links), Len(Listed[shard]))

ReachedInv ==
    Len(rows) < limit =>
       /\ \A s \in 1..Searches : s < shard => Reached(s) \subseteq Got
       /\ shard <= Searches => (mode = "html" => HtmlInv) /\ (mode = "api" => ApiInv)

ScrapeInv ==
    /\ ScrapeTypeOK /\ RowsInv /\ ReachedInv
    /\ at \in {"load", "last"} => shard <= Searches
    /\ at = "last" => mode = "api"
    /\ at = "wait" => mode = "html"
    /\ at \in {"ask", "wait"} => links = <<>>
    /\ at = "done" => ScrapeIsOver

LEMMA ProductGrows == \A a, b, c \in Nat : a <= b => a * c <= b * c /\ c * a <= c * b
  OBVIOUS

\* A page is a stretch of the list, and empty beyond its end.
LEMMA PageIsStretch ==
    ASSUME NEW found \in Seq(Advert), NEW n \in Nat, NEW size \in Nat \ {0}
    PROVE  /\ PageOf(found, n, size) \in Seq(Advert)
           /\ \A k \in DOMAIN found : n * size < k /\ k <= (n + 1) * size =>
                 found[k] \in Elements(PageOf(found, n, size))
           /\ PageOf(found, n, size) = <<>> <=> n * size >= Len(found)
           /\ n * size >= Len(found) => Elements(PageOf(found, n, size)) = {}
<1> DEFINE first == n * size + 1
           last == IF (n + 1) * size < Len(found) THEN (n + 1) * size ELSE Len(found)
<1>1. /\ n * size \in Nat /\ (n + 1) * size \in Nat /\ (n + 1) * size = n * size + size
      /\ Len(found) \in Nat /\ DOMAIN found = 1..Len(found)
  OBVIOUS
<1>2. PageOf(found, n, size) = SubSeq(found, first, last)
  BY DEF PageOf
<1>3. first \in Int /\ last \in Int /\ first >= 1 /\ last <= Len(found)
      /\ (first <= last <=> n * size < Len(found))
  BY <1>1
<1>4. \A k \in DOMAIN found : n * size < k /\ k <= (n + 1) * size => k \in first..last
  BY <1>1
<1> HIDE DEF first, last
<1>5. \A k \in first..last : found[k] \in Advert
  BY <1>1, <1>3
<1>6. /\ SubSeq(found, first, last) \in Seq(Advert)
      /\ Len(SubSeq(found, first, last)) = IF first <= last THEN last - first + 1 ELSE 0
      /\ \A k \in 1..(last - first + 1) : SubSeq(found, first, last)[k] = found[first + k - 1]
  BY <1>3, <1>5, SubSeqProperties
<1>7. ASSUME NEW k \in first..last PROVE found[k] \in Elements(SubSeq(found, first, last))
  <2>1. k - first + 1 \in 1..(last - first + 1) /\ first + (k - first + 1) - 1 = k
    BY <1>3
  <2>2. k - first + 1 \in DOMAIN SubSeq(found, first, last)
    BY <1>3, <1>6, <2>1
  <2>3. SubSeq(found, first, last)[k - first + 1] = found[k]
    BY <1>6, <2>1
  <2> QED BY <2>2, <2>3 DEF Elements
<1>8. SubSeq(found, first, last) = <<>> <=> ~(first <= last)
  BY <1>3, <1>6
<1>9. Elements(<<>>) = {}
  BY DEF Elements
<1>10. SubSeq(found, first, last) = <<>> <=> n * size >= Len(found)
  BY <1>1, <1>3, <1>8
<1>11. n * size >= Len(found) => Elements(SubSeq(found, first, last)) = {}
  BY <1>9, <1>10
<1>12. \A k \in DOMAIN found : n * size < k /\ k <= (n + 1) * size =>
          found[k] \in Elements(SubSeq(found, first, last))
  BY <1>4, <1>7
<1> QED BY <1>2, <1>6, <1>10, <1>11, <1>12

LEMMA LinksTaken ==
    ASSUME links \in Seq(Advert), links # <<>>
    PROVE  /\ Head(links) \in Advert /\ Tail(links) \in Seq(Advert)
           /\ Elements(links) \subseteq {Head(links)} \cup Elements(Tail(links))
<1>1. /\ Tail(links) \in Seq(Advert) /\ Len(Tail(links)) = Len(links) - 1
      /\ \A n \in 1..Len(Tail(links)) : Tail(links)[n] = links[n + 1]
      /\ Head(links) = links[1] /\ Head(links) \in Advert
  BY HeadTailProperties
<1>2. ASSUME NEW n \in DOMAIN links PROVE links[n] \in {Head(links)} \cup Elements(Tail(links))
  <2>1. CASE n = 1
    BY <1>1, <2>1
  <2>2. CASE n # 1
    <3>1. n - 1 \in 1..Len(Tail(links)) /\ n - 1 + 1 = n
      BY <1>1, <2>2
    <3> QED BY <1>1, <3>1 DEF Elements
  <2> QED BY <2>1, <2>2
<1> QED BY <1>1, <1>2 DEF Elements

LEMMA RowTaken ==
    ASSUME rows \in Seq(Advert), NEW v \in Advert
    PROVE  /\ Append(rows, v) \in Seq(Advert) /\ Len(Append(rows, v)) = Len(rows) + 1
           /\ Elements(Append(rows, v)) = Elements(rows) \cup {v}
<1>1. /\ Append(rows, v) \in Seq(Advert) /\ Len(Append(rows, v)) = Len(rows) + 1
      /\ \A n \in 1..Len(rows) : Append(rows, v)[n] = rows[n]
      /\ Append(rows, v)[Len(rows) + 1] = v
  BY AppendProperties
<1>2. DOMAIN Append(rows, v) = 1..(Len(rows) + 1) /\ DOMAIN rows = 1..Len(rows)
      /\ Len(rows) \in Nat
  BY <1>1
<1>3. \A n \in 1..(Len(rows) + 1) : n \in 1..Len(rows) \/ n = Len(rows) + 1
  BY <1>2
<1> QED BY <1>1, <1>2, <1>3 DEF Elements

LEMMA ScrapeInvInit == ScrapeInit => ScrapeInv
<1> SUFFICES ASSUME ScrapeInit PROVE ScrapeInv
  OBVIOUS
<1>1. ScrapeTypeOK
  BY SiteScrapeAssumption DEF ScrapeInit, ScrapeTypeOK
<1>2. Elements(rows) = {} /\ Len(rows) = 0
  BY DEF ScrapeInit, Elements
<1>3. limit > 0 /\ limit \in Nat
  BY SiteScrapeAssumption DEF ScrapeInit
<1>4. RowsInv
  BY <1>2, <1>3, FS_EmptySet DEF ScrapeInit, RowsInv
<1>5. ~(page > 0) /\ page = 0 /\ shard = 1 /\ at = "ask" /\ links = <<>>
  BY DEF ScrapeInit
<1>6. HtmlInv
  BY <1>5 DEF HtmlInv
<1>7. shard <= Searches => ApiInv
  <2> SUFFICES ASSUME shard <= Searches PROVE Has(Got, page * ApiSize)
    BY <1>5 DEF ApiInv
  <2>1. ApiSize \in Nat /\ page * ApiSize = 0
    BY <1>2, <1>3, <1>5, SiteScrapeAssumption DEF ApiSize
  <2>2. Listed[shard] \in Seq(Advert)
    BY <1>5, SiteScrapeAssumption
  <2>3. \A n \in DOMAIN Listed[shard] : ~(n <= 0)
    BY <2>2
  <2> QED BY <2>1, <2>3 DEF Has
<1>8. ReachedInv
  BY <1>5, <1>6, <1>7, SiteScrapeAssumption DEF ReachedInv
<1> QED BY <1>1, <1>4, <1>5, <1>8 DEF ScrapeInv

\* What is not touched while the place in the lists stays.
LEMMA ScrapeRests ==
    ASSUME ScrapeInv, UNCHANGED <<mode, limit, shard, page, links, rows, unloaded>>,
           \/ at = "ask" /\ at' = "done" /\ ScrapeIsOver
           \/ at = "ask" /\ mode = "html" /\ at' = "wait"
           \/ at = "wait" /\ at' = "ask"
           \/ at' = "failed"
    PROVE  ScrapeInv'
<1>1. ScrapeTypeOK' /\ RowsInv'
  BY DEF ScrapeInv, ScrapeTypeOK, RowsInv
<1>2. Got' = Got /\ ApiSize' = ApiSize
  BY DEF Got, ApiSize
<1>3. \A s \in 1..Searches : Reached(s)' = Reached(s)
  BY DEF Reached
<1>4. mode = "html" /\ HtmlInv => HtmlInv'
  BY <1>2 DEF HtmlInv
<1>5. mode = "api" /\ ApiInv => ApiInv'
  BY DEF ApiInv, ScrapeInv
<1>6. ReachedInv'
  BY <1>2, <1>3, <1>4, <1>5 DEF ScrapeInv, ReachedInv
<1> QED BY <1>1, <1>6 DEF ScrapeInv, ScrapeIsOver

\* The first pages of a list that covers it cover what is reached of it.
LEMMA AllIsReached ==
    ASSUME NEW set, shard \in 1..Searches,
           \/ mode = "html" /\ \A n \in 0..HtmlPages - 1 :
                                 Elements(PageOf(Listed[shard], n, SitePage)) \subseteq set
           \/ mode = "api" /\ Has(set, Len(Listed[shard]))
    PROVE  Reached(shard) \subseteq set
<1>1. CASE mode = "html"
  BY <1>1 DEF Reached
<1>2. CASE mode = "api"
  <2>1. Listed[shard] \in Seq(Advert)
    BY SiteScrapeAssumption
  <2>2. \A n \in DOMAIN Listed[shard] : n <= Len(Listed[shard])
    BY <2>1
  <2>3. Has(set, Len(Listed[shard]))
    BY <1>2
  <2> QED BY <1>2, <2>2, <2>3 DEF Reached, Has, Elements
<1> QED BY <1>1, <1>2

LEMMA ScrapeEndsShard == ASSUME ScrapeInv, EndShard PROVE ScrapeInv'
<1>1. /\ shard' = shard + 1 /\ page' = 0 /\ at' = "ask" /\ links = <<>>
      /\ UNCHANGED <<mode, limit, links, rows, unloaded>>
  BY DEF EndShard, ScrapeInv, Asks
<1>2. shard \in 1..Searches /\ page \in Nat /\ Listed[shard] \in Seq(Advert)
      /\ mode \in {"html", "api"}
  <2>1. shard \in 1..(Searches + 1) /\ shard <= Searches /\ page \in Nat
        /\ mode \in {"html", "api"}
    BY SiteScrapeAssumption DEF EndShard, ScrapeInv, ScrapeTypeOK, Asks, ScrapeIsOver
  <2>2. shard \in 1..Searches
    BY <2>1, SiteScrapeAssumption
  <2> QED BY <2>1, <2>2, SiteScrapeAssumption
<1>3. ScrapeTypeOK' /\ RowsInv'
  BY <1>1, <1>2, SiteScrapeAssumption DEF ScrapeInv, ScrapeTypeOK, RowsInv
<1>4. Got' = Got /\ ApiSize' = ApiSize
  BY <1>1 DEF Got, ApiSize
<1>5. \A s \in 1..Searches : Reached(s)' = Reached(s)
  BY <1>1 DEF Reached
<1>6. ASSUME Len(rows) < limit PROVE Reached(shard) \subseteq Got
  <2>1. CASE Asks("html")
    <3>1. HtmlInv /\ mode = "html"
      BY <1>2, <1>6, <2>1 DEF ScrapeInv, ReachedInv, Asks
    <3>2. CASE page >= HtmlPages
      <4>1. \A n \in 0..HtmlPages - 1 : n \in Nat /\ n < page
        BY <1>2, <3>2, SiteScrapeAssumption
      <4> QED BY <1>2, <3>1, <4>1, AllIsReached DEF HtmlInv
    <3>3. CASE PageOf(Listed[shard], page, SitePage) = <<>>
      <4>1. page * SitePage >= Len(Listed[shard])
        BY <1>2, <3>3, PageIsStretch, SiteScrapeAssumption
      <4>2. ASSUME NEW n \in 0..HtmlPages - 1
            PROVE  Elements(PageOf(Listed[shard], n, SitePage)) \subseteq Got
        <5>1. CASE n < page
          BY <3>1, <5>1, SiteScrapeAssumption DEF HtmlInv
        <5>2. CASE n >= page
          <6>1. n * SitePage >= page * SitePage /\ n * SitePage \in Nat /\ page * SitePage \in Nat
            BY <1>2, <5>2, ProductGrows, SiteScrapeAssumption
          <6>2. n * SitePage >= Len(Listed[shard])
            BY <1>2, <4>1, <6>1
          <6>3. n \in Nat /\ SitePage \in Nat \ {0}
            BY SiteScrapeAssumption
          <6>4. Elements(PageOf(Listed[shard], n, SitePage)) = {}
            BY <1>2, <6>2, <6>3, PageIsStretch
          <6> QED BY <6>4
        <5> QED BY <1>2, <5>1, <5>2, SiteScrapeAssumption
      <4> QED BY <1>2, <3>1, <4>2, AllIsReached
    <3> QED BY <1>1, <2>1, <3>2, <3>3 DEF EndShard, Asks
  <2>2. CASE at = "last"
    <3>1. Has(Got \cup Elements(links), Len(Listed[shard])) /\ mode = "api"
      BY <1>2, <1>6, <2>2 DEF ScrapeInv, ReachedInv, ApiInv
    <3>2. Elements(links) = {}
      BY <1>1 DEF Elements
    <3>3. Has(Got, Len(Listed[shard]))
      BY <3>1, <3>2
    <3> QED BY <1>2, <3>1, <3>3, AllIsReached
  <2> QED BY <2>1, <2>2 DEF EndShard
<1>7. ASSUME Len(rows) < limit, NEW s \in 1..Searches, s < shard + 1 PROVE Reached(s) \subseteq Got
  <2>1. CASE s < shard
    BY <1>7, <2>1 DEF ScrapeInv, ReachedInv
  <2>2. CASE s = shard
    BY <1>6, <1>7, <2>2
  <2> QED BY <1>2, <1>7, <2>1, <2>2
<1>8. HtmlInv'
  <2>1. ~\E n \in Nat : n < 0
    OBVIOUS
  <2> QED BY <1>1, <2>1 DEF HtmlInv
<1>9. ASSUME shard' <= Searches, Len(rows) < limit PROVE ApiInv'
  <2>1. ApiSize \in Nat /\ 0 * ApiSize = 0
    BY <1>9, SiteScrapeAssumption DEF ApiSize, ScrapeInv, ScrapeTypeOK
  <2>2. Listed[shard'] \in Seq(Advert)
    BY <1>1, <1>2, <1>9, SiteScrapeAssumption
  <2>3. \A n \in DOMAIN Listed[shard'] : ~(n <= 0)
    BY <2>2
  <2> QED BY <1>1, <1>4, <2>1, <2>3 DEF ApiInv, Has
<1>10. ReachedInv'
  BY <1>1, <1>4, <1>5, <1>7, <1>8, <1>9 DEF ReachedInv
<1> QED BY <1>1, <1>3, <1>10 DEF ScrapeInv

LEMMA ScrapeListsPage == ASSUME ScrapeInv, ListPage \/ ListItems PROVE ScrapeInv'
<1> DEFINE size == IF mode = "html" THEN SitePage ELSE ApiSize
<1>1. /\ UNCHANGED <<mode, limit, shard, page, rows, unloaded>>
      /\ links' = PageOf(Listed[shard], page, size) /\ at = "ask" /\ Len(rows) < limit
  <2>1. at = "ask" /\ ~(Len(rows) >= limit) /\ Len(rows) \in Nat /\ limit \in Nat
    BY SiteScrapeAssumption
       DEF ListPage, ListItems, Asks, ScrapeIsOver, ScrapeInv, ScrapeTypeOK
  <2>2. CASE ListPage
    BY <2>1, <2>2 DEF ListPage, Asks
  <2>3. CASE ListItems
    BY <2>1, <2>3 DEF ListItems, Asks
  <2> QED BY <2>2, <2>3
<1>2. shard \in 1..Searches /\ page \in Nat /\ limit \in Nat
  <2>1. shard \in 1..(Searches + 1) /\ shard <= Searches /\ page \in Nat /\ limit \in Nat
    BY SiteScrapeAssumption
       DEF ListPage, ListItems, ScrapeInv, ScrapeTypeOK, Asks, ScrapeIsOver
  <2> QED BY <2>1, SiteScrapeAssumption
<1>3. size \in Nat \ {0} /\ Listed[shard] \in Seq(Advert)
  BY <1>1, <1>2, SiteScrapeAssumption DEF ApiSize, ScrapeInv, ScrapeTypeOK
<1>4. Got' = Got /\ ApiSize' = ApiSize /\ \A s \in 1..Searches : Reached(s)' = Reached(s)
  BY <1>1 DEF Got, ApiSize, Reached
<1>5. /\ mode = "html" => at' = "load"
      /\ mode = "api" => at' = IF links' = <<>> \/ IsLastPage(size) THEN "last" ELSE "load"
  BY DEF ListPage, ListItems, Asks
<1> HIDE DEF size
<1>6. /\ links' \in Seq(Advert)
      /\ \A k \in DOMAIN Listed[shard] : page * size < k /\ k <= (page + 1) * size =>
            Listed[shard][k] \in Elements(links')
      /\ links' = <<>> => page * size >= Len(Listed[shard])
  BY <1>1, <1>2, <1>3, PageIsStretch
<1>7. ScrapeTypeOK' /\ RowsInv' /\ at' \in {"load", "last"}
  BY <1>1, <1>5, <1>6 DEF ScrapeInv, ScrapeTypeOK, RowsInv
<1>8. ASSUME mode = "html" PROVE HtmlInv'
  BY <1>1, <1>2, <1>4, <1>8 DEF HtmlInv, ScrapeInv, ReachedInv, size
<1>9. ASSUME mode = "api" PROVE ApiInv'
  <2>1. Has(Got, page * size) /\ size = ApiSize
    BY <1>1, <1>2, <1>9 DEF ScrapeInv, ReachedInv, ApiInv, size
  <2>2. page * size \in Nat /\ (page + 1) * size \in Nat /\ DOMAIN Listed[shard] \subseteq Nat
        /\ Len(Listed[shard]) \in Nat /\ page * size <= (page + 1) * size
        /\ \A k \in DOMAIN Listed[shard] : k <= Len(Listed[shard])
    <3>1. page * size \in Nat /\ (page + 1) * size = page * size + size
      BY <1>2, <1>3
    <3>2. DOMAIN Listed[shard] = 1..Len(Listed[shard]) /\ Len(Listed[shard]) \in Nat
      BY <1>3
    <3> QED BY <1>3, <3>1, <3>2
  <2>3. \A k \in DOMAIN Listed[shard] : k <= (page + 1) * size =>
             Listed[shard][k] \in Got \cup Elements(links')
    BY <1>6, <2>1, <2>2 DEF Has
  <2>4. at' = "last" => Len(Listed[shard]) <= (page + 1) * size
    BY <1>5, <1>6, <1>9, <2>2 DEF IsLastPage
  <2>5. at' = "last" => \A k \in DOMAIN Listed[shard] : Listed[shard][k] \in Got \cup Elements(links')
    BY <2>2, <2>3, <2>4
  <2> QED BY <1>1, <1>4, <1>7, <2>1, <2>3, <2>5 DEF ApiInv, Has
<1>10. ReachedInv'
  BY <1>1, <1>2, <1>4, <1>8, <1>9 DEF ScrapeInv, ReachedInv
<1>11. at' = "last" => mode' = "api"
  BY <1>1, <1>5 DEF ScrapeInv, ScrapeTypeOK
<1> QED BY <1>1, <1>2, <1>7, <1>10, <1>11 DEF ScrapeInv

LEMMA ScrapeLoads == ASSUME ScrapeInv, LoadAdvert PROVE ScrapeInv'
<1> DEFINE v == Head(links)
<1>1. /\ UNCHANGED <<mode, limit, at, shard, page>> /\ at \in {"load", "last"} /\ links # <<>>
      /\ Len(rows) < limit /\ Len(rows) \in Nat /\ limit \in Nat
      /\ links \in Seq(Advert) /\ rows \in Seq(Advert) /\ page \in Nat
      /\ shard <= Searches /\ mode \in {"html", "api"} /\ unloaded \subseteq Advert
  BY SiteScrapeAssumption DEF LoadAdvert, ScrapeInv, ScrapeTypeOK, RowsInv
<1>2. /\ v \in Advert /\ Tail(links) \in Seq(Advert)
      /\ Elements(links) \subseteq {v} \cup Elements(Tail(links))
  BY <1>1, LinksTaken
<1> HIDE DEF v
<1>3. \/ rows' = rows /\ unloaded' = unloaded \cup {v} /\ links' = Tail(links)
      \/ rows' = rows /\ v \in Elements(rows) /\ unloaded' = unloaded /\ links' = Tail(links)
      \/ /\ rows' = Append(rows, v) /\ v \notin Elements(rows) /\ unloaded' = unloaded
         /\ links' = IF Len(rows') >= limit THEN <<>> ELSE Tail(links)
  BY <1>1 DEF LoadAdvert, v
<1>4. /\ Append(rows, v) \in Seq(Advert) /\ Len(Append(rows, v)) = Len(rows) + 1
      /\ Elements(Append(rows, v)) = Elements(rows) \cup {v}
  BY <1>1, <1>2, RowTaken
<1>5. IsFiniteSet(Elements(rows)) /\ Cardinality(Elements(rows)) = Len(rows)
  BY DEF ScrapeInv, RowsInv
<1>6. /\ rows' \in Seq(Advert) /\ links' \in Seq(Advert) /\ unloaded' \subseteq Advert
      /\ Len(rows') <= limit /\ Len(rows') \in Nat /\ Len(rows') >= Len(rows)
      /\ IsFiniteSet(Elements(rows')) /\ Cardinality(Elements(rows')) = Len(rows')
      /\ Elements(rows) \subseteq Elements(rows') /\ unloaded \subseteq unloaded'
      /\ v \in Elements(rows') \cup unloaded'
      /\ links' # <<>> => Len(rows') < limit
      /\ Len(rows') < limit => links' = Tail(links)
  <2>1. CASE rows' = rows /\ unloaded' = unloaded \cup {v} /\ links' = Tail(links)
    BY <1>1, <1>2, <1>5, <2>1
  <2>2. CASE rows' = rows /\ v \in Elements(rows) /\ unloaded' = unloaded /\ links' = Tail(links)
    BY <1>1, <1>2, <1>5, <2>2
  <2>3. CASE /\ rows' = Append(rows, v) /\ v \notin Elements(rows) /\ unloaded' = unloaded
             /\ links' = IF Len(rows') >= limit THEN <<>> ELSE Tail(links)
    <3>1. /\ rows' \in Seq(Advert) /\ Len(rows') = Len(rows) + 1
          /\ Elements(rows') = Elements(rows) \cup {v}
      BY <1>4, <2>3
    <3>2. IsFiniteSet(Elements(rows')) /\ Cardinality(Elements(rows')) = Len(rows) + 1
      BY <1>5, <2>3, <3>1, FS_AddElement
    <3>3. CASE Len(rows') >= limit
      <4>1. links' = <<>> /\ links' \in Seq(Advert)
        BY <2>3, <3>3
      <4> QED BY <1>1, <2>3, <3>1, <3>2, <3>3, <4>1
    <3>4. CASE Len(rows') < limit
      <4>1. links' = Tail(links)
        BY <1>1, <2>3, <3>1, <3>4
      <4> QED BY <1>1, <1>2, <2>3, <3>1, <3>2, <3>4, <4>1
    <3> QED BY <1>1, <3>1, <3>3, <3>4
  <2> QED BY <1>3, <2>1, <2>2, <2>3
<1>7. ScrapeTypeOK' /\ RowsInv'
  BY <1>1, <1>6 DEF ScrapeInv, ScrapeTypeOK, RowsInv
<1>8. Got \subseteq Got' /\ v \in Got'
  BY <1>6 DEF Got
<1>9. ASSUME Len(rows') < limit PROVE Got \cup Elements(links) \subseteq Got' \cup Elements(links')
  BY <1>2, <1>6, <1>8, <1>9
<1>10. \A s \in 1..Searches : Reached(s)' = Reached(s)
  BY <1>1 DEF Reached
<1>11. ASSUME Len(rows') < limit, mode = "html" PROVE HtmlInv'
  <2>1. HtmlInv
    BY <1>1, <1>11 DEF ScrapeInv, ReachedInv
  <2>2. \A n \in Nat : n < page => Elements(PageOf(Listed[shard], n, SitePage)) \subseteq Got'
    BY <1>8, <2>1 DEF HtmlInv
  <2>3. at = "load" =>
          Elements(PageOf(Listed[shard], page, SitePage)) \subseteq Got' \cup Elements(links')
    BY <1>9, <1>11, <2>1 DEF HtmlInv
  <2> QED BY <1>1, <2>2, <2>3 DEF HtmlInv
<1>12. ASSUME Len(rows') < limit, mode = "api" PROVE ApiInv'
  <2>1. ApiInv
    BY <1>1, <1>12 DEF ScrapeInv, ReachedInv
  <2>2. ApiSize' <= ApiSize /\ ApiSize \in Nat /\ ApiSize' \in Nat
    BY <1>1, <1>6, <1>12, SiteScrapeAssumption DEF ApiSize
  <2>3. (page + 1) * ApiSize' <= (page + 1) * ApiSize
        /\ (page + 1) * ApiSize' \in Nat /\ (page + 1) * ApiSize \in Nat
    <3>1. page + 1 \in Nat
      BY <1>1
    <3> QED BY <2>2, <3>1, ProductGrows
  <2>4. DOMAIN Listed[shard] \subseteq Nat
    <3>1. shard \in 1..Searches
      BY <1>1, SiteScrapeAssumption DEF ScrapeInv, ScrapeTypeOK
    <3>2. Listed[shard] \in Seq(Advert)
      BY <3>1, SiteScrapeAssumption
    <3> QED BY <3>2
  <2>5. at = "load" => \A n \in DOMAIN Listed[shard] : n <= (page + 1) * ApiSize' =>
                          Listed[shard][n] \in Got' \cup Elements(links')
    BY <1>9, <1>12, <2>1, <2>3, <2>4 DEF ApiInv, Has
  <2>6. at = "last" => \A n \in DOMAIN Listed[shard] : n <= Len(Listed[shard]) =>
                          Listed[shard][n] \in Got' \cup Elements(links')
    BY <1>9, <1>12, <2>1 DEF ApiInv, Has
  <2> QED BY <1>1, <2>5, <2>6 DEF ApiInv, Has
<1>13. ReachedInv'
  BY <1>1, <1>6, <1>8, <1>10, <1>11, <1>12 DEF ScrapeInv, ReachedInv
<1> QED BY <1>1, <1>7, <1>13 DEF ScrapeInv

LEMMA ScrapeEndsPage == ASSUME ScrapeInv, EndPage PROVE ScrapeInv'
<1>1. /\ UNCHANGED <<mode, limit, shard, links, rows, unloaded>> /\ page' = page + 1
      /\ at = "load" /\ at' = "ask" /\ links = <<>> /\ page \in Nat /\ page + 1 \in Nat
      /\ shard <= Searches
  BY DEF EndPage, NextPage, ScrapeInv, ScrapeTypeOK
<1>2. Elements(links) = {}
  BY <1>1 DEF Elements
<1>3. Got' = Got /\ ApiSize' = ApiSize /\ \A s \in 1..Searches : Reached(s)' = Reached(s)
  BY <1>1 DEF Got, ApiSize, Reached
<1>4. ScrapeTypeOK' /\ RowsInv'
  BY <1>1 DEF ScrapeInv, ScrapeTypeOK, RowsInv
<1>5. ASSUME Len(rows) < limit, mode = "html" PROVE HtmlInv'
  <2>1. HtmlInv
    BY <1>1, <1>5 DEF ScrapeInv, ReachedInv
  <2>2. \A n \in Nat : n < page + 1 => n < page \/ n = page
    BY <1>1
  <2>3. \A n \in Nat : n < page + 1 => Elements(PageOf(Listed[shard], n, SitePage)) \subseteq Got
    BY <1>1, <1>2, <2>1, <2>2 DEF HtmlInv
  <2> QED BY <1>1, <1>3, <2>3 DEF HtmlInv
<1>6. ASSUME Len(rows) < limit, mode = "api" PROVE ApiInv'
  <2>1. Has(Got, (page + 1) * ApiSize)
    <3>1. Has(Got \cup Elements(links), (page + 1) * ApiSize)
      BY <1>1, <1>6 DEF ScrapeInv, ReachedInv, ApiInv
    <3>2. Got \cup Elements(links) = Got
      BY <1>2
    <3> QED BY <3>1, <3>2
  <2> QED BY <1>1, <1>3, <2>1 DEF ApiInv, Has
<1>7. ReachedInv'
  BY <1>1, <1>3, <1>5, <1>6 DEF ScrapeInv, ReachedInv
<1> QED BY <1>1, <1>4, <1>7 DEF ScrapeInv

LEMMA ScrapeInvNext == ScrapeInv /\ [ScrapeNext]_scrapeVars => ScrapeInv'
<1> SUFFICES ASSUME ScrapeInv, [ScrapeNext]_scrapeVars PROVE ScrapeInv'
  OBVIOUS
<1>1. CASE FinishScrape \/ Refused \/ Retry \/ Break
  BY <1>1, ScrapeRests DEF FinishScrape, Refused, Asks, Retry, Break
<1>2. CASE EndShard
  BY <1>2, ScrapeEndsShard
<1>3. CASE ListPage \/ ListItems
  BY <1>3, ScrapeListsPage
<1>4. CASE LoadAdvert
  BY <1>4, ScrapeLoads
<1>5. CASE EndPage
  BY <1>5, ScrapeEndsPage
<1>6. CASE UNCHANGED scrapeVars
  <2>1. UNCHANGED <<mode, limit, at, shard, page, links, rows, unloaded>>
    BY <1>6 DEF scrapeVars
  <2>2. Got' = Got /\ ApiSize' = ApiSize /\ \A s \in 1..Searches : Reached(s)' = Reached(s)
    BY <2>1 DEF Got, ApiSize, Reached
  <2>3. HtmlInv' = HtmlInv /\ ApiInv' = ApiInv
    BY <2>1, <2>2 DEF HtmlInv, ApiInv, Has
  <2>4. ReachedInv'
    BY <2>1, <2>2, <2>3 DEF ScrapeInv, ReachedInv
  <2> QED BY <2>1, <2>4 DEF ScrapeInv, ScrapeTypeOK, RowsInv, ScrapeIsOver
<1> QED BY <1>1, <1>2, <1>3, <1>4, <1>5, <1>6 DEF ScrapeNext, ScrapeStep

\* For any lists, page sizes and limits, and whatever fails: a run that is done has nothing
\* twice and, below its limit, all that its searches list and that could be loaded.
THEOREM ScrapeIsWhole == ScrapeSpec => []CollectedIsWhole
<1>1. ScrapeInv => CollectedIsWhole
  <2> SUFFICES ASSUME ScrapeInv, at = "done" PROVE CollectedIsWhole
    BY DEF CollectedIsWhole
  <2>1. Cardinality(Elements(rows)) = Len(rows) /\ Len(rows) <= limit
        /\ Len(rows) \in Nat /\ limit \in Nat
    BY SiteScrapeAssumption DEF ScrapeInv, RowsInv, ScrapeTypeOK
  <2>2. ASSUME Len(rows) < limit
        PROVE  \A s \in 1..Searches : Reached(s) \subseteq Elements(rows) \cup unloaded
    <3>1. shard > Searches /\ shard \in Nat
      BY <2>1, <2>2, SiteScrapeAssumption DEF ScrapeInv, ScrapeIsOver, ScrapeTypeOK
    <3>2. \A s \in 1..Searches : s < shard
      BY <3>1, SiteScrapeAssumption
    <3> QED BY <2>2, <3>2 DEF ScrapeInv, ReachedInv, Got
  <2> QED BY <2>1, <2>2 DEF CollectedIsWhole
<1> QED BY <1>1, ScrapeInvInit, ScrapeInvNext, PTL DEF ScrapeSpec
=============================================================================
