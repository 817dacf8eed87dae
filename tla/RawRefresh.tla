------------------------------- MODULE RawRefresh -------------------------------
(***************************************************************************)
(* The raw vacancies of a day on their way to the pipeline                 *)
(* (hh_daily_refresh.py, raw_hh_gate.py, s3_sync_raw_hh.py in the order of *)
(* pipeline_runner.sh with SKILLRA_S3_SYNC=1): a refresh, under a lock,    *)
(* replaces the local files one after the other, the gate compares them,   *)
(* and they are copied to the bucket.  A second process may do the same    *)
(* with the files as they are (SKILLRA_USE_RAW_HH_LATEST=1, no lock).      *)
(***************************************************************************)
EXTENDS Naturals, Sequences, FiniteSets

CONSTANTS
    Process, Refresher,  \* the processes, and the one that refreshes
    MaxRuns, MaxLines,   \* bounds: refreshes, lines of manifest.jsonl
    NoPointer

ASSUME RawRefreshAssumption == Refresher \in Process /\ {MaxRuns, MaxLines} \subseteq Nat

\* The files whose content changes, in the order in which they are copied.  The snapshot,
\* the delta and the parquet of a run have names of their own and never change.
Names   == <<"latest", "state", "manifest">>
Content == [latest : 0..MaxRuns, state : 0..MaxRuns, manifest : 0..MaxLines]

VARIABLES
    files,           \* latest.csv and state.json: the run whose they are; manifest.jsonl: its lines
    runs,            \* refreshes begun
    objects,         \* the bucket: the contents under runs/<run>/, 0 for none
    pointer,         \* latest_pointer.json: a run and the digests of its objects
    process,         \* the processes
    processed,       \* what run_pipeline.py read: latest.csv, state.json, and what the gate passed
    overlapped       \* history: both processes were at work at once

rawVars == <<files, runs, objects, pointer, process, processed, overlapped>>

Off   == [at |-> "off", run |-> 0, left |-> <<>>,
          digests |-> [latest |-> 0, state |-> 0, manifest |-> 0]]
Steps == {"off", "scrape", "copy", "append", "write", "load", "gate", "sync", "digest", "upload",
          "point", "reload", "verify", "process"}

RawTypeOK ==
    /\ files \in Content /\ runs \in 0..MaxRuns
    /\ objects \in [1..MaxRuns -> Content]
    /\ pointer \in [run : 1..MaxRuns, digests : Content] \cup {NoPointer}
    /\ \A p \in Process : process[p].at \in Steps /\ process[p].run \in 0..MaxRuns
    /\ processed \in [latest : 0..MaxRuns, state : 0..MaxRuns, gate : 0..MaxRuns]
    /\ overlapped \in BOOLEAN

Nothing == [latest |-> 0, state |-> 0, manifest |-> 0]

RawInit ==
    /\ files = Nothing /\ runs = 0
    /\ objects = [r \in 1..MaxRuns |-> Nothing] /\ pointer = NoPointer
    /\ process = [p \in Process |-> Off]
    /\ processed = [latest |-> 0, state |-> 0, gate |-> 0] /\ overlapped = FALSE

Step(p, next) == process' = [process EXCEPT ![p] = next]
At(p, at)     == process[p].at = at
GoTo(p, at)     == Step(p, [process[p] EXCEPT !.at = at])

Begin(p, next) ==
    /\ At(p, "off") /\ Step(p, next)
    /\ overlapped' = (overlapped \/ \E q \in Process \ {p} : ~At(q, "off"))

-----------------------------------------------------------------------------
(* hh_daily_refresh.py                                                     *)

Scrape(p) ==
    /\ p = Refresher /\ runs < MaxRuns
    /\ runs' = runs + 1 /\ Begin(p, [Off EXCEPT !.at = "scrape", !.run = runs + 1])
    /\ UNCHANGED <<files, objects, pointer, processed>>

\* The run's own files: the snapshot, its parquet copy and the delta to latest.csv
SaveRun(p) ==
    /\ At(p, "scrape") /\ GoTo(p, "copy")
    /\ UNCHANGED <<files, runs, objects, pointer, processed, overlapped>>

CopyLatest(p) ==
    /\ At(p, "copy") /\ files' = [files EXCEPT !.latest = process[p].run] /\ GoTo(p, "append")
    /\ UNCHANGED <<runs, objects, pointer, processed, overlapped>>

AppendManifest(p) ==
    /\ At(p, "append") /\ files.manifest < MaxLines
    /\ files' = [files EXCEPT !.manifest = @ + 1] /\ GoTo(p, "write")
    /\ UNCHANGED <<runs, objects, pointer, processed, overlapped>>

WriteState(p) ==
    /\ At(p, "write") /\ files' = [files EXCEPT !.state = process[p].run] /\ GoTo(p, "load")
    /\ UNCHANGED <<runs, objects, pointer, processed, overlapped>>

\* Any failure so far is a line of the manifest, too.
RefreshFails(p) ==
    /\ process[p].at \in {"scrape", "copy", "append", "write"} /\ files.manifest < MaxLines
    /\ files' = [files EXCEPT !.manifest = @ + 1] /\ Step(p, Off)
    /\ UNCHANGED <<runs, objects, pointer, processed, overlapped>>

-----------------------------------------------------------------------------
(* raw_hh_gate.py, s3_sync_raw_hh.py, raw_hh_gate.py --require-s3          *)

Republish(p) ==
    /\ p # Refresher /\ Begin(p, [Off EXCEPT !.at = "load"])
    /\ UNCHANGED <<files, runs, objects, pointer, processed>>

\* load_state_json, at the start of each of the three scripts
LoadState(p) ==
    /\ process[p].at \in {"load", "sync", "reload"} /\ files.state # 0
    /\ Step(p, [process[p] EXCEPT !.run = files.state,
                  !.at = CASE @ = "load" -> "gate" [] @ = "sync" -> "digest"
                           [] @ = "reload" -> "verify"])
    /\ UNCHANGED <<files, runs, objects, pointer, processed, overlapped>>

\* Mistake: the gate asks whether latest.csv is there, not whether it is the one of state.json.
LatestExists(run) == files.latest # 0
LatestMatches(run) == files.latest = run                      \* the digest in state.json

Gate(p) ==
    /\ At(p, "gate") /\ LatestMatches(process[p].run) /\ GoTo(p, "sync")
    /\ UNCHANGED <<files, runs, objects, pointer, processed, overlapped>>

\* build_latest_pointer computes the digests of the local files before they are copied.
Digest(p) ==
    /\ At(p, "digest")
    /\ Step(p, [process[p] EXCEPT !.at = "upload", !.digests = files, !.left = Names])
    /\ UNCHANGED <<files, runs, objects, pointer, processed, overlapped>>

\* Under runs/<run>/ an object that exists is not written again.
CopyToBucket(p) ==
    LET run == process[p].run  name == Head(process[p].left) IN
    /\ At(p, "upload") /\ process[p].left # <<>>
    /\ objects' = [objects EXCEPT ![run][name] = IF @ = 0 THEN files[name] ELSE @]
    /\ Step(p, [process[p] EXCEPT !.left = Tail(@),
                                    !.at = IF Len(process[p].left) = 1 THEN "point" ELSE @])
    /\ UNCHANGED <<files, runs, pointer, processed, overlapped>>

Point(p) ==
    /\ At(p, "point") /\ pointer' = [run |-> process[p].run, digests |-> process[p].digests]
    /\ GoTo(p, "reload") /\ UNCHANGED <<files, runs, objects, processed, overlapped>>

\* validate_pointer_artifacts downloads what the pointer names and compares the digests.
IsExact(pt) == pt.digests = objects[pt.run]

Verify(p) ==
    /\ At(p, "verify") /\ LatestMatches(process[p].run)
    /\ pointer # NoPointer /\ pointer.run = process[p].run /\ IsExact(pointer)
    /\ GoTo(p, "process")
    /\ UNCHANGED <<files, runs, objects, pointer, processed, overlapped>>

\* run_pipeline.py reads latest.csv and state.json.
ReadRaw(p) ==
    /\ At(p, "process")
    /\ processed' = [latest |-> files.latest, state |-> files.state, gate |-> process[p].run]
    /\ Step(p, Off)
    /\ UNCHANGED <<files, runs, objects, pointer, overlapped>>

\* A gate refuses, a call fails, or the process dies: the script ends.
End(p) ==
    /\ ~At(p, "off") /\ Step(p, Off)
    /\ UNCHANGED <<files, runs, objects, pointer, processed, overlapped>>

RawNext ==
    \E p \in Process :
        \/ Scrape(p) \/ SaveRun(p) \/ CopyLatest(p)
        \/ AppendManifest(p) \/ WriteState(p) \/ RefreshFails(p)
        \/ Republish(p) \/ LoadState(p) \/ Gate(p)
        \/ Digest(p) \/ CopyToBucket(p) \/ Point(p) \/ Verify(p) \/ ReadRaw(p) \/ End(p)

RawSpec == RawInit /\ [][RawNext]_rawVars

-----------------------------------------------------------------------------
(* Properties                                                              *)

\* The pointer names what is stored, unless two processes overlapped, or its run was
\* synced again after a failed refresh had added a line to the manifest: the copy under
\* runs/<run>/ is not replaced, and the digest of the longer one is published.
PointerIsExact ==
    \/ pointer = NoPointer \/ overlapped
    \/ /\ pointer.digests.latest = objects[pointer.run].latest
       /\ pointer.digests.state = objects[pointer.run].state
       /\ \/ pointer.digests.manifest = objects[pointer.run].manifest
          \/ objects[pointer.run].manifest \in 1..(pointer.digests.manifest - 1)

\* The pipeline reads the rows that the gate passed, and the state that describes them,
\* unless a refresh replaced them in between.
ProcessedIsValidated ==
    overlapped \/ (processed.latest = processed.gate /\ processed.state = processed.gate)

RawIsWhole == PointerIsExact /\ ProcessedIsValidated
=============================================================================
