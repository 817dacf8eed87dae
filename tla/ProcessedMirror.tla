---------------------------- MODULE ProcessedMirror ----------------------------
(***************************************************************************)
(* The processed files in object storage: s3_sync_processed.py copies the  *)
(* files of a run and those of latest/, a link that the pipeline moves,    *)
(* and then writes a pointer with their digests; s3_restore.py brings them *)
(* back to a directory.  Any of these may run at once and stop anywhere.   *)
(***************************************************************************)
EXTENDS Naturals, Sequences, FiniteSets

CONSTANTS
    Files,           \* how many files latest/ has
    MaxRun,          \* bound: runs of the pipeline
    Syncer,          \* processes of s3_sync_processed.py
    NoRun

ASSUME ProcessedMirrorAssumption ==
    /\ Files \in Nat \ {0}
    /\ MaxRun \in Nat /\ NoRun \notin 1..MaxRun
    /\ NoRun \notin [run : 1..MaxRun, latest : 1..MaxRun \cup {NoRun}]

File     == 1..Files
Run      == 1..MaxRun
RunOr    == Run \cup {NoRun}

\* The files of runs/<run>/ never change and count as one, the first to be taken; then
\* come those of latest/, in the order of their names.
RunFiles == 0
Artifact == {RunFiles} \cup File

\* A pointer has the digests of runs/<run>/ and of what latest/ was on the local disk:
\* nothing when it was gone.
Pointer == [run : Run, latest : RunOr]

\* The runs under runs/, and the run that each file of latest/ is of, in storage or on a disk.
Store   == [runs : SUBSET Run, latest : [File -> RunOr], pointer : Pointer \cup {NoRun}]
NoFiles == [runs |-> {}, latest |-> [f \in File |-> NoRun], pointer |-> NoRun]

VARIABLES
    link,            \* processed/latest on the machine of the pipeline
    pipelineRuns,    \* runs whose files are complete
    bucket,          \* the objects in storage
    syncs,           \* the syncs under way
    disk,            \* the directory that is restored to
    restore,         \* the restore under way, or done
    syncFailed       \* history: a sync ended without its verification

mirrorVars == <<link, pipelineRuns, bucket, syncs, disk, restore, syncFailed>>

\* The artifacts of a pointer in the order in which they are taken.
Artifacts(pt) == <<RunFiles>> \o (IF pt.latest = NoRun THEN <<>> ELSE [f \in File |-> f])

Idle    == [at |-> "idle"]
Sync    == [at : {"list", "upload", "point", "check", "verify"},
            run : Run, latest : RunOr, left : Seq(Artifact)]
Restore == [at : {"fetch", "done"}, pointer : Pointer, left : Seq(Artifact),
            overwrite : BOOLEAN, fresh : BOOLEAN]

MirrorTypeOK ==
    /\ link \in RunOr /\ pipelineRuns \in 0..MaxRun
    /\ bucket \in Store /\ disk \in Store
    /\ syncs \in [Syncer -> Sync \cup {Idle}]
    /\ restore \in Restore \cup {Idle}
    /\ syncFailed \in BOOLEAN

MirrorInit ==
    /\ link = NoRun /\ pipelineRuns = 0 /\ bucket = NoFiles
    /\ syncs = [s \in Syncer |-> Idle] /\ disk = NoFiles /\ restore = Idle /\ syncFailed = FALSE

-----------------------------------------------------------------------------
(* run_pipeline.py: latest is unlinked and linked to the new run           *)

Unlink ==
    /\ pipelineRuns < MaxRun /\ pipelineRuns' = pipelineRuns + 1 /\ link' = NoRun
    /\ UNCHANGED <<bucket, syncs, disk, restore, syncFailed>>

Relink ==
    /\ link = NoRun /\ pipelineRuns > 0 /\ link' = pipelineRuns
    /\ UNCHANGED <<pipelineRuns, bucket, syncs, disk, restore, syncFailed>>

-----------------------------------------------------------------------------
(* s3_sync_processed.py                                                    *)

Moves(s, next) == syncs' = [syncs EXCEPT ![s] = next]

\* load_dataset_meta of latest/.
ReadMeta(s) ==
    /\ syncs[s] = Idle /\ link # NoRun
    /\ Moves(s, [at |-> "list", run |-> link, latest |-> NoRun, left |-> <<>>])
    /\ UNCHANGED <<link, pipelineRuns, bucket, disk, restore, syncFailed>>

\* build_latest_artifacts follows the link once more; a link that goes after its test
\* leaves nothing to list.
List(s) ==
    /\ syncs[s].at = "list"
    /\ Moves(s, [syncs[s] EXCEPT !.at = "upload", !.latest = link,
                                 !.left = Artifacts([run |-> syncs[s].run, latest |-> link])])
    /\ UNCHANGED <<link, pipelineRuns, bucket, disk, restore, syncFailed>>

\* latest/ is replaced; a file of runs/ is the same whether it is there or not.
Put(run, latest, a) ==
    IF a = RunFiles THEN [bucket EXCEPT !.runs = @ \cup {run}]
    ELSE [bucket EXCEPT !.latest[a] = latest]

UploadNext(s) ==
    /\ syncs[s].at = "upload"
    /\ bucket' = Put(syncs[s].run, syncs[s].latest, Head(syncs[s].left))
    /\ Moves(s, [syncs[s] EXCEPT !.left = Tail(@),
                                 !.at = IF Len(syncs[s].left) = 1 THEN "point" ELSE @])
    /\ UNCHANGED <<link, pipelineRuns, disk, restore, syncFailed>>

WritePointer(s) ==
    /\ syncs[s].at = "point"
    /\ bucket' = [bucket EXCEPT !.pointer = [run |-> syncs[s].run, latest |-> syncs[s].latest]]
    /\ Moves(s, [syncs[s] EXCEPT !.at = "check"])
    /\ UNCHANGED <<link, pipelineRuns, disk, restore, syncFailed>>

\* verify_latest_pointer downloads the pointer, which another sync may have replaced:
\* only its run has to be the same.
CheckPointer(s) ==
    /\ syncs[s].at = "check" /\ bucket.pointer.run = syncs[s].run
    /\ Moves(s, [syncs[s] EXCEPT !.at = "verify", !.latest = bucket.pointer.latest,
                                 !.left = Artifacts(bucket.pointer)])
    /\ UNCHANGED <<link, pipelineRuns, bucket, disk, restore, syncFailed>>

\* Mistake: the objects are there, but nobody compares the digests.
IsThere(store, pt, a) ==
    IF a = RunFiles THEN pt.run \in store.runs ELSE store.latest[a] # NoRun

\* What an object holds is what the pointer says it does.
Holds(store, pt, a) ==
    IF a = RunFiles THEN pt.run \in store.runs ELSE store.latest[a] = pt.latest

\* validate_processed_pointer: one object after the other.
VerifyNext(s) ==
    /\ syncs[s].at = "verify" /\ Holds(bucket, syncs[s], Head(syncs[s].left))
    /\ Moves(s, IF Len(syncs[s].left) > 1 THEN [syncs[s] EXCEPT !.left = Tail(@)] ELSE Idle)
    /\ UNCHANGED <<link, pipelineRuns, bucket, disk, restore, syncFailed>>

\* A call fails, a digest differs, or the process dies.
SyncFails(s) ==
    /\ syncs[s] # Idle /\ Moves(s, Idle) /\ syncFailed' = TRUE
    /\ UNCHANGED <<link, pipelineRuns, bucket, disk, restore>>

-----------------------------------------------------------------------------
(* s3_restore.py                                                           *)

\* --purge empties the directory; the pointer is kept, like any file, without --overwrite.
BeginRestore(overwrite, purge) ==
    /\ restore = Idle /\ bucket.pointer # NoRun
    /\ LET before == IF purge THEN NoFiles ELSE disk IN
       /\ disk' = IF before.pointer # NoRun /\ ~overwrite THEN before
                  ELSE [before EXCEPT !.pointer = bucket.pointer]
       /\ restore' = [at |-> "fetch", pointer |-> bucket.pointer, overwrite |-> overwrite,
                      left |-> Artifacts(bucket.pointer), fresh |-> overwrite \/ before = NoFiles]
    /\ UNCHANGED <<link, pipelineRuns, bucket, syncs, syncFailed>>

Exists(a) ==
    IF a = RunFiles THEN restore.pointer.run \in disk.runs ELSE disk.latest[a] # NoRun

\* A file that is there is not replaced without --overwrite, and not compared either.
Skips(a) == Exists(a) /\ ~restore.overwrite

Fetched(a) ==
    IF a = RunFiles THEN [disk EXCEPT !.runs = @ \cup {restore.pointer.run}]
    ELSE [disk EXCEPT !.latest[a] = bucket.latest[a]]

Fetch ==
    LET a == Head(restore.left) IN
    /\ restore.at = "fetch"
    /\ \/ Skips(a) /\ disk' = disk
       \/ ~Skips(a) /\ Holds(bucket, restore.pointer, a) /\ disk' = Fetched(a)
    /\ restore' = [restore EXCEPT !.left = Tail(@),
                                 !.at = IF Len(restore.left) = 1 THEN "done" ELSE @]
    /\ UNCHANGED <<link, pipelineRuns, bucket, syncs, syncFailed>>

RestoreFails ==
    /\ restore.at = "fetch" /\ restore' = Idle
    /\ UNCHANGED <<link, pipelineRuns, bucket, syncs, disk, syncFailed>>

MirrorNext ==
    \/ Unlink \/ Relink
    \/ \E s \in Syncer :
          \/ ReadMeta(s) \/ List(s) \/ UploadNext(s) \/ WritePointer(s)
          \/ CheckPointer(s) \/ VerifyNext(s) \/ SyncFails(s)
    \/ \E overwrite, purge \in BOOLEAN : BeginRestore(overwrite, purge)
    \/ Fetch \/ RestoreFails

MirrorSpec == MirrorInit /\ [][MirrorNext]_mirrorVars

-----------------------------------------------------------------------------
(* Properties                                                              *)

\* The files that the pointer names are there, each as the pointer says.
IsExactly(store, pt) ==
    /\ pt.run \in store.runs
    /\ pt.latest = NoRun \/ \A f \in File : store.latest[f] = pt.latest

\* While every sync has ended well and none is under way, the pointer can be restored,
\* however the syncs overlapped.  The objects of latest/ are replaced before the
\* pointer, so a sync that stops in between leaves a pointer that cannot be.
PointerIsRestorable ==
    (~syncFailed /\ bucket.pointer # NoRun /\ \A s \in Syncer : syncs[s] = Idle) =>
        IsExactly(bucket, bucket.pointer)

\* A restore that ended well, into an empty directory or with --overwrite, has the files
\* of one pointer, whatever was synced meanwhile.
RestoredIsWhole ==
    (restore.at = "done" /\ restore.fresh) =>
        disk.pointer = restore.pointer /\ IsExactly(disk, disk.pointer)

\* All of it.
MirrorIsWhole == PointerIsRestorable /\ RestoredIsWhole
=============================================================================
