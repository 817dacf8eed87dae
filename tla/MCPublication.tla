---------------------------- MODULE MCPublication ----------------------------
(***************************************************************************)
(* Instances of Publication and BackfillPublish for TLC.  Each part runs   *)
(* while the other is at rest.                                             *)
(***************************************************************************)
EXTENDS Publication, BackfillPublish, TLC

CONSTANTS r1, r2, r3, m1, m2, m3

VARIABLE part

Paths == (r1 :> m1) @@ (r2 :> m2) @@ (r3 :> m3)

\* What the runner and the backfill send.
ClientPost ==
    [run : Run, state : State, meta : Meta \cup {NoMeta}, error : {FALSE}]

RunPaths == [r \in Run |-> Paths[r]]

\* A permutation of the runs takes their paths along.
RunSymmetry ==
    { p @@ [x \in Meta |-> RunPaths[p[CHOOSE r \in Run : RunPaths[r] = x]]] :
      p \in Permutations(Run) }

PubSymmetry == { p @@ q : p \in Permutations(Replica), q \in RunSymmetry }

\* All of the publication, parts of it, an early forensic read, and the raw file alone.
Whole == [ max |-> 2, force |-> FALSE, allow |-> FALSE,
           pipeline |-> TRUE, direct |-> TRUE, reload |-> TRUE ]
Calls == { Whole, [Whole EXCEPT !.direct = FALSE], [Whole EXCEPT !.reload = FALSE],
           [Whole EXCEPT !.max = 1, !.force = TRUE, !.allow = TRUE, !.direct = FALSE, !.reload = FALSE],
           [Whole EXCEPT !.pipeline = FALSE, !.direct = FALSE, !.reload = FALSE] }

publicationVars == <<vars, publishVars, part>>

MCInit ==
    /\ PubInit /\ PublishInit
    /\ part \in {"registry", "backfill"} /\ (part = "registry" => pointer = 0)

MCNext ==
    /\ UNCHANGED part
    /\ \/ part = "registry" /\ PubNext /\ UNCHANGED publishVars
       \/ part = "backfill" /\ PublishNext /\ UNCHANGED vars

MCSpec == MCInit /\ [][MCNext]_publicationVars
=============================================================================
