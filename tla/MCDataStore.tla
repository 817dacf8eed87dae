---------------------------- MODULE MCDataStore ----------------------------
(***************************************************************************)
(* Instances of DataStore for TLC.                                         *)
(***************************************************************************)
EXTENDS DataStore, TLC

CONSTANT r1

\* Runs are interchangeable: one of them is the first.
MCInit == Init /\ latest = r1

MCFairSpec == MCInit /\ [][Next]_vars /\ Fairness

RunSymmetry == Permutations(Run)
=============================================================================
