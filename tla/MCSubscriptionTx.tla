-------------------------- MODULE MCSubscriptionTx --------------------------
(***************************************************************************)
(* Instances of SubscriptionTx for TLC.                                    *)
(***************************************************************************)
EXTENDS SubscriptionTx, TLC

DueFirst == [active |-> TRUE, weekday |-> 0, time |-> 0, zone |-> 0]

TwoPrefs == { DueFirst, [DueFirst EXCEPT !.weekday = 1, !.zone = 1] }

LockSymmetry == Permutations(Lock)
=============================================================================
