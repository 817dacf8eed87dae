-------------------------- MODULE MCDigestDelivery --------------------------
(***************************************************************************)
(* Instances of DigestDelivery for TLC.                                    *)
(***************************************************************************)
EXTENDS DigestDelivery, TLC

\* Due on day 0, from its first tick on.
DueFirst == [active |-> TRUE, weekday |-> 0, time |-> 0, zone |-> 0]

OnePref == { DueFirst }

\* The user may also move to the next weekday of another zone.
TwoPrefs == { DueFirst, [DueFirst EXCEPT !.weekday = 1, !.zone = 1] }

LockSymmetry == Permutations(Lock)

LockAndWorkerSymmetry == Permutations(Lock) \cup Permutations(Worker)
=============================================================================
