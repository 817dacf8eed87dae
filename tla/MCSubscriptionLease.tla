------------------------ MODULE MCSubscriptionLease ------------------------
(***************************************************************************)
(* Instances for TLC of SubscriptionLease and of WebForms, the pages of    *)
(* the web client of which one edits the subscription.  They share no      *)
(* state: each part runs while the other is at rest.  A day of two ticks   *)
(* and a week of two days let a small clock cross midnight, a week and the *)
(* stale-lease limit.                                                      *)
(***************************************************************************)
EXTENDS SubscriptionLease, WebForms, TLC

VARIABLE part

mcVars == <<leaseVars, formVars, part>>

Pref(active, weekday, time, zone) ==
    [active |-> active, weekday |-> weekday, time |-> time, zone |-> zone]

\* On day 0 from its second tick on; on day 1 of a zone one tick ahead of UTC; on
\* the last day of the week of a zone a whole day behind; paused.
MCPrefs == { Pref(TRUE, 0, 1, 0), Pref(TRUE, 1, 0, 1),
             Pref(TRUE, WeekLen - 1, 0, -DayLen), Pref(FALSE, 0, 1, 0) }

\* Mutations and changes together
FewCalls == Cardinality({n \in CallNo : Made(n)'}) + changes' <= MaxCalls

MCInit ==
    /\ Init /\ FormsInit
    /\ \/ part = "forms"
       \/ /\ part = "leases" /\ page = [name |-> "plan", own |-> Nobody]
          /\ \A u \in UserId : ~rows[u].there

MCNext ==
    /\ UNCHANGED part
    /\ \/ part = "leases" /\ Next /\ UNCHANGED formVars
       \/ part = "forms" /\ FormsNext /\ FewCalls /\ UNCHANGED leaseVars

MCSpec == MCInit /\ [][MCNext]_mcVars

\* The leases alone
MCLeaseSpec == MCInit /\ part = "leases" /\ [][MCNext]_mcVars

PartSymmetry == Permutations(Lock) \cup Permutations(UserId)
=============================================================================
