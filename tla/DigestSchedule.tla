--------------------------- MODULE DigestSchedule ---------------------------
(***************************************************************************)
(* When a weekly digest is due: the date arithmetic of                     *)
(* routers/subscriptions.py (_is_subscription_due, _candidate_weekdays).   *)
(*                                                                         *)
(* Time is a number of UTC ticks; a time zone is its offset in ticks, so   *)
(* the local clock of a subscriber is the UTC clock shifted by the offset  *)
(* (daylight saving changes are left out).  A day has DayLen ticks and a   *)
(* week WeekLen days (7 in the code).  SQL NULL is Null, a time before     *)
(* every instant the service runs at.                                      *)
(***************************************************************************)
EXTENDS Integers

CONSTANTS DayLen, WeekLen

ASSUME CalendarAssumption == /\ DayLen \in Nat \ {0}
                             /\ WeekLen \in Nat \ {0}

Null == 0

\* local_now.date()
LocalDate(t, zone) == (t + zone) \div DayLen

\* local_now.weekday(): the calendar starts on weekday 0.
LocalWeekday(t, zone) == LocalDate(t, zone) % WeekLen

\* local_now.strftime("%H:%M"), compared as text with time_local: the order of
\* zero-padded HH:MM texts is the order of the clock times.
LocalTimeOfDay(t, zone) == (t + zone) % DayLen

\* Mistake: the last digest compared by UTC date.
IsDueByUtcDate(sub, t) ==
    /\ LocalWeekday(t, sub.zone) = sub.weekday
    /\ LocalTimeOfDay(t, sub.zone) >= sub.time
    /\ sub.lastSent # Null => LocalDate(sub.lastSent, 0) # LocalDate(t, 0)

\* _is_subscription_due: the subscriber's weekday, not before the chosen local
\* time, and no digest yet on this local date.
IsDue(sub, t) ==
    /\ LocalWeekday(t, sub.zone) = sub.weekday
    /\ LocalTimeOfDay(t, sub.zone) >= sub.time
    /\ sub.lastSent # Null =>
           LocalDate(sub.lastSent, sub.zone) # LocalDate(t, sub.zone)

\* Mistake: the week does not wrap around.
CandidateWeekdaysUnwrapped(t) ==
    LET wd == LocalWeekday(t, 0) IN { wd - 1, wd, wd + 1 }

\* _candidate_weekdays: the SQL prefilter of the due and claim queries.
CandidateWeekdays(t) ==
    LET wd == LocalWeekday(t, 0) IN
    { (wd - 1) % WeekLen, wd, (wd + 1) % WeekLen }
=============================================================================
