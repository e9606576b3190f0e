----------------------------- MODULE Recurrence -----------------------------
(* When a schedule is due and when two schedules conflict                    *)
(* (templates/recurrence.py, Schedule.is_conflicting).                       *)
(*                                                                           *)
(* Time is counted in ticks of which Day make a day and Day * WeekDays a      *)
(* week. Monthly schedules need a calendar and are left out.                 *)
EXTENDS Integers

CONSTANTS
    Day,       \* ticks of a day
    WeekDays,  \* days of a week
    MostRuns,  \* max_occurrences: 1000 starts, counted from the first
    Horizon    \* check_range_days, in ticks

ASSUME RecurrenceAssumption ==
    /\ Day \in Nat \ {0} /\ WeekDays \in Nat \ {0}
    /\ MostRuns \in Nat /\ Horizon \in Nat

Repeats == {"none", "daily", "weekly"}
Windows == [start : Nat, end : Nat, repeat : Repeats]

Period(w) == IF w.repeat = "daily" THEN Day ELSE Day * WeekDays
Weekday(t) == (t \div Day) % WeekDays

\* reference_time.replace(hour=...): the start of the window on the day of t.
StartToday(w, t) == (Day * (t \div Day)) + (w.start % Day)

\* The first start of a recurring schedule is not looked at: it is due at its
\* time of day before that date too. A window that crosses midnight is cut there.
RunningAt(w, t) ==
    \/ w.repeat = "none" /\ w.start <= t /\ t <= w.end
    \/ /\ w.repeat \in {"daily", "weekly"}
       /\ w.repeat = "weekly" => Weekday(t) = Weekday(w.start)
       /\ StartToday(w, t) <= t
       /\ t <= StartToday(w, t) + (w.end - w.start)

Occurrences(w, from, to) ==
    (from .. to) \cap (IF w.repeat = "none" THEN {w.start}
                       ELSE {w.start + k * Period(w) : k \in 0 .. (MostRuns - 1)})

MeetInside(start1, end1, start2, end2) == start2 <= start1 /\ end1 <= end2
Meet(start1, end1, start2, end2) == start1 < end2 /\ start2 < end1

\* check_overlap(): only starts from now on count, so a window that has
\* started already conflicts with nothing until it starts again.
CheckOverlap(v, w, t) ==
    \E i \in Occurrences(v, t, t + Horizon), j \in Occurrences(w, t, t + Horizon) :
        Meet(i, i + (v.end - v.start), j, j + (w.end - w.start))

Conflicting(v, w, t) ==
    IF v.repeat = "none" /\ w.repeat = "none"
    THEN Meet(v.start, v.end, w.start, w.end)
    ELSE CheckOverlap(v, w, t)
=============================================================================
