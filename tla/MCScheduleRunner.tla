-------------------------- MODULE MCScheduleRunner --------------------------
(* Small instances of ScheduleRunner.                                       *)
EXTENDS ScheduleRunner, TLC

CONSTANTS s1, s2, x1, x2, t1, t2, p1, p2, k1, k2

TwoTemplates == [s \in Schedules |-> IF s = s1 THEN t1 ELSE t2]
\* The first schedule runs on all screens, the second on the first screen.
SomeShared == [s \in Schedules |-> IF s = s1 THEN Screens ELSE {x1}]
OneFile == [c \in Templates |-> c = t1]

Once(a, b) == [start |-> a, end |-> b, repeat |-> "none"]
Daily(a, b) == [start |-> a, end |-> b, repeat |-> "daily"]
Weekly(a, b) == [start |-> a, end |-> b, repeat |-> "weekly"]

\* Windows that nest, touch, cross midnight or start another day.
AllKinds == {Once(0, 2), Once(1, 2), Daily(0, 1), Daily(1, 3), Weekly(1, 3)}
OnceOnly == {Once(0, 3), Once(1, 2)}

Budget(b) == [w \in Spendings |-> IF w \in DOMAIN b THEN b[w] ELSE 0]

\* Two runs around an edit; a run and a request; a run whose screens or
\* attempts fail; a run among retries and reports.
Several == {
    Budget([passes |-> 2, edits |-> 1, ticks |-> 1]),
    Budget([passes |-> 2, ticks |-> 2]),
    Budget([passes |-> 1, requests |-> 1, ticks |-> 1]),
    Budget([passes |-> 1, toggles |-> 1, failures |-> 1, ticks |-> 2]),
    Budget([passes |-> 1, retries |-> 1, reports |-> 1, failures |-> 1])}
OneRun == {Budget([passes |-> 1])}
Symmetric == Permutations(Runners) \cup Permutations(Senders)
=============================================================================
