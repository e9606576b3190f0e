------------------------------- MODULE MCJobs -------------------------------
(* Small instances of jobs that share no state: the schedules, the backups,  *)
(* and the saves of a layout, without the player, which MCLive has.          *)
EXTENDS MCScheduleRunner, Backups, Layouts

CONSTANTS b1, b2, c1, c2, e1, e2, h1, h2

Order(media, compression, scheduled) ==
    [media |-> media, compression |-> compression, scheduled |-> scheduled]
\* A nightly dump, one that is asked for without compression, an archive of the media.
EveryOrder == {Order(FALSE, TRUE, TRUE), Order(FALSE, FALSE, FALSE), Order(TRUE, TRUE, FALSE)}

\* A row is deleted and a backup fails, or a worker is killed.
NoTroubles == [deletions |-> 0, failures |-> 0, deaths |-> 0]
SomeTroubles == {NoTroubles, [deletions |-> 1, failures |-> 1, deaths |-> 0],
                 [deletions |-> 0, failures |-> 0, deaths |-> 1]}
RunnersRest == Budget(<<>>)
JobBudgets == Several \cup {RunnersRest}

\* A behaviour is one of one part; the others rest in one initial state.
VARIABLE part
SchedulesRest == left = RunnersRest /\ \A s \in Schedules : plan[s].window = Once(0, 2)
BackupsRest == troubles = NoTroubles /\ engine = "sqlite"
JobsInit ==
    /\ Init /\ BackupsInit /\ LayoutInit
    /\ \/ part = "schedules" /\ left # RunnersRest /\ BackupsRest /\ template.stamp = 0
       \/ part = "backups" /\ SchedulesRest /\ troubles # NoTroubles /\ template.stamp = 0
       \/ part = "layout" /\ SchedulesRest /\ BackupsRest
JobsNext ==
    /\ UNCHANGED part
    /\ \/ part = "schedules" /\ Next /\ UNCHANGED <<backupVars, layoutVars>>
       \/ part = "backups" /\ BackupsNext /\ UNCHANGED <<vars, layoutVars>>
       \/ part = "layout" /\ EditorNext /\ UNCHANGED <<vars, backupVars>>
JobsSpec == JobsInit /\ [][JobsNext]_<<vars, backupVars, layoutVars, part>>

JobSymmetry == Permutations(Runners) \cup Permutations(Backups)
=============================================================================
