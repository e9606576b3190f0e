--------------------------- MODULE CommandContract ---------------------------
(***************************************************************************)
(* What the life of a command promises, whatever handlers and polls do to  *)
(* its row at the same time: it is queued once; it leaves 'pending' only   *)
(* when somebody takes it; it is concluded only once it was taken, and     *)
(* 'done' only on evidence; a poll loop is given it once per queueing; and *)
(* when its deadline has come its status stays, unless an edit moves the   *)
(* deadline.  An edit may bring back what is no longer so, but nothing     *)
(* that never was.                                                         *)
(***************************************************************************)
EXTENDS Naturals

CONSTANTS
    Commands,
    Loops,       \* poll loops that take what they are given
    Deadlines,   \* instants a command may be given as its deadline
    Never        \* the deadline that does not come

VARIABLES
    status, deadline,   \* of each command
    clock,
    taken,       \* commands that an execution or a poll has taken
    evidence,    \* those reported done, or believed to be sent
    delivered,   \* delivered[p][c]: how often loop p was given c
    requeued,    \* requeued[c]: how often an operator made c pending again
    moved        \* commands whose deadline an edit has moved

vars == <<status, deadline, clock, taken, evidence, delivered, requeued, moved>>

Init ==
    /\ status = [c \in Commands |-> "absent"]
    /\ deadline = [c \in Commands |-> Never]
    /\ clock = 0
    /\ taken = {} /\ evidence = {} /\ moved = {}
    /\ delivered = [p \in Loops |-> [c \in Commands |-> 0]]
    /\ requeued = [c \in Commands |-> 0]

Open(c) == status[c] # "absent" /\ (clock < deadline[c] \/ c \in moved)

Becomes(c, s) == status' = [status EXCEPT ![c] = s]

Queue(c) ==
    /\ status[c] = "absent"
    /\ Becomes(c, "pending")
    /\ \E d \in Deadlines : clock < d /\ deadline' = [deadline EXCEPT ![c] = d]
    /\ UNCHANGED <<clock, taken, evidence, delivered, requeued, moved>>

\* Somebody works on c; a device of the older kind leaves the status.
Take(c) ==
    /\ Open(c)
    /\ taken' = taken \cup {c}
    /\ Becomes(c, "executing") \/ UNCHANGED status
    /\ UNCHANGED <<deadline, clock, evidence, delivered, requeued, moved>>

\* A poll loop is given c to work on.
Deliver(p, c) ==
    /\ Open(c)
    /\ delivered[p][c] <= requeued[c]
    /\ delivered' = [delivered EXCEPT ![p][c] = @ + 1]
    /\ taken' = taken \cup {c}
    /\ Becomes(c, "executing")
    /\ UNCHANGED <<deadline, clock, evidence, requeued, moved>>

\* execute() believes that c was sent.
Believe(c) ==
    /\ c \in taken
    /\ evidence' = evidence \cup {c}
    /\ UNCHANGED <<status, deadline, clock, taken, delivered, requeued, moved>>

\* execute() has come to an end with c, or the device reports one; 'done' is, or
\* was, somebody's word.
Conclude(c) ==
    /\ Open(c) /\ c \in taken
    /\ \/ Becomes(c, "failed") /\ UNCHANGED evidence
       \/ Becomes(c, "done") /\ evidence' = evidence \cup {c}
    /\ UNCHANGED <<deadline, clock, taken, delivered, requeued, moved>>

\* An operator asks for c once more.
Requeue(c) ==
    /\ Open(c)
    /\ Becomes(c, "pending")
    /\ requeued' = [requeued EXCEPT ![c] = @ + 1]
    /\ UNCHANGED <<deadline, clock, taken, evidence, delivered, moved>>

\* What c may have been at some time.
Past(c) == {"pending"} \cup (IF c \in taken THEN {"executing", "failed"} ELSE {})
                       \cup (IF c \in taken \cap evidence THEN {"done"} ELSE {})

\* An operator edits c, and writes back the status that the form was filled with.
Edit(c) ==
    /\ status[c] # "absent"
    /\ \E s \in Past(c), d \in Deadlines :
          /\ clock < d
          /\ Becomes(c, s)
          /\ requeued' = IF s = "pending" THEN [requeued EXCEPT ![c] = @ + 1] ELSE requeued
          /\ deadline' = [deadline EXCEPT ![c] = d]
          /\ moved' = IF d # deadline[c] THEN moved \cup {c} ELSE moved
    /\ UNCHANGED <<clock, taken, evidence, delivered>>

Pass ==
    /\ clock' = clock + 1
    /\ UNCHANGED <<status, deadline, taken, evidence, delivered, requeued, moved>>

Next ==
    \/ \E c \in Commands : Queue(c) \/ Take(c) \/ Believe(c) \/ Conclude(c) \/ Requeue(c) \/ Edit(c)
    \/ \E p \in Loops, c \in Commands : Deliver(p, c)
    \/ Pass

Spec == Init /\ [][Next]_vars

-----------------------------------------------------------------------------
\* Nothing but 'pending' shows of a command that nobody took.
OutcomesAreTaken == \A c \in Commands : status[c] \in {"executing", "done", "failed"} => c \in taken

\* 'done' has its evidence, which is of a command that was taken.
DoneIsProved ==
    /\ \A c \in Commands : status[c] = "done" => c \in evidence
    /\ evidence \subseteq taken
=============================================================================
