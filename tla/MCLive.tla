-------------------------------- MODULE MCLive --------------------------------
(* Small instances of what must happen in the end: the pairing of a TV, the  *)
(* commands of a player that polls, and the layout that a player shows. They *)
(* share no state; each behaviour is of one part, under the fairness of that. *)
EXTENDS Pairing, Layouts

CONSTANTS
    Commands, Workers, Pollers, LegacyPollers, NoCommand, Limit, Expiries, HasSocket, Requests,
    MaxRequests, MaxLegacyPulls, MaxCommandTime, MaxCommandLosses

VARIABLES row, logs, itsScreen, itsNow, wk, pl, itsBudget, ghost, part

OneTemplate == [c \in Commands |-> "template"]
OnlyOne == [c \in Commands |-> 1]
Loop == INSTANCE CommandDispatch WITH
    Kind <- OneTemplate, Rank <- OnlyOne, screen <- itsScreen, now <- itsNow, budget <- itsBudget,
    MaxTime <- MaxCommandTime, MaxLosses <- MaxCommandLosses
loopVars == <<row, logs, itsScreen, itsNow, wk, pl, itsBudget, ghost>>

LiveInit ==
    /\ Init /\ Loop!Init /\ LayoutInit
    /\ part \in {"commands", "pairing", "layout"}
    /\ part # "layout" => template.stamp = 0

liveVars == <<vars, loopVars, layoutVars, part>>
InCommands == part = "commands" /\ UNCHANGED <<vars, layoutVars, part>>
InPairing == part = "pairing" /\ UNCHANGED <<loopVars, layoutVars, part>>
InLayout == part = "layout" /\ UNCHANGED <<vars, loopVars, part>>

LiveNext ==
    \/ InCommands /\ Loop!Next
    \/ InPairing /\ Next
    \/ InLayout /\ LayoutNext

\* The fairness of the three modules: that of a part binds the behaviours of that part.
LiveSpec ==
    /\ LiveInit /\ [][LiveNext]_liveVars
    /\ \A w \in Workers : WF_liveVars(InCommands /\ Loop!WorkerStep(w))
    /\ \A p \in Pollers : WF_liveVars(InCommands /\ Loop!PollerStep(p))
    /\ \A d \in Devices : WF_liveVars(InPairing /\ Page(d))
    /\ \A d \in Devices : WF_liveVars(InPairing /\ \E p \in Polls : SendPoll(d, p))
    /\ \A p \in Polls : WF_liveVars(InPairing /\ (StatusHandler(p) \/ ReceiveAnswer(p)))
    /\ \A b \in Binders : WF_liveVars(InPairing /\ BindHandler(b))
    /\ \A h \in Puts : WF_liveVars(InLayout /\ PutStep(h))
    /\ WF_liveVars(InLayout /\ PlayerStep)

\* A command that is pending is taken by a poll of its screen, and what a poll has taken
\* comes to an outcome.
PendingIsTaken == Loop!PendingIsTaken
ExecutingSettles == Loop!ExecutingSettles
=============================================================================
