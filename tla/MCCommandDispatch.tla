-------------------------- MODULE MCCommandDispatch --------------------------
(* Small instances of CommandDispatch.                                     *)
EXTENDS CommandDispatch, TLC

CONSTANTS c1, c2

OnePush == [c \in Commands |-> "push"]
OneTemplate == [c \in Commands |-> "template"]
\* c1 comes first in the queue.
InOrder == [c \in Commands |-> IF c = c1 THEN 1 ELSE 2]
=============================================================================
