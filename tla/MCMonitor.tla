----------------------------- MODULE MCMonitor ------------------------------
(* Instances of Monitor for TLC.                                           *)
EXTENDS Monitor

CONSTANTS core, leaf    \* a host and the host behind it

NoParents  == [h \in Host |-> NoHost]
LeafOnCore == [h \in Host |-> IF h = leaf THEN core ELSE NoHost]

OneTick  == [h \in Host |-> 1]
(* The parent is polled half as often as the host behind it.               *)
SlowCore == [h \in Host |-> IF h = core THEN 2 ELSE 1]
=============================================================================
