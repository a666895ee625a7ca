---------------------------- MODULE MCHLoopEvents ----------------------------
(* Instances of HLoopEvents for TLC.                                       *)
EXTENDS HLoopEvents, TLC

CONSTANTS t1, t2, i1, o1

ThreeTicks == [t \in Timers |-> 3]
OneTick == [t \in Timers |-> 1]
FirstLonger == [t \in Timers |-> IF t = t1 THEN 2 ELSE 1]

AllOps == {"htimer_add", "htimer_reset", "htimer_del", "hidle_add",
           "hidle_del", "hio_add", "hio_del", "hloop_stop"}

=============================================================================
