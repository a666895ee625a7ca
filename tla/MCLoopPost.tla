----------------------------- MODULE MCLoopPost -----------------------------
(* Instances of LoopPost for TLC.                                          *)
EXTENDS LoopPost, TLC

CONSTANTS loop, p1, p2

TwoEach == [th \in Threads |-> 2]
TwoAndOne == [th \in Threads |-> IF th = p2 THEN 1 ELSE 2]
ThreeEach == [th \in Threads |-> 3]

(* The loop's own thread calls from callbacks.                             *)
AllCalls ==
    [th \in Threads |->
       IF th = Loop THEN {"post", "stop", "release"}
       ELSE {"post", "wakeup", "stop", "pause", "resume"}]

PostAndStop == [th \in Threads |-> {"post", "stop"}]

PostAndRelease ==
    [th \in Threads |-> IF th = Loop THEN {"release"} ELSE {"post"}]

ForeignStop == [th \in Threads |-> IF th = Loop THEN {} ELSE {"stop"}]

PauseAgainstStop ==
    [th \in Threads |-> IF th = Loop THEN {"stop"}
                        ELSE {"post", "pause", "resume"}]

=============================================================================
