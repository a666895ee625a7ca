------------------------------- MODULE PostBox -------------------------------
(***************************************************************************)
(* What hloop_post_event promises (public/libhv/event/hloop.h, lines       *)
(* 138-150): any thread may post an event to the loop's thread.  The event *)
(* enters the loop's box at some moment between the call and the return,   *)
(* and the loop takes events out one by one, each exactly once, in the     *)
(* order in which they entered.  When the loop is cleaned up the box is    *)
(* thrown away.                                                            *)
(***************************************************************************)
EXTENDS Sequences

CONSTANTS
    Threads,    \* the callers
    Message,    \* the events they may post
    NoMessage

VARIABLES
    posting,    \* posting[th]: the event th is posting, or NoMessage
    box,        \* entered and not yet taken, oldest first
    taken       \* what the loop has taken, in that order

boxVars == <<posting, box, taken>>

BoxInit ==
    /\ posting = [th \in Threads |-> NoMessage]
    /\ box = <<>>
    /\ taken = <<>>

Call(th) ==
    /\ posting[th] = NoMessage
    /\ posting'[th] \in Message
    /\ posting' = [posting EXCEPT ![th] = posting'[th]]
    /\ UNCHANGED <<box, taken>>

(* The event enters the box and the call returns.                          *)
Enter(th) ==
    /\ posting[th] # NoMessage
    /\ box' = Append(box, posting[th])
    /\ posting' = [posting EXCEPT ![th] = NoMessage]
    /\ UNCHANGED taken

TakeFirst ==
    /\ box # <<>>
    /\ taken' = Append(taken, Head(box))
    /\ box' = Tail(box)
    /\ UNCHANGED posting

ThrowAway ==
    /\ box' = <<>>
    /\ UNCHANGED <<posting, taken>>

BoxNext ==
    \/ \E th \in Threads : Call(th) \/ Enter(th)
    \/ TakeFirst
    \/ ThrowAway

BoxSpec == BoxInit /\ [][BoxNext]_boxVars

=============================================================================
