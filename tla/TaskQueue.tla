------------------------------ MODULE TaskQueue ------------------------------
(***************************************************************************)
(* What cpputil/hthreadpool.h promises of its tasks: a task committed is   *)
(* taken from the queue once, in the order of commits, is then running     *)
(* until it is done, and nothing else ever happens to it.                  *)
(***************************************************************************)
EXTENDS Naturals, Sequences

CONSTANT Task

VARIABLES
    queued,     \* tasks committed and not taken, oldest first
    running,    \* tasks taken and not done
    done        \* tasks that have run

QueueInit == queued = <<>> /\ running = {} /\ done = {}

IsNew(t) ==
    /\ t \notin running /\ t \notin done
    /\ \A i \in 1..Len(queued) : queued[i] # t

Commit(t) ==
    /\ IsNew(t)
    /\ queued' = Append(queued, t)
    /\ UNCHANGED <<running, done>>

Take ==
    /\ queued # <<>>
    /\ queued' = Tail(queued)
    /\ running' = running \cup {Head(queued)}
    /\ UNCHANGED done

Complete(t) ==
    /\ t \in running
    /\ running' = running \ {t}
    /\ done' = done \cup {t}
    /\ UNCHANGED queued

QueueNext ==
    \/ \E t \in Task : Commit(t)
    \/ Take
    \/ \E t \in Task : Complete(t)

QueueSpec == QueueInit /\ [][QueueNext]_<<queued, running, done>>

=============================================================================
