------------------------------ MODULE PoolTasks ------------------------------
(***************************************************************************)
(* The two pools of cpputil together: the tasks of a thread pool, each of  *)
(* which holds an HPoolObject while it runs (the use unittest/             *)
(* threadpool_test.cpp and objectpool_test.cpp show of each).  A worker    *)
(* that runs a task is a borrower.                                         *)
(***************************************************************************)
EXTENDS HThreadPool, HObjectPool

ASSUME BorrowersAreWorkers == Borrowers = Workers

vars == <<poolVars, objectVars>>

Init == PoolInit /\ ObjectInit

(* In a task: Borrow, then Return if there was an object, then the end.    *)
TaskBody(w) ==
    /\ wpc[w] = "run"
    /\ BorrowStep(w) \/ Return(w)
    /\ UNCHANGED poolVars

TaskDone(w) ==
    /\ bpc[w] = "over"
    /\ At(w, "out")
    /\ TaskEnds(w)
    /\ UNCHANGED <<object_num, objects, made, held, manage, debt, slipped>>

Pools(w) == (WorkerStep(w) /\ UNCHANGED objectVars) \/ TaskBody(w) \/ TaskDone(w)

Next ==
    \/ \E w \in Workers : Pools(w)
    \/ \E c \in Callers : (BeginCall(c) \/ FinishCall(c)) /\ UNCHANGED objectVars
    \/ ManageStep /\ UNCHANGED poolVars

Spec == Init /\ [][Next]_vars

(***************************************************************************)
(* Every thread is scheduled, a time-out comes, and a thread in the middle *)
(* of a call goes on.  Nothing makes the application call, and a paused    *)
(* pool need not be resumed.                                               *)
(***************************************************************************)
FairSpec ==
    /\ Spec
    /\ \A w \in Workers : WF_vars(Pools(w))
    /\ \A c \in Callers : WF_vars(FinishCall(c) /\ UNCHANGED objectVars)

-----------------------------------------------------------------------------
TypeOK ==
    /\ status \in {"STOP", "RUNNING", "PAUSE"}
    /\ idle_num \in Int
    /\ tasks \in Seq(Task)
    /\ created \in Nat /\ joined \subseteq Workers
    /\ lock \in Workers \cup {NoThread}
    /\ wpc \in [Workers -> {"none", "top", "gate", "lock", "test", "sleep",
                            "asleep", "woken", "pop", "run", "ran", "exited",
                            "thrown"}]
    /\ task \in [Workers -> Task \cup {NoTask}]
    /\ cpc \in [Callers -> {"idle", "notify", "start", "spawn", "stop",
                            "notify_all", "join", "thrown", "pause", "resume",
                            "wait", "empty?", "idle?"}]
    /\ done \subseteq Task
    /\ object_num \in Int /\ objects \in Seq(Object) /\ debt \in Nat
    /\ bpc \in [Borrowers -> {"out", "none_idle", "creating", "asleep",
                              "woken", "has", "over"}]
    /\ held \in [Borrowers -> Object \cup {NoObject}]

(* Every task committed runs once, in the order of the commits, across     *)
(* pauses, stops and restarts (hthreadpool.h:41-54, 107-114).              *)
Queue == INSTANCE TaskQueue WITH
    queued <- tasks, running <- {task[w] : w \in Workers} \ {NoTask}

IsTaskQueue == Queue!QueueSpec

(* When wait() returns because the pool is idle, all that had been         *)
(* committed before has run, although it looks at the queue and at         *)
(* idle_num one after the other and without the mutex (line 89).           *)
WaitMeansDone ==
    [][\A c \in Callers :
         (cpc[c] = "idle?" /\ cpc'[c] = "idle") => 1..before[c] \subseteq done]_vars

(* pause() does not stop workers that are past their look at the status or *)
(* asleep in the condition variable; each takes at most one more task.     *)
PauseHolds == status = "PAUSE" => \A w \in Workers : since[w] <= 1

(* A task in the queue is run, if the pool is in the end left running and  *)
(* no stop has killed its start (notify_one, line 114).                    *)
TasksServed ==
    <>[](status = "RUNNING") =>
      \A t \in Task : (\E i \in 1..Len(tasks) : tasks[i] = t) ~> t \in done

(* stop() returns, or throws at a thread joined before, unless its         *)
(* notify_all came between a worker's test of the predicate and its sleep: *)
(* stop takes no mutex, so it can (hthreadpool.h:60-67).                   *)
NotifiedTooEarly ==
    \E c \in Callers, w \in Workers : cpc[c] = "join" /\ wpc[w] = "sleep"

Stoppers == {c \in Callers : "stop" \in Calls[c]}

StopEnds ==
    []~NotifiedTooEarly
      => \A c \in Stoppers : cpc[c] = "stop" ~> cpc[c] \in {"idle", "thrown"}

(* Without the condition, for a configuration of its own.                  *)
StopAlwaysEnds ==
    \A c \in Stoppers : cpc[c] = "stop" ~> cpc[c] \in {"idle", "thrown"}

JoinsOnce == \A c \in Callers : cpc[c] # "thrown"

(* A worker that finds status at STOP with an empty queue returns from its *)
(* wait (hthreadpool.h:40-42); if another thread's pause() or resume()     *)
(* overwrites the status before line 44, it calls an empty function (53).  *)
(* False of this code, with a configuration of its own.                    *)
NeverCallsNothing == \A w \in Workers : wpc[w] # "thrown"

=============================================================================
