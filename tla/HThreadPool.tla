----------------------------- MODULE HThreadPool -----------------------------
(***************************************************************************)
(* The thread pool of cpputil/hthreadpool.h.  A worker is cut where other  *)
(* threads see it: the two reads of status, the test of the predicate and  *)
(* the sleep (both under the mutex, which stop() does not take), the two   *)
(* halves of taking a task, its end, and the increment of idle_num.  The   *)
(* callers are cut between reading and writing a field and before each     *)
(* notification.  What a task does is left open (see PoolTasks).           *)
(***************************************************************************)
EXTENDS Integers, Sequences, FiniteSets

CONSTANTS
    Callers,    \* threads that use the pool
    Calls,      \* Calls[c]: the member functions that thread c calls
    pool_size,
    MaxTasks,   \* bound: tasks committed
    MaxStarts,  \* bound: times start() finds the pool stopped
    MaxCalls,   \* bound: calls of pause(), when there is something to do, and
                \* of wait()
    NoThread    \* the mutex is free

ASSUME PoolAssumption ==
    /\ pool_size \in Nat \ {0}
    /\ MaxTasks \in Nat /\ MaxStarts \in Nat
    /\ NoThread \notin Nat

Task == 1..MaxTasks
NoTask == 0

(* A thread that start() creates gets the next number.                     *)
Workers == 1..(pool_size * MaxStarts)

VARIABLES
    status, idle_num, tasks,
    created,    \* workers.size(): threads 1..created are in the vector
    joined,     \* of these, those that have been joined
    lock,       \* the worker that holds _mutex from its test to its sleep
    wpc,        \* where each worker is
    task,       \* the task each worker has taken
    cpc,        \* what each caller is in the middle of
    at,         \* index of the caller's loop in start() or stop()
    committed,  \* number of tasks committed
    done,       \* history: tasks that have run
    before,     \* history: tasks committed when the caller's wait() began
    since,      \* history: tasks each worker took since status became PAUSE
    budget      \* calls of pause and wait left

callers == <<cpc, at, before, budget>>
poolVars == <<status, idle_num, tasks, created, joined, lock, wpc, task, cpc,
              at, committed, done, before, since, budget>>

PoolInit ==
    /\ status = "STOP"
    /\ idle_num = pool_size
    /\ tasks = <<>>
    /\ created = 0 /\ joined = {}
    /\ lock = NoThread
    /\ wpc = [w \in Workers |-> "none"]
    /\ task = [w \in Workers |-> NoTask]
    /\ cpc = [c \in Callers |-> "idle"]
    /\ at = [c \in Callers |-> 0]
    /\ committed = 0
    /\ done = {}
    /\ before = [c \in Callers |-> 0]
    /\ since = [w \in Workers |-> 0]
    /\ budget = MaxCalls

Goto(w, l) == wpc' = [wpc EXCEPT ![w] = l]
Call(c, l) == cpc' = [cpc EXCEPT ![c] = l]
MayCall(c, f) == cpc[c] = "idle" /\ f \in Calls[c]

(* A store to status; what was taken under PAUSE is counted from there.    *)
SetStatus(s) == status' = s /\ since' = [w \in Workers |-> 0]

-----------------------------------------------------------------------------
(* The worker's loop.                                                      *)
Top(w) ==
    /\ wpc[w] = "top"
    /\ Goto(w, IF status = "STOP" THEN "exited" ELSE "gate")
    /\ UNCHANGED <<status, idle_num, tasks, created, joined, lock, task,
                   committed, done, since, callers>>

(* Mutant: nothing holds a worker back while the pool is paused.           *)
PassGateAlways(w) ==
    /\ wpc[w] = "gate"
    /\ Goto(w, "lock")
    /\ UNCHANGED <<status, idle_num, tasks, created, joined, lock, task,
                   committed, done, since, callers>>

PassGate(w) ==
    /\ wpc[w] = "gate"
    /\ status # "PAUSE"
    /\ Goto(w, "lock")
    /\ UNCHANGED <<status, idle_num, tasks, created, joined, lock, task,
                   committed, done, since, callers>>

(* _mutex is taken, at first or on waking up, and the predicate evaluated. *)
TestPredicate(w) ==
    /\ wpc[w] \in {"lock", "woken"}
    /\ lock = NoThread
    /\ lock' = w
    /\ Goto(w, IF status = "STOP" \/ tasks # <<>> THEN "test" ELSE "sleep")
    /\ UNCHANGED <<status, idle_num, tasks, created, joined, task, committed,
                   done, since, callers>>

Sleep(w) ==
    /\ wpc[w] = "sleep"
    /\ lock' = NoThread
    /\ Goto(w, "asleep")
    /\ UNCHANGED <<status, idle_num, tasks, created, joined, task, committed,
                   done, since, callers>>

ReturnIfStopped(w) ==
    /\ wpc[w] = "test"
    /\ status = "STOP"
    /\ lock' = NoThread
    /\ Goto(w, "exited")
    /\ UNCHANGED <<status, idle_num, tasks, created, joined, task, committed,
                   done, since, callers>>

(* Mutant: idle_num is not decremented.                                    *)
TakeBusyLate(w) ==
    /\ wpc[w] = "test"
    /\ status # "STOP"
    /\ Goto(w, "pop")
    /\ UNCHANGED <<status, idle_num, tasks, created, joined, lock, task,
                   committed, done, since, callers>>

(* The status is read again.  If it was STOP at the test and is not any    *)
(* more, the queue may be empty; the worker then calls an empty function,  *)
(* which throws (line 53).                                                 *)
TakeBusy(w) ==
    /\ wpc[w] = "test"
    /\ status # "STOP"
    /\ IF tasks = <<>>
         THEN Goto(w, "thrown") /\ lock' = NoThread /\ UNCHANGED idle_num
         ELSE Goto(w, "pop") /\ idle_num' = idle_num - 1 /\ UNCHANGED lock
    /\ UNCHANGED <<status, tasks, created, joined, task, committed, done,
                   since, callers>>

(* Mutant: the front is copied and not popped.                             *)
TakePopKeeps(w) ==
    /\ wpc[w] = "pop"
    /\ task' = [task EXCEPT ![w] = Head(tasks)]
    /\ since' = [since EXCEPT ![w] = IF status = "PAUSE" THEN @ + 1 ELSE 0]
    /\ lock' = NoThread
    /\ Goto(w, "run")
    /\ UNCHANGED <<status, idle_num, tasks, created, joined, committed, done,
                   callers>>

TakePop(w) ==
    /\ wpc[w] = "pop"
    /\ task' = [task EXCEPT ![w] = Head(tasks)]
    /\ tasks' = Tail(tasks)
    /\ since' = [since EXCEPT ![w] = IF status = "PAUSE" THEN @ + 1 ELSE 0]
    /\ lock' = NoThread
    /\ Goto(w, "run")
    /\ UNCHANGED <<status, idle_num, created, joined, committed, done, callers>>

TaskEnds(w) ==
    /\ wpc[w] = "run"
    /\ done' = done \cup {task[w]}
    /\ task' = [task EXCEPT ![w] = NoTask]
    /\ Goto(w, "ran")
    /\ UNCHANGED <<status, idle_num, tasks, created, joined, lock, committed,
                   since, callers>>

BackToIdle(w) ==
    /\ wpc[w] = "ran"
    /\ idle_num' = idle_num + 1
    /\ Goto(w, "top")
    /\ UNCHANGED <<status, tasks, created, joined, lock, task, committed,
                   done, since, callers>>

WorkerStep(w) ==
    \/ Top(w) \/ PassGate(w) \/ TestPredicate(w) \/ Sleep(w)
    \/ ReturnIfStopped(w) \/ TakeBusy(w) \/ TakePop(w) \/ BackToIdle(w)

-----------------------------------------------------------------------------
(* commit: push under the mutex, then notify_one without it.               *)
Commit(c) ==
    /\ MayCall(c, "commit")
    /\ committed < MaxTasks
    /\ lock = NoThread
    /\ committed' = committed + 1
    /\ tasks' = Append(tasks, committed + 1)
    /\ Call(c, "notify")
    /\ UNCHANGED <<status, idle_num, created, joined, lock, wpc, task, at,
                   done, before, since, budget>>

Asleep == {w \in Workers : wpc[w] = "asleep"}

(* Mutant: a commit that notifies nobody.                                  *)
NotifyNone(c) ==
    /\ cpc[c] = "notify"
    /\ Call(c, "idle")
    /\ UNCHANGED <<status, idle_num, tasks, created, joined, lock, wpc, task,
                   at, committed, done, before, since, budget>>

NotifyOne(c) ==
    /\ cpc[c] = "notify"
    /\ \/ Asleep = {} /\ UNCHANGED wpc
       \/ \E w \in Asleep : Goto(w, "woken")
    /\ Call(c, "idle")
    /\ UNCHANGED <<status, idle_num, tasks, created, joined, lock, task, at,
                   committed, done, before, since, budget>>

(* start: a store, then pool_size threads, appended to the old ones.       *)
Start(c) ==
    /\ MayCall(c, "start")
    /\ status = "STOP"
    /\ created < pool_size * MaxStarts
    /\ Call(c, "start")
    /\ UNCHANGED <<status, idle_num, tasks, created, joined, lock, wpc, task,
                   at, committed, done, before, since, budget>>

StartRuns(c) ==
    /\ cpc[c] = "start"
    /\ SetStatus("RUNNING")
    /\ Call(c, "spawn")
    /\ at' = [at EXCEPT ![c] = 0]
    /\ UNCHANGED <<idle_num, tasks, created, joined, lock, wpc, task,
                   committed, done, before, budget>>

Spawn(c) ==
    /\ cpc[c] = "spawn"
    /\ at[c] < pool_size
    /\ created < pool_size * MaxStarts
    /\ created' = created + 1
    /\ Goto(created + 1, "top")
    /\ at' = [at EXCEPT ![c] = @ + 1]
    /\ UNCHANGED <<status, idle_num, tasks, joined, lock, task, cpc,
                   committed, done, before, since, budget>>

StartReturns(c) ==
    /\ cpc[c] = "spawn"
    /\ at[c] = pool_size
    /\ Call(c, "idle")
    /\ UNCHANGED <<status, idle_num, tasks, created, joined, lock, wpc, task,
                   at, committed, done, before, since, budget>>

(* stop: a store, notify_all, and a join of every thread in the vector.    *)
Stop(c) ==
    /\ MayCall(c, "stop")
    /\ status # "STOP"
    /\ Call(c, "stop")
    /\ UNCHANGED <<status, idle_num, tasks, created, joined, lock, wpc, task,
                   at, committed, done, before, since, budget>>

StopStores(c) ==
    /\ cpc[c] = "stop"
    /\ SetStatus("STOP")
    /\ Call(c, "notify_all")
    /\ UNCHANGED <<idle_num, tasks, created, joined, lock, wpc, task, at,
                   committed, done, before, budget>>

(* Mutant: stop wakes one worker only.                                     *)
NotifyAllOne(c) ==
    /\ cpc[c] = "notify_all"
    /\ \/ Asleep = {} /\ UNCHANGED wpc
       \/ \E w \in Asleep : Goto(w, "woken")
    /\ Call(c, "join")
    /\ at' = [at EXCEPT ![c] = 0]
    /\ UNCHANGED <<status, idle_num, tasks, created, joined, lock, task,
                   committed, done, before, since, budget>>

NotifyAll(c) ==
    /\ cpc[c] = "notify_all"
    /\ wpc' = [w \in Workers |-> IF w \in Asleep THEN "woken" ELSE wpc[w]]
    /\ Call(c, "join")
    /\ at' = [at EXCEPT ![c] = 0]
    /\ UNCHANGED <<status, idle_num, tasks, created, joined, lock, task,
                   committed, done, before, since, budget>>

(* A thread can be joined once: the vector still holds those of an earlier *)
(* start, and join() throws at the first of them.                          *)
Join(c) ==
    LET w == at[c] + 1 IN
    /\ cpc[c] = "join"
    /\ at[c] < created
    /\ \/ /\ w \in joined
          /\ Call(c, "thrown")
          /\ UNCHANGED <<at, joined>>
       \/ /\ w \notin joined /\ wpc[w] = "exited"
          /\ joined' = joined \cup {w}
          /\ at' = [at EXCEPT ![c] = w]
          /\ UNCHANGED cpc
    /\ UNCHANGED <<status, idle_num, tasks, created, lock, wpc, task,
                   committed, done, before, since, budget>>

StopReturns(c) ==
    /\ cpc[c] = "join"
    /\ at[c] = created
    /\ Call(c, "idle")
    /\ UNCHANGED <<status, idle_num, tasks, created, joined, lock, wpc, task,
                   at, committed, done, before, since, budget>>

(* pause and resume test the status and store it in two steps.             *)
Pause(c) ==
    /\ MayCall(c, "pause")
    /\ status = "RUNNING" /\ budget > 0
    /\ budget' = budget - 1
    /\ Call(c, "pause")
    /\ UNCHANGED <<status, idle_num, tasks, created, joined, lock, wpc, task,
                   at, committed, done, before, since>>

Resume(c) ==
    /\ MayCall(c, "resume")
    /\ status = "PAUSE"
    /\ Call(c, "resume")
    /\ UNCHANGED <<status, idle_num, tasks, created, joined, lock, wpc, task,
                   at, committed, done, before, since, budget>>

PauseStores(c) ==
    /\ cpc[c] \in {"pause", "resume"}
    /\ SetStatus(IF cpc[c] = "pause" THEN "PAUSE" ELSE "RUNNING")
    /\ Call(c, "idle")
    /\ UNCHANGED <<idle_num, tasks, created, joined, lock, wpc, task, at,
                   committed, done, before, budget>>

(* wait: the queue is looked at without the mutex, then idle_num.          *)
Wait(c) ==
    /\ MayCall(c, "wait")
    /\ budget > 0
    /\ budget' = budget - 1
    /\ before' = [before EXCEPT ![c] = committed]
    /\ Call(c, "wait")
    /\ UNCHANGED <<status, idle_num, tasks, created, joined, lock, wpc, task,
                   at, committed, done, since>>

WaitLooks(c) ==
    /\ cpc[c] = "wait"
    /\ Call(c, IF status = "STOP" THEN "idle" ELSE "empty?")
    /\ UNCHANGED <<status, idle_num, tasks, created, joined, lock, wpc, task,
                   at, committed, done, before, since, budget>>

WaitEmpty(c) ==
    /\ cpc[c] = "empty?"
    /\ Call(c, IF tasks = <<>> THEN "idle?" ELSE "wait")
    /\ UNCHANGED <<status, idle_num, tasks, created, joined, lock, wpc, task,
                   at, committed, done, before, since, budget>>

WaitCounts(c) ==
    /\ cpc[c] = "idle?"
    /\ Call(c, IF idle_num = pool_size THEN "idle" ELSE "wait")
    /\ UNCHANGED <<status, idle_num, tasks, created, joined, lock, wpc, task,
                   at, committed, done, before, since, budget>>

BeginCall(c) ==
    \/ Commit(c) \/ Start(c) \/ Stop(c) \/ Pause(c) \/ Resume(c) \/ Wait(c)

FinishCall(c) ==
    \/ NotifyOne(c) \/ StartRuns(c) \/ Spawn(c) \/ StartReturns(c)
    \/ StopStores(c) \/ NotifyAll(c) \/ Join(c) \/ StopReturns(c)
    \/ PauseStores(c)
    \/ WaitLooks(c) \/ WaitEmpty(c) \/ WaitCounts(c)

PoolNext ==
    \/ \E w \in Workers : WorkerStep(w) \/ TaskEnds(w)
    \/ \E c \in Callers : BeginCall(c) \/ FinishCall(c)

PoolSpec == PoolInit /\ [][PoolNext]_poolVars

=============================================================================
