--------------------------- MODULE PoolTasksProofs ---------------------------
(***************************************************************************)
(* Theorems about the two pools, for any number of threads, tasks, starts, *)
(* and objects, and any calls of the callers.                              *)
(***************************************************************************)
EXTENDS PoolTasks, FiniteSetTheorems, FunctionTheorems, TLAPS

(* The places of a worker and of a caller.                                 *)
WorkerAt == {"none", "top", "gate", "lock", "test", "sleep", "asleep", "woken",
             "pop", "run", "ran", "exited", "thrown"}
CallerAt == {"idle", "notify", "start", "spawn", "stop", "notify_all", "join",
             "thrown", "pause", "resume", "wait", "empty?",
             "idle?"}

PoolTypes ==
    /\ status \in {"STOP", "RUNNING", "PAUSE"}
    /\ idle_num \in Int
    /\ tasks \in Seq(Task)
    /\ created \in Nat /\ joined \subseteq Workers
    /\ lock \in Workers \cup {NoThread}
    /\ wpc \in [Workers -> WorkerAt]
    /\ task \in [Workers -> Task \cup {NoTask}]
    /\ cpc \in [Callers -> CallerAt]
    /\ done \subseteq Task

(* What TypeOK leaves out: the counters, within their bounds.              *)
Counters ==
    /\ created <= pool_size * MaxStarts
    /\ at \in [Callers -> Nat]
    /\ committed \in 0..MaxTasks
    /\ since \in [Workers -> Nat]

(* A worker holds the mutex exactly between its test and its sleep, its    *)
(* end or its taking a task.                                               *)
LockOK == \A w \in Workers : wpc[w] \in {"test", "sleep", "pop"} <=> lock = w

(* Threads that have not been created do nothing.                          *)
FreshOK == \A w \in Workers : w > created => wpc[w] = "none"

(* Nobody empties the queue between a worker's two looks at it.            *)
PopOK == \A w \in Workers : wpc[w] = "pop" => tasks # <<>>

(* A worker that has taken a task since the pause has not come past the    *)
(* look at the status again.                                               *)
SinceOK ==
    \A w \in Workers :
      \/ since[w] = 0
      \/ since[w] = 1 /\ status = "PAUSE" /\ wpc[w] \in {"run", "ran", "top", "gate"}

(* A worker has a task exactly while it runs it.                           *)
TaskOK == \A w \in Workers : task[w] # NoTask <=> wpc[w] = "run"

(* No task is in two places, and the tasks are those committed.            *)
In(q, t) == \E i \in 1..Len(q) : q[i] = t

PlacesOK ==
    /\ \A i \in 1..Len(tasks) : tasks[i] <= committed /\ tasks[i] \notin done
    /\ \A i, j \in 1..Len(tasks) : tasks[i] = tasks[j] => i = j
    /\ \A w \in Workers : /\ task[w] <= committed
                          /\ task[w] \notin done
                          /\ ~In(tasks, task[w])
    /\ \A v, w \in Workers : task[v] = task[w] /\ task[v] # NoTask => v = w
    /\ \A t \in done : t <= committed

PoolInv ==
    /\ PoolTypes /\ Counters /\ FreshOK /\ LockOK /\ PopOK
    /\ SinceOK /\ TaskOK /\ PlacesOK

-----------------------------------------------------------------------------
(* The steps of the thread pool, and those of the object pool alone.       *)
PoolStep ==
    \/ \E w \in Workers : WorkerStep(w) \/ TaskEnds(w)
    \/ \E c \in Callers : BeginCall(c) \/ FinishCall(c)

LEMMA NextIsPoolStep == [Next]_vars => PoolStep \/ UNCHANGED poolVars
BY DEF Next, vars, Pools, TaskBody, TaskDone, PoolStep

LEMMA WorkersAreNumbers ==
    /\ pool_size * MaxStarts \in Nat
    /\ Workers \subseteq Nat
    /\ \A k \in Nat : k + 1 <= pool_size * MaxStarts => k + 1 \in Workers
    /\ NoThread \notin Workers
<1>1. pool_size * MaxStarts \in Nat
    BY PoolAssumption
<1> QED
    BY <1>1, PoolAssumption DEF Workers

LEMMA PoolInvInit == Init => PoolInv
<1> SUFFICES ASSUME Init PROVE PoolInv
    OBVIOUS
<1> USE DEF Init, PoolInit
<1>1. PoolTypes
    BY PoolAssumption DEF PoolTypes, WorkerAt, CallerAt
<1>2. Counters
    BY WorkersAreNumbers, PoolAssumption DEF Counters
<1>3. FreshOK /\ LockOK /\ PopOK /\ SinceOK /\ TaskOK
    BY WorkersAreNumbers DEF FreshOK, LockOK, PopOK, SinceOK, TaskOK
<1>4. PlacesOK
    BY PoolAssumption DEF PlacesOK, In, NoTask
<1> QED
    BY <1>1, <1>2, <1>3, <1>4 DEF PoolInv

(* The type invariant, action by action.                                   *)
LEMMA PoolTypesNext ==
    PoolInv /\ PoolStep => PoolTypes' /\ Counters'
<1> SUFFICES ASSUME PoolInv, PoolStep
             PROVE  PoolTypes' /\ Counters'
    OBVIOUS
<1> USE DEF PoolTypes, Counters, WorkerAt, CallerAt, Goto, Call, MayCall,
            SetStatus, callers, PoolInv
<1>1. ASSUME NEW w \in Workers, WorkerStep(w) \/ TaskEnds(w)
      PROVE  PoolTypes' /\ Counters'
    <2>1. CASE Top(w) \/ PassGate(w) \/ Sleep(w) \/ ReturnIfStopped(w)
        BY <2>1 DEF Top, PassGate, Sleep, ReturnIfStopped
    <2>2. CASE TestPredicate(w)
        BY <2>2 DEF TestPredicate
    <2>3. CASE TakeBusy(w)
        <3>1. CASE tasks = <<>>
            BY <2>3, <3>1 DEF TakeBusy
        <3>2. CASE tasks # <<>>
            BY <2>3, <3>2 DEF TakeBusy
        <3> QED
            BY <3>1, <3>2
    <2>4. CASE TakePop(w)
        <3>1. Head(tasks) \in Task /\ Tail(tasks) \in Seq(Task)
            BY <2>4 DEF TakePop, PopOK
        <3>2. since' \in [Workers -> Nat]
            BY <2>4 DEF TakePop
        <3> QED
            BY <2>4, <3>1, <3>2 DEF TakePop
    <2>5. CASE TaskEnds(w)
        <3>1. task[w] \in Task
            BY <2>5 DEF TaskEnds, TaskOK
        <3> QED
            BY <2>5, <3>1 DEF TaskEnds
    <2>6. CASE BackToIdle(w)
        BY <2>6 DEF BackToIdle
    <2> QED
        BY <1>1, <2>1, <2>2, <2>3, <2>4, <2>5, <2>6 DEF WorkerStep
<1>2. ASSUME NEW c \in Callers, BeginCall(c)
      PROVE  PoolTypes' /\ Counters'
    <2>1. CASE Commit(c)
        <3>1. committed + 1 \in Task
            BY <2>1, PoolAssumption DEF Commit, Task
        <3>2. tasks' \in Seq(Task) /\ committed' \in 0..MaxTasks
            BY <2>1, <3>1, PoolAssumption DEF Commit, Task
        <3> QED
            BY <2>1, <3>2 DEF Commit
    <2>2. CASE Start(c) \/ Stop(c)
        BY <2>2 DEF Start, Stop
    <2>3. CASE Pause(c) \/ Resume(c)
        BY <2>3 DEF Pause, Resume
    <2>4. CASE Wait(c)
        BY <2>4 DEF Wait
    <2> QED
        BY <1>2, <2>1, <2>2, <2>3, <2>4 DEF BeginCall
<1>3. ASSUME NEW c \in Callers, FinishCall(c)
      PROVE  PoolTypes' /\ Counters'
    <2>1. CASE NotifyOne(c)
        <3>1. wpc' \in [Workers -> WorkerAt]
            BY <2>1 DEF NotifyOne, Asleep
        <3> QED
            BY <2>1, <3>1 DEF NotifyOne
    <2>2. CASE StartRuns(c)
        BY <2>2 DEF StartRuns
    <2>9. CASE StopStores(c)
        BY <2>9 DEF StopStores
    <2>8. CASE PauseStores(c)
        BY <2>8 DEF PauseStores
    <2>3. CASE Spawn(c)
        BY <2>3, WorkersAreNumbers DEF Spawn
    <2>4. CASE StartReturns(c) \/ StopReturns(c)
        BY <2>4 DEF StartReturns, StopReturns
    <2>7. CASE WaitLooks(c) \/ WaitEmpty(c) \/ WaitCounts(c)
        <3>1. cpc' \in [Callers -> CallerAt]
            BY <2>7 DEF WaitLooks, WaitEmpty, WaitCounts
        <3> QED
            BY <2>7, <3>1 DEF WaitLooks, WaitEmpty, WaitCounts
    <2>5. CASE NotifyAll(c)
        BY <2>5 DEF NotifyAll
    <2>6. CASE Join(c)
        <3>1. at[c] + 1 \in Workers
            BY <2>6, WorkersAreNumbers DEF Join
        <3>2. /\ joined' \subseteq Workers /\ at' \in [Callers -> Nat]
              /\ cpc' \in [Callers -> CallerAt]
            <4>1. CASE at[c] + 1 \in joined
                BY <2>6, <4>1 DEF Join
            <4>2. CASE at[c] + 1 \notin joined
                <5>1. /\ joined' = joined \cup {at[c] + 1} /\ cpc' = cpc
                      /\ at' = [at EXCEPT ![c] = at[c] + 1]
                    BY <2>6, <4>2 DEF Join
                <5>2. joined' \subseteq Workers /\ cpc' \in [Callers -> CallerAt]
                    BY <3>1, <5>1
                <5>3. at[c] + 1 \in Nat /\ at' \in [Callers -> Nat]
                    BY <5>1
                <5> QED
                    BY <5>2, <5>3
            <4> QED
                BY <4>1, <4>2
        <3>3. UNCHANGED <<status, idle_num, tasks, created, lock, wpc, task,
                          committed, done, since>>
            BY <2>6 DEF Join
        <3> QED
            BY <3>2, <3>3
    <2> QED
        BY <1>3, <2>1, <2>2, <2>3, <2>4, <2>5, <2>6, <2>7, <2>8, <2>9 DEF FinishCall
<1> QED
    BY <1>1, <1>2, <1>3 DEF PoolStep

-----------------------------------------------------------------------------
(* The calls that touch neither the queue nor a worker.                    *)
work == <<tasks, lock, wpc, task, committed, done>>

Aside(c) ==
    \/ Start(c) \/ Stop(c) \/ Pause(c) \/ Resume(c) \/ Wait(c)
    \/ StartReturns(c) \/ StopReturns(c) \/ WaitLooks(c) \/ WaitEmpty(c)
    \/ WaitCounts(c)
    \/ Join(c)

Stores(c) == StartRuns(c) \/ StopStores(c) \/ PauseStores(c)

(* Those that move workers, from one place to another and nothing else.    *)
Moves(c) == NotifyOne(c) \/ NotifyAll(c) \/ Spawn(c)

LEMMA CallerSteps ==
    ASSUME NEW c \in Callers, BeginCall(c) \/ FinishCall(c)
    PROVE  Aside(c) \/ Stores(c) \/ Moves(c) \/ Commit(c)
BY DEF BeginCall, FinishCall, Aside, Stores, Moves

LEMMA AsideChangesNothing ==
    ASSUME NEW c \in Callers, Aside(c)
    PROVE  UNCHANGED work /\ UNCHANGED <<status, since, created>>
BY DEF Aside, Start, Stop, Pause, Resume, Wait, StartReturns, StopReturns,
       WaitLooks, WaitEmpty, WaitCounts, Join, work

LEMMA StoresResets ==
    ASSUME NEW c \in Callers, Stores(c)
    PROVE  UNCHANGED work /\ UNCHANGED created /\ since' = [w \in Workers |-> 0]
BY DEF Stores, StartRuns, StopStores, PauseStores, SetStatus, work

LEMMA MovesWorkers ==
    ASSUME NEW c \in Callers, PoolTypes, Counters, FreshOK, Moves(c)
    PROVE  /\ UNCHANGED <<status, tasks, lock, task, committed, done, since>>
           /\ \A w \in Workers : \/ wpc'[w] = wpc[w]
                                 \/ wpc[w] = "asleep" /\ wpc'[w] = "woken"
                                 \/ wpc[w] = "none" /\ wpc'[w] = "top"
           /\ FreshOK'
<1>0. wpc \in [Workers -> WorkerAt] /\ created \in Nat
    BY DEF PoolTypes
<1>1. CASE NotifyOne(c)
    <2>1. CASE Asleep = {} /\ UNCHANGED wpc
        BY <1>1, <2>1 DEF NotifyOne, FreshOK
    <2>2. ASSUME NEW w \in Asleep, Goto(w, "woken")
          PROVE  \A v \in Workers : \/ wpc'[v] = wpc[v]
                                    \/ wpc[v] = "asleep" /\ wpc'[v] = "woken"
        BY <1>0, <2>2 DEF Asleep, Goto
    <2>3. \A w \in Workers : wpc'[w] = wpc[w] \/ (wpc[w] = "asleep" /\ wpc'[w] = "woken")
        BY <1>1, <2>1, <2>2 DEF NotifyOne
    <2>4. UNCHANGED <<status, tasks, lock, task, committed, done, since, created>>
        BY <1>1 DEF NotifyOne
    <2> QED
        BY <2>3, <2>4 DEF FreshOK
<1>2. CASE NotifyAll(c)
    BY <1>0, <1>2 DEF NotifyAll, Asleep, FreshOK
<1>3. CASE Spawn(c)
    <2>1. created + 1 \in Workers /\ created' = created + 1
        BY <1>0, <1>3, WorkersAreNumbers DEF Spawn
    <2>2. wpc' = [wpc EXCEPT ![created + 1] = "top"]
        BY <1>3 DEF Spawn, Goto
    <2>3. wpc[created + 1] = "none"
        BY <1>0, <2>1 DEF FreshOK
    <2>4. FreshOK'
        <3>1. created \in Nat /\ \A w \in Workers : w \in Nat
            BY <1>0, WorkersAreNumbers
        <3>2. ASSUME NEW w \in Workers, w > created'
              PROVE  wpc'[w] = "none"
            <4>1. w > created /\ w # created + 1
                BY <2>1, <3>1, <3>2
            <4> QED
                BY <1>0, <2>2, <4>1 DEF FreshOK
        <3> QED
            BY <3>2 DEF FreshOK
    <2>5. \A w \in Workers : \/ wpc'[w] = wpc[w]
                             \/ wpc[w] = "none" /\ wpc'[w] = "top"
        BY <1>0, <2>1, <2>2, <2>3
    <2>6. UNCHANGED <<status, tasks, lock, task, committed, done, since>>
        BY <1>3 DEF Spawn
    <2> QED
        BY <2>4, <2>5, <2>6
<1> QED
    BY <1>1, <1>2, <1>3 DEF Moves

(* What the call steps preserve.                                           *)
LEMMA WorkNext ==
    ASSUME PoolInv, UNCHANGED work, UNCHANGED created,
           UNCHANGED <<status, since>> \/ since' = [w \in Workers |-> 0]
    PROVE  FreshOK' /\ LockOK' /\ PopOK' /\ SinceOK' /\ TaskOK' /\ PlacesOK'
BY DEF PoolInv, work, FreshOK, LockOK, PopOK, SinceOK, TaskOK, PlacesOK, In

LEMMA MovesNext ==
    ASSUME PoolInv, NEW c \in Callers, Moves(c)
    PROVE  FreshOK' /\ LockOK' /\ PopOK' /\ SinceOK' /\ TaskOK' /\ PlacesOK'
<1>1. FreshOK'
    BY MovesWorkers DEF PoolInv
<1>2. LockOK' /\ PopOK'
    BY MovesWorkers DEF PoolInv, LockOK, PopOK
<1>3. SinceOK' /\ TaskOK'
    BY MovesWorkers DEF PoolInv, SinceOK, TaskOK
<1>4. PlacesOK'
    BY MovesWorkers DEF PoolInv, PlacesOK, In
<1> QED
    BY <1>1, <1>2, <1>3, <1>4

(* What a worker's own steps preserve, but for the placement of the tasks. *)
LEMMA WorkerNext ==
    ASSUME PoolInv, NEW w \in Workers, WorkerStep(w) \/ TaskEnds(w)
    PROVE  FreshOK' /\ LockOK' /\ PopOK' /\ SinceOK' /\ TaskOK'
<1>0. /\ wpc \in [Workers -> WorkerAt] /\ since \in [Workers -> Nat]
      /\ task \in [Workers -> Task \cup {NoTask}] /\ NoThread \notin Workers
      /\ lock \in Workers \cup {NoThread} /\ tasks \in Seq(Task)
    BY WorkersAreNumbers DEF PoolInv, PoolTypes, Counters
<1> USE DEF Goto
<1>1. FreshOK'
    <2>1. created' = created /\ wpc[w] # "none" /\ \A v \in Workers : v # w => wpc'[v] = wpc[v]
        BY <1>0 DEF WorkerStep, Top, PassGate, TestPredicate, Sleep, ReturnIfStopped,
                    TakeBusy, TakePop, TaskEnds, BackToIdle
    <2> QED
        BY <2>1 DEF PoolInv, FreshOK
<1>2. LockOK'
    <2>0. LockOK
        BY DEF PoolInv
    <2>1. CASE Top(w) \/ PassGate(w) \/ TaskEnds(w) \/ BackToIdle(w)
        BY <1>0, <2>0, <2>1 DEF LockOK, Top, PassGate, TaskEnds, BackToIdle
    <2>2. CASE TestPredicate(w)
        BY <1>0, <2>0, <2>2 DEF LockOK, TestPredicate
    <2>3. CASE Sleep(w) \/ ReturnIfStopped(w) \/ TakePop(w)
        BY <1>0, <2>0, <2>3 DEF LockOK, Sleep, ReturnIfStopped, TakePop
    <2>4. CASE TakeBusy(w)
        BY <1>0, <2>0, <2>4 DEF LockOK, TakeBusy
    <2> QED
        BY <2>1, <2>2, <2>3, <2>4 DEF WorkerStep
<1>3. PopOK'
    <2>0. PopOK /\ LockOK
        BY DEF PoolInv
    <2>1. CASE TakePop(w)
        BY <1>0, <2>0, <2>1 DEF PopOK, LockOK, TakePop
    <2>2. CASE TakeBusy(w)
        BY <1>0, <2>0, <2>2 DEF PopOK, TakeBusy
    <2>3. CASE ~TakePop(w) /\ ~TakeBusy(w)
        <3>1. tasks' = tasks /\ \A v \in Workers : wpc'[v] = "pop" => wpc[v] = "pop"
            BY <1>0, <2>3 DEF WorkerStep, Top, PassGate, TestPredicate, Sleep,
                              ReturnIfStopped, TaskEnds, BackToIdle
        <3> QED
            BY <2>0, <3>1 DEF PopOK
    <2> QED
        BY <2>1, <2>2, <2>3
<1>4. SinceOK'
    <2>0. SinceOK
        BY DEF PoolInv
    <2>1. CASE TakePop(w)
        BY <1>0, <2>0, <2>1 DEF SinceOK, TakePop
    <2>2. CASE PassGate(w)
        <3>1. since[w] = 0
            BY <2>0, <2>2 DEF SinceOK, PassGate
        <3> QED
            BY <1>0, <2>0, <2>2, <3>1 DEF SinceOK, PassGate
    <2>3. CASE Top(w) \/ TestPredicate(w) \/ Sleep(w) \/ ReturnIfStopped(w)
        BY <1>0, <2>0, <2>3 DEF SinceOK, Top, TestPredicate, Sleep, ReturnIfStopped
    <2>4. CASE TakeBusy(w)
        BY <1>0, <2>0, <2>4 DEF SinceOK, TakeBusy
    <2>5. CASE TaskEnds(w) \/ BackToIdle(w)
        BY <1>0, <2>0, <2>5 DEF SinceOK, TaskEnds, BackToIdle
    <2> QED
        BY <2>1, <2>2, <2>3, <2>4, <2>5 DEF WorkerStep
<1>5. TaskOK'
    <2>0. TaskOK
        BY DEF PoolInv
    <2>1. CASE TakePop(w)
        <3>1. Head(tasks) \in Task
            BY <1>0, <2>1 DEF TakePop, PoolInv, PopOK
        <3> QED
            BY <1>0, <2>0, <2>1, <3>1 DEF TaskOK, TakePop, Task, NoTask
    <2>2. CASE ~TakePop(w)
        BY <1>0, <2>0, <2>2 DEF TaskOK, WorkerStep, Top, PassGate, TestPredicate, Sleep,
                                ReturnIfStopped, TakeBusy, TaskEnds, BackToIdle
    <2> QED
        BY <2>1, <2>2
<1> QED
    BY <1>1, <1>2, <1>3, <1>4, <1>5

(* Tasks move from the queue to a worker and on, one at a time.            *)
LEMMA PlacesNext == PoolInv /\ PoolStep => PlacesOK'
<1> SUFFICES ASSUME PoolInv, PoolStep PROVE PlacesOK'
    OBVIOUS
<1>0. /\ tasks \in Seq(Task) /\ task \in [Workers -> Task \cup {NoTask}]
      /\ done \subseteq Task /\ committed \in 0..MaxTasks /\ committed' \in 0..MaxTasks
      /\ TaskOK /\ PopOK /\ PlacesOK
    BY PoolTypesNext DEF PoolInv, PoolTypes, Counters
<1>1. \A t \in Task : t \in Nat /\ t # 0
    BY DEF Task
<1>2. ASSUME NEW w \in Workers, TakePop(w)
      PROVE  PlacesOK'
    <2>1. tasks # <<>>
        BY <1>0, <1>2 DEF PopOK, TakePop
    <2>2. /\ tasks' \in Seq(Task) /\ Len(tasks') = Len(tasks) - 1
          /\ \A i \in 1..Len(tasks') : i + 1 \in 1..Len(tasks) /\ tasks'[i] = tasks[i + 1]
        BY <1>0, <1>2, <2>1 DEF TakePop
    <2>3. /\ task' = [task EXCEPT ![w] = tasks[1]] /\ 1 \in 1..Len(tasks)
          /\ committed' = committed /\ done' = done
        BY <1>0, <1>2, <2>1 DEF TakePop
    <2>4. \A t : In(tasks', t) => In(tasks, t)
        BY <2>2 DEF In
    <2>5. ~In(tasks', tasks[1])
        <3>1. ASSUME NEW i \in 1..Len(tasks') PROVE tasks'[i] # tasks[1]
            BY <1>0, <2>2, <2>3 DEF PlacesOK
        <3> QED
            BY <3>1, <2>3 DEF In
    <2>6. In(tasks, tasks[1])
        BY <2>3 DEF In
    <2>7. \A i \in 1..Len(tasks') : tasks'[i] <= committed /\ tasks'[i] \notin done
        BY <1>0, <2>2 DEF PlacesOK
    <2>8. \A i, j \in 1..Len(tasks') : tasks'[i] = tasks'[j] => i = j
        BY <1>0, <2>2 DEF PlacesOK
    <2>9. \A v \in Workers : /\ task'[v] <= committed
                             /\ task'[v] \notin done
                             /\ ~In(tasks', task'[v])
        BY <1>0, <2>3, <2>4, <2>5 DEF PlacesOK
    <2>10. \A u, v \in Workers : task'[u] = task'[v] /\ task'[u] # NoTask => u = v
        BY <1>0, <2>3, <2>6 DEF PlacesOK
    <2> QED
        BY <1>0, <2>3, <2>7, <2>8, <2>9, <2>10 DEF PlacesOK, In
<1>3. ASSUME NEW w \in Workers, TaskEnds(w)
      PROVE  PlacesOK'
    <2>1. /\ task[w] \in Task /\ task' = [task EXCEPT ![w] = NoTask]
          /\ done' = done \cup {task[w]} /\ tasks' = tasks /\ committed' = committed
        BY <1>0, <1>3 DEF TaskEnds, TaskOK
    <2>2. /\ \A i \in 1..Len(tasks) : tasks[i] <= committed /\ tasks[i] \notin done'
          /\ \A i, j \in 1..Len(tasks) : tasks[i] = tasks[j] => i = j
          /\ \A t \in done' : t <= committed
        BY <1>0, <2>1 DEF PlacesOK, In
    <2>3. ASSUME NEW v \in Workers
          PROVE  task'[v] <= committed /\ task'[v] \notin done' /\ ~In(tasks', task'[v])
        <3>1. CASE v = w
            BY <1>0, <1>1, <2>1, <3>1 DEF In, NoTask
        <3>2. CASE v # w
            BY <1>0, <1>1, <2>1, <3>2 DEF PlacesOK, NoTask
        <3> QED
            BY <3>1, <3>2
    <2>4. \A u, v \in Workers : task'[u] = task'[v] /\ task'[u] # NoTask => u = v
        BY <1>0, <2>1 DEF PlacesOK
    <2> QED
        BY <2>1, <2>2, <2>3, <2>4 DEF PlacesOK, In
<1>4. ASSUME NEW c \in Callers, Commit(c)
      PROVE  PlacesOK'
    <2>1. /\ committed' = committed + 1 /\ tasks' = Append(tasks, committed + 1)
          /\ done' = done /\ task' = task /\ committed + 1 \in Task
        BY <1>0, <1>4 DEF Commit, Task
    <2>2. /\ Len(tasks') = Len(tasks) + 1
          /\ \A i \in 1..Len(tasks') : /\ i \in 1..Len(tasks) => tasks'[i] = tasks[i]
                                       /\ i \notin 1..Len(tasks) => tasks'[i] = committed + 1 /\ i = Len(tasks) + 1
        BY <1>0, <2>1
    <2>3. \A i \in 1..Len(tasks) : tasks[i] \in Nat /\ tasks[i] <= committed /\ tasks[i] \notin done
        BY <1>0, <1>1 DEF PlacesOK
    <2>4. \A i \in 1..Len(tasks') : tasks'[i] <= committed' /\ tasks'[i] \notin done'
        BY <1>0, <2>1, <2>2, <2>3 DEF PlacesOK
    <2>5. \A i, j \in 1..Len(tasks') : tasks'[i] = tasks'[j] => i = j
        BY <1>0, <2>1, <2>2, <2>3 DEF PlacesOK
    <2>6. ASSUME NEW v \in Workers
          PROVE  task'[v] <= committed' /\ task'[v] \notin done' /\ ~In(tasks', task'[v])
        <3>1. task[v] \in Nat /\ task[v] <= committed /\ task[v] \notin done /\ ~In(tasks, task[v])
            BY <1>0, <1>1 DEF PlacesOK, NoTask
        <3>2. \A i \in 1..Len(tasks') : tasks'[i] # task[v]
            BY <1>0, <2>1, <2>2, <3>1 DEF In
        <3> QED
            BY <1>0, <2>1, <3>1, <3>2 DEF In
    <2>7. \A t \in done' : t <= committed'
        BY <1>0, <1>1, <2>1 DEF PlacesOK
    <2>8. \A u, v \in Workers : task'[u] = task'[v] /\ task'[u] # NoTask => u = v
        BY <1>0, <2>1 DEF PlacesOK
    <2> QED
        BY <2>4, <2>5, <2>6, <2>7, <2>8 DEF PlacesOK, In
<1>5. CASE UNCHANGED <<tasks, task, committed, done>>
    BY <1>0, <1>5 DEF PlacesOK, In
<1>6. ASSUME NEW w \in Workers, WorkerStep(w)
      PROVE  TakePop(w) \/ UNCHANGED <<tasks, task, committed, done>>
    BY <1>6 DEF WorkerStep, Top, PassGate, TestPredicate, Sleep, ReturnIfStopped,
                TakeBusy, BackToIdle, callers
<1>7. ASSUME NEW c \in Callers, BeginCall(c) \/ FinishCall(c)
      PROVE  Commit(c) \/ UNCHANGED <<tasks, task, committed, done>>
    BY <1>7, CallerSteps, AsideChangesNothing, StoresResets, MovesWorkers
    DEF work, PoolInv
<1> QED
    BY <1>2, <1>3, <1>4, <1>5, <1>6, <1>7 DEF PoolStep

LEMMA CommitNext ==
    ASSUME PoolInv, NEW c \in Callers, Commit(c)
    PROVE  FreshOK' /\ LockOK' /\ PopOK' /\ SinceOK' /\ TaskOK'
<1>1. /\ UNCHANGED <<status, created, lock, wpc, task, since>>
      /\ tasks' = Append(tasks, committed + 1)
    BY DEF Commit
<1>2. tasks' # <<>>
    BY <1>1 DEF PoolInv, PoolTypes
<1> QED
    BY <1>1, <1>2 DEF PoolInv, FreshOK, LockOK, PopOK, SinceOK, TaskOK

LEMMA PoolInvNext == PoolInv /\ [Next]_vars => PoolInv'
<1> SUFFICES ASSUME PoolInv, [Next]_vars PROVE PoolInv'
    OBVIOUS
<1>1. CASE PoolStep
    <2>1. PoolTypes' /\ Counters' /\ PlacesOK'
        BY <1>1, PoolTypesNext, PlacesNext
    <2>2. ASSUME NEW w \in Workers, WorkerStep(w) \/ TaskEnds(w)
          PROVE  FreshOK' /\ LockOK' /\ PopOK' /\ SinceOK' /\ TaskOK'
        BY <2>2, WorkerNext
    <2>3. ASSUME NEW c \in Callers, BeginCall(c) \/ FinishCall(c)
          PROVE  FreshOK' /\ LockOK' /\ PopOK' /\ SinceOK' /\ TaskOK'
        <3>1. CASE Aside(c)
            BY <3>1, AsideChangesNothing, WorkNext
        <3>2. CASE Stores(c)
            BY <3>2, StoresResets, WorkNext
        <3>3. CASE Moves(c)
            BY <3>3, MovesNext
        <3>4. CASE Commit(c)
            BY <3>4, CommitNext
        <3> QED
            BY <2>3, <3>1, <3>2, <3>3, <3>4, CallerSteps
    <2> QED
        BY <1>1, <2>1, <2>2, <2>3 DEF PoolStep, PoolInv
<1>2. CASE UNCHANGED poolVars
    <2>1. PoolTypes' /\ Counters' /\ PlacesOK'
        BY <1>2 DEF poolVars, callers, PoolInv, PoolTypes, Counters, PlacesOK, In
    <2>2. UNCHANGED work /\ UNCHANGED created /\ UNCHANGED <<status, since>>
        BY <1>2 DEF poolVars, work
    <2> QED
        BY <2>1, <2>2, WorkNext DEF PoolInv
<1> QED
    BY <1>1, <1>2, NextIsPoolStep

LEMMA PoolInvHolds == Spec => []PoolInv
BY PoolInvInit, PoolInvNext, PTL DEF Spec

(* hthreadpool.h:31-33, 70-75: while the pool is paused no worker takes    *)
(* more than one task, however many were past their look at the status or  *)
(* asleep in the condition variable when pause() stored it.                *)
THEOREM PauseLimit == Spec => []PauseHolds
<1>1. PoolInv => PauseHolds
    BY DEF PoolInv, SinceOK, PauseHolds
<1> QED
    BY <1>1, PoolInvHolds, PTL

-----------------------------------------------------------------------------
(* The tasks of the pool are those of TaskQueue.                           *)
Running == {task[w] : w \in Workers} \ {NoTask}

LEMMA TakeIsTake ==
    ASSUME PoolInv, NEW w \in Workers, TakePop(w)
    PROVE  Queue!Take
<1>a. /\ tasks \in Seq(Task) /\ task \in [Workers -> Task \cup {NoTask}]
      /\ tasks # <<>>
    BY DEF PoolInv, PoolTypes, PopOK, TakePop
<1>b. Head(tasks) \in Task
    BY <1>a
<1>0. /\ tasks \in Seq(Task) /\ task \in [Workers -> Task \cup {NoTask}]
      /\ tasks # <<>> /\ Head(tasks) \in Task /\ Head(tasks) # NoTask
    BY <1>a, <1>b DEF Task, NoTask
<1>1. task[w] = NoTask /\ task' = [task EXCEPT ![w] = Head(tasks)]
    BY DEF TakePop, PoolInv, TaskOK
<1>2. Running' = Running \cup {Head(tasks)}
    BY <1>0, <1>1 DEF Running
<1> QED
    BY <1>0, <1>2 DEF Queue!Take, TakePop, Running

LEMMA EndIsComplete ==
    ASSUME PoolInv, NEW w \in Workers, TaskEnds(w)
    PROVE  \E t \in Task : Queue!Complete(t)
<1>0. /\ task \in [Workers -> Task \cup {NoTask}] /\ task[w] \in Task
      /\ task[w] # NoTask
    BY DEF PoolInv, PoolTypes, TaskOK, TaskEnds
<1>1. \A v \in Workers : task[v] = task[w] => v = w
    BY <1>0 DEF PoolInv, PlacesOK
<1>2. task' = [task EXCEPT ![w] = NoTask]
    BY DEF TaskEnds
<1>3. Running' = Running \ {task[w]} /\ task[w] \in Running
    BY <1>0, <1>1, <1>2 DEF Running
<1> QED
    BY <1>0, <1>3 DEF Queue!Complete, TaskEnds, Running

LEMMA CommitIsCommit ==
    ASSUME PoolInv, NEW c \in Callers, Commit(c)
    PROVE  \E t \in Task : Queue!Commit(t)
<1>0. /\ task \in [Workers -> Task \cup {NoTask}] /\ tasks \in Seq(Task)
      /\ committed \in 0..MaxTasks /\ done \subseteq Task
      /\ PlacesOK
    BY DEF PoolInv, PoolTypes, Counters
<1>1. committed + 1 \in Task /\ UNCHANGED <<task, done>>
      /\ tasks' = Append(tasks, committed + 1)
    BY <1>0, PoolAssumption DEF Commit, Task
<1>2. \A i \in 1..Len(tasks) : tasks[i] # committed + 1
    BY <1>0 DEF PlacesOK, Task
<1>3. committed + 1 \notin done
    BY <1>0 DEF PlacesOK, Task
<1>4. committed + 1 \notin Running
    BY <1>0 DEF PlacesOK, Running, Task
<1>5. Queue!IsNew(committed + 1)
    BY <1>2, <1>3, <1>4 DEF Queue!IsNew, Running
<1>6. Running' = Running
    BY <1>1 DEF Running
<1> QED
    BY <1>1, <1>5, <1>6 DEF Queue!Commit, Running

LEMMA OthersStutter ==
    UNCHANGED <<tasks, task, done>> => UNCHANGED <<tasks, Running, done>>
BY DEF Running

LEMMA StepIsQueueStep ==
    PoolInv /\ [Next]_vars => [Queue!QueueNext]_<<tasks, Running, done>>
<1> SUFFICES ASSUME PoolInv, [Next]_vars
             PROVE  [Queue!QueueNext]_<<tasks, Running, done>>
    OBVIOUS
<1>1. ASSUME NEW w \in Workers, WorkerStep(w)
      PROVE  TakePop(w) \/ UNCHANGED <<tasks, task, done>>
    BY <1>1 DEF WorkerStep, Top, PassGate, TestPredicate, Sleep, ReturnIfStopped,
                TakeBusy, BackToIdle
<1>2. ASSUME NEW c \in Callers, BeginCall(c) \/ FinishCall(c)
      PROVE  Commit(c) \/ UNCHANGED <<tasks, task, done>>
    BY <1>2, CallerSteps, AsideChangesNothing, StoresResets, MovesWorkers
    DEF work, PoolInv
<1>3. CASE UNCHANGED <<tasks, task, done>>
    BY <1>3, OthersStutter
<1>4. UNCHANGED poolVars => UNCHANGED <<tasks, task, done>>
    BY DEF poolVars
<1> QED
    BY <1>1, <1>2, <1>3, <1>4, NextIsPoolStep, TakeIsTake, EndIsComplete,
       CommitIsCommit
    DEF PoolStep, Queue!QueueNext

(* hthreadpool.h:41-54, 100-116: whatever is paused, stopped, started or   *)
(* woken, a task committed is taken once, in the order of the commits, by  *)
(* one worker, and is then done once.                                      *)
THEOREM QueueImplemented == Spec => IsTaskQueue
<1>1. Init => Queue!QueueInit
    BY WorkersAreNumbers DEF Init, PoolInit, Queue!QueueInit
<1>2. PoolInv /\ [Next]_vars =>
        [Queue!QueueNext]_<<tasks, {task[w] : w \in Workers} \ {NoTask}, done>>
    BY StepIsQueueStep DEF Running
<1> QED
    BY <1>1, <1>2, PoolInvHolds, PTL DEF Spec, IsTaskQueue, Queue!QueueSpec

-----------------------------------------------------------------------------
(* The object pool.                                                        *)
BorrowerAt == {"out", "none_idle", "creating", "asleep", "woken", "has", "over"}

(* How many borrowers f puts at l.                                         *)
Number(f, l) == Cardinality({b \in Borrowers : f[b] = l})

Most == IF InitNum > MaxNum THEN InitNum ELSE MaxNum

ObjectTypes ==
    /\ object_num \in Int /\ debt \in Nat
    /\ objects \in Seq(Object)
    /\ made \in 0..MaxObjects
    /\ bpc \in [Borrowers -> BorrowerAt]
    /\ held \in [Borrowers -> Object \cup {NoObject}]

(* A borrower has an object exactly when it says so.                       *)
HeldOK == \A b \in Borrowers : held[b] # NoObject <=> bpc[b] = "has"

(* No object is in two places, and none has a number yet to come.          *)
ObjectPlaces ==
    /\ \A i \in 1..Len(objects) : objects[i] <= made
    /\ \A i, j \in 1..Len(objects) : objects[i] = objects[j] => i = j
    /\ \A b \in Borrowers :
         held[b] # NoObject => held[b] <= made /\ ~In(objects, held[b])
    /\ \A a, b \in Borrowers : held[a] = held[b] /\ held[a] # NoObject => a = b

(* The count, and its limit.                                               *)
CountOK ==
    /\ object_num = Len(objects) + Number(bpc, "has") + Number(bpc, "creating") - debt
    /\ object_num <= Most

ObjectInv == ObjectTypes /\ HeldOK /\ ObjectPlaces /\ CountOK

SleepOK ==
    (\E b \in Borrowers : bpc[b] = "asleep") /\ ~slipped
      => Len(objects) <= Number(bpc, "woken")

LEMMA BorrowersFinite == IsFiniteSet(Borrowers)
BY BorrowersAreWorkers, WorkersAreNumbers, FS_Interval DEF Workers

LEMMA NumberIsNat == ASSUME NEW f, NEW l PROVE Number(f, l) \in Nat
BY BorrowersFinite, FS_Subset, FS_CardinalityType DEF Number

(* A borrower that comes to m is counted there, and one that leaves is not *)
(* any more.                                                               *)
LEMMA NumberComes ==
    ASSUME NEW f, NEW g, NEW m, NEW b \in Borrowers, f[b] # m, g[b] = m,
           \A x \in Borrowers \ {b} : g[x] = m <=> f[x] = m
    PROVE  Number(g, m) = Number(f, m) + 1
<1> DEFINE S == {x \in Borrowers : f[x] = m}
           T == {x \in Borrowers : g[x] = m}
<1>1. IsFiniteSet(S) /\ Cardinality(S) \in Nat
    BY BorrowersFinite, FS_Subset, FS_CardinalityType
<1>2. T = S \cup {b} /\ b \notin S
    OBVIOUS
<1> QED
    BY <1>1, <1>2, FS_AddElement DEF Number

LEMMA NumberLeaves ==
    ASSUME NEW f, NEW g, NEW m, NEW b \in Borrowers, f[b] = m, g[b] # m,
           \A x \in Borrowers \ {b} : g[x] = m <=> f[x] = m
    PROVE  Number(g, m) = Number(f, m) - 1
<1> DEFINE S == {x \in Borrowers : f[x] = m}
           T == {x \in Borrowers : g[x] = m}
<1>1. IsFiniteSet(S) /\ Cardinality(S) \in Nat
    BY BorrowersFinite, FS_Subset, FS_CardinalityType
<1>2. T = S \ {b} /\ b \in S
    OBVIOUS
<1> QED
    BY <1>1, <1>2, FS_RemoveElement DEF Number

LEMMA NumberStays ==
    ASSUME NEW f, NEW g, NEW m, \A x \in Borrowers : g[x] = m <=> f[x] = m
    PROVE  Number(g, m) = Number(f, m)
<1>1. {x \in Borrowers : g[x] = m} = {x \in Borrowers : f[x] = m}
    OBVIOUS
<1> QED
    BY <1>1 DEF Number

(* One borrower moves.                                                     *)
LEMMA NumberMoves ==
    ASSUME NEW f, NEW g, NEW b \in Borrowers, f[b] # g[b],
           \A x \in Borrowers \ {b} : g[x] = f[x]
    PROVE  \A m : Number(g, m) = IF m = g[b] THEN Number(f, m) + 1
                                 ELSE IF m = f[b] THEN Number(f, m) - 1
                                 ELSE Number(f, m)
<1> TAKE m
<1>1. CASE m = g[b]
    BY <1>1, NumberComes
<1>2. CASE m # g[b] /\ m = f[b]
    BY <1>2, NumberLeaves
<1>3. CASE m # g[b] /\ m # f[b]
    BY <1>3, NumberStays
<1> QED
    BY <1>1, <1>2, <1>3

LEMMA MoveCounts ==
    ASSUME bpc \in [Borrowers -> BorrowerAt], NEW b \in Borrowers, NEW l, At(b, l),
           bpc[b] # l
    PROVE  \A m : Number(bpc', m) = IF m = l THEN Number(bpc, m) + 1
                                    ELSE IF m = bpc[b] THEN Number(bpc, m) - 1
                                    ELSE Number(bpc, m)
<1>0. /\ bpc'[b] = l
      /\ \A x \in Borrowers \ {b} : bpc'[x] = bpc[x]
    BY DEF At
<1> QED
    BY <1>0, NumberMoves

LEMMA NotifyCounts ==
    ASSUME NEW b \in Borrowers, NEW s \in Borrowers
    PROVE  /\ bpc \in [Borrowers -> BorrowerAt]
           /\ bpc[b] = "has" /\ bpc[s] = "asleep"
           /\ bpc' = [bpc EXCEPT ![b] = "over", ![s] = "woken"]
           => \A m : Number(bpc', m) =
                IF m = "woken" \/ m = "over" THEN Number(bpc, m) + 1
                ELSE IF m = "has" \/ m = "asleep" THEN Number(bpc, m) - 1
                ELSE Number(bpc, m)
<1>1. ASSUME bpc \in [Borrowers -> BorrowerAt],
             bpc[b] = "has", bpc[s] = "asleep",
             bpc' = [bpc EXCEPT ![b] = "over", ![s] = "woken"]
      PROVE  \A m : Number(bpc', m) =
               IF m = "woken" \/ m = "over" THEN Number(bpc, m) + 1
               ELSE IF m = "has" \/ m = "asleep" THEN Number(bpc, m) - 1
               ELSE Number(bpc, m)
    <2> DEFINE g == [bpc EXCEPT ![b] = "over"]
    <2>1. g[b] = "over" /\ bpc'[s] = "woken" /\ g[s] = "asleep"
        BY <1>1
    <2>2. /\ \A x \in Borrowers \ {b} : g[x] = bpc[x]
          /\ \A x \in Borrowers \ {s} : bpc'[x] = g[x]
        BY <1>1
    <2> HIDE DEF g
    <2>3. bpc[b] # g[b]
        BY <1>1, <2>1
    <2>4. g[s] # bpc'[s]
        BY <2>1
    <2>5. \A m : Number(g, m) = IF m = g[b] THEN Number(bpc, m) + 1
                                ELSE IF m = bpc[b] THEN Number(bpc, m) - 1
                                ELSE Number(bpc, m)
        BY <2>2, <2>3, NumberMoves
    <2>6. \A m : Number(bpc', m) = IF m = bpc'[s] THEN Number(g, m) + 1
                                   ELSE IF m = g[s] THEN Number(g, m) - 1
                                   ELSE Number(g, m)
        BY <2>2, <2>4, NumberMoves
    <2> QED
        BY <1>1, <2>1, <2>5, <2>6
<1> QED
    BY <1>1

(* The steps of the object pool, and those of the thread pool alone.       *)
TaskOver(b) ==
    /\ bpc[b] = "over"
    /\ At(b, "out")
    /\ UNCHANGED <<object_num, objects, made, held, manage, debt, slipped>>

ObjectStep ==
    \/ \E b \in Borrowers : BorrowStep(b) \/ Return(b) \/ TaskOver(b)
    \/ ManageStep

LEMMA NextIsObjectStep == [Next]_vars => ObjectStep \/ UNCHANGED objectVars
BY BorrowersAreWorkers DEF Next, vars, Pools, TaskBody, TaskDone, ObjectStep, TaskOver

LEMMA ObjectInvInit == Init => ObjectInv /\ SleepOK
<1> SUFFICES ASSUME Init PROVE ObjectInv /\ SleepOK
    OBVIOUS
<1> USE DEF Init, ObjectInit
<1>1. ObjectTypes
    BY ObjectAssumption DEF ObjectTypes, Object, BorrowerAt
<1>2. HeldOK
    BY DEF HeldOK
<1>3. ObjectPlaces
    BY ObjectAssumption DEF ObjectPlaces
<1>4. CountOK
    <2>1. /\ {b \in Borrowers : bpc[b] = "has"} = {}
          /\ {b \in Borrowers : bpc[b] = "creating"} = {}
        OBVIOUS
    <2>2. Number(bpc, "has") = 0 /\ Number(bpc, "creating") = 0
        BY <2>1, FS_EmptySet DEF Number
    <2>3. Len(objects) = InitNum
        BY ObjectAssumption
    <2> QED
        BY <2>2, <2>3, ObjectAssumption DEF CountOK, Most
<1>5. SleepOK
    BY DEF SleepOK
<1> QED
    BY <1>1, <1>2, <1>3, <1>4, <1>5 DEF ObjectInv

LEMMA NoObjectIsNoObject == NoObject \notin Object /\ \A o \in Object : o \in Nat
BY ObjectAssumption DEF Object

(* The front of objects_ goes to a borrower.                               *)
LEMMA LendNext ==
    ASSUME ObjectInv, SleepOK, NEW b \in Borrowers,
           bpc[b] \in {"out", "woken"}, Lend(b),
           UNCHANGED <<object_num, made, debt, slipped>>
    PROVE  ObjectInv' /\ SleepOK'
<1>0. /\ objects \in Seq(Object) /\ objects # <<>>
      /\ bpc \in [Borrowers -> BorrowerAt]
      /\ held \in [Borrowers -> Object \cup {NoObject}]
    BY DEF ObjectInv, ObjectTypes, Lend
<1>1. /\ objects[1] \in Object /\ 1 \in 1..Len(objects) /\ objects' \in Seq(Object)
      /\ Len(objects') = Len(objects) - 1
      /\ \A i \in 1..Len(objects') : i + 1 \in 1..Len(objects) /\ objects'[i] = objects[i + 1]
    BY <1>0 DEF Lend
<1>2. held' = [held EXCEPT ![b] = objects[1]] /\ held[b] = NoObject
    <2>1. bpc[b] # "has"
        OBVIOUS
    <2> QED
        BY <1>0, <1>1, <2>1 DEF Lend, ObjectInv, HeldOK
<1>3. At(b, "has") /\ bpc[b] # "has"
    BY DEF Lend
<1>4. ObjectTypes'
    <2>1. bpc' \in [Borrowers -> BorrowerAt]
        BY <1>0, <1>3 DEF At, BorrowerAt
    <2>2. held' \in [Borrowers -> Object \cup {NoObject}]
        BY <1>0, <1>1, <1>2
    <2> QED
        BY <1>1, <2>1, <2>2 DEF ObjectInv, ObjectTypes
<1>5. HeldOK'
    BY <1>0, <1>1, <1>2, <1>3, NoObjectIsNoObject DEF ObjectInv, HeldOK, At
<1>6. ObjectPlaces'
    <2>0. ObjectPlaces /\ made' = made
        BY DEF ObjectInv
    <2>1. \A t : In(objects', t) => In(objects, t)
        BY <1>1 DEF In
    <2>2. ~In(objects', objects[1])
        <3>1. ASSUME NEW i \in 1..Len(objects') PROVE objects'[i] # objects[1]
            BY <1>0, <1>1, <2>0 DEF ObjectPlaces
        <3> QED
            BY <3>1, <1>1 DEF In
    <2>3. In(objects, objects[1])
        BY <1>1 DEF In
    <2>4. \A i \in 1..Len(objects') : objects'[i] <= made
        BY <1>1, <2>0 DEF ObjectPlaces
    <2>5. \A i, j \in 1..Len(objects') : objects'[i] = objects'[j] => i = j
        BY <1>1, <2>0 DEF ObjectPlaces
    <2>6. \A a \in Borrowers :
            held'[a] # NoObject => held'[a] <= made /\ ~In(objects', held'[a])
        BY <1>0, <1>1, <1>2, <2>0, <2>1, <2>2 DEF ObjectPlaces
    <2>7. \A a, c \in Borrowers : held'[a] = held'[c] /\ held'[a] # NoObject => a = c
        BY <1>0, <1>2, <2>0, <2>3, NoObjectIsNoObject, <1>1 DEF ObjectPlaces
    <2> QED
        BY <2>0, <2>4, <2>5, <2>6, <2>7 DEF ObjectPlaces
<1>7. \A m : Number(bpc', m) = IF m = "has" THEN Number(bpc, m) + 1
                               ELSE IF m = bpc[b] THEN Number(bpc, m) - 1
                               ELSE Number(bpc, m)
    BY <1>0, <1>3, MoveCounts
<1>8. \A m : Number(bpc, m) \in Nat
    BY NumberIsNat
<1>9. CountOK'
    <2>1. /\ Number(bpc', "has") = Number(bpc, "has") + 1
          /\ Number(bpc', "creating") = Number(bpc, "creating")
        BY <1>7
    <2> QED
        BY <1>0, <1>1, <1>8, <2>1 DEF ObjectInv, ObjectTypes, CountOK
<1>10. SleepOK'
    <2>1. \A a \in Borrowers : bpc'[a] = "asleep" => bpc[a] = "asleep"
        BY <1>0, <1>3 DEF At
    <2>2. Number(bpc', "woken") >= Number(bpc, "woken") - 1
        BY <1>7, <1>8
    <2>3. Number(bpc', "woken") \in Nat
        BY NumberIsNat
    <2> QED
        BY <1>0, <1>1, <1>8, <2>1, <2>2, <2>3 DEF SleepOK
<1> QED
    BY <1>4, <1>5, <1>6, <1>9, <1>10 DEF ObjectInv

(* A borrower without an object goes on, and remains without.              *)
LEMMA MoveNext ==
    ASSUME ObjectInv, SleepOK, NEW b \in Borrowers, NEW l \in BorrowerAt,
           At(b, l), bpc[b] # "has", l # "has", bpc[b] # l,
           UNCHANGED <<objects, made, held, debt>>,
           object_num' = IF l = "creating" THEN object_num + 1
                         ELSE IF bpc[b] = "creating" THEN object_num - 1
                         ELSE object_num,
           object_num' <= Most,
           l = "asleep" \/ bpc[b] = "woken" => slipped' \/ objects = <<>>,
           slipped => slipped'
    PROVE  ObjectInv' /\ SleepOK'
<1>0. /\ bpc \in [Borrowers -> BorrowerAt] /\ objects \in Seq(Object)
      /\ object_num \in Int /\ debt \in Nat
    BY DEF ObjectInv, ObjectTypes
<1>1. ObjectTypes'
    <2>1. bpc' \in [Borrowers -> BorrowerAt]
        BY <1>0 DEF At
    <2>2. object_num' \in Int
        BY <1>0
    <2> QED
        BY <2>1, <2>2 DEF ObjectInv, ObjectTypes
<1>2. HeldOK'
    BY <1>0 DEF ObjectInv, HeldOK, At
<1>3. ObjectPlaces'
    BY DEF ObjectInv, ObjectPlaces, In
<1>4. \A m : Number(bpc', m) = IF m = l THEN Number(bpc, m) + 1
                               ELSE IF m = bpc[b] THEN Number(bpc, m) - 1
                               ELSE Number(bpc, m)
    BY <1>0, MoveCounts
<1>5. \A m : Number(bpc, m) \in Nat /\ Number(bpc', m) \in Nat
    BY NumberIsNat
<1>6. CountOK'
    <2>1. Number(bpc', "has") = Number(bpc, "has")
        BY <1>4
    <2>2. Number(bpc', "creating") = IF l = "creating" THEN Number(bpc, "creating") + 1
                                     ELSE IF bpc[b] = "creating" THEN Number(bpc, "creating") - 1
                                     ELSE Number(bpc, "creating")
        BY <1>4
    <2>3. /\ object_num = Len(objects) + Number(bpc, "has")
                          + Number(bpc, "creating") - debt
          /\ Len(objects) \in Nat /\ Len(objects') = Len(objects) /\ debt' = debt
        BY <1>0 DEF ObjectInv, CountOK
    <2>4. Number(bpc, "has") \in Nat /\ Number(bpc, "creating") \in Nat
        BY <1>5
    <2>5. CASE l = "creating"
        BY <1>0, <2>1, <2>2, <2>3, <2>4, <2>5 DEF CountOK
    <2>6. CASE l # "creating" /\ bpc[b] = "creating"
        BY <1>0, <2>1, <2>2, <2>3, <2>4, <2>6 DEF CountOK
    <2>7. CASE l # "creating" /\ bpc[b] # "creating"
        BY <1>0, <2>1, <2>2, <2>3, <2>4, <2>7 DEF CountOK
    <2> QED
        BY <2>5, <2>6, <2>7
<1>7. SleepOK'
    <2>1. CASE l = "asleep" \/ bpc[b] = "woken"
        BY <1>0, <1>5, <2>1 DEF SleepOK
    <2>2. CASE l # "asleep" /\ bpc[b] # "woken"
        <3>1. \A a \in Borrowers : bpc'[a] = "asleep" => bpc[a] = "asleep"
            BY <1>0, <2>2 DEF At
        <3>2. Number(bpc', "woken") >= Number(bpc, "woken")
            BY <1>4, <1>5, <2>2
        <3> QED
            BY <1>0, <1>5, <3>1, <3>2 DEF SleepOK
    <2> QED
        BY <2>1, <2>2
<1> QED
    BY <1>1, <1>2, <1>3, <1>6, <1>7 DEF ObjectInv

LEMMA CreateNext ==
    ASSUME ObjectInv, SleepOK, NEW b \in Borrowers, Create(b)
    PROVE  ObjectInv' /\ SleepOK'
<1>0. /\ objects \in Seq(Object) /\ bpc \in [Borrowers -> BorrowerAt]
      /\ held \in [Borrowers -> Object \cup {NoObject}]
      /\ made \in 0..MaxObjects /\ object_num \in Int /\ debt \in Nat
    BY DEF ObjectInv, ObjectTypes
<1>1. /\ made' = made + 1 /\ made + 1 \in Object /\ made' \in 0..MaxObjects
      /\ held' = [held EXCEPT ![b] = made + 1]
      /\ UNCHANGED <<object_num, objects, debt, slipped>>
    BY <1>0, ObjectAssumption DEF Create, Object
<1>2. At(b, "has") /\ bpc[b] # "has" /\ bpc[b] = "creating"
    BY DEF Create
<1>3. ObjectTypes'
    <2>1. bpc' \in [Borrowers -> BorrowerAt]
        BY <1>0, <1>2 DEF At, BorrowerAt
    <2>2. held' \in [Borrowers -> Object \cup {NoObject}]
        BY <1>0, <1>1
    <2> QED
        BY <1>0, <1>1, <2>1, <2>2 DEF ObjectTypes
<1>4. HeldOK'
    BY <1>0, <1>1, <1>2, NoObjectIsNoObject DEF ObjectInv, HeldOK, At
<1>5. ObjectPlaces'
    <2>0. ObjectPlaces
        BY DEF ObjectInv
    <2>1. \A i \in 1..Len(objects) : objects[i] \in Nat /\ objects[i] <= made
        <3>1. \A i \in 1..Len(objects) : objects[i] \in Object
            BY <1>0
        <3> QED
            BY <2>0, <3>1, NoObjectIsNoObject DEF ObjectPlaces
    <2>2. \A a \in Borrowers : held[a] # NoObject => held[a] \in Nat /\ held[a] <= made
        BY <1>0, <2>0 DEF ObjectPlaces, Object
    <2>3. ~In(objects, made + 1)
        <3>1. ASSUME NEW i \in 1..Len(objects) PROVE objects[i] # made + 1
            BY <1>0, <2>1
        <3> QED
            BY <3>1 DEF In
    <2>4. \A i \in 1..Len(objects) : objects[i] <= made'
        BY <1>0, <1>1, <2>1
    <2>5. ASSUME NEW a \in Borrowers, held'[a] # NoObject
          PROVE  held'[a] <= made' /\ ~In(objects, held'[a])
        <3>1. CASE a = b
            BY <1>0, <1>1, <2>3, <3>1
        <3>2. CASE a # b
            <4>1. held'[a] = held[a]
                BY <1>0, <1>1, <3>2
            <4> QED
                BY <1>0, <1>1, <2>0, <2>2, <2>5, <4>1 DEF ObjectPlaces
        <3> QED
            BY <3>1, <3>2
    <2>6. ASSUME NEW a \in Borrowers, NEW c \in Borrowers,
                 held'[a] = held'[c], held'[a] # NoObject
          PROVE  a = c
        <3>1. \A x \in Borrowers : held[x] # NoObject => held[x] # made + 1
            BY <1>0, <2>2
        <3> QED
            BY <1>0, <1>1, <2>0, <2>6, <3>1, NoObjectIsNoObject DEF ObjectPlaces
    <2> QED
        BY <1>1, <2>0, <2>4, <2>5, <2>6 DEF ObjectPlaces, In
<1>6. \A m : Number(bpc', m) = IF m = "has" THEN Number(bpc, m) + 1
                               ELSE IF m = bpc[b] THEN Number(bpc, m) - 1
                               ELSE Number(bpc, m)
    BY <1>0, <1>2, MoveCounts
<1>7. \A m : Number(bpc, m) \in Nat /\ Number(bpc', m) \in Nat
    BY NumberIsNat
<1>8. CountOK'
    <2>1. /\ Number(bpc', "has") = Number(bpc, "has") + 1
          /\ Number(bpc', "creating") = Number(bpc, "creating") - 1
        BY <1>2, <1>6
    <2> QED
        BY <1>0, <1>1, <1>7, <2>1 DEF ObjectInv, CountOK
<1>9. SleepOK'
    <2>1. \A a \in Borrowers : bpc'[a] = "asleep" => bpc[a] = "asleep"
        BY <1>0, <1>2 DEF At
    <2>2. Number(bpc', "woken") = Number(bpc, "woken")
        BY <1>2, <1>6
    <2> QED
        BY <1>1, <2>1, <2>2 DEF SleepOK
<1> QED
    BY <1>3, <1>4, <1>5, <1>8, <1>9 DEF ObjectInv

(* An object added at the end, and one taken out of the middle.            *)
LEMMA AppendKeeps ==
    ASSUME NEW q \in Seq(Object), NEW o \in Object
    PROVE  /\ Append(q, o) \in Seq(Object) /\ Len(Append(q, o)) = Len(q) + 1
           /\ \A i \in 1..Len(q) : Append(q, o)[i] = q[i]
           /\ Append(q, o)[Len(q) + 1] = o
           /\ \A t : In(Append(q, o), t) <=> In(q, t) \/ t = o
<1>1. /\ Append(q, o) \in Seq(Object) /\ Len(Append(q, o)) = Len(q) + 1
      /\ \A i \in 1..Len(q) : Append(q, o)[i] = q[i]
      /\ Append(q, o)[Len(q) + 1] = o
      /\ Len(q) \in Nat
    OBVIOUS
<1>2. ASSUME NEW t PROVE In(Append(q, o), t) <=> In(q, t) \/ t = o
    <2>1. CASE t = o
        <3>1. Len(q) + 1 \in 1..Len(Append(q, o))
            BY <1>1
        <3> QED
            BY <1>1, <2>1, <3>1 DEF In
    <2>2. CASE t # o
        <3>1. \A i \in 1..Len(Append(q, o)) : i \in 1..Len(q) \/ i = Len(q) + 1
            BY <1>1
        <3>2. \A i \in 1..Len(q) : i \in 1..Len(Append(q, o))
            BY <1>1
        <3> QED
            BY <1>1, <2>2, <3>1, <3>2 DEF In
    <2> QED
        BY <2>1, <2>2
<1> QED
    BY <1>1, <1>2

LEMMA JoinedParts ==
    ASSUME NEW u \in Seq(Object), NEW v \in Seq(Object)
    PROVE  /\ u \o v \in Seq(Object) /\ Len(u \o v) = Len(u) + Len(v)
           /\ Len(u) \in Nat /\ Len(v) \in Nat
           /\ \A j \in 1..Len(u) : (u \o v)[j] = u[j]
           /\ \A j \in 1..Len(u \o v) : j > Len(u) => (u \o v)[j] = v[j - Len(u)]
OBVIOUS

LEMMA CutKeeps ==
    ASSUME NEW q \in Seq(Object), NEW i \in 1..Len(q)
    PROVE  LET r == SubSeq(q, 1, i - 1) \o SubSeq(q, i + 1, Len(q)) IN
           /\ r \in Seq(Object) /\ Len(r) = Len(q) - 1
           /\ \A j \in 1..Len(r) : r[j] = q[IF j < i THEN j ELSE j + 1]
<1> DEFINE u == SubSeq(q, 1, i - 1)
           v == SubSeq(q, i + 1, Len(q))
           r == u \o v
<1>0. Len(q) \in Nat /\ i \in Nat /\ 1 <= i /\ i <= Len(q)
    OBVIOUS
<1>1. /\ u \in Seq(Object) /\ Len(u) = i - 1
      /\ \A j \in 1..(i - 1) : u[j] = q[j]
    BY <1>0
<1>2. /\ v \in Seq(Object) /\ Len(v) = Len(q) - i
      /\ \A j \in 1..(Len(q) - i) : v[j] = q[i + j]
    BY <1>0
<1> HIDE DEF u, v
<1>3. /\ r \in Seq(Object) /\ Len(r) = Len(u) + Len(v)
      /\ Len(u) \in Nat /\ Len(v) \in Nat
      /\ \A j \in 1..Len(u) : r[j] = u[j]
      /\ \A j \in 1..Len(r) : j > Len(u) => r[j] = v[j - Len(u)]
    BY <1>1, <1>2, JoinedParts
<1> HIDE DEF r
<1>4. Len(r) = Len(q) - 1
    BY <1>0, <1>1, <1>2, <1>3
<1>5. ASSUME NEW j \in 1..Len(r)
      PROVE  r[j] = q[IF j < i THEN j ELSE j + 1]
    <2>0. j \in Nat /\ 1 <= j /\ j <= Len(q) - 1
        BY <1>0, <1>4
    <2>1. CASE j < i
        <3>1. j \in 1..Len(u)
            BY <1>0, <1>1, <2>0, <2>1
        <3> QED
            BY <1>1, <1>3, <2>1, <3>1
    <2>2. CASE ~(j < i)
        <3>1. j > Len(u) /\ j - Len(u) \in 1..(Len(q) - i) /\ i + (j - Len(u)) = j + 1
            BY <1>0, <1>1, <2>0, <2>2
        <3>2. r[j] = v[j - Len(u)]
            BY <1>3, <3>1
        <3>3. v[j - Len(u)] = q[i + (j - Len(u))]
            BY <1>2, <3>1
        <3> QED
            BY <2>2, <3>1, <3>2, <3>3
    <2> QED
        BY <2>1, <2>2
<1> QED
    BY <1>3, <1>4, <1>5 DEF r, u, v

(* Return gives the object back; a sleeper, if there is one, is woken.     *)
LEMMA ReturnNext ==
    ASSUME ObjectInv, SleepOK, NEW b \in Borrowers, Return(b)
    PROVE  ObjectInv' /\ SleepOK'
<1>0. /\ objects \in Seq(Object) /\ bpc \in [Borrowers -> BorrowerAt]
      /\ held \in [Borrowers -> Object \cup {NoObject}]
      /\ object_num \in Int /\ debt \in Nat
      /\ HeldOK /\ ObjectPlaces /\ CountOK
    BY DEF ObjectInv, ObjectTypes
<1>1. /\ bpc[b] = "has" /\ objects' = Append(objects, held[b])
      /\ held' = [held EXCEPT ![b] = NoObject]
      /\ UNCHANGED <<object_num, made, debt, slipped>>
      /\ NotifyAndGo(b, "over")
    BY DEF Return
<1>2. held[b] \in Object /\ held[b] # NoObject
    BY <1>0, <1>1 DEF HeldOK
<1>3. /\ objects' \in Seq(Object) /\ Len(objects') = Len(objects) + 1
      /\ \A i \in 1..Len(objects) : objects'[i] = objects[i]
      /\ objects'[Len(objects) + 1] = held[b]
      /\ \A t : In(objects', t) <=> In(objects, t) \/ t = held[b]
      /\ Len(objects) \in Nat
    BY <1>0, <1>1, <1>2, AppendKeeps
<1>4. ObjectPlaces'
    <2>1. held[b] <= made /\ ~In(objects, held[b])
        BY <1>0, <1>2 DEF ObjectPlaces
    <2>2. \A i \in 1..Len(objects) : objects[i] # held[b]
        BY <2>1 DEF In
    <2>3. \A i \in 1..Len(objects') : i \in 1..Len(objects) \/ i = Len(objects) + 1
        BY <1>3
    <2>4. \A i \in 1..Len(objects') : objects'[i] <= made
        BY <1>0, <1>3, <2>1, <2>3 DEF ObjectPlaces
    <2>5. \A i, j \in 1..Len(objects') : objects'[i] = objects'[j] => i = j
        BY <1>0, <1>3, <2>2, <2>3 DEF ObjectPlaces
    <2>6. ASSUME NEW a \in Borrowers, held'[a] # NoObject
          PROVE  held'[a] <= made /\ ~In(objects', held'[a])
        <3>1. a # b /\ held'[a] = held[a]
            BY <1>0, <1>1, <2>6
        <3>2. held[a] # held[b]
            BY <1>0, <1>2, <3>1 DEF ObjectPlaces
        <3> QED
            BY <1>0, <1>3, <2>6, <3>1, <3>2 DEF ObjectPlaces
    <2>7. \A a, c \in Borrowers : held'[a] = held'[c] /\ held'[a] # NoObject => a = c
        BY <1>0, <1>1 DEF ObjectPlaces
    <2> QED
        BY <1>1, <2>4, <2>5, <2>6, <2>7 DEF ObjectPlaces
<1>5. \A m : Number(bpc, m) \in Nat /\ Number(bpc', m) \in Nat
    BY NumberIsNat
<1>6. CASE BorrowerIn("asleep") = {}
    <2>1. At(b, "over")
        BY <1>1, <1>6 DEF NotifyAndGo
    <2>2. bpc' \in [Borrowers -> BorrowerAt] /\ HeldOK'
        BY <1>0, <1>1, <1>2, <2>1 DEF At, BorrowerAt, HeldOK
    <2>3. ObjectTypes'
        BY <1>0, <1>1, <1>3, <2>2 DEF ObjectInv, ObjectTypes
    <2>4. bpc[b] # "over"
        BY <1>1
    <2>5. \A m : Number(bpc', m) = IF m = "over" THEN Number(bpc, m) + 1
                                   ELSE IF m = bpc[b] THEN Number(bpc, m) - 1
                                   ELSE Number(bpc, m)
        BY <1>0, <2>1, <2>4, MoveCounts
    <2>6. /\ Number(bpc', "has") = Number(bpc, "has") - 1
          /\ Number(bpc', "creating") = Number(bpc, "creating")
        BY <1>1, <2>5
    <2>7. CountOK'
        BY <1>0, <1>1, <1>3, <1>5, <2>6 DEF CountOK
    <2>8. SleepOK'
        BY <1>0, <1>6, <2>1 DEF SleepOK, BorrowerIn, At
    <2> QED
        BY <1>4, <2>2, <2>3, <2>7, <2>8 DEF ObjectInv
<1>7. CASE BorrowerIn("asleep") # {}
    <2>1. PICK s \in BorrowerIn("asleep") : bpc' = [bpc EXCEPT ![b] = "over", ![s] = "woken"]
        BY <1>1, <1>7 DEF NotifyAndGo
    <2>2. s \in Borrowers /\ bpc[s] = "asleep"
        BY DEF BorrowerIn
    <2>3. bpc' \in [Borrowers -> BorrowerAt]
        BY <1>0, <2>1 DEF BorrowerAt
    <2>4. HeldOK'
        BY <1>0, <1>1, <1>2, <2>1, <2>2 DEF HeldOK
    <2>5. ObjectTypes'
        BY <1>0, <1>1, <1>3, <2>3 DEF ObjectInv, ObjectTypes
    <2>6. \A m : Number(bpc', m) =
            IF m = "woken" \/ m = "over" THEN Number(bpc, m) + 1
            ELSE IF m = "has" \/ m = "asleep" THEN Number(bpc, m) - 1
            ELSE Number(bpc, m)
        BY <1>0, <1>1, <2>1, <2>2, NotifyCounts
    <2>7. /\ Number(bpc', "has") = Number(bpc, "has") - 1
          /\ Number(bpc', "creating") = Number(bpc, "creating")
          /\ Number(bpc', "woken") = Number(bpc, "woken") + 1
        BY <2>6
    <2>8. CountOK'
        BY <1>0, <1>1, <1>3, <1>5, <2>7 DEF CountOK
    <2>9. SleepOK'
        BY <1>1, <1>3, <1>5, <2>2, <2>7 DEF SleepOK
    <2> QED
        BY <1>4, <2>4, <2>5, <2>8, <2>9 DEF ObjectInv
<1> QED
    BY <1>6, <1>7

LEMMA AddNext ==
    ASSUME ObjectInv, SleepOK, Add
    PROVE  ObjectInv' /\ SleepOK'
<1>0. /\ objects \in Seq(Object) /\ bpc \in [Borrowers -> BorrowerAt]
      /\ held \in [Borrowers -> Object \cup {NoObject}]
      /\ object_num \in Int /\ debt \in Nat /\ made \in 0..MaxObjects
      /\ HeldOK /\ ObjectPlaces /\ CountOK
    BY DEF ObjectInv, ObjectTypes
<1>1. /\ made' = made + 1 /\ made + 1 \in Object /\ made' \in 0..MaxObjects
      /\ objects' = Append(objects, made + 1)
      /\ object_num' = object_num + 1 /\ object_num + 1 <= Most
      /\ UNCHANGED <<held, debt, slipped>> /\ Notify
    BY <1>0, ObjectAssumption DEF Add, Object, Most
<1>2. /\ objects' \in Seq(Object) /\ Len(objects') = Len(objects) + 1
      /\ \A i \in 1..Len(objects) : objects'[i] = objects[i]
      /\ objects'[Len(objects) + 1] = made + 1
      /\ \A t : In(objects', t) <=> In(objects, t) \/ t = made + 1
      /\ Len(objects) \in Nat
    BY <1>0, <1>1, AppendKeeps
<1>3. ObjectPlaces'
    <2>1. \A i \in 1..Len(objects) : objects[i] \in Nat /\ objects[i] <= made
        <3>1. \A i \in 1..Len(objects) : objects[i] \in Object
            BY <1>0
        <3> QED
            BY <1>0, <3>1, NoObjectIsNoObject DEF ObjectPlaces
    <2>2. \A a \in Borrowers : held[a] # NoObject => held[a] \in Nat /\ held[a] <= made
        BY <1>0 DEF ObjectPlaces, Object
    <2>3. \A i \in 1..Len(objects') : i \in 1..Len(objects) \/ i = Len(objects) + 1
        BY <1>2
    <2>4. \A i \in 1..Len(objects') : objects'[i] <= made'
        BY <1>0, <1>1, <1>2, <2>1, <2>3
    <2>5. \A i \in 1..Len(objects) : objects[i] # made + 1
        BY <1>0, <2>1
    <2>6. \A i, j \in 1..Len(objects') : objects'[i] = objects'[j] => i = j
        BY <1>0, <1>2, <2>3, <2>5 DEF ObjectPlaces
    <2>7. ASSUME NEW a \in Borrowers, held[a] # NoObject
          PROVE  held[a] <= made' /\ ~In(objects', held[a])
        <3>1. held[a] <= made' /\ held[a] # made + 1
            BY <1>0, <1>1, <2>2, <2>7
        <3> QED
            BY <1>0, <1>2, <2>7, <3>1 DEF ObjectPlaces
    <2> QED
        BY <1>0, <1>1, <2>4, <2>6, <2>7 DEF ObjectPlaces
<1>4. \A m : Number(bpc, m) \in Nat /\ Number(bpc', m) \in Nat
    BY NumberIsNat
<1>5. CASE BorrowerIn("asleep") = {}
    <2>1. UNCHANGED bpc
        BY <1>1, <1>5 DEF Notify
    <2>2. ObjectTypes' /\ HeldOK'
        BY <1>0, <1>1, <1>2, <2>1 DEF ObjectTypes, HeldOK
    <2>3. CountOK'
        BY <1>0, <1>1, <1>2, <1>4, <2>1 DEF CountOK
    <2>4. SleepOK'
        BY <1>5, <2>1 DEF SleepOK, BorrowerIn
    <2> QED
        BY <1>3, <2>2, <2>3, <2>4 DEF ObjectInv
<1>6. CASE BorrowerIn("asleep") # {}
    <2>1. PICK s \in BorrowerIn("asleep") : At(s, "woken")
        BY <1>1, <1>6 DEF Notify
    <2>2. s \in Borrowers /\ bpc[s] = "asleep"
        BY DEF BorrowerIn
    <2>3. bpc[s] # "woken"
        BY <2>2
    <2>4. bpc' \in [Borrowers -> BorrowerAt] /\ HeldOK'
        BY <1>0, <1>1, <2>1, <2>2 DEF At, BorrowerAt, HeldOK
    <2>5. ObjectTypes'
        BY <1>0, <1>1, <1>2, <2>4 DEF ObjectTypes
    <2>6. \A m : Number(bpc', m) = IF m = "woken" THEN Number(bpc, m) + 1
                                   ELSE IF m = bpc[s] THEN Number(bpc, m) - 1
                                   ELSE Number(bpc, m)
        BY <1>0, <2>1, <2>2, <2>3, MoveCounts
    <2>7. /\ Number(bpc', "has") = Number(bpc, "has")
          /\ Number(bpc', "creating") = Number(bpc, "creating")
          /\ Number(bpc', "woken") = Number(bpc, "woken") + 1
        BY <2>2, <2>6
    <2>8. CountOK'
        BY <1>0, <1>1, <1>2, <1>4, <2>7 DEF CountOK
    <2>9. SleepOK'
        BY <1>1, <1>2, <1>4, <2>2, <2>7 DEF SleepOK
    <2> QED
        BY <1>3, <2>4, <2>5, <2>8, <2>9 DEF ObjectInv
<1> QED
    BY <1>5, <1>6

LEMMA RemoveNext ==
    ASSUME ObjectInv, SleepOK, NEW o \in Object, Remove(o)
    PROVE  ObjectInv' /\ SleepOK'
<1>0. /\ objects \in Seq(Object) /\ Len(objects) \in Nat
      /\ object_num \in Int /\ debt \in Nat
      /\ HeldOK /\ ObjectPlaces /\ CountOK /\ ObjectTypes
    BY DEF ObjectInv, ObjectTypes
<1>1. PICK i \in 1..Len(objects) :
        objects' = SubSeq(objects, 1, i - 1) \o SubSeq(objects, i + 1, Len(objects))
    BY DEF Remove
<1>2. /\ object_num' = object_num - 1
      /\ UNCHANGED <<made, bpc, held, debt, slipped>>
    BY DEF Remove
<1>3. /\ objects' \in Seq(Object) /\ Len(objects') = Len(objects) - 1
      /\ \A j \in 1..Len(objects') : objects'[j] = objects[IF j < i THEN j ELSE j + 1]
    BY <1>0, <1>1, CutKeeps
<1>4. /\ i \in Nat
      /\ \A j \in 1..Len(objects') : (IF j < i THEN j ELSE j + 1) \in 1..Len(objects)
    BY <1>0, <1>3
<1>5. \A t : In(objects', t) => In(objects, t)
    BY <1>3, <1>4 DEF In
<1>6. ObjectPlaces'
    <2>1. \A j \in 1..Len(objects') : objects'[j] <= made
        BY <1>0, <1>3, <1>4 DEF ObjectPlaces
    <2>2. ASSUME NEW j \in 1..Len(objects'), NEW k \in 1..Len(objects'),
                 objects'[j] = objects'[k]
          PROVE  j = k
        <3>1. (IF j < i THEN j ELSE j + 1) = (IF k < i THEN k ELSE k + 1)
            BY <1>0, <1>3, <1>4, <2>2 DEF ObjectPlaces
        <3>2. j \in Nat /\ k \in Nat /\ i \in Nat
            BY <1>4
        <3> QED
            BY <3>1, <3>2
    <2> QED
        BY <1>0, <1>2, <1>5, <2>1, <2>2 DEF ObjectPlaces
<1>7. \A m : Number(bpc, m) \in Nat
    BY NumberIsNat
<1>8. CountOK'
    <2>1. object_num = Len(objects) + Number(bpc, "has") + Number(bpc, "creating") - debt
          /\ object_num <= Most
        BY <1>0 DEF CountOK
    <2>2. Number(bpc, "has") \in Nat /\ Number(bpc, "creating") \in Nat /\ Most \in Nat
        BY <1>7, ObjectAssumption DEF Most
    <2> QED
        BY <1>0, <1>2, <1>3, <2>1, <2>2 DEF CountOK
<1>9. ObjectTypes' /\ HeldOK' /\ SleepOK'
    <2>1. ObjectTypes' /\ HeldOK'
        BY <1>0, <1>2, <1>3 DEF ObjectTypes, HeldOK
    <2>2. Number(bpc, "woken") \in Nat
        BY <1>7
    <2> QED
        BY <1>0, <1>2, <1>3, <2>1, <2>2 DEF SleepOK
<1> QED
    BY <1>6, <1>8, <1>9 DEF ObjectInv

LEMMA ClearNext ==
    ASSUME ObjectInv, SleepOK, Clear
    PROVE  ObjectInv' /\ SleepOK'
<1>0. /\ objects \in Seq(Object) /\ Len(objects) \in Nat
      /\ object_num \in Int /\ debt \in Nat /\ ObjectTypes
      /\ HeldOK /\ ObjectPlaces /\ CountOK
    BY DEF ObjectInv, ObjectTypes
<1>1. /\ debt' = debt + object_num - Len(objects) /\ objects' = <<>>
      /\ object_num' = 0 /\ UNCHANGED <<made, bpc, held, slipped>>
    BY DEF Clear
<1>2. Number(bpc, "has") \in Nat /\ Number(bpc, "creating") \in Nat
      /\ Number(bpc, "woken") \in Nat
    BY NumberIsNat
<1>3. debt' = Number(bpc, "has") + Number(bpc, "creating") /\ Len(objects') = 0
    BY <1>0, <1>1, <1>2 DEF CountOK
<1>4. 0 <= Most
    BY ObjectAssumption DEF Most
<1>5. CountOK' /\ SleepOK'
    BY <1>1, <1>2, <1>3, <1>4 DEF CountOK, SleepOK
<1>6. ObjectTypes' /\ HeldOK' /\ ObjectPlaces'
    BY <1>0, <1>1, <1>2, <1>3 DEF ObjectTypes, HeldOK, ObjectPlaces, In
<1> QED
    BY <1>5, <1>6 DEF ObjectInv

(* The moves of a borrower, one by one.                                    *)
LEMMA BorrowNext ==
    ASSUME ObjectInv, SleepOK, NEW b \in Borrowers, BorrowStep(b) \/ TaskOver(b)
    PROVE  ObjectInv' /\ SleepOK'
<1>0. object_num \in Int /\ object_num <= Most /\ InitNum \in Nat /\ MaxNum \in Nat
    BY ObjectAssumption DEF ObjectInv, ObjectTypes, CountOK
<1>1. CASE TryBorrow(b)
    <2>1. CASE Lend(b)
        BY <1>1, <2>1, LendNext DEF TryBorrow
    <2>2. CASE At(b, "none_idle") /\ UNCHANGED <<held, objects>>
        BY <1>0, <1>1, <2>2, MoveNext DEF TryBorrow, BorrowerAt
    <2> QED
        BY <1>1, <2>1, <2>2 DEF TryBorrow
<1>2. CASE CountNew(b)
    <2>1. object_num' <= Most
        BY <1>0, <1>2 DEF CountNew, Most
    <2> QED
        BY <1>0, <1>2, <2>1, MoveNext DEF CountNew, BorrowerAt
<1>3. CASE Create(b)
    BY <1>3, CreateNext
<1>4. CASE CreateFails(b)
    <2>1. object_num' <= Most
        BY <1>0, <1>4 DEF CreateFails, Most
    <2> QED
        BY <1>0, <1>4, <2>1, MoveNext DEF CreateFails, BorrowerAt
<1>5. CASE WaitForReturn(b) \/ WakesUnasked(b)
    <2>0. WaitForReturn(b) =>
            /\ bpc[b] = "none_idle"
            /\ UNCHANGED <<object_num, objects, made, held, manage, debt>>
        BY DEF WaitForReturn
    <2>1. CASE /\ WaitForReturn(b) /\ At(b, "asleep")
               /\ slipped' = (slipped \/ objects # <<>>)
        BY <1>0, <2>0, <2>1, MoveNext DEF BorrowerAt
    <2>2. CASE WaitForReturn(b) /\ At(b, "over") /\ UNCHANGED slipped
        BY <1>0, <2>0, <2>2, MoveNext DEF BorrowerAt
    <2>3. CASE WakesUnasked(b)
        BY <1>0, <2>3, MoveNext DEF WakesUnasked, BorrowerAt
    <2> QED
        BY <1>5, <2>1, <2>2, <2>3 DEF WaitForReturn
<1>6. CASE TimedOut(b)
    BY <1>0, <1>6, MoveNext DEF TimedOut, BorrowerAt
<1>7. CASE Woken(b)
    <2>1. CASE Lend(b)
        BY <1>7, <2>1, LendNext DEF Woken
    <2>2. CASE objects = <<>> /\ At(b, "over") /\ UNCHANGED <<held, objects>>
        BY <1>0, <1>7, <2>2, MoveNext DEF Woken, BorrowerAt
    <2> QED
        BY <1>7, <2>1, <2>2 DEF Woken
<1>8. CASE TaskOver(b)
    BY <1>0, <1>8, MoveNext DEF TaskOver, BorrowerAt
<1> QED
    BY <1>1, <1>2, <1>3, <1>4, <1>5, <1>6, <1>7, <1>8 DEF BorrowStep

LEMMA ObjectInvNext == ObjectInv /\ SleepOK /\ [Next]_vars => ObjectInv' /\ SleepOK'
<1> SUFFICES ASSUME ObjectInv, SleepOK, [Next]_vars
             PROVE  ObjectInv' /\ SleepOK'
    OBVIOUS
<1>1. CASE ObjectStep
    BY <1>1, BorrowNext, ReturnNext, AddNext, RemoveNext, ClearNext
    DEF ObjectStep, ManageStep
<1>2. CASE UNCHANGED objectVars
    BY <1>2 DEF objectVars, ObjectInv, ObjectTypes, HeldOK, ObjectPlaces,
                CountOK, SleepOK, In
<1> QED
    BY <1>1, <1>2, NextIsObjectStep

LEMMA ObjectInvHolds == Spec => [](ObjectInv /\ SleepOK)
BY ObjectInvInit, ObjectInvNext, PTL DEF Spec

(* hobjectpool.h:94-107: the pool notifies one borrower for each object it *)
(* gets, so nobody sleeps over an object that no woken borrower is coming  *)
(* for, but for the two slips of the code (lines 50-66).                   *)
THEOREM SleepersServed == Spec => []NobodySleepsOverObject
<1>1. SleepOK => NobodySleepsOverObject
    BY DEF SleepOK, NobodySleepsOverObject, BorrowerIn, Number
<1> QED
    BY <1>1, ObjectInvHolds, PTL

(* No two give the same: there are as many values as arguments.            *)
LEMMA ImageCounts ==
    ASSUME NEW S, IsFiniteSet(S), NEW f, \A x, y \in S : f[x] = f[y] => x = y
    PROVE  /\ IsFiniteSet({f[x] : x \in S})
           /\ Cardinality({f[x] : x \in S}) = Cardinality(S)
<1> DEFINE T == {f[x] : x \in S}
           g == [x \in S |-> f[x]]
<1>1. g \in [S -> T] /\ \A x, y \in S : g[x] = g[y] => x = y
    OBVIOUS
<1>2. \A t \in T : \E x \in S : g[x] = t
    OBVIOUS
<1>3. g \in Bijection(S, T)
    <2> HIDE DEF g, T
    <2> QED
        BY <1>1, <1>2, Fun_IsBij
<1>4. ExistsBijection(S, T)
    BY <1>3 DEF ExistsBijection
<1> HIDE DEF g, T
<1>5. IsFiniteSet(T) /\ Cardinality(T) = Cardinality(S)
    BY <1>4, FS_Bijection
<1> QED
    BY <1>5 DEF T

LEMMA ObjectsCount ==
    ASSUME ObjectInv
    PROVE  ObjectsAccounted
<1> DEFINE H == {b \in Borrowers : held[b] # NoObject}
<1>0. /\ objects \in Seq(Object) /\ Len(objects) \in Nat
      /\ held \in [Borrowers -> Object \cup {NoObject}]
      /\ object_num \in Int /\ debt \in Nat
      /\ HeldOK /\ ObjectPlaces /\ CountOK
    BY DEF ObjectInv, ObjectTypes
<1>1. IsFiniteSet(H)
    BY BorrowersFinite, FS_Subset
<1>2. H = {b \in Borrowers : bpc[b] = "has"}
    BY <1>0 DEF HeldOK
<1>3. Cardinality(H) = Number(bpc, "has")
    BY <1>2 DEF Number
<1>4. IsFiniteSet(Idle) /\ Cardinality(Idle) = Len(objects)
    <2>1. /\ IsFiniteSet(1..Len(objects)) /\ Cardinality(1..Len(objects)) = Len(objects)
        <3>1. 1 \in Int /\ Len(objects) \in Int
            BY <1>0
        <3>2. /\ IsFiniteSet(1..Len(objects))
              /\ Cardinality(1..Len(objects)) =
                   IF 1 > Len(objects) THEN 0 ELSE Len(objects) - 1 + 1
            BY <3>1, FS_Interval
        <3> QED
            BY <1>0, <3>2
    <2>2. \A x, y \in 1..Len(objects) : objects[x] = objects[y] => x = y
        BY <1>0 DEF ObjectPlaces
    <2> QED
        BY <2>1, <2>2, ImageCounts DEF Idle
<1>5. IsFiniteSet(Lent) /\ Cardinality(Lent) = Cardinality(H)
    <2>1. Lent = {held[b] : b \in H}
        BY DEF Lent
    <2>2. \A x, y \in H : held[x] = held[y] => x = y
        BY <1>0 DEF ObjectPlaces
    <2> HIDE DEF H
    <2> QED
        BY <1>1, <2>1, <2>2, ImageCounts
<1>6. Idle \cap Lent = {}
    BY <1>0 DEF Idle, Lent, ObjectPlaces, In
<1>7. Cardinality(Idle \cap Lent) = 0
    BY <1>6, FS_EmptySet
<1>8. Cardinality(Idle \cup Lent) = Len(objects) + Number(bpc, "has")
    <2>1. Cardinality(Idle \cup Lent) = Cardinality(Idle) + Cardinality(Lent)
                                        - Cardinality(Idle \cap Lent)
        BY <1>4, <1>5, FS_Union
    <2>2. Number(bpc, "has") \in Nat
        BY NumberIsNat
    <2> QED
        BY <1>0, <1>3, <1>4, <1>5, <1>7, <2>1, <2>2
<1>9. Cardinality(BorrowerIn("creating")) = Number(bpc, "creating")
    BY DEF BorrowerIn, Number
<1>10. Number(bpc, "has") \in Nat /\ Number(bpc, "creating") \in Nat /\ Most \in Nat
    BY NumberIsNat, ObjectAssumption DEF Most
<1>11. /\ object_num = Len(objects) + Number(bpc, "has") + Number(bpc, "creating") - debt
       /\ object_num <= Most
    BY <1>0 DEF CountOK
<1>12. Cardinality({b \in Borrowers : held[b] # NoObject}) = Number(bpc, "has")
    BY <1>3
<1> HIDE DEF H
<1>13. Len(objects) + Number(bpc, "has") + Number(bpc, "creating") <= debt + Most
    BY <1>0, <1>10, <1>11
<1>14. object_num = (Len(objects) + Number(bpc, "has") + Number(bpc, "creating")) - debt
    BY <1>0, <1>10, <1>11
<1>15. Cardinality(Idle \cup Lent) =
         (Len(objects) + Number(bpc, "has") + Number(bpc, "creating")) - Number(bpc, "creating")
    BY <1>0, <1>8, <1>10
<1> QED
    BY <1>9, <1>12, <1>13, <1>14, <1>15 DEF ObjectsAccounted, Most

(* hobjectpool.h:38-115: the count agrees with the objects idle, lent and  *)
(* being made, none of which is in two places, and but for those that      *)
(* Clear forgot there are never more than _max_num (or init_num).          *)
THEOREM ObjectsCounted == Spec => []ObjectsAccounted
<1>1. ObjectInv => ObjectsAccounted
    BY ObjectsCount
<1> QED
    BY <1>1, ObjectInvHolds, PTL

-----------------------------------------------------------------------------
(* wait().  A worker counts as busy from the decrement of idle_num to its  *)
(* increment.                                                              *)
Busy(f) == {w \in Workers : f[w] \in {"pop", "run", "ran"}}

IdleOK == idle_num = pool_size - Cardinality(Busy(wpc))

(* What has been committed is waiting, running or done.                    *)
NoneLost ==
    \A t \in 1..committed :
      t \in done \/ In(tasks, t) \/ \E w \in Workers : task[w] = t

(* A caller that has found the queue empty need not wait for what is in it *)
(* now.                                                                    *)
LookedOK ==
    /\ before \in [Callers -> 0..committed]
    /\ \A c \in Callers :
         cpc[c] = "idle?" => \A i \in 1..Len(tasks) : tasks[i] > before[c]

WaitInv == IdleOK /\ NoneLost /\ LookedOK

LEMMA BusyFinite ==
    ASSUME NEW f
    PROVE  IsFiniteSet(Busy(f)) /\ Cardinality(Busy(f)) \in Nat
<1>1. IsFiniteSet(Workers)
    BY WorkersAreNumbers, FS_Interval DEF Workers
<1>2. Busy(f) \subseteq Workers
    BY DEF Busy
<1> QED
    BY <1>1, <1>2, FS_Subset, FS_CardinalityType

LEMMA WaitInvInit == Init => WaitInv
<1> SUFFICES ASSUME Init PROVE WaitInv
    OBVIOUS
<1>1. Busy(wpc) = {}
    BY DEF Init, PoolInit, Busy
<1>2. Cardinality(Busy(wpc)) = 0
    BY <1>1, FS_EmptySet
<1> QED
    BY <1>2, PoolAssumption DEF Init, PoolInit, WaitInv, IdleOK, NoneLost, LookedOK

(* The count of the busy.                                                  *)
LEMMA IdleNext ==
    ASSUME PoolInv, IdleOK, PoolStep
    PROVE  IdleOK'
<1>0. /\ wpc \in [Workers -> WorkerAt] /\ tasks \in Seq(Task) /\ idle_num \in Int
      /\ pool_size \in Nat /\ idle_num = pool_size - Cardinality(Busy(wpc))
    BY PoolAssumption DEF PoolInv, PoolTypes, IdleOK
<1>1. IsFiniteSet(Busy(wpc)) /\ Cardinality(Busy(wpc)) \in Nat
    BY BusyFinite
<1>2. ASSUME UNCHANGED idle_num,
             \A w \in Workers : wpc'[w] \in {"pop", "run", "ran"}
                                  <=> wpc[w] \in {"pop", "run", "ran"}
      PROVE  IdleOK'
    <2>1. Busy(wpc') = Busy(wpc)
        BY <1>2 DEF Busy
    <2> QED
        BY <1>0, <1>2, <2>1 DEF IdleOK, Busy
<1>3. ASSUME NEW w \in Workers, WorkerStep(w) \/ TaskEnds(w)
      PROVE  IdleOK'
    <2>1. CASE TakeBusy(w) /\ tasks # <<>>
        <3>1. /\ wpc' = [wpc EXCEPT ![w] = "pop"] /\ wpc[w] = "test"
              /\ idle_num' = idle_num - 1
            BY <2>1 DEF TakeBusy, Goto
        <3>2. Busy(wpc') = Busy(wpc) \cup {w} /\ w \notin Busy(wpc)
            BY <1>0, <3>1 DEF Busy
        <3>3. Cardinality(Busy(wpc')) = Cardinality(Busy(wpc)) + 1
            BY <1>1, <3>2, FS_AddElement
        <3>4. idle_num' = pool_size - Cardinality(Busy(wpc'))
            BY <1>0, <1>1, <3>1, <3>3
        <3> QED
            BY <3>4 DEF IdleOK, Busy
    <2>2. CASE BackToIdle(w)
        <3>1. /\ wpc' = [wpc EXCEPT ![w] = "top"] /\ wpc[w] = "ran"
              /\ idle_num' = idle_num + 1
            BY <2>2 DEF BackToIdle, Goto
        <3>2. Busy(wpc') = Busy(wpc) \ {w} /\ w \in Busy(wpc)
            BY <1>0, <3>1 DEF Busy
        <3>3. Cardinality(Busy(wpc')) = Cardinality(Busy(wpc)) - 1
            BY <1>1, <3>2, FS_RemoveElement
        <3>4. idle_num' = pool_size - Cardinality(Busy(wpc'))
            BY <1>0, <1>1, <3>1, <3>3
        <3> QED
            BY <3>4 DEF IdleOK, Busy
    <2>3. CASE TakeBusy(w) /\ tasks = <<>>
        BY <1>0, <1>2, <2>3 DEF TakeBusy, Goto
    <2>4. CASE Top(w) \/ PassGate(w) \/ TestPredicate(w) \/ Sleep(w) \/ ReturnIfStopped(w)
        <3>1. /\ UNCHANGED idle_num /\ wpc[w] \notin {"pop", "run", "ran"}
              /\ \A v \in Workers \ {w} : wpc'[v] = wpc[v]
              /\ wpc'[w] \notin {"pop", "run", "ran"}
            BY <1>0, <2>4 DEF Top, PassGate, TestPredicate, Sleep, ReturnIfStopped, Goto
        <3> QED
            BY <1>2, <3>1
    <2>5. CASE TakePop(w) \/ TaskEnds(w)
        <3>1. /\ UNCHANGED idle_num /\ wpc[w] \in {"pop", "run", "ran"}
              /\ \A v \in Workers \ {w} : wpc'[v] = wpc[v]
              /\ wpc'[w] \in {"pop", "run", "ran"}
            BY <1>0, <2>5 DEF TakePop, TaskEnds, Goto
        <3> QED
            BY <1>2, <3>1
    <2> QED
        BY <1>3, <2>1, <2>2, <2>3, <2>4, <2>5 DEF WorkerStep
<1>4. ASSUME NEW c \in Callers, BeginCall(c) \/ FinishCall(c)
      PROVE  IdleOK'
    <2>1. UNCHANGED idle_num
        BY <1>4 DEF BeginCall, Commit, Start, Stop, Pause, Resume, Wait, FinishCall,
                    NotifyOne, StartRuns, Spawn, StartReturns, StopStores, NotifyAll,
                    Join, StopReturns, PauseStores, WaitLooks, WaitEmpty,
                    WaitCounts
    <2>2. CASE Moves(c)
        BY <1>2, <2>1, <2>2, MovesWorkers DEF PoolInv
    <2>3. CASE ~Moves(c)
        <3>1. UNCHANGED wpc
            BY <1>4, <2>3, CallerSteps, AsideChangesNothing, StoresResets DEF work, Commit
        <3> QED
            BY <1>2, <2>1, <3>1
    <2> QED
        BY <2>2, <2>3
<1> QED
    BY <1>3, <1>4 DEF PoolStep

(* The steps that move a task, and the others.                             *)
LEMMA TaskMoves ==
    ASSUME PoolInv, PoolStep
    PROVE  \/ \E w \in Workers : TakePop(w) \/ TaskEnds(w)
           \/ \E c \in Callers : Commit(c)
           \/ UNCHANGED <<tasks, task, committed, done>>
<1>1. ASSUME NEW w \in Workers, WorkerStep(w), ~TakePop(w)
      PROVE  UNCHANGED <<tasks, task, committed, done>>
    BY <1>1 DEF WorkerStep, Top, PassGate, TestPredicate, Sleep, ReturnIfStopped,
                TakeBusy, BackToIdle, callers
<1>2. ASSUME NEW c \in Callers, BeginCall(c) \/ FinishCall(c), ~Commit(c)
      PROVE  UNCHANGED <<tasks, task, committed, done>>
    BY <1>2, CallerSteps, AsideChangesNothing, StoresResets, MovesWorkers
    DEF work, PoolInv
<1> QED
    BY <1>1, <1>2 DEF PoolStep

LEMMA TakePopTakes ==
    ASSUME PoolInv, NEW w \in Workers, TakePop(w)
    PROVE  /\ 1 \in 1..Len(tasks) /\ Len(tasks') = Len(tasks) - 1
           /\ \A i \in 1..Len(tasks') : i + 1 \in 1..Len(tasks) /\ tasks'[i] = tasks[i + 1]
           /\ \A i \in 1..Len(tasks) : i = 1 \/ i - 1 \in 1..Len(tasks')
           /\ task' = [task EXCEPT ![w] = tasks[1]] /\ task[w] = NoTask
           /\ UNCHANGED <<committed, done, cpc, before>>
<1>1. tasks \in Seq(Task) /\ tasks # <<>> /\ task[w] = NoTask
    BY DEF PoolInv, PoolTypes, PopOK, TaskOK, TakePop
<1> QED
    BY <1>1 DEF TakePop, callers

LEMMA NoneLostNext ==
    ASSUME PoolInv, NoneLost, PoolStep
    PROVE  NoneLost'
<1>0. /\ tasks \in Seq(Task) /\ task \in [Workers -> Task \cup {NoTask}]
      /\ committed \in Nat
    BY PoolAssumption DEF PoolInv, PoolTypes, Counters
<1>1. ASSUME NEW w \in Workers, TakePop(w)
      PROVE  NoneLost'
    <2>0. /\ 1 \in 1..Len(tasks) /\ Len(tasks') = Len(tasks) - 1
          /\ \A i \in 1..Len(tasks') : i + 1 \in 1..Len(tasks) /\ tasks'[i] = tasks[i + 1]
          /\ \A i \in 1..Len(tasks) : i = 1 \/ i - 1 \in 1..Len(tasks')
          /\ task' = [task EXCEPT ![w] = tasks[1]] /\ task[w] = NoTask
          /\ UNCHANGED <<committed, done>>
        BY <1>1, TakePopTakes
    <2>1. ASSUME NEW t \in 1..committed
          PROVE  t \in done' \/ In(tasks', t) \/ \E v \in Workers : task'[v] = t
        <3>1. CASE t \in done
            BY <2>0, <3>1
        <3>2. CASE In(tasks, t)
            <4>1. PICK i \in 1..Len(tasks) : tasks[i] = t
                BY <3>2 DEF In
            <4>2. CASE i = 1
                BY <1>0, <2>0, <4>1, <4>2
            <4>3. CASE i # 1
                <5>1. i - 1 \in 1..Len(tasks') /\ tasks'[i - 1] = tasks[(i - 1) + 1]
                    BY <2>0, <4>3
                <5>2. (i - 1) + 1 = i
                    BY <1>0
                <5>3. tasks'[i - 1] = t
                    BY <4>1, <5>1, <5>2
                <5> QED
                    BY <5>1, <5>3 DEF In
            <4> QED
                BY <4>2, <4>3
        <3>3. ASSUME NEW v \in Workers, task[v] = t
              PROVE  \E u \in Workers : task'[u] = t
            <4>1. t # NoTask
                BY <1>0 DEF NoTask
            <4>2. task'[v] = t
                BY <1>0, <2>0, <3>3, <4>1
            <4> QED
                BY <4>2
        <3> QED
            BY <3>1, <3>2, <3>3 DEF NoneLost
    <2> QED
        BY <2>0, <2>1 DEF NoneLost, In
<1>2. ASSUME NEW w \in Workers, TaskEnds(w)
      PROVE  NoneLost'
    <2>1. /\ task' = [task EXCEPT ![w] = NoTask] /\ done' = done \cup {task[w]}
          /\ UNCHANGED <<tasks, committed>>
        BY <1>2 DEF TaskEnds
    <2>2. \A t \in 1..committed :
            t \in done' \/ In(tasks, t) \/ \E v \in Workers : task'[v] = t
        BY <1>0, <2>1 DEF NoneLost
    <2> QED
        BY <2>1, <2>2 DEF NoneLost, In
<1>3. ASSUME NEW c \in Callers, Commit(c)
      PROVE  NoneLost'
    <2>1. /\ committed' = committed + 1 /\ tasks' = Append(tasks, committed + 1)
          /\ UNCHANGED <<task, done>>
        BY <1>3 DEF Commit
    <2>2. /\ \A i \in 1..Len(tasks) : i \in 1..Len(tasks') /\ tasks'[i] = tasks[i]
          /\ Len(tasks) + 1 \in 1..Len(tasks') /\ tasks'[Len(tasks) + 1] = committed + 1
        BY <1>0, <2>1
    <2>3. \A t : In(tasks, t) \/ t = committed + 1 => In(tasks', t)
        BY <2>2 DEF In
    <2>4. \A t \in 1..committed' : t \in 1..committed \/ t = committed + 1
        BY <1>0, <2>1
    <2>5. \A t \in 1..committed' :
            t \in done' \/ In(tasks', t) \/ \E v \in Workers : task'[v] = t
        BY <2>1, <2>3, <2>4 DEF NoneLost
    <2> QED
        BY <2>5 DEF NoneLost, In
<1>4. CASE UNCHANGED <<tasks, task, committed, done>>
    BY <1>4 DEF NoneLost, In
<1> QED
    BY <1>1, <1>2, <1>3, <1>4, TaskMoves

(* Where a wait comes to: only its look at an empty queue leads to the     *)
(* count.                                                                  *)
LEMMA LookedNext ==
    ASSUME PoolInv, LookedOK, PoolStep
    PROVE  LookedOK'
<1>0. /\ tasks \in Seq(Task) /\ committed \in Nat /\ cpc \in [Callers -> CallerAt]
      /\ before \in [Callers -> 0..committed]
    BY PoolAssumption DEF PoolInv, PoolTypes, Counters, LookedOK
<1>1. ASSUME NEW w \in Workers, WorkerStep(w) \/ TaskEnds(w)
      PROVE  LookedOK'
    <2>1. UNCHANGED <<committed, cpc, before>>
        BY <1>1 DEF WorkerStep, Top, PassGate, TestPredicate, Sleep, ReturnIfStopped,
                    TakeBusy, TakePop, TaskEnds, BackToIdle, callers
    <2>2. CASE TakePop(w)
        <3>1. \A i \in 1..Len(tasks') : i + 1 \in 1..Len(tasks) /\ tasks'[i] = tasks[i + 1]
            BY <2>2, TakePopTakes
        <3> QED
            BY <2>1, <3>1 DEF LookedOK
    <2>3. CASE ~TakePop(w)
        <3>1. UNCHANGED tasks
            BY <1>1, <2>3 DEF WorkerStep, Top, PassGate, TestPredicate, Sleep,
                              ReturnIfStopped, TakeBusy, TaskEnds, BackToIdle
        <3> QED
            BY <2>1, <3>1 DEF LookedOK
    <2> QED
        BY <2>2, <2>3
<1>2. ASSUME NEW c \in Callers, Commit(c)
      PROVE  LookedOK'
    <2>1. /\ committed' = committed + 1 /\ tasks' = Append(tasks, committed + 1)
          /\ before' = before /\ cpc' = [cpc EXCEPT ![c] = "notify"]
        BY <1>2 DEF Commit, Call
    <2>2. \A i \in 1..Len(tasks') :
            (i \in 1..Len(tasks) /\ tasks'[i] = tasks[i]) \/ tasks'[i] = committed + 1
        BY <1>0, <2>1
    <2>3. \A d \in Callers : cpc'[d] = "idle?" => cpc[d] = "idle?"
        BY <1>0, <2>1
    <2>4. \A d \in Callers : committed + 1 > before[d] /\ before[d] \in 0..(committed + 1)
        BY <1>0
    <2>5. before \in [Callers -> 0..(committed + 1)]
        BY <1>0, <2>4
    <2> QED
        BY <2>1, <2>2, <2>3, <2>4, <2>5 DEF LookedOK
<1>3. ASSUME NEW c \in Callers, WaitEmpty(c)
      PROVE  LookedOK'
    <2>1. /\ UNCHANGED <<tasks, committed, before>>
          /\ \/ cpc' = [cpc EXCEPT ![c] = "wait"]
             \/ tasks = <<>>
        BY <1>3 DEF WaitEmpty, Call
    <2>2. \A d \in Callers : cpc'[d] = "idle?" => cpc[d] = "idle?" \/ tasks = <<>>
        BY <1>0, <2>1
    <2>3. tasks = <<>> => Len(tasks) = 0
        BY <1>0
    <2> QED
        BY <2>1, <2>2, <2>3 DEF LookedOK
<1>4. ASSUME NEW c \in Callers, Wait(c)
      PROVE  LookedOK'
    <2>1. /\ UNCHANGED <<tasks, committed>> /\ before' = [before EXCEPT ![c] = committed]
          /\ cpc' = [cpc EXCEPT ![c] = "wait"]
        BY <1>4 DEF Wait, Call
    <2>2. before' \in [Callers -> 0..committed]
        BY <1>0, <2>1
    <2>3. \A d \in Callers : cpc'[d] = "idle?" => cpc[d] = "idle?" /\ before'[d] = before[d]
        BY <1>0, <2>1
    <2> QED
        BY <2>1, <2>2, <2>3 DEF LookedOK
<1>5. ASSUME NEW c \in Callers, BeginCall(c) \/ FinishCall(c),
             ~Commit(c), ~WaitEmpty(c), ~Wait(c)
      PROVE  LookedOK'
    <2>1. UNCHANGED <<tasks, committed, before>>
        BY <1>5 DEF BeginCall, Start, Stop, Pause, Resume, FinishCall,
                    NotifyOne, StartRuns, Spawn, StartReturns, StopStores, NotifyAll,
                    Join, StopReturns, PauseStores, WaitLooks,
                    WaitCounts
    <2>2. cpc' = cpc \/ \E l \in CallerAt \ {"idle?"} : cpc' = [cpc EXCEPT ![c] = l]
        BY <1>5 DEF BeginCall, Start, Stop, Pause, Resume, FinishCall,
                    NotifyOne, StartRuns, Spawn, StartReturns, StopStores, NotifyAll,
                    Join, StopReturns, PauseStores, WaitLooks,
                    WaitCounts, Call, CallerAt
    <2>3. \A d \in Callers : cpc'[d] = "idle?" => cpc[d] = "idle?"
        BY <1>0, <2>2
    <2> QED
        BY <2>1, <2>3 DEF LookedOK
<1> QED
    BY <1>1, <1>2, <1>3, <1>4, <1>5 DEF PoolStep

LEMMA WaitInvNext == PoolInv /\ WaitInv /\ [Next]_vars => WaitInv'
<1>1. PoolInv /\ WaitInv /\ PoolStep => WaitInv'
    BY IdleNext, NoneLostNext, LookedNext DEF WaitInv
<1>2. WaitInv /\ UNCHANGED poolVars => WaitInv'
    BY DEF WaitInv, poolVars, callers, IdleOK, NoneLost, LookedOK, In, Busy
<1> QED
    BY <1>1, <1>2, NextIsPoolStep

LEMMA WaitInvHolds == Spec => []WaitInv
BY WaitInvInit, PoolInvHolds, WaitInvNext, PTL DEF Spec

(* With every worker idle nothing is running.                              *)
LEMMA IdleMeansNotRunning ==
    ASSUME PoolInv, WaitInv, idle_num = pool_size
    PROVE  \A w \in Workers : task[w] = NoTask
<1>1. IsFiniteSet(Busy(wpc)) /\ Cardinality(Busy(wpc)) \in Nat
    BY BusyFinite
<1>2. Cardinality(Busy(wpc)) = 0
    BY <1>1, PoolAssumption DEF WaitInv, IdleOK
<1>3. Busy(wpc) = {}
    BY <1>1, <1>2, FS_EmptySet
<1> QED
    BY <1>3 DEF PoolInv, TaskOK, Busy

LEMMA WaitStep ==
    ASSUME PoolInv, WaitInv, [Next]_vars, NEW c \in Callers,
           cpc[c] = "idle?", cpc'[c] = "idle"
    PROVE  1..before[c] \subseteq done
<1>0. /\ cpc \in [Callers -> CallerAt] /\ committed \in Nat /\ before[c] \in 0..committed
      /\ tasks \in Seq(Task)
    BY PoolAssumption DEF PoolInv, PoolTypes, Counters, WaitInv, LookedOK
<1>1. idle_num = pool_size
    <2>1. cpc' # cpc
        OBVIOUS
    <2>2. \A w \in Workers : WorkerStep(w) \/ TaskEnds(w) => cpc' = cpc
        BY DEF WorkerStep, Top, PassGate, TestPredicate, Sleep, ReturnIfStopped,
               TakeBusy, TakePop, TaskEnds, BackToIdle, callers
    <2>3. UNCHANGED poolVars => cpc' = cpc
        BY DEF poolVars
    <2>4. PICK d \in Callers : BeginCall(d) \/ FinishCall(d)
        BY <2>1, <2>2, <2>3, NextIsPoolStep DEF PoolStep
    <2>5. cpc' = cpc \/ \E l \in CallerAt : cpc' = [cpc EXCEPT ![d] = l]
        BY <2>4 DEF BeginCall, Commit, Start, Stop, Pause, Resume, Wait, FinishCall,
                    NotifyOne, StartRuns, Spawn, StartReturns, StopStores, NotifyAll,
                    Join, StopReturns, PauseStores, WaitLooks, WaitEmpty,
                    WaitCounts, Call, CallerAt
    <2>6. d = c
        BY <1>0, <2>1, <2>5
    <2>7. WaitCounts(c)
        BY <2>4, <2>6 DEF BeginCall, Commit, Start, Stop, Pause, Resume, Wait, FinishCall,
                    NotifyOne, StartRuns, Spawn, StartReturns, StopStores, NotifyAll,
                    Join, StopReturns, PauseStores, WaitLooks, WaitEmpty, MayCall
    <2> QED
        BY <1>0, <2>7 DEF WaitCounts, Call
<1>2. ASSUME NEW t \in 1..before[c] PROVE t \in done
    <2>1. t \in 1..committed
        BY <1>0
    <2>2. \A w \in Workers : task[w] # t
        BY <1>1, <1>0, IdleMeansNotRunning DEF NoTask
    <2>3. ~In(tasks, t)
        <3>1. \A i \in 1..Len(tasks) : tasks[i] > before[c]
            BY DEF WaitInv, LookedOK
        <3>2. \A i \in 1..Len(tasks) : tasks[i] \in Nat
            <4>1. \A i \in 1..Len(tasks) : tasks[i] \in Task
                BY <1>0
            <4>2. \A u \in Task : u \in Nat
                BY DEF Task
            <4> QED
                BY <4>1, <4>2
        <3>3. \A i \in 1..Len(tasks) : tasks[i] # t
            BY <1>0, <3>1, <3>2
        <3> QED
            BY <3>3 DEF In
    <2> QED
        BY <2>1, <2>2, <2>3 DEF WaitInv, NoneLost
<1> QED
    BY <1>2

(* hthreadpool.h:87-95: a wait that returns because the pool is idle has   *)
(* waited for everything committed before it, although it looks at the     *)
(* queue and at idle_num without the mutex, one after the other.           *)
THEOREM WaitIsDone == Spec => WaitMeansDone
<1>1. PoolInv /\ WaitInv /\ [Next]_vars =>
        [\A c \in Callers :
           (cpc[c] = "idle?" /\ cpc'[c] = "idle") => 1..before[c] \subseteq done]_vars
    BY WaitStep
<1> QED
    BY <1>1, PoolInvHolds, WaitInvHolds, PTL DEF Spec, WaitMeansDone

(* The variables of both pools keep the types of TypeOK.                   *)
THEOREM TypeCorrect == Spec => []TypeOK
<1>1. PoolInv /\ ObjectInv => TypeOK
    BY DEF PoolInv, PoolTypes, ObjectInv, ObjectTypes, TypeOK, WorkerAt, CallerAt, BorrowerAt
<1> QED
    BY <1>1, PoolInvHolds, ObjectInvHolds, PTL

=============================================================================
