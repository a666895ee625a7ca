------------------------------ MODULE EvppPool ------------------------------
(***************************************************************************)
(* EventLoop, EventLoopThread and EventLoopThreadPool of libhv/evpp: the   *)
(* life of a pool's loops, from start() to stop() and join(), and tasks    *)
(* posted to them meanwhile.  Every store to a status or to loop_ that     *)
(* another thread reads is a step.  hloop_run's entry, hloop_stop and      *)
(* hloop_post_event are one step each; LoopPost takes those apart.         *)
(***************************************************************************)
EXTENDS Naturals, Sequences, FiniteSets

CONSTANTS
    thread_num,     \* thread_num_
    Posters,        \* threads that post tasks to the loops
    Task,           \* the tasks, each posted once
    Pre,            \* the functor that start() queues in each loop
    NoTask,
    Waits,          \* what start() and stop() may be told about waiting
    MaxStops,       \* bound: calls of stop()
    Disciplined     \* does the application post between start() and stop()
                    \* only, and stop the pool only when its status is kRunning?

Loops == 1..thread_num

ASSUME EvppAssumption ==
    /\ thread_num \in Nat /\ MaxStops \in Nat
    /\ Pre \notin Task /\ NoTask \notin Task \cup {Pre}
    /\ IsFiniteSet(Posters) /\ Posters \cap (Loops \cup {0}) = {}

(* Status.h: kInitialized, kStarting, kStarted, kRunning, kStopping, and   *)
(* kStopped; their order is used.                                          *)
kInitialized == 2
kStarting == 3
kStarted == 4
kRunning == 5
kStopping == 7
kStopped == 8

VARIABLES
    pool,           \* status of the pool
    thr,            \* status of each EventLoopThread
    status,         \* status of each EventLoop
    loop_,          \* is EventLoop::loop_ set?
    hloop,          \* each hloop_t: "new", "running", "stop" or "freed"
    posted,         \* its custom_events, tasks being told from its stop event
    batch,          \* events it has read a byte for and not handled
    customEvents,   \* queue of each EventLoop
    tpc,            \* where each loop's thread is
    ppc, arg, to,   \* where each poster is, with which task, for which loop
    started, exited,\* the two counters of start()
    opc, at, wait,  \* where the pool's owner is, and with which argument
    stops,          \* calls of stop() left
    ran,            \* history: what each loop has run
    fault           \* history: a null or freed hloop_t used, a failed assert

owner == <<opc, at, wait, stops>>
poster == <<ppc, arg, to>>
counters == <<started, exited>>
vars == <<pool, thr, status, loop_, hloop, posted, batch, customEvents, tpc,
          poster, counters, owner, ran, fault>>

Init ==
    /\ pool = kInitialized
    /\ thr = [i \in Loops |-> kInitialized]
    /\ status = [i \in Loops |-> kInitialized]
    /\ loop_ = [i \in Loops |-> TRUE]
    /\ hloop = [i \in Loops |-> "new"]
    /\ posted = [i \in Loops |-> <<>>] /\ batch = [i \in Loops |-> 0]
    /\ customEvents = [i \in Loops |-> <<>>]
    /\ tpc = [i \in Loops |-> "none"]
    /\ ppc = [p \in Posters |-> "idle"]
    /\ arg = [p \in Posters |-> NoTask] /\ to = [p \in Posters |-> 0]
    /\ started = 0 /\ exited = 0
    /\ opc = "new" /\ at = 0 /\ wait = FALSE /\ stops = MaxStops
    /\ ran = [i \in Loops |-> <<>>]
    /\ fault = "none"

-----------------------------------------------------------------------------
(* The second half of postEvent: loop_ is read again.                      *)
hloop_post_event(i) ==
    /\ posted' = IF loop_[i] /\ hloop[i] # "freed"
                   THEN [posted EXCEPT ![i] = Append(@, "task")] ELSE posted
    /\ fault' = IF ~loop_[i] THEN "null"
                ELSE IF hloop[i] = "freed" THEN "freed" ELSE fault

(* loop_thread of EventLoopThread, and run of EventLoop.                   *)
GoTo(i, l) == tpc' = [tpc EXCEPT ![i] = l]

ThreadStarts(i) ==
    /\ tpc[i] = "born"
    /\ thr' = [thr EXCEPT ![i] = kStarted]
    /\ GoTo(i, "pre")
    /\ UNCHANGED <<pool, status, loop_, hloop, posted, batch, customEvents,
                   poster, counters, owner, ran, fault>>

QueuePre(i) ==
    /\ tpc[i] = "pre"
    /\ \/ ~loop_[i] /\ GoTo(i, "run") /\ UNCHANGED customEvents
       \/ /\ loop_[i]
          /\ customEvents' = [customEvents EXCEPT ![i] = Append(@, Pre)]
          /\ GoTo(i, "post pre")
    /\ UNCHANGED <<pool, thr, status, loop_, hloop, posted, batch, poster,
                   counters, owner, ran, fault>>

PostPre(i) ==
    /\ tpc[i] = "post pre"
    /\ hloop_post_event(i)
    /\ GoTo(i, "run")
    /\ UNCHANGED <<pool, thr, status, loop_, hloop, batch, customEvents,
                   poster, counters, owner, ran>>

(* run() returns at once if loop_ is not set; loop_thread then asserts     *)
(* that the loop has stopped.                                              *)
Run(i) ==
    /\ tpc[i] = "run"
    /\ \/ ~loop_[i] /\ GoTo(i, "assert") /\ UNCHANGED status
       \/ /\ loop_[i] /\ GoTo(i, "enter")
          /\ status' = [status EXCEPT ![i] = kRunning]
    /\ UNCHANGED <<pool, thr, loop_, hloop, posted, batch, customEvents,
                   poster, counters, owner, ran, fault>>

Assert(i) ==
    /\ tpc[i] = "assert"
    /\ fault' = IF status[i] = kStopped THEN fault ELSE "assert"
    /\ GoTo(i, "post")
    /\ UNCHANGED <<pool, thr, status, loop_, hloop, posted, batch,
                   customEvents, poster, counters, owner, ran>>

(* hloop_run: a stop that came before is overwritten.                      *)
EnterLoop(i) ==
    /\ tpc[i] = "enter"
    /\ \/ ~loop_[i] /\ GoTo(i, "left") /\ UNCHANGED hloop
       \/ /\ loop_[i] /\ GoTo(i, "loop")
          /\ hloop' = [hloop EXCEPT ![i] = "running"]
    /\ UNCHANGED <<pool, thr, status, loop_, posted, batch, customEvents,
                   poster, counters, owner, ran, fault>>

ReadBytes(i) ==
    /\ tpc[i] = "loop" /\ hloop[i] = "running"
    /\ batch[i] = 0 /\ posted[i] # <<>>
    /\ batch' = [batch EXCEPT ![i] = Len(posted[i])]
    /\ UNCHANGED <<pool, thr, status, loop_, hloop, posted, customEvents, tpc,
                   poster, counters, owner, ran, fault>>

(* Pre counts the loop, and the last one tells the pool.                   *)
Counted(i, cb) ==
    /\ started' = IF cb = Pre THEN started + 1 ELSE started
    /\ GoTo(i, IF cb = Pre /\ started + 1 = thread_num THEN "all started"
                                                         ELSE "loop")

(* Mutant: the last is run.                                               *)
RunLast(i) ==
    LET q == customEvents[i] IN
    /\ customEvents' = [customEvents EXCEPT ![i] = SubSeq(q, 1, Len(q) - 1)]
    /\ ran' = [ran EXCEPT ![i] = Append(@, q[Len(q)])]
    /\ Counted(i, q[Len(q)])

(* onCustomEvent: the front of customEvents, whichever event it came for.  *)
RunFront(i) ==
    LET cb == Head(customEvents[i]) IN
    /\ customEvents' = [customEvents EXCEPT ![i] = Tail(@)]
    /\ ran' = [ran EXCEPT ![i] = Append(@, cb)]
    /\ Counted(i, cb)

HandleEvent(i) ==
    /\ tpc[i] = "loop" /\ batch[i] > 0
    /\ batch' = [batch EXCEPT ![i] = @ - 1]
    /\ posted' = [posted EXCEPT ![i] = Tail(@)]
    /\ IF Head(posted[i]) = "task"
         THEN RunFront(i) /\ UNCHANGED hloop
         ELSE /\ hloop' = [hloop EXCEPT ![i] = "stop"]
              /\ UNCHANGED <<customEvents, ran, started, tpc>>
    /\ UNCHANGED <<pool, thr, status, loop_, poster, exited, owner, fault>>

AllStarted(i) ==
    /\ tpc[i] = "all started"
    /\ pool' = kRunning
    /\ GoTo(i, "loop")
    /\ UNCHANGED <<thr, status, loop_, hloop, posted, batch, customEvents,
                   poster, counters, owner, ran, fault>>

(* The loop ends between two batches, or before one is handled; it frees   *)
(* itself (HLOOP_FLAG_AUTO_FREE) with the events not handled.              *)
LeaveLoop(i) ==
    /\ tpc[i] = "loop" /\ hloop[i] = "stop" /\ batch[i] = 0
    /\ hloop' = [hloop EXCEPT ![i] = "freed"]
    /\ posted' = [posted EXCEPT ![i] = <<>>]
    /\ GoTo(i, "left")
    /\ UNCHANGED <<pool, thr, status, loop_, batch, customEvents, poster,
                   counters, owner, ran, fault>>

RunEnds(i) ==
    /\ tpc[i] = "left"
    /\ status' = [status EXCEPT ![i] = kStopped]
    /\ GoTo(i, "assert")
    /\ UNCHANGED <<pool, thr, loop_, hloop, posted, batch, customEvents,
                   poster, counters, owner, ran, fault>>

(* Mutant: the pool is not told.                                           *)
PostQuietly(i) ==
    /\ tpc[i] = "post"
    /\ exited' = exited + 1
    /\ GoTo(i, "ends")
    /\ UNCHANGED <<pool, thr, status, loop_, hloop, posted, batch,
                   customEvents, poster, started, owner, ran, fault>>

(* The post functor, and the end of the thread.                            *)
Post(i) ==
    /\ tpc[i] = "post"
    /\ exited' = exited + 1
    /\ GoTo(i, IF exited + 1 = thread_num THEN "all exited" ELSE "ends")
    /\ UNCHANGED <<pool, thr, status, loop_, hloop, posted, batch,
                   customEvents, poster, started, owner, ran, fault>>

AllExited(i) ==
    /\ tpc[i] = "all exited"
    /\ pool' = kStopped
    /\ GoTo(i, "ends")
    /\ UNCHANGED <<thr, status, loop_, hloop, posted, batch, customEvents,
                   poster, counters, owner, ran, fault>>

ThreadEnds(i) ==
    /\ tpc[i] = "ends"
    /\ thr' = [thr EXCEPT ![i] = kStopped]
    /\ GoTo(i, "done")
    /\ UNCHANGED <<pool, status, loop_, hloop, posted, batch, customEvents,
                   poster, counters, owner, ran, fault>>

LoopThread(i) ==
    \/ ThreadStarts(i) \/ QueuePre(i) \/ PostPre(i) \/ Run(i) \/ Assert(i)
    \/ EnterLoop(i) \/ ReadBytes(i) \/ HandleEvent(i) \/ AllStarted(i)
    \/ LeaveLoop(i) \/ RunEnds(i) \/ Post(i) \/ AllExited(i) \/ ThreadEnds(i)

-----------------------------------------------------------------------------
(* postEvent from another thread: loop_ is tested, the task is queued, and *)
(* the hloop_t told.                                                       *)
MayPost == Disciplined => opc = "started"
Among(x, s) == \E k \in 1..Len(s) : s[k] = x

PostEvent(p) ==
    /\ ppc[p] = "idle" /\ MayPost
    /\ \E i \in Loops, t \in Task :
         /\ tpc[i] # "none" /\ loop_[i]
         /\ \A q \in Posters : arg[q] # t
         /\ \A j \in Loops : ~Among(t, customEvents[j]) /\ ~Among(t, ran[j])
         /\ arg' = [arg EXCEPT ![p] = t] /\ to' = [to EXCEPT ![p] = i]
    /\ ppc' = [ppc EXCEPT ![p] = "push"]
    /\ UNCHANGED <<pool, thr, status, loop_, hloop, posted, batch,
                   customEvents, tpc, counters, owner, ran, fault>>

Push(p) ==
    /\ ppc[p] = "push"
    /\ customEvents' = [customEvents EXCEPT ![to[p]] = Append(@, arg[p])]
    /\ arg' = [arg EXCEPT ![p] = NoTask]
    /\ ppc' = [ppc EXCEPT ![p] = "tell"]
    /\ UNCHANGED <<pool, thr, status, loop_, hloop, posted, batch, tpc, to,
                   counters, owner, ran, fault>>

(* Mutant: no event for the task.                                          *)
TellNobody(p) ==
    /\ ppc[p] = "tell"
    /\ ppc' = [ppc EXCEPT ![p] = "idle"] /\ to' = [to EXCEPT ![p] = 0]
    /\ UNCHANGED <<pool, thr, status, loop_, hloop, posted, batch,
                   customEvents, tpc, arg, counters, owner, ran, fault>>

Tell(p) ==
    /\ ppc[p] = "tell"
    /\ hloop_post_event(to[p])
    /\ ppc' = [ppc EXCEPT ![p] = "idle"] /\ to' = [to EXCEPT ![p] = 0]
    /\ UNCHANGED <<pool, thr, status, loop_, hloop, batch, customEvents, tpc,
                   arg, counters, owner, ran>>

-----------------------------------------------------------------------------
(* The owner: start.                                                       *)
Start ==
    /\ opc = "new"
    /\ wait' \in Waits
    /\ pool' = IF thread_num = 0 THEN kRunning ELSE kStarting
    /\ opc' = IF thread_num = 0 THEN "started" ELSE "spawn"
    /\ at' = 1
    /\ UNCHANGED <<thr, status, loop_, hloop, posted, batch, customEvents, tpc,
                   poster, counters, stops, ran, fault>>

Spawn ==
    /\ opc = "spawn"
    /\ \/ /\ at <= thread_num
          /\ thr' = [thr EXCEPT ![at] = kStarting]
          /\ tpc' = [tpc EXCEPT ![at] = "born"]
          /\ at' = at + 1 /\ UNCHANGED opc
       \/ /\ at > thread_num /\ (wait => pool >= kRunning)
          /\ opc' = "started"
          /\ UNCHANGED <<thr, tpc, at>>
    /\ UNCHANGED <<pool, status, loop_, hloop, posted, batch, customEvents,
                   poster, counters, wait, stops, ran, fault>>

(* stop: each thread that is not already stopping has its loop stopped.    *)
Stop ==
    /\ opc = "started" /\ stops > 0
    /\ Disciplined => pool = kRunning /\ \A p \in Posters : ppc[p] = "idle"
    /\ stops' = stops - 1
    /\ wait' \in Waits
    /\ pool' = kStopping
    /\ opc' = "stop" /\ at' = 1
    /\ UNCHANGED <<thr, status, loop_, hloop, posted, batch, customEvents, tpc,
                   poster, counters, ran, fault>>

StopThread ==
    /\ opc = "stop" /\ at <= thread_num
    /\ IF thr[at] >= kStopping
         THEN at' = at + 1 /\ UNCHANGED <<thr, opc>>
         ELSE /\ thr' = [thr EXCEPT ![at] = kStopping]
              /\ opc' = "stop loop" /\ UNCHANGED at
    /\ UNCHANGED <<pool, status, loop_, hloop, posted, batch, customEvents,
                   tpc, poster, counters, wait, stops, ran, fault>>

StopLoop ==
    /\ opc = "stop loop"
    /\ IF ~loop_[at]
         THEN opc' = "stop" /\ at' = at + 1 /\ UNCHANGED status
         ELSE /\ status' = [status EXCEPT ![at] = kStopping]
              /\ opc' = "hloop_stop" /\ UNCHANGED at
    /\ UNCHANGED <<pool, thr, loop_, hloop, posted, batch, customEvents, tpc,
                   poster, counters, wait, stops, ran, fault>>

(* The loop's tid is its creator's, the owner's, until hloop_run; only     *)
(* afterwards does hloop_stop post an event.                               *)
HloopStop ==
    /\ opc = "hloop_stop"
    /\ IF hloop[at] = "new"
         THEN UNCHANGED <<hloop, posted>>
         ELSE /\ hloop' = [hloop EXCEPT ![at] = "stop"]
              /\ posted' = [posted EXCEPT ![at] = Append(@, "stop")]
    /\ opc' = "forget"
    /\ UNCHANGED <<pool, thr, status, loop_, batch, customEvents, tpc, poster,
                   counters, at, wait, stops, ran, fault>>

Forget ==
    /\ opc = "forget"
    /\ loop_' = [loop_ EXCEPT ![at] = FALSE]
    /\ opc' = "stop" /\ at' = at + 1
    /\ UNCHANGED <<pool, thr, status, hloop, posted, batch, customEvents, tpc,
                   poster, counters, wait, stops, ran, fault>>

StopReturns ==
    /\ opc = "stop" /\ at > thread_num
    /\ wait => pool = kStopped
    /\ opc' = IF stops > 0 THEN "started" ELSE "stopped"
    /\ UNCHANGED <<pool, thr, status, loop_, hloop, posted, batch,
                   customEvents, tpc, poster, counters, at, wait, stops, ran,
                   fault>>

Join ==
    /\ opc = "stopped"
    /\ \A i \in Loops : tpc[i] \in {"none", "done"}
    /\ opc' = "joined"
    /\ UNCHANGED <<pool, thr, status, loop_, hloop, posted, batch,
                   customEvents, tpc, poster, counters, at, wait, stops, ran,
                   fault>>

OwnerGoesOn ==
    Spawn \/ StopThread \/ StopLoop \/ HloopStop \/ Forget \/ StopReturns \/ Join

-----------------------------------------------------------------------------
Steps ==
    \/ \E i \in Loops : LoopThread(i)
    \/ \E p \in Posters : PostEvent(p) \/ Push(p) \/ Tell(p)
    \/ Start \/ Stop \/ OwnerGoesOn

Next == fault = "none" /\ Steps

Spec == Init /\ [][Next]_vars

(* Every thread is scheduled and goes on with a call it has begun.         *)
FairSpec ==
    /\ Spec
    /\ \A i \in Loops : WF_vars(fault = "none" /\ LoopThread(i))
    /\ \A p \in Posters : WF_vars(fault = "none" /\ (Push(p) \/ Tell(p)))
    /\ WF_vars(fault = "none" /\ OwnerGoesOn)

-----------------------------------------------------------------------------
TypeOK ==
    LET Statuses == {kInitialized, kStarting, kStarted, kRunning, kStopping, kStopped}
    IN /\ pool \in Statuses
       /\ thr \in [Loops -> Statuses] /\ status \in [Loops -> Statuses]
       /\ hloop \in [Loops -> {"new", "running", "stop", "freed"}]
       /\ \A i \in Loops : batch[i] \in 0..Len(posted[i])
       /\ started \in 0..thread_num /\ exited \in 0..thread_num

(* Within the discipline no thread uses a null or freed hloop_t, nor does  *)
(* the assert of EventLoopThread.h:99 fail.                                *)
NoFault == fault = "none"

(* The front that onCustomEvent takes without a test is there: the events  *)
(* told of to the hloop_t are the callbacks queued, but for those whose    *)
(* poster is on its way to tell (EventLoop.h:157-161, 199-202).            *)
QueuesAgree ==
    \A i \in Loops :
      hloop[i] # "freed" =>
        LET Tasks == {k \in 1..Len(posted[i]) : posted[i][k] = "task"}
            Telling == {p \in Posters : ppc[p] = "tell" /\ to[p] = i}
            own == IF tpc[i] = "post pre" THEN 1 ELSE 0
        IN Len(customEvents[i]) = Cardinality(Tasks) + Cardinality(Telling) + own

(* Callbacks run once each, in the order in which they were queued, though *)
(* the queue is not the hloop_t's.                                         *)
Box(i) == INSTANCE PostBox WITH
    Threads <- Posters \cup {0}, Message <- Task \cup {Pre}, NoMessage <- NoTask,
    posting <- [p \in Posters \cup {0} |->
                  IF p = 0 THEN (IF tpc[i] = "pre" THEN Pre ELSE NoTask)
                  ELSE IF to[p] = i THEN arg[p] ELSE NoTask],
    box <- customEvents[i], taken <- ran[i]

IsMailbox ==
    /\ \A i \in Loops : Box(i)!BoxInit
    /\ [][\A i \in Loops : [Box(i)!BoxNext]_(Box(i)!boxVars)]_vars

(* The pool says that it runs when every loop does, until stop() is called,*)
(* and that it has stopped when nothing of the loops is left.              *)
StatusTrue ==
    /\ pool = kRunning /\ opc = "started"
         => \A i \in Loops : hloop[i] = "running" /\ loop_[i]
    /\ pool = kStopped
         => \A i \in Loops : hloop[i] = "freed" /\ status[i] = kStopped

(* When stop(true) returns nothing of the loops runs any more.             *)
StopMeansStopped ==
    [][(opc = "stop" /\ opc' \in {"started", "stopped"} /\ wait)
         => \A i \in Loops : hloop[i] = "freed"]_vars

(* start() and stop() return, and the threads can be joined.               *)
StopEnds == opc = "stop" ~> opc = "joined"

(* What has been posted is run, if stop() does not come.                   *)
TasksRun ==
    \A t \in Task, i \in Loops :
      Among(t, customEvents[i]) ~> (pool >= kStopping \/ Among(t, ran[i]))

=============================================================================
