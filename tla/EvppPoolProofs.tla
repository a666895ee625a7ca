---------------------------- MODULE EvppPoolProofs ----------------------------
(***************************************************************************)
(* Theorems about EventLoopThreadPool, for any number of loops, threads    *)
(* that post, tasks and calls of stop(), for an application that keeps to  *)
(* the discipline of EvppPool: it posts between start() and stop() only,   *)
(* and stops the pool when that says it is running.                        *)
(***************************************************************************)
EXTENDS EvppPool, SequenceTheorems, FiniteSetTheorems, TLAPS

-----------------------------------------------------------------------------
(* The pool has not been stopped.                                          *)
Early == pool \notin {kStopping, kStopped}

EarlyPcs == {"none", "born", "pre", "post pre", "run", "enter", "loop", "all started"}
LatePcs == {"loop", "left", "assert", "post", "all exited", "ends", "done"}
InRun == {"loop", "all started"}
Gone == {"all exited", "ends", "done"}
Pcs == EarlyPcs \cup LatePcs
Pools == {kInitialized, kStarting, kRunning, kStopping, kStopped}
BusyOpcs == {"stop loop", "hloop_stop", "forget"}
Opcs == {"new", "spawn", "started", "stop", "stopped", "joined"} \cup BusyOpcs

Statuses == {kInitialized, kStarting, kStarted, kRunning, kStopping, kStopped}
Event == {"task", "stop"}

Types ==
    /\ pool \in Pools
    /\ thr \in [Loops -> Statuses] /\ status \in [Loops -> Statuses]
    /\ loop_ \in [Loops -> BOOLEAN]
    /\ hloop \in [Loops -> {"new", "running", "stop", "freed"}]
    /\ posted \in [Loops -> Seq(Event)] /\ batch \in [Loops -> Nat]
    /\ customEvents \in [Loops -> Seq(Task \cup {Pre})]
    /\ ran \in [Loops -> Seq(Task \cup {Pre})]
    /\ tpc \in [Loops -> Pcs]
    /\ ppc \in [Posters -> {"idle", "push", "tell"}]
    /\ arg \in [Posters -> Task \cup {NoTask}]
    /\ to \in [Posters -> Loops \cup {0}]
    /\ started \in Nat /\ exited \in Nat /\ at \in Nat
    /\ opc \in Opcs

(* A thread that posts has a task and a loop, and the pool is not stopped  *)
(* under it.                                                               *)
PosterOK(p) ==
    /\ arg[p] # NoTask <=> ppc[p] = "push"
    /\ to[p] # 0 <=> ppc[p] # "idle"
    /\ ppc[p] # "idle" => Early

(* The life of a loop.  The owner changes it through loop_, and clears     *)
(* that at the end; hloop_stop comes just before.                          *)
Held(i) == opc \in BusyOpcs /\ at = i
LoopOK(i) ==
    /\ tpc[i] \in IF Early THEN EarlyPcs ELSE LatePcs
    /\ Early => loop_[i]
    /\ tpc[i] \in EarlyPcs \ InRun => hloop[i] = "new"
    /\ tpc[i] \in InRun => hloop[i] \in {"running", "stop"}
    /\ tpc[i] \in LatePcs \ InRun => hloop[i] = "freed"
    /\ loop_[i] /\ ~Held(i) => thr[i] < kStopping
    /\ loop_[i] /\ ~(opc = "forget" /\ at = i) =>
         hloop[i] \in {"new", "running"} /\ \A k \in 1..Len(posted[i]) : posted[i][k] = "task"
    /\ tpc[i] \in {"assert", "post"} \cup Gone => status[i] = kStopped

(* How far the owner has come.                                             *)
OwnerOK ==
    /\ IF opc = "new" THEN at = 0 ELSE at > 0
    /\ opc \in {"new", "spawn"} => Early /\ \A i \in Loops : i >= at => tpc[i] = "none"
    /\ opc \in {"stop"} \cup BusyOpcs =>
         ~Early /\ \A i \in Loops : loop_[i] <=> i >= at
    /\ opc \in BusyOpcs => at \in Loops
    /\ opc \in {"stopped", "joined"} => ~Early
    /\ opc \in {"started", "stopped", "joined"} /\ ~Early => \A i \in Loops : ~loop_[i]

(* A stop event is the last.                                               *)
PostedOK(i) ==
    /\ \A k \in 1..(Len(posted[i]) - 1) : posted[i][k] = "task"
    /\ batch[i] <= Len(posted[i])

(* The events told of, and the threads that have queued a callback and not *)
(* told of it: they are as many as the callbacks.                          *)
TaskCount(s) == IF s # <<>> /\ s[Len(s)] = "stop" THEN Len(s) - 1 ELSE Len(s)
Telling(i) == {p \in Posters : ppc[p] = "tell" /\ to[p] = i}
Own(i) == IF tpc[i] = "post pre" THEN 1 ELSE 0
CountOK(i) ==
    hloop[i] # "freed" =>
      Len(customEvents[i]) = TaskCount(posted[i]) + Cardinality(Telling(i)) + Own(i)

(* Pre is queued and run once.                                             *)
PreRan == {i \in Loops : Among(Pre, ran[i])}
Once(s) == \A j, k \in 1..Len(s) : s[j] = Pre /\ s[k] = Pre => j = k
PreOK(i) ==
    /\ tpc[i] \in {"none", "born", "pre"} => ~Among(Pre, customEvents[i])
    /\ tpc[i] \in EarlyPcs \ InRun => i \notin PreRan
    /\ i \in PreRan => ~Among(Pre, customEvents[i])
    /\ Once(customEvents[i])

(* started counts the loops that have run it, and the last one tells the   *)
(* pool.                                                                   *)
StartOK ==
    /\ started = Cardinality(PreRan)
    /\ pool \notin {kInitialized, kStarting} => started = thread_num
    /\ \A i \in Loops : tpc[i] = "all started" =>
         started = thread_num /\ pool \in {kInitialized, kStarting}
           /\ \A j \in Loops : tpc[j] = "all started" => j = i

(* exited counts the threads that have run the post functor.               *)
Exited == {i \in Loops : tpc[i] \in Gone}
ExitOK ==
    /\ exited = Cardinality(Exited)
    /\ pool = kStopped => exited = thread_num
    /\ \A i \in Loops : tpc[i] = "all exited" => exited = thread_num

Inv ==
    /\ Types /\ OwnerOK /\ StartOK /\ ExitOK
    /\ \A p \in Posters : PosterOK(p)
    /\ \A i \in Loops : LoopOK(i) /\ PostedOK(i) /\ CountOK(i) /\ PreOK(i)

-----------------------------------------------------------------------------
(* Posting and handling events.                                            *)
LEMMA CountNat ==
    ASSUME NEW s \in Seq(Event)
    PROVE  TaskCount(s) \in Nat
<1>1. s # <<>> => Len(s) \in Nat \ {0}
    OBVIOUS
<1> QED
    BY <1>1 DEF TaskCount

LEMMA PostedFacts ==
    ASSUME Inv, NEW i \in Loops
    PROVE  /\ posted[i] \in Seq(Event) /\ Len(posted[i]) \in Nat
           /\ customEvents[i] \in Seq(Task \cup {Pre}) /\ Len(customEvents[i]) \in Nat
           /\ ran[i] \in Seq(Task \cup {Pre})
           /\ TaskCount(posted[i]) \in Nat
<1>1. /\ posted[i] \in Seq(Event) /\ customEvents[i] \in Seq(Task \cup {Pre})
      /\ ran[i] \in Seq(Task \cup {Pre})
    BY DEF Inv, Types
<1>2. TaskCount(posted[i]) \in Nat
    BY <1>1, CountNat
<1> QED
    BY <1>1, <1>2

LEMMA TellingFinite ==
    ASSUME NEW i
    PROVE  IsFiniteSet(Telling(i)) /\ Cardinality(Telling(i)) \in Nat
<1>1. Telling(i) \in SUBSET Posters /\ IsFiniteSet(Posters)
    BY EvppAssumption DEF Telling
<1> QED
    BY <1>1, FS_Subset, FS_CardinalityType

(* Adding a task, and taking the first event of those posted.              *)
LEMMA CountAppend ==
    ASSUME NEW s \in Seq(Event), \A k \in 1..Len(s) : s[k] = "task"
    PROVE  /\ TaskCount(s) = Len(s)
           /\ TaskCount(Append(s, "task")) = Len(s) + 1
           /\ TaskCount(Append(s, "stop")) = Len(s)
<1>1. /\ Len(s) \in Nat
      /\ Len(Append(s, "task")) = Len(s) + 1 /\ Append(s, "task")[Len(s) + 1] = "task"
      /\ Len(Append(s, "stop")) = Len(s) + 1 /\ Append(s, "stop")[Len(s) + 1] = "stop"
    BY DEF Event
<1>2. s # <<>> => Len(s) \in 1..Len(s)
    BY <1>1
<1>3. Append(s, "task") # <<>> /\ Append(s, "stop") # <<>>
    BY <1>1
<1> QED
    BY <1>1, <1>2, <1>3 DEF TaskCount

LEMMA CountTail ==
    ASSUME NEW s \in Seq(Event), s # <<>>,
           \A k \in 1..(Len(s) - 1) : s[k] = "task"
    PROVE  /\ Head(s) = "task" => TaskCount(s) = TaskCount(Tail(s)) + 1 /\ TaskCount(s) > 0
           /\ Head(s) # "task" => TaskCount(s) = TaskCount(Tail(s))
           /\ \A k \in 1..(Len(Tail(s)) - 1) : Tail(s)[k] = "task"
           /\ (\A k \in 1..Len(s) : s[k] = "task")
                => \A k \in 1..Len(Tail(s)) : Tail(s)[k] = "task"
<1>1. /\ Len(s) \in Nat \ {0} /\ Len(Tail(s)) = Len(s) - 1 /\ Head(s) = s[1]
      /\ \A k \in 1..(Len(s) - 1) : Tail(s)[k] = s[k + 1]
      /\ Tail(s) \in Seq(Event)
    OBVIOUS
<1>2. CASE Len(s) = 1
    <2>1. Len(Tail(s)) = 0 /\ Tail(s) = <<>>
        <3>1. Len(Tail(s)) = 0
            BY <1>1, <1>2
        <3>2. Tail(s) # <<>> => Len(Tail(s)) \in Nat \ {0}
            BY <1>1, EmptySeq
        <3> QED
            BY <3>1, <3>2
    <2>2. Head(s) \in {"task", "stop"} /\ s[Len(s)] = Head(s)
        BY <1>1, <1>2 DEF Event
    <2>3. TaskCount(Tail(s)) = 0 /\ TaskCount(s) = IF Head(s) = "stop" THEN 0 ELSE 1
        BY <1>2, <2>1, <2>2 DEF TaskCount
    <2>4. \A k \in 1..Len(Tail(s)) : FALSE
        <3>1. \A k \in 1..0 : FALSE
            OBVIOUS
        <3> QED
            BY <2>1, <3>1
    <2>5. Len(Tail(s)) - 1 = -1
        BY <2>1
    <2> QED
        BY <2>2, <2>3, <2>4, <2>5
<1>3. CASE Len(s) > 1
    <2>1. Tail(s) # <<>> /\ Tail(s)[Len(Tail(s))] = s[Len(s)] /\ Head(s) = "task"
        BY <1>1, <1>3
    <2>2. /\ \A k \in 1..(Len(Tail(s)) - 1) : Tail(s)[k] = "task"
          /\ (\A k \in 1..Len(s) : s[k] = "task")
                => \A k \in 1..Len(Tail(s)) : Tail(s)[k] = "task"
        BY <1>1
    <2> QED
        BY <1>1, <1>3, <2>1, <2>2 DEF TaskCount
<1> QED
    BY <1>1, <1>2, <1>3

LEMMA AllTasks ==
    ASSUME NEW s \in Seq(Event), \A k \in 1..Len(s) : s[k] = "task"
    PROVE  \A k \in 1..Len(Append(s, "task")) : Append(s, "task")[k] = "task"
<1>1. /\ Len(s) \in Nat
      /\ Len(Append(s, "task")) = Len(s) + 1 /\ Append(s, "task")[Len(s) + 1] = "task"
      /\ \A k \in 1..Len(s) : Append(s, "task")[k] = s[k]
    BY DEF Event
<1> QED
    BY <1>1

(* What a thread finds when it handles an event.                           *)
LEMMA FrontThere ==
    ASSUME Inv, NEW i \in Loops, tpc[i] = "loop", batch[i] > 0
    PROVE  /\ posted[i] # <<>> /\ Tail(posted[i]) \in Seq(Event)
           /\ Head(posted[i]) = "task" =>
                /\ customEvents[i] # <<>>
                /\ Head(customEvents[i]) \in Task \cup {Pre}
                /\ Tail(customEvents[i]) \in Seq(Task \cup {Pre})
<1>1. posted[i] # <<>>
    <2>1. batch[i] \in Nat /\ batch[i] <= Len(posted[i]) /\ Len(posted[i]) \in Nat
        BY PostedFacts DEF Inv, Types, PostedOK
    <2>2. Len(posted[i]) # 0
        BY <2>1
    <2> QED
        BY <2>2, PostedFacts
<1>2. ASSUME Head(posted[i]) = "task" PROVE customEvents[i] # <<>>
    <2>1. TaskCount(posted[i]) > 0
        BY <1>1, <1>2, PostedFacts, CountTail DEF Inv, PostedOK
    <2>2. hloop[i] # "freed"
        BY DEF Inv, LoopOK, InRun
    <2>3. Len(customEvents[i]) = TaskCount(posted[i]) + Cardinality(Telling(i)) + 0
        BY <2>2 DEF Inv, CountOK, Own
    <2>4. Len(customEvents[i]) > 0
        BY <2>1, <2>3, PostedFacts, TellingFinite
    <2> QED
        BY <2>4, PostedFacts
<1> QED
    BY <1>1, <1>2, PostedFacts

(* A hloop_t that is told of a task is there: neither null nor freed.      *)
LEMMA HloopThere ==
    ASSUME Inv, Early, NEW i \in Loops
    PROVE  /\ loop_[i] /\ hloop[i] # "freed"
           /\ \A k \in 1..Len(posted[i]) : posted[i][k] = "task"
<1>1. LoopOK(i) /\ opc # "forget"
    BY DEF Inv, OwnerOK, BusyOpcs
<1> QED
    BY <1>1 DEF LoopOK

LEMMA TellsHloop ==
    ASSUME Inv, Early, NEW i \in Loops, hloop_post_event(i)
    PROVE  /\ posted' = [posted EXCEPT ![i] = Append(@, "task")]
           /\ fault' = fault
BY HloopThere DEF hloop_post_event

-----------------------------------------------------------------------------
(* Each part of the invariant, over every step.                            *)
LEMMA Numbers ==
    /\ {kInitialized, kStarting, kStarted, kRunning, kStopping, kStopped} \subseteq Statuses
    /\ {kInitialized, kStarting, kRunning, kStopping, kStopped} \subseteq Pools
    /\ {"new", "spawn", "started", "stop", "stopped", "joined",
        "stop loop", "hloop_stop", "forget"} \subseteq Opcs
BY DEF Statuses, Pools, Opcs, BusyOpcs

LEMMA GoToPcs ==
    /\ \A i \in Loops, l \in Pcs :
         tpc \in [Loops -> Pcs] /\ GoTo(i, l) => tpc' \in [Loops -> Pcs]
    /\ {"none", "born", "pre", "post pre", "run", "enter", "loop", "all started", "left",
        "assert", "post", "all exited", "ends", "done"} \subseteq Pcs
BY DEF GoTo, Pcs, EarlyPcs, LatePcs

LEMMA TypesNext == ASSUME Inv, [Next]_vars PROVE Types'
<1>1. CASE UNCHANGED vars
    BY <1>1 DEF Inv, Types, vars, poster, counters, owner
<1>2. ASSUME NEW i \in Loops, LoopThread(i) PROVE Types'
    <2>1. CASE ThreadStarts(i) \/ Run(i) \/ Assert(i) \/ EnterLoop(i) \/ RunEnds(i)
               \/ Post(i) \/ AllStarted(i) \/ AllExited(i) \/ ThreadEnds(i)
        <3>1. CASE ThreadStarts(i)
            BY <2>1, <3>1, GoToPcs, Numbers DEF ThreadStarts, Inv, Types, poster, counters, owner
        <3>2. CASE Run(i)
            BY <2>1, <3>2, GoToPcs, Numbers DEF Run, Inv, Types, poster, counters, owner
        <3>3. CASE Assert(i)
            BY <2>1, <3>3, GoToPcs, Numbers DEF Assert, Inv, Types, poster, counters, owner
        <3>4. CASE EnterLoop(i)
            BY <2>1, <3>4, GoToPcs, Numbers DEF EnterLoop, Inv, Types, poster, counters, owner
        <3>5. CASE RunEnds(i)
            BY <2>1, <3>5, GoToPcs, Numbers DEF RunEnds, Inv, Types, poster, counters, owner
        <3>6. CASE Post(i)
            <4>1. exited' = exited + 1
                BY <3>6, Zenon DEF Post
            <4>2. exited' \in Nat
                BY <4>1 DEF Inv, Types
            <4>3. GoTo(i, "all exited") \/ GoTo(i, "ends")
                BY <3>6, Zenon DEF Post
            <4>4. tpc' \in [Loops -> Pcs]
                BY <4>3, GoToPcs, Zenon DEF Inv, Types
            <4>5. UNCHANGED <<pool, thr, status, loop_, hloop, posted, batch, customEvents,
                              poster, started, owner, ran>>
                BY <3>6, Zenon DEF Post
            <4> QED
                BY <4>2, <4>4, <4>5 DEF Inv, Types, poster, owner
        <3>7. CASE AllStarted(i)
            BY <2>1, <3>7, GoToPcs, Numbers DEF AllStarted, Inv, Types, poster, counters, owner
        <3>8. CASE AllExited(i)
            BY <2>1, <3>8, GoToPcs, Numbers DEF AllExited, Inv, Types, poster, counters, owner
        <3>9. CASE ThreadEnds(i)
            BY <2>1, <3>9, GoToPcs, Numbers DEF ThreadEnds, Inv, Types, poster, counters, owner
        <3> QED
            BY <2>1, <3>1, <3>2, <3>3, <3>4, <3>5, <3>6, <3>7, <3>8, <3>9
    <2>2. CASE QueuePre(i)
        <3>1. Append(customEvents[i], Pre) \in Seq(Task \cup {Pre})
            BY PostedFacts
        <3> QED
            BY <2>2, <3>1, GoToPcs DEF QueuePre, Inv, Types, poster, counters, owner
    <2>3. CASE PostPre(i)
        <3>1. posted' \in [Loops -> Seq(Event)]
            <4>1. Append(posted[i], "task") \in Seq(Event)
                BY PostedFacts DEF Event
            <4> QED
                BY <2>3, <4>1 DEF PostPre, hloop_post_event, Inv, Types
        <3> QED
            BY <2>3, <3>1, GoToPcs DEF PostPre, Inv, Types, poster, counters, owner
    <2>4. CASE ReadBytes(i)
        BY <2>4, PostedFacts DEF ReadBytes, Inv, Types, poster, counters, owner
    <2>5. CASE LeaveLoop(i)
        BY <2>5, EmptySeq, GoToPcs DEF LeaveLoop, Inv, Types, poster, counters, owner
    <2>6. CASE HandleEvent(i)
        <3>1. tpc[i] = "loop" /\ batch[i] > 0
            BY <2>6 DEF HandleEvent
        <3>2. posted' \in [Loops -> Seq(Event)] /\ batch' \in [Loops -> Nat]
            BY <2>6, <3>1, FrontThere DEF HandleEvent, Inv, Types
        <3>3. CASE Head(posted[i]) = "task"
            <4> DEFINE cb == Head(customEvents[i])
            <4>1. cb \in Task \cup {Pre} /\ Tail(customEvents[i]) \in Seq(Task \cup {Pre})
                  /\ ran[i] \in Seq(Task \cup {Pre})
                BY <3>1, <3>3, FrontThere, PostedFacts
            <4>2. RunFront(i) /\ UNCHANGED hloop
                BY <2>6, <3>3 DEF HandleEvent
            <4>3. /\ customEvents' = [customEvents EXCEPT ![i] = Tail(@)]
                  /\ ran' = [ran EXCEPT ![i] = Append(@, cb)]
                BY <4>2 DEF RunFront
            <4>4. /\ started' \in {started, started + 1}
                  /\ GoTo(i, "all started") \/ GoTo(i, "loop")
                BY <4>2 DEF RunFront, Counted
            <4> HIDE DEF cb
            <4>5. Append(ran[i], cb) \in Seq(Task \cup {Pre})
                BY <4>1
            <4>6. customEvents' \in [Loops -> Seq(Task \cup {Pre})]
                  /\ ran' \in [Loops -> Seq(Task \cup {Pre})]
                BY <4>1, <4>3, <4>5 DEF Inv, Types
            <4>7. started' \in Nat
                <5>1. started' \in {started, started + 1}
                    BY <4>4, Zenon
                <5> QED
                    BY <5>1 DEF Inv, Types
            <4>8. tpc' \in [Loops -> Pcs]
                BY <4>4, GoToPcs, Zenon DEF Inv, Types
            <4> QED
                BY <2>6, <3>2, <4>2, <4>6, <4>7, <4>8
                   DEF HandleEvent, Inv, Types, poster, counters, owner
        <3>4. CASE Head(posted[i]) # "task"
            BY <2>6, <3>2, <3>4 DEF HandleEvent, Inv, Types, poster, counters, owner
        <3> QED
            BY <3>3, <3>4
    <2> QED
        BY <1>2, <2>1, <2>2, <2>3, <2>4, <2>5, <2>6 DEF LoopThread
<1>3. ASSUME NEW p \in Posters, PostEvent(p) \/ Push(p) \/ Tell(p) PROVE Types'
    <2>1. CASE PostEvent(p)
        BY <2>1 DEF PostEvent, Inv, Types, poster, counters, owner
    <2>2. CASE Push(p)
        <3>1. to[p] \in Loops /\ arg[p] \in Task
            BY <2>2 DEF Push, Inv, PosterOK, Types
        <3>2. Append(customEvents[to[p]], arg[p]) \in Seq(Task \cup {Pre})
            BY <3>1, PostedFacts
        <3> QED
            BY <2>2, <3>1, <3>2 DEF Push, Inv, Types, poster, counters, owner
    <2>3. CASE Tell(p)
        <3>1. to[p] \in Loops
            BY <2>3 DEF Tell, Inv, PosterOK, Types
        <3>2. Append(posted[to[p]], "task") \in Seq(Event)
            BY <3>1, PostedFacts DEF Event
        <3>3. posted' \in [Loops -> Seq(Event)]
            BY <2>3, <3>1, <3>2 DEF Tell, hloop_post_event, Inv, Types
        <3> QED
            BY <2>3, <3>3 DEF Tell, Inv, Types, poster, counters, owner
    <2> QED
        BY <1>3, <2>1, <2>2, <2>3
<1>4. CASE Start \/ Spawn \/ Stop \/ StopThread \/ StopLoop \/ Forget \/ StopReturns \/ Join
    <2>1. pool' \in Pools /\ opc' \in Opcs
        BY <1>4, Numbers DEF Start, Spawn, Stop, StopThread, StopLoop, Forget,
                             StopReturns, Join, Inv, Types
    <2>2. at' \in Nat
        <3>1. at \in Nat
            BY DEF Inv, Types
        <3>2. at' \in {at, 1, at + 1}
            BY <1>4 DEF Start, Spawn, Stop, StopThread, StopLoop, Forget,
                        StopReturns, Join
        <3> QED
            BY <3>1, <3>2
    <2>3. thr' \in [Loops -> Statuses] /\ status' \in [Loops -> Statuses]
        BY <1>4, Numbers DEF Start, Spawn, Stop, StopThread, StopLoop, Forget,
                    StopReturns, Join, Inv, Types
    <2>4. loop_' \in [Loops -> BOOLEAN] /\ tpc' \in [Loops -> Pcs]
        BY <1>4, GoToPcs DEF Start, Spawn, Stop, StopThread, StopLoop, Forget,
                    StopReturns, Join, Inv, Types
    <2>5. UNCHANGED <<hloop, posted, batch, customEvents, ran, poster, counters>>
        BY <1>4 DEF Start, Spawn, Stop, StopThread, StopLoop, Forget,
                    StopReturns, Join, owner
    <2> QED
        BY <2>1, <2>2, <2>3, <2>4, <2>5 DEF Inv, Types, poster, counters
<1>5. CASE HloopStop
    <2>1. at \in Loops
        BY <1>5 DEF HloopStop, Inv, OwnerOK, BusyOpcs
    <2>2. Append(posted[at], "stop") \in Seq(Event)
        BY <2>1, PostedFacts DEF Event
    <2>3. posted' \in [Loops -> Seq(Event)] /\ hloop' \in [Loops -> {"new", "running", "stop", "freed"}]
        BY <1>5, <2>1, <2>2 DEF HloopStop, Inv, Types
    <2> QED
        BY <1>5, <2>3, Numbers DEF HloopStop, Inv, Types, poster, counters, owner
<1> QED
    BY <1>1, <1>2, <1>3, <1>4, <1>5 DEF Next, Steps, OwnerGoesOn

(* No thread posts to a pool that is stopped.                              *)
LEMMA PosterNext == ASSUME Inv, [Next]_vars, Disciplined, NEW p \in Posters PROVE PosterOK(p)'
<1>1. CASE UNCHANGED <<ppc, arg, to>> /\ (Early => Early')
    BY <1>1 DEF Inv, PosterOK
<1>2. ASSUME NEW q \in Posters, PostEvent(q) PROVE PosterOK(p)'
    <2>1. Early
        BY <1>2 DEF PostEvent, MayPost, Inv, OwnerOK
    <2> QED
        BY <1>2, <2>1, EvppAssumption DEF PostEvent, Early, Inv, PosterOK, Types, Loops
<1>3. ASSUME NEW q \in Posters, Push(q) PROVE PosterOK(p)'
    BY <1>3 DEF Push, Early, Inv, PosterOK, Types
<1>4. ASSUME NEW q \in Posters, Tell(q) PROVE PosterOK(p)'
    BY <1>4 DEF Tell, Early, Inv, PosterOK, Types
<1>5. CASE Stop
    BY <1>5 DEF Stop, Inv, PosterOK, poster
<1>6. ASSUME NEW i \in Loops, AllExited(i) PROVE PosterOK(p)'
    <2>1. ~Early
        BY <1>6 DEF AllExited, Inv, LoopOK, EarlyPcs
    <2> QED
        BY <1>6, <2>1 DEF AllExited, Inv, PosterOK, poster
<1>7. ASSUME NEW i \in Loops, AllStarted(i) PROVE PosterOK(p)'
    <2>1. Early'
        <3>1. pool' = kRunning
            BY <1>7, Zenon DEF AllStarted
        <3> QED
            BY <3>1 DEF Early, kRunning, kStopping, kStopped
    <2> QED
        BY <1>7, <2>1 DEF AllStarted, Inv, PosterOK, poster
<1>8. CASE Start
    <2>1. Early'
        BY <1>8 DEF Start, Early, kRunning, kStarting, kStopping, kStopped
    <2> QED
        BY <1>8, <2>1 DEF Start, Inv, PosterOK, poster
<1> QED
    BY <1>1, <1>2, <1>3, <1>4, <1>5, <1>6, <1>7, <1>8
       DEF Next, Steps, OwnerGoesOn, LoopThread, ThreadStarts, QueuePre, PostPre, Run,
           Assert, EnterLoop, ReadBytes, HandleEvent, LeaveLoop, RunEnds, Post,
           ThreadEnds, Spawn, StopThread, StopLoop, HloopStop, Forget, StopReturns,
           Join, vars, poster, Early

(* Where a stop event is.                                                  *)
LEMMA PostedNext == ASSUME Inv, [Next]_vars, Disciplined, NEW i \in Loops PROVE PostedOK(i)'
<1>1. CASE posted'[i] = posted[i] /\ batch'[i] = batch[i]
    BY <1>1 DEF Inv, PostedOK
<1>2. ASSUME NEW e \in Event, \A k \in 1..Len(posted[i]) : posted[i][k] = "task",
             posted' = [posted EXCEPT ![i] = Append(@, e)], batch' = batch
      PROVE  PostedOK(i)'
    <2> DEFINE s == Append(posted[i], e)
    <2>1. /\ posted'[i] = s /\ batch'[i] = batch[i]
          /\ batch[i] \in Nat /\ batch[i] <= Len(posted[i])
        BY <1>2 DEF Inv, Types, PostedOK
    <2>2. /\ Len(posted[i]) \in Nat /\ Len(s) = Len(posted[i]) + 1
          /\ \A k \in 1..Len(posted[i]) : s[k] = posted[i][k]
        BY PostedFacts
    <2> HIDE DEF s
    <2> QED
        BY <1>2, <2>1, <2>2 DEF PostedOK
<1>3. ASSUME NEW j \in Loops, Early, hloop_post_event(j), batch' = batch PROVE PostedOK(i)'
    <2>1. posted' = [posted EXCEPT ![j] = Append(@, "task")]
        BY <1>3, TellsHloop
    <2>2. CASE i = j
        BY <1>2, <1>3, <2>1, <2>2, HloopThere DEF Event
    <2>3. CASE i # j
        BY <1>1, <1>3, <2>1, <2>3
    <2> QED
        BY <2>2, <2>3
<1>4. ASSUME NEW j \in Loops, PostPre(j) PROVE PostedOK(i)'
    <2>1. Early
        BY <1>4 DEF PostPre, Inv, LoopOK, LatePcs
    <2> QED
        BY <1>3, <1>4, <2>1 DEF PostPre
<1>5. ASSUME NEW p \in Posters, Tell(p) PROVE PostedOK(i)'
    <2>1. Early /\ to[p] \in Loops
        BY <1>5 DEF Tell, Inv, PosterOK, Types
    <2> QED
        BY <1>3, <1>5, <2>1 DEF Tell
<1>6. CASE HloopStop
    <2>1. CASE at = i /\ hloop[at] # "new"
        <3>1. LoopOK(i) /\ loop_[i] /\ opc # "forget"
            BY <1>6, <2>1, EvppAssumption DEF HloopStop, Inv, OwnerOK, BusyOpcs, Loops
        <3> QED
            BY <1>2, <1>6, <2>1, <3>1 DEF HloopStop, LoopOK, Event
    <2>2. CASE ~(at = i /\ hloop[at] # "new")
        BY <1>1, <1>6, <2>2 DEF HloopStop, Inv, Types
    <2> QED
        BY <2>1, <2>2
<1>7. ASSUME NEW j \in Loops, ReadBytes(j) PROVE PostedOK(i)'
    BY <1>7, PostedFacts DEF ReadBytes, Inv, PostedOK, Types
<1>8. ASSUME NEW j \in Loops, LeaveLoop(j) PROVE PostedOK(i)'
    <2>1. CASE i = j
        <3>1. posted'[i] = <<>> /\ batch'[i] = 0
            BY <1>8, <2>1 DEF LeaveLoop, Inv, Types
        <3>2. \A k \in 1..(0 - 1) : FALSE
            OBVIOUS
        <3>3. Len(<<>>) = 0
            BY EmptySeq
        <3> QED
            BY <3>1, <3>2, <3>3 DEF PostedOK
    <2>2. CASE i # j
        BY <1>1, <1>8, <2>2 DEF LeaveLoop, Inv, Types
    <2> QED
        BY <2>1, <2>2
<1>9. ASSUME NEW j \in Loops, HandleEvent(j) PROVE PostedOK(i)'
    <2>1. CASE i = j
        <3> DEFINE s == posted[i]
        <3>1. /\ posted'[i] = Tail(s) /\ batch'[i] = batch[i] - 1
              /\ batch[i] \in Nat /\ batch[i] <= Len(s) /\ batch[i] > 0
            BY <1>9, <2>1 DEF HandleEvent, Inv, Types, PostedOK
        <3>2. s # <<>> /\ s \in Seq(Event) /\ \A k \in 1..(Len(s) - 1) : s[k] = "task"
            BY <1>9, <2>1, FrontThere, PostedFacts DEF HandleEvent, Inv, PostedOK
        <3> HIDE DEF s
        <3>3. Len(Tail(s)) = Len(s) - 1 /\ Len(s) \in Nat
            BY <3>2
        <3>4. \A k \in 1..(Len(Tail(s)) - 1) : Tail(s)[k] = "task"
            BY <3>2, CountTail
        <3> QED
            BY <3>1, <3>3, <3>4 DEF PostedOK
    <2>2. CASE i # j
        BY <1>1, <1>9, <2>2 DEF HandleEvent, Inv, Types
    <2> QED
        BY <2>1, <2>2
<1> QED
    BY <1>1, <1>4, <1>5, <1>6, <1>7, <1>8, <1>9
       DEF Next, Steps, OwnerGoesOn, LoopThread, ThreadStarts, QueuePre, Run,
           Assert, EnterLoop, RunEnds, Post, AllStarted, AllExited, ThreadEnds,
           PostEvent, Push, Start, Stop, Spawn, StopThread, StopLoop, Forget,
           StopReturns, Join, vars

(* A pool that says it runs has every loop running.                        *)
LEMMA AllRunning ==
    ASSUME Inv, pool \notin {kInitialized, kStarting}
    PROVE  \A i \in Loops : i \in PreRan /\ tpc[i] \in LatePcs
<1>1. IsFiniteSet(Loops) /\ Cardinality(Loops) = thread_num
    BY FS_Interval, EvppAssumption DEF Loops
<1>2. PreRan \in SUBSET Loops /\ Cardinality(PreRan) = thread_num
    BY DEF Inv, StartOK, PreRan
<1>3. PreRan = Loops
    BY <1>1, <1>2, FS_Subset
<1>4. \A i \in Loops : tpc[i] \in LatePcs
    <2>1. ASSUME NEW i \in Loops PROVE tpc[i] \in LatePcs
        <3>1. LoopOK(i) /\ PreOK(i) /\ i \in PreRan /\ tpc[i] # "all started"
            BY <1>3, <2>1 DEF Inv, StartOK
        <3> QED
            BY <3>1 DEF LoopOK, PreOK, EarlyPcs, LatePcs, InRun
    <2> QED
        BY <2>1
<1> QED
    BY <1>3, <1>4

(* What a loop's thread finds where it is.                                 *)
LEMMA WhereFacts ==
    ASSUME Inv, NEW i \in Loops
    PROVE  /\ tpc[i] \in {"none", "born", "pre", "post pre", "run", "enter"} =>
                Early /\ loop_[i] /\ hloop[i] = "new"
           /\ tpc[i] = "all started" => Early /\ pool \in {kInitialized, kStarting}
           /\ tpc[i] \in {"left", "assert", "post", "all exited", "ends", "done"} =>
                ~Early /\ hloop[i] = "freed"
           /\ tpc[i] \in {"assert", "post", "all exited", "ends", "done"} => status[i] = kStopped
           /\ tpc[i] \in InRun => hloop[i] \in {"running", "stop"}
           /\ ~Early => tpc[i] \in {"loop", "left", "assert", "post", "all exited", "ends", "done"}
<1>1. LoopOK(i)
    BY DEF Inv
<1>2. tpc[i] = "all started" => pool \in {kInitialized, kStarting}
    BY DEF Inv, StartOK
<1> QED
    BY <1>1, <1>2 DEF LoopOK, EarlyPcs, LatePcs, InRun, Gone

(* A step that leaves a loop as it is.                                     *)
LEMMA LoopLeft ==
    ASSUME Inv, NEW i \in Loops, Early' <=> Early,
           tpc'[i] = tpc[i], hloop'[i] = hloop[i], loop_'[i] = loop_[i],
           thr'[i] = thr[i], status'[i] = status[i],
           posted'[i] = posted[i], Held(i)' <=> Held(i),
           (opc = "forget" /\ at = i)' <=> (opc = "forget" /\ at = i)
    PROVE  LoopOK(i)'
BY DEF Inv, LoopOK

(* The pool's status moves on before or after the end, but by Stop.        *)
LEMMA EarlyStays == ASSUME Inv, [Next]_vars PROVE Stop \/ (Early' <=> Early)
<1>1. CASE UNCHANGED pool
    BY <1>1 DEF Early
<1>2. ASSUME NEW i \in Loops, AllExited(i) PROVE Early' <=> Early
    <2>1. pool' = kStopped /\ tpc[i] = "all exited"
        BY <1>2, Zenon DEF AllExited
    <2>2. ~Early
        BY <2>1, WhereFacts
    <2>3. ~Early'
        BY <2>1 DEF Early
    <2> QED
        BY <2>2, <2>3
<1>3. ASSUME NEW i \in Loops, AllStarted(i) PROVE Early' <=> Early
    <2>1. pool' = kRunning
        BY <1>3, Zenon DEF AllStarted
    <2>2. Early
        BY <1>3, WhereFacts DEF AllStarted
    <2>3. Early'
        BY <2>1 DEF Early, kRunning, kStopping, kStopped
    <2> QED
        BY <2>2, <2>3
<1>4. CASE Start
    <2>1. (pool' = kRunning \/ pool' = kStarting) /\ opc = "new"
        BY <1>4, Zenon DEF Start
    <2>2. Early
        BY <2>1 DEF Inv, OwnerOK
    <2>3. Early'
        BY <2>1 DEF Early, kRunning, kStarting, kStopping, kStopped
    <2> QED
        BY <2>2, <2>3
<1> QED
    BY <1>1, <1>2, <1>3, <1>4
       DEF Next, Steps, OwnerGoesOn, LoopThread, ThreadStarts, QueuePre, PostPre, Run,
           Assert, EnterLoop, ReadBytes, HandleEvent, LeaveLoop, RunEnds, Post,
           ThreadEnds, Spawn, StopThread, StopLoop, HloopStop, Forget, StopReturns,
           Join, PostEvent, Push, Tell, vars

(* What a step of one thread leaves of another's loop.                     *)
LEMMA OtherLoop ==
    ASSUME Inv, [Next]_vars, NEW i \in Loops, NEW j \in Loops, i # j, LoopThread(j)
    PROVE  /\ tpc'[i] = tpc[i] /\ hloop'[i] = hloop[i] /\ loop_' = loop_
           /\ thr'[i] = thr[i] /\ status'[i] = status[i] /\ posted'[i] = posted[i]
           /\ batch'[i] = batch[i] /\ customEvents'[i] = customEvents[i] /\ ran'[i] = ran[i]
           /\ opc' = opc /\ at' = at /\ poster' = poster
<1> USE DEF Inv, Types, poster, owner, counters
<1>1. CASE ThreadStarts(j)
    BY <1>1 DEF ThreadStarts, GoTo
<1>2. CASE QueuePre(j)
    BY <1>2 DEF QueuePre, GoTo
<1>3. CASE PostPre(j)
    BY <1>3 DEF PostPre, GoTo, hloop_post_event
<1>4. CASE Run(j)
    BY <1>4 DEF Run, GoTo
<1>5. CASE Assert(j)
    BY <1>5 DEF Assert, GoTo
<1>6. CASE EnterLoop(j)
    BY <1>6 DEF EnterLoop, GoTo
<1>7. CASE ReadBytes(j)
    BY <1>7 DEF ReadBytes
<1>8. CASE HandleEvent(j)
    BY <1>8 DEF HandleEvent, RunFront, Counted, GoTo
<1>9. CASE AllStarted(j)
    BY <1>9 DEF AllStarted, GoTo
<1>10. CASE LeaveLoop(j)
    BY <1>10 DEF LeaveLoop, GoTo
<1>11. CASE RunEnds(j)
    BY <1>11 DEF RunEnds, GoTo
<1>12. CASE Post(j)
    BY <1>12 DEF Post, GoTo
<1>13. CASE AllExited(j)
    BY <1>13 DEF AllExited, GoTo
<1>14. CASE ThreadEnds(j)
    BY <1>14 DEF ThreadEnds, GoTo
<1> QED
    BY <1>1, <1>2, <1>3, <1>4, <1>5, <1>6, <1>7, <1>8, <1>9, <1>10, <1>11, <1>12, <1>13, <1>14
       DEF LoopThread

LEMMA LoopNext == ASSUME Inv, [Next]_vars, Disciplined, NEW i \in Loops PROVE LoopOK(i)'
<1> USE DEF Held, BusyOpcs
<1>2. ASSUME NEW j \in Loops, LoopThread(j), i # j PROVE LoopOK(i)'
    <2>1. opc' # "stop" \/ opc # "started"
        BY <1>2, OtherLoop
    <2>2. ~Stop
        BY <2>1 DEF Stop
    <2> QED
        BY <1>2, <2>2, OtherLoop, LoopLeft, EarlyStays
<1>3. CASE LoopThread(i)
    <2>1. /\ opc' = opc /\ at' = at /\ loop_' = loop_
          /\ Early' <=> Early
        <3>1. opc' = opc /\ at' = at /\ loop_' = loop_
            BY <1>3 DEF LoopThread, ThreadStarts, QueuePre, PostPre, Run, Assert, EnterLoop,
                        ReadBytes, HandleEvent, AllStarted, LeaveLoop, RunEnds, Post,
                        AllExited, ThreadEnds, owner
        <3>2. ~Stop
            BY <3>1 DEF Stop
        <3> QED
            BY <3>1, <3>2, EarlyStays
    <2>2. /\ tpc \in [Loops -> Pcs] /\ hloop \in [Loops -> {"new", "running", "stop", "freed"}]
          /\ thr \in [Loops -> Statuses] /\ status \in [Loops -> Statuses]
          /\ posted \in [Loops -> Seq(Event)] /\ LoopOK(i)
        BY DEF Inv, Types
    <2>3. CASE ThreadStarts(i)
        <3>1. /\ tpc[i] = "born" /\ tpc'[i] = "pre" /\ thr'[i] = kStarted
              /\ hloop' = hloop /\ status' = status /\ posted' = posted
            BY <2>2, <2>3 DEF ThreadStarts, GoTo
        <3>2. thr'[i] < kStopping
            BY <3>1 DEF kStarted, kStopping
        <3>3. Early /\ loop_[i] /\ hloop[i] = "new"
            BY <3>1, WhereFacts
        <3> QED
            BY <2>1, <2>2, <3>1, <3>2, <3>3 DEF LoopOK, EarlyPcs, InRun, LatePcs, Gone
    <2>4. CASE QueuePre(i)
        <3>1. /\ tpc[i] = "pre" /\ tpc'[i] \in {"run", "post pre"}
              /\ hloop' = hloop /\ status' = status /\ posted' = posted /\ thr' = thr
            BY <2>2, <2>4 DEF QueuePre, GoTo
        <3> QED
            BY <2>1, <2>2, <3>1, WhereFacts DEF LoopOK, EarlyPcs, InRun, LatePcs, Gone
    <2>5. CASE PostPre(i)
        <3>1. /\ tpc[i] = "post pre" /\ tpc'[i] = "run"
              /\ hloop' = hloop /\ status' = status /\ thr' = thr /\ hloop_post_event(i)
            BY <2>2, <2>5 DEF PostPre, GoTo
        <3>2. Early
            BY <3>1, WhereFacts
        <3>3. \A k \in 1..Len(posted'[i]) : posted'[i][k] = "task"
            <4>1. posted'[i] = Append(posted[i], "task")
                BY <2>2, <3>1, <3>2, TellsHloop
            <4> QED
                BY <2>2, <3>2, <4>1, HloopThere, AllTasks
        <3> QED
            BY <2>1, <2>2, <3>1, <3>2, <3>3, WhereFacts DEF LoopOK, EarlyPcs, InRun, LatePcs, Gone
    <2>6. CASE Run(i)
        <3>1. tpc[i] = "run" /\ Early
            BY <2>6, WhereFacts DEF Run
        <3>2. /\ tpc'[i] = "enter"
              /\ hloop' = hloop /\ posted' = posted /\ thr' = thr
            BY <2>2, <2>6, <3>1, WhereFacts DEF Run, GoTo
        <3> QED
            BY <2>1, <2>2, <3>1, <3>2, WhereFacts DEF LoopOK, EarlyPcs, InRun, LatePcs, Gone
    <2>7. CASE Assert(i)
        <3>1. /\ tpc[i] = "assert" /\ tpc'[i] = "post"
              /\ hloop' = hloop /\ posted' = posted /\ thr' = thr /\ status' = status
            BY <2>2, <2>7 DEF Assert, GoTo
        <3> QED
            BY <2>1, <2>2, <3>1, WhereFacts DEF LoopOK, EarlyPcs, InRun, LatePcs, Gone
    <2>8. CASE EnterLoop(i)
        <3>1. tpc[i] = "enter" /\ Early /\ loop_[i]
            BY <2>8, WhereFacts DEF EnterLoop
        <3>2. /\ tpc'[i] = "loop" /\ hloop'[i] = "running"
              /\ posted' = posted /\ thr' = thr /\ status' = status
            BY <2>2, <2>8, <3>1 DEF EnterLoop, GoTo
        <3> QED
            BY <2>1, <2>2, <3>1, <3>2 DEF LoopOK, EarlyPcs, InRun, LatePcs, Gone
    <2>9. CASE ReadBytes(i)
        <3>1. UNCHANGED <<tpc, hloop, loop_, thr, status, posted>>
            BY <2>9 DEF ReadBytes
        <3> QED
            BY <2>1, <3>1, LoopLeft
    <2>10. CASE HandleEvent(i)
        <3>1. /\ tpc[i] = "loop" /\ batch[i] > 0 /\ thr' = thr /\ status' = status
              /\ posted'[i] = Tail(posted[i])
            BY <2>2, <2>10 DEF HandleEvent
        <3>2. /\ posted[i] \in Seq(Event) /\ posted[i] # <<>>
              /\ \A k \in 1..(Len(posted[i]) - 1) : posted[i][k] = "task"
            BY <3>1, FrontThere, PostedFacts DEF Inv, PostedOK
        <3>3. hloop[i] \in {"running", "stop"}
            BY <3>1, WhereFacts DEF InRun
        <3>4. CASE Head(posted[i]) = "task"
            <4>1. RunFront(i) /\ hloop' = hloop
                BY <2>10, <3>4 DEF HandleEvent
            <4>2. tpc'[i] = "loop" \/ (tpc'[i] = "all started"
                    /\ started + 1 = thread_num /\ Head(customEvents[i]) = Pre)
                BY <2>2, <4>1 DEF RunFront, Counted, GoTo
            <4>3. ASSUME tpc'[i] = "all started" PROVE Early
                <5>1. started + 1 = thread_num /\ started \in Nat
                    BY <4>2, <4>3 DEF Inv, Types
                <5>2. started # thread_num
                    BY <5>1
                <5>3. pool \in {kInitialized, kStarting}
                    BY <5>2 DEF Inv, StartOK
                <5> QED
                    BY <5>3 DEF Early, kInitialized, kStarting, kStopping, kStopped
            <4>4. (\A k \in 1..Len(posted[i]) : posted[i][k] = "task")
                    => \A k \in 1..Len(posted'[i]) : posted'[i][k] = "task"
                BY <3>1, <3>2, CountTail
            <4> QED
                BY <2>1, <2>2, <3>1, <3>3, <4>1, <4>2, <4>3, <4>4
                   DEF LoopOK, EarlyPcs, InRun, LatePcs, Gone
        <3>5. CASE Head(posted[i]) # "task"
            <4>1. hloop'[i] = "stop" /\ tpc' = tpc
                BY <2>2, <2>10, <3>5 DEF HandleEvent
            <4>2. 1 \in 1..Len(posted[i]) /\ Head(posted[i]) = posted[i][1]
                BY <3>2
            <4>3. ~loop_[i] \/ (opc = "forget" /\ at = i)
                BY <2>2, <3>5, <4>2 DEF LoopOK
            <4> QED
                BY <2>1, <2>2, <3>1, <4>1, <4>3 DEF LoopOK, EarlyPcs, InRun, LatePcs, Gone
        <3> QED
            BY <3>4, <3>5
    <2>11. CASE AllStarted(i)
        <3>1. /\ tpc[i] = "all started" /\ tpc'[i] = "loop"
              /\ hloop' = hloop /\ posted' = posted /\ thr' = thr /\ status' = status
            BY <2>2, <2>11 DEF AllStarted, GoTo
        <3> QED
            BY <2>1, <2>2, <3>1, WhereFacts DEF LoopOK, EarlyPcs, InRun, LatePcs, Gone
    <2>12. CASE LeaveLoop(i)
        <3>1. /\ tpc[i] = "loop" /\ tpc'[i] = "left" /\ hloop[i] = "stop" /\ hloop'[i] = "freed"
              /\ thr' = thr /\ status' = status
            BY <2>2, <2>12 DEF LeaveLoop, GoTo
        <3>2. ~loop_[i] \/ (opc = "forget" /\ at = i)
            BY <2>2, <3>1 DEF LoopOK
        <3>3. ~Early
            BY <2>2, <3>2 DEF LoopOK, Inv, OwnerOK
        <3> QED
            BY <2>1, <2>2, <3>1, <3>2, <3>3 DEF LoopOK, EarlyPcs, InRun, LatePcs, Gone
    <2>13. CASE RunEnds(i)
        <3>1. /\ tpc[i] = "left" /\ tpc'[i] = "assert" /\ status'[i] = kStopped
              /\ hloop' = hloop /\ posted' = posted /\ thr' = thr
            BY <2>2, <2>13 DEF RunEnds, GoTo
        <3> QED
            BY <2>1, <2>2, <3>1, WhereFacts DEF LoopOK, EarlyPcs, InRun, LatePcs, Gone
    <2>14. CASE Post(i)
        <3>1. /\ tpc[i] = "post" /\ tpc'[i] \in {"all exited", "ends"}
              /\ hloop' = hloop /\ posted' = posted /\ thr' = thr /\ status' = status
            BY <2>2, <2>14 DEF Post, GoTo
        <3> QED
            BY <2>1, <2>2, <3>1, WhereFacts DEF LoopOK, EarlyPcs, InRun, LatePcs, Gone
    <2>15. CASE AllExited(i)
        <3>1. /\ tpc[i] = "all exited" /\ tpc'[i] = "ends"
              /\ hloop' = hloop /\ posted' = posted /\ thr' = thr /\ status' = status
            BY <2>2, <2>15 DEF AllExited, GoTo
        <3> QED
            BY <2>1, <2>2, <3>1, WhereFacts DEF LoopOK, EarlyPcs, InRun, LatePcs, Gone
    <2>16. CASE ThreadEnds(i)
        <3>1. /\ tpc[i] = "ends" /\ tpc'[i] = "done"
              /\ hloop' = hloop /\ posted' = posted /\ status' = status
            BY <2>2, <2>16 DEF ThreadEnds, GoTo
        <3>2. loop_[i] => Held(i)
            BY <2>2, <3>1 DEF LoopOK, InRun, LatePcs
        <3> QED
            BY <2>1, <2>2, <3>1, <3>2, WhereFacts DEF LoopOK, EarlyPcs, InRun, LatePcs, Gone
    <2> QED
        BY <1>3, <2>3, <2>4, <2>5, <2>6, <2>7, <2>8, <2>9, <2>10, <2>11, <2>12, <2>13,
           <2>14, <2>15, <2>16 DEF LoopThread
<1>4. ASSUME NEW p \in Posters, Tell(p) PROVE LoopOK(i)'
    <2>1. /\ to[p] \in Loops /\ Early
        BY <1>4 DEF Tell, Inv, PosterOK, Types
    <2>2. posted' = [posted EXCEPT ![to[p]] = Append(@, "task")]
        BY <1>4, <2>1, TellsHloop DEF Tell
    <2>3. \A k \in 1..Len(posted'[i]) : posted'[i][k] = "task"
        BY <2>1, <2>2, HloopThere, AllTasks DEF Inv, Types
    <2>4. /\ UNCHANGED <<tpc, hloop, loop_, thr, status, opc, at, pool>>
        BY <1>4 DEF Tell, owner
    <2> QED
        BY <2>3, <2>4 DEF Inv, LoopOK, Early
<1>5. CASE Stop
    <2>1. pool = kRunning /\ opc = "started" /\ pool' = kStopping /\ opc' = "stop"
        BY <1>5 DEF Stop
    <2>2. /\ UNCHANGED <<tpc, hloop, loop_, thr, status, posted>>
        BY <1>5 DEF Stop
    <2>3. pool \notin {kInitialized, kStarting} /\ Early /\ ~Early'
        BY <2>1 DEF kInitialized, kStarting, kRunning, kStopping, kStopped, Early
    <2>4. tpc[i] \in LatePcs /\ tpc[i] \in EarlyPcs
        BY <2>3, AllRunning DEF Inv, LoopOK
    <2>5. tpc[i] = "loop"
        BY <2>4 DEF EarlyPcs, LatePcs
    <2> QED
        BY <2>1, <2>2, <2>3, <2>5 DEF Inv, LoopOK, EarlyPcs, LatePcs, InRun, Gone
<1>6. CASE Spawn
    <2>1. opc = "spawn" /\ opc' \in {"spawn", "started"} /\ Early
        BY <1>6 DEF Spawn, Inv, OwnerOK
    <2>2. Early'
        BY <1>6, <2>1 DEF Spawn, Early
    <2>3. /\ UNCHANGED <<hloop, loop_, status, posted>>
          /\ \/ tpc'[i] = tpc[i] /\ thr'[i] = thr[i]
             \/ tpc[i] = "none" /\ tpc'[i] = "born" /\ thr'[i] = kStarting
        <3>1. i \in Nat /\ (i >= at => tpc[i] = "none")
            BY <2>1 DEF Inv, OwnerOK, Loops
        <3>2. tpc \in [Loops -> Pcs] /\ thr \in [Loops -> Statuses] /\ at \in Nat
            BY DEF Inv, Types
        <3> QED
            BY <1>6, <3>1, <3>2 DEF Spawn
    <2>4. tpc[i] = "none" /\ thr'[i] = kStarting => thr'[i] < kStopping
        BY DEF kStarting, kStopping
    <2>5. LoopOK(i)
        BY DEF Inv
    <2>6. CASE tpc'[i] = tpc[i] /\ thr'[i] = thr[i]
        BY <2>1, <2>2, <2>3, <2>5, <2>6 DEF LoopOK
    <2>7. CASE tpc[i] = "none" /\ tpc'[i] = "born" /\ thr'[i] = kStarting
        BY <2>1, <2>2, <2>3, <2>4, <2>5, <2>7 DEF LoopOK, EarlyPcs, LatePcs, InRun, Gone
    <2> QED
        BY <2>3, <2>6, <2>7
<1>7. CASE StopThread \/ StopLoop \/ HloopStop \/ Forget
    <2>1. opc \in {"stop"} \cup BusyOpcs /\ UNCHANGED <<pool, tpc>>
        BY <1>7 DEF StopThread, StopLoop, HloopStop, Forget
    <2>2. ~Early /\ ~Early' /\ (loop_[i] <=> i >= at)
        BY <2>1 DEF Inv, OwnerOK, Early
    <2>3. LoopOK(i) /\ at \in Nat /\ i \in Nat
        BY DEF Inv, Types, Loops
    <2>4. hloop \in [Loops -> {"new", "running", "stop", "freed"}]
          /\ thr \in [Loops -> Statuses] /\ status \in [Loops -> Statuses]
          /\ posted \in [Loops -> Seq(Event)] /\ loop_ \in [Loops -> BOOLEAN]
        BY DEF Inv, Types
    <2>5. CASE StopThread
        <3>1. CASE at = i
            <4>1. loop_[i] /\ ~Held(i) /\ ~(thr[i] >= kStopping)
                <5>1. loop_[i] /\ opc = "stop"
                    <6>1. opc = "stop"
                        BY <2>5, Zenon DEF StopThread
                    <6>2. i >= at
                        BY <2>3, <3>1
                    <6> QED
                        BY <2>2, <6>1, <6>2
                <5>2. thr[i] < kStopping /\ thr[i] \in Nat
                    BY <2>3, <2>4, <5>1 DEF LoopOK, Statuses, kInitialized, kStarting,
                          kStarted, kRunning, kStopping, kStopped
                <5> QED
                    BY <5>1, <5>2 DEF kStopping
            <4>2. opc' = "stop loop" /\ at' = at /\ UNCHANGED <<hloop, status, posted, loop_>>
                BY <2>5, <3>1, <4>1 DEF StopThread
            <4> QED
                BY <2>1, <2>2, <2>3, <3>1, <4>1, <4>2 DEF LoopOK
        <3>2. CASE at # i
            <4>1. /\ UNCHANGED <<hloop, status, posted, loop_>> /\ thr'[i] = thr[i]
                  /\ opc = "stop" /\ ((opc' = "stop loop" /\ at' = at) \/ opc' = "stop")
                BY <2>4, <2>5, <3>2 DEF StopThread
            <4> QED
                BY <2>1, <2>2, <2>3, <3>2, <4>1 DEF LoopOK
        <3> QED
            BY <3>1, <3>2
    <2>6. CASE StopLoop
        <3>1. loop_[at] /\ at \in Loops /\ opc = "stop loop"
            <4>1. opc = "stop loop"
                BY <2>6, Zenon DEF StopLoop
            <4>2. at \in Loops /\ (loop_[at] <=> at >= at)
                BY <2>1, <4>1 DEF Inv, OwnerOK
            <4>3. at >= at
                BY <2>3
            <4> QED
                BY <4>1, <4>2, <4>3, Zenon
        <3>2. /\ status' = [status EXCEPT ![at] = kStopping] /\ opc' = "hloop_stop"
              /\ UNCHANGED <<at, hloop, loop_, thr, posted>>
            BY <2>6, <3>1 DEF StopLoop
        <3>3. at = i => hloop[i] \in {"new", "running"}
            BY <2>3, <3>1 DEF LoopOK
        <3>4. at = i => tpc[i] \notin {"assert", "post"} \cup Gone
            BY <3>3, WhereFacts DEF Gone
        <3>5. at # i => status'[i] = status[i]
            BY <2>4, <3>2
        <3> QED
            BY <2>1, <2>2, <2>3, <3>1, <3>2, <3>4, <3>5 DEF LoopOK
    <2>7. CASE HloopStop
        <3>1. CASE at = i
            <4>1. loop_[i] /\ opc = "hloop_stop"
                BY <2>2, <2>3, <2>7, <3>1 DEF HloopStop
            <4>2. hloop[i] \in {"new", "running"}
                BY <2>3, <4>1 DEF LoopOK
            <4>3. tpc[i] = "loop"
                BY <2>2, <4>2, WhereFacts
            <4>4. hloop[i] = "running"
                BY <4>2, <4>3, WhereFacts DEF InRun
            <4>5. /\ hloop'[i] = "stop" /\ opc' = "forget" /\ at' = at
                  /\ UNCHANGED <<thr, status, loop_>>
                BY <2>4, <2>7, <3>1, <4>4 DEF HloopStop
            <4> QED
                BY <2>1, <2>2, <2>3, <3>1, <4>1, <4>3, <4>5
                   DEF LoopOK, EarlyPcs, LatePcs, InRun, Gone
        <3>2. CASE at # i
            <4>1. /\ UNCHANGED <<thr, status, loop_>> /\ hloop'[i] = hloop[i]
                  /\ posted'[i] = posted[i] /\ at' = at
                BY <2>4, <2>7, <3>2 DEF HloopStop
            <4> QED
                BY <2>1, <2>2, <2>3, <3>2, <4>1 DEF LoopOK
        <3> QED
            BY <3>1, <3>2
    <2>8. CASE Forget
        <3>1. /\ opc = "forget" /\ opc' = "stop" /\ UNCHANGED <<hloop, status, posted, thr>>
              /\ at = i => ~loop_'[i]
              /\ at # i => loop_'[i] = loop_[i]
            BY <2>4, <2>8 DEF Forget
        <3> QED
            BY <2>1, <2>2, <2>3, <3>1 DEF LoopOK
    <2> QED
        BY <1>7, <2>5, <2>6, <2>7, <2>8
<1>8. CASE Start \/ StopReturns \/ Join
    <2>1. /\ UNCHANGED <<tpc, hloop, loop_, thr, status, posted>>
          /\ opc \notin BusyOpcs /\ opc' \notin BusyOpcs
        BY <1>8 DEF Start, StopReturns, Join
    <2>2. ~Stop
        BY <1>8 DEF Start, StopReturns, Join, Stop
    <2> QED
        BY <2>1, <2>2, LoopLeft, EarlyStays
<1>9. ASSUME NEW p \in Posters, PostEvent(p) \/ Push(p) PROVE LoopOK(i)'
    <2>1. UNCHANGED <<pool, tpc, hloop, loop_, thr, status, posted, opc, at>>
        BY <1>9 DEF PostEvent, Push, owner
    <2> QED
        BY <2>1, LoopLeft DEF Early
<1>10. CASE UNCHANGED vars
    <2>1. UNCHANGED <<pool, tpc, hloop, loop_, thr, status, posted, opc, at>>
        BY <1>10 DEF vars, owner
    <2> QED
        BY <2>1, LoopLeft DEF Early
<1> QED
    BY <1>2, <1>3, <1>4, <1>5, <1>6, <1>7, <1>8, <1>9, <1>10
       DEF Next, Steps, OwnerGoesOn

(* How the owner goes on.                                                  *)
LEMMA OwnerNext == ASSUME Inv, [Next]_vars, Disciplined PROVE OwnerOK'
<1> USE DEF BusyOpcs
<1>1. ASSUME UNCHANGED <<opc, at, loop_>>, Early' <=> Early,
             \A i \in Loops : tpc[i] = "none" => tpc'[i] = "none"
      PROVE  OwnerOK'
    BY <1>1 DEF Inv, OwnerOK
<1>2. ASSUME NEW j \in Loops, LoopThread(j) PROVE OwnerOK'
    <2>1. opc' = opc /\ at' = at /\ loop_' = loop_ /\ tpc[j] # "none"
        BY <1>2 DEF LoopThread, ThreadStarts, QueuePre, PostPre, Run, Assert, EnterLoop,
                    ReadBytes, HandleEvent, AllStarted, LeaveLoop, RunEnds, Post,
                    AllExited, ThreadEnds, owner
    <2>2. ~Stop
        BY <2>1 DEF Stop
    <2>3. \A i \in Loops : tpc[i] = "none" => tpc'[i] = "none"
        BY <1>2, <2>1, OtherLoop
    <2> QED
        BY <1>1, <2>1, <2>2, <2>3, EarlyStays
<1>3. ASSUME NEW p \in Posters, PostEvent(p) \/ Push(p) \/ Tell(p) PROVE OwnerOK'
    <2>1. UNCHANGED <<opc, at, loop_, pool, tpc>>
        BY <1>3 DEF PostEvent, Push, Tell, owner
    <2> QED
        BY <1>1, <2>1 DEF Early
<1>4. CASE UNCHANGED vars
    <2>1. UNCHANGED <<opc, at, loop_, pool, tpc>>
        BY <1>4 DEF vars, owner
    <2> QED
        BY <1>1, <2>1 DEF Early
<1>5. CASE Start
    <2>1. opc = "new" /\ opc' \in {"started", "spawn"} /\ at' = 1 /\ tpc' = tpc
        BY <1>5 DEF Start
    <2>2. at = 0 /\ Early /\ \A i \in Loops : i >= at => tpc[i] = "none"
        BY <2>1 DEF Inv, OwnerOK
    <2>3. ~Stop
        BY <2>1 DEF Stop
    <2>4. Early'
        BY <2>2, <2>3, EarlyStays
    <2>5. \A i \in Loops : tpc[i] = "none"
        BY <2>2 DEF Loops
    <2>6. at' > 0
        BY <2>1
    <2> QED
        BY <2>1, <2>4, <2>5, <2>6 DEF OwnerOK
<1>6. CASE Spawn
    <2>1. opc = "spawn" /\ UNCHANGED pool
        BY <1>6 DEF Spawn
    <2>2. at \in Nat /\ at > 0 /\ Early /\ \A i \in Loops : i >= at => tpc[i] = "none"
        BY <2>1 DEF Inv, OwnerOK, Types
    <2>3. Early'
        BY <2>1, <2>2 DEF Early
    <2>4. CASE opc' = "started" /\ at' = at
        BY <2>2, <2>3, <2>4 DEF OwnerOK
    <2>5. CASE tpc' = [tpc EXCEPT ![at] = "born"] /\ at' = at + 1 /\ opc' = opc
        <3>1. \A i \in Loops : i >= at' => tpc'[i] = "none"
            BY <2>2, <2>5 DEF Loops, Inv, Types
        <3>2. at' > 0
            BY <2>2, <2>5
        <3> QED
            BY <2>1, <2>3, <2>5, <3>1, <3>2 DEF OwnerOK
    <2> QED
        BY <1>6, <2>4, <2>5 DEF Spawn
<1>7. CASE Stop
    <2>1. pool = kRunning /\ pool' = kStopping /\ opc' = "stop" /\ at' = 1 /\ loop_' = loop_
        BY <1>7 DEF Stop
    <2>2. Early /\ ~Early'
        BY <2>1 DEF Early, kRunning, kStopping, kStopped
    <2>3. \A i \in Loops : loop_'[i] /\ i >= at'
        BY <2>1, <2>2, HloopThere DEF Loops
    <2>4. at' > 0
        BY <2>1
    <2> QED
        BY <2>1, <2>2, <2>3, <2>4 DEF OwnerOK
<1>8. CASE StopThread
    <2>1. opc = "stop" /\ at <= thread_num /\ UNCHANGED <<pool, loop_>>
        BY <1>8 DEF StopThread
    <2>2. at \in Loops /\ at > 0 /\ at >= at
        BY <2>1, EvppAssumption DEF Inv, OwnerOK, Types, Loops
    <2>3. ~Early /\ ~Early' /\ \A i \in Loops : loop_[i] <=> i >= at
        BY <2>1 DEF Inv, OwnerOK, Early
    <2>4. ~(thr[at] >= kStopping)
        <3>1. loop_[at] /\ ~Held(at)
            BY <2>1, <2>2, <2>3 DEF Held
        <3>2. thr[at] < kStopping /\ thr[at] \in Statuses
            BY <2>2, <3>1 DEF Inv, Types, LoopOK
        <3> QED
            BY <3>2 DEF Statuses, kInitialized, kStarting, kStarted, kRunning, kStopping, kStopped
    <2>5. opc' = "stop loop" /\ at' = at
        BY <1>8, <2>4 DEF StopThread
    <2> QED
        BY <2>1, <2>2, <2>3, <2>5 DEF OwnerOK
<1>9. CASE StopLoop
    <2>1. opc = "stop loop" /\ UNCHANGED <<pool, loop_>>
        BY <1>9 DEF StopLoop
    <2>2. ~Early /\ ~Early' /\ at \in Loops /\ at > 0 /\ \A i \in Loops : loop_[i] <=> i >= at
        BY <2>1 DEF Inv, OwnerOK, Early
    <2>3. at >= at
        BY <2>2 DEF Loops
    <2>4. opc' = "hloop_stop" /\ at' = at
        BY <1>9, <2>2, <2>3 DEF StopLoop
    <2> QED
        BY <2>1, <2>2, <2>4 DEF OwnerOK
<1>10. CASE HloopStop
    <2>1. opc = "hloop_stop" /\ opc' = "forget" /\ UNCHANGED <<pool, loop_, at>>
        BY <1>10 DEF HloopStop
    <2>2. ~Early /\ ~Early' /\ at \in Loops /\ at > 0 /\ \A i \in Loops : loop_[i] <=> i >= at
        BY <2>1 DEF Inv, OwnerOK, Early
    <2> QED
        BY <2>1, <2>2 DEF OwnerOK
<1>11. CASE Forget
    <2>1. opc = "forget" /\ opc' = "stop" /\ at' = at + 1 /\ UNCHANGED pool
          /\ loop_' = [loop_ EXCEPT ![at] = FALSE]
        BY <1>11 DEF Forget
    <2>2. ~Early /\ ~Early' /\ at \in Loops /\ at > 0 /\ \A i \in Loops : loop_[i] <=> i >= at
        BY <2>1 DEF Inv, OwnerOK, Early
    <2>3. \A i \in Loops : loop_'[i] <=> i >= at'
        <3>1. ASSUME NEW i \in Loops PROVE loop_'[i] <=> i >= at'
            <4>1. i \in Nat /\ at \in Nat
                BY <2>2 DEF Loops
            <4>2. CASE i = at
                <5>1. ~loop_'[i]
                    BY <2>1, <4>2 DEF Inv, Types
                <5>2. ~(i >= at')
                    BY <2>1, <4>1, <4>2
                <5> QED
                    BY <5>1, <5>2
            <4>3. CASE i # at
                <5>1. loop_'[i] = loop_[i]
                    BY <2>1, <4>3 DEF Inv, Types
                <5>2. i >= at' <=> i >= at
                    BY <2>1, <4>1, <4>3
                <5> QED
                    BY <2>2, <5>1, <5>2
            <4> QED
                BY <4>2, <4>3
        <3> QED
            BY <3>1
    <2>4. at' > 0
        BY <2>1, <2>2 DEF Loops
    <2> QED
        BY <2>1, <2>2, <2>3, <2>4 DEF OwnerOK
<1>12. CASE StopReturns
    <2>1. opc = "stop" /\ opc' \in {"started", "stopped"} /\ at > thread_num
          /\ UNCHANGED <<pool, loop_, at>>
        BY <1>12 DEF StopReturns
    <2>2. ~Early /\ ~Early' /\ at > 0 /\ \A i \in Loops : loop_[i] <=> i >= at
        BY <2>1 DEF Inv, OwnerOK, Early
    <2>3. \A i \in Loops : ~(i >= at)
        BY <2>1, EvppAssumption DEF Inv, Types, Loops
    <2> QED
        BY <2>1, <2>2, <2>3 DEF OwnerOK
<1>13. CASE Join
    <2>1. opc = "stopped" /\ opc' = "joined" /\ UNCHANGED <<pool, loop_, at>>
        BY <1>13 DEF Join
    <2> QED
        BY <2>1 DEF Inv, OwnerOK, Early
<1> QED
    BY <1>2, <1>3, <1>4, <1>5, <1>6, <1>7, <1>8, <1>9, <1>10, <1>11, <1>12, <1>13
       DEF Next, Steps, OwnerGoesOn

(* What a queue holds, and that it holds Pre once.                         *)
LEMMA AmongAppend ==
    ASSUME NEW S, NEW s \in Seq(S), NEW e \in S, NEW x
    PROVE  Among(x, Append(s, e)) <=> Among(x, s) \/ e = x
<1>1. /\ Len(s) \in Nat /\ Len(Append(s, e)) = Len(s) + 1 /\ Append(s, e)[Len(s) + 1] = e
      /\ \A k \in 1..Len(s) : Append(s, e)[k] = s[k]
    OBVIOUS
<1> DEFINE t == Append(s, e)
<1>2. /\ Len(s) \in Nat /\ Len(t) = Len(s) + 1 /\ t[Len(s) + 1] = e
      /\ \A k \in 1..Len(s) : t[k] = s[k]
    BY <1>1
<1> HIDE DEF t
<1>3. Among(x, t) <=> Among(x, s) \/ e = x
    BY <1>2 DEF Among
<1> QED
    BY <1>3 DEF t

LEMMA AmongTail ==
    ASSUME NEW S, NEW s \in Seq(S), s # <<>>, NEW x
    PROVE  Among(x, s) <=> Head(s) = x \/ Among(x, Tail(s))
<1> DEFINE t == Tail(s)
<1>1. /\ Len(s) \in Nat \ {0} /\ Len(t) = Len(s) - 1 /\ Head(s) = s[1]
      /\ \A k \in 1..(Len(s) - 1) : t[k] = s[k + 1]
    OBVIOUS
<1> HIDE DEF t
<1>2. ASSUME Among(x, s) PROVE Head(s) = x \/ Among(x, t)
    <2>1. PICK k \in 1..Len(s) : s[k] = x
        BY <1>2 DEF Among
    <2>2. CASE k = 1
        BY <1>1, <2>1, <2>2
    <2>3. CASE k # 1
        <3>1. k - 1 \in 1..Len(t) /\ t[k - 1] = s[k]
            BY <1>1, <2>3
        <3> QED
            BY <2>1, <3>1 DEF Among
    <2> QED
        BY <2>2, <2>3
<1>3. ASSUME Head(s) = x \/ Among(x, t) PROVE Among(x, s)
    <2>1. CASE Head(s) = x
        <3>1. 1 \in 1..Len(s)
            BY <1>1
        <3> QED
            BY <1>1, <2>1, <3>1 DEF Among
    <2>2. CASE Among(x, t)
        <3>1. PICK k \in 1..Len(t) : t[k] = x
            BY <2>2 DEF Among
        <3>2. k + 1 \in 1..Len(s) /\ s[k + 1] = x
            BY <1>1, <3>1
        <3> QED
            BY <3>2 DEF Among
    <2> QED
        BY <1>3, <2>1, <2>2
<1> QED
    BY <1>2, <1>3 DEF t

LEMMA OnceAppend ==
    ASSUME NEW s \in Seq(Task \cup {Pre}), NEW e \in Task \cup {Pre}, Once(s),
           e # Pre \/ ~Among(Pre, s)
    PROVE  Once(Append(s, e))
<1> DEFINE t == Append(s, e)
<1>1. /\ Len(s) \in Nat /\ Len(t) = Len(s) + 1 /\ t[Len(s) + 1] = e
      /\ \A k \in 1..Len(s) : t[k] = s[k]
    OBVIOUS
<1> HIDE DEF t
<1>2. ASSUME NEW j \in 1..Len(t), NEW k \in 1..Len(t), t[j] = Pre, t[k] = Pre PROVE j = k
    <2>1. CASE j \in 1..Len(s) /\ k \in 1..Len(s)
        BY <1>1, <1>2, <2>1 DEF Once
    <2>2. CASE j = Len(s) + 1
        BY <1>1, <1>2, <2>2 DEF Among
    <2>3. CASE k = Len(s) + 1
        BY <1>1, <1>2, <2>3 DEF Among
    <2> QED
        BY <1>1, <2>1, <2>2, <2>3
<1>3. Once(t)
    BY <1>2 DEF Once
<1> QED
    BY <1>3 DEF t

LEMMA OnceTail ==
    ASSUME NEW s \in Seq(Task \cup {Pre}), s # <<>>, Once(s)
    PROVE  /\ Once(Tail(s))
           /\ Head(s) = Pre => ~Among(Pre, Tail(s))
<1> DEFINE t == Tail(s)
<1>1. /\ Len(s) \in Nat \ {0} /\ Len(t) = Len(s) - 1 /\ Head(s) = s[1]
      /\ \A k \in 1..(Len(s) - 1) : t[k] = s[k + 1]
    OBVIOUS
<1> HIDE DEF t
<1>2. ASSUME NEW j \in 1..Len(t), NEW k \in 1..Len(t), t[j] = Pre, t[k] = Pre PROVE j = k
    <2>1. j + 1 \in 1..Len(s) /\ k + 1 \in 1..Len(s) /\ s[j + 1] = Pre /\ s[k + 1] = Pre
        BY <1>1, <1>2
    <2>2. j + 1 = k + 1
        BY <2>1 DEF Once
    <2> QED
        BY <2>2
<1>3. ASSUME Head(s) = Pre, NEW k \in 1..Len(t), t[k] = Pre PROVE FALSE
    <2>1. k + 1 \in 1..Len(s) /\ 1 \in 1..Len(s) /\ s[k + 1] = Pre /\ s[1] = Pre
        BY <1>1, <1>3
    <2>2. k + 1 = 1
        BY <2>1 DEF Once
    <2> QED
        BY <2>2
<1>4. Once(t) /\ (Head(s) = Pre => ~Among(Pre, t))
    BY <1>2, <1>3 DEF Once, Among
<1> QED
    BY <1>4 DEF t

(* Running the front of a queue.                                           *)
LEMMA RunsFront ==
    ASSUME Inv, [Next]_vars, NEW i \in Loops, HandleEvent(i), Head(posted[i]) = "task"
    PROVE  /\ customEvents[i] # <<>> /\ Head(customEvents[i]) \in Task \cup {Pre}
           /\ customEvents'[i] = Tail(customEvents[i])
           /\ ran'[i] = Append(ran[i], Head(customEvents[i]))
           /\ tpc[i] = "loop" /\ tpc'[i] \in InRun
           /\ tpc'[i] = "all started" =>
                Head(customEvents[i]) = Pre /\ started + 1 = thread_num
           /\ started' = IF Head(customEvents[i]) = Pre THEN started + 1 ELSE started
           /\ pool' = pool
<1>1. tpc[i] = "loop" /\ batch[i] > 0 /\ RunFront(i) /\ pool' = pool
    BY DEF HandleEvent
<1>2. /\ customEvents[i] # <<>> /\ Head(customEvents[i]) \in Task \cup {Pre}
      /\ customEvents'[i] = Tail(customEvents[i])
      /\ ran'[i] = Append(ran[i], Head(customEvents[i]))
    BY <1>1, FrontThere DEF RunFront, Inv, Types
<1>3. /\ tpc'[i] = IF Head(customEvents[i]) = Pre /\ started + 1 = thread_num
                     THEN "all started" ELSE "loop"
      /\ started' = IF Head(customEvents[i]) = Pre THEN started + 1 ELSE started
    BY <1>1 DEF RunFront, Counted, GoTo, Inv, Types
<1> QED
    BY <1>1, <1>2, <1>3 DEF InRun

LEMMA PreNext == ASSUME Inv, [Next]_vars, Disciplined, NEW i \in Loops PROVE PreOK(i)'
<1>1. ASSUME customEvents'[i] = customEvents[i], ran'[i] = ran[i],
             tpc'[i] \in {"none", "born", "pre"} => tpc[i] \in {"none", "born", "pre"},
             tpc'[i] \in EarlyPcs \ InRun => tpc[i] \in EarlyPcs \ InRun
      PROVE  PreOK(i)'
    BY <1>1 DEF Inv, PreOK, PreRan
<1>2. ASSUME NEW j \in Loops, LoopThread(j), i # j PROVE PreOK(i)'
    BY <1>1, <1>2, OtherLoop
<1>3. CASE QueuePre(i)
    <2>1. tpc[i] = "pre" /\ loop_[i]
        BY <1>3, WhereFacts DEF QueuePre
    <2>2. /\ customEvents'[i] = Append(customEvents[i], Pre) /\ tpc'[i] = "post pre"
          /\ ran' = ran
        BY <1>3, <2>1 DEF QueuePre, GoTo, Inv, Types
    <2>3. i \notin PreRan /\ ~Among(Pre, customEvents[i]) /\ Once(customEvents[i])
        BY <2>1 DEF Inv, PreOK, EarlyPcs, InRun
    <2>4. Once(customEvents'[i])
        BY <2>2, <2>3, OnceAppend, PostedFacts
    <2> QED
        BY <2>2, <2>3, <2>4 DEF PreOK, PreRan
<1>4. CASE HandleEvent(i)
    <2>1. CASE Head(posted[i]) = "task"
        <3> DEFINE s == customEvents[i]
        <3>1. /\ s # <<>> /\ Head(s) \in Task \cup {Pre} /\ customEvents'[i] = Tail(s)
              /\ ran'[i] = Append(ran[i], Head(s)) /\ tpc'[i] \in InRun
            BY <1>4, <2>1, RunsFront
        <3>2. /\ s \in Seq(Task \cup {Pre}) /\ ran[i] \in Seq(Task \cup {Pre})
              /\ Once(s) /\ (i \in PreRan => ~Among(Pre, s))
            BY PostedFacts DEF Inv, PreOK
        <3> HIDE DEF s
        <3>3. /\ Once(Tail(s)) /\ (Head(s) = Pre => ~Among(Pre, Tail(s)))
              /\ Among(Pre, s) <=> Head(s) = Pre \/ Among(Pre, Tail(s))
              /\ Among(Pre, ran'[i]) <=> Among(Pre, ran[i]) \/ Head(s) = Pre
            BY <3>1, <3>2, OnceTail, AmongTail, AmongAppend
        <3>4. tpc'[i] \notin {"none", "born", "pre"} /\ tpc'[i] \notin EarlyPcs \ InRun
            BY <3>1 DEF InRun
        <3>5. i \in PreRan' => ~Among(Pre, Tail(s))
            BY <3>2, <3>3 DEF PreRan
        <3> QED
            BY <3>1, <3>3, <3>4, <3>5 DEF PreOK
    <2>2. CASE Head(posted[i]) # "task"
        BY <1>1, <1>4, <2>2 DEF HandleEvent
    <2> QED
        BY <2>1, <2>2
<1>5. ASSUME NEW p \in Posters, Push(p) PROVE PreOK(i)'
    <2>1. to[p] \in Loops /\ arg[p] \in Task /\ arg[p] # Pre
        BY <1>5, EvppAssumption DEF Push, Inv, PosterOK, Types
    <2>2. CASE to[p] = i
        <3>1. /\ customEvents'[i] = Append(customEvents[i], arg[p])
              /\ UNCHANGED <<ran, tpc>>
            BY <1>5, <2>2 DEF Push, Inv, Types
        <3>2. /\ Once(customEvents'[i])
              /\ Among(Pre, customEvents'[i]) <=> Among(Pre, customEvents[i])
            BY <2>1, <3>1, OnceAppend, AmongAppend, PostedFacts DEF Inv, PreOK
        <3> QED
            BY <3>1, <3>2 DEF Inv, PreOK, PreRan
    <2>3. CASE to[p] # i
        BY <1>1, <1>5, <2>1, <2>3 DEF Push, Inv, Types
    <2> QED
        BY <2>2, <2>3
<1>6. CASE Spawn
    <2>1. opc = "spawn" /\ UNCHANGED <<ran, customEvents>>
        BY <1>6 DEF Spawn
    <2>2. tpc'[i] = tpc[i] \/ (tpc[i] = "none" /\ tpc'[i] = "born")
        <3>1. i \in Nat /\ (i >= at => tpc[i] = "none")
            BY <2>1 DEF Inv, OwnerOK, Loops
        <3>2. tpc \in [Loops -> Pcs] /\ at \in Nat
            BY DEF Inv, Types
        <3> QED
            BY <1>6, <3>1, <3>2 DEF Spawn
    <2> QED
        BY <1>1, <2>1, <2>2 DEF EarlyPcs, InRun
<1>7. CASE LoopThread(i) /\ ~QueuePre(i) /\ ~HandleEvent(i)
    <2>1. UNCHANGED <<customEvents, ran>>
        BY <1>7 DEF LoopThread, ThreadStarts, PostPre, Run, Assert, EnterLoop,
                    ReadBytes, AllStarted, LeaveLoop, RunEnds, Post,
                    AllExited, ThreadEnds
    <2>2. tpc \in [Loops -> Pcs]
        BY DEF Inv, Types
    <2>3. \/ tpc'[i] = tpc[i]
          \/ tpc'[i] \in {"pre", "run", "enter", "assert"}
                  /\ tpc[i] \in {"born", "post pre", "run"}
                  /\ (tpc'[i] = "pre" => tpc[i] = "born")
          \/ tpc'[i] \in LatePcs
        BY <1>7, <2>2
           DEF LoopThread, ThreadStarts, PostPre, Run, Assert, EnterLoop,
               ReadBytes, AllStarted, LeaveLoop, RunEnds, Post, AllExited, ThreadEnds,
               GoTo, LatePcs
    <2> QED
        BY <1>1, <2>1, <2>3 DEF EarlyPcs, LatePcs, InRun
<1>8. CASE UNCHANGED <<customEvents, ran, tpc>>
    BY <1>1, <1>8
<1> QED
    BY <1>2, <1>3, <1>4, <1>5, <1>6, <1>7, <1>8
       DEF Next, Steps, OwnerGoesOn, PostEvent, Tell, Start, Stop, StopThread, StopLoop,
           HloopStop, Forget, StopReturns, Join, vars

LEMMA LoopsFinite ==
    /\ IsFiniteSet(Loops) /\ Cardinality(Loops) = thread_num
    /\ \A S \in SUBSET Loops :
         /\ IsFiniteSet(S) /\ Cardinality(S) \in Nat /\ Cardinality(S) <= thread_num
         /\ Cardinality(S) = thread_num => S = Loops
<1>1. IsFiniteSet(Loops) /\ Cardinality(Loops) = thread_num
    BY FS_Interval, EvppAssumption DEF Loops
<1> QED
    BY <1>1, FS_Subset, FS_CardinalityType

(* A step that neither starts a loop nor tells the pool.                   *)
LEMMA StartNext == ASSUME Inv, [Next]_vars, Disciplined PROVE StartOK'
<1>1. /\ PreRan \in SUBSET Loops /\ started = Cardinality(PreRan) /\ StartOK
      /\ started \in Nat
    BY DEF Inv, StartOK, PreRan, Types
<1>2. ASSUME PreRan' = PreRan, started' = started, pool' = pool,
             \A i \in Loops : tpc'[i] = "all started" => tpc[i] = "all started"
      PROVE  StartOK'
    BY <1>1, <1>2 DEF StartOK
<1>3. ASSUME NEW i \in Loops, HandleEvent(i) PROVE StartOK'
    <2>1. CASE Head(posted[i]) = "task"
        <3> DEFINE s == customEvents[i]
        <3>1. /\ s # <<>> /\ Head(s) \in Task \cup {Pre}
              /\ ran'[i] = Append(ran[i], Head(s)) /\ tpc'[i] \in InRun
              /\ tpc'[i] = "all started" => Head(s) = Pre /\ started + 1 = thread_num
              /\ started' = IF Head(s) = Pre THEN started + 1 ELSE started
              /\ pool' = pool
            BY <1>3, <2>1, RunsFront
        <3>2. /\ s \in Seq(Task \cup {Pre}) /\ ran[i] \in Seq(Task \cup {Pre})
              /\ (i \in PreRan => ~Among(Pre, s))
            BY PostedFacts DEF Inv, PreOK
        <3>3. \A j \in Loops : j # i => ran'[j] = ran[j] /\ tpc'[j] = tpc[j]
            BY <1>3, OtherLoop DEF LoopThread
        <3> HIDE DEF s
        <3>4. Among(Pre, ran'[i]) <=> Among(Pre, ran[i]) \/ Head(s) = Pre
            <4> DEFINE r == ran[i]
            <4>1. r \in Seq(Task \cup {Pre}) /\ Head(s) \in Task \cup {Pre}
                BY <3>1, <3>2
            <4> HIDE DEF r
            <4>2. Among(Pre, Append(r, Head(s))) <=> Among(Pre, r) \/ Head(s) = Pre
                BY <4>1, AmongAppend
            <4> QED
                BY <3>1, <4>2 DEF r
        <3>5. CASE Head(s) = Pre
            <4>1. i \notin PreRan
                BY <3>1, <3>2, <3>5, AmongTail
            <4>2. PreRan' = PreRan \cup {i}
                <5>1. Among(Pre, ran'[i])
                    BY <3>5, <3>4
                <5> QED
                    BY <3>3, <5>1 DEF PreRan
            <4>3. Cardinality(PreRan') = started + 1 /\ started + 1 <= thread_num
                <5>1. PreRan' \in SUBSET Loops
                    BY <1>1, <4>2
                <5>2. Cardinality(PreRan') = Cardinality(PreRan) + 1
                    BY <1>1, <4>1, <4>2, LoopsFinite, FS_AddElement
                <5> QED
                    BY <1>1, <5>1, <5>2, LoopsFinite
            <4>4. started # thread_num /\ started' = started + 1
                <5>1. started # thread_num
                    BY <1>1, <4>3, EvppAssumption
                <5>2. started' = started + 1
                    BY <3>1, <3>5, Zenon
                <5> QED
                    BY <5>1, <5>2
            <4>5. pool \in {kInitialized, kStarting} /\ \A j \in Loops : tpc[j] # "all started"
                BY <1>1, <4>4 DEF StartOK
            <4>6. \A j \in Loops : tpc'[j] = "all started" => j = i /\ started' = thread_num
                BY <3>1, <3>3, <4>4, <4>5
            <4> QED
                BY <3>1, <4>3, <4>4, <4>5, <4>6 DEF StartOK
        <3>6. CASE Head(s) # Pre
            <4>1. PreRan' = PreRan
                <5>1. Among(Pre, ran'[i]) <=> Among(Pre, ran[i])
                    BY <3>6, <3>4
                <5> QED
                    BY <3>3, <5>1 DEF PreRan
            <4> QED
                BY <1>2, <3>1, <3>3, <3>6, <4>1
        <3> QED
            BY <3>5, <3>6
    <2>2. CASE Head(posted[i]) # "task"
        BY <1>2, <1>3, <2>2 DEF HandleEvent, PreRan
    <2> QED
        BY <2>1, <2>2
<1>4. ASSUME NEW i \in Loops, AllStarted(i) PROVE StartOK'
    <2>1. /\ tpc[i] = "all started" /\ tpc'[i] = "loop" /\ started' = started /\ PreRan' = PreRan
          /\ \A j \in Loops : j # i => tpc'[j] = tpc[j]
        BY <1>4 DEF AllStarted, GoTo, Inv, Types, counters, PreRan
    <2>2. started = thread_num /\ \A j \in Loops : tpc[j] = "all started" => j = i
        BY <1>1, <2>1 DEF StartOK
    <2>3. \A j \in Loops : tpc'[j] # "all started"
        BY <2>1, <2>2
    <2> QED
        BY <1>1, <2>1, <2>2, <2>3 DEF StartOK
<1>5. CASE Start
    <2>1. /\ opc = "new" /\ tpc' = tpc /\ started' = started /\ PreRan' = PreRan
          /\ thread_num # 0 => pool' = kStarting
        BY <1>5 DEF Start, counters, PreRan
    <2>2. \A i \in Loops : tpc[i] = "none"
        BY <2>1 DEF Inv, OwnerOK, Loops
    <2>3. thread_num = 0 => started = thread_num
        BY <1>1, LoopsFinite
    <2> QED
        BY <1>1, <2>1, <2>2, <2>3 DEF StartOK
<1>6. CASE Stop
    <2>1. pool = kRunning /\ UNCHANGED <<tpc, started>> /\ PreRan' = PreRan
        BY <1>6 DEF Stop, counters, PreRan
    <2>2. pool \notin {kInitialized, kStarting}
        BY <2>1 DEF kInitialized, kStarting, kRunning
    <2>3. started = thread_num /\ \A i \in Loops : tpc[i] # "all started"
        BY <1>1, <2>2 DEF StartOK
    <2> QED
        BY <1>1, <2>1, <2>3 DEF StartOK
<1>7. ASSUME NEW i \in Loops, AllExited(i) PROVE StartOK'
    <2>1. /\ tpc[i] = "all exited" /\ tpc'[i] = "ends" /\ started' = started /\ PreRan' = PreRan
          /\ \A j \in Loops : j # i => tpc'[j] = tpc[j]
        BY <1>7 DEF AllExited, GoTo, Inv, Types, counters, PreRan
    <2>2. ~Early
        BY <2>1, WhereFacts
    <2>3. pool \notin {kInitialized, kStarting}
        BY <2>2 DEF Early, kInitialized, kStarting, kStopping, kStopped
    <2>4. started = thread_num /\ \A j \in Loops : tpc[j] # "all started"
        BY <1>1, <2>3 DEF StartOK
    <2>5. \A j \in Loops : tpc'[j] # "all started"
        BY <2>1, <2>4
    <2> QED
        BY <1>1, <2>1, <2>4, <2>5 DEF StartOK
<1>8. ASSUME NEW i \in Loops, LoopThread(i), ~HandleEvent(i), ~AllStarted(i), ~AllExited(i)
      PROVE  StartOK'
    <2>1. UNCHANGED <<ran, started, pool>>
        BY <1>8 DEF LoopThread, ThreadStarts, QueuePre, PostPre, Run, Assert, EnterLoop,
                    ReadBytes, LeaveLoop, RunEnds, Post, ThreadEnds, counters
    <2>2. tpc'[i] # "all started" \/ tpc'[i] = tpc[i]
        BY <1>8 DEF LoopThread, ThreadStarts, QueuePre, PostPre, Run, Assert, EnterLoop,
                    ReadBytes, LeaveLoop, RunEnds, Post, ThreadEnds, GoTo, Inv, Types
    <2>3. \A j \in Loops : j # i => tpc'[j] = tpc[j]
        BY <1>8, OtherLoop
    <2> QED
        BY <1>2, <2>1, <2>2, <2>3 DEF PreRan
<1>9. CASE Spawn
    <2>1. UNCHANGED <<ran, started, pool>>
          /\ \A i \in Loops : tpc'[i] = "all started" => tpc[i] = "all started"
        BY <1>9 DEF Spawn, counters, Inv, Types
    <2> QED
        BY <1>2, <2>1 DEF PreRan
<1>10. CASE UNCHANGED <<ran, started, pool, tpc>>
    BY <1>2, <1>10 DEF PreRan
<1> QED
    BY <1>3, <1>4, <1>5, <1>6, <1>7, <1>8, <1>9, <1>10
       DEF Next, Steps, OwnerGoesOn, PostEvent, Push, Tell, StopThread, StopLoop,
           HloopStop, Forget, StopReturns, Join, vars, counters

LEMMA ExitNext == ASSUME Inv, [Next]_vars, Disciplined PROVE ExitOK'
<1>1. /\ Exited \in SUBSET Loops /\ exited = Cardinality(Exited) /\ ExitOK
      /\ exited \in Nat
    BY DEF Inv, ExitOK, Exited, Types
<1>2. ASSUME exited' = exited, pool' = pool \/ pool' # kStopped,
             \A i \in Loops : /\ tpc'[i] \in Gone <=> tpc[i] \in Gone
                              /\ tpc'[i] = "all exited" => tpc[i] = "all exited"
      PROVE  ExitOK'
    <2>1. Exited' = Exited
        BY <1>2 DEF Exited
    <2> QED
        BY <1>1, <1>2, <2>1 DEF ExitOK
<1>3. ASSUME NEW i \in Loops, Post(i) PROVE ExitOK'
    <2>1. tpc[i] = "post" /\ pool' = pool
        BY <1>3 DEF Post
    <2>2. exited' = exited + 1
        BY <1>3, Zenon DEF Post
    <2>3. tpc'[i] = IF exited + 1 = thread_num THEN "all exited" ELSE "ends"
        BY <1>3 DEF Post, GoTo, Inv, Types
    <2>4. \A j \in Loops : j # i => tpc'[j] = tpc[j]
        BY <1>3, OtherLoop DEF LoopThread
    <2>5. i \notin Exited /\ Exited' = Exited \cup {i}
        BY <2>1, <2>3, <2>4 DEF Exited, Gone
    <2>6. Cardinality(Exited') = exited + 1 /\ exited + 1 <= thread_num
        <3>1. Exited' \in SUBSET Loops
            BY <1>1, <2>5
        <3>2. Cardinality(Exited') = Cardinality(Exited) + 1
            BY <1>1, <2>5, LoopsFinite, FS_AddElement
        <3> QED
            BY <1>1, <3>1, <3>2, LoopsFinite
    <2>7. exited # thread_num
        BY <1>1, <2>6, EvppAssumption
    <2>8. pool' # kStopped /\ \A j \in Loops : tpc[j] # "all exited"
        BY <1>1, <2>1, <2>7 DEF ExitOK
    <2>9. \A j \in Loops : tpc'[j] = "all exited" => exited' = thread_num
        BY <2>2, <2>3, <2>4, <2>8
    <2> QED
        BY <2>2, <2>6, <2>8, <2>9 DEF ExitOK
<1>4. ASSUME NEW i \in Loops, AllExited(i) PROVE ExitOK'
    <2>1. /\ tpc[i] = "all exited" /\ tpc'[i] = "ends" /\ exited' = exited
          /\ \A j \in Loops : j # i => tpc'[j] = tpc[j]
        BY <1>4 DEF AllExited, GoTo, Inv, Types, counters
    <2>2. exited = thread_num /\ Exited' = Exited
        BY <1>1, <2>1 DEF ExitOK, Exited, Gone
    <2> QED
        BY <1>1, <2>1, <2>2 DEF ExitOK
<1>5. ASSUME NEW i \in Loops, LoopThread(i), ~Post(i), ~AllExited(i)
      PROVE  ExitOK'
    <2>1. exited' = exited
        BY <1>5 DEF LoopThread, ThreadStarts, QueuePre, PostPre, Run, Assert, EnterLoop,
                    ReadBytes, HandleEvent, RunFront, Counted, AllStarted, LeaveLoop, RunEnds, ThreadEnds, counters
    <2>2. pool' \in {pool, kRunning}
        BY <1>5 DEF LoopThread, ThreadStarts, QueuePre, PostPre, Run, Assert, EnterLoop,
                    ReadBytes, HandleEvent, AllStarted, LeaveLoop, RunEnds, ThreadEnds
    <2>3. kRunning # kStopped
        BY DEF kRunning, kStopped
    <2>4. \/ tpc'[i] = tpc[i]
          \/ tpc'[i] \notin Gone /\ tpc[i] \notin Gone
          \/ tpc'[i] = "done" /\ tpc[i] = "ends"
        BY <1>5 DEF LoopThread, ThreadStarts, QueuePre, PostPre, Run, Assert, EnterLoop,
                    ReadBytes, HandleEvent, RunFront, Counted, AllStarted, LeaveLoop,
                    RunEnds, ThreadEnds, GoTo, Inv, Types, Gone
    <2>5. \A j \in Loops : j # i => tpc'[j] = tpc[j]
        BY <1>5, OtherLoop
    <2> QED
        BY <1>2, <2>1, <2>2, <2>3, <2>4, <2>5 DEF Gone
<1>6. CASE Spawn
    <2>1. opc = "spawn" /\ UNCHANGED <<exited, pool>>
        BY <1>6 DEF Spawn, counters
    <2>2. \A i \in Loops : tpc'[i] = tpc[i] \/ (tpc[i] = "none" /\ tpc'[i] = "born")
        <3>1. ASSUME NEW i \in Loops PROVE tpc'[i] = tpc[i] \/ (tpc[i] = "none" /\ tpc'[i] = "born")
            <4>1. i \in Nat /\ (i >= at => tpc[i] = "none")
                BY <2>1 DEF Inv, OwnerOK, Loops
            <4>2. tpc \in [Loops -> Pcs] /\ at \in Nat
                BY DEF Inv, Types
            <4> QED
                BY <1>6, <4>1, <4>2 DEF Spawn
        <3> QED
            BY <3>1
    <2> QED
        BY <1>2, <2>1, <2>2 DEF Gone
<1>7. CASE Start \/ Stop
    <2>1. UNCHANGED <<exited, tpc>> /\ pool' \in {kRunning, kStarting, kStopping}
        BY <1>7 DEF Start, Stop, counters
    <2>2. kStopped \notin {kRunning, kStarting, kStopping}
        BY DEF kRunning, kStarting, kStopping, kStopped
    <2> QED
        BY <1>2, <2>1, <2>2
<1>8. CASE UNCHANGED <<exited, pool, tpc>>
    BY <1>2, <1>8
<1> QED
    BY <1>3, <1>4, <1>5, <1>6, <1>7, <1>8
       DEF Next, Steps, OwnerGoesOn, PostEvent, Push, Tell, StopThread, StopLoop,
           HloopStop, Forget, StopReturns, Join, vars, counters

(* Callbacks and events go together.                                       *)
LEMMA CountNext == ASSUME Inv, [Next]_vars, Disciplined, NEW i \in Loops PROVE CountOK(i)'
<1>1. /\ posted \in [Loops -> Seq(Event)] /\ hloop \in [Loops -> {"new", "running", "stop", "freed"}]
      /\ customEvents \in [Loops -> Seq(Task \cup {Pre})] /\ tpc \in [Loops -> Pcs]
      /\ ppc \in [Posters -> {"idle", "push", "tell"}] /\ to \in [Posters -> Loops \cup {0}]
      /\ CountOK(i)
    BY DEF Inv, Types
<1>2. /\ Len(customEvents[i]) \in Nat /\ TaskCount(posted[i]) \in Nat
      /\ IsFiniteSet(Telling(i)) /\ Cardinality(Telling(i)) \in Nat
    BY PostedFacts, TellingFinite
<1>3. ASSUME customEvents'[i] = customEvents[i], posted'[i] = posted[i],
             Telling(i)' = Telling(i), tpc'[i] = "post pre" <=> tpc[i] = "post pre",
             hloop'[i] # "freed" => hloop[i] # "freed"
      PROVE  CountOK(i)'
    BY <1>1, <1>3 DEF CountOK, Own
<1>4. ASSUME UNCHANGED poster PROVE Telling(i)' = Telling(i)
    BY <1>4 DEF Telling, poster
<1>5. ASSUME NEW j \in Loops, LoopThread(j), i # j PROVE CountOK(i)'
    BY <1>3, <1>4, <1>5, OtherLoop
<1>6. CASE QueuePre(i)
    <2>1. tpc[i] = "pre" /\ loop_[i]
        BY <1>6, WhereFacts DEF QueuePre
    <2>2. /\ customEvents'[i] = Append(customEvents[i], Pre) /\ tpc'[i] = "post pre"
          /\ posted' = posted /\ hloop' = hloop /\ Telling(i)' = Telling(i)
        BY <1>1, <1>4, <1>6, <2>1 DEF QueuePre, GoTo
    <2>3. Len(customEvents'[i]) = Len(customEvents[i]) + 1
        <3>1. Len(Append(customEvents[i], Pre)) = Len(customEvents[i]) + 1
            BY PostedFacts
        <3> QED
            BY <2>2, <3>1
    <2>4. Own(i) = 0 /\ Own(i)' = 1
        BY <2>1, <2>2 DEF Own
    <2>5. CASE hloop[i] # "freed"
        <3>1. Len(customEvents[i]) = TaskCount(posted[i]) + Cardinality(Telling(i)) + Own(i)
            BY <1>1, <2>5 DEF CountOK
        <3>2. Len(customEvents'[i]) = TaskCount(posted[i]) + Cardinality(Telling(i)) + Own(i)'
            BY <1>2, <2>3, <2>4, <3>1
        <3> QED
            BY <2>2, <3>2 DEF CountOK
    <2>6. CASE hloop[i] = "freed"
        BY <2>2, <2>6 DEF CountOK
    <2> QED
        BY <2>5, <2>6
<1>7. CASE PostPre(i)
    <2>1. tpc[i] = "post pre" /\ Early /\ hloop_post_event(i)
        BY <1>7, WhereFacts DEF PostPre
    <2>2. /\ customEvents' = customEvents /\ tpc'[i] = "run"
          /\ posted'[i] = Append(posted[i], "task")
          /\ hloop' = hloop /\ Telling(i)' = Telling(i)
        BY <1>1, <1>4, <1>7, <2>1, TellsHloop DEF PostPre, GoTo
    <2>3. TaskCount(posted'[i]) = TaskCount(posted[i]) + 1
        <3>1. TaskCount(Append(posted[i], "task")) = TaskCount(posted[i]) + 1
            BY <1>1, <2>1, HloopThere, CountAppend
        <3> QED
            BY <2>2, <3>1
    <2>4. Own(i) = 1 /\ Own(i)' = 0
        BY <2>1, <2>2 DEF Own
    <2> QED
        BY <1>1, <1>2, <2>2, <2>3, <2>4 DEF CountOK
<1>8. CASE HandleEvent(i)
    <2>1. /\ tpc[i] = "loop" /\ batch[i] > 0 /\ posted'[i] = Tail(posted[i])
          /\ Telling(i)' = Telling(i)
        BY <1>1, <1>4, <1>8 DEF HandleEvent
    <2>2. /\ posted[i] \in Seq(Event) /\ posted[i] # <<>>
          /\ \A k \in 1..(Len(posted[i]) - 1) : posted[i][k] = "task"
        BY <1>1, <2>1, FrontThere DEF Inv, PostedOK
    <2>3. hloop[i] # "freed"
        BY <2>1, WhereFacts DEF InRun
    <2>4. Len(customEvents[i]) = TaskCount(posted[i]) + Cardinality(Telling(i)) + Own(i)
        BY <1>1, <2>3 DEF CountOK
    <2>5. CASE Head(posted[i]) = "task"
        <3>1. customEvents[i] # <<>> /\ customEvents'[i] = Tail(customEvents[i]) /\ tpc'[i] \in InRun
            BY <1>8, <2>5, RunsFront
        <3>2. Len(customEvents'[i]) = Len(customEvents[i]) - 1
            BY <3>1, PostedFacts
        <3>3. TaskCount(posted[i]) = TaskCount(posted'[i]) + 1 /\ TaskCount(posted'[i]) \in Nat
            <4>1. TaskCount(posted[i]) = TaskCount(posted'[i]) + 1
                BY <2>1, <2>2, <2>5, CountTail
            <4>2. Tail(posted[i]) \in Seq(Event)
                BY <2>2
            <4> QED
                BY <2>1, <4>1, <4>2, CountNat
        <3>4. Own(i) = 0 /\ Own(i)' = 0
            BY <2>1, <3>1 DEF Own, InRun
        <3> QED
            BY <1>2, <2>1, <2>4, <3>2, <3>3, <3>4 DEF CountOK
    <2>6. CASE Head(posted[i]) # "task"
        <3>1. customEvents' = customEvents /\ tpc' = tpc
            BY <1>8, <2>6 DEF HandleEvent
        <3>2. TaskCount(posted[i]) = TaskCount(posted'[i])
            BY <2>1, <2>2, <2>6, CountTail
        <3> QED
            BY <2>1, <2>4, <3>1, <3>2 DEF CountOK, Own
    <2> QED
        BY <2>5, <2>6
<1>9. CASE LeaveLoop(i)
    BY <1>1, <1>9 DEF LeaveLoop, CountOK
<1>10. ASSUME NEW p \in Posters, Push(p) PROVE CountOK(i)'
    <2>1. /\ to[p] \in Loops /\ arg[p] \in Task /\ ppc[p] = "push"
          /\ UNCHANGED <<posted, tpc, to, hloop>>
          /\ ppc' = [ppc EXCEPT ![p] = "tell"]
        BY <1>10 DEF Push, Inv, PosterOK, Types
    <2>2. CASE to[p] = i
        <3>1. customEvents'[i] = Append(customEvents[i], arg[p])
            BY <1>1, <1>10, <2>2 DEF Push
        <3>2. Len(customEvents'[i]) = Len(customEvents[i]) + 1
            BY <2>1, <3>1, PostedFacts
        <3>3. Telling(i)' = Telling(i) \cup {p} /\ p \notin Telling(i)
            BY <1>1, <2>1, <2>2 DEF Telling
        <3>4. Cardinality(Telling(i)') = Cardinality(Telling(i)) + 1
            BY <1>2, <3>3, FS_AddElement
        <3>5. Own(i)' = Own(i) /\ Own(i) \in Nat
            BY <2>1 DEF Own
        <3> QED
            BY <1>1, <1>2, <2>1, <3>2, <3>4, <3>5 DEF CountOK
    <2>3. CASE to[p] # i
        <3>1. Telling(i)' = Telling(i)
            BY <1>1, <2>1, <2>3 DEF Telling
        <3>2. customEvents'[i] = customEvents[i]
            BY <1>1, <1>10, <2>1, <2>3 DEF Push
        <3> QED
            BY <1>3, <2>1, <3>1, <3>2
    <2> QED
        BY <2>2, <2>3
<1>11. ASSUME NEW p \in Posters, Tell(p) PROVE CountOK(i)'
    <2>1. /\ to[p] \in Loops /\ Early /\ ppc[p] = "tell" /\ hloop_post_event(to[p])
          /\ UNCHANGED <<customEvents, tpc, hloop>>
          /\ ppc' = [ppc EXCEPT ![p] = "idle"] /\ to' = [to EXCEPT ![p] = 0]
        BY <1>11 DEF Tell, Inv, PosterOK, Types
    <2>2. posted' = [posted EXCEPT ![to[p]] = Append(@, "task")]
        BY <2>1, TellsHloop
    <2>3. CASE to[p] = i
        <3>1. posted'[i] = Append(posted[i], "task")
            BY <1>1, <2>2, <2>3
        <3>2. TaskCount(posted'[i]) = TaskCount(posted[i]) + 1
            BY <1>1, <2>1, <3>1, HloopThere, CountAppend
        <3>3. Telling(i)' = Telling(i) \ {p} /\ p \in Telling(i)
            BY <1>1, <2>1, <2>3 DEF Telling
        <3>4. Cardinality(Telling(i)') = Cardinality(Telling(i)) - 1
            BY <1>2, <3>3, FS_RemoveElement
        <3>5. Own(i)' = Own(i) /\ Own(i) \in Nat
            BY <2>1 DEF Own
        <3> QED
            BY <1>1, <1>2, <2>1, <3>2, <3>4, <3>5 DEF CountOK
    <2>4. CASE to[p] # i
        <3>1. Telling(i)' = Telling(i)
            BY <1>1, <2>1, <2>4 DEF Telling
        <3>2. posted'[i] = posted[i]
            BY <1>1, <2>1, <2>2, <2>4
        <3> QED
            BY <1>3, <2>1, <3>1, <3>2
    <2> QED
        BY <2>3, <2>4
<1>12. ASSUME NEW p \in Posters, PostEvent(p) PROVE CountOK(i)'
    <2>1. UNCHANGED <<customEvents, posted, tpc, hloop>>
        BY <1>12 DEF PostEvent
    <2>2. /\ ppc[p] = "idle" /\ ppc' = [ppc EXCEPT ![p] = "push"]
          /\ \E j : to' = [to EXCEPT ![p] = j]
        BY <1>12 DEF PostEvent
    <2>3. Telling(i)' = Telling(i)
        BY <1>1, <2>2 DEF Telling
    <2> QED
        BY <1>3, <2>1, <2>3
<1>13. CASE HloopStop
    <2>1. UNCHANGED <<customEvents, tpc, poster>>
        BY <1>13 DEF HloopStop
    <2>2. CASE at = i /\ hloop[i] # "new"
        <3>1. hloop'[i] = "stop" /\ posted'[i] = Append(posted[i], "stop")
            BY <1>1, <1>13, <2>2 DEF HloopStop
        <3>2. LoopOK(i) /\ loop_[i] /\ opc # "forget"
            <4>1. opc = "hloop_stop" /\ i >= i
                BY <1>13 DEF HloopStop, Loops
            <4> QED
                BY <2>2, <4>1 DEF Inv, OwnerOK, BusyOpcs
        <3>3. hloop[i] # "freed" /\ \A k \in 1..Len(posted[i]) : posted[i][k] = "task"
            BY <3>2 DEF LoopOK
        <3>4. TaskCount(posted'[i]) = TaskCount(posted[i])
            BY <1>1, <3>1, <3>3, CountAppend
        <3> QED
            BY <1>1, <1>4, <2>1, <3>3, <3>4 DEF CountOK, Own
    <2>3. CASE ~(at = i /\ hloop[i] # "new")
        <3>1. posted'[i] = posted[i] /\ hloop'[i] = hloop[i]
            BY <1>1, <1>13, <2>3 DEF HloopStop
        <3> QED
            BY <1>3, <1>4, <2>1, <3>1
    <2> QED
        BY <2>2, <2>3
<1>14. CASE LoopThread(i) /\ ~QueuePre(i) /\ ~PostPre(i) /\ ~HandleEvent(i) /\ ~LeaveLoop(i)
    <2>1. UNCHANGED <<customEvents, posted, poster>>
        BY <1>14 DEF LoopThread, ThreadStarts, Run, Assert, EnterLoop,
                    ReadBytes, AllStarted, RunEnds, Post, AllExited, ThreadEnds
    <2>2. (tpc'[i] # "post pre" /\ tpc[i] # "post pre") \/ UNCHANGED tpc
        BY <1>1, <1>14 DEF LoopThread, ThreadStarts, Run, Assert, EnterLoop,
                    ReadBytes, AllStarted, RunEnds, Post, AllExited, ThreadEnds, GoTo
    <2>3. hloop'[i] # "freed" => hloop[i] # "freed"
        BY <1>1, <1>14, WhereFacts DEF LoopThread, ThreadStarts, Run, Assert, EnterLoop,
                    ReadBytes, AllStarted, RunEnds, Post, AllExited, ThreadEnds
    <2> QED
        BY <1>3, <1>4, <2>1, <2>2, <2>3
<1>15. CASE Spawn
    <2>1. UNCHANGED <<customEvents, posted, poster, hloop>>
        BY <1>15 DEF Spawn
    <2>2. tpc'[i] = tpc[i] \/ (tpc[i] = "none" /\ tpc'[i] = "born")
        <3>1. i \in Nat /\ (i >= at => tpc[i] = "none")
            BY <1>15 DEF Spawn, Inv, OwnerOK, Loops
        <3>2. at \in Nat
            BY DEF Inv, Types
        <3> QED
            BY <1>1, <1>15, <3>1, <3>2 DEF Spawn
    <2> QED
        BY <1>3, <1>4, <2>1, <2>2
<1>16. CASE UNCHANGED <<customEvents, posted, poster, hloop, tpc>>
    BY <1>3, <1>4, <1>16
<1> QED
    BY <1>5, <1>6, <1>7, <1>8, <1>9, <1>10, <1>11, <1>12, <1>13, <1>14, <1>15, <1>16
       DEF Next, Steps, OwnerGoesOn, Start, Stop, StopThread, StopLoop,
           Forget, StopReturns, Join, vars

LEMMA InitInv == Init => Inv
<1> SUFFICES ASSUME Init PROVE Inv
    OBVIOUS
<1>1. /\ <<>> \in Seq(Event) /\ <<>> \in Seq(Task \cup {Pre}) /\ Len(<<>>) = 0
    BY EmptySeq
<1>2. Types
    BY <1>1, Numbers, GoToPcs DEF Init, Types
<1>3. Early
    BY DEF Init, Early, kInitialized, kStopping, kStopped
<1>4. OwnerOK
    BY <1>3 DEF Init, OwnerOK, BusyOpcs
<1>5. StartOK
    <2>1. PreRan = {}
        BY <1>1 DEF Init, PreRan, Among
    <2> QED
        BY <2>1, FS_EmptySet DEF Init, StartOK
<1>6. ExitOK
    <2>1. Exited = {}
        BY DEF Init, Exited, Gone
    <2>2. pool # kStopped
        BY DEF Init, kInitialized, kStopped
    <2> QED
        BY <2>1, <2>2, FS_EmptySet DEF Init, ExitOK
<1>7. \A p \in Posters : PosterOK(p)
    BY <1>3 DEF Init, PosterOK
<1>8. ASSUME NEW i \in Loops PROVE LoopOK(i) /\ PostedOK(i) /\ CountOK(i) /\ PreOK(i)
    <2>1. thr[i] < kStopping
        BY DEF Init, kInitialized, kStopping
    <2>2. LoopOK(i)
        <3>1. \A k \in 1..Len(posted[i]) : FALSE
            BY <1>1 DEF Init
        <3> QED
            BY <1>3, <2>1, <3>1 DEF Init, LoopOK, EarlyPcs, LatePcs, InRun, Gone
    <2>3. PostedOK(i)
        <3>1. posted[i] = <<>> /\ batch[i] = 0
            BY DEF Init
        <3>2. \A k \in 1..(0 - 1) : FALSE
            OBVIOUS
        <3> QED
            BY <1>1, <3>1, <3>2 DEF PostedOK
    <2>4. CountOK(i)
        <3>1. Telling(i) = {}
            BY DEF Init, Telling
        <3>2. Own(i) = 0
            BY DEF Init, Own
        <3>3. TaskCount(posted[i]) = 0
            BY <1>1 DEF Init, TaskCount
        <3>4. Len(customEvents[i]) = 0
            BY <1>1 DEF Init
        <3> QED
            BY <3>1, <3>2, <3>3, <3>4, FS_EmptySet DEF CountOK
    <2>5. PreOK(i)
        <3>1. ran[i] = <<>> /\ customEvents[i] = <<>>
            BY DEF Init
        <3> QED
            BY <1>1, <3>1 DEF PreOK, PreRan, Among, Once
    <2> QED
        BY <2>2, <2>3, <2>4, <2>5
<1> QED
    BY <1>2, <1>4, <1>5, <1>6, <1>7, <1>8 DEF Inv

LEMMA Invariance == ASSUME Disciplined PROVE Spec => []Inv
<1>1. Init => Inv
    BY InitInv
<1>2. Inv /\ [Next]_vars => Inv'
    <2> SUFFICES ASSUME Inv, [Next]_vars PROVE Inv'
        OBVIOUS
    <2>1. Types' /\ OwnerOK' /\ StartOK' /\ ExitOK'
        BY TypesNext, OwnerNext, StartNext, ExitNext
    <2>2. ASSUME NEW p \in Posters PROVE PosterOK(p)'
        BY PosterNext
    <2>3. ASSUME NEW i \in Loops PROVE LoopOK(i)' /\ PostedOK(i)' /\ CountOK(i)' /\ PreOK(i)'
        BY LoopNext, PostedNext, CountNext, PreNext
    <2> QED
        BY <2>1, <2>2, <2>3 DEF Inv
<1> QED
    BY <1>1, <1>2, PTL DEF Spec

-----------------------------------------------------------------------------
(* The discipline assumed below is what EventLoopThreadPool asks of its    *)
(* user: it stops what runs, and nobody posts to what it stops.            *)

(* The states are of their types, no batch is longer than the events that  *)
(* are there, and no counter of start() passes the number of threads.      *)
THEOREM TypeCorrect == ASSUME Disciplined PROVE Spec => []TypeOK
<1>1. Inv => TypeOK
    <2> SUFFICES ASSUME Inv PROVE TypeOK
        OBVIOUS
    <2>1. started \in 0..thread_num /\ exited \in 0..thread_num
        <3>1. PreRan \in SUBSET Loops /\ Exited \in SUBSET Loops
            BY DEF PreRan, Exited
        <3>2. started = Cardinality(PreRan) /\ exited = Cardinality(Exited)
            BY DEF Inv, StartOK, ExitOK
        <3>3. started \in Nat /\ started <= thread_num /\ exited \in Nat /\ exited <= thread_num
            BY <3>1, <3>2, LoopsFinite
        <3> QED
            BY <3>3, EvppAssumption
    <2>2. \A i \in Loops : batch[i] \in 0..Len(posted[i])
        BY PostedFacts DEF Inv, Types, PostedOK
    <2>3. pool \in Statuses /\ thr \in [Loops -> Statuses] /\ status \in [Loops -> Statuses]
          /\ hloop \in [Loops -> {"new", "running", "stop", "freed"}]
        BY DEF Inv, Types, Pools, Statuses
    <2> QED
        BY <2>1, <2>2, <2>3 DEF TypeOK, Statuses
<1> QED
    BY <1>1, Invariance, PTL

(* No thread uses a hloop_t that is null or freed, and the assert of       *)
(* EventLoopThread.h:99 holds.                                             *)
THEOREM FaultFree == ASSUME Disciplined PROVE Spec => []NoFault
<1>1. Init => NoFault
    BY DEF Init, NoFault
<1>2. Inv /\ NoFault /\ [Next]_vars => NoFault'
    <2> SUFFICES ASSUME Inv, [Next]_vars PROVE fault' = fault
        BY DEF NoFault
    <2>1. ASSUME NEW i \in Loops, PostPre(i) PROVE fault' = fault
        <3>1. Early /\ hloop_post_event(i)
            BY <2>1, WhereFacts DEF PostPre
        <3> QED
            BY <3>1, TellsHloop
    <2>2. ASSUME NEW p \in Posters, Tell(p) PROVE fault' = fault
        <3>1. Early /\ to[p] \in Loops /\ hloop_post_event(to[p])
            BY <2>2 DEF Tell, Inv, PosterOK, Types
        <3> QED
            BY <3>1, TellsHloop
    <2>3. ASSUME NEW i \in Loops, Assert(i) PROVE fault' = fault
        <3>1. status[i] = kStopped
            BY <2>3, WhereFacts DEF Assert
        <3> QED
            BY <2>3, <3>1 DEF Assert
    <2> QED
        BY <2>1, <2>2, <2>3
           DEF Next, Steps, OwnerGoesOn, LoopThread, ThreadStarts, QueuePre, Run,
               EnterLoop, ReadBytes, HandleEvent, AllStarted, LeaveLoop, RunEnds, Post,
               AllExited, ThreadEnds, PostEvent, Push, Start, Stop, Spawn, StopThread,
               StopLoop, HloopStop, Forget, StopReturns, Join, vars
<1> QED
    BY <1>1, <1>2, Invariance, PTL DEF Spec

(* Every event that a loop will handle has its callback at the front of    *)
(* the queue: customEvents.front() is not called on an empty queue         *)
(* (EventLoop.h:199-202).                                                  *)
THEOREM QueuesCorrect == ASSUME Disciplined PROVE Spec => []QueuesAgree
<1>1. Inv => QueuesAgree
    <2> SUFFICES ASSUME Inv, NEW i \in Loops, hloop[i] # "freed"
                 PROVE  Len(customEvents[i])
                          = Cardinality({k \in 1..Len(posted[i]) : posted[i][k] = "task"})
                            + Cardinality(Telling(i)) + Own(i)
        BY DEF QueuesAgree, Telling, Own
    <2> DEFINE s == posted[i]
               Tasks == {k \in 1..Len(s) : s[k] = "task"}
    <2>1. /\ s \in Seq(Event) /\ Len(s) \in Nat /\ TaskCount(s) \in Nat
          /\ \A k \in 1..(Len(s) - 1) : s[k] = "task"
          /\ s # <<>> => Len(s) \in Nat \ {0} /\ s[Len(s)] \in Event
        BY PostedFacts DEF Inv, PostedOK
    <2>2. Tasks = 1..TaskCount(s)
        BY <2>1, EmptySeq DEF TaskCount, Event
    <2>3. Cardinality(Tasks) = TaskCount(s)
        <3> HIDE DEF Tasks, s
        <3>1. \A n \in Nat : Cardinality(1..n) = n
            BY FS_Interval
        <3> QED
            BY <2>1, <2>2, <3>1
    <2>4. Len(customEvents[i]) = TaskCount(s) + Cardinality(Telling(i)) + Own(i)
        BY DEF Inv, CountOK
    <2> HIDE DEF Tasks
    <2>5. Len(customEvents[i]) = Cardinality(Tasks) + Cardinality(Telling(i)) + Own(i)
        BY <2>3, <2>4
    <2> QED
        BY <2>5 DEF Tasks
<1> QED
    BY <1>1, Invariance, PTL

(* When the pool says that it runs, all its loops do; when it says that it *)
(* has stopped, nothing of them is left.                                   *)
LEMMA InvStatus == Inv => StatusTrue
<1> SUFFICES ASSUME Inv PROVE StatusTrue
    OBVIOUS
<1>1. ASSUME pool = kRunning, opc = "started", NEW i \in Loops
      PROVE  hloop[i] = "running" /\ loop_[i]
    <2>1. Early /\ pool \notin {kInitialized, kStarting}
        BY <1>1 DEF Early, kInitialized, kStarting, kRunning, kStopping, kStopped
    <2>2. LoopOK(i) /\ loop_[i] /\ tpc[i] \in LatePcs /\ tpc[i] \in EarlyPcs
        BY <2>1, AllRunning, HloopThere DEF Inv, LoopOK
    <2>3. tpc[i] \in InRun
        BY <2>2 DEF EarlyPcs, LatePcs, InRun
    <2>4. hloop[i] \in {"running", "stop"} /\ hloop[i] \in {"new", "running"}
        BY <1>1, <2>2, <2>3 DEF LoopOK
    <2> QED
        BY <2>2, <2>4
<1>2. ASSUME pool = kStopped, NEW i \in Loops PROVE hloop[i] = "freed" /\ status[i] = kStopped
    <2>1. Exited \in SUBSET Loops /\ Cardinality(Exited) = thread_num
        BY <1>2 DEF Inv, ExitOK, Exited
    <2>2. tpc[i] \in Gone
        BY <2>1, LoopsFinite DEF Exited
    <2> QED
        BY <2>2, WhereFacts DEF Gone
<1> QED
    BY <1>1, <1>2 DEF StatusTrue

THEOREM StatusHonest == ASSUME Disciplined PROVE Spec => []StatusTrue
BY InvStatus, Invariance, PTL

(* stop(true) returns when every loop has left hloop_run and freed itself. *)
THEOREM StopsWhole == ASSUME Disciplined PROVE Spec => StopMeansStopped
<1> DEFINE Whole == (opc = "stop" /\ opc' \in {"started", "stopped"} /\ wait)
                      => \A i \in Loops : hloop[i] = "freed"
<1>1. Inv /\ [Next]_vars => [Whole]_vars
    <2> SUFFICES ASSUME Inv, Next, opc = "stop", opc' \in {"started", "stopped"}, wait
                 PROVE  \A i \in Loops : hloop[i] = "freed"
        OBVIOUS
    <2>1. StopReturns
        BY DEF Next, Steps, OwnerGoesOn, LoopThread, ThreadStarts, QueuePre, PostPre, Run,
               Assert, EnterLoop, ReadBytes, HandleEvent, AllStarted, LeaveLoop, RunEnds,
               Post, AllExited, ThreadEnds, PostEvent, Push, Tell, Start, Stop, Spawn,
               StopThread, StopLoop, HloopStop, Forget, Join, owner
    <2>2. pool = kStopped
        BY <2>1 DEF StopReturns
    <2> QED
        BY <2>2, InvStatus DEF StatusTrue
<1> QED
    BY <1>1, Invariance, PTL DEF Spec, StopMeansStopped

-----------------------------------------------------------------------------
(* Callbacks are taken once each, in the order queued.                     *)
Posting(i) == [p \in Posters \cup {0} |->
                 IF p = 0 THEN (IF tpc[i] = "pre" THEN Pre ELSE NoTask)
                 ELSE IF to[p] = i THEN arg[p] ELSE NoTask]

LEMMA BoxStays ==
    ASSUME NEW i \in Loops, Posting(i)' = Posting(i),
           customEvents'[i] = customEvents[i], ran'[i] = ran[i]
    PROVE  [Box(i)!BoxNext]_(Box(i)!boxVars)
<1>1. UNCHANGED Box(i)!boxVars
    BY DEF Box!boxVars, Posting
<1> QED
    BY <1>1

LEMMA BoxCall ==
    ASSUME NEW i \in Loops, NEW p \in Posters \cup {0}, NEW m \in Task \cup {Pre},
           Posting(i)[p] = NoTask, Posting(i)' = [Posting(i) EXCEPT ![p] = m],
           customEvents'[i] = customEvents[i], ran'[i] = ran[i]
    PROVE  [Box(i)!BoxNext]_(Box(i)!boxVars)
<1>1. Posting(i)'[p] = m
    BY DEF Posting
<1>2. Box(i)!Call(p)
    BY <1>1 DEF Box!Call, Posting
<1> QED
    BY <1>2 DEF Box!BoxNext

LEMMA BoxEnter ==
    ASSUME NEW i \in Loops, NEW p \in Posters \cup {0},
           Posting(i)[p] # NoTask, Posting(i)' = [Posting(i) EXCEPT ![p] = NoTask],
           customEvents'[i] = Append(customEvents[i], Posting(i)[p]), ran'[i] = ran[i]
    PROVE  [Box(i)!BoxNext]_(Box(i)!boxVars)
<1>1. Box(i)!Enter(p)
    BY DEF Box!Enter, Posting
<1> QED
    BY <1>1 DEF Box!BoxNext

LEMMA BoxTakes ==
    ASSUME NEW i \in Loops, Posting(i)' = Posting(i), customEvents[i] # <<>>,
           customEvents'[i] = Tail(customEvents[i]),
           ran'[i] = Append(ran[i], Head(customEvents[i]))
    PROVE  [Box(i)!BoxNext]_(Box(i)!boxVars)
<1>1. Box(i)!TakeFirst
    BY DEF Box!TakeFirst, Posting
<1> QED
    BY <1>1 DEF Box!BoxNext

(* Each step takes the callbacks of a loop as the mailbox does.            *)
LEMMA BoxStep ==
    ASSUME Inv, [Next]_vars, Disciplined, NEW i \in Loops
    PROVE  [Box(i)!BoxNext]_(Box(i)!boxVars)
<1>1. /\ customEvents \in [Loops -> Seq(Task \cup {Pre})] /\ tpc \in [Loops -> Pcs]
      /\ ppc \in [Posters -> {"idle", "push", "tell"}] /\ to \in [Posters -> Loops \cup {0}]
      /\ arg \in [Posters -> Task \cup {NoTask}]
      /\ 0 \notin Posters /\ NoTask \notin Task \cup {Pre} /\ 0 \notin Loops
    BY EvppAssumption DEF Inv, Types, Loops
<1>2. ASSUME tpc'[i] = "pre" <=> tpc[i] = "pre", UNCHANGED <<arg, to>>
      PROVE  Posting(i)' = Posting(i)
    BY <1>2 DEF Posting
<1>3. ASSUME NEW j \in Loops, LoopThread(j), i # j PROVE [Box(i)!BoxNext]_(Box(i)!boxVars)
    BY <1>2, <1>3, OtherLoop, BoxStays DEF poster
<1>4. CASE ThreadStarts(i)
    <2>1. /\ tpc[i] = "born" /\ tpc'[i] = "pre" /\ UNCHANGED <<arg, to, customEvents, ran>>
        BY <1>1, <1>4 DEF ThreadStarts, GoTo, poster
    <2>2. Posting(i)[0] = NoTask /\ Posting(i)' = [Posting(i) EXCEPT ![0] = Pre]
        BY <1>1, <2>1 DEF Posting
    <2> QED
        BY <2>1, <2>2, BoxCall
<1>5. CASE QueuePre(i)
    <2>1. tpc[i] = "pre" /\ loop_[i]
        BY <1>5, WhereFacts DEF QueuePre
    <2>2. /\ customEvents'[i] = Append(customEvents[i], Pre) /\ tpc'[i] = "post pre"
          /\ UNCHANGED <<arg, to, ran>>
        BY <1>1, <1>5, <2>1 DEF QueuePre, GoTo, poster
    <2>3. Posting(i)[0] = Pre /\ Posting(i)' = [Posting(i) EXCEPT ![0] = NoTask]
        BY <1>1, <2>1, <2>2 DEF Posting
    <2> QED
        BY <1>1, <2>2, <2>3, BoxEnter
<1>6. CASE HandleEvent(i)
    <2>1. tpc[i] = "loop" /\ UNCHANGED <<arg, to>>
        BY <1>6 DEF HandleEvent, poster
    <2>2. CASE Head(posted[i]) = "task"
        <3>1. /\ customEvents[i] # <<>> /\ customEvents'[i] = Tail(customEvents[i])
              /\ ran'[i] = Append(ran[i], Head(customEvents[i])) /\ tpc'[i] \in InRun
            BY <1>6, <2>2, RunsFront
        <3>2. Posting(i)' = Posting(i)
            BY <1>2, <2>1, <3>1 DEF InRun
        <3> QED
            BY <3>1, <3>2, BoxTakes
    <2>3. CASE Head(posted[i]) # "task"
        BY <1>2, <1>6, <2>1, <2>3, BoxStays DEF HandleEvent
    <2> QED
        BY <2>2, <2>3
<1>7. CASE LoopThread(i) /\ ~ThreadStarts(i) /\ ~QueuePre(i) /\ ~HandleEvent(i)
    <2>1. UNCHANGED <<customEvents, ran, arg, to>>
        BY <1>7 DEF LoopThread, PostPre, Run, Assert, EnterLoop, ReadBytes, AllStarted,
                    LeaveLoop, RunEnds, Post, AllExited, ThreadEnds, poster
    <2>2. (tpc'[i] # "pre" /\ tpc[i] # "pre") \/ UNCHANGED tpc
        BY <1>1, <1>7 DEF LoopThread, PostPre, Run, Assert, EnterLoop, ReadBytes, AllStarted,
                    LeaveLoop, RunEnds, Post, AllExited, ThreadEnds, GoTo
    <2> QED
        BY <1>2, <2>1, <2>2, BoxStays
<1>8. ASSUME NEW p \in Posters, PostEvent(p) PROVE [Box(i)!BoxNext]_(Box(i)!boxVars)
    <2>1. PICK j \in Loops, t \in Task :
            arg' = [arg EXCEPT ![p] = t] /\ to' = [to EXCEPT ![p] = j]
        BY <1>8 DEF PostEvent
    <2>2. UNCHANGED <<customEvents, ran, tpc>>
        BY <1>8 DEF PostEvent
    <2>3. arg[p] = NoTask /\ to[p] = 0
        BY <1>1, <1>8 DEF PostEvent, Inv, PosterOK
    <2>4. Posting(i)[p] = NoTask
        BY <1>1, <2>3 DEF Posting
    <2>5. CASE j = i
        <3>1. Posting(i)' = [Posting(i) EXCEPT ![p] = t]
            BY <1>1, <2>1, <2>2, <2>5 DEF Posting
        <3> QED
            BY <2>2, <2>4, <3>1, BoxCall
    <2>6. CASE j # i
        <3>1. Posting(i)' = Posting(i)
            BY <1>1, <2>1, <2>2, <2>3, <2>6 DEF Posting
        <3> QED
            BY <2>2, <3>1, BoxStays
    <2> QED
        BY <2>5, <2>6
<1>9. ASSUME NEW p \in Posters, Push(p) PROVE [Box(i)!BoxNext]_(Box(i)!boxVars)
    <2>1. /\ to[p] \in Loops /\ arg[p] \in Task /\ UNCHANGED <<ran, tpc, to>>
          /\ arg' = [arg EXCEPT ![p] = NoTask]
          /\ customEvents' = [customEvents EXCEPT ![to[p]] = Append(@, arg[p])]
        BY <1>9 DEF Push, Inv, PosterOK, Types
    <2>2. CASE to[p] = i
        <3>1. Posting(i)[p] = arg[p] /\ arg[p] # NoTask
            BY <1>1, <2>1, <2>2 DEF Posting
        <3>2. Posting(i)' = [Posting(i) EXCEPT ![p] = NoTask]
            BY <1>1, <2>1, <2>2 DEF Posting
        <3>3. customEvents'[i] = Append(customEvents[i], Posting(i)[p])
            BY <1>1, <2>1, <2>2, <3>1
        <3> QED
            BY <2>1, <3>1, <3>2, <3>3, BoxEnter
    <2>3. CASE to[p] # i
        <3>1. Posting(i)' = Posting(i)
            BY <1>1, <2>1, <2>3 DEF Posting
        <3>2. customEvents'[i] = customEvents[i]
            BY <1>1, <2>1, <2>3
        <3> QED
            BY <2>1, <3>1, <3>2, BoxStays
    <2> QED
        BY <2>2, <2>3
<1>10. ASSUME NEW p \in Posters, Tell(p) PROVE [Box(i)!BoxNext]_(Box(i)!boxVars)
    <2>1. ppc[p] = "tell" /\ UNCHANGED <<customEvents, ran, tpc, arg>>
          /\ to' = [to EXCEPT ![p] = 0]
        BY <1>10 DEF Tell
    <2>2. arg[p] = NoTask
        BY <2>1 DEF Inv, PosterOK
    <2>3. Posting(i)' = Posting(i)
        BY <1>1, <2>1, <2>2 DEF Posting
    <2> QED
        BY <2>1, <2>3, BoxStays
<1>11. CASE Spawn
    <2>1. UNCHANGED <<customEvents, ran, arg, to>>
        BY <1>11 DEF Spawn, poster
    <2>2. tpc'[i] = tpc[i] \/ (tpc[i] = "none" /\ tpc'[i] = "born")
        <3>1. i \in Nat /\ (i >= at => tpc[i] = "none")
            BY <1>11 DEF Spawn, Inv, OwnerOK, Loops
        <3>2. at \in Nat
            BY DEF Inv, Types
        <3> QED
            BY <1>1, <1>11, <3>1, <3>2 DEF Spawn
    <2> QED
        BY <1>2, <2>1, <2>2, BoxStays
<1>12. CASE UNCHANGED <<customEvents, ran, arg, to, tpc>>
    BY <1>2, <1>12, BoxStays
<1> QED
    BY <1>3, <1>4, <1>5, <1>6, <1>7, <1>8, <1>9, <1>10, <1>11, <1>12
       DEF Next, Steps, OwnerGoesOn, Start, Stop, StopThread, StopLoop, HloopStop,
           Forget, StopReturns, Join, vars, poster

(* Each loop's queue is a mailbox: what is queued is run once, in the      *)
(* order queued, though the hloop_t is told of it in another order.        *)
THEOREM Mailbox == ASSUME Disciplined PROVE Spec => IsMailbox
<1>1. Init => \A i \in Loops : Box(i)!BoxInit
    <2> SUFFICES ASSUME Init, NEW i \in Loops PROVE Box(i)!BoxInit
        OBVIOUS
    <2>1. Posting(i) = [p \in Posters \cup {0} |-> NoTask]
        BY DEF Init, Posting
    <2>2. customEvents[i] = <<>> /\ ran[i] = <<>>
        BY DEF Init
    <2> QED
        BY <2>1, <2>2 DEF Box!BoxInit, Posting
<1> DEFINE AllBoxes == \A i \in Loops : [Box(i)!BoxNext]_(Box(i)!boxVars)
<1>2. Inv /\ [Next]_vars => [AllBoxes]_vars
    <2> SUFFICES ASSUME Inv, [Next]_vars PROVE AllBoxes
        OBVIOUS
    <2> QED
        BY BoxStep
<1> QED
    BY <1>1, <1>2, Invariance, PTL DEF Spec, IsMailbox
=============================================================================
