---------------------------- MODULE LoopPostProofs ----------------------------
(* Theorems about LoopPost, for every set of threads, every number of calls *)
(* and every size of the socket pair and of the loop's read buffer.         *)
EXTENDS LoopPost, FiniteSetTheorems, TLAPS

(* The places in a call.                                                   *)
Where == {"idle", "lock", "write", "hio_add", "push", "stop",
          "pause", "resume", "release"}

(* A thread holds an event exactly while it is posting.                    *)
ArgOK ==
    \A th \in Threads :
      arg[th] # NoEvent <=> ppc[th] \in {"lock", "write", "hio_add", "push"}

(* A thread holds the mutex exactly between the lock and the unlock.       *)
MutexOK ==
    \A th \in Threads : ppc[th] \in {"write", "hio_add", "push"} <=> mutex = th

(* The socket pair holds no more than it can.                              *)
SockOK == sock <= SockCap

(* Bytes are left in the buffer only inside sockpair_read_cb.              *)
BufOK == buf > 0 => lpc \in {"events", "callback"}

(* Some thread has written its byte and not yet pushed its event.          *)
Pushing == \E th \in Threads : ppc[th] = "push" /\ SockpairOpen

BytesOK == sock + wq + buf = Len(queue) + (IF Pushing THEN 1 ELSE 0)

(* A thread that registers the writing end found the write queue empty,    *)
(* and holds the write_mutex since.                                        *)
QueueEmpty == \A th \in Threads : ppc[th] = "hio_add" => wq = 0

ByteInv ==
    /\ TypeOK /\ ArgOK /\ MutexOK /\ QueueEmpty
    /\ BufOK /\ SockOK /\ BytesOK /\ WriteArmed

-----------------------------------------------------------------------------
(* The type invariant.                                                     *)

LEMMA TypeInit == Init => TypeOK /\ ArgOK
<1> SUFFICES ASSUME Init PROVE TypeOK /\ ArgOK
    OBVIOUS
<1>1. queue \in Seq(Event) /\ handled \in Seq(Event)
    BY DEF Init
<1>2. /\ ppc \in [Threads -> {"idle"}] /\ arg \in [Threads -> {NoEvent}]
      /\ reg \in [Threads -> {0}] /\ calls \in [Threads -> {0}]
    BY DEF Init
<1>3. tid \in Threads /\ nactives \in Int /\ nuser \in Int
    BY ThreadAssumption, SizeAssumption DEF Init
<1>4. TypeOK
    <2>1. /\ ppc \in [Threads -> {"idle", "lock", "write", "hio_add", "push", "stop",
                                "pause", "resume", "release"}]
          /\ arg \in [Threads -> Event \cup {NoEvent}]
          /\ reg \in [Threads -> Int] /\ calls \in [Threads -> Nat]
        BY <1>2
    <2> QED
        BY <1>1, <1>3, <2>1 DEF Init, TypeOK
<1>5. ArgOK
    BY DEF Init, ArgOK
<1> QED
    BY <1>4, <1>5

LEMMA StartPostType ==
    ASSUME TypeOK, NEW th \in Threads, NEW cb \in {"stop", "user", "none"},
           calls' \in [Threads -> Nat], StartPost(th, cb)
    PROVE  /\ arg' \in [Threads -> Event \cup {NoEvent}]
           /\ ppc' \in [Threads -> Where]
<1>1. NewEvent(th, cb) \in Event
    BY DEF NewEvent, Event
<1>2. arg' \in [Threads -> Event \cup {NoEvent}]
    BY <1>1 DEF StartPost, TypeOK
<1>3. ppc' \in [Threads -> Where]
    BY DEF StartPost, Goto, TypeOK, Where
<1> QED
    BY <1>2, <1>3

LEMMA TypeNext ==
    ASSUME TypeOK, ArgOK, [Next]_vars
    PROVE  TypeOK'
<1> USE ThreadAssumption, SizeAssumption DEF TypeOK
<1>0. CASE UNCHANGED vars
    BY <1>0 DEF vars, sockets, reading, callers
<1>1. ASSUME NEW th \in Threads, HloopPostEvent(th) PROVE TypeOK'
    <2>1. calls' \in [Threads -> Nat]
        BY <1>1 DEF HloopPostEvent, CountCall
    <2>2. StartPost(th, "user")
        BY <1>1 DEF HloopPostEvent
    <2>3. arg' \in [Threads -> Event \cup {NoEvent}] /\ ppc' \in [Threads -> Where]
        BY <2>1, <2>2, StartPostType
    <2> QED
        BY <1>1, <2>1, <2>3 DEF HloopPostEvent, sockets, reading, Where
<1>2. ASSUME NEW th \in Threads, HloopWakeup(th) PROVE TypeOK'
    <2>1. calls' \in [Threads -> Nat]
        BY <1>2 DEF HloopWakeup, CountCall
    <2>2. StartPost(th, "none")
        BY <1>2 DEF HloopWakeup
    <2>3. arg' \in [Threads -> Event \cup {NoEvent}] /\ ppc' \in [Threads -> Where]
        BY <2>1, <2>2, StartPostType
    <2> QED
        BY <1>2, <2>1, <2>3 DEF HloopWakeup, sockets, reading, Where
<1>3. ASSUME NEW th \in Threads, HloopStop(th) PROVE TypeOK'
    BY <1>3 DEF HloopStop, Goto, MayCall, CountCall, sockets, reading,
       callers
<1>4. ASSUME NEW th \in Threads, HloopPause(th) PROVE TypeOK'
    BY <1>4 DEF HloopPause, Goto, MayCall, CountCall, sockets, reading,
       callers
<1>5. ASSUME NEW th \in Threads, HloopResume(th) PROVE TypeOK'
    BY <1>5 DEF HloopResume, Goto, MayCall, CountCall, sockets, reading,
       callers
<1>6. ASSUME NEW th \in Threads, Release(th) PROVE TypeOK'
    BY <1>6 DEF Release, Goto, MayCall, CountCall, sockets, reading, callers
<1>7. ASSUME NEW th \in Threads, LockEvents(th) PROVE TypeOK'
    BY <1>7 DEF LockEvents, Goto, sockets, reading, callers
<1>8. ASSUME NEW th \in Threads, HioWrite(th) PROVE TypeOK'
    <2>1. ppc' \in [Threads -> Where]
        <3>1. ppc' = [ppc EXCEPT ![th] = "push"] \/ ppc' = [ppc EXCEPT ![th] = "hio_add"]
            BY <1>8 DEF HioWrite, Goto
        <3> QED
            BY <3>1 DEF Where
    <2>2. reg' \in [Threads -> Int]
        <3>1. reg' = reg \/ reg' = [reg EXCEPT ![th] = nactives]
            BY <1>8 DEF HioWrite
        <3> QED
            BY <3>1
    <2>3. sock' \in Nat /\ wq' \in Nat
        <3>1. sock' = sock \/ sock' = sock + 1
            BY <1>8 DEF HioWrite
        <3>2. wq' = wq \/ wq' = 1 \/ wq' = wq + 1
            BY <1>8 DEF HioWrite
        <3> QED
            BY <3>1, <3>2
    <2>4. wevents' \in BOOLEAN
        <3>1. wevents' = wevents \/ wevents' = TRUE
            BY <1>8 DEF HioWrite
        <3> QED
            BY <3>1
    <2> QED
        BY <1>8, <2>1, <2>2, <2>3, <2>4 DEF HioWrite, reading, Where
<1>9. ASSUME NEW th \in Threads, HioAddStores(th) PROVE TypeOK'
    BY <1>9 DEF HioAddStores, Goto, sockets, reading, callers
<1>10. ASSUME NEW th \in Threads, PushEvent(th) PROVE TypeOK'
    <2>1. arg[th] \in Event
        BY <1>10 DEF PushEvent, ArgOK
    <2>2. queue' \in Seq(Event)
        BY <1>10, <2>1 DEF PushEvent
    <2>3. arg' \in [Threads -> Event \cup {NoEvent}] /\ ppc' \in [Threads -> Where]
        BY <1>10 DEF PushEvent, Goto, Where
    <2> QED
        BY <1>10, <2>2, <2>3 DEF PushEvent, sockets, reading, Where
<1>11. ASSUME NEW th \in Threads, HloopStopPosts(th) PROVE TypeOK'
    <2>1. CASE th = tid
        BY <1>11, <2>1 DEF HloopStopPosts, Goto, StartPost, NewEvent,
           sockets, reading, callers
    <2>2. CASE th # tid
        <3>1. StartPost(th, "stop") /\ calls' \in [Threads -> Nat]
            BY <1>11, <2>2 DEF HloopStopPosts
        <3>2. arg' \in [Threads -> Event \cup {NoEvent}] /\ ppc' \in [Threads -> Where]
            BY <3>1, StartPostType
        <3> QED
            BY <1>11, <3>1, <3>2 DEF HloopStopPosts, sockets, reading, Where
    <2> QED
        BY <2>1, <2>2
<1>12. ASSUME NEW th \in Threads, SetStatus(th) PROVE TypeOK'
    BY <1>12 DEF SetStatus, Goto, sockets, reading, callers
<1>13. ASSUME NEW th \in Threads, ReleaseStores(th) PROVE TypeOK'
    BY <1>13 DEF ReleaseStores, Goto, sockets, reading, callers
<1>14. CASE HloopRun
    BY <1>14 DEF HloopRun, sockets, reading, callers
<1>15. CASE ReadSockpair
    <2>1. reg' \in [Threads -> Int] /\ tid' \in Threads
        BY <1>15 DEF ReadSockpair, Threads
    <2> QED
        BY <1>15, <2>1 DEF ReadSockpair, sockets, reading
<1>16. CASE ReadSockpairStores
    BY <1>16 DEF ReadSockpairStores, sockets, reading, callers
<1>17. CASE LoopTop
    BY <1>17 DEF LoopTop, sockets, reading, callers
<1>18. CASE Poll
    BY <1>18 DEF Poll, sockets, reading, callers
<1>19. CASE Readable
    BY <1>19 DEF Readable, sockets, reading, callers
<1>20. CASE NioRead
    BY <1>20 DEF NioRead, sockets, reading, callers
<1>21. CASE TakeEvent
    <2>1. CASE queue = <<>>
        BY <1>21, <2>1 DEF TakeEvent, sockets, callers
    <2>2. CASE queue # <<>>
        <3>1. Head(queue) \in Event /\ Tail(queue) \in Seq(Event)
            BY <2>2
        <3>2. queue' \in Seq(Event) /\ handled' \in Seq(Event)
            <4>1. queue' = Tail(queue) /\ handled' = Append(handled, Head(queue))
                BY <1>21, <2>2 DEF TakeEvent
            <4> QED
                BY <3>1, <4>1
        <3>3. buf' \in Nat
            BY <1>21, <2>2 DEF TakeEvent
        <3>4. status' \in {"STOP", "RUNNING", "PAUSE"} /\ lpc' \in {"events", "callback"}
            BY <1>21, <2>2 DEF TakeEvent
        <3> QED
            BY <1>21, <2>2, <3>2, <3>3, <3>4 DEF TakeEvent, sockets, callers
    <2> QED
        BY <2>1, <2>2
<1>22. CASE CallbackReturns
    BY <1>22 DEF CallbackReturns, sockets, reading, callers
<1>23. CASE EventsDone
    BY <1>23 DEF EventsDone, sockets, reading, callers
<1>24. CASE Writable
    BY <1>24 DEF Writable, sockets, reading, callers
<1>25. CASE NioWrite
    BY <1>25 DEF NioWrite, sockets, reading, callers
<1>26. CASE PassDone
    BY <1>26 DEF PassDone, sockets, reading, callers
<1>27. CASE LoopExit
    BY <1>27 DEF LoopExit, sockets, reading, callers
<1>28. CASE HloopCleanup
    BY <1>28 DEF HloopCleanup, sockets, reading, callers
<1>29. CASE HvFree
    BY <1>29 DEF HvFree, sockets, reading, callers
<1>30. CASE FreeIos
    BY <1>30 DEF FreeIos, sockets, reading, callers
<1> HIDE DEF TypeOK
<1> QED
    BY <1>0, <1>1, <1>2, <1>3, <1>4, <1>5, <1>6, <1>7, <1>8, <1>9, <1>10,
       <1>11, <1>12, <1>13, <1>14, <1>15, <1>16, <1>17, <1>18, <1>19, <1>20,
       <1>21, <1>22, <1>23, <1>24, <1>25, <1>26, <1>27, <1>28, <1>29,
       <1>30 DEF
       Next, LoopStep, StartCall, FinishCall

LEMMA NewEventIsOne ==
    ASSUME NEW th \in Threads, NEW cb \in {"stop", "user", "none"},
           calls' \in [Threads -> Nat]
    PROVE  NewEvent(th, cb) # NoEvent
BY NoEventAssumption DEF NewEvent, Event

LEMMA ArgNext ==
    ASSUME TypeOK, ArgOK, [Next]_vars
    PROVE  ArgOK'
<1> USE ThreadAssumption DEF TypeOK, ArgOK
<1>0. CASE UNCHANGED vars
    BY <1>0 DEF vars, sockets, reading, callers
<1>1. ASSUME NEW th \in Threads, HloopPostEvent(th) PROVE ArgOK'
    <2>1. calls' \in [Threads -> Nat] /\ th \in Threads
        BY TypeNext
    <2>2. NewEvent(th, "user") # NoEvent
        BY <2>1, NewEventIsOne
    <2> QED
        BY <1>1, <2>2 DEF HloopPostEvent, StartPost, Goto, MayCall, TypeOK
<1>2. ASSUME NEW th \in Threads, HloopWakeup(th) PROVE ArgOK'
    <2>1. calls' \in [Threads -> Nat] /\ th \in Threads
        BY TypeNext
    <2>2. NewEvent(th, "none") # NoEvent
        BY <2>1, NewEventIsOne
    <2> QED
        BY <1>2, <2>2 DEF HloopWakeup, StartPost, Goto, MayCall, TypeOK
<1>3. ASSUME NEW th \in Threads, HloopStop(th) PROVE ArgOK'
    BY <1>3 DEF HloopStop, Goto, MayCall, CountCall, sockets, reading,
       callers
<1>4. ASSUME NEW th \in Threads, HloopPause(th) PROVE ArgOK'
    BY <1>4 DEF HloopPause, Goto, MayCall, CountCall, sockets, reading,
       callers
<1>5. ASSUME NEW th \in Threads, HloopResume(th) PROVE ArgOK'
    BY <1>5 DEF HloopResume, Goto, MayCall, CountCall, sockets, reading,
       callers
<1>6. ASSUME NEW th \in Threads, Release(th) PROVE ArgOK'
    BY <1>6 DEF Release, Goto, MayCall, CountCall, sockets, reading, callers
<1>7. ASSUME NEW th \in Threads, LockEvents(th) PROVE ArgOK'
    BY <1>7 DEF LockEvents, Goto, sockets, reading, callers
<1>8. ASSUME NEW th \in Threads, HioWrite(th) PROVE ArgOK'
    BY <1>8 DEF HioWrite, Goto, sockets, reading, callers
<1>9. ASSUME NEW th \in Threads, HioAddStores(th) PROVE ArgOK'
    BY <1>9 DEF HioAddStores, Goto, sockets, reading, callers
<1>10. ASSUME NEW th \in Threads, PushEvent(th) PROVE ArgOK'
    BY <1>10 DEF PushEvent, Goto, sockets, reading, callers
<1>11. ASSUME NEW th \in Threads, HloopStopPosts(th) PROVE ArgOK'
    <2>1. calls' \in [Threads -> Nat] /\ th \in Threads
        BY TypeNext
    <2>2. NewEvent(th, "stop") # NoEvent
        BY <2>1, NewEventIsOne
    <2> QED
        BY <1>11, <2>2 DEF HloopStopPosts, StartPost, Goto, TypeOK
<1>12. ASSUME NEW th \in Threads, SetStatus(th) PROVE ArgOK'
    BY <1>12 DEF SetStatus, Goto, sockets, reading, callers
<1>13. ASSUME NEW th \in Threads, ReleaseStores(th) PROVE ArgOK'
    BY <1>13 DEF ReleaseStores, Goto, sockets, reading, callers
<1>14. CASE HloopRun
    BY <1>14 DEF HloopRun, sockets, reading, callers
<1>15. CASE ReadSockpair
    BY <1>15 DEF ReadSockpair, sockets, reading, callers
<1>16. CASE ReadSockpairStores
    BY <1>16 DEF ReadSockpairStores, sockets, reading, callers
<1>17. CASE LoopTop
    BY <1>17 DEF LoopTop, sockets, reading, callers
<1>18. CASE Poll
    BY <1>18 DEF Poll, sockets, reading, callers
<1>19. CASE Readable
    BY <1>19 DEF Readable, sockets, reading, callers
<1>20. CASE NioRead
    BY <1>20 DEF NioRead, sockets, reading, callers
<1>21. CASE TakeEvent
    BY <1>21 DEF TakeEvent, sockets, reading, callers
<1>22. CASE CallbackReturns
    BY <1>22 DEF CallbackReturns, sockets, reading, callers
<1>23. CASE EventsDone
    BY <1>23 DEF EventsDone, sockets, reading, callers
<1>24. CASE Writable
    BY <1>24 DEF Writable, sockets, reading, callers
<1>25. CASE NioWrite
    BY <1>25 DEF NioWrite, sockets, reading, callers
<1>26. CASE PassDone
    BY <1>26 DEF PassDone, sockets, reading, callers
<1>27. CASE LoopExit
    BY <1>27 DEF LoopExit, sockets, reading, callers
<1>28. CASE HloopCleanup
    BY <1>28 DEF HloopCleanup, sockets, reading, callers
<1>29. CASE HvFree
    BY <1>29 DEF HvFree, sockets, reading, callers
<1>30. CASE FreeIos
    BY <1>30 DEF FreeIos, sockets, reading, callers
<1> HIDE DEF TypeOK, ArgOK
<1> QED
    BY <1>0, <1>1, <1>2, <1>3, <1>4, <1>5, <1>6, <1>7, <1>8, <1>9, <1>10,
       <1>11, <1>12, <1>13, <1>14, <1>15, <1>16, <1>17, <1>18, <1>19, <1>20,
       <1>21, <1>22, <1>23, <1>24, <1>25, <1>26, <1>27, <1>28, <1>29,
       <1>30 DEF
       Next, LoopStep, StartCall, FinishCall

(* The type invariant of LoopPost holds in every reachable state.          *)
THEOREM TypeCorrect == Spec => [](TypeOK /\ ArgOK)
<1>1. Init => TypeOK /\ ArgOK
    BY TypeInit
<1>2. TypeOK /\ ArgOK /\ [Next]_vars => (TypeOK /\ ArgOK)'
    BY TypeNext, ArgNext
<1> QED
    BY <1>1, <1>2, PTL DEF Spec

-----------------------------------------------------------------------------
(* The bytes and the events.                                               *)

LEMMA MutexNext ==
    ASSUME TypeOK, MutexOK, [Next]_vars
    PROVE  MutexOK'
<1> USE ThreadAssumption DEF TypeOK, MutexOK
<1>0. CASE UNCHANGED vars
    BY <1>0 DEF vars, sockets, reading, callers
<1>1. ASSUME NEW th \in Threads, HloopPostEvent(th) PROVE MutexOK'
    BY <1>1 DEF HloopPostEvent, Goto, MayCall, CountCall, StartPost,
       NewEvent, sockets, reading, callers
<1>2. ASSUME NEW th \in Threads, HloopWakeup(th) PROVE MutexOK'
    BY <1>2 DEF HloopWakeup, Goto, MayCall, CountCall, StartPost, NewEvent,
       sockets, reading, callers
<1>3. ASSUME NEW th \in Threads, HloopStop(th) PROVE MutexOK'
    BY <1>3 DEF HloopStop, Goto, MayCall, CountCall, sockets, reading,
       callers
<1>4. ASSUME NEW th \in Threads, HloopPause(th) PROVE MutexOK'
    BY <1>4 DEF HloopPause, Goto, MayCall, CountCall, sockets, reading,
       callers
<1>5. ASSUME NEW th \in Threads, HloopResume(th) PROVE MutexOK'
    BY <1>5 DEF HloopResume, Goto, MayCall, CountCall, sockets, reading,
       callers
<1>6. ASSUME NEW th \in Threads, Release(th) PROVE MutexOK'
    BY <1>6 DEF Release, Goto, MayCall, CountCall, sockets, reading, callers
<1>7. ASSUME NEW th \in Threads, LockEvents(th) PROVE MutexOK'
    BY <1>7 DEF LockEvents, Goto, sockets, reading, callers
<1>8. ASSUME NEW th \in Threads, HioWrite(th) PROVE MutexOK'
    BY <1>8 DEF HioWrite, Goto, sockets, reading, callers
<1>9. ASSUME NEW th \in Threads, HioAddStores(th) PROVE MutexOK'
    BY <1>9 DEF HioAddStores, Goto, sockets, reading, callers
<1>10. ASSUME NEW th \in Threads, PushEvent(th) PROVE MutexOK'
    BY <1>10 DEF PushEvent, Goto, sockets, reading, callers
<1>11. ASSUME NEW th \in Threads, HloopStopPosts(th) PROVE MutexOK'
    BY <1>11 DEF HloopStopPosts, Goto, StartPost, NewEvent, sockets,
       reading, callers
<1>12. ASSUME NEW th \in Threads, SetStatus(th) PROVE MutexOK'
    BY <1>12 DEF SetStatus, Goto, sockets, reading, callers
<1>13. ASSUME NEW th \in Threads, ReleaseStores(th) PROVE MutexOK'
    BY <1>13 DEF ReleaseStores, Goto, sockets, reading, callers
<1>14. CASE HloopRun
    BY <1>14 DEF HloopRun, sockets, reading, callers
<1>15. CASE ReadSockpair
    BY <1>15 DEF ReadSockpair, sockets, reading, callers
<1>16. CASE ReadSockpairStores
    BY <1>16 DEF ReadSockpairStores, sockets, reading, callers
<1>17. CASE LoopTop
    BY <1>17 DEF LoopTop, sockets, reading, callers
<1>18. CASE Poll
    BY <1>18 DEF Poll, sockets, reading, callers
<1>19. CASE Readable
    BY <1>19 DEF Readable, sockets, reading, callers
<1>20. CASE NioRead
    BY <1>20 DEF NioRead, sockets, reading, callers
<1>21. CASE TakeEvent
    BY <1>21 DEF TakeEvent, sockets, reading, callers
<1>22. CASE CallbackReturns
    BY <1>22 DEF CallbackReturns, sockets, reading, callers
<1>23. CASE EventsDone
    BY <1>23 DEF EventsDone, sockets, reading, callers
<1>24. CASE Writable
    BY <1>24 DEF Writable, sockets, reading, callers
<1>25. CASE NioWrite
    BY <1>25 DEF NioWrite, sockets, reading, callers
<1>26. CASE PassDone
    BY <1>26 DEF PassDone, sockets, reading, callers
<1>27. CASE LoopExit
    BY <1>27 DEF LoopExit, sockets, reading, callers
<1>28. CASE HloopCleanup
    BY <1>28 DEF HloopCleanup, sockets, reading, callers
<1>29. CASE HvFree
    BY <1>29 DEF HvFree, sockets, reading, callers
<1>30. CASE FreeIos
    BY <1>30 DEF FreeIos, sockets, reading, callers
<1> HIDE DEF TypeOK, MutexOK
<1> QED
    BY <1>0, <1>1, <1>2, <1>3, <1>4, <1>5, <1>6, <1>7, <1>8, <1>9, <1>10,
       <1>11, <1>12, <1>13, <1>14, <1>15, <1>16, <1>17, <1>18, <1>19, <1>20,
       <1>21, <1>22, <1>23, <1>24, <1>25, <1>26, <1>27, <1>28, <1>29,
       <1>30 DEF
       Next, LoopStep, StartCall, FinishCall

LEMMA BufNext ==
    ASSUME TypeOK, BufOK, [Next]_vars
    PROVE  BufOK'
<1> USE SizeAssumption DEF TypeOK, BufOK
<1>0. CASE UNCHANGED vars
    BY <1>0 DEF vars, sockets, reading, callers
<1>1. ASSUME NEW th \in Threads, HloopPostEvent(th) PROVE BufOK'
    BY <1>1 DEF HloopPostEvent, Goto, MayCall, CountCall, StartPost,
       NewEvent, sockets, reading, callers
<1>2. ASSUME NEW th \in Threads, HloopWakeup(th) PROVE BufOK'
    BY <1>2 DEF HloopWakeup, Goto, MayCall, CountCall, StartPost, NewEvent,
       sockets, reading, callers
<1>3. ASSUME NEW th \in Threads, HloopStop(th) PROVE BufOK'
    BY <1>3 DEF HloopStop, Goto, MayCall, CountCall, sockets, reading,
       callers
<1>4. ASSUME NEW th \in Threads, HloopPause(th) PROVE BufOK'
    BY <1>4 DEF HloopPause, Goto, MayCall, CountCall, sockets, reading,
       callers
<1>5. ASSUME NEW th \in Threads, HloopResume(th) PROVE BufOK'
    BY <1>5 DEF HloopResume, Goto, MayCall, CountCall, sockets, reading,
       callers
<1>6. ASSUME NEW th \in Threads, Release(th) PROVE BufOK'
    BY <1>6 DEF Release, Goto, MayCall, CountCall, sockets, reading, callers
<1>7. ASSUME NEW th \in Threads, LockEvents(th) PROVE BufOK'
    BY <1>7 DEF LockEvents, Goto, sockets, reading, callers
<1>8. ASSUME NEW th \in Threads, HioWrite(th) PROVE BufOK'
    BY <1>8 DEF HioWrite, Goto, sockets, reading, callers
<1>9. ASSUME NEW th \in Threads, HioAddStores(th) PROVE BufOK'
    BY <1>9 DEF HioAddStores, Goto, sockets, reading, callers
<1>10. ASSUME NEW th \in Threads, PushEvent(th) PROVE BufOK'
    BY <1>10 DEF PushEvent, Goto, sockets, reading, callers
<1>11. ASSUME NEW th \in Threads, HloopStopPosts(th) PROVE BufOK'
    BY <1>11 DEF HloopStopPosts, Goto, StartPost, NewEvent, sockets,
       reading, callers
<1>12. ASSUME NEW th \in Threads, SetStatus(th) PROVE BufOK'
    BY <1>12 DEF SetStatus, Goto, sockets, reading, callers
<1>13. ASSUME NEW th \in Threads, ReleaseStores(th) PROVE BufOK'
    BY <1>13 DEF ReleaseStores, Goto, sockets, reading, callers
<1>14. CASE HloopRun
    BY <1>14 DEF HloopRun, sockets, reading, callers
<1>15. CASE ReadSockpair
    BY <1>15 DEF ReadSockpair, sockets, reading, callers
<1>16. CASE ReadSockpairStores
    BY <1>16 DEF ReadSockpairStores, sockets, reading, callers
<1>17. CASE LoopTop
    BY <1>17 DEF LoopTop, sockets, reading, callers
<1>18. CASE Poll
    BY <1>18 DEF Poll, sockets, reading, callers
<1>19. CASE Readable
    BY <1>19 DEF Readable, sockets, reading, callers
<1>20. CASE NioRead
    BY <1>20 DEF NioRead, sockets, reading, callers
<1>21. CASE TakeEvent
    BY <1>21 DEF TakeEvent, sockets, reading, callers
<1>22. CASE CallbackReturns
    BY <1>22 DEF CallbackReturns, sockets, reading, callers
<1>23. CASE EventsDone
    BY <1>23 DEF EventsDone, sockets, reading, callers
<1>24. CASE Writable
    BY <1>24 DEF Writable, sockets, reading, callers
<1>25. CASE NioWrite
    BY <1>25 DEF NioWrite, sockets, reading, callers
<1>26. CASE PassDone
    BY <1>26 DEF PassDone, sockets, reading, callers
<1>27. CASE LoopExit
    BY <1>27 DEF LoopExit, sockets, reading, callers
<1>28. CASE HloopCleanup
    BY <1>28 DEF HloopCleanup, sockets, reading, callers
<1>29. CASE HvFree
    BY <1>29 DEF HvFree, sockets, reading, callers
<1>30. CASE FreeIos
    BY <1>30 DEF FreeIos, sockets, reading, callers
<1> HIDE DEF TypeOK, BufOK
<1> QED
    BY <1>0, <1>1, <1>2, <1>3, <1>4, <1>5, <1>6, <1>7, <1>8, <1>9, <1>10,
       <1>11, <1>12, <1>13, <1>14, <1>15, <1>16, <1>17, <1>18, <1>19, <1>20,
       <1>21, <1>22, <1>23, <1>24, <1>25, <1>26, <1>27, <1>28, <1>29,
       <1>30 DEF
       Next, LoopStep, StartCall, FinishCall

LEMMA SockNext ==
    ASSUME TypeOK, SockOK, [Next]_vars
    PROVE  SockOK'
<1> USE SizeAssumption DEF TypeOK, SockOK
<1>0. CASE UNCHANGED vars
    BY <1>0 DEF vars, sockets, reading, callers
<1>1. ASSUME NEW th \in Threads, HloopPostEvent(th) PROVE SockOK'
    BY <1>1 DEF HloopPostEvent, Goto, MayCall, CountCall, StartPost,
       NewEvent, sockets, reading, callers
<1>2. ASSUME NEW th \in Threads, HloopWakeup(th) PROVE SockOK'
    BY <1>2 DEF HloopWakeup, Goto, MayCall, CountCall, StartPost, NewEvent,
       sockets, reading, callers
<1>3. ASSUME NEW th \in Threads, HloopStop(th) PROVE SockOK'
    BY <1>3 DEF HloopStop, Goto, MayCall, CountCall, sockets, reading,
       callers
<1>4. ASSUME NEW th \in Threads, HloopPause(th) PROVE SockOK'
    BY <1>4 DEF HloopPause, Goto, MayCall, CountCall, sockets, reading,
       callers
<1>5. ASSUME NEW th \in Threads, HloopResume(th) PROVE SockOK'
    BY <1>5 DEF HloopResume, Goto, MayCall, CountCall, sockets, reading,
       callers
<1>6. ASSUME NEW th \in Threads, Release(th) PROVE SockOK'
    BY <1>6 DEF Release, Goto, MayCall, CountCall, sockets, reading, callers
<1>7. ASSUME NEW th \in Threads, LockEvents(th) PROVE SockOK'
    BY <1>7 DEF LockEvents, Goto, sockets, reading, callers
<1>8. ASSUME NEW th \in Threads, HioWrite(th) PROVE SockOK'
    BY <1>8 DEF HioWrite, Goto, sockets, reading, callers
<1>9. ASSUME NEW th \in Threads, HioAddStores(th) PROVE SockOK'
    BY <1>9 DEF HioAddStores, Goto, sockets, reading, callers
<1>10. ASSUME NEW th \in Threads, PushEvent(th) PROVE SockOK'
    BY <1>10 DEF PushEvent, Goto, sockets, reading, callers
<1>11. ASSUME NEW th \in Threads, HloopStopPosts(th) PROVE SockOK'
    BY <1>11 DEF HloopStopPosts, Goto, StartPost, NewEvent, sockets,
       reading, callers
<1>12. ASSUME NEW th \in Threads, SetStatus(th) PROVE SockOK'
    BY <1>12 DEF SetStatus, Goto, sockets, reading, callers
<1>13. ASSUME NEW th \in Threads, ReleaseStores(th) PROVE SockOK'
    BY <1>13 DEF ReleaseStores, Goto, sockets, reading, callers
<1>14. CASE HloopRun
    BY <1>14 DEF HloopRun, sockets, reading, callers
<1>15. CASE ReadSockpair
    BY <1>15 DEF ReadSockpair, sockets, reading, callers
<1>16. CASE ReadSockpairStores
    BY <1>16 DEF ReadSockpairStores, sockets, reading, callers
<1>17. CASE LoopTop
    BY <1>17 DEF LoopTop, sockets, reading, callers
<1>18. CASE Poll
    BY <1>18 DEF Poll, sockets, reading, callers
<1>19. CASE Readable
    BY <1>19 DEF Readable, sockets, reading, callers
<1>20. CASE NioRead
    BY <1>20 DEF NioRead, sockets, reading, callers
<1>21. CASE TakeEvent
    BY <1>21 DEF TakeEvent, sockets, reading, callers
<1>22. CASE CallbackReturns
    BY <1>22 DEF CallbackReturns, sockets, reading, callers
<1>23. CASE EventsDone
    BY <1>23 DEF EventsDone, sockets, reading, callers
<1>24. CASE Writable
    BY <1>24 DEF Writable, sockets, reading, callers
<1>25. CASE NioWrite
    BY <1>25 DEF NioWrite, sockets, reading, callers
<1>26. CASE PassDone
    BY <1>26 DEF PassDone, sockets, reading, callers
<1>27. CASE LoopExit
    BY <1>27 DEF LoopExit, sockets, reading, callers
<1>28. CASE HloopCleanup
    BY <1>28 DEF HloopCleanup, sockets, reading, callers
<1>29. CASE HvFree
    BY <1>29 DEF HvFree, sockets, reading, callers
<1>30. CASE FreeIos
    BY <1>30 DEF FreeIos, sockets, reading, callers
<1> HIDE DEF TypeOK, SockOK
<1> QED
    BY <1>0, <1>1, <1>2, <1>3, <1>4, <1>5, <1>6, <1>7, <1>8, <1>9, <1>10,
       <1>11, <1>12, <1>13, <1>14, <1>15, <1>16, <1>17, <1>18, <1>19, <1>20,
       <1>21, <1>22, <1>23, <1>24, <1>25, <1>26, <1>27, <1>28, <1>29,
       <1>30 DEF
       Next, LoopStep, StartCall, FinishCall

LEMMA ArmedNext ==
    ASSUME TypeOK, SockOK, WriteArmed, [Next]_vars
    PROVE  WriteArmed'
<1> USE SizeAssumption DEF TypeOK, WriteArmed, SockpairOpen
<1>0. CASE UNCHANGED vars
    BY <1>0 DEF vars, sockets, reading, callers
<1>1. ASSUME NEW th \in Threads, HloopPostEvent(th) PROVE WriteArmed'
    BY <1>1 DEF HloopPostEvent, Goto, MayCall, CountCall, StartPost,
       NewEvent, sockets, reading, callers
<1>2. ASSUME NEW th \in Threads, HloopWakeup(th) PROVE WriteArmed'
    BY <1>2 DEF HloopWakeup, Goto, MayCall, CountCall, StartPost, NewEvent,
       sockets, reading, callers
<1>3. ASSUME NEW th \in Threads, HloopStop(th) PROVE WriteArmed'
    BY <1>3 DEF HloopStop, Goto, MayCall, CountCall, sockets, reading,
       callers
<1>4. ASSUME NEW th \in Threads, HloopPause(th) PROVE WriteArmed'
    BY <1>4 DEF HloopPause, Goto, MayCall, CountCall, sockets, reading,
       callers
<1>5. ASSUME NEW th \in Threads, HloopResume(th) PROVE WriteArmed'
    BY <1>5 DEF HloopResume, Goto, MayCall, CountCall, sockets, reading,
       callers
<1>6. ASSUME NEW th \in Threads, Release(th) PROVE WriteArmed'
    BY <1>6 DEF Release, Goto, MayCall, CountCall, sockets, reading, callers
<1>7. ASSUME NEW th \in Threads, LockEvents(th) PROVE WriteArmed'
    BY <1>7 DEF LockEvents, Goto, sockets, reading, callers
<1>8. ASSUME NEW th \in Threads, HioWrite(th) PROVE WriteArmed'
    BY <1>8 DEF HioWrite, Goto, sockets, reading, callers
<1>9. ASSUME NEW th \in Threads, HioAddStores(th) PROVE WriteArmed'
    BY <1>9 DEF HioAddStores, Goto, sockets, reading, callers
<1>10. ASSUME NEW th \in Threads, PushEvent(th) PROVE WriteArmed'
    BY <1>10 DEF PushEvent, Goto, sockets, reading, callers
<1>11. ASSUME NEW th \in Threads, HloopStopPosts(th) PROVE WriteArmed'
    BY <1>11 DEF HloopStopPosts, Goto, StartPost, NewEvent, sockets,
       reading, callers
<1>12. ASSUME NEW th \in Threads, SetStatus(th) PROVE WriteArmed'
    BY <1>12 DEF SetStatus, Goto, sockets, reading, callers
<1>13. ASSUME NEW th \in Threads, ReleaseStores(th) PROVE WriteArmed'
    BY <1>13 DEF ReleaseStores, Goto, sockets, reading, callers
<1>14. CASE HloopRun
    BY <1>14 DEF HloopRun, sockets, reading, callers
<1>15. CASE ReadSockpair
    BY <1>15 DEF ReadSockpair, sockets, reading, callers
<1>16. CASE ReadSockpairStores
    BY <1>16 DEF ReadSockpairStores, sockets, reading, callers
<1>17. CASE LoopTop
    BY <1>17 DEF LoopTop, sockets, reading, callers
<1>18. CASE Poll
    BY <1>18 DEF Poll, sockets, reading, callers
<1>19. CASE Readable
    BY <1>19 DEF Readable, sockets, reading, callers
<1>20. CASE NioRead
    BY <1>20 DEF NioRead, sockets, reading, callers
<1>21. CASE TakeEvent
    BY <1>21 DEF TakeEvent, sockets, reading, callers
<1>22. CASE CallbackReturns
    BY <1>22 DEF CallbackReturns, sockets, reading, callers
<1>23. CASE EventsDone
    BY <1>23 DEF EventsDone, sockets, reading, callers
<1>24. CASE Writable
    BY <1>24 DEF Writable, sockets, reading, callers
<1>25. CASE NioWrite
    <2>1. wq' <= wq
        BY <1>25, SizeAssumption DEF NioWrite, SockOK, TypeOK
    <2> QED
        BY <1>25, <2>1 DEF NioWrite, TypeOK
<1>26. CASE PassDone
    BY <1>26 DEF PassDone, sockets, reading, callers
<1>27. CASE LoopExit
    BY <1>27 DEF LoopExit, sockets, reading, callers
<1>28. CASE HloopCleanup
    BY <1>28 DEF HloopCleanup, sockets, reading, callers
<1>29. CASE HvFree
    BY <1>29 DEF HvFree, sockets, reading, callers
<1>30. CASE FreeIos
    BY <1>30 DEF FreeIos, sockets, reading, callers
<1> HIDE DEF TypeOK, WriteArmed, SockpairOpen
<1> QED
    BY <1>0, <1>1, <1>2, <1>3, <1>4, <1>5, <1>6, <1>7, <1>8, <1>9, <1>10,
       <1>11, <1>12, <1>13, <1>14, <1>15, <1>16, <1>17, <1>18, <1>19, <1>20,
       <1>21, <1>22, <1>23, <1>24, <1>25, <1>26, <1>27, <1>28, <1>29,
       <1>30 DEF
       Next, LoopStep, StartCall, FinishCall

LEMMA OneWriter ==
    ASSUME TypeOK, MutexOK, NEW th \in Threads,
           ppc[th] \in {"write", "hio_add", "push"}
    PROVE  \A u \in Threads : u # th =>
             ppc[u] \notin {"write", "hio_add", "push"}
BY DEF MutexOK

LEMMA NoWriter ==
    ASSUME TypeOK, MutexOK, mutex = NoThread
    PROVE  \A u \in Threads : ppc[u] \notin {"write", "hio_add", "push"}
BY ThreadAssumption DEF MutexOK

LEMMA BytesNext ==
    ASSUME TypeOK, ArgOK, MutexOK, BufOK, BytesOK, QueueEmpty, [Next]_vars
    PROVE  BytesOK'
<1> USE SizeAssumption DEF BytesOK
<1>0. CASE UNCHANGED vars
    <2>1. Pushing' <=> Pushing
        BY <1>0 DEF vars, callers, Pushing, SockpairOpen
    <2> QED
        BY <1>0, <2>1 DEF vars, sockets, reading
<1>1. ASSUME NEW th \in Threads, HloopPostEvent(th) PROVE BytesOK'
    <2>1. Pushing' <=> Pushing
        BY <1>1 DEF HloopPostEvent, Goto, MayCall, CountCall, StartPost,
           NewEvent, sockets, reading, callers, Pushing, SockpairOpen, TypeOK
    <2> QED
        BY <1>1, <2>1 DEF HloopPostEvent, Goto, MayCall, CountCall,
           StartPost, NewEvent, sockets, reading, callers
<1>2. ASSUME NEW th \in Threads, HloopWakeup(th) PROVE BytesOK'
    <2>1. Pushing' <=> Pushing
        BY <1>2 DEF HloopWakeup, Goto, MayCall, CountCall, StartPost,
           NewEvent, sockets, reading, callers, Pushing, SockpairOpen, TypeOK
    <2> QED
        BY <1>2, <2>1 DEF HloopWakeup, Goto, MayCall, CountCall, StartPost,
           NewEvent, sockets, reading, callers
<1>3. ASSUME NEW th \in Threads, HloopStop(th) PROVE BytesOK'
    <2>1. Pushing' <=> Pushing
        BY <1>3 DEF HloopStop, Goto, MayCall, CountCall, sockets, reading,
           callers, Pushing, SockpairOpen, TypeOK
    <2> QED
        BY <1>3, <2>1 DEF HloopStop, Goto, MayCall, CountCall, sockets,
           reading, callers
<1>4. ASSUME NEW th \in Threads, HloopPause(th) PROVE BytesOK'
    <2>1. Pushing' <=> Pushing
        BY <1>4 DEF HloopPause, Goto, MayCall, CountCall, sockets, reading,
           callers, Pushing, SockpairOpen, TypeOK
    <2> QED
        BY <1>4, <2>1 DEF HloopPause, Goto, MayCall, CountCall, sockets,
           reading, callers
<1>5. ASSUME NEW th \in Threads, HloopResume(th) PROVE BytesOK'
    <2>1. Pushing' <=> Pushing
        BY <1>5 DEF HloopResume, Goto, MayCall, CountCall, sockets, reading,
           callers, Pushing, SockpairOpen, TypeOK
    <2> QED
        BY <1>5, <2>1 DEF HloopResume, Goto, MayCall, CountCall, sockets,
           reading, callers
<1>6. ASSUME NEW th \in Threads, Release(th) PROVE BytesOK'
    <2>1. Pushing' <=> Pushing
        BY <1>6 DEF Release, Goto, MayCall, CountCall, sockets, reading,
           callers, Pushing, SockpairOpen, TypeOK
    <2> QED
        BY <1>6, <2>1 DEF Release, Goto, MayCall, CountCall, sockets,
           reading, callers
<1>7. ASSUME NEW th \in Threads, LockEvents(th) PROVE BytesOK'
    <2>1. Pushing' <=> Pushing
        BY <1>7 DEF LockEvents, Goto, sockets, reading, callers, Pushing,
           SockpairOpen, TypeOK
    <2> QED
        BY <1>7, <2>1 DEF LockEvents, Goto, sockets, reading, callers
<1>8. ASSUME NEW th \in Threads, HioWrite(th) PROVE BytesOK'
    <2>1. ~Pushing
        BY <1>8, OneWriter DEF HioWrite, Pushing
    <2>2. CASE wq = 0 /\ sock >= SockCap /\ ~wactive
        <3>1. ~Pushing'
            BY <1>8, <2>2, OneWriter DEF HioWrite, Goto, sockets, reading,
               callers, Pushing, TypeOK
        <3>2. UNCHANGED <<sock, wq, buf, queue>>
            BY <1>8, <2>2, SizeAssumption DEF HioWrite, reading, TypeOK
        <3> QED
            BY <2>1, <3>1, <3>2
    <2>3. CASE ~(wq = 0 /\ sock >= SockCap /\ ~wactive)
        <3>1. Pushing'
            BY <1>8, <2>3 DEF HioWrite, Goto, sockets, reading, callers,
               Pushing, SockpairOpen, TypeOK
        <3>2. \/ sock' = sock + 1 /\ wq' = wq
              \/ sock' = sock /\ wq' = wq + 1
            <4>1. wq = 0 \/ wq > 0
                BY DEF TypeOK
            <4>2. sock < SockCap \/ sock >= SockCap
                BY SizeAssumption DEF TypeOK
            <4> QED
                BY <1>8, <2>3, <4>1, <4>2 DEF HioWrite
        <3>3. UNCHANGED <<buf, queue>>
            BY <1>8 DEF HioWrite, reading
        <3>4. Len(queue) \in Nat
            BY DEF TypeOK
        <3> QED
            BY <2>1, <3>1, <3>2, <3>3, <3>4 DEF TypeOK
    <2> QED
        BY <2>2, <2>3
<1>9. ASSUME NEW th \in Threads, HioAddStores(th) PROVE BytesOK'
    <2>1. ~Pushing /\ wq = 0
        BY <1>9, OneWriter DEF HioAddStores, Pushing, QueueEmpty
    <2>2. Pushing'
        BY <1>9 DEF HioAddStores, Goto, sockets, reading, callers, Pushing,
           SockpairOpen, TypeOK
    <2> QED
        BY <1>9, <2>1, <2>2 DEF HioAddStores, Goto, sockets, reading,
           callers, TypeOK
<1>10. ASSUME NEW th \in Threads, PushEvent(th) PROVE BytesOK'
    <2>1. Pushing
        BY <1>10 DEF PushEvent, Pushing
    <2>2. ~Pushing'
        BY <1>10, OneWriter DEF PushEvent, Goto, sockets, reading, callers,
           Pushing, TypeOK
    <2>3. arg[th] \in Event
        BY <1>10 DEF PushEvent, ArgOK, TypeOK
    <2>4. Len(queue') = Len(queue) + 1
        BY <1>10, <2>3 DEF PushEvent, TypeOK
    <2> QED
        BY <1>10, <2>1, <2>2, <2>4 DEF PushEvent, Goto, sockets, reading,
           callers, TypeOK
<1>11. ASSUME NEW th \in Threads, HloopStopPosts(th) PROVE BytesOK'
    <2>1. Pushing' <=> Pushing
        BY <1>11 DEF HloopStopPosts, Goto, StartPost, NewEvent, sockets,
           reading, callers, Pushing, SockpairOpen, TypeOK
    <2> QED
        BY <1>11, <2>1 DEF HloopStopPosts, Goto, StartPost, NewEvent,
           sockets, reading, callers
<1>12. ASSUME NEW th \in Threads, SetStatus(th) PROVE BytesOK'
    <2>1. Pushing' <=> Pushing
        BY <1>12 DEF SetStatus, Goto, sockets, reading, callers, Pushing,
           SockpairOpen, TypeOK
    <2> QED
        BY <1>12, <2>1 DEF SetStatus, Goto, sockets, reading, callers
<1>13. ASSUME NEW th \in Threads, ReleaseStores(th) PROVE BytesOK'
    <2>1. Pushing' <=> Pushing
        BY <1>13 DEF ReleaseStores, Goto, sockets, reading, callers, Pushing,
           SockpairOpen, TypeOK
    <2> QED
        BY <1>13, <2>1 DEF ReleaseStores, Goto, sockets, reading, callers
<1>14. CASE HloopRun
    <2>1. Pushing' <=> Pushing
        BY <1>14 DEF HloopRun, sockets, reading, callers, Pushing,
           SockpairOpen, TypeOK
    <2> QED
        BY <1>14, <2>1 DEF HloopRun, sockets, reading, callers
<1>15. CASE ReadSockpair
    <2>1. Pushing' <=> Pushing
        BY <1>15 DEF ReadSockpair, sockets, reading, callers, Pushing,
           SockpairOpen, TypeOK
    <2> QED
        BY <1>15, <2>1 DEF ReadSockpair, sockets, reading, callers
<1>16. CASE ReadSockpairStores
    <2>1. Pushing' <=> Pushing
        BY <1>16 DEF ReadSockpairStores, sockets, reading, callers, Pushing,
           SockpairOpen, TypeOK
    <2> QED
        BY <1>16, <2>1 DEF ReadSockpairStores, sockets, reading, callers
<1>17. CASE LoopTop
    <2>1. Pushing' <=> Pushing
        BY <1>17 DEF LoopTop, sockets, reading, callers, Pushing,
           SockpairOpen, TypeOK
    <2> QED
        BY <1>17, <2>1 DEF LoopTop, sockets, reading, callers
<1>18. CASE Poll
    <2>1. Pushing' <=> Pushing
        BY <1>18 DEF Poll, sockets, reading, callers, Pushing, SockpairOpen,
           TypeOK
    <2> QED
        BY <1>18, <2>1 DEF Poll, sockets, reading, callers
<1>19. CASE Readable
    <2>1. Pushing' <=> Pushing
        BY <1>19 DEF Readable, sockets, reading, callers, Pushing,
           SockpairOpen, TypeOK
    <2> QED
        BY <1>19, <2>1 DEF Readable, sockets, reading, callers
<1>20. CASE NioRead
    <2>1. Pushing' <=> Pushing
        BY <1>20 DEF NioRead, sockets, reading, callers, Pushing, SockpairOpen
    <2>2. buf = 0
        BY <1>20 DEF NioRead, BufOK, TypeOK
    <2> QED
        BY <1>20, <2>1, <2>2, SizeAssumption DEF NioRead, TypeOK
<1>21. CASE TakeEvent
    <2>1. ~Pushing /\ ~Pushing'
        BY <1>21, NoWriter DEF TakeEvent, Pushing, callers
    <2>2. CASE queue = <<>>
        BY <1>21, <2>1, <2>2 DEF TakeEvent, sockets, TypeOK
    <2>3. CASE queue # <<>>
        <3>1. Len(queue') = Len(queue) - 1
            BY <1>21, <2>3 DEF TakeEvent, TypeOK
        <3> QED
            BY <1>21, <2>1, <2>3, <3>1 DEF TakeEvent, sockets, TypeOK
    <2> QED
        BY <2>2, <2>3
<1>22. CASE CallbackReturns
    <2>1. Pushing' <=> Pushing
        BY <1>22 DEF CallbackReturns, sockets, reading, callers, Pushing,
           SockpairOpen, TypeOK
    <2> QED
        BY <1>22, <2>1 DEF CallbackReturns, sockets, reading, callers
<1>23. CASE EventsDone
    <2>1. Pushing' <=> Pushing
        BY <1>23 DEF EventsDone, sockets, reading, callers, Pushing,
           SockpairOpen, TypeOK
    <2> QED
        BY <1>23, <2>1 DEF EventsDone, sockets, reading, callers
<1>24. CASE Writable
    <2>1. Pushing' <=> Pushing
        BY <1>24 DEF Writable, sockets, reading, callers, Pushing,
           SockpairOpen, TypeOK
    <2> QED
        BY <1>24, <2>1 DEF Writable, sockets, reading, callers
<1>25. CASE NioWrite
    <2>1. Pushing' <=> Pushing
        BY <1>25 DEF NioWrite, sockets, reading, callers, Pushing,
           SockpairOpen
    <2>2. sock' + wq' = sock + wq /\ UNCHANGED <<buf, queue>>
        BY <1>25, SizeAssumption DEF NioWrite, reading, TypeOK
    <2>3. Len(queue) \in Nat /\ sock' \in Nat /\ wq' \in Nat
        BY TypeNext DEF TypeOK
    <2> QED
        BY <2>1, <2>2, <2>3 DEF TypeOK
<1>26. CASE PassDone
    <2>1. Pushing' <=> Pushing
        BY <1>26 DEF PassDone, sockets, reading, callers, Pushing,
           SockpairOpen, TypeOK
    <2> QED
        BY <1>26, <2>1 DEF PassDone, sockets, reading, callers
<1>27. CASE LoopExit
    <2>1. Pushing' <=> Pushing
        BY <1>27 DEF LoopExit, sockets, reading, callers, Pushing,
           SockpairOpen, TypeOK
    <2> QED
        BY <1>27, <2>1 DEF LoopExit, sockets, reading, callers
<1>28. CASE HloopCleanup
    <2>1. buf = 0 /\ ~Pushing'
        BY <1>28 DEF HloopCleanup, BufOK, Pushing, SockpairOpen, TypeOK
    <2> QED
        BY <1>28, <2>1 DEF HloopCleanup, reading
<1>29. CASE HvFree
    <2>1. Pushing' <=> Pushing
        BY <1>29 DEF HvFree, sockets, reading, callers, Pushing,
           SockpairOpen, TypeOK
    <2> QED
        BY <1>29, <2>1 DEF HvFree, sockets, reading, callers
<1>30. CASE FreeIos
    <2>1. Pushing' <=> Pushing
        BY <1>30 DEF FreeIos, sockets, reading, callers, Pushing,
           SockpairOpen, TypeOK
    <2> QED
        BY <1>30, <2>1 DEF FreeIos, sockets, reading, callers
<1> HIDE DEF BytesOK
<1> QED
    BY <1>0, <1>1, <1>2, <1>3, <1>4, <1>5, <1>6, <1>7, <1>8, <1>9, <1>10,
       <1>11, <1>12, <1>13, <1>14, <1>15, <1>16, <1>17, <1>18, <1>19, <1>20,
       <1>21, <1>22, <1>23, <1>24, <1>25, <1>26, <1>27, <1>28, <1>29,
       <1>30 DEF
       Next, LoopStep, StartCall, FinishCall

LEMMA QueueEmptyNext ==
    ASSUME TypeOK, MutexOK, QueueEmpty, [Next]_vars
    PROVE  QueueEmpty'
<1> USE SizeAssumption DEF TypeOK, QueueEmpty
<1>0. CASE UNCHANGED vars
    BY <1>0 DEF vars, sockets, reading, callers
<1>1. ASSUME NEW th \in Threads, HloopPostEvent(th) PROVE QueueEmpty'
    BY <1>1 DEF HloopPostEvent, Goto, MayCall, CountCall, StartPost,
       NewEvent, sockets, reading, callers
<1>2. ASSUME NEW th \in Threads, HloopWakeup(th) PROVE QueueEmpty'
    BY <1>2 DEF HloopWakeup, Goto, MayCall, CountCall, StartPost, NewEvent,
       sockets, reading, callers
<1>3. ASSUME NEW th \in Threads, HloopStop(th) PROVE QueueEmpty'
    BY <1>3 DEF HloopStop, Goto, MayCall, CountCall, sockets, reading,
       callers
<1>4. ASSUME NEW th \in Threads, HloopPause(th) PROVE QueueEmpty'
    BY <1>4 DEF HloopPause, Goto, MayCall, CountCall, sockets, reading,
       callers
<1>5. ASSUME NEW th \in Threads, HloopResume(th) PROVE QueueEmpty'
    BY <1>5 DEF HloopResume, Goto, MayCall, CountCall, sockets, reading,
       callers
<1>6. ASSUME NEW th \in Threads, Release(th) PROVE QueueEmpty'
    BY <1>6 DEF Release, Goto, MayCall, CountCall, sockets, reading, callers
<1>7. ASSUME NEW th \in Threads, LockEvents(th) PROVE QueueEmpty'
    BY <1>7 DEF LockEvents, Goto, sockets, reading, callers
<1>8. ASSUME NEW th \in Threads, HioWrite(th) PROVE QueueEmpty'
    BY <1>8, OneWriter DEF HioWrite, Goto, sockets, reading, callers
<1>9. ASSUME NEW th \in Threads, HioAddStores(th) PROVE QueueEmpty'
    <2>1. \A u \in Threads : ppc'[u] # "hio_add"
        BY <1>9, OneWriter DEF HioAddStores, Goto, sockets, reading, callers
    <2> QED
        BY <2>1
<1>10. ASSUME NEW th \in Threads, PushEvent(th) PROVE QueueEmpty'
    BY <1>10 DEF PushEvent, Goto, sockets, reading, callers
<1>11. ASSUME NEW th \in Threads, HloopStopPosts(th) PROVE QueueEmpty'
    BY <1>11 DEF HloopStopPosts, Goto, StartPost, NewEvent, sockets,
       reading, callers
<1>12. ASSUME NEW th \in Threads, SetStatus(th) PROVE QueueEmpty'
    BY <1>12 DEF SetStatus, Goto, sockets, reading, callers
<1>13. ASSUME NEW th \in Threads, ReleaseStores(th) PROVE QueueEmpty'
    BY <1>13 DEF ReleaseStores, Goto, sockets, reading, callers
<1>14. CASE HloopRun
    BY <1>14 DEF HloopRun, sockets, reading, callers
<1>15. CASE ReadSockpair
    BY <1>15 DEF ReadSockpair, sockets, reading, callers
<1>16. CASE ReadSockpairStores
    BY <1>16 DEF ReadSockpairStores, sockets, reading, callers
<1>17. CASE LoopTop
    BY <1>17 DEF LoopTop, sockets, reading, callers
<1>18. CASE Poll
    BY <1>18 DEF Poll, sockets, reading, callers
<1>19. CASE Readable
    BY <1>19 DEF Readable, sockets, reading, callers
<1>20. CASE NioRead
    BY <1>20 DEF NioRead, sockets, reading, callers
<1>21. CASE TakeEvent
    BY <1>21 DEF TakeEvent, sockets, reading, callers
<1>22. CASE CallbackReturns
    BY <1>22 DEF CallbackReturns, sockets, reading, callers
<1>23. CASE EventsDone
    BY <1>23 DEF EventsDone, sockets, reading, callers
<1>24. CASE Writable
    BY <1>24 DEF Writable, sockets, reading, callers
<1>25. CASE NioWrite
    <2>1. \A u \in Threads : ppc'[u] # "hio_add"
        BY <1>25 DEF NioWrite, WriteLocked, callers
    <2> QED
        BY <2>1
<1>26. CASE PassDone
    BY <1>26 DEF PassDone, sockets, reading, callers
<1>27. CASE LoopExit
    BY <1>27 DEF LoopExit, sockets, reading, callers
<1>28. CASE HloopCleanup
    BY <1>28 DEF HloopCleanup, sockets, reading, callers
<1>29. CASE HvFree
    BY <1>29 DEF HvFree, sockets, reading, callers
<1>30. CASE FreeIos
    BY <1>30 DEF FreeIos, sockets, reading, callers
<1> HIDE DEF TypeOK, QueueEmpty
<1> QED
    BY <1>0, <1>1, <1>2, <1>3, <1>4, <1>5, <1>6, <1>7, <1>8, <1>9, <1>10,
       <1>11, <1>12, <1>13, <1>14, <1>15, <1>16, <1>17, <1>18, <1>19, <1>20,
       <1>21, <1>22, <1>23, <1>24, <1>25, <1>26, <1>27, <1>28, <1>29,
       <1>30 DEF
       Next, LoopStep, StartCall, FinishCall

LEMMA ByteInit == Init => ByteInv
<1> SUFFICES ASSUME Init PROVE ByteInv
    OBVIOUS
<1>1. TypeOK /\ ArgOK
    BY TypeInit
<1>2. MutexOK /\ QueueEmpty
    BY ThreadAssumption DEF Init, MutexOK, QueueEmpty
<1>3. BufOK /\ SockOK /\ BytesOK /\ WriteArmed
    BY SizeAssumption DEF Init, BufOK, SockOK, BytesOK, WriteArmed, Pushing
<1> QED
    BY <1>1, <1>2, <1>3 DEF ByteInv

LEMMA ByteNext == ByteInv /\ [Next]_vars => ByteInv'
BY TypeNext, ArgNext, MutexNext, BufNext, BytesNext, QueueEmptyNext,
   SockNext, ArmedNext DEF ByteInv

LEMMA ByteInvariant == Spec => []ByteInv
BY ByteInit, ByteNext, PTL DEF Spec

(* One byte for every event queued: the loop, which counts only bytes,     *)
(* never forgets an event and never looks for one that is not there.       *)
THEOREM BytesExact == Spec => []ByteForEveryEvent
<1>1. ASSUME ByteInv PROVE ByteForEveryEvent
    <2> DEFINE S == {th \in Threads : ppc[th] = "push" /\ SockpairOpen}
    <2>1. CASE Pushing
        <3>1. PICK th \in Threads : ppc[th] = "push" /\ SockpairOpen
            BY <2>1 DEF Pushing
        <3>2. S = {th}
            BY <1>1, <3>1, OneWriter DEF ByteInv
        <3>3. Cardinality(S) = 1
            BY <3>2, FS_Singleton
        <3> QED
            BY <1>1, <2>1, <3>3 DEF ByteInv, BytesOK, ByteForEveryEvent
    <2>2. CASE ~Pushing
        <3>1. S = {}
            BY <2>2 DEF Pushing
        <3>2. Cardinality(S) = 0
            BY <3>1, FS_EmptySet
        <3> QED
            BY <1>1, <2>2, <3>2 DEF ByteInv, BytesOK, ByteForEveryEvent
    <2> QED
        BY <2>1, <2>2
<1> QED
    BY <1>1, ByteInvariant, PTL

(* The poll waits for HV_WRITE as long as a byte waits to be written.      *)
THEOREM BytesNotStuck == Spec => []WriteArmed
<1>1. ByteInv => WriteArmed
    BY DEF ByteInv
<1> QED
    BY <1>1, ByteInvariant, PTL

-----------------------------------------------------------------------------
(* The queue is a mailbox.                                                 *)

LEMMA BoxStep ==
    ASSUME TypeOK, ArgOK, [Next]_vars
    PROVE  [Box!BoxNext]_(Box!boxVars)
<1>0. CASE UNCHANGED vars
    BY <1>0 DEF vars, callers, Box!boxVars
<1>1. ASSUME NEW th \in Threads, HloopPostEvent(th) PROVE [Box!BoxNext]_(Box!boxVars)
    <2>1. UNCHANGED <<queue, handled>>
        BY <1>1 DEF HloopPostEvent
    <2>2. CASE UNCHANGED arg
        BY <2>1, <2>2 DEF Box!boxVars
    <2>3. CASE ~UNCHANGED arg
        <3>1. arg' = [arg EXCEPT ![th] = arg'[th]] /\ arg[th] = NoEvent
            BY <1>1, <2>3 DEF HloopPostEvent, Goto, MayCall, CountCall,
               StartPost, NewEvent, sockets, reading, callers, TypeOK, ArgOK
        <3>2. arg'[th] \in Event
            BY <1>1, <2>3, <3>1, TypeNext DEF TypeOK
        <3> QED
            BY <2>1, <3>1, <3>2 DEF Box!BoxNext, Box!Call
    <2> QED
        BY <2>2, <2>3
<1>2. ASSUME NEW th \in Threads, HloopWakeup(th) PROVE [Box!BoxNext]_(Box!boxVars)
    <2>1. UNCHANGED <<queue, handled>>
        BY <1>2 DEF HloopWakeup
    <2>2. CASE UNCHANGED arg
        BY <2>1, <2>2 DEF Box!boxVars
    <2>3. CASE ~UNCHANGED arg
        <3>1. arg' = [arg EXCEPT ![th] = arg'[th]] /\ arg[th] = NoEvent
            BY <1>2, <2>3 DEF HloopWakeup, Goto, MayCall, CountCall,
               StartPost, NewEvent, sockets, reading, callers, TypeOK, ArgOK
        <3>2. arg'[th] \in Event
            BY <1>2, <2>3, <3>1, TypeNext DEF TypeOK
        <3> QED
            BY <2>1, <3>1, <3>2 DEF Box!BoxNext, Box!Call
    <2> QED
        BY <2>2, <2>3
<1>3. ASSUME NEW th \in Threads, HloopStop(th) PROVE [Box!BoxNext]_(Box!boxVars)
    <2>1. UNCHANGED <<arg, queue, handled>>
        BY <1>3 DEF HloopStop, Goto, MayCall, CountCall, sockets, reading,
           callers
    <2> QED
        BY <2>1 DEF Box!boxVars
<1>4. ASSUME NEW th \in Threads, HloopPause(th) PROVE [Box!BoxNext]_(Box!boxVars)
    <2>1. UNCHANGED <<arg, queue, handled>>
        BY <1>4 DEF HloopPause, Goto, MayCall, CountCall, sockets, reading,
           callers
    <2> QED
        BY <2>1 DEF Box!boxVars
<1>5. ASSUME NEW th \in Threads, HloopResume(th) PROVE [Box!BoxNext]_(Box!boxVars)
    <2>1. UNCHANGED <<arg, queue, handled>>
        BY <1>5 DEF HloopResume, Goto, MayCall, CountCall, sockets, reading,
           callers
    <2> QED
        BY <2>1 DEF Box!boxVars
<1>6. ASSUME NEW th \in Threads, Release(th) PROVE [Box!BoxNext]_(Box!boxVars)
    <2>1. UNCHANGED <<arg, queue, handled>>
        BY <1>6 DEF Release, Goto, MayCall, CountCall, sockets, reading,
           callers
    <2> QED
        BY <2>1 DEF Box!boxVars
<1>7. ASSUME NEW th \in Threads, LockEvents(th) PROVE [Box!BoxNext]_(Box!boxVars)
    <2>1. UNCHANGED <<arg, queue, handled>>
        BY <1>7 DEF LockEvents, Goto, sockets, reading, callers
    <2> QED
        BY <2>1 DEF Box!boxVars
<1>8. ASSUME NEW th \in Threads, HioWrite(th) PROVE [Box!BoxNext]_(Box!boxVars)
    <2>1. UNCHANGED <<arg, queue, handled>>
        BY <1>8 DEF HioWrite, Goto, sockets, reading, callers
    <2> QED
        BY <2>1 DEF Box!boxVars
<1>9. ASSUME NEW th \in Threads, HioAddStores(th) PROVE [Box!BoxNext]_(Box!boxVars)
    <2>1. UNCHANGED <<arg, queue, handled>>
        BY <1>9 DEF HioAddStores, Goto, sockets, reading, callers
    <2> QED
        BY <2>1 DEF Box!boxVars
<1>10. ASSUME NEW th \in Threads, PushEvent(th) PROVE [Box!BoxNext]_(Box!boxVars)
    <2>1. arg[th] # NoEvent
        BY <1>10 DEF PushEvent, ArgOK
    <2> QED
        BY <1>10, <2>1 DEF PushEvent, Box!BoxNext, Box!Enter
<1>11. ASSUME NEW th \in Threads, HloopStopPosts(th) PROVE [Box!BoxNext]_(Box!boxVars)
    <2>1. UNCHANGED <<queue, handled>>
        BY <1>11 DEF HloopStopPosts
    <2>2. CASE UNCHANGED arg
        BY <2>1, <2>2 DEF Box!boxVars
    <2>3. CASE ~UNCHANGED arg
        <3>1. arg' = [arg EXCEPT ![th] = arg'[th]] /\ arg[th] = NoEvent
            BY <1>11, <2>3 DEF HloopStopPosts, Goto, StartPost, NewEvent,
               sockets, reading, callers, TypeOK, ArgOK
        <3>2. arg'[th] \in Event
            BY <1>11, <2>3, <3>1, TypeNext DEF TypeOK
        <3> QED
            BY <2>1, <3>1, <3>2 DEF Box!BoxNext, Box!Call
    <2> QED
        BY <2>2, <2>3
<1>12. ASSUME NEW th \in Threads, SetStatus(th) PROVE [Box!BoxNext]_(Box!boxVars)
    <2>1. UNCHANGED <<arg, queue, handled>>
        BY <1>12 DEF SetStatus, Goto, sockets, reading, callers
    <2> QED
        BY <2>1 DEF Box!boxVars
<1>13. ASSUME NEW th \in Threads, ReleaseStores(th) PROVE [Box!BoxNext]_(Box!boxVars)
    <2>1. UNCHANGED <<arg, queue, handled>>
        BY <1>13 DEF ReleaseStores, Goto, sockets, reading, callers
    <2> QED
        BY <2>1 DEF Box!boxVars
<1>14. CASE HloopRun
    <2>1. UNCHANGED <<arg, queue, handled>>
        BY <1>14 DEF HloopRun, sockets, reading, callers
    <2> QED
        BY <2>1 DEF Box!boxVars
<1>15. CASE ReadSockpair
    <2>1. UNCHANGED <<arg, queue, handled>>
        BY <1>15 DEF ReadSockpair, sockets, reading, callers
    <2> QED
        BY <2>1 DEF Box!boxVars
<1>16. CASE ReadSockpairStores
    <2>1. UNCHANGED <<arg, queue, handled>>
        BY <1>16 DEF ReadSockpairStores, sockets, reading, callers
    <2> QED
        BY <2>1 DEF Box!boxVars
<1>17. CASE LoopTop
    <2>1. UNCHANGED <<arg, queue, handled>>
        BY <1>17 DEF LoopTop, sockets, reading, callers
    <2> QED
        BY <2>1 DEF Box!boxVars
<1>18. CASE Poll
    <2>1. UNCHANGED <<arg, queue, handled>>
        BY <1>18 DEF Poll, sockets, reading, callers
    <2> QED
        BY <2>1 DEF Box!boxVars
<1>19. CASE Readable
    <2>1. UNCHANGED <<arg, queue, handled>>
        BY <1>19 DEF Readable, sockets, reading, callers
    <2> QED
        BY <2>1 DEF Box!boxVars
<1>20. CASE NioRead
    <2>1. UNCHANGED <<arg, queue, handled>>
        BY <1>20 DEF NioRead, sockets, reading, callers
    <2> QED
        BY <2>1 DEF Box!boxVars
<1>21. CASE TakeEvent
    <2>1. CASE queue = <<>>
        BY <1>21, <2>1 DEF TakeEvent, callers, Box!boxVars
    <2>2. CASE queue # <<>>
        BY <1>21, <2>2 DEF TakeEvent, callers, Box!BoxNext, Box!TakeFirst
    <2> QED
        BY <2>1, <2>2
<1>22. CASE CallbackReturns
    <2>1. UNCHANGED <<arg, queue, handled>>
        BY <1>22 DEF CallbackReturns, sockets, reading, callers
    <2> QED
        BY <2>1 DEF Box!boxVars
<1>23. CASE EventsDone
    <2>1. UNCHANGED <<arg, queue, handled>>
        BY <1>23 DEF EventsDone, sockets, reading, callers
    <2> QED
        BY <2>1 DEF Box!boxVars
<1>24. CASE Writable
    <2>1. UNCHANGED <<arg, queue, handled>>
        BY <1>24 DEF Writable, sockets, reading, callers
    <2> QED
        BY <2>1 DEF Box!boxVars
<1>25. CASE NioWrite
    <2>1. UNCHANGED <<arg, queue, handled>>
        BY <1>25 DEF NioWrite, sockets, reading, callers
    <2> QED
        BY <2>1 DEF Box!boxVars
<1>26. CASE PassDone
    <2>1. UNCHANGED <<arg, queue, handled>>
        BY <1>26 DEF PassDone, sockets, reading, callers
    <2> QED
        BY <2>1 DEF Box!boxVars
<1>27. CASE LoopExit
    <2>1. UNCHANGED <<arg, queue, handled>>
        BY <1>27 DEF LoopExit, sockets, reading, callers
    <2> QED
        BY <2>1 DEF Box!boxVars
<1>28. CASE HloopCleanup
    BY <1>28 DEF HloopCleanup, callers, Box!BoxNext, Box!ThrowAway
<1>29. CASE HvFree
    <2>1. UNCHANGED <<arg, queue, handled>>
        BY <1>29 DEF HvFree, sockets, reading, callers
    <2> QED
        BY <2>1 DEF Box!boxVars
<1>30. CASE FreeIos
    <2>1. UNCHANGED <<arg, queue, handled>>
        BY <1>30 DEF FreeIos, sockets, reading, callers
    <2> QED
        BY <2>1 DEF Box!boxVars
<1> QED
    BY <1>0, <1>1, <1>2, <1>3, <1>4, <1>5, <1>6, <1>7, <1>8, <1>9, <1>10,
       <1>11, <1>12, <1>13, <1>14, <1>15, <1>16, <1>17, <1>18, <1>19, <1>20,
       <1>21, <1>22, <1>23, <1>24, <1>25, <1>26, <1>27, <1>28, <1>29,
       <1>30 DEF
       Next, LoopStep, StartCall, FinishCall

(* hloop_post_event and sockpair_read_cb implement PostBox: every event    *)
(* posted enters the queue between the call and the return, and is popped  *)
(* at most once, in the order of entry.                                    *)
THEOREM MailboxImplemented == Spec => IsMailbox
<1>1. Init => Box!BoxInit
    BY DEF Init, Box!BoxInit
<1>2. TypeOK /\ ArgOK /\ [Next]_vars => [Box!BoxNext]_(Box!boxVars)
    BY BoxStep
<1> QED
    BY <1>1, <1>2, TypeCorrect, PTL DEF Spec, IsMailbox, Box!BoxSpec

=============================================================================
