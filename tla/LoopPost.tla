------------------------------- MODULE LoopPost -------------------------------
(***************************************************************************)
(* The calls that other threads make on a running hloop                    *)
(* (public/libhv/event/hloop.c): hloop_post_event and hloop_wakeup,        *)
(* hloop_stop, hloop_pause and hloop_resume, against the thread that is in *)
(* hloop_run.                                                              *)
(*                                                                         *)
(* A posted event goes into a queue under custom_events_mutex and one byte *)
(* goes into a socket pair; the loop reads bytes and pops one event per    *)
(* byte.  If the socket pair is full the byte waits in the write queue of  *)
(* the writing end, and the posting thread itself registers that hio_t     *)
(* with the loop.  The loop's own timers and ios are modelled by their     *)
(* number (see HLoopEvents for what happens to them); bytes are counted,   *)
(* since all are alike.                                                    *)
(***************************************************************************)
EXTENDS Integers, Sequences, FiniteSets

CONSTANTS
    Loop,       \* the thread that calls hloop_run
    Posters,    \* the other threads
    Creator,    \* the thread that called hloop_new
    Calls,      \* Calls[th]: how many calls th makes at most (bound)
    Ops,        \* Ops[th]: which calls th makes
    Users,      \* the timers and ios the application has put in the loop
    SockCap,    \* how many bytes the socket pair holds
    ReadBuf,    \* HLOOP_READ_BUFSIZE
    Flags,      \* the hloop_new flags
    NoThread, NoEvent

Threads == Posters \cup {Loop}

ASSUME ThreadAssumption ==
    /\ Loop \notin Posters
    /\ Creator \in Threads
    /\ NoThread \notin Threads

ASSUME CallAssumption ==
    /\ Calls \in [Threads -> Nat]
    /\ Ops \in [Threads -> SUBSET {"post", "wakeup", "stop", "pause", "resume",
                                   "release"}]
    /\ \A th \in Posters : "release" \notin Ops[th]

ASSUME SizeAssumption ==
    /\ Users \in Nat
    /\ SockCap \in Nat \ {0}
    /\ ReadBuf \in Nat \ {0}
    /\ Flags \subseteq {"AUTO_FREE", "QUIT_WHEN_NO_ACTIVE_EVENTS"}

(* An hevent_t: who posted it, with which of its calls, and its callback:  *)
(* hloop_stop_event_cb, one of the application, or none (hloop_wakeup).    *)
Event == [from : Threads, call : Nat, cb : {"stop", "user", "none"}]

ASSUME NoEventAssumption == NoEvent \notin Event

VARIABLES
    status,     \* loop->status
    tid,        \* loop->tid
    lpc,        \* where the loop's thread is
    mutex,      \* the holder of loop->custom_events_mutex
    queue,      \* loop->custom_events
    sock,       \* bytes in the socket pair
    wq,         \* bytes in the write queue of sockpair[0]
    wactive,    \* is the hio_t of sockpair[0] an active event of the loop?
    wevents,    \* is it registered for HV_WRITE?
    revents,    \* the ends that the last poll found ready: "R", "W"
    buf,        \* bytes read for which no event has been popped
    full,       \* did the last read fill the buffer?
    nactives,   \* loop->nactives
    nuser,      \* how many of the application's events are active
    ppc,        \* ppc[th]: where th is in its call
    arg,        \* arg[th]: the event that th is posting
    reg,        \* reg[th]: loop->nactives as th has loaded it
    calls,      \* calls[th]: how many calls th has made
    handled,    \* the events popped, in that order
    asked       \* has hloop_stop been called and the run not ended yet?

sockets == <<sock, wq, wactive, wevents>>
reading == <<revents, buf, full>>
callers == <<ppc, arg, reg, calls>>
vars == <<status, tid, lpc, mutex, queue, sockets, reading, nactives, nuser,
          callers, handled, asked>>

-----------------------------------------------------------------------------
Init ==
    /\ status = "STOP" /\ tid = Creator /\ lpc = "created"
    /\ mutex = NoThread /\ queue = <<>>
    /\ sock = 0 /\ wq = 0 /\ wactive = FALSE /\ wevents = FALSE
    /\ revents = {} /\ buf = 0 /\ full = FALSE
    /\ nactives = Users /\ nuser = Users
    /\ ppc = [th \in Threads |-> "idle"]
    /\ arg = [th \in Threads |-> NoEvent]
    /\ reg = [th \in Threads |-> 0]
    /\ calls = [th \in Threads |-> 0]
    /\ handled = <<>>
    /\ asked = FALSE

(* hloop_cleanup has not yet closed the socket pair.                       *)
SockpairOpen == lpc \notin {"closed", "freed"}

RunOver == lpc \in {"exited", "cleanup", "ios_freed", "closed", "freed"}

(***************************************************************************)
(* The calls.  Any thread calls at any moment before the loop has freed    *)
(* itself; the loop's own thread calls from a callback.  A call that is    *)
(* under way when the loop frees itself is undefined from there on, and so *)
(* is a write to the socket pair once its hio_t has been freed: these      *)
(* steps are disabled, see NoCallOutlivesLoop.                             *)
(***************************************************************************)
MayCall(th, op) ==
    /\ op \in Ops[th] /\ calls[th] < Calls[th]
    /\ ppc[th] = "idle"
    /\ IF th = Loop THEN lpc = "callback" ELSE lpc # "freed"

Goto(th, where) == ppc' = [ppc EXCEPT ![th] = where]
CountCall(th) == calls' = [calls EXCEPT ![th] = @ + 1]

NewEvent(th, cb) == [from |-> th, call |-> calls'[th], cb |-> cb]

(* hloop_post_event up to the lock; it returns at once without a sockpair. *)
StartPost(th, cb) ==
    IF SockpairOpen
      THEN /\ Goto(th, "lock")
           /\ arg' = [arg EXCEPT ![th] = NewEvent(th, cb)]
      ELSE /\ Goto(th, "idle")
           /\ UNCHANGED arg

HloopPostEvent(th) ==
    /\ MayCall(th, "post")
    /\ CountCall(th)
    /\ StartPost(th, "user")
    /\ UNCHANGED <<status, tid, lpc, mutex, queue, sockets, reading, nactives,
                   nuser, reg, handled, asked>>

HloopWakeup(th) ==
    /\ MayCall(th, "wakeup")
    /\ CountCall(th)
    /\ StartPost(th, "none")
    /\ UNCHANGED <<status, tid, lpc, mutex, queue, sockets, reading, nactives,
                   nuser, reg, handled, asked>>

LockEvents(th) ==
    /\ ppc[th] = "lock" /\ SockpairOpen
    /\ mutex = NoThread
    /\ mutex' = th
    /\ Goto(th, "write")
    /\ UNCHANGED <<status, tid, lpc, queue, sockets, reading, nactives, nuser,
                   arg, reg, calls, handled, asked>>

(* Mutant: a byte that the socket pair does not take at once is dropped.   *)
HioWriteDrops(th) ==
    /\ ppc[th] = "write" /\ SockpairOpen /\ lpc # "ios_freed"
    /\ sock' = IF sock < SockCap THEN sock + 1 ELSE sock
    /\ Goto(th, "push")
    /\ UNCHANGED <<status, tid, lpc, mutex, queue, wq, wactive, wevents,
                   reading, nactives, nuser, arg, reg, calls, handled, asked>>

(* hwrite of one byte.  With bytes waiting already it joins them; if the   *)
(* socket pair is full, hio_add makes the writing end an active event.     *)
HioWrite(th) ==
    /\ ppc[th] = "write" /\ SockpairOpen /\ lpc # "ios_freed"
    /\ \/ /\ wq = 0 /\ sock < SockCap
          /\ sock' = sock + 1
          /\ Goto(th, "push")
          /\ UNCHANGED <<wq, wevents, reg>>
       \/ /\ wq = 0 /\ sock >= SockCap /\ wactive
          /\ wq' = 1 /\ wevents' = TRUE
          /\ Goto(th, "push")
          /\ UNCHANGED <<sock, reg>>
       \/ /\ wq = 0 /\ sock >= SockCap /\ ~wactive
          /\ reg' = [reg EXCEPT ![th] = nactives]
          /\ Goto(th, "hio_add")
          /\ UNCHANGED <<sock, wq, wevents>>
       \/ /\ wq > 0
          /\ wq' = wq + 1
          /\ Goto(th, "push")
          /\ UNCHANGED <<sock, wevents, reg>>
    /\ UNCHANGED <<status, tid, lpc, mutex, queue, wactive, reading, nactives,
                   nuser, arg, calls, handled, asked>>

(* EVENT_ADD's ++nactives is a load and a store, and the loop's thread     *)
(* may change the counter in between.                                      *)
HioAddStores(th) ==
    /\ ppc[th] = "hio_add" /\ SockpairOpen /\ lpc # "ios_freed"
    /\ nactives' = reg[th] + 1
    /\ wactive' = TRUE /\ wevents' = TRUE /\ wq' = 1
    /\ Goto(th, "push")
    /\ UNCHANGED <<status, tid, lpc, mutex, queue, sock, reading, nuser, arg,
                   reg, calls, handled, asked>>

(* Mutant: the event goes to the front, as if its priority mattered.       *)
PushEventFirst(th) ==
    /\ ppc[th] = "push" /\ SockpairOpen
    /\ queue' = <<arg[th]>> \o queue
    /\ arg' = [arg EXCEPT ![th] = NoEvent]
    /\ mutex' = NoThread
    /\ Goto(th, "idle")
    /\ UNCHANGED <<status, tid, lpc, sockets, reading, nactives, nuser, reg,
                   calls, handled, asked>>

PushEvent(th) ==
    /\ ppc[th] = "push" /\ SockpairOpen
    /\ queue' = Append(queue, arg[th])
    /\ arg' = [arg EXCEPT ![th] = NoEvent]
    /\ mutex' = NoThread
    /\ Goto(th, "idle")
    /\ UNCHANGED <<status, tid, lpc, sockets, reading, nactives, nuser, reg,
                   calls, handled, asked>>

HloopStop(th) ==
    /\ MayCall(th, "stop")
    /\ CountCall(th)
    /\ status' = "STOP"
    /\ asked' = (asked \/ ~RunOver)
    /\ Goto(th, "stop")
    /\ UNCHANGED <<tid, lpc, mutex, queue, sockets, reading, nactives, nuser,
                   arg, reg, handled>>

(* Mutant: the stop event is not posted, the flag is relied upon.          *)
HloopStopFlagOnly(th) ==
    /\ ppc[th] = "stop" /\ lpc # "freed"
    /\ Goto(th, "idle")
    /\ UNCHANGED <<status, tid, lpc, mutex, queue, sockets, reading, nactives,
                   nuser, arg, reg, calls, handled, asked>>

(* hloop_stop goes on: loop->tid decides whether it posts an event as well.*)
HloopStopPosts(th) ==
    /\ ppc[th] = "stop" /\ lpc # "freed"
    /\ UNCHANGED calls
    /\ IF th = tid THEN Goto(th, "idle") /\ UNCHANGED arg
                   ELSE StartPost(th, "stop")
    /\ UNCHANGED <<status, tid, lpc, mutex, queue, sockets, reading, nactives,
                   nuser, reg, handled, asked>>

(* hloop_pause and hloop_resume test the status and then write it.         *)
HloopPause(th) ==
    /\ MayCall(th, "pause") /\ status = "RUNNING"
    /\ CountCall(th)
    /\ Goto(th, "pause")
    /\ UNCHANGED <<status, tid, lpc, mutex, queue, sockets, reading, nactives,
                   nuser, arg, reg, handled, asked>>

HloopResume(th) ==
    /\ MayCall(th, "resume") /\ status = "PAUSE"
    /\ CountCall(th)
    /\ Goto(th, "resume")
    /\ UNCHANGED <<status, tid, lpc, mutex, queue, sockets, reading, nactives,
                   nuser, arg, reg, handled, asked>>

SetStatus(th) ==
    /\ ppc[th] \in {"pause", "resume"} /\ lpc # "freed"
    /\ status' = IF ppc[th] = "pause" THEN "PAUSE" ELSE "RUNNING"
    /\ Goto(th, "idle")
    /\ UNCHANGED <<tid, lpc, mutex, queue, sockets, reading, nactives, nuser,
                   arg, reg, calls, handled, asked>>

(* A callback gives up one of the application's events (htimer_del,        *)
(* hidle_del or hio_del): --nactives, again a load and a store.            *)
Release(th) ==
    /\ MayCall(th, "release") /\ nuser > 0
    /\ CountCall(th)
    /\ reg' = [reg EXCEPT ![th] = nactives]
    /\ Goto(th, "release")
    /\ UNCHANGED <<status, tid, lpc, mutex, queue, sockets, reading, nactives,
                   nuser, arg, handled, asked>>

(* Mutant: the event goes, the count stays.                                *)
ReleaseUncounted(th) ==
    /\ ppc[th] = "release"
    /\ nuser' = nuser - 1
    /\ Goto(th, "idle")
    /\ UNCHANGED <<status, tid, lpc, mutex, queue, sockets, reading, nactives,
                   arg, reg, calls, handled, asked>>

ReleaseStores(th) ==
    /\ ppc[th] = "release"
    /\ nactives' = reg[th] - 1
    /\ nuser' = nuser - 1
    /\ Goto(th, "idle")
    /\ UNCHANGED <<status, tid, lpc, mutex, queue, sockets, reading, arg, reg,
                   calls, handled, asked>>

StartCall(th) ==
    \/ HloopPostEvent(th) \/ HloopWakeup(th) \/ HloopStop(th)
    \/ HloopPause(th) \/ HloopResume(th) \/ Release(th)

FinishCall(th) ==
    \/ LockEvents(th) \/ HioWrite(th) \/ HioAddStores(th) \/ PushEvent(th)
    \/ HloopStopPosts(th) \/ SetStatus(th) \/ ReleaseStores(th)

-----------------------------------------------------------------------------
(***************************************************************************)
(* The thread in hloop_run.                                                *)
(***************************************************************************)
HloopRun ==
    /\ lpc = "created"
    /\ status' = "RUNNING"
    /\ lpc' = "started"
    /\ UNCHANGED <<tid, mutex, queue, sockets, reading, nactives, nuser,
                   callers, handled, asked>>

(* loop->tid, then hread of the reading end: ++nactives.                   *)
ReadSockpair ==
    /\ lpc = "started"
    /\ tid' = Loop
    /\ reg' = [reg EXCEPT ![Loop] = nactives]
    /\ lpc' = "hread"
    /\ UNCHANGED <<status, mutex, queue, sockets, reading, nactives, nuser,
                   ppc, arg, calls, handled, asked>>

ReadSockpairStores ==
    /\ lpc = "hread"
    /\ nactives' = reg[Loop] + 1
    /\ lpc' = "top"
    /\ UNCHANGED <<status, tid, mutex, queue, sockets, reading, nuser, callers,
                   handled, asked>>

(* loop->intern_nevents is 1 from here on.                                 *)
NoActiveEvents == nactives <= 1 /\ "QUIT_WHEN_NO_ACTIVE_EVENTS" \in Flags

(* The head of the while loop.  While paused the loop sleeps and looks     *)
(* again, which changes nothing.                                           *)
LoopTop ==
    /\ lpc = "top"
    /\ \/ /\ status = "STOP" \/ (status = "RUNNING" /\ NoActiveEvents)
          /\ lpc' = "exiting"
       \/ /\ status = "RUNNING" /\ ~NoActiveEvents
          /\ lpc' = "poll"
    /\ UNCHANGED <<status, tid, mutex, queue, sockets, reading, nactives,
                   nuser, callers, handled, asked>>

(* iowatcher_poll_events, level triggered.  It times out after at most     *)
(* HLOOP_MAX_BLOCK_TIME, so it always returns.                             *)
Poll ==
    /\ lpc = "poll"
    /\ revents' = (IF sock > 0 THEN {"R"} ELSE {}) \cup
                  (IF wevents /\ sock < SockCap THEN {"W"} ELSE {})
    /\ lpc' = IF status = "STOP" THEN "top" ELSE "pass"
    /\ UNCHANGED <<status, tid, mutex, queue, sockets, buf, full, nactives,
                   nuser, callers, handled, asked>>

Readable ==
    /\ lpc = "pass" /\ "R" \in revents
    /\ revents' = revents \ {"R"}
    /\ lpc' = "read"
    /\ UNCHANGED <<status, tid, mutex, queue, sockets, buf, full, nactives,
                   nuser, callers, handled, asked>>

(* nio_read: one read, up to a full buffer; nothing there ends it.         *)
NioRead ==
    /\ lpc = "read"
    /\ LET nread == IF sock < ReadBuf THEN sock ELSE ReadBuf IN
       /\ sock' = sock - nread
       /\ buf' = nread
       /\ full' = (nread = ReadBuf)
    /\ lpc' = "events"
    /\ UNCHANGED <<status, tid, mutex, queue, wq, wactive, wevents, revents,
                   nactives, nuser, callers, handled, asked>>

(* Mutant: one event per read, however many bytes came.                    *)
TakeEventOnce ==
    /\ lpc = "events" /\ buf > 0 /\ mutex = NoThread
    /\ queue # <<>>
    /\ queue' = Tail(queue)
    /\ handled' = Append(handled, Head(queue))
    /\ buf' = 0
    /\ status' = IF Head(queue).cb = "stop" THEN "STOP" ELSE status
    /\ lpc' = IF Head(queue).cb = "user" THEN "callback" ELSE "events"
    /\ UNCHANGED <<tid, mutex, sockets, revents, full, nactives, nuser,
                   callers, asked>>

(* sockpair_read_cb, one turn of its for loop: the event is copied and     *)
(* popped under the mutex and its callback runs after the unlock.          *)
TakeEvent ==
    /\ lpc = "events" /\ buf > 0 /\ mutex = NoThread
    /\ IF queue = <<>>
         THEN /\ buf' = 0
              /\ UNCHANGED <<queue, handled, status, lpc>>
         ELSE /\ queue' = Tail(queue)
              /\ handled' = Append(handled, Head(queue))
              /\ buf' = buf - 1
              /\ status' = IF Head(queue).cb = "stop" THEN "STOP" ELSE status
              /\ lpc' = IF Head(queue).cb = "user" THEN "callback" ELSE "events"
    /\ UNCHANGED <<tid, mutex, sockets, revents, full, nactives, nuser,
                   callers, asked>>

CallbackReturns ==
    /\ lpc = "callback" /\ ppc[Loop] = "idle"
    /\ lpc' = "events"
    /\ UNCHANGED <<status, tid, mutex, queue, sockets, reading, nactives,
                   nuser, callers, handled, asked>>

(* Back in nio_read, which reads again after a full buffer.                *)
EventsDone ==
    /\ lpc = "events" /\ buf = 0
    /\ lpc' = IF full THEN "read" ELSE "pass"
    /\ UNCHANGED <<status, tid, mutex, queue, sockets, reading, nactives,
                   nuser, callers, handled, asked>>

(* Does a posting thread hold the write_mutex of sockpair[0]?              *)
WriteLocked == \E th \in Threads : ppc[th] = "hio_add"

(* hio_handle_events for HV_WRITE, first half: nothing to write any more,  *)
(* so HV_WRITE goes.  There is no hio_del, so the hio_t stays active.      *)
Writable ==
    /\ lpc = "pass" /\ "W" \in revents
    /\ ~WriteLocked
    /\ revents' = revents \ {"W"}
    /\ wevents' = (wevents /\ wq > 0)
    /\ lpc' = "nio_write"
    /\ UNCHANGED <<status, tid, mutex, queue, sock, wq, wactive, buf, full,
                   nactives, nuser, callers, handled, asked>>

(* Second half, nio_write: as much as the socket pair takes.               *)
NioWrite ==
    /\ lpc = "nio_write"
    /\ ~WriteLocked
    /\ LET n == IF wq < SockCap - sock THEN wq ELSE SockCap - sock IN
       /\ sock' = sock + n
       /\ wq' = wq - n
    /\ lpc' = "pass"
    /\ UNCHANGED <<status, tid, mutex, queue, wactive, wevents, reading,
                   nactives, nuser, callers, handled, asked>>

PassDone ==
    /\ lpc = "pass" /\ revents = {}
    /\ lpc' = "top"
    /\ UNCHANGED <<status, tid, mutex, queue, sockets, reading, nactives,
                   nuser, callers, handled, asked>>

LoopExit ==
    /\ lpc = "exiting"
    /\ status' = "STOP"
    /\ asked' = FALSE
    /\ lpc' = IF "AUTO_FREE" \in Flags THEN "cleanup" ELSE "exited"
    /\ UNCHANGED <<tid, mutex, queue, sockets, reading, nactives, nuser,
                   callers, handled>>

(* hloop_cleanup frees the ios first, those of the socket pair and their   *)
(* write queue included, and without the mutex.                            *)
FreeIos ==
    /\ lpc = "cleanup"
    /\ lpc' = "ios_freed"
    /\ UNCHANGED <<status, tid, mutex, queue, sockets, reading, nactives,
                   nuser, callers, handled, asked>>

(* Then the socket pair is closed and the queue dropped, under the mutex.  *)
HloopCleanup ==
    /\ lpc = "ios_freed" /\ mutex = NoThread
    /\ queue' = <<>> /\ sock' = 0 /\ wq' = 0
    /\ lpc' = "closed"
    /\ UNCHANGED <<status, tid, mutex, wactive, wevents, reading, nactives,
                   nuser, callers, handled, asked>>

HvFree ==
    /\ lpc = "closed"
    /\ lpc' = "freed"
    /\ UNCHANGED <<status, tid, mutex, queue, sockets, reading, nactives,
                   nuser, callers, handled, asked>>

LoopStep ==
    \/ HloopRun \/ ReadSockpair \/ ReadSockpairStores
    \/ LoopTop \/ Poll \/ Readable \/ NioRead \/ TakeEvent \/ CallbackReturns
    \/ EventsDone \/ Writable \/ NioWrite \/ PassDone
    \/ LoopExit \/ FreeIos \/ HloopCleanup \/ HvFree

Next ==
    \/ LoopStep
    \/ \E th \in Threads : StartCall(th)
    \/ \E th \in Threads : FinishCall(th)

Spec == Init /\ [][Next]_vars

(***************************************************************************)
(* The loop's thread and a thread in the middle of a call are scheduled;   *)
(* nothing makes the application call, and a paused loop is not promised   *)
(* to be resumed.  The calls are bounded, so that nobody holds the mutex   *)
(* again and again.                                                        *)
(***************************************************************************)
FairSpec ==
    /\ Spec
    /\ WF_vars(LoopStep)
    /\ \A th \in Threads : WF_vars(FinishCall(th))

-----------------------------------------------------------------------------
(* Every field has its type (hloop_s, hloop.c and hevent.h).               *)
TypeOK ==
    /\ status \in {"STOP", "RUNNING", "PAUSE"}
    /\ tid \in Threads
    /\ lpc \in {"created", "started", "hread", "top", "poll", "pass", "read",
                "events", "callback", "nio_write", "exiting", "exited",
                "cleanup", "ios_freed", "closed", "freed"}
    /\ mutex \in Threads \cup {NoThread}
    /\ queue \in Seq(Event) /\ handled \in Seq(Event)
    /\ sock \in Nat /\ wq \in Nat /\ buf \in Nat
    /\ wactive \in BOOLEAN /\ wevents \in BOOLEAN /\ full \in BOOLEAN
    /\ revents \subseteq {"R", "W"}
    /\ nactives \in Int /\ nuser \in Int
    /\ ppc \in [Threads -> {"idle", "lock", "write", "hio_add", "push", "stop",
                            "pause", "resume", "release"}]
    /\ arg \in [Threads -> Event \cup {NoEvent}]
    /\ reg \in [Threads -> Int]
    /\ calls \in [Threads -> Nat]
    /\ asked \in BOOLEAN

(* hloop_post_event is a mailbox: between call and return the event enters *)
(* the queue, and sockpair_read_cb takes each event once, oldest first.    *)
Box == INSTANCE PostBox WITH
    Message <- Event, NoMessage <- NoEvent,
    posting <- arg, box <- queue, taken <- handled

IsMailbox == Box!BoxSpec

(* The loop pops one event per byte without counting the events: there is  *)
(* a byte somewhere (in the socket pair, the write queue or the loop's     *)
(* buffer) for every event queued, and one more only while a thread is     *)
(* between hwrite and push_back (hloop.c:229-230).                         *)
ByteForEveryEvent ==
    sock + wq + buf =
      Len(queue) + Cardinality({th \in Threads : ppc[th] = "push"
                                                 /\ SockpairOpen})

(* Bytes in the write queue are never forgotten: the poll is looking for   *)
(* HV_WRITE as long as there are any (nio.c:410-414 against 528-548).      *)
WriteArmed == wq > 0 /\ SockpairOpen => wevents

(* No call is under way when an HLOOP_FLAG_AUTO_FREE loop frees itself     *)
(* (hloop.c:394-397 against hloop_stop's read of loop->tid, 412-421).      *)
NoCallOutlivesLoop == lpc = "freed" => \A th \in Threads : ppc[th] = "idle"

(* hloop_post_event is thread-safe (hloop.h:149): with no thread inside an *)
(* update, nactives is the number of active events.                        *)
ActivesExact ==
    (/\ \A th \in Threads : ppc[th] \notin {"hio_add", "release"}
     /\ lpc \notin {"created", "started", "hread"})
    => nactives = 1 + nuser + (IF wactive THEN 1 ELSE 0)

(* Every event posted is popped, unless the run ends or is paused first    *)
(* (sockpair_read_cb and nio_write).                                       *)
PostServed ==
    \A th \in Threads : \A n \in 1..Calls[th] :
      (\E i \in 1..Len(queue) : queue[i].from = th /\ queue[i].call = n)
      ~> (\/ \E i \in 1..Len(handled) :
               handled[i].from = th /\ handled[i].call = n
          \/ RunOver \/ status = "PAUSE")

(* After hloop_stop the run ends (hloop.h:117-119), whichever thread calls *)
(* it, even if hloop_run has not got round to setting its status yet,      *)
(* unless a pause or resume that has read the status overwrites it.        *)
StopTakesEffect == asked ~> (~asked \/ RunOver)

StopUnlessPaused ==
    [](\A th \in Threads : ppc[th] \notin {"pause", "resume"})
      => StopTakesEffect

(* With HLOOP_FLAG_QUIT_WHEN_NO_ACTIVE_EVENTS, hloop_run returns once the  *)
(* application has no active event left (hloop.h:115).                     *)
QuitsWhenIdle == nuser = 0 ~> (RunOver \/ status = "PAUSE")

(* And it does as long as the socket pair has not once been full: until    *)
(* then the writing end has never been made an active event (hio_write).   *)
QuitsUnlessFull == [](~wactive) => QuitsWhenIdle

=============================================================================
