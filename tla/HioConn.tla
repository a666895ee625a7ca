------------------------------- MODULE HioConn -------------------------------
(***************************************************************************)
(* The life of one hio_t: connecting or accepted, reading, writing with a  *)
(* write queue, closing at once or later, and its descriptor being used    *)
(* again for the next connection (public/libhv/event/nio.c and the hio     *)
(* part of hloop.c).                                                       *)
(*                                                                         *)
(* All of it runs in the loop's thread, so what interleaves are callbacks: *)
(* each handler is cut where it calls the application, which may there     *)
(* call hio_write, hio_close and the rest on the same hio_t.  stack holds  *)
(* the handlers and callbacks that have not returned.  Another thread      *)
(* takes part through hio_close only, which posts an event with the id of  *)
(* the hio_t (LoopPost models the posting).                                *)
(*                                                                         *)
(* The bytes an application writes on one connection are numbered 1, 2, .. *)
(* in the order of its hio_write calls.  A timer is armed or not; an armed *)
(* one may go off at any moment.                                           *)
(***************************************************************************)
EXTENDS Integers, Sequences

CONSTANTS
    Ops,        \* the calls the application makes
    InWriteCb,  \* those among them that it makes from a write_cb
    Lens,       \* the lengths it passes to hio_write
    MaxBytes,   \* how many bytes it writes on one connection (bound)
    MaxIds,     \* how many connections use the descriptor (bound)
    MaxDepth,   \* how deep handlers and callbacks nest (bound)
    SendBuf,    \* the size of the socket's send buffer
    ReadBuf,    \* the size of the read buffer
    QueueInit   \* the first maxsize of the write queue: 4 in the code

ASSUME OptionAssumption ==
    /\ Ops \subseteq {"hio_write", "hio_close", "hio_read_stop", "hio_read",
                      "hio_connect", "keepalive", "foreign_close"}
    /\ InWriteCb \subseteq {"hio_write", "hio_close"}

ASSUME BoundAssumption ==
    /\ Lens \subseteq Nat \ {0}
    /\ MaxBytes \in Nat /\ MaxIds \in Nat \ {0} /\ MaxDepth \in Nat
    /\ SendBuf \in Nat \ {0} /\ ReadBuf \in Nat \ {0} /\ QueueInit \in Nat \ {0}

VARIABLES
    io,         \* the fields of the hio_t
    net,        \* its descriptor, as the kernel has it
    stack,      \* the handlers and callbacks that are running
    pend,       \* is the hio_t in the loop's pending list?
    written,    \* bytes passed to hio_write on this connection
    wire,       \* the bytes the kernel has taken, in order
    asks,       \* calls of hio_close on this connection while it was open
    closes,     \* closes[i]: calls of close_cb for the connection with id i
    foreign,    \* the connection another thread's hio_close is closing, or 0
    posted      \* the hio_close events in the loop's queue

app == <<written, wire, asks, closes>>
others == <<foreign, posted>>
vars == <<io, net, stack, pend, app, others>>

Ids == 1..MaxIds
Lesser(a, b) == IF a < b THEN a ELSE b

-----------------------------------------------------------------------------
(* The stack.  lo..hi are the bytes that hio_write has still to queue, or  *)
(* that nio_write has just written; qid is the array that nio_write's pbuf *)
(* points into.                                                            *)
Frame(at) == [at |-> at, lo |-> 1, hi |-> 0, qid |-> 0]
Top == stack[Len(stack)]
Below == SubSeq(stack, 1, Len(stack) - 1)
At(where) == stack # <<>> /\ Top.at = where

(* Is the application running, so that it may make the call op?  In        *)
(* other_cb it runs on behalf of some other event of the loop.             *)
MayCall(op) ==
    /\ op \in Ops /\ stack # <<>> /\ Len(stack) < MaxDepth
    /\ \/ Top.at \in {"accept_cb", "connect_cb", "read_cb", "close_cb",
                      "other_cb"}
       \/ Top.at \in {"write_cb", "queue_write_cb"} /\ op \in InWriteCb

-----------------------------------------------------------------------------
(* The fields of the hio_t.  The array of the write queue is known by      *)
(* qid, which changes when the entries in it move or are freed.            *)
HioReady(c) ==
    [c EXCEPT !.ready = TRUE, !.closed = FALSE, !.close = FALSE,
              !.connect = FALSE, !.error = FALSE, !.events = {},
              !.revents = {}, !.timers = {}, !.id = @ + 1]

HioAdd(c, e) ==
    LET r == IF c.ready THEN c ELSE HioReady(c)
    IN  [r EXCEPT !.active = TRUE, !.events = @ \cup {e}]

HioDel(c, es) ==
    IF c.active
      THEN [c EXCEPT !.events = @ \ es, !.active = c.events \ es # {}]
      ELSE c

HioDone(c) ==
    IF c.ready
      THEN [HioDel(c, {"R", "W"}) EXCEPT !.ready = FALSE, !.queue = <<>>,
                !.qmax = 0, !.qoff = 0, !.qid = @ + 1]
      ELSE c

(* write_queue_push_back, and write_queue_init before the first one.       *)
Push(c, lo, hi) ==
    LET max == IF c.qmax = 0 THEN QueueInit ELSE c.qmax
        size == Len(c.queue)
        doubled == size = max
        shifted == ~doubled /\ c.qoff + size = max
    IN  [c EXCEPT !.queue = Append(@, <<lo, hi>>),
                  !.qmax = IF doubled THEN 2 * max ELSE max,
                  !.qoff = IF shifted THEN 0 ELSE @,
                  !.qid = IF doubled \/ shifted \/ c.qmax = 0 THEN @ + 1 ELSE @]

PopFront(c) ==
    [c EXCEPT !.queue = Tail(@), !.qoff = IF @ + 1 = c.qmax THEN 0 ELSE @ + 1]

(* What a read or a write on the descriptor finds.                         *)
Broken == net.fd = "closed" \/ net.err
Room == IF net.fd = "open" THEN SendBuf - net.sent ELSE 0

(* The kernel takes bytes lo, lo + 1, .. , lo + n - 1.                     *)
Deliver(lo, n) ==
    /\ wire' = wire \o [i \in 1..n |-> lo + i - 1]
    /\ net' = [net EXCEPT !.sent = @ + n]

-----------------------------------------------------------------------------
Init ==
    /\ io = [ready |-> FALSE, closed |-> FALSE, close |-> FALSE,
             connect |-> FALSE, error |-> FALSE, active |-> FALSE, id |-> 0,
             events |-> {}, revents |-> {}, timers |-> {},
             queue |-> <<>>, qmax |-> 0, qoff |-> 0, qid |-> 0]
    /\ net = [fd |-> "closed", sent |-> 0, avail |-> 0, eof |-> FALSE,
              err |-> FALSE]
    /\ stack = <<>> /\ pend = FALSE
    /\ written = 0 /\ wire = <<>> /\ asks = 0
    /\ closes = [i \in Ids |-> 0]
    /\ foreign = 0 /\ posted = <<>>

(* hio_close past the test for an earlier one: hio_done, the timers, and   *)
(* close_cb is called.                                                     *)
CloseNow(c, frames) ==
    /\ io' = [HioDone([c EXCEPT !.closed = TRUE]) EXCEPT !.timers = {}]
    /\ closes' = [closes EXCEPT ![c.id] = @ + 1]
    /\ stack' = Append(frames, Frame("close_cb"))

(* Mutant: a close_timeout is not set up for a close that is put off.      *)
HioCloseUntimed(c, frames) ==
    IF c.closed
      THEN io' = c /\ stack' = frames /\ UNCHANGED closes
    ELSE IF c.queue # <<>> /\ ~c.error /\ ~c.close
      THEN /\ io' = [c EXCEPT !.close = TRUE]
           /\ stack' = frames
           /\ UNCHANGED closes
    ELSE CloseNow(c, frames)

(* Mutant: bytes still queued do not put the close off.                    *)
HioCloseAbrupt(c, frames) ==
    IF c.closed THEN io' = c /\ stack' = frames /\ UNCHANGED closes
    ELSE CloseNow(c, frames)

(* Mutant: an earlier close is not noticed.                                *)
HioCloseAgain(c, frames) ==
    IF c.queue # <<>> /\ ~c.error /\ ~c.close
      THEN /\ io' = [c EXCEPT !.close = TRUE, !.timers = @ \cup {"close"}]
           /\ stack' = frames
           /\ UNCHANGED closes
      ELSE CloseNow(c, frames)

(* hio_close in the loop's thread, returning to frames: with bytes queued  *)
(* the first one without an error only makes a note of it.                 *)
HioClose(c, frames) ==
    IF c.closed
      THEN io' = c /\ stack' = frames /\ UNCHANGED closes
    ELSE IF c.queue # <<>> /\ ~c.error /\ ~c.close
      THEN /\ io' = [c EXCEPT !.close = TRUE, !.timers = @ \cup {"close"}]
           /\ stack' = frames
           /\ UNCHANGED closes
    ELSE CloseNow(c, frames)

Asked == asks' = IF io.closed THEN asks ELSE asks + 1

-----------------------------------------------------------------------------
(***************************************************************************)
(* The application.                                                        *)
(***************************************************************************)
NewConnection(fd) ==
    /\ net.fd = "closed" /\ ~io.ready /\ io.id < MaxIds
    /\ net' = [fd |-> fd, sent |-> 0, avail |-> 0, eof |-> FALSE, err |-> FALSE]
    /\ written' = 0 /\ wire' = <<>> /\ asks' = 0
    /\ UNCHANGED <<pend, others>>

(* nio_accept on a listening hio_t, one accepted connection.               *)
NioAccept ==
    /\ stack = <<>>
    /\ NewConnection("open")
    /\ io' = HioReady(io)
    /\ stack' = <<Frame("accept_cb")>>
    /\ UNCHANGED closes

(* hio_create and hio_connect: under way, done at once, or refused at once.*)
HioConnect ==
    /\ MayCall("hio_connect")
    /\ \/ /\ NewConnection("connecting")
          /\ io' = HioAdd([HioReady(io) EXCEPT !.connect = TRUE,
                                               !.timers = {"connect"}], "W")
          /\ UNCHANGED <<stack, closes>>
       \/ /\ NewConnection("open")
          /\ io' = HioReady(io)
          /\ stack' = Append(stack, Frame("connect_cb"))
          /\ UNCHANGED closes
       \/ /\ NewConnection("open")
          /\ CloseNow(HioReady(io), stack)

(* hio_read and hio_del(io, HV_READ), known as hio_read_start and _stop.   *)
HioRead ==
    /\ MayCall("hio_read") /\ io.ready /\ ~io.closed
    /\ io' = HioAdd(io, "R")
    /\ UNCHANGED <<net, stack, pend, app, others>>

HioReadStop ==
    /\ MayCall("hio_read_stop") /\ io.active
    /\ io' = HioDel(io, {"R"})
    /\ UNCHANGED <<net, stack, pend, app, others>>

(* hio_set_keepalive_timeout: a time-out of 0 takes the timer away.        *)
HioSetKeepaliveTimeout ==
    /\ MayCall("keepalive") /\ io.ready
    /\ \/ io' = [io EXCEPT !.timers = @ \cup {"keepalive"}]
       \/ /\ "keepalive" \in io.timers
          /\ io' = [io EXCEPT !.timers = @ \ {"keepalive"}]
    /\ UNCHANGED <<net, stack, pend, app, others>>

(* hio_write(io, buf, len): if nothing is queued the kernel is tried       *)
(* first, and after a write, even a short one, write_cb is called.         *)
HioWrite(len) ==
    /\ MayCall("hio_write") /\ io.ready /\ ~io.closed
    /\ written + len <= MaxBytes
    /\ written' = written + len
    /\ LET lo == written + 1
           hi == written + len
           n == Lesser(len, Room)
       IN
       \/ /\ io.queue # <<>>
          /\ io' = Push(io, lo, hi)
          /\ UNCHANGED <<net, stack, wire, asks, closes>>
       \/ /\ io.queue = <<>> /\ Broken
          /\ HioClose([io EXCEPT !.error = TRUE], stack)
          /\ Asked
          /\ UNCHANGED <<net, wire>>
       \/ /\ io.queue = <<>> /\ ~Broken /\ n = 0
          /\ io' = Push(HioAdd(io, "W"), lo, hi)
          /\ UNCHANGED <<net, stack, wire, asks, closes>>
       \/ /\ io.queue = <<>> /\ ~Broken /\ n > 0
          /\ Deliver(lo, n)
          /\ stack' = Append(stack, [Frame("write_cb") EXCEPT !.lo = lo + n,
                                                              !.hi = hi])
          /\ UNCHANGED <<io, asks, closes>>
    /\ UNCHANGED <<pend, others>>

(* hio_write after write_cb: the rest is queued.                           *)
WriteCbReturns ==
    /\ At("write_cb")
    /\ io' = IF Top.lo > Top.hi THEN io
             ELSE Push(HioAdd(io, "W"), Top.lo, Top.hi)
    /\ stack' = Below
    /\ UNCHANGED <<net, pend, app, others>>

AppClose ==
    /\ MayCall("hio_close") /\ io.ready /\ ~io.closed
    /\ HioClose(io, stack)
    /\ Asked
    /\ UNCHANGED <<net, pend, written, wire, others>>

(* hio_close after close_cb: closesocket.                                  *)
CloseCbReturns ==
    /\ At("close_cb")
    /\ net' = [net EXCEPT !.fd = "closed"]
    /\ stack' = Below
    /\ UNCHANGED <<io, pend, app, others>>

OtherCbReturns ==
    /\ stack # <<>>
    /\ Top.at \in {"accept_cb", "connect_cb", "read_cb", "other_cb"}
    /\ stack' = Below
    /\ UNCHANGED <<io, net, pend, app, others>>

AppCall ==
    \/ NioAccept \/ HioConnect \/ HioRead \/ HioReadStop
    \/ HioSetKeepaliveTimeout \/ AppClose
    \/ \E len \in Lens : HioWrite(len)

-----------------------------------------------------------------------------
(***************************************************************************)
(* Another thread's hio_close: the test of io->closed, and hio_close_async,*)
(* which reads io->id.  The event says what it reads and, for the record,  *)
(* which connection was meant.                                             *)
(***************************************************************************)
ForeignClose ==
    /\ "foreign_close" \in Ops /\ foreign = 0 /\ posted = <<>>
    /\ io.ready /\ ~io.closed
    /\ foreign' = io.id
    /\ UNCHANGED <<io, net, stack, pend, app, posted>>

(* Mutant: the event does not get the id.                                  *)
HioCloseAsyncNoId ==
    /\ foreign # 0
    /\ posted' = Append(posted, [id |-> 0, meant |-> foreign])
    /\ foreign' = 0
    /\ UNCHANGED <<io, net, stack, pend, app>>

HioCloseAsync ==
    /\ foreign # 0
    /\ posted' = Append(posted, [id |-> io.id, meant |-> foreign])
    /\ foreign' = 0
    /\ UNCHANGED <<io, net, stack, pend, app>>

(* hio_close_event_cb *)
HioCloseEvent ==
    /\ stack = <<>> /\ posted # <<>>
    /\ posted' = Tail(posted)
    /\ IF Head(posted).id = io.id
         THEN HioClose(io, stack) /\ Asked
         ELSE UNCHANGED <<io, stack, asks, closes>>
    /\ UNCHANGED <<net, pend, written, wire, foreign>>

-----------------------------------------------------------------------------
(***************************************************************************)
(* The loop.                                                               *)
(***************************************************************************)
(* iowatcher_poll_events: an error is reported whatever was asked for.     *)
ReadyEvents ==
    (IF net.err \/ ("R" \in io.events /\ (net.avail > 0 \/ net.eof))
       THEN {"R"} ELSE {})
    \cup (IF net.err \/ ("W" \in io.events /\ Room > 0) THEN {"W"} ELSE {})

Poll ==
    /\ stack = <<>> /\ ~pend
    /\ io.active /\ io.events # {} /\ net.fd # "closed" /\ ReadyEvents # {}
    /\ io' = [io EXCEPT !.revents = @ \cup ReadyEvents]
    /\ pend' = TRUE
    /\ UNCHANGED <<net, stack, app, others>>

(* Some other event's callback.                                            *)
OtherCallback ==
    /\ stack = <<>>
    /\ stack' = <<Frame("other_cb")>>
    /\ UNCHANGED <<io, net, pend, app, others>>

(* hio_handle_events, if the hio_t is still active when its turn comes.    *)
HioHandleEvents ==
    /\ stack = <<>> /\ pend
    /\ pend' = FALSE
    /\ stack' = IF ~io.active THEN <<>>
                ELSE IF "R" \in io.events \cap io.revents
                THEN <<Frame("handle_write"), Frame("nio_read")>>
                ELSE <<Frame("handle_write")>>
    /\ UNCHANGED <<io, net, app, others>>

(* nio_read: after a full buffer it reads again, whatever read_cb did.     *)
NioRead ==
    /\ At("nio_read")
    /\ \/ /\ Broken
          /\ HioClose([io EXCEPT !.error = TRUE], Below)
          /\ Asked
          /\ UNCHANGED net
       \/ /\ ~Broken /\ net.avail > 0
          /\ LET n == Lesser(net.avail, ReadBuf) IN
             /\ net' = [net EXCEPT !.avail = @ - n]
             /\ stack' = (IF n = ReadBuf THEN stack ELSE Below)
                         \o <<Frame("read_cb")>>
          /\ UNCHANGED <<io, asks, closes>>
       \/ /\ ~Broken /\ net.avail = 0 /\ net.eof
          /\ HioClose(io, Below)
          /\ Asked
          /\ UNCHANGED net
       \/ /\ ~Broken /\ net.avail = 0 /\ ~net.eof
          /\ stack' = Below
          /\ UNCHANGED <<io, net, asks, closes>>
    /\ UNCHANGED <<pend, written, wire, others>>

(* The second half of hio_handle_events.  HV_WRITE goes if nothing is      *)
(* queued; then a connect is completed, or the queue is written.           *)
HandleWrite ==
    /\ At("handle_write")
    /\ LET writable == "W" \in io.events \cap io.revents
           c == [io EXCEPT !.revents = {}, !.connect = FALSE,
                           !.events = IF io.queue = <<>> THEN @ \ {"W"} ELSE @]
       IN
       \/ /\ ~writable
          /\ io' = [io EXCEPT !.revents = {}]
          /\ stack' = Below
          /\ UNCHANGED <<asks, closes>>
       \/ /\ writable /\ ~io.connect
          /\ io' = c
          /\ stack' = Append(Below, Frame("nio_write"))
          /\ UNCHANGED <<asks, closes>>
       \/ /\ writable /\ io.connect /\ ~Broken
          /\ io' = [c EXCEPT !.timers = @ \ {"connect"}]
          /\ stack' = Append(Below, Frame("connect_cb"))
          /\ UNCHANGED <<asks, closes>>
       \/ /\ writable /\ io.connect /\ Broken
          /\ HioClose([c EXCEPT !.error = TRUE], Below)
          /\ Asked
    /\ UNCHANGED <<net, pend, written, wire, others>>

(* nio_write: one turn, up to the call of write_cb.                        *)
NioWrite ==
    /\ At("nio_write")
    /\ \/ /\ io.queue = <<>> /\ io.close
          /\ HioClose([io EXCEPT !.close = FALSE], Below)
          /\ UNCHANGED <<net, wire, asks>>
       \/ /\ io.queue = <<>> /\ ~io.close
          /\ stack' = Below
          /\ UNCHANGED <<io, net, wire, asks, closes>>
       \/ /\ io.queue # <<>> /\ Broken
          /\ HioClose([io EXCEPT !.error = TRUE], Below)
          /\ Asked
          /\ UNCHANGED <<net, wire>>
       \/ /\ io.queue # <<>> /\ ~Broken /\ Room = 0
          /\ stack' = Below
          /\ UNCHANGED <<io, net, wire, asks, closes>>
       \/ /\ io.queue # <<>> /\ ~Broken /\ Room > 0
          /\ LET lo == Head(io.queue)[1]
                 hi == Head(io.queue)[2]
                 n == Lesser(hi - lo + 1, Room)
             IN
             /\ Deliver(lo, n)
             /\ stack' = Append(Below, [at |-> "queue_write_cb", lo |-> lo,
                                        hi |-> lo + n - 1, qid |-> io.qid])
          /\ UNCHANGED <<io, asks, closes>>
    /\ UNCHANGED <<pend, written, others>>

(* Mutant: the offset of a short write is not kept.                        *)
QueueWriteCbReturnsNoOffset ==
    /\ At("queue_write_cb") /\ Top.qid = io.qid
    /\ IF Top.hi = Head(io.queue)[2]
         THEN io' = PopFront(io) /\ stack' = Append(Below, Frame("nio_write"))
         ELSE UNCHANGED io /\ stack' = Below
    /\ UNCHANGED <<net, pend, app, others>>

(* nio_write after write_cb: pbuf->offset moves on, and after a complete   *)
(* write the next entry is taken.  Undefined if pbuf has gone: disabled.   *)
QueueWriteCbReturns ==
    /\ At("queue_write_cb") /\ Top.qid = io.qid
    /\ IF Top.hi = Head(io.queue)[2]
         THEN io' = PopFront(io) /\ stack' = Append(Below, Frame("nio_write"))
         ELSE /\ io' = [io EXCEPT !.queue[1] = <<Top.hi + 1, @[2]>>]
              /\ stack' = Below
    /\ UNCHANGED <<net, pend, app, others>>

(* __connect_timeout_cb, __close_timeout_cb and __keepalive_timeout_cb.    *)
TimerFires(t) ==
    /\ stack = <<>> /\ t \in io.timers
    /\ HioClose([io EXCEPT !.error = TRUE], stack)
    /\ Asked
    /\ UNCHANGED <<net, pend, written, wire, others>>

-----------------------------------------------------------------------------
(***************************************************************************)
(* The kernel and the peer.                                                *)
(***************************************************************************)
ConnectDone ==
    /\ net.fd = "connecting" /\ ~net.err
    /\ \/ net' = [net EXCEPT !.fd = "open"]
       \/ net' = [net EXCEPT !.err = TRUE]
    /\ UNCHANGED <<io, stack, pend, app, others>>

PeerReads ==
    /\ net.fd = "open" /\ net.sent > 0
    /\ net' = [net EXCEPT !.sent = 0]
    /\ UNCHANGED <<io, stack, pend, app, others>>

PeerSends ==
    /\ net.fd = "open" /\ ~net.eof /\ net.avail = 0
    /\ net' = [net EXCEPT !.avail = ReadBuf]
    /\ UNCHANGED <<io, stack, pend, app, others>>

PeerEnds ==
    /\ net.fd = "open" /\ ~net.eof
    /\ \/ net' = [net EXCEPT !.eof = TRUE]
       \/ net' = [net EXCEPT !.err = TRUE]
    /\ UNCHANGED <<io, stack, pend, app, others>>

Timers == {"connect", "close", "keepalive"}

Handler ==
    \/ NioRead \/ HandleWrite \/ NioWrite
    \/ WriteCbReturns \/ QueueWriteCbReturns \/ CloseCbReturns \/ OtherCbReturns

Next ==
    \/ AppCall \/ Handler
    \/ ForeignClose \/ HioCloseAsync \/ HioCloseEvent
    \/ Poll \/ OtherCallback \/ HioHandleEvents
    \/ \E t \in Timers : TimerFires(t)
    \/ ConnectDone \/ PeerReads \/ PeerSends \/ PeerEnds

Spec == Init /\ [][Next]_vars

(***************************************************************************)
(* Callbacks return, and every iteration of the loop runs the timers that  *)
(* are due and the events that are pending, whatever other callbacks run   *)
(* in between (HLoopEvents: PendingServed, DueTimerServed), and those that *)
(* are posted (LoopPost: PostServed).  A thread in hio_close goes on.  Of  *)
(* the peer nothing is assumed.                                            *)
(***************************************************************************)
FairSpec ==
    /\ Spec
    /\ WF_vars(Handler)
    /\ WF_vars(HioCloseAsync) /\ SF_vars(HioCloseEvent)
    /\ SF_vars(Poll) /\ SF_vars(HioHandleEvents)
    /\ \A t \in Timers : SF_vars(TimerFires(t))

-----------------------------------------------------------------------------
Entry == (1..MaxBytes) \X (1..MaxBytes)

Hio == [ready : BOOLEAN, closed : BOOLEAN, close : BOOLEAN, connect : BOOLEAN,
        error : BOOLEAN, active : BOOLEAN, id : 0..MaxIds,
        events : SUBSET {"R", "W"}, revents : SUBSET {"R", "W"},
        timers : SUBSET Timers, queue : Seq(Entry), qmax : Nat, qoff : Nat,
        qid : Nat]

Net == [fd : {"closed", "connecting", "open"}, sent : 0..SendBuf,
        avail : 0..ReadBuf, eof : BOOLEAN, err : BOOLEAN]

(* The fields have their types (struct hio_s in hevent.h), and the entries *)
(* of the write queue lie inside its array (queue.h:82-97).                *)
TypeOK ==
    /\ io \in Hio /\ io.qoff + Len(io.queue) <= io.qmax
    /\ net \in Net
    /\ written \in 0..MaxBytes /\ asks \in Nat
    /\ closes \in [Ids -> Nat] /\ foreign \in 0..MaxIds /\ pend \in BOOLEAN

(* What hio_write is about to queue, and how many bytes of the first entry *)
(* nio_write has written and not yet taken off it.                         *)
Unqueued ==
    LET writes == {i \in 1..Len(stack) : stack[i].at = "write_cb"}
    IN  IF writes = {} THEN <<>>
        ELSE LET f == stack[CHOOSE i \in writes : TRUE] IN <<<<f.lo, f.hi>>>>

InHand ==
    LET writes == {i \in 1..Len(stack) : stack[i].at = "queue_write_cb"}
    IN  IF writes = {} THEN 0
        ELSE LET f == stack[CHOOSE i \in writes : TRUE] IN f.hi - f.lo + 1

(* The bytes on the wire, those that hio_write is about to queue, and those*)
(* in the write queue are 1, 2, .. in that order, none missing and none    *)
(* twice, up to the last one written (hio_write, nio_write).               *)
StreamInOrder ==
    LET entries == Unqueued \o io.queue
        Before(i) == IF i = 1 THEN Len(wire) - InHand ELSE entries[i - 1][2]
    IN  ~io.closed /\ ~io.error =>
          /\ \A i \in 1..Len(wire) : wire[i] = i
          /\ \A i \in 1..Len(entries) : /\ entries[i][1] = Before(i) + 1
                                        /\ entries[i][2] >= Before(i)
          /\ Before(Len(entries) + 1) = written

(* A hio_t that is open has its descriptor, and one that is closed has     *)
(* nothing left in the loop: no event, no timer, no queue (hio_done and    *)
(* __close_cb against hio_add's hio_ready, hloop.c:704-719, 777-779).      *)
OpenOrGone ==
    /\ io.ready /\ ~io.closed => net.fd # "closed"
    /\ io.closed => /\ ~io.ready /\ ~io.active /\ io.events = {}
                    /\ io.timers = {} /\ io.queue = <<>>

(* close_cb is called once for every connection, when it closes.           *)
CloseCbOnce ==
    \A i \in Ids :
      closes[i] = IF i < io.id \/ (i = io.id /\ io.closed) THEN 1 ELSE 0

(* While bytes are queued the poll looks for HV_WRITE.                     *)
QueueArmed == io.queue # <<>> => io.active /\ "W" \in io.events

(* pbuf, which nio_write holds over write_cb, still points at the entry it *)
(* is about to update or free (nio.c:382-387).                             *)
PbufValid ==
    \A i \in 1..Len(stack) :
      stack[i].at = "queue_write_cb" => stack[i].qid = io.qid

(* hio_close throws bytes away only after an error or when called twice.   *)
GracefulClose ==
    io.closed /\ ~io.error /\ asks <= 1 => Len(wire) = written

(* A posted hio_close names the connection that its caller saw open.       *)
CloseMeant == \A i \in 1..Len(posted) : posted[i].id = posted[i].meant

(* One that names another came too late to be needed: the connection that  *)
(* was meant has been closed (hio_close_async's id against hio_ready's).   *)
MeantOrGone ==
    \A i \in 1..Len(posted) :
      \/ posted[i].id = posted[i].meant
      \/ posted[i].meant < posted[i].id /\ closes[posted[i].meant] = 1

(* Once hio_close has been called, the connection is closed in the end,    *)
(* even if the peer never reads (close_timer, nio.c:564-568), as long as   *)
(* the loop gets back to its timers.                                       *)
Closes == asks > 0 ~> io.closed \/ asks = 0
LoopRuns == []<>(stack = <<>>)
CloseCompletes == LoopRuns => Closes

(* "hio_close is thread-safe" (hloop.h:268), for its caller: while the     *)
(* hio_t is still that of the connection that another thread's hio_close   *)
(* saw open, the connection is closed in the end, by the event or by what  *)
(* comes before it.                                                        *)
ForeignCloses == foreign # 0 /\ foreign = io.id ~> io.closed
ForeignCloseCompletes == LoopRuns => ForeignCloses

(* "close timeout => hclose_cb" (hloop.h:241): whatever the peer does, a   *)
(* connection whose close has been put off is closed by its timer.         *)
CloseTimeoutCloses == "close" \in io.timers ~> io.closed

=============================================================================
