---------------------------- MODULE HioConnProofs ----------------------------
(***************************************************************************)
(* Theorems about a connection, for any lengths and buffer sizes, any      *)
(* number of connections and calls, and any nesting of callbacks.  They    *)
(* are about applications that call nothing on the hio_t from its          *)
(* write_cb: what may go wrong for the others is in the README.            *)
(***************************************************************************)
EXTENDS HioConn, SequenceTheorems, TLAPS

FrameAt == {"accept_cb", "connect_cb", "read_cb", "close_cb", "other_cb",
            "write_cb", "queue_write_cb", "handle_write", "nio_read", "nio_write"}

FrameSet == [at : FrameAt, lo : Nat, hi : Nat, qid : Nat]

Event == [id : 1..MaxIds, meant : 1..MaxIds]

Types ==
    /\ io \in Hio
    /\ net \in Net
    /\ stack \in Seq(FrameSet) /\ pend \in BOOLEAN
    /\ written \in 0..MaxBytes /\ wire \in Seq(1..MaxBytes) /\ asks \in Nat
    /\ closes \in [Ids -> Nat]

(* The flags of the hio_t.  It is ready from the moment it is used until it*)
(* is closed, and then nothing of it is left in the loop; an error closes  *)
(* it at once, and a close that is put off has been asked for.             *)
FlagsOK ==
    /\ io.ready <=> io.id > 0 /\ ~io.closed
    /\ ~io.ready => ~io.active /\ io.timers = {} /\ io.queue = <<>>
    /\ ~io.active => io.events = {}
    /\ io.ready => net.fd # "closed"
    /\ io.error => io.closed
    /\ io.close /\ ~io.closed => asks > 0
    /\ io.queue # <<>> => io.active /\ "W" \in io.events

(* The handlers that may close have a connection to close; a callback for  *)
(* a write has nothing above it, and neither has close_cb, under which the *)
(* hio_t is closed but its descriptor is not; another event's callback has *)
(* nothing below it.                                                       *)
Writing == {"write_cb", "queue_write_cb"}

StackOK ==
    \A i \in 1..Len(stack) :
      /\ stack[i].at \in Writing => i = Len(stack)
      /\ stack[i].at = "other_cb" => i = 1
      /\ stack[i].at = "close_cb" => /\ i = Len(stack)
                                     /\ io.closed /\ net.fd # "closed"
      /\ stack[i].at \in {"nio_read", "nio_write"} => io.id > 0

(* The entries of the queue follow one another.                            *)
QueueOK ==
    /\ io.qoff + Len(io.queue) <= io.qmax
    /\ \A i \in 1..Len(io.queue) : /\ io.queue[i][1] <= io.queue[i][2]
                                   /\ io.queue[i][2] <= written
    /\ \A i \in 1..Len(io.queue) - 1 : io.queue[i + 1][1] = io.queue[i][2] + 1

(* Where the wire ends the queue begins, and the queue ends with the last  *)
(* byte written.                                                           *)
Joined(hand) ==
    IF io.queue = <<>>
      THEN Len(wire) = written /\ hand = 0
      ELSE /\ io.queue[1][1] + hand = Len(wire) + 1
           /\ io.queue[Len(io.queue)][2] = written

BytesOK ==
    /\ Len(wire) <= written
    /\ \A i \in 1..Len(wire) : wire[i] = i
    /\ ~io.closed =>
         CASE At("write_cb") ->
                /\ io.ready /\ io.queue = <<>>
                /\ Top.lo = Len(wire) + 1 /\ Top.hi = written
           [] At("queue_write_cb") ->
                /\ io.queue # <<>> /\ Top.qid = io.qid
                /\ Top.lo = io.queue[1][1]
                /\ Top.lo <= Top.hi /\ Top.hi <= io.queue[1][2]
                /\ Joined(Top.hi - Top.lo + 1)
           [] OTHER -> Joined(0)
    /\ io.closed => stack = <<>> \/ Top.at \notin Writing

Core ==
    /\ Types /\ FlagsOK /\ StackOK /\ QueueOK /\ BytesOK
    /\ CloseCbOnce /\ GracefulClose

(* Another thread only closes what has been opened, and the id that it     *)
(* reads after that is no earlier connection's.                            *)
PostsOK ==
    /\ foreign \in 0..MaxIds /\ posted \in Seq(Event)
    /\ foreign <= io.id
    /\ \A i \in 1..Len(posted) :
         posted[i].meant <= posted[i].id /\ posted[i].id <= io.id

Inv == Core /\ PostsOK

-----------------------------------------------------------------------------
(* The fields of a hio_t and their types, for steps that change a few.     *)
LEMMA HioSet ==
    ASSUME NEW c \in Hio
    PROVE  /\ \A b \in BOOLEAN : [c EXCEPT !.ready = b] \in Hio
           /\ \A b \in BOOLEAN : [c EXCEPT !.closed = b] \in Hio
           /\ \A b \in BOOLEAN : [c EXCEPT !.close = b] \in Hio
           /\ \A b \in BOOLEAN : [c EXCEPT !.connect = b] \in Hio
           /\ \A b \in BOOLEAN : [c EXCEPT !.error = b] \in Hio
           /\ \A b \in BOOLEAN : [c EXCEPT !.active = b] \in Hio
           /\ \A i \in 0..MaxIds : [c EXCEPT !.id = i] \in Hio
           /\ \A e \in SUBSET {"R", "W"} : [c EXCEPT !.events = e] \in Hio
           /\ \A e \in SUBSET {"R", "W"} : [c EXCEPT !.revents = e] \in Hio
           /\ \A t \in SUBSET Timers : [c EXCEPT !.timers = t] \in Hio
           /\ \A q \in Seq(Entry) : [c EXCEPT !.queue = q] \in Hio
           /\ \A n \in Nat : [c EXCEPT !.qmax = n] \in Hio
           /\ \A n \in Nat : [c EXCEPT !.qoff = n] \in Hio
           /\ \A n \in Nat : [c EXCEPT !.qid = n] \in Hio
BY DEF Hio
LEMMA HioTypes ==
    ASSUME NEW c \in Hio
    PROVE  /\ {c.ready, c.closed, c.close, c.connect, c.error, c.active} \subseteq BOOLEAN
           /\ c.id \in 0..MaxIds
           /\ c.events \subseteq {"R", "W"} /\ c.revents \subseteq {"R", "W"}
           /\ c.timers \subseteq Timers /\ c.queue \in Seq(Entry)
           /\ c.qmax \in Nat /\ c.qoff \in Nat /\ c.qid \in Nat
BY DEF Hio

(* The operators on the fields of the hio_t.                               *)
LEMMA HioReadyFields ==
    ASSUME NEW c \in Hio, c.id < MaxIds
    PROVE  LET r == HioReady(c) IN
           /\ r \in Hio
           /\ r.ready /\ ~r.closed /\ ~r.close /\ ~r.connect /\ ~r.error
           /\ r.events = {} /\ r.timers = {} /\ r.id = c.id + 1
           /\ r.active = c.active /\ r.queue = c.queue
           /\ r.qmax = c.qmax /\ r.qoff = c.qoff /\ r.qid = c.qid
<1>1. {} \subseteq Timers /\ c.id + 1 \in 0..MaxIds
    BY BoundAssumption, HioTypes
<1>2. HioReady(c) \in Hio
    BY <1>1, HioSet DEF HioReady
<1> QED
    BY <1>2 DEF HioReady, Hio

LEMMA HioAddFields ==
    ASSUME NEW c \in Hio, c.ready, NEW e \in {"R", "W"}
    PROVE  LET r == HioAdd(c, e) IN
           /\ r \in Hio
           /\ r.active /\ r.events = c.events \cup {e}
           /\ r.ready = c.ready /\ r.closed = c.closed /\ r.close = c.close
           /\ r.error = c.error /\ r.id = c.id /\ r.timers = c.timers
           /\ r.queue = c.queue /\ r.qmax = c.qmax /\ r.qoff = c.qoff
           /\ r.qid = c.qid
BY DEF HioAdd, Hio

LEMMA CloseFields ==
    ASSUME NEW c \in Hio, c.ready, c.active \/ c.events = {}
    PROVE  LET r == [HioDone([c EXCEPT !.closed = TRUE]) EXCEPT !.timers = {}] IN
           /\ r \in Hio
           /\ ~r.ready /\ r.closed /\ ~r.active
           /\ r.events = {} /\ r.timers = {} /\ r.queue = <<>>
           /\ r.qmax = 0 /\ r.qoff = 0
           /\ r.id = c.id /\ r.error = c.error /\ r.close = c.close
<1> DEFINE d == HioDel([c EXCEPT !.closed = TRUE], {"R", "W"})
           e == [d EXCEPT !.ready = FALSE, !.queue = <<>>, !.qmax = 0,
                          !.qoff = 0, !.qid = @ + 1]
<1>1. [c EXCEPT !.closed = TRUE] \in Hio
    BY HioSet
<1>2. /\ d \in Hio /\ d.closed /\ ~d.active /\ d.events = {}
      /\ d.id = c.id /\ d.error = c.error /\ d.close = c.close
    <2>1. CASE c.active
        <3>1. [c EXCEPT !.closed = TRUE].events \ {"R", "W"} = {}
            BY HioTypes DEF Hio
        <3> QED
            BY <2>1, <3>1 DEF HioDel, Hio
    <2>2. CASE ~c.active
        BY <2>2, <1>1 DEF HioDel, Hio
    <2> QED
        BY <2>1, <2>2
<1>3. HioDone([c EXCEPT !.closed = TRUE]) = e
    BY DEF HioDone, Hio
<1> HIDE DEF d
<1>4. d.qid + 1 \in Nat /\ <<>> \in Seq(Entry) /\ {} \subseteq Timers
    BY <1>2, HioTypes
<1>5. e \in Hio
    BY <1>2, <1>4, HioSet
<1>6. [e EXCEPT !.timers = {}] \in Hio
    BY <1>4, <1>5, HioSet
<1>7. /\ ~e.ready /\ e.closed /\ ~e.active /\ e.events = {} /\ e.queue = <<>>
      /\ e.qmax = 0 /\ e.qoff = 0
      /\ e.id = c.id /\ e.error = c.error /\ e.close = c.close
    BY <1>2 DEF Hio
<1> DEFINE r == [e EXCEPT !.timers = {}]
<1> HIDE DEF e
<1>8. /\ ~r.ready /\ r.closed /\ ~r.active /\ r.events = {} /\ r.queue = <<>>
      /\ r.timers = {} /\ r.qmax = 0 /\ r.qoff = 0
      /\ r.id = c.id /\ r.error = c.error /\ r.close = c.close
    BY <1>5, <1>7 DEF Hio
<1> QED
    BY <1>3, <1>6, <1>8

LEMMA PushFields ==
    ASSUME NEW c \in Hio, c.qoff + Len(c.queue) <= c.qmax,
           NEW lo \in 1..MaxBytes, NEW hi \in 1..MaxBytes
    PROVE  LET r == Push(c, lo, hi) IN
           /\ r \in Hio
           /\ r.queue = Append(c.queue, <<lo, hi>>)
           /\ r.qoff + Len(r.queue) <= r.qmax
           /\ r.ready = c.ready /\ r.closed = c.closed /\ r.close = c.close
           /\ r.error = c.error /\ r.active = c.active /\ r.id = c.id
           /\ r.events = c.events /\ r.timers = c.timers
<1> DEFINE max == IF c.qmax = 0 THEN QueueInit ELSE c.qmax
           size == Len(c.queue)
           newmax == IF size = max THEN 2 * max ELSE max
           newoff == IF size # max /\ c.qoff + size = max THEN 0 ELSE c.qoff
           newid == IF size = max \/ (size # max /\ c.qoff + size = max) \/ c.qmax = 0
                      THEN c.qid + 1 ELSE c.qid
           r == [c EXCEPT !.queue = Append(@, <<lo, hi>>), !.qmax = newmax,
                          !.qoff = newoff, !.qid = newid]
<1>1. <<lo, hi>> \in Entry
    BY DEF Entry
<1>2. c.queue \in Seq(Entry) /\ size \in Nat /\ c.qoff \in Nat /\ c.qmax \in Nat
      /\ c.qid \in Nat
    BY HioTypes
<1>3. max \in Nat /\ newmax \in Nat /\ newoff \in Nat /\ newid \in Nat
    BY <1>2, BoundAssumption
<1>4. newoff + size + 1 <= newmax
    BY <1>2, BoundAssumption
<1>5. Append(c.queue, <<lo, hi>>) \in Seq(Entry)
      /\ Len(Append(c.queue, <<lo, hi>>)) = size + 1
    BY <1>1, <1>2
<1>6. Push(c, lo, hi) = r
    BY DEF Push
<1> HIDE DEF newmax, newoff, newid
<1>7. r \in Hio
    BY <1>3, <1>5, HioSet
<1>8. /\ r.queue = Append(c.queue, <<lo, hi>>)
      /\ r.qoff = newoff /\ r.qmax = newmax
      /\ r.ready = c.ready /\ r.closed = c.closed /\ r.close = c.close
      /\ r.error = c.error /\ r.active = c.active /\ r.id = c.id
      /\ r.events = c.events /\ r.timers = c.timers
    BY DEF Hio
<1> QED
    BY <1>2, <1>3, <1>4, <1>5, <1>6, <1>7, <1>8

LEMMA PopFields ==
    ASSUME NEW c \in Hio, c.qoff + Len(c.queue) <= c.qmax, c.queue # <<>>
    PROVE  LET r == PopFront(c) IN
           /\ r \in Hio
           /\ r.queue = Tail(c.queue)
           /\ r.qoff + Len(r.queue) <= r.qmax
           /\ r.ready = c.ready /\ r.closed = c.closed /\ r.close = c.close
           /\ r.error = c.error /\ r.active = c.active /\ r.id = c.id
           /\ r.events = c.events /\ r.timers = c.timers
<1> DEFINE newoff == IF c.qoff + 1 = c.qmax THEN 0 ELSE c.qoff + 1
           r == [c EXCEPT !.queue = Tail(@), !.qoff = newoff]
<1>1. c.queue \in Seq(Entry) /\ c.qoff \in Nat /\ c.qmax \in Nat
    BY HioTypes
<1>2. Tail(c.queue) \in Seq(Entry) /\ Len(Tail(c.queue)) = Len(c.queue) - 1
    BY <1>1
<1>3. newoff \in Nat /\ newoff + Len(c.queue) - 1 <= c.qmax
    BY <1>1
<1>4. PopFront(c) = r
    BY DEF PopFront
<1> HIDE DEF newoff
<1>5. r \in Hio
    BY <1>2, <1>3, HioSet
<1>6. /\ r.queue = Tail(c.queue) /\ r.qoff = newoff /\ r.qmax = c.qmax
      /\ r.ready = c.ready /\ r.closed = c.closed /\ r.close = c.close
      /\ r.error = c.error /\ r.active = c.active /\ r.id = c.id
      /\ r.events = c.events /\ r.timers = c.timers
    BY DEF Hio
<1> QED
    BY <1>1, <1>2, <1>3, <1>4, <1>5, <1>6

LEMMA BelowFrames ==
    ASSUME Types, stack # <<>>
    PROVE  /\ Below \in Seq(FrameSet) /\ Len(Below) = Len(stack) - 1
           /\ \A i \in 1..Len(Below) : Below[i] = stack[i]
           /\ Len(stack) \in Nat /\ Len(stack) > 0 /\ Top \in FrameSet
<1>1. stack \in Seq(FrameSet) /\ Len(stack) \in Nat /\ Len(stack) > 0
    BY EmptySeq DEF Types
<1>2. Below \in Seq(FrameSet)
    BY <1>1 DEF Below
<1>3. Len(Below) = Len(stack) - 1
    <2> DEFINE n == Len(stack) - 1
    <2>1. n \in Int /\ 0 <= n /\ \A i \in 1..n : stack[i] \in FrameSet
        BY <1>1
    <2> HIDE DEF n
    <2>2. Len(SubSeq(stack, 1, n)) = IF 1 <= n THEN n - 1 + 1 ELSE 0
        BY <2>1, SubSeqProperties
    <2>3. Len(SubSeq(stack, 1, n)) = n
        BY <2>1, <2>2
    <2> QED
        BY <2>3 DEF n, Below
<1>4. \A i \in 1..Len(stack) - 1 : Below[i] = stack[i]
    BY <1>1 DEF Below
<1> QED
    BY <1>1, <1>2, <1>3, <1>4 DEF Top

LEMMA NewFrame == \A at \in FrameAt : Frame(at) \in FrameSet /\ Frame(at).at = at
BY DEF Frame, FrameSet

(***************************************************************************)
(* hio_close, whoever calls it: c is the hio_t as its caller has just      *)
(* changed it, and frames are the handlers it returns to.                  *)
(***************************************************************************)
Closable(c, frames) ==
    /\ c \in Hio /\ io.id > 0
    /\ c.ready = io.ready /\ c.closed = io.closed /\ c.active = io.active
    /\ c.id = io.id /\ c.timers \subseteq io.timers
    /\ c.queue = io.queue /\ c.qmax = io.qmax /\ c.qoff = io.qoff
    /\ c.events \subseteq io.events /\ (c.queue # <<>> => "W" \in c.events)
    /\ c.close => io.close
    /\ io.error => c.error
    /\ frames = stack \/ (stack # <<>> /\ frames = Below)
    /\ stack = <<>> \/ Top.at \notin Writing

Counted(c) ==
    /\ asks' \in Nat /\ asks' >= asks
    /\ ~io.closed /\ io.queue # <<>> => asks' = asks + 1
    /\ \/ written' = written
       \/ ~io.closed /\ c.error /\ written' \in written..MaxBytes
    /\ UNCHANGED <<net, pend, wire>>

LEMMA CloseKeeps ==
    ASSUME Core, NEW c, NEW frames, Closable(c, frames), Counted(c),
           HioClose(c, frames)
    PROVE  Core'
<1>1. /\ frames \in Seq(FrameSet) /\ Len(frames) \in Nat
      /\ Len(frames) <= Len(stack)
      /\ \A i \in 1..Len(frames) : frames[i] = stack[i]
      /\ \A i \in 1..Len(frames) : frames[i].at \notin Writing
      /\ Len(stack) \in Nat
    <2>1. CASE stack # <<>> /\ frames = Below
        BY <2>1, BelowFrames DEF Core, StackOK
    <2>2. CASE frames = stack
        BY <2>2 DEF Core, StackOK, Types, Closable, Top
    <2> QED
        BY <2>1, <2>2 DEF Closable
<1>2. /\ c \in Hio /\ c.id \in Ids /\ (c.ready <=> ~io.closed)
      /\ written' \in 0..MaxBytes /\ written' >= written
    <2>1. c \in Hio /\ c.id \in Ids
        BY BoundAssumption, HioTypes DEF Closable, Ids
    <2>2. c.ready <=> ~io.closed
        BY DEF Closable, Core, FlagsOK
    <2>3. written' \in 0..MaxBytes /\ written' >= written
        BY BoundAssumption DEF Counted, Core, Types
    <2> QED
        BY <2>1, <2>2, <2>3
<1>3. CASE c.closed
    <2>1. io' = c /\ stack' = frames /\ closes' = closes /\ written' = written
        BY <1>3 DEF HioClose, Closable, Counted
    <2>2. Types'
        BY <1>1, <1>2, <2>1 DEF Types, Core, Counted
    <2>3. FlagsOK'
        BY <1>1, <1>2, <1>3, <2>1 DEF FlagsOK, Core, Closable, Counted
    <2>4. StackOK'
        BY <1>1, <1>3, <2>1 DEF StackOK, Core, Closable, Counted
    <2>5. QueueOK'
        BY <2>1 DEF QueueOK, Core, Closable
    <2>6. BytesOK'
        BY <1>1, <1>3, <2>1 DEF BytesOK, Core, Closable, Counted, Top
    <2>7. CloseCbOnce'
        BY <2>1 DEF CloseCbOnce, Core, Closable
    <2>8. GracefulClose'
        BY <1>3, <2>1 DEF GracefulClose, Core, Closable, Counted, Types
    <2> QED
        BY <2>2, <2>3, <2>4, <2>5, <2>6, <2>7, <2>8 DEF Core
<1>4. CASE ~c.closed /\ c.queue # <<>> /\ ~c.error /\ ~c.close
    <2> DEFINE r == [c EXCEPT !.close = TRUE, !.timers = @ \cup {"close"}]
    <2>1. io' = r /\ stack' = frames /\ closes' = closes /\ written' = written
        BY <1>4 DEF HioClose, Closable, Counted
    <2>2. r \in Hio
        BY <1>2, HioSet, HioTypes DEF Timers
    <2>3. /\ r.ready = io.ready /\ r.closed = io.closed /\ r.active = io.active
          /\ r.id = io.id /\ r.queue = io.queue /\ r.qmax = io.qmax
          /\ r.qoff = io.qoff /\ r.events = c.events /\ ~r.error
        BY <1>2, <1>4 DEF Closable, Hio
    <2> HIDE DEF r
    <2>4. Types'
        BY <1>1, <1>2, <2>1, <2>2 DEF Types, Core, Counted
    <2>5. FlagsOK'
        <3>1. io.ready /\ ~io.closed /\ asks' > 0
            BY <1>2, <1>4 DEF Core, Closable, Counted, Types
        <3> QED
            BY <1>4, <2>1, <2>3, <3>1 DEF FlagsOK, Core, Closable, Counted
    <2>6. StackOK'
        BY <1>1, <1>4, <2>1, <2>3 DEF StackOK, Core, Closable
    <2>7. QueueOK'
        BY <2>1, <2>3 DEF QueueOK, Core
    <2>8. BytesOK'
        <3>1. Joined(0)
            BY <1>4 DEF BytesOK, Core, Closable, Writing, At
        <3>2. Joined(0)'
            BY <2>1, <2>3, <3>1 DEF Joined, Counted
        <3>3. ~At("write_cb")' /\ ~At("queue_write_cb")'
            BY <1>1, <2>1 DEF At, Top, Writing
        <3>4. ~io'.closed
            BY <1>4, <2>1, <2>3 DEF Closable
        <3> QED
            BY <2>1, <3>2, <3>3, <3>4 DEF BytesOK, Core, Counted
    <2>9. CloseCbOnce' /\ GracefulClose'
        BY <1>4, <2>1, <2>3 DEF CloseCbOnce, GracefulClose, Core, Closable
    <2> QED
        BY <2>4, <2>5, <2>6, <2>7, <2>8, <2>9 DEF Core
<1>5. CASE ~c.closed /\ ~(c.queue # <<>> /\ ~c.error /\ ~c.close)
    <2> DEFINE r == [HioDone([c EXCEPT !.closed = TRUE]) EXCEPT !.timers = {}]
    <2>1. /\ io' = r /\ closes' = [closes EXCEPT ![c.id] = @ + 1]
          /\ stack' = Append(frames, Frame("close_cb"))
        BY <1>5 DEF HioClose, CloseNow
    <2>2. /\ r \in Hio /\ ~r.ready /\ r.closed /\ ~r.active
          /\ r.events = {} /\ r.timers = {} /\ r.queue = <<>>
          /\ r.qmax = 0 /\ r.qoff = 0
          /\ r.id = c.id /\ r.error = c.error /\ r.close = c.close
        <3>1. c.ready /\ (c.active \/ c.events = {})
            BY <1>2, <1>5 DEF Closable, Core, FlagsOK
        <3> QED
            BY <1>2, <3>1, CloseFields
    <2> HIDE DEF r
    <2>3. Frame("close_cb") \in FrameSet /\ Frame("close_cb").at = "close_cb"
        BY NewFrame DEF FrameAt
    <2>4. Types'
        BY <1>1, <1>2, <2>1, <2>2, <2>3 DEF Types, Core, Counted
    <2>5. FlagsOK'
        BY <1>2, <2>1, <2>2 DEF FlagsOK, Closable
    <2>6. StackOK'
        <3>1. ~io.closed /\ net' = net /\ net.fd # "closed"
            BY <1>2, <1>5 DEF Core, FlagsOK, Closable, Counted
        <3>2. /\ stack' \in Seq(FrameSet) /\ Len(stack') = Len(frames) + 1
              /\ \A i \in 1..Len(frames) : stack'[i] = stack[i]
              /\ stack'[Len(frames) + 1] = Frame("close_cb")
            BY <1>1, <2>1, <2>3, AppendProperties
        <3>3. \A i \in 1..Len(frames) : stack[i].at # "close_cb"
            BY <1>1, <3>1 DEF StackOK, Core
        <3> QED
            BY <1>1, <2>1, <2>2, <2>3, <3>1, <3>2, <3>3
               DEF StackOK, Core, Closable, Writing
    <2>7. QueueOK'
        BY <2>1, <2>2 DEF QueueOK
    <2>8. BytesOK'
        BY <1>1, <1>2, <2>1, <2>2, <2>3 DEF BytesOK, Core, Counted, Top, Writing, Types
    <2>9. CloseCbOnce'
        BY <1>2, <1>5, <2>1, <2>2 DEF CloseCbOnce, Core, Closable, Types, Ids
    <2>10. GracefulClose'
        <3>1. CASE c.error
            BY <2>1, <2>2, <3>1 DEF GracefulClose
        <3>2. CASE ~c.error /\ c.queue = <<>>
            BY <1>5, <2>1, <2>2, <3>2
               DEF GracefulClose, Core, Closable, Counted, BytesOK, At, Writing, Joined
        <3>3. CASE ~c.error /\ c.queue # <<>> /\ c.close
            BY <1>5, <3>3 DEF GracefulClose, Core, Closable, Counted, FlagsOK, Types
        <3> QED
            BY <1>5, <3>1, <3>2, <3>3
    <2> QED
        BY <2>4, <2>5, <2>6, <2>7, <2>8, <2>9, <2>10 DEF Core
<1> QED
    BY <1>3, <1>4, <1>5

-----------------------------------------------------------------------------
(* Steps that write nothing and close nothing.                             *)
NotWriting == stack = <<>> \/ Top.at \notin Writing

LEMMA Unwritten ==
    ASSUME Core, Types', FlagsOK', StackOK',
           UNCHANGED <<written, wire, asks, closes>>,
           io'.queue = io.queue, io'.qmax = io.qmax, io'.qoff = io.qoff,
           io'.id = io.id, io'.closed = io.closed, io'.error = io.error,
           \/ UNCHANGED <<io, stack>>
           \/ NotWriting /\ NotWriting'
    PROVE  Core'
<1>1. QueueOK' /\ CloseCbOnce' /\ GracefulClose'
    BY DEF QueueOK, CloseCbOnce, GracefulClose, Core
<1>2. BytesOK'
    <2>1. CASE UNCHANGED <<io, stack>>
        BY <2>1 DEF BytesOK, Core, At, Top, Joined
    <2>2. CASE NotWriting /\ NotWriting'
        BY <2>2 DEF BytesOK, Core, At, Joined, NotWriting, Writing
    <2> QED
        BY <2>1, <2>2
<1> QED
    BY <1>1, <1>2 DEF Core

LEMMA MayCallTop ==
    ASSUME Core, InWriteCb = {}, NEW op, MayCall(op)
    PROVE  stack # <<>> /\ Top.at \notin Writing /\ NotWriting
BY DEF MayCall, Writing, NotWriting

LEMMA NetChanges ==
    ASSUME Core, UNCHANGED <<io, stack, app>>, pend' \in BOOLEAN, net' \in Net,
           net.fd # "closed" => net'.fd # "closed"
    PROVE  Core'
<1>1. Types' /\ FlagsOK' /\ StackOK'
    BY DEF Types, FlagsOK, StackOK, Core, app
<1> QED
    BY <1>1, Unwritten DEF app

LEMMA KernelKeeps ==
    ASSUME Core, ConnectDone \/ PeerReads \/ PeerSends \/ PeerEnds
    PROVE  Core'
<1>1. net \in Net /\ net' \in Net /\ (net.fd # "closed" => net'.fd # "closed")
    <2>1. net \in Net
        BY DEF Core, Types
    <2>2. CASE ConnectDone
        BY <2>1, <2>2 DEF ConnectDone, Net
    <2>3. CASE PeerReads
        BY <2>1, <2>3, BoundAssumption DEF PeerReads, Net
    <2>4. CASE PeerSends
        BY <2>1, <2>4, BoundAssumption DEF PeerSends, Net
    <2>5. CASE PeerEnds
        BY <2>1, <2>5 DEF PeerEnds, Net
    <2> QED
        BY <2>1, <2>2, <2>3, <2>4, <2>5
<1>2. UNCHANGED <<io, stack, app>> /\ pend' \in BOOLEAN
    BY DEF ConnectDone, PeerReads, PeerSends, PeerEnds, Core, Types
<1> QED
    BY <1>1, <1>2, NetChanges

LEMMA ForeignKeeps ==
    ASSUME Core, ForeignClose \/ HioCloseAsync
    PROVE  Core'
<1>1. UNCHANGED <<io, stack, app, net>> /\ pend' \in BOOLEAN
    BY DEF ForeignClose, HioCloseAsync, Core, Types
<1> QED
    BY <1>1, NetChanges DEF Core, Types

(* The calls of the application that change fields only.                   *)
LEMMA CallsKeep ==
    ASSUME Core, InWriteCb = {},
           HioRead \/ HioReadStop \/ HioSetKeepaliveTimeout
    PROVE  Core'
<1>1. NotWriting /\ UNCHANGED <<net, stack, pend, app>>
    BY MayCallTop DEF HioRead, HioReadStop, HioSetKeepaliveTimeout
<1>2. /\ io' \in Hio
      /\ io'.queue = io.queue /\ io'.qmax = io.qmax /\ io'.qoff = io.qoff
      /\ io'.id = io.id /\ io'.closed = io.closed /\ io'.error = io.error
      /\ io'.ready = io.ready /\ io'.close = io.close
      /\ ~io.ready => ~io'.active /\ io'.timers = {}
      /\ ~io'.active => io'.events = {}
      /\ "W" \in io.events /\ io.active => io'.active /\ "W" \in io'.events
    <2>1. CASE HioRead
        BY <2>1, HioAddFields DEF HioRead, Core, Types, FlagsOK
    <2>2. CASE HioReadStop
        BY <2>2 DEF HioReadStop, HioDel, Core, Types, FlagsOK, Hio
    <2>3. CASE HioSetKeepaliveTimeout
        <3>1. PICK t \in SUBSET Timers : io' = [io EXCEPT !.timers = t]
            <4>1. io.timers \cup {"keepalive"} \in SUBSET Timers
                  /\ io.timers \ {"keepalive"} \in SUBSET Timers
                BY HioTypes DEF Timers, Core, Types
            <4> QED
                BY <2>3, <4>1 DEF HioSetKeepaliveTimeout
        <3>2. io \in Hio /\ io.ready
            BY <2>3 DEF HioSetKeepaliveTimeout, Core, Types
        <3>3. io' \in Hio
            BY <3>1, <3>2, HioSet
        <3> QED
            BY <3>1, <3>2, <3>3 DEF Hio, Core, FlagsOK
    <2> QED
        BY <2>1, <2>2, <2>3
<1>3. Types' /\ FlagsOK' /\ StackOK'
    BY <1>1, <1>2 DEF Types, FlagsOK, StackOK, Core, app
<1>4. NotWriting'
    BY <1>1 DEF NotWriting, Top
<1> QED
    BY <1>1, <1>2, <1>3, <1>4, Unwritten DEF app

(* Callbacks and handlers that begin and end.                              *)
LEMMA StackChanges ==
    ASSUME Core, UNCHANGED <<io, app>>, pend' \in BOOLEAN,
           net' \in Net, io.ready => net'.fd # "closed",
           stack' \in Seq(FrameSet), StackOK', NotWriting, NotWriting'
    PROVE  Core'
<1>1. Types' /\ FlagsOK'
    BY DEF Types, FlagsOK, Core, app
<1> QED
    BY <1>1, Unwritten DEF app

LEMMA PopsKeep ==
    ASSUME Core, stack # <<>>
    PROVE  /\ Below \in Seq(FrameSet)
           /\ stack' = Below /\ (io.id > 0 => io'.id > 0) /\ (io.closed => io'.closed)
                => StackOK' /\ NotWriting'
<1>1. /\ Below \in Seq(FrameSet) /\ Len(Below) = Len(stack) - 1
      /\ \A i \in 1..Len(Below) : Below[i] = stack[i]
      /\ Len(stack) \in Nat /\ Len(stack) > 0 /\ Len(Below) \in Nat
    BY BelowFrames DEF Core
<1>2. ASSUME stack' = Below, (io.id > 0 => io'.id > 0), io.closed => io'.closed,
             NEW i \in 1..Len(Below)
      PROVE  Below[i].at \notin Writing /\ i \in 1..Len(stack)
    BY <1>1, <1>2 DEF Core, StackOK
<1>3. ASSUME stack' = Below, (io.id > 0 => io'.id > 0), io.closed => io'.closed
      PROVE  StackOK' /\ NotWriting'
    <2>2. StackOK'
        BY <1>1, <1>2, <1>3 DEF StackOK, Core
    <2>3. NotWriting'
        BY <1>1, <1>2, <1>3 DEF NotWriting, Top
    <2> QED
        BY <2>2, <2>3
<1> QED
    BY <1>1, <1>3

LEMMA ReturnsKeep ==
    ASSUME Core, CloseCbReturns \/ OtherCbReturns
    PROVE  Core'
<1>1. /\ stack # <<>> /\ stack' = Below /\ UNCHANGED <<io, app>>
      /\ NotWriting /\ pend' \in BOOLEAN
    BY DEF CloseCbReturns, OtherCbReturns, At, NotWriting, Writing, Core, Types
<1>2. Below \in Seq(FrameSet) /\ StackOK' /\ NotWriting'
    BY <1>1, PopsKeep
<1>3. net' \in Net /\ (io.ready => net'.fd # "closed")
    <2>1. CASE CloseCbReturns
        <3>1. Len(stack) \in 1..Len(stack) /\ Top.at = "close_cb"
            BY <1>1, <2>1, BelowFrames DEF CloseCbReturns, At, Core
        <3>2. io.closed
            BY <3>1 DEF Core, StackOK, Top
        <3> QED
            BY <2>1, <3>2 DEF CloseCbReturns, Core, Types, FlagsOK, Net
    <2>2. CASE OtherCbReturns
        BY <2>2 DEF OtherCbReturns, Core, Types, FlagsOK
    <2> QED
        BY <2>1, <2>2
<1> QED
    BY <1>1, <1>2, <1>3, StackChanges

LEMMA LoopKeeps ==
    ASSUME Core, OtherCallback \/ HioHandleEvents \/ Poll
    PROVE  Core'
<1>1. CASE OtherCallback
    <2>1. Frame("other_cb") \in FrameSet /\ Frame("other_cb").at = "other_cb"
        BY NewFrame DEF FrameAt
    <2>2. /\ stack = <<>> /\ stack' = <<Frame("other_cb")>>
          /\ UNCHANGED <<io, net, pend, app>>
        BY <1>1 DEF OtherCallback
    <2>3. StackOK' /\ NotWriting /\ NotWriting' /\ stack' \in Seq(FrameSet)
        BY <2>1, <2>2 DEF StackOK, NotWriting, Top, Writing
    <2> QED
        BY <2>2, <2>3, StackChanges DEF Core, Types, FlagsOK
<1>2. CASE HioHandleEvents
    <2> DEFINE w == Frame("handle_write")
               r == Frame("nio_read")
    <2>1. /\ w \in FrameSet /\ w.at = "handle_write"
          /\ r \in FrameSet /\ r.at = "nio_read"
        BY NewFrame DEF FrameAt
    <2> HIDE DEF w, r
    <2>2. /\ stack = <<>> /\ pend' = FALSE /\ UNCHANGED <<io, net, app>>
          /\ \/ stack' = <<>>
             \/ io.active /\ (stack' = <<w>> \/ stack' = <<w, r>>)
        BY <1>2 DEF HioHandleEvents, w, r
    <2>3. io.active => io.id > 0
        BY DEF Core, FlagsOK
    <2>4. StackOK' /\ NotWriting /\ NotWriting' /\ stack' \in Seq(FrameSet)
        <3>1. CASE stack' = <<>>
            BY <2>2, <3>1 DEF StackOK, NotWriting
        <3>2. CASE io.active /\ stack' = <<w>>
            BY <2>1, <2>2, <3>2 DEF StackOK, NotWriting, Top, Writing
        <3>3. CASE io.active /\ stack' = <<w, r>>
            BY <2>1, <2>2, <2>3, <3>3 DEF StackOK, NotWriting, Top, Writing
        <3> QED
            BY <2>2, <3>1, <3>2, <3>3
    <2> QED
        BY <2>2, <2>4, StackChanges DEF Core, Types, FlagsOK
<1>3. CASE Poll
    <2>1. /\ stack = <<>> /\ UNCHANGED <<net, stack, app>> /\ pend' \in BOOLEAN
          /\ io' = [io EXCEPT !.revents = io.revents \cup ReadyEvents]
        BY <1>3 DEF Poll
    <2>2. io \in Hio /\ ReadyEvents \subseteq {"R", "W"}
        BY DEF Core, Types, ReadyEvents
    <2>3. io' \in Hio
        BY <2>1, <2>2, HioSet, HioTypes
    <2>4. /\ io'.queue = io.queue /\ io'.qmax = io.qmax /\ io'.qoff = io.qoff
          /\ io'.id = io.id /\ io'.closed = io.closed /\ io'.error = io.error
          /\ io'.ready = io.ready /\ io'.close = io.close /\ io'.active = io.active
          /\ io'.events = io.events /\ io'.timers = io.timers
        BY <2>1, <2>2 DEF Hio
    <2>5. Types' /\ FlagsOK' /\ StackOK' /\ NotWriting /\ NotWriting'
        BY <2>1, <2>3, <2>4 DEF Types, FlagsOK, StackOK, Core, app, NotWriting
    <2> QED
        BY <2>1, <2>4, <2>5, Unwritten DEF app
<1> QED
    BY <1>1, <1>2, <1>3

(* The calls of hio_close.                                                 *)
LEMMA AskedCounts ==
    ASSUME Core, Asked, UNCHANGED <<net, pend, wire, written>>, NEW c
    PROVE  Counted(c)
BY DEF Asked, Counted, Core, Types

LEMMA ErrorCloses ==
    ASSUME Core, io.id > 0, NotWriting
    PROVE  /\ Closable(io, stack)
           /\ Closable([io EXCEPT !.error = TRUE], stack)
           /\ stack # <<>> => /\ Closable(io, Below)
                             /\ Closable([io EXCEPT !.error = TRUE], Below)
<1>1. io \in Hio /\ [io EXCEPT !.error = TRUE] \in Hio
    BY HioSet DEF Core, Types
<1>0. io.queue # <<>> => "W" \in io.events
    BY DEF Core, FlagsOK
<1>2. Closable(io, stack) /\ (stack # <<>> => Closable(io, Below))
    BY <1>0, <1>1 DEF Closable, NotWriting
<1>3. Closable([io EXCEPT !.error = TRUE], stack)
    BY <1>1, <1>2 DEF Closable, Hio
<1>4. stack # <<>> => Closable([io EXCEPT !.error = TRUE], Below)
    BY <1>1, <1>2 DEF Closable, Hio
<1> QED
    BY <1>2, <1>3, <1>4

LEMMA ClosesKeep ==
    ASSUME Core, InWriteCb = {},
           \/ AppClose
           \/ HioCloseEvent /\ posted \in Seq(Event)
           \/ \E t \in Timers : TimerFires(t)
    PROVE  Core'
<1>1. CASE AppClose
    <2>1. io.id > 0 /\ NotWriting
        BY <1>1, MayCallTop DEF AppClose, Core, FlagsOK
    <2>2. Closable(io, stack)
        BY <2>1, ErrorCloses
    <2>3. Counted(io) /\ HioClose(io, stack)
        BY <1>1, AskedCounts DEF AppClose
    <2> QED
        BY <2>2, <2>3, CloseKeeps
<1>2. CASE HioCloseEvent /\ posted \in Seq(Event)
    <2>1. CASE Head(posted).id = io.id
        <3>1. io.id > 0 /\ NotWriting
            <4>1. posted # <<>> /\ stack = <<>>
                BY <1>2 DEF HioCloseEvent
            <4>2. Head(posted) \in Event
                BY <1>2, <4>1
            <4>3. Head(posted).id \in 1..MaxIds
                BY <4>2 DEF Event
            <4> QED
                BY <2>1, <4>1, <4>3 DEF NotWriting
        <3>2. Closable(io, stack)
            BY <3>1, ErrorCloses
        <3>3. Counted(io) /\ HioClose(io, stack)
            BY <1>2, <2>1, AskedCounts DEF HioCloseEvent
        <3> QED
            BY <3>2, <3>3, CloseKeeps
    <2>2. CASE Head(posted).id # io.id
        BY <1>2, <2>2, NetChanges DEF HioCloseEvent, Core, Types, app
    <2> QED
        BY <2>1, <2>2
<1>3. ASSUME NEW t \in Timers, TimerFires(t)
      PROVE  Core'
    <2>1. io.id > 0 /\ NotWriting
        BY <1>3 DEF TimerFires, Core, FlagsOK, NotWriting
    <2> DEFINE c == [io EXCEPT !.error = TRUE]
    <2>2. Closable(c, stack)
        BY <2>1, ErrorCloses
    <2>3. Counted(c) /\ HioClose(c, stack)
        BY <1>3, AskedCounts DEF TimerFires
    <2> QED
        BY <2>2, <2>3, CloseKeeps
<1> QED
    BY <1>1, <1>2, <1>3

LEMMA NioReadKeeps ==
    ASSUME Core, NioRead
    PROVE  Core'
<1>1. /\ stack # <<>> /\ Top.at = "nio_read" /\ NotWriting
      /\ UNCHANGED <<pend, written, wire>>
    BY DEF NioRead, At, NotWriting, Writing
<1>2. io.id > 0
    BY <1>1, BelowFrames DEF Core, StackOK, Top
<1>3. CASE UNCHANGED net /\ Asked
           /\ (HioClose(io, Below) \/ HioClose([io EXCEPT !.error = TRUE], Below))
    BY <1>1, <1>2, <1>3, ErrorCloses, AskedCounts, CloseKeeps
<1>4. CASE stack' = Below /\ UNCHANGED <<io, net, asks, closes>>
    BY <1>1, <1>4, PopsKeep, StackChanges DEF Core, Types, FlagsOK, app
<1>5. CASE /\ ~Broken /\ net.avail > 0
           /\ LET n == Lesser(net.avail, ReadBuf) IN
              /\ net' = [net EXCEPT !.avail = @ - n]
              /\ stack' = (IF n = ReadBuf THEN stack ELSE Below)
                          \o <<Frame("read_cb")>>
           /\ UNCHANGED <<io, asks, closes>>
    <2> DEFINE n == Lesser(net.avail, ReadBuf)
               rest == IF n = ReadBuf THEN stack ELSE Below
    <2>1. net' \in Net /\ net'.fd = net.fd
        <3>1. net.avail - n \in 0..ReadBuf /\ net' = [net EXCEPT !.avail = net.avail - n]
            BY <1>5, BoundAssumption DEF Core, Types, Net, Lesser
        <3> QED
            BY <3>1 DEF Core, Types, Net
    <2>2. Frame("read_cb") \in FrameSet /\ Frame("read_cb").at = "read_cb"
        BY NewFrame DEF FrameAt
    <2>3. stack' = rest \o <<Frame("read_cb")>>
        BY <1>5
    <2>4. /\ rest \in Seq(FrameSet) /\ Len(rest) \in Nat
          /\ Len(rest) <= Len(stack) /\ Len(stack) \in Nat
          /\ \A i \in 1..Len(rest) : rest[i] = stack[i] /\ rest[i].at \notin Writing
        <3> HIDE DEF n
        <3>1. CASE n = ReadBuf
            <4>1. \A i \in 1..Len(stack) : stack[i].at \notin Writing
                <5>1. \A i \in 1..Len(stack) : stack[i].at \in Writing => i = Len(stack)
                    BY DEF Core, StackOK
                <5>2. stack[Len(stack)].at \notin Writing
                    BY <1>1 DEF NotWriting, Top
                <5> QED
                    BY <5>1, <5>2
            <4>2. stack \in Seq(FrameSet) /\ Len(stack) \in Nat
                BY DEF Core, Types
            <4> QED
                BY <3>1, <4>1, <4>2
        <3>2. CASE n # ReadBuf
            BY <1>1, <3>2, BelowFrames DEF Core, StackOK
        <3> QED
            BY <3>1, <3>2
    <2> HIDE DEF rest
    <2>5. /\ stack' \in Seq(FrameSet) /\ Len(stack') = Len(rest) + 1
          /\ \A i \in 1..Len(rest) : stack'[i] = rest[i]
          /\ stack'[Len(rest) + 1] = Frame("read_cb")
        BY <2>2, <2>3, <2>4
    <2>6. \A i \in 1..Len(stack) : stack[i].at # "close_cb"
        BY <1>1 DEF StackOK, Core, Top
    <2>7. StackOK' /\ NotWriting'
        BY <1>5, <2>2, <2>4, <2>5, <2>6 DEF StackOK, Core, NotWriting, Top, Writing
    <2> QED
        BY <1>1, <1>5, <2>1, <2>5, <2>7, StackChanges DEF Core, Types, FlagsOK, app
<1> QED
    BY <1>3, <1>4, <1>5 DEF NioRead

LEMMA PushesKeep ==
    ASSUME Core, NotWriting, NEW rest,
           rest = stack \/ (stack # <<>> /\ rest = Below),
           NEW f \in FrameSet, stack' = Append(rest, f),
           f.at # "other_cb",
           f.at = "close_cb" => io'.closed /\ net'.fd # "closed",
           f.at \in {"nio_read", "nio_write"} => io'.id > 0,
           io.id > 0 => io'.id > 0,
           rest = Below \/ ~io.closed \/ net.fd = "closed"
    PROVE  /\ stack' \in Seq(FrameSet) /\ StackOK'
           /\ stack' # <<>> /\ Top' = f
           /\ f.at \notin Writing => NotWriting'
<1>1. /\ rest \in Seq(FrameSet) /\ Len(rest) \in Nat
      /\ \A i \in 1..Len(rest) : /\ i \in 1..Len(stack) /\ rest[i] = stack[i]
                                 /\ rest[i].at \notin Writing
    <2>1. CASE rest = stack
        <3>1. \A i \in 1..Len(stack) : stack[i].at \in Writing => i = Len(stack)
            BY DEF Core, StackOK
        <3>2. stack = <<>> \/ stack[Len(stack)].at \notin Writing
            BY DEF NotWriting, Top
        <3>3. stack \in Seq(FrameSet) /\ Len(stack) \in Nat
            BY DEF Core, Types
        <3> QED
            BY <2>1, <3>1, <3>2, <3>3
    <2>2. CASE stack # <<>> /\ rest = Below
        <3>1. \A i \in 1..Len(stack) : stack[i].at \in Writing => i = Len(stack)
            BY DEF Core, StackOK
        <3> QED
            BY <2>2, <3>1, BelowFrames DEF Core
    <2> QED
        BY <2>1, <2>2
<1>2. /\ stack' \in Seq(FrameSet) /\ Len(stack') = Len(rest) + 1
      /\ \A i \in 1..Len(rest) : stack'[i] = rest[i]
      /\ stack'[Len(rest) + 1] = f
    BY <1>1
<1>3. Top' = f /\ stack' # <<>>
    BY <1>1, <1>2 DEF Top
<1>4. \A i \in 1..Len(rest) : rest[i].at # "close_cb"
    <2>1. CASE rest = stack /\ (~io.closed \/ net.fd = "closed")
        BY <1>1, <2>1 DEF StackOK, Core
    <2>2. CASE stack # <<>> /\ rest = Below
        <3>1. \A i \in 1..Len(rest) : i # Len(stack)
            BY <2>2, BelowFrames DEF Core
        <3> QED
            BY <1>1, <3>1 DEF StackOK, Core
    <2> QED
        BY <2>1, <2>2, EmptySeq DEF Below
<1>5. StackOK'
    BY <1>1, <1>2, <1>4 DEF StackOK, Core
<1> QED
    BY <1>2, <1>3, <1>5 DEF NotWriting

LEMMA HandleWriteKeeps ==
    ASSUME Core, HandleWrite
    PROVE  Core'
<1> DEFINE events == IF io.queue = <<>> THEN io.events \ {"W"} ELSE io.events
           c == [io EXCEPT !.revents = {}, !.connect = FALSE, !.events = events]
<1>1. /\ stack # <<>> /\ NotWriting /\ io \in Hio /\ events \subseteq io.events
      /\ UNCHANGED <<net, pend, written, wire>>
    BY DEF HandleWrite, At, NotWriting, Writing, Core, Types
<1>2. "W" \in io.events => io.id > 0 /\ io.ready /\ io.active
    BY DEF Core, FlagsOK
<1> HIDE DEF events
<1>3. c \in Hio /\ [io EXCEPT !.revents = {}] \in Hio
    BY <1>1, HioSet, HioTypes
<1>4. /\ c.queue = io.queue /\ c.qmax = io.qmax /\ c.qoff = io.qoff
      /\ c.id = io.id /\ c.closed = io.closed /\ c.error = io.error
      /\ c.ready = io.ready /\ c.close = io.close /\ c.active = io.active
      /\ c.events = events /\ c.timers = io.timers
    BY <1>1 DEF Hio
<1>5. io.queue # <<>> => "W" \in events
    BY DEF Core, FlagsOK, events
<1>6. CASE io' = [io EXCEPT !.revents = {}] /\ stack' = Below /\ UNCHANGED <<asks, closes>>
    <2>1. /\ io'.queue = io.queue /\ io'.qmax = io.qmax /\ io'.qoff = io.qoff
          /\ io'.id = io.id /\ io'.closed = io.closed /\ io'.error = io.error
          /\ io'.ready = io.ready /\ io'.close = io.close /\ io'.active = io.active
          /\ io'.events = io.events /\ io'.timers = io.timers
        BY <1>1, <1>6 DEF Hio
    <2>2. Below \in Seq(FrameSet) /\ StackOK' /\ NotWriting'
        BY <1>1, <1>6, <2>1, PopsKeep
    <2>3. Types' /\ FlagsOK'
        BY <1>1, <1>3, <1>6, <2>1, <2>2 DEF Types, FlagsOK, Core
    <2> QED
        BY <1>1, <1>6, <2>1, <2>2, <2>3, Unwritten
<1>7. ASSUME "W" \in io.events, UNCHANGED <<asks, closes>>,
             NEW at \in {"nio_write", "connect_cb"},
             stack' = Append(Below, Frame(at)),
             io' = c \/ io' = [c EXCEPT !.timers = c.timers \ {"connect"}]
      PROVE  Core'
    <2> HIDE DEF c
    <2>1. io' \in Hio
        <3>1. c.timers \ {"connect"} \in SUBSET Timers
            BY <1>3, HioTypes
        <3>2. [c EXCEPT !.timers = c.timers \ {"connect"}] \in Hio
            BY <1>3, <3>1, HioSet
        <3> QED
            BY <1>3, <1>7, <3>2
    <2>2. /\ io'.queue = io.queue /\ io'.qmax = io.qmax /\ io'.qoff = io.qoff
          /\ io'.id = io.id /\ io'.closed = io.closed /\ io'.error = io.error
          /\ io'.ready = io.ready /\ io'.close = io.close /\ io'.active = io.active
          /\ io'.events = events
        BY <1>3, <1>4, <1>7 DEF Hio
    <2>3. Frame(at) \in FrameSet /\ Frame(at).at = at
        BY NewFrame DEF FrameAt
    <2>4. stack' \in Seq(FrameSet) /\ StackOK' /\ NotWriting'
        BY <1>1, <1>2, <1>7, <2>2, <2>3, PushesKeep DEF Writing
    <2>5. Types' /\ FlagsOK'
        BY <1>1, <1>2, <1>5, <1>7, <2>1, <2>2, <2>4 DEF Types, FlagsOK, Core
    <2> QED
        BY <1>1, <1>7, <2>2, <2>4, <2>5, Unwritten
<1>8. CASE "W" \in io.events /\ HioClose([c EXCEPT !.error = TRUE], Below) /\ Asked
    <2> DEFINE e == [c EXCEPT !.error = TRUE]
    <2> HIDE DEF c
    <2>0. e \in Hio
        BY <1>3, HioSet
    <2>1. /\ e.error /\ e.queue = io.queue /\ e.qmax = io.qmax
          /\ e.qoff = io.qoff /\ e.id = io.id /\ e.closed = io.closed
          /\ e.ready = io.ready /\ e.close = io.close /\ e.active = io.active
          /\ e.events = events /\ e.timers = io.timers
        BY <1>3, <1>4 DEF Hio
    <2> HIDE DEF e
    <2>2. Closable(e, Below)
        BY <1>1, <1>2, <1>5, <1>8, <2>0, <2>1 DEF Closable, NotWriting
    <2>3. Counted(e) /\ HioClose(e, Below)
        BY <1>1, <1>8, AskedCounts DEF e
    <2> QED
        BY <2>2, <2>3, CloseKeeps
<1>9. \/ io' = [io EXCEPT !.revents = {}] /\ stack' = Below /\ UNCHANGED <<asks, closes>>
      \/ /\ "W" \in io.events /\ UNCHANGED <<asks, closes>>
         /\ io' = c /\ stack' = Append(Below, Frame("nio_write"))
      \/ /\ "W" \in io.events /\ UNCHANGED <<asks, closes>>
         /\ io' = [c EXCEPT !.timers = c.timers \ {"connect"}]
         /\ stack' = Append(Below, Frame("connect_cb"))
      \/ "W" \in io.events /\ HioClose([c EXCEPT !.error = TRUE], Below) /\ Asked
    BY DEF HandleWrite, events
<1> QED
    BY <1>6, <1>7, <1>8, <1>9

-----------------------------------------------------------------------------
(* The kernel takes bytes off a write, and what was the wire goes on.      *)
LEMMA Delivered ==
    ASSUME Core, NEW lo \in 1..MaxBytes, NEW n \in Nat,
           lo = Len(wire) + 1, lo + n - 1 <= MaxBytes, n <= Room, ~Broken,
           Deliver(lo, n)
    PROVE  /\ wire' \in Seq(1..MaxBytes) /\ Len(wire') = Len(wire) + n
           /\ \A i \in 1..Len(wire') : wire'[i] = i
           /\ net' \in Net /\ net'.fd = net.fd
<1>1. /\ wire \in Seq(1..MaxBytes) /\ Len(wire) \in Nat
      /\ \A i \in 1..Len(wire) : wire[i] = i
    BY DEF Core, Types, BytesOK
<1> DEFINE more == [i \in 1..n |-> lo + i - 1]
<1>2. /\ more \in Seq(1..MaxBytes) /\ Len(more) = n
      /\ \A i \in 1..n : more[i] = lo + i - 1
    <2>1. \A i \in 1..n : lo + i - 1 \in 1..MaxBytes
        BY BoundAssumption
    <2>2. more \in Seq(1..MaxBytes) /\ Len(more) = n
        BY <2>1, IsASeq
    <2> QED
        BY <2>2
<1>3. wire' = wire \o more
    BY DEF Deliver
<1> HIDE DEF more
<1>4. /\ wire' \in Seq(1..MaxBytes) /\ Len(wire') = Len(wire) + n
      /\ \A i \in 1..Len(wire) : wire'[i] = wire[i]
      /\ \A i \in 1..Len(wire') : i > Len(wire) => wire'[i] = more[i - Len(wire)]
    <2>1. /\ wire' \in Seq(1..MaxBytes) /\ Len(wire') = Len(wire) + Len(more)
          /\ \A i \in 1..Len(wire) + Len(more) :
               wire'[i] = IF i <= Len(wire) THEN wire[i] ELSE more[i - Len(wire)]
        BY <1>1, <1>2, <1>3, ConcatProperties
    <2> QED
        BY <1>1, <1>2, <2>1
<1>5. ASSUME NEW i \in 1..Len(wire')
      PROVE  wire'[i] = i
    <2>1. CASE i <= Len(wire)
        BY <1>1, <1>4, <2>1
    <2>2. CASE i > Len(wire)
        <3>1. i - Len(wire) \in 1..n
            BY <1>1, <1>4, <2>2
        <3>2. wire'[i] = lo + (i - Len(wire)) - 1
            BY <1>2, <1>4, <2>2, <3>1
        <3> QED
            BY <1>1, <3>2
    <2> QED
        BY <1>1, <1>4, <2>1, <2>2
<1>6. net' \in Net /\ net'.fd = net.fd
    <2>1. net \in Net /\ net' = [net EXCEPT !.sent = net.sent + n]
        BY DEF Core, Types, Deliver
    <2>2. net.sent + n \in 0..SendBuf
        BY <2>1, BoundAssumption DEF Room, Net
    <2> QED
        BY <2>1, <2>2 DEF Net
<1> QED
    BY <1>4, <1>5, <1>6

(* Bytes that are queued behind what there is.                             *)
LEMMA QueueGrows ==
    ASSUME Core, NEW c \in Hio, NEW lo \in 1..MaxBytes, NEW hi \in 1..MaxBytes,
           lo <= hi, hi = written', written' >= written,
           io.ready, c.ready, c.id = io.id, c.closed = io.closed, c.error = io.error,
           c.close = io.close, c.timers = io.timers,
           c.queue = io.queue, c.qmax = io.qmax, c.qoff = io.qoff,
           c.active, "W" \in c.events,
           IF io.queue = <<>> THEN lo = Len(wire) + 1
                              ELSE io.queue[Len(io.queue)][2] = lo - 1 /\ Joined(0),
           io' = Push(c, lo, hi), NotWriting', StackOK', stack' \in Seq(FrameSet),
           UNCHANGED <<net, pend, wire, asks, closes>>
    PROVE  Core'
<1> DEFINE r == Push(c, lo, hi)
<1>1. /\ r \in Hio
      /\ r.queue = Append(c.queue, <<lo, hi>>)
      /\ r.qoff + Len(r.queue) <= r.qmax
      /\ r.ready = c.ready /\ r.closed = c.closed /\ r.close = c.close
      /\ r.error = c.error /\ r.active = c.active /\ r.id = c.id
      /\ r.events = c.events /\ r.timers = c.timers
    <2>1. c.qoff + Len(c.queue) <= c.qmax
        BY DEF Core, QueueOK
    <2> QED
        BY <2>1, PushFields
<1>2. io' = r
    OBVIOUS
<1> HIDE DEF r
<1> DEFINE q == io.queue
<1>3. /\ q \in Seq(Entry) /\ Len(q) \in Nat
      /\ io'.queue \in Seq(Entry) /\ Len(io'.queue) = Len(q) + 1
      /\ \A i \in 1..Len(q) : io'.queue[i] = q[i]
      /\ io'.queue[Len(q) + 1] = <<lo, hi>>
    <2>1. q \in Seq(Entry) /\ <<lo, hi>> \in Entry /\ io'.queue = Append(q, <<lo, hi>>)
        BY <1>1, <1>2, HioTypes DEF Entry, Core, Types
    <2> QED
        BY <2>1, AppendProperties
<1>4. written' \in 0..MaxBytes /\ written \in 0..MaxBytes
    BY BoundAssumption DEF Core, Types
<1>5. Types'
    BY <1>1, <1>2, <1>4 DEF Types, Core
<1>6. FlagsOK'
    BY <1>1, <1>2 DEF FlagsOK, Core
<1>7. QueueOK'
    <2>1. \A i \in 1..Len(q) : q[i][1] <= q[i][2] /\ q[i][2] <= written
        BY DEF Core, QueueOK
    <2>2. \A i \in 1..Len(q) - 1 : q[i + 1][1] = q[i][2] + 1
        BY DEF Core, QueueOK
    <2>3. ASSUME NEW i \in 1..Len(io'.queue)
          PROVE  io'.queue[i][1] <= io'.queue[i][2] /\ io'.queue[i][2] <= written'
        <3>1. CASE i = Len(q) + 1
            BY <1>3, <3>1
        <3>2. CASE i \in 1..Len(q)
            <4>1. q[i] \in Entry /\ io'.queue[i] = q[i]
                BY <1>3, <3>2
            <4>2. q[i][2] \in Nat /\ q[i][1] <= q[i][2] /\ q[i][2] <= written
                BY <2>1, <3>2, <4>1, BoundAssumption DEF Entry
            <4> QED
                BY <1>4, <4>1, <4>2, BoundAssumption
        <3> QED
            BY <1>3, <3>1, <3>2
    <2>4. ASSUME NEW i \in 1..Len(io'.queue) - 1
          PROVE  io'.queue[i + 1][1] = io'.queue[i][2] + 1
        <3>1. CASE i = Len(q)
            <4>1. q # <<>> /\ q[i][2] = lo - 1 /\ io'.queue[i] = q[i]
                BY <1>3, <3>1
            <4>2. io'.queue[i + 1] = <<lo, hi>>
                BY <1>3, <3>1
            <4> QED
                BY <4>1, <4>2
        <3>2. CASE i \in 1..Len(q) - 1
            <4>1. i \in 1..Len(q) /\ i + 1 \in 1..Len(q)
                BY <1>3, <3>2
            <4> QED
                BY <1>3, <2>2, <3>2, <4>1
        <3> QED
            BY <1>3, <3>1, <3>2
    <2>5. io'.qoff + Len(io'.queue) <= io'.qmax
        BY <1>1, <1>2
    <2> QED
        BY <2>3, <2>4, <2>5 DEF QueueOK
<1>8. Joined(0)'
    <2>1. io'.queue # <<>> /\ io'.queue[Len(io'.queue)][2] = written'
        BY <1>3
    <2>2. io'.queue[1][1] + 0 = Len(wire') + 1
        <3>1. CASE q = <<>>
            BY <1>3, <3>1
        <3>2. CASE q # <<>>
            BY <1>3, <3>2 DEF Joined
        <3> QED
            BY <3>1, <3>2
    <2> QED
        BY <2>1, <2>2 DEF Joined
<1>9. BytesOK'
    <2>1. Len(wire') <= written'
        BY <1>4 DEF Core, BytesOK, Types
    <2>2. \A i \in 1..Len(wire') : wire'[i] = i
        BY DEF Core, BytesOK
    <2> QED
        BY <1>8, <2>1, <2>2 DEF BytesOK, NotWriting, Writing, At
<1>10. CloseCbOnce' /\ GracefulClose'
    BY <1>1, <1>2 DEF CloseCbOnce, GracefulClose, Core, FlagsOK
<1> QED
    BY <1>5, <1>6, <1>7, <1>9, <1>10 DEF Core

LEMMA FirstEntry ==
    ASSUME Core, io.queue # <<>>
    PROVE  LET lo == io.queue[1][1]
               hi == io.queue[1][2]
           IN  /\ Head(io.queue) = io.queue[1]
               /\ lo \in 1..MaxBytes /\ hi \in 1..MaxBytes
               /\ lo <= hi /\ hi <= written
               /\ Len(io.queue) \in Nat /\ Len(io.queue) > 0
               /\ io.ready /\ io.id > 0 /\ ~io.closed
<1>1. /\ io.queue \in Seq(Entry) /\ Len(io.queue) \in Nat /\ Len(io.queue) > 0
      /\ Head(io.queue) = io.queue[1] /\ io.queue[1] \in Entry
    <2>1. io.queue \in Seq(Entry)
        BY HioTypes DEF Core, Types
    <2> QED
        BY <2>1, EmptySeq
<1>2. io.queue[1][1] \in 1..MaxBytes /\ io.queue[1][2] \in 1..MaxBytes
    BY <1>1 DEF Entry
<1>3. io.queue[1][1] <= io.queue[1][2] /\ io.queue[1][2] <= written
    BY <1>1 DEF Core, QueueOK
<1>4. io.ready /\ io.id > 0 /\ ~io.closed
    BY DEF Core, FlagsOK
<1> QED
    BY <1>1, <1>2, <1>3, <1>4

LEMMA RoomIsNat ==
    ASSUME Core
    PROVE  /\ Room \in Nat
           /\ \A a \in Nat : /\ Lesser(a, Room) \in Nat /\ Lesser(a, Room) <= a
                             /\ Lesser(a, Room) <= Room
                             /\ Room # 0 /\ a # 0 => Lesser(a, Room) > 0
BY BoundAssumption DEF Core, Types, Net, Room, Lesser

LEMMA NioWriteKeeps ==
    ASSUME Core, NioWrite
    PROVE  Core'
<1>1. /\ stack # <<>> /\ Top.at = "nio_write" /\ NotWriting
      /\ UNCHANGED <<pend, written>>
    BY DEF NioWrite, At, NotWriting, Writing
<1>2. io.id > 0
    BY <1>1, BelowFrames DEF Core, StackOK, Top
<1>3. ASSUME io.queue = <<>>, HioClose([io EXCEPT !.close = FALSE], Below),
             UNCHANGED <<net, wire, asks>>
      PROVE  Core'
    <2> DEFINE c == [io EXCEPT !.close = FALSE]
    <2>0. io \in Hio /\ c \in Hio
        BY HioSet DEF Core, Types
    <2>1. /\ c.queue = io.queue /\ c.qmax = io.qmax /\ c.qoff = io.qoff
          /\ c.id = io.id /\ c.closed = io.closed /\ c.error = io.error
          /\ c.ready = io.ready /\ ~c.close /\ c.active = io.active
          /\ c.events = io.events /\ c.timers = io.timers
        BY <2>0 DEF Hio
    <2> HIDE DEF c
    <2>2. Closable(c, Below)
        BY <1>1, <1>2, <1>3, <2>0, <2>1 DEF Closable, NotWriting
    <2>3. Counted(c)
        BY <1>1, <1>3 DEF Counted, Core, Types
    <2> QED
        BY <1>3, <2>2, <2>3, CloseKeeps DEF c
<1>4. ASSUME HioClose([io EXCEPT !.error = TRUE], Below), Asked, UNCHANGED <<net, wire>>
      PROVE  Core'
    BY <1>1, <1>2, <1>4, ErrorCloses, AskedCounts, CloseKeeps
<1>5. ASSUME stack' = Below, UNCHANGED <<io, net, wire, asks, closes>>
      PROVE  Core'
    BY <1>1, <1>5, PopsKeep, StackChanges DEF Core, Types, FlagsOK, app
<1>6. ASSUME io.queue # <<>>, ~Broken, Room > 0,
             NEW lo, lo = io.queue[1][1], NEW hi, hi = io.queue[1][2],
             NEW n, n = Lesser(hi - lo + 1, Room), Deliver(lo, n),
             stack' = Append(Below, [at |-> "queue_write_cb", lo |-> lo,
                                     hi |-> lo + n - 1, qid |-> io.qid]),
             UNCHANGED <<io, asks, closes>>
      PROVE  Core'
    <2>1. /\ lo \in 1..MaxBytes /\ hi \in 1..MaxBytes /\ lo <= hi /\ hi <= written
          /\ io.ready /\ ~io.closed
        BY <1>6, FirstEntry
    <2>2. n \in Nat /\ n > 0 /\ n <= hi - lo + 1 /\ n <= Room
        <3>1. hi - lo + 1 \in Nat /\ hi - lo + 1 # 0
            BY <2>1, BoundAssumption
        <3>2. Room # 0
            BY <1>6, RoomIsNat
        <3> QED
            BY <1>6, <3>1, <3>2, RoomIsNat
    <2>3. Joined(0) /\ lo = Len(wire) + 1 /\ Len(wire) \in Nat
        BY <1>1, <1>6, <2>1 DEF Core, BytesOK, NotWriting, Writing, At, Joined, Types
    <2>4. /\ wire' \in Seq(1..MaxBytes) /\ Len(wire') = Len(wire) + n
          /\ \A i \in 1..Len(wire') : wire'[i] = i
          /\ net' \in Net /\ net'.fd = net.fd
        <3>1. lo + n - 1 <= MaxBytes
            BY <2>1, <2>2, BoundAssumption
        <3> QED
            BY <1>6, <2>1, <2>2, <2>3, <3>1, Delivered
    <2> DEFINE f == [at |-> "queue_write_cb", lo |-> lo, hi |-> lo + n - 1,
                     qid |-> io.qid]
    <2>5. /\ f \in FrameSet /\ f.at = "queue_write_cb" /\ f.lo = lo
          /\ f.hi = lo + n - 1 /\ f.qid = io.qid
        BY <2>1, <2>2, HioTypes DEF FrameSet, FrameAt, Core, Types
    <2> HIDE DEF f
    <2>6. /\ stack' \in Seq(FrameSet) /\ StackOK' /\ stack' # <<>> /\ Top' = f
        BY <1>1, <1>6, <2>5, PushesKeep DEF f
    <2>7. Types'
        BY <1>1, <1>6, <2>4, <2>6 DEF Core, Types
    <2>8. FlagsOK' /\ QueueOK' /\ CloseCbOnce' /\ GracefulClose'
        BY <1>1, <1>6, <2>1, <2>4
           DEF Core, FlagsOK, QueueOK, CloseCbOnce, GracefulClose
    <2>9. BytesOK'
        <3>1. Len(wire') <= written'
            BY <1>1, <2>1, <2>2, <2>3, <2>4 DEF Core, Types
        <3>2. Joined(n)'
            <4>1. /\ lo + n = Len(wire) + n + 1
                  /\ io.queue[Len(io.queue)][2] = written
                BY <1>6, <2>2, <2>3 DEF Joined
            <4>2. /\ io'.queue # <<>> /\ io'.queue[1][1] + n = Len(wire') + 1
                  /\ io'.queue[Len(io'.queue)][2] = written'
                BY <1>1, <1>6, <2>2, <2>3, <2>4, <4>1
            <4> QED
                BY <4>2 DEF Joined
        <3>3. Top'.hi - Top'.lo + 1 = n
            BY <2>1, <2>2, <2>5, <2>6
        <3>4. /\ Top'.lo = io'.queue[1][1] /\ Top'.qid = io'.qid
              /\ Top'.lo <= Top'.hi /\ Top'.hi <= io'.queue[1][2]
              /\ io'.queue # <<>> /\ ~io'.closed
            BY <1>6, <2>1, <2>2, <2>5, <2>6
        <3>5. ~At("write_cb")' /\ At("queue_write_cb")'
            BY <2>5, <2>6 DEF At
        <3> QED
            BY <2>4, <3>1, <3>2, <3>3, <3>4, <3>5 DEF BytesOK
    <2> QED
        BY <2>6, <2>7, <2>8, <2>9 DEF Core
<1>7. io.queue # <<>> => Head(io.queue) = io.queue[1]
    BY FirstEntry
<1> QED
    BY <1>3, <1>4, <1>5, <1>6, <1>7 DEF NioWrite

LEMMA HioWriteKeeps ==
    ASSUME Core, InWriteCb = {}, NEW len \in Lens, HioWrite(len)
    PROVE  Core'
<1> DEFINE lo == written + 1
           hi == written + len
           n == Lesser(len, Room)
<1>1. /\ NotWriting /\ stack # <<>> /\ io.ready /\ ~io.closed /\ io.id > 0
      /\ io.active \/ io.events = {}
    BY MayCallTop DEF HioWrite, Core, FlagsOK
<1>2. /\ written \in Nat /\ len \in Nat /\ len > 0 /\ written' = written + len
      /\ written' \in 0..MaxBytes /\ lo \in 1..MaxBytes /\ hi \in 1..MaxBytes
      /\ lo <= hi /\ UNCHANGED pend
    BY BoundAssumption DEF HioWrite, Core, Types
<1>3. Joined(0) /\ (io.queue = <<>> => Len(wire) = written)
    BY <1>1 DEF Core, BytesOK, NotWriting, Writing, At, Joined
<1>4. /\ stack \in Seq(FrameSet) /\ StackOK /\ io \in Hio /\ wire \in Seq(1..MaxBytes)
      /\ Len(wire) \in Nat
    BY DEF Core, Types
<1>5. CASE io.queue # <<>> /\ io' = Push(io, lo, hi)
           /\ UNCHANGED <<net, stack, wire, asks, closes>>
    <2>1. io.active /\ "W" \in io.events
        BY <1>5 DEF Core, FlagsOK
    <2>2. io.queue[Len(io.queue)][2] = lo - 1
        BY <1>2, <1>3, <1>5 DEF Joined
    <2>3. io'.id = io.id /\ io'.closed = io.closed
        BY <1>2, <1>4, <1>5, PushFields DEF Core, QueueOK
    <2>4. StackOK' /\ NotWriting' /\ stack' \in Seq(FrameSet)
        BY <1>1, <1>4, <1>5, <2>3 DEF StackOK, NotWriting, Top
    <2> QED
        BY <1>1, <1>2, <1>3, <1>4, <1>5, <2>1, <2>2, <2>4, QueueGrows
<1>6. CASE io.queue = <<>> /\ HioClose([io EXCEPT !.error = TRUE], stack) /\ Asked
           /\ UNCHANGED <<net, wire>>
    <2> DEFINE c == [io EXCEPT !.error = TRUE]
    <2>1. Closable(c, stack) /\ c.error
        BY <1>1, <1>4, ErrorCloses DEF Hio
    <2> HIDE DEF c
    <2>2. Counted(c)
        BY <1>1, <1>2, <1>6, <2>1, BoundAssumption DEF Counted, Asked, Core, Types
    <2> QED
        BY <1>6, <2>1, <2>2, CloseKeeps DEF c
<1>7. CASE io.queue = <<>> /\ io' = Push(HioAdd(io, "W"), lo, hi)
           /\ UNCHANGED <<net, stack, wire, asks, closes>>
    <2> DEFINE c == HioAdd(io, "W")
    <2>1. /\ c \in Hio /\ c.ready /\ c.id = io.id /\ c.closed = io.closed
          /\ c.error = io.error /\ c.close = io.close /\ c.timers = io.timers
          /\ c.queue = io.queue /\ c.qmax = io.qmax /\ c.qoff = io.qoff
          /\ c.active /\ "W" \in c.events
        BY <1>1, <1>4, HioAddFields
    <2> HIDE DEF c
    <2>2. io'.id = io.id /\ io'.closed = io.closed
        BY <1>2, <1>7, <2>1, PushFields DEF Core, QueueOK, c
    <2>3. StackOK' /\ NotWriting' /\ stack' \in Seq(FrameSet)
        BY <1>1, <1>4, <1>7, <2>2 DEF StackOK, NotWriting, Top
    <2> QED
        BY <1>1, <1>2, <1>3, <1>7, <2>1, <2>3, QueueGrows DEF c
<1>8. CASE /\ io.queue = <<>> /\ ~Broken /\ n > 0 /\ Deliver(lo, n)
           /\ stack' = Append(stack, [Frame("write_cb") EXCEPT !.lo = lo + n, !.hi = hi])
           /\ UNCHANGED <<io, asks, closes>>
    <2>1. n \in Nat /\ n <= len /\ n <= Room
        BY <1>2, RoomIsNat
    <2>2. lo = Len(wire) + 1 /\ lo + n - 1 <= MaxBytes
        BY <1>2, <1>3, <1>8, <2>1, BoundAssumption
    <2>3. /\ wire' \in Seq(1..MaxBytes) /\ Len(wire') = Len(wire) + n
          /\ \A i \in 1..Len(wire') : wire'[i] = i
          /\ net' \in Net /\ net'.fd = net.fd
        BY <1>2, <1>8, <2>1, <2>2, Delivered
    <2> DEFINE f == [Frame("write_cb") EXCEPT !.lo = lo + n, !.hi = hi]
    <2>4. f \in FrameSet /\ f.at = "write_cb" /\ f.lo = lo + n /\ f.hi = hi
        <3> DEFINE g == [Frame("write_cb") EXCEPT !.lo = lo + n]
        <3>1. lo + n \in Nat /\ hi \in Nat
            BY <1>2, <2>1
        <3>2. Frame("write_cb") \in FrameSet /\ Frame("write_cb").at = "write_cb"
            BY NewFrame DEF FrameAt
        <3> HIDE DEF n, lo, hi
        <3>3. g \in FrameSet /\ g.at = "write_cb" /\ g.lo = lo + n
            BY <3>1, <3>2 DEF FrameSet
        <3>4. f = [g EXCEPT !.hi = hi]
            OBVIOUS
        <3> HIDE DEF f, g
        <3> QED
            BY <3>1, <3>3, <3>4 DEF FrameSet
    <2> HIDE DEF f
    <2>5. /\ stack' \in Seq(FrameSet) /\ StackOK' /\ stack' # <<>> /\ Top' = f
        BY <1>1, <1>8, <2>4, PushesKeep DEF f
    <2>6. Types'
        BY <1>2, <1>8, <2>3, <2>5 DEF Core, Types
    <2>7. FlagsOK' /\ QueueOK' /\ CloseCbOnce' /\ GracefulClose'
        BY <1>1, <1>8, <2>3
           DEF Core, FlagsOK, QueueOK, CloseCbOnce, GracefulClose
    <2>8. BytesOK'
        <3>1. Len(wire') <= written'
            BY <1>2, <1>3, <1>8, <2>1, <2>3
        <3>2. Top'.lo = Len(wire') + 1 /\ Top'.hi = written'
            BY <1>2, <1>4, <2>1, <2>2, <2>3, <2>4, <2>5
        <3>3. /\ At("write_cb")' /\ ~At("queue_write_cb")'
              /\ io'.ready /\ io'.queue = <<>> /\ ~io'.closed
            BY <1>1, <1>8, <2>4, <2>5 DEF At
        <3> QED
            BY <2>3, <3>1, <3>2, <3>3 DEF BytesOK
    <2> QED
        BY <2>5, <2>6, <2>7, <2>8 DEF Core
<1> QED
    BY <1>5, <1>6, <1>7, <1>8 DEF HioWrite

LEMMA WriteCbReturnsKeeps ==
    ASSUME Core, WriteCbReturns
    PROVE  Core'
<1>1. /\ stack # <<>> /\ stack' = Below /\ Top.at = "write_cb" /\ At("write_cb")
      /\ ~At("queue_write_cb")
      /\ UNCHANGED <<net, pend, written, wire, asks, closes>>
    BY DEF WriteCbReturns, At, app
<1>2. /\ ~io.closed /\ io.ready /\ io.id > 0 /\ io.queue = <<>>
      /\ Top.lo = Len(wire) + 1 /\ Top.hi = written
    <2>1. ~io.closed
        BY <1>1 DEF Core, BytesOK, Writing
    <2>2. /\ io.ready /\ io.queue = <<>>
          /\ Top.lo = Len(wire) + 1 /\ Top.hi = written
        BY <1>1, <2>1 DEF Core, BytesOK
    <2> QED
        BY <2>1, <2>2 DEF Core, FlagsOK
<1>3. /\ io \in Hio /\ written \in 0..MaxBytes /\ wire \in Seq(1..MaxBytes)
      /\ Len(wire) \in Nat /\ Len(wire) <= written
    BY DEF Core, Types, BytesOK
<1>4. CASE Top.lo > Top.hi
    <2>1. io' = io
        BY <1>4 DEF WriteCbReturns
    <2>2. Below \in Seq(FrameSet) /\ StackOK' /\ NotWriting'
        BY <1>1, <2>1, PopsKeep
    <2>3. Types' /\ FlagsOK' /\ QueueOK' /\ CloseCbOnce' /\ GracefulClose'
        BY <1>1, <2>1, <2>2
           DEF Core, Types, FlagsOK, QueueOK, CloseCbOnce, GracefulClose
    <2>4. BytesOK'
        <3>1. Joined(0)'
            BY <1>1, <1>2, <1>3, <1>4, <2>1 DEF Joined
        <3> QED
            BY <1>1, <2>1, <2>2, <3>1 DEF Core, BytesOK, NotWriting, Writing, At
    <2> QED
        BY <2>2, <2>3, <2>4 DEF Core
<1>5. CASE ~(Top.lo > Top.hi)
    <2> DEFINE c == HioAdd(io, "W")
               lo == Top.lo
               hi == Top.hi
    <2>1. io' = Push(c, lo, hi)
        BY <1>5 DEF WriteCbReturns
    <2>2. /\ lo \in 1..MaxBytes /\ hi \in 1..MaxBytes /\ lo <= hi
          /\ hi = written' /\ written' >= written /\ lo = Len(wire) + 1
        BY <1>1, <1>2, <1>3, <1>5, BoundAssumption
    <2> HIDE DEF lo, hi
    <2>3. /\ c \in Hio /\ c.ready /\ c.id = io.id /\ c.closed = io.closed
          /\ c.error = io.error /\ c.close = io.close /\ c.timers = io.timers
          /\ c.queue = io.queue /\ c.qmax = io.qmax /\ c.qoff = io.qoff
          /\ c.active /\ "W" \in c.events
        BY <1>2, <1>3, HioAddFields
    <2> HIDE DEF c
    <2>4. io'.id = io.id /\ io'.closed = io.closed
        BY <2>1, <2>2, <2>3, PushFields DEF Core, QueueOK
    <2>5. Below \in Seq(FrameSet) /\ StackOK' /\ NotWriting'
        BY <1>1, <2>4, PopsKeep
    <2>6. stack' \in Seq(FrameSet)
        BY <1>1, <2>5
    <2> QED
        BY <1>1, <1>2, <2>1, <2>2, <2>3, <2>5, <2>6, QueueGrows
<1> QED
    BY <1>4, <1>5

LEMMA QueueWriteCbReturnsKeeps ==
    ASSUME Core, QueueWriteCbReturns
    PROVE  Core'
<1> DEFINE q == io.queue
<1>1. /\ stack # <<>> /\ Top.at = "queue_write_cb" /\ At("queue_write_cb")
      /\ ~At("write_cb")
      /\ UNCHANGED <<net, pend, written, wire, asks, closes>>
    BY DEF QueueWriteCbReturns, At, app
<1>2. /\ ~io.closed /\ q # <<>> /\ Top.lo = q[1][1]
      /\ Top.lo <= Top.hi /\ Top.hi <= q[1][2] /\ Joined(Top.hi - Top.lo + 1)
    BY <1>1 DEF Core, BytesOK, Writing
<1>3. /\ Head(q) = q[1] /\ q[1][1] \in 1..MaxBytes /\ q[1][2] \in 1..MaxBytes
      /\ q[1][2] <= written /\ Len(q) \in Nat /\ Len(q) > 0
      /\ io.ready /\ io.id > 0
    BY <1>2, FirstEntry
<1>4. /\ io \in Hio /\ wire \in Seq(1..MaxBytes) /\ Len(wire) \in Nat
      /\ written \in Nat /\ MaxBytes \in Nat
      /\ q \in Seq(Entry) /\ Top \in FrameSet /\ Top.hi \in Nat /\ Top.lo \in Nat
    <2>1. /\ io \in Hio /\ wire \in Seq(1..MaxBytes) /\ Len(wire) \in Nat
          /\ written \in Nat /\ MaxBytes \in Nat
        BY BoundAssumption DEF Core, Types
    <2>2. q \in Seq(Entry)
        BY <2>1, HioTypes
    <2>3. Top \in FrameSet
        BY <1>1, BelowFrames DEF Core, Types
    <2>4. Top.hi \in Nat /\ Top.lo \in Nat
        BY <2>3 DEF FrameSet
    <2> QED
        BY <2>1, <2>2, <2>3, <2>4
<1>5. Len(wire) = Top.hi /\ q[Len(q)][2] = written
    BY <1>2, <1>3, <1>4 DEF Joined
<1>6. /\ Below \in Seq(FrameSet) /\ Len(Below) \in Nat /\ Len(stack) \in Nat
      /\ \A i \in 1..Len(Below) : /\ i \in 1..Len(stack) /\ Below[i] = stack[i]
                                  /\ Below[i].at \notin Writing
    BY <1>1, BelowFrames DEF Core, StackOK
<1>7. CASE Top.hi = Head(q)[2]
    <2> DEFINE w == Frame("nio_write")
    <2>1. /\ io' \in Hio /\ io'.queue = Tail(q)
          /\ io'.qoff + Len(io'.queue) <= io'.qmax
          /\ io'.ready = io.ready /\ io'.closed = io.closed /\ io'.close = io.close
          /\ io'.error = io.error /\ io'.active = io.active /\ io'.id = io.id
          /\ io'.events = io.events /\ io'.timers = io.timers
        BY <1>2, <1>4, <1>7, PopFields DEF QueueWriteCbReturns, Core, QueueOK
    <2>2. stack' = Append(Below, w) /\ w \in FrameSet /\ w.at = "nio_write"
        BY <1>7, NewFrame DEF QueueWriteCbReturns, FrameAt
    <2> HIDE DEF w
    <2>3. /\ stack' \in Seq(FrameSet) /\ Len(stack') = Len(Below) + 1
          /\ \A i \in 1..Len(Below) : stack'[i] = Below[i]
          /\ stack'[Len(Below) + 1] = w
        BY <1>6, <2>2
    <2>4. StackOK' /\ NotWriting'
        BY <1>1, <1>2, <1>3, <1>6, <2>1, <2>2, <2>3
           DEF StackOK, Core, NotWriting, Top, Writing
    <2>5. /\ Len(io'.queue) = Len(q) - 1
          /\ \A i \in 1..Len(io'.queue) : io'.queue[i] = q[i + 1]
        BY <1>2, <1>4, <2>1, HeadTailProperties
    <2>6. Types' /\ FlagsOK' /\ CloseCbOnce' /\ GracefulClose'
        <3>1. io'.queue # <<>> => q # <<>>
            BY <1>2
        <3> QED
            BY <1>1, <1>2, <2>1, <2>3, <3>1
               DEF Core, Types, FlagsOK, CloseCbOnce, GracefulClose
    <2>7. QueueOK'
        <3>1. \A i \in 1..Len(q) : q[i][1] <= q[i][2] /\ q[i][2] <= written
            BY DEF Core, QueueOK
        <3>2. \A i \in 1..Len(q) - 1 : q[i + 1][1] = q[i][2] + 1
            BY DEF Core, QueueOK
        <3>3. ASSUME NEW i \in 1..Len(io'.queue)
              PROVE  io'.queue[i][1] <= io'.queue[i][2] /\ io'.queue[i][2] <= written'
            <4>1. i + 1 \in 1..Len(q) /\ io'.queue[i] = q[i + 1]
                BY <1>3, <2>5
            <4> QED
                BY <1>1, <3>1, <4>1
        <3>4. ASSUME NEW i \in 1..Len(io'.queue) - 1
              PROVE  io'.queue[i + 1][1] = io'.queue[i][2] + 1
            <4>1. /\ i + 1 \in 1..Len(q) - 1 /\ io'.queue[i] = q[i + 1]
                  /\ io'.queue[i + 1] = q[i + 1 + 1]
                BY <1>3, <2>5
            <4> QED
                BY <3>2, <4>1
        <3> QED
            BY <2>1, <3>3, <3>4 DEF QueueOK
    <2>8. Joined(0)'
        <3>1. CASE Len(q) = 1
            <4> io'.queue \in Seq(Entry)
                BY <2>1, HioTypes
            <4>1. Len(io'.queue) = 0
                BY <2>5, <3>1
            <4>2. io'.queue = <<>>
                BY <4>1, EmptySeq
            <4>3. Len(wire) = written
                BY <1>3, <1>5, <1>7, <3>1
            <4> QED
                BY <1>1, <4>2, <4>3 DEF Joined
        <3>2. CASE Len(q) > 1
            <4>1. /\ 1 \in 1..Len(q) - 1 /\ 1 \in 1..Len(io'.queue)
                  /\ Len(io'.queue) \in 1..Len(io'.queue) /\ io'.queue # <<>>
                BY <1>3, <2>5, <3>2
            <4>2. q[1 + 1][1] = q[1][2] + 1
                BY <4>1 DEF Core, QueueOK
            <4>3. io'.queue[1][1] = Len(wire) + 1
                BY <1>3, <1>5, <1>7, <2>5, <4>1, <4>2
            <4>4. io'.queue[Len(io'.queue)] = q[Len(q)]
                BY <1>3, <2>5, <4>1
            <4> QED
                BY <1>1, <1>4, <1>5, <4>1, <4>3, <4>4 DEF Joined
        <3>3. Len(q) = 1 \/ Len(q) > 1
            <4>1. Len(q) \in Nat /\ Len(q) > 0
                BY <1>3
            <4>2. \A n \in Nat : n > 0 => n = 1 \/ n > 1
                OBVIOUS
            <4> QED
                BY <4>1, <4>2, Zenon
        <3> QED
            BY <3>1, <3>2, <3>3
    <2>9. BytesOK'
        BY <1>1, <1>2, <2>1, <2>4, <2>8 DEF Core, BytesOK, NotWriting, Writing, At
    <2> QED
        BY <2>4, <2>6, <2>7, <2>9 DEF Core
<1>8. CASE Top.hi # Head(q)[2]
    <2> DEFINE e == <<Top.hi + 1, q[1][2]>>
               r == [q EXCEPT ![1] = e]
    <2>1. io' = [io EXCEPT !.queue = r] /\ stack' = Below
        BY <1>8 DEF QueueWriteCbReturns
    <2>2. e \in Entry /\ e[1] = Top.hi + 1 /\ e[2] = q[1][2] /\ e[1] <= e[2]
        BY <1>2, <1>3, <1>4, <1>8 DEF Entry
    <2> HIDE DEF e
    <2>3. /\ r \in Seq(Entry) /\ Len(r) = Len(q) /\ r[1] = e
          /\ \A i \in 1..Len(q) : i # 1 => r[i] = q[i]
        BY <1>3, <1>4, <2>2, ExceptSeq
    <2> HIDE DEF r
    <2>4. io' \in Hio
        BY <1>4, <2>1, <2>3, HioSet
    <2>5. /\ io'.queue = r /\ io'.qoff = io.qoff /\ io'.qmax = io.qmax
          /\ io'.ready = io.ready /\ io'.closed = io.closed /\ io'.close = io.close
          /\ io'.error = io.error /\ io'.active = io.active /\ io'.id = io.id
          /\ io'.events = io.events /\ io'.timers = io.timers
        BY <1>4, <2>1 DEF Hio
    <2>6. Below \in Seq(FrameSet) /\ StackOK' /\ NotWriting'
        BY <1>1, <2>1, <2>5, PopsKeep
    <2>7. Types' /\ FlagsOK' /\ CloseCbOnce' /\ GracefulClose'
        BY <1>1, <1>2, <2>1, <2>4, <2>5, <2>6
           DEF Core, Types, FlagsOK, CloseCbOnce, GracefulClose
    <2>8. QueueOK'
        <3>1. \A i \in 1..Len(q) : q[i][1] <= q[i][2] /\ q[i][2] <= written
            BY DEF Core, QueueOK
        <3>2. \A i \in 1..Len(q) - 1 : q[i + 1][1] = q[i][2] + 1
            BY DEF Core, QueueOK
        <3>3. \A i \in 1..Len(r) : r[i][1] <= r[i][2] /\ r[i][2] = q[i][2]
            BY <2>2, <2>3, <3>1
        <3>4. ASSUME NEW i \in 1..Len(r) - 1
              PROVE  r[i + 1][1] = r[i][2] + 1
            <4>1. i \in 1..Len(q) /\ i + 1 \in 1..Len(q) /\ i + 1 # 1
                BY <1>3, <2>3
            <4> QED
                BY <2>3, <3>2, <3>3, <4>1
        <3> QED
            BY <1>1, <2>3, <2>5, <3>1, <3>3, <3>4 DEF Core, QueueOK
    <2>9. Joined(0)'
        <3>1. r # <<>> /\ r[1][1] = Len(wire) + 1 /\ r[Len(r)][2] = written
            BY <1>3, <1>5, <2>2, <2>3, EmptySeq
        <3> QED
            BY <1>1, <1>4, <2>5, <3>1 DEF Joined
    <2>10. BytesOK'
        BY <1>1, <1>2, <2>5, <2>6, <2>9 DEF Core, BytesOK, NotWriting, Writing, At
    <2> QED
        BY <2>6, <2>7, <2>8, <2>10 DEF Core
<1> QED
    BY <1>7, <1>8

-----------------------------------------------------------------------------
(* A new connection, that stays open or is closed at once.                 *)
LEMMA OpensKeep ==
    ASSUME Core, ~io.ready, io.id < MaxIds,
           io' \in Hio, io'.id = io.id + 1, io'.queue = <<>>,
           io'.qoff <= io'.qmax, ~io'.active => io'.events = {},
           ~io'.error, net' \in Net, pend' \in BOOLEAN,
           written' = 0, wire' = <<>>, asks' = 0,
           stack' \in Seq(FrameSet), StackOK', NotWriting',
           \/ /\ io'.ready /\ ~io'.closed /\ ~io'.close
              /\ net'.fd # "closed" /\ closes' = closes
           \/ /\ ~io'.ready /\ io'.closed /\ ~io'.active /\ io'.timers = {}
              /\ closes' = [closes EXCEPT ![io.id + 1] = @ + 1]
    PROVE  Core'
<1>1. /\ io \in Hio /\ io.id \in Nat /\ io.id + 1 \in Ids /\ MaxBytes \in Nat
      /\ closes \in [Ids -> Nat]
    <2>1. io \in Hio /\ closes \in [Ids -> Nat]
        BY DEF Core, Types
    <2>2. io.id \in 0..MaxIds
        BY <2>1, HioTypes
    <2> QED
        BY <2>1, <2>2, BoundAssumption DEF Ids
<1>2. io.id = 0 \/ io.closed
    BY <1>1 DEF Core, FlagsOK
<1>3. Types'
    BY <1>1 DEF Types
<1>4. FlagsOK'
    BY <1>1 DEF FlagsOK
<1>5. QueueOK'
    <2>1. io'.qoff \in Nat /\ io'.qmax \in Nat
        BY HioTypes
    <2> QED
        BY <2>1 DEF QueueOK
<1>6. BytesOK'
    <2>1. Joined(0)'
        BY DEF Joined
    <2> QED
        BY <2>1 DEF BytesOK, NotWriting, Writing, At
<1>7. CloseCbOnce'
    <2>1. \A i \in Ids : closes[i] = IF i < io.id + 1 THEN 1 ELSE 0
        BY <1>1, <1>2 DEF Core, CloseCbOnce, Ids
    <2>2. CASE ~io'.closed /\ closes' = closes
        BY <2>1, <2>2 DEF CloseCbOnce
    <2>3. CASE io'.closed /\ closes' = [closes EXCEPT ![io.id + 1] = @ + 1]
        <3>1. ASSUME NEW i \in Ids
              PROVE  closes'[i] = IF i < io.id + 1 \/ i = io.id + 1 THEN 1 ELSE 0
            <4>1. i \in Nat /\ closes[i] = IF i < io.id + 1 THEN 1 ELSE 0
                BY <2>1 DEF Ids
            <4> QED
                BY <1>1, <2>3, <4>1
        <3> QED
            BY <2>3, <3>1 DEF CloseCbOnce
    <2> QED
        BY <2>2, <2>3
<1>8. GracefulClose'
    BY DEF GracefulClose
<1> QED
    BY <1>3, <1>4, <1>5, <1>6, <1>7, <1>8 DEF Core

LEMMA NewStack ==
    ASSUME NEW f \in FrameSet, stack' = <<f>>, f.at \notin Writing,
           f.at \in {"accept_cb", "other_cb"}
    PROVE  stack' \in Seq(FrameSet) /\ StackOK' /\ NotWriting'
BY DEF StackOK, NotWriting, Top, Writing

LEMMA NioAcceptKeeps ==
    ASSUME Core, NioAccept
    PROVE  Core'
<1> DEFINE r == HioReady(io)
           f == Frame("accept_cb")
<1>1. /\ ~io.ready /\ io.id < MaxIds /\ io' = r /\ stack' = <<f>>
      /\ written' = 0 /\ wire' = <<>> /\ asks' = 0 /\ closes' = closes
      /\ pend' = pend
      /\ net' = [fd |-> "open", sent |-> 0, avail |-> 0, eof |-> FALSE,
                 err |-> FALSE]
    BY DEF NioAccept, NewConnection
<1>2. io \in Hio /\ pend \in BOOLEAN /\ ~io.active /\ io.queue = <<>>
    BY <1>1 DEF Core, Types, FlagsOK
<1>3. net' \in Net /\ net'.fd = "open"
    BY <1>1, BoundAssumption DEF Net
<1>4. /\ r \in Hio /\ r.ready /\ ~r.closed /\ ~r.close /\ ~r.error
      /\ r.events = {} /\ r.id = io.id + 1 /\ r.queue = <<>>
      /\ r.qoff = io.qoff /\ r.qmax = io.qmax
    BY <1>1, <1>2, HioReadyFields
<1>5. io.qoff <= io.qmax
    <2>1. io.qoff \in Nat /\ io.qmax \in Nat
        BY <1>2, HioTypes
    <2> QED
        BY <1>2, <2>1 DEF Core, QueueOK
<1>6. f \in FrameSet /\ f.at = "accept_cb"
    BY NewFrame DEF FrameAt
<1> HIDE DEF r, f
<1>7. stack' \in Seq(FrameSet) /\ StackOK' /\ NotWriting'
    BY <1>1, <1>6, NewStack DEF Writing
<1> QED
    BY <1>1, <1>2, <1>3, <1>4, <1>5, <1>7, OpensKeep

LEMMA HioConnectKeeps ==
    ASSUME Core, InWriteCb = {}, HioConnect
    PROVE  Core'
<1> DEFINE r == HioReady(io)
           f == Frame("connect_cb")
           g == Frame("close_cb")
           a == [r EXCEPT !.connect = TRUE, !.timers = {"connect"}]
           b == HioAdd(a, "W")
           d == [HioDone([r EXCEPT !.closed = TRUE]) EXCEPT !.timers = {}]
<1>1. /\ ~io.ready /\ io.id < MaxIds /\ pend' = pend
      /\ written' = 0 /\ wire' = <<>> /\ asks' = 0
      /\ stack # <<>> /\ NotWriting /\ net.fd = "closed"
    BY MayCallTop DEF HioConnect, NewConnection
<1>2. /\ io \in Hio /\ pend \in BOOLEAN /\ ~io.active /\ io.queue = <<>>
      /\ stack \in Seq(FrameSet)
    BY <1>1 DEF Core, Types, FlagsOK
<1>3. net' \in Net /\ net'.fd # "closed"
    <2>1. \E fd \in {"connecting", "open"} :
            net' = [fd |-> fd, sent |-> 0, avail |-> 0, eof |-> FALSE, err |-> FALSE]
        BY DEF HioConnect, NewConnection
    <2>2. 0 \in 0..SendBuf /\ 0 \in 0..ReadBuf
        BY BoundAssumption
    <2> QED
        BY <2>1, <2>2 DEF Net
<1>4. /\ r \in Hio /\ r.ready /\ ~r.closed /\ ~r.close /\ ~r.error
      /\ r.events = {} /\ r.id = io.id + 1 /\ r.queue = <<>>
      /\ r.qoff = io.qoff /\ r.qmax = io.qmax
    BY <1>1, <1>2, HioReadyFields
<1>5. io.qoff <= io.qmax
    <2>1. io.qoff \in Nat /\ io.qmax \in Nat
        BY <1>2, HioTypes
    <2> QED
        BY <1>2, <2>1 DEF Core, QueueOK
<1>6. io.id \in Nat /\ io.id + 1 > 0
    BY <1>2, HioTypes
<1>7. f \in FrameSet /\ f.at = "connect_cb" /\ g \in FrameSet /\ g.at = "close_cb"
    BY NewFrame DEF FrameAt
<1>8. \/ io' = b /\ stack' = stack /\ closes' = closes
      \/ io' = r /\ stack' = Append(stack, f) /\ closes' = closes
      \/ /\ io' = d /\ stack' = Append(stack, g)
         /\ closes' = [closes EXCEPT ![r.id] = @ + 1]
    BY DEF HioConnect, CloseNow
<1>9. /\ b \in Hio /\ b.ready /\ ~b.closed /\ ~b.close /\ ~b.error /\ b.active
      /\ b.id = io.id + 1 /\ b.queue = <<>>
      /\ b.qoff = io.qoff /\ b.qmax = io.qmax
    <2>1. a \in Hio
        BY <1>4, HioSet DEF Timers
    <2>2. /\ a.ready /\ ~a.closed /\ ~a.close /\ ~a.error
          /\ a.id = io.id + 1 /\ a.queue = <<>>
          /\ a.qoff = io.qoff /\ a.qmax = io.qmax
        BY <1>4 DEF Hio
    <2> HIDE DEF a, r
    <2> QED
        BY <2>1, <2>2, HioAddFields
<1>10. /\ d \in Hio /\ ~d.ready /\ d.closed /\ ~d.active
       /\ d.events = {} /\ d.timers = {} /\ d.queue = <<>>
       /\ d.qmax = 0 /\ d.qoff = 0 /\ d.id = io.id + 1 /\ ~d.error
    <2> HIDE DEF r
    <2> QED
        BY <1>4, CloseFields
<1> HIDE DEF r, f, g, a, b, d
<1>11. \A i \in 1..Len(stack) : stack[i].at # "close_cb"
    BY <1>1 DEF Core, StackOK
<1>12. CASE io' = b /\ stack' = stack /\ closes' = closes
    <2>1. stack' \in Seq(FrameSet) /\ NotWriting'
        BY <1>1, <1>2, <1>12 DEF NotWriting, Top
    <2>2. StackOK'
        BY <1>6, <1>9, <1>11, <1>12 DEF Core, StackOK
    <2> QED
        BY <1>1, <1>2, <1>3, <1>5, <1>9, <1>12, <2>1, <2>2, OpensKeep
<1>13. CASE io' = r /\ stack' = Append(stack, f) /\ closes' = closes
    <2>1. stack' \in Seq(FrameSet) /\ StackOK' /\ NotWriting'
        BY <1>1, <1>4, <1>6, <1>7, <1>13, PushesKeep DEF Writing
    <2> QED
        BY <1>1, <1>2, <1>3, <1>4, <1>5, <1>13, <2>1, OpensKeep
<1>14. CASE /\ io' = d /\ stack' = Append(stack, g)
            /\ closes' = [closes EXCEPT ![r.id] = @ + 1]
    <2>1. stack' \in Seq(FrameSet) /\ StackOK' /\ NotWriting'
        BY <1>1, <1>3, <1>6, <1>7, <1>10, <1>14, PushesKeep DEF Writing
    <2> QED
        BY <1>1, <1>2, <1>3, <1>4, <1>10, <1>14, <2>1, OpensKeep
<1> QED
    BY <1>8, <1>12, <1>13, <1>14

-----------------------------------------------------------------------------
(* The inductive invariant.                                                *)
LEMMA CoreInit == Init => Core
<1> SUFFICES ASSUME Init PROVE Core
    OBVIOUS
<1>1. io \in Hio
    <2>1. <<>> \in Seq(Entry) /\ 0 \in 0..MaxIds /\ {} \subseteq Timers
        BY BoundAssumption
    <2> QED
        BY <2>1 DEF Init, Hio
<1>2. net \in Net
    BY BoundAssumption DEF Init, Net
<1>3. Types
    <2>1. /\ stack \in Seq(FrameSet) /\ pend \in BOOLEAN /\ asks \in Nat
          /\ wire \in Seq(1..MaxBytes)
        <3>1. stack = <<>> /\ pend = FALSE /\ asks = 0 /\ wire = <<>>
            BY DEF Init
        <3> QED
            BY <3>1, EmptySeq
    <2>2. written \in 0..MaxBytes
        BY BoundAssumption DEF Init
    <2>3. closes \in [Ids -> Nat]
        BY DEF Init
    <2> QED
        BY <1>1, <1>2, <2>1, <2>2, <2>3 DEF Types
<1>4. FlagsOK /\ StackOK /\ QueueOK
    BY DEF Init, FlagsOK, StackOK, QueueOK
<1>5. BytesOK
    BY DEF Init, BytesOK, Joined, At
<1>6. CloseCbOnce /\ GracefulClose
    BY DEF Init, CloseCbOnce, GracefulClose, Ids
<1> QED
    BY <1>3, <1>4, <1>5, <1>6 DEF Core

LEMMA CoreNext ==
    ASSUME InWriteCb = {}, Core, posted \in Seq(Event), [Next]_vars
    PROVE  Core'
<1>1. CASE AppCall
    <2>1. CASE NioAccept
        BY <2>1, NioAcceptKeeps
    <2>2. CASE HioConnect
        BY <2>2, HioConnectKeeps
    <2>3. CASE HioRead \/ HioReadStop \/ HioSetKeepaliveTimeout
        BY <2>3, CallsKeep
    <2>4. CASE AppClose
        BY <2>4, ClosesKeep
    <2>5. CASE \E len \in Lens : HioWrite(len)
        BY <2>5, HioWriteKeeps
    <2> QED
        BY <1>1, <2>1, <2>2, <2>3, <2>4, <2>5 DEF AppCall
<1>2. CASE Handler
    BY <1>2, NioReadKeeps, HandleWriteKeeps, NioWriteKeeps, WriteCbReturnsKeeps,
       QueueWriteCbReturnsKeeps, ReturnsKeep DEF Handler
<1>3. CASE ForeignClose \/ HioCloseAsync
    BY <1>3, ForeignKeeps
<1>4. CASE HioCloseEvent
    BY <1>4, ClosesKeep
<1>5. CASE OtherCallback \/ HioHandleEvents \/ Poll
    BY <1>5, LoopKeeps
<1>6. CASE \E t \in Timers : TimerFires(t)
    BY <1>6, ClosesKeep
<1>7. CASE ConnectDone \/ PeerReads \/ PeerSends \/ PeerEnds
    BY <1>7, KernelKeeps
<1>8. CASE UNCHANGED vars
    <2>1. UNCHANGED <<io, stack, app, net, pend>>
        BY <1>8 DEF vars
    <2>2. pend' \in BOOLEAN /\ net' \in Net
        BY <2>1 DEF Core, Types
    <2> QED
        BY <2>1, <2>2, NetChanges
<1> QED
    BY <1>1, <1>2, <1>3, <1>4, <1>5, <1>6, <1>7, <1>8 DEF Next

(* The id of the hio_t, which only a new connection changes.               *)
LEMMA IdFields ==
    ASSUME NEW c \in Hio
    PROVE  /\ HioReady(c).id = c.id + 1
           /\ \A e : c.ready => HioAdd(c, e).id = c.id
           /\ \A es : HioDel(c, es).id = c.id
           /\ HioDone([c EXCEPT !.closed = TRUE]).id = c.id
           /\ PopFront(c).id = c.id
<1>1. HioReady(c).id = c.id + 1
    BY DEF HioReady, Hio
<1>2. \A e : c.ready => HioAdd(c, e).id = c.id
    BY DEF HioAdd, Hio
<1>3. \A es : HioDel(c, es).id = c.id
    BY DEF HioDel, Hio
<1>4. HioDone([c EXCEPT !.closed = TRUE]).id = c.id
    BY DEF HioDone, HioDel, Hio
<1>5. PopFront(c).id = c.id
    BY DEF PopFront, Hio
<1> QED
    BY <1>1, <1>2, <1>3, <1>4, <1>5

LEMMA PushId ==
    ASSUME NEW c \in Hio, NEW lo, NEW hi
    PROVE  Push(c, lo, hi).id = c.id
BY DEF Push, Hio

LEMMA CloseId ==
    ASSUME NEW c \in Hio, NEW frames, HioClose(c, frames)
    PROVE  io'.id = c.id
<1>1. CASE io' = c
    BY <1>1
<1>2. CASE io' = [c EXCEPT !.close = TRUE, !.timers = @ \cup {"close"}]
    BY <1>2 DEF Hio
<1>3. CASE CloseNow(c, frames)
    <2> DEFINE d == HioDone([c EXCEPT !.closed = TRUE])
    <2>1. io' = [d EXCEPT !.timers = {}]
        BY <1>3 DEF CloseNow
    <2>2. d.id = c.id /\ [d EXCEPT !.timers = {}].id = d.id
        BY IdFields DEF HioDone, HioDel, Hio
    <2> QED
        BY <2>1, <2>2
<1> QED
    BY <1>1, <1>2, <1>3 DEF HioClose

LEMMA IdGrows ==
    ASSUME Core, [Next]_vars
    PROVE  io'.id = io.id \/ io'.id = io.id + 1
<1>1. io \in Hio /\ [io EXCEPT !.error = TRUE] \in Hio
      /\ [io EXCEPT !.error = TRUE].id = io.id
      /\ [io EXCEPT !.close = FALSE] \in Hio
      /\ [io EXCEPT !.close = FALSE].id = io.id
    <2>1. io \in Hio
        BY DEF Core, Types
    <2>2. [io EXCEPT !.error = TRUE] \in Hio /\ [io EXCEPT !.close = FALSE] \in Hio
        BY <2>1, HioSet
    <2>3. /\ [io EXCEPT !.error = TRUE].id = io.id
          /\ [io EXCEPT !.close = FALSE].id = io.id
        BY <2>1 DEF Hio
    <2> QED
        BY <2>1, <2>2, <2>3
<1>2. CASE io' = io
    BY <1>2
<1>3. ASSUME NEW frames, \/ HioClose(io, frames)
                         \/ HioClose([io EXCEPT !.error = TRUE], frames)
                         \/ HioClose([io EXCEPT !.close = FALSE], frames)
      PROVE  io'.id = io.id
    BY <1>1, <1>3, CloseId
<1>4. CASE NioAccept
    BY <1>1, <1>4, IdFields DEF NioAccept
<1>5. CASE HioConnect
    <2>1. io.id < MaxIds
        BY <1>5 DEF HioConnect, NewConnection
    <2> DEFINE r == HioReady(io)
               a == [r EXCEPT !.connect = TRUE, !.timers = {"connect"}]
    <2>2. r \in Hio /\ r.id = io.id + 1 /\ r.ready
        BY <1>1, <2>1, HioReadyFields
    <2> HIDE DEF r
    <2>3. a \in Hio
        BY <2>2, HioSet DEF Timers
    <2>4. a.id = r.id /\ a.ready
        BY <2>2 DEF Hio
    <2>5. CASE io' = HioAdd(a, "W")
        <3> HIDE DEF a
        <3> QED
            BY <2>2, <2>3, <2>4, <2>5, IdFields
    <2>6. CASE io' = r
        BY <2>2, <2>6
    <2>7. CASE CloseNow(r, stack)
        <3>1. ~r.closed /\ r.queue = io.queue /\ ~r.error
            BY <1>1, <2>1, HioReadyFields DEF r
        <3>2. io.queue = <<>>
            BY <1>5 DEF HioConnect, NewConnection, Core, FlagsOK
        <3>3. HioClose(r, stack)
            BY <2>7, <3>1, <3>2 DEF HioClose
        <3> QED
            BY <2>2, <3>3, CloseId
    <2> QED
        BY <1>5, <2>5, <2>6, <2>7 DEF HioConnect, r, a
<1>6. CASE HioRead \/ HioReadStop \/ HioSetKeepaliveTimeout
    <2>1. \A t : [io EXCEPT !.timers = t].id = io.id
        BY <1>1 DEF Hio
    <2>2. io.ready => HioAdd(io, "R").id = io.id
        BY <1>1, IdFields
    <2>3. HioDel(io, {"R"}).id = io.id
        BY <1>1, IdFields
    <2> QED
        BY <1>6, <2>1, <2>2, <2>3
           DEF HioRead, HioReadStop, HioSetKeepaliveTimeout
<1>7. ASSUME NEW len \in Lens, HioWrite(len)
      PROVE  io'.id = io.id
    <2> DEFINE a == HioAdd(io, "W")
    <2>1. a \in Hio /\ a.id = io.id
        BY <1>1, <1>7, HioAddFields DEF HioWrite
    <2>2. \/ io' = io
          \/ io' = Push(io, written + 1, written + len)
          \/ io' = Push(a, written + 1, written + len)
          \/ HioClose([io EXCEPT !.error = TRUE], stack)
        BY <1>7 DEF HioWrite
    <2> HIDE DEF a
    <2>3. /\ Push(io, written + 1, written + len).id = io.id
          /\ Push(a, written + 1, written + len).id = io.id
        BY <1>1, <2>1, PushId
    <2> QED
        BY <1>3, <2>2, <2>3
<1>8. CASE AppClose \/ HioCloseEvent \/ \E t \in Timers : TimerFires(t)
    BY <1>3, <1>8 DEF AppClose, HioCloseEvent, TimerFires
<1>9. CASE WriteCbReturns
    <2> DEFINE a == HioAdd(io, "W")
    <2>1. At("write_cb") /\ ~At("queue_write_cb") /\ ~io.closed
        BY <1>9 DEF WriteCbReturns, Core, BytesOK, At, Writing
    <2>2. io.ready
        BY <2>1 DEF Core, BytesOK
    <2>3. a \in Hio /\ a.id = io.id
        BY <1>1, <2>2, HioAddFields
    <2>4. io' = io \/ io' = Push(a, Top.lo, Top.hi)
        BY <1>9 DEF WriteCbReturns
    <2> HIDE DEF a
    <2>5. Push(a, Top.lo, Top.hi).id = io.id
        BY <2>3, PushId
    <2> QED
        BY <2>4, <2>5
<1>10. CASE QueueWriteCbReturns
    <2> DEFINE q == [io.queue EXCEPT ![1] = <<Top.hi + 1, @[2]>>]
    <2>1. io' = PopFront(io) \/ io' = [io EXCEPT !.queue = q]
        BY <1>10 DEF QueueWriteCbReturns
    <2> HIDE DEF q
    <2>2. [io EXCEPT !.queue = q].id = io.id
        BY <1>1 DEF Hio
    <2>3. PopFront(io).id = io.id
        BY <1>1, IdFields
    <2> QED
        BY <2>1, <2>2, <2>3
<1>11. CASE NioRead
    BY <1>3, <1>11 DEF NioRead
<1>12. CASE NioWrite
    BY <1>3, <1>12 DEF NioWrite
<1>13. CASE HandleWrite
    <2> DEFINE c == [io EXCEPT !.revents = {}, !.connect = FALSE,
                       !.events = IF io.queue = <<>> THEN @ \ {"W"} ELSE @]
               e == [c EXCEPT !.error = TRUE]
    <2>1. /\ c.id = io.id /\ [io EXCEPT !.revents = {}].id = io.id
          /\ [c EXCEPT !.timers = @ \ {"connect"}].id = io.id
          /\ e.id = io.id
        BY <1>1 DEF Hio
    <2>2. e \in Hio
        <3>1. (IF io.queue = <<>> THEN io.events \ {"W"} ELSE io.events) \in SUBSET {"R", "W"}
            BY <1>1, HioTypes
        <3> QED
            BY <1>1, <3>1, HioSet
    <2>3. \/ io' = [io EXCEPT !.revents = {}]
          \/ io' = c
          \/ io' = [c EXCEPT !.timers = @ \ {"connect"}]
          \/ HioClose(e, Below)
        BY <1>13 DEF HandleWrite
    <2> HIDE DEF e, c
    <2> QED
        BY <2>1, <2>2, <2>3, CloseId
<1>14. CASE Poll
    <2>1. \A r : [io EXCEPT !.revents = r].id = io.id
        BY <1>1 DEF Hio
    <2> QED
        BY <1>14, <2>1 DEF Poll
<1>15. CASE \/ CloseCbReturns \/ OtherCbReturns \/ ForeignClose \/ HioCloseAsync
            \/ OtherCallback \/ HioHandleEvents
            \/ ConnectDone \/ PeerReads \/ PeerSends \/ PeerEnds
            \/ UNCHANGED vars
    BY <1>15
       DEF CloseCbReturns, OtherCbReturns, ForeignClose, HioCloseAsync,
           OtherCallback, HioHandleEvents, ConnectDone, PeerReads, PeerSends,
           PeerEnds, vars
<1> QED
    BY <1>4, <1>5, <1>6, <1>7, <1>8, <1>9, <1>10, <1>11, <1>12, <1>13, <1>14, <1>15
       DEF Next, AppCall, Handler

LEMMA PostsNext ==
    ASSUME Core, PostsOK, [Next]_vars
    PROVE  PostsOK'
<1>1. io.id \in 0..MaxIds /\ (io'.id = io.id \/ io'.id = io.id + 1)
    BY IdGrows, HioTypes DEF Core, Types
<1>2. CASE UNCHANGED others
    <2>1. \A i \in 1..Len(posted) : posted[i] \in Event
        BY DEF PostsOK
    <2>2. \A i \in 1..Len(posted) : posted[i].id <= io.id => posted[i].id <= io'.id
        BY <1>1, <2>1 DEF Event
    <2> QED
        BY <1>1, <1>2, <2>2 DEF PostsOK, others
<1>3. CASE ForeignClose
    BY <1>1, <1>3 DEF ForeignClose, PostsOK, Core, FlagsOK
<1>4. CASE HioCloseAsync
    <2> DEFINE e == [id |-> io.id, meant |-> foreign]
    <2>1. /\ posted' = Append(posted, e) /\ foreign' = 0 /\ io' = io
          /\ foreign \in 1..MaxIds /\ foreign <= io.id
        BY <1>4, BoundAssumption DEF HioCloseAsync, PostsOK
    <2>2. e \in Event /\ e.meant <= e.id /\ e.id <= io.id
        BY <1>1, <2>1 DEF Event
    <2> HIDE DEF e
    <2>3. /\ posted' \in Seq(Event) /\ Len(posted') = Len(posted) + 1
          /\ posted'[Len(posted) + 1] = e
          /\ \A i \in 1..Len(posted) : posted'[i] = posted[i]
        BY <2>1, <2>2, AppendProperties DEF PostsOK
    <2>4. \A i \in 1..Len(posted') : posted'[i].meant <= posted'[i].id /\ posted'[i].id <= io.id
        <3> SUFFICES ASSUME NEW i \in 1..Len(posted')
                     PROVE  posted'[i].meant <= posted'[i].id /\ posted'[i].id <= io.id
            OBVIOUS
        <3>1. i \in 1..Len(posted) \/ i = Len(posted) + 1
            BY <2>3 DEF PostsOK
        <3>2. CASE i \in 1..Len(posted)
            BY <2>3, <3>2 DEF PostsOK
        <3>3. CASE i = Len(posted) + 1
            BY <2>2, <2>3, <3>3
        <3> QED
            BY <3>1, <3>2, <3>3
    <2> QED
        BY <1>1, <2>1, <2>3, <2>4, BoundAssumption DEF PostsOK
<1>5. CASE HioCloseEvent
    <2>1. posted' = Tail(posted) /\ posted # <<>> /\ foreign' = foreign
        BY <1>5 DEF HioCloseEvent
    <2>2. /\ posted' \in Seq(Event) /\ Len(posted') = Len(posted) - 1
          /\ Len(posted) \in Nat /\ posted \in Seq(Event)
          /\ \A i \in 1..Len(posted') : posted'[i] = posted[i + 1]
        BY <2>1, HeadTailProperties DEF PostsOK
    <2>3. \A i \in 1..Len(posted') : i + 1 \in 1..Len(posted)
        BY <2>2
    <2>4. /\ \A i \in 1..Len(posted) : posted[i].meant <= posted[i].id /\ posted[i].id <= io.id
          /\ \A i \in 1..Len(posted) : posted[i] \in Event
        BY DEF PostsOK
    <2>5. io'.id >= io.id /\ io'.id \in Nat
        BY <1>1
    <2>6. \A i \in 1..Len(posted') : posted'[i].meant <= posted'[i].id /\ posted'[i].id <= io'.id
        <3> SUFFICES ASSUME NEW i \in 1..Len(posted')
                     PROVE  posted'[i].meant <= posted'[i].id /\ posted'[i].id <= io'.id
            OBVIOUS
        <3>1. posted'[i] \in Event /\ posted'[i].meant <= posted'[i].id /\ posted'[i].id <= io.id
            BY <2>2, <2>3, <2>4
        <3> QED
            BY <1>1, <2>5, <3>1 DEF Event
    <2>7. foreign' \in 0..MaxIds /\ foreign' <= io'.id
        BY <1>1, <2>1, <2>5 DEF PostsOK
    <2> QED
        BY <2>2, <2>6, <2>7 DEF PostsOK
<1> QED
    <2>1. \/ UNCHANGED others \/ ForeignClose \/ HioCloseAsync \/ HioCloseEvent
        BY DEF Next, AppCall, Handler, NioAccept, HioConnect, NewConnection,
               HioRead, HioReadStop, HioSetKeepaliveTimeout, AppClose, HioWrite,
               NioRead, HandleWrite, NioWrite, WriteCbReturns,
               QueueWriteCbReturns, CloseCbReturns, OtherCbReturns, Poll,
               OtherCallback, HioHandleEvents, TimerFires, ConnectDone,
               PeerReads, PeerSends, PeerEnds, others, vars
    <2> QED
        BY <1>2, <1>3, <1>4, <1>5, <2>1

LEMMA Invariance ==
    ASSUME InWriteCb = {}
    PROVE  Spec => []Inv
<1>1. Init => Inv
    <2>1. Init => PostsOK
        BY BoundAssumption DEF Init, PostsOK
    <2> QED
        BY <2>1, CoreInit DEF Inv
<1>2. Inv /\ [Next]_vars => Inv'
    BY CoreNext, PostsNext DEF Inv, PostsOK
<1> QED
    BY <1>1, <1>2, PTL DEF Spec

-----------------------------------------------------------------------------
(* The fields keep their types, and the entries of the write queue stay    *)
(* inside its array through every doubling, shift and free (queue.h).      *)
THEOREM TypeCorrect ==
    ASSUME InWriteCb = {}
    PROVE  Spec => []TypeOK
<1>1. Inv => TypeOK
    BY DEF Inv, Core, Types, QueueOK, PostsOK, TypeOK
<1> QED
    BY <1>1, Invariance, PTL

(* close_cb is called exactly once for every connection that has had the   *)
(* hio_t, whichever of the application, the peer, a timer, an error or a   *)
(* posted event closes it, and however often (the test of closed, and the  *)
(* hio_ready of the next connection).                                      *)
THEOREM CloseOnce ==
    ASSUME InWriteCb = {}
    PROVE  Spec => []CloseCbOnce
<1>1. Inv => CloseCbOnce
    BY DEF Inv, Core
<1> QED
    BY <1>1, Invariance, PTL

(* A connection that closed without an error, after at most one hio_close, *)
(* has put every byte it was given on the wire: hio_close is put off while *)
(* bytes are queued, and nio_write completes it when none is.              *)
THEOREM GracefulCloses ==
    ASSUME InWriteCb = {}
    PROVE  Spec => []GracefulClose
<1>1. Inv => GracefulClose
    BY DEF Inv, Core
<1> QED
    BY <1>1, Invariance, PTL

(* The bytes of hio_write go out in order, none missing and none twice,    *)
(* over any number of short writes and with the queue growing while it is  *)
(* written: the wire, what the running hio_write has still to queue, and   *)
(* the queue continue one another.                                         *)
THEOREM StreamWhole ==
    ASSUME InWriteCb = {}
    PROVE  Spec => []StreamInOrder
<1>1. Inv => StreamInOrder
    <2> SUFFICES ASSUME Core, ~io.closed PROVE StreamInOrder
        BY DEF Inv, StreamInOrder
    <2> DEFINE entries == Unqueued \o io.queue
               Before(i) == IF i = 1 THEN Len(wire) - InHand ELSE entries[i - 1][2]
    <2>1. /\ io \in Hio /\ stack \in Seq(FrameSet) /\ Len(stack) \in Nat
          /\ wire \in Seq(1..MaxBytes) /\ Len(wire) \in Nat
          /\ written \in Nat /\ Len(wire) <= written
          /\ \A i \in 1..Len(wire) : wire[i] = i
        BY BoundAssumption DEF Core, Types, BytesOK
    <2>2. io.queue \in Seq(Entry) /\ Len(io.queue) \in Nat
        BY <2>1, HioTypes
    <2>3. /\ \A i \in 1..Len(io.queue) : io.queue[i][1] \in Nat /\ io.queue[i][2] \in Nat
          /\ \A i \in 1..Len(io.queue) : io.queue[i][1] <= io.queue[i][2]
          /\ \A i \in 1..Len(io.queue) - 1 : io.queue[i + 1][1] = io.queue[i][2] + 1
        BY <2>2 DEF Entry, Core, QueueOK
    <2>4. ASSUME NEW at \in Writing
          PROVE  {i \in 1..Len(stack) : stack[i].at = at}
                   = IF At(at) THEN {Len(stack)} ELSE {}
        BY <2>1, <2>4 DEF Core, StackOK, At, Top
    <2>5. Unqueued = IF At("write_cb") THEN <<<<Top.lo, Top.hi>>>> ELSE <<>>
        BY <2>4 DEF Unqueued, Writing, Top
    <2>6. InHand = IF At("queue_write_cb") THEN Top.hi - Top.lo + 1 ELSE 0
        BY <2>4 DEF InHand, Writing, Top
    <2>7. CASE At("write_cb")
        <3>1. /\ io.queue = <<>> /\ Top.lo = Len(wire) + 1 /\ Top.hi = written
              /\ ~At("queue_write_cb")
            BY <2>7 DEF Core, BytesOK, At
        <3>2. entries = <<<<Len(wire) + 1, written>>>>
            BY <2>5, <2>7, <3>1
        <3>3. InHand = 0
            BY <2>6, <3>1
        <3> QED
            BY <2>1, <3>2, <3>3 DEF StreamInOrder
    <2>8. CASE ~At("write_cb")
        <3>1. entries = io.queue
            BY <2>2, <2>5, <2>8
        <3>2. Joined(InHand) /\ InHand \in Nat
            <4>1. CASE At("queue_write_cb")
                <5>1. /\ Top.lo <= Top.hi /\ Joined(Top.hi - Top.lo + 1)
                    BY <2>8, <4>1 DEF Core, BytesOK
                <5>2. Top \in FrameSet
                    BY <4>1, BelowFrames DEF At, Core
                <5>3. Top.lo \in Nat /\ Top.hi \in Nat
                    BY <5>2 DEF FrameSet
                <5> QED
                    BY <2>6, <4>1, <5>1, <5>3
            <4>2. CASE ~At("queue_write_cb")
                BY <2>6, <2>8, <4>2 DEF Core, BytesOK
            <4> QED
                BY <4>1, <4>2
        <3>3. CASE io.queue = <<>>
            BY <2>1, <3>1, <3>2, <3>3 DEF StreamInOrder, Joined
        <3>4. CASE io.queue # <<>>
            <4>1. /\ io.queue[1][1] + InHand = Len(wire) + 1
                  /\ io.queue[Len(io.queue)][2] = written
                BY <3>2, <3>4 DEF Joined
            <4>2. Len(io.queue) > 0 /\ 1 \in 1..Len(io.queue)
                BY <2>2, <3>4, EmptySeq
            <4>3. Before(1) = io.queue[1][1] - 1
                BY <2>1, <2>3, <3>2, <4>1, <4>2
            <4>4. ASSUME NEW i \in 1..Len(io.queue)
                  PROVE  entries[i][1] = Before(i) + 1 /\ entries[i][2] >= Before(i)
                <5>1. CASE i = 1
                    BY <2>3, <3>1, <4>2, <4>3, <5>1
                <5>2. CASE i # 1
                    <6>1. /\ i - 1 \in 1..Len(io.queue) - 1 /\ i - 1 + 1 = i
                          /\ i - 1 \in 1..Len(io.queue)
                        BY <2>2, <5>2
                    <6>2. io.queue[i][1] = io.queue[i - 1][2] + 1
                        BY <2>3, <6>1
                    <6>3. Before(i) = io.queue[i - 1][2]
                        BY <3>1, <5>2
                    <6>4. entries[i] = io.queue[i]
                        BY <3>1
                    <6> HIDE DEF entries, Before
                    <6> QED
                        BY <2>3, <6>1, <6>2, <6>3, <6>4
                <5> QED
                    BY <5>1, <5>2
            <4>5. Before(Len(entries) + 1) = written
                BY <2>2, <3>1, <4>1, <4>2
            <4> QED
                BY <2>1, <3>1, <4>4, <4>5 DEF StreamInOrder
        <3> QED
            BY <3>3, <3>4
    <2> QED
        BY <2>7, <2>8
<1> QED
    BY <1>1, Invariance, PTL

(* The id that hio_close_async reads may be a later connection's (nio.c:555*)
(* against hloop.c:825), but never is a hio_close lost by it: the posted   *)
(* event names the connection that its caller saw open, or close_cb has    *)
(* been called for that one.                                               *)
THEOREM ForeignCloseKept ==
    ASSUME InWriteCb = {}
    PROVE  Spec => []MeantOrGone
<1>1. Inv => MeantOrGone
    <2> SUFFICES ASSUME Inv, NEW i \in 1..Len(posted),
                        posted[i].id # posted[i].meant
                 PROVE  /\ posted[i].meant < posted[i].id
                        /\ closes[posted[i].meant] = 1
        BY DEF MeantOrGone
    <2>1. posted[i] \in Event /\ posted[i].meant <= posted[i].id /\ posted[i].id <= io.id
        BY DEF Inv, PostsOK
    <2>2. posted[i].meant \in Ids /\ posted[i].id \in Ids /\ io.id \in 0..MaxIds
        BY <2>1, HioTypes DEF Event, Ids, Inv, Core, Types
    <2>3. posted[i].meant < posted[i].id /\ posted[i].meant < io.id
        BY <2>1, <2>2 DEF Ids
    <2> QED
        BY <2>2, <2>3 DEF Inv, Core, CloseCbOnce
<1> QED
    BY <1>1, Invariance, PTL

(* While the hio_t is open it has its descriptor, and once closed it has   *)
(* no event, timer or queue left in the loop (hio_done, __close_cb).       *)
THEOREM NothingLeft ==
    ASSUME InWriteCb = {}
    PROVE  Spec => []OpenOrGone
<1>1. Inv => OpenOrGone
    BY DEF Inv, Core, FlagsOK, OpenOrGone
<1> QED
    BY <1>1, Invariance, PTL

(* Bytes are never queued without the poll looking for HV_WRITE, so the    *)
(* queue cannot be forgotten (hio_write's hio_add, hio_handle_events).     *)
THEOREM QueueServed ==
    ASSUME InWriteCb = {}
    PROVE  Spec => []QueueArmed
<1>1. Inv => QueueArmed
    BY DEF Inv, Core, FlagsOK, QueueArmed
<1> QED
    BY <1>1, Invariance, PTL

(* pbuf is valid when write_cb returns to nio_write: only calls from       *)
(* write_cb could free or move the array it points into.                   *)
THEOREM PbufStaysValid ==
    ASSUME InWriteCb = {}
    PROVE  Spec => []PbufValid
<1>1. Inv => PbufValid
    <2> SUFFICES ASSUME Core, NEW i \in 1..Len(stack),
                        stack[i].at = "queue_write_cb"
                 PROVE  stack[i].qid = io.qid
        BY DEF Inv, PbufValid
    <2>1. i = Len(stack) /\ Top.at = "queue_write_cb" /\ stack # <<>>
        BY DEF Core, StackOK, Writing, Top
    <2>2. ~io.closed /\ At("queue_write_cb") /\ ~At("write_cb")
        BY <2>1 DEF Core, BytesOK, Writing, At
    <2> QED
        BY <2>1, <2>2 DEF Core, BytesOK, Top
<1> QED
    BY <1>1, Invariance, PTL

=============================================================================
