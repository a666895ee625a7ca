-------------------------- MODULE AsyncHttpClient --------------------------
(***************************************************************************)
(* AsyncHttpClient of libhv/http/client: requests that any thread sends,   *)
(* done by one loop thread over connections that are kept and used again,  *)
(* with retries and a time limit.  Every callback of the loop is one step, *)
(* with the close callback that runs inside it.  All requests go to one    *)
(* address, so conn_pools is one pool.                                     *)
(***************************************************************************)
EXTENDS Integers, Sequences, FiniteSets

CONSTANTS
    Task, NoTask,   \* the HttpClientTasks, each sent once
    Fds,            \* descriptors that socket() may return
    NoChannel,
    Timed,          \* tasks whose req->timeout is not 0
    Delayed,        \* tasks with a retry_delay
    RetryCount,     \* DEFAULT_FAIL_RETRY_COUNT
    Faults          \* of "resolve": sockaddr_set_ipport may fail; "reset":
                    \* a peer may reset a connection

VARIABLES
    queue,          \* calls of sendInLoop queued in the loop
    channels,       \* channels[fd], with its HttpClientContext and hio_t
    conn_pools,     \* the pool, a list of descriptors
    waiting,        \* tasks whose retry timer runs
    retry_cnt,
    expired,        \* tasks whose time is over
    asked,          \* requests written to each fd and not answered
    peer,           \* what the peer of each fd has done: "open", "ended", "reset"
    sent,           \* history: tasks sent
    got,            \* history: what the callback of each task was given
    lost,           \* history: tasks whose error was returned to no one
    fault           \* history: a channel used after it was removed, an assert

conns == <<channels, conn_pools, asked, peer>>
tasks == <<queue, waiting, retry_cnt, expired, sent, got, lost>>
vars == <<conns, tasks, fault>>

Channel == [task : Task \cup {NoTask}, status : {"CONNECTING", "CONNECTED"},
            timer : BOOLEAN,    \* does the timer of ctx->timerID run?
            unsent : BOOLEAN,   \* is the hio_t's write queue not empty?
            close : BOOLEAN]    \* hio_t.close: close when it is

ASSUME HttpAssumption ==
    /\ Timed \subseteq Task /\ Delayed \subseteq Task /\ NoTask \notin Task
    /\ NoChannel \notin Channel /\ RetryCount \in Nat

Init ==
    /\ queue = <<>> /\ waiting = {} /\ expired = {} /\ sent = {} /\ lost = {}
    /\ channels = [f \in Fds |-> NoChannel] /\ conn_pools = <<>>
    /\ retry_cnt = [t \in Task |-> RetryCount]
    /\ asked = [f \in Fds |-> <<>>] /\ peer = [f \in Fds |-> "open"]
    /\ got = [t \in Task |-> <<>>] /\ fault = "none"

Open(f) == channels[f] # NoChannel
Among(x, s) == \E k \in 1..Len(s) : s[k] = x

(* ConnPool::remove erases the first that is equal.                        *)
Remove(s, x) ==
    IF ~Among(x, s) THEN s
    ELSE LET k == CHOOSE k \in 1..Len(s) :
                    s[k] = x /\ \A j \in 1..(k - 1) : s[j] # x
         IN SubSeq(s, 1, k - 1) \o SubSeq(s, k + 1, Len(s))


(* What the callbacks inside a step add to, as it is before them.          *)
Now == [queue |-> queue, waiting |-> waiting, got |-> got, asked |-> asked]
Answered(b, t, resp) ==
    IF t = NoTask THEN b ELSE [b EXCEPT !.got[t] = Append(@, resp)]
Becomes(b) ==
    queue' = b.queue /\ waiting' = b.waiting /\ got' = b.got /\ asked' = b.asked

(* callback() of the context kills its timer.                              *)
Idle(c) == [c EXCEPT !.task = NoTask, !.timer = FALSE]

-----------------------------------------------------------------------------
(* The task of a closed channel: again after a delay, or from the queue,   *)
(* or its callback gets NULL.                                              *)
TriedAgain(b, t) ==
    IF t \in Delayed THEN [b EXCEPT !.waiting = @ \cup {t}]
                     ELSE [b EXCEPT !.queue = Append(@, t)]

(* Mutant: the callback is told although the task is tried again.          *)
AfterCloseTwice(b, t) ==
    IF t # NoTask /\ retry_cnt[t] > 0 THEN Answered(TriedAgain(b, t), t, NoTask)
                                      ELSE Answered(b, t, NoTask)
(* Mutant: a task to be tried again is forgotten.                          *)
AfterCloseForgets(b, t) ==
    IF t # NoTask /\ retry_cnt[t] > 0 THEN b ELSE Answered(b, t, NoTask)

AfterClose(b, t) ==
    IF t # NoTask /\ retry_cnt[t] > 0 THEN TriedAgain(b, t)
                                      ELSE Answered(b, t, NoTask)

(* Mutant: the pool keeps the descriptor.                                  *)
OnCloseKeepsPooled(f, c, b) ==
    /\ channels' = [channels EXCEPT ![f] = NoChannel]
    /\ UNCHANGED conn_pools
    /\ peer' = [peer EXCEPT ![f] = "open"]
    /\ retry_cnt' = IF c.task = NoTask THEN retry_cnt
                    ELSE [retry_cnt EXCEPT ![c.task] = @ - 1]
    /\ Becomes([AfterClose(b, c.task) EXCEPT !.asked[f] = <<>>])

(* onclose, of the channel c that f has now; the channel and its context   *)
(* go, with the timer.                                                     *)
OnClose(f, c, b) ==
    /\ channels' = [channels EXCEPT ![f] = NoChannel]
    /\ conn_pools' = Remove(conn_pools, f)
    /\ peer' = [peer EXCEPT ![f] = "open"]
    /\ retry_cnt' = IF c.task = NoTask THEN retry_cnt
                    ELSE [retry_cnt EXCEPT ![c.task] = @ - 1]
    /\ Becomes([AfterClose(b, c.task) EXCEPT !.asked[f] = <<>>])

(* channel->close(): hio_close puts the close off while there is something *)
(* to write, once.                                                         *)
Close(f, c, b) ==
    IF c.unsent /\ ~c.close
      THEN /\ channels' = [channels EXCEPT ![f] = [c EXCEPT !.close = TRUE]]
           /\ Becomes(b)
           /\ UNCHANGED <<conn_pools, peer, retry_cnt>>
      ELSE OnClose(f, c, b)

(* sendRequest: all of the request is written, or a part of it for now.    *)
(* A write to a connection that the peer has reset closes the channel, and *)
(* sendRequest goes on to use it.                                          *)
SendRequest(f, c, b) ==
    /\ \E unsent \in BOOLEAN :
         channels' = [channels EXCEPT ![f] =
                        [c EXCEPT !.status = "CONNECTED", !.unsent = unsent \/ @]]
    /\ Becomes([b EXCEPT !.asked[f] = Append(@, c.task)])
    /\ fault' = IF peer[f] = "reset" /\ ~c.unsent THEN "removed channel" ELSE fault
    /\ UNCHANGED <<peer, retry_cnt>>

(* doTask after its tests: a channel of the pool, or a new one.            *)
UseChannel(t, f, b) ==
    /\ conn_pools' = Tail(conn_pools)
    /\ SendRequest(f, [channels[f] EXCEPT !.task = t, !.timer = t \in Timed], b)

NewChannel(t, f, b) ==
    LET c == [task |-> t, status |-> "CONNECTING", timer |-> t \in Timed,
              unsent |-> FALSE, close |-> FALSE]
    IN \/ SendRequest(f, c, b) /\ UNCHANGED conn_pools
       \/ /\ channels' = [channels EXCEPT ![f] = c] /\ Becomes(b)
          /\ UNCHANGED <<conn_pools, peer, retry_cnt, fault>>
       \/ OnClose(f, c, b) /\ UNCHANGED fault

DoTask(t, b) ==
    /\ t \notin expired
    /\ \/ conn_pools # <<>> /\ UseChannel(t, Head(conn_pools), b)
       \/ conn_pools = <<>> /\ \E f \in Fds : ~Open(f) /\ NewChannel(t, f, b)

TaskFails(t) ==
    \/ t \in expired
    \/ "resolve" \in Faults
    \/ conn_pools = <<>> /\ \A f \in Fds : Open(f)

Unopened == UNCHANGED <<channels, conn_pools, peer, retry_cnt, fault>>

-----------------------------------------------------------------------------
(* send, from any thread.                                                  *)
Send(t) ==
    /\ t \notin sent
    /\ sent' = sent \cup {t}
    /\ queue' = Append(queue, t)
    /\ UNCHANGED <<conns, waiting, retry_cnt, expired, got, lost, fault>>

(* The time of a task is measured from send().                             *)
Expire(t) ==
    /\ t \in (sent \cap Timed) \ expired
    /\ expired' = expired \cup {t}
    /\ UNCHANGED <<conns, queue, waiting, retry_cnt, sent, got, lost, fault>>

SendInLoop ==
    /\ queue # <<>>
    /\ LET t == Head(queue)
           b == [Now EXCEPT !.queue = Tail(@)]
       IN \/ TaskFails(t) /\ Becomes(Answered(b, t, NoTask)) /\ Unopened
          \/ DoTask(t, b)
    /\ UNCHANGED <<expired, sent, lost>>

(* The retry timer: what doTask returns is dropped.                        *)
Retry(t) ==
    /\ t \in waiting
    /\ LET b == [Now EXCEPT !.waiting = @ \ {t}]
       IN \/ TaskFails(t) /\ Becomes(b) /\ Unopened /\ lost' = lost \cup {t}
          \/ DoTask(t, b) /\ UNCHANGED lost
    /\ UNCHANGED <<expired, sent>>

ConnectDone(f) ==
    /\ Open(f) /\ channels[f].status = "CONNECTING"
    /\ SendRequest(f, channels[f], Now)
    /\ UNCHANGED <<conn_pools, expired, sent, lost>>

(* Refused, or the connect timer.                                          *)
ConnectFails(f) ==
    /\ Open(f) /\ channels[f].status = "CONNECTING"
    /\ OnClose(f, channels[f], Now)
    /\ UNCHANGED <<expired, sent, lost, fault>>

(* onread with the last of a response; the server answers in order.  What  *)
(* comes before the last changes the parser only, and what comes when the  *)
(* channel has no task is dropped.                                         *)
Response(f) ==
    /\ Open(f) /\ asked[f] # <<>> /\ peer[f] = "open"
    /\ LET c == channels[f]
           done == Answered([Now EXCEPT !.asked[f] = Tail(@)], c.task, Head(asked[f]))
       IN /\ c.task # NoTask
          /\ \/ /\ conn_pools' = Append(conn_pools, f)   \* both keep alive
                /\ channels' = [channels EXCEPT ![f] = Idle(c)] /\ Becomes(done)
                /\ UNCHANGED <<peer, retry_cnt>>
             \/ Close(f, Idle(c), done)
    /\ UNCHANGED <<expired, sent, lost, fault>>

(* onread with what is not HTTP.                                           *)
BadResponse(f) ==
    /\ Open(f) /\ asked[f] # <<>> /\ peer[f] = "open"
    /\ channels[f].task # NoTask
    /\ Close(f, Idle(channels[f]),
             Answered([Now EXCEPT !.asked[f] = Tail(@)], channels[f].task, NoTask))
    /\ UNCHANGED <<expired, sent, lost, fault>>

(* Mutant: the callback gets NULL and the connection is kept.              *)
TimerFiresKeeps(f) ==
    /\ Open(f) /\ channels[f].timer /\ channels[f].task \in expired
    /\ channels[f].status = "CONNECTED"
    /\ channels' = [channels EXCEPT ![f] = Idle(@)]
    /\ conn_pools' = Append(conn_pools, f)
    /\ Becomes(Answered(Now, channels[f].task, NoTask))
    /\ UNCHANGED <<peer, retry_cnt, expired, sent, lost, fault>>

(* The timer of doTask, with its assert.                                   *)
TimerFires(f) ==
    /\ Open(f) /\ channels[f].timer
    /\ channels[f].task \in expired \cup {NoTask}
    /\ Close(f, [channels[f] EXCEPT !.timer = FALSE], Now)
    /\ fault' = IF channels[f].task = NoTask THEN "assert" ELSE fault
    /\ UNCHANGED <<expired, sent, lost>>

-----------------------------------------------------------------------------
(* nio_write ends the queue, and a close that was put off.                 *)
Written(f) ==
    /\ Open(f) /\ channels[f].unsent
    /\ LET c == [channels[f] EXCEPT !.unsent = FALSE]
       IN IF c.close THEN OnClose(f, c, Now)
          ELSE /\ channels' = [channels EXCEPT ![f] = c]
               /\ UNCHANGED <<conn_pools, asked, peer, queue, waiting, retry_cnt, got>>
    /\ UNCHANGED <<expired, sent, lost, fault>>

(* The close timer.                                                        *)
CloseTimeout(f) ==
    /\ Open(f) /\ channels[f].close
    /\ OnClose(f, channels[f], Now)
    /\ UNCHANGED <<expired, sent, lost, fault>>

PeerEnds(f) ==
    /\ Open(f) /\ channels[f].status = "CONNECTED" /\ peer[f] = "open"
    /\ \E how \in {"ended"} \cup (Faults \cap {"reset"}) :
         peer' = [peer EXCEPT ![f] = how]
    /\ UNCHANGED <<channels, conn_pools, asked, tasks, fault>>

(* The loop reads the end.  An error is kept in hio_t.error, and then      *)
(* nothing puts the close off.                                             *)
ReadEnds(f) ==
    /\ Open(f) /\ peer[f] # "open"
    /\ IF peer[f] = "reset" THEN OnClose(f, channels[f], Now)
                            ELSE Close(f, channels[f], Now)
    /\ UNCHANGED <<expired, sent, lost, fault>>

OnChannel(f) ==
    \/ ConnectDone(f) \/ ConnectFails(f) \/ TimerFires(f) \/ CloseTimeout(f)
    \/ ReadEnds(f)

Next ==
    /\ fault = "none"
    /\ \/ \E t \in Task : Send(t) \/ Expire(t) \/ Retry(t)
       \/ SendInLoop
       \/ \E f \in Fds : \/ OnChannel(f) \/ Response(f) \/ BadResponse(f)
                         \/ Written(f) \/ PeerEnds(f)

Spec == Init /\ [][Next]_vars

(* The loop runs, its timers fire, and an attempt to connect ends, by the  *)
(* connect timer if not before.  Nothing is assumed of the server.         *)
FairSpec ==
    /\ Spec
    /\ WF_vars(fault = "none" /\ SendInLoop)
    /\ \A t \in Task : WF_vars(fault = "none" /\ Retry(t)) /\ WF_vars(Expire(t))
    /\ \A f \in Fds :
         /\ WF_vars(fault = "none" /\ (ConnectDone(f) \/ ConnectFails(f)))
         /\ WF_vars(fault = "none" /\ TimerFires(f))
         /\ WF_vars(fault = "none" /\ CloseTimeout(f))

-----------------------------------------------------------------------------
TypeOK ==
    /\ channels \in [Fds -> Channel \cup {NoChannel}] /\ conn_pools \in Seq(Fds)
    /\ asked \in [Fds -> Seq(Task)]
    /\ peer \in [Fds -> {"open", "ended"} \cup (Faults \cap {"reset"})]
    /\ queue \in Seq(Task) /\ waiting \subseteq Task /\ expired \subseteq Task
    /\ got \in [Task -> Seq(Task \cup {NoTask})]
    /\ retry_cnt \in [Task -> Int] /\ \A t \in Task : retry_cnt[t] <= RetryCount

(* A task that was sent is in exactly one place: queued, on one channel,   *)
(* waiting to be tried again, called back, or lost; so no callback runs    *)
(* twice and no two channels work for one task.                            *)
OnePlace ==
    \A t \in sent :
      LET on == {f \in Fds : Open(f) /\ channels[f].task = t}
          in == {k \in 1..Len(queue) : queue[k] = t}
      IN Cardinality(on) + Cardinality(in) + Cardinality(waiting \cap {t})
           + Len(got[t]) + Cardinality(lost \cap {t}) = 1

(* The pool holds each idle connection once and nothing else: no closed    *)
(* descriptor, none in use, and no idle connection is forgotten, but one   *)
(* that is to be closed when its bytes are written.                        *)
PoolExact ==
    /\ \A j, k \in 1..Len(conn_pools) : conn_pools[j] = conn_pools[k] => j = k
    /\ \A f \in Fds :
         LET idle == /\ Open(f) /\ channels[f].status = "CONNECTED"
                     /\ channels[f].task = NoTask
         IN /\ Among(f, conn_pools) => idle
            /\ idle => Among(f, conn_pools) \/ channels[f].close

(* A callback is given the answer to its own request or NULL, although a   *)
(* connection serves many.                                                 *)
RightResponse == \A t \in Task : \A k \in 1..Len(got[t]) : got[t][k] \in {t, NoTask}

(* Neither an assert fails (AsyncHttpClient.cpp:113, 135) nor is a channel *)
(* used after removeChannel.                                               *)
NoFault == fault = "none"

(* Every request with a time limit ends: with its callback, or lost by a   *)
(* retry that came too late.                                               *)
Settled == \A t \in Timed : t \in sent ~> (got[t] # <<>> \/ t \in lost)

(* As the test programs expect (http_client_test.cpp:89-90): every request *)
(* with a time limit gets its callback.                                    *)
CalledBack == \A t \in Timed : t \in sent ~> got[t] # <<>>

=============================================================================
