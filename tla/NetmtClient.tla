----------------------------- MODULE NetmtClient -----------------------------
(***************************************************************************)
(* The netmt client (Client.c, over TCP): it connects, sends what is typed *)
(* on stdin, sends a heartbeat every HeartTime, and is meant to end when   *)
(* the connection does: on_close stops reading stdin, and a loop without   *)
(* active events returns.                                                  *)
(*                                                                         *)
(* The connection is a summary of HioConn: whether its write queue holds   *)
(* anything, and which of its timers are armed.  Of a reply that matters   *)
(* only that it is a write.                                                *)
(***************************************************************************)
EXTENDS Integers

CONSTANTS
    Connects,   \* what connect() may return: "ok", "in progress", "refused"
    Lines       \* what the user types: "start", "stop", "close", "quit", "text"

ASSUME InputAssumption ==
    /\ Connects \subseteq {"ok", "in progress", "refused"}
    /\ Lines \subseteq {"start", "stop", "close", "quit", "text"}

VARIABLES
    loop,       \* "main" (before hloop_run), "run", "stop" or "end"
    stdin,      \* is stdin read?
    sock,       \* the fields of sockio
    net,        \* the peer: "none", "up", "fin" (gone), "poked" (data was
                \* sent after it had gone) or "rst"
    asked       \* has the user typed "close"?

vars == <<loop, stdin, sock, net, asked>>

Sock == [connecting : BOOLEAN, closed : BOOLEAN, close : BOOLEAN,
         queued : BOOLEAN, active : BOOLEAN, events : SUBSET {"R", "W"},
         timers : SUBSET {"connect", "close", "heartbeat"}, close_cb : BOOLEAN]

Init ==
    /\ loop = "main" /\ stdin = FALSE /\ net = "none" /\ asked = FALSE
    /\ sock = [connecting |-> FALSE, closed |-> FALSE, close |-> FALSE,
               queued |-> FALSE, active |-> FALSE, events |-> {},
               timers |-> {}, close_cb |-> FALSE]

HioAdd(s, e) == [s EXCEPT !.active = TRUE, !.events = @ \cup {e}]

HioDel(s, es) ==
    IF s.active
      THEN [s EXCEPT !.events = @ \ es, !.active = s.events \ es # {}]
      ELSE s

-----------------------------------------------------------------------------
(* Mutant: stdin goes on being read.                                       *)
OnCloseKeepsStdin == UNCHANGED stdin

(* on_close: hio_del(stdinio, HV_READ).                                    *)
OnClose == stdin' = FALSE

CloseNow(s) ==
    /\ sock' = [HioDel(s, {"R", "W"}) EXCEPT !.closed = TRUE,
                 !.connecting = FALSE, !.queued = FALSE, !.timers = {}]
    /\ IF s.close_cb THEN OnClose ELSE UNCHANGED stdin

(* Mutant: no close timer.                                                 *)
HioCloseUntimed(s, error) ==
    IF s.closed THEN sock' = s /\ UNCHANGED stdin
    ELSE IF s.queued /\ ~error /\ ~s.close
      THEN sock' = [s EXCEPT !.close = TRUE] /\ UNCHANGED stdin
    ELSE CloseNow(s)

(* hio_close(sockio) *)
HioClose(s, error) ==
    IF s.closed THEN sock' = s /\ UNCHANGED stdin
    ELSE IF s.queued /\ ~error /\ ~s.close
      THEN /\ sock' = [s EXCEPT !.close = TRUE, !.timers = @ \cup {"close"}]
           /\ UNCHANGED stdin
    ELSE CloseNow(s)

(* hio_write(sockio): the bytes are sent, or queued, or the peer's reset   *)
(* is noticed.  A peer that has gone answers the bytes with a reset.       *)
Poke == net' = IF net = "fin" THEN "poked" ELSE net

HioWrite(s) ==
    \/ s.closed /\ sock' = s /\ UNCHANGED <<stdin, net>>
    \/ ~s.closed /\ s.queued /\ sock' = s /\ UNCHANGED stdin /\ Poke
    \/ /\ ~s.closed /\ ~s.queued /\ net = "rst"
       /\ HioClose(s, TRUE) /\ UNCHANGED net
    \/ /\ ~s.closed /\ ~s.queued /\ net # "rst"
       /\ sock' = [HioAdd(s, "W") EXCEPT !.queued = TRUE]
       /\ UNCHANGED stdin /\ Poke
    \/ /\ ~s.closed /\ ~s.queued /\ net \in {"up", "fin", "poked"}
       /\ sock' = s /\ UNCHANGED stdin /\ Poke

(* Mutant: without the heartbeat.                                          *)
OnConnectQuiet(s) ==
    [HioAdd([s EXCEPT !.connecting = FALSE], "R") EXCEPT !.timers = @ \ {"connect"}]

(* __connect_cb and on_connect: read, and start the heartbeat.             *)
OnConnect(s) ==
    [HioAdd([s EXCEPT !.connecting = FALSE], "R")
      EXCEPT !.timers = (@ \ {"connect"}) \cup {"heartbeat"}]

-----------------------------------------------------------------------------
(* main, up to hloop_run: close_cb is set when connect() has returned.     *)
Main ==
    /\ loop = "main"
    /\ loop' = "run" /\ stdin' = TRUE
    /\ \E ret \in Connects :
         /\ net' = IF ret = "ok" THEN "up" ELSE "none"
         /\ sock' = [CASE ret = "ok" -> OnConnect(sock)
                       [] ret = "in progress" ->
                            HioAdd([sock EXCEPT !.connecting = TRUE,
                                                !.timers = {"connect"}], "W")
                       [] ret = "refused" -> [sock EXCEPT !.closed = TRUE]
                     EXCEPT !.close_cb = TRUE]
    /\ UNCHANGED asked

Running == loop \in {"run", "stop"}

(* A connect that was in progress succeeds or not.                         *)
NioConnect ==
    /\ Running /\ sock.connecting
    /\ LET s == [sock EXCEPT !.events = IF sock.queued THEN @ ELSE @ \ {"W"}] IN
       \/ /\ sock' = OnConnect(s) /\ net' = "up" /\ UNCHANGED stdin
       \/ HioClose(s, TRUE) /\ UNCHANGED net
    /\ UNCHANGED <<loop, asked>>

(* on_stdin *)
OnStdin(line) ==
    /\ Running /\ stdin
    /\ asked' = (asked \/ line = "close")
    /\ loop' = IF line = "quit" THEN "stop" ELSE loop
    /\ \/ /\ line = "start"
          /\ sock' = IF sock.closed THEN sock ELSE HioAdd(sock, "R")
          /\ UNCHANGED <<stdin, net>>
       \/ line = "stop" /\ sock' = HioDel(sock, {"R"}) /\ UNCHANGED <<stdin, net>>
       \/ line = "close" /\ HioClose(sock, FALSE) /\ UNCHANGED net
       \/ line = "quit" /\ UNCHANGED <<stdin, sock, net>>
       \/ line = "text" /\ HioWrite(sock)

(* The end of stdin.                                                       *)
StdinEnds ==
    /\ Running /\ stdin
    /\ stdin' = FALSE
    /\ UNCHANGED <<loop, sock, net, asked>>

(* nio_read: data, and on_recv answers PING; or the end; or an error.      *)
OnRecv ==
    /\ Running /\ "R" \in sock.events /\ ~sock.connecting /\ net = "up"
    /\ HioWrite(sock)
    /\ UNCHANGED <<loop, asked>>

ReadEnds ==
    /\ Running /\ "R" \in sock.events /\ net \in {"fin", "poked", "rst"}
    /\ HioClose(sock, net = "rst")
    /\ UNCHANGED <<loop, net, asked>>

(* nio_write: the queue is emptied, and a close that was put off is done.  *)
(* hio_handle_events removes HV_WRITE when it finds the queue empty.       *)
NioWrite ==
    /\ Running /\ "W" \in sock.events /\ ~sock.connecting
    /\ \/ /\ sock.queued /\ net \in {"up", "fin", "poked"}
          /\ LET s == [sock EXCEPT !.queued = FALSE, !.close = FALSE] IN
             IF sock.close THEN HioClose(s, FALSE) ELSE sock' = s /\ UNCHANGED stdin
       \/ sock.queued /\ net = "rst" /\ HioClose(sock, TRUE)
       \/ ~sock.queued /\ sock' = [sock EXCEPT !.events = @ \ {"W"}] /\ UNCHANGED stdin
    /\ UNCHANGED <<loop, net, asked>>

(* send_heartbeat *)
SendHeartbeat ==
    /\ Running /\ "heartbeat" \in sock.timers
    /\ HioWrite(sock)
    /\ UNCHANGED <<loop, asked>>

(* The connect and the close timer.                                        *)
Timeout(t) ==
    /\ Running /\ t \in sock.timers
    /\ HioClose(sock, TRUE)
    /\ UNCHANGED <<loop, net, asked>>

(* The loop returns when it has been stopped or has no active event.       *)
HloopRunReturns ==
    /\ \/ loop = "stop"
       \/ loop = "run" /\ ~stdin /\ ~sock.active /\ sock.timers = {}
    /\ loop' = "end"
    /\ UNCHANGED <<stdin, sock, net, asked>>

(* The peer goes away; a peer that has gone resets the connection when     *)
(* data arrives.                                                           *)
PeerGoes ==
    /\ net = "up"
    /\ net' \in {"fin", "rst"}
    /\ UNCHANGED <<loop, stdin, sock, asked>>

PeerResets ==
    /\ net = "poked"
    /\ net' = "rst"
    /\ UNCHANGED <<loop, stdin, sock, asked>>

Next ==
    \/ Main \/ NioConnect \/ \E line \in Lines : OnStdin(line)
    \/ StdinEnds \/ OnRecv \/ ReadEnds \/ NioWrite \/ SendHeartbeat
    \/ Timeout("connect") \/ Timeout("close")
    \/ HloopRunReturns \/ PeerGoes \/ PeerResets

Spec == Init /\ [][Next]_vars

(***************************************************************************)
(* The loop polls and runs timers in every iteration, whatever is typed in *)
(* between; the peer's kernel answers.  The user may type nothing at all,  *)
(* and the peer need not read or send.                                     *)
(***************************************************************************)
FairSpec ==
    /\ Spec
    /\ WF_vars(Main) /\ WF_vars(HloopRunReturns) /\ WF_vars(PeerResets)
    /\ SF_vars(ReadEnds) /\ SF_vars(NioWrite /\ net = "rst")
    /\ SF_vars(SendHeartbeat)
    /\ SF_vars(Timeout("connect")) /\ SF_vars(Timeout("close"))

-----------------------------------------------------------------------------
(* The fields have their types, and events are registered only for an io   *)
(* that the loop counts as active (hio_add, hio_del).                      *)
TypeOK ==
    /\ loop \in {"main", "run", "stop", "end"} /\ stdin \in BOOLEAN
    /\ sock \in Sock /\ (sock.events # {} => sock.active) /\ asked \in BOOLEAN
    /\ net \in {"none", "up", "fin", "poked", "rst"}

(* The heartbeat is only ever sent on a connection that is there.          *)
HeartbeatWhileOpen ==
    "heartbeat" \in sock.timers => ~sock.closed /\ ~sock.connecting

(* When the connection is closed, for whatever reason, the client ends     *)
(* ("hio_del(io, HV_RDWR) => close => hclose_cb", and on_close), and so it *)
(* does after "close", even if the server does not read.                   *)
EndsWithConnection == (sock.closed \/ asked) ~> loop = "end"

(* When the server has gone the client ends, also if the user has stopped  *)
(* reading: the heartbeat finds out (send_heartbeat).                      *)
NoticesServerGone == net \in {"fin", "rst"} ~> loop = "end"

=============================================================================
