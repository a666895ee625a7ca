----------------------------- MODULE NetmtServer -----------------------------
(***************************************************************************)
(* The netmt server (Server.c): a list of connected clients, commands that *)
(* its operator types on stdin, and a broadcast to all clients.  It is one *)
(* thread, the loop's; what interleaves is SendStr's walk along the list   *)
(* and the on_close that a failing hio_write calls from inside it.         *)
(*                                                                         *)
(* stdin and the accepted connections all read into the loop's readbuf,    *)
(* which keeps what a longer read before has left in it.  The buffer is    *)
(* modelled as slots, each a word and the delimiter after it: all words    *)
(* are as long as one another, and a read brings whole lines.              *)
(***************************************************************************)
EXTENDS Integers, Sequences, FiniteSets

CONSTANTS
    Fds,        \* the descriptors that accept can return
    MaxClients, \* how many clients connect in all (bound)
    Slots,      \* how many words the readbuf holds
    Lines,      \* the lines the operator types: sequences of words
    Chunks      \* the lines that clients send

(* The characters between words, and the word that is not there.           *)
Space == " "
Newline == "\n"
Empty == ""

Commands == {"start", "stop", "close", "quit", "PING", "list", "send"}

Words == Commands \cup {"text", Newline, Empty}

ASSUME BoundAssumption == MaxClients \in Nat /\ Slots \in Nat \ {0}

ASSUME LineAssumption ==
    \A line \in Lines \cup Chunks :
      line \in Seq(Commands \cup {"text"}) /\ Len(line) \in 1..Slots

VARIABLES
    loop,       \* "run", "stop" (in its last pass), "freeing" or "freed"
    stdin,      \* is stdin open, and is it read?
    listening,  \* is the listening socket open?
    conns,      \* for each descriptor: open, reset by the peer, its userdata
    clients,    \* t_client.clients: the list of io_t, first to last
    conn,       \* the io_t that have been allocated: their fd, live or freed
    readbuf,    \* loop->readbuf
    send,       \* SendStr: the string and the node it is at, 0 if not running
    due,        \* the clients that SendStr has not come to
    typed       \* the last line typed and what the server took it for

vars == <<loop, stdin, listening, conns, clients, conn, readbuf, send, due, typed>>
io == <<conns, clients, conn>>

Idle == [str |-> "text", at |-> 0]
Running == loop \in {"run", "stop"} /\ send.at = 0

(* The list: the io_t in it, where n is in it, and list_del of that node.  *)
InList == {clients[i] : i \in 1..Len(clients)}
Position(n) == CHOOSE i \in 1..Len(clients) : clients[i] = n
ListDel(n) ==
    [i \in 1..Len(clients) - 1 |-> clients[IF i < Position(n) THEN i ELSE i + 1]]

-----------------------------------------------------------------------------
(* What a read leaves in the buffer; words past the line stay.  With crlf  *)
(* the newline at the end has been made two characters long, which spoils  *)
(* the first of the next word.                                             *)
Overlay(line, crlf) ==
    [i \in 1..Slots |->
       IF i < Len(line) THEN [word |-> line[i], delim |-> Space]
       ELSE IF i = Len(line) THEN [word |-> line[i], delim |-> Newline]
       ELSE IF crlf /\ i = Len(line) + 1
         THEN [readbuf[i] EXCEPT !.word = Newline]
       ELSE readbuf[i]]

(* commandNum: spaces up to the end of the string, that is of the buffer.  *)
CommandNum(b) == 1 + Cardinality({i \in 1..Slots : b[i].delim = Space})

(* command[1] of strsplit: what follows the first space; NULL if none does.*)
SecondWord(b) ==
    LET spaces == {i \in 1..Slots : b[i].delim = Space}
    IN  IF spaces = {} THEN Empty ELSE b[1 + CHOOSE i \in spaces :
                                           \A j \in spaces : i <= j].word

(* The command "send" and one word.                                        *)
IsSend(b) == CommandNum(b) = 2 /\ b[1].word = "send"

(* What on_send does with the buffer.                                      *)
Meaning(b) ==
    IF CommandNum(b) = 1
      THEN IF b[1].word \in Commands \ {"send"} THEN b[1].word ELSE "invalid"
    ELSE IF IsSend(b) THEN "send"
    ELSE IF CommandNum(b) = 2 THEN "nothing"
    ELSE "echo"

(* And what it means by itself, without what is left over in the buffer.   *)
Intended(line) ==
    IF Len(line) = 1
      THEN IF line[1] \in Commands \ {"send"} THEN line[1] ELSE "invalid"
    ELSE IF Len(line) = 2 THEN IF line[1] = "send" THEN "send" ELSE "nothing"
    ELSE "echo"

-----------------------------------------------------------------------------
Init ==
    /\ loop = "run"
    /\ stdin = [open |-> TRUE, reading |-> TRUE]
    /\ listening = TRUE
    /\ conns = [fd \in Fds |-> [open |-> FALSE, reset |-> FALSE, userdata |-> 0]]
    /\ clients = <<>> /\ conn = <<>>
    /\ readbuf = [i \in 1..Slots |-> [word |-> Empty, delim |-> Empty]]
    /\ send = Idle /\ due = {}
    /\ typed = [line |-> <<>>, did |-> Empty]

(* Mutant: the node stays in the list.                                     *)
OnCloseKeepsNode(fd) ==
    LET n == conns[fd].userdata IN
    /\ conns' = [conns EXCEPT ![fd] = [open |-> FALSE, reset |-> FALSE,
                                       userdata |-> 0]]
    /\ conn' = [conn EXCEPT ![n].live = FALSE]
    /\ UNCHANGED clients

(* hio_close of a client's connection, and on_close.                       *)
OnClose(fd) ==
    LET n == conns[fd].userdata IN
    /\ conns' = [conns EXCEPT ![fd] = [open |-> FALSE, reset |-> FALSE,
                                       userdata |-> 0]]
    /\ clients' = ListDel(n)
    /\ conn' = [conn EXCEPT ![n].live = FALSE]

(* hio_write to a client: a connection that the peer has reset is closed   *)
(* before it returns, unless bytes are queued already, which these only    *)
(* join.  Otherwise they are sent or queued (HioConn).                     *)
HioWrite(fd) == UNCHANGED io \/ (conns[fd].reset /\ OnClose(fd))

(* on_accept *)
OnAccept(fd) ==
    /\ Running /\ listening
    /\ ~conns[fd].open /\ Len(conn) < MaxClients
    /\ LET n == Len(conn) + 1 IN
       /\ conn' = Append(conn, [fd |-> fd, live |-> TRUE])
       /\ clients' = <<n>> \o clients
       /\ conns' = [conns EXCEPT ![fd] = [open |-> TRUE, reset |-> FALSE,
                                          userdata |-> n]]
    /\ UNCHANGED <<loop, stdin, listening, readbuf, send, due, typed>>

(* accept fails, out of descriptors for instance: nio_accept closes the    *)
(* listening socket.                                                       *)
AcceptFails ==
    /\ Running /\ listening
    /\ listening' = FALSE
    /\ UNCHANGED <<loop, stdin, io, readbuf, send, due, typed>>

(* on_recv: a line from a client; PING is answered.                        *)
OnRecv(fd, chunk) ==
    /\ Running /\ conns[fd].open
    /\ readbuf' = Overlay(chunk, TRUE)
    /\ IF readbuf'[1].word = "PING" THEN HioWrite(fd) ELSE UNCHANGED io
    /\ UNCHANGED <<loop, stdin, listening, send, due, typed>>

(* The peer has closed or reset the connection and nio_read finds it.      *)
Disconnected(fd) ==
    /\ Running /\ conns[fd].open
    /\ OnClose(fd)
    /\ UNCHANGED <<loop, stdin, listening, readbuf, send, due, typed>>

(* Mutant: the walk begins behind the first node.                          *)
SendStrTail(str) ==
    /\ send' = IF Len(clients) < 2 THEN Idle
               ELSE [str |-> str, at |-> clients[2]]
    /\ due' = InList

(* SendStr, up to the body of list_for_each.                               *)
SendStr(str) ==
    /\ send' = IF clients = <<>> THEN Idle
               ELSE [str |-> str, at |-> Head(clients)]
    /\ due' = InList

(* The body, hio_write(conn->io, str), and then node = node->next.         *)
(* Undefined if the node has been freed by then: disabled in SendNext.     *)
SendWrite ==
    /\ send.at \in due /\ conn[send.at].live
    /\ HioWrite(conn[send.at].fd)
    /\ due' = due \ {send.at}
    /\ UNCHANGED <<loop, stdin, listening, readbuf, send, typed>>

SendNext ==
    /\ send.at # 0 /\ send.at \notin due /\ conn[send.at].live
    /\ send' = IF Position(send.at) = Len(clients) THEN Idle
               ELSE [send EXCEPT !.at = clients[Position(send.at) + 1]]
    /\ UNCHANGED <<loop, stdin, listening, io, readbuf, due, typed>>

(* on_send: a line typed on stdin.                                         *)
OnSend(line) ==
    /\ Running /\ stdin.reading
    /\ LET b == Overlay(line, FALSE)
           did == Meaning(b)
       IN
       /\ typed' = [line |-> line, did |-> did]
       /\ readbuf' = IF did = "echo" THEN Overlay(line, TRUE) ELSE b
       /\ loop' = IF did = "quit" THEN "stop" ELSE loop
       /\ \/ /\ did \in {"stop", "close", "echo"} \* echo: hio_write(stdin) fails
             /\ stdin' = [open |-> did = "stop", reading |-> FALSE]
          \/ did \notin {"stop", "close"} /\ UNCHANGED stdin
       /\ IF did = "PING" THEN SendStr("PING")
          ELSE IF IsSend(b) THEN SendStr(SecondWord(b))
          ELSE UNCHANGED <<send, due>>
    /\ UNCHANGED <<listening, io>>

(* The end of stdin: nio_read closes it.                                   *)
StdinEnds ==
    /\ Running /\ stdin.reading
    /\ stdin' = [open |-> FALSE, reading |-> FALSE]
    /\ UNCHANGED <<loop, listening, io, readbuf, send, due, typed>>

(* The peer resets the connection: the next write to it fails.             *)
PeerResets(fd) ==
    /\ conns[fd].open
    /\ conns' = [conns EXCEPT ![fd].reset = TRUE]
    /\ UNCHANGED <<loop, stdin, listening, clients, conn, readbuf, send, due, typed>>

(* hloop_run returns after hloop_stop, or when nothing is active any more. *)
HloopRunReturns ==
    \/ loop = "stop"
    \/ ~stdin.reading /\ ~listening /\ \A fd \in Fds : ~conns[fd].open

(* main: hloop_free after hloop_run.                                       *)
HloopFree ==
    /\ Running /\ HloopRunReturns
    /\ loop' = "freeing"
    /\ stdin' = [open |-> FALSE, reading |-> FALSE] /\ listening' = FALSE
    /\ UNCHANGED <<io, readbuf, send, due, typed>>

(* Mutant: hio_free without hio_close.                                     *)
HioFreeQuiet(fd) ==
    /\ conns' = [conns EXCEPT ![fd] = [open |-> FALSE, reset |-> FALSE,
                                       userdata |-> 0]]
    /\ UNCHANGED <<clients, conn>>

(* hio_free of a client's hio_t, with hio_close and so on_close.           *)
HioFree(fd) == OnClose(fd)

(* hloop_cleanup: the hio_t of each descriptor is freed, then the loop.    *)
HloopCleanup ==
    /\ loop = "freeing"
    /\ \/ \E fd \in Fds : conns[fd].open /\ HioFree(fd) /\ UNCHANGED loop
       \/ /\ \A fd \in Fds : ~conns[fd].open
          /\ loop' = "freed"
          /\ UNCHANGED io
    /\ UNCHANGED <<stdin, listening, readbuf, send, due, typed>>

Next ==
    \/ \E fd \in Fds : OnAccept(fd) \/ Disconnected(fd) \/ PeerResets(fd)
    \/ \E fd \in Fds, chunk \in Chunks : OnRecv(fd, chunk)
    \/ \E line \in Lines : OnSend(line)
    \/ AcceptFails \/ SendWrite \/ SendNext \/ StdinEnds
    \/ HloopFree \/ HloopCleanup

Spec == Init /\ [][Next]_vars

-----------------------------------------------------------------------------
(* The fields have their types; what is sent is a word (Server.c:126).     *)
TypeOK ==
    /\ loop \in {"run", "stop", "freeing", "freed"}
    /\ stdin \in [open : BOOLEAN, reading : BOOLEAN] /\ listening \in BOOLEAN
    /\ conns \in [Fds -> [open : BOOLEAN, reset : BOOLEAN,
                          userdata : 0..MaxClients]]
    /\ conn \in Seq([fd : Fds, live : BOOLEAN])
    /\ clients \in Seq(1..Len(conn)) /\ due \subseteq 1..Len(conn)
    /\ readbuf \in [1..Slots -> [word : Words, delim : {Space, Newline, Empty}]]
    /\ send \in [str : Words \ {Empty, Newline}, at : 0..Len(conn)]

(* The list holds the io_t of every open connection, once, and no other,   *)
(* and the connection's userdata is that io_t (on_accept, on_close); when  *)
(* the loop is gone every io_t has been freed ("NOTE: call hio_close to    *)
(* call hclose_cb", hloop.c:725).                                          *)
ListExact ==
    /\ \A i, j \in 1..Len(clients) : clients[i] = clients[j] => i = j
    /\ InList = {n \in 1..Len(conn) : conn[n].live}
    /\ \A n \in InList :
         conns[conn[n].fd].open /\ conns[conn[n].fd].userdata = n
    /\ \A fd \in Fds : conns[fd].open => conns[fd].userdata \in InList
    /\ loop = "freed" => clients = <<>>

(* SendStr writes to every client that is in the list, once: those still   *)
(* due are the ones from the node it is at to the end (Server.c:52-59).    *)
Broadcast ==
    \/ send.at = 0 /\ due = {}
    \/ \E i \in 1..Len(clients) :
         /\ clients[i] = send.at
         /\ due \in {{clients[j] : j \in i..Len(clients)},
                     {clients[j] : j \in i + 1..Len(clients)}}
    \/ send.at # 0 /\ ~conn[send.at].live

(* The node that SendStr is at has not been freed: list_for_each is not    *)
(* list_for_each_safe (Server.c:55, list.h).                               *)
NoFreedNode == send.at # 0 => conn[send.at].live

(* A line does what it says, whatever was in the buffer before: on_send    *)
(* counts the words of "the input command" (Server.c:83-84).               *)
CommandObeyed == typed.line # <<>> => typed.did = Intended(typed.line)

=============================================================================
