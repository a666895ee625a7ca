-------------------------- MODULE NetmtServerProofs --------------------------
(***************************************************************************)
(* Theorems about the server, for any descriptors, any number of clients,  *)
(* any lines typed and received and any size of the read buffer.           *)
(***************************************************************************)
EXTENDS NetmtServer, SequenceTheorems, FiniteSetTheorems, TLAPS

Injective(s) == \A i, j \in 1..Len(s) : s[i] = s[j] => i = j

(* A descriptor's userdata is an io_t of that descriptor.                  *)
UserdataOK == \A fd \in Fds : conns[fd].open => conn[conns[fd].userdata].fd = fd

(* What follows a space in the buffer is a word: what on_recv spoils       *)
(* follows a newline.                                                      *)
Follows(b, i) ==
    b[i].delim = Space =>
      i + 1 \in 1..Slots /\ b[i + 1].word \notin {Empty, Newline}
BufferOK == \A i \in 1..Slots : Follows(readbuf, i)

(* Nothing is being sent once the loop has ended.                          *)
EndOK == loop \in {"freeing", "freed"} => send.at = 0

Conn == [open : BOOLEAN, reset : BOOLEAN, userdata : 0..MaxClients]
Client == [fd : Fds, live : BOOLEAN]
Slot == [word : Words, delim : {Space, Newline, Empty}]

(* The inductive invariant, by the variables that it is about.             *)
LoopInv ==
    /\ loop \in {"run", "stop", "freeing", "freed"}
    /\ stdin \in [open : BOOLEAN, reading : BOOLEAN] /\ listening \in BOOLEAN
    /\ EndOK
ListInv ==
    /\ conns \in [Fds -> Conn] /\ conn \in Seq(Client)
    /\ clients \in Seq(1..Len(conn))
    /\ UserdataOK /\ ListExact
BufInv == readbuf \in [1..Slots -> Slot] /\ BufferOK
SendInv ==
    /\ due \subseteq 1..Len(conn)
    /\ send \in [str : Words \ {Empty, Newline}, at : 0..Len(conn)]
    /\ Broadcast
Inv == LoopInv /\ ListInv /\ BufInv /\ SendInv

-----------------------------------------------------------------------------
(* list_del takes out the one node it is given.                            *)
LEMMA ListDelProps ==
    ASSUME NEW S, clients \in Seq(S), Injective(clients), NEW n \in InList
    PROVE  LET d == ListDel(n) IN
           /\ Position(n) \in 1..Len(clients) /\ clients[Position(n)] = n
           /\ d \in Seq(S) /\ Injective(d)
           /\ {d[i] : i \in 1..Len(d)} = InList \ {n}
<1> DEFINE p == Position(n)
           d == ListDel(n)
           L == Len(clients)
<1>1. p \in 1..L /\ clients[p] = n
    BY DEF InList, Position
<1>2. /\ L \in Nat /\ L >= 1 /\ p \in Nat /\ 1 <= p /\ p <= L
      /\ \A i \in 1..L : clients[i] \in S
    BY <1>1
<1>3. \A i \in 1..L - 1 : d[i] = clients[IF i < p THEN i ELSE i + 1]
    BY DEF ListDel
<1>4. \A i \in 1..L - 1 : /\ i < p => d[i] = clients[i] /\ i \in 1..L
                          /\ ~(i < p) => d[i] = clients[i + 1] /\ i + 1 \in 1..L
    <2> HIDE DEF d, p
    <2> QED
        BY <1>2, <1>3
<1>5. d \in Seq(S) /\ Len(d) = L - 1
    <2>1. d = [i \in 1..L - 1 |-> d[i]] /\ L - 1 \in Nat
        BY <1>2 DEF ListDel
    <2>2. \A i \in 1..L - 1 : d[i] \in S
        <3> HIDE DEF d, p
        <3> QED
            BY <1>2, <1>4
    <2> HIDE DEF d
    <2>3. d \in [1..L - 1 -> S]
        BY <2>1, <2>2
    <2> QED
        BY <2>1, <2>3, IsASeq, LenProperties
<1> HIDE DEF d, p
<1>6. Injective(d)
    <2> SUFFICES ASSUME NEW i \in 1..L - 1, NEW j \in 1..L - 1, d[i] = d[j]
                 PROVE  i = j
        BY <1>5 DEF Injective
    <2>1. \A a, b \in 1..L : clients[a] = clients[b] => a = b
        BY DEF Injective
    <2> QED
        BY <1>2, <1>4, <2>1
<1>7. ASSUME NEW y
      PROVE  y \in {d[i] : i \in 1..L - 1} <=> y \in InList /\ y # n
    <2>1. ASSUME NEW i \in 1..L - 1, y = d[i]
          PROVE  y \in InList /\ y # n
        <3>1. \A a, b \in 1..L : clients[a] = clients[b] => a = b
            BY DEF Injective
        <3>2. CASE i < p
            <4>1. d[i] = clients[i] /\ i \in 1..L /\ i # p
                BY <1>2, <1>4, <3>2
            <4> QED
                BY <1>1, <2>1, <3>1, <4>1 DEF InList
        <3>3. CASE ~(i < p)
            <4>1. d[i] = clients[i + 1] /\ i + 1 \in 1..L /\ i + 1 # p
                BY <1>2, <1>4, <3>3
            <4> QED
                BY <1>1, <2>1, <3>1, <4>1 DEF InList
        <3> QED
            BY <3>2, <3>3
    <2>2. ASSUME y \in InList, y # n
          PROVE  \E i \in 1..L - 1 : d[i] = y
        <3>1. PICK k \in 1..L : clients[k] = y
            BY <2>2 DEF InList
        <3>2. k # p
            BY <1>1, <2>2, <3>1
        <3>3. CASE k < p
            <4>1. k \in 1..L - 1
                BY <1>2, <3>3
            <4> QED
                BY <1>4, <3>1, <3>3, <4>1
        <3>4. CASE ~(k < p)
            <4>1. k - 1 \in 1..L - 1 /\ ~(k - 1 < p) /\ k - 1 + 1 = k
                BY <1>2, <3>2, <3>4
            <4> QED
                BY <1>4, <3>1, <4>1
        <3> QED
            BY <3>3, <3>4
    <2> QED
        BY <2>1, <2>2
<1> QED
    BY <1>1, <1>5, <1>6, <1>7 DEF d, p

(* hio_close and on_close take the connection out of everything.           *)
LEMMA OnCloseKeeps ==
    ASSUME ListInv, NEW fd \in Fds, conns[fd].open,
           OnClose(fd), loop' # "freed"
    PROVE  ListInv' /\ Len(conn') = Len(conn) /\ ~conn'[conns[fd].userdata].live
<1> DEFINE n == conns[fd].userdata
           closed == [open |-> FALSE, reset |-> FALSE, userdata |-> 0]
<1>1. /\ clients \in Seq(1..Len(conn)) /\ Injective(clients)
      /\ conns \in [Fds -> Conn] /\ conn \in Seq(Client) /\ Len(conn) \in Nat
      /\ n \in InList /\ n \in 1..Len(conn) /\ conn[n].fd = fd
    BY DEF ListInv, ListExact, Injective, UserdataOK
<1>2. /\ conns' = [conns EXCEPT ![fd] = closed]
      /\ clients' = ListDel(n)
      /\ conn' = [conn EXCEPT ![n].live = FALSE]
    BY DEF OnClose
<1>3. closed \in Conn /\ ~closed.open
    BY BoundAssumption DEF Conn
<1>4. /\ clients' \in Seq(1..Len(conn)) /\ Injective(clients')
      /\ InList' = InList \ {n}
    <2> HIDE DEF n
    <2>1. /\ ListDel(n) \in Seq(1..Len(conn)) /\ Injective(ListDel(n))
          /\ {ListDel(n)[i] : i \in 1..Len(ListDel(n))} = InList \ {n}
        BY <1>1, ListDelProps
    <2>2. InList' = {clients'[i] : i \in 1..Len(clients')}
        BY DEF InList
    <2> QED
        BY <1>2, <2>1, <2>2
<1>5. /\ conn' \in Seq(Client) /\ Len(conn') = Len(conn)
      /\ \A m \in 1..Len(conn) : conn'[m].fd = conn[m].fd
      /\ \A m \in 1..Len(conn) : m # n => conn'[m] = conn[m]
      /\ ~conn'[n].live
    <2> DEFINE c == [conn[n] EXCEPT !.live = FALSE]
    <2>1. conn' = [conn EXCEPT ![n] = c]
        BY <1>2
    <2>2. conn[n] \in Client
        BY <1>1
    <2>3. c \in Client /\ c.fd = conn[n].fd /\ ~c.live
        BY <2>2 DEF Client
    <2> HIDE DEF c
    <2> QED
        BY <1>1, <2>1, <2>3, ExceptSeq
<1> HIDE DEF n, closed
<1>6. conns' \in [Fds -> Conn]
    BY <1>1, <1>2, <1>3
<1>7. /\ ~conns'[fd].open
      /\ \A g \in Fds : g # fd => conns'[g] = conns[g]
    BY <1>1, <1>2, <1>3
<1>8. \A g \in Fds : g # fd /\ conns[g].open => conns[g].userdata # n
    BY <1>1 DEF ListInv, UserdataOK
<1>9. UserdataOK'
    <2> SUFFICES ASSUME NEW g \in Fds, conns'[g].open
                 PROVE  conn'[conns'[g].userdata].fd = g
        BY DEF UserdataOK
    <2>1. g # fd /\ conns'[g] = conns[g]
        BY <1>7
    <2>2. conns[g].userdata \in 1..Len(conn) /\ conn[conns[g].userdata].fd = g
        BY <2>1 DEF ListInv, ListExact, UserdataOK
    <2> QED
        BY <1>5, <2>1, <2>2
<1>10. ListExact'
    <2>1. InList' = {m \in 1..Len(conn') : conn'[m].live}
        BY <1>1, <1>4, <1>5 DEF ListInv, ListExact
    <2>2. ASSUME NEW m \in InList'
          PROVE  conns'[conn'[m].fd].open /\ conns'[conn'[m].fd].userdata = m
        <3>1. m \in InList /\ m # n /\ m \in 1..Len(conn)
            BY <1>1, <1>4 DEF ListInv, ListExact
        <3>2. /\ conns[conn[m].fd].open /\ conns[conn[m].fd].userdata = m
              /\ conn[m].fd \in Fds
            <4>1. conn[m] \in Client
                BY <1>1, <3>1
            <4> QED
                BY <3>1, <4>1 DEF ListInv, ListExact, Client
        <3>3. conn[m].fd # fd
            BY <3>1, <3>2 DEF n
        <3> QED
            BY <1>5, <1>7, <3>1, <3>2, <3>3
    <2>3. ASSUME NEW g \in Fds, conns'[g].open
          PROVE  conns'[g].userdata \in InList'
        <3>1. g # fd /\ conns'[g] = conns[g]
            BY <1>7, <2>3
        <3> QED
            BY <1>4, <1>8, <2>3, <3>1 DEF ListInv, ListExact
    <2> QED
        BY <1>4, <2>1, <2>2, <2>3 DEF ListExact, Injective
<1> QED
    BY <1>4, <1>5, <1>6, <1>9, <1>10 DEF n, ListInv

-----------------------------------------------------------------------------
(* The read buffer.                                                        *)
LEMMA Characters ==
    /\ Space # Newline /\ Space # Empty /\ Newline # Empty
    /\ \A w \in Commands \cup {"text"} : w # Newline /\ w # Empty
BY Zenon DEF Space, Newline, Empty, Commands

LEMMA OverlayKeeps ==
    ASSUME readbuf \in [1..Slots -> Slot], BufferOK,
           NEW line \in Lines \cup Chunks, NEW crlf \in BOOLEAN
    PROVE  LET b == Overlay(line, crlf) IN
           /\ b \in [1..Slots -> Slot]
           /\ \A i \in 1..Slots : Follows(b, i)
<1> DEFINE b == Overlay(line, crlf)
           L == Len(line)
<1>1. /\ L \in 1..Slots /\ Slots \in Nat
      /\ \A i \in 1..L : line[i] \in Commands \cup {"text"}
    BY LineAssumption, BoundAssumption
<1>2. ASSUME NEW i \in 1..Slots
      PROVE  /\ i < L => b[i] = [word |-> line[i], delim |-> Space]
             /\ i = L => b[i] = [word |-> line[i], delim |-> Newline]
             /\ i > L => b[i] = IF crlf /\ i = L + 1
                                  THEN [readbuf[i] EXCEPT !.word = Newline]
                                  ELSE readbuf[i]
    BY <1>1 DEF Overlay
<1>3. /\ Newline \in Words /\ \A w \in Commands \cup {"text"} : w \in Words
    BY DEF Words
<1>4. ASSUME NEW i \in 1..Slots
      PROVE  /\ b[i] \in Slot
             /\ i < L => b[i].word = line[i] /\ b[i].delim = Space
             /\ i = L => b[i].word = line[i] /\ b[i].delim = Newline
             /\ i > L => b[i].delim = readbuf[i].delim
             /\ i > L + 1 => b[i].word = readbuf[i].word
    <2> HIDE DEF b
    <2>1. readbuf[i] \in Slot
        OBVIOUS
    <2>2. L \in Nat /\ i \in Nat
        BY <1>1
    <2>3. CASE i <= L
        <3>1. line[i] \in Words
            BY <1>1, <1>3, <2>2, <2>3
        <3>2. \A w \in Words, d \in {Space, Newline} :
                /\ [word |-> w, delim |-> d] \in Slot
                /\ [word |-> w, delim |-> d].word = w
                /\ [word |-> w, delim |-> d].delim = d
            BY DEF Slot
        <3> HIDE DEF L
        <3>3. CASE i < L
            <4>1. b[i] \in Slot /\ b[i].word = line[i] /\ b[i].delim = Space
                BY <1>2, <3>1, <3>2, <3>3, Zenon
            <4> QED
                BY <2>2, <3>3, <4>1
        <3>4. CASE i = L
            <4>1. b[i] \in Slot /\ b[i].word = line[i] /\ b[i].delim = Newline
                BY <1>2, <3>1, <3>2, <3>4, Zenon
            <4> QED
                BY <2>2, <3>4, <4>1
        <3> QED
            BY <2>2, <2>3, <3>3, <3>4
    <2>4. CASE i > L
        <3> DEFINE r == [readbuf[i] EXCEPT !.word = Newline]
        <3>1. r \in Slot /\ r.delim = readbuf[i].delim
            BY <1>3, <2>1 DEF Slot
        <3>2. b[i] = IF crlf /\ i = L + 1 THEN r ELSE readbuf[i]
            BY <1>2, <2>4
        <3> HIDE DEF r, L
        <3>3. CASE crlf /\ i = L + 1
            BY <2>2, <2>4, <3>1, <3>2, <3>3
        <3>4. CASE ~(crlf /\ i = L + 1)
            BY <2>1, <2>2, <2>4, <3>2, <3>4
        <3> QED
            BY <3>3, <3>4
    <2> QED
        BY <2>2, <2>3, <2>4
<1>5. b = [i \in 1..Slots |-> b[i]]
    BY DEF Overlay
<1> HIDE DEF b
<1>6. b \in [1..Slots -> Slot]
    BY <1>4, <1>5
<1>7. ASSUME NEW i \in 1..Slots, b[i].delim = Space
      PROVE  i + 1 \in 1..Slots /\ b[i + 1].word \notin {Empty, Newline}
    <2>1. i # L
        BY <1>4, <1>7, Characters
    <2>2. CASE i < L
        <3>1. i + 1 \in 1..L /\ i + 1 \in 1..Slots /\ i + 1 <= L
            BY <1>1, <2>2
        <3>2. b[i + 1].word = line[i + 1]
            BY <1>4, <1>1, <3>1
        <3> QED
            BY <1>1, <3>1, <3>2, Characters
    <2>3. CASE i > L
        <3>1. readbuf[i].delim = Space
            BY <1>4, <1>7, <2>3
        <3>2. i + 1 \in 1..Slots /\ readbuf[i + 1].word \notin {Empty, Newline}
            BY <3>1 DEF BufferOK, Follows
        <3>3. i + 1 > L + 1
            BY <1>1, <2>3
        <3> QED
            BY <1>4, <3>2, <3>3
    <2> QED
        BY <1>1, <2>1, <2>2, <2>3
<1> QED
    BY <1>6, <1>7 DEF b, Follows

(* What is sent is a word: there is one after the space.                   *)
LEMMA SecondWordIsWord ==
    ASSUME NEW b \in [1..Slots -> Slot], \A i \in 1..Slots : Follows(b, i),
           IsSend(b)
    PROVE  SecondWord(b) \in Words \ {Empty, Newline}
<1> DEFINE spaces == {i \in 1..Slots : b[i].delim = Space}
           First(i) == \A j \in spaces : i <= j
<1>1. \E i \in spaces : spaces = {i}
    <2>1. IsFiniteSet(spaces) /\ Cardinality(spaces) \in Nat
        <3>1. IsFiniteSet(1..Slots) /\ spaces \subseteq 1..Slots
            BY FS_Interval, BoundAssumption
        <3> HIDE DEF spaces
        <3> QED
            BY <3>1, FS_Subset, FS_CardinalityType
    <2>2. 1 + Cardinality(spaces) = 2
        BY DEF IsSend, CommandNum
    <2> HIDE DEF spaces
    <2>3. Cardinality(spaces) = 1
        BY <2>1, <2>2
    <2> QED
        BY <2>1, <2>3, FS_Singleton
<1>2. \E i \in spaces : First(i)
    <2>1. spaces \subseteq Nat
        BY BoundAssumption
    <2> HIDE DEF spaces
    <2> QED
        BY <1>1, <2>1
<1> DEFINE k == CHOOSE i \in spaces : First(i)
<1>3. k \in spaces
    BY <1>2
<1>4. SecondWord(b) = b[1 + k].word
    BY <1>1 DEF SecondWord
<1> HIDE DEF k
<1>5. k + 1 \in 1..Slots /\ b[k + 1].word \notin {Empty, Newline} /\ 1 + k = k + 1
    BY <1>3, BoundAssumption DEF Follows
<1>6. b[k + 1] \in Slot
    BY <1>5
<1> QED
    BY <1>4, <1>5, <1>6 DEF Slot

-----------------------------------------------------------------------------
(* What the steps do to each part of the invariant.                        *)
LEMMA Silent ==
    ASSUME Inv, send.at = 0
    PROVE  due = {}
<1>1. \A i \in 1..Len(clients) : clients[i] # 0
    <2>1. \A i \in 1..Len(clients) : clients[i] \in 1..Len(conn)
        BY DEF Inv, ListInv
    <2> QED
        BY <2>1
<1> QED
    BY <1>1 DEF Inv, SendInv, Broadcast

LEMMA Unsent ==
    ASSUME Inv, send.at = 0, UNCHANGED <<send, due>>,
           Len(conn') \in Nat, Len(conn') >= Len(conn)
    PROVE  SendInv'
<1>1. due = {} /\ Len(conn) \in Nat
    BY Silent DEF Inv, ListInv
<1>2. send \in [str : Words \ {Empty, Newline}, at : 0..Len(conn')]
    <2>1. 0..Len(conn) \subseteq 0..Len(conn')
        BY <1>1
    <2> QED
        BY <2>1 DEF Inv, SendInv
<1> QED
    BY <1>1, <1>2 DEF SendInv, Broadcast

(* Steps that leave the connections alone.                                 *)
LEMMA SameList ==
    ASSUME ListInv, UNCHANGED io, loop' = "freed" => clients = <<>>
    PROVE  ListInv'
<1>1. UNCHANGED <<conns, clients, conn>>
    BY DEF io
<1> QED
    BY <1>1 DEF ListInv, UserdataOK, ListExact, InList

LEMMA SameSend ==
    ASSUME Inv, UNCHANGED <<clients, conn, send, due>>
    PROVE  SendInv'
BY DEF Inv, SendInv, Broadcast

LEMMA HioWriteKeeps ==
    ASSUME ListInv, NEW fd \in Fds, conns[fd].open, HioWrite(fd), loop' # "freed"
    PROVE  /\ ListInv' /\ Len(conn') = Len(conn)
           /\ UNCHANGED io \/ ~conn'[conns[fd].userdata].live
<1>1. CASE OnClose(fd)
    BY <1>1, OnCloseKeeps
<1>2. CASE UNCHANGED io
    BY <1>2, SameList DEF io
<1> QED
    BY <1>1, <1>2 DEF HioWrite

(* on_accept puts the new io_t, and only it, at the head of the list.      *)
LEMMA OnAcceptKeeps ==
    ASSUME Inv, NEW fd \in Fds, OnAccept(fd)
    PROVE  ListInv' /\ SendInv'
<1> DEFINE n == Len(conn) + 1
           c == [fd |-> fd, live |-> TRUE]
           d == [open |-> TRUE, reset |-> FALSE, userdata |-> n]
<1>1. /\ conn' = Append(conn, c) /\ clients' = <<n>> \o clients
      /\ conns' = [conns EXCEPT ![fd] = d]
      /\ ~conns[fd].open /\ Len(conn) < MaxClients
      /\ loop' = loop /\ loop # "freed" /\ send.at = 0
      /\ UNCHANGED <<send, due>>
    BY DEF OnAccept, Running
<1>2. /\ conns \in [Fds -> Conn] /\ conn \in Seq(Client) /\ Len(conn) \in Nat
      /\ clients \in Seq(1..Len(conn)) /\ Len(clients) \in Nat
      /\ \A i \in 1..Len(clients) : clients[i] \in 1..Len(conn)
      /\ n \in Nat /\ n # 0 /\ n \in 0..MaxClients
    BY <1>1, BoundAssumption DEF Inv, ListInv
<1>3. c \in Client /\ c.fd = fd /\ c.live /\ d \in Conn /\ d.open /\ d.userdata = n
    BY <1>2 DEF Client, Conn
<1> HIDE DEF c, d
<1>4. /\ conn' \in Seq(Client) /\ Len(conn') = n /\ conn'[n] = c
      /\ \A m \in 1..Len(conn) : conn'[m] = conn[m]
    BY <1>1, <1>2, <1>3, AppendProperties
<1>5. /\ Len(clients') = Len(clients) + 1 /\ clients'[1] = n
      /\ \A i \in 1..Len(clients) : clients'[i + 1] = clients[i]
      /\ clients' \in Seq(1..n)
    <2>1. <<n>> \in Seq(1..n) /\ Len(<<n>>) = 1 /\ <<n>>[1] = n
        BY <1>2
    <2>2. clients \in Seq(1..n)
        <3>1. \A i \in 1..Len(clients) : clients[i] \in 1..n
            BY <1>2
        <3> QED
            BY <1>2, <3>1, SeqDef
    <2> DEFINE t == <<n>>
    <2> HIDE DEF t
    <2>3. /\ t \o clients \in Seq(1..n) /\ Len(t \o clients) = Len(t) + Len(clients)
          /\ \A i \in 1..Len(t) + Len(clients) :
                (t \o clients)[i] = IF i <= Len(t) THEN t[i] ELSE clients[i - Len(t)]
        BY <2>1, <2>2, ConcatProperties DEF t
    <2>4. clients' = t \o clients /\ Len(t) = 1 /\ t[1] = n
        BY <1>1, <2>1 DEF t
    <2> QED
        BY <1>2, <2>3, <2>4
<1>6. \A j \in 1..Len(clients') :
        \/ j = 1
        \/ /\ j - 1 \in 1..Len(clients) /\ j = j - 1 + 1
           /\ clients'[j] = clients[j - 1] /\ clients'[j] # n
           /\ clients'[j] \in 1..Len(conn)
    <2> SUFFICES ASSUME NEW j \in 1..Len(clients'), j # 1
                 PROVE  /\ j - 1 \in 1..Len(clients) /\ j = j - 1 + 1
                        /\ clients'[j] = clients[j - 1] /\ clients'[j] # n
                        /\ clients'[j] \in 1..Len(conn)
        OBVIOUS
    <2>1. j - 1 \in 1..Len(clients) /\ j = j - 1 + 1
        BY <1>2, <1>5
    <2>2. clients'[j] = clients[j - 1] /\ clients[j - 1] \in 1..Len(conn)
        BY <1>2, <1>5, <2>1
    <2> QED
        BY <1>2, <2>1, <2>2
<1>7. Injective(clients')
    <2> SUFFICES ASSUME NEW i \in 1..Len(clients'), NEW j \in 1..Len(clients'),
                        clients'[i] = clients'[j]
                 PROVE  i = j
        BY DEF Injective
    <2>1. \A a, b \in 1..Len(clients) : clients[a] = clients[b] => a = b
        BY DEF Inv, ListInv, ListExact
    <2>2. CASE i = 1 \/ j = 1
        BY <1>5, <1>6, <2>2
    <2>3. CASE i # 1 /\ j # 1
        <3>1. /\ i - 1 \in 1..Len(clients) /\ j - 1 \in 1..Len(clients)
              /\ clients[i - 1] = clients[j - 1]
            BY <1>6, <2>3
        <3>2. i - 1 = j - 1
            BY <2>1, <3>1
        <3> QED
            BY <3>2
    <2> QED
        BY <2>2, <2>3
<1>8. InList' = InList \cup {n}
    <2>1. InList' = {clients'[i] : i \in 1..Len(clients')}
        BY DEF InList
    <2>2. ASSUME NEW i \in 1..Len(clients')
          PROVE  clients'[i] \in InList \cup {n}
        BY <1>5, <1>6 DEF InList
    <2>3. ASSUME NEW i \in 1..Len(clients)
          PROVE  clients[i] \in InList'
        <3>1. i + 1 \in 1..Len(clients')
            BY <1>2, <1>5
        <3> QED
            BY <1>5, <2>1, <3>1
    <2>4. 1 \in 1..Len(clients')
        BY <1>2, <1>5
    <2>5. n \in InList'
        BY <1>5, <2>1, <2>4
    <2>6. \A y \in InList' : y \in InList \cup {n}
        BY <2>1, <2>2
    <2>7. \A y \in InList : y \in InList'
        BY <2>3 DEF InList
    <2> QED
        BY <2>5, <2>6, <2>7
<1>9. /\ conns' \in [Fds -> Conn] /\ conns'[fd] = d
      /\ \A g \in Fds : g # fd => conns'[g] = conns[g]
    BY <1>1, <1>2, <1>3
<1> HIDE DEF n
<1>10. n = Len(conn) + 1
    BY DEF n
<1>11. \A g \in Fds : conns[g].open =>
         /\ conns[g].userdata \in 1..Len(conn) /\ conns[g].userdata \in InList
         /\ conn[conns[g].userdata].fd = g
    BY DEF Inv, ListInv, ListExact, UserdataOK
<1>12. UserdataOK'
    BY <1>1, <1>3, <1>4, <1>9, <1>11 DEF UserdataOK
<1>13. ListExact'
    <2>1. InList = {m \in 1..Len(conn) : conn[m].live}
        BY DEF Inv, ListInv, ListExact
    <2>2. InList' = {m \in 1..Len(conn') : conn'[m].live}
        BY <1>2, <1>3, <1>4, <1>8, <1>10, <2>1
    <2>3. ASSUME NEW m \in InList'
          PROVE  conns'[conn'[m].fd].open /\ conns'[conn'[m].fd].userdata = m
        <3>1. CASE m = n
            BY <1>3, <1>4, <1>9, <3>1
        <3>2. CASE m # n
            <4>1. m \in InList /\ m \in 1..Len(conn)
                BY <1>8, <2>1, <3>2
            <4>2. conn[m] \in Client
                BY <1>2, <4>1
            <4>3. /\ conns[conn[m].fd].open /\ conns[conn[m].fd].userdata = m
                  /\ conn[m].fd \in Fds
                BY <4>1, <4>2 DEF Inv, ListInv, ListExact, Client
            <4> QED
                BY <1>1, <1>4, <1>9, <4>1, <4>3
        <3> QED
            BY <3>1, <3>2
    <2>4. ASSUME NEW g \in Fds, conns'[g].open
          PROVE  conns'[g].userdata \in InList'
        BY <1>3, <1>8, <1>9, <1>11, <2>4
    <2> QED
        BY <1>1, <1>7, <2>2, <2>3, <2>4 DEF ListExact, Injective
<1>14. ListInv'
    BY <1>4, <1>5, <1>9, <1>12, <1>13 DEF ListInv
<1>15. SendInv'
    BY <1>1, <1>2, <1>4, <1>10, Unsent
<1> QED
    BY <1>14, <1>15

LEMMA PeerResetsKeeps ==
    ASSUME Inv, NEW fd \in Fds, PeerResets(fd)
    PROVE  ListInv' /\ SendInv'
<1> DEFINE d == [conns[fd] EXCEPT !.reset = TRUE]
<1>1. /\ conns' = [conns EXCEPT ![fd] = d]
      /\ UNCHANGED <<clients, conn, send, due, loop>>
    BY DEF PeerResets
<1>2. conns \in [Fds -> Conn] /\ conns[fd] \in Conn
    BY DEF Inv, ListInv
<1>3. d \in Conn /\ d.open = conns[fd].open /\ d.userdata = conns[fd].userdata
    BY <1>2 DEF Conn
<1> HIDE DEF d
<1>4. /\ conns' \in [Fds -> Conn]
      /\ \A g \in Fds : /\ conns'[g].open = conns[g].open
                         /\ conns'[g].userdata = conns[g].userdata
    BY <1>1, <1>2, <1>3
<1>5. \A n \in InList : conn[n].fd \in Fds /\ n \in 1..Len(conn)
    <2>1. ASSUME NEW n \in InList
          PROVE  conn[n].fd \in Fds /\ n \in 1..Len(conn)
        <3>1. n \in 1..Len(conn) /\ conn \in Seq(Client)
            BY DEF Inv, ListInv, ListExact
        <3>2. conn[n] \in Client
            BY <3>1
        <3> QED
            BY <3>1, <3>2 DEF Client
    <2> QED
        BY <2>1
<1>6. UserdataOK'
    BY <1>1, <1>4 DEF Inv, ListInv, UserdataOK
<1>7. ListExact'
    BY <1>1, <1>4, <1>5 DEF Inv, ListInv, ListExact, InList
<1> QED
    BY <1>1, <1>4, <1>6, <1>7, SameSend DEF Inv, ListInv

(* A walk begins at the head of the list, with all of it to come.          *)
LEMMA SendStrKeeps ==
    ASSUME Inv, UNCHANGED io, NEW str \in Words \ {Empty, Newline}, SendStr(str)
    PROVE  SendInv'
<1>1. UNCHANGED <<conns, clients, conn>>
    BY DEF io
<1>2. /\ clients \in Seq(1..Len(conn)) /\ Len(conn) \in Nat
      /\ Len(clients) \in Nat
      /\ \A i \in 1..Len(clients) : clients[i] \in 1..Len(conn)
    BY DEF Inv, ListInv
<1>3. due' = InList /\ InList \subseteq 1..Len(conn)
    BY <1>2 DEF SendStr, InList
<1>4. CASE clients = <<>>
    <2>1. send' = Idle /\ InList = {}
        BY <1>4 DEF SendStr, InList
    <2>2. send' \in [str : Words \ {Empty, Newline}, at : 0..Len(conn)] /\ send'.at = 0
        <3>1. "text" \in Words \ {Empty, Newline}
            BY Characters DEF Words
        <3> QED
            BY <1>2, <2>1, <3>1 DEF Idle
    <2> QED
        BY <1>1, <1>3, <2>1, <2>2 DEF SendInv, Broadcast
<1>5. CASE clients # <<>>
    <2>1. Len(clients) > 0 /\ 1 \in 1..Len(clients) /\ Head(clients) = clients[1]
        BY <1>2, <1>5, EmptySeq
    <2>2. send' = [str |-> str, at |-> clients[1]]
        BY <1>5, <2>1 DEF SendStr
    <2>3. /\ send' \in [str : Words \ {Empty, Newline}, at : 0..Len(conn)]
          /\ send'.at = clients[1]
        BY <1>2, <2>1, <2>2
    <2>4. Broadcast'
        <3>1. due' = {clients[j] : j \in 1..Len(clients)}
            BY <1>3 DEF InList
        <3> QED
            BY <1>1, <2>1, <2>3, <3>1 DEF Broadcast
    <2> QED
        BY <1>1, <1>3, <2>3, <2>4 DEF SendInv
<1> QED
    BY <1>4, <1>5

(* Where a walk is that has not lost its node.                             *)
LEMMA WalkAt ==
    ASSUME Inv, send.at # 0, conn[send.at].live
    PROVE  LET i == Position(send.at) IN
           /\ i \in 1..Len(clients) /\ clients[i] = send.at
           /\ \A j \in 1..Len(clients) : clients[j] = send.at => j = i
           /\ send.at \in due => due = {clients[j] : j \in i..Len(clients)}
           /\ send.at \notin due => due = {clients[j] : j \in i + 1..Len(clients)}
<1>1. PICK i \in 1..Len(clients) :
          /\ clients[i] = send.at
          /\ due \in {{clients[j] : j \in i..Len(clients)},
                     {clients[j] : j \in i + 1..Len(clients)}}
    BY DEF Inv, SendInv, Broadcast
<1>2. \A j, k \in 1..Len(clients) : clients[j] = clients[k] => j = k
    BY DEF Inv, ListInv, ListExact
<1>3. /\ Position(send.at) \in 1..Len(clients)
      /\ clients[Position(send.at)] = send.at
    BY <1>1 DEF Position
<1>4. Position(send.at) = i
    BY <1>1, <1>2, <1>3
<1>5. Len(clients) \in Nat
    BY DEF Inv, ListInv
<1>6. send.at \in {clients[j] : j \in i..Len(clients)}
    BY <1>1, <1>5
<1>7. send.at \notin {clients[j] : j \in i + 1..Len(clients)}
    <2>1. ASSUME NEW j \in i + 1..Len(clients)
          PROVE  clients[j] # send.at
        <3>1. j \in 1..Len(clients) /\ j # i
            BY <1>1, <1>5
        <3> QED
            BY <1>1, <1>2, <3>1
    <2> QED
        BY <2>1
<1> QED
    BY <1>1, <1>2, <1>3, <1>4, <1>6, <1>7

LEMMA SendWriteKeeps ==
    ASSUME Inv, SendWrite
    PROVE  ListInv' /\ SendInv'
<1> DEFINE n == send.at
           fd == conn[n].fd
           i == Position(n)
<1>1. /\ n \in due /\ conn[n].live /\ HioWrite(fd) /\ due' = due \ {n}
      /\ send' = send /\ loop' = loop
    BY DEF SendWrite
<1>2. /\ n \in 1..Len(conn) /\ n # 0 /\ conn \in Seq(Client) /\ Len(conn) \in Nat
      /\ due \subseteq 1..Len(conn)
      /\ send \in [str : Words \ {Empty, Newline}, at : 0..Len(conn)]
    BY <1>1 DEF Inv, ListInv, SendInv
<1>3. loop # "freed"
    BY <1>2 DEF Inv, LoopInv, EndOK
<1>4. fd \in Fds /\ conns[fd].open /\ conns[fd].userdata = n
    <2>1. conn[n] \in Client
        BY <1>2
    <2>2. n \in InList
        BY <1>1, <1>2 DEF Inv, ListInv, ListExact
    <2> QED
        BY <2>1, <2>2 DEF Inv, ListInv, ListExact, Client
<1>5. /\ ListInv' /\ Len(conn') = Len(conn)
      /\ UNCHANGED io \/ ~conn'[n].live
    <2> HIDE DEF fd
    <2> QED
        BY <1>1, <1>3, <1>4, HioWriteKeeps DEF Inv
<1>6. Broadcast'
    <2>1. CASE ~conn'[n].live
        BY <1>1, <1>2, <2>1 DEF Broadcast
    <2>2. CASE UNCHANGED io
        <3>1. /\ i \in 1..Len(clients) /\ clients[i] = n
              /\ \A j \in 1..Len(clients) : clients[j] = n => j = i
              /\ due = {clients[j] : j \in i..Len(clients)}
            BY <1>1, <1>2, WalkAt
        <3> HIDE DEF i
        <3>2. Len(clients) \in Nat
            BY DEF Inv, ListInv
        <3>3. due' = {clients[j] : j \in i + 1..Len(clients)}
            <4>1. ASSUME NEW j \in i..Len(clients), clients[j] # n
                  PROVE  j \in i + 1..Len(clients)
                BY <3>1, <3>2, <4>1
            <4>2. ASSUME NEW j \in i + 1..Len(clients)
                  PROVE  j \in i..Len(clients) /\ clients[j] # n
                <5>1. j \in i..Len(clients) /\ j \in 1..Len(clients) /\ j # i
                    BY <3>1, <3>2
                <5> QED
                    BY <3>1, <5>1
            <4> QED
                BY <1>1, <3>1, <4>1, <4>2
        <3>4. clients' = clients /\ send'.at = clients[i]
            BY <1>1, <2>2, <3>1 DEF io
        <3> QED
            BY <3>1, <3>3, <3>4 DEF Broadcast
    <2> QED
        BY <1>5, <2>1, <2>2
<1> QED
    BY <1>1, <1>2, <1>5, <1>6 DEF SendInv

LEMMA SendNextKeeps ==
    ASSUME Inv, SendNext
    PROVE  SendInv'
<1> DEFINE n == send.at
           i == Position(n)
<1>1. /\ n # 0 /\ n \notin due /\ conn[n].live /\ UNCHANGED io /\ due' = due
      /\ send' = IF i = Len(clients) THEN Idle ELSE [send EXCEPT !.at = clients[i + 1]]
    BY DEF SendNext
<1>2. UNCHANGED <<clients, conn>>
    BY <1>1 DEF io
<1>3. /\ Len(clients) \in Nat /\ Len(conn) \in Nat
      /\ \A j \in 1..Len(clients) : clients[j] \in 1..Len(conn)
      /\ send \in [str : Words \ {Empty, Newline}, at : 0..Len(conn)]
      /\ due \subseteq 1..Len(conn)
    BY DEF Inv, ListInv, SendInv
<1>4. /\ i \in 1..Len(clients) /\ clients[i] = n
      /\ due = {clients[j] : j \in i + 1..Len(clients)}
    BY <1>1, WalkAt
<1> HIDE DEF i
<1>5. CASE i = Len(clients)
    <2>1. send' = Idle /\ due' = {}
        BY <1>1, <1>3, <1>4, <1>5
    <2>2. "text" \in Words \ {Empty, Newline}
        BY Characters DEF Words
    <2> QED
        BY <1>2, <1>3, <2>1, <2>2 DEF SendInv, Broadcast, Idle
<1>6. CASE i # Len(clients)
    <2>1. i + 1 \in 1..Len(clients)
        BY <1>3, <1>4, <1>6
    <2>2. /\ send' \in [str : Words \ {Empty, Newline}, at : 0..Len(conn)]
          /\ send'.at = clients[i + 1]
        BY <1>1, <1>3, <1>6, <2>1
    <2>3. Broadcast'
        BY <1>1, <1>2, <1>4, <2>1, <2>2 DEF Broadcast
    <2> QED
        BY <1>1, <1>2, <1>3, <2>2, <2>3 DEF SendInv
<1> QED
    BY <1>5, <1>6

LEMMA RunningKeeps ==
    ASSUME Inv, NEW fd \in Fds,
           Disconnected(fd) \/ \E chunk \in Chunks : OnRecv(fd, chunk)
    PROVE  ListInv' /\ SendInv'
<1>1. /\ conns[fd].open /\ loop' # "freed" /\ send.at = 0
      /\ UNCHANGED <<send, due>>
      /\ OnClose(fd) \/ HioWrite(fd) \/ UNCHANGED io
    BY DEF Disconnected, OnRecv, Running
<1>2. ListInv' /\ Len(conn') = Len(conn)
    BY <1>1, OnCloseKeeps, HioWriteKeeps, SameList DEF Inv, io
<1>3. Len(conn) \in Nat
    BY DEF Inv, ListInv
<1>4. SendInv'
    BY <1>1, <1>2, <1>3, Unsent
<1> QED
    BY <1>2, <1>4

LEMMA OnSendKeeps ==
    ASSUME Inv, NEW line \in Lines, OnSend(line)
    PROVE  ListInv' /\ SendInv'
<1> DEFINE b == Overlay(line, FALSE)
<1>1. /\ UNCHANGED io /\ send.at = 0 /\ loop' # "freed"
      /\ \/ SendStr("PING")
         \/ IsSend(b) /\ SendStr(SecondWord(b))
         \/ UNCHANGED <<send, due>>
    BY DEF OnSend, Running
<1>2. ListInv'
    BY <1>1, SameList DEF Inv
<1>3. "PING" \in Words \ {Empty, Newline}
    BY Characters DEF Words, Commands
<1>4. IsSend(b) => SecondWord(b) \in Words \ {Empty, Newline}
    <2>1. b \in [1..Slots -> Slot] /\ \A i \in 1..Slots : Follows(b, i)
        BY OverlayKeeps DEF Inv, BufInv
    <2> HIDE DEF b
    <2> QED
        BY <2>1, SecondWordIsWord
<1> HIDE DEF b
<1>5. CASE UNCHANGED <<send, due>>
    BY <1>1, <1>2, <1>5, SameSend DEF io
<1>6. CASE SendStr("PING")
    <2>1. SendInv'
        BY <1>1, <1>3, <1>6, SendStrKeeps
    <2> QED
        BY <1>2, <2>1
<1>7. CASE IsSend(b) /\ SendStr(SecondWord(b))
    <2> DEFINE w == SecondWord(b)
    <2>1. w \in Words \ {Empty, Newline} /\ SendStr(w)
        BY <1>4, <1>7
    <2> HIDE DEF w
    <2>2. SendInv'
        BY <1>1, <2>1, SendStrKeeps
    <2> QED
        BY <1>2, <2>2
<1> QED
    BY <1>1, <1>2, <1>5, <1>6, <1>7

(* hio_free of every descriptor empties the list.                          *)
LEMMA HloopCleanupKeeps ==
    ASSUME Inv, HloopCleanup
    PROVE  ListInv' /\ SendInv'
<1>1. /\ loop = "freeing" /\ UNCHANGED <<send, due>> /\ send.at = 0
      /\ Len(conn) \in Nat
    BY DEF HloopCleanup, Inv, LoopInv, EndOK, ListInv
<1>2. CASE \E fd \in Fds : conns[fd].open /\ HioFree(fd) /\ UNCHANGED loop
    <2>1. PICK fd \in Fds : conns[fd].open /\ OnClose(fd) /\ UNCHANGED loop
        BY <1>2 DEF HioFree
    <2>2. ListInv' /\ Len(conn') = Len(conn)
        BY <1>1, <2>1, OnCloseKeeps DEF Inv
    <2> QED
        BY <1>1, <2>2, Unsent
<1>3. CASE (\A fd \in Fds : ~conns[fd].open) /\ UNCHANGED io
    <2>1. clients = <<>>
        <3>1. ASSUME NEW i \in 1..Len(clients)
              PROVE  FALSE
            <4>1. /\ clients[i] \in InList /\ clients[i] \in 1..Len(conn)
                  /\ conn \in Seq(Client)
                BY DEF InList, Inv, ListInv
            <4>2. conn[clients[i]] \in Client
                BY <4>1
            <4>3. conns[conn[clients[i]].fd].open
                BY <4>1 DEF Inv, ListInv, ListExact
            <4> QED
                BY <1>3, <4>2, <4>3 DEF Client
        <3>2. clients \in Seq(1..Len(conn)) /\ Len(clients) \in Nat
            BY DEF Inv, ListInv
        <3>3. Len(clients) = 0
            BY <3>1, <3>2
        <3> QED
            BY <3>2, <3>3, EmptySeq
    <2> QED
        BY <1>1, <1>3, <2>1, SameList, SameSend DEF Inv, io
<1> QED
    BY <1>2, <1>3 DEF HloopCleanup

LEMMA BufNext ==
    ASSUME Inv, [Next]_vars
    PROVE  BufInv'
<1>1. CASE readbuf' = readbuf
    BY <1>1 DEF Inv, BufInv, BufferOK, Follows
<1>2. ASSUME NEW line \in Lines \cup Chunks, NEW crlf \in BOOLEAN,
             readbuf' = Overlay(line, crlf)
      PROVE  BufInv'
    BY <1>2, OverlayKeeps DEF Inv, BufInv, BufferOK, Follows
<1>3. \/ readbuf' = readbuf
      \/ \E line \in Lines \cup Chunks, crlf \in BOOLEAN : readbuf' = Overlay(line, crlf)
    BY DEF Next, OnAccept, Disconnected, PeerResets, OnRecv, OnSend, AcceptFails,
           SendWrite, SendNext, StdinEnds, HloopFree, HloopCleanup, vars
<1> QED
    BY <1>1, <1>2, <1>3

LEMMA LoopNext ==
    ASSUME Inv, [Next]_vars
    PROVE  LoopInv'
<1>1. CASE UNCHANGED <<loop, stdin, listening, send>>
    BY <1>1 DEF Inv, LoopInv, EndOK
<1>2. CASE AcceptFails
    BY <1>2 DEF AcceptFails, Inv, LoopInv, EndOK
<1>3. ASSUME NEW line \in Lines, OnSend(line)
      PROVE  LoopInv'
    <2>1. /\ loop' \in {"run", "stop"} /\ listening' = listening
          /\ stdin' = stdin \/ \E o \in BOOLEAN : stdin' = [open |-> o, reading |-> FALSE]
        BY <1>3 DEF OnSend, Running, Inv, LoopInv
    <2>2. stdin' \in [open : BOOLEAN, reading : BOOLEAN]
        <3>1. ASSUME NEW o \in BOOLEAN, stdin' = [open |-> o, reading |-> FALSE]
              PROVE  stdin' \in [open : BOOLEAN, reading : BOOLEAN]
            BY <3>1
        <3>2. stdin \in [open : BOOLEAN, reading : BOOLEAN]
            BY DEF Inv, LoopInv
        <3> QED
            BY <2>1, <3>1, <3>2
    <2> QED
        BY <2>1, <2>2 DEF Inv, LoopInv, EndOK
<1>4. CASE SendNext
    BY <1>4 DEF SendNext, Inv, LoopInv, EndOK
<1>5. CASE StdinEnds
    BY <1>5 DEF StdinEnds, Inv, LoopInv, EndOK
<1>6. CASE HloopFree
    BY <1>6 DEF HloopFree, Running, Inv, LoopInv, EndOK
<1>7. CASE HloopCleanup
    BY <1>7 DEF HloopCleanup, Inv, LoopInv, EndOK
<1> QED
    BY <1>1, <1>2, <1>3, <1>4, <1>5, <1>6, <1>7
       DEF Next, OnAccept, Disconnected, PeerResets, OnRecv, SendWrite, vars

LEMMA ListNext ==
    ASSUME Inv, [Next]_vars
    PROVE  ListInv' /\ SendInv'
<1>1. CASE UNCHANGED vars
    BY <1>1, SameList, SameSend DEF vars, io, Inv, ListInv, ListExact
<1>2. CASE AcceptFails \/ StdinEnds \/ HloopFree
    <2>1. UNCHANGED <<io, send, due>> /\ loop' # "freed"
        BY <1>2 DEF AcceptFails, StdinEnds, HloopFree, Running
    <2> QED
        BY <2>1, SameList, SameSend DEF Inv, io
<1>3. CASE SendNext
    <2>1. ListInv'
        <3>1. UNCHANGED io /\ loop' = loop
            BY <1>3 DEF SendNext
        <3> QED
            BY <3>1, SameList DEF Inv, ListInv, ListExact
    <2> QED
        BY <1>3, <2>1, SendNextKeeps
<1> QED
    BY <1>1, <1>2, <1>3, OnAcceptKeeps, PeerResetsKeeps, RunningKeeps, OnSendKeeps,
       SendWriteKeeps, HloopCleanupKeeps DEF Next

LEMMA Invariance == Spec => []Inv
<1>1. Init => Inv
    <2> SUFFICES ASSUME Init PROVE Inv
        OBVIOUS
    <2>1. LoopInv
        BY DEF Init, LoopInv, EndOK, Idle
    <2>2. clients = <<>> /\ conn = <<>> /\ Len(conn) = 0 /\ Len(clients) = 0
        BY DEF Init
    <2>3. ListInv
        <3>1. /\ conns \in [Fds -> Conn] /\ \A fd \in Fds : ~conns[fd].open
            BY BoundAssumption DEF Init, Conn
        <3>2. conn \in Seq(Client) /\ clients \in Seq(1..Len(conn))
            BY <2>2, EmptySeq
        <3> QED
            BY <2>2, <3>1, <3>2 DEF ListInv, UserdataOK, ListExact, InList
    <2>4. BufInv
        <3> DEFINE r == [word |-> Empty, delim |-> Empty]
        <3>1. r \in Slot /\ r.delim # Space
            BY Characters DEF Slot, Words
        <3>2. readbuf = [i \in 1..Slots |-> r]
            BY DEF Init
        <3> HIDE DEF r
        <3> QED
            BY <3>1, <3>2 DEF BufInv, BufferOK, Follows
    <2>5. SendInv
        <3>1. "text" \in Words \ {Empty, Newline}
            BY Characters DEF Words
        <3>2. send = Idle /\ due = {}
            BY DEF Init
        <3> QED
            BY <2>2, <3>1, <3>2 DEF SendInv, Broadcast, Idle
    <2> QED
        BY <2>1, <2>3, <2>4, <2>5 DEF Inv
<1>2. Inv /\ [Next]_vars => Inv'
    BY BufNext, LoopNext, ListNext DEF Inv
<1> QED
    BY <1>1, <1>2, PTL DEF Spec

-----------------------------------------------------------------------------
(* The fields keep their types, and what a broadcast sends is always a     *)
(* word that was typed or left in the buffer, never the end of one: on_recv*)
(* spoils only what follows a newline (Server.c:126, 163-175).             *)
THEOREM TypeCorrect == Spec => []TypeOK
<1>1. Inv => TypeOK
    BY DEF Inv, LoopInv, ListInv, BufInv, SendInv, TypeOK, Conn, Client, Slot
<1> QED
    BY <1>1, Invariance, PTL

(* The list of clients is exact: whichever of the peer, a failing write in *)
(* the middle of a broadcast, and the end of the loop closes a connection, *)
(* on_close takes its io_t out of the list, and no other (on_accept,       *)
(* on_close, hio_free).                                                    *)
THEOREM ListCorrect == Spec => []ListExact
<1>1. Inv => ListExact
    BY DEF Inv, ListInv
<1> QED
    BY <1>1, Invariance, PTL

(* SendStr comes to every client once, as long as the node it is at is not *)
(* freed under it (list_for_each, Server.c:52-59).                         *)
THEOREM BroadcastReaches == Spec => []Broadcast
<1>1. Inv => Broadcast
    BY DEF Inv, SendInv
<1> QED
    BY <1>1, Invariance, PTL

=============================================================================
