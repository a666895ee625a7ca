----------------------- MODULE AsyncHttpClientProofs -----------------------
(* Theorems about AsyncHttpClient, for every set of tasks and descriptors,  *)
(* every number of retries and whatever the servers do.                     *)
EXTENDS AsyncHttpClient, SequenceTheorems, FiniteSetTheorems, TLAPS

(* What holds of one descriptor: only idle channels are in the pool, idle   *)
(* channels are there or about to be closed, the timer of a channel means a *)
(* task, as do the attempt to connect and a request not answered, which is *)
(* the task's own.                                                         *)
ChanOK(f) ==
    LET c == channels[f]
        connected == Open(f) /\ c.status = "CONNECTED"
    IN /\ Among(f, conn_pools) => connected /\ c.task = NoTask
       /\ connected /\ c.task = NoTask => Among(f, conn_pools) \/ c.close
       /\ Open(f) /\ (c.timer \/ c.status = "CONNECTING") => c.task # NoTask
       /\ asked[f] # <<>> => connected /\ c.task # NoTask /\ asked[f] = <<c.task>>

Distinct(s) == \A j, k \in 1..Len(s) : s[j] = s[k] => j = k

Inv == TypeOK /\ RightResponse /\ Distinct(conn_pools) /\ \A f \in Fds : ChanOK(f)

(* The type of the values that callbacks add to.                           *)
Base == [queue : Seq(Task), waiting : SUBSET Task,
         got : [Task -> Seq(Task \cup {NoTask})], asked : [Fds -> Seq(Task)]]
Right(b) == \A t \in Task : \A k \in 1..Len(b.got[t]) : b.got[t][k] \in {t, NoTask}
(* A channel that can be at f, with what was asked of it.                  *)
Fits(c, a) ==
    /\ c.timer \/ c.status = "CONNECTING" => c.task # NoTask
    /\ a # <<>> => c.status = "CONNECTED" /\ c.task # NoTask /\ a = <<c.task>>
SameAsked(b, f) == \A g \in Fds : g # f => b.asked[g] = asked[g]

-----------------------------------------------------------------------------
(* ConnPool::remove takes out what it is told and nothing else.            *)
LEMMA RemoveProps ==
    ASSUME NEW S, NEW s \in Seq(S), NEW x, Distinct(s)
    PROVE  /\ Remove(s, x) \in Seq(S)
           /\ Distinct(Remove(s, x))
           /\ \A y : Among(y, Remove(s, x)) <=> Among(y, s) /\ y # x
<1>1. CASE ~Among(x, s)
    BY <1>1 DEF Remove, Among
<1>2. CASE Among(x, s)
    <2> DEFINE First(k) == s[k] = x /\ \A j \in 1..(k - 1) : s[j] # x
               k == CHOOSE k \in 1..Len(s) : First(k)
               r == SubSeq(s, 1, k - 1) \o SubSeq(s, k + 1, Len(s))
    <2>1. \E i \in 1..Len(s) : First(i)
        BY <1>2 DEF Among, Distinct
    <2>2. k \in 1..Len(s) /\ s[k] = x
        BY <2>1
    <2>3. Remove(s, x) = r
        BY <1>2 DEF Remove
    <2> HIDE DEF k
    <2>4. /\ r \in Seq(S) /\ Len(r) = Len(s) - 1
          /\ \A i \in 1..Len(r) : r[i] = IF i < k THEN s[i] ELSE s[i + 1]
        <3> DEFINE u == SubSeq(s, 1, k - 1)
                   v == SubSeq(s, k + 1, Len(s))
        <3>1. /\ k \in Int /\ Len(s) \in Nat /\ 1 <= k /\ k <= Len(s)
              /\ \A i \in 1..Len(s) : s[i] \in S
            BY <2>2
        <3>2. /\ u \in Seq(S) /\ Len(u) = k - 1
              /\ \A i \in 1..(k - 1) : u[i] = s[i]
            <4>1. \A i \in 1..(k - 1) : s[i] \in S
                BY <3>1
            <4>2. /\ u \in Seq(S) /\ Len(u) = IF 1 <= k - 1 THEN k - 1 - 1 + 1 ELSE 0
                  /\ \A i \in 1..(k - 1 - 1 + 1) : u[i] = s[1 + i - 1]
                BY <4>1, <3>1, SubSeqProperties
            <4> HIDE DEF u
            <4> QED
                BY <4>2, <3>1
        <3>3. /\ v \in Seq(S) /\ Len(v) = Len(s) - k
              /\ \A i \in 1..(Len(s) - k) : v[i] = s[k + i]
            <4>1. \A i \in (k + 1)..Len(s) : s[i] \in S
                BY <3>1
            <4>2. /\ v \in Seq(S)
                  /\ Len(v) = IF k + 1 <= Len(s) THEN Len(s) - (k + 1) + 1 ELSE 0
                  /\ \A i \in 1..(Len(s) - (k + 1) + 1) : v[i] = s[(k + 1) + i - 1]
                BY <4>1, <3>1, SubSeqProperties
            <4> HIDE DEF v
            <4> QED
                BY <4>2, <3>1
        <3> HIDE DEF u, v
        <3>4. /\ r \in Seq(S) /\ Len(r) = Len(u) + Len(v)
              /\ \A i \in 1..(Len(u) + Len(v)) :
                   r[i] = IF i <= Len(u) THEN u[i] ELSE v[i - Len(u)]
            BY <3>2, <3>3, ConcatProperties DEF u, v
        <3> HIDE DEF r
        <3>5. Len(r) = Len(s) - 1
            BY <3>1, <3>2, <3>3, <3>4
        <3>6. ASSUME NEW i \in 1..Len(r)
              PROVE  r[i] = IF i < k THEN s[i] ELSE s[i + 1]
            <4>1. CASE i < k
                <5>1. i \in 1..(k - 1) /\ i <= Len(u) /\ i \in 1..(Len(u) + Len(v))
                    BY <3>1, <3>2, <3>3, <3>5, <4>1
                <5>2. r[i] = u[i]
                    BY <3>4, <5>1
                <5> QED
                    BY <3>2, <4>1, <5>1, <5>2
            <4>2. CASE ~(i < k)
                <5>1. r[i] = v[i - Len(u)] /\ i - Len(u) \in 1..(Len(s) - k)
                    BY <3>1, <3>2, <3>3, <3>4, <3>5, <4>2
                <5>2. k + (i - Len(u)) = i + 1
                    BY <3>1, <3>2, <3>5
                <5> QED
                    BY <3>3, <4>2, <5>1, <5>2
            <4> QED
                BY <4>1, <4>2
        <3> QED
            BY <3>4, <3>5, <3>6
    <2> HIDE DEF r
    <2>5. Distinct(r)
        BY <2>2, <2>4 DEF Distinct
    <2>6. ASSUME NEW y PROVE Among(y, r) <=> Among(y, s) /\ y # x
        <3>1. ASSUME Among(y, r) PROVE Among(y, s) /\ y # x
            <4>1. PICK i \in 1..Len(r) : r[i] = y
                BY <3>1 DEF Among
            <4>2. CASE i < k
                BY <2>2, <2>4, <4>1, <4>2 DEF Among, Distinct
            <4>3. CASE ~(i < k)
                BY <2>2, <2>4, <4>1, <4>3 DEF Among, Distinct
            <4> QED
                BY <4>2, <4>3
        <3>2. ASSUME Among(y, s), y # x PROVE Among(y, r)
            <4>1. PICK i \in 1..Len(s) : s[i] = y
                BY <3>2 DEF Among
            <4>2. CASE i < k
                BY <2>2, <2>4, <4>1, <4>2 DEF Among
            <4>3. CASE i > k
                <5>1. i - 1 \in 1..Len(r) /\ r[i - 1] = y
                    BY <2>2, <2>4, <4>1, <4>3
                <5> QED
                    BY <5>1 DEF Among
            <4> QED
                BY <2>2, <3>2, <4>1, <4>2, <4>3
        <3> QED
            BY <3>1, <3>2
    <2> QED
        BY <2>3, <2>4, <2>5, <2>6
<1> QED
    BY <1>1, <1>2

(* Taking the first out of a sequence, and adding one at its end.          *)
LEMMA TailProps ==
    ASSUME NEW S, NEW s \in Seq(S), s # <<>>, Distinct(s)
    PROVE  /\ Tail(s) \in Seq(S) /\ Head(s) \in S /\ Among(Head(s), s)
           /\ Distinct(Tail(s))
           /\ \A y : Among(y, Tail(s)) <=> Among(y, s) /\ y # Head(s)
<1>1. /\ Tail(s) \in Seq(S) /\ Len(Tail(s)) = Len(s) - 1 /\ Len(s) \in Nat \ {0}
      /\ \A i \in 1..Len(Tail(s)) : Tail(s)[i] = s[i + 1]
      /\ Head(s) = s[1] /\ Head(s) \in S
    OBVIOUS
<1>2. Distinct(Tail(s))
    BY <1>1 DEF Distinct
<1>3. ASSUME NEW y PROVE Among(y, Tail(s)) <=> Among(y, s) /\ y # Head(s)
    <2>1. ASSUME Among(y, Tail(s)) PROVE Among(y, s) /\ y # Head(s)
        <3>1. PICK i \in 1..Len(Tail(s)) : Tail(s)[i] = y
            BY <2>1 DEF Among
        <3>2. i + 1 \in 1..Len(s) /\ s[i + 1] = y /\ 1 \in 1..Len(s) /\ i + 1 # 1
            BY <1>1, <3>1
        <3> QED
            BY <1>1, <3>2 DEF Among, Distinct
    <2>2. ASSUME Among(y, s), y # Head(s) PROVE Among(y, Tail(s))
        <3>1. PICK i \in 1..Len(s) : s[i] = y
            BY <2>2 DEF Among
        <3>2. i - 1 \in 1..Len(Tail(s)) /\ Tail(s)[i - 1] = y
            BY <1>1, <2>2, <3>1
        <3> QED
            BY <3>2 DEF Among
    <2> QED
        BY <2>1, <2>2
<1>4. Among(Head(s), s)
    BY <1>1 DEF Among
<1> QED
    BY <1>1, <1>2, <1>3, <1>4

LEMMA AppendProps ==
    ASSUME NEW S, NEW s \in Seq(S), NEW x \in S, Distinct(s), ~Among(x, s)
    PROVE  /\ Append(s, x) \in Seq(S) /\ Distinct(Append(s, x))
           /\ \A y : Among(y, Append(s, x)) <=> Among(y, s) \/ y = x
<1> DEFINE r == Append(s, x)
<1>1. /\ r \in Seq(S) /\ Len(r) = Len(s) + 1 /\ Len(s) \in Nat /\ r[Len(s) + 1] = x
      /\ \A i \in 1..Len(s) : r[i] = s[i]
    OBVIOUS
<1> HIDE DEF r
<1>2. Distinct(r)
    <2> SUFFICES ASSUME NEW j \in 1..Len(r), NEW k \in 1..Len(r), r[j] = r[k]
                 PROVE  j = k
        BY DEF Distinct
    <2>1. CASE j \in 1..Len(s) /\ k \in 1..Len(s)
        BY <1>1, <2>1 DEF Distinct
    <2>2. CASE j = Len(s) + 1 /\ k \in 1..Len(s)
        BY <1>1, <2>2 DEF Among
    <2>3. CASE j \in 1..Len(s) /\ k = Len(s) + 1
        BY <1>1, <2>3 DEF Among
    <2> QED
        BY <1>1, <2>1, <2>2, <2>3
<1>3. ASSUME NEW y PROVE Among(y, r) <=> Among(y, s) \/ y = x
    BY <1>1 DEF Among
<1> QED
    BY <1>1, <1>2, <1>3 DEF r

-----------------------------------------------------------------------------
(* Answering a task in the way onread and onclose do keeps the base right. *)
LEMMA AnsweredProps ==
    ASSUME NEW b \in Base, Right(b), NEW t \in Task \cup {NoTask},
           NEW resp \in {t, NoTask}
    PROVE  /\ Answered(b, t, resp) \in Base /\ Right(Answered(b, t, resp))
           /\ Answered(b, t, resp).asked = b.asked
<1>1. CASE t = NoTask
    BY <1>1 DEF Answered
<1>2. CASE t # NoTask
    <2> DEFINE g == [b.got EXCEPT ![t] = Append(@, resp)]
    <2>1. /\ Answered(b, t, resp) = [b EXCEPT !.got = g] /\ t \in Task
          /\ b.got \in [Task -> Seq(Task \cup {NoTask})]
        BY <1>2 DEF Answered, Base
    <2>2. g \in [Task -> Seq(Task \cup {NoTask})]
        BY <2>1
    <2>3. ASSUME NEW u \in Task, NEW k \in 1..Len(g[u]) PROVE g[u][k] \in {u, NoTask}
        <3>1. CASE u = t
            <4>1. g[u] = Append(b.got[t], resp) /\ b.got[t] \in Seq(Task \cup {NoTask})
                BY <2>1, <3>1
            <4>2. CASE k \in 1..Len(b.got[t])
                BY <2>1, <3>1, <4>1, <4>2 DEF Right
            <4>3. CASE k = Len(b.got[t]) + 1
                BY <3>1, <4>1, <4>3
            <4> QED
                BY <4>1, <4>2, <4>3
        <3>2. CASE u # t
            BY <2>1, <3>2 DEF Right
        <3> QED
            BY <3>1, <3>2
    <2> HIDE DEF g
    <2>4. /\ [b EXCEPT !.got = g] \in Base /\ [b EXCEPT !.got = g].got = g
          /\ [b EXCEPT !.got = g].asked = b.asked
        BY <2>2 DEF Base
    <2> QED
        BY <2>1, <2>3, <2>4 DEF Right
<1> QED
    BY <1>1, <1>2

LEMMA TriedAgainProps ==
    ASSUME NEW b \in Base, Right(b), NEW t \in Task
    PROVE  /\ TriedAgain(b, t) \in Base /\ Right(TriedAgain(b, t))
           /\ TriedAgain(b, t).asked = b.asked
<1>1. CASE t \in Delayed
    BY <1>1 DEF TriedAgain, Base, Right
<1>2. CASE t \notin Delayed
    <2>1. b.queue \in Seq(Task) /\ Append(b.queue, t) \in Seq(Task)
        BY DEF Base
    <2> QED
        BY <1>2, <2>1 DEF TriedAgain, Base, Right
<1> QED
    BY <1>1, <1>2

LEMMA AfterCloseProps ==
    ASSUME NEW b \in Base, Right(b), NEW t \in Task \cup {NoTask}
    PROVE  /\ AfterClose(b, t) \in Base /\ Right(AfterClose(b, t))
           /\ AfterClose(b, t).asked = b.asked
BY AnsweredProps, TriedAgainProps DEF AfterClose

(* A step that puts the channel x at f, when nothing else changes for the  *)
(* other descriptors.                                                      *)
LEMMA OtherChannels ==
    ASSUME Inv, NEW f \in Fds, NEW x \in Channel \cup {NoChannel},
           channels' = [channels EXCEPT ![f] = x],
           NEW b \in Base, SameAsked(b, f), asked' = b.asked,
           \A g \in Fds : g # f => (Among(g, conn_pools') <=> Among(g, conn_pools)),
           ChanOK(f)'
    PROVE  \A g \in Fds : ChanOK(g)'
<1> SUFFICES ASSUME NEW g \in Fds, g # f PROVE ChanOK(g)'
    OBVIOUS
<1>1. ChanOK(g) /\ channels'[g] = channels[g] /\ asked'[g] = asked[g]
    BY DEF Inv, TypeOK, SameAsked
<1>2. Among(g, conn_pools') <=> Among(g, conn_pools)
    OBVIOUS
<1> QED
    BY <1>1, <1>2 DEF ChanOK, Open

LEMMA BaseTypes ==
    ASSUME NEW b \in Base, Right(b), Becomes(b)
    PROVE  /\ queue' \in Seq(Task) /\ waiting' \subseteq Task
           /\ got' \in [Task -> Seq(Task \cup {NoTask})]
           /\ asked' \in [Fds -> Seq(Task)] /\ RightResponse'
BY DEF Base, Becomes, Right, RightResponse

LEMMA NowProps ==
    ASSUME Inv PROVE Now \in Base /\ Right(Now) /\ Now.asked = asked
                     /\ Now.queue = queue /\ Now.waiting = waiting
BY DEF Inv, TypeOK, RightResponse, Now, Base, Right

(* A channel is put at f.                                                  *)
LEMMA PutInv ==
    ASSUME Inv, NEW f \in Fds, NEW c \in Channel,
           NEW b \in Base, Right(b), SameAsked(b, f), Becomes(b),
           channels' = [channels EXCEPT ![f] = c],
           conn_pools' \in Seq(Fds), Distinct(conn_pools'),
           \A g \in Fds : g # f => (Among(g, conn_pools') <=> Among(g, conn_pools)),
           Among(f, conn_pools') => c.status = "CONNECTED" /\ c.task = NoTask,
           c.status = "CONNECTED" /\ c.task = NoTask => Among(f, conn_pools') \/ c.close,
           Fits(c, b.asked[f]),
           UNCHANGED <<peer, retry_cnt, expired>>
    PROVE  Inv'
<1>1. c # NoChannel /\ channels'[f] = c /\ asked' = b.asked
    BY HttpAssumption DEF Inv, TypeOK, Becomes
<1>2. ChanOK(f)'
    BY <1>1 DEF ChanOK, Fits, Open
<1>3. \A g \in Fds : ChanOK(g)'
    BY <1>1, <1>2, OtherChannels
<1>4. TypeOK'
    BY BaseTypes DEF Inv, TypeOK
<1> QED
    BY <1>3, <1>4, BaseTypes DEF Inv

(* onclose.                                                                *)
LEMMA OnCloseInv ==
    ASSUME Inv, NEW f \in Fds, NEW c \in Channel,
           NEW b \in Base, Right(b), SameAsked(b, f),
           OnClose(f, c, b), UNCHANGED expired
    PROVE  Inv'
<1> DEFINE a == AfterClose(b, c.task)
           e == [a EXCEPT !.asked[f] = <<>>]
<1>1. c.task \in Task \cup {NoTask}
    BY DEF Channel
<1>2. a \in Base /\ Right(a) /\ a.asked = b.asked
    BY <1>1, AfterCloseProps
<1> HIDE DEF a
<1>3. e \in Base /\ Right(e) /\ SameAsked(e, f) /\ e.asked[f] = <<>>
    <2>1. a.asked \in [Fds -> Seq(Task)] /\ <<>> \in Seq(Task)
        BY <1>2 DEF Base
    <2>2. [a.asked EXCEPT ![f] = <<>>] \in [Fds -> Seq(Task)]
        BY <2>1
    <2>3. e = [a EXCEPT !.asked = [a.asked EXCEPT ![f] = <<>>]]
        OBVIOUS
    <2>4. e \in Base /\ e.asked = [a.asked EXCEPT ![f] = <<>>] /\ e.got = a.got
        BY <1>2, <2>2, <2>3 DEF Base
    <2> HIDE DEF e
    <2> QED
        BY <1>2, <2>1, <2>4 DEF Right, SameAsked
<1>4. Becomes(e)
    BY DEF OnClose, a
<1> HIDE DEF e
<1>5. channels' = [channels EXCEPT ![f] = NoChannel] /\ channels'[f] = NoChannel
    BY DEF OnClose, Inv, TypeOK
<1>6. /\ conn_pools' \in Seq(Fds) /\ Distinct(conn_pools')
      /\ \A y : Among(y, conn_pools') <=> Among(y, conn_pools) /\ y # f
    BY RemoveProps DEF OnClose, Inv, TypeOK
<1>7. asked' = e.asked
    BY <1>4 DEF Becomes
<1>8. ChanOK(f)'
    BY <1>3, <1>5, <1>6, <1>7 DEF ChanOK, Open
<1>9. \A g \in Fds : ChanOK(g)'
    BY <1>3, <1>5, <1>6, <1>7, <1>8, OtherChannels
<1>10. /\ retry_cnt' \in [Task -> Int] /\ \A t \in Task : retry_cnt'[t] <= RetryCount
       /\ peer' \in [Fds -> {"open", "ended"} \cup (Faults \cap {"reset"})]
    BY <1>1, HttpAssumption DEF OnClose, Inv, TypeOK
<1>11. channels' \in [Fds -> Channel \cup {NoChannel}]
    BY <1>5 DEF Inv, TypeOK
<1>12. TypeOK' /\ RightResponse'
    BY <1>3, <1>4, <1>6, <1>10, <1>11, BaseTypes DEF Inv, TypeOK
<1> QED
    BY <1>6, <1>9, <1>12 DEF Inv

(* channel->close() with the channel as it is at f.                        *)
LEMMA CloseInv ==
    ASSUME Inv, NEW f \in Fds, NEW c \in Channel,
           NEW b \in Base, Right(b), SameAsked(b, f), Fits(c, b.asked[f]),
           Among(f, conn_pools) => c.status = "CONNECTED" /\ c.task = NoTask,
           Close(f, c, b), UNCHANGED expired
    PROVE  Inv'
<1>1. CASE c.unsent /\ ~c.close
    <2> DEFINE d == [c EXCEPT !.close = TRUE]
    <2>1. /\ d \in Channel /\ d.close /\ d.status = c.status /\ d.task = c.task
          /\ d.timer = c.timer
        BY DEF Channel
    <2>2. /\ channels' = [channels EXCEPT ![f] = d] /\ Becomes(b)
          /\ UNCHANGED <<conn_pools, peer, retry_cnt>>
        BY <1>1 DEF Close
    <2>3. Fits(d, b.asked[f])
        BY <2>1 DEF Fits
    <2>4. conn_pools' \in Seq(Fds) /\ Distinct(conn_pools')
        BY <2>2 DEF Inv, TypeOK
    <2> HIDE DEF d
    <2> QED
        BY <2>1, <2>2, <2>3, <2>4, PutInv
<1>2. CASE ~(c.unsent /\ ~c.close)
    BY <1>2, OnCloseInv DEF Close
<1> QED
    BY <1>1, <1>2

(* sendRequest of a channel that has a task and nothing asked, and is not  *)
(* in the pool after the step.                                             *)
LEMMA SendRequestInv ==
    ASSUME Inv, NEW f \in Fds, NEW c \in Channel, c.task # NoTask,
           NEW b \in Base, Right(b), SameAsked(b, f), b.asked[f] = <<>>,
           conn_pools' \in Seq(Fds), Distinct(conn_pools'), ~Among(f, conn_pools'),
           \A g \in Fds : g # f => (Among(g, conn_pools') <=> Among(g, conn_pools)),
           SendRequest(f, c, b), UNCHANGED expired
    PROVE  Inv'
<1> DEFINE e == [b EXCEPT !.asked[f] = Append(@, c.task)]
<1>1. PICK unsent \in BOOLEAN :
        channels' = [channels EXCEPT ![f] =
                        [c EXCEPT !.status = "CONNECTED", !.unsent = unsent \/ @]]
    BY DEF SendRequest
<1> DEFINE d == [c EXCEPT !.status = "CONNECTED", !.unsent = unsent \/ @]
<1>2. /\ d \in Channel /\ d.status = "CONNECTED" /\ d.task = c.task
      /\ d.timer = c.timer
    <2>1. c.unsent \in BOOLEAN
        BY DEF Channel
    <2>2. (unsent \/ c.unsent) \in BOOLEAN
        BY <2>1
    <2> QED
        BY <2>2 DEF Channel
<1>3. c.task \in Task
    BY DEF Channel
<1>4. e \in Base /\ Right(e) /\ SameAsked(e, f) /\ e.asked[f] = <<c.task>>
    <2> DEFINE as == [b.asked EXCEPT ![f] = Append(@, c.task)]
    <2>1. b.asked \in [Fds -> Seq(Task)] /\ Append(b.asked[f], c.task) = <<c.task>>
          /\ <<c.task>> \in Seq(Task)
        BY <1>3 DEF Base
    <2>2. /\ as \in [Fds -> Seq(Task)] /\ as[f] = <<c.task>>
          /\ \A g \in Fds : g # f => as[g] = b.asked[g]
        BY <2>1
    <2>3. e = [b EXCEPT !.asked = as]
        OBVIOUS
    <2> HIDE DEF as
    <2>4. e \in Base /\ e.asked = as /\ e.got = b.got
        BY <2>2, <2>3 DEF Base
    <2> HIDE DEF e
    <2> QED
        BY <2>2, <2>4 DEF Right, SameAsked
<1>5. Becomes(e) /\ UNCHANGED <<peer, retry_cnt>>
    BY DEF SendRequest
<1>6. channels' = [channels EXCEPT ![f] = d]
    BY <1>1
<1> HIDE DEF d, e
<1>7. Fits(d, e.asked[f])
    BY <1>2, <1>4 DEF Fits
<1> QED
    BY <1>2, <1>4, <1>5, <1>6, <1>7, PutInv

-----------------------------------------------------------------------------
(* doTask, from the queue or from the retry timer.                         *)
LEMMA DoTaskInv ==
    ASSUME Inv, NEW t \in Task, NEW b \in Base, Right(b), b.asked = asked,
           DoTask(t, b), UNCHANGED expired
    PROVE  Inv'
<1>1. conn_pools \in Seq(Fds) /\ Distinct(conn_pools) /\ channels \in [Fds -> Channel \cup {NoChannel}]
    BY DEF Inv, TypeOK
<1>2. ASSUME conn_pools # <<>>, UseChannel(t, Head(conn_pools), b) PROVE Inv'
    <2> DEFINE f == Head(conn_pools)
               c == [channels[f] EXCEPT !.task = t, !.timer = t \in Timed]
    <2>1. /\ f \in Fds /\ Among(f, conn_pools) /\ Tail(conn_pools) \in Seq(Fds)
          /\ Distinct(Tail(conn_pools))
          /\ \A y : Among(y, Tail(conn_pools)) <=> Among(y, conn_pools) /\ y # f
        BY <1>1, <1>2, TailProps
    <2>2. conn_pools' = Tail(conn_pools) /\ SendRequest(f, c, b)
        BY <1>2 DEF UseChannel
    <2> HIDE DEF f
    <2>3. ChanOK(f)
        BY <2>1 DEF Inv
    <2>4. Open(f) /\ channels[f].task = NoTask /\ asked[f] = <<>>
        BY <2>1, <2>3 DEF ChanOK
    <2>5. channels[f] \in Channel
        BY <1>1, <2>1, <2>4 DEF Open
    <2>6. c \in Channel /\ c.task # NoTask
        <3>1. (t \in Timed) \in BOOLEAN
            OBVIOUS
        <3> QED
            BY <2>5, <3>1, HttpAssumption DEF Channel
    <2> HIDE DEF c
    <2>7. SameAsked(b, f) /\ b.asked[f] = <<>>
        BY <2>4 DEF SameAsked
    <2> QED
        BY <2>1, <2>2, <2>6, <2>7, SendRequestInv
<1>3. ASSUME conn_pools = <<>>, NEW f \in Fds, ~Open(f), NewChannel(t, f, b) PROVE Inv'
    <2> DEFINE c == [task |-> t, status |-> "CONNECTING", timer |-> t \in Timed,
                     unsent |-> FALSE, close |-> FALSE]
    <2>1. c \in Channel /\ c.task # NoTask /\ c.status = "CONNECTING"
        BY HttpAssumption DEF Channel
    <2>2. ChanOK(f)
        BY DEF Inv
    <2>3. asked[f] = <<>> /\ ~Among(f, conn_pools) /\ SameAsked(b, f) /\ b.asked[f] = <<>>
        BY <1>3, <2>2 DEF ChanOK, SameAsked
    <2>4. Fits(c, b.asked[f])
        BY <2>1, <2>3 DEF Fits
    <2> HIDE DEF c
    <2>5. CASE SendRequest(f, c, b) /\ UNCHANGED conn_pools
        BY <1>1, <2>1, <2>3, <2>5, SendRequestInv
    <2>6. CASE /\ channels' = [channels EXCEPT ![f] = c] /\ Becomes(b)
               /\ UNCHANGED <<conn_pools, peer, retry_cnt, fault>>
        BY <1>1, <2>1, <2>3, <2>4, <2>6, PutInv
    <2>7. CASE OnClose(f, c, b)
        BY <2>1, <2>3, <2>7, OnCloseInv
    <2> QED
        BY <1>3, <2>5, <2>6, <2>7 DEF NewChannel, c
<1> QED
    BY <1>2, <1>3 DEF DoTask

(* doTask fails: nothing changes but what becomes of the task.             *)
LEMMA UnopenedInv ==
    ASSUME Inv, NEW b \in Base, Right(b), b.asked = asked, Becomes(b), Unopened,
           UNCHANGED expired
    PROVE  Inv'
<1>1. asked' = asked
    BY DEF Becomes
<1>2. ASSUME NEW f \in Fds PROVE ChanOK(f)'
    BY <1>1 DEF Inv, ChanOK, Open, Unopened
<1>3. TypeOK' /\ RightResponse'
    BY BaseTypes DEF Inv, TypeOK, Unopened
<1> QED
    BY <1>2, <1>3 DEF Inv, Unopened

LEMMA SendInLoopInv == ASSUME Inv, SendInLoop PROVE Inv'
<1> DEFINE t == Head(queue)
           b == [Now EXCEPT !.queue = Tail(@)]
<1>1. t \in Task /\ Tail(queue) \in Seq(Task)
    BY DEF SendInLoop, Inv, TypeOK
<1>2. b \in Base /\ Right(b) /\ b.asked = asked
    BY <1>1, NowProps DEF Base, Right
<1>3. CASE Becomes(Answered(b, t, NoTask)) /\ Unopened
    <2>1. Answered(b, t, NoTask) \in Base /\ Right(Answered(b, t, NoTask))
          /\ Answered(b, t, NoTask).asked = asked
        BY <1>1, <1>2, AnsweredProps
    <2> QED
        BY <1>3, <2>1, UnopenedInv DEF SendInLoop
<1>4. CASE DoTask(t, b)
    BY <1>1, <1>2, <1>4, DoTaskInv DEF SendInLoop
<1> QED
    BY <1>3, <1>4 DEF SendInLoop

LEMMA RetryInv == ASSUME Inv, NEW t \in Task, Retry(t) PROVE Inv'
<1> DEFINE b == [Now EXCEPT !.waiting = @ \ {t}]
<1>1. b \in Base /\ Right(b) /\ b.asked = asked
    BY NowProps DEF Base, Right
<1>2. CASE Becomes(b) /\ Unopened
    BY <1>1, <1>2, UnopenedInv DEF Retry
<1>3. CASE DoTask(t, b)
    BY <1>1, <1>3, DoTaskInv DEF Retry
<1> QED
    BY <1>2, <1>3 DEF Retry

LEMMA SendInv == ASSUME Inv, NEW t \in Task, Send(t) PROVE Inv'
<1>1. queue' \in Seq(Task)
    BY DEF Send, Inv, TypeOK
<1>2. ASSUME NEW f \in Fds PROVE ChanOK(f)'
    BY DEF Inv, ChanOK, Open, Send, conns
<1> QED
    BY <1>1, <1>2 DEF Inv, TypeOK, RightResponse, Send, conns

LEMMA ExpireInv == ASSUME Inv, NEW t \in Task, Expire(t) PROVE Inv'
<1>1. ASSUME NEW f \in Fds PROVE ChanOK(f)'
    BY DEF Inv, ChanOK, Open, Expire, conns
<1> QED
    BY <1>1 DEF Inv, TypeOK, RightResponse, Expire, conns

-----------------------------------------------------------------------------
(* The callbacks of a channel.                                             *)

LEMMA ChannelFacts ==
    ASSUME Inv, NEW f \in Fds, Open(f)
    PROVE  /\ channels[f] \in Channel /\ ChanOK(f) /\ Fits(channels[f], asked[f])
           /\ Now \in Base /\ Right(Now) /\ SameAsked(Now, f) /\ Now.asked = asked
           /\ channels[f].task \in Task \cup {NoTask}
           /\ conn_pools \in Seq(Fds) /\ Distinct(conn_pools)
<1>1. channels[f] \in Channel /\ ChanOK(f)
    BY DEF Inv, TypeOK, Open
<1> QED
    BY <1>1, NowProps DEF Inv, TypeOK, ChanOK, Fits, SameAsked, Channel

LEMMA ConnectInv ==
    ASSUME Inv, NEW f \in Fds, ConnectDone(f) \/ ConnectFails(f)
    PROVE  Inv'
<1>1. Open(f) /\ channels[f].status = "CONNECTING" /\ UNCHANGED expired
    BY DEF ConnectDone, ConnectFails
<1>2. ChanOK(f)
    BY DEF Inv
<1>3. CASE ConnectFails(f)
    BY <1>1, <1>3, ChannelFacts, OnCloseInv DEF ConnectFails
<1>4. CASE ConnectDone(f)
    <2>1. asked[f] = <<>> /\ ~Among(f, conn_pools)
        BY <1>1, <1>2 DEF ChanOK
    <2>2. channels[f].task # NoTask
        BY <1>1, <1>2 DEF ChanOK
    <2> QED
        BY <1>1, <1>4, <2>1, <2>2, ChannelFacts, SendRequestInv DEF ConnectDone
<1> QED
    BY <1>3, <1>4

LEMMA IdleProps ==
    ASSUME NEW c \in Channel
    PROVE  /\ Idle(c) \in Channel /\ Idle(c).task = NoTask /\ ~Idle(c).timer
           /\ Idle(c).status = c.status /\ Idle(c).close = c.close
BY DEF Idle, Channel

(* A response answers the request of the channel's task.                   *)
LEMMA ResponseFacts ==
    ASSUME Inv, NEW f \in Fds, Open(f), asked[f] # <<>>, NEW resp \in {channels[f].task, NoTask}
    PROVE  LET b == Answered([Now EXCEPT !.asked[f] = Tail(@)], channels[f].task, resp)
           IN /\ b \in Base /\ Right(b) /\ SameAsked(b, f) /\ b.asked[f] = <<>>
              /\ Head(asked[f]) = channels[f].task /\ channels[f].status = "CONNECTED"
              /\ ~Among(f, conn_pools)
<1> DEFINE r == [Now EXCEPT !.asked[f] = Tail(@)]
           as == [asked EXCEPT ![f] = Tail(@)]
<1>1. ChanOK(f) /\ Now \in Base /\ Right(Now) /\ channels[f].task \in Task \cup {NoTask}
    BY ChannelFacts
<1>2. /\ asked[f] = <<channels[f].task>> /\ channels[f].status = "CONNECTED"
      /\ channels[f].task # NoTask /\ ~Among(f, conn_pools)
    BY <1>1 DEF ChanOK
<1>3. as \in [Fds -> Seq(Task)] /\ as[f] = <<>> /\ \A g \in Fds : g # f => as[g] = asked[g]
    BY <1>2 DEF Inv, TypeOK
<1>4. r = [Now EXCEPT !.asked = as]
    BY DEF Now
<1> HIDE DEF as
<1>5. r \in Base /\ Right(r) /\ r.asked = as
    BY <1>1, <1>3, <1>4 DEF Base, Right
<1> HIDE DEF r
<1> DEFINE b == Answered(r, channels[f].task, resp)
<1>6. b \in Base /\ Right(b) /\ b.asked = as
    BY <1>1, <1>5, AnsweredProps
<1> HIDE DEF b
<1>7. Head(asked[f]) = channels[f].task
    BY <1>2
<1>8. SameAsked(b, f) /\ b.asked[f] = <<>>
    BY <1>3, <1>6 DEF SameAsked
<1> QED
    BY <1>2, <1>6, <1>7, <1>8 DEF b, r

LEMMA ResponseInv == ASSUME Inv, NEW f \in Fds, Response(f) PROVE Inv'
<1> DEFINE c == channels[f]
           b == Answered([Now EXCEPT !.asked[f] = Tail(@)], c.task, Head(asked[f]))
<1>1. Open(f) /\ asked[f] # <<>> /\ UNCHANGED expired
    BY DEF Response
<1>2. /\ c \in Channel /\ conn_pools \in Seq(Fds) /\ Distinct(conn_pools)
      /\ Idle(c) \in Channel /\ Idle(c).task = NoTask /\ ~Idle(c).timer
      /\ Idle(c).status = c.status
    BY <1>1, ChannelFacts, IdleProps
<1>3. Head(asked[f]) = c.task /\ c.status = "CONNECTED" /\ ~Among(f, conn_pools)
    BY <1>1, ResponseFacts
<1>4. b \in Base /\ Right(b) /\ SameAsked(b, f) /\ b.asked[f] = <<>>
    BY <1>1, <1>3, ResponseFacts
<1>5. Fits(Idle(c), b.asked[f])
    BY <1>2, <1>3, <1>4 DEF Fits
<1>6. CASE /\ conn_pools' = Append(conn_pools, f)
           /\ channels' = [channels EXCEPT ![f] = Idle(c)] /\ Becomes(b)
           /\ UNCHANGED <<peer, retry_cnt>>
    <2>1. /\ conn_pools' \in Seq(Fds) /\ Distinct(conn_pools')
          /\ \A y : Among(y, conn_pools') <=> Among(y, conn_pools) \/ y = f
        BY <1>2, <1>3, <1>6, AppendProps
    <2> HIDE DEF b, c
    <2> QED
        BY <1>1, <1>2, <1>3, <1>4, <1>5, <1>6, <2>1, PutInv
<1>7. CASE Close(f, Idle(c), b)
    <2> HIDE DEF b, c
    <2> QED
        BY <1>1, <1>2, <1>3, <1>4, <1>5, <1>7, CloseInv
<1> QED
    BY <1>6, <1>7 DEF Response

LEMMA BadResponseInv == ASSUME Inv, NEW f \in Fds, BadResponse(f) PROVE Inv'
<1> DEFINE c == channels[f]
           b == Answered([Now EXCEPT !.asked[f] = Tail(@)], c.task, NoTask)
<1>1. Open(f) /\ asked[f] # <<>> /\ UNCHANGED expired /\ Close(f, Idle(c), b)
    BY DEF BadResponse
<1>2. /\ Idle(c) \in Channel /\ Idle(c).task = NoTask /\ ~Idle(c).timer
      /\ Idle(c).status = c.status
    BY <1>1, ChannelFacts, IdleProps
<1>3. /\ b \in Base /\ Right(b) /\ SameAsked(b, f) /\ b.asked[f] = <<>>
      /\ c.status = "CONNECTED" /\ ~Among(f, conn_pools)
    BY <1>1, ResponseFacts
<1>4. Fits(Idle(c), b.asked[f])
    BY <1>2, <1>3 DEF Fits
<1> HIDE DEF b, c
<1> QED
    BY <1>1, <1>2, <1>3, <1>4, CloseInv

LEMMA TimerFiresInv == ASSUME Inv, NEW f \in Fds, TimerFires(f) PROVE Inv'
<1> DEFINE c == [channels[f] EXCEPT !.timer = FALSE]
<1>1. Open(f) /\ UNCHANGED expired /\ Close(f, c, Now)
    BY DEF TimerFires
<1>2. /\ c \in Channel /\ c.task = channels[f].task /\ ~c.timer
      /\ c.status = channels[f].status
    BY <1>1, ChannelFacts DEF Channel
<1> HIDE DEF c
<1>3. Fits(c, Now.asked[f])
    BY <1>1, <1>2, ChannelFacts DEF Fits
<1>4. Among(f, conn_pools) => c.status = "CONNECTED" /\ c.task = NoTask
    BY <1>1, <1>2, ChannelFacts DEF ChanOK
<1> QED
    BY <1>1, <1>2, <1>3, <1>4, ChannelFacts, CloseInv

LEMMA WrittenInv == ASSUME Inv, NEW f \in Fds, Written(f) PROVE Inv'
<1> DEFINE c == [channels[f] EXCEPT !.unsent = FALSE]
<1>1. Open(f) /\ UNCHANGED expired
    BY DEF Written
<1>2. /\ c \in Channel /\ c.task = channels[f].task /\ c.timer = channels[f].timer
      /\ c.status = channels[f].status /\ c.close = channels[f].close
    BY <1>1, ChannelFacts DEF Channel
<1>3. CASE OnClose(f, c, Now)
    <2> HIDE DEF c
    <2> QED
        BY <1>1, <1>2, <1>3, ChannelFacts, OnCloseInv
<1>4. CASE /\ channels' = [channels EXCEPT ![f] = c]
           /\ UNCHANGED <<conn_pools, asked, peer, queue, waiting, retry_cnt, got>>
    <2>1. Becomes(Now)
        BY <1>4 DEF Becomes, Now
    <2> HIDE DEF c
    <2>2. Fits(c, Now.asked[f])
        BY <1>1, <1>2, ChannelFacts DEF Fits
    <2>3. /\ Among(f, conn_pools') => c.status = "CONNECTED" /\ c.task = NoTask
          /\ c.status = "CONNECTED" /\ c.task = NoTask => Among(f, conn_pools') \/ c.close
        BY <1>1, <1>2, <1>4, ChannelFacts DEF ChanOK
    <2>4. conn_pools' \in Seq(Fds) /\ Distinct(conn_pools')
        BY <1>1, <1>4, ChannelFacts
    <2> QED
        BY <1>1, <1>2, <1>4, <2>1, <2>2, <2>3, <2>4, ChannelFacts, PutInv
<1> QED
    BY <1>3, <1>4 DEF Written

LEMMA ClosedInv ==
    ASSUME Inv, NEW f \in Fds, CloseTimeout(f) \/ ReadEnds(f) PROVE Inv'
<1>1. /\ Open(f) /\ UNCHANGED expired
      /\ OnClose(f, channels[f], Now) \/ Close(f, channels[f], Now)
    BY DEF CloseTimeout, ReadEnds
<1>2. CASE OnClose(f, channels[f], Now)
    BY <1>1, <1>2, ChannelFacts, OnCloseInv
<1>3. CASE Close(f, channels[f], Now)
    <2>1. Among(f, conn_pools) => channels[f].status = "CONNECTED" /\ channels[f].task = NoTask
        BY <1>1, ChannelFacts DEF ChanOK
    <2> QED
        BY <1>1, <1>3, <2>1, ChannelFacts, CloseInv
<1> QED
    BY <1>1, <1>2, <1>3

LEMMA PeerEndsInv == ASSUME Inv, NEW f \in Fds, PeerEnds(f) PROVE Inv'
<1>1. ASSUME NEW g \in Fds PROVE ChanOK(g)'
    BY DEF Inv, ChanOK, Open, PeerEnds
<1>2. peer' \in [Fds -> {"open", "ended"} \cup (Faults \cap {"reset"})]
    BY DEF PeerEnds, Inv, TypeOK
<1> QED
    BY <1>1, <1>2 DEF Inv, TypeOK, RightResponse, PeerEnds, tasks

-----------------------------------------------------------------------------
LEMMA InvInit == Init => Inv
<1> SUFFICES ASSUME Init PROVE Inv
    OBVIOUS
<1>1. TypeOK
    BY HttpAssumption DEF Init, TypeOK
<1>2. ASSUME NEW f \in Fds PROVE ChanOK(f)
    BY DEF Init, ChanOK, Open, Among
<1> QED
    BY <1>1, <1>2 DEF Inv, Init, RightResponse, Distinct

LEMMA InvNext == Inv /\ [Next]_vars => Inv'
<1> SUFFICES ASSUME Inv, [Next]_vars PROVE Inv'
    OBVIOUS
<1>1. ASSUME NEW t \in Task, Send(t) \/ Expire(t) \/ Retry(t) PROVE Inv'
    BY <1>1, SendInv, ExpireInv, RetryInv
<1>2. CASE SendInLoop
    BY <1>2, SendInLoopInv
<1>3. ASSUME NEW f \in Fds, OnChannel(f) PROVE Inv'
    BY <1>3, ConnectInv, TimerFiresInv, ClosedInv DEF OnChannel
<1>4. ASSUME NEW f \in Fds, Response(f) \/ BadResponse(f) \/ Written(f) \/ PeerEnds(f)
      PROVE Inv'
    BY <1>4, ResponseInv, BadResponseInv, WrittenInv, PeerEndsInv
<1>5. CASE UNCHANGED vars
    <2>1. ASSUME NEW f \in Fds PROVE ChanOK(f)'
        BY <1>5 DEF Inv, ChanOK, Open, vars, conns
    <2> QED
        BY <1>5, <2>1 DEF Inv, TypeOK, RightResponse, vars, conns, tasks
<1> QED
    BY <1>1, <1>2, <1>3, <1>4, <1>5 DEF Next

(* Every variable of AsyncHttpClient keeps its type.                       *)
THEOREM TypeCorrect == Spec => []TypeOK
<1>1. Inv => TypeOK
    BY DEF Inv
<1> QED
    BY <1>1, InvInit, InvNext, PTL DEF Spec

(* The pool of AsyncHttpClient holds the idle connections, once each, and  *)
(* nothing that is closed or in use.                                       *)
THEOREM PoolCorrect == Spec => []PoolExact
<1>1. Inv => PoolExact
    BY DEF Inv, ChanOK, Distinct, PoolExact
<1> QED
    BY <1>1, InvInit, InvNext, PTL DEF Spec

(* No request is given another's response.                                 *)
THEOREM ResponsesRight == Spec => []RightResponse
<1>1. Inv => RightResponse
    BY DEF Inv
<1> QED
    BY <1>1, InvInit, InvNext, PTL DEF Spec

(* Unless a peer resets a connection, no removed channel is used and the   *)
(* asserts of the time limit and of sendRequest hold.                      *)
THEOREM FaultFree ==
    ASSUME "reset" \notin Faults
    PROVE  Spec => []NoFault
<1>1. Init => NoFault
    BY DEF Init, NoFault
<1>2. Inv /\ NoFault /\ [Next]_vars => NoFault'
    <2> SUFFICES ASSUME Inv, NoFault, [Next]_vars PROVE NoFault'
        OBVIOUS
    <2>1. \A f \in Fds : peer[f] # "reset"
        BY DEF Inv, TypeOK
    <2>2. ASSUME NEW f \in Fds, NEW c, NEW b, SendRequest(f, c, b) PROVE fault' = fault
        BY <2>1, <2>2 DEF SendRequest
    <2>3. ASSUME NEW t, NEW b, DoTask(t, b) PROVE fault' = fault
        <3>1. conn_pools # <<>> => Head(conn_pools) \in Fds
            BY DEF Inv, TypeOK
        <3> QED
            BY <2>2, <2>3, <3>1 DEF DoTask, UseChannel, NewChannel
    <2>4. ASSUME NEW f \in Fds, TimerFires(f) PROVE fault' = fault
        BY <2>4 DEF TimerFires, Inv, ChanOK
    <2>5. ASSUME NEW f \in Fds, ConnectDone(f) PROVE fault' = fault
        BY <2>2, <2>5 DEF ConnectDone
    <2>6. ASSUME NEW t \in Task, Send(t) \/ Expire(t) \/ Retry(t) PROVE fault' = fault
        BY <2>3, <2>6 DEF Send, Expire, Retry, Unopened
    <2>7. CASE SendInLoop
        BY <2>3, <2>7 DEF SendInLoop, Unopened, NoFault
    <2>8. ASSUME NEW f \in Fds, OnChannel(f) PROVE fault' = fault
        BY <2>4, <2>5, <2>8 DEF OnChannel, ConnectFails, CloseTimeout, ReadEnds
    <2>9. ASSUME NEW f \in Fds, Response(f) \/ BadResponse(f) \/ Written(f) \/ PeerEnds(f)
          PROVE fault' = fault
        BY <2>9 DEF Response, BadResponse, Written, PeerEnds
    <2>10. CASE UNCHANGED vars
        BY <2>10 DEF vars, NoFault
    <2> QED
        BY <2>6, <2>7, <2>8, <2>9, <2>10 DEF Next, NoFault
<1> QED
    BY <1>1, <1>2, InvInit, InvNext, PTL DEF Spec
-----------------------------------------------------------------------------
(* Where a task is.  The places are those of a base b (queued, waiting,    *)
(* called back) with l, the tasks lost, and the channels ch.               *)
OnAt(ch, f, t) == ch[f] # NoChannel /\ ch[f].task = t
NotBase(b, l, t) ==
    ~Among(t, b.queue) /\ t \notin b.waiting /\ b.got[t] = <<>> /\ t \notin l
InBase(b, l, t) ==
    LET q == Among(t, b.queue)
        w == t \in b.waiting
        g == Len(b.got[t]) = 1
        x == t \in l
    IN /\ q \/ w \/ g \/ x
       /\ q => ~w /\ ~x
       /\ w => ~x
       /\ q \/ w \/ x => b.got[t] = <<>>

Nowhere(ch, b, l, t) == NotBase(b, l, t) /\ \A f \in Fds : ~OnAt(ch, f, t)
Somewhere(ch, b, l, t) ==
    \/ InBase(b, l, t) /\ \A f \in Fds : ~OnAt(ch, f, t)
    \/ NotBase(b, l, t) /\ \E f \in Fds : \A g \in Fds : OnAt(ch, g, t) <=> g = f
Placed(ch, b, l, t) ==
    IF t \in sent THEN Somewhere(ch, b, l, t) ELSE Nowhere(ch, b, l, t)

(* All tasks are in their places; all but t are, which a step is moving.   *)
AllPlaced(ch, b, l) == Distinct(b.queue) /\ \A u \in Task : Placed(ch, b, l, u)
AllBut(t, ch, b, l) ==
    /\ t \in sent /\ Nowhere(ch, b, l, t)
    /\ Distinct(b.queue) /\ \A u \in Task \ {t} : Placed(ch, b, l, u)

PlaceInv == AllPlaced(channels, Now, lost)

(* A callback is about to put a channel that works for t at f, or to close *)
(* it.                                                                     *)
Without(f) == [channels EXCEPT ![f] = NoChannel]
Ready(f, t, b) == IF t = NoTask THEN AllPlaced(Without(f), b, lost)
                  ELSE AllBut(t, Without(f), b, lost)

(* c has what b has of the tasks other than t.                             *)
SameOthers(b, c, t) ==
    \A u \in Task \ {t} : /\ Among(u, c.queue) <=> Among(u, b.queue)
                          /\ u \in c.waiting <=> u \in b.waiting
                          /\ c.got[u] = b.got[u]

Moved(b) == queue' = b.queue /\ waiting' = b.waiting /\ got' = b.got

LEMMA OthersPlaced ==
    ASSUME NEW ch, NEW b, NEW c, NEW l, NEW t, SameOthers(b, c, t),
           NEW u \in Task \ {t}, Placed(ch, b, l, u)
    PROVE  Placed(ch, c, l, u)
<1>1. /\ Among(u, c.queue) <=> Among(u, b.queue)
      /\ u \in c.waiting <=> u \in b.waiting
      /\ c.got[u] = b.got[u]
    BY DEF SameOthers
<1>2. NotBase(c, l, u) <=> NotBase(b, l, u)
    BY <1>1 DEF NotBase
<1>3. InBase(c, l, u) <=> InBase(b, l, u)
    BY <1>1 DEF InBase
<1> QED
    BY <1>2, <1>3 DEF Placed, Somewhere, Nowhere

(* The task that is moved gets a place in the base.                        *)
LEMMA BackInBase ==
    ASSUME NEW ch, NEW b, NEW c, NEW l, NEW t \in Task, AllBut(t, ch, b, l),
           SameOthers(b, c, t), InBase(c, l, t), Distinct(c.queue)
    PROVE  AllPlaced(ch, c, l)
<1>1. Placed(ch, c, l, t)
    BY DEF AllBut, Nowhere, Placed, Somewhere
<1>2. ASSUME NEW u \in Task \ {t} PROVE Placed(ch, c, l, u)
    BY <1>2, OthersPlaced DEF AllBut
<1> QED
    BY <1>1, <1>2 DEF AllPlaced

(* Its callback runs.                                                      *)
LEMMA AnsweredPlaced ==
    ASSUME NEW ch, NEW b \in Base, NEW l, NEW t \in Task, AllBut(t, ch, b, l),
           NEW resp \in Task \cup {NoTask}
    PROVE  AllPlaced(ch, Answered(b, t, resp), l)
<1> DEFINE g == [b.got EXCEPT ![t] = Append(@, resp)]
           c == [b EXCEPT !.got = g]
<1>1. Answered(b, t, resp) = c
    BY HttpAssumption DEF Answered
<1>2. b.got \in [Task -> Seq(Task \cup {NoTask})] /\ b.got[t] = <<>>
    BY DEF Base, AllBut, Nowhere, NotBase
<1>3. Len(g[t]) = 1 /\ \A u \in Task \ {t} : g[u] = b.got[u]
    BY <1>2
<1> HIDE DEF g
<1>4. c.got = g /\ c.queue = b.queue /\ c.waiting = b.waiting
    BY DEF Base
<1> HIDE DEF c
<1>5. SameOthers(b, c, t)
    BY <1>3, <1>4 DEF SameOthers
<1>6. InBase(c, l, t)
    BY <1>3, <1>4 DEF InBase, AllBut, Nowhere, NotBase
<1> QED
    BY <1>1, <1>4, <1>5, <1>6, BackInBase DEF AllBut

(* It waits to be tried again.                                             *)
LEMMA TriedAgainPlaced ==
    ASSUME NEW ch, NEW b \in Base, NEW l, NEW t \in Task, AllBut(t, ch, b, l)
    PROVE  AllPlaced(ch, TriedAgain(b, t), l)
<1>1. NotBase(b, l, t) /\ Distinct(b.queue) /\ b.queue \in Seq(Task)
    BY DEF AllBut, Nowhere, Base
<1>2. CASE t \in Delayed
    <2> DEFINE c == [b EXCEPT !.waiting = @ \cup {t}]
    <2>1. TriedAgain(b, t) = c
        BY <1>2 DEF TriedAgain
    <2>2. c.got = b.got /\ c.queue = b.queue /\ c.waiting = b.waiting \cup {t}
        BY DEF Base
    <2> HIDE DEF c
    <2>3. SameOthers(b, c, t) /\ InBase(c, l, t)
        BY <1>1, <2>2 DEF SameOthers, InBase, NotBase
    <2> QED
        BY <1>1, <2>1, <2>2, <2>3, BackInBase
<1>3. CASE t \notin Delayed
    <2> DEFINE q == Append(b.queue, t)
               c == [b EXCEPT !.queue = q]
    <2>1. TriedAgain(b, t) = c
        BY <1>3 DEF TriedAgain
    <2>2. Distinct(q) /\ \A y : Among(y, q) <=> Among(y, b.queue) \/ y = t
        BY <1>1, AppendProps DEF NotBase
    <2> HIDE DEF q
    <2>3. c.got = b.got /\ c.queue = q /\ c.waiting = b.waiting
        BY DEF Base
    <2> HIDE DEF c
    <2>4. SameOthers(b, c, t) /\ InBase(c, l, t)
        BY <1>1, <2>2, <2>3 DEF SameOthers, InBase, NotBase
    <2> QED
        BY <2>1, <2>2, <2>3, <2>4, BackInBase
<1> QED
    BY <1>2, <1>3

LEMMA AfterClosePlaced ==
    ASSUME NEW b \in Base, NEW f \in Fds, NEW t \in Task \cup {NoTask}, Ready(f, t, b)
    PROVE  AllPlaced(Without(f), AfterClose(b, t), lost)
<1>1. CASE t = NoTask
    BY <1>1 DEF Ready, AfterClose, Answered
<1>2. CASE t # NoTask
    BY <1>2, AnsweredPlaced, TriedAgainPlaced DEF Ready, AfterClose
<1> QED
    BY <1>1, <1>2

LEMMA AnsweredReady ==
    ASSUME NEW b \in Base, NEW f \in Fds, NEW t \in Task, Ready(f, t, b),
           NEW resp \in Task \cup {NoTask}
    PROVE  Ready(f, NoTask, Answered(b, t, resp))
BY AnsweredPlaced, HttpAssumption DEF Ready

(* The end of a step: the tasks are placed by the variables as they are.   *)
LEMMA PlacedNext ==
    ASSUME NEW ch, NEW b, AllPlaced(ch, b, lost), Moved(b), UNCHANGED <<lost, sent>>,
           \A f \in Fds, u \in Task : OnAt(channels', f, u) <=> OnAt(ch, f, u)
    PROVE  PlaceInv'
<1>1. Now.queue' = b.queue /\ Now.waiting' = b.waiting /\ Now.got' = b.got
    BY DEF Now, Moved
<1>2. Distinct(Now.queue)'
    BY <1>1 DEF AllPlaced
<1>3. ASSUME NEW u \in Task PROVE Placed(channels, Now, lost, u)'
    <2>1. NotBase(Now, lost, u)' <=> NotBase(b, lost, u)
        BY <1>1 DEF NotBase
    <2>2. InBase(Now, lost, u)' <=> InBase(b, lost, u)
        BY <1>1 DEF InBase
    <2>3. Placed(ch, b, lost, u)
        BY DEF AllPlaced
    <2> QED
        BY <2>1, <2>2, <2>3 DEF Placed, Somewhere, Nowhere
<1> QED
    BY <1>2, <1>3 DEF PlaceInv, AllPlaced

LEMMA PutPlaced ==
    ASSUME Inv, NEW f \in Fds, NEW c \in Channel, NEW b, Ready(f, c.task, b),
           channels' = [channels EXCEPT ![f] = c], Moved(b), UNCHANGED <<lost, sent>>
    PROVE  PlaceInv'
<1>1. c # NoChannel /\ channels \in [Fds -> Channel \cup {NoChannel}]
    BY HttpAssumption DEF Inv, TypeOK
<1>2. /\ \A g \in Fds, u \in Task :
           OnAt(channels', g, u) <=> IF g = f THEN u = c.task ELSE OnAt(channels, g, u)
      /\ \A g \in Fds, u \in Task :
           OnAt(Without(f), g, u) <=> g # f /\ OnAt(channels, g, u)
    BY <1>1 DEF OnAt, Without
<1>3. CASE c.task = NoTask
    <2>1. \A g \in Fds, u \in Task : OnAt(channels', g, u) <=> OnAt(Without(f), g, u)
        BY <1>2, <1>3, HttpAssumption
    <2> QED
        BY <1>3, <2>1, PlacedNext DEF Ready
<1>4. CASE c.task # NoTask
    <2> DEFINE t == c.task
    <2>1. t \in Task /\ AllBut(t, Without(f), b, lost)
        BY <1>4 DEF Ready, Channel
    <2>2. Placed(channels', b, lost, t)
        <3>1. \A g \in Fds : OnAt(channels', g, t) <=> g = f
            BY <1>2, <2>1 DEF AllBut, Nowhere
        <3> QED
            BY <2>1, <3>1 DEF AllBut, Nowhere, Placed, Somewhere
    <2>3. ASSUME NEW u \in Task \ {t} PROVE Placed(channels', b, lost, u)
        <3>1. \A g \in Fds : OnAt(channels', g, u) <=> OnAt(Without(f), g, u)
            BY <1>2
        <3>2. Placed(Without(f), b, lost, u)
            BY <2>1 DEF AllBut
        <3> QED
            BY <3>1, <3>2 DEF Placed, Nowhere, Somewhere
    <2>4. AllPlaced(channels', b, lost)
        BY <2>1, <2>2, <2>3 DEF AllPlaced, AllBut
    <2> QED
        BY <2>4, PlacedNext
<1> QED
    BY <1>3, <1>4

LEMMA OnClosePlaced ==
    ASSUME Inv, NEW f \in Fds, NEW c \in Channel, NEW b \in Base, Right(b),
           Ready(f, c.task, b), OnClose(f, c, b), UNCHANGED <<lost, sent>>
    PROVE  PlaceInv'
<1> DEFINE a == AfterClose(b, c.task)
<1>1. c.task \in Task \cup {NoTask}
    BY DEF Channel
<1>2. a \in Base /\ AllPlaced(Without(f), a, lost)
    BY <1>1, AfterCloseProps, AfterClosePlaced
<1>3. Becomes([a EXCEPT !.asked[f] = <<>>]) /\ channels' = Without(f)
    BY DEF OnClose, Without
<1> HIDE DEF a
<1>4. Moved(a)
    BY <1>2, <1>3 DEF Becomes, Moved, Base
<1> QED
    BY <1>2, <1>3, <1>4, PlacedNext

LEMMA ClosePlaced ==
    ASSUME Inv, NEW f \in Fds, NEW c \in Channel, NEW b \in Base, Right(b),
           Ready(f, c.task, b), Close(f, c, b), UNCHANGED <<lost, sent>>
    PROVE  PlaceInv'
<1>1. CASE c.unsent /\ ~c.close
    <2> DEFINE d == [c EXCEPT !.close = TRUE]
    <2>1. d \in Channel /\ d.task = c.task
        BY DEF Channel
    <2>2. channels' = [channels EXCEPT ![f] = d] /\ Moved(b)
        BY <1>1 DEF Close, Becomes, Moved
    <2> HIDE DEF d
    <2> QED
        BY <2>1, <2>2, PutPlaced
<1>2. CASE ~(c.unsent /\ ~c.close)
    BY <1>2, OnClosePlaced DEF Close
<1> QED
    BY <1>1, <1>2

LEMMA SendRequestPlaced ==
    ASSUME Inv, NEW f \in Fds, NEW c \in Channel, NEW b \in Base,
           Ready(f, c.task, b), SendRequest(f, c, b), UNCHANGED <<lost, sent>>
    PROVE  PlaceInv'
<1>1. PICK unsent \in BOOLEAN :
        channels' = [channels EXCEPT ![f] =
                        [c EXCEPT !.status = "CONNECTED", !.unsent = unsent \/ @]]
    BY DEF SendRequest
<1> DEFINE d == [c EXCEPT !.status = "CONNECTED", !.unsent = unsent \/ @]
<1>2. d \in Channel /\ d.task = c.task
    <2>1. c.unsent \in BOOLEAN
        BY DEF Channel
    <2>2. (unsent \/ c.unsent) \in BOOLEAN
        BY <2>1
    <2> QED
        BY <2>2 DEF Channel
<1>3. channels' = [channels EXCEPT ![f] = d]
    BY <1>1
<1> HIDE DEF d
<1>4. Moved(b)
    BY DEF SendRequest, Becomes, Moved, Base
<1> QED
    BY <1>2, <1>3, <1>4, PutPlaced

-----------------------------------------------------------------------------
(* doTask of a task that has been taken from the queue or its timer.       *)
LEMMA DoTaskPlaced ==
    ASSUME Inv, NEW t \in Task, NEW b \in Base, Right(b),
           AllBut(t, channels, b, lost), DoTask(t, b), UNCHANGED <<lost, sent>>
    PROVE  PlaceInv'
<1>1. /\ conn_pools \in Seq(Fds) /\ Distinct(conn_pools)
      /\ channels \in [Fds -> Channel \cup {NoChannel}] /\ t # NoTask
    BY HttpAssumption DEF Inv, TypeOK
<1>2. ASSUME NEW f \in Fds, ~Open(f) \/ channels[f].task = NoTask
      PROVE  Ready(f, t, b)
    <2>1. \A g \in Fds, u \in Task : OnAt(Without(f), g, u) <=> OnAt(channels, g, u)
        BY <1>1, <1>2, HttpAssumption DEF OnAt, Without, Open
    <2>2. ASSUME NEW u \in Task \ {t} PROVE Placed(Without(f), b, lost, u)
        BY <2>1 DEF AllBut, Placed, Nowhere, Somewhere
    <2> QED
        BY <1>1, <2>1, <2>2 DEF Ready, AllBut, Nowhere
<1>3. ASSUME conn_pools # <<>>, UseChannel(t, Head(conn_pools), b) PROVE PlaceInv'
    <2> DEFINE f == Head(conn_pools)
               c == [channels[f] EXCEPT !.task = t, !.timer = t \in Timed]
    <2>1. f \in Fds /\ Among(f, conn_pools)
        BY <1>1, <1>3, TailProps
    <2>2. SendRequest(f, c, b)
        BY <1>3 DEF UseChannel
    <2> HIDE DEF f
    <2>3. Open(f) /\ channels[f].task = NoTask
        BY <2>1 DEF Inv, ChanOK
    <2>4. channels[f] \in Channel
        BY <1>1, <2>1, <2>3 DEF Open
    <2>5. c \in Channel /\ c.task = t
        <3>1. (t \in Timed) \in BOOLEAN
            OBVIOUS
        <3> QED
            BY <2>4, <3>1 DEF Channel
    <2> HIDE DEF c
    <2> QED
        BY <1>2, <2>1, <2>2, <2>3, <2>5, SendRequestPlaced
<1>4. ASSUME NEW f \in Fds, ~Open(f), NewChannel(t, f, b) PROVE PlaceInv'
    <2> DEFINE c == [task |-> t, status |-> "CONNECTING", timer |-> t \in Timed,
                     unsent |-> FALSE, close |-> FALSE]
    <2>1. c \in Channel /\ c.task = t
        BY DEF Channel
    <2>2. \/ SendRequest(f, c, b)
          \/ channels' = [channels EXCEPT ![f] = c] /\ Becomes(b)
          \/ OnClose(f, c, b)
        BY <1>4 DEF NewChannel
    <2> HIDE DEF c
    <2>3. Ready(f, c.task, b) /\ (Becomes(b) => Moved(b))
        BY <1>2, <1>4, <2>1 DEF Becomes, Moved
    <2>4. CASE SendRequest(f, c, b)
        BY <2>1, <2>3, <2>4, SendRequestPlaced
    <2>5. CASE channels' = [channels EXCEPT ![f] = c] /\ Becomes(b)
        BY <2>1, <2>3, <2>5, PutPlaced
    <2>6. CASE OnClose(f, c, b)
        BY <2>1, <2>3, <2>6, OnClosePlaced
    <2> QED
        BY <2>2, <2>4, <2>5, <2>6
<1> QED
    BY <1>3, <1>4 DEF DoTask

LEMMA SendInLoopPlaced == ASSUME Inv, PlaceInv, SendInLoop PROVE PlaceInv'
<1> DEFINE t == Head(queue)
           b == [Now EXCEPT !.queue = Tail(@)]
<1>1. /\ queue \in Seq(Task) /\ queue # <<>> /\ Distinct(queue)
      /\ UNCHANGED <<lost, sent>>
    BY NowProps DEF SendInLoop, Inv, TypeOK, PlaceInv, AllPlaced
<1>2. /\ t \in Task /\ Tail(queue) \in Seq(Task) /\ Among(t, queue)
      /\ Distinct(Tail(queue))
      /\ \A y : Among(y, Tail(queue)) <=> Among(y, queue) /\ y # t
    BY <1>1, TailProps
<1>3. /\ b \in Base /\ Right(b) /\ b.asked = asked
      /\ b.queue = Tail(queue) /\ b.waiting = waiting /\ b.got = got
    BY <1>2, NowProps DEF Base, Right, Now
<1>4. /\ TaskFails(t) /\ Becomes(Answered(b, t, NoTask)) /\ Unopened
      \/ DoTask(t, b)
    BY DEF SendInLoop
<1> HIDE DEF t, b
<1>5. Placed(channels, Now, lost, t)
    BY <1>2 DEF PlaceInv, AllPlaced
<1>6. t \in sent /\ Nowhere(channels, b, lost, t)
    BY <1>2, <1>3, <1>5
       DEF Placed, Somewhere, Nowhere, InBase, NotBase, Now
<1>7. AllBut(t, channels, b, lost)
    <2>1. SameOthers(Now, b, t)
        BY <1>2, <1>3 DEF SameOthers, Now
    <2>2. ASSUME NEW u \in Task \ {t} PROVE Placed(channels, b, lost, u)
        BY <2>1, OthersPlaced DEF PlaceInv, AllPlaced
    <2> QED
        BY <1>2, <1>3, <1>6, <2>2 DEF AllBut
<1>8. CASE Becomes(Answered(b, t, NoTask)) /\ Unopened
    <2> DEFINE a == Answered(b, t, NoTask)
    <2>1. AllPlaced(channels, a, lost)
        BY <1>2, <1>3, <1>7, AnsweredPlaced
    <2>2. Moved(a) /\ channels' = channels
        BY <1>8 DEF Becomes, Moved, Unopened
    <2> HIDE DEF a
    <2> QED
        BY <1>1, <2>1, <2>2, PlacedNext
<1>9. CASE DoTask(t, b)
    BY <1>1, <1>2, <1>3, <1>7, <1>9, DoTaskPlaced
<1> QED
    BY <1>4, <1>8, <1>9

LEMMA RetryPlaced == ASSUME Inv, PlaceInv, NEW t \in Task, Retry(t) PROVE PlaceInv'
<1> DEFINE b == [Now EXCEPT !.waiting = @ \ {t}]
<1>1. /\ b \in Base /\ Right(b) /\ b.asked = asked
      /\ b.queue = queue /\ b.waiting = waiting \ {t} /\ b.got = got
    BY NowProps DEF Base, Right, Now
<1>2. /\ t \in waiting /\ sent' = sent
      /\ \/ Becomes(b) /\ Unopened /\ lost' = lost \cup {t}
         \/ DoTask(t, b) /\ UNCHANGED lost
    BY DEF Retry
<1> HIDE DEF b
<1>3. Placed(channels, Now, lost, t) /\ Distinct(queue)
    BY NowProps DEF PlaceInv, AllPlaced
<1>4. t \in sent /\ Nowhere(channels, b, lost, t)
    BY <1>1, <1>2, <1>3 DEF Placed, Somewhere, Nowhere, InBase, NotBase, Now
<1>5. ASSUME NEW u \in Task \ {t} PROVE Placed(channels, b, lost, u)
    <2>1. SameOthers(Now, b, t)
        BY <1>1 DEF SameOthers, Now
    <2> QED
        BY <2>1, OthersPlaced DEF PlaceInv, AllPlaced
<1>6. AllBut(t, channels, b, lost)
    BY <1>1, <1>3, <1>4, <1>5 DEF AllBut
<1>7. CASE Becomes(b) /\ Unopened /\ lost' = lost \cup {t}
    <2>1. /\ Now.queue' = queue /\ Now.waiting' = waiting \ {t} /\ Now.got' = got
          /\ channels' = channels
        BY <1>1, <1>7 DEF Now, Becomes, Unopened
    <2>2. Placed(channels, Now, lost, t)'
        BY <1>1, <1>2, <1>4, <1>7, <2>1
           DEF Placed, Somewhere, Nowhere, InBase, NotBase
    <2>3. ASSUME NEW u \in Task \ {t} PROVE Placed(channels, Now, lost, u)'
        <3>1. NotBase(Now, lost, u)' <=> NotBase(b, lost, u)
            BY <1>1, <1>7, <2>1 DEF NotBase
        <3>2. InBase(Now, lost, u)' <=> InBase(b, lost, u)
            BY <1>1, <1>7, <2>1 DEF InBase
        <3> QED
            BY <1>2, <1>5, <2>1, <3>1, <3>2 DEF Placed, Somewhere, Nowhere
    <2> QED
        BY <1>3, <2>1, <2>2, <2>3 DEF PlaceInv, AllPlaced
<1>8. CASE DoTask(t, b) /\ UNCHANGED lost
    BY <1>1, <1>2, <1>6, <1>8, DoTaskPlaced
<1> QED
    BY <1>2, <1>7, <1>8

LEMMA SendPlaced == ASSUME Inv, PlaceInv, NEW t \in Task, Send(t) PROVE PlaceInv'
<1>1. /\ t \notin sent /\ sent' = sent \cup {t} /\ queue' = Append(queue, t)
      /\ UNCHANGED <<channels, waiting, got, lost>>
    BY DEF Send, conns
<1>2. Placed(channels, Now, lost, t) /\ Distinct(queue) /\ queue \in Seq(Task)
    BY NowProps DEF PlaceInv, AllPlaced, Inv, TypeOK
<1>3. Nowhere(channels, Now, lost, t) /\ ~Among(t, queue)
    BY <1>1, <1>2 DEF Placed, Nowhere, NotBase, Now
<1>4. Distinct(queue') /\ \A y : Among(y, queue') <=> Among(y, queue) \/ y = t
    BY <1>1, <1>2, <1>3, AppendProps
<1>5. /\ Now.queue' = queue' /\ Now.waiting' = waiting /\ Now.got' = got
      /\ Now.queue = queue /\ Now.waiting = waiting /\ Now.got = got
    BY <1>1 DEF Now
<1>6. Placed(channels, Now, lost, t)'
    BY <1>1, <1>3, <1>4, <1>5 DEF Placed, Somewhere, Nowhere, InBase, NotBase
<1>7. ASSUME NEW u \in Task \ {t} PROVE Placed(channels, Now, lost, u)'
    <2>1. NotBase(Now, lost, u)' <=> NotBase(Now, lost, u)
        BY <1>1, <1>4, <1>5 DEF NotBase
    <2>2. InBase(Now, lost, u)' <=> InBase(Now, lost, u)
        BY <1>1, <1>4, <1>5 DEF InBase
    <2>3. Placed(channels, Now, lost, u) /\ (u \in sent' <=> u \in sent)
        BY <1>1 DEF PlaceInv, AllPlaced
    <2> QED
        BY <1>1, <2>1, <2>2, <2>3 DEF Placed, Somewhere, Nowhere
<1> QED
    BY <1>4, <1>5, <1>6, <1>7 DEF PlaceInv, AllPlaced

LEMMA SamePlaces ==
    ASSUME PlaceInv, UNCHANGED <<channels, queue, waiting, got, lost, sent>>
    PROVE  PlaceInv'
<1>1. AllPlaced(channels, Now, lost) /\ Moved(Now)
    BY DEF PlaceInv, Moved, Now
<1> QED
    BY <1>1, PlacedNext

(* A channel is ready for what its callbacks do with its task.             *)
LEMMA OpenReady ==
    ASSUME Inv, PlaceInv, NEW f \in Fds, Open(f)
    PROVE  Ready(f, channels[f].task, Now)
<1> DEFINE t == channels[f].task
<1>1. t \in Task \cup {NoTask} /\ channels \in [Fds -> Channel \cup {NoChannel}]
    BY ChannelFacts DEF Inv, TypeOK
<1>2. /\ \A g \in Fds, u \in Task :
           OnAt(Without(f), g, u) <=> g # f /\ OnAt(channels, g, u)
      /\ \A u \in Task : OnAt(channels, f, u) <=> u = t
    BY <1>1 DEF OnAt, Without, Open
<1>3. ASSUME NEW u \in Task, u # t PROVE Placed(Without(f), Now, lost, u)
    <2>1. \A g \in Fds : OnAt(Without(f), g, u) <=> OnAt(channels, g, u)
        BY <1>2, <1>3
    <2>2. Placed(channels, Now, lost, u)
        BY DEF PlaceInv, AllPlaced
    <2> QED
        BY <2>1, <2>2 DEF Placed, Somewhere, Nowhere
<1>4. CASE t = NoTask
    <2>1. \A u \in Task : u # t
        BY <1>4, HttpAssumption
    <2> QED
        BY <1>3, <1>4, <2>1 DEF Ready, AllPlaced, PlaceInv
<1>5. CASE t # NoTask
    <2>1. Placed(channels, Now, lost, t) /\ OnAt(channels, f, t)
        BY <1>1, <1>2, <1>5 DEF PlaceInv, AllPlaced
    <2>2. t \in sent /\ NotBase(Now, lost, t)
          /\ \A g \in Fds : OnAt(channels, g, t) => g = f
        BY <2>1 DEF Placed, Somewhere, Nowhere
    <2>3. Nowhere(Without(f), Now, lost, t)
        BY <1>1, <1>2, <1>5, <2>2 DEF Nowhere
    <2> QED
        BY <1>3, <1>5, <2>2, <2>3 DEF Ready, AllBut, AllPlaced, PlaceInv
<1> QED
    BY <1>4, <1>5

LEMMA ConnectPlaced ==
    ASSUME Inv, PlaceInv, NEW f \in Fds, ConnectDone(f) \/ ConnectFails(f)
    PROVE  PlaceInv'
<1>1. /\ Open(f) /\ UNCHANGED <<lost, sent>>
      /\ SendRequest(f, channels[f], Now) \/ OnClose(f, channels[f], Now)
    BY DEF ConnectDone, ConnectFails
<1> QED
    BY <1>1, ChannelFacts, OpenReady, SendRequestPlaced, OnClosePlaced

(* A response: the task has its answer, and the channel none.              *)
LEMMA ResponsePlaced ==
    ASSUME Inv, PlaceInv, NEW f \in Fds, Response(f) \/ BadResponse(f)
    PROVE  PlaceInv'
<1> DEFINE c == channels[f]
           r == [Now EXCEPT !.asked[f] = Tail(@)]
<1>1. Open(f) /\ c.task # NoTask /\ asked[f] # <<>> /\ UNCHANGED <<lost, sent>>
    BY DEF Response, BadResponse
<1>2. /\ c \in Channel /\ c.task \in Task /\ Head(asked[f]) = c.task
      /\ Idle(c) \in Channel /\ Idle(c).task = NoTask
    BY <1>1, ChannelFacts, ResponseFacts, IdleProps
<1>3. PICK resp \in {c.task, NoTask} :
        \/ /\ channels' = [channels EXCEPT ![f] = Idle(c)]
           /\ Becomes(Answered(r, c.task, resp))
        \/ Close(f, Idle(c), Answered(r, c.task, resp))
    BY <1>2 DEF Response, BadResponse
<1> DEFINE b == Answered(r, c.task, resp)
<1>4. b \in Base /\ Right(b)
    BY <1>1, ResponseFacts
<1>5. Ready(f, NoTask, b)
    <2>1. Ready(f, c.task, Now)
        BY <1>1, OpenReady
    <2>2. r \in Base /\ r.queue = Now.queue /\ r.waiting = Now.waiting /\ r.got = Now.got
        <3> DEFINE as == [asked EXCEPT ![f] = Tail(@)]
        <3>1. as \in [Fds -> Seq(Task)]
            BY <1>1 DEF Inv, TypeOK
        <3>2. r = [Now EXCEPT !.asked = as] /\ Now \in Base
            BY NowProps DEF Now
        <3> HIDE DEF as, r
        <3> QED
            BY <3>1, <3>2 DEF Base
    <2> HIDE DEF r
    <2>3. AllBut(c.task, Without(f), Now, lost)
        BY <1>1, <2>1 DEF Ready
    <2>4. SameOthers(Now, r, c.task)
        BY <2>2 DEF SameOthers
    <2>5. ASSUME NEW u \in Task \ {c.task} PROVE Placed(Without(f), r, lost, u)
        BY <2>3, <2>4, OthersPlaced DEF AllBut
    <2>6. AllBut(c.task, Without(f), r, lost)
        BY <2>2, <2>3, <2>5 DEF AllBut, Nowhere, NotBase
    <2>7. Ready(f, c.task, r)
        BY <1>1, <2>6 DEF Ready
    <2> QED
        BY <1>2, <2>2, <2>7, AnsweredReady
<1> HIDE DEF b, c, r
<1>6. CASE Close(f, Idle(c), b)
    BY <1>1, <1>2, <1>4, <1>5, <1>6, ClosePlaced
<1>7. CASE channels' = [channels EXCEPT ![f] = Idle(c)] /\ Becomes(b)
    BY <1>1, <1>2, <1>5, <1>7, PutPlaced DEF Becomes, Moved
<1> QED
    BY <1>3, <1>6, <1>7 DEF b

(* The other ways in which a channel changes or ends, with its task.       *)
LEMMA ChannelPlaced ==
    ASSUME Inv, PlaceInv, NEW f \in Fds,
           TimerFires(f) \/ Written(f) \/ CloseTimeout(f) \/ ReadEnds(f)
    PROVE  PlaceInv'
<1>1. Open(f) /\ UNCHANGED <<lost, sent>>
    BY DEF TimerFires, Written, CloseTimeout, ReadEnds
<1>2. PICK c \in {channels[f], [channels[f] EXCEPT !.timer = FALSE],
                  [channels[f] EXCEPT !.unsent = FALSE]} :
        \/ Close(f, c, Now) \/ OnClose(f, c, Now)
        \/ channels' = [channels EXCEPT ![f] = c] /\ UNCHANGED <<queue, waiting, got>>
    BY DEF TimerFires, Written, CloseTimeout, ReadEnds
<1>3. c \in Channel /\ c.task = channels[f].task
    BY <1>1, ChannelFacts DEF Channel
<1>4. Now \in Base /\ Right(Now) /\ Ready(f, c.task, Now)
    BY <1>1, <1>3, ChannelFacts, OpenReady
<1>5. CASE Close(f, c, Now)
    BY <1>1, <1>3, <1>4, <1>5, ClosePlaced
<1>6. CASE OnClose(f, c, Now)
    BY <1>1, <1>3, <1>4, <1>6, OnClosePlaced
<1>7. CASE channels' = [channels EXCEPT ![f] = c] /\ UNCHANGED <<queue, waiting, got>>
    <2>1. Moved(Now)
        BY <1>7 DEF Moved, Now
    <2> QED
        BY <1>1, <1>3, <1>4, <1>7, <2>1, PutPlaced
<1> QED
    BY <1>2, <1>5, <1>6, <1>7

LEMMA PlaceInvariance == Spec => [](Inv /\ PlaceInv)
<1>1. Init => PlaceInv
    <2> SUFFICES ASSUME Init PROVE PlaceInv
        OBVIOUS
    <2>1. Now.queue = <<>> /\ Now.waiting = {} /\ lost = {} /\ sent = {}
          /\ \A t \in Task : Now.got[t] = <<>>
        BY DEF Init, Now
    <2>2. ASSUME NEW t \in Task PROVE Nowhere(channels, Now, lost, t)
        BY <2>1 DEF Init, Nowhere, NotBase, OnAt, Among
    <2> QED
        BY <2>1, <2>2 DEF PlaceInv, AllPlaced, Placed, Distinct
<1>2. Inv /\ PlaceInv /\ [Next]_vars => PlaceInv'
    <2> SUFFICES ASSUME Inv, PlaceInv, [Next]_vars PROVE PlaceInv'
        OBVIOUS
    <2>1. ASSUME NEW t \in Task, Send(t) \/ Expire(t) \/ Retry(t) PROVE PlaceInv'
        <3>1. CASE Expire(t)
            BY <3>1, SamePlaces DEF Expire, conns
        <3> QED
            BY <2>1, <3>1, SendPlaced, RetryPlaced
    <2>2. CASE SendInLoop
        BY <2>2, SendInLoopPlaced
    <2>3. ASSUME NEW f \in Fds,
                 OnChannel(f) \/ Response(f) \/ BadResponse(f) \/ Written(f)
          PROVE  PlaceInv'
        BY <2>3, ConnectPlaced, ResponsePlaced, ChannelPlaced DEF OnChannel
    <2>4. ASSUME NEW f \in Fds, PeerEnds(f) PROVE PlaceInv'
        BY <2>4, SamePlaces DEF PeerEnds, tasks
    <2>5. CASE UNCHANGED vars
        BY <2>5, SamePlaces DEF vars, conns, tasks
    <2> QED
        BY <2>1, <2>2, <2>3, <2>4, <2>5 DEF Next
<1> QED
    BY <1>1, <1>2, InvInit, InvNext, PTL DEF Spec

(* A set with one element at most.                                         *)
LEMMA FewElements ==
    ASSUME NEW S, \A x, y \in S : x = y
    PROVE  Cardinality(S) = IF S = {} THEN 0 ELSE 1
<1>1. CASE S = {}
    BY <1>1, FS_EmptySet
<1>2. ASSUME NEW x \in S PROVE Cardinality(S) = 1
    <2>1. S = {x}
        OBVIOUS
    <2> QED
        BY <2>1, FS_Singleton
<1> QED
    BY <1>1, <1>2

(* Whatever closes connections, fails and is tried again, a request that   *)
(* was sent is in one place: in the queue, on one channel, waiting for its *)
(* retry timer, called back once, or dropped by a retry that came too late *)
(* (sendInLoop, doTask, onread, onclose and the timers).                   *)
THEOREM OnePlaceOnly == Spec => []OnePlace
<1>1. Inv /\ PlaceInv /\ sent \subseteq Task => OnePlace
    <2> SUFFICES ASSUME Inv, PlaceInv, NEW t \in Task, t \in sent,
                        NEW on, on = {f \in Fds : Open(f) /\ channels[f].task = t},
                        NEW in, in = {k \in 1..Len(queue) : queue[k] = t}
                 PROVE  Cardinality(on) + Cardinality(in) + Cardinality(waiting \cap {t})
                          + Len(got[t]) + Cardinality(lost \cap {t}) = 1
        BY DEF OnePlace
    <2>1. /\ Somewhere(channels, Now, lost, t) /\ Distinct(queue)
          /\ Now.queue = queue /\ Now.waiting = waiting /\ Now.got = got
          /\ got[t] \in Seq(Task \cup {NoTask})
        BY DEF PlaceInv, AllPlaced, Placed, Now, Inv, TypeOK
    <2>2. on = {f \in Fds : OnAt(channels, f, t)}
        BY DEF Open, OnAt
    <2>3. \A f, g \in on : f = g
        BY <2>1, <2>2 DEF Somewhere
    <2>4. \A j, k \in in : j = k
        BY <2>1 DEF Distinct
    <2>5. in # {} <=> Among(t, queue)
        BY DEF Among
    <2>6. /\ Cardinality(on) = IF on = {} THEN 0 ELSE 1
          /\ Cardinality(in) = IF Among(t, queue) THEN 1 ELSE 0
          /\ Cardinality(waiting \cap {t}) = IF t \in waiting THEN 1 ELSE 0
          /\ Cardinality(lost \cap {t}) = IF t \in lost THEN 1 ELSE 0
        <3>1. ASSUME NEW S PROVE Cardinality(S \cap {t}) = IF t \in S THEN 1 ELSE 0
            BY FewElements
        <3> QED
            BY <2>3, <2>4, <2>5, <3>1, FewElements
    <2>7. CASE InBase(Now, lost, t) /\ \A f \in Fds : ~OnAt(channels, f, t)
        <3>1. on = {}
            BY <2>2, <2>7
        <3>2. Len(got[t]) \in {0, 1} /\ (got[t] = <<>> => Len(got[t]) = 0)
            BY <2>1, <2>7 DEF InBase
        <3>3. InBase(Now, lost, t)
            BY <2>7
        <3>4. CASE Among(t, queue)
            BY <2>1, <2>6, <3>1, <3>2, <3>3, <3>4 DEF InBase
        <3>5. CASE t \in waiting
            BY <2>1, <2>6, <3>1, <3>2, <3>3, <3>5 DEF InBase
        <3>6. CASE t \in lost
            BY <2>1, <2>6, <3>1, <3>2, <3>3, <3>6 DEF InBase
        <3>7. CASE ~Among(t, queue) /\ t \notin waiting /\ t \notin lost
            <4>1. Len(got[t]) = 1
                BY <2>1, <3>3, <3>7 DEF InBase
            <4>2. /\ Cardinality(on) = 0 /\ Cardinality(in) = 0
                  /\ Cardinality(waiting \cap {t}) = 0
                  /\ Cardinality(lost \cap {t}) = 0
                BY <2>6, <3>1, <3>7
            <4> QED
                BY <4>1, <4>2
        <3> QED
            BY <3>4, <3>5, <3>6, <3>7
    <2>8. CASE NotBase(Now, lost, t) /\ \E f \in Fds : OnAt(channels, f, t)
        <3>1. on # {} /\ Len(got[t]) = 0
            BY <2>1, <2>2, <2>8 DEF NotBase
        <3> QED
            BY <2>1, <2>6, <2>8, <3>1 DEF NotBase
    <2> QED
        BY <2>1, <2>7, <2>8 DEF Somewhere
<1>2. Init => sent \subseteq Task
    BY DEF Init
<1>3. sent \subseteq Task /\ [Next]_vars => (sent \subseteq Task)'
    <2> SUFFICES ASSUME sent \subseteq Task, [Next]_vars PROVE sent' \subseteq Task
        OBVIOUS
    <2>1. sent' = sent \/ \E t \in Task : sent' = sent \cup {t}
        BY DEF Next, Send, Expire, Retry, SendInLoop, OnChannel, ConnectDone,
               ConnectFails, TimerFires, CloseTimeout, ReadEnds, Response,
               BadResponse, Written, PeerEnds, vars, tasks
    <2> QED
        BY <2>1
<1> QED
    BY <1>1, <1>2, <1>3, PlaceInvariance, PTL DEF Spec
=============================================================================
