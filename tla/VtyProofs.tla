------------------------------ MODULE VtyProofs ------------------------------
(***************************************************************************)
(* Theorems about the terminal server and its scheduler, for any number of *)
(* sessions and struct threads, any commands, screens, connections and     *)
(* inputs.  First the lists and the struct threads of ThreadMaster, then   *)
(* what each function of vty.c and command.c does to a session, then the   *)
(* handlers.                                                               *)
(***************************************************************************)
EXTENDS Vty, SequenceTheorems, FiniteSetTheorems, TLAPS

(* No struct is twice in the list s.                                       *)
Injective(s) == \A i, j \in 1..Len(s) : s[i] = s[j] => i = j

(* The sequence s lists the structs in S, each once.                       *)
Lists(s, S) == s \in Seq(Thread) /\ Injective(s) /\ ToSet(s) = S

-----------------------------------------------------------------------------
(* Lists.                                                                  *)
LEMMA KeptBijection ==
    ASSUME NEW n \in Nat, NEW D \in SUBSET (1..n)
    PROVE  /\ IsFiniteSet(D) /\ Cardinality(D) \in Nat
           /\ \E g \in [1..Cardinality(D) -> D] :
                /\ \A k \in 1..Cardinality(D) :
                     g[k] = CHOOSE i \in D : Cardinality({j \in D : j <= i}) = k
                /\ \A k, l \in 1..Cardinality(D) : g[k] = g[l] => k = l
                /\ \A i \in D : \E k \in 1..Cardinality(D) : g[k] = i
<1> DEFINE Upto(i) == {j \in D : j <= i}
           f == [i \in D |-> Cardinality(Upto(i))]
<1>1. IsFiniteSet(D) /\ Cardinality(D) \in Nat
  <2>1. IsFiniteSet(1..n)  BY FS_Interval
  <2> QED  BY <2>1, FS_Subset, FS_CardinalityType
<1>2. ASSUME NEW i \in D
      PROVE  IsFiniteSet(Upto(i)) /\ Cardinality(Upto(i)) \in 1..Cardinality(D)
  <2>1. IsFiniteSet(Upto(i)) /\ Cardinality(Upto(i)) <= Cardinality(D)
    BY <1>1, FS_Subset, Upto(i) \in SUBSET D
  <2>2. i \in Upto(i)  OBVIOUS
  <2>3. Cardinality(Upto(i)) \in Nat /\ Cardinality(Upto(i)) # 0
    BY <2>1, <2>2, FS_CardinalityType, FS_EmptySet
  <2> QED  BY <1>1, <2>1, <2>3
<1>3. ASSUME NEW i \in D, NEW j \in D, i < j
      PROVE  Cardinality(Upto(i)) # Cardinality(Upto(j))
  <2>1. Upto(i) \in SUBSET Upto(j)
    <3>1. ASSUME NEW k \in D, k <= i  PROVE k <= j
      <4>1. k \in Nat /\ i \in Nat /\ j \in Nat  OBVIOUS
      <4> QED  BY <1>3, <3>1, <4>1
    <3> QED  BY <3>1
  <2>2. j \in Upto(j) /\ j \notin Upto(i)  BY <1>3
  <2> QED  BY <1>2, <2>1, <2>2, FS_Subset
<1>4. f \in Injection(D, 1..Cardinality(D))
  <2>1. f \in [D -> 1..Cardinality(D)]  BY <1>2
  <2>2. ASSUME NEW i \in D, NEW j \in D, f[i] = f[j]  PROVE i = j
    <3>1. i < j \/ j < i \/ i = j  OBVIOUS
    <3>2. f[i] = Cardinality(Upto(i)) /\ f[j] = Cardinality(Upto(j))  OBVIOUS
    <3> QED  BY <1>3, <2>2, <3>1, <3>2
  <2> QED  BY <2>1, <2>2 DEF Injection, IsInjective
<1>5. f \in Surjection(D, 1..Cardinality(D))
  <2>1. IsFiniteSet(1..Cardinality(D)) /\ Cardinality(1..Cardinality(D)) = Cardinality(D)
    BY <1>1, FS_Interval
  <2> HIDE DEF f
  <2> QED  BY <1>4, <2>1, FS_Injection
<1>6. ASSUME NEW k \in 1..Cardinality(D)
      PROVE  \E i \in D : Cardinality(Upto(i)) = k
  BY <1>5 DEF Surjection
<1>7. ASSUME NEW i \in D, NEW j \in D, Cardinality(Upto(i)) = Cardinality(Upto(j))
      PROVE  i = j
  BY <1>4, <1>7 DEF Injection, IsInjective
<1> DEFINE g == [k \in 1..Cardinality(D) |->
                   CHOOSE i \in D : Cardinality(Upto(i)) = k]
<1>8. ASSUME NEW k \in 1..Cardinality(D)
      PROVE  g[k] \in D /\ Cardinality(Upto(g[k])) = k
  BY <1>6
<1>9. ASSUME NEW i \in D  PROVE \E k \in 1..Cardinality(D) : g[k] = i
  <2>1. Cardinality(Upto(i)) \in 1..Cardinality(D)  BY <1>2
  <2>2. g[Cardinality(Upto(i))] = i
    <3> DEFINE k == Cardinality(Upto(i))
    <3>1. g[k] \in D /\ Cardinality(Upto(g[k])) = k  BY <1>8, <2>1
    <3> HIDE DEF g
    <3> QED  BY <1>7, <3>1
  <2> QED  BY <2>1, <2>2
<1>10. g \in [1..Cardinality(D) -> D]  BY <1>8
<1>11. \A k, l \in 1..Cardinality(D) : g[k] = g[l] => k = l
  <2> HIDE DEF g
  <2> QED  BY <1>8
<1>12. \A k \in 1..Cardinality(D) :
         g[k] = CHOOSE i \in D : Cardinality({j \in D : j <= i}) = k
  OBVIOUS
<1> HIDE DEF g
<1> QED  BY <1>1, <1>9, <1>10, <1>11, <1>12

(* Kept keeps just the structs in S.                                       *)
LEMMA KeptLists ==
    ASSUME NEW s, NEW T, Lists(s, T), NEW S
    PROVE  Lists(Kept(s, S), T \cap S)
<1> DEFINE D == {i \in DOMAIN s : s[i] \in S}
<1>1. s \in Seq(Thread) /\ DOMAIN s = 1..Len(s) /\ Len(s) \in Nat
      /\ (\A i \in 1..Len(s) : s[i] \in Thread) /\ Injective(s) /\ ToSet(s) = T
  BY LenProperties DEF Lists
<1>2. D \in SUBSET (1..Len(s))  BY <1>1
<1>3. /\ Cardinality(D) \in Nat
      /\ \E g \in [1..Cardinality(D) -> D] :
           /\ \A k \in 1..Cardinality(D) :
                g[k] = CHOOSE i \in D : Cardinality({j \in D : j <= i}) = k
           /\ \A k, l \in 1..Cardinality(D) : g[k] = g[l] => k = l
           /\ \A i \in D : \E k \in 1..Cardinality(D) : g[k] = i
  <2> HIDE DEF D
  <2> QED  BY <1>1, <1>2, KeptBijection
<1>4. PICK g \in [1..Cardinality(D) -> D] :
           /\ \A k \in 1..Cardinality(D) :
                g[k] = CHOOSE i \in D : Cardinality({j \in D : j <= i}) = k
           /\ \A k, l \in 1..Cardinality(D) : g[k] = g[l] => k = l
           /\ \A i \in D : \E k \in 1..Cardinality(D) : g[k] = i
  BY <1>3
<1> DEFINE q == Kept(s, S)
<1>5. q = [k \in 1..Cardinality(D) |-> s[g[k]]]
  <2> DEFINE Nth(k) == CHOOSE i \in D : Cardinality({j \in D : j <= i}) = k
  <2>1. q = [k \in 1..Cardinality(D) |-> s[Nth(k)]]  BY DEF Kept
  <2>2. \A k \in 1..Cardinality(D) : g[k] = Nth(k)
    <3> HIDE DEF D
    <3> QED  BY <1>4
  <2> HIDE DEF D, q, Nth
  <2> QED  BY <2>1, <2>2
<1>6. \A i \in D : i \in 1..Len(s) /\ s[i] \in S  BY <1>1
<1>7. \A i \in 1..Len(s) : s[i] \in S => i \in D  BY <1>1
<1> HIDE DEF D, q
<1> DEFINE c == Cardinality(D)
<1>8. c \in Nat  BY <1>3
<1>9. \A k \in 1..c : g[k] \in D  BY <1>4
<1> HIDE DEF c
<1>10. q = [k \in 1..c |-> s[g[k]]]  BY <1>5 DEF c
<1>11. \A k \in 1..c : s[g[k]] \in Thread  BY <1>1, <1>6, <1>9
<1>12. q \in Seq(Thread)
  <2>1. q \in [1..c -> Thread]  BY <1>10, <1>11
  <2> QED  BY <1>8, <2>1
<1>13. Len(q) = c /\ DOMAIN q = 1..c /\ (\A k \in 1..c : q[k] = s[g[k]])
  <2>1. DOMAIN q = 1..c /\ (\A k \in 1..c : q[k] = s[g[k]])  BY <1>10
  <2>2. Len(q) \in Nat /\ DOMAIN q = 1..Len(q)  BY <1>12, LenProperties
  <2> QED  BY <1>8, <2>1, <2>2
<1>14. Injective(q)
  <2>1. \A k, l \in 1..c : g[k] = g[l] => k = l  BY <1>4 DEF c
  <2>2. ASSUME NEW k \in 1..c, NEW l \in 1..c, q[k] = q[l]  PROVE k = l
    <3>1. s[g[k]] = s[g[l]]  BY <1>13, <2>2
    <3>2. g[k] \in 1..Len(s) /\ g[l] \in 1..Len(s)  BY <1>6, <1>9
    <3>3. g[k] = g[l]  BY <1>1, <3>1, <3>2 DEF Injective
    <3> QED  BY <2>1, <3>3
  <2> QED  BY <1>13, <2>2 DEF Injective
<1>15. ToSet(q) = T \cap S
  <2>1. ToSet(q) = {s[g[k]] : k \in 1..c}  BY <1>13 DEF ToSet
  <2>2. T = {s[i] : i \in 1..Len(s)}  BY <1>1 DEF ToSet
  <2>3. ASSUME NEW t \in ToSet(q)  PROVE t \in T \cap S
    BY <1>6, <1>9, <2>1, <2>2
  <2>4. ASSUME NEW t \in T \cap S  PROVE t \in ToSet(q)
    <3>1. PICK i \in 1..Len(s) : t = s[i]  BY <2>2
    <3>2. i \in D  BY <1>7, <3>1
    <3>3. PICK k \in 1..c : g[k] = i  BY <1>4, <3>2 DEF c
    <3> QED  BY <2>1, <3>1, <3>3
  <2> QED  BY <2>3, <2>4
<1> QED  BY <1>12, <1>14, <1>15 DEF Lists, q

LEMMA ListsEmpty == Lists(<<>>, {})
<1>1. <<>> \in Seq(Thread) /\ Len(<<>>) = 0 /\ DOMAIN <<>> = {}
  BY EmptySeq
<1>2. Injective(<<>>)  BY <1>1 DEF Injective
<1>3. ToSet(<<>>) = {}  BY <1>1 DEF ToSet
<1> QED  BY <1>1, <1>2, <1>3 DEF Lists

LEMMA ListsFacts ==
    ASSUME NEW s, NEW T, Lists(s, T)
    PROVE  /\ s \in Seq(Thread) /\ Len(s) \in Nat /\ DOMAIN s = 1..Len(s)
           /\ T \subseteq Thread
           /\ \A i \in 1..Len(s) : s[i] \in T
           /\ \A t \in T : \E i \in 1..Len(s) : s[i] = t
           /\ \A i, j \in 1..Len(s) : s[i] = s[j] => i = j
<1>1. s \in Seq(Thread) /\ Len(s) \in Nat /\ DOMAIN s = 1..Len(s)
      /\ \A i \in 1..Len(s) : s[i] \in Thread
  BY LenProperties DEF Lists
<1>2. T = {s[i] : i \in 1..Len(s)}  BY <1>1 DEF Lists, ToSet
<1>3. \A i, j \in 1..Len(s) : s[i] = s[j] => i = j  BY DEF Lists, Injective
<1> QED  BY <1>1, <1>2, <1>3

LEMMA ListsIntro ==
    ASSUME NEW s \in Seq(Thread), NEW T,
           \A i \in 1..Len(s) : s[i] \in T,
           \A t \in T : \E i \in 1..Len(s) : s[i] = t,
           \A i, j \in 1..Len(s) : s[i] = s[j] => i = j
    PROVE  Lists(s, T)
<1>1. DOMAIN s = 1..Len(s)  BY LenProperties
<1>2. ToSet(s) = T  BY <1>1 DEF ToSet
<1> QED  BY <1>2 DEF Lists, Injective

LEMMA ListsAppend ==
    ASSUME NEW s, NEW T, Lists(s, T), NEW t \in Thread, t \notin T
    PROVE  Lists(Append(s, t), T \cup {t})
<1> DEFINE q == Append(s, t)
           n == Len(s)
<1>1. s \in Seq(Thread) /\ n \in Nat
      /\ (\A i \in 1..n : s[i] \in T)
      /\ (\A u \in T : \E i \in 1..n : s[i] = u)
      /\ (\A i, j \in 1..n : s[i] = s[j] => i = j)
  BY ListsFacts
<1>2. q \in Seq(Thread) /\ Len(q) = n + 1 /\ (\A i \in 1..n : q[i] = s[i]) /\ q[n + 1] = t
  BY <1>1, AppendProperties
<1> HIDE DEF q, n
<1>3. 1..(n + 1) = (1..n) \cup {n + 1} /\ n + 1 \notin 1..n  BY <1>1
<1>4. \A i \in 1..Len(q) : q[i] \in T \cup {t}  BY <1>1, <1>2, <1>3
<1>5. \A u \in T \cup {t} : \E i \in 1..Len(q) : q[i] = u  BY <1>1, <1>2, <1>3
<1>6. \A i, j \in 1..Len(q) : q[i] = q[j] => i = j  BY <1>1, <1>2, <1>3
<1> QED  BY <1>2, <1>4, <1>5, <1>6, ListsIntro DEF q

LEMMA ListsConcat ==
    ASSUME NEW s, NEW T, Lists(s, T), NEW s2, NEW T2, Lists(s2, T2), T \cap T2 = {}
    PROVE  Lists(s \o s2, T \cup T2)
<1> DEFINE q == s \o s2
           n == Len(s)
           k == Len(s2)
<1>1. s \in Seq(Thread) /\ n \in Nat
      /\ (\A i \in 1..n : s[i] \in T)
      /\ (\A u \in T : \E i \in 1..n : s[i] = u)
      /\ (\A i, j \in 1..n : s[i] = s[j] => i = j)
  BY ListsFacts
<1>2. s2 \in Seq(Thread) /\ k \in Nat
      /\ (\A i \in 1..k : s2[i] \in T2)
      /\ (\A u \in T2 : \E i \in 1..k : s2[i] = u)
      /\ (\A i, j \in 1..k : s2[i] = s2[j] => i = j)
  BY ListsFacts
<1>3. q \in Seq(Thread) /\ Len(q) = n + k
      /\ (\A i \in 1..(n + k) : q[i] = IF i <= n THEN s[i] ELSE s2[i - n])
  BY <1>1, <1>2, ConcatProperties
<1> HIDE DEF q, n, k
<1>4. \A i \in 1..(n + k) : \/ i \in 1..n /\ q[i] = s[i]
                            \/ i - n \in 1..k /\ q[i] = s2[i - n]
  BY <1>1, <1>2, <1>3
<1>5. \A i \in 1..n : i \in 1..(n + k) /\ q[i] = s[i]  BY <1>1, <1>2, <1>3
<1>6. \A i \in 1..k : n + i \in 1..(n + k) /\ q[n + i] = s2[i]
  <2> SUFFICES ASSUME NEW i \in 1..k
               PROVE  n + i \in 1..(n + k) /\ q[n + i] = s2[i]
    OBVIOUS
  <2>1. n + i \in 1..(n + k) /\ ~(n + i <= n) /\ (n + i) - n = i  BY <1>1, <1>2
  <2> QED  BY <1>3, <2>1
<1>7. \A i \in 1..Len(q) : q[i] \in T \cup T2  BY <1>1, <1>2, <1>3, <1>4
<1>8. \A u \in T \cup T2 : \E i \in 1..Len(q) : q[i] = u
  <2>1. \A u \in T : \E i \in 1..(n + k) : q[i] = u  BY <1>1, <1>5
  <2>2. \A u \in T2 : \E i \in 1..(n + k) : q[i] = u
    <3> SUFFICES ASSUME NEW u \in T2  PROVE \E i \in 1..(n + k) : q[i] = u
      OBVIOUS
    <3>1. PICK i \in 1..k : s2[i] = u  BY <1>2
    <3>2. n + i \in 1..(n + k) /\ q[n + i] = u  BY <1>6, <3>1
    <3> QED  BY <3>2
  <2> QED  BY <1>3, <2>1, <2>2
<1>9. \A i, j \in 1..Len(q) : q[i] = q[j] => i = j
  <2> SUFFICES ASSUME NEW i \in 1..(n + k), NEW j \in 1..(n + k), q[i] = q[j]
               PROVE  i = j
    BY <1>3
  <2>1. CASE i \in 1..n /\ q[i] = s[i] /\ j \in 1..n /\ q[j] = s[j]
    BY <1>1, <2>1
  <2>2. CASE i - n \in 1..k /\ q[i] = s2[i - n] /\ j - n \in 1..k /\ q[j] = s2[j - n]
    <3>1. i - n = j - n  BY <1>2, <2>2
    <3> QED  BY <1>1, <1>2, <3>1
  <2>3. CASE i \in 1..n /\ q[i] = s[i] /\ j - n \in 1..k /\ q[j] = s2[j - n]
    BY <1>1, <1>2, <2>3
  <2>4. CASE i - n \in 1..k /\ q[i] = s2[i - n] /\ j \in 1..n /\ q[j] = s[j]
    BY <1>1, <1>2, <2>4
  <2> QED  BY <1>4, <2>1, <2>2, <2>3, <2>4
<1> QED  BY <1>3, <1>7, <1>8, <1>9, ListsIntro DEF q

LEMMA ListsTail ==
    ASSUME NEW s, NEW T, Lists(s, T), s # <<>>
    PROVE  Head(s) \in T /\ Lists(Tail(s), T \ {Head(s)})
<1> DEFINE q == Tail(s)
           n == Len(s)
<1>1. s \in Seq(Thread) /\ n \in Nat
      /\ (\A i \in 1..n : s[i] \in T)
      /\ (\A u \in T : \E i \in 1..n : s[i] = u)
      /\ (\A i, j \in 1..n : s[i] = s[j] => i = j)
  BY ListsFacts
<1>2. n # 0  BY <1>1, EmptySeq
<1>3. Head(s) = s[1]  OBVIOUS
<1>4. q \in Seq(Thread) /\ Len(q) = n - 1 /\ (\A i \in 1..(n - 1) : q[i] = s[i + 1])
  BY <1>1, HeadTailProperties
<1> HIDE DEF q, n
<1>5. 1 \in 1..n /\ (\A i \in 1..(n - 1) : i + 1 \in 1..n /\ i + 1 # 1)
      /\ (\A i \in 1..n : i = 1 \/ (i - 1 \in 1..(n - 1) /\ (i - 1) + 1 = i))
  BY <1>1, <1>2
<1>6. \A i \in 1..Len(q) : q[i] \in T \ {s[1]}  BY <1>1, <1>4, <1>5
<1>7. \A u \in T \ {s[1]} : \E i \in 1..Len(q) : q[i] = u
  <2> SUFFICES ASSUME NEW u \in T, u # s[1]
               PROVE  \E i \in 1..(n - 1) : q[i] = u
    BY <1>4
  <2>1. PICK i \in 1..n : s[i] = u  BY <1>1
  <2>2. i - 1 \in 1..(n - 1) /\ (i - 1) + 1 = i  BY <1>5, <2>1
  <2>3. q[i - 1] = u  BY <1>4, <2>1, <2>2
  <2> QED  BY <2>2, <2>3
<1>8. \A i, j \in 1..Len(q) : q[i] = q[j] => i = j
  <2> SUFFICES ASSUME NEW i \in 1..(n - 1), NEW j \in 1..(n - 1), q[i] = q[j]
               PROVE  i = j
    BY <1>4
  <2>1. i + 1 = j + 1  BY <1>1, <1>4, <1>5
  <2> QED  BY <1>1, <2>1
<1>9. Lists(q, T \ {s[1]})  BY <1>4, <1>6, <1>7, <1>8, ListsIntro
<1> QED  BY <1>1, <1>3, <1>5, <1>9 DEF q

(* A list is as long as the set it lists.                                  *)
LEMMA ListsLen ==
    ASSUME NEW s, NEW T, Lists(s, T)
    PROVE  IsFiniteSet(T) /\ Cardinality(T) = Len(s)
<1>1. s \in Seq(Thread) /\ Len(s) \in Nat /\ DOMAIN s = 1..Len(s)
      /\ (\A i \in 1..Len(s) : s[i] \in T)
      /\ (\A t \in T : \E i \in 1..Len(s) : s[i] = t)
      /\ (\A i, j \in 1..Len(s) : s[i] = s[j] => i = j)
  BY ListsFacts
<1> DEFINE g == [i \in 1..Len(s) |-> s[i]]
<1>2. g \in Bijection(1..Len(s), T)
  BY <1>1 DEF Bijection, Injection, Surjection, IsInjective
<1>3. ExistsBijection(1..Len(s), T)  BY <1>2 DEF ExistsBijection
<1>4. IsFiniteSet(1..Len(s))  BY <1>1, FS_Interval
<1> QED  BY <1>1, <1>3, <1>4, FS_Bijection, FS_CountingElements

-----------------------------------------------------------------------------
(* The structs: what each type of struct runs, and for which descriptor.   *)
Struct == [type : {"UNUSED"}, func : {"none"}, arg : {0}]
            \cup [type : {"READ", "READY"}, func : {"vty_accept"}, arg : {ServFd}]
            \cup [type : {"READ", "READY"}, func : {"vty_read"}, arg : Fds]
            \cup [type : {"WRITE", "READY"}, func : {"vty_flush"}, arg : Fds]
            \cup [type : {"TIMER"}, func : {"vty_timeout"}, arg : Fds]

SessionFunc == {"vty_read", "vty_flush", "vty_timeout"}
Fd == Fds \cup {ServFd}

(* What can be queued: one struct of each kind for a session, and one for  *)
(* the accept socket.                                                      *)
Keys == (SessionFunc \X Fds) \cup {<<"vty_accept", ServFd>>}
MaxKeys == 1 + 3 * Cardinality(Fds)

Of(th, type) == {t \in Thread : th[t].type = type}
QueuedIn(th, func, f) == {t \in Thread : th[t].func = func /\ th[t].arg = f}
Accepting(th) == {t \in Thread : th[t].type = "READY" /\ th[t].func = "vty_accept"}

(* The structs ever allocated, the unused ones among them, and the ones    *)
(* that are queued, no two for the same.                                   *)
Book(th, alloc, unuse) ==
    /\ th \in [Thread -> Struct]
    /\ alloc \in 0..MaxKeys
    /\ unuse \subseteq 1..alloc
    /\ Of(th, "UNUSED") = unuse \cup ((alloc + 1)..MaxThreads)
    /\ \A t, u \in Thread :
         th[t].type # "UNUSED" /\ th[t].func = th[u].func /\ th[t].arg = th[u].arg
           => t = u

(* The fields of a master, and no others.                                  *)
Shape(mm) ==
    mm = [th |-> mm.th, alloc |-> mm.alloc, read |-> mm.read, write |-> mm.write,
          ready |-> mm.ready, unuse |-> mm.unuse, twice |-> mm.twice,
          timer |-> mm.timer, readfd |-> mm.readfd, writefd |-> mm.writefd]

ArgsIn(th, T) == {th[t].arg : t \in T}
Args(th, type) == ArgsIn(th, Of(th, type))

(* The scheduler between two calls.                                        *)
MInv(mm) ==
    /\ Shape(mm)
    /\ Book(mm.th, mm.alloc, mm.unuse)
    /\ Lists(mm.read, Of(mm.th, "READ"))
    /\ Lists(mm.write, Of(mm.th, "WRITE"))
    /\ Lists(mm.ready, Of(mm.th, "READY"))
    /\ mm.timer = Of(mm.th, "TIMER")
    /\ mm.readfd = Args(mm.th, "READ") /\ mm.writefd = Args(mm.th, "WRITE")
    /\ ~mm.twice

LEMMA Constants ==
    /\ MaxThreads \in Nat /\ NULL \notin Thread /\ Thread = 1..MaxThreads
    /\ IsFiniteSet(Fds) /\ Cardinality(Fds) \in Nat /\ ServFd \notin Fds
    /\ MaxKeys \in Nat /\ MaxKeys <= MaxThreads /\ MaxKeys >= 1
<1>1. Cardinality(Fds) \in Nat  BY VtyAssumption, FS_CardinalityType
<1> QED  BY <1>1, ThreadAssumption, VtyAssumption DEF Thread, MaxKeys

LEMMA StructFacts ==
    ASSUME NEW r \in Struct
    PROVE  /\ r.type \in {"UNUSED", "READ", "WRITE", "TIMER", "READY"}
           /\ r.type = "UNUSED" <=> r.func = "none"
           /\ r.type = "UNUSED" => r = Unused
           /\ r.type # "UNUSED" => <<r.func, r.arg>> \in Keys
           /\ r.type # "UNUSED" => r.func \in SessionFunc \cup {"vty_accept"} /\ r.arg \in Fd
           /\ r.func = "vty_accept" => r.arg = ServFd
           /\ r.func \in SessionFunc => r.arg \in Fds
           /\ r.type = "READ" => r.func \in {"vty_accept", "vty_read"}
           /\ r.type = "WRITE" => r.func = "vty_flush"
           /\ r.type = "TIMER" => r.func = "vty_timeout"
           /\ r.type = "READY" => r.func \in {"vty_accept", "vty_read", "vty_flush"}
           /\ r.func = "vty_timeout" => r.type = "TIMER"
BY DEF Struct, Keys, SessionFunc, Fd, Unused

LEMMA UnusedStruct == Unused \in Struct /\ Unused.type = "UNUSED" /\ Unused.func = "none"
BY DEF Unused, Struct

LEMMA KeysCount == IsFiniteSet(Keys) /\ Cardinality(Keys) = MaxKeys
<1>1. IsFiniteSet(SessionFunc) /\ Cardinality(SessionFunc) = 3
  <2>1. IsFiniteSet({"vty_read"}) /\ Cardinality({"vty_read"}) = 1  BY FS_Singleton
  <2>2. IsFiniteSet({"vty_read"} \cup {"vty_flush"})
        /\ Cardinality({"vty_read"} \cup {"vty_flush"}) = 2
    BY <2>1, FS_AddElement
  <2>3. IsFiniteSet(({"vty_read"} \cup {"vty_flush"}) \cup {"vty_timeout"})
        /\ Cardinality(({"vty_read"} \cup {"vty_flush"}) \cup {"vty_timeout"}) = 3
    BY <2>2, FS_AddElement
  <2>4. SessionFunc = ({"vty_read"} \cup {"vty_flush"}) \cup {"vty_timeout"}
    BY DEF SessionFunc
  <2> QED  BY <2>3, <2>4
<1> DEFINE P == SessionFunc \X Fds
<1>2. IsFiniteSet(P) /\ Cardinality(P) = 3 * Cardinality(Fds)
  BY <1>1, Constants, FS_Product
<1>3. <<"vty_accept", ServFd>> \notin P  BY DEF SessionFunc
<1>4. Keys = P \cup {<<"vty_accept", ServFd>>}  BY DEF Keys
<1> HIDE DEF P
<1>5. IsFiniteSet(Keys) /\ Cardinality(Keys) = Cardinality(P) + 1
  BY <1>2, <1>3, <1>4, FS_AddElement
<1> QED  BY <1>2, <1>5, Constants DEF MaxKeys

(* A struct for something that is not queued: there is one, or room for    *)
(* one more.                                                               *)
IsFree(n, th, a, u) ==
    /\ n \in Thread
    /\ th[n].type = "UNUSED"
    /\ u # {} => n \in u
    /\ u = {} => n = a + 1 /\ a + 1 <= MaxKeys

LEMMA NextFree ==
    ASSUME NEW mm, Book(mm.th, mm.alloc, mm.unuse),
           NEW func, NEW f, <<func, f>> \in Keys, QueuedIn(mm.th, func, f) = {}
    PROVE  IsFree(NextThread(mm), mm.th, mm.alloc, mm.unuse)
<1> DEFINE th == mm.th
           n == mm.alloc
<1>1. /\ th \in [Thread -> Struct] /\ n \in 0..MaxKeys /\ mm.unuse \subseteq 1..n
      /\ Of(th, "UNUSED") = mm.unuse \cup ((n + 1)..MaxThreads)
      /\ \A t, u \in Thread :
           th[t].type # "UNUSED" /\ th[t].func = th[u].func /\ th[t].arg = th[u].arg
             => t = u
  BY DEF Book
<1>2. CASE mm.unuse # {}
  <2>1. NextThread(mm) \in mm.unuse  BY <1>2 DEF NextThread
  <2>2. NextThread(mm) \in Of(th, "UNUSED")  BY <1>1, <2>1
  <2> QED  BY <1>2, <2>1, <2>2 DEF Of, IsFree
<1>3. CASE mm.unuse = {}
  <2> HIDE DEF th, n
  <2>1. \A t \in 1..n : t \in Thread /\ th[t].type # "UNUSED"
    <3> SUFFICES ASSUME NEW t \in 1..n  PROVE t \in Thread /\ th[t].type # "UNUSED"
      OBVIOUS
    <3>1. t \in Thread /\ t \notin (n + 1)..MaxThreads  BY <1>1, Constants
    <3>2. t \notin Of(th, "UNUSED")  BY <1>1, <1>3, <3>1
    <3> QED  BY <3>1, <3>2 DEF Of
  <2> DEFINE K == Keys \ {<<func, f>>}
             g == [t \in 1..n |-> <<th[t].func, th[t].arg>>]
  <2>2. g \in Injection(1..n, K)
    <3>1. ASSUME NEW t \in 1..n  PROVE g[t] \in K
      <4>1. t \in Thread /\ th[t] \in Struct /\ th[t].type # "UNUSED"  BY <1>1, <2>1
      <4>2. <<th[t].func, th[t].arg>> \in Keys  BY <4>1, StructFacts
      <4>3. t \notin QueuedIn(th, func, f)  BY DEF th
      <4>4. ~(th[t].func = func /\ th[t].arg = f)  BY <4>1, <4>3 DEF QueuedIn
      <4> QED  BY <4>2, <4>4
    <3>2. g \in [1..n -> K]
      <4> HIDE DEF K
      <4> QED  BY <3>1
    <3>3. ASSUME NEW t \in 1..n, NEW u \in 1..n, g[t] = g[u]  PROVE t = u
      <4>1. th[t].func = th[u].func /\ th[t].arg = th[u].arg  BY <3>3
      <4> QED  BY <1>1, <2>1, <4>1
    <3> QED  BY <3>2, <3>3 DEF Injection, IsInjective
  <2>3. IsFiniteSet(K) /\ Cardinality(K) = MaxKeys - 1
    BY KeysCount, FS_RemoveElement
  <2>4. Cardinality(1..n) = n  BY <1>1, Constants, FS_Interval
  <2>5. Cardinality(1..n) <= Cardinality(K)
    <3> HIDE DEF g, K
    <3> QED  BY <2>2, <2>3, FS_Injection
  <2>6. n + 1 <= MaxKeys /\ n \in Nat  BY <1>1, <2>3, <2>4, <2>5, Constants
  <2>7. n + 1 \in Thread /\ n + 1 \in (n + 1)..MaxThreads  BY <2>6, Constants
  <2>8. th[n + 1].type = "UNUSED"  BY <1>1, <2>7 DEF Of
  <2>9. NextThread(mm) = n + 1  BY <1>3 DEF NextThread, n
  <2> QED  BY <1>3, <2>6, <2>7, <2>8, <2>9 DEF n, th, IsFree
<1> QED  BY <1>2, <1>3

Funcs == SessionFunc \cup {"vty_accept"}

Put(th, n, r) == [th EXCEPT ![n] = r]
Grown(a, u) == IF u = {} THEN a + 1 ELSE a
Wipe(th, S) == [t \in Thread |-> IF t \in S THEN Unused ELSE th[t]]
MakeReady(th, S) ==
    [t \in Thread |-> IF t \in S THEN [th[t] EXCEPT !.type = "READY"] ELSE th[t]]

(* The struct n, that was free, is used for r.                             *)
Takes(th, a, u, n, r) ==
    /\ n \in Thread /\ th[n].type = "UNUSED"
    /\ Book(Put(th, n, r), Grown(a, u), u \ {n})
    /\ \A ty \in {"READ", "WRITE", "TIMER", "READY"} :
         /\ n \notin Of(th, ty)
         /\ Of(Put(th, n, r), ty) = IF ty = r.type THEN Of(th, ty) \cup {n} ELSE Of(th, ty)
    /\ Put(th, n, r)[n] = r
    /\ \A t \in Thread \ {n} : Put(th, n, r)[t] = th[t]
    /\ \A fn \in Funcs, g \in Fd :
         QueuedIn(Put(th, n, r), fn, g) = IF fn = r.func /\ g = r.arg
                                  THEN {n} ELSE QueuedIn(th, fn, g)

(* thread_get uses a struct that was free.                                 *)
LEMMA BookUsed ==
    ASSUME NEW th, NEW a, NEW u, Book(th, a, u),
           NEW r \in Struct, r.type # "UNUSED", QueuedIn(th, r.func, r.arg) = {},
           NEW n, IsFree(n, th, a, u)
    PROVE  Takes(th, a, u, n, r)
<1> DEFINE th2 == Put(th, n, r)
           alloc2 == Grown(a, u)
<1>1. /\ th \in [Thread -> Struct] /\ a \in 0..MaxKeys /\ u \subseteq 1..a
      /\ Of(th, "UNUSED") = u \cup ((a + 1)..MaxThreads)
      /\ \A t, v \in Thread :
           th[t].type # "UNUSED" /\ th[t].func = th[v].func /\ th[t].arg = th[v].arg
             => t = v
  BY DEF Book
<1>2. <<r.func, r.arg>> \in Keys  BY StructFacts
<1>3. /\ n \in Thread /\ th[n].type = "UNUSED"
      /\ u # {} => n \in u
      /\ u = {} => n = a + 1 /\ a + 1 <= MaxKeys
  BY DEF IsFree
<1>4. Book(th, a, u) /\ QueuedIn(th, r.func, r.arg) = {} /\ th2 = [th EXCEPT ![n] = r]
      /\ alloc2 = IF u = {} THEN a + 1 ELSE a
  BY DEF Put, Grown
<1> HIDE DEF th2, alloc2
<1>5. th2 \in [Thread -> Struct] /\ th2[n] = r /\ \A t \in Thread \ {n} : th2[t] = th[t]
  BY <1>1, <1>3, <1>4
<1>6. \A ty \in {"READ", "WRITE", "TIMER", "READY"} :
         /\ n \notin Of(th, ty)
         /\ Of(th2, ty) = IF ty = r.type THEN Of(th, ty) \cup {n} ELSE Of(th, ty)
  BY <1>3, <1>5 DEF Of
<1>7. Of(th2, "UNUSED") = Of(th, "UNUSED") \ {n}  BY <1>3, <1>5 DEF Of
<1>8. \A t \in Thread : ~(th[t].func = r.func /\ th[t].arg = r.arg)
  BY <1>4 DEF QueuedIn
<1>9. r.func \in Funcs /\ th[n].func = "none"
  BY <1>1, <1>3, StructFacts DEF Funcs
<1>10. \A fn \in Funcs, g \in Fd :
         QueuedIn(th2, fn, g) = IF fn = r.func /\ g = r.arg
                                  THEN {n} ELSE QueuedIn(th, fn, g)
  <2> SUFFICES ASSUME NEW fn \in Funcs, NEW g \in Fd
               PROVE  QueuedIn(th2, fn, g) = IF fn = r.func /\ g = r.arg
                                               THEN {n} ELSE QueuedIn(th, fn, g)
    OBVIOUS
  <2>1. fn # "none"  BY DEF Funcs, SessionFunc
  <2> QED  BY <1>3, <1>5, <1>8, <1>9, <2>1 DEF QueuedIn
<1>11. alloc2 \in 0..MaxKeys /\ u \ {n} \subseteq 1..alloc2
  <2>1. alloc2 \in 0..MaxKeys /\ a <= alloc2  BY <1>1, <1>3, <1>4, Constants
  <2>2. \A t \in 1..a : t \in 1..alloc2  BY <1>1, <2>1, Constants
  <2> QED  BY <1>1, <2>1, <2>2
<1>12. Of(th2, "UNUSED") = (u \ {n}) \cup ((alloc2 + 1)..MaxThreads)
  <2>1. CASE u # {}
    <3>1. alloc2 = a /\ n \in u /\ n \notin (a + 1)..MaxThreads
      BY <1>1, <1>3, <1>4, <2>1, Constants
    <3> QED  BY <1>1, <1>7, <3>1
  <2>2. CASE u = {}
    <3>1. alloc2 = a + 1 /\ n = a + 1  BY <1>3, <1>4, <2>2
    <3>2. ((a + 1)..MaxThreads) \ {a + 1} = ((a + 1) + 1)..MaxThreads
      BY <1>1, Constants
    <3> QED  BY <1>1, <1>7, <2>2, <3>1, <3>2
  <2> QED  BY <2>1, <2>2
<1>13. \A t, v \in Thread :
          th2[t].type # "UNUSED" /\ th2[t].func = th2[v].func /\ th2[t].arg = th2[v].arg
            => t = v
  <2> SUFFICES ASSUME NEW t \in Thread, NEW v \in Thread, th2[t].type # "UNUSED",
                      th2[t].func = th2[v].func, th2[t].arg = th2[v].arg
               PROVE  t = v
    OBVIOUS
  <2>1. CASE t = n  BY <1>5, <1>8, <2>1
  <2>2. CASE v = n  BY <1>5, <1>8, <2>2
  <2>3. CASE t # n /\ v # n  BY <1>1, <1>5, <2>3
  <2> QED  BY <2>1, <2>2, <2>3
<1>14. Book(th2, alloc2, u \ {n})  BY <1>5, <1>11, <1>12, <1>13 DEF Book
<1> QED  BY <1>3, <1>5, <1>6, <1>10, <1>14 DEF th2, alloc2, Takes

Wiped(th, a, u, S) ==
    /\ Book(Wipe(th, S), a, u \cup S)
    /\ S \cap u = {}
    /\ \A ty \in {"READ", "WRITE", "TIMER", "READY"} :
         Of(Wipe(th, S), ty) = Of(th, ty) \ S
    /\ \A t \in Thread \ S : Wipe(th, S)[t] = th[t]
    /\ \A fn \in Funcs, g \in Fd : QueuedIn(Wipe(th, S), fn, g) = QueuedIn(th, fn, g) \ S

(* thread_add_unuse frees structs that were in use.                        *)
LEMMA BookFreed ==
    ASSUME NEW th, NEW a, NEW u, Book(th, a, u), NEW S \in SUBSET Thread,
           \A t \in S : th[t].type # "UNUSED"
    PROVE  Wiped(th, a, u, S)
<1> DEFINE th2 == Wipe(th, S)
<1>1. /\ th \in [Thread -> Struct] /\ a \in 0..MaxKeys /\ u \subseteq 1..a
      /\ Of(th, "UNUSED") = u \cup ((a + 1)..MaxThreads)
      /\ \A t, v \in Thread :
           th[t].type # "UNUSED" /\ th[t].func = th[v].func /\ th[t].arg = th[v].arg
             => t = v
  BY DEF Book
<1>2. th2 \in [Thread -> Struct] /\ (\A t \in S : th2[t] = Unused)
      /\ (\A t \in Thread \ S : th2[t] = th[t])
  BY <1>1, UnusedStruct DEF Wipe
<1> HIDE DEF th2
<1>3. S \cap Of(th, "UNUSED") = {}  BY DEF Of
<1>4. \A ty \in {"READ", "WRITE", "TIMER", "READY"} : Of(th2, ty) = Of(th, ty) \ S
  BY <1>2, UnusedStruct DEF Of
<1>5. Of(th2, "UNUSED") = Of(th, "UNUSED") \cup S  BY <1>2, UnusedStruct DEF Of
<1>6. S \subseteq 1..a
  <2>1. \A t \in S : t \in 1..MaxThreads /\ t \notin (a + 1)..MaxThreads
    BY <1>1, <1>3, Constants
  <2> QED  BY <1>1, <2>1, Constants
<1>7. \A fn \in Funcs, g \in Fd : QueuedIn(th2, fn, g) = QueuedIn(th, fn, g) \ S
  <2> SUFFICES ASSUME NEW fn \in Funcs, NEW g \in Fd
               PROVE  QueuedIn(th2, fn, g) = QueuedIn(th, fn, g) \ S
    OBVIOUS
  <2>1. fn # "none"  BY DEF Funcs, SessionFunc
  <2> QED  BY <1>2, <2>1, UnusedStruct DEF QueuedIn
<1>8. \A t, v \in Thread :
         th2[t].type # "UNUSED" /\ th2[t].func = th2[v].func /\ th2[t].arg = th2[v].arg
           => t = v
  <2> SUFFICES ASSUME NEW t \in Thread, NEW v \in Thread, th2[t].type # "UNUSED",
                      th2[t].func = th2[v].func, th2[t].arg = th2[v].arg
               PROVE  t = v
    OBVIOUS
  <2>1. t \notin S  BY <1>2, UnusedStruct
  <2>2. th2[t].func # "none"  BY <1>2, StructFacts
  <2>3. v \notin S  BY <1>2, <2>2, UnusedStruct
  <2> QED  BY <1>1, <1>2, <2>1, <2>3
<1>9. Book(th2, a, u \cup S)  BY <1>1, <1>2, <1>5, <1>6, <1>8 DEF Book
<1> QED  BY <1>1, <1>2, <1>3, <1>4, <1>7, <1>9 DEF th2, Wiped

Moved(th, a, u, S) ==
    /\ Book(MakeReady(th, S), a, u)
    /\ Of(MakeReady(th, S), "READ") = Of(th, "READ") \ S
    /\ Of(MakeReady(th, S), "WRITE") = Of(th, "WRITE") \ S
    /\ Of(MakeReady(th, S), "READY") = Of(th, "READY") \cup S
    /\ Of(MakeReady(th, S), "TIMER") = Of(th, "TIMER")
    /\ \A t \in Thread : MakeReady(th, S)[t].func = th[t].func /\ MakeReady(th, S)[t].arg = th[t].arg
    /\ \A fn \in Funcs, g \in Fd : QueuedIn(MakeReady(th, S), fn, g) = QueuedIn(th, fn, g)

(* thread_process_fd makes structs ready that waited for a descriptor.     *)
LEMMA BookMoved ==
    ASSUME NEW th, NEW a, NEW u, Book(th, a, u),
           NEW S \in SUBSET (Of(th, "READ") \cup Of(th, "WRITE"))
    PROVE  Moved(th, a, u, S)
<1> DEFINE th2 == MakeReady(th, S)
<1>1. /\ th \in [Thread -> Struct] /\ a \in 0..MaxKeys /\ u \subseteq 1..a
      /\ Of(th, "UNUSED") = u \cup ((a + 1)..MaxThreads)
      /\ \A t, v \in Thread :
           th[t].type # "UNUSED" /\ th[t].func = th[v].func /\ th[t].arg = th[v].arg
             => t = v
  BY DEF Book
<1>2. S \subseteq Thread /\ \A t \in S : th[t].type \in {"READ", "WRITE"}  BY DEF Of
<1>3. ASSUME NEW r \in Struct, r.type \in {"READ", "WRITE"}
      PROVE  LET q == [r EXCEPT !.type = "READY"]
             IN q \in Struct /\ q.type = "READY" /\ q.func = r.func /\ q.arg = r.arg
  BY <1>3 DEF Struct
<1>4. \A t \in S : /\ th2[t] \in Struct /\ th2[t].type = "READY"
                   /\ th2[t].func = th[t].func /\ th2[t].arg = th[t].arg
  <2> SUFFICES ASSUME NEW t \in S
               PROVE  /\ th2[t] \in Struct /\ th2[t].type = "READY"
                      /\ th2[t].func = th[t].func /\ th2[t].arg = th[t].arg
    OBVIOUS
  <2>1. th[t] \in Struct /\ th[t].type \in {"READ", "WRITE"} /\ t \in Thread
    BY <1>1, <1>2
  <2>2. th2[t] = [th[t] EXCEPT !.type = "READY"]  BY <2>1 DEF MakeReady
  <2> QED  BY <1>3, <2>1, <2>2
<1>5. \A t \in Thread \ S : th2[t] = th[t]  BY DEF MakeReady
<1>6. th2 \in [Thread -> Struct]
  <2>1. \A t \in Thread : th2[t] \in Struct  BY <1>1, <1>4, <1>5
  <2> QED  BY <2>1 DEF MakeReady
<1> HIDE DEF th2
<1>7. \A t \in Thread : th2[t].func = th[t].func /\ th2[t].arg = th[t].arg
  BY <1>4, <1>5
<1>8. /\ Of(th2, "READ") = Of(th, "READ") \ S
      /\ Of(th2, "WRITE") = Of(th, "WRITE") \ S
      /\ Of(th2, "READY") = Of(th, "READY") \cup S
      /\ Of(th2, "TIMER") = Of(th, "TIMER")
      /\ Of(th2, "UNUSED") = Of(th, "UNUSED")
  BY <1>2, <1>4, <1>5 DEF Of
<1>9. \A fn \in Funcs, g \in Fd : QueuedIn(th2, fn, g) = QueuedIn(th, fn, g)
  BY <1>7 DEF QueuedIn
<1>10. \A t, v \in Thread :
         th2[t].type # "UNUSED" /\ th2[t].func = th2[v].func /\ th2[t].arg = th2[v].arg
           => t = v
  BY <1>1, <1>2, <1>4, <1>5, <1>7
<1>11. Book(th2, a, u)  BY <1>1, <1>6, <1>8, <1>10 DEF Book
<1> QED  BY <1>7, <1>8, <1>9, <1>11 DEF th2, Moved

-----------------------------------------------------------------------------
(* The scheduler's functions.  Added and Freed say what a function that    *)
(* queues one struct, or frees some, does to what is queued.               *)
Added(mm, m2, func, f, p) ==
    /\ MInv(m2) /\ p \in Thread
    /\ Accepting(m2.th) = Accepting(mm.th)
    /\ \A fn \in Funcs, g \in Fd :
         QueuedIn(m2.th, fn, g) = IF fn = func /\ g = f THEN {p}
                                                        ELSE QueuedIn(mm.th, fn, g)

Freed(mm, m2, S) ==
    /\ MInv(m2)
    /\ Accepting(m2.th) = Accepting(mm.th) \ S
    /\ \A fn \in Funcs, g \in Fd :
         QueuedIn(m2.th, fn, g) = QueuedIn(mm.th, fn, g) \ S

LEMMA MInvFacts ==
    ASSUME NEW mm, MInv(mm)
    PROVE  /\ Shape(mm) /\ Book(mm.th, mm.alloc, mm.unuse)
           /\ Lists(mm.read, Of(mm.th, "READ"))
           /\ Lists(mm.write, Of(mm.th, "WRITE"))
           /\ Lists(mm.ready, Of(mm.th, "READY"))
           /\ mm.timer = Of(mm.th, "TIMER")
           /\ mm.readfd = Args(mm.th, "READ") /\ mm.writefd = Args(mm.th, "WRITE")
           /\ ~mm.twice
           /\ \A t \in Thread : mm.th[t] \in Struct
BY DEF MInv, Book

LEMMA GetWorks ==
    ASSUME NEW mm, MInv(mm), NEW type \in {"READ", "WRITE", "TIMER"}, NEW func, NEW f,
           NEW r \in Struct, r = [type |-> type, func |-> func, arg |-> f],
           QueuedIn(mm.th, func, f) = {},
           NEW n, n = NextThread(mm), NEW G, G = thread_get(mm, type, func, f)
    PROVE  /\ n \in Thread /\ Shape(G) /\ Book(G.th, G.alloc, G.unuse)
           /\ G.read = mm.read /\ G.write = mm.write /\ G.ready = mm.ready
           /\ G.twice = mm.twice /\ G.timer = mm.timer
           /\ G.readfd = mm.readfd /\ G.writefd = mm.writefd
           /\ \A ty \in {"READ", "WRITE", "TIMER", "READY"} :
                /\ n \notin Of(mm.th, ty)
                /\ Of(G.th, ty) = IF ty = type THEN Of(mm.th, ty) \cup {n} ELSE Of(mm.th, ty)
                /\ Args(G.th, ty) = IF ty = type THEN Args(mm.th, ty) \cup {f}
                                                 ELSE Args(mm.th, ty)
           /\ Accepting(G.th) = Accepting(mm.th)
           /\ \A fn \in Funcs, g \in Fd :
                QueuedIn(G.th, fn, g) = IF fn = func /\ g = f
                                          THEN {n} ELSE QueuedIn(mm.th, fn, g)
<1>1. r.type = type /\ r.func = func /\ r.arg = f /\ r.type # "UNUSED"  OBVIOUS
<1>2. /\ Shape(mm) /\ Book(mm.th, mm.alloc, mm.unuse)  BY MInvFacts
<1> DEFINE th2 == Put(mm.th, n, r)
           alloc2 == Grown(mm.alloc, mm.unuse)
<1>3. G = [th |-> th2, alloc |-> alloc2, read |-> mm.read,
            write |-> mm.write, ready |-> mm.ready, unuse |-> mm.unuse \ {n},
            twice |-> mm.twice, timer |-> mm.timer, readfd |-> mm.readfd,
            writefd |-> mm.writefd]
  BY <1>2 DEF thread_get, Shape, Put, Grown
<1>6. QueuedIn(mm.th, r.func, r.arg) = {}  BY <1>1
<1>7. /\ n \in Thread
      /\ Book(th2, alloc2, mm.unuse \ {n})
      /\ \A ty \in {"READ", "WRITE", "TIMER", "READY"} :
           /\ n \notin Of(mm.th, ty)
           /\ Of(th2, ty) = IF ty = r.type THEN Of(mm.th, ty) \cup {n} ELSE Of(mm.th, ty)
      /\ th2[n] = r
      /\ \A t \in Thread \ {n} : th2[t] = mm.th[t]
      /\ \A fn \in Funcs, g \in Fd :
           QueuedIn(th2, fn, g) = IF fn = r.func /\ g = r.arg
                                    THEN {n} ELSE QueuedIn(mm.th, fn, g)
  <2>1. <<r.func, r.arg>> \in Keys  BY <1>1, StructFacts
  <2>2. IsFree(n, mm.th, mm.alloc, mm.unuse)  BY <1>2, <1>6, <2>1, NextFree
  <2>3. Takes(mm.th, mm.alloc, mm.unuse, n, r)  BY <1>1, <1>2, <1>6, <2>2, BookUsed
  <2> QED  BY <2>3 DEF Takes
<1> HIDE DEF th2, alloc2
<1>8. G.th = th2 /\ G.alloc = alloc2 /\ G.read = mm.read
       /\ G.write = mm.write /\ G.ready = mm.ready /\ G.unuse = mm.unuse \ {n}
       /\ G.twice = mm.twice /\ G.timer = mm.timer /\ G.readfd = mm.readfd
       /\ G.writefd = mm.writefd /\ Shape(G)
  BY <1>3 DEF Shape
<1>9. ASSUME NEW ty \in {"READ", "WRITE", "TIMER", "READY"}
      PROVE  /\ n \notin Of(mm.th, ty)
             /\ Of(th2, ty) = IF ty = type THEN Of(mm.th, ty) \cup {n} ELSE Of(mm.th, ty)
             /\ Args(th2, ty) = IF ty = type THEN Args(mm.th, ty) \cup {f}
                                             ELSE Args(mm.th, ty)
  <2>1. n \notin Of(mm.th, ty)
        /\ Of(th2, ty) = IF ty = type THEN Of(mm.th, ty) \cup {n} ELSE Of(mm.th, ty)
    BY <1>1, <1>7
  <2>2. \A t \in Of(mm.th, ty) : th2[t] = mm.th[t]  BY <1>7, <2>1 DEF Of
  <2>3. th2[n].arg = f  BY <1>1, <1>7
  <2> QED  BY <2>1, <2>2, <2>3 DEF Args, ArgsIn
<1>10. Accepting(th2) = Accepting(mm.th)
  <2>1. Of(th2, "READY") = Of(mm.th, "READY") /\ n \notin Of(mm.th, "READY")  BY <1>9
  <2>2. \A t \in Of(mm.th, "READY") : th2[t] = mm.th[t]  BY <1>7, <2>1 DEF Of
  <2> QED  BY <2>1, <2>2 DEF Accepting, Of
<1> QED  BY <1>1, <1>7, <1>8, <1>9, <1>10

LEMMA AddReadWorks ==
    ASSUME NEW mm, MInv(mm), NEW func, NEW f,
           \/ func = "vty_accept" /\ f = ServFd
           \/ func = "vty_read" /\ f \in Fds,
           QueuedIn(mm.th, func, f) = {}
    PROVE  /\ Added(mm, thread_add_read(mm, func, f), func, f, NextThread(mm))
           /\ AddedRead(mm, f) = NextThread(mm)
<1> DEFINE n == NextThread(mm)
           r == [type |-> "READ", func |-> func, arg |-> f]
           G == thread_get(mm, "READ", func, f)
           m2 == [G EXCEPT !.readfd = @ \cup {f}, !.read = Append(@, n)]
<1>1. r \in Struct  BY DEF Struct
<1>2. f \notin mm.readfd
  <2> SUFFICES ASSUME f \in mm.readfd  PROVE FALSE
    OBVIOUS
  <2>1. PICK t \in Thread : mm.th[t].type = "READ" /\ mm.th[t].arg = f
    <3>1. f \in Args(mm.th, "READ")  BY MInvFacts
    <3> QED  BY <3>1 DEF Args, ArgsIn, Of
  <2>2. mm.th[t] \in Struct  BY MInvFacts
  <2>3. mm.th[t].func = func
    BY <2>1, <2>2, StructFacts, Constants DEF SessionFunc
  <2> QED  BY <2>1, <2>3 DEF QueuedIn
<1>3. thread_add_read(mm, func, f) = m2 /\ AddedRead(mm, f) = n
  BY <1>2 DEF thread_add_read, AddedRead
<1>4. r = [type |-> "READ", func |-> func, arg |-> f]
      /\ G = thread_get(mm, "READ", func, f) /\ n = NextThread(mm)
      /\ m2 = [G EXCEPT !.readfd = @ \cup {f}, !.read = Append(@, n)]
  OBVIOUS
<1> HIDE DEF r, G, n, m2
<1>5. /\ n \in Thread /\ Shape(G) /\ Book(G.th, G.alloc, G.unuse)
      /\ G.read = mm.read /\ G.write = mm.write /\ G.ready = mm.ready
      /\ G.twice = mm.twice /\ G.timer = mm.timer
      /\ G.readfd = mm.readfd /\ G.writefd = mm.writefd
      /\ \A ty \in {"READ", "WRITE", "TIMER", "READY"} :
           /\ n \notin Of(mm.th, ty)
           /\ Of(G.th, ty) = IF ty = "READ" THEN Of(mm.th, ty) \cup {n} ELSE Of(mm.th, ty)
           /\ Args(G.th, ty) = IF ty = "READ" THEN Args(mm.th, ty) \cup {f}
                                              ELSE Args(mm.th, ty)
      /\ Accepting(G.th) = Accepting(mm.th)
      /\ \A fn \in Funcs, g \in Fd :
           QueuedIn(G.th, fn, g) = IF fn = func /\ g = f
                                     THEN {n} ELSE QueuedIn(mm.th, fn, g)
  BY <1>1, <1>4, GetWorks
<1>6. m2.th = G.th /\ m2.alloc = G.alloc /\ m2.unuse = G.unuse /\ Shape(m2)
      /\ m2.read = Append(mm.read, n) /\ m2.write = mm.write /\ m2.ready = mm.ready
      /\ m2.twice = mm.twice /\ m2.timer = mm.timer
      /\ m2.readfd = mm.readfd \cup {f} /\ m2.writefd = mm.writefd
  BY <1>4, <1>5 DEF Shape
<1>7. Lists(m2.read, Of(m2.th, "READ"))  BY <1>5, <1>6, ListsAppend, MInvFacts
<1>8. MInv(m2)  BY <1>5, <1>6, <1>7, MInvFacts DEF MInv
<1> QED  BY <1>3, <1>5, <1>6, <1>8 DEF Added, n

LEMMA AddWriteWorks ==
    ASSUME NEW mm, MInv(mm), NEW f \in Fds, QueuedIn(mm.th, "vty_flush", f) = {}
    PROVE  /\ Added(mm, thread_add_write(mm, "vty_flush", f), "vty_flush", f, NextThread(mm))
           /\ AddedWrite(mm, f) = NextThread(mm)
<1> DEFINE func == "vty_flush"
           n == NextThread(mm)
           r == [type |-> "WRITE", func |-> func, arg |-> f]
           G == thread_get(mm, "WRITE", func, f)
           m2 == [G EXCEPT !.writefd = @ \cup {f}, !.write = Append(@, n)]
<1>1. r \in Struct  BY DEF Struct
<1>2. f \notin mm.writefd
  <2> SUFFICES ASSUME f \in mm.writefd  PROVE FALSE
    OBVIOUS
  <2>1. PICK t \in Thread : mm.th[t].type = "WRITE" /\ mm.th[t].arg = f
    <3>1. f \in Args(mm.th, "WRITE")  BY MInvFacts
    <3> QED  BY <3>1 DEF Args, ArgsIn, Of
  <2>2. mm.th[t] \in Struct  BY MInvFacts
  <2>3. mm.th[t].func = func  BY <2>1, <2>2, StructFacts
  <2> QED  BY <2>1, <2>3 DEF QueuedIn
<1>3. thread_add_write(mm, func, f) = m2 /\ AddedWrite(mm, f) = n
  BY <1>2 DEF thread_add_write, AddedWrite
<1>4. r = [type |-> "WRITE", func |-> func, arg |-> f]
      /\ G = thread_get(mm, "WRITE", func, f) /\ n = NextThread(mm)
      /\ m2 = [G EXCEPT !.writefd = @ \cup {f}, !.write = Append(@, n)]
      /\ QueuedIn(mm.th, func, f) = {}
  OBVIOUS
<1> HIDE DEF r, G, n, m2, func
<1>5. /\ n \in Thread /\ Shape(G) /\ Book(G.th, G.alloc, G.unuse)
      /\ G.read = mm.read /\ G.write = mm.write /\ G.ready = mm.ready
      /\ G.twice = mm.twice /\ G.timer = mm.timer
      /\ G.readfd = mm.readfd /\ G.writefd = mm.writefd
      /\ \A ty \in {"READ", "WRITE", "TIMER", "READY"} :
           /\ n \notin Of(mm.th, ty)
           /\ Of(G.th, ty) = IF ty = "WRITE" THEN Of(mm.th, ty) \cup {n} ELSE Of(mm.th, ty)
           /\ Args(G.th, ty) = IF ty = "WRITE" THEN Args(mm.th, ty) \cup {f}
                                               ELSE Args(mm.th, ty)
      /\ Accepting(G.th) = Accepting(mm.th)
      /\ \A fn \in Funcs, g \in Fd :
           QueuedIn(G.th, fn, g) = IF fn = func /\ g = f
                                     THEN {n} ELSE QueuedIn(mm.th, fn, g)
  BY <1>1, <1>4, GetWorks
<1>6. m2.th = G.th /\ m2.alloc = G.alloc /\ m2.unuse = G.unuse /\ Shape(m2)
      /\ m2.write = Append(mm.write, n) /\ m2.read = mm.read /\ m2.ready = mm.ready
      /\ m2.twice = mm.twice /\ m2.timer = mm.timer
      /\ m2.writefd = mm.writefd \cup {f} /\ m2.readfd = mm.readfd
  BY <1>4, <1>5 DEF Shape
<1>7. Lists(m2.write, Of(m2.th, "WRITE"))  BY <1>5, <1>6, ListsAppend, MInvFacts
<1>8. MInv(m2)  BY <1>5, <1>6, <1>7, MInvFacts DEF MInv
<1> QED  BY <1>3, <1>5, <1>6, <1>8 DEF Added, n, func

LEMMA AddTimerWorks ==
    ASSUME NEW mm, MInv(mm), NEW f \in Fds, QueuedIn(mm.th, "vty_timeout", f) = {}
    PROVE  Added(mm, thread_add_timer(mm, "vty_timeout", f), "vty_timeout", f, NextThread(mm))
<1> DEFINE func == "vty_timeout"
           n == NextThread(mm)
           r == [type |-> "TIMER", func |-> func, arg |-> f]
           G == thread_get(mm, "TIMER", func, f)
           m2 == [G EXCEPT !.timer = @ \cup {n}]
<1>1. r \in Struct  BY DEF Struct
<1>2. thread_add_timer(mm, func, f) = m2  BY DEF thread_add_timer
<1>3. r = [type |-> "TIMER", func |-> func, arg |-> f]
      /\ G = thread_get(mm, "TIMER", func, f) /\ n = NextThread(mm)
      /\ m2 = [G EXCEPT !.timer = @ \cup {n}]
      /\ QueuedIn(mm.th, func, f) = {}
  OBVIOUS
<1> HIDE DEF r, G, n, m2, func
<1>4. /\ n \in Thread /\ Shape(G) /\ Book(G.th, G.alloc, G.unuse)
      /\ G.read = mm.read /\ G.write = mm.write /\ G.ready = mm.ready
      /\ G.twice = mm.twice /\ G.timer = mm.timer
      /\ G.readfd = mm.readfd /\ G.writefd = mm.writefd
      /\ \A ty \in {"READ", "WRITE", "TIMER", "READY"} :
           /\ n \notin Of(mm.th, ty)
           /\ Of(G.th, ty) = IF ty = "TIMER" THEN Of(mm.th, ty) \cup {n} ELSE Of(mm.th, ty)
           /\ Args(G.th, ty) = IF ty = "TIMER" THEN Args(mm.th, ty) \cup {f}
                                               ELSE Args(mm.th, ty)
      /\ Accepting(G.th) = Accepting(mm.th)
      /\ \A fn \in Funcs, g \in Fd :
           QueuedIn(G.th, fn, g) = IF fn = func /\ g = f
                                     THEN {n} ELSE QueuedIn(mm.th, fn, g)
  BY <1>1, <1>3, GetWorks
<1>5. m2.th = G.th /\ m2.alloc = G.alloc /\ m2.unuse = G.unuse /\ Shape(m2)
      /\ m2.timer = mm.timer \cup {n} /\ m2.read = mm.read /\ m2.ready = mm.ready
      /\ m2.twice = mm.twice /\ m2.write = mm.write
      /\ m2.writefd = mm.writefd /\ m2.readfd = mm.readfd
  BY <1>3, <1>4 DEF Shape
<1>6. MInv(m2)  BY <1>4, <1>5, MInvFacts DEF MInv
<1> QED  BY <1>2, <1>4, <1>5, <1>6 DEF Added, n, func

LEMMA UnuseWorks ==
    ASSUME NEW out, Shape(out), Book(out.th, out.alloc, out.unuse),
           NEW S \in SUBSET Thread, \A t \in S : out.th[t].type # "UNUSED",
           Lists(out.read, Of(out.th, "READ") \ S),
           Lists(out.write, Of(out.th, "WRITE") \ S),
           Lists(out.ready, Of(out.th, "READY") \ S),
           out.timer = Of(out.th, "TIMER") \ S,
           out.readfd = ArgsIn(out.th, Of(out.th, "READ") \ S),
           out.writefd = ArgsIn(out.th, Of(out.th, "WRITE") \ S), ~out.twice
    PROVE  Freed(out, thread_add_unuse(out, S), S)
<1> DEFINE m2 == thread_add_unuse(out, S)
           th == out.th
           th2 == Wipe(out.th, S)
           again == out.twice \/ S \cap out.unuse # {}
<1>1. Wiped(th, out.alloc, out.unuse, S)  BY BookFreed
<1>2. m2 = [out EXCEPT !.th = th2, !.unuse = @ \cup S, !.twice = again]
  BY DEF thread_add_unuse, Wipe
<1> HIDE DEF m2, th2, again
<1>3. /\ m2.th = th2 /\ m2.alloc = out.alloc /\ m2.read = out.read /\ m2.write = out.write
      /\ m2.ready = out.ready /\ m2.unuse = out.unuse \cup S
      /\ m2.twice = again /\ m2.timer = out.timer
      /\ m2.readfd = out.readfd /\ m2.writefd = out.writefd /\ Shape(m2)
  BY <1>2 DEF Shape
<1>4. /\ Book(th2, out.alloc, out.unuse \cup S) /\ S \cap out.unuse = {}
      /\ \A ty \in {"READ", "WRITE", "TIMER", "READY"} : Of(th2, ty) = Of(th, ty) \ S
      /\ \A t \in Thread \ S : th2[t] = th[t]
      /\ \A fn \in Funcs, g \in Fd : QueuedIn(th2, fn, g) = QueuedIn(th, fn, g) \ S
  BY <1>1 DEF Wiped, th2
<1>5. /\ Of(th2, "READ") = Of(th, "READ") \ S /\ Of(th2, "WRITE") = Of(th, "WRITE") \ S
      /\ Of(th2, "READY") = Of(th, "READY") \ S /\ Of(th2, "TIMER") = Of(th, "TIMER") \ S
  BY <1>4
<1>6. Args(th2, "READ") = out.readfd /\ Args(th2, "WRITE") = out.writefd
  <2>1. \A t \in (Of(th, "READ") \ S) \cup (Of(th, "WRITE") \ S) : th2[t] = th[t]
    BY <1>4 DEF Of
  <2>2. ArgsIn(th2, Of(th, "READ") \ S) = ArgsIn(th, Of(th, "READ") \ S)
        /\ ArgsIn(th2, Of(th, "WRITE") \ S) = ArgsIn(th, Of(th, "WRITE") \ S)
    BY <2>1 DEF ArgsIn
  <2> QED  BY <1>5, <2>2 DEF Args
<1>7. ~m2.twice  BY <1>3, <1>4 DEF again
<1>8. MInv(m2)  BY <1>3, <1>4, <1>5, <1>6, <1>7 DEF MInv
<1>9. Accepting(th2) = Accepting(th) \ S
  <2>1. \A t \in Thread : t \in Accepting(th2) <=> t \in Accepting(th) /\ t \notin S
    BY <1>4, <1>5 DEF Accepting, Of
  <2> QED  BY <2>1 DEF Accepting
<1> QED  BY <1>3, <1>4, <1>8, <1>9 DEF Freed, m2

(* No two structs of a list wait for the same descriptor.                  *)
LEMMA ArgsDistinct ==
    ASSUME NEW mm, MInv(mm), NEW t \in Thread, NEW u \in Thread,
           mm.th[t].type = mm.th[u].type, mm.th[t].type \in {"READ", "WRITE"},
           mm.th[t].arg = mm.th[u].arg
    PROVE  t = u
<1>1. mm.th[t] \in Struct /\ mm.th[u] \in Struct  BY MInvFacts
<1>2. mm.th[t].func = mm.th[u].func
  <2>1. CASE mm.th[t].type = "WRITE"  BY <1>1, <2>1, StructFacts
  <2>2. CASE mm.th[t].type = "READ"
    <3>1. mm.th[t].func \in {"vty_accept", "vty_read"}
          /\ mm.th[u].func \in {"vty_accept", "vty_read"}
      BY <1>1, <2>2, StructFacts
    <3>2. /\ mm.th[t].func = "vty_accept" <=> mm.th[t].arg = ServFd
          /\ mm.th[u].func = "vty_accept" <=> mm.th[u].arg = ServFd
      BY <1>1, <3>1, StructFacts, Constants DEF SessionFunc
    <3> QED  BY <3>1, <3>2
  <2> QED  BY <2>1, <2>2
<1> QED  BY <1>2, MInvFacts DEF Book

LEMMA CancelWorks ==
    ASSUME NEW mm, MInv(mm), NEW S \in SUBSET Thread,
           \A t \in S : mm.th[t].type # "UNUSED"
    PROVE  Freed(mm, thread_cancel(mm, S), S)
<1> DEFINE th == mm.th
           In(type) == {t \in S : mm.th[t].type = type}
           out == [mm EXCEPT !.read = Kept(@, Thread \ In("READ")),
                             !.readfd = @ \ ArgsIn(mm.th, In("READ")),
                             !.write = Kept(@, Thread \ In("WRITE")),
                             !.writefd = @ \ ArgsIn(mm.th, In("WRITE")),
                             !.timer = @ \ In("TIMER"),
                             !.ready = Kept(@, Thread \ In("READY"))]
<1>1. thread_cancel(mm, S) = thread_add_unuse(out, S)  BY DEF thread_cancel, ArgsIn
<1>2. /\ Shape(mm) /\ Book(mm.th, mm.alloc, mm.unuse)
      /\ Lists(mm.read, Of(mm.th, "READ"))
      /\ Lists(mm.write, Of(mm.th, "WRITE"))
      /\ Lists(mm.ready, Of(mm.th, "READY"))
      /\ mm.timer = Of(mm.th, "TIMER")
      /\ mm.readfd = Args(mm.th, "READ") /\ mm.writefd = Args(mm.th, "WRITE")
      /\ ~mm.twice
  BY MInvFacts
<1> DEFINE R == In("READ")
           W == In("WRITE")
           T == In("TIMER")
           Y == In("READY")
<1>3. Of(th, "READ") \cap (Thread \ R) = Of(th, "READ") \ S
      /\ Of(th, "WRITE") \cap (Thread \ W) = Of(th, "WRITE") \ S
      /\ Of(th, "READY") \cap (Thread \ Y) = Of(th, "READY") \ S
      /\ Of(th, "TIMER") \ T = Of(th, "TIMER") \ S
  BY DEF Of
<1>4. ASSUME NEW type \in {"READ", "WRITE"}
      PROVE  ArgsIn(th, Of(th, type)) \ ArgsIn(th, In(type)) = ArgsIn(th, Of(th, type) \ S)
  <2>1. ASSUME NEW t \in Of(th, type) \ S  PROVE th[t].arg \notin ArgsIn(th, In(type))
    <3> SUFFICES ASSUME NEW v \in In(type), th[t].arg = th[v].arg  PROVE FALSE
      BY DEF ArgsIn
    <3>1. t = v  BY ArgsDistinct DEF Of
    <3> QED  BY <3>1
  <2>2. ASSUME NEW t \in Of(th, type), th[t].arg \notin ArgsIn(th, In(type))
        PROVE  t \in Of(th, type) \ S
    BY <2>2 DEF ArgsIn, Of
  <2> HIDE DEF In, th
  <2> QED  BY <2>1, <2>2 DEF ArgsIn
<1>5. ArgsIn(th, Of(th, "READ")) \ ArgsIn(th, R) = ArgsIn(th, Of(th, "READ") \ S)
      /\ ArgsIn(th, Of(th, "WRITE")) \ ArgsIn(th, W) = ArgsIn(th, Of(th, "WRITE") \ S)
  BY <1>4
<1>6. out = [mm EXCEPT !.read = Kept(@, Thread \ R), !.readfd = @ \ ArgsIn(th, R),
                       !.write = Kept(@, Thread \ W), !.writefd = @ \ ArgsIn(th, W),
                       !.timer = @ \ T, !.ready = Kept(@, Thread \ Y)]
  OBVIOUS
<1> HIDE DEF R, W, T, Y, In, out
<1>7. /\ out.th = th /\ out.alloc = mm.alloc /\ out.unuse = mm.unuse
      /\ out.twice = mm.twice /\ Shape(out)
      /\ out.read = Kept(mm.read, Thread \ R) /\ out.readfd = mm.readfd \ ArgsIn(th, R)
      /\ out.write = Kept(mm.write, Thread \ W) /\ out.writefd = mm.writefd \ ArgsIn(th, W)
      /\ out.timer = mm.timer \ T /\ out.ready = Kept(mm.ready, Thread \ Y)
  BY <1>2, <1>6 DEF Shape
<1>8. /\ Lists(out.read, Of(th, "READ") \ S)
      /\ Lists(out.write, Of(th, "WRITE") \ S)
      /\ Lists(out.ready, Of(th, "READY") \ S)
  BY <1>2, <1>3, <1>7, KeptLists
<1>9. /\ out.timer = Of(th, "TIMER") \ S
      /\ out.readfd = ArgsIn(th, Of(th, "READ") \ S)
      /\ out.writefd = ArgsIn(th, Of(th, "WRITE") \ S)
  BY <1>2, <1>3, <1>5, <1>7 DEF Args
<1>10. Freed(out, thread_add_unuse(out, S), S)
  BY <1>2, <1>7, <1>8, <1>9, UnuseWorks
<1> QED  BY <1>1, <1>7, <1>10 DEF Freed

LEMMA RunReadyWorks ==
    ASSUME NEW mm, MInv(mm), mm.ready # <<>>
    PROVE  /\ Head(mm.ready) \in Of(mm.th, "READY")
           /\ Freed(mm, RunReady(mm), {Head(mm.ready)})
<1> DEFINE t == Head(mm.ready)
           th == mm.th
           rest == Tail(mm.ready)
           out == [mm EXCEPT !.ready = rest]
<1>1. RunReady(mm) = thread_add_unuse(out, {t})  BY DEF RunReady
<1>2. /\ Shape(mm) /\ Book(mm.th, mm.alloc, mm.unuse)
      /\ Lists(mm.read, Of(mm.th, "READ"))
      /\ Lists(mm.write, Of(mm.th, "WRITE"))
      /\ Lists(mm.ready, Of(mm.th, "READY"))
      /\ mm.timer = Of(mm.th, "TIMER")
      /\ mm.readfd = Args(mm.th, "READ") /\ mm.writefd = Args(mm.th, "WRITE")
      /\ ~mm.twice
  BY MInvFacts
<1>3. t \in Of(th, "READY") /\ Lists(Tail(mm.ready), Of(th, "READY") \ {t})
  BY <1>2, ListsTail
<1>4. /\ out.th = th /\ out.alloc = mm.alloc /\ out.unuse = mm.unuse
      /\ out.twice = mm.twice /\ Shape(out) /\ out.ready = Tail(mm.ready)
      /\ out.read = mm.read /\ out.readfd = mm.readfd
      /\ out.write = mm.write /\ out.writefd = mm.writefd /\ out.timer = mm.timer
  <2>1. out = [mm EXCEPT !.ready = rest]  OBVIOUS
  <2> HIDE DEF out, rest, t
  <2>2. /\ out.th = th /\ out.alloc = mm.alloc /\ out.unuse = mm.unuse
        /\ out.twice = mm.twice /\ Shape(out) /\ out.ready = rest
        /\ out.read = mm.read /\ out.readfd = mm.readfd
        /\ out.write = mm.write /\ out.writefd = mm.writefd /\ out.timer = mm.timer
    BY <1>2, <2>1 DEF Shape
  <2> QED  BY <2>2 DEF rest
<1> HIDE DEF t, out
<1>5. t \in Thread /\ th[t].type = "READY"  BY <1>3 DEF Of
<1>6. Of(th, "READ") \ {t} = Of(th, "READ") /\ Of(th, "WRITE") \ {t} = Of(th, "WRITE")
      /\ Of(th, "TIMER") \ {t} = Of(th, "TIMER")
  BY <1>5 DEF Of
<1>7. Freed(out, thread_add_unuse(out, {t}), {t})
  <2>1. {t} \in SUBSET Thread /\ \A v \in {t} : out.th[v].type # "UNUSED"
    BY <1>4, <1>5
  <2> QED  BY <1>2, <1>3, <1>4, <1>6, <2>1, UnuseWorks DEF Args
<1> QED  BY <1>1, <1>3, <1>4, <1>7 DEF Freed, t

LEMMA RunTimerWorks ==
    ASSUME NEW mm, MInv(mm), NEW t \in mm.timer
    PROVE  t \in Of(mm.th, "TIMER") /\ Freed(mm, RunTimer(mm, t), {t})
<1> DEFINE th == mm.th
           out == [mm EXCEPT !.timer = @ \ {t}]
<1>1. RunTimer(mm, t) = thread_add_unuse(out, {t})  BY DEF RunTimer
<1>2. /\ Shape(mm) /\ Book(mm.th, mm.alloc, mm.unuse)
      /\ Lists(mm.read, Of(mm.th, "READ"))
      /\ Lists(mm.write, Of(mm.th, "WRITE"))
      /\ Lists(mm.ready, Of(mm.th, "READY"))
      /\ mm.timer = Of(mm.th, "TIMER")
      /\ mm.readfd = Args(mm.th, "READ") /\ mm.writefd = Args(mm.th, "WRITE")
      /\ ~mm.twice
  BY MInvFacts
<1>3. t \in Of(th, "TIMER")  BY <1>2
<1>4. /\ out.th = th /\ out.alloc = mm.alloc /\ out.unuse = mm.unuse
      /\ out.twice = mm.twice /\ Shape(out) /\ out.ready = mm.ready
      /\ out.read = mm.read /\ out.readfd = mm.readfd
      /\ out.write = mm.write /\ out.writefd = mm.writefd /\ out.timer = mm.timer \ {t}
  BY <1>2 DEF Shape
<1> HIDE DEF out
<1>5. t \in Thread /\ th[t].type = "TIMER"  BY <1>3 DEF Of
<1>6. Of(th, "READ") \ {t} = Of(th, "READ") /\ Of(th, "WRITE") \ {t} = Of(th, "WRITE")
      /\ Of(th, "READY") \ {t} = Of(th, "READY")
  BY <1>5 DEF Of
<1>7. Freed(out, thread_add_unuse(out, {t}), {t})
  <2>1. {t} \in SUBSET Thread /\ \A v \in {t} : out.th[v].type # "UNUSED"
    BY <1>4, <1>5
  <2> QED  BY <1>2, <1>4, <1>6, <2>1, UnuseWorks DEF Args
<1> QED  BY <1>1, <1>3, <1>4, <1>7 DEF Freed

(* After a select: the same is queued, and the accept socket's struct is   *)
(* ready only if it was, or if the socket is in rs.                        *)
Selected(mm, m2, rs) ==
    /\ MInv(m2)
    /\ \A fn \in Funcs, g \in Fd : QueuedIn(m2.th, fn, g) = QueuedIn(mm.th, fn, g)
    /\ Accepting(m2.th) # {} => Accepting(mm.th) # {} \/ ServFd \in rs

LEMMA ProcessWorks ==
    ASSUME NEW mm, MInv(mm), NEW rs, NEW ws
    PROVE  Selected(mm, thread_process_fd(mm, rs, ws), rs)
<1> DEFINE th == mm.th
           OnRead == {t \in Thread : mm.th[t].arg \in rs}
           OnWrite == {t \in Thread : mm.th[t].arg \in ws}
           moved == Kept(mm.read, OnRead) \o Kept(mm.write, OnWrite)
           S == ToSet(moved)
           th2 == MakeReady(mm.th, ToSet(moved))
           rd == Kept(mm.read, Thread \ OnRead)
           wr == Kept(mm.write, Thread \ OnWrite)
           m2 == thread_process_fd(mm, rs, ws)
<1>1. /\ Shape(mm) /\ Book(mm.th, mm.alloc, mm.unuse)
      /\ Lists(mm.read, Of(mm.th, "READ"))
      /\ Lists(mm.write, Of(mm.th, "WRITE"))
      /\ Lists(mm.ready, Of(mm.th, "READY"))
      /\ mm.timer = Of(mm.th, "TIMER")
      /\ mm.readfd = Args(mm.th, "READ") /\ mm.writefd = Args(mm.th, "WRITE")
      /\ ~mm.twice
  BY MInvFacts
<1>2. m2 = [mm EXCEPT !.read = rd, !.write = wr, !.readfd = @ \ rs, !.writefd = @ \ ws,
                      !.ready = @ \o moved, !.th = th2]
  BY DEF thread_process_fd, MakeReady
<1>3. /\ \A t \in Thread : t \in OnRead <=> th[t].arg \in rs
      /\ \A t \in Thread : t \in OnWrite <=> th[t].arg \in ws
  OBVIOUS
<1>4. /\ Lists(Kept(mm.read, OnRead), Of(th, "READ") \cap OnRead)
      /\ Lists(Kept(mm.write, OnWrite), Of(th, "WRITE") \cap OnWrite)
      /\ Lists(rd, Of(th, "READ") \cap (Thread \ OnRead))
      /\ Lists(wr, Of(th, "WRITE") \cap (Thread \ OnWrite))
  <2> HIDE DEF OnRead, OnWrite
  <2> QED  BY <1>1, KeptLists
<1>5. Of(th, "READ") \cap Of(th, "WRITE") = {} /\ Of(th, "READ") \cap Of(th, "READY") = {}
      /\ Of(th, "WRITE") \cap Of(th, "READY") = {}
  BY DEF Of
<1>6. Lists(moved, (Of(th, "READ") \cap OnRead) \cup (Of(th, "WRITE") \cap OnWrite))
  <2> HIDE DEF OnRead, OnWrite
  <2>1. (Of(th, "READ") \cap OnRead) \cap (Of(th, "WRITE") \cap OnWrite) = {}  BY <1>5
  <2> QED  BY <1>4, <2>1, ListsConcat
<1> HIDE DEF OnRead, OnWrite
<1>7. S = (Of(th, "READ") \cap OnRead) \cup (Of(th, "WRITE") \cap OnWrite)
  BY <1>6 DEF Lists
<1> HIDE DEF moved, rd, wr, m2, th2, S
<1>8. S \in SUBSET (Of(th, "READ") \cup Of(th, "WRITE"))  BY <1>7
<1>9. Moved(th, mm.alloc, mm.unuse, S)  BY <1>1, <1>8, BookMoved
<1>10. /\ Book(th2, mm.alloc, mm.unuse)
       /\ Of(th2, "READ") = Of(th, "READ") \ S
       /\ Of(th2, "WRITE") = Of(th, "WRITE") \ S
       /\ Of(th2, "READY") = Of(th, "READY") \cup S
       /\ Of(th2, "TIMER") = Of(th, "TIMER")
       /\ \A t \in Thread : th2[t].func = th[t].func /\ th2[t].arg = th[t].arg
       /\ \A fn \in Funcs, g \in Fd : QueuedIn(th2, fn, g) = QueuedIn(th, fn, g)
  BY <1>9 DEF Moved, th2, S
<1>11. /\ m2.th = th2 /\ m2.alloc = mm.alloc /\ m2.unuse = mm.unuse
       /\ m2.twice = mm.twice /\ Shape(m2) /\ m2.ready = mm.ready \o moved
       /\ m2.read = rd /\ m2.readfd = mm.readfd \ rs
       /\ m2.write = wr /\ m2.writefd = mm.writefd \ ws /\ m2.timer = mm.timer
  <2> DEFINE r2 == mm.ready \o moved
  <2>1. m2 = [mm EXCEPT !.read = rd, !.write = wr, !.readfd = @ \ rs, !.writefd = @ \ ws,
                        !.ready = r2, !.th = th2]
    BY <1>2
  <2> HIDE DEF r2
  <2>2. /\ m2.th = th2 /\ m2.alloc = mm.alloc /\ m2.unuse = mm.unuse
        /\ m2.twice = mm.twice /\ Shape(m2) /\ m2.ready = r2
        /\ m2.read = rd /\ m2.readfd = mm.readfd \ rs
        /\ m2.write = wr /\ m2.writefd = mm.writefd \ ws /\ m2.timer = mm.timer
    BY <1>1, <2>1 DEF Shape
  <2> QED  BY <2>2 DEF r2
<1>12. Of(th, "READ") \cap (Thread \ OnRead) = Of(th, "READ") \ S
       /\ Of(th, "WRITE") \cap (Thread \ OnWrite) = Of(th, "WRITE") \ S
  BY <1>5, <1>7 DEF Of
<1>13. Lists(m2.read, Of(th2, "READ")) /\ Lists(m2.write, Of(th2, "WRITE"))
  BY <1>4, <1>10, <1>11, <1>12
<1>14. Lists(m2.ready, Of(th2, "READY"))
  <2>1. Lists(moved, S)  BY <1>6, <1>7
  <2>2. Of(th, "READY") \cap S = {}  BY <1>5, <1>8
  <2> QED  BY <1>1, <1>10, <1>11, <2>1, <2>2, ListsConcat
<1>15. Args(th2, "READ") = mm.readfd \ rs
  <2>1. Args(th2, "READ") = {th[t].arg : t \in Of(th, "READ") \ S}
    BY <1>10 DEF Args, ArgsIn, Of
  <2>2. \A t \in Of(th, "READ") : t \in S <=> th[t].arg \in rs
    BY <1>3, <1>5, <1>7 DEF Of
  <2>3. mm.readfd = {th[t].arg : t \in Of(th, "READ")}  BY <1>1 DEF Args, ArgsIn
  <2> HIDE DEF th
  <2> QED  BY <2>1, <2>2, <2>3
<1>16. Args(th2, "WRITE") = mm.writefd \ ws
  <2>1. Args(th2, "WRITE") = {th[t].arg : t \in Of(th, "WRITE") \ S}
    BY <1>10 DEF Args, ArgsIn, Of
  <2>2. \A t \in Of(th, "WRITE") : t \in S <=> th[t].arg \in ws
    BY <1>3, <1>5, <1>7 DEF Of
  <2>3. mm.writefd = {th[t].arg : t \in Of(th, "WRITE")}  BY <1>1 DEF Args, ArgsIn
  <2> HIDE DEF th
  <2> QED  BY <2>1, <2>2, <2>3
<1>17. MInv(m2)  BY <1>1, <1>10, <1>11, <1>13, <1>14, <1>15, <1>16 DEF MInv
<1>18. Accepting(th2) # {} => Accepting(th) # {} \/ ServFd \in rs
  <2> SUFFICES ASSUME NEW t \in Accepting(th2)
               PROVE  t \in Accepting(th) \/ ServFd \in rs
    OBVIOUS
  <2>1. t \in Thread /\ t \in Of(th2, "READY") /\ th2[t].func = "vty_accept"
    BY DEF Accepting, Of
  <2>2. th[t].func = "vty_accept" /\ th[t] \in Struct  BY <1>10, <2>1, MInvFacts
  <2>3. CASE t \in Of(th, "READY")  BY <2>1, <2>2, <2>3 DEF Accepting, Of
  <2>4. CASE t \in S
    <3>1. th[t].arg = ServFd /\ th[t].type # "WRITE"  BY <2>2, StructFacts
    <3>2. t \in OnRead  BY <1>7, <2>4, <3>1 DEF Of
    <3> QED  BY <1>3, <2>1, <3>1, <3>2
  <2> QED  BY <1>10, <2>1, <2>3, <2>4
<1> QED  BY <1>10, <1>11, <1>17, <1>18 DEF Selected, m2

LEMMA FetchWorks ==
    ASSUME NEW mm, MInv(mm), NEW Rs, NEW Ws, NEW m2 \in Fetchable(mm, Rs, Ws)
    PROVE  Selected(mm, m2, Rs) /\ m2.ready # <<>>
<1>1. CASE mm.ready # <<>>
  <2>1. m2 = mm  BY <1>1 DEF Fetchable
  <2> QED  BY <1>1, <2>1 DEF Selected
<1>2. CASE mm.ready = <<>>
  <2>1. m2.ready # <<>>
        /\ \E ws \in SUBSET mm.writefd : m2 = thread_process_fd(mm, Rs \cap mm.readfd, ws)
    BY <1>2 DEF Fetchable
  <2>2. Selected(mm, m2, Rs \cap mm.readfd)  BY <2>1, ProcessWorks
  <2> QED  BY <2>1, <2>2 DEF Selected
<1> QED  BY <1>1, <1>2

LEMMA DisjointUnion ==
    ASSUME NEW S, NEW T, IsFiniteSet(S), IsFiniteSet(T), S \cap T = {}
    PROVE  /\ IsFiniteSet(S \cup T)
           /\ Cardinality(S) \in Nat /\ Cardinality(T) \in Nat
           /\ Cardinality(S \cup T) = Cardinality(S) + Cardinality(T)
<1>1. Cardinality(S) \in Nat /\ Cardinality(T) \in Nat /\ Cardinality({}) = 0
  BY FS_CardinalityType, FS_EmptySet
<1>2. IsFiniteSet(S \cup T)
      /\ Cardinality(S \cup T) = Cardinality(S) + Cardinality(T) - Cardinality({})
  BY FS_Union
<1> QED  BY <1>1, <1>2

LEMMA FiveSets ==
    ASSUME NEW A, NEW B, NEW C, NEW D, NEW E, NEW k \in Nat,
           A \cup B \cup C \cup D \cup E = 1..k,
           A \cap B = {}, A \cap C = {}, A \cap D = {}, A \cap E = {}, B \cap C = {},
           B \cap D = {}, B \cap E = {}, C \cap D = {}, C \cap E = {}, D \cap E = {}
    PROVE  Cardinality(A) + Cardinality(B) + Cardinality(C) + Cardinality(D)
             + Cardinality(E) = k
<1>1. IsFiniteSet(1..k) /\ Cardinality(1..k) = k  BY FS_Interval
<1>2. IsFiniteSet(A) /\ IsFiniteSet(B) /\ IsFiniteSet(C) /\ IsFiniteSet(D) /\ IsFiniteSet(E)
  <2>1. A \in SUBSET (1..k) /\ B \in SUBSET (1..k) /\ C \in SUBSET (1..k)
        /\ D \in SUBSET (1..k) /\ E \in SUBSET (1..k)
    OBVIOUS
  <2> QED  BY <1>1, <2>1, FS_Subset
<1>3. /\ Cardinality(A) \in Nat /\ Cardinality(B) \in Nat /\ Cardinality(C) \in Nat
      /\ Cardinality(D) \in Nat /\ Cardinality(E) \in Nat
  BY <1>2, FS_CardinalityType
<1> DEFINE AB == A \cup B
           ABC == AB \cup C
           ABCD == ABC \cup D
<1>5. IsFiniteSet(AB) /\ Cardinality(AB) = Cardinality(A) + Cardinality(B)
  BY <1>2, DisjointUnion
<1>6. AB \cap C = {}  OBVIOUS
<1>7. ABC \cap D = {}  OBVIOUS
<1>8. ABCD \cap E = {} /\ ABCD \cup E = 1..k  OBVIOUS
<1> HIDE DEF AB
<1>9. IsFiniteSet(ABC) /\ Cardinality(ABC) = Cardinality(AB) + Cardinality(C)
  BY <1>2, <1>5, <1>6, DisjointUnion
<1> HIDE DEF ABC
<1>10. IsFiniteSet(ABCD) /\ Cardinality(ABCD) = Cardinality(ABC) + Cardinality(D)
  BY <1>2, <1>7, <1>9, DisjointUnion
<1> HIDE DEF ABCD
<1>11. Cardinality(1..k) = Cardinality(ABCD) + Cardinality(E)
  BY <1>2, <1>8, <1>10, DisjointUnion
<1> QED  BY <1>1, <1>3, <1>5, <1>9, <1>10, <1>11

LEMMA ArgsCount ==
    ASSUME NEW mm, MInv(mm), NEW type \in {"READ", "WRITE"}
    PROVE  Cardinality(Args(mm.th, type)) = Cardinality(Of(mm.th, type))
<1> DEFINE T == Of(mm.th, type)
           A == Args(mm.th, type)
           g == [t \in T |-> mm.th[t].arg]
<1>1. A = {g[t] : t \in T}  BY DEF Args, ArgsIn
<1>2. g \in Surjection(T, A)
  <2>1. g \in [T -> A]  BY DEF Args, ArgsIn
  <2> HIDE DEF T, A, g
  <2> QED  BY <1>1, <2>1 DEF Surjection
<1>3. ASSUME NEW t \in T, NEW u \in T, g[t] = g[u]  PROVE t = u
  <2>1. t \in Thread /\ u \in Thread /\ mm.th[t].type = type /\ mm.th[u].type = type
    BY DEF Of
  <2>2. mm.th[t].arg = mm.th[u].arg  BY <1>3
  <2> QED  BY <2>1, <2>2, ArgsDistinct
<1>4. g \in Injection(T, A)
  <2> HIDE DEF g, T, A
  <2> QED  BY <1>2, <1>3 DEF Surjection, Injection, IsInjective
<1>5. IsFiniteSet(T)
  <2>1. IsFiniteSet(Thread)  BY FS_Interval, Constants
  <2>2. T \in SUBSET Thread  BY DEF Of
  <2> QED  BY <2>1, <2>2, FS_Subset
<1> HIDE DEF g, T, A
<1>6. Cardinality(A) = Cardinality(T)  BY <1>2, <1>4, <1>5, FS_Surjection
<1> QED  BY <1>6 DEF A, T

(* The scheduler's asserts hold between its calls.                         *)
LEMMA MInvExact ==
    ASSUME NEW mm, MInv(mm)
    PROVE  ListsExact(mm)
<1> DEFINE th == mm.th
           R == Of(th, "READ")
           W == Of(th, "WRITE")
           Y == Of(th, "READY")
           T == Of(th, "TIMER")
           U == mm.unuse
<1>1. /\ Lists(mm.read, R) /\ Lists(mm.write, W) /\ Lists(mm.ready, Y)
      /\ mm.timer = T /\ mm.readfd = Args(th, "READ") /\ mm.writefd = Args(th, "WRITE")
      /\ ~mm.twice /\ th \in [Thread -> Struct] /\ mm.alloc \in 0..MaxKeys
      /\ U \subseteq 1..mm.alloc
      /\ Of(th, "UNUSED") = U \cup ((mm.alloc + 1)..MaxThreads)
  BY MInvFacts DEF Book
<1>2. /\ mm.alloc \in Nat /\ mm.alloc <= MaxThreads /\ \A t \in 1..mm.alloc : t \in Thread
      /\ \A t \in Thread : t \in 1..mm.alloc <=> t \notin (mm.alloc + 1)..MaxThreads
  BY <1>1, Constants
<1>3. U = Of(th, "UNUSED") \cap (1..mm.alloc)  BY <1>1, <1>2 DEF Of
<1>4. \A t \in Thread : th[t].type \in {"UNUSED", "READ", "WRITE", "TIMER", "READY"}
  BY <1>1, StructFacts
<1>5. R \cup W \cup Y \cup T \cup U = 1..mm.alloc
  <2>1. ASSUME NEW t \in R \cup W \cup Y \cup T  PROVE t \in 1..mm.alloc
    <3>1. t \in Thread /\ t \notin Of(th, "UNUSED")  BY DEF Of
    <3> QED  BY <1>1, <1>2, <3>1
  <2>2. ASSUME NEW t \in 1..mm.alloc  PROVE t \in R \cup W \cup Y \cup T \cup U
    BY <1>2, <1>3, <1>4 DEF Of
  <2> HIDE DEF R, W, Y, T, U
  <2>3. U \subseteq 1..mm.alloc  BY <1>1
  <2> QED  BY <2>1, <2>2, <2>3
<1>6. /\ R \cap W = {} /\ R \cap Y = {} /\ R \cap T = {} /\ R \cap U = {} /\ W \cap Y = {}
      /\ W \cap T = {} /\ W \cap U = {} /\ Y \cap T = {} /\ Y \cap U = {} /\ T \cap U = {}
  BY <1>3 DEF Of
<1>7. \A t \in U : th[t].type = "UNUSED"  BY <1>3 DEF Of
<1>8. /\ \A t \in R : th[t].type = "READ"
      /\ \A t \in W : th[t].type = "WRITE"
      /\ \A t \in Y : th[t].type = "READY"
      /\ \A t \in T : th[t].type = "TIMER"
  BY DEF Of
<1>9. Args(th, "READ") = {th[mm.read[i]].arg : i \in 1..Len(mm.read)}
      /\ Args(th, "WRITE") = {th[mm.write[i]].arg : i \in 1..Len(mm.write)}
  <2>1. R = {mm.read[i] : i \in 1..Len(mm.read)} /\ W = {mm.write[i] : i \in 1..Len(mm.write)}
    <3>1. /\ R = ToSet(mm.read) /\ DOMAIN mm.read = 1..Len(mm.read)
          /\ W = ToSet(mm.write) /\ DOMAIN mm.write = 1..Len(mm.write)
      BY <1>1, ListsFacts DEF Lists
    <3> HIDE DEF R, W
    <3> QED  BY <3>1 DEF ToSet
  <2> HIDE DEF th, R, W
  <2>2. {th[t].arg : t \in R} = {th[mm.read[i]].arg : i \in 1..Len(mm.read)}
        /\ {th[t].arg : t \in W} = {th[mm.write[i]].arg : i \in 1..Len(mm.write)}
    BY <2>1
  <2> QED  BY <2>2 DEF Args, ArgsIn, R, W
<1>10. Cardinality(Args(th, "READ")) = Cardinality(R)
       /\ Cardinality(Args(th, "WRITE")) = Cardinality(W)
  BY ArgsCount
<1> HIDE DEF R, W, Y, T, U, th
<1>11. Len(mm.read) = Cardinality(R) /\ Len(mm.write) = Cardinality(W)
       /\ Len(mm.ready) = Cardinality(Y)
       /\ ToSet(mm.read) = R /\ ToSet(mm.write) = W /\ ToSet(mm.ready) = Y
  BY <1>1, ListsLen DEF Lists
<1>12. Cardinality(R) + Cardinality(W) + Cardinality(Y) + Cardinality(T)
         + Cardinality(U) = mm.alloc
  BY <1>2, <1>5, <1>6, FiveSets
<1> DEFINE lists == <<ToSet(mm.read), ToSet(mm.write), ToSet(mm.ready), mm.timer, mm.unuse>>
           types == <<"READ", "WRITE", "READY", "TIMER", "UNUSED">>
           Types(S) == {mm.th[t].type : t \in S}
<1>13. UNION ToSet(lists) = 1..mm.alloc
  <2> DEFINE five == <<R, W, Y, T, U>>
  <2>1. lists = five  BY <1>1, <1>11 DEF U
  <2>2. DOMAIN five = 1..5 /\ five[1] = R /\ five[2] = W /\ five[3] = Y /\ five[4] = T
        /\ five[5] = U
    OBVIOUS
  <2>3. \A i \in 1..5 : i = 1 \/ i = 2 \/ i = 3 \/ i = 4 \/ i = 5  OBVIOUS
  <2> HIDE DEF five
  <2>4. ToSet(five) = {R, W, Y, T, U}  BY <2>2, <2>3 DEF ToSet
  <2>5. UNION {R, W, Y, T, U} = R \cup W \cup Y \cup T \cup U  OBVIOUS
  <2> HIDE DEF lists
  <2> QED  BY <1>5, <2>1, <2>4, <2>5
<1>14. \A i \in 1..5 : Types(lists[i]) \subseteq {types[i]}
  <2>1. Types(R) \subseteq {"READ"} /\ Types(W) \subseteq {"WRITE"}
        /\ Types(Y) \subseteq {"READY"} /\ Types(T) \subseteq {"TIMER"}
        /\ Types(U) \subseteq {"UNUSED"}
    BY <1>7, <1>8 DEF th
  <2>2. lists[1] = R /\ lists[2] = W /\ lists[3] = Y /\ lists[4] = T /\ lists[5] = U
    BY <1>1, <1>11 DEF U
  <2>3. types[1] = "READ" /\ types[2] = "WRITE" /\ types[3] = "READY" /\ types[4] = "TIMER"
        /\ types[5] = "UNUSED"
    OBVIOUS
  <2>4. \A i \in 1..5 : i = 1 \/ i = 2 \/ i = 3 \/ i = 4 \/ i = 5  OBVIOUS
  <2> HIDE DEF lists, types, Types
  <2> QED  BY <2>1, <2>2, <2>3, <2>4
<1>15. Len(mm.read) + Len(mm.write) + Len(mm.ready) + Cardinality(mm.timer)
         + Cardinality(mm.unuse) = mm.alloc
  BY <1>1, <1>11, <1>12 DEF U
<1> DEFINE ArgsOf(s) == {mm.th[s[i]].arg : i \in 1..Len(s)}
<1>16. mm.readfd = ArgsOf(mm.read) /\ Cardinality(mm.readfd) = Len(mm.read)
       /\ mm.writefd = ArgsOf(mm.write) /\ Cardinality(mm.writefd) = Len(mm.write)
  BY <1>1, <1>9, <1>10, <1>11 DEF th
<1>17. ~mm.twice  BY <1>1
<1> HIDE DEF lists, types, Types, ArgsOf
<1> QED  BY <1>13, <1>14, <1>15, <1>16, <1>17 DEF ListsExact, lists, types, Types, ArgsOf

-----------------------------------------------------------------------------
(* What a handler works on: a session, and the structs queued for it.      *)
Work == [node : {"VIEW", "ENABLE", "CONFIG", "VTY", "AUTH"},
         status : {"NORMAL", "MORE", "MORELINE", "CLOSE"}, nopage : BOOLEAN,
         v_timeout : BOOLEAN, config : BOOLEAN, fail : 0..3, obuf : 0..Screens,
         t_read : Thread \cup {NULL}, t_write : Thread \cup {NULL},
         t_timeout : Thread \cup {NULL}]

(* What a pointer names, if it is not NULL.                                *)
Named(p) == {p} \ {NULL}

(* A session's pointers name what is queued for it.                        *)
Names(th, f, v) ==
    /\ QueuedIn(th, "vty_read", f) = Named(v.t_read)
    /\ QueuedIn(th, "vty_flush", f) = Named(v.t_write)
    /\ QueuedIn(th, "vty_timeout", f) = Named(v.t_timeout)

(* Its time-out runs as its exec-timeout says.                             *)
Timed(v) == v.v_timeout <=> v.t_timeout # NULL

Whole(x) == x = [m |-> x.m, v |-> x.v, lock |-> x.lock]

XInv(x, f) ==
    /\ Whole(x)
    /\ MInv(x.m)
    /\ x.v \in Work
    /\ x.lock \in BOOLEAN
    /\ Names(x.m.th, f, x.v)

(* Only what is queued as func for f has changed, and P is queued now.     *)
Changed(mm, m2, func, f, P) ==
    /\ MInv(m2)
    /\ Accepting(m2.th) \subseteq Accepting(mm.th)
    /\ \A fn \in Funcs, g \in Fd :
         QueuedIn(m2.th, fn, g) = IF fn = func /\ g = f THEN P
                                                        ELSE QueuedIn(mm.th, fn, g)

(* Only what is queued for session f has changed.                          *)
Apart(mm, m2, f) ==
    /\ Accepting(m2.th) \subseteq Accepting(mm.th)
    /\ \A fn \in Funcs, g \in Fd \ {f} : QueuedIn(m2.th, fn, g) = QueuedIn(mm.th, fn, g)

SameSession(v, w) ==
    /\ w.node = v.node /\ w.status = v.status /\ w.nopage = v.nopage
    /\ w.v_timeout = v.v_timeout /\ w.config = v.config /\ w.fail = v.fail
    /\ w.obuf = v.obuf

(* A step of handler f that changes the scheduler and the pointers only.   *)
Step(x, y, f) ==
    /\ XInv(y, f) /\ Apart(x.m, y.m, f)
    /\ SameSession(x.v, y.v) /\ y.lock = x.lock

IsTriple(y, a, b, c) == y = [m |-> a, v |-> b, lock |-> c]

LEMMA Triple ==
    ASSUME NEW a, NEW b, NEW c, NEW y, IsTriple(y, a, b, c)
    PROVE  /\ y.m = a /\ y.v = b /\ y.lock = c
           /\ Whole(y)
BY DEF IsTriple, Whole

LEMMA ApartTrans ==
    ASSUME NEW a, NEW b, NEW c, NEW f, Apart(a, b, f), Apart(b, c, f)
    PROVE  Apart(a, c, f)
BY DEF Apart

LEMMA ApartSelf == ASSUME NEW a, NEW f PROVE Apart(a, a, f)
BY DEF Apart

LEMMA StepTrans ==
    ASSUME NEW x, NEW y, NEW z, NEW f, Step(x, y, f), Step(y, z, f)
    PROVE  Step(x, z, f)
<1>1. Apart(x.m, z.m, f)  BY ApartTrans DEF Step
<1> QED  BY <1>1 DEF Step, SameSession

LEMMA StepSelf ==
    ASSUME NEW x, NEW f, XInv(x, f) PROVE Step(x, x, f)
BY ApartSelf DEF Step, SameSession

LEMMA FuncFacts ==
    /\ Funcs = {"vty_read", "vty_flush", "vty_timeout", "vty_accept"}
    /\ SessionFunc = {"vty_read", "vty_flush", "vty_timeout"}
    /\ SessionFunc \subseteq Funcs
    /\ Fds \subseteq Fd /\ ServFd \in Fd
BY DEF Funcs, SessionFunc, Fd

LEMMA ChangedApart ==
    ASSUME NEW mm, NEW m2, NEW func, NEW f, NEW P, Changed(mm, m2, func, f, P)
    PROVE  Apart(mm, m2, f)
BY DEF Changed, Apart

LEMMA AddedChanged ==
    ASSUME NEW mm, NEW m2, NEW func, NEW f, NEW p, Added(mm, m2, func, f, p)
    PROVE  Changed(mm, m2, func, f, Named(p)) /\ p \in Thread
<1>1. p \in Thread /\ Named(p) = {p}  BY Constants DEF Added, Named
<1> QED  BY <1>1 DEF Added, Changed

(* A struct is queued for one purpose, and is then in use.                 *)
LEMMA QueuedApart ==
    ASSUME NEW mm, MInv(mm), NEW fn \in Funcs, NEW g, NEW p \in QueuedIn(mm.th, fn, g)
    PROVE  /\ p \in Thread /\ mm.th[p].type # "UNUSED"
           /\ \A hn \in Funcs, h \in Fd :
                ~(hn = fn /\ h = g) => p \notin QueuedIn(mm.th, hn, h)
<1>1. p \in Thread /\ mm.th[p].func = fn /\ mm.th[p].arg = g  BY DEF QueuedIn
<1>2. mm.th[p] \in Struct /\ fn # "none"  BY <1>1, MInvFacts, FuncFacts
<1>3. mm.th[p].type # "UNUSED"  BY <1>1, <1>2, StructFacts
<1>4. \A hn \in Funcs, h \in Fd :
         ~(hn = fn /\ h = g) => p \notin QueuedIn(mm.th, hn, h)
  BY <1>1 DEF QueuedIn
<1> QED  BY <1>1, <1>3, <1>4

LEMMA FreedChanged ==
    ASSUME NEW mm, MInv(mm), NEW m2, NEW fn \in Funcs, NEW g \in Fd, NEW p,
           QueuedIn(mm.th, fn, g) = {p}, Freed(mm, m2, {p})
    PROVE  Changed(mm, m2, fn, g, {})
<1>1. \A hn \in Funcs, h \in Fd :
         ~(hn = fn /\ h = g) => p \notin QueuedIn(mm.th, hn, h)
  <2>1. p \in QueuedIn(mm.th, fn, g)  OBVIOUS
  <2> QED  BY <2>1, QueuedApart
<1>2. Accepting(m2.th) \subseteq Accepting(mm.th) /\ MInv(m2)  BY DEF Freed
<1>3. ASSUME NEW hn \in Funcs, NEW h \in Fd
      PROVE  QueuedIn(m2.th, hn, h) = IF hn = fn /\ h = g THEN {}
                                                          ELSE QueuedIn(mm.th, hn, h)
  <2>1. QueuedIn(m2.th, hn, h) = QueuedIn(mm.th, hn, h) \ {p}  BY DEF Freed
  <2>2. CASE hn = fn /\ h = g  BY <2>1, <2>2
  <2>3. CASE ~(hn = fn /\ h = g)
    <3>1. p \notin QueuedIn(mm.th, hn, h)  BY <1>1, <2>3
    <3> QED  BY <2>1, <2>3, <3>1
  <2> QED  BY <2>2, <2>3
<1> QED  BY <1>2, <1>3 DEF Changed

(* Cancelling the struct that a pointer names.                             *)
LEMMA CancelOne ==
    ASSUME NEW mm, MInv(mm), NEW fn \in Funcs, NEW g \in Fd, NEW p,
           QueuedIn(mm.th, fn, g) = {p}
    PROVE  Changed(mm, thread_cancel(mm, {p}), fn, g, {})
<1>1. p \in Thread /\ mm.th[p].type # "UNUSED"
  <2>1. p \in QueuedIn(mm.th, fn, g)  OBVIOUS
  <2> QED  BY <2>1, QueuedApart
<1>2. Freed(mm, thread_cancel(mm, {p}), {p})
  <2>1. {p} \in SUBSET Thread /\ \A t \in {p} : mm.th[t].type # "UNUSED"  BY <1>1
  <2> QED  BY <2>1, CancelWorks
<1> QED  BY <1>2, FreedChanged

(* A handler changes one pointer with what is queued for it.               *)
IsPutRead(y, x, mm, p) == y = [x EXCEPT !.m = mm, !.v.t_read = p]

LEMMA PutRead ==
    ASSUME NEW x, NEW f \in Fds, XInv(x, f), NEW mm, NEW p \in Thread \cup {NULL},
           Changed(x.m, mm, "vty_read", f, Named(p)),
           NEW y, IsPutRead(y, x, mm, p)
    PROVE  /\ Step(x, y, f)
           /\ y.m = mm /\ y.v.t_read = p
           /\ y.v.t_write = x.v.t_write /\ y.v.t_timeout = x.v.t_timeout
<1> DEFINE w == [x.v EXCEPT !.t_read = p]
<1>1. w \in Work /\ SameSession(x.v, w) /\ w.t_read = p
      /\ w.t_write = x.v.t_write /\ w.t_timeout = x.v.t_timeout
  BY DEF XInv, Work, SameSession
<1>2. IsTriple(y, mm, w, x.lock)  BY DEF XInv, Whole, IsTriple, IsPutRead
<1> HIDE DEF w
<1>3. y.m = mm /\ y.v = w /\ y.lock = x.lock /\ Whole(y)
  BY <1>2, Triple
<1>4. Names(mm.th, f, w)  BY <1>1, FuncFacts DEF Names, XInv, Changed
<1>5. MInv(mm) /\ x.lock \in BOOLEAN  BY DEF Changed, XInv
<1> QED  BY <1>1, <1>3, <1>4, <1>5, ChangedApart DEF Step, XInv

IsPutWrite(y, x, mm, p) == y = [x EXCEPT !.m = mm, !.v.t_write = p]

LEMMA PutWrite ==
    ASSUME NEW x, NEW f \in Fds, XInv(x, f), NEW mm, NEW p \in Thread \cup {NULL},
           Changed(x.m, mm, "vty_flush", f, Named(p)),
           NEW y, IsPutWrite(y, x, mm, p)
    PROVE  /\ Step(x, y, f)
           /\ y.m = mm /\ y.v.t_write = p
           /\ y.v.t_read = x.v.t_read /\ y.v.t_timeout = x.v.t_timeout
<1> DEFINE w == [x.v EXCEPT !.t_write = p]
<1>1. w \in Work /\ SameSession(x.v, w) /\ w.t_write = p
      /\ w.t_read = x.v.t_read /\ w.t_timeout = x.v.t_timeout
  BY DEF XInv, Work, SameSession
<1>2. IsTriple(y, mm, w, x.lock)  BY DEF XInv, Whole, IsTriple, IsPutWrite
<1> HIDE DEF w
<1>3. y.m = mm /\ y.v = w /\ y.lock = x.lock /\ Whole(y)
  BY <1>2, Triple
<1>4. Names(mm.th, f, w)  BY <1>1, FuncFacts DEF Names, XInv, Changed
<1>5. MInv(mm) /\ x.lock \in BOOLEAN  BY DEF Changed, XInv
<1> QED  BY <1>1, <1>3, <1>4, <1>5, ChangedApart DEF Step, XInv

IsPutTimeout(y, x, mm, p) == y = [x EXCEPT !.m = mm, !.v.t_timeout = p]

LEMMA PutTimeout ==
    ASSUME NEW x, NEW f \in Fds, XInv(x, f), NEW mm, NEW p \in Thread \cup {NULL},
           Changed(x.m, mm, "vty_timeout", f, Named(p)),
           NEW y, IsPutTimeout(y, x, mm, p)
    PROVE  /\ Step(x, y, f)
           /\ y.m = mm /\ y.v.t_timeout = p
           /\ y.v.t_read = x.v.t_read /\ y.v.t_write = x.v.t_write
<1> DEFINE w == [x.v EXCEPT !.t_timeout = p]
<1>1. w \in Work /\ SameSession(x.v, w) /\ w.t_timeout = p
      /\ w.t_read = x.v.t_read /\ w.t_write = x.v.t_write
  BY DEF XInv, Work, SameSession
<1>2. IsTriple(y, mm, w, x.lock)  BY DEF XInv, Whole, IsTriple, IsPutTimeout
<1> HIDE DEF w
<1>3. y.m = mm /\ y.v = w /\ y.lock = x.lock /\ Whole(y)
  BY <1>2, Triple
<1>4. Names(mm.th, f, w)  BY <1>1, FuncFacts DEF Names, XInv, Changed
<1>5. MInv(mm) /\ x.lock \in BOOLEAN  BY DEF Changed, XInv
<1> QED  BY <1>1, <1>3, <1>4, <1>5, ChangedApart DEF Step, XInv

(* vty_event.                                                              *)
LEMMA NamesFacts ==
    ASSUME NEW x, NEW f \in Fds, XInv(x, f)
    PROVE  /\ MInv(x.m) /\ x.v \in Work
           /\ x.v.t_read \in Thread \cup {NULL} /\ x.v.t_write \in Thread \cup {NULL}
           /\ x.v.t_timeout \in Thread \cup {NULL}
           /\ x.v.t_read = NULL => QueuedIn(x.m.th, "vty_read", f) = {}
           /\ x.v.t_read # NULL => QueuedIn(x.m.th, "vty_read", f) = {x.v.t_read}
           /\ x.v.t_write = NULL => QueuedIn(x.m.th, "vty_flush", f) = {}
           /\ x.v.t_write # NULL => QueuedIn(x.m.th, "vty_flush", f) = {x.v.t_write}
           /\ x.v.t_timeout = NULL => QueuedIn(x.m.th, "vty_timeout", f) = {}
           /\ x.v.t_timeout # NULL => QueuedIn(x.m.th, "vty_timeout", f) = {x.v.t_timeout}
BY DEF XInv, Names, Named, Work

(* One change of a pointer after another.                                  *)
LEMMA ChangedTwice ==
    ASSUME NEW a, NEW b, NEW c, NEW func, NEW f, NEW P, NEW Q,
           Changed(a, b, func, f, P), Changed(b, c, func, f, Q)
    PROVE  Changed(a, c, func, f, Q)
BY DEF Changed

LEMMA SetTimeoutWorks ==
    ASSUME NEW x, NEW f \in Fds, XInv(x, f)
    PROVE  LET y == SetTimeout(x, f) IN
           /\ Step(x, y, f)
           /\ y.v.t_read = x.v.t_read /\ y.v.t_write = x.v.t_write
           /\ x.v.v_timeout => y.v.t_timeout # NULL
           /\ ~x.v.v_timeout => y.v.t_timeout = x.v.t_timeout
<1> DEFINE c == IF x.v.t_timeout = NULL THEN x.m ELSE thread_cancel(x.m, {x.v.t_timeout})
           d == thread_add_timer(c, "vty_timeout", f)
           y == SetTimeout(x, f)
<1>1. CASE ~x.v.v_timeout
  <2>1. y = x  BY <1>1 DEF SetTimeout
  <2> HIDE DEF y
  <2>2. Step(x, y, f)  BY <2>1, StepSelf
  <2> QED  BY <1>1, <2>1, <2>2 DEF y
<1>2. CASE x.v.v_timeout
  <2>1. Changed(x.m, c, "vty_timeout", f, {})
    <3>1. CASE x.v.t_timeout = NULL
      <4>1. c = x.m  BY <3>1
      <4> HIDE DEF c
      <4> QED  BY <3>1, <4>1, NamesFacts DEF Changed
    <3>2. CASE x.v.t_timeout # NULL
      <4>1. c = thread_cancel(x.m, {x.v.t_timeout})  BY <3>2
      <4> HIDE DEF c
      <4> QED  BY <3>2, <4>1, NamesFacts, CancelOne, FuncFacts
    <3> QED  BY <3>1, <3>2
  <2> HIDE DEF c
  <2>2. MInv(c) /\ QueuedIn(c.th, "vty_timeout", f) = {}
    BY <2>1, FuncFacts DEF Changed
  <2>3. Added(c, d, "vty_timeout", f, NextThread(c))  BY <2>2, AddTimerWorks
  <2>4. Changed(c, d, "vty_timeout", f, Named(NextThread(c))) /\ NextThread(c) \in Thread
    <3> HIDE DEF d
    <3> QED  BY <2>3, AddedChanged
  <2>5. Changed(x.m, d, "vty_timeout", f, Named(NextThread(c)))
    <3> HIDE DEF d
    <3> QED  BY <2>1, <2>4, ChangedTwice
  <2>6. IsPutTimeout(y, x, d, NextThread(c))
    BY <1>2 DEF SetTimeout, IsPutTimeout, c
  <2> HIDE DEF d, y
  <2>7. NextThread(c) \in Thread \cup {NULL} /\ NextThread(c) # NULL  BY <2>4, Constants
  <2>8. /\ Step(x, y, f)
        /\ y.m = d /\ y.v.t_timeout = NextThread(c)
        /\ y.v.t_read = x.v.t_read /\ y.v.t_write = x.v.t_write
    BY <2>5, <2>6, <2>7, PutTimeout
  <2> QED  BY <1>2, <2>7, <2>8 DEF y
<1> QED  BY <1>1, <1>2

LEMMA VtyReadWorks ==
    ASSUME NEW x, NEW f \in Fds, XInv(x, f), x.v.t_read = NULL
    PROVE  LET y == VTY_READ(x, f) IN
           /\ Step(x, y, f)
           /\ y.v.t_read # NULL /\ y.v.t_write = x.v.t_write
           /\ Timed(x.v) \/ x.v.t_timeout = NULL => Timed(y.v)
<1> DEFINE d == thread_add_read(x.m, "vty_read", f)
           p == AddedRead(x.m, f)
           z == [x EXCEPT !.m = thread_add_read(@, "vty_read", f),
                          !.v.t_read = AddedRead(x.m, f)]
           y == VTY_READ(x, f)
<1>1. MInv(x.m) /\ QueuedIn(x.m.th, "vty_read", f) = {}  BY NamesFacts
<1>2. Added(x.m, d, "vty_read", f, NextThread(x.m)) /\ p = NextThread(x.m)
  BY <1>1, AddReadWorks
<1>3. Changed(x.m, d, "vty_read", f, Named(p)) /\ p \in Thread
  <2> HIDE DEF d, p
  <2> QED  BY <1>2, AddedChanged
<1>4. IsPutRead(z, x, d, p)  BY DEF IsPutRead
<1>5. y = SetTimeout(z, f)  BY DEF VTY_READ
<1> HIDE DEF d, p, z, y
<1>6. p \in Thread \cup {NULL} /\ p # NULL  BY <1>3, Constants
<1>7. /\ Step(x, z, f)
      /\ z.m = d /\ z.v.t_read = p
      /\ z.v.t_write = x.v.t_write /\ z.v.t_timeout = x.v.t_timeout
  BY <1>3, <1>4, <1>6, PutRead
<1>8. XInv(z, f)  BY <1>7 DEF Step
<1>9. /\ Step(z, y, f)
      /\ y.v.t_read = z.v.t_read /\ y.v.t_write = z.v.t_write
      /\ z.v.v_timeout => y.v.t_timeout # NULL
      /\ ~z.v.v_timeout => y.v.t_timeout = z.v.t_timeout
  BY <1>5, <1>8, SetTimeoutWorks
<1>10. Step(x, y, f)  BY <1>7, <1>9, StepTrans
<1>11. Timed(x.v) \/ x.v.t_timeout = NULL => Timed(y.v)
  BY <1>7, <1>9 DEF Timed, Step, SameSession
<1> QED  BY <1>6, <1>7, <1>9, <1>10, <1>11 DEF y

LEMMA VtyWriteWorks ==
    ASSUME NEW x, NEW f \in Fds, XInv(x, f)
    PROVE  LET y == VTY_WRITE(x, f) IN
           /\ Step(x, y, f)
           /\ y.v.t_write # NULL /\ y.v.t_read = x.v.t_read
           /\ y.v.t_timeout = x.v.t_timeout
<1> DEFINE d == thread_add_write(x.m, "vty_flush", f)
           p == AddedWrite(x.m, f)
           y == VTY_WRITE(x, f)
<1>1. CASE x.v.t_write # NULL
  <2>1. y = x  BY <1>1 DEF VTY_WRITE
  <2> HIDE DEF y
  <2>2. Step(x, y, f)  BY <2>1, StepSelf
  <2> QED  BY <1>1, <2>1, <2>2 DEF y
<1>2. CASE x.v.t_write = NULL
  <2>1. MInv(x.m) /\ QueuedIn(x.m.th, "vty_flush", f) = {}  BY <1>2, NamesFacts
  <2>2. Added(x.m, d, "vty_flush", f, NextThread(x.m)) /\ p = NextThread(x.m)
    BY <2>1, AddWriteWorks
  <2>3. Changed(x.m, d, "vty_flush", f, Named(p)) /\ p \in Thread
    <3> HIDE DEF d, p
    <3> QED  BY <2>2, AddedChanged
  <2>4. IsPutWrite(y, x, d, p)  BY <1>2 DEF IsPutWrite, VTY_WRITE
  <2> HIDE DEF d, p, y
  <2>5. p \in Thread \cup {NULL} /\ p # NULL  BY <2>3, Constants
  <2>6. /\ Step(x, y, f)
        /\ y.m = d /\ y.v.t_write = p
        /\ y.v.t_read = x.v.t_read /\ y.v.t_timeout = x.v.t_timeout
    BY <2>3, <2>4, <2>5, PutWrite
  <2> QED  BY <2>5, <2>6 DEF y
<1> QED  BY <1>1, <1>2

LEMMA ResetWorks ==
    ASSUME NEW x, NEW f \in Fds, XInv(x, f)
    PROVE  LET y == VTY_TIMEOUT_RESET(x, f) IN
           /\ Step(x, y, f)
           /\ y.v.t_read = x.v.t_read /\ y.v.t_write = x.v.t_write
           /\ Timed(y.v)
<1> DEFINE d == thread_cancel(x.m, {x.v.t_timeout})
           off == IF x.v.t_timeout = NULL
                    THEN x
                    ELSE [x EXCEPT !.m = thread_cancel(@, {x.v.t_timeout}),
                                   !.v.t_timeout = NULL]
           y == VTY_TIMEOUT_RESET(x, f)
<1>1. y = SetTimeout(off, f)  BY DEF VTY_TIMEOUT_RESET
<1>2. /\ Step(x, off, f) /\ off.v.t_timeout = NULL
      /\ off.v.t_read = x.v.t_read /\ off.v.t_write = x.v.t_write
  <2>1. CASE x.v.t_timeout = NULL
    <3>1. off = x  BY <2>1
    <3> HIDE DEF off
    <3>2. Step(x, off, f)  BY <3>1, StepSelf
    <3> QED  BY <2>1, <3>1, <3>2
  <2>2. CASE x.v.t_timeout # NULL
    <3>1. IsPutTimeout(off, x, d, NULL)  BY <2>2 DEF IsPutTimeout
    <3>2. Changed(x.m, d, "vty_timeout", f, {})
      BY <2>2, NamesFacts, CancelOne, FuncFacts
    <3> HIDE DEF off, d
    <3>3. Named(NULL) = {} /\ NULL \in Thread \cup {NULL}  BY DEF Named
    <3>4. Changed(x.m, d, "vty_timeout", f, Named(NULL))  BY <3>2, <3>3
    <3> QED  BY <3>1, <3>3, <3>4, PutTimeout
  <2> QED  BY <2>1, <2>2
<1> HIDE DEF off, y
<1>3. XInv(off, f)  BY <1>2 DEF Step
<1>4. /\ Step(off, y, f)
      /\ y.v.t_read = off.v.t_read /\ y.v.t_write = off.v.t_write
      /\ off.v.v_timeout => y.v.t_timeout # NULL
      /\ ~off.v.v_timeout => y.v.t_timeout = off.v.t_timeout
  BY <1>1, <1>3, SetTimeoutWorks
<1>5. Step(x, y, f)  BY <1>2, <1>4, StepTrans
<1>6. Timed(y.v)  BY <1>2, <1>4 DEF Timed, Step, SameSession
<1> QED  BY <1>2, <1>4, <1>5, <1>6 DEF y

(* The session f is closed.                                                *)
Closed(x, y, f) ==
    /\ MInv(y.m) /\ Apart(x.m, y.m, f)
    /\ \A fn \in SessionFunc : QueuedIn(y.m.th, fn, f) = {}
    /\ y.v = NoVty
    /\ y.lock = (x.lock /\ ~x.v.config)

LEMMA CloseWorks ==
    ASSUME NEW x, NEW f \in Fds, XInv(x, f)
    PROVE  Closed(x, vty_close(x), f)
<1> DEFINE S == Threads(x.v)
           d == thread_cancel(x.m, Threads(x.v))
           lk == x.lock /\ ~x.v.config
           y == vty_close(x)
<1>1. /\ QueuedIn(x.m.th, "vty_read", f) = Named(x.v.t_read)
      /\ QueuedIn(x.m.th, "vty_flush", f) = Named(x.v.t_write)
      /\ QueuedIn(x.m.th, "vty_timeout", f) = Named(x.v.t_timeout)
      /\ MInv(x.m)
  BY DEF XInv, Names
<1>2. S = UNION {QueuedIn(x.m.th, "vty_read", f), QueuedIn(x.m.th, "vty_flush", f),
                 QueuedIn(x.m.th, "vty_timeout", f)}
  BY <1>1 DEF Threads, Named
<1>3. IsTriple(y, d, NoVty, lk)  BY DEF vty_close, IsTriple
<1> HIDE DEF S, lk
<1>4. \A p \in S : \E fn \in SessionFunc : p \in QueuedIn(x.m.th, fn, f)
  BY <1>2, FuncFacts
<1>5. ASSUME NEW p \in S
      PROVE  /\ p \in Thread /\ x.m.th[p].type # "UNUSED"
             /\ \A hn \in Funcs, h \in Fd \ {f} : p \notin QueuedIn(x.m.th, hn, h)
  <2>1. PICK fn \in SessionFunc : p \in QueuedIn(x.m.th, fn, f)  BY <1>4
  <2>2. fn \in Funcs /\ f \in Fd  BY FuncFacts
  <2>3. /\ p \in Thread /\ x.m.th[p].type # "UNUSED"
        /\ \A hn \in Funcs, h \in Fd :
             ~(hn = fn /\ h = f) => p \notin QueuedIn(x.m.th, hn, h)
    BY <1>1, <2>1, <2>2, QueuedApart
  <2>4. \A hn \in Funcs, h \in Fd \ {f} : p \notin QueuedIn(x.m.th, hn, h)
    BY <2>3
  <2> QED  BY <2>3, <2>4
<1>6. Freed(x.m, d, S)
  <2>1. S \in SUBSET Thread /\ \A t \in S : x.m.th[t].type # "UNUSED"  BY <1>5
  <2>2. d = thread_cancel(x.m, S)  BY DEF S
  <2> HIDE DEF d
  <2> QED  BY <1>1, <2>1, <2>2, CancelWorks
<1> HIDE DEF d, y
<1>7. y.m = d /\ y.v = NoVty /\ y.lock = lk  BY <1>3, Triple
<1>8. Apart(x.m, d, f)
  <2>1. Accepting(d.th) \subseteq Accepting(x.m.th)  BY <1>6 DEF Freed
  <2>2. ASSUME NEW hn \in Funcs, NEW h \in Fd \ {f}
        PROVE  QueuedIn(d.th, hn, h) = QueuedIn(x.m.th, hn, h)
    <3>1. QueuedIn(d.th, hn, h) = QueuedIn(x.m.th, hn, h) \ S  BY <1>6 DEF Freed
    <3> QED  BY <1>5, <3>1
  <2> QED  BY <2>1, <2>2 DEF Apart
<1>9. \A fn \in SessionFunc : QueuedIn(d.th, fn, f) = {}
  <2> SUFFICES ASSUME NEW fn \in SessionFunc  PROVE QueuedIn(d.th, fn, f) = {}
    OBVIOUS
  <2>1. QueuedIn(d.th, fn, f) = QueuedIn(x.m.th, fn, f) \ S  BY <1>6, FuncFacts DEF Freed
  <2>2. QueuedIn(x.m.th, fn, f) \subseteq S  BY <1>2, FuncFacts
  <2> QED  BY <2>1, <2>2
<1>10. MInv(d)  BY <1>6 DEF Freed
<1> QED  BY <1>7, <1>8, <1>9, <1>10 DEF Closed, lk, y


-----------------------------------------------------------------------------
(* The configuration lock: c, does this session hold it, and o, does       *)
(* another one?                                                            *)
Holds(v) == v # NoVty /\ v.config

LockBy(lock, c, o) ==
    /\ lock \in BOOLEAN /\ (lock <=> c \/ o)
    /\ ~(c /\ o)

Configuring(v) == v.config <=> v.node \in ConfigNodes

(* What a session handler has while it runs; a session that is created has *)
(* no time-out yet.                                                        *)
Entered(x, f, o) ==
    /\ XInv(x, f) /\ Configuring(x.v) /\ LockBy(x.lock, x.v.config, o)
    /\ x.v.fail \in 0..2 \/ x.v.status = "CLOSE"

Running(x, f, o) == Entered(x, f, o) /\ Timed(x.v)

(* A session between two handlers: freed, or going to read.                *)
Hears(v) == v.t_read # NULL \/ (v.nopage /\ v.t_write # NULL)

Good(th, v, f) ==
    IF v = NoVty
      THEN \A fn \in SessionFunc : QueuedIn(th, fn, f) = {}
      ELSE v \in Session /\ Names(th, f, v) /\ Timed(v) /\ Hears(v) /\ Configuring(v)

(* What it leaves, having started with the scheduler mm.                   *)
Done(mm, y, f, o) ==
    /\ MInv(y.m) /\ Apart(mm, y.m, f)
    /\ Good(y.m.th, y.v, f) /\ LockBy(y.lock, Holds(y.v), o)

LEMMA WorkFacts ==
    ASSUME NEW v \in Work
    PROVE  /\ v.fail \in 0..2 /\ v.status # "CLOSE" => v \in Session
           /\ v.config \in BOOLEAN /\ v.nopage \in BOOLEAN
BY DEF Work, Session

LEMMA SessionFacts ==
    ASSUME NEW v \in Session
    PROVE  /\ v # NoVty /\ v \in Work /\ v.status # "CLOSE" /\ v.fail \in 0..2
           /\ Holds(v) = v.config
<1>1. v # NoVty  BY NoVtyAssumption
<1>2. v \in Work /\ v.status # "CLOSE" /\ v.fail \in 0..2  BY DEF Work, Session
<1>3. v.config \in BOOLEAN  BY DEF Session
<1> QED  BY <1>1, <1>2, <1>3, Zenon DEF Holds

(* Other fields of the session, and the lock, are set.                     *)
LEMMA SetFields ==
    ASSUME NEW x, NEW f \in Fds, XInv(x, f), NEW w \in Work,
           w.t_read = x.v.t_read, w.t_write = x.v.t_write, w.t_timeout = x.v.t_timeout,
           NEW lk \in BOOLEAN, NEW y, IsTriple(y, x.m, w, lk)
    PROVE  /\ XInv(y, f) /\ y.m = x.m /\ y.v = w /\ y.lock = lk
           /\ Apart(x.m, y.m, f)
<1>1. y.m = x.m /\ y.v = w /\ y.lock = lk /\ Whole(y)  BY Triple
<1>2. Names(y.m.th, f, w)  BY <1>1 DEF XInv, Names
<1>3. Apart(x.m, y.m, f)  BY <1>1, ApartSelf
<1> QED  BY <1>1, <1>2, <1>3 DEF XInv

(* The session that a handler leaves behind, closed or not.                *)
LEMMA DoneClosed ==
    ASSUME NEW x, NEW f \in Fds, NEW o \in BOOLEAN, Entered(x, f, o)
    PROVE  Done(x.m, vty_close(x), f, o)
<1> DEFINE y == vty_close(x)
<1>1. Closed(x, y, f)  BY CloseWorks DEF Entered
<1> HIDE DEF y
<1>2. /\ MInv(y.m) /\ Apart(x.m, y.m, f) /\ y.v = NoVty
      /\ \A fn \in SessionFunc : QueuedIn(y.m.th, fn, f) = {}
      /\ y.lock = (x.lock /\ ~x.v.config)
  BY <1>1 DEF Closed
<1>3. Good(y.m.th, y.v, f)  BY <1>2 DEF Good
<1>4. LockBy(x.lock, x.v.config, o) /\ x.v.config \in BOOLEAN
  BY WorkFacts DEF Entered, XInv
<1>5. Holds(y.v) = FALSE  BY <1>2 DEF Holds
<1>6. y.lock \in BOOLEAN /\ (y.lock <=> o)
  BY <1>2, <1>4, Zenon DEF LockBy
<1>7. LockBy(y.lock, Holds(y.v), o)  BY <1>5, <1>6 DEF LockBy
<1> QED  BY <1>2, <1>3, <1>7, <1>1 DEF Done, y

LEMMA DoneOpen ==
    ASSUME NEW x, NEW f \in Fds, NEW o \in BOOLEAN, Entered(x, f, o), NEW y, Step(x, y, f),
           Timed(y.v), Hears(y.v), x.v.status # "CLOSE"
    PROVE  Done(x.m, y, f, o) /\ y.v # NoVty
<1>1. /\ XInv(y, f) /\ Apart(x.m, y.m, f) /\ SameSession(x.v, y.v) /\ y.lock = x.lock
  BY DEF Step
<1>2. y.v \in Session
  <2>1. y.v.fail \in 0..2 /\ y.v.status # "CLOSE"
    BY <1>1 DEF Entered, SameSession
  <2> QED  BY <1>1, <2>1, WorkFacts DEF XInv
<1>3. Configuring(y.v) /\ y.v.config = x.v.config
  BY <1>1 DEF Entered, SameSession, Configuring
<1>4. Good(y.m.th, y.v, f)
  BY <1>1, <1>2, <1>3, SessionFacts DEF Good, XInv
<1>5. LockBy(y.lock, Holds(y.v), o)
  <2>1. LockBy(x.lock, x.v.config, o)  BY DEF Entered
  <2>2. y.lock = x.lock /\ Holds(y.v) = x.v.config  BY <1>1, <1>2, <1>3, SessionFacts
  <2> QED  BY <2>1, <2>2
<1>6. y.v # NoVty  BY <1>2, SessionFacts
<1> QED  BY <1>1, <1>4, <1>5, <1>6 DEF Done, XInv

LEMMA ReadEndWorks ==
    ASSUME NEW x, NEW f \in Fds, NEW o \in BOOLEAN, Running(x, f, o), x.v.t_read = NULL
    PROVE  Done(x.m, vty_read_end(x, f), f, o)
<1> DEFINE z == VTY_WRITE(x, f)
           y == VTY_READ(z, f)
<1>1. CASE x.v.status = "CLOSE"
  <2>1. vty_read_end(x, f) = vty_close(x)  BY <1>1 DEF vty_read_end
  <2> QED  BY <2>1, DoneClosed DEF Running
<1>2. CASE x.v.status # "CLOSE"
  <2>1. vty_read_end(x, f) = y  BY <1>2 DEF vty_read_end
  <2>2. /\ Step(x, z, f) /\ z.v.t_read = NULL /\ z.v.t_timeout = x.v.t_timeout
    BY VtyWriteWorks DEF Running, Entered
  <2> HIDE DEF z
  <2>3. Timed(z.v) /\ XInv(z, f)  BY <2>2 DEF Running, Entered, Step, SameSession, Timed
  <2>4. Step(z, y, f) /\ y.v.t_read # NULL /\ Timed(y.v)
    BY <2>2, <2>3, VtyReadWorks
  <2> HIDE DEF y
  <2>5. Step(x, y, f)  BY <2>2, <2>4, StepTrans
  <2>6. Hears(y.v)  BY <2>4 DEF Hears
  <2>7. Done(x.m, y, f, o)  BY <1>2, <2>4, <2>5, <2>6, DoneOpen DEF Running
  <2> QED  BY <2>1, <2>7
<1> QED  BY <1>1, <1>2

-----------------------------------------------------------------------------
(* The commands.  A handler goes on, in state y after x.                   *)
Goes(x, y, f, o) ==
    /\ Running(y, f, o) /\ Apart(x.m, y.m, f)
    /\ y.v.t_read = x.v.t_read

LEMMA GoesSelf ==
    ASSUME NEW x, NEW f, NEW o, Running(x, f, o)
    PROVE  Goes(x, x, f, o)
BY ApartSelf DEF Goes

LEMMA GoesTrans ==
    ASSUME NEW x, NEW y, NEW z, NEW f, NEW o, Goes(x, y, f, o), Goes(y, z, f, o)
    PROVE  Goes(x, z, f, o)
<1>1. Apart(x.m, z.m, f)  BY ApartTrans DEF Goes
<1> QED  BY <1>1 DEF Goes

(* Other fields are set, rightly for the configuration.                    *)
LEMMA GoesSet ==
    ASSUME NEW x, NEW f \in Fds, NEW o \in BOOLEAN, Running(x, f, o), NEW w \in Work,
           w.t_read = x.v.t_read, w.t_write = x.v.t_write, w.t_timeout = x.v.t_timeout,
           w.v_timeout = x.v.v_timeout, Configuring(w),
           w.fail \in 0..2 \/ w.status = "CLOSE",
           NEW lk, LockBy(lk, w.config, o), NEW y, IsTriple(y, x.m, w, lk)
    PROVE  Goes(x, y, f, o)
<1>1. XInv(x, f) /\ lk \in BOOLEAN  BY DEF Running, Entered, LockBy
<1>2. XInv(y, f) /\ y.m = x.m /\ y.v = w /\ y.lock = lk /\ Apart(x.m, y.m, f)
  BY <1>1, SetFields
<1>3. Timed(w)  BY DEF Running, Entered, Timed
<1> QED  BY <1>2, <1>3 DEF Goes, Running, Entered

IsNode(y, x, n) == y = [x EXCEPT !.v.node = n]

(* The session goes to node n, without touching the lock.                  *)
LEMMA GoesNode ==
    ASSUME NEW x, NEW f \in Fds, NEW o \in BOOLEAN, Running(x, f, o),
           NEW n \in {"VIEW", "ENABLE", "CONFIG", "VTY"},
           n \in ConfigNodes <=> x.v.node \in ConfigNodes,
           NEW y, IsNode(y, x, n)
    PROVE  Goes(x, y, f, o)
<1> DEFINE w == [x.v EXCEPT !.node = n]
<1>1. Whole(x) /\ x.v \in Work /\ LockBy(x.lock, x.v.config, o) /\ Configuring(x.v)
      /\ (x.v.fail \in 0..2 \/ x.v.status = "CLOSE")
  BY DEF Running, Entered, XInv
<1>2. IsTriple(y, x.m, w, x.lock)  BY <1>1 DEF IsNode, IsTriple, Whole
<1>3. /\ w \in Work /\ w.node = n /\ w.config = x.v.config
      /\ w.t_read = x.v.t_read /\ w.t_write = x.v.t_write /\ w.t_timeout = x.v.t_timeout
      /\ w.v_timeout = x.v.v_timeout /\ w.fail = x.v.fail /\ w.status = x.v.status
  BY <1>1 DEF Work
<1> HIDE DEF w
<1>4. Configuring(w)  BY <1>1, <1>3 DEF Configuring
<1> QED  BY <1>1, <1>2, <1>3, <1>4, GoesSet

LEMMA EnableWorks ==
    ASSUME NEW x, NEW f \in Fds, NEW o \in BOOLEAN, Running(x, f, o)
    PROVE  Goes(x, ToEnable(x), f, o)
<1> DEFINE w == [x.v EXCEPT !.config = FALSE, !.node = "ENABLE"]
           lk == x.lock /\ ~x.v.config
           y == ToEnable(x)
<1>1. Whole(x) /\ x.v \in Work /\ LockBy(x.lock, x.v.config, o)
      /\ (x.v.fail \in 0..2 \/ x.v.status = "CLOSE") /\ x.v.config \in BOOLEAN
  BY WorkFacts DEF Running, Entered, XInv
<1>2. IsTriple(y, x.m, w, lk)
  <2> DEFINE w0 == [x.v EXCEPT !.config = FALSE]
             u == Unlocked(x)
  <2>1. IsTriple(u, x.m, w0, lk)
    <3>1. u = [x EXCEPT !.lock = lk, !.v.config = FALSE]  BY Zenon DEF Unlocked
    <3> HIDE DEF u, lk
    <3> QED  BY <1>1, <3>1 DEF IsTriple, Whole
  <2>2. IsNode(y, u, "ENABLE") /\ w = [w0 EXCEPT !.node = "ENABLE"]
    BY DEF ToEnable, IsNode
  <2> HIDE DEF u, w, w0, y, lk
  <2>3. u.m = x.m /\ u.v = w0 /\ u.lock = lk /\ Whole(u)  BY <2>1, Triple
  <2> QED  BY <2>2, <2>3 DEF IsNode, IsTriple, Whole
<1>3. /\ w \in Work /\ w.node = "ENABLE" /\ w.config = FALSE
      /\ w.t_read = x.v.t_read /\ w.t_write = x.v.t_write /\ w.t_timeout = x.v.t_timeout
      /\ w.v_timeout = x.v.v_timeout /\ w.fail = x.v.fail /\ w.status = x.v.status
  BY <1>1 DEF Work
<1>4. LockBy(lk, FALSE, o)  BY <1>1, Zenon DEF LockBy
<1> HIDE DEF w, y, lk
<1>5. Configuring(w)  BY <1>3 DEF Configuring, ConfigNodes
<1>6. LockBy(lk, w.config, o)  BY <1>3, <1>4
<1>7. Goes(x, y, f, o)  BY <1>1, <1>2, <1>3, <1>5, <1>6, GoesSet
<1> QED  BY <1>7 DEF y

LEMMA ConfigureWorks ==
    ASSUME NEW x, NEW f \in Fds, NEW o \in BOOLEAN, Running(x, f, o)
    PROVE  Goes(x, config_terminal(x), f, o)
<1> DEFINE w == [x.v EXCEPT !.config = TRUE, !.node = "CONFIG"]
           y == config_terminal(x)
<1>1. Whole(x) /\ x.v \in Work /\ LockBy(x.lock, x.v.config, o)
      /\ (x.v.fail \in 0..2 \/ x.v.status = "CLOSE") /\ x.v.config \in BOOLEAN
  BY WorkFacts DEF Running, Entered, XInv
<1>2. CASE x.lock /\ ~x.v.config
  <2>1. y = x  BY <1>2 DEF config_terminal
  <2> QED  BY <2>1, GoesSelf
<1>3. CASE ~(x.lock /\ ~x.v.config)
  <2>1. IsTriple(y, x.m, w, TRUE)
    BY <1>1, <1>3 DEF config_terminal, IsTriple, Whole
  <2>2. /\ w \in Work /\ w.node = "CONFIG" /\ w.config = TRUE
        /\ w.t_read = x.v.t_read /\ w.t_write = x.v.t_write /\ w.t_timeout = x.v.t_timeout
        /\ w.v_timeout = x.v.v_timeout /\ w.fail = x.v.fail /\ w.status = x.v.status
    BY <1>1 DEF Work
  <2>3. ~o  BY <1>1, <1>3, Zenon DEF LockBy
  <2> HIDE DEF w, y
  <2>4. Configuring(w)  BY <2>2 DEF Configuring, ConfigNodes
  <2>5. LockBy(TRUE, w.config, o)  BY <2>2, <2>3 DEF LockBy
  <2>6. Goes(x, y, f, o)  BY <1>1, <2>1, <2>2, <2>4, <2>5, GoesSet
  <2> QED  BY <2>6 DEF y
<1> QED  BY <1>2, <1>3

IsQuit(y, x) == y = [x EXCEPT !.v.status = "CLOSE"]

LEMMA QuitWorks ==
    ASSUME NEW x, NEW f \in Fds, NEW o \in BOOLEAN, Running(x, f, o), NEW y, IsQuit(y, x)
    PROVE  Goes(x, y, f, o) /\ y.v.status = "CLOSE"
<1> DEFINE w == [x.v EXCEPT !.status = "CLOSE"]
<1>1. Whole(x) /\ x.v \in Work /\ LockBy(x.lock, x.v.config, o) /\ Configuring(x.v)
  BY DEF Running, Entered, XInv
<1>2. IsTriple(y, x.m, w, x.lock)  BY <1>1 DEF IsQuit, IsTriple, Whole
<1>3. /\ w \in Work /\ w.node = x.v.node /\ w.config = x.v.config
      /\ w.t_read = x.v.t_read /\ w.t_write = x.v.t_write /\ w.t_timeout = x.v.t_timeout
      /\ w.v_timeout = x.v.v_timeout /\ w.status = "CLOSE"
  BY <1>1 DEF Work
<1> HIDE DEF w
<1>4. Configuring(w)  BY <1>1, <1>3 DEF Configuring
<1>5. y.v = w  BY <1>2, Triple
<1> QED  BY <1>1, <1>2, <1>3, <1>4, <1>5, GoesSet

LEMMA ExitWorks ==
    ASSUME NEW x, NEW f \in Fds, NEW o \in BOOLEAN, Running(x, f, o),
           x.v.node \in {"VIEW", "ENABLE", "CONFIG", "VTY"}
    PROVE  Goes(x, config_exit(x), f, o)
<1> DEFINE y == config_exit(x)
<1>1. CASE x.v.node \in {"VIEW", "ENABLE"}
  <2>1. IsQuit(y, x)  BY <1>1 DEF config_exit, IsQuit
  <2> HIDE DEF y
  <2>2. Goes(x, y, f, o)  BY <2>1, QuitWorks
  <2> QED  BY <2>2 DEF y
<1>2. CASE x.v.node = "CONFIG"
  <2>1. y = ToEnable(x)  BY <1>2 DEF config_exit
  <2> HIDE DEF y
  <2>2. Goes(x, y, f, o)  BY <2>1, EnableWorks
  <2> QED  BY <2>2 DEF y
<1>3. CASE x.v.node = "VTY"
  <2>1. IsNode(y, x, "CONFIG")  BY <1>3 DEF config_exit, IsNode
  <2> HIDE DEF y
  <2>2. Goes(x, y, f, o)  BY <1>3, <2>1, GoesNode DEF ConfigNodes
  <2> QED  BY <2>2 DEF y
<1> QED  BY <1>1, <1>2, <1>3

IsPaged(y, x, b) == y = [x EXCEPT !.v.nopage = b]

LEMMA PagedWorks ==
    ASSUME NEW x, NEW f \in Fds, NEW o \in BOOLEAN, Running(x, f, o), NEW b \in BOOLEAN,
           NEW y, IsPaged(y, x, b)
    PROVE  Goes(x, y, f, o)
<1> DEFINE w == [x.v EXCEPT !.nopage = b]
<1>1. Whole(x) /\ x.v \in Work /\ LockBy(x.lock, x.v.config, o) /\ Configuring(x.v)
      /\ (x.v.fail \in 0..2 \/ x.v.status = "CLOSE")
  BY DEF Running, Entered, XInv
<1>2. IsTriple(y, x.m, w, x.lock)  BY <1>1 DEF IsPaged, IsTriple, Whole
<1>3. /\ w \in Work /\ w.node = x.v.node /\ w.config = x.v.config
      /\ w.t_read = x.v.t_read /\ w.t_write = x.v.t_write /\ w.t_timeout = x.v.t_timeout
      /\ w.v_timeout = x.v.v_timeout /\ w.fail = x.v.fail /\ w.status = x.v.status
  BY <1>1 DEF Work
<1> HIDE DEF w
<1>4. Configuring(w)  BY <1>1, <1>3 DEF Configuring
<1> QED  BY <1>1, <1>2, <1>3, <1>4, GoesSet

IsOut(y, x, n) == y = [x EXCEPT !.v.obuf = n]

LEMMA OutWorks ==
    ASSUME NEW x, NEW f \in Fds, NEW o \in BOOLEAN, Running(x, f, o), NEW n \in 0..Screens,
           NEW y, IsOut(y, x, n)
    PROVE  /\ Goes(x, y, f, o)
           /\ y.v.status = x.v.status /\ y.v.nopage = x.v.nopage
           /\ y.v.t_write = x.v.t_write /\ y.v.obuf = n /\ y.v.fail = x.v.fail
<1> DEFINE w == [x.v EXCEPT !.obuf = n]
<1>1. Whole(x) /\ x.v \in Work /\ LockBy(x.lock, x.v.config, o) /\ Configuring(x.v)
      /\ (x.v.fail \in 0..2 \/ x.v.status = "CLOSE")
  BY DEF Running, Entered, XInv
<1>2. IsTriple(y, x.m, w, x.lock)  BY <1>1 DEF IsOut, IsTriple, Whole
<1>3. /\ w \in Work /\ w.node = x.v.node /\ w.config = x.v.config
      /\ w.t_read = x.v.t_read /\ w.t_write = x.v.t_write /\ w.t_timeout = x.v.t_timeout
      /\ w.v_timeout = x.v.v_timeout /\ w.fail = x.v.fail /\ w.status = x.v.status
      /\ w.nopage = x.v.nopage /\ w.obuf = n
  BY <1>1 DEF Work
<1> HIDE DEF w
<1>4. Configuring(w)  BY <1>1, <1>3 DEF Configuring
<1>5. y.v = w  BY <1>2, Triple
<1> QED  BY <1>1, <1>2, <1>3, <1>4, <1>5, GoesSet

LEMMA PrintedWorks ==
    ASSUME NEW x, NEW f \in Fds, NEW o \in BOOLEAN, Running(x, f, o), NEW n \in 1..Screens
    PROVE  Goes(x, Printed(x, n), f, o)
<1> DEFINE k == IF x.v.obuf + n > Screens THEN Screens ELSE x.v.obuf + n
           y == Printed(x, n)
<1>1. Whole(x) /\ x.v.obuf \in 0..Screens  BY DEF Running, Entered, XInv, Work
<1>2. IsOut(y, x, k)  BY DEF Printed, IsOut
<1>3. k \in 0..Screens
  <2>1. Screens \in Nat  BY VtyAssumption
  <2> QED  BY <1>1, <2>1
<1> HIDE DEF k, y
<1>4. Goes(x, y, f, o)  BY <1>2, <1>3, OutWorks
<1> QED  BY <1>4 DEF y

IsTimed(y, x, b) == y = [x EXCEPT !.v.v_timeout = b]

LEMMA TimeoutWorks ==
    ASSUME NEW x, NEW f \in Fds, NEW o \in BOOLEAN, Running(x, f, o), NEW b \in BOOLEAN
    PROVE  Goes(x, exec_timeout(x, f, b), f, o)
<1> DEFINE w == [x.v EXCEPT !.v_timeout = b]
           z == [x EXCEPT !.v.v_timeout = b]
           y == exec_timeout(x, f, b)
<1>1. Whole(x) /\ XInv(x, f) /\ x.v \in Work /\ LockBy(x.lock, x.v.config, o)
      /\ Configuring(x.v) /\ (x.v.fail \in 0..2 \/ x.v.status = "CLOSE")
      /\ x.lock \in BOOLEAN
  BY DEF Running, Entered, XInv
<1>2. IsTriple(z, x.m, w, x.lock)  BY <1>1 DEF IsTriple, Whole
<1>3. /\ w \in Work /\ w.node = x.v.node /\ w.config = x.v.config
      /\ w.t_read = x.v.t_read /\ w.t_write = x.v.t_write /\ w.t_timeout = x.v.t_timeout
      /\ w.fail = x.v.fail /\ w.status = x.v.status
  BY <1>1 DEF Work
<1>4. y = VTY_TIMEOUT_RESET(z, f)  BY DEF exec_timeout
<1> HIDE DEF w, z, y
<1>5. /\ XInv(z, f) /\ z.m = x.m /\ z.v = w /\ z.lock = x.lock /\ Apart(x.m, z.m, f)
  BY <1>1, <1>2, <1>3, SetFields
<1>6. /\ Step(z, y, f) /\ y.v.t_read = z.v.t_read /\ Timed(y.v)
  BY <1>4, <1>5, ResetWorks
<1>7. /\ XInv(y, f) /\ Apart(z.m, y.m, f) /\ y.lock = x.lock
      /\ y.v.node = w.node /\ y.v.config = w.config /\ y.v.fail = w.fail
      /\ y.v.status = w.status
  BY <1>5, <1>6 DEF Step, SameSession
<1>8. Configuring(y.v) /\ LockBy(y.lock, y.v.config, o)
      /\ (y.v.fail \in 0..2 \/ y.v.status = "CLOSE")
  BY <1>1, <1>3, <1>7 DEF Configuring
<1>9. Apart(x.m, y.m, f)  BY <1>5, <1>7
<1>10. Goes(x, y, f, o)
  BY <1>3, <1>5, <1>6, <1>7, <1>8, <1>9 DEF Goes, Running, Entered
<1> QED  BY <1>10 DEF y

LEMMA ExecuteWorks ==
    ASSUME NEW x, NEW f \in Fds, NEW o \in BOOLEAN, Running(x, f, o), NEW cmd,
           x.v.node \in Installed(cmd)
    PROVE  Goes(x, Execute(x, f, cmd), f, o)
<1> DEFINE y == Execute(x, f, cmd)
<1>1. CASE cmd = "exit"
  <2>1. y = config_exit(x)  BY <1>1 DEF Execute
  <2>2. x.v.node \in {"VIEW", "ENABLE", "CONFIG", "VTY"}  BY <1>1 DEF Installed
  <2> HIDE DEF y
  <2>3. Goes(x, y, f, o)  BY <2>1, <2>2, ExitWorks
  <2> QED  BY <2>3 DEF y
<1>2. CASE cmd = "enable"
  <2>1. IsNode(y, x, "ENABLE")  BY <1>2 DEF Execute, IsNode
  <2>2. x.v.node = "VIEW"  BY <1>2 DEF Installed
  <2> HIDE DEF y
  <2>3. Goes(x, y, f, o)  BY <2>1, <2>2, GoesNode DEF ConfigNodes
  <2> QED  BY <2>3 DEF y
<1>3. CASE cmd = "disable"
  <2>1. IsNode(y, x, "VIEW")  BY <1>3 DEF Execute, IsNode
  <2>2. x.v.node = "ENABLE"  BY <1>3 DEF Installed
  <2> HIDE DEF y
  <2>3. Goes(x, y, f, o)  BY <2>1, <2>2, GoesNode DEF ConfigNodes
  <2> QED  BY <2>3 DEF y
<1>4. CASE cmd = "length 0"
  <2>1. IsPaged(y, x, TRUE)  BY <1>4 DEF Execute, IsPaged
  <2> HIDE DEF y
  <2>2. Goes(x, y, f, o)  BY <2>1, PagedWorks
  <2> QED  BY <2>2 DEF y
<1>5. CASE cmd = "no length"
  <2>1. IsPaged(y, x, FALSE)  BY <1>5 DEF Execute, IsPaged
  <2> HIDE DEF y
  <2>2. Goes(x, y, f, o)  BY <2>1, PagedWorks
  <2> QED  BY <2>2 DEF y
<1>6. CASE cmd = "configure"
  <2>1. y = config_terminal(x)  BY <1>6 DEF Execute
  <2> HIDE DEF y
  <2>2. Goes(x, y, f, o)  BY <2>1, ConfigureWorks
  <2> QED  BY <2>2 DEF y
<1>7. CASE cmd = "line vty"
  <2>1. IsNode(y, x, "VTY")  BY <1>7 DEF Execute, IsNode
  <2>2. x.v.node = "CONFIG"  BY <1>7 DEF Installed
  <2> HIDE DEF y
  <2>3. Goes(x, y, f, o)  BY <2>1, <2>2, GoesNode DEF ConfigNodes
  <2> QED  BY <2>3 DEF y
<1>8. CASE cmd \in {"end", "^C"}
  <2>1. y = ToEnable(x)  BY <1>8 DEF Execute
  <2> HIDE DEF y
  <2>2. Goes(x, y, f, o)  BY <2>1, EnableWorks
  <2> QED  BY <2>2 DEF y
<1>9. CASE cmd = "exec-timeout"
  <2>1. y = exec_timeout(x, f, TRUE)  BY <1>9 DEF Execute
  <2> HIDE DEF y
  <2>2. Goes(x, y, f, o)  BY <2>1, TimeoutWorks
  <2> QED  BY <2>2 DEF y
<1>10. CASE cmd = "no exec-timeout"
  <2>1. y = exec_timeout(x, f, FALSE)  BY <1>10 DEF Execute
  <2> HIDE DEF y
  <2>2. Goes(x, y, f, o)  BY <2>1, TimeoutWorks
  <2> QED  BY <2>2 DEF y
<1>11. CASE cmd \notin {"exit", "enable", "disable", "length 0", "no length", "configure",
                        "line vty", "end", "^C", "exec-timeout", "no exec-timeout"}
  <2>1. y = x  BY <1>11 DEF Execute
  <2> QED  BY <2>1, GoesSelf
<1> QED  BY <1>1, <1>2, <1>3, <1>4, <1>5, <1>6, <1>7, <1>8, <1>9, <1>10, <1>11

LEMMA AuthWorks ==
    ASSUME NEW x, NEW f \in Fds, NEW o \in BOOLEAN, Running(x, f, o), NEW good,
           x.v.node = "AUTH", x.v.status # "CLOSE"
    PROVE  Goes(x, vty_auth(x, good), f, o)
<1> DEFINE y == vty_auth(x, good)
           n == IF Advanced THEN "ENABLE" ELSE "VIEW"
           s == IF x.v.fail >= 2 THEN "CLOSE" ELSE x.v.status
           w1 == [x.v EXCEPT !.fail = 0, !.node = n]
           w2 == [x.v EXCEPT !.fail = x.v.fail + 1, !.status = s]
<1>1. Whole(x) /\ x.v \in Work /\ LockBy(x.lock, x.v.config, o) /\ Configuring(x.v)
      /\ x.v.fail \in 0..2 /\ x.v.config \in BOOLEAN
  BY WorkFacts DEF Running, Entered, XInv
<1>2. ~x.v.config  BY <1>1, Zenon DEF Configuring, ConfigNodes
<1>3. CASE good
  <2>1. IsTriple(y, x.m, w1, x.lock)  BY <1>1, <1>3 DEF vty_auth, IsTriple, Whole
  <2>2. n \in {"VIEW", "ENABLE", "CONFIG", "VTY", "AUTH"} /\ n \notin {"CONFIG", "VTY"}
        /\ 0 \in 0..3
    OBVIOUS
  <2> HIDE DEF n, y, s, w2
  <2>3. /\ w1 \in Work /\ w1.node = n /\ w1.config = x.v.config /\ w1.fail = 0
        /\ w1.t_read = x.v.t_read /\ w1.t_write = x.v.t_write /\ w1.t_timeout = x.v.t_timeout
        /\ w1.v_timeout = x.v.v_timeout
    BY <1>1, <2>2 DEF Work
  <2> HIDE DEF w1
  <2>4. Configuring(w1)  BY <1>2, <2>2, <2>3 DEF Configuring, ConfigNodes
  <2>5. w1.fail \in 0..2  BY <2>3
  <2>6. Goes(x, y, f, o)  BY <1>1, <2>1, <2>3, <2>4, <2>5, GoesSet
  <2> QED  BY <2>6 DEF y
<1>4. CASE ~good
  <2>1. IsTriple(y, x.m, w2, x.lock)  BY <1>1, <1>4 DEF vty_auth, IsTriple, Whole
  <2>2. s \in {"NORMAL", "MORE", "MORELINE", "CLOSE"}  BY <1>1 DEF Work
  <2>3. x.v.fail + 1 \in 0..3 /\ (x.v.fail + 1 \in 0..2 \/ s = "CLOSE")  BY <1>1
  <2> HIDE DEF s, y
  <2>4. /\ w2 \in Work /\ w2.node = "AUTH" /\ w2.config = x.v.config
        /\ w2.fail = x.v.fail + 1 /\ w2.status = s
        /\ w2.t_read = x.v.t_read /\ w2.t_write = x.v.t_write /\ w2.t_timeout = x.v.t_timeout
        /\ w2.v_timeout = x.v.v_timeout
    BY <1>1, <2>2, <2>3 DEF Work
  <2> HIDE DEF w2
  <2>5. Configuring(w2)  BY <1>2, <2>4 DEF Configuring, ConfigNodes
  <2>6. w2.fail \in 0..2 \/ w2.status = "CLOSE"  BY <2>3, <2>4
  <2>7. Goes(x, y, f, o)  BY <1>1, <2>1, <2>4, <2>5, <2>6, GoesSet
  <2> QED  BY <2>7 DEF y
<1> QED  BY <1>3, <1>4

-----------------------------------------------------------------------------
(* vty_flush.                                                              *)
IsStatus(y, x, s) == y = [x EXCEPT !.v.status = s]

LEMMA StatusWorks ==
    ASSUME NEW x, NEW f \in Fds, NEW o \in BOOLEAN, Running(x, f, o),
           x.v.status # "CLOSE", NEW s \in {"NORMAL", "MORE", "MORELINE"},
           NEW y, IsStatus(y, x, s)
    PROVE  /\ Goes(x, y, f, o)
           /\ y.v.status = s /\ y.v.nopage = x.v.nopage
           /\ y.v.t_write = x.v.t_write /\ y.v.obuf = x.v.obuf
<1> DEFINE w == [x.v EXCEPT !.status = s]
<1>1. Whole(x) /\ x.v \in Work /\ LockBy(x.lock, x.v.config, o) /\ Configuring(x.v)
      /\ x.v.fail \in 0..2
  BY DEF Running, Entered, XInv
<1>2. IsTriple(y, x.m, w, x.lock)  BY <1>1 DEF IsStatus, IsTriple, Whole
<1>3. /\ w \in Work /\ w.node = x.v.node /\ w.config = x.v.config
      /\ w.t_read = x.v.t_read /\ w.t_write = x.v.t_write /\ w.t_timeout = x.v.t_timeout
      /\ w.v_timeout = x.v.v_timeout /\ w.fail = x.v.fail /\ w.status = s
      /\ w.nopage = x.v.nopage /\ w.obuf = x.v.obuf
  BY <1>1 DEF Work
<1> HIDE DEF w
<1>4. Configuring(w)  BY <1>1, <1>3 DEF Configuring
<1>5. y.v = w  BY <1>2, Triple
<1> QED  BY <1>1, <1>2, <1>3, <1>4, <1>5, GoesSet

(* A handler of which only the last part is known.                         *)
LEMMA DoneAfter ==
    ASSUME NEW x, NEW y, NEW z, NEW f, NEW o, Goes(x, y, f, o), Done(y.m, z, f, o)
    PROVE  Done(x.m, z, f, o)
<1>1. Apart(x.m, z.m, f)  BY ApartTrans DEF Goes, Done
<1> QED  BY <1>1 DEF Done

LEMMA RunningStep ==
    ASSUME NEW x, NEW y, NEW f, NEW o, Running(x, f, o), Step(x, y, f), Timed(y.v)
    PROVE  /\ Running(y, f, o) /\ Apart(x.m, y.m, f)
           /\ y.v.nopage = x.v.nopage /\ y.v.status = x.v.status /\ y.v.obuf = x.v.obuf
BY DEF Running, Entered, Step, SameSession, Configuring

LEMMA DisabledWorks ==
    ASSUME NEW x, NEW f \in Fds, NEW o \in BOOLEAN, Running(x, f, o),
           x.v.nopage \/ x.v.t_read # NULL
    PROVE  LET y == Disabled(x) IN
           /\ Running(y, f, o) /\ Apart(x.m, y.m, f)
           /\ y.v.nopage = x.v.nopage /\ y.v.status = x.v.status
           /\ y.v.nopage <=> y.v.t_read = NULL
<1> DEFINE y == Disabled(x)
           d == thread_cancel(x.m, {x.v.t_read})
<1>1. XInv(x, f) /\ x.v.nopage \in BOOLEAN  BY WorkFacts DEF Running, Entered, XInv
<1>2. CASE x.v.nopage /\ x.v.t_read # NULL
  <2>1. IsPutRead(y, x, d, NULL)  BY <1>2 DEF Disabled, IsPutRead
  <2>2. Changed(x.m, d, "vty_read", f, {})
    BY <1>1, <1>2, NamesFacts, CancelOne, FuncFacts
  <2> HIDE DEF y, d
  <2>3. Named(NULL) = {} /\ NULL \in Thread \cup {NULL}  BY DEF Named
  <2>4. Changed(x.m, d, "vty_read", f, Named(NULL))  BY <2>2, <2>3
  <2>5. /\ Step(x, y, f) /\ y.v.t_read = NULL /\ y.v.t_timeout = x.v.t_timeout
    BY <1>1, <2>1, <2>3, <2>4, PutRead
  <2>6. Timed(y.v)  BY <2>5 DEF Running, Entered, Step, SameSession, Timed
  <2>7. /\ Running(y, f, o) /\ Apart(x.m, y.m, f)
        /\ y.v.nopage = x.v.nopage /\ y.v.status = x.v.status
    BY <2>5, <2>6, RunningStep
  <2> QED  BY <1>2, <2>5, <2>7 DEF y
<1>3. CASE ~(x.v.nopage /\ x.v.t_read # NULL)
  <2>1. y = x  BY <1>3 DEF Disabled
  <2>2. x.v.nopage <=> x.v.t_read = NULL  BY <1>3
  <2> HIDE DEF y
  <2> QED  BY <2>1, <2>2, ApartSelf DEF y
<1> QED  BY <1>2, <1>3

LEMMA FlushEndWorks ==
    ASSUME NEW x, NEW f \in Fds, NEW o \in BOOLEAN, Running(x, f, o),
           x.v.status # "CLOSE", x.v.nopage <=> x.v.t_read = NULL
    PROVE  Done(x.m, FlushEnd(x, f), f, o) /\ FlushEnd(x, f).v # NoVty
<1> DEFINE more == [x EXCEPT !.v.status = "MORE"]
           all == [x EXCEPT !.v.status = "NORMAL"]
           y == FlushEnd(x, f)
<1>1. IsStatus(more, x, "MORE") /\ IsStatus(all, x, "NORMAL")  BY DEF IsStatus
<1>2. x.v.obuf \in Nat /\ x.v.nopage \in BOOLEAN
  <2>1. x.v \in Work  BY DEF Running, Entered, XInv
  <2>2. x.v.obuf \in 0..Screens /\ x.v.nopage \in BOOLEAN  BY <2>1 DEF Work
  <2> QED  BY <2>2
<1>3. /\ x.v.obuf > 0 /\ x.v.nopage => y = VTY_WRITE(more, f)
      /\ x.v.obuf > 0 /\ ~x.v.nopage => y = more
      /\ x.v.obuf = 0 /\ x.v.nopage => y = VTY_READ(all, f)
      /\ x.v.obuf = 0 /\ ~x.v.nopage => y = all
  BY <1>2 DEF FlushEnd
<1>4. x.v.obuf > 0 \/ x.v.obuf = 0  BY <1>2
<1> HIDE DEF more, all, y
<1>5. /\ Goes(x, more, f, o) /\ more.v.status = "MORE" /\ more.v.nopage = x.v.nopage
      /\ more.v.t_read = x.v.t_read
  BY <1>1, StatusWorks DEF Goes
<1>6. /\ Goes(x, all, f, o) /\ all.v.status = "NORMAL" /\ all.v.nopage = x.v.nopage
      /\ all.v.t_read = x.v.t_read
  BY <1>1, StatusWorks DEF Goes
<1>7. Running(more, f, o) /\ XInv(more, f) /\ Timed(more.v)
      /\ Running(all, f, o) /\ XInv(all, f) /\ Timed(all.v)
  BY <1>5, <1>6 DEF Goes, Running, Entered
<1>8. CASE x.v.obuf > 0 /\ x.v.nopage
  <2>1. y = VTY_WRITE(more, f)  BY <1>3, <1>8
  <2>2. /\ Step(more, y, f) /\ y.v.t_write # NULL
        /\ y.v.t_timeout = more.v.t_timeout
    BY <1>7, <2>1, VtyWriteWorks
  <2>3. y.v.nopage = x.v.nopage /\ y.v.v_timeout = more.v.v_timeout
    BY <1>5, <2>2 DEF Step, SameSession
  <2>4. Timed(y.v) /\ Hears(y.v)  BY <1>7, <1>8, <2>2, <2>3 DEF Timed, Hears
  <2>5. Done(more.m, y, f, o) /\ y.v # NoVty  BY <1>5, <1>7, <2>2, <2>4, DoneOpen DEF Running
  <2>6. Done(x.m, y, f, o) /\ y.v # NoVty  BY <1>5, <2>5, DoneAfter
  <2> QED  BY <2>6 DEF y
<1>9. CASE x.v.obuf > 0 /\ ~x.v.nopage
  <2>1. y = more  BY <1>3, <1>9
  <2>2. Step(more, more, f) /\ Hears(more.v)  BY <1>5, <1>7, <1>9, StepSelf DEF Hears
  <2>3. Done(more.m, more, f, o) /\ more.v # NoVty  BY <1>5, <1>7, <2>2, DoneOpen DEF Running
  <2>4. Done(x.m, more, f, o) /\ more.v # NoVty  BY <1>5, <2>3, DoneAfter
  <2> QED  BY <2>1, <2>4 DEF y
<1>10. CASE x.v.obuf = 0 /\ x.v.nopage
  <2>1. y = VTY_READ(all, f)  BY <1>3, <1>10
  <2>2. Step(all, y, f) /\ y.v.t_read # NULL /\ Timed(y.v)
    BY <1>6, <1>7, <1>10, <2>1, VtyReadWorks
  <2>3. Hears(y.v)  BY <2>2 DEF Hears
  <2>4. Done(all.m, y, f, o) /\ y.v # NoVty  BY <1>6, <1>7, <2>2, <2>3, DoneOpen DEF Running
  <2>5. Done(x.m, y, f, o) /\ y.v # NoVty  BY <1>6, <2>4, DoneAfter
  <2> QED  BY <2>5 DEF y
<1>11. CASE x.v.obuf = 0 /\ ~x.v.nopage
  <2>1. y = all  BY <1>3, <1>11
  <2>2. Step(all, all, f) /\ Hears(all.v)  BY <1>6, <1>7, <1>11, StepSelf DEF Hears
  <2>3. Done(all.m, all, f, o) /\ all.v # NoVty  BY <1>6, <1>7, <2>2, DoneOpen DEF Running
  <2>4. Done(x.m, all, f, o) /\ all.v # NoVty  BY <1>6, <2>3, DoneAfter
  <2> QED  BY <2>1, <2>4 DEF y
<1> QED  BY <1>2, <1>4, <1>8, <1>9, <1>10, <1>11

-----------------------------------------------------------------------------
(* The inductive invariant, by its parts: sessions and scheduler, the      *)
(* lock, the accept socket, and the clients.                               *)
LockHeld(vt, lock) ==
    /\ lock \in BOOLEAN /\ (lock <=> \E f \in Fds : Holds(vt[f]))
    /\ \A f, g \in Fds : Holds(vt[f]) /\ Holds(vt[g]) => f = g

SessionsInv(mm, vt, lock) ==
    /\ MInv(mm)
    /\ vt \in [Fds -> Session \cup {NoVty}]
    /\ \A f \in Fds : Good(mm.th, vt[f], f)
    /\ LockHeld(vt, lock)

(* The slot may have lost the pointer, with the socket still listened to.  *)
(* What select() found is still there when the handler starts.             *)
AcceptInv(th, serv, open, b) ==
    /\ serv \in Thread \cup {NULL} /\ open \in BOOLEAN /\ b \in Nat
    /\ open <=> QueuedIn(th, "vty_accept", ServFd) # {}
    /\ serv # NULL => QueuedIn(th, "vty_accept", ServFd) = {serv}
    /\ Accepting(th) # {} => b > 0

PeerInv(vt, p) ==
    /\ p \in [Fds -> [data : BOOLEAN, gone : BOOLEAN]]
    /\ \A f \in Fds : vt[f] = NoVty => p[f] = Quiet

IInv ==
    /\ SessionsInv(m, vty, vty_config)
    /\ AcceptInv(m.th, serv_thread, listening, backlog)
    /\ PeerInv(vty, peer)
    /\ vty_timeout_val \in BOOLEAN

Others(vt, f) == \E g \in Fds \ {f} : Holds(vt[g])

LEMMA OthersFacts ==
    ASSUME NEW vt, NEW lock, LockHeld(vt, lock), NEW f \in Fds
    PROVE  /\ Others(vt, f) \in BOOLEAN
           /\ lock <=> Holds(vt[f]) \/ Others(vt, f)
           /\ ~(Holds(vt[f]) /\ Others(vt, f))
<1>1. Others(vt, f) \in BOOLEAN  BY DEF Others
<1>2. lock <=> Holds(vt[f]) \/ Others(vt, f)  BY DEF LockHeld, Others
<1>3. ~(Holds(vt[f]) /\ Others(vt, f))  BY DEF LockHeld, Others
<1> QED  BY <1>1, <1>2, <1>3

IsSet(vt2, vt, f, v) == vt2 = [vt EXCEPT ![f] = v]

LEMMA SetSession ==
    ASSUME NEW vt \in [Fds -> Session \cup {NoVty}], NEW f \in Fds,
           NEW v \in Session \cup {NoVty}, NEW vt2, IsSet(vt2, vt, f, v)
    PROVE  /\ vt2 \in [Fds -> Session \cup {NoVty}] /\ vt2[f] = v
           /\ \A g \in Fds \ {f} : vt2[g] = vt[g]
<1> DEFINE R == Session \cup {NoVty}
<1> HIDE DEF R
<1>1. /\ vt2 \in [Fds -> R] /\ vt2[f] = v
      /\ \A g \in Fds \ {f} : vt2[g] = vt[g]
  BY DEF IsSet, R
<1> QED  BY <1>1 DEF R

LEMMA SetLock ==
    ASSUME NEW vt, NEW lock, LockHeld(vt, lock), NEW f \in Fds, NEW vt2, NEW lock2,
           \A g \in Fds \ {f} : vt2[g] = vt[g],
           LockBy(lock2, Holds(vt2[f]), Others(vt, f))
    PROVE  LockHeld(vt2, lock2)
<1>1. lock2 \in BOOLEAN /\ (lock2 <=> Holds(vt2[f]) \/ Others(vt, f))
      /\ ~(Holds(vt2[f]) /\ Others(vt, f))
  BY DEF LockBy
<1>2. Others(vt, f) <=> \E g \in Fds \ {f} : Holds(vt2[g])  BY DEF Others
<1>3. \A g, h \in Fds \ {f} : Holds(vt2[g]) /\ Holds(vt2[h]) => g = h
  BY DEF LockHeld
<1> QED  BY <1>1, <1>2, <1>3 DEF LockHeld

LEMMA GoodSame ==
    ASSUME NEW th, NEW th2, NEW v, NEW f,
           \A fn \in SessionFunc : QueuedIn(th2, fn, f) = QueuedIn(th, fn, f),
           Good(th, v, f)
    PROVE  Good(th2, v, f)
<1>1. "vty_read" \in SessionFunc /\ "vty_flush" \in SessionFunc /\ "vty_timeout" \in SessionFunc
  BY FuncFacts
<1>2. CASE v = NoVty  BY <1>2 DEF Good
<1>3. CASE v # NoVty  BY <1>1, <1>3 DEF Good, Names
<1> QED  BY <1>2, <1>3

(* What holds when handler func of f starts: it is queued no longer.       *)
Ran(mm, m0, func, f, b) ==
    /\ MInv(m0)
    /\ Accepting(m0.th) # {} => b > 0
    /\ \A fn \in Funcs, g \in Fd :
         QueuedIn(m0.th, fn, g) = IF fn = func /\ g = f THEN {}
                                                        ELSE QueuedIn(mm.th, fn, g)
    /\ QueuedIn(mm.th, func, f) # {}
    /\ func = "vty_accept" => b > 0

LEMMA FetchedWorks ==
    ASSUME IInv, NEW func \in Funcs, NEW f \in Fd,
           NEW mm \in Fetchable(m, Readable, Gone), Ready(func, f, mm)
    PROVE  Ran(m, RunReady(mm), func, f, backlog)
<1> DEFINE h == Head(mm.ready)
           m0 == RunReady(mm)
<1>1. MInv(m) /\ AcceptInv(m.th, serv_thread, listening, backlog)
  BY DEF IInv, SessionsInv
<1>2. Selected(m, mm, Readable) /\ mm.ready # <<>>  BY <1>1, FetchWorks
<1>3. MInv(mm) /\ (Accepting(mm.th) # {} => backlog > 0)
      /\ \A fn \in Funcs, g \in Fd : QueuedIn(mm.th, fn, g) = QueuedIn(m.th, fn, g)
  <2>1. ServFd \in Readable => backlog > 0
    <3>1. ServFd \notin Live  BY Constants DEF Live
    <3> QED  BY <3>1 DEF Readable
  <2> QED  BY <1>1, <1>2, <2>1 DEF Selected, AcceptInv
<1>4. h \in Of(mm.th, "READY") /\ Freed(mm, m0, {h})  BY <1>2, <1>3, RunReadyWorks
<1>5. mm.th[h].func = func /\ mm.th[h].arg = f /\ h \in Thread /\ mm.th[h].type = "READY"
  BY <1>4 DEF Ready, Of
<1> HIDE DEF h, m0
<1>6. QueuedIn(mm.th, func, f) = {h}
  <2>1. \A t, u \in Thread :
          mm.th[t].type # "UNUSED" /\ mm.th[t].func = mm.th[u].func
            /\ mm.th[t].arg = mm.th[u].arg => t = u
    BY <1>3, MInvFacts DEF Book
  <2>2. \A t \in QueuedIn(mm.th, func, f) : t = h  BY <1>5, <2>1 DEF QueuedIn
  <2>3. h \in QueuedIn(mm.th, func, f)  BY <1>5 DEF QueuedIn
  <2> QED  BY <2>2, <2>3
<1>7. Changed(mm, m0, func, f, {})  BY <1>3, <1>4, <1>6, FreedChanged
<1>8. func = "vty_accept" => h \in Accepting(mm.th)  BY <1>5 DEF Accepting
<1>9. /\ MInv(m0) /\ Accepting(m0.th) \subseteq Accepting(mm.th)
      /\ \A fn \in Funcs, g \in Fd :
           QueuedIn(m0.th, fn, g) = IF fn = func /\ g = f THEN {}
                                                          ELSE QueuedIn(mm.th, fn, g)
  BY <1>7 DEF Changed
<1>10. Accepting(m0.th) # {} => backlog > 0  BY <1>3, <1>9
<1>11. func = "vty_accept" => backlog > 0  BY <1>3, <1>8
<1>12. QueuedIn(m.th, func, f) # {}  BY <1>3, <1>6
<1>13. \A fn \in Funcs, g \in Fd :
          QueuedIn(m0.th, fn, g) = IF fn = func /\ g = f THEN {}
                                                         ELSE QueuedIn(m.th, fn, g)
  BY <1>3, <1>9
<1> QED  BY <1>9, <1>10, <1>11, <1>12, <1>13 DEF Ran, m0

(* The session whose handler starts, changed into w.                       *)
LEMMA StartWorks ==
    ASSUME IInv, NEW f \in Fds, vty[f] # NoVty, NEW m0, MInv(m0), NEW w \in Work,
           Names(m0.th, f, w), Timed(w), w.node = vty[f].node, w.config = vty[f].config,
           w.fail = vty[f].fail, NEW x, IsTriple(x, m0, w, vty_config)
    PROVE  /\ Running(x, f, Others(vty, f)) /\ Others(vty, f) \in BOOLEAN
           /\ x.m = m0 /\ x.v = w
<1>1. /\ LockHeld(vty, vty_config) /\ Good(m.th, vty[f], f)
      /\ vty \in [Fds -> Session \cup {NoVty}]
  BY DEF IInv, SessionsInv
<1>2. vty[f] \in Session  BY <1>1
<1>3. Configuring(vty[f]) /\ Holds(vty[f]) = vty[f].config /\ vty[f].fail \in 0..2
  BY <1>1, <1>2, SessionFacts DEF Good
<1>4. x.m = m0 /\ x.v = w /\ x.lock = vty_config /\ Whole(x)  BY Triple
<1>5. vty_config \in BOOLEAN /\ LockBy(vty_config, w.config, Others(vty, f))
      /\ Others(vty, f) \in BOOLEAN
  <2>1. /\ Others(vty, f) \in BOOLEAN
        /\ vty_config <=> Holds(vty[f]) \/ Others(vty, f)
        /\ ~(Holds(vty[f]) /\ Others(vty, f))
    BY <1>1, OthersFacts
  <2>2. vty_config \in BOOLEAN  BY <1>1 DEF LockHeld
  <2>3. w.config = Holds(vty[f])  BY <1>3
  <2> QED  BY <2>1, <2>2, <2>3, Zenon DEF LockBy
<1>6. Configuring(w)  BY <1>3 DEF Configuring
<1>7. XInv(x, f)  BY <1>4, <1>5 DEF XInv
<1> QED  BY <1>3, <1>4, <1>5, <1>6, <1>7 DEF Running, Entered

(* What the handler leaves is right for all sessions.                      *)
LEMMA SessionsKept ==
    ASSUME IInv, NEW f \in Fds, NEW m0,
           \A fn \in SessionFunc, g \in Fds \ {f} :
             QueuedIn(m0.th, fn, g) = QueuedIn(m.th, fn, g),
           NEW y, Done(m0, y, f, Others(vty, f)), NEW vt2, IsSet(vt2, vty, f, y.v)
    PROVE  /\ SessionsInv(y.m, vt2, y.lock)
           /\ vt2[f] = y.v /\ \A g \in Fds \ {f} : vt2[g] = vty[g]
<1>1. /\ LockHeld(vty, vty_config) /\ (\A g \in Fds : Good(m.th, vty[g], g))
      /\ vty \in [Fds -> Session \cup {NoVty}]
  BY DEF IInv, SessionsInv
<1>2. /\ MInv(y.m) /\ Apart(m0, y.m, f) /\ Good(y.m.th, y.v, f)
      /\ LockBy(y.lock, Holds(y.v), Others(vty, f))
  BY DEF Done
<1>3. y.v \in Session \cup {NoVty}  BY <1>2 DEF Good
<1>4. /\ vt2 \in [Fds -> Session \cup {NoVty}] /\ vt2[f] = y.v
      /\ \A g \in Fds \ {f} : vt2[g] = vty[g]
  BY <1>1, <1>3, SetSession
<1>5. LockHeld(vt2, y.lock)  BY <1>1, <1>2, <1>4, SetLock
<1>6. ASSUME NEW g \in Fds  PROVE Good(y.m.th, vt2[g], g)
  <2>1. CASE g = f  BY <1>2, <1>4, <2>1
  <2>2. CASE g # f
    <3>1. g \in Fd \ {f} /\ SessionFunc \subseteq Funcs  BY <2>2, FuncFacts
    <3>2. \A fn \in SessionFunc : QueuedIn(y.m.th, fn, g) = QueuedIn(m.th, fn, g)
      BY <1>2, <2>2, <3>1 DEF Apart
    <3>3. Good(y.m.th, vty[g], g)  BY <1>1, <3>2, GoodSame
    <3> QED  BY <1>4, <2>2, <3>3
  <2> QED  BY <2>1, <2>2
<1> QED  BY <1>2, <1>4, <1>5, <1>6 DEF SessionsInv

-----------------------------------------------------------------------------
(* The accept socket, and a step of a session's handler.                   *)
LEMMA AcceptKept ==
    ASSUME NEW th, NEW th2, NEW serv, NEW open, NEW b, AcceptInv(th, serv, open, b),
           QueuedIn(th2, "vty_accept", ServFd) = QueuedIn(th, "vty_accept", ServFd),
           Accepting(th2) # {} => b > 0
    PROVE  AcceptInv(th2, serv, open, b)
BY DEF AcceptInv

LEMMA HandledWorks ==
    ASSUME IInv, NEW f \in Fds, NEW func \in SessionFunc, NEW m0,
           Ran(m, m0, func, f, backlog), NEW y, Done(m0, y, f, Others(vty, f)),
           Handled(y, f), PeerInv(vty', peer'), vty_timeout_val' \in BOOLEAN
    PROVE  IInv'
<1>1. IsSet(vty', vty, f, y.v) /\ m' = y.m /\ vty_config' = y.lock
      /\ UNCHANGED <<serv_thread, listening, backlog>>
  BY DEF Handled, IsSet
<1>2. func # "vty_accept" /\ ServFd # f /\ ServFd \in Fd \ {f} /\ "vty_accept" \in Funcs
  BY FuncFacts, Constants
<1>3. \A fn \in Funcs, g \in Fd \ {f} : QueuedIn(m0.th, fn, g) = QueuedIn(m.th, fn, g)
  BY DEF Ran
<1>4. SessionsInv(y.m, vty', y.lock)
  <2>1. \A fn \in SessionFunc, g \in Fds \ {f} :
          QueuedIn(m0.th, fn, g) = QueuedIn(m.th, fn, g)
    BY <1>3, FuncFacts
  <2> QED  BY <1>1, <2>1, SessionsKept
<1>5. AcceptInv(y.m.th, serv_thread, listening, backlog)
  <2>1. Apart(m0, y.m, f)  BY DEF Done
  <2>2. QueuedIn(y.m.th, "vty_accept", ServFd) = QueuedIn(m.th, "vty_accept", ServFd)
    BY <1>2, <1>3, <2>1 DEF Apart
  <2>3. Accepting(y.m.th) # {} => backlog > 0  BY <2>1 DEF Apart, Ran
  <2>4. AcceptInv(m.th, serv_thread, listening, backlog)  BY DEF IInv
  <2> QED  BY <2>2, <2>3, <2>4, AcceptKept
<1>6. SessionsInv(m', vty', vty_config')
      /\ AcceptInv(m'.th, serv_thread', listening', backlog')
  BY <1>1, <1>4, <1>5
<1> QED  BY <1>6 DEF IInv

(* A session's handler runs for a session that is there.                   *)
LEMMA HandlerLive ==
    ASSUME IInv, NEW f \in Fds, NEW func \in SessionFunc, NEW m0,
           Ran(m, m0, func, f, backlog)
    PROVE  /\ vty[f] # NoVty /\ vty[f] \in Session /\ Names(m.th, f, vty[f])
           /\ Timed(vty[f]) /\ Hears(vty[f]) /\ MInv(m0)
           /\ \A fn \in SessionFunc :
                QueuedIn(m0.th, fn, f) = IF fn = func THEN {} ELSE QueuedIn(m.th, fn, f)
<1>1. Good(m.th, vty[f], f) /\ QueuedIn(m.th, func, f) # {} /\ MInv(m0)
  BY DEF IInv, SessionsInv, Ran
<1>2. vty[f] # NoVty  BY <1>1 DEF Good
<1>3. \A fn \in SessionFunc :
         QueuedIn(m0.th, fn, f) = IF fn = func THEN {} ELSE QueuedIn(m.th, fn, f)
  BY FuncFacts DEF Ran
<1> QED  BY <1>1, <1>2, <1>3 DEF Good

(* The clients: the one of session f has been heard, or is forgotten.      *)
LEMMA PeerSet ==
    ASSUME IInv, NEW f \in Fds, \A g \in Fds \ {f} : vty'[g] = vty[g],
           NEW r, peer' = [peer EXCEPT ![f] = r],
           r \in [data : BOOLEAN, gone : BOOLEAN], vty'[f] = NoVty => r = Quiet
    PROVE  PeerInv(vty', peer')
<1> DEFINE R == [data : BOOLEAN, gone : BOOLEAN]
<1>1. peer \in [Fds -> R] /\ \A g \in Fds : vty[g] = NoVty => peer[g] = Quiet
  BY DEF IInv, PeerInv
<1>2. r \in R  OBVIOUS
<1> HIDE DEF R
<1>3. peer' \in [Fds -> R] /\ peer'[f] = r /\ \A g \in Fds \ {f} : peer'[g] = peer[g]
  BY <1>1, <1>2
<1>4. \A g \in Fds : vty'[g] = NoVty => peer'[g] = Quiet  BY <1>1, <1>3
<1> QED  BY <1>3, <1>4 DEF PeerInv, R

LEMMA VtySet ==
    ASSUME IInv, NEW f \in Fds, NEW y, y.v \in Session \cup {NoVty}, Handled(y, f)
    PROVE  vty'[f] = y.v /\ \A g \in Fds \ {f} : vty'[g] = vty[g]
<1>1. vty \in [Fds -> Session \cup {NoVty}] /\ IsSet(vty', vty, f, y.v)
  BY DEF IInv, SessionsInv, Handled, IsSet
<1> QED  BY <1>1, SetSession

LEMMA DoneType ==
    ASSUME NEW mm, NEW y, NEW f, NEW o, Done(mm, y, f, o)
    PROVE  y.v \in Session \cup {NoVty}
BY DEF Done, Good

LEMMA PeerFacts ==
    ASSUME IInv, NEW f \in Fds
    PROVE  /\ peer[f] \in [data : BOOLEAN, gone : BOOLEAN]
           /\ Quiet \in [data : BOOLEAN, gone : BOOLEAN]
           /\ [peer[f] EXCEPT !.data = FALSE] \in [data : BOOLEAN, gone : BOOLEAN]
           /\ [peer[f] EXCEPT !.data = TRUE] \in [data : BOOLEAN, gone : BOOLEAN]
           /\ [peer[f] EXCEPT !.gone = TRUE] \in [data : BOOLEAN, gone : BOOLEAN]
<1>1. peer[f] \in [data : BOOLEAN, gone : BOOLEAN]  BY DEF IInv, PeerInv
<1> QED  BY <1>1 DEF Quiet

-----------------------------------------------------------------------------
(* vty_read.                                                               *)
IsReading(x, m0, v, lk) == x = [[m |-> m0, v |-> v, lock |-> lk] EXCEPT !.v.t_read = NULL]

LEMMA ReadStart ==
    ASSUME IInv, NEW f \in Fds, NEW mm \in Fetchable(m, Readable, Gone),
           Ready("vty_read", f, mm), NEW x, IsReading(x, RunReady(mm), vty[f], vty_config)
    PROVE  /\ Ran(m, RunReady(mm), "vty_read", f, backlog)
           /\ Running(x, f, Others(vty, f)) /\ Others(vty, f) \in BOOLEAN
           /\ x.m = RunReady(mm) /\ x.v.t_read = NULL /\ x.v.status # "CLOSE"
<1> DEFINE m0 == RunReady(mm)
           w == [vty[f] EXCEPT !.t_read = NULL]
<1>1. Ran(m, m0, "vty_read", f, backlog)  BY FetchedWorks, FuncFacts
<1> HIDE DEF m0
<1>2. /\ vty[f] # NoVty /\ vty[f] \in Session /\ Names(m.th, f, vty[f])
      /\ Timed(vty[f]) /\ MInv(m0)
      /\ \A fn \in SessionFunc :
           QueuedIn(m0.th, fn, f) = IF fn = "vty_read" THEN {} ELSE QueuedIn(m.th, fn, f)
  BY <1>1, HandlerLive, FuncFacts
<1>3. IsTriple(x, m0, w, vty_config)  BY DEF IsReading, IsTriple, m0
<1>4. vty[f] \in Work /\ vty[f].status # "CLOSE"  BY <1>2, SessionFacts
<1>5. /\ w \in Work /\ w.node = vty[f].node /\ w.config = vty[f].config
      /\ w.fail = vty[f].fail /\ w.t_read = NULL /\ w.t_write = vty[f].t_write
      /\ w.t_timeout = vty[f].t_timeout /\ w.v_timeout = vty[f].v_timeout
      /\ w.status = vty[f].status
  BY <1>4 DEF Work
<1> HIDE DEF w
<1>6. Names(m0.th, f, w)
  <2>1. Named(NULL) = {}  BY DEF Named
  <2> QED  BY <1>2, <1>5, <2>1, FuncFacts DEF Names
<1>7. Timed(w)  BY <1>2, <1>5 DEF Timed
<1>8. /\ Running(x, f, Others(vty, f)) /\ Others(vty, f) \in BOOLEAN
      /\ x.m = m0 /\ x.v = w
  BY <1>2, <1>3, <1>5, <1>6, <1>7, StartWorks
<1> QED  BY <1>1, <1>4, <1>5, <1>8 DEF m0

(* It has changed the session into x, and ends.                            *)
LEMMA ReadOver ==
    ASSUME IInv, NEW f \in Fds, NEW x0, Ran(m, x0.m, "vty_read", f, backlog),
           Others(vty, f) \in BOOLEAN, x0.v.t_read = NULL,
           NEW x, Goes(x0, x, f, Others(vty, f)), Handled(vty_read_end(x, f), f),
           peer' = [peer EXCEPT ![f] =
                      IF vty'[f] = NoVty THEN Quiet ELSE [@ EXCEPT !.data = FALSE]],
           vty_timeout_val' \in BOOLEAN
    PROVE  IInv'
<1> DEFINE y == vty_read_end(x, f)
           r == IF vty'[f] = NoVty THEN Quiet ELSE [peer[f] EXCEPT !.data = FALSE]
<1>1. Done(x0.m, y, f, Others(vty, f))
  <2>1. Done(x.m, y, f, Others(vty, f))  BY ReadEndWorks DEF Goes
  <2> HIDE DEF y
  <2> QED  BY <2>1, DoneAfter
<1>2. Handled(y, f)  OBVIOUS
<1>3. peer' = [peer EXCEPT ![f] = r]  OBVIOUS
<1>4. r \in [data : BOOLEAN, gone : BOOLEAN] /\ (vty'[f] = NoVty => r = Quiet)
  BY PeerFacts
<1> HIDE DEF y, r
<1>5. \A g \in Fds \ {f} : vty'[g] = vty[g]  BY <1>1, <1>2, DoneType, VtySet
<1>6. PeerInv(vty', peer')  BY <1>3, <1>4, <1>5, PeerSet
<1> QED  BY <1>1, <1>2, <1>6, HandledWorks, FuncFacts

LEMMA vty_readKeeps ==
    ASSUME IInv, NEW f \in Fds, vty_read(f)
    PROVE  IInv'
<1> DEFINE X(mm) == [Fetched(mm, f) EXCEPT !.v.t_read = NULL]
           o == Others(vty, f)
           Heard == peer' = [peer EXCEPT ![f] =
                      IF vty'[f] = NoVty THEN Quiet ELSE [@ EXCEPT !.data = FALSE]]
           Keys3(x) == \/ Handled(vty_read_end([x EXCEPT !.v.obuf = 1], f), f)
                       \/ Handled(vty_read_end([x EXCEPT !.v.status = "MORELINE"], f), f)
                       \/ Handled(vty_read_end(x, f), f)
           Closing(x) == /\ Handled(vty_close([x EXCEPT !.v.status = "CLOSE"]), f)
                         /\ peer' = [peer EXCEPT ![f] = Quiet]
           Auth(x) == x.v.status # "MORE" /\ x.v.node = "AUTH"
                      /\ \E good \in {Password, FALSE} :
                           Handled(vty_read_end(vty_auth(x, good), f), f)
           Command(x, cmd, n) == /\ x.v.node \in Installed(cmd)
                                 /\ Handled(vty_read_end(Printed(Execute(x, f, cmd), n), f), f)
                                 /\ Globals(cmd)
<1>1. PICK mm \in Fetchable(m, Readable, Gone) :
        /\ Ready("vty_read", f, mm)
        /\ \/ Closing(X(mm)) /\ UNCHANGED <<globals, budget>>
           \/ /\ \/ Keys3(X(mm)) /\ UNCHANGED globals
                 \/ Auth(X(mm)) /\ UNCHANGED globals
                 \/ \E cmd \in Commands, n \in 1..Screens : Command(X(mm), cmd, n)
              /\ Heard
  BY DEF vty_read
<1> DEFINE x0 == X(mm)
<1>2. IsReading(x0, RunReady(mm), vty[f], vty_config)  BY DEF IsReading, Fetched
<1>3. /\ Ready("vty_read", f, mm)
      /\ \/ Closing(x0) /\ UNCHANGED <<globals, budget>>
         \/ /\ \/ Keys3(x0) /\ UNCHANGED globals
               \/ Auth(x0) /\ UNCHANGED globals
               \/ \E cmd \in Commands, n \in 1..Screens : Command(x0, cmd, n)
            /\ Heard
  BY <1>1
<1> HIDE DEF X, x0
<1>4. /\ Ran(m, x0.m, "vty_read", f, backlog)
      /\ Running(x0, f, o) /\ o \in BOOLEAN
      /\ x0.v.t_read = NULL /\ x0.v.status # "CLOSE"
  BY <1>2, <1>3, ReadStart
<1>5. vty_timeout_val \in BOOLEAN  BY DEF IInv
<1>6. UNCHANGED globals => vty_timeout_val' \in BOOLEAN  BY <1>5 DEF globals
<1>7. ASSUME NEW x, Goes(x0, x, f, o), Handled(vty_read_end(x, f), f), Heard,
             vty_timeout_val' \in BOOLEAN
      PROVE  IInv'
  <2> HIDE DEF x0
  <2> QED  BY <1>4, <1>7, ReadOver
<1>8. CASE Closing(x0) /\ UNCHANGED <<globals, budget>>
  <2> DEFINE x == [x0 EXCEPT !.v.status = "CLOSE"]
             y == vty_close(x)
  <2>1. IsQuit(x, x0) /\ Handled(y, f)  BY <1>8 DEF IsQuit
  <2>2. Closed(x, y, f) => y.v = NoVty  BY DEF Closed
  <2> HIDE DEF x
  <2>3. Goes(x0, x, f, o)  BY <1>4, <2>1, QuitWorks
  <2>4. Done(x.m, y, f, o) /\ Closed(x, y, f)
    BY <1>4, <2>3, DoneClosed, CloseWorks DEF Goes, Running, Entered
  <2> HIDE DEF y
  <2>5. Done(x0.m, y, f, o)  BY <2>3, <2>4, DoneAfter
  <2>6. \A g \in Fds \ {f} : vty'[g] = vty[g]  BY <2>1, <2>5, DoneType, VtySet
  <2>7. peer' = [peer EXCEPT ![f] = Quiet]  BY <1>8
  <2>8. PeerInv(vty', peer')  BY <2>6, <2>7, PeerFacts, PeerSet
  <2>9. vty_timeout_val' \in BOOLEAN  BY <1>6, <1>8
  <2> QED  BY <1>4, <2>1, <2>5, <2>8, <2>9, HandledWorks, FuncFacts
<1>9. CASE Keys3(x0) /\ UNCHANGED globals /\ Heard
  <2> DEFINE x1 == [x0 EXCEPT !.v.obuf = 1]
             x2 == [x0 EXCEPT !.v.status = "MORELINE"]
  <2>1. IsOut(x1, x0, 1) /\ IsStatus(x2, x0, "MORELINE")  BY DEF IsOut, IsStatus
  <2>2. \/ Handled(vty_read_end(x1, f), f)
        \/ Handled(vty_read_end(x2, f), f)
        \/ Handled(vty_read_end(x0, f), f)
    BY <1>9
  <2> HIDE DEF x1, x2
  <2>3. 1 \in 0..Screens  BY VtyAssumption
  <2>4. Goes(x0, x1, f, o)  BY <1>4, <2>1, <2>3, OutWorks
  <2>5. Goes(x0, x2, f, o)
    <3>1. "MORELINE" \in {"NORMAL", "MORE", "MORELINE"}  OBVIOUS
    <3> HIDE DEF o
    <3> QED  BY <1>4, <2>1, <3>1, StatusWorks
  <2>6. Goes(x0, x0, f, o)  BY <1>4, GoesSelf
  <2> QED  BY <1>6, <1>7, <1>9, <2>2, <2>4, <2>5, <2>6
<1>10. CASE Auth(x0) /\ UNCHANGED globals /\ Heard
  <2>1. x0.v.node = "AUTH"  BY <1>10
  <2>2. PICK good \in {Password, FALSE} : Handled(vty_read_end(vty_auth(x0, good), f), f)
    BY <1>10
  <2>3. Goes(x0, vty_auth(x0, good), f, o)  BY <1>4, <2>1, AuthWorks
  <2> QED  BY <1>6, <1>7, <1>10, <2>2, <2>3
<1>11. CASE (\E cmd \in Commands, n \in 1..Screens : Command(x0, cmd, n)) /\ Heard
  <2>1. PICK cmd \in Commands, n \in 1..Screens : Command(x0, cmd, n)  BY <1>11
  <2> DEFINE z == Execute(x0, f, cmd)
             x == Printed(z, n)
  <2>2. Goes(x0, z, f, o)  BY <1>4, <2>1, ExecuteWorks
  <2>3. Handled(vty_read_end(x, f), f) /\ Globals(cmd)  BY <2>1
  <2> HIDE DEF z
  <2>4. Goes(z, x, f, o)  BY <1>4, <2>2, PrintedWorks DEF Goes
  <2> HIDE DEF x
  <2>5. Goes(x0, x, f, o)  BY <2>2, <2>4, GoesTrans
  <2>6. vty_timeout_val' \in BOOLEAN  BY <1>5, <2>3 DEF Globals
  <2> QED  BY <1>7, <1>11, <2>3, <2>5, <2>6
<1> QED  BY <1>3, <1>8, <1>9, <1>10, <1>11

-----------------------------------------------------------------------------
(* vty_flush and vty_timeout.                                              *)
IsWriting(x, m0, v, lk) == x = [[m |-> m0, v |-> v, lock |-> lk] EXCEPT !.v.t_write = NULL]

LEMMA FlushStart ==
    ASSUME IInv, NEW f \in Fds, NEW mm \in Fetchable(m, Readable, Gone),
           Ready("vty_flush", f, mm), NEW x, IsWriting(x, RunReady(mm), vty[f], vty_config)
    PROVE  /\ Ran(m, RunReady(mm), "vty_flush", f, backlog)
           /\ Running(x, f, Others(vty, f)) /\ Others(vty, f) \in BOOLEAN
           /\ x.m = RunReady(mm) /\ x.v.status # "CLOSE"
           /\ x.v.nopage \/ x.v.t_read # NULL
           /\ vty[f] # NoVty
<1> DEFINE m0 == RunReady(mm)
           w == [vty[f] EXCEPT !.t_write = NULL]
<1>1. Ran(m, m0, "vty_flush", f, backlog)  BY FetchedWorks, FuncFacts
<1> HIDE DEF m0
<1>2. /\ vty[f] # NoVty /\ vty[f] \in Session /\ Names(m.th, f, vty[f])
      /\ Timed(vty[f]) /\ Hears(vty[f]) /\ MInv(m0)
      /\ \A fn \in SessionFunc :
           QueuedIn(m0.th, fn, f) = IF fn = "vty_flush" THEN {} ELSE QueuedIn(m.th, fn, f)
  BY <1>1, HandlerLive, FuncFacts
<1>3. IsTriple(x, m0, w, vty_config)  BY DEF IsWriting, IsTriple, m0
<1>4. vty[f] \in Work /\ vty[f].status # "CLOSE"  BY <1>2, SessionFacts
<1>5. /\ w \in Work /\ w.node = vty[f].node /\ w.config = vty[f].config
      /\ w.fail = vty[f].fail /\ w.t_write = NULL /\ w.t_read = vty[f].t_read
      /\ w.t_timeout = vty[f].t_timeout /\ w.v_timeout = vty[f].v_timeout
      /\ w.status = vty[f].status /\ w.nopage = vty[f].nopage
  BY <1>4 DEF Work
<1> HIDE DEF w
<1>6. Names(m0.th, f, w)
  <2>1. Named(NULL) = {}  BY DEF Named
  <2> QED  BY <1>2, <1>5, <2>1, FuncFacts DEF Names
<1>7. Timed(w) /\ (w.nopage \/ w.t_read # NULL)  BY <1>2, <1>5 DEF Timed, Hears
<1>8. /\ Running(x, f, Others(vty, f)) /\ Others(vty, f) \in BOOLEAN
      /\ x.m = m0 /\ x.v = w
  BY <1>2, <1>3, <1>5, <1>6, <1>7, StartWorks
<1> QED  BY <1>1, <1>2, <1>4, <1>5, <1>7, <1>8 DEF m0

LEMMA vty_flushKeeps ==
    ASSUME IInv, NEW f \in Fds, vty_flush(f)
    PROVE  IInv'
<1> DEFINE X(mm) == [Fetched(mm, f) EXCEPT !.v.t_write = NULL]
           o == Others(vty, f)
           Written(x, left) == [x EXCEPT !.v.obuf = left]
<1>1. PICK mm \in Fetchable(m, Readable, Gone) :
        /\ Ready("vty_flush", f, mm)
        /\ \E left \in 0..Screens : Handled(FlushEnd(Written(Disabled(X(mm)), left), f), f)
        /\ UNCHANGED <<globals, peer, budget>>
  BY DEF vty_flush
<1> DEFINE x0 == X(mm)
           x1 == Disabled(x0)
<1>2. IsWriting(x0, RunReady(mm), vty[f], vty_config)  BY DEF IsWriting, Fetched
<1>3. PICK left \in 0..Screens : Handled(FlushEnd(Written(x1, left), f), f)
  BY <1>1
<1> DEFINE x2 == Written(x1, left)
           y == FlushEnd(x2, f)
<1>4. IsOut(x2, x1, left) /\ Handled(y, f)  BY <1>3 DEF IsOut
<1> HIDE DEF X, x0, Written, x2
<1>5. /\ Ran(m, x0.m, "vty_flush", f, backlog)
      /\ Running(x0, f, o) /\ o \in BOOLEAN /\ x0.v.status # "CLOSE"
      /\ x0.v.nopage \/ x0.v.t_read # NULL
      /\ vty[f] # NoVty
  BY <1>1, <1>2, FlushStart
<1>6. /\ Running(x1, f, o) /\ Apart(x0.m, x1.m, f)
      /\ x1.v.status # "CLOSE" /\ (x1.v.nopage <=> x1.v.t_read = NULL)
  BY <1>5, DisabledWorks
<1> HIDE DEF x1
<1>7. /\ Goes(x1, x2, f, o)
      /\ x2.v.status # "CLOSE" /\ (x2.v.nopage <=> x2.v.t_read = NULL)
  BY <1>4, <1>5, <1>6, OutWorks DEF Goes
<1>8. Done(x2.m, y, f, o) /\ y.v # NoVty  BY <1>5, <1>7, FlushEndWorks DEF Goes
<1> HIDE DEF y
<1>9. Done(x0.m, y, f, o)
  <2>1. Done(x1.m, y, f, o)  BY <1>7, <1>8, DoneAfter
  <2>2. Apart(x0.m, y.m, f)  BY <1>6, <2>1, ApartTrans DEF Done
  <2> QED  BY <2>1, <2>2 DEF Done
<1>10. vty_timeout_val' \in BOOLEAN /\ UNCHANGED peer  BY <1>1 DEF globals, IInv
<1>11. vty'[f] = y.v /\ \A g \in Fds \ {f} : vty'[g] = vty[g]
  BY <1>4, <1>9, DoneType, VtySet
<1>12. PeerInv(vty', peer')
  <2>1. PeerInv(vty, peer)  BY DEF IInv
  <2> QED  BY <1>8, <1>10, <1>11, <2>1 DEF PeerInv
<1> QED  BY <1>4, <1>5, <1>9, <1>10, <1>12, HandledWorks, FuncFacts

LEMMA ExpiredTriple ==
    ASSUME NEW a, NEW v, NEW lk, NEW b, NEW s
    PROVE  IsTriple([[m |-> a, v |-> v, lock |-> lk] EXCEPT
                        !.v.t_timeout = NULL, !.v.v_timeout = b, !.v.status = s],
                    a, [v EXCEPT !.t_timeout = NULL, !.v_timeout = b, !.status = s],
                    lk)
<1> DEFINE v1 == [v EXCEPT !.t_timeout = NULL]
           v2 == [v1 EXCEPT !.v_timeout = b]
           v3 == [v2 EXCEPT !.status = s]
           x0 == [m |-> a, v |-> v, lock |-> lk]
           x1 == [x0 EXCEPT !.v.t_timeout = NULL]
           x2 == [x1 EXCEPT !.v.v_timeout = b]
           x3 == [x2 EXCEPT !.v.status = s]
<1>1. x1 = [m |-> a, v |-> v1, lock |-> lk]  OBVIOUS
<1>2. x2 = [m |-> a, v |-> v2, lock |-> lk]
  <2>1. [[m |-> a, v |-> v1, lock |-> lk] EXCEPT !.v.v_timeout = b]
          = [m |-> a, v |-> v2, lock |-> lk]
    <3> HIDE DEF v1
    <3> QED  OBVIOUS
  <2> HIDE DEF x1, v2
  <2> QED  BY <1>1, <2>1, Zenon
<1>3. x3 = [m |-> a, v |-> v3, lock |-> lk]
  <2>1. [[m |-> a, v |-> v2, lock |-> lk] EXCEPT !.v.status = s]
          = [m |-> a, v |-> v3, lock |-> lk]
    <3> HIDE DEF v2
    <3> QED  OBVIOUS
  <2> HIDE DEF x2, v3
  <2> QED  BY <1>2, <2>1, Zenon
<1> QED  BY <1>3 DEF IsTriple

LEMMA TimerRan ==
    ASSUME IInv, NEW f \in Fds, NEW t \in m.timer,
           m.th[t].func = "vty_timeout", m.th[t].arg = f
    PROVE  Ran(m, RunTimer(m, t), "vty_timeout", f, backlog)
<1> DEFINE m0 == RunTimer(m, t)
<1>1. MInv(m) /\ AcceptInv(m.th, serv_thread, listening, backlog)
  BY DEF IInv, SessionsInv
<1>2. t \in Of(m.th, "TIMER") /\ Freed(m, m0, {t})  BY <1>1, RunTimerWorks
<1>3. t \in Thread /\ m.th[t].type = "TIMER"  BY <1>2 DEF Of
<1> HIDE DEF m0
<1>4. QueuedIn(m.th, "vty_timeout", f) = {t}
  <2>1. \A s, u \in Thread :
          m.th[s].type # "UNUSED" /\ m.th[s].func = m.th[u].func
            /\ m.th[s].arg = m.th[u].arg => s = u
    BY <1>1, MInvFacts DEF Book
  <2>2. \A s \in QueuedIn(m.th, "vty_timeout", f) : s = t
    BY <1>3, <2>1 DEF QueuedIn
  <2>3. t \in QueuedIn(m.th, "vty_timeout", f)  BY <1>3 DEF QueuedIn
  <2> QED  BY <2>2, <2>3
<1>5. Changed(m, m0, "vty_timeout", f, {})  BY <1>1, <1>2, <1>4, FreedChanged, FuncFacts
<1>6. Accepting(m0.th) # {} => backlog > 0  BY <1>1, <1>5 DEF Changed, AcceptInv
<1>7. Ran(m, m0, "vty_timeout", f, backlog)  BY <1>4, <1>5, <1>6 DEF Ran, Changed
<1> QED  BY <1>7 DEF m0

LEMMA vty_timeoutKeeps ==
    ASSUME IInv, NEW f \in Fds, vty_timeout(f)
    PROVE  IInv'
<1> DEFINE o == Others(vty, f)
           w == [vty[f] EXCEPT !.t_timeout = NULL, !.v_timeout = FALSE, !.status = "CLOSE"]
           X(mm) == [[m |-> mm, v |-> vty[f], lock |-> vty_config] EXCEPT
                       !.v.t_timeout = NULL, !.v.v_timeout = FALSE, !.v.status = "CLOSE"]
<1>1. PICK t \in m.timer :
        /\ m.th[t].func = "vty_timeout" /\ m.th[t].arg = f
        /\ Handled(vty_close(X(RunTimer(m, t))), f)
        /\ peer' = [peer EXCEPT ![f] = Quiet]
        /\ UNCHANGED <<globals, budget>>
  BY DEF vty_timeout
<1> DEFINE m0 == RunTimer(m, t)
           x == X(m0)
           y == vty_close(x)
<1>2. Ran(m, m0, "vty_timeout", f, backlog)  BY <1>1, TimerRan
<1>3. IsTriple(x, m0, w, vty_config) /\ Handled(y, f)
  <2>1. Handled(y, f)  BY <1>1
  <2>2. IsTriple(x, m0, w, vty_config)
    <3> HIDE DEF m0
    <3> QED  BY ExpiredTriple
  <2> QED  BY <2>1, <2>2
<1> HIDE DEF m0, X, x
<1>4. /\ vty[f] # NoVty /\ vty[f] \in Session /\ Names(m.th, f, vty[f]) /\ MInv(m0)
      /\ \A fn \in SessionFunc :
           QueuedIn(m0.th, fn, f) = IF fn = "vty_timeout" THEN {} ELSE QueuedIn(m.th, fn, f)
  BY <1>2, HandlerLive, FuncFacts
<1>5. vty[f] \in Work  BY <1>4, SessionFacts
<1>6. /\ w \in Work /\ w.node = vty[f].node /\ w.config = vty[f].config
      /\ w.fail = vty[f].fail /\ w.t_timeout = NULL /\ w.t_read = vty[f].t_read
      /\ w.t_write = vty[f].t_write /\ w.v_timeout = FALSE
  BY <1>5 DEF Work
<1> HIDE DEF w
<1>7. Names(m0.th, f, w)
  <2>1. Named(NULL) = {}  BY DEF Named
  <2> QED  BY <1>4, <1>6, <2>1, FuncFacts DEF Names
<1>8. Timed(w)  BY <1>6 DEF Timed
<1>9. Running(x, f, o) /\ o \in BOOLEAN /\ x.m = m0
  BY <1>3, <1>4, <1>6, <1>7, <1>8, StartWorks
<1>10. Done(m0, y, f, o)  BY <1>9, DoneClosed DEF Running, Entered
<1> HIDE DEF y
<1>11. \A g \in Fds \ {f} : vty'[g] = vty[g]  BY <1>3, <1>10, DoneType, VtySet
<1>12. peer' = [peer EXCEPT ![f] = Quiet]  BY <1>1
<1>13. PeerInv(vty', peer')  BY <1>11, <1>12, PeerFacts, PeerSet
<1>14. vty_timeout_val' \in BOOLEAN  BY <1>1 DEF globals, IInv
<1> QED  BY <1>2, <1>3, <1>10, <1>13, <1>14, HandledWorks, FuncFacts

-----------------------------------------------------------------------------
(* vty_accept.  It listens again, with the struct n.                       *)
Served(m1, n) ==
    /\ MInv(m1) /\ n \in Thread
    /\ \A fn \in SessionFunc, g \in Fds : QueuedIn(m1.th, fn, g) = QueuedIn(m.th, fn, g)
    /\ QueuedIn(m1.th, "vty_accept", ServFd) = {n}
    /\ Accepting(m1.th) = {}
    /\ listening /\ backlog > 0
    /\ VTY_SERV(m1) = m1 /\ AddedRead(m1, ServFd) = NULL

LEMMA NoneAccepting ==
    ASSUME NEW mm, MInv(mm), QueuedIn(mm.th, "vty_accept", ServFd) = {}
    PROVE  Accepting(mm.th) = {}
<1>1. ASSUME NEW t \in Accepting(mm.th)  PROVE FALSE
  <2>1. t \in Thread /\ mm.th[t].func = "vty_accept"  BY DEF Accepting
  <2>2. mm.th[t] \in Struct  BY <2>1, MInvFacts
  <2>3. mm.th[t].arg = ServFd  BY <2>1, <2>2, StructFacts
  <2> QED  BY <2>1, <2>3 DEF QueuedIn
<1> QED  BY <1>1

LEMMA ServedWorks ==
    ASSUME IInv, NEW mm \in Fetchable(m, Readable, Gone), Ready("vty_accept", ServFd, mm)
    PROVE  Served(VTY_SERV(RunReady(mm)), AddedRead(RunReady(mm), ServFd))
<1> DEFINE m0 == RunReady(mm)
           m1 == VTY_SERV(m0)
           n == AddedRead(m0, ServFd)
<1>1. Ran(m, m0, "vty_accept", ServFd, backlog)  BY FetchedWorks, FuncFacts
<1> HIDE DEF m0
<1>2. /\ MInv(m0) /\ backlog > 0 /\ QueuedIn(m.th, "vty_accept", ServFd) # {}
      /\ QueuedIn(m0.th, "vty_accept", ServFd) = {}
      /\ \A fn \in SessionFunc, g \in Fds : QueuedIn(m0.th, fn, g) = QueuedIn(m.th, fn, g)
  <2>1. ServFd \notin Fds /\ "vty_accept" \notin SessionFunc  BY Constants DEF SessionFunc
  <2> QED  BY <1>1, <2>1, FuncFacts DEF Ran
<1>3. Added(m0, m1, "vty_accept", ServFd, n)
  <2>1. /\ Added(m0, thread_add_read(m0, "vty_accept", ServFd), "vty_accept", ServFd,
                 NextThread(m0))
        /\ AddedRead(m0, ServFd) = NextThread(m0)
    BY <1>2, AddReadWorks
  <2> QED  BY <2>1 DEF VTY_SERV
<1>4. Accepting(m0.th) = {}  BY <1>2, NoneAccepting
<1> HIDE DEF m1, n
<1>5. /\ MInv(m1) /\ n \in Thread /\ Accepting(m1.th) = {}
      /\ QueuedIn(m1.th, "vty_accept", ServFd) = {n}
      /\ \A fn \in SessionFunc, g \in Fds : QueuedIn(m1.th, fn, g) = QueuedIn(m0.th, fn, g)
  <2>1. ServFd \notin Fds /\ "vty_accept" \notin SessionFunc  BY Constants DEF SessionFunc
  <2> QED  BY <1>3, <1>4, <2>1, FuncFacts DEF Added
<1>6. ServFd \in m1.readfd
  <2>1. m1.th[n].func = "vty_accept" /\ m1.th[n].arg = ServFd  BY <1>5 DEF QueuedIn
  <2>2. m1.th[n] \in Struct /\ m1.readfd = Args(m1.th, "READ")  BY <1>5, MInvFacts
  <2>3. m1.th[n].type # "READY"  BY <1>5, <2>1 DEF Accepting
  <2>4. m1.th[n].type = "READ"  BY <2>1, <2>2, <2>3, StructFacts
  <2> QED  BY <1>5, <2>1, <2>2, <2>4 DEF Args, ArgsIn, Of
<1>7. VTY_SERV(m1) = m1 /\ AddedRead(m1, ServFd) = NULL
  BY <1>6 DEF VTY_SERV, thread_add_read, AddedRead
<1>8. listening  BY <1>2 DEF IInv, AcceptInv
<1>9. Served(m1, n)  BY <1>2, <1>5, <1>7, <1>8 DEF Served
<1> QED  BY <1>9 DEF m0, m1, n

LEMMA NewVtyFacts ==
    ASSUME vty_timeout_val \in BOOLEAN
    PROVE  /\ NewVty \in Session /\ ~NewVty.config /\ NewVty.config \in BOOLEAN
           /\ Configuring(NewVty)
           /\ NewVty.t_read = NULL /\ NewVty.t_write = NULL /\ NewVty.t_timeout = NULL
<1> DEFINE n == NewVty.node
<1>1. NewVty.node \in {"AUTH", "ENABLE", "VIEW"}  BY DEF NewVty
<1>2. NewVty \in Session /\ ~NewVty.config
      /\ NewVty.t_read = NULL /\ NewVty.t_write = NULL /\ NewVty.t_timeout = NULL
  <2>1. Screens \in Nat \ {0}  BY VtyAssumption
  <2>2. 1 \in 0..Screens /\ 0 \in 0..2  BY <2>1
  <2> QED  BY <2>2 DEF NewVty, Session
<1>3. NewVty.config \in BOOLEAN  BY <1>2 DEF Session
<1>4. Configuring(NewVty)  BY <1>1, <1>2 DEF Configuring, ConfigNodes
<1> QED  BY <1>2, <1>3, <1>4

(* Where the new session starts.                                           *)
LEMMA NewWorks ==
    ASSUME IInv, NEW f \in Fds, vty[f] = NoVty, NEW m1, NEW n, Served(m1, n),
           NEW x, IsTriple(x, m1, NewVty, vty_config)
    PROVE  /\ Entered(x, f, Others(vty, f)) /\ Others(vty, f) \in BOOLEAN
           /\ x.m = m1 /\ x.v = NewVty /\ x.lock = vty_config
<1>1. /\ LockHeld(vty, vty_config) /\ Good(m.th, vty[f], f) /\ vty_timeout_val \in BOOLEAN
  BY DEF IInv, SessionsInv
<1>2. x.m = m1 /\ x.v = NewVty /\ x.lock = vty_config /\ Whole(x)  BY Triple
<1>3. /\ NewVty \in Session /\ ~NewVty.config /\ NewVty.config \in BOOLEAN
      /\ Configuring(NewVty)
      /\ NewVty.t_read = NULL /\ NewVty.t_write = NULL /\ NewVty.t_timeout = NULL
  BY <1>1, NewVtyFacts
<1>4. MInv(m1) /\ \A fn \in SessionFunc : QueuedIn(m1.th, fn, f) = {}
  BY <1>1 DEF Good, Served
<1>5. Names(m1.th, f, NewVty)
  <2>1. Named(NULL) = {}  BY DEF Named
  <2> QED  BY <1>3, <1>4, <2>1, FuncFacts DEF Names
<1>6. vty_config \in BOOLEAN /\ LockBy(vty_config, NewVty.config, Others(vty, f))
      /\ Others(vty, f) \in BOOLEAN
  <2>1. /\ Others(vty, f) \in BOOLEAN
        /\ vty_config <=> Holds(vty[f]) \/ Others(vty, f)
    BY <1>1, OthersFacts
  <2>2. vty_config \in BOOLEAN /\ ~Holds(vty[f])  BY <1>1 DEF LockHeld, Holds
  <2>3. NewVty.config = FALSE  BY <1>3
  <2> QED  BY <2>1, <2>2, <2>3, Zenon DEF LockBy
<1>7. NewVty \in Work /\ NewVty.fail \in 0..2  BY <1>3, SessionFacts
<1>8. XInv(x, f)  BY <1>2, <1>4, <1>5, <1>6, <1>7 DEF XInv
<1> QED  BY <1>2, <1>3, <1>6, <1>7, <1>8 DEF Entered

LEMMA NewDone ==
    ASSUME IInv, NEW f \in Fds, vty[f] = NoVty, NEW m1, NEW n, Served(m1, n),
           NEW x, IsTriple(x, m1, NewVty, vty_config),
           NEW y, y = vty_close(x) \/ y = VTY_READ(VTY_WRITE(x, f), f)
    PROVE  Done(m1, y, f, Others(vty, f)) /\ y.lock = vty_config
<1> DEFINE o == Others(vty, f)
           z == VTY_WRITE(x, f)
<1>1. Entered(x, f, o) /\ o \in BOOLEAN /\ x.m = m1 /\ x.v = NewVty /\ x.lock = vty_config
  BY NewWorks
<1>2. /\ ~NewVty.config /\ NewVty.t_read = NULL /\ NewVty.t_timeout = NULL
      /\ NewVty \in Session
  BY NewVtyFacts DEF IInv
<1>3. CASE y = vty_close(x)
  <2>1. Done(m1, y, f, o)  BY <1>1, <1>3, DoneClosed
  <2>2. Closed(x, y, f)  BY <1>1, <1>3, CloseWorks DEF Entered
  <2>3. vty_config \in BOOLEAN  BY DEF IInv, SessionsInv, LockHeld
  <2>4. y.lock = vty_config  BY <1>1, <1>2, <2>2, <2>3, Zenon DEF Closed
  <2> QED  BY <2>1, <2>4
<1>4. CASE y = VTY_READ(z, f)
  <2>1. /\ Step(x, z, f) /\ z.v.t_read = NULL /\ z.v.t_timeout = NULL
    BY <1>1, <1>2, VtyWriteWorks DEF Entered
  <2> HIDE DEF z
  <2>2. XInv(z, f)  BY <2>1 DEF Step
  <2>3. Step(z, y, f) /\ y.v.t_read # NULL /\ Timed(y.v)
    BY <1>4, <2>1, <2>2, VtyReadWorks
  <2>4. Step(x, y, f) /\ Hears(y.v)  BY <2>1, <2>3, StepTrans DEF Hears
  <2>5. x.v.status # "CLOSE"  BY <1>1, <1>2, SessionFacts
  <2>6. Done(m1, y, f, o)  BY <1>1, <2>3, <2>4, <2>5, DoneOpen
  <2>7. y.lock = vty_config  BY <1>1, <2>4 DEF Step
  <2> QED  BY <2>6, <2>7
<1> QED  BY <1>3, <1>4

LEMMA AcceptedSocket ==
    ASSUME IInv, NEW m1, NEW n, Served(m1, n), NEW th,
           QueuedIn(th, "vty_accept", ServFd) = QueuedIn(m1.th, "vty_accept", ServFd),
           Accepting(th) \subseteq Accepting(m1.th), NEW serv \in {n, NULL}
    PROVE  AcceptInv(th, serv, listening, backlog - 1)
<1>1. listening \in BOOLEAN /\ backlog \in Nat  BY DEF IInv, AcceptInv
<1>2. listening /\ backlog > 0 /\ n \in Thread /\ Accepting(th) = {}
      /\ QueuedIn(th, "vty_accept", ServFd) = {n}
  BY DEF Served
<1>3. backlog - 1 \in Nat  BY <1>1, <1>2
<1>4. serv \in Thread \cup {NULL} /\ (serv # NULL => serv = n)  BY <1>2
<1> QED  BY <1>1, <1>2, <1>3, <1>4 DEF AcceptInv

LEMMA SessionsServed ==
    ASSUME IInv, NEW m1, NEW n, Served(m1, n)
    PROVE  SessionsInv(m1, vty, vty_config)
<1>1. SessionsInv(m, vty, vty_config)  BY DEF IInv
<1>2. \A f \in Fds : Good(m1.th, vty[f], f)
  <2> SUFFICES ASSUME NEW f \in Fds  PROVE Good(m1.th, vty[f], f)
    OBVIOUS
  <2>1. Good(m.th, vty[f], f)  BY <1>1 DEF SessionsInv
  <2>2. \A fn \in SessionFunc : QueuedIn(m1.th, fn, f) = QueuedIn(m.th, fn, f)
    BY DEF Served
  <2> QED  BY <2>1, <2>2, GoodSame
<1> QED  BY <1>1, <1>2 DEF SessionsInv, Served

LEMMA vty_acceptKeeps ==
    ASSUME IInv, vty_accept
    PROVE  IInv'
<1> DEFINE M0(mm) == RunReady(mm)
           M1(mm) == VTY_SERV(M0(mm))
           New(mm) == [m |-> M1(mm), v |-> NewVty, lock |-> vty_config]
           After(mm, f) == IF ~no_password_check /\ ~Password
                             THEN vty_close(New(mm))
                             ELSE VTY_READ(VTY_WRITE(New(mm), f), f)
<1>1. PICK mm \in Fetchable(m, Readable, Gone) :
        /\ Ready("vty_accept", ServFd, mm)
        /\ backlog' = backlog - 1
        /\ \/ /\ m' = M1(mm) /\ serv_thread' = AddedRead(M0(mm), ServFd)
              /\ UNCHANGED <<vty, peer>>
           \/ /\ m' = VTY_SERV(M1(mm)) /\ serv_thread' = AddedRead(M1(mm), ServFd)
              /\ UNCHANGED <<vty, peer>>
           \/ /\ serv_thread' = AddedRead(M0(mm), ServFd)
              /\ \E f \in Fds \ Live :
                   m' = After(mm, f).m /\ vty' = [vty EXCEPT ![f] = After(mm, f).v]
              /\ UNCHANGED peer
        /\ UNCHANGED <<vty_config, listening, globals, budget>>
  BY DEF vty_accept
<1> DEFINE m1 == M1(mm)
           n == AddedRead(M0(mm), ServFd)
           x == New(mm)
           Y(f) == After(mm, f)
<1>2. Served(m1, n)  BY <1>1, ServedWorks
<1>3. IsTriple(x, m1, NewVty, vty_config)  BY DEF IsTriple
<1>4. \A f : Y(f) = vty_close(x) \/ Y(f) = VTY_READ(VTY_WRITE(x, f), f)  OBVIOUS
<1>5. /\ backlog' = backlog - 1
      /\ \/ m' = m1 /\ serv_thread' = n /\ UNCHANGED <<vty, peer>>
         \/ m' = VTY_SERV(m1) /\ serv_thread' = AddedRead(m1, ServFd) /\ UNCHANGED <<vty, peer>>
         \/ /\ serv_thread' = n /\ UNCHANGED peer
            /\ \E f \in Fds \ Live : m' = Y(f).m /\ vty' = [vty EXCEPT ![f] = Y(f).v]
      /\ UNCHANGED <<vty_config, listening, globals, budget>>
  BY <1>1
<1> HIDE DEF M0, M1, New, After, m1, n, x, Y
<1>6. vty_timeout_val' \in BOOLEAN /\ PeerInv(vty, peer)  BY <1>5 DEF globals, IInv
<1>7. ASSUME m' = m1, serv_thread' \in {n, NULL}, UNCHANGED <<vty, peer>>
      PROVE  IInv'
  <2>1. SessionsInv(m1, vty, vty_config)  BY <1>2, SessionsServed
  <2>2. AcceptInv(m1.th, serv_thread', listening, backlog - 1)
    BY <1>2, <1>7, AcceptedSocket
  <2>3. SessionsInv(m', vty', vty_config')  BY <1>5, <1>7, <2>1
  <2>4. AcceptInv(m'.th, serv_thread', listening', backlog')  BY <1>5, <1>7, <2>2
  <2>5. PeerInv(vty', peer')  BY <1>6, <1>7
  <2> QED  BY <1>6, <2>3, <2>4, <2>5 DEF IInv
<1>8. ASSUME serv_thread' = n, UNCHANGED peer, NEW f \in Fds \ Live,
             m' = Y(f).m, vty' = [vty EXCEPT ![f] = Y(f).v]
      PROVE  IInv'
  <2> DEFINE y == Y(f)
  <2>1. vty[f] = NoVty /\ f \in Fds  BY <1>8 DEF Live
  <2>2. y = vty_close(x) \/ y = VTY_READ(VTY_WRITE(x, f), f)  BY <1>4
  <2>3. IsSet(vty', vty, f, y.v) /\ m' = y.m  BY <1>8 DEF IsSet
  <2> HIDE DEF y
  <2>4. Done(m1, y, f, Others(vty, f)) /\ y.lock = vty_config
    BY <1>2, <1>3, <2>1, <2>2, NewDone
  <2>5. /\ SessionsInv(y.m, vty', y.lock)
        /\ vty'[f] = y.v /\ \A g \in Fds \ {f} : vty'[g] = vty[g]
    <3>1. \A fn \in SessionFunc, g \in Fds \ {f} :
            QueuedIn(m1.th, fn, g) = QueuedIn(m.th, fn, g)
      BY <1>2 DEF Served
    <3> QED  BY <2>1, <2>3, <2>4, <3>1, SessionsKept
  <2>6. AcceptInv(y.m.th, serv_thread', listening, backlog - 1)
    <3>1. Apart(m1, y.m, f) /\ f # ServFd /\ ServFd \in Fd \ {f} /\ "vty_accept" \in Funcs
      BY <2>1, <2>4, FuncFacts, Constants DEF Done
    <3>2. /\ QueuedIn(y.m.th, "vty_accept", ServFd) = QueuedIn(m1.th, "vty_accept", ServFd)
          /\ Accepting(y.m.th) \subseteq Accepting(m1.th)
      BY <3>1 DEF Apart
    <3> QED  BY <1>2, <1>8, <3>2, AcceptedSocket
  <2>7. PeerInv(vty', peer')
    <3>1. \A g \in Fds : vty'[g] = NoVty => peer[g] = Quiet
      BY <1>6, <2>1, <2>5 DEF PeerInv
    <3>2. peer' = peer  BY <1>8
    <3> QED  BY <1>6, <3>1, <3>2 DEF PeerInv
  <2>8. SessionsInv(m', vty', vty_config')
        /\ AcceptInv(m'.th, serv_thread', listening', backlog')
    BY <1>5, <2>3, <2>4, <2>5, <2>6
  <2> QED  BY <1>6, <2>7, <2>8 DEF IInv
<1>9. VTY_SERV(m1) = m1 /\ AddedRead(m1, ServFd) = NULL  BY <1>2 DEF Served
<1> QED  BY <1>5, <1>7, <1>8, <1>9

-----------------------------------------------------------------------------
(* vty_finish.                                                             *)
Cancelled == (UNION {Threads(vty[f]) : f \in Live}) \cup ({serv_thread} \ {NULL})

LEMMA CancelledFacts ==
    ASSUME IInv
    PROVE  /\ Freed(m, thread_cancel(m, Cancelled), Cancelled)
           /\ \A fn \in SessionFunc, f \in Fds : QueuedIn(m.th, fn, f) \subseteq Cancelled
           /\ QueuedIn(m.th, "vty_accept", ServFd) \ Cancelled
                = IF serv_thread = NULL THEN QueuedIn(m.th, "vty_accept", ServFd) ELSE {}
<1> DEFINE A == QueuedIn(m.th, "vty_accept", ServFd)
           U == UNION {Threads(vty[f]) : f \in Live}
           S == Cancelled
<1>1. /\ MInv(m) /\ \A f \in Fds : Good(m.th, vty[f], f)
      /\ serv_thread # NULL => A = {serv_thread}
  BY DEF IInv, SessionsInv, AcceptInv
<1>2. ASSUME NEW f \in Live
      PROVE  Threads(vty[f]) = UNION {QueuedIn(m.th, "vty_read", f),
                                 QueuedIn(m.th, "vty_flush", f), QueuedIn(m.th, "vty_timeout", f)}
  <2>1. f \in Fds /\ vty[f] # NoVty  BY DEF Live
  <2>2. Names(m.th, f, vty[f])  BY <1>1, <2>1 DEF Good
  <2> QED  BY <2>2 DEF Names, Named, Threads
<1>3. \A p \in U : \E f \in Fds, fn \in SessionFunc : p \in QueuedIn(m.th, fn, f)
  <2> SUFFICES ASSUME NEW p \in U
               PROVE  \E f \in Fds, fn \in SessionFunc : p \in QueuedIn(m.th, fn, f)
    OBVIOUS
  <2>1. PICK f \in Live : p \in Threads(vty[f])  OBVIOUS
  <2>2. f \in Fds  BY DEF Live
  <2> QED  BY <1>2, <2>1, <2>2, FuncFacts
<1>4. S = U \cup ({serv_thread} \ {NULL})  BY DEF Cancelled
<1>5. \A fn \in SessionFunc, f \in Fds : QueuedIn(m.th, fn, f) \subseteq S
  <2> SUFFICES ASSUME NEW fn \in SessionFunc, NEW f \in Fds
               PROVE  QueuedIn(m.th, fn, f) \subseteq S
    OBVIOUS
  <2>1. CASE f \in Live
    <3>1. Threads(vty[f]) \subseteq U  BY <2>1
    <3>2. QueuedIn(m.th, fn, f) \subseteq Threads(vty[f])  BY <1>2, <2>1, FuncFacts
    <3> QED  BY <1>4, <3>1, <3>2
  <2>2. CASE f \notin Live
    <3>1. vty[f] = NoVty  BY <2>2 DEF Live
    <3>2. QueuedIn(m.th, fn, f) = {}  BY <1>1, <3>1 DEF Good
    <3> QED  BY <3>2
  <2> QED  BY <2>1, <2>2
<1> HIDE DEF U, S
<1>6. ASSUME NEW p \in U  PROVE p \in Thread /\ m.th[p].type # "UNUSED" /\ p \notin A
  <2>1. PICK f \in Fds, fn \in SessionFunc : p \in QueuedIn(m.th, fn, f)  BY <1>3
  <2>2. fn \in Funcs /\ f \in Fd /\ "vty_accept" \in Funcs /\ ServFd \in Fd /\ f # ServFd
    BY FuncFacts, Constants
  <2> QED  BY <1>1, <2>1, <2>2, QueuedApart
<1>7. ASSUME serv_thread # NULL
      PROVE  serv_thread \in Thread /\ m.th[serv_thread].type # "UNUSED"
  <2>1. serv_thread \in A  BY <1>1, <1>7
  <2> QED  BY <1>1, <2>1, QueuedApart, FuncFacts
<1>8. S \in SUBSET Thread /\ \A p \in S : m.th[p].type # "UNUSED"
  BY <1>4, <1>6, <1>7
<1>9. Freed(m, thread_cancel(m, S), S)  BY <1>1, <1>8, CancelWorks
<1>10. A \ S = IF serv_thread = NULL THEN A ELSE {}
  BY <1>1, <1>4, <1>6
<1> QED  BY <1>5, <1>9, <1>10 DEF S

LEMMA vty_finishKeeps ==
    ASSUME IInv, vty_finish
    PROVE  IInv'
<1> DEFINE A == QueuedIn(m.th, "vty_accept", ServFd)
<1>1. /\ m' = thread_cancel(m, Cancelled)
      /\ listening' = (listening /\ serv_thread = NULL)
      /\ serv_thread' = NULL /\ backlog' = backlog
      /\ vty_timeout_val' = TRUE
  BY DEF vty_finish, Cancelled
<1>2. /\ Freed(m, m', Cancelled)
      /\ \A fn \in SessionFunc, f \in Fds : QueuedIn(m.th, fn, f) \subseteq Cancelled
      /\ A \ Cancelled = IF serv_thread = NULL THEN A ELSE {}
  BY <1>1, CancelledFacts
<1>3. /\ MInv(m') /\ Accepting(m'.th) \subseteq Accepting(m.th)
      /\ \A fn \in SessionFunc, f \in Fds : QueuedIn(m'.th, fn, f) = {}
      /\ QueuedIn(m'.th, "vty_accept", ServFd) = IF serv_thread = NULL THEN A ELSE {}
  <2>1. /\ MInv(m') /\ Accepting(m'.th) = Accepting(m.th) \ Cancelled
        /\ \A fn \in Funcs, g \in Fd :
             QueuedIn(m'.th, fn, g) = QueuedIn(m.th, fn, g) \ Cancelled
    BY <1>2 DEF Freed
  <2>2. QueuedIn(m'.th, "vty_accept", ServFd) = A \ Cancelled  BY <2>1, FuncFacts
  <2>3. ASSUME NEW fn \in SessionFunc, NEW f \in Fds
        PROVE  QueuedIn(m'.th, fn, f) = {}
    <3>1. QueuedIn(m'.th, fn, f) = QueuedIn(m.th, fn, f) \ Cancelled  BY <2>1, FuncFacts
    <3> QED  BY <1>2, <3>1
  <2> HIDE DEF A
  <2> QED  BY <1>2, <2>1, <2>2, <2>3
<1>4. vty' \in [Fds -> Session \cup {NoVty}] /\ \A f \in Fds : vty'[f] = NoVty
  BY DEF vty_finish
<1>5. \A f \in Fds : Good(m'.th, vty'[f], f)  BY <1>3, <1>4 DEF Good
<1>6. vty_config' = FALSE
  <2>1. vty_config' = (vty_config /\ \A f \in Live : ~vty[f].config)  BY DEF vty_finish
  <2>2. vty_config <=> \E f \in Fds : Holds(vty[f])  BY DEF IInv, SessionsInv, LockHeld
  <2>3. \A f \in Fds : Holds(vty[f]) => f \in Live /\ vty[f].config  BY DEF Holds, Live
  <2> QED  BY <2>1, <2>2, <2>3
<1>7. LockHeld(vty', vty_config')  BY <1>4, <1>6 DEF LockHeld, Holds
<1>8. AcceptInv(m'.th, serv_thread', listening', backlog')
  <2>1. AcceptInv(m.th, serv_thread, listening, backlog)  BY DEF IInv
  <2>2. Accepting(m'.th) # {} => backlog > 0  BY <1>3, <2>1 DEF AcceptInv
  <2>3. listening' \in BOOLEAN /\ (listening' <=> QueuedIn(m'.th, "vty_accept", ServFd) # {})
    BY <1>1, <1>3, <2>1 DEF AcceptInv
  <2> QED  BY <1>1, <2>1, <2>2, <2>3 DEF AcceptInv
<1>9. PeerInv(vty', peer')
  <2>1. peer' \in [Fds -> [data : BOOLEAN, gone : BOOLEAN]]
        /\ \A f \in Fds : peer'[f] = Quiet
    BY DEF vty_finish, Quiet
  <2> QED  BY <2>1 DEF PeerInv
<1> QED  BY <1>1, <1>3, <1>4, <1>5, <1>7, <1>8, <1>9 DEF IInv, SessionsInv

(* The clients.                                                            *)
LEMMA ConnectKeeps ==
    ASSUME IInv, Connect
    PROVE  IInv'
<1>1. /\ UNCHANGED <<m, vty, vty_config, serv_thread, vty_timeout_val, listening, peer>>
      /\ backlog' = backlog + 1
  BY DEF Connect, globals
<1>2. AcceptInv(m.th, serv_thread, listening, backlog + 1)
  BY DEF IInv, AcceptInv
<1> QED  BY <1>1, <1>2 DEF IInv

LEMMA TypeKeeps ==
    ASSUME IInv, NEW f \in Fds, Type(f)
    PROVE  IInv'
<1> DEFINE r == [peer[f] EXCEPT !.data = TRUE]
<1>1. /\ UNCHANGED <<m, vty, vty_config, serv_thread, vty_timeout_val, listening, backlog>>
      /\ vty[f] # NoVty /\ peer' = [peer EXCEPT ![f] = r]
  BY DEF Type, Live, globals
<1>2. r \in [data : BOOLEAN, gone : BOOLEAN]  BY PeerFacts
<1> HIDE DEF r
<1>3. PeerInv(vty', peer')  BY <1>1, <1>2, PeerSet
<1> QED  BY <1>1, <1>3 DEF IInv

LEMMA HangUpKeeps ==
    ASSUME IInv, NEW f \in Fds, HangUp(f)
    PROVE  IInv'
<1> DEFINE r == [peer[f] EXCEPT !.gone = TRUE]
<1>1. /\ UNCHANGED <<m, vty, vty_config, serv_thread, vty_timeout_val, listening, backlog>>
      /\ vty[f] # NoVty /\ peer' = [peer EXCEPT ![f] = r]
  BY DEF HangUp, Live, globals
<1>2. r \in [data : BOOLEAN, gone : BOOLEAN]  BY PeerFacts
<1> HIDE DEF r
<1>3. PeerInv(vty', peer')  BY <1>1, <1>2, PeerSet
<1> QED  BY <1>1, <1>3 DEF IInv

-----------------------------------------------------------------------------
(* The start.                                                              *)
LEMMA CreateWorks ==
    LET mm == thread_master_create IN
    /\ MInv(mm) /\ NextThread(mm) = 1 /\ Accepting(mm.th) = {}
    /\ \A fn \in Funcs, g \in Fd : QueuedIn(mm.th, fn, g) = {}
<1> DEFINE mm == thread_master_create
           th == [t \in Thread |-> Unused]
<1>1. /\ mm.th = th /\ mm.alloc = 0 /\ mm.unuse = {} /\ mm.read = <<>> /\ mm.write = <<>>
      /\ mm.ready = <<>> /\ mm.timer = {} /\ mm.readfd = {} /\ mm.writefd = {} /\ ~mm.twice
      /\ Shape(mm)
  BY DEF thread_master_create, Shape
<1>2. \A t \in Thread : th[t] = Unused  OBVIOUS
<1>3. th \in [Thread -> Struct]  BY UnusedStruct
<1> HIDE DEF mm, th
<1>4. Of(th, "UNUSED") = Thread /\ Of(th, "READ") = {} /\ Of(th, "WRITE") = {}
      /\ Of(th, "READY") = {} /\ Of(th, "TIMER") = {} /\ Accepting(th) = {}
      /\ Args(th, "READ") = {} /\ Args(th, "WRITE") = {}
  BY <1>2, UnusedStruct DEF Of, Accepting, Args, ArgsIn
<1>5. Book(th, 0, {})
  <2>1. (0 + 1)..MaxThreads = Thread /\ 0 \in 0..MaxKeys  BY Constants
  <2>2. \A t, u \in Thread :
          th[t].type # "UNUSED" /\ th[t].func = th[u].func /\ th[t].arg = th[u].arg => t = u
    BY <1>2, UnusedStruct
  <2> QED  BY <1>3, <1>4, <2>1, <2>2 DEF Book
<1>6. MInv(mm)  BY <1>1, <1>4, <1>5, ListsEmpty DEF MInv
<1>7. NextThread(mm) = 1  BY <1>1 DEF NextThread
<1>8. \A fn \in Funcs, g \in Fd : QueuedIn(mm.th, fn, g) = {}
  <2>1. "none" \notin Funcs  BY FuncFacts
  <2> QED  BY <1>1, <1>2, <2>1, UnusedStruct DEF QueuedIn
<1> QED  BY <1>1, <1>4, <1>6, <1>7, <1>8 DEF mm

LEMMA InitWorks == Init => IInv
<1> SUFFICES ASSUME Init  PROVE IInv
  OBVIOUS
<1> DEFINE c == thread_master_create
<1>1. /\ MInv(c) /\ NextThread(c) = 1 /\ Accepting(c.th) = {}
      /\ \A fn \in Funcs, g \in Fd : QueuedIn(c.th, fn, g) = {}
  BY CreateWorks
<1>2. m = thread_add_read(c, "vty_accept", ServFd)  BY DEF Init
<1> HIDE DEF c
<1>3. Added(c, m, "vty_accept", ServFd, 1)
  <2>1. QueuedIn(c.th, "vty_accept", ServFd) = {}  BY <1>1, FuncFacts
  <2> QED  BY <1>1, <1>2, <2>1, AddReadWorks
<1>4. /\ MInv(m) /\ 1 \in Thread /\ Accepting(m.th) = {}
      /\ QueuedIn(m.th, "vty_accept", ServFd) = {1}
      /\ \A fn \in SessionFunc, g \in Fds : QueuedIn(m.th, fn, g) = {}
  <2>1. ServFd \notin Fds /\ "vty_accept" \notin SessionFunc  BY Constants DEF SessionFunc
  <2> QED  BY <1>1, <1>3, <2>1, FuncFacts DEF Added
<1>5. /\ vty \in [Fds -> Session \cup {NoVty}] /\ (\A f \in Fds : vty[f] = NoVty)
      /\ vty_config = FALSE /\ serv_thread = 1 /\ listening = TRUE /\ backlog = 0
      /\ vty_timeout_val = TRUE
  BY DEF Init
<1>6. \A f \in Fds : Good(m.th, vty[f], f)  BY <1>4, <1>5 DEF Good
<1>7. LockHeld(vty, vty_config)  BY <1>5 DEF LockHeld, Holds
<1>8. AcceptInv(m.th, serv_thread, listening, backlog)  BY <1>4, <1>5 DEF AcceptInv
<1>9. PeerInv(vty, peer)
  <2>1. peer \in [Fds -> [data : BOOLEAN, gone : BOOLEAN]] /\ \A f \in Fds : peer[f] = Quiet
    BY DEF Init, Quiet
  <2> QED  BY <2>1 DEF PeerInv
<1> QED  BY <1>4, <1>5, <1>6, <1>7, <1>8, <1>9 DEF IInv, SessionsInv

(* Every step keeps it.                                                    *)
LEMMA NextWorks == IInv /\ [Next]_vars => IInv'
<1> SUFFICES ASSUME IInv, [Next]_vars  PROVE IInv'
  OBVIOUS
<1>1. CASE vty_accept  BY <1>1, vty_acceptKeeps
<1>2. ASSUME NEW f \in Fds, vty_read(f)  PROVE IInv'  BY <1>2, vty_readKeeps
<1>3. ASSUME NEW f \in Fds, vty_flush(f)  PROVE IInv'  BY <1>3, vty_flushKeeps
<1>4. ASSUME NEW f \in Fds, vty_timeout(f)  PROVE IInv'  BY <1>4, vty_timeoutKeeps
<1>5. CASE vty_finish  BY <1>5, vty_finishKeeps
<1>6. CASE Connect  BY <1>6, ConnectKeeps
<1>7. ASSUME NEW f \in Fds, Type(f)  PROVE IInv'  BY <1>7, TypeKeeps
<1>8. ASSUME NEW f \in Fds, HangUp(f)  PROVE IInv'  BY <1>8, HangUpKeeps
<1>9. CASE UNCHANGED vars
  BY <1>9 DEF vars, IInv
<1> QED
  BY <1>1, <1>2, <1>3, <1>4, <1>5, <1>6, <1>7, <1>8, <1>9 DEF Next, Handler

LEMMA Invariant == Spec => []IInv
BY InitWorks, NextWorks, PTL DEF Spec

-----------------------------------------------------------------------------
(* The invariant implies what the runs check.                              *)
LEMMA IInvPointers == IInv => PointersExact
<1> SUFFICES ASSUME IInv, NEW f \in Fds
             PROVE  LET Q(p, func) == Queued(func, f) = {p} \ {NULL} IN
                    IF vty[f] = NoVty
                      THEN \A func \in {"vty_read", "vty_flush", "vty_timeout"} : Q(NULL, func)
                      ELSE /\ Q(vty[f].t_read, "vty_read")
                           /\ Q(vty[f].t_write, "vty_flush")
                           /\ Q(vty[f].t_timeout, "vty_timeout")
  BY DEF PointersExact
<1>1. Good(m.th, vty[f], f)  BY DEF IInv, SessionsInv
<1>2. \A func : Queued(func, f) = QueuedIn(m.th, func, f)  BY DEF Queued, QueuedIn
<1> QED  BY <1>1, <1>2, FuncFacts DEF Good, Names, Named

LEMMA IInvDeaf == IInv => NobodyDeaf
<1> SUFFICES ASSUME IInv  PROVE NobodyDeaf
  OBVIOUS
<1>1. ASSUME NEW f \in Live
      PROVE  /\ vty[f].t_read # NULL \/ (vty[f].nopage /\ vty[f].t_write # NULL)
             /\ vty[f].v_timeout <=> vty[f].t_timeout # NULL
  <2>1. Good(m.th, vty[f], f) /\ vty[f] # NoVty  BY DEF IInv, SessionsInv, Live
  <2> QED  BY <2>1 DEF Good, Timed, Hears
<1>2. listening <=> Queued("vty_accept", ServFd) # {}
  BY DEF IInv, AcceptInv, Queued, QueuedIn
<1> QED  BY <1>1, <1>2 DEF NobodyDeaf

LEMMA IInvLock == IInv => LockExact
<1> SUFFICES ASSUME IInv  PROVE LockExact
  OBVIOUS
<1> DEFINE In == {f \in Live : vty[f].node \in ConfigNodes}
           On == {f \in Live : vty[f].config}
<1>1. LockHeld(vty, vty_config) /\ \A f \in Fds : Good(m.th, vty[f], f)
  BY DEF IInv, SessionsInv
<1>2. In = On  BY <1>1 DEF Live, Good, Configuring
<1>3. \A f : f \in On <=> f \in Fds /\ Holds(vty[f])  BY DEF Live, Holds
<1> HIDE DEF In, On
<1>4. Cardinality(In) = IF vty_config THEN 1 ELSE 0
  <2>1. CASE vty_config
    <3>1. PICK f \in Fds : Holds(vty[f])  BY <1>1, <2>1 DEF LockHeld
    <3>2. On = {f}  BY <1>1, <1>3, <3>1 DEF LockHeld
    <3>3. Cardinality({f}) = 1  BY FS_Singleton
    <3> QED  BY <1>2, <2>1, <3>2, <3>3
  <2>2. CASE ~vty_config
    <3>1. On = {}  BY <1>1, <1>3, <2>2 DEF LockHeld
    <3> QED  BY <1>2, <2>2, <3>1, FS_EmptySet
  <2> QED  BY <2>1, <2>2
<1> QED  BY <1>2, <1>4 DEF LockExact, In, On

LEMMA IInvType == IInv => TypeOK
<1> SUFFICES ASSUME IInv  PROVE TypeOK
  OBVIOUS
<1>1. m.alloc \in 0..(1 + 3 * Cardinality(Fds))
  BY MInvFacts DEF IInv, SessionsInv, Book, MaxKeys
<1>2. \A f \in Fds : peer[f] # Quiet => f \in Live  BY DEF IInv, PeerInv, Live
<1> QED  BY <1>1, <1>2 DEF TypeOK, IInv, SessionsInv, LockHeld, AcceptInv

(* The sessions and the globals keep their types, and no more structs are  *)
(* allocated than can be queued.                                           *)
THEOREM TypeCorrect == Spec => []TypeOK
BY Invariant, IInvType, PTL

(* The lists of thread.c are what its asserts say, whatever the handlers   *)
(* cancel.                                                                 *)
THEOREM MasterAlwaysExact == Spec => []MasterExact
<1>1. IInv => MasterExact  BY MInvExact DEF IInv, SessionsInv, MasterExact
<1> QED  BY <1>1, Invariant, PTL

(* A pointer of a session never names a struct used for something else,    *)
(* and nothing is queued for a session that is gone.                       *)
THEOREM PointersAlwaysExact == Spec => []PointersExact
BY Invariant, IInvPointers, PTL

(* Each session is going to read and has its time-out; the accept socket   *)
(* is listened to.                                                         *)
THEOREM NobodyEverDeaf == Spec => []NobodyDeaf
BY Invariant, IInvDeaf, PTL

(* The configuration is locked by just the session that configures.        *)
THEOREM LockAlwaysExact == Spec => []LockExact
BY Invariant, IInvLock, PTL

=============================================================================
