---------------------------- MODULE ThreadMaster ----------------------------
(***************************************************************************)
(* The scheduler of the command line library, cmd/thread.c, as operators   *)
(* on a thread_master m.  A struct thread is a number: one that was freed  *)
(* is used again, so that a pointer kept too long may name a struct with   *)
(* another use.  The order of two of the lists is left out: which unused   *)
(* struct is taken next changes nothing but the numbers, and which timer   *)
(* is due first is left open with the time.                                *)
(* Nothing that is compiled adds to the event list, so it is left out.     *)
(***************************************************************************)
EXTENDS Naturals, Sequences, FiniteSets, SequencesExt

CONSTANTS
    MaxThreads, \* bound: structs ever allocated
    NULL        \* no thread

Thread == 1..MaxThreads

ASSUME ThreadAssumption == MaxThreads \in Nat /\ NULL \notin Thread

(* What is left of list s when only the structs in S are kept.             *)
Kept(s, S) ==
    LET D == {i \in DOMAIN s : s[i] \in S}
        Nth(k) == CHOOSE i \in D : Cardinality({j \in D : j <= i}) = k
    IN [k \in 1..Cardinality(D) |-> s[Nth(k)]]

(* A struct in the unuse list; what it was used for does not matter.       *)
Unused == [type |-> "UNUSED", func |-> "none", arg |-> 0]

thread_master_create ==
    [th |-> [t \in Thread |-> Unused], alloc |-> 0,
     read |-> <<>>, write |-> <<>>, ready |-> <<>>, unuse |-> {},
     twice |-> FALSE, timer |-> {}, readfd |-> {}, writefd |-> {}]

(* The struct that thread_get will hand out, and thread_get.  The argument *)
(* of a handler stands for its descriptor as well.                         *)
NextThread(m) == IF m.unuse = {} THEN m.alloc + 1 ELSE CHOOSE t \in m.unuse : TRUE

thread_get(m, type, func, arg) ==
    [m EXCEPT !.th[NextThread(m)] = [type |-> type, func |-> func, arg |-> arg],
              !.alloc = IF m.unuse = {} THEN @ + 1 ELSE @,
              !.unuse = @ \ {NextThread(m)}]

(* The master afterwards, and the pointer returned: NULL if there already  *)
(* is a thread that waits for fd.                                          *)
thread_add_read(m, func, fd) ==
    IF fd \in m.readfd
      THEN m
      ELSE [thread_get(m, "READ", func, fd) EXCEPT
               !.readfd = @ \cup {fd}, !.read = Append(@, NextThread(m))]

AddedRead(m, fd) == IF fd \in m.readfd THEN NULL ELSE NextThread(m)

thread_add_write(m, func, fd) ==
    IF fd \in m.writefd
      THEN m
      ELSE [thread_get(m, "WRITE", func, fd) EXCEPT
               !.writefd = @ \cup {fd}, !.write = Append(@, NextThread(m))]

AddedWrite(m, fd) == IF fd \in m.writefd THEN NULL ELSE NextThread(m)

thread_add_timer(m, func, arg) ==
    [thread_get(m, "TIMER", func, arg) EXCEPT !.timer = @ \cup {NextThread(m)}]

(* The structs S are freed.  twice: a history, was one of them unused?     *)
thread_add_unuse(m, S) ==
    [m EXCEPT !.th = [t \in Thread |-> IF t \in S THEN Unused ELSE @[t]],
              !.unuse = @ \cup S,
              !.twice = @ \/ S \cap m.unuse # {}]

(* Mutant: a cancelled thread's descriptor stays in the set.               *)
thread_cancel_keeps_fd(m, S) ==
    LET out == [m EXCEPT !.read = Kept(@, Thread \ S), !.write = Kept(@, Thread \ S),
                         !.ready = Kept(@, Thread \ S), !.timer = @ \ S]
    IN thread_add_unuse(out, S)

(* thread_cancel of the structs S, one after the other: the order makes no *)
(* difference.                                                             *)
thread_cancel(m, S) ==
    LET Of(type) == {t \in S : m.th[t].type = type}
        Args(T) == {m.th[t].arg : t \in T}
        out == [m EXCEPT !.read = Kept(@, Thread \ Of("READ")),
                         !.readfd = @ \ Args(Of("READ")),
                         !.write = Kept(@, Thread \ Of("WRITE")),
                         !.writefd = @ \ Args(Of("WRITE")),
                         !.timer = @ \ Of("TIMER"),
                         !.ready = Kept(@, Thread \ Of("READY"))]
    IN thread_add_unuse(out, S)

(* What thread_process_fd does to both lists after select() has found the  *)
(* descriptors rs and ws ready.                                            *)
thread_process_fd(m, rs, ws) ==
    LET OnRead == {t \in Thread : m.th[t].arg \in rs}
        OnWrite == {t \in Thread : m.th[t].arg \in ws}
        moved == Kept(m.read, OnRead) \o Kept(m.write, OnWrite)
    IN [m EXCEPT
          !.read = Kept(@, Thread \ OnRead), !.write = Kept(@, Thread \ OnWrite),
          !.readfd = @ \ rs, !.writefd = @ \ ws,
          !.ready = @ \o moved,
          !.th = [t \in Thread |->
                    IF t \in ToSet(moved) THEN [@[t] EXCEPT !.type = "READY"]
                                          ELSE @[t]]]

(* Masters with a ready thread to run at their head: m itself, or m after  *)
(* a select that found something.                                          *)
Fetchable(m, rs, writables) ==
    IF m.ready # <<>>
      THEN {m}
      ELSE {x \in {thread_process_fd(m, rs \cap m.readfd, ws) :
                     ws \in {w \in SUBSET m.writefd : writables \cap m.writefd \subseteq w}} :
              x.ready # <<>>}

(* thread_run: the handler works on a copy, the struct is free again.      *)
RunReady(m) == thread_add_unuse([m EXCEPT !.ready = Tail(@)], {Head(m.ready)})
RunTimer(m, t) == thread_add_unuse([m EXCEPT !.timer = @ \ {t}], {t})

-----------------------------------------------------------------------------
(* Every struct is in one list, the one its type names; a descriptor is in *)
(* a set just when one thread of the list waits for it (the asserts of     *)
(* thread.c:172-174, 388, 393 and 521).                                    *)
ListsExact(m) ==
    LET Types(S) == {m.th[t].type : t \in S}
        Args(s) == {m.th[s[i]].arg : i \in 1..Len(s)}
        lists == <<ToSet(m.read), ToSet(m.write), ToSet(m.ready), m.timer, m.unuse>>
        types == <<"READ", "WRITE", "READY", "TIMER", "UNUSED">>
    IN /\ Len(m.read) + Len(m.write) + Len(m.ready) + Cardinality(m.timer)
            + Cardinality(m.unuse) = m.alloc
       /\ UNION ToSet(lists) = 1..m.alloc
       /\ \A i \in 1..5 : Types(lists[i]) \subseteq {types[i]}
       /\ m.readfd = Args(m.read) /\ Cardinality(m.readfd) = Len(m.read)
       /\ m.writefd = Args(m.write) /\ Cardinality(m.writefd) = Len(m.write)
       /\ ~m.twice

=============================================================================
