----------------------------- MODULE HObjectPool -----------------------------
(***************************************************************************)
(* The object pool of cpputil/hobjectpool.h.  Every section under the      *)
(* mutex is one action: Borrow has up to three of them, TryBorrow's, the   *)
(* one that counts or waits, and the one after waiting; the factory is     *)
(* called with the mutex released.  _timeout is greater than 0.            *)
(***************************************************************************)
EXTENDS Integers, Sequences, FiniteSets

CONSTANTS
    Borrowers,  \* threads with an HPoolObject
    InitNum,    \* init_num of the constructor
    MaxNum,     \* _max_num
    MaxObjects, \* bound: objects ever made
    MaxManage,  \* bound: calls of Add, Remove and Clear
    NoObject    \* a null pointer

ASSUME ObjectAssumption ==
    /\ InitNum \in Nat /\ MaxNum \in Nat /\ MaxObjects \in Nat
    /\ InitNum <= MaxObjects
    /\ NoObject \notin Nat

Object == 1..MaxObjects

VARIABLES
    object_num, \* _object_num
    objects,    \* objects_
    made,       \* objects made so far, by the factory or by the application
    bpc,        \* where each borrower is
    held,       \* the object each borrower has got
    manage,     \* calls of Add, Remove and Clear left
    debt,       \* history: objects that were out when Clear set the count to 0
    slipped     \* history: has a borrower gone to sleep beside an idle object,
                \* or woken and given up because its time was over as well?

objectVars == <<object_num, objects, made, bpc, held, manage, debt, slipped>>

ObjectInit ==
    /\ object_num = InitNum
    /\ objects = [i \in 1..InitNum |-> i]
    /\ made = InitNum
    /\ bpc = [b \in Borrowers |-> "out"]
    /\ held = [b \in Borrowers |-> NoObject]
    /\ manage = MaxManage
    /\ debt = 0
    /\ slipped = FALSE

BorrowerIn(l) == {b \in Borrowers : bpc[b] = l}
Idle == {objects[i] : i \in 1..Len(objects)}
Lent == {held[b] : b \in Borrowers} \ {NoObject}

At(b, l) == bpc' = [bpc EXCEPT ![b] = l]

(* The front of objects_ goes to b.                                        *)
Lend(b) ==
    /\ objects # <<>>
    /\ held' = [held EXCEPT ![b] = Head(objects)]
    /\ objects' = Tail(objects)
    /\ At(b, "has")

(* notify_one, with b itself moving to l at the same time.                 *)
NotifyAndGo(b, l) ==
    IF BorrowerIn("asleep") = {}
      THEN At(b, l)
      ELSE \E s \in BorrowerIn("asleep") :
             bpc' = [bpc EXCEPT ![b] = l, ![s] = "woken"]

Notify ==
    IF BorrowerIn("asleep") = {}
      THEN UNCHANGED bpc
      ELSE \E s \in BorrowerIn("asleep") : At(s, "woken")

-----------------------------------------------------------------------------
(* Borrow.                                                                 *)
TryBorrow(b) ==
    /\ bpc[b] = "out"
    /\ \/ Lend(b)
       \/ objects = <<>> /\ At(b, "none_idle") /\ UNCHANGED <<held, objects>>
    /\ UNCHANGED <<object_num, made, manage, debt, slipped>>

CountNew(b) ==
    /\ bpc[b] = "none_idle"
    /\ object_num < MaxNum
    /\ object_num' = object_num + 1
    /\ At(b, "creating")
    /\ UNCHANGED <<objects, made, held, manage, debt, slipped>>

Create(b) ==
    /\ bpc[b] = "creating"
    /\ made < MaxObjects
    /\ made' = made + 1
    /\ held' = [held EXCEPT ![b] = made + 1]
    /\ At(b, "has")
    /\ UNCHANGED <<object_num, objects, manage, debt, slipped>>

(* Mutant: a failed create leaves its place counted.                       *)
CreateFailsCounted(b) ==
    /\ bpc[b] = "creating"
    /\ At(b, "over")
    /\ UNCHANGED <<object_num, objects, made, held, manage, debt, slipped>>

CreateFails(b) ==
    /\ bpc[b] = "creating"
    /\ object_num' = object_num - 1
    /\ At(b, "over")
    /\ UNCHANGED <<objects, made, held, manage, debt, slipped>>

(* wait_for, without a second look at objects_; with a _timeout of 0       *)
(* nothing is waited for.                                                  *)
WaitForReturn(b) ==
    /\ bpc[b] = "none_idle"
    /\ object_num >= MaxNum
    /\ \/ At(b, "asleep") /\ slipped' = (slipped \/ objects # <<>>)
       \/ At(b, "over") /\ UNCHANGED slipped
    /\ UNCHANGED <<object_num, objects, made, held, manage, debt>>

(* wait_for may also end though nobody has notified it.                    *)
WakesUnasked(b) ==
    /\ bpc[b] = "asleep"
    /\ At(b, "woken")
    /\ UNCHANGED <<object_num, objects, made, held, manage, debt, slipped>>

TimedOut(b) ==
    /\ bpc[b] \in {"asleep", "woken"}
    /\ slipped' = (slipped \/ bpc[b] = "woken")
    /\ At(b, "over")
    /\ UNCHANGED <<object_num, objects, made, held, manage, debt>>

Woken(b) ==
    /\ bpc[b] = "woken"
    /\ \/ Lend(b)
       \/ objects = <<>> /\ At(b, "over") /\ UNCHANGED <<held, objects>>
    /\ UNCHANGED <<object_num, made, manage, debt, slipped>>

(* Mutant: an object comes back without a notification.                    *)
ReturnQuietly(b) ==
    /\ bpc[b] = "has"
    /\ objects' = Append(objects, held[b])
    /\ held' = [held EXCEPT ![b] = NoObject]
    /\ At(b, "over")
    /\ UNCHANGED <<object_num, made, manage, debt, slipped>>

(* Return, from ~HPoolObject.                                              *)
Return(b) ==
    /\ bpc[b] = "has"
    /\ objects' = Append(objects, held[b])
    /\ held' = [held EXCEPT ![b] = NoObject]
    /\ NotifyAndGo(b, "over")
    /\ UNCHANGED <<object_num, made, manage, debt, slipped>>

BorrowStep(b) ==
    \/ TryBorrow(b) \/ CountNew(b) \/ Create(b) \/ CreateFails(b)
    \/ WaitForReturn(b) \/ WakesUnasked(b) \/ TimedOut(b) \/ Woken(b)

-----------------------------------------------------------------------------
(* Add, Remove and Clear, from any thread.                                 *)
Add ==
    /\ manage > 0 /\ manage' = manage - 1
    /\ object_num < MaxNum
    /\ made < MaxObjects
    /\ made' = made + 1
    /\ objects' = Append(objects, made + 1)
    /\ object_num' = object_num + 1
    /\ Notify
    /\ UNCHANGED <<held, debt, slipped>>

Remove(o) ==
    /\ manage > 0 /\ manage' = manage - 1
    /\ \E i \in 1..Len(objects) :
         /\ objects[i] = o
         /\ objects' = SubSeq(objects, 1, i - 1) \o SubSeq(objects, i + 1, Len(objects))
    /\ object_num' = object_num - 1
    /\ UNCHANGED <<made, bpc, held, debt, slipped>>

Clear ==
    /\ manage > 0 /\ manage' = manage - 1
    /\ debt' = debt + object_num - Len(objects)
    /\ objects' = <<>>
    /\ object_num' = 0
    /\ UNCHANGED <<made, bpc, held, slipped>>

ManageStep == Add \/ Clear \/ \E o \in Object : Remove(o)

-----------------------------------------------------------------------------
(* The pool's bookkeeping (_object_num, ObjectNum, BorrowNum): the count is*)
(* the objects idle, lent or being made, less those that were out when     *)
(* Clear forgot them; no object is in two places; and but for those there  *)
(* are never more objects than _max_num.                                   *)
ObjectsAccounted ==
    LET all == Len(objects) + Cardinality({b \in Borrowers : held[b] # NoObject})
               + Cardinality(BorrowerIn("creating")) IN
    /\ object_num = all - debt
    /\ Cardinality(Idle \cup Lent) = all - Cardinality(BorrowerIn("creating"))
    /\ all <= debt + (IF InitNum > MaxNum THEN InitNum ELSE MaxNum)

(* Return and Add wake a borrower for each object they bring (lines 94 and *)
(* 104), so nobody sleeps while an object lies idle that no woken borrower *)
(* is on its way to; except after one of the two slips.                    *)
NobodySleepsOverObject ==
    BorrowerIn("asleep") # {} /\ ~slipped
      => Len(objects) <= Cardinality(BorrowerIn("woken"))

=============================================================================
