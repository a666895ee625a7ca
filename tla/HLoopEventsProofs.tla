-------------------------- MODULE HLoopEventsProofs --------------------------
(* Theorems about HLoopEvents, for every set of events, every timeout and  *)
(* every application that makes the calls of Ops.                          *)
EXTENDS HLoopEvents, FiniteSetTheorems, TLAPS

(* The events the pending list can free: ios live as long as the loop.     *)
Freeable == Timers \cup Idles

-----------------------------------------------------------------------------
(* The type invariant.                                                     *)

LEMMA PolledFinite ==
    /\ IsFiniteSet(Polled)
    /\ Cardinality(Polled) \in Nat
    /\ Cardinality(Polled) = 0 <=> Polled = {}
BY EventAssumption, FS_Subset, FS_CardinalityType, FS_EmptySet DEF Polled

LEMMA NextPeriodPositive ==
    ASSUME TypeOK, NEW t \in Timers
    PROVE  NextPeriod(t) \in Int /\ NextPeriod(t) > 0
BY NumberAssumption DEF TypeOK, NextPeriod

(* What the helpers of the actions leave behind.                           *)
LEMMA UnlinkTimerType ==
    ASSUME TypeOK, NEW t \in Timers, UnlinkTimer(t)
    PROVE  /\ heap' \subseteq Timers /\ ntimers' \in Int
           /\ destroy' \in [Events -> BOOLEAN]
<1>1. heap' \subseteq Timers /\ ntimers' \in Int
    BY DEF TypeOK, UnlinkTimer, Events
<1>2. destroy' \in [Events -> BOOLEAN]
    BY DEF TypeOK, UnlinkTimer, Events
<1> QED
    BY <1>1, <1>2

LEMMA UnlinkIdleType ==
    ASSUME TypeOK, NEW i \in Idles, UnlinkIdle(i)
    PROVE  /\ idles' \subseteq Idles /\ nidles' \in Int
           /\ destroy' \in [Events -> BOOLEAN]
<1>1. idles' \subseteq Idles /\ nidles' \in Int
    BY DEF TypeOK, UnlinkIdle, Events
<1>2. destroy' \in [Events -> BOOLEAN]
    BY DEF TypeOK, UnlinkIdle, Events
<1> QED
    BY <1>1, <1>2

LEMMA EventInactiveType ==
    ASSUME TypeOK, NEW e, EventInactive(e)
    PROVE  active' \in [Events -> BOOLEAN] /\ nactives' \in Int
<1>1. active' \in [Events -> BOOLEAN]
    BY DEF TypeOK, EventInactive
<1>2. CASE active[e]
    BY <1>1, <1>2 DEF TypeOK, EventInactive
<1>3. CASE ~active[e]
    BY <1>1, <1>3 DEF TypeOK, EventInactive
<1> QED
    BY <1>2, <1>3

LEMMA EventDelType ==
    ASSUME TypeOK, NEW e \in Events, EventDel(e)
    PROVE  /\ active' \in [Events -> BOOLEAN] /\ nactives' \in Int
           /\ mem' \in [Events -> {"none", "live", "freed"}]
<1>1. active' \in [Events -> BOOLEAN] /\ nactives' \in Int
    BY EventInactiveType DEF EventDel
<1>2. mem' \in [Events -> {"none", "live", "freed"}]
    BY DEF TypeOK, EventDel
<1> QED
    BY <1>1, <1>2

LEMMA EventPendingType ==
    ASSUME TypeOK, NEW e \in Events, EventPending(e)
    PROVE  /\ pending' \in [Events -> BOOLEAN] /\ npendings' \in Nat
           /\ linked' \subseteq Events
<1>1. pending' \in [Events -> BOOLEAN]
    BY DEF TypeOK, EventPending
<1>2. npendings' \in Nat
    BY DEF TypeOK, EventPending
<1>3. linked' \subseteq Events
    BY DEF TypeOK, EventPending
<1> QED
    BY <1>1, <1>2, <1>3

LEMMA FinishType ==
    ASSUME TypeOK, NEW e, Finish(e)
    PROVE  /\ pending' \in [Events -> BOOLEAN]
           /\ active' \in [Events -> BOOLEAN] /\ nactives' \in Int
           /\ mem' \in [Events -> {"none", "live", "freed"}]
<1>1. pending' \in [Events -> BOOLEAN]
    BY DEF TypeOK, Finish
<1>2. CASE destroy[e]
    BY <1>1, <1>2, EventInactiveType DEF TypeOK, Finish
<1>3. CASE ~destroy[e]
    BY <1>1, <1>3 DEF TypeOK, Finish
<1> QED
    BY <1>2, <1>3

LEMMA DecrementType ==
    ASSUME NEW r \in 0..INFINITE
    PROVE  Decrement(r) \in 0..INFINITE
BY NumberAssumption DEF Decrement

LEMMA TypeInit == Init => TypeOK
BY NumberAssumption DEF Init, TypeOK, Untracked, Events

LEMMA TypeNext == TypeOK /\ [Next]_vars => TypeOK'
<1> SUFFICES ASSUME TypeOK, [Next]_vars PROVE TypeOK'
    OBVIOUS
<1> USE EventAssumption, NumberAssumption
<1>1. CASE UNCHANGED vars
    BY <1>1 DEF TypeOK, vars, flags, counters, control, InPass
<1>2. ASSUME NEW t \in Timers, NEW r \in Repeats, NEW d \in 0..MaxStep,
             HtimerAdd(t, r, d)
      PROVE  TypeOK'
    <2>1. due' \in [Timers -> Int]
        <3>1. CASE due' = [Elapse(due, d) EXCEPT ![t] = Timeout[t]]
            BY <3>1 DEF TypeOK, Elapse
        <3>2. ASSUME NEW first \in 1..Timeout[t], due' = [due EXCEPT ![t] = first]
              PROVE  due' \in [Timers -> Int]
            BY <3>2 DEF TypeOK
        <3> QED
            BY <1>2, <3>1, <3>2 DEF HtimerAdd
    <2>2. /\ mem' \in [Events -> {"none", "live", "freed"}]
          /\ repeat' \in [Events -> 0..INFINITE] /\ heap' \subseteq Timers
          /\ active' \in [Events -> BOOLEAN] /\ nactives' \in Int
          /\ ntimers' \in Int /\ owed' \in [Events -> Int]
        BY <1>2 DEF TypeOK, HtimerAdd, EventActive, Asked, Untracked, Events
    <2>3. UNCHANGED <<pending, destroy, idles, linked, npendings, nidles, nios,
                      intern, ready, control>>
        BY <1>2 DEF HtimerAdd
    <2> QED
        BY <2>1, <2>2, <2>3 DEF TypeOK, control
<1>3. ASSUME NEW t \in Timers, HtimerReset(t) PROVE TypeOK'
    BY <1>3 DEF TypeOK, HtimerReset, control, EventActive, Untracked, Events
<1>4. ASSUME NEW t \in Timers, HtimerDel(t) PROVE TypeOK'
    BY <1>4, UnlinkTimerType, EventDelType
       DEF TypeOK, HtimerDel, control, Untracked, Events
<1>5. ASSUME NEW i \in Idles, NEW r \in Repeats, HidleAdd(i, r) PROVE TypeOK'
    BY <1>5 DEF TypeOK, HidleAdd, control, EventActive, Asked, Untracked, Events
<1>6. ASSUME NEW i \in Idles, HidleDel(i) PROVE TypeOK'
    BY <1>6, UnlinkIdleType, EventDelType
       DEF TypeOK, HidleDel, control, Untracked, Events
<1>7. ASSUME NEW i \in Ios, HioAdd(i) PROVE TypeOK'
    BY <1>7 DEF TypeOK, HioAdd, control, EventActive, Events
<1>8. ASSUME NEW i \in Ios, HioDel(i) PROVE TypeOK'
    BY <1>8 DEF TypeOK, HioDel, control, EventInactive, Events
<1>9. CASE HloopStop
    BY <1>9 DEF TypeOK, HloopStop, flags, counters
<1>10. ASSUME NEW i \in Ios, Arrive(i) PROVE TypeOK'
    BY <1>10 DEF TypeOK, Arrive, flags, counters, control
<1>11. CASE HloopRun
    BY <1>11 DEF TypeOK, HloopRun, flags
<1>12. CASE LoopTop
    BY <1>12 DEF TypeOK, LoopTop, LoopExit, flags, counters
<1>13. ASSUME NEW d \in 0..MaxStep, PollSkipped(d) PROVE TypeOK'
    BY <1>13 DEF TypeOK, PollSkipped, Elapse, flags, counters
<1>14. ASSUME NEW d \in 0..MaxStep, PollWaits(d) PROVE TypeOK'
    BY <1>14, PolledFinite DEF TypeOK, PollWaits, Elapse, Polled, Events
<1>15. ASSUME NEW t \in Timers, NEW next \in Int, ProcessTimer(t, next)
       PROVE  TypeOK'
  <2>1. /\ heap' \subseteq Timers /\ ntimers' \in Int
        /\ destroy' \in [Events -> BOOLEAN]
        /\ due' \in [Timers -> Int]
    BY <1>15, UnlinkTimerType DEF TypeOK, ProcessTimer
  <2>2. repeat' \in [Events -> 0..INFINITE]
    BY <1>15, DecrementType DEF TypeOK, ProcessTimer
  <2> QED
    BY <1>15, <2>1, <2>2, EventPendingType
       DEF TypeOK, ProcessTimer, control, Events
<1>16. ASSUME NEW t \in Timers, ProcessTimeout(t) PROVE TypeOK'
    BY <1>15, <1>16, NextPeriodPositive DEF ProcessTimeout
<1>17. ASSUME NEW t \in Timers, ProcessPeriod(t) PROVE TypeOK'
    BY <1>15, <1>17 DEF ProcessPeriod
<1>18. CASE TimersDone
    BY <1>18 DEF TypeOK, TimersDone, flags, counters
<1>19. ASSUME NEW i \in Idles, ProcessIdle(i) PROVE TypeOK'
  <2>1. /\ idles' \subseteq Idles /\ nidles' \in Int
        /\ destroy' \in [Events -> BOOLEAN]
    BY <1>19, UnlinkIdleType DEF TypeOK, ProcessIdle
  <2>2. repeat' \in [Events -> 0..INFINITE]
    BY <1>19, DecrementType DEF TypeOK, ProcessIdle
  <2> QED
    BY <1>19, <2>1, <2>2, EventPendingType
       DEF TypeOK, ProcessIdle, control, Events
<1>20. CASE IdlesDone
    BY <1>20 DEF TypeOK, IdlesDone, flags, counters
<1>21. ASSUME NEW e \in Events, SkipReset(e) PROVE TypeOK'
    BY <1>21 DEF TypeOK, SkipReset, Take, flags, counters, control
<1>22. ASSUME NEW e \in Events, FinishInactive(e) PROVE TypeOK'
  <2>1. linked' \subseteq Events
    BY <1>22 DEF TypeOK, FinishInactive, Take
  <2> QED
    BY <1>22, <2>1, FinishType DEF TypeOK, FinishInactive, Finish
<1>23. ASSUME NEW e \in Events, Invoke(e) PROVE TypeOK'
    BY <1>23 DEF TypeOK, Invoke, Take, Untracked, flags, counters
<1>24. CASE CallbackReturns
    BY <1>24, FinishType DEF TypeOK, CallbackReturns, Finish
<1>25. CASE PendingsDone
    BY <1>25 DEF TypeOK, PendingsDone, flags
<1>26. CASE EndOfTurn
    BY <1>26 DEF TypeOK, EndOfTurn, LoopExit, flags, counters
<1>27. CASE HloopCleanup
    BY <1>27 DEF TypeOK, HloopCleanup
<1> QED
    BY <1>1, <1>2, <1>3, <1>4, <1>5, <1>6, <1>7, <1>8, <1>9, <1>10, <1>11,
       <1>12, <1>13, <1>14, <1>16, <1>17, <1>18, <1>19, <1>20, <1>21, <1>22,
       <1>23, <1>24, <1>25, <1>26, <1>27 DEF Next, AppCall, LoopStep

(* Every field of the loop keeps its type, whatever the callbacks call.    *)
THEOREM TypeCorrect == Spec => []TypeOK
BY TypeInit, TypeNext, PTL DEF Spec

-----------------------------------------------------------------------------
(***************************************************************************)
(* Memory safety.  The state is safe to walk because of where an event may *)
(* be: an allocated timer is in the heap unless it is marked destroy, and  *)
(* then it is pending; a pending event is in the pass; and whatever is in  *)
(* the pass is allocated.                                                  *)
(***************************************************************************)
EventOK(e) ==
    /\ e \in Timers => (e \in heap <=> mem[e] = "live" /\ ~destroy[e])
    /\ e \in Idles => (e \in idles <=> mem[e] = "live" /\ ~destroy[e])
    /\ e \in Ios => mem[e] = "live" /\ ~destroy[e]
    /\ active[e] => mem[e] = "live"
    /\ mem[e] = "none" => ~pending[e] /\ ~destroy[e]
    /\ pending[e] => InPass(e)
    /\ mem[e] = "live" /\ destroy[e] => pending[e]
    /\ InPass(e) => mem[e] = "live"
    /\ InPass(e) /\ e \notin Timers => pending[e]

EventsOK == pc # "freed" => \A e \in Events : EventOK(e)

(* The callback that is running belongs to an event already taken from the *)
(* pass, and only ios are left in it between two passes.                   *)
PassOK ==
    /\ pc = "cb" <=> cur # NoEvent
    /\ cur \notin linked
    /\ linked # {} => npendings > 0
    /\ pc \in {"out", "top", "poll", "turn", "freed"} => linked \subseteq Ios
    /\ pc = "freed" => \A e \in Events : mem[e] # "live"
    /\ pc = "freed" => linked = {} /\ heap = {} /\ idles = {}

IndInv == TypeOK /\ EventsOK /\ PassOK

LEMMA EventsNext ==
    ASSUME DelAfterReset = FALSE, IndInv, [Next]_vars, pc' # "freed",
           NEW e \in Events
    PROVE  EventOK(e)'
<1> USE EventAssumption DEF IndInv, TypeOK, EventsOK, PassOK, EventOK, InPass, Events
<1>0. CASE UNCHANGED vars
    BY <1>0 DEF vars, flags, control
<1>1. ASSUME NEW t \in Timers, NEW r \in Repeats, NEW d \in 0..MaxStep, HtimerAdd(t, r, d) PROVE EventOK(e)'
    BY <1>1 DEF HtimerAdd, EventActive, control
<1>2. ASSUME NEW t \in Timers, HtimerReset(t) PROVE EventOK(e)'
    BY <1>2 DEF HtimerReset, EventActive, control
<1>3. ASSUME NEW t \in Timers, HtimerDel(t) PROVE EventOK(e)'
    BY <1>3 DEF HtimerDel, UnlinkTimer, EventDel, EventInactive, control
<1>4. ASSUME NEW i \in Idles, NEW r \in Repeats, HidleAdd(i, r) PROVE EventOK(e)'
    BY <1>4 DEF HidleAdd, EventActive, control
<1>5. ASSUME NEW i \in Idles, HidleDel(i) PROVE EventOK(e)'
    BY <1>5 DEF HidleDel, UnlinkIdle, EventDel, EventInactive, control
<1>6. ASSUME NEW i \in Ios, HioAdd(i) PROVE EventOK(e)'
    BY <1>6 DEF HioAdd, EventActive, control
<1>7. ASSUME NEW i \in Ios, HioDel(i) PROVE EventOK(e)'
    BY <1>7 DEF HioDel, EventInactive, control
<1>8. CASE HloopStop
    BY <1>8 DEF HloopStop, flags
<1>9. ASSUME NEW i \in Ios, Arrive(i) PROVE EventOK(e)'
    BY <1>9 DEF Arrive, flags, control
<1>10. CASE HloopRun
    BY <1>10 DEF HloopRun, flags
<1>11. CASE LoopTop
    BY <1>11 DEF LoopTop, flags
<1>12. ASSUME NEW d \in 0..MaxStep, PollSkipped(d) PROVE EventOK(e)'
    BY <1>12 DEF PollSkipped, flags
<1>13. ASSUME NEW d \in 0..MaxStep, PollWaits(d) PROVE EventOK(e)'
    BY <1>13 DEF PollWaits, Polled
<1>14. ASSUME NEW t \in Timers, NEW next \in Int, ProcessTimer(t, next) PROVE EventOK(e)'
  <2>1. CASE e = t
    <3>1. CASE repeat'[t] = 0
      BY <1>14, <2>1, <3>1 DEF ProcessTimer, IsRoot, UnlinkTimer, EventPending, control
    <3>2. CASE repeat'[t] # 0
      BY <1>14, <2>1, <3>2 DEF ProcessTimer, IsRoot, UnlinkTimer, EventPending, control
    <3> QED
      BY <3>1, <3>2
  <2>2. CASE e # t
    BY <1>14, <2>2 DEF ProcessTimer, IsRoot, UnlinkTimer, EventPending, control
  <2> QED
    BY <2>1, <2>2
<1>15. CASE TimersDone
    BY <1>15 DEF TimersDone, flags
<1>16. ASSUME NEW i \in Idles, ProcessIdle(i) PROVE EventOK(e)'
    BY <1>16 DEF ProcessIdle, UnlinkIdle, EventPending, control
<1>17. CASE IdlesDone
    BY <1>17 DEF IdlesDone, flags
<1>18. ASSUME NEW f \in Events, SkipReset(f) PROVE EventOK(e)'
    BY <1>18 DEF SkipReset, Take, flags, control
<1>19. ASSUME NEW f \in Events, FinishInactive(f) PROVE EventOK(e)'
    BY <1>19 DEF FinishInactive, Take, Finish, EventInactive
<1>20. ASSUME NEW f \in Events, Invoke(f) PROVE EventOK(e)'
    BY <1>20 DEF Invoke, Take, flags
<1>21. CASE CallbackReturns
    BY <1>21 DEF CallbackReturns, Finish, EventInactive
<1>22. CASE PendingsDone
    BY <1>22 DEF PendingsDone, flags
<1>23. CASE EndOfTurn
    BY <1>23 DEF EndOfTurn, flags
<1>24. ASSUME NEW t \in Timers, ProcessTimeout(t) PROVE EventOK(e)'
    BY <1>14, <1>24, NextPeriodPositive DEF ProcessTimeout
<1>25. ASSUME NEW t \in Timers, ProcessPeriod(t) PROVE EventOK(e)'
    BY <1>14, <1>25, NumberAssumption DEF ProcessPeriod
<1>26. CASE HloopCleanup
    BY <1>26 DEF HloopCleanup
<1> HIDE DEF IndInv, TypeOK, EventsOK, PassOK, EventOK, InPass, Events
<1> QED
    BY <1>0, <1>1, <1>2, <1>3, <1>4, <1>5, <1>6, <1>7, <1>8, <1>9, <1>10,
       <1>11, <1>12, <1>13, <1>15, <1>16, <1>17, <1>18, <1>19, <1>20, <1>21,
       <1>22, <1>23, <1>24, <1>25, <1>26 DEF Next, AppCall, LoopStep

LEMMA PassNext ==
    ASSUME DelAfterReset = FALSE, IndInv, [Next]_vars
    PROVE  PassOK'
<1> USE EventAssumption DEF IndInv, TypeOK, PassOK, Events, MayCall, LoopExit, counters
<1>0. CASE UNCHANGED vars
    BY <1>0 DEF vars, flags, counters, control
<1>1. ASSUME NEW t \in Timers, NEW r \in Repeats, NEW d \in 0..MaxStep, HtimerAdd(t, r, d) PROVE PassOK'
    BY <1>1 DEF HtimerAdd, EventActive, control
<1>2. ASSUME NEW t \in Timers, HtimerReset(t) PROVE PassOK'
    BY <1>2 DEF HtimerReset, EventActive, control
<1>3. ASSUME NEW t \in Timers, HtimerDel(t) PROVE PassOK'
    BY <1>3 DEF HtimerDel, UnlinkTimer, EventDel, EventInactive, control
<1>4. ASSUME NEW i \in Idles, NEW r \in Repeats, HidleAdd(i, r) PROVE PassOK'
    BY <1>4 DEF HidleAdd, EventActive, control
<1>5. ASSUME NEW i \in Idles, HidleDel(i) PROVE PassOK'
    BY <1>5 DEF HidleDel, UnlinkIdle, EventDel, EventInactive, control
<1>6. ASSUME NEW i \in Ios, HioAdd(i) PROVE PassOK'
    BY <1>6 DEF HioAdd, EventActive, control
<1>7. ASSUME NEW i \in Ios, HioDel(i) PROVE PassOK'
    BY <1>7 DEF HioDel, EventInactive, control
<1>8. CASE HloopStop
    BY <1>8 DEF HloopStop, flags
<1>9. ASSUME NEW i \in Ios, Arrive(i) PROVE PassOK'
    BY <1>9 DEF Arrive, flags, control
<1>10. CASE HloopRun
    BY <1>10 DEF HloopRun, flags
<1>11. CASE LoopTop
    BY <1>11 DEF LoopTop, flags
<1>12. ASSUME NEW d \in 0..MaxStep, PollSkipped(d) PROVE PassOK'
    BY <1>12 DEF PollSkipped, flags
<1>13. ASSUME NEW d \in 0..MaxStep, PollWaits(d) PROVE PassOK'
    BY <1>13, PolledFinite DEF PollWaits, Polled
<1>14. ASSUME NEW t \in Timers, NEW next \in Int, ProcessTimer(t, next) PROVE PassOK'
    BY <1>14 DEF ProcessTimer, IsRoot, UnlinkTimer, EventPending, control
<1>15. CASE TimersDone
    BY <1>15 DEF TimersDone, flags
<1>16. ASSUME NEW i \in Idles, ProcessIdle(i) PROVE PassOK'
    BY <1>16 DEF ProcessIdle, UnlinkIdle, EventPending, control
<1>17. CASE IdlesDone
    BY <1>17 DEF IdlesDone, flags
<1>18. ASSUME NEW f \in Events, SkipReset(f) PROVE PassOK'
    BY <1>18 DEF SkipReset, Take, flags, control
<1>19. ASSUME NEW f \in Events, FinishInactive(f) PROVE PassOK'
    BY <1>19 DEF FinishInactive, Take, Finish, EventInactive
<1>20. ASSUME NEW f \in Events, Invoke(f) PROVE PassOK'
    BY <1>20 DEF Invoke, Take, flags
<1>21. CASE CallbackReturns
    BY <1>21 DEF CallbackReturns, Finish, EventInactive
<1>22. CASE PendingsDone
    BY <1>22 DEF PendingsDone, flags
<1>23. CASE EndOfTurn
    BY <1>23 DEF EndOfTurn, flags
<1>24. CASE HloopCleanup
  <2>1. ASSUME NEW e \in Events, mem'[e] = "live" PROVE FALSE
    BY <1>24, <2>1 DEF HloopCleanup, EventsOK, EventOK, InPass
  <2> QED
    BY <1>24, <2>1 DEF HloopCleanup
<1>25. ASSUME NEW t \in Timers, ProcessTimeout(t) PROVE PassOK'
    BY <1>14, <1>25, NextPeriodPositive DEF ProcessTimeout
<1>26. ASSUME NEW t \in Timers, ProcessPeriod(t) PROVE PassOK'
    BY <1>14, <1>26, NumberAssumption DEF ProcessPeriod
<1> HIDE DEF IndInv, TypeOK, PassOK, Events, MayCall, LoopExit, counters
<1> QED
    BY <1>0, <1>1, <1>2, <1>3, <1>4, <1>5, <1>6, <1>7, <1>8, <1>9, <1>10,
       <1>11, <1>12, <1>13, <1>15, <1>16, <1>17, <1>18, <1>19, <1>20, <1>21,
       <1>22, <1>23, <1>24, <1>25, <1>26 DEF Next, AppCall, LoopStep

LEMMA IndInvInit == Init => IndInv
<1> SUFFICES ASSUME Init PROVE EventsOK /\ PassOK
    BY TypeInit DEF IndInv
<1>1. EventsOK
    BY EventAssumption DEF Init, EventsOK, EventOK, InPass, Events
<1>2. PassOK
    BY EventAssumption DEF Init, PassOK, Events
<1> QED
    BY <1>1, <1>2

LEMMA IndInvNext ==
    ASSUME DelAfterReset = FALSE
    PROVE  IndInv /\ [Next]_vars => IndInv'
<1> SUFFICES ASSUME IndInv, [Next]_vars PROVE IndInv'
    OBVIOUS
<1>1. TypeOK'
    BY TypeNext DEF IndInv
<1>2. EventsOK'
    BY EventsNext DEF EventsOK, Events
<1>3. PassOK'
    BY PassNext
<1> QED
    BY <1>1, <1>2, <1>3 DEF IndInv

LEMMA IndInvSafe == IndInv => NoDanglingLink /\ NoLeak /\ PassAccounted
<1> SUFFICES ASSUME IndInv PROVE NoDanglingLink /\ NoLeak /\ PassAccounted
    OBVIOUS
<1>1. NoDanglingLink
  <2>1. CASE pc = "freed"
    BY <2>1 DEF IndInv, PassOK, NoDanglingLink
  <2>2. ASSUME pc # "freed",
               NEW e \in heap \cup idles \cup linked \cup ({cur} \ {NoEvent})
        PROVE  mem[e] = "live"
    BY <2>2 DEF IndInv, TypeOK, EventsOK, EventOK, InPass, Events
  <2> QED
    BY <2>1, <2>2 DEF NoDanglingLink
<1>2. NoLeak
    BY DEF IndInv, PassOK, EventsOK, EventOK, NoLeak, Events
<1>3. PassAccounted
    BY DEF IndInv, PassOK, PassAccounted
<1> QED
    BY <1>1, <1>2, <1>3

LEMMA IndInvCorrect ==
    ASSUME DelAfterReset = FALSE
    PROVE  Spec => []IndInv
BY IndInvInit, IndInvNext, PTL DEF Spec

(* If no callback deletes a timer in the pass in which it was reset, the   *)
(* loop never dereferences a freed event.                                  *)
THEOREM MemorySafe ==
    ASSUME DelAfterReset = FALSE
    PROVE  Spec => []NoDanglingLink
BY IndInvCorrect, IndInvSafe, PTL

(* Then every event is freed too, at the latest by hloop_cleanup.          *)
THEOREM LeakFree ==
    ASSUME DelAfterReset = FALSE
    PROVE  Spec => []NoLeak
BY IndInvCorrect, IndInvSafe, PTL

(* And no linked event is left behind by an early return: npendings is not *)
(* 0 while anything is linked, and only ios outlive a pass.                *)
THEOREM PassesAccounted ==
    ASSUME DelAfterReset = FALSE
    PROVE  Spec => []PassAccounted
BY IndInvCorrect, IndInvSafe, PTL

-----------------------------------------------------------------------------
(***************************************************************************)
(* The repeat counts.  An event that the application neither resets nor    *)
(* deletes is marked destroy exactly when its repeat count reaches 0; it   *)
(* stays active, so nothing linked is skipped; and a timer processed in    *)
(* this hloop_process_timers has been re-armed after the clock, so it is   *)
(* not processed twice before it is called.                                *)
(***************************************************************************)
OwedOK(e) ==
    owed[e] # Untracked =>
        /\ mem[e] # "none"
        /\ repeat[e] < INFINITE
        /\ owed[e] = repeat[e] + (IF e \in linked THEN 1 ELSE 0)
        /\ destroy[e] <=> repeat[e] = 0
        /\ e \in linked => pending[e]
        /\ mem[e] = "live" => active[e]

OncePerPass ==
    pc = "timers" => \A t \in heap : t \in linked => due[t] > 0

Quiet ==
    /\ IdlesOnlyWhenQuiet
    /\ pc = "timers" => linked \cap Idles = {}
    /\ pc = "idles" => linked \subseteq Idles

CallInv ==
    /\ IndInv
    /\ pc # "freed" => \A e \in Freeable : OwedOK(e)
    /\ OncePerPass
    /\ Quiet

LEMMA QuietNext ==
    ASSUME DelAfterReset = FALSE, CallInv, [Next]_vars
    PROVE  Quiet'
<1> USE EventAssumption DEF CallInv, IndInv, TypeOK, PassOK, Quiet, IdlesOnlyWhenQuiet, Events, MayCall, LoopExit, counters
<1>0. CASE UNCHANGED vars
    BY <1>0 DEF vars, flags, counters, control
<1>1. ASSUME NEW t \in Timers, NEW r \in Repeats, NEW d \in 0..MaxStep, HtimerAdd(t, r, d) PROVE Quiet'
    BY <1>1 DEF HtimerAdd, EventActive, control
<1>2. ASSUME NEW t \in Timers, HtimerReset(t) PROVE Quiet'
    BY <1>2 DEF HtimerReset, EventActive, control
<1>3. ASSUME NEW t \in Timers, HtimerDel(t) PROVE Quiet'
    BY <1>3 DEF HtimerDel, UnlinkTimer, EventDel, EventInactive, control
<1>4. ASSUME NEW i \in Idles, NEW r \in Repeats, HidleAdd(i, r) PROVE Quiet'
    BY <1>4 DEF HidleAdd, EventActive, control
<1>5. ASSUME NEW i \in Idles, HidleDel(i) PROVE Quiet'
    BY <1>5 DEF HidleDel, UnlinkIdle, EventDel, EventInactive, control
<1>6. ASSUME NEW i \in Ios, HioAdd(i) PROVE Quiet'
    BY <1>6 DEF HioAdd, EventActive, control
<1>7. ASSUME NEW i \in Ios, HioDel(i) PROVE Quiet'
    BY <1>7 DEF HioDel, EventInactive, control
<1>8. CASE HloopStop
    BY <1>8 DEF HloopStop, flags
<1>9. ASSUME NEW i \in Ios, Arrive(i) PROVE Quiet'
    BY <1>9 DEF Arrive, flags, control
<1>10. CASE HloopRun
    BY <1>10 DEF HloopRun, flags
<1>11. CASE LoopTop
    BY <1>11 DEF LoopTop, flags
<1>12. ASSUME NEW d \in 0..MaxStep, PollSkipped(d) PROVE Quiet'
    BY <1>12 DEF PollSkipped, flags
<1>13. ASSUME NEW d \in 0..MaxStep, PollWaits(d) PROVE Quiet'
    BY <1>13 DEF PollWaits, Polled
<1>14. ASSUME NEW t \in Timers, NEW next \in Int, ProcessTimer(t, next) PROVE Quiet'
    BY <1>14 DEF ProcessTimer, IsRoot, UnlinkTimer, EventPending, control
<1>15. CASE TimersDone
    BY <1>15 DEF TimersDone, flags
<1>16. ASSUME NEW i \in Idles, ProcessIdle(i) PROVE Quiet'
    BY <1>16 DEF ProcessIdle, UnlinkIdle, EventPending, control
<1>17. CASE IdlesDone
    BY <1>17 DEF IdlesDone, flags
<1>18. ASSUME NEW f \in Events, SkipReset(f) PROVE Quiet'
    BY <1>18 DEF SkipReset, Take, flags, control
<1>19. ASSUME NEW f \in Events, FinishInactive(f) PROVE Quiet'
    BY <1>19 DEF FinishInactive, Take, Finish, EventInactive
<1>20. ASSUME NEW f \in Events, Invoke(f) PROVE Quiet'
    BY <1>20 DEF Invoke, Take, flags
<1>21. CASE CallbackReturns
    BY <1>21 DEF CallbackReturns, Finish, EventInactive
<1>22. CASE PendingsDone
    BY <1>22 DEF PendingsDone, flags
<1>23. CASE EndOfTurn
    BY <1>23 DEF EndOfTurn, flags
<1>24. CASE HloopCleanup
    BY <1>24 DEF HloopCleanup
<1>25. ASSUME NEW t \in Timers, ProcessTimeout(t) PROVE Quiet'
    BY <1>14, <1>25, NextPeriodPositive DEF ProcessTimeout
<1>26. ASSUME NEW t \in Timers, ProcessPeriod(t) PROVE Quiet'
    BY <1>14, <1>26, NumberAssumption DEF ProcessPeriod
<1> HIDE DEF CallInv, IndInv, TypeOK, PassOK, Quiet, IdlesOnlyWhenQuiet, Events, MayCall, LoopExit, counters
<1> QED
    BY <1>0, <1>1, <1>2, <1>3, <1>4, <1>5, <1>6, <1>7, <1>8, <1>9, <1>10,
       <1>11, <1>12, <1>13, <1>15, <1>16, <1>17, <1>18, <1>19, <1>20, <1>21,
       <1>22, <1>23, <1>24, <1>25, <1>26 DEF Next, AppCall, LoopStep

LEMMA OnceNext ==
    ASSUME DelAfterReset = FALSE, CallInv, [Next]_vars
    PROVE  OncePerPass'
<1> USE EventAssumption, NumberAssumption DEF CallInv, IndInv, TypeOK, PassOK, OncePerPass, Events, MayCall, LoopExit, Elapse, counters
<1>0. CASE UNCHANGED vars
    BY <1>0 DEF vars, flags, counters, control
<1>1. ASSUME NEW t \in Timers, NEW r \in Repeats, NEW d \in 0..MaxStep, HtimerAdd(t, r, d) PROVE OncePerPass'
    BY <1>1 DEF HtimerAdd, EventActive, control
<1>2. ASSUME NEW t \in Timers, HtimerReset(t) PROVE OncePerPass'
    BY <1>2 DEF HtimerReset, EventActive, control
<1>3. ASSUME NEW t \in Timers, HtimerDel(t) PROVE OncePerPass'
    BY <1>3 DEF HtimerDel, UnlinkTimer, EventDel, EventInactive, control
<1>4. ASSUME NEW i \in Idles, NEW r \in Repeats, HidleAdd(i, r) PROVE OncePerPass'
    BY <1>4 DEF HidleAdd, EventActive, control
<1>5. ASSUME NEW i \in Idles, HidleDel(i) PROVE OncePerPass'
    BY <1>5 DEF HidleDel, UnlinkIdle, EventDel, EventInactive, control
<1>6. ASSUME NEW i \in Ios, HioAdd(i) PROVE OncePerPass'
    BY <1>6 DEF HioAdd, EventActive, control
<1>7. ASSUME NEW i \in Ios, HioDel(i) PROVE OncePerPass'
    BY <1>7 DEF HioDel, EventInactive, control
<1>8. CASE HloopStop
    BY <1>8 DEF HloopStop, flags
<1>9. ASSUME NEW i \in Ios, Arrive(i) PROVE OncePerPass'
    BY <1>9 DEF Arrive, flags, control
<1>10. CASE HloopRun
    BY <1>10 DEF HloopRun, flags
<1>11. CASE LoopTop
    BY <1>11 DEF LoopTop, flags
<1>12. ASSUME NEW d \in 0..MaxStep, PollSkipped(d) PROVE OncePerPass'
    BY <1>12 DEF PollSkipped, flags
<1>13. ASSUME NEW d \in 0..MaxStep, PollWaits(d) PROVE OncePerPass'
    BY <1>13 DEF PollWaits, Polled
<1>14. ASSUME NEW t \in Timers, NEW next \in Nat \ {0},
             ProcessTimer(t, next)
       PROVE OncePerPass'
  <2> SUFFICES ASSUME NEW u \in heap', u \in linked' PROVE due'[u] > 0
    OBVIOUS
  <2>1. t \in heap /\ pc = "timers"
    BY <1>14 DEF ProcessTimer, IsRoot
  <2>2. CASE u = t
    <3>1. repeat'[t] # 0
      BY <1>14, <2>2 DEF ProcessTimer, UnlinkTimer, IndInv, EventsOK, EventOK, IsRoot
    <3> QED
      BY <1>14, <2>2, <3>1 DEF ProcessTimer
  <2>3. CASE u # t
    <3>1. u \in heap /\ due'[u] = due[u]
      BY <1>14, <2>3 DEF ProcessTimer, UnlinkTimer
    <3>2. u \in linked
      BY <1>14, <2>3 DEF ProcessTimer, EventPending
    <3> QED
      BY <2>1, <3>1, <3>2
  <2> QED
    BY <2>2, <2>3
<1>15. CASE TimersDone
    BY <1>15 DEF TimersDone, flags
<1>16. ASSUME NEW i \in Idles, ProcessIdle(i) PROVE OncePerPass'
    BY <1>16 DEF ProcessIdle, UnlinkIdle, EventPending, control
<1>17. CASE IdlesDone
    BY <1>17 DEF IdlesDone, flags
<1>18. ASSUME NEW f \in Events, SkipReset(f) PROVE OncePerPass'
    BY <1>18 DEF SkipReset, Take, flags, control
<1>19. ASSUME NEW f \in Events, FinishInactive(f) PROVE OncePerPass'
    BY <1>19 DEF FinishInactive, Take, Finish, EventInactive
<1>20. ASSUME NEW f \in Events, Invoke(f) PROVE OncePerPass'
    BY <1>20 DEF Invoke, Take, flags
<1>21. CASE CallbackReturns
    BY <1>21 DEF CallbackReturns, Finish, EventInactive
<1>22. CASE PendingsDone
    BY <1>22 DEF PendingsDone, flags
<1>23. CASE EndOfTurn
    BY <1>23 DEF EndOfTurn, flags
<1>24. CASE HloopCleanup
    BY <1>24 DEF HloopCleanup
<1>25. ASSUME NEW t \in Timers, ProcessTimeout(t) PROVE OncePerPass'
    BY <1>14, <1>25, NextPeriodPositive DEF ProcessTimeout
<1>26. ASSUME NEW t \in Timers, ProcessPeriod(t) PROVE OncePerPass'
    BY <1>14, <1>26, NumberAssumption DEF ProcessPeriod
<1> HIDE DEF CallInv, IndInv, TypeOK, PassOK, OncePerPass, Events, MayCall, LoopExit, Elapse, counters
<1> QED
    BY <1>0, <1>1, <1>2, <1>3, <1>4, <1>5, <1>6, <1>7, <1>8, <1>9, <1>10,
       <1>11, <1>12, <1>13, <1>15, <1>16, <1>17, <1>18, <1>19, <1>20, <1>21,
       <1>22, <1>23, <1>24, <1>25, <1>26 DEF Next, AppCall, LoopStep

LEMMA OwedNext ==
    ASSUME DelAfterReset = FALSE, CallInv, [Next]_vars, pc' # "freed",
           NEW e \in Freeable
    PROVE  OwedOK(e)'
<1> USE EventAssumption, NumberAssumption DEF CallInv, IndInv, TypeOK, PassOK, OwedOK, Events, Freeable, MayCall, LoopExit, Untracked, Asked, counters
<1>0. CASE UNCHANGED vars
    BY <1>0 DEF vars, flags, counters, control
<1>1. ASSUME NEW t \in Timers, NEW r \in Repeats, NEW d \in 0..MaxStep, HtimerAdd(t, r, d) PROVE OwedOK(e)'
  <2>1. ~destroy[t] /\ t \notin linked
    BY <1>1 DEF HtimerAdd, EventsOK, EventOK, InPass
  <2> QED
    BY <1>1, <2>1 DEF HtimerAdd, EventActive, control
<1>2. ASSUME NEW t \in Timers, HtimerReset(t) PROVE OwedOK(e)'
    BY <1>2 DEF HtimerReset, EventActive, control
<1>3. ASSUME NEW t \in Timers, HtimerDel(t) PROVE OwedOK(e)'
    BY <1>3 DEF HtimerDel, UnlinkTimer, EventDel, EventInactive, control
<1>4. ASSUME NEW i \in Idles, NEW r \in Repeats, HidleAdd(i, r) PROVE OwedOK(e)'
  <2>1. ~destroy[i] /\ i \notin linked
    BY <1>4 DEF HidleAdd, EventsOK, EventOK, InPass
  <2> QED
    BY <1>4, <2>1 DEF HidleAdd, EventActive, control
<1>5. ASSUME NEW i \in Idles, HidleDel(i) PROVE OwedOK(e)'
    BY <1>5 DEF HidleDel, UnlinkIdle, EventDel, EventInactive, control
<1>6. ASSUME NEW i \in Ios, HioAdd(i) PROVE OwedOK(e)'
    BY <1>6 DEF HioAdd, EventActive, control
<1>7. ASSUME NEW i \in Ios, HioDel(i) PROVE OwedOK(e)'
    BY <1>7 DEF HioDel, EventInactive, control
<1>8. CASE HloopStop
    BY <1>8 DEF HloopStop, flags
<1>9. ASSUME NEW i \in Ios, Arrive(i) PROVE OwedOK(e)'
    BY <1>9 DEF Arrive, flags, control
<1>10. CASE HloopRun
    BY <1>10 DEF HloopRun, flags
<1>11. CASE LoopTop
    BY <1>11 DEF LoopTop, flags
<1>12. ASSUME NEW d \in 0..MaxStep, PollSkipped(d) PROVE OwedOK(e)'
    BY <1>12 DEF PollSkipped, flags
<1>13. ASSUME NEW d \in 0..MaxStep, PollWaits(d) PROVE OwedOK(e)'
    BY <1>13 DEF PollWaits, Polled
<1>14. ASSUME NEW t \in Timers, NEW next \in Int, ProcessTimer(t, next) PROVE OwedOK(e)'
  <2>1. mem[t] = "live" /\ ~destroy[t] /\ ~pending[t] /\ t \notin linked
    BY <1>14 DEF ProcessTimer, IsRoot, EventsOK, EventOK, InPass, OncePerPass
  <2>2. /\ pending' = [pending EXCEPT ![t] = TRUE]
        /\ linked' = linked \cup {t}
    BY <1>14, <2>1 DEF ProcessTimer, EventPending
  <2>3. CASE e = t
    <3>1. CASE owed[t] = Untracked
      BY <1>14, <2>3, <3>1 DEF ProcessTimer
    <3>2. CASE owed[t] # Untracked
      <4>1. repeat'[t] = repeat[t] - 1 /\ repeat[t] > 0
        BY <1>14, <2>1, <2>3, <3>2 DEF ProcessTimer, Decrement
      <4>2. destroy'[t] <=> repeat'[t] = 0
        BY <1>14, <2>1 DEF ProcessTimer, UnlinkTimer
      <4> QED
        BY <1>14, <2>1, <2>2, <2>3, <3>2, <4>1, <4>2 DEF ProcessTimer
    <3> QED
      BY <3>1, <3>2
  <2>4. CASE e # t
    BY <1>14, <2>2, <2>4 DEF ProcessTimer, UnlinkTimer
  <2> QED
    BY <2>3, <2>4
<1>15. CASE TimersDone
    BY <1>15 DEF TimersDone, flags
<1>16. ASSUME NEW i \in Idles, ProcessIdle(i) PROVE OwedOK(e)'
  <2>1. mem[i] = "live" /\ ~destroy[i] /\ ~pending[i] /\ i \notin linked
    BY <1>16 DEF ProcessIdle, EventsOK, EventOK, InPass
  <2>2. /\ pending' = [pending EXCEPT ![i] = TRUE]
        /\ linked' = linked \cup {i}
    BY <1>16, <2>1 DEF ProcessIdle, EventPending
  <2>3. CASE e = i
    <3>1. CASE owed[i] = Untracked
      BY <1>16, <2>3, <3>1 DEF ProcessIdle
    <3>2. CASE owed[i] # Untracked
      <4>1. repeat'[i] = repeat[i] - 1 /\ repeat[i] > 0
        BY <1>16, <2>1, <2>3, <3>2 DEF ProcessIdle, Decrement
      <4>2. destroy'[i] <=> repeat'[i] = 0
        BY <1>16, <2>1 DEF ProcessIdle, UnlinkIdle
      <4> QED
        BY <1>16, <2>1, <2>2, <2>3, <3>2, <4>1, <4>2 DEF ProcessIdle
    <3> QED
      BY <3>1, <3>2
  <2>4. CASE e # i
    BY <1>16, <2>2, <2>4 DEF ProcessIdle, UnlinkIdle
  <2> QED
    BY <2>3, <2>4
<1>17. CASE IdlesDone
    BY <1>17 DEF IdlesDone, flags
<1>18. ASSUME NEW f \in Events, SkipReset(f) PROVE OwedOK(e)'
    BY <1>18 DEF SkipReset, Take, flags, control
<1>19. ASSUME NEW f \in Events, FinishInactive(f) PROVE OwedOK(e)'
  <2>1. mem[f] = "live"
    BY <1>19 DEF FinishInactive, Take, EventsOK, EventOK, InPass
  <2>2. CASE e = f
    BY <1>19, <2>1, <2>2 DEF FinishInactive, Take
  <2>3. CASE e # f
    BY <1>19, <2>3 DEF FinishInactive, Take, Finish, EventInactive
  <2> QED
    BY <2>2, <2>3
<1>20. ASSUME NEW f \in Events, Invoke(f) PROVE OwedOK(e)'
  <2>1. CASE e = f
    <3>1. CASE owed[f] = Untracked
      BY <1>20, <2>1, <3>1 DEF Invoke
    <3>2. CASE owed[f] # Untracked
      <4>1. owed'[f] = repeat[f] /\ f \notin linked'
        BY <1>20, <2>1, <3>2 DEF Invoke, Take, IsNext
      <4>2. /\ mem' = mem /\ repeat' = repeat /\ destroy' = destroy
            /\ active' = active /\ pc # "freed"
        BY <1>20 DEF Invoke, Take, flags
      <4> QED
        BY <2>1, <3>2, <4>1, <4>2
    <3> QED
      BY <3>1, <3>2
  <2>2. CASE e # f
    BY <1>20, <2>2 DEF Invoke, Take, flags
  <2> QED
    BY <2>1, <2>2
<1>21. CASE CallbackReturns
    BY <1>21 DEF CallbackReturns, Finish, EventInactive
<1>22. CASE PendingsDone
    BY <1>22 DEF PendingsDone, flags
<1>23. CASE EndOfTurn
    BY <1>23 DEF EndOfTurn, flags
<1>24. CASE HloopCleanup
    BY <1>24 DEF HloopCleanup
<1>25. ASSUME NEW t \in Timers, ProcessTimeout(t) PROVE OwedOK(e)'
    BY <1>14, <1>25, NextPeriodPositive DEF ProcessTimeout
<1>26. ASSUME NEW t \in Timers, ProcessPeriod(t) PROVE OwedOK(e)'
    BY <1>14, <1>26, NumberAssumption DEF ProcessPeriod
<1> HIDE DEF CallInv, IndInv, TypeOK, PassOK, OwedOK, Events, Freeable, MayCall, LoopExit, Untracked, Asked, counters
<1> QED
    BY <1>0, <1>1, <1>2, <1>3, <1>4, <1>5, <1>6, <1>7, <1>8, <1>9, <1>10,
       <1>11, <1>12, <1>13, <1>15, <1>16, <1>17, <1>18, <1>19, <1>20, <1>21,
       <1>22, <1>23, <1>24, <1>25, <1>26 DEF Next, AppCall, LoopStep

LEMMA CallInvInit == Init => CallInv
<1> SUFFICES ASSUME Init PROVE CallInv
    OBVIOUS
<1>1. \A e \in Freeable : OwedOK(e)
    BY DEF Init, OwedOK, Freeable, Events
<1>2. OncePerPass /\ Quiet
    BY DEF Init, OncePerPass, Quiet, IdlesOnlyWhenQuiet
<1> QED
    BY <1>1, <1>2, IndInvInit DEF CallInv

LEMMA CallInvNext ==
    ASSUME DelAfterReset = FALSE
    PROVE  CallInv /\ [Next]_vars => CallInv'
<1> SUFFICES ASSUME CallInv, [Next]_vars PROVE CallInv'
    OBVIOUS
<1>1. IndInv'
    BY IndInvNext DEF CallInv
<1>2. pc' # "freed" => \A e \in Freeable : OwedOK(e)'
    BY OwedNext
<1> QED
    BY <1>1, <1>2, OnceNext, QuietNext DEF CallInv, Freeable

(* Every timer and idle left alone by the application is called exactly as *)
(* often as it asked to be.                                                *)
THEOREM CallsExact ==
    ASSUME DelAfterReset = FALSE
    PROVE  Spec => []CalledAsAsked
<1>1. CallInv => CalledAsAsked
    BY DEF CallInv, OwedOK, CalledAsAsked, Freeable
<1> QED
    BY <1>1, CallInvInit, CallInvNext, PTL DEF Spec

(* An idle is never queued in an iteration that has a timer or an io.      *)
THEOREM IdlesWait ==
    ASSUME DelAfterReset = FALSE
    PROVE  Spec => []IdlesOnlyWhenQuiet
<1>1. CallInv => IdlesOnlyWhenQuiet
    BY DEF CallInv, Quiet
<1> QED
    BY <1>1, CallInvInit, CallInvNext, PTL DEF Spec

-----------------------------------------------------------------------------
(* The counters.  Switching one event on or off changes the number of      *)
(* those that are on by the one that was not, or was.                      *)
LEMMA SwitchOn ==
    ASSUME NEW T, NEW S \in SUBSET T, IsFiniteSet(S), NEW f \in [T -> BOOLEAN],
           NEW e \in T, NEW g, g = [f EXCEPT ![e] = TRUE]
    PROVE  Cardinality({x \in S : g[x]}) =
             IF e \in S /\ ~f[e] THEN Cardinality({x \in S : f[x]}) + 1
                                 ELSE Cardinality({x \in S : f[x]})
<1> DEFINE F == {x \in S : f[x]}
           G == {x \in S : g[x]}
<1>1. IsFiniteSet(F)
    BY FS_Subset
<1>2. CASE e \in S /\ ~f[e]
  <2>1. G = F \cup {e} /\ e \notin F
    BY <1>2
  <2> QED
    BY <1>1, <1>2, <2>1, FS_AddElement
<1>3. CASE ~(e \in S /\ ~f[e])
  <2>1. G = F
    BY <1>3
  <2> QED
    BY <1>3, <2>1
<1> QED
    BY <1>2, <1>3

LEMMA SwitchOff ==
    ASSUME NEW T, NEW S \in SUBSET T, IsFiniteSet(S), NEW f \in [T -> BOOLEAN],
           NEW e \in T, NEW g, g = [f EXCEPT ![e] = FALSE]
    PROVE  Cardinality({x \in S : g[x]}) =
             IF e \in S /\ f[e] THEN Cardinality({x \in S : f[x]}) - 1
                                ELSE Cardinality({x \in S : f[x]})
<1> DEFINE F == {x \in S : f[x]}
           G == {x \in S : g[x]}
<1>1. IsFiniteSet(F)
    BY FS_Subset
<1>2. CASE e \in S /\ f[e]
  <2>1. G = F \ {e} /\ e \in F
    BY <1>2
  <2> QED
    BY <1>1, <1>2, <2>1, FS_RemoveElement
<1>3. CASE ~(e \in S /\ f[e])
  <2>1. G = F
    BY <1>3
  <2> QED
    BY <1>3, <2>1
<1> QED
    BY <1>2, <1>3

ActiveEvents == {e \in Events : active[e]}
ActiveIos == {i \in Ios : active[i]}

LEMMA EventsFinite ==
    /\ IsFiniteSet(Events) /\ IsFiniteSet(Ios)
    /\ TypeOK => IsFiniteSet(heap) /\ IsFiniteSet(idles)
    /\ Cardinality(ActiveEvents) \in Nat /\ Cardinality(ActiveIos) \in Nat
<1>1. IsFiniteSet(Events) /\ IsFiniteSet(Ios)
    BY EventAssumption, FS_Union DEF Events
<1>2. TypeOK => IsFiniteSet(heap) /\ IsFiniteSet(idles)
    BY EventAssumption, FS_Subset DEF TypeOK
<1>3. Cardinality(ActiveEvents) \in Nat /\ Cardinality(ActiveIos) \in Nat
    BY <1>1, FS_Subset, FS_CardinalityType DEF ActiveEvents, ActiveIos
<1> QED
    BY <1>1, <1>2, <1>3

LEMMA EventActiveCounts ==
    ASSUME TypeOK, NEW e \in Events, EventActive(e),
           nactives = intern + Cardinality(ActiveEvents)
    PROVE  /\ nactives' = intern + Cardinality(ActiveEvents)'
           /\ Cardinality(ActiveIos)' =
                IF e \in Ios /\ ~active[e] THEN Cardinality(ActiveIos) + 1
                                           ELSE Cardinality(ActiveIos)
<1>1. Cardinality(ActiveEvents)' =
        IF ~active[e] THEN Cardinality(ActiveEvents) + 1
                      ELSE Cardinality(ActiveEvents)
    BY EventsFinite, SwitchOn DEF TypeOK, EventActive, ActiveEvents
<1>2. Cardinality(ActiveIos)' =
        IF e \in Ios /\ ~active[e] THEN Cardinality(ActiveIos) + 1
                                   ELSE Cardinality(ActiveIos)
  <2>1. Ios \in SUBSET Events
    BY DEF Events
  <2>2. active \in [Events -> BOOLEAN]
    BY DEF TypeOK
  <2>3. active' = [active EXCEPT ![e] = TRUE]
    BY DEF EventActive
  <2> QED
    BY <2>1, <2>2, <2>3, EventsFinite, SwitchOn DEF ActiveIos
<1>3. nactives' = intern + Cardinality(ActiveEvents)'
  <2>1. CASE active[e]
    BY <1>1, <2>1 DEF EventActive
  <2>2. CASE ~active[e]
    BY <1>1, <2>2, EventsFinite DEF TypeOK, EventActive
  <2> QED
    BY <2>1, <2>2
<1> QED
    BY <1>2, <1>3

LEMMA EventInactiveCounts ==
    ASSUME TypeOK, NEW e \in Events, EventInactive(e),
           nactives = intern + Cardinality(ActiveEvents)
    PROVE  /\ nactives' = intern + Cardinality(ActiveEvents)'
           /\ Cardinality(ActiveIos)' =
                IF e \in Ios /\ active[e] THEN Cardinality(ActiveIos) - 1
                                          ELSE Cardinality(ActiveIos)
<1>1. Cardinality(ActiveEvents)' =
        IF active[e] THEN Cardinality(ActiveEvents) - 1
                     ELSE Cardinality(ActiveEvents)
    BY EventsFinite, SwitchOff DEF TypeOK, EventInactive, ActiveEvents
<1>2. Cardinality(ActiveIos)' =
        IF e \in Ios /\ active[e] THEN Cardinality(ActiveIos) - 1
                                  ELSE Cardinality(ActiveIos)
  <2>1. Ios \in SUBSET Events
    BY DEF Events
  <2>2. active \in [Events -> BOOLEAN]
    BY DEF TypeOK
  <2>3. active' = [active EXCEPT ![e] = FALSE]
    BY DEF EventInactive
  <2> QED
    BY <2>1, <2>2, <2>3, EventsFinite, SwitchOff DEF ActiveIos
<1>3. nactives' = intern + Cardinality(ActiveEvents)'
  <2>1. CASE active[e]
    BY <1>1, <2>1, EventsFinite DEF TypeOK, EventInactive
  <2>2. CASE ~active[e]
    BY <1>1, <2>2 DEF EventInactive
  <2> QED
    BY <2>1, <2>2
<1> QED
    BY <1>2, <1>3

Counted ==
    /\ nactives = intern + Cardinality(ActiveEvents)
    /\ nios = intern + Cardinality(ActiveIos)
    /\ ntimers = Cardinality(heap)
    /\ nidles = Cardinality(idles)

CountInv == IndInv /\ (pc # "freed" => Counted)

LEMMA UnlinkTimerCounts ==
    ASSUME IndInv, pc # "freed", NEW t \in Timers, UnlinkTimer(t),
           mem[t] = "live", ntimers = Cardinality(heap)
    PROVE  ntimers' = Cardinality(heap')
<1>1. CASE destroy[t]
    BY <1>1 DEF UnlinkTimer
<1>2. CASE ~destroy[t]
  <2>1. t \in heap
    BY <1>2 DEF IndInv, EventsOK, EventOK, Events
  <2> QED
    BY <1>2, <2>1, EventsFinite, FS_RemoveElement DEF UnlinkTimer, IndInv
<1> QED
    BY <1>1, <1>2

LEMMA UnlinkIdleCounts ==
    ASSUME IndInv, pc # "freed", NEW i \in Idles, UnlinkIdle(i),
           mem[i] = "live", nidles = Cardinality(idles)
    PROVE  nidles' = Cardinality(idles')
<1>1. CASE destroy[i]
    BY <1>1 DEF UnlinkIdle
<1>2. CASE ~destroy[i]
  <2>1. i \in idles
    BY <1>2 DEF IndInv, EventsOK, EventOK, Events
  <2> QED
    BY <1>2, <2>1, EventsFinite, FS_RemoveElement DEF UnlinkIdle, IndInv
<1> QED
    BY <1>1, <1>2

LEMMA CountsNext ==
    ASSUME DelAfterReset = FALSE, CountInv, [Next]_vars, pc' # "freed"
    PROVE  Counted'
<1>f. IsFiniteSet(heap) /\ IsFiniteSet(idles)
    BY EventsFinite DEF CountInv, IndInv
<1> USE EventAssumption DEF CountInv, IndInv, TypeOK, PassOK, Counted, Events, MayCall, LoopExit, counters, control
<1>0. CASE UNCHANGED vars
    BY <1>0 DEF vars, flags, ActiveEvents, ActiveIos
<1>1. ASSUME NEW t \in Timers, NEW r \in Repeats, NEW d \in 0..MaxStep, HtimerAdd(t, r, d) PROVE Counted'
  <2>1. t \notin heap
    BY <1>1 DEF HtimerAdd, EventsOK, EventOK
  <2>2. ntimers' = Cardinality(heap')
    <3>5. Cardinality(heap \cup {t}) = Cardinality(heap) + 1
      BY <2>1, <1>f, FS_AddElement
    <3>6. heap' = heap \cup {t} /\ ntimers' = ntimers + 1 /\ ntimers = Cardinality(heap)
      BY <1>1 DEF HtimerAdd
    <3> QED
      BY <3>5, <3>6
  <2> QED
    BY <1>1, <2>2, EventActiveCounts DEF HtimerAdd
<1>2. ASSUME NEW t \in Timers, HtimerReset(t) PROVE Counted'
  <2>1. t \in heap <=> ~destroy[t]
    BY <1>2 DEF HtimerReset, EventsOK, EventOK
  <2>2. ntimers' = Cardinality(heap')
    <3>1. CASE destroy[t]
      <4>5. Cardinality(heap \cup {t}) = Cardinality(heap) + 1
        BY <2>1, <1>f, <3>1, FS_AddElement
      <4>6. heap' = heap \cup {t} /\ ntimers' = ntimers + 1 /\ ntimers = Cardinality(heap)
        BY <1>2, <3>1 DEF HtimerReset
      <4> QED
        BY <4>5, <4>6
    <3>2. CASE ~destroy[t]
      BY <1>2, <2>1, <3>2, <1>f, FS_AddElement DEF HtimerReset
    <3> QED
      BY <3>1, <3>2
  <2> QED
    BY <1>2, <2>2, EventActiveCounts DEF HtimerReset
<1>3. ASSUME NEW t \in Timers, HtimerDel(t) PROVE Counted'
  <2>1. ntimers' = Cardinality(heap')
    BY <1>3, UnlinkTimerCounts DEF HtimerDel
  <2> QED
    BY <1>3, <2>1, EventInactiveCounts DEF HtimerDel, EventDel
<1>4. ASSUME NEW i \in Idles, NEW r \in Repeats, HidleAdd(i, r) PROVE Counted'
  <2>1. i \notin idles
    BY <1>4 DEF HidleAdd, EventsOK, EventOK
  <2>2. nidles' = Cardinality(idles')
    <3>5. Cardinality(idles \cup {i}) = Cardinality(idles) + 1
      BY <2>1, <1>f, FS_AddElement
    <3>6. idles' = idles \cup {i} /\ nidles' = nidles + 1 /\ nidles = Cardinality(idles)
      BY <1>4 DEF HidleAdd
    <3> QED
      BY <3>5, <3>6
  <2> QED
    BY <1>4, <2>2, EventActiveCounts DEF HidleAdd
<1>5. ASSUME NEW i \in Idles, HidleDel(i) PROVE Counted'
  <2>1. nidles' = Cardinality(idles')
    BY <1>5, UnlinkIdleCounts DEF HidleDel
  <2> QED
    BY <1>5, <2>1, EventInactiveCounts DEF HidleDel, EventDel
<1>6. ASSUME NEW i \in Ios, HioAdd(i) PROVE Counted'
    BY <1>6, EventActiveCounts, EventsFinite DEF HioAdd
<1>7. ASSUME NEW i \in Ios, HioDel(i) PROVE Counted'
    BY <1>7, EventInactiveCounts, EventsFinite DEF HioDel
<1>8. CASE HloopStop
    BY <1>8 DEF HloopStop, flags, ActiveEvents, ActiveIos
<1>9. ASSUME NEW i \in Ios, Arrive(i) PROVE Counted'
    BY <1>9 DEF Arrive, flags, control, ActiveEvents, ActiveIos
<1>10. CASE HloopRun
    BY <1>10, EventsFinite DEF HloopRun, flags, ActiveEvents, ActiveIos
<1>11. CASE LoopTop
    BY <1>11 DEF LoopTop, flags, ActiveEvents, ActiveIos
<1>12. ASSUME NEW d \in 0..MaxStep, PollSkipped(d) PROVE Counted'
    BY <1>12 DEF PollSkipped, flags, ActiveEvents, ActiveIos
<1>13. ASSUME NEW d \in 0..MaxStep, PollWaits(d) PROVE Counted'
    BY <1>13 DEF PollWaits, Polled, ActiveEvents, ActiveIos
<1>14. ASSUME NEW t \in Timers, NEW next \in Int, ProcessTimer(t, next) PROVE Counted'
  <2>1. t \in heap /\ mem[t] = "live"
    BY <1>14 DEF ProcessTimer, IsRoot, EventsOK, EventOK
  <2>2. ntimers' = Cardinality(heap')
    <3>1. CASE repeat'[t] = 0
      BY <1>14, <2>1, <3>1, UnlinkTimerCounts DEF ProcessTimer
    <3>2. CASE repeat'[t] # 0
      BY <1>14, <3>2 DEF ProcessTimer
    <3> QED
      BY <3>1, <3>2
  <2> QED
    BY <1>14, <2>2 DEF ProcessTimer, ActiveEvents, ActiveIos
<1>15. CASE TimersDone
    BY <1>15 DEF TimersDone, flags, ActiveEvents, ActiveIos
<1>16. ASSUME NEW i \in Idles, ProcessIdle(i) PROVE Counted'
  <2>1. mem[i] = "live"
    BY <1>16 DEF ProcessIdle, EventsOK, EventOK
  <2>2. nidles' = Cardinality(idles')
    <3>1. CASE repeat'[i] = 0
      BY <1>16, <2>1, <3>1, UnlinkIdleCounts DEF ProcessIdle
    <3>2. CASE repeat'[i] # 0
      BY <1>16, <3>2 DEF ProcessIdle
    <3> QED
      BY <3>1, <3>2
  <2> QED
    BY <1>16, <2>2 DEF ProcessIdle, ActiveEvents, ActiveIos
<1>17. CASE IdlesDone
    BY <1>17 DEF IdlesDone, flags, ActiveEvents, ActiveIos
<1>18. ASSUME NEW f \in Events, SkipReset(f) PROVE Counted'
    BY <1>18 DEF SkipReset, Take, flags, control, ActiveEvents, ActiveIos
<1>19. ASSUME NEW f \in Events, FinishInactive(f) PROVE Counted'
  <2>1. f \notin Ios \/ ~destroy[f]
    BY <1>19 DEF FinishInactive, Take, EventsOK, EventOK
  <2>2. CASE destroy[f]
    BY <1>19, <2>1, <2>2, EventInactiveCounts DEF FinishInactive, Take, Finish
  <2>3. CASE ~destroy[f]
    BY <1>19, <2>3 DEF FinishInactive, Take, Finish, ActiveEvents, ActiveIos
  <2> QED
    BY <2>2, <2>3
<1>20. ASSUME NEW f \in Events, Invoke(f) PROVE Counted'
    BY <1>20 DEF Invoke, Take, flags, ActiveEvents, ActiveIos
<1>21. CASE CallbackReturns
  <2>1. cur \in Events /\ (cur \notin Ios \/ ~destroy[cur])
    BY <1>21 DEF CallbackReturns, EventsOK, EventOK
  <2>2. CASE destroy[cur]
    BY <1>21, <2>1, <2>2, EventInactiveCounts DEF CallbackReturns, Finish
  <2>3. CASE ~destroy[cur]
    BY <1>21, <2>3 DEF CallbackReturns, Finish, ActiveEvents, ActiveIos
  <2> QED
    BY <2>2, <2>3
<1>22. CASE PendingsDone
    BY <1>22 DEF PendingsDone, flags, ActiveEvents, ActiveIos
<1>23. CASE EndOfTurn
    BY <1>23 DEF EndOfTurn, flags, ActiveEvents, ActiveIos
<1>24. CASE HloopCleanup
    BY <1>24 DEF HloopCleanup
<1>25. ASSUME NEW t \in Timers, ProcessTimeout(t) PROVE Counted'
    BY <1>14, <1>25, NextPeriodPositive DEF ProcessTimeout
<1>26. ASSUME NEW t \in Timers, ProcessPeriod(t) PROVE Counted'
    BY <1>14, <1>26, NumberAssumption DEF ProcessPeriod
<1> HIDE DEF CountInv, IndInv, TypeOK, PassOK, Counted, Events, MayCall, LoopExit, counters, control
<1> QED
    BY <1>0, <1>1, <1>2, <1>3, <1>4, <1>5, <1>6, <1>7, <1>8, <1>9, <1>10,
       <1>11, <1>12, <1>13, <1>15, <1>16, <1>17, <1>18, <1>19, <1>20, <1>21,
       <1>22, <1>23, <1>24, <1>25, <1>26 DEF Next, AppCall, LoopStep

LEMMA CountInvInit == Init => CountInv
<1> SUFFICES ASSUME Init PROVE Counted
    BY IndInvInit DEF CountInv
<1>1. ActiveEvents = {} /\ ActiveIos = {}
    BY DEF Init, ActiveEvents, ActiveIos, Events
<1> QED
    BY <1>1, FS_EmptySet DEF Init, Counted

LEMMA CountInvNext ==
    ASSUME DelAfterReset = FALSE
    PROVE  CountInv /\ [Next]_vars => CountInv'
BY IndInvNext, CountsNext DEF CountInv

(* Whatever is added, deleted, reset, expired and freed, in any order and  *)
(* from any callback, the counters are those of the structures.            *)
THEOREM CountersCorrect ==
    ASSUME DelAfterReset = FALSE
    PROVE  Spec => []CountersExact
<1>1. CountInv => CountersExact
    BY DEF CountInv, Counted, CountersExact, ActiveEvents, ActiveIos
<1> QED
    BY <1>1, CountInvInit, CountInvNext, PTL DEF Spec

=============================================================================
