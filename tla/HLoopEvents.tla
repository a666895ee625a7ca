----------------------------- MODULE HLoopEvents -----------------------------
(***************************************************************************)
(* The event core of hloop (public/libhv/event/hloop.c and hevent.h): the  *)
(* timers, idles and ios of one loop, the pending list that one iteration  *)
(* builds and walks, and the callbacks it runs, from which the application *)
(* calls back into the same structures.                                    *)
(*                                                                         *)
(* Every hevent_t the program may allocate is an element of Events and is  *)
(* allocated at most once, so a use after free is visible as a link to an  *)
(* event whose mem is "freed".  The containers are modelled as sets: the   *)
(* timer heap by the timers in it (its root is a minimal one, ties broken  *)
(* either way), the idle list and the pending lists by their members (the  *)
(* order inside one priority is left open).  A timer's next_timeout is     *)
(* kept relative to the loop's cached clock cur_hrtime, so the clock needs *)
(* no bound.                                                               *)
(***************************************************************************)
EXTENDS Integers, FiniteSets

CONSTANTS
    Timers,         \* the htimer_t the program may allocate
    PeriodTimers,   \* those created by htimer_add_period
    Idles,          \* the hidle_t the program may allocate
    Ios,            \* the user's hio_t
    NoEvent,        \* the NULL hevent_t
    Timeout,        \* Timeout[t]: the timeout of t, in ticks
    INFINITE,       \* the largest uint32_t, read as "for ever"
    Repeats,        \* the repeat arguments the application passes
    MaxStep,        \* the clock moves at most this far between two readings
    Flags,          \* the hloop_new flags
    Ops,            \* the calls the application makes
    DelAfterReset   \* may it delete a timer it has reset in the same pass?

ASSUME EventAssumption ==
    /\ PeriodTimers \subseteq Timers
    /\ Timers \cap Idles = {} /\ Timers \cap Ios = {} /\ Idles \cap Ios = {}
    /\ NoEvent \notin Timers \cup Idles \cup Ios
    /\ IsFiniteSet(Timers) /\ IsFiniteSet(Idles) /\ IsFiniteSet(Ios)

ASSUME NumberAssumption ==
    /\ Timeout \in [Timers -> Nat \ {0}]
    /\ INFINITE \in Nat \ {0}
    /\ Repeats \subseteq 0..INFINITE
    /\ MaxStep \in Nat

ASSUME OptionAssumption ==
    /\ Flags \subseteq {"RUN_ONCE", "AUTO_FREE", "QUIT_WHEN_NO_ACTIVE_EVENTS"}
    /\ Ops \subseteq {"htimer_add", "htimer_reset", "htimer_del", "hidle_add",
                      "hidle_del", "hio_add", "hio_del", "hloop_stop"}
    /\ DelAfterReset \in BOOLEAN

VARIABLES
    mem,        \* mem[e]: "none", "live" or "freed"
    active,     \* hevent_s.active
    pending,    \* hevent_s.pending
    destroy,    \* hevent_s.destroy
    repeat,     \* hidle_s.repeat, htimer_s.repeat
    due,        \* htimer_s.next_timeout minus the loop's clock
    heap,       \* loop->timers
    idles,      \* loop->idles
    linked,     \* the events in loop->pendings[], not yet walked in this pass
    nactives, npendings, ntimers, nidles, nios,  \* the counters of hloop_s
    intern,     \* loop->intern_nevents: 1 once the sockpair is being read
    ready,      \* ios whose descriptor has something to read
    pc,         \* where the loop thread is
    cur,        \* the event whose callback is running
    status,     \* loop->status
    owed        \* callbacks the loop still owes an event, see Untracked

counters == <<nactives, npendings, ntimers, nidles, nios, intern>>
flags    == <<active, pending, destroy>>
control  == <<pc, cur, status>>
vars == <<mem, flags, repeat, due, heap, idles, linked, counters, ready,
          control, owed>>

Events == Timers \cup Idles \cup Ios

(***************************************************************************)
(* owed[e] is not read by the program.  It starts at the repeat count the  *)
(* application asked for, drops by one with every callback, and is         *)
(* Untracked for "for ever", for a repeat of 0 (which wraps to INFINITE),  *)
(* and once the application resets or deletes the event.                   *)
(***************************************************************************)
Untracked == -1

PRIORITY(e) == IF e \in PeriodTimers THEN 3    \* HEVENT_HIGH_PRIORITY
               ELSE IF e \in Timers THEN 5     \* HEVENT_HIGHEST_PRIORITY
               ELSE IF e \in Ios THEN 0        \* HEVENT_NORMAL_PRIORITY
               ELSE -5                         \* HEVENT_LOWEST_PRIORITY

-----------------------------------------------------------------------------
(* uint32_t: decrementing 0 wraps to INFINITE, which is then kept.         *)
Decrement(r) == IF r = INFINITE THEN r ELSE IF r = 0 THEN INFINITE ELSE r - 1

(* The least next_timeout + k * timeout that is after the clock.           *)
NextPeriod(t) == ((due[t] - 1) % Timeout[t]) + 1

(* hloop_update_time d ticks later: the deadlines come d ticks nearer.     *)
Elapse(f, d) == [t \in Timers |-> IF t \in heap THEN f[t] - d ELSE f[t]]

(* Adds 1 to a counter of loop->nactives if e becomes active, takes 1 away *)
(* if it stops being so: EVENT_ACTIVE and EVENT_INACTIVE.                  *)
EventActive(e) ==
    /\ active' = [active EXCEPT ![e] = TRUE]
    /\ nactives' = IF active[e] THEN nactives ELSE nactives + 1

(* Mutant: the flag is cleared, the loop's count is not.                   *)
EventInactiveUncounted(e) ==
    /\ active' = [active EXCEPT ![e] = FALSE]
    /\ UNCHANGED nactives

EventInactive(e) ==
    /\ active' = [active EXCEPT ![e] = FALSE]
    /\ nactives' = IF active[e] THEN nactives - 1 ELSE nactives

EventPending(e) ==
    IF pending[e]
      THEN UNCHANGED <<pending, npendings, linked>>
      ELSE /\ pending' = [pending EXCEPT ![e] = TRUE]
           /\ npendings' = npendings + 1
           /\ linked' = linked \cup {e}

(* Mutant: frees at once, pending or not.                                  *)
EventDelNow(e) ==
    /\ EventInactive(e)
    /\ mem' = [mem EXCEPT ![e] = "freed"]

(* EVENT_DEL: inactive now, freed now unless it is marked as pending.      *)
EventDel(e) ==
    /\ EventInactive(e)
    /\ mem' = [mem EXCEPT ![e] = IF pending[e] THEN @ ELSE "freed"]

(* Is e still in the hands of the pass that hloop_process_pendings makes?  *)
InPass(e) == e \in linked \/ e = cur

-----------------------------------------------------------------------------
Init ==
    /\ mem = [e \in Events |-> IF e \in Ios THEN "live" ELSE "none"]
    /\ active = [e \in Events |-> FALSE]
    /\ pending = [e \in Events |-> FALSE]
    /\ destroy = [e \in Events |-> FALSE]
    /\ repeat = [e \in Events |-> 0]
    /\ due = [t \in Timers |-> 0]
    /\ heap = {} /\ idles = {} /\ linked = {}
    /\ nactives = 0 /\ npendings = 0 /\ ntimers = 0 /\ nidles = 0 /\ nios = 0
    /\ intern = 0
    /\ ready = {}
    /\ pc = "out" /\ cur = NoEvent /\ status = "STOP"
    /\ owed = [e \in Events |-> Untracked]

(***************************************************************************)
(* The application.  It calls the API while the loop is not running (to    *)
(* set it up, or after hloop_run has returned) and from the callback that  *)
(* is running.  It never uses the handle of an event that has been freed   *)
(* or that it has deleted.                                                 *)
(***************************************************************************)
MayCall(op) == op \in Ops /\ pc \in {"out", "cb"}

Asked(r) == IF r \in 1..(INFINITE - 1) THEN r ELSE Untracked

(* htimer_add reads the clock; htimer_add_period does not, and its first   *)
(* time may come any moment within a period.                               *)
HtimerAdd(t, r, d) ==
    /\ MayCall("htimer_add")
    /\ mem[t] = "none"
    /\ mem' = [mem EXCEPT ![t] = "live"]
    /\ repeat' = [repeat EXCEPT ![t] = r]
    /\ \/ t \notin PeriodTimers /\ due' = [Elapse(due, d) EXCEPT ![t] = Timeout[t]]
       \/ /\ t \in PeriodTimers /\ d = 0
          /\ \E first \in 1..Timeout[t] : due' = [due EXCEPT ![t] = first]
    /\ heap' = heap \cup {t}
    /\ EventActive(t)
    /\ ntimers' = ntimers + 1
    /\ owed' = [owed EXCEPT ![t] = Asked(r)]
    /\ UNCHANGED <<pending, destroy, idles, linked, npendings, nidles, nios,
                   intern, ready, control>>

(* Mutant: a timer that had expired goes back to the heap uncounted.       *)
HtimerResetUncounted(t) ==
    /\ MayCall("htimer_reset")
    /\ t \notin PeriodTimers
    /\ mem[t] = "live" /\ active[t]
    /\ repeat' = [repeat EXCEPT ![t] = IF @ = 0 THEN 1 ELSE @]
    /\ due' = [due EXCEPT ![t] = Timeout[t]]
    /\ heap' = heap \cup {t}
    /\ destroy' = [destroy EXCEPT ![t] = FALSE]
    /\ EventActive(t)
    /\ pending' = [pending EXCEPT ![t] = FALSE]
    /\ owed' = [owed EXCEPT ![t] = Untracked]
    /\ UNCHANGED <<mem, idles, linked, npendings, ntimers, nidles, nios,
                   intern, ready, control>>

(* EVENT_RESET clears pending even if t is still linked in the pass.       *)
HtimerReset(t) ==
    /\ MayCall("htimer_reset")
    /\ t \notin PeriodTimers
    /\ mem[t] = "live" /\ active[t]
    /\ ntimers' = IF destroy[t] THEN ntimers + 1 ELSE ntimers
    /\ repeat' = [repeat EXCEPT ![t] = IF @ = 0 THEN 1 ELSE @]
    /\ due' = [due EXCEPT ![t] = Timeout[t]]
    /\ heap' = heap \cup {t}
    /\ destroy' = [destroy EXCEPT ![t] = FALSE]
    /\ EventActive(t)
    /\ pending' = [pending EXCEPT ![t] = FALSE]
    /\ owed' = [owed EXCEPT ![t] = Untracked]
    /\ UNCHANGED <<mem, idles, linked, npendings, nidles, nios, intern, ready,
                   control>>

(* __htimer_del *)
UnlinkTimer(t) ==
    IF destroy[t]
      THEN UNCHANGED <<heap, ntimers, destroy>>
      ELSE /\ heap' = heap \ {t}
           /\ ntimers' = ntimers - 1
           /\ destroy' = [destroy EXCEPT ![t] = TRUE]

HtimerDel(t) ==
    /\ MayCall("htimer_del")
    /\ mem[t] = "live" /\ active[t]
    /\ DelAfterReset \/ pending[t] \/ ~InPass(t)
    /\ UnlinkTimer(t)
    /\ EventDel(t)
    /\ owed' = [owed EXCEPT ![t] = Untracked]
    /\ UNCHANGED <<pending, repeat, due, idles, linked, npendings, nidles,
                   nios, intern, ready, control>>

HidleAdd(i, r) ==
    /\ MayCall("hidle_add")
    /\ mem[i] = "none"
    /\ mem' = [mem EXCEPT ![i] = "live"]
    /\ repeat' = [repeat EXCEPT ![i] = r]
    /\ idles' = idles \cup {i}
    /\ EventActive(i)
    /\ nidles' = nidles + 1
    /\ owed' = [owed EXCEPT ![i] = Asked(r)]
    /\ UNCHANGED <<pending, destroy, due, heap, linked, npendings, ntimers,
                   nios, intern, ready, control>>

(* __hidle_del *)
UnlinkIdle(i) ==
    IF destroy[i]
      THEN UNCHANGED <<idles, nidles, destroy>>
      ELSE /\ idles' = idles \ {i}
           /\ nidles' = nidles - 1
           /\ destroy' = [destroy EXCEPT ![i] = TRUE]

HidleDel(i) ==
    /\ MayCall("hidle_del")
    /\ mem[i] = "live" /\ active[i]
    /\ UnlinkIdle(i)
    /\ EventDel(i)
    /\ owed' = [owed EXCEPT ![i] = Untracked]
    /\ UNCHANGED <<pending, repeat, due, heap, linked, npendings, ntimers,
                   nios, intern, ready, control>>

(* hio_add for the first event of an inactive io, hio_del for the last.    *)
HioAdd(i) ==
    /\ MayCall("hio_add")
    /\ mem[i] = "live" /\ ~active[i]
    /\ EventActive(i)
    /\ nios' = nios + 1
    /\ UNCHANGED <<mem, pending, destroy, repeat, due, heap, idles, linked,
                   npendings, ntimers, nidles, intern, ready, control, owed>>

HioDel(i) ==
    /\ MayCall("hio_del")
    /\ active[i]
    /\ EventInactive(i)
    /\ nios' = nios - 1
    /\ UNCHANGED <<mem, pending, destroy, repeat, due, heap, idles, linked,
                   npendings, ntimers, nidles, intern, ready, control, owed>>

(* hloop_stop: from a callback, or from another thread at any moment.      *)
HloopStop ==
    /\ "hloop_stop" \in Ops
    /\ pc \notin {"out", "freed"} /\ status = "RUNNING"
    /\ status' = "STOP"
    /\ UNCHANGED <<mem, flags, repeat, due, heap, idles, linked, counters,
                   ready, pc, cur, owed>>

(* Something arrives on the descriptor of an io.                           *)
Arrive(i) ==
    /\ pc # "freed" /\ i \notin ready
    /\ ready' = ready \cup {i}
    /\ UNCHANGED <<mem, flags, repeat, due, heap, idles, linked, counters,
                   control, owed>>

AppCall ==
    \/ \E t \in Timers, r \in Repeats, d \in 0..MaxStep : HtimerAdd(t, r, d)
    \/ \E t \in Timers : HtimerReset(t)
    \/ \E t \in Timers : HtimerDel(t)
    \/ \E i \in Idles, r \in Repeats : HidleAdd(i, r)
    \/ \E i \in Idles : HidleDel(i)
    \/ \E i \in Ios : HioAdd(i)
    \/ \E i \in Ios : HioDel(i)

-----------------------------------------------------------------------------
(***************************************************************************)
(* The loop thread: hloop_run, and one hloop_process_events per iteration. *)
(***************************************************************************)
(* The first hloop_run also starts reading the sockpair: one more active io*)
HloopRun ==
    /\ pc = "out" /\ status = "STOP"
    /\ ~(intern = 1 /\ "AUTO_FREE" \in Flags)
    /\ status' = "RUNNING"
    /\ intern' = 1
    /\ nactives' = nactives + (1 - intern)
    /\ nios' = nios + (1 - intern)
    /\ pc' = "top"
    /\ UNCHANGED <<mem, flags, repeat, due, heap, idles, linked, npendings,
                   ntimers, nidles, ready, cur, owed>>

NoActiveEvents ==
    nactives <= intern /\ "QUIT_WHEN_NO_ACTIVE_EVENTS" \in Flags

LoopExit ==
    /\ pc' = "out"
    /\ status' = "STOP"

LoopTop ==
    /\ pc = "top"
    /\ IF status = "STOP" \/ NoActiveEvents
         THEN LoopExit
         ELSE pc' = "poll" /\ UNCHANGED status
    /\ UNCHANGED <<mem, flags, repeat, due, heap, idles, linked, counters,
                   ready, cur, owed>>

(* A timer is due at the first hloop_update_time: the ios are not polled.  *)
PollSkipped(d) ==
    /\ pc = "poll"
    /\ \E t \in heap : due[t] - d <= 0
    /\ due' = Elapse(due, d)
    /\ pc' = "timers"
    /\ UNCHANGED <<mem, flags, repeat, heap, idles, linked, counters, ready,
                   cur, status, owed>>

(* The poll sleeps until a timer is due, an io is ready or it is woken up; *)
(* it marks every ready io it watches.  A stop seen on return leaves them  *)
(* linked, to be walked by the next hloop_run.                             *)
Polled == {i \in Ios : i \in ready /\ active[i] /\ ~pending[i]}

PollWaits(d) ==
    /\ pc = "poll"
    /\ \A t \in heap : due[t] > 0
    /\ due' = Elapse(due, d)
    /\ IF nios > 0
         THEN /\ pending' = [e \in Events |-> pending[e] \/ e \in Polled]
              /\ npendings' = npendings + Cardinality(Polled)
              /\ linked' = linked \cup Polled
         ELSE UNCHANGED <<pending, npendings, linked>>
    /\ pc' = IF status = "STOP" THEN "turn" ELSE "timers"
    /\ UNCHANGED <<mem, active, destroy, repeat, heap, idles, nactives, ntimers,
                   nidles, nios, intern, ready, cur, status, owed>>

(* hloop_process_timers, one timer per step, the root of the heap first.   *)
IsRoot(t) == t \in heap /\ \A u \in heap : due[t] <= due[u]

(* Mutant: the repeat count is tested before it is decremented.            *)
ProcessTimerLate(t, next) ==
    /\ pc = "timers" /\ ntimers > 0
    /\ IsRoot(t) /\ due[t] <= 0
    /\ repeat' = [repeat EXCEPT ![t] = Decrement(@)]
    /\ IF repeat[t] = 0
         THEN UnlinkTimer(t) /\ UNCHANGED due
         ELSE /\ due' = [due EXCEPT ![t] = next]
              /\ UNCHANGED <<heap, ntimers, destroy>>
    /\ EventPending(t)
    /\ UNCHANGED <<mem, active, idles, nactives, nidles, nios, intern, ready,
                   control, owed>>

(* Mutant: a timer with calls left keeps the time that is past.            *)
ProcessTimerStays(t, next) ==
    /\ pc = "timers" /\ ntimers > 0
    /\ IsRoot(t) /\ due[t] <= 0
    /\ repeat' = [repeat EXCEPT ![t] = Decrement(@)]
    /\ IF repeat'[t] = 0
         THEN UnlinkTimer(t)
         ELSE UNCHANGED <<heap, ntimers, destroy>>
    /\ EventPending(t)
    /\ UNCHANGED <<mem, active, due, idles, nactives, nidles, nios, intern,
                   ready, control, owed>>

ProcessTimer(t, next) ==
    /\ pc = "timers" /\ ntimers > 0
    /\ IsRoot(t) /\ due[t] <= 0
    /\ repeat' = [repeat EXCEPT ![t] = Decrement(@)]
    /\ IF repeat'[t] = 0
         THEN UnlinkTimer(t) /\ UNCHANGED due
         ELSE /\ due' = [due EXCEPT ![t] = next]
              /\ UNCHANGED <<heap, ntimers, destroy>>
    /\ EventPending(t)
    /\ UNCHANGED <<mem, active, idles, nactives, nidles, nios, intern, ready,
                   control, owed>>

ProcessTimeout(t) == t \notin PeriodTimers /\ ProcessTimer(t, NextPeriod(t))

(* The next instant a cron pattern names is at most one period away.       *)
ProcessPeriod(t) ==
    t \in PeriodTimers /\ \E next \in 1..Timeout[t] : ProcessTimer(t, next)

TimersDone ==
    /\ pc = "timers"
    /\ ntimers > 0 => \A t \in heap : due[t] > 0
    /\ pc' = IF npendings = 0 /\ nidles > 0 THEN "idles" ELSE "pendings"
    /\ UNCHANGED <<mem, flags, repeat, due, heap, idles, linked, counters,
                   ready, cur, status, owed>>

(* hloop_process_idles: each idle of the list once.                        *)
ProcessIdle(i) ==
    /\ pc = "idles"
    /\ i \in idles /\ ~pending[i]
    /\ repeat' = [repeat EXCEPT ![i] = Decrement(@)]
    /\ IF repeat'[i] = 0 THEN UnlinkIdle(i)
                         ELSE UNCHANGED <<idles, nidles, destroy>>
    /\ EventPending(i)
    /\ UNCHANGED <<mem, active, due, heap, nactives, ntimers, nios, intern,
                   ready, control, owed>>

IdlesDone ==
    /\ pc = "idles"
    /\ \A i \in idles : pending[i]
    /\ pc' = "pendings"
    /\ UNCHANGED <<mem, flags, repeat, due, heap, idles, linked, counters,
                   ready, cur, status, owed>>

(* hloop_process_pendings takes the events from high to low priority: one  *)
(* reset in this pass is skipped, one deleted in this pass is freed, and   *)
(* the callback of any other is invoked.                                   *)
IsNext(e) == e \in linked /\ \A f \in linked : PRIORITY(f) <= PRIORITY(e)

Take(e) ==
    /\ pc = "pendings" /\ npendings > 0
    /\ IsNext(e)
    /\ linked' = linked \ {e}

SkipReset(e) ==
    /\ Take(e)
    /\ ~pending[e]
    /\ UNCHANGED <<mem, flags, repeat, due, heap, idles, counters, ready,
                   control, owed>>

(* Mutants: an event marked destroy is not freed; pending is not cleared.  *)
FinishKeeps(e) ==
    /\ pending' = [pending EXCEPT ![e] = FALSE]
    /\ UNCHANGED <<mem, active, nactives, destroy, repeat, due, heap, idles,
                   npendings, ntimers, nidles, nios, intern, status>>

FinishStaysPending(e) ==
    /\ IF destroy[e]
         THEN EventInactive(e) /\ mem' = [mem EXCEPT ![e] = "freed"]
         ELSE UNCHANGED <<mem, active, nactives>>
    /\ UNCHANGED <<pending, destroy, repeat, due, heap, idles, npendings,
                   ntimers, nidles, nios, intern, status>>

(* After the callback, or instead of it: pending = 0, then free if marked. *)
Finish(e) ==
    /\ pending' = [pending EXCEPT ![e] = FALSE]
    /\ IF destroy[e]
         THEN EventInactive(e) /\ mem' = [mem EXCEPT ![e] = "freed"]
         ELSE UNCHANGED <<mem, active, nactives>>
    /\ UNCHANGED <<destroy, repeat, due, heap, idles, npendings, ntimers,
                   nidles, nios, intern, status>>

FinishInactive(e) ==
    /\ Take(e)
    /\ pending[e] /\ ~active[e]
    /\ Finish(e)
    /\ UNCHANGED <<ready, pc, cur, owed>>

(* The callback begins; that of an io reads what has arrived.              *)
Invoke(e) ==
    /\ Take(e)
    /\ pending[e] /\ active[e]
    /\ cur' = e
    /\ pc' = "cb"
    /\ ready' = ready \ {e}
    /\ owed' = [owed EXCEPT ![e] = IF @ = Untracked THEN @ ELSE @ - 1]
    /\ UNCHANGED <<mem, flags, repeat, due, heap, idles, counters, status>>

CallbackReturns ==
    /\ pc = "cb"
    /\ Finish(cur)
    /\ cur' = NoEvent
    /\ pc' = "pendings"
    /\ UNCHANGED <<linked, ready, owed>>

PendingsDone ==
    /\ pc = "pendings"
    /\ npendings = 0 \/ linked = {}
    /\ npendings' = 0
    /\ pc' = "turn"
    /\ UNCHANGED <<mem, flags, repeat, due, heap, idles, linked, nactives,
                   ntimers, nidles, nios, intern, ready, cur, status, owed>>

(* hloop_process_events has returned.                                      *)
EndOfTurn ==
    /\ pc = "turn"
    /\ IF "RUN_ONCE" \in Flags THEN LoopExit ELSE pc' = "top" /\ UNCHANGED status
    /\ UNCHANGED <<mem, flags, repeat, due, heap, idles, linked, counters,
                   ready, cur, owed>>

(* hloop_free, or the AUTO_FREE flag at the end of hloop_run.  What the    *)
(* close_cb that hio_free runs here may itself call is not modelled.       *)
HloopCleanup ==
    /\ pc = "out" /\ intern = 1
    /\ linked' = {}
    /\ mem' = [e \in Events |->
                 IF e \in heap \cup idles \cup Ios THEN "freed" ELSE mem[e]]
    /\ heap' = {} /\ idles' = {}
    /\ active' = [e \in Events |-> active[e] /\ e \notin Ios]
    /\ nactives' = nactives - nios
    /\ nios' = 0
    /\ pc' = "freed"
    /\ UNCHANGED <<pending, destroy, repeat, due, npendings, ntimers, nidles,
                   intern, ready, cur, status, owed>>

LoopStep ==
    \/ LoopTop
    \/ \E d \in 0..MaxStep : PollSkipped(d)
    \/ \E d \in 0..MaxStep : PollWaits(d)
    \/ \E t \in Timers : ProcessTimeout(t)
    \/ \E t \in Timers : ProcessPeriod(t)
    \/ TimersDone
    \/ \E i \in Idles : ProcessIdle(i)
    \/ IdlesDone
    \/ \E e \in Events : SkipReset(e)
    \/ \E e \in Events : FinishInactive(e)
    \/ \E e \in Events : Invoke(e)
    \/ CallbackReturns
    \/ PendingsDone
    \/ EndOfTurn

Next ==
    \/ AppCall
    \/ HloopStop
    \/ \E i \in Ios : Arrive(i)
    \/ HloopRun
    \/ LoopStep
    \/ HloopCleanup

Spec == Init /\ [][Next]_vars

(***************************************************************************)
(* Fairness.  The loop thread keeps running and callbacks return, so each  *)
(* of its steps is weakly fair; the application owes nothing.  ClockMoves  *)
(* adds that the clock does not stand still for ever.                      *)
(***************************************************************************)
Fairness == WF_vars(LoopStep)

ClockMoves == SF_vars(\E d \in 1..MaxStep : PollSkipped(d) \/ PollWaits(d))

FairSpec == Spec /\ Fairness

TimedSpec == FairSpec /\ ClockMoves

-----------------------------------------------------------------------------
(* Each variable of the loop has the type of its field in hloop_s, hidle_s *)
(* and htimer_s.                                                           *)
TypeOK ==
    /\ mem \in [Events -> {"none", "live", "freed"}]
    /\ active \in [Events -> BOOLEAN]
    /\ pending \in [Events -> BOOLEAN]
    /\ destroy \in [Events -> BOOLEAN]
    /\ repeat \in [Events -> 0..INFINITE]
    /\ due \in [Timers -> Int]
    /\ heap \subseteq Timers
    /\ idles \subseteq Idles
    /\ linked \subseteq Events
    /\ nactives \in Int /\ npendings \in Nat /\ ntimers \in Int
    /\ nidles \in Int /\ nios \in Int /\ intern \in 0..1
    /\ ready \subseteq Ios
    /\ pc \in {"out", "top", "poll", "timers", "idles", "pendings", "cb",
               "turn", "freed"}
    /\ cur \in Events \cup {NoEvent}
    /\ status \in {"STOP", "RUNNING"}
    /\ owed \in [Events -> Int]

(* Memory safety.  Whatever a callback deletes or resets, everything the   *)
(* loop will still dereference is allocated: the timers in the heap, the   *)
(* idles in the list, the events the pass has yet to walk, and the event   *)
(* hloop_process_pendings goes back to when its callback returns.          *)
NoDanglingLink ==
    \A e \in heap \cup idles \cup linked \cup ({cur} \ {NoEvent}) :
        mem[e] = "live"

(* Nothing leaks.  An allocated timer or idle is in the heap or the list,  *)
(* or it is marked destroy and pending, so that the pass that is under way *)
(* frees it; once the loop is cleaned up nothing is left allocated.        *)
NoLeak ==
    /\ \A e \in Timers \cup Idles :
          mem[e] = "live" => \/ e \in heap \cup idles
                             \/ destroy[e] /\ pending[e] /\ InPass(e)
    /\ pc = "freed" => \A e \in Events : mem[e] # "live"

(* The counters by which hloop_run decides to quit and process_events      *)
(* decides what to process agree with the structures they count, through   *)
(* every add, delete, reset, expiry and free.                              *)
CountersExact ==
    pc # "freed" =>
        /\ nactives = intern + Cardinality({e \in Events : active[e]})
        /\ nios = intern + Cardinality({i \in Ios : active[i]})
        /\ ntimers = Cardinality(heap)
        /\ nidles = Cardinality(idles)

(* A pass is never forgotten: while something is linked npendings is not   *)
(* 0, so hloop_process_pendings does not return early, and the events it   *)
(* leaves unwalked after a stop are ios only.                              *)
PassAccounted ==
    /\ linked # {} => npendings > 0
    /\ pc \in {"out", "top", "poll", "turn"} => linked \subseteq Ios

(* A timer or idle that the application neither resets nor deletes is      *)
(* called exactly as often as it asked: what is owed is always the repeat  *)
(* count left plus the call that is already queued, and an event the loop  *)
(* frees of itself is owed nothing.                                        *)
CalledAsAsked ==
    pc # "freed" =>
        \A e \in Timers \cup Idles :
            owed[e] # Untracked =>
                owed[e] = repeat[e] + (IF e \in linked THEN 1 ELSE 0)

(* Idles run only in an iteration that has no timer and no io to serve     *)
(* (npendings = 0 when process_events looks).                              *)
IdlesOnlyWhenQuiet ==
    \A e \in Idles : e \in linked => linked \subseteq Idles

(* hloop_run has returned.                                                 *)
Halted == pc \in {"out", "freed"}

(* A timer that is due is taken off the heap or re-armed, whatever the     *)
(* callbacks of other events do meanwhile.                                 *)
DueTimerServed ==
    \A t \in Timers :
        (t \in heap /\ due[t] <= 0) ~> (t \notin heap \/ due[t] > 0 \/ Halted)

(* "ios -> timers -> idles": an iteration handles the ios first, so an io  *)
(* that is ready is read, unless timers keep falling due: here cron timers *)
(* do, whose minutes are ticks.                                            *)
ReadyIoServed ==
    [](\A t \in PeriodTimers : ~active[t]) =>
      \A i \in Ios : (i \in ready /\ active[i])
                       ~> (i \notin ready \/ ~active[i] \/ Halted)

(* With QUIT_WHEN_NO_ACTIVE_EVENTS, hloop_run returns if every event is a  *)
(* timer or idle with a finite repeat and timers are not reset for ever.   *)
OnlyFinite ==
    \A e \in Events : active[e] => e \notin Ios /\ repeat[e] < INFINITE

LoopQuits ==
    [](OnlyFinite) /\ <>[][\A t \in Timers : ~HtimerReset(t)]_vars
      => (pc = "top" ~> Halted)

=============================================================================
