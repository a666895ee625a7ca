-------------------------------- MODULE Vty --------------------------------
(***************************************************************************)
(* The terminal server of the command line library: the sessions of        *)
(* cmd/vty.c and the commands of cmd/command.c that change a session, run  *)
(* by the scheduler of ThreadMaster and talking to telnet clients.         *)
(*                                                                         *)
(* A session lives as long as its descriptor, so the two have one name. A  *)
(* read brings one line or one key.  Output is counted in screens.         *)
(***************************************************************************)
EXTENDS ThreadMaster

CONSTANTS
    Fds,        \* descriptors of sessions
    ServFd,     \* descriptor of the accept socket
    NoVty,      \* no session
    Commands,   \* what clients type
    Screens,    \* bound: screens of output a command makes
    Password,   \* is host.password set?
    Advanced,   \* host.advanced: do sessions begin in ENABLE_NODE?
    Denies,     \* may an access-list deny a client?
    MaxConns,   \* bound: connections made
    MaxInputs,  \* bound: lines and keys typed
    MaxResets   \* bound: calls of vty_finish()

ASSUME VtyAssumption ==
    /\ IsFiniteSet(Fds) /\ ServFd \notin Fds
    /\ MaxThreads >= 1 + 3 * Cardinality(Fds)
    /\ Screens \in Nat \ {0} /\ {Password, Advanced} \subseteq BOOLEAN /\ Denies \in BOOLEAN

VARIABLES
    m,                  \* g_cmdmaster
    vty,                \* vtyvec
    vty_config,         \* is the configuration locked?
    serv_thread,        \* the accept socket's slot of Vvty_serv_thread
    vty_timeout_val, no_password_check,
    listening,          \* is the accept socket open?
    backlog,            \* connections made and not accepted
    peer,               \* each descriptor's client: has it typed, is it gone?
    budget              \* inputs left, by kind

vars == <<m, vty, vty_config, serv_thread, vty_timeout_val,
          no_password_check, listening, backlog, peer, budget>>

globals == <<vty_timeout_val, no_password_check>>

Quiet == [data |-> FALSE, gone |-> FALSE]
Live == {f \in Fds : vty[f] # NoVty}
ConfigNodes == {"CONFIG", "VTY"}

Init ==
    /\ m = thread_add_read(thread_master_create, "vty_accept", ServFd)
    /\ serv_thread = 1
    /\ vty = [f \in Fds |-> NoVty]
    /\ vty_config = FALSE
    /\ vty_timeout_val = TRUE
    /\ no_password_check = TRUE
    /\ listening = TRUE /\ backlog = 0
    /\ peer = [f \in Fds |-> Quiet]
    /\ budget = [conns |-> MaxConns, inputs |-> MaxInputs, resets |-> MaxResets]

-----------------------------------------------------------------------------
(* vty_event and vty_close.  A handler works on x, the scheduler, its own  *)
(* session and the configuration lock; f is the session.                   *)
SetTimeout(x, f) ==
    IF ~x.v.v_timeout
      THEN x
      ELSE LET c == IF x.v.t_timeout = NULL THEN x.m
                                            ELSE thread_cancel(x.m, {x.v.t_timeout})
           IN [x EXCEPT !.m = thread_add_timer(c, "vty_timeout", f),
                        !.v.t_timeout = NextThread(c)]

VTY_READ(x, f) ==
    SetTimeout([x EXCEPT !.m = thread_add_read(@, "vty_read", f),
                         !.v.t_read = AddedRead(x.m, f)], f)

VTY_WRITE(x, f) ==
    IF x.v.t_write # NULL
      THEN x
      ELSE [x EXCEPT !.m = thread_add_write(@, "vty_flush", f),
                     !.v.t_write = AddedWrite(x.m, f)]

VTY_TIMEOUT_RESET(x, f) ==
    LET off == IF x.v.t_timeout = NULL
                 THEN x
                 ELSE [x EXCEPT !.m = thread_cancel(@, {x.v.t_timeout}),
                                !.v.t_timeout = NULL]
    IN SetTimeout(off, f)

Threads(v) == {v.t_read, v.t_write, v.t_timeout} \ {NULL}

(* Mutant: a session that is closed keeps its time-out.                    *)
vty_close_keeps_timer(x) ==
    [m |-> thread_cancel(x.m, Threads([x.v EXCEPT !.t_timeout = NULL])),
     v |-> NoVty, lock |-> x.lock /\ ~x.v.config]

vty_close(x) ==
    [m |-> thread_cancel(x.m, Threads(x.v)), v |-> NoVty,
     lock |-> x.lock /\ ~x.v.config]

(* The state after a handler of session f.                                 *)
Handled(x, f) ==
    /\ m' = x.m
    /\ vty' = [vty EXCEPT ![f] = x.v]
    /\ vty_config' = x.lock
    /\ UNCHANGED <<serv_thread, listening, backlog>>

-----------------------------------------------------------------------------
(* Commands, by the nodes they are installed in.  ^C and ^Z come here too. *)
Unlocked(x) == [x EXCEPT !.lock = @ /\ ~x.v.config, !.v.config = FALSE]

ToEnable(x) == [Unlocked(x) EXCEPT !.v.node = "ENABLE"]

(* Mutant: exit leaves the configuration locked.                           *)
config_exit_locked(x) ==
    CASE x.v.node \in {"VIEW", "ENABLE"} -> [x EXCEPT !.v.status = "CLOSE"]
      [] x.v.node = "CONFIG" -> [x EXCEPT !.v.node = "ENABLE"]
      [] x.v.node = "VTY" -> [x EXCEPT !.v.node = "CONFIG"]

config_exit(x) ==
    CASE x.v.node \in {"VIEW", "ENABLE"} -> [x EXCEPT !.v.status = "CLOSE"]
      [] x.v.node = "CONFIG" -> ToEnable(x)
      [] x.v.node = "VTY" -> [x EXCEPT !.v.node = "CONFIG"]

config_terminal(x) ==
    IF x.lock /\ ~x.v.config
      THEN x
      ELSE [x EXCEPT !.lock = TRUE, !.v.config = TRUE, !.v.node = "CONFIG"]

exec_timeout(x, f, on) == VTY_TIMEOUT_RESET([x EXCEPT !.v.v_timeout = on], f)

Installed(cmd) ==
    CASE cmd \in {"exit", "show"} -> {"VIEW", "ENABLE", "CONFIG", "VTY"}
      [] cmd = "enable" -> {"VIEW"}
      [] cmd \in {"length 0", "no length"} -> {"VIEW", "ENABLE"}
      [] cmd \in {"disable", "configure"} -> {"ENABLE"}
      [] cmd = "line vty" -> {"CONFIG"}
      [] cmd \in {"end", "^C"} -> ConfigNodes
      [] cmd \in {"exec-timeout", "no exec-timeout", "login", "no login"} -> {"VTY"}

Execute(x, f, cmd) ==
    CASE cmd = "exit" -> config_exit(x)
      [] cmd = "enable" -> [x EXCEPT !.v.node = "ENABLE"]
      [] cmd = "disable" -> [x EXCEPT !.v.node = "VIEW"]
      [] cmd = "length 0" -> [x EXCEPT !.v.nopage = TRUE]
      [] cmd = "no length" -> [x EXCEPT !.v.nopage = FALSE]
      [] cmd = "configure" -> config_terminal(x)
      [] cmd = "line vty" -> [x EXCEPT !.v.node = "VTY"]
      [] cmd \in {"end", "^C"} -> ToEnable(x)
      [] cmd = "exec-timeout" -> exec_timeout(x, f, TRUE)
      [] cmd = "no exec-timeout" -> exec_timeout(x, f, FALSE)
      [] OTHER -> x

Globals(cmd) ==
    /\ vty_timeout_val' = CASE cmd = "exec-timeout" -> TRUE
                            [] cmd = "no exec-timeout" -> FALSE
                            [] OTHER -> vty_timeout_val
    /\ no_password_check' = CASE cmd = "login" -> FALSE
                              [] cmd = "no login" -> TRUE
                              [] OTHER -> no_password_check

(* A password line in AUTH_NODE.                                           *)
vty_auth(x, good) ==
    IF good
      THEN [x EXCEPT !.v.fail = 0,
                     !.v.node = IF Advanced THEN "ENABLE" ELSE "VIEW"]
      ELSE [x EXCEPT !.v.fail = @ + 1,
                     !.v.status = IF x.v.fail >= 2 THEN "CLOSE" ELSE @]

-----------------------------------------------------------------------------
(* The handlers.  x0 is what thread_fetch leaves them.                     *)
Readable == {f \in Live : peer[f].data \/ peer[f].gone}
              \cup {f \in {ServFd} : listening /\ backlog > 0}

Gone == {f \in Live : peer[f].gone}

Ready(func, f, mm) ==
    LET t == Head(mm.ready) IN mm.th[t].func = func /\ mm.th[t].arg = f

Fetched(mm, f) == [m |-> RunReady(mm), v |-> vty[f], lock |-> vty_config]

vty_read_end(x, f) ==
    IF x.v.status = "CLOSE" THEN vty_close(x) ELSE VTY_READ(VTY_WRITE(x, f), f)

(* Some output is added to obuf, a prompt at least.                        *)
Printed(x, n) == [x EXCEPT !.v.obuf = IF @ + n > Screens THEN Screens ELSE @ + n]

vty_read(f) ==
    \E mm \in Fetchable(m, Readable, Gone) :
      LET x0 == [Fetched(mm, f) EXCEPT !.v.t_read = NULL] IN
      /\ Ready("vty_read", f, mm)
      /\ \/ /\ ~peer[f].data /\ peer[f].gone              \* read() returns 0
            /\ Handled(vty_close([x0 EXCEPT !.v.status = "CLOSE"]), f)
            /\ peer' = [peer EXCEPT ![f] = Quiet]
            /\ UNCHANGED <<globals, budget>>
         \/ /\ peer[f].data
            /\ \/ /\ x0.v.status = "MORE"                 \* a key at --More--
                  /\ \/ Handled(vty_read_end([x0 EXCEPT !.v.obuf = 1], f), f)
                     \/ Handled(vty_read_end([x0 EXCEPT !.v.status = "MORELINE"], f), f)
                     \/ Handled(vty_read_end(x0, f), f)
                  /\ UNCHANGED globals
               \/ /\ x0.v.status # "MORE" /\ x0.v.node = "AUTH"
                  /\ \E good \in {Password, FALSE} :
                       Handled(vty_read_end(vty_auth(x0, good), f), f)
                  /\ UNCHANGED globals
               \/ /\ x0.v.status # "MORE" /\ x0.v.node # "AUTH"
                  /\ \E cmd \in Commands, n \in 1..Screens :
                       /\ x0.v.node \in Installed(cmd)
                       /\ cmd # "show" => n = 1
                       /\ Handled(vty_read_end(Printed(Execute(x0, f, cmd), n), f), f)
                       /\ Globals(cmd)
            /\ peer' = [peer EXCEPT ![f] =
                          IF vty'[f] = NoVty THEN Quiet ELSE [@ EXCEPT !.data = FALSE]]
            /\ UNCHANGED budget

(* Mutant: a session that writes all reads on, and asks for a second       *)
(* reader when it has written.                                             *)
Disabled_not(x) == x

(* With length 0 the session does not read until all has been written.     *)
Disabled(x) ==
    IF x.v.nopage /\ x.v.t_read # NULL
      THEN [x EXCEPT !.m = thread_cancel(@, {x.v.t_read}), !.v.t_read = NULL]
      ELSE x

(* Mutant: it does not go on writing.                                      *)
FlushEnd_once(x, f) ==
    LET more == [x EXCEPT !.v.status = "MORE"]
        all == [x EXCEPT !.v.status = "NORMAL"]
    IN IF x.v.obuf > 0 THEN more
       ELSE IF x.v.nopage THEN VTY_READ(all, f) ELSE all

FlushEnd(x, f) ==
    LET more == [x EXCEPT !.v.status = "MORE"]
        all == [x EXCEPT !.v.status = "NORMAL"]
    IN CASE x.v.obuf > 0 /\ x.v.nopage -> VTY_WRITE(more, f)
         [] x.v.obuf > 0 /\ ~x.v.nopage -> more
         [] x.v.obuf = 0 /\ x.v.nopage -> VTY_READ(all, f)
         [] x.v.obuf = 0 /\ ~x.v.nopage -> all

vty_flush(f) ==
    \E mm \in Fetchable(m, Readable, Gone) :
      LET x == Disabled([Fetched(mm, f) EXCEPT !.v.t_write = NULL]) IN
      /\ Ready("vty_flush", f, mm)
      /\ \E left \in 0..Screens :
           /\ left = 0 \/ left < x.v.obuf
           /\ Handled(FlushEnd([x EXCEPT !.v.obuf = left], f), f)
      /\ UNCHANGED <<globals, peer, budget>>

vty_timeout(f) ==
    \E t \in m.timer :
      LET x == [m |-> RunTimer(m, t), v |-> vty[f], lock |-> vty_config] IN
      /\ m.th[t].func = "vty_timeout" /\ m.th[t].arg = f
      /\ Handled(vty_close([x EXCEPT !.v.t_timeout = NULL, !.v.v_timeout = FALSE,
                                     !.v.status = "CLOSE"]), f)
      /\ peer' = [peer EXCEPT ![f] = Quiet]
      /\ UNCHANGED <<globals, budget>>

NewVty ==
    [node |-> IF ~no_password_check THEN "AUTH"
                ELSE IF Advanced THEN "ENABLE" ELSE "VIEW",
     status |-> "NORMAL", nopage |-> FALSE, v_timeout |-> vty_timeout_val, config |-> FALSE, fail |-> 0,
     obuf |-> 1, t_read |-> NULL, t_write |-> NULL, t_timeout |-> NULL]

(* VTY_SERV; the slot gets what thread_add_read returned.                  *)
VTY_SERV(mm) == thread_add_read(mm, "vty_accept", ServFd)

vty_accept ==
    \E mm \in Fetchable(m, Readable, Gone) :
      LET m0 == RunReady(mm)
          m1 == VTY_SERV(m0) IN
      /\ Ready("vty_accept", ServFd, mm)
      /\ backlog' = backlog - 1
      /\ \/ /\ m' = m1 /\ serv_thread' = AddedRead(m0, ServFd)  \* accept() fails
            /\ UNCHANGED <<vty, peer>>
         \/ /\ Denies                                            \* refused
            /\ m' = VTY_SERV(m1) /\ serv_thread' = AddedRead(m1, ServFd)
            /\ UNCHANGED <<vty, peer>>
         \/ /\ serv_thread' = AddedRead(m0, ServFd)
            /\ \E f \in Fds \ Live :
                 LET x == [m |-> m1, v |-> NewVty, lock |-> vty_config]
                     y == IF ~no_password_check /\ ~Password
                            THEN vty_close(x)
                            ELSE VTY_READ(VTY_WRITE(x, f), f)
                 IN /\ \A g \in Fds \ Live : f <= g
                    /\ m' = y.m /\ vty' = [vty EXCEPT ![f] = y.v]
            /\ UNCHANGED peer
      /\ UNCHANGED <<vty_config, listening, globals, budget>>

-----------------------------------------------------------------------------
(* vty_finish (vty_reset is the same), called from outside the sessions:   *)
(* each is closed, then the accept socket.                                 *)
vty_finish ==
    /\ budget.resets > 0 /\ budget' = [budget EXCEPT !.resets = @ - 1]
    /\ m' = thread_cancel(m, (UNION {Threads(vty[f]) : f \in Live})
                               \cup ({serv_thread} \ {NULL}))
    /\ listening' = (listening /\ serv_thread = NULL)
    /\ serv_thread' = NULL
    /\ vty' = [f \in Fds |-> NoVty]
    /\ vty_config' = (vty_config /\ \A f \in Live : ~vty[f].config)
    /\ vty_timeout_val' = TRUE
    /\ peer' = [f \in Fds |-> Quiet]
    /\ UNCHANGED <<no_password_check, backlog>>

(* The clients.                                                            *)
Connect ==
    /\ listening /\ budget.conns > 0
    /\ budget' = [budget EXCEPT !.conns = @ - 1]
    /\ backlog' = backlog + 1
    /\ UNCHANGED <<m, vty, vty_config, serv_thread, globals, listening, peer>>

Type(f) ==
    /\ f \in Live /\ peer[f] = Quiet /\ budget.inputs > 0
    /\ budget' = [budget EXCEPT !.inputs = @ - 1]
    /\ peer' = [peer EXCEPT ![f].data = TRUE]
    /\ UNCHANGED <<m, vty, vty_config, serv_thread, globals, listening, backlog>>

HangUp(f) ==
    /\ f \in Live /\ ~peer[f].gone
    /\ peer' = [peer EXCEPT ![f].gone = TRUE]
    /\ UNCHANGED <<m, vty, vty_config, serv_thread, globals, listening, backlog,
                   budget>>

Handler == vty_accept \/ \E f \in Fds : vty_read(f) \/ vty_flush(f)

Next ==
    \/ Handler \/ vty_finish \/ Connect
    \/ \E f \in Fds : vty_timeout(f) \/ Type(f) \/ HangUp(f)

Spec == Init /\ [][Next]_vars

(***************************************************************************)
(* Fairness of the main loop: while there is a handler to run (a client    *)
(* reads what it is sent in the end) it goes on, with a handler or a       *)
(* time-out.  This is weak fairness with its two halves written out, TLC   *)
(* being slow to find out whether a handler is enabled: a step of the loop *)
(* is one that neither uses a budget nor hangs up.                         *)
(***************************************************************************)
CanRun == m.ready # <<>> \/ Readable \cap m.readfd # {} \/ m.writefd # {}

LoopStep ==
    /\ UNCHANGED budget
    /\ \A f \in Fds : peer'[f].gone => peer[f].gone

FairSpec == Spec /\ ([]<>~CanRun \/ []<><<LoopStep>>_vars)

-----------------------------------------------------------------------------
Session == [node : {"VIEW", "ENABLE", "CONFIG", "VTY", "AUTH"},
            status : {"NORMAL", "MORE", "MORELINE"}, nopage : BOOLEAN,
            v_timeout : BOOLEAN, config : BOOLEAN, fail : 0..2, obuf : 0..Screens,
            t_read : Thread \cup {NULL}, t_write : Thread \cup {NULL},
            t_timeout : Thread \cup {NULL}]

ASSUME NoVtyAssumption == NoVty \notin Session

TypeOK ==
    /\ m.alloc \in 0..(1 + 3 * Cardinality(Fds))
    /\ vty \in [Fds -> Session \cup {NoVty}]
    /\ vty_config \in BOOLEAN /\ listening \in BOOLEAN
    /\ serv_thread \in Thread \cup {NULL}
    /\ backlog \in Nat
    /\ \A f \in Fds : peer[f] # Quiet => f \in Live

(* The scheduler's lists stay as its asserts say (thread.c:172-174, 388,   *)
(* 393, 521), through every cancellation from within a handler.            *)
MasterExact == ListsExact(m)

Queued(func, f) == {t \in Thread : m.th[t].func = func /\ m.th[t].arg = f}

(* A session's three pointers name the struct threads queued for it, which *)
(* are used again as soon as a handler starts (thread.c:500-508); nothing  *)
(* is queued for a session that has been freed (vty.c:2022-2030).          *)
PointersExact ==
    \A f \in Fds :
      LET Names(p, func) == Queued(func, f) = {p} \ {NULL} IN
      IF vty[f] = NoVty
        THEN \A func \in {"vty_read", "vty_flush", "vty_timeout"} : Names(NULL, func)
        ELSE /\ Names(vty[f].t_read, "vty_read")
             /\ Names(vty[f].t_write, "vty_flush")
             /\ Names(vty[f].t_timeout, "vty_timeout")

(* A session is always going to read, if need be after it has written; its *)
(* time-out runs as its exec-timeout says; the accept socket is listened   *)
(* to (vty.c:1467-1470, 1484-1574, 2353-2380).                             *)
NobodyDeaf ==
    /\ \A f \in Live :
         /\ vty[f].t_read # NULL \/ (vty[f].nopage /\ vty[f].t_write # NULL)
         /\ vty[f].v_timeout <=> vty[f].t_timeout # NULL
    /\ listening <=> Queued("vty_accept", ServFd) # {}

(* The configuration is locked by the one session that is in one of the    *)
(* configuration nodes, and by no session that is gone (vty.c:2308-2328).  *)
LockExact ==
    LET In == {f \in Live : vty[f].node \in ConfigNodes} IN
    /\ In = {f \in Live : vty[f].config}
    /\ Cardinality(In) = (IF vty_config THEN 1 ELSE 0)

(* Whatever a client types is read, and that it has hung up is noticed,    *)
(* also by a session that does not read while it writes.                   *)
ClientServed == \A f \in Fds : peer[f] # Quiet ~> peer[f] = Quiet

(* "vty_reset + close accept socket" (vty.c:2704), for a configuration of  *)
(* its own.                                                                *)
FinishCloses == [][budget'.resets < budget.resets => ~listening']_vars

=============================================================================
