# netmt and its libraries, in TLA+

`netmt` is a small network maintenance tool: a server (`src/Server.c`) that keeps a list
of connected clients and broadcasts what its operator types, and a client
(`src/Client.c`) that sends what is typed and a heartbeat. Both run on the event library
under `src/public/libhv` (libhv): almost everything that is hard about netmt happens
there. The repository also holds libhv's C++ layers (loops in threads, pools, an
asynchronous HTTP client) and the command line library `src/public/cmd` (GNU Zebra), a
scheduler of its own with a terminal server on top. This directory models these parts,
checks the models with TLC, and proves what it can of them with TLAPS.

## 1. The system

### Parts, state, operations

| Part | Code | State | Operations | Model |
| --- | --- | --- | --- | --- |
| Event core | `event/hloop.c`, `event/hevent.h` | timer heap, idle list, pending lists, flags `active`/`pending`/`destroy`, counters, status | `hloop_run`, `htimer_add/reset/del`, `hidle_add/del`, `hio_add/del`, `hloop_stop`, `hloop_cleanup` | `HLoopEvents` |
| Cross-thread control | `event/hloop.c`, `event/nio.c` | `custom_events` and its mutex, socket pair, write queue of its writing end, `tid`, status | `hloop_post_event`, `hloop_wakeup`, `hloop_stop`, `hloop_pause`, `hloop_resume`, `sockpair_read_cb` | `LoopPost`, `PostBox` |
| Connection I/O | `event/nio.c`, hio part of `hloop.c`, `base/queue.h` | one `hio_t`: flags, id, events, timers, write queue; the kernel's side | `hio_connect/read/read_stop/write/close`, `nio_read`, `nio_write`, `nio_connect`, the timers, `hio_close_async` | `HioConn` |
| Server | `src/Server.c`, `string_ini.h` | client list, `io_t` of each client, shared read buffer, stdin, listener | `on_accept`, `on_recv`, `on_close`, `on_send`, `SendStr` | `NetmtServer` |
| Client | `src/Client.c` | the connection, its timers, stdin | `on_connect`, `on_recv`, `on_close`, `on_stdin`, `send_heartbeat` | `NetmtClient` (TCP) |
| evpp | `libhv/evpp/EventLoop*.h`, `Status.h` | status of pool, threads and loops, `loop_`, `customEvents_` and its mutex, the `hloop_t` under each | `start`, `stop`, `join` at each level, `postEvent`, `onCustomEvent` | `EvppPool` |
| Pools | `cpputil/hthreadpool.h`, `hobjectpool.h` | task queue, workers, idle count; idle objects, object count | `start/stop/pause/resume/wait/commit`; `Borrow/Return/Add/Remove/Clear` | `HThreadPool`, `HObjectPool`, `PoolTasks`, `TaskQueue` |
| Asynchronous HTTP client | `http/client/AsyncHttpClient.*` | channels by descriptor, pool of idle connections, tasks with retries and time limit | `send`, `sendInLoop`, `doTask`, `sendRequest`, the channel's callbacks, the timers | `AsyncHttpClient` |
| Scheduler of the command line library | `src/public/cmd/thread.c` | lists of a `thread_master`, structs used again | `thread_add_*`, `thread_cancel`, `thread_fetch`, `thread_call` | `ThreadMaster` |
| Terminal server | `src/public/cmd/vty.c`, `command.c` | sessions with three thread pointers each, configuration lock, accept socket | `vty_accept`, `vty_read`, `vty_flush`, `vty_timeout`, `vty_close`, `vty_finish`, the commands that change a session | `Vty` |
| Network logger | `event/nlog.c` | list of connections, a mutex | `network_logger`, `on_accept`, `on_close` | planned |
| Master and workers | `cpputil/hmain.cpp` | pid table | signal handler, spawn, reload | planned |

`PROJECT.json` names the rest (base utilities, other pollers, HTTP parsers, protocol
helpers, tests, build files) with the reason each is left out. `src/source/pubinc/hv` is a
copy of libhv's headers.

### How the parts interact

*Calls downwards.* A program creates a loop (`hloop_new`), adds events and enters
`hloop_run`. One iteration polls the ios, processes due timers, idles only if there is
nothing else, and then walks the pending lists from the highest priority down, running
callbacks.
*Callbacks upwards.* A callback may call every function of the library on the very event
that is running, on another one that the walk has yet to reach, or on the loop. A
connection's callbacks (`read_cb`, `write_cb`, `close_cb`) are called from the middle of
`nio_read`, `nio_write`, `hio_write` and `hio_close`, which go on afterwards.
*Threads.* `hloop_post_event`, `hloop_stop`, `hloop_pause`, `hloop_resume` and `hio_close`
are used from other threads; they share the loop's fields with its thread, mostly without
a lock, and wake it with a byte in a socket pair. evpp adds a second queue and a second
status above the loop's, each with a lock of its own or none. The two pools use a mutex and
condition variables, which some of their calls notify without holding the mutex.
*Kernel and peer.* Short writes, a full send buffer, a peer that does not read, ends or
resets, a descriptor number that is used again at once.
*The command line library* is single-threaded: handlers run to their end, and add and cancel
`struct thread`s, which the scheduler reuses from the moment a handler starts.

### What is hard

Re-entry of callbacks into the structures that are being walked; events freed while they
are linked; counters kept by hand; a wake-up channel that can be full; calls of another
thread between two statements of the loop's; a close that must wait for queued bytes, and
end all the same; ids that tell one user of a descriptor from the next; a read buffer
shared by all connections; a stop that overtakes the start or the sleep of what it stops;
a request that outlives its connection; a pointer kept to a struct that has been used
again. `PROJECT.json` lists each hazard at its line with the properties that watch it, or
the reason why none does.

### What makes each part correct

| Part | Safety | Progress |
| --- | --- | --- |
| Event core | nothing linked is freed; nothing leaks; counters equal what they count; no pass is lost; calls are as many as asked; idles wait | due timers and ready ios are served; a loop with nothing to do quits |
| Cross-thread control | a mailbox: each event once, in order of entry; one byte in flight per event; `HV_WRITE` armed while bytes wait | every event handled; a stop ends the run; an idle loop quits |
| Connection I/O | bytes in order, none missing; nothing of a closed connection left; `close_cb` once; queued bytes sent before a graceful close; no posted close is lost to the reuse of a descriptor | a close completes, another thread's too |
| Server | the list is exactly the open connections and empty at the end; a broadcast reaches each | |
| Client | heartbeat on an open connection only | ends with its connection |
| evpp | each loop's two queues stay one mailbox; no freed or null `hloop_t` is used; the pool's status is true of its loops | what is posted is run; a stop ends |
| Pools | each task once, in order; `wait` means done; a paused worker takes at most one more; objects made, idle and lent add up | tasks are served; a stop ends; nobody sleeps over an idle object |
| HTTP client | a request is in one place; the pool holds exactly the idle connections; an answer reaches the request that asked | every request with a time limit ends |
| Command line | every struct thread in one list; a session's pointers name its own threads; one owner of the lock; no session deaf | whatever a client types or does is noticed |

## 2. The modules

### HLoopEvents (with MCHLoopEvents)

One action per API function (`HtimerAdd`, `HtimerReset`, `HtimerDel`, `HidleAdd`, ...),
enabled outside `hloop_run` and inside a callback (`pc = "cb"`), and one action per step of
`hloop_run`: `LoopTop`, `PollSkipped`/`PollWaits` (`hloop_process_events` with and without
its `goto process_timers`), `ProcessTimeout`/`ProcessPeriod`/`TimersDone`,
`ProcessIdle`/`IdlesDone`, and for `hloop_process_pendings` `SkipReset`, `FinishInactive`,
`Invoke`, `CallbackReturns`, `PendingsDone`; then `EndOfTurn` and `HloopCleanup`.

* An `hevent_t` is an element of a set and is allocated at most once; `mem` says whether
  it is allocated or freed. That makes a use after free a visible state instead of an
  accident of the allocator.
* The heap is the set of its timers with the root as any minimal one, the idle and pending
  lists are sets: order inside one priority is left open, so what is shown holds for every
  order.
* `next_timeout` is relative to the loop's cached clock. `cron_next_timeout` is "the next
  multiple of the period". Time passes only where the code reads the clock.
* `owed` is a history variable: calls the loop owes to an event, from the repeat count asked for.
* `DelAfterReset` says whether the application may delete a timer in the pass in which it
  has reset it (section 5, finding 1).

### LoopPost and PostBox (with MCLoopPost)

`LoopPost` cuts `hloop_post_event` where other threads can come in: lock, `hwrite`, `hio_add`
(a read and a store of `nactives`), push and unlock; `hloop_stop`, `hloop_pause` and
`hloop_resume` between reading and writing a field. The loop's thread is cut at
the same grain: `HloopRun`, `ReadSockpair`/`ReadSockpairStores` (the first `hio_read` of
the socket pair), `Poll`, `NioRead`, `TakeEvent`, `CallbackReturns`, `NioWrite`, `LoopExit`,
`FreeIos`, `HloopCleanup`, `HvFree` (`hloop_cleanup` frees the socket pair's ios, with their write queue, before it
takes the mutex). The application's own timers and ios are a number (`Users`).
Steps of a call that is inside a freed loop, or that would use a freed io, are disabled: what they do is undefined.

`PostBox` is what `hloop.h:138-150` promises: post, enter at some moment between call and
return, be taken once, in the order of entry. `IsMailbox` says that LoopPost implements
it, with `posting <- arg, box <- queue, taken <- handled`.

### HioConn

One `hio_t` in the loop's thread. Handlers are cut exactly where they call the application;
`stack` holds the frames that have not returned, so `WriteCbReturns` is the rest of
`hio_write` after `write_cb`, `QueueWriteCbReturns` the rest of `nio_write`, and so on. Bytes
are numbered in the order written; the write queue holds ranges of them with the ring
buffer's `qmax`, `qoff` and reallocation of `queue.h`, which is what `pbuf` depends on.
Timers are armed or not and may go off at any time. `ForeignClose`, `HioCloseAsync` and
`HioCloseEvent` are `hio_close` from another thread: test, post with an id, arrive. After the
descriptor is closed, `hio_connect` may open the next connection on it (`MaxIds`).

### NetmtServer (with MCNetmtServer, NetmtServerProofs)

The server with its two descriptors' worth of clients: `OnAccept`, `OnRecv`, `Disconnected`,
`PeerResets` (the peer; the only definition of this module that stands for no code),
`AcceptFails` (which closes the listening socket), `OnSend` (every command of `on_send`),
`SendStr` cut at every node it visits (`SendWrite`, `SendNext`), and the end
(`HloopRunReturns`, `HloopFree`, then `HloopCleanup` with `HioFree` of one descriptor after the other). The read buffer is a row of slots, each a word and its
delimiter, and keeps what a longer read has left. Words are equally long and reads bring
whole lines; split and joined reads are outside the model.

### NetmtClient

The TCP client. The connection is HioConn's reduced to what the client can tell apart: is
something queued, which events and timers are armed. `Main` is `main` up to `hloop_run`.

### EvppPool (with EvppPoolProofs)

A pool (`EventLoopThreadPool`) of threads, each with an `EventLoop` over an `hloop_t`, an
owner that starts, stops and joins it, and threads that post. Every store to a status or to
`loop_` that another thread reads is an action: `tpc` is where a loop's thread is (from the
functor that `start()` queues, through `hloop_run`, to the assignments after it), `opc` where
the owner is (`Spawn`, `StopThread`, `StopLoop`, `HloopStop`, `Forget`, `StopReturns`,
`Join`), `ppc` where a poster is (`PostEvent` tests `loop_`, `Push` queues the callback under
evpp's mutex, `Tell` posts the event to the `hloop_t`). So the two queues, `customEvents` and
`posted`, may be filled in different orders, as in the code. `hloop_run`'s entry, `hloop_stop`
and `hloop_post_event` are one step each here: LoopPost is about their insides. `Disciplined`
says whether the application posts only between `start()` and `stop()` and stops a pool only
when it says that it runs; `fault` records what would be undefined (a null or freed `hloop_t`)
and a failed assert.

### HThreadPool, HObjectPool, PoolTasks, TaskQueue (with MCPoolTasks)

`HThreadPool` cuts a worker at its two reads of `status`, at the test of the wait's predicate and
the sleep after it (both under the mutex, which `stop()` does not take, so `notify_all` can come
between), at the two halves of taking a task, at its end and at the increment of `idle_num`; a
caller between reading and writing a field and before each notification. `HObjectPool` has one
action per section under its mutex: `Borrow` has up to three, with the factory called in
between; its wait may be none (a timeout of 0), time out, be notified or wake up unasked. `PoolTasks` composes them as the tests use them: a worker that runs a task is a
borrower. `TaskQueue` is the abstract queue: commit, take in order, complete; `IsTaskQueue` says
that the composition implements it.

### ThreadMaster and Vty (with VtyProofs)

`ThreadMaster` is the scheduler of `thread.c` as operators on a `thread_master` record: the lists,
the descriptor sets and the structs, a freed one of which is handed out again (`NextThread`), so
that a pointer kept too long names somebody else's thread. Which of the unused structs is taken is left
open (`CHOOSE`). `thread_cancel` takes the set of structs that a caller cancels one after the other, and
`Kept` is what `thread_list_delete` leaves of a list, in its order. `twice` records a struct that is freed
although it is unused already. `Vty` has one action per handler (`vty_accept`, `vty_read` with the
command or key in it, `vty_flush`, `vty_timeout`), `vty_finish`, and the telnet clients. A handler is one
action, because nothing interrupts it; its calls on the scheduler are made one after the other on the
record. Output is counted in screens, which is what `--More--` depends on.

### AsyncHttpClient

One action per callback of the client's loop: `SendInLoop` (a queued call: time-outs, `doTask`,
the choice between a pooled and a new connection), `ConnectDone`, `ConnectFails`, `Response`,
`BadResponse`, `Written`, `ReadEnds`, `TimerFires`, `CloseTimeout`, `Retry`, with the channel's
close callback, which may send the request again, inside the action that closes it. `Send` is
any other thread; `Expire` is time; `PeerEnds` the server. `lost` and `fault` are history variables.

### How they compose

`HioConn` takes from `HLoopEvents` that an armed timer and a pending event are served, and
from `LoopPost` that a posted close arrives; `NetmtServer`, `NetmtClient` and `AsyncHttpClient` take
from `HioConn` what a write or a close does to a connection and when `close_cb` runs; `EvppPool`
takes from `LoopPost` that a posted event is handled once and that a stop of a running loop ends it.
What is taken is stated as a property of the lower module, so no state is shared.
Compositions with shared state are `LoopPost` over `PostBox`, `EvppPool` over one `PostBox` per
loop, `PoolTasks` of the two pools over `TaskQueue`, and `Vty` over `ThreadMaster`.

## 3. The runs

| Run | Bounds | States | Shows |
| --- | --- | --- | --- |
| `events_safety` | 2 timers, 1 idle, 1 io, repeats 0, 1, 2, all calls, one iteration per `hloop_run` | 1.54 M | memory safety, no leak, exact counters, as many calls as asked |
| `events_serve` | a timer and a cron timer, an idle, an io, repeats 1 and INFINITE, periods of 3 ticks, clock at most 1 tick per reading, AUTO_FREE, QUIT_WHEN_NO_ACTIVE_EVENTS | 153 k | due timers and ready ios are served, a loop with nothing left quits |
| `post` | 2 foreign threads and callbacks, 2 + 1 + 2 calls of every kind, socket pair and read buffer of 2 bytes, the loop frees itself | 296 k | the bytes are exact, the queue is a mailbox, every event is handled, a stop ends the run |
| `conn_write` | 2 connections on one descriptor, writes of 1 and 2 bytes up to 4, send buffer 1, queue array growing from 1, depth 3 | 1.02 M | bytes in order, graceful close complete |
| `conn_reuse` | 2 connections on one descriptor, another thread closing, one write of 2 bytes, no heartbeat | 127 k | `close_cb` once, a close completes, and so does another thread's for the connection it meant |
| `server_clients` | 3 clients on 2 descriptors, all commands, 3 slots | 140 k | list, broadcast, freeing |
| `server_freed_node` | the same | (violated) | finding 1 |
| `client_ends` | connect at once or later, all commands | 340 | the client ends in every way it should |
| `evpp_pool` | 2 loops, 2 posting threads, 2 tasks, start and stop that wait or not | 32 k | mailbox over two queues, what is posted runs, stop and join end |
| `pool_tasks` | 2 workers, an owner, another caller, 2 tasks, at most 1 object at a time | 314 k | queue of tasks, pause, wait, objects, stop |
| `vty_sessions` | 2 connections, 4 inputs, one command of each kind, a password, access lists, one `vty_finish` | 321 k | threads, pointers, lock, nobody deaf, every client served |
| `http_async` | 3 requests (two timed, one with retry delay), 2 descriptors, 1 retry | 201 k | one place per request, pool exact, right answer, every timed request ends |

Why the bounds suffice. Two timers are the least with which a callback can act on another
event that the pass still holds; the idle and the io add the other two priorities and the
two other ways of being allocated. Repeats 0, 1 and 2 are the wrap, the last call and one
before it; 3 stands for `INFINITE`. A socket pair of two bytes is full after two posts, so that
the third reaches the write queue and the fourth has to wait behind it; with a read buffer of 2
reads are empty, short and full, and one read can bring two events. A send buffer of 1 makes
every write of 2 short; a queue array of 1 has to grow and to shift. Depth 3 is a handler, its
callback and the callback of a call made in it. Two ids are the least for a stale close. Three
clients on two descriptors make a descriptor be used again while another client stays. Two
posters and a functor of the owner's are the least for the two queues of evpp to be filled in
different orders; the second loop makes the pool's statuses wait for the last one. Two workers
make one sleep or wait while the other works, and with one object for both one borrows what the
other returns, or waits for it. Two sessions contend for the configuration lock, and four inputs
get one of them into a configuration node and out of it while the other tries to; two screens are the
least that `--More--` divides. Three requests on two connections make one of them queue behind a
connection that comes free, be retried on another one, or meet one that ends. All bounds are
CONSTANTs, named in the modules. Deadlock checking is off in all runs, because every system here
really stops: a loop returns, a connection is closed for good, a bounded caller has made its calls.

Every property of a passing run has a mutant in `PROJECT.json`: a changed definition of the
module, marked "Mutant", with which TLC finds the property violated.

### Fairness

* `events_serve`: `WF(LoopStep)`, the loop's thread is scheduled and callbacks return, and
  `ClockMoves`, the clock does not stand still for ever. The application owes nothing. That the
  clock moves less per reading than the periods is a bound (`MaxStep = 1`, periods of 3), and
  needed: see `HLoopEvents_starve.cfg`.
* `post`: the loop's thread and a thread inside a call are scheduled. No thread
  has to call, and a paused loop need not be resumed.
* `conn_reuse`: handlers finish (weak), and poll, pending events and armed timers come
  round although other callbacks run between (strong): that is what the core gives, and what
  `LoopPost` gives for posted closes (`PostServed`). A thread inside `hio_close` goes on (weak). Of the
  peer nothing is assumed. Both properties also assume that the thread gets out of `nio_read` again
  and again (`LoopRuns`), without which `HioConn_flood.cfg` refutes them.
* `client_ends`: the loop polls and runs timers; the peer's kernel resets a connection
  that it no longer has. The user may type nothing, the server need not read or send.
* `evpp_pool`: every thread is scheduled and goes on with a call it has begun; nobody has to
  begin one.
* `pool_tasks`: workers are scheduled, a timed wait times out, callers go on with a call they have
  begun. `StopEnds` assumes that no worker is between its test and its sleep when `notify_all` comes;
  without that it is false (`PoolTasks_wakeup.cfg`).
* `vty_sessions`: while a handler can run, the main loop goes on with a handler or a time-out. This is
  weak fairness of those actions with its two halves written out (`CanRun`, `LoopStep`).
* `http_async`: the loop takes queued calls, timers fire, an attempt to connect ends, a close that was put
  off ends by its timer. The server need not answer, and a poll need not find an ended connection.

### Further configurations

These are beside the runs. `Vty.cfg` with `Commands <- AllCommands`, `TypeOK` and without `ClientServed`
checks every command modelled (696 k states). `TypeOK` of `NetmtServer` holds on the instance of
`server_clients`. `TypeOK`, `CloseCbOnce`, `QueueArmed`, `OpenOrGone`, `PbufValid` and `MeantOrGone` of `HioConn` hold on
the instance of `conn_write` with `"foreign_close"` in `Ops` and `MaxBytes = 3` (2.2 M states), and `TypeOK`, `NoFault`, `QueuesAgree`, `StatusTrue` and `StopMeansStopped`
of `EvppPool` on that of `evpp_pool`: add them to the INVARIANTS of those configurations to see it.

The others give TLC a counterexample, and explain a condition that a run states or a
hazard that no run covers.

| Configuration | Property | What happens |
| --- | --- | --- |
| `HLoopEvents_delreset.cfg` | `NoDanglingLink` | finding 2 |
| `HLoopEvents_starve.cfg` | `ReadyIoServed` | a timer whose period its callbacks use up: `goto process_timers` (`hloop.c:141`) skips the ios in every iteration |
| `LoopPost_stop_at_start.cfg` | `StopTakesEffect` | the creating thread stops the loop before the loop thread is in `hloop_run`; `tid` is its own (`hloop.c:250`), so nothing is posted and `hloop_run` sets RUNNING |
| `LoopPost_stop_paused.cfg` | `StopTakesEffect` | `hloop_pause`/`hloop_resume` test the status and write it in two steps; a stop in a callback is overwritten |
| `LoopPost_quit_full.cfg` | `QuitsWhenIdle` | after the socket pair has been full, its writing end stays an active event (`nio.c:411-413`) |
| `LoopPost_stop_autofree.cfg` | `NoCallOutlivesLoop` | `hloop_stop` of another thread reads `loop->tid` of a loop that has freed itself |
| `LoopPost_actives.cfg` | `ActivesExact` | `hio_add` in the posting thread races for `nactives` |
| `HioConn_reorder.cfg` | `StreamInOrder` | finding 3 |
| `HioConn_reopen.cfg` | `OpenOrGone` | `hio_close` in the `write_cb` of a short `hio_write`, then `hio_add` opens the `hio_t` again. With `PbufValid` instead: a second `hio_close` in the `write_cb` of `nio_write` frees the queue under `pbuf` (a `hio_write` there may move it) |
| `HioConn_stale.cfg` | `CloseMeant` | another thread's `hio_close` tests one connection and posts the id of the next, which the event then closes |
| `HioConn_flood.cfg` | `CloseTimeoutCloses` | a peer that keeps the read buffer full keeps the thread in `nio_read` |
| `NetmtServer_words.cfg` | `CommandObeyed` | words of an earlier, longer line are counted as words of this command |
| `NetmtClient_ends.cfg` with `"refused"` added to `Connects` | `EndsWithConnection` | a connection refused at once is closed before `on_close` is set |
| `EvppPool_undisciplined.cfg` | `NoFault` | a post while `stop()` clears `loop_`, or a stop before the loop has entered `hloop_run` |
| `EvppPool_restop.cfg` | `StopEnds` | finding 4 |
| `PoolTasks_wakeup.cfg` | `StopAlwaysEnds` | finding 5 |
| `PoolTasks_rejoin.cfg` | `JoinsOnce` | finding 5 |
| `PoolTasks_empty.cfg` | `NeverCallsNothing` | finding 8 |
| `Vty_finish.cfg` | `FinishCloses` | finding 6 |
| `AsyncHttpClient_called.cfg` | `CalledBack` | finding 7 |
| `AsyncHttpClient_reset.cfg` | `NoFault` | a write to a pooled connection that the peer has reset closes and removes the channel inside `sendRequest`, which goes on to use it |

## 4. The proofs

Checked by tlapm for every value of the constants that satisfies the modules' assumptions
(finite sets of events, positive timeouts, any number of threads, calls, any buffer sizes).

### HLoopEventsProofs

`TypeCorrect` needs nothing else. The others assume `DelAfterReset = FALSE`.

* `MemorySafe`, `LeakFree`, `PassesAccounted` (`NoDanglingLink`, `NoLeak`,
  `PassAccounted`) follow from `IndInv` = `TypeOK` /\ `EventsOK` /\ `PassOK`. None of the three is
  inductive: that a linked event is allocated after `htimer_del` depends on its `pending`
  flag, so `EventsOK` ties, for each event, `mem`, `active`, `pending`, `destroy`, heap and
  list membership to whether the pass still holds it; `PassOK` ties `pc` to what may be
  linked, so that `hloop_run` may be entered again with only ios left over.
* `CallsExact` (`CalledAsAsked`) and `IdlesWait` (`IdlesOnlyWhenQuiet`) add `CallInv`: what is
  owed is bounded and marks `destroy` when the count reaches 0 (`OwedOK`), a timer linked in
  a pass has been re-armed and is not taken twice (`OncePerPass`), and idles are linked only in a
  quiet iteration (`Quiet`).
* `CountersCorrect` (`CountersExact`) adds `Counted`; its lemmas say how the size of the set
  of active events changes when one flag is switched (`SwitchOn`, `SwitchOff`).

### LoopPostProofs

* `TypeCorrect`: `TypeOK`, and a thread carries an event exactly while it is posting it (`ArgOK`).
* `BytesExact` (`ByteForEveryEvent`) and `BytesNotStuck` (`WriteArmed`) follow from `ByteInv`: the
  mutex belongs to the thread between lock and unlock (`MutexOK`), so at most one thread is
  between `hwrite` and `push_back` and the sum of bytes is the length of the queue plus at
  most one (`BytesOK`); nobody has queued a byte while a thread is still registering the
  writing end (`QueueEmpty`); bytes are in the loop's buffer only while it works on them (`BufOK`);
  the pair holds no more than it can (`SockOK`).
* `MailboxImplemented`: `Spec => IsMailbox`. `BoxStep` maps every step of LoopPost to a step of PostBox
  or a stutter; that an event popped exists needs `BytesOK`.

### HioConnProofs

For any lengths, buffers, first size of the write queue, number of connections and depth of callbacks, and
for applications that call nothing on the `hio_t` from its `write_cb` (`InWriteCb = {}`): for the others
`HioConn_reorder.cfg` and `HioConn_reopen.cfg` show three of these theorems to be false.

* `Inv` is `Core` /\ `PostsOK`. The streams' part of `Core` is `BytesOK`: the wire is 1, 2, .. and, unless the
  connection is closed, what comes next on it is the first byte of the queue (`Joined`), except under a
  `write_cb`, where the frame says which bytes are on the way. It needs that the entries of the queue follow
  one another up to the last byte written (`QueueOK`), that a `write_cb` is always the top of the stack,
  so that only one is running (`StackOK`), and that a `hio_t` not ready has no queue (`FlagsOK`).
* `StreamWhole` (`StreamInOrder`) follows from `BytesOK` and `QueueOK`; `GracefulCloses` (`GracefulClose`) and
  `CloseOnce` (`CloseCbOnce`) are inductive only with them: a close that is put off has been asked for
  (`io.close => asks > 0`), an error closes at once (`io.error => io.closed`), and `close_cb` for
  a connection runs before `hio_connect` may have the next one. One lemma, `CloseKeeps`, covers
  `hio_close` from all its callers; it says what they must have done to the fields before (`Closable`).
* `ForeignCloseKept` (`MeantOrGone`): a posted close carries the id of the connection that its caller saw open,
  or a later one, and then `close_cb` has been called for the one that was meant. Ids only grow
  (`PostsOK`), and one that a thread holds or has posted is either still the connection's or has been closed;
  that no connection begins inside a `close_cb`, whose descriptor is still open, needs the part of `StackOK` on it.
  So the late reading of the id (`hloop.c:825`) costs the wrong connection its life (`CloseMeant`), but
  no close is lost by it; the progress half is `ForeignCloseCompletes` of `conn_reuse`.
* `NothingLeft` (`OpenOrGone`), `QueueServed` (`QueueArmed`),
  `PbufStaysValid` (`PbufValid`) and `TypeCorrect` (`TypeOK`) follow from the same invariant.

### NetmtServerProofs

For any descriptors, number of clients, size of the read buffer and lines, as long as a line fits into
the buffer; and with the walk of `SendStr` wherever it may be when a connection closes.

* `Inv` has a part for each group of variables: `LoopInv`, `ListInv`, `BufInv`, `SendInv`. `ListCorrect`
  (`ListExact`) needs that an open descriptor and its `io_t` name each other (`UserdataOK`), or `OnClose`
  might take out another client's node; then the list stays without duplicates under `ListDel`.
* `TypeCorrect` (`TypeOK`) says that `SendStr` gets a word and never a newline or the empty string. That
  needs `BufferOK`: only the word behind a newline is ever spoiled, and a space is followed by a word, also
  in what a longer read has left.
* `BroadcastReaches` (`Broadcast`): the clients still due are a tail of the list at the node of the walk. When
  another client closes, the tail moves down with it; when the walk's own node is freed, nothing
  more is claimed, and `NoFreedNode` is what finding 1 refutes.

### AsyncHttpClientProofs

For any number of tasks, descriptors, retries, and any `Timed` and `Delayed`; no assumption on the
faults except in the last.

* `TypeCorrect` and `PoolCorrect` (`PoolExact`): every way a descriptor enters or leaves `conn_pools`
  keeps it a list without duplicates of idle channels; it needs that `Remove` takes out the one occurrence.
* `ResponsesRight` (`RightResponse`): the requests written to a connection and not answered end
  with the one of the task that the channel works for, and there are no others while it is idle or
  connecting, so that an answer is always for the task at hand.
* `FaultFree` (`NoFault`) if no peer resets a connection: a channel that is taken from the pool or whose
  callback runs has not been removed, and the two asserts hold.
* `OnePlaceOnly` (`OnePlace`), with the faults: a callback takes its task out of one place and puts it into
  another, with other callbacks in between (a response whose close runs `onclose`). `PlaceInv` says where the
  tasks are by any base and channels, not only the variables, so that it can be said of the middle of a
  step: `AllBut(t, ..)` is every task but `t` in its place, and `Ready` is what a callback owes before it
  may close a channel or put one. That a task is on one channel only, and is queued once, is part of it.

### EvppPoolProofs

For any number of loops, threads that post, tasks and calls of `stop()`, with and without waiting. Every
theorem assumes `Disciplined`; `EvppPool_undisciplined.cfg` shows what happens without.

* `Inv` ties the three kinds of thread together: `OwnerOK` (while `stop()` is at loop `at`, `loop_` is
  set for the loops not yet done and no others), `LoopOK` (where a loop's thread can be while the pool has
  not been stopped, where afterwards, and what its `hloop_t` is there) and `PosterOK` (who is in
  `postEvent` keeps the pool from being stopped). `PostedOK` says that a stop event is the last of `posted`.
* `Mailbox` (`IsMailbox`): the refinement of `PostBox` for each loop. That a callback is there for every
  event needs `CountOK`, which counts the threads between the two halves of `postEvent` as a cardinality;
  the theorem `QueuesCorrect` (`QueuesAgree`) states it by itself.
* `FaultFree` (`NoFault`): a `hloop_t` told of a task is set and not freed, and the assert after `run()` holds.
* `StatusHonest` (`StatusTrue`) and `StopsWhole` (`StopMeansStopped`): `started` is the number of loops that
  have run `Pre` and `exited` that of the threads past the post functor, so that a counter that reaches
  `thread_num` speaks of every loop; `PreOK` is why none is counted twice. `kRunning` is never stored over
  a `kStopping`, because a thread is about to store it only while the status is below both (`StartOK`).
* `TypeCorrect` (`TypeOK`), with the bounds of `batch` and of the two counters.

### PoolTasksProofs

For any number of workers, callers, tasks, starts, borrowers and objects, and whatever the callers may
call. The first three follow from `PoolInv`, which knows of the object pool nothing.

* `PauseLimit` (`PauseHolds`): a worker that has taken a task since the pause has not come past its
  look at the status again (`SinceOK`).
* `QueueImplemented`: `Spec => IsTaskQueue`. A worker takes from a queue that is not empty although it
  tested it earlier, because it has held the mutex since (`LockOK`, `PopOK`); a task is in one place
  only (`PlacesOK`), so that what ends is what was running.
* `TypeCorrect` (`TypeOK`), with `ObjectInv` for the variables of the object pool.
* `ObjectsCounted` (`ObjectsAccounted`): `CountOK` counts borrowers by place, and the lemmas on
  `Number` say how these counts change when a borrower moves and when a notification moves a second one;
  that the objects idle and lent are as many as their places needs `ObjectPlaces`.
* `SleepersServed` (`NobodySleepsOverObject`): inductive with those counts.
* `WaitIsDone` (`WaitMeansDone`), an action property, from `WaitInv`: `idle_num` is `pool_size` less the workers
  between its decrement and its increment (`IdleOK`), a task committed is waiting, running or done (`NoneLost`),
  and the queue of a caller that has found it empty holds only what was committed since its wait
  began (`LookedOK`), so that the second look need not be at the same moment as the first.

### VtyProofs

For any number of sessions, struct threads, screens, connections, inputs and calls of `vty_finish`, any
set of commands, with and without a password, advanced sessions and an access list that denies. The
assumptions are `ThreadAssumption`, `VtyAssumption` (there are as many structs as can be queued at a time)
and `NoVtyAssumption`.

* None of the properties is inductive. A handler runs on a struct that is free again, its calls take and
  free others, and what a pointer names afterwards depends on every list. `MInv` is the scheduler between
  two calls: each list holds the structs of its type, each once, the descriptor sets are theirs, and
  (`Book`) no two structs in use have the same function and argument. The last is what makes a pointer
  enough to find a thread, what makes a cancelled struct leave one list only, and what bounds the
  number of structs by 1 + 3 per session (`TypeCorrect`, `TypeOK`).
* `IInv` adds to it, for each session (`Good`): its pointers name what is queued (`Names`), it has a time-out
  if it should (`Timed`), it reads or will when it has written (`Hears`), and it holds the lock just in the
  configuration nodes (`Configuring`, with `LockHeld` for all of them together). It says of the accept
  socket (`AcceptInv`) that a thread waits for it while it is open, which the slot need not name (finding 6),
  and that a client is there when that thread is ready.
* A handler is a chain of calls, each on what the one before has left. `Entered` and `Running` are what
  holds in the middle of one, `Done` at its end; `Apart` says that a handler of `f` leaves the queued
  threads of every other session alone. Each function of `vty.c` and each command has a lemma from one to
  the next, so that the case of an action is the chain of its calls.
* `MasterAlwaysExact` (`MasterExact`), `PointersAlwaysExact` (`PointersExact`), `NobodyEverDeaf` (`NobodyDeaf`)
  and `LockAlwaysExact` (`LockExact`) follow from `IInv`, which TLC has checked on the instance of
  `vty_sessions`. From `Lists` to the sums of lengths in `ListsExact` go the lemmas on `Kept`, which is a
  bijection between two intervals.

### Only model-checked

All liveness properties (fairness is out of the prover's reach): what is served, what ends, what is
called back. Everything in `NetmtClient`, whose run states liveness only. Not to be proved are `CloseMeant`
of `HioConn`, `NoFreedNode` and `CommandObeyed` of `NetmtServer` and `FinishCloses` of `Vty`, which are false.

## 5. Findings

1. **Broadcast over a freed node** (`server_freed_node`). `SendStr` uses `list_for_each`; a `hio_write` to a
   connection that has been reset closes it, `on_close` frees the node, and the walk reads its `next`.
2. **Delete after reset** (`HLoopEvents_delreset.cfg`). `EVENT_DEL` leaves an event to the
   pass by testing `pending`, but `EVENT_RESET` clears `pending` on a timer that is still
   linked; a delete after it in the same pass frees what `hloop_process_pendings` will read.
3. **Bytes overtaking** (`HioConn_reorder.cfg`). On a short write `hio_write` calls `write_cb` before
   it queues the rest; a `hio_write` made there goes to the kernel first.
4. **A stop that waits for ever** (`EvppPool_restop.cfg`). `EventLoopThreadPool::stop` sets `kStopping`
   before it looks at anything and waits for `kStopped`, which only the exit of the last loop thread
   sets: a second `stop(true)`, or one of a pool without threads, never returns.
5. **Thread pool: stop and restart** (`PoolTasks_wakeup.cfg`, `PoolTasks_rejoin.cfg`). `stop` sets the status and notifies
   without the mutex (`hthreadpool.h:60-67`): a worker that has tested the predicate and is not yet asleep
   sleeps on, and `join` waits for it. `stop` leaves the joined threads in `workers`, so that the `stop`
   after the next `start` joins them again, which throws.
6. **vty_finish after a denial** (`Vty_finish.cfg`). When an access list denies a client, `vty_accept` asks for the accept
   thread a second time (`vty.c:1695`); `thread_add_read` finds the descriptor taken and returns NULL, which
   overwrites the pointer in `Vvty_serv_thread`, and "vty_reset + close accept socket" (`vty.c:2704`) then closes nothing.
7. **A request without its callback** (`AsyncHttpClient_called.cfg`). A retry whose delay ends after the
   time limit is dropped by `doTask` (`AsyncHttpClient.cpp:13-17`, called from the timer in 94-98), which nobody
   tells the caller of, though the test program counts on one callback per request
   (`http_client_test.cpp:89-90`).
8. **A worker that calls nothing** (`PoolTasks_empty.cfg`). The wait of a worker ends with STOP and an empty
   queue; the status is then read again (`hthreadpool.h:44`), and if a `pause` that had read RUNNING before the
   `stop` stores PAUSE in between, the worker goes on to call a `Task` that it never got (line 53), which throws.

## 6. Not modelled, and the plan

Left out of the modules above: SSL, UDP and ICMP; `hio_write` from a second thread; the heap's shape,
wall-clock steps and the 32-bit product in `htimer_add`; descriptors opened by unrelated
code; split and joined reads in the server; memory exhaustion. In evpp: timers by id and their `repeat`,
pause and resume, `setTimer` from other threads, `nextLoop`'s choice, and the TCP and UDP servers and
clients. In the terminal server: line editing, telnet options, the enable password, key chains and the
other nodes that take a configuration further, the command tree; in its scheduler the event list, to which nothing
that is compiled adds, and the order in which timers are due. In the HTTP client: several addresses, and
the parser, which is one of two outcomes; a server answers in the order it is asked, and what `onclose` does
after a peer's reset inside `sendRequest` is not followed: the model stops at that fault. `vty_read` takes one
line or key per read. What a `close_cb` calls on the loop while `hloop_cleanup` frees the ios
(`hloop.c:288-296`) is left out too.

Also seen while reading, outside every model so far: a step of the wall clock shifts a cron
timer (`hloop.c:77-81`); `hio_get` on another thread may resize `loop->ios` under the loop
(`hloop.c:744`); `hloop_cleanup` closes descriptors of the socket pair that `hio_free` may have closed
(`hloop.c:331`); "stop" typed at the server ends the reading that "start" would need
(`Server.c:92`); `hio_set_keepalive_timeout(io, 0)` for an `hio_t` without the timer writes through the
NULL that `htimer_add` returns for a timeout of 0 (`hevent.c:164-165`), so HioConn asks for 0 only with a timer; with `-u` the client uses its `hio_t` before the test for NULL (`Client.c:258`); the
master's kill and reload loops stop at the first worker without a pid (`hmain.cpp:352`, 401).

Planned, in this order:

1. `NetLogger` (re-entry under the mutex), `HMain` (respawn, reload).
2. evpp's `TcpClient` with its reconnect and `TcpServer` with its connection count, over EvppPool.
3. `WriteQueue` (`queue.h`) and `EventHeap` (`heap.h`) as data structures against a sequence and a
   sorted bag; the `uint32_t` arithmetic of timers.
4. The UDP client, `hio_write` from another thread, the HTTP server.
5. Proofs: the safety part of NetmtClient.
