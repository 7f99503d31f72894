# cpp-tbox: a TLA+ verification project

cpp-tbox is a C++ service framework: an event loop, the components built on it
(timers, sockets, HTTP, JSON-RPC, MQTT, coroutines, actions and state machines), a
few threads beside the loop (a thread pool, an asynchronous pipe for logs, a
watchdog), and a `main` framework that assembles modules into a program.

This directory holds TLA+ modules for the parts whose correctness depends on the
order of things, TLC configurations that check them on small instances, and proofs
checked by TLAPS for every value of the constants. `PROJECT.json` maps each
definition to the lines of the source it models, and lists the runs, the mutants
(the plausible bugs each property is shown to catch), the findings, the hazards and
the theorems.

## The system

Almost everything runs on the thread of one `event::Loop`. A turn of the loop is:
expired timers, then descriptor events, among them the eventfd through which other
threads post functions, then the functions deferred with `runNext()`. User code is
called back from each of these and may call any operation of any component,
including those of the object that is calling it. Hence the two families of
difficulty: *reentrancy* in the loop's thread (an object is stopped, restarted or
deleted inside its own callback) and *interleaving* at the few places where threads
meet.

| component | state it keeps | operations | what is hard | what makes it correct |
|---|---|---|---|---|
| `event::CommonLoop`: deferred functions | two queues and the one being drained, the pending-request flag, the eventfd, the exit timer | `runInLoop`, `runNext`, `run`, `cancel`, `exitLoop`, `runLoop`, `cleanup` | other threads post while the loop swaps queues; callbacks post, cancel and end the loop; a second run | a function is called exactly once and in order; no lost wake-up; `exitLoop()` ends the loop |
| `event` timers | a heap of due times, a cabinet of timers | `addTimer`, `deleteTimer`, expiry | callbacks that delete due timers | a timer fires when due, never after it was disabled |
| `event` descriptors, epoll and select engines | per-descriptor lists of events | `enable`, `disable`, dispatch | callbacks of one descriptor that disable or delete the others | no callback for an event that was disabled before the turn |
| `event` signals | process-wide handler table, a pipe per loop | subscribe, unsubscribe | asynchronous delivery, several loops | each subscriber is told, handlers restored |
| `util::AsyncPipe` | current, free and full buffers, their count, stop flag | `initialize`, `append` (lock, lockless, unlock), `cleanup` | four mutexes, two condition variables, back pressure, a stop flag raised without a lock | no byte lost, doubled or reordered; the pool stays in its limits; nobody waits for good |
| `eventx::ThreadPool` | tasks by level, those running, the workers, the idle count, stop flag | `initialize`, `execute`, `cancel`, `cleanup` | workers that come and go while tasks are given, cancelled and dropped | a task is executed once, or cancelled, or dropped; `main_cb` once after it |
| `eventx::WorkThread`, `LoopThread`, `Async`, `TimerFd` | as above, for one thread | as above | as above | as above |
| `eventx::LoopWDog` | watched loops, their check state | register, start, stop, check | a watchdog thread against the loops' answers | a blocked loop is reported, and its recovery |
| `eventx::TimeoutMonitor`, `RequestPool` | a ring of slots, a timer | `add`, tick, callbacks that add | the timer's start and stop at a count of 0 | each value times out once, within one tick of its time |
| `base::Cabinet` | cells, the last id, a list of free cells | `alloc`, `free`, `at`, `foreach`, `clear` | reuse of cells and ids | a token finds its object or nothing |
| `network::TcpServer`, `TcpConnection`, `BufferedFd` | state, cabinet of connections; send and receive buffers, enabled events | `start`, `stop`, `send`, `disconnect`, `shutdown`, callbacks | objects given up in their own callbacks, partial writes | what is sent leaves in order; nothing is used after it was freed |
| `network::TcpConnector`, `TcpClient`, `DnsRequest` | state, socket, retry timer | `start`, `stop`, retry | failure callbacks that start or stop | one connection at a time, retries as configured |
| `http::server::Server` | per connection: indexes of the next request and response, the closing index, waiting responses | receive, `commitRespond`, send completion, `start`/`stop`/`cleanup` | handlers that finish in any order, the last request, peers that leave | responses leave in the order of the requests, on their own connection |
| `jsonrpc::Rpc` | pending requests both ways, time-outs | `request`, `respond`, receive | late answers, callbacks that send or clean up | one answer or one time-out for each request |
| `coroutine` | routines, ready queue; tokens waiting in channels, mutexes, semaphores | create, yield, wait, cancel, the primitives | cancelled waiters, wake-ups handed to them | mutual exclusion, no lost wake-up |
| `flow::Action`, `ActionExecutor`, `StateMachine`, event publisher | tree of actions and their states; queues by priority; current state | start, pause, resume, stop, finish; append, cancel; run an event | children that finish inside `start`, events run inside actions | one result for each start; a machine is in one state |
| `mqtt::Client` | connection state, thread handle, timers | start, stop, publish, callbacks | reports of a thread that arrive late | one connection attempt at a time |
| `alarm` | target time, timer | enable, disable, refresh | calendar and time-zone arithmetic, restarts | fires at each due time once |
| `main` framework | tree of modules and their states | initialize, start, stop, cleanup | failure half way | what was started is stopped, in reverse |
| `log`, `trace` sinks, `terminal`, `util`, `crypto`, `dbus`, `run`, `base` logging | buffers, files, text | formatting, I/O | the lock that keeps a record whole | (mostly conversion and I/O) |

Interactions. `ThreadPool` workers, `AsyncPipe`'s clients and the MQTT thread reach
the loop through `runInLoop()`. `BufferedFd` turns descriptor events into
receive and send-complete callbacks for `TcpConnection`; `TcpServer` names
connections to its user by cabinet tokens; the HTTP server adds the order of
pipelined responses; `Rpc` uses `TimeoutMonitor`; log and trace sinks feed
`AsyncPipe`.

## Modules

| module | models |
|---|---|
| `AsyncPipe` | `util::AsyncPipe`, complete |
| `ByteChannel` | what a pipe promises, as an abstract specification; `AsyncPipe` implements it |
| `AsyncPipeProofs` | the pipe's inductive invariant, its theorems and the refinement |
| `CommonLoop` | the deferred functions, the wake-up and the run of `event::CommonLoop` with the epoll engine |
| `CommonLoopProofs` | type correctness, the wake-up theorem, order and exactly-once of the functions |
| `ThreadPool` | `eventx::ThreadPool`, complete but for read-only queries |
| `ThreadPoolProofs` | the pool's inductive invariant and theorems |
| `Cabinet` | `base::cabinet::Cabinet` as a data type: operators on a value |
| `TcpServer` | `TcpServer` with `TcpAcceptor`, `TcpConnection` and `BufferedFd`, as parts of actions; extends `Cabinet` |
| `HttpServer` | the HTTP server composed with `TcpServer` |
| `HttpServerProofs` | the cabinet's invariant, that of the server, and that contexts live as long as their connections |
| `HttpPipelineProofs` | the order of the responses, over `HttpServerProofs` |
| `Timers` | the timer heap of `CommonLoop`, `TimerEventImpl`, the wait of the loop, the time-out of `exitLoop()` |
| `FdEvents` | `EpollFdEvent`, the data shared by the events of a descriptor, its registration with epoll, a batch of `epoll_wait()` |
| `Signals` | subscriptions, the process-wide handler, the pipe of each loop, `SignalEventImpl` |
| `EventsProofs` | invariants and theorems of `Signals`, `Timers` and `FdEvents` |
| `Actions` | `flow::Action` and the composite actions, on a tree |
| `ActionExecutor` | `flow::ActionExecutor` |
| `StateMachine` | `flow::StateMachine` with a sub-machine |
| `Coroutine` | the coroutine scheduler, and mutex, semaphore, channel, condition and broadcast over it |
| `TimeoutMonitor` | `eventx::TimeoutMonitor` as a data type |
| `RpcCalls` | `jsonrpc::Rpc`, both sides, over a lossy transport; extends `TimeoutMonitor` |
| `DnsRequest` | `network::DnsRequest`; extends `TimeoutMonitor` |
| `TcpClient` | `TcpClient` composed with `TcpConnector` |
| `MqttClient` | `mqtt::Client` with its connect thread; libmosquitto is external |
| `ModuleTree` | `main::Module` and the calls of `Main()` |
| `LoopWDog` | `eventx::LoopWDog`: its thread, its lock, the functions it posts to the loops |
| `HttpParser` | `RequestParser` behind the receive loop of the HTTP server |
| `Buffer` | `util::Buffer` |
| `Alarm` | `alarm::Alarm` with its oneshot, weekly and workday kinds, and `WorkdayCalendar` |
| `SequentialProofs` | invariants and theorems of `StateMachine`, `Buffer`, `Alarm`, `ActionExecutor` and `ModuleTree` |
| `ServicesProofs` | invariants and theorems of `Coroutine`, `TcpClient`, `MqttClient`, `RpcCalls`, `DnsRequest` and the ring of `TimeoutMonitor` |
| `MCAsyncPipe`, `MCCommonLoop`, `MCThreadPool`, `MCHttpServer` | values for TLC |
| `MCEvents`, `MCWork`, `MCSequential` | several components that share no state, side by side in one run: each initial state picks the one that moves, the others keep their initial value |
| `MCCoroutine` | `Coroutine` by itself, for the run `co_semaphore` |

Variables carry the names of the members they model, without the trailing
underscore; actions carry the names of the functions, with the component's name in
front where modules that are checked together would clash. Components with many small
members keep them in one record (`co`, `rpc`, `cl`, `mq`, `mo`, `wd`, `dns`, `hp`, `bu`,
`al`, `ex`, `sm`), so that an operation is a function from record to record: calls that
the code nests are composed functions, and a callback in which the user may do
something or nothing is a set of results. A function that gives up a lock, or calls
back, in the middle is split there, and the parts share a name with a suffix
(`cleanup`, `cleanupStop`, `cleanupNotify`, `cleanupJoin`). Definitions marked
*mutant* are never part of a specification: each is the code with one plausible bug,
and the property named in `PROJECT.json` fails when it takes the place of the
original. Fields marked *history* are read by properties only.

### AsyncPipe

A step is a critical section. `curr_buffer_mutex_` is held by `append()` over a wait
and so is the variable `curr_lock`; the sections of the other mutexes contain no
wait or call, so each is one step. The k-th byte appended is the number k and a
buffer is the sequence of its bytes, so that loss, duplication and reordering are
all visible in `InOrder`. Time is the freedom of the backend's `wait_for()` to
return at any moment. `cleanup()` is called with no `append()` in progress and no
`append()` is made until the next `initialize()`, as the class requires: `append()`
takes no part in the end of the pipe, and one that raced with `cleanup()` would write
into a buffer being deleted. Free buffers are all
empty, so they are a number.

`ByteChannel` forgets threads, buffers and locks: a channel is down, up or closing,
accepts bytes while up, hands over a chunk of the bytes that follow those handed over
before, and goes down only when none is left. `ImplementsChannel` is that
specification under the mapping at the end of `AsyncPipe`.

### CommonLoop

`lpc` is the place of the loop's thread in a turn: `wait`, `timers`, `events`,
`inloop` and `next` (draining `tmp_func_queue_`), `after`, and the rounds of the
clean-up. `cb` says that a deferred function is being called; while it is, or in the
timer and event phases, user code may post, cancel and exit. Another thread may post whenever
the lock is free, which it is not during the clean-up after the loop
(`runThisAfterLoop()` holds the recursive mutex throughout; the clean-up that `cleanup()` of an idle
loop makes holds none). Ids are even for `runInLoop()` and odd
for `runNext()`, as in the code. `run()` of another thread falls to `runNext()` while the loop does not
run; its decision and the push, which takes no lock, are one step (that the loop may start between the
two, or run into the push, is a data race and not modelled). The 100 rounds of the clean-up are the constant
`CleanupRounds`. Functions that post functions for ever are not bounded away: what the last clean-up
posts beyond the ids has none, and `extra` says where there is some of it, without its number or its
place among the others; without the limit of the rounds `ExitReturns` fails. Statistics and water
lines only log.

### ThreadPool

A step is a critical section of the pool's lock, or the code between two. The one
place where the lock is held over a step is a worker that has evaluated its wait
condition and does not sleep yet (`pred`), because the stop flag is raised without
the lock. `tstat`, `called` and `asserted` are history variables. Sleeping workers may wake up
without a notification. A failed assertion ends the process. The queue of the main
loop is FIFO, which is what `CommonLoop` establishes (`Fifo`).

### Cabinet, TcpServer, HttpServer

A cabinet is a record of cells, the last id and the head of the free list; the id is
unbounded here, as a `size_t` does not wrap in practice. `TcpServer` defines what its operations do to
the server, the cabinet and the sockets; it has no `Next` of its own because all of
its callbacks are the user's, and `HttpServer` conjoins them. A socket record keeps
the state of the `BufferedFd`, whether the peer is there, `SHUT_RD`, the write
event, the send buffer and what was written. A write takes any prefix of the messages: a message that was written only in
part counts as still waiting, and a write callback may take none at all (an error, or a result of 0). `rx` is the receive loop that is on the stack, with the
write callback that follows it for the same descriptor, even when the connection was
given up in between (the engine runs a copy of the callbacks). Handlers keep
their `Context` or not, and while one runs the user may finish other requests and
stop or start the server. A request is its kind: `keep`, `last` (Connection: close, or
HTTP/1.0) or `bad` (does not parse).

### Timers, FdEvents, Signals

The user's calls are made between turns of the loop and inside every callback. In
`Timers` the heap is the set of its `Timer` objects, whose front is any of the earliest, time is a counter, and the
wait is converted to the `int` of `epoll_wait()` with `IntBits` bits. In `FdEvents` a
batch of ready descriptors is served one by one while its callbacks enable, disable and
delete events of the same and of other descriptors; one registration with epoll serves
all events of a descriptor, so `FdRegistered` compares it with the union of what they
want. In `Signals` two loops share the process-wide table; a signal that cannot be
handled makes `enable()` fail half way, and a full pipe drops what is written to it. `initialize()`
may be called at any time, also while the event is enabled, and changes its set under the subscriptions
there are; `odd` marks the events that this, or a failed `enable()`, has left subscribed to something else
than they say, `wiped` the signals that got SIG_DFL in place of the application's handler, and `crashed` is
the use of a null `sp_signal_read_event_`, which ends the process.

### Actions, ActionExecutor, StateMachine

`Actions` runs a tree of actions: leaves, functions, and the sequence, parallel,
wrapper, loop, repeat, if-else, if-then, switch, loop-if and composite kinds in every mode. A finish or a
block is posted to the loop (the queue of posted functions is part of the state), and
pause, resume, stop, reset and time-outs come at any time in between. A result that comes while a serial
action is paused is stashed, and `resume()` posts it: that of a last child calls `finish()` when it comes,
whatever the state is by then, that of another child is looked at again (`runStashed`). `SerialProgress`
says that a running composite has something that will move it; `NoOrphan` that an
action that is over has no child running.
`ActionExecutor` keeps three queues by priority and the index of the current one. An
action is its state here: `start()` and `resume()` leave it running, finished or blocked,
as it chooses, for both `finish()` and `block()` are called from inside `onStart()` and
`onResume()`. `schedule()` is two loops, and a round of each is a step: `scheduleFind`
pauses the front of the current queue when a higher one is ready, `scheduleServe` starts,
resumes or deletes the front, and nothing else moves until it returns (`at = "rest"`).
The executor is used by one thread, and `schedule()` asserts that none of its own callbacks is
on the stack; an action that calls the executor from inside its `onStart()` is left out.
`StateMachine` is a machine with routes, some states of which hold a sub-machine. A call is one step. What a
callback calls on its own machine is refused (`cb_level_`) and changes nothing; but while `start()` and
`run()` call the sub-machine, `cb_level_` of the outer one is 0, and callbacks of the sub-machine may start,
stop and run it (`calledOnce`), at most three times within one call (`called`). A `run()` that comes back to a
machine without a current state, or to a state without a sub-machine, uses a null pointer, and the model ends
(`crashed`). The user drives the sub-machine through its machine only, and does not define a state 0, which
is the final state of the library.

### Coroutine

A routine's body is a choice of calls: yield, wait, join, an operation of a primitive,
or its end. The stack switch is the variable that says who runs. `Broadcast::post()`
resumes a vector of routines in one call; what that leaves is written down directly: those
of them that are suspended are ready, in the order of the vector. The five primitives
are one record; each initial state picks the primitive the routines use. `cleanup()`
cancels the routines that are left and runs them to their end; then `clear()` starts the ids anew while
`ready_routines` and the object keep their tokens, so that a new routine may get the token of an old one. A number is a
token: the second life of the cabinet gives the same ones out again, in any order. `odd` marks the routines whose
token was left in a queue, and those created while `cleanup()` runs. Such a `create()` may let `cells_` grow under the
`foreach()` of `cleanup()`, which is undefined: the model goes on, or ends (`crashed`).

### RpcCalls, DnsRequest over TimeoutMonitor

The ring of `check_times` slots moves on at each tick; its timer runs only while the
ring is not empty. Requests of `Rpc` and of `DnsRequest` are settled by an answer, a
failure or the ring, and their callbacks may send further requests. A tick of `DnsRequest` calls what
it took out of the ring one by one (`due`), and the user's calls may come in between. The transport loses,
repeats, delays and reorders: an answer may come for any request that was ever sent, any
number of times.

### TcpClient, MqttClient, ModuleTree, LoopWDog

`TcpClient` keeps the states of client and connector, the socket, the retry timer and what
the user is told; connecting fails at each of the places it can fail at, and `initialize()` may be given an
address that could not be parsed (`kNone`). `MqttClient`
keeps the client's state, the connect thread (its start, its result and the function it posts), the
timer, the read event and the socket it was made for; whether libmosquitto ends a
session is a choice. `ModuleTree` grows a tree of modules whose hooks fail at will, three
of them in the run. The calls recurse along the tree, and each is taken apart into its
steps: a call begins with its own hook (`initializeModule`, `startModule`, `stopModule`,
`cleanupModule`), visits one child after the other (`upVisits`, `downVisits`), and ends
(`upFails`, `upSucceeds`, `stopEnds`, `cleanupEnds`) by handing its answer to the call that made
it (`returned`). `call` and `at` are the stack, `top` its innermost call; `stop()` as
called by `cleanup()` is a call of its own. In `LoopWDog` each critical section
is a step but for that of `CheckLoopTag()`: it tests a state in one step and sets it in another
(`CheckLoopTagLook`, `CheckLoopTagMark`), as the loop's function, which takes no lock, does with its own two
steps in between. `crossed` marks the loops where the two ran into each other.

### HttpParser, Buffer, Alarm

`HttpParser` sends requests as sequences of marks and delivers them in pieces of every
length, so that each state of the parser meets each cut. A request may be malformed in its first line (URL or
version), in a header (no colon, or no value) or in the number of its `Content-Length`, which makes `std::stoi()`
throw through the loop. Negative lengths and a second `Content-Length` are not modelled. `Buffer` compares two buffers with
the bytes put in and not taken out; memory that was never written holds `Garbage`.
`Alarm` scales a day to two seconds, the 367 days of a search to eight and the range of
the wait in `uint32_t` milliseconds to eleven seconds; the week keeps its seven days. The timer fires up to
one second ahead of the system clock or after it, the clock is set forwards and backwards,
and the calendar changes while alarms run.

## Runs

`sequential` and `work` take three to four minutes each with two workers, `events` one, the others
half a minute or less.

| run | expect | shows |
|---|---|---|
| `pipe` | pass | the pool's count and limits, back pressure, completeness of `cleanup()`; every `append()` and `cleanup()` returns, every byte is delivered; the pipe implements `ByteChannel`, order included |
| `loop` | pass | exactly once, FIFO by kind, no lost wake-up, posted functions are called, `exitLoop()` ends the loop |
| `loop_restart` | violation | a request pending when the loop ends suppresses the wake-ups of the next run |
| `pool_fixed` | pass | `main_cb` once and after its task, every task settled, `main_cb` called |
| `pool_dynamic` | pass | the idle count, one place for each task, at most `max_thread_num` working threads, while the pool grows, shrinks and is initialized again |
| `pool_cleanup` | violation | the stop notification is missed and `cleanup()` never returns |
| `http` | pass | order and accounting of responses, the write event armed when needed, no use of freed structures, every request answered unless its connection ends |
| `http_restart` | violation | tokens are reused after `stop()`/`start()`: an old `Context` answers on a new connection |
| `events` | pass | enabled timers are in the heap and fire; epoll watches what the events of a descriptor want; a signal reaches every subscribed loop, and handlers are installed and restored |
| `work` | pass | progress and tidiness of action trees, priorities of the executor; RPC requests are settled once, and eventually; a blocked loop is reported, once, and asked again, unless its function and the check run into each other |
| `sequential` | pass | scope of sub-machines; a DNS question is settled once and stays answerable; framing of requests; faithfulness of buffers; alarms wait for their next time; ready routines run, `join()` is honest; TCP client and connector, MQTT client and thread stay in step; module hooks pair up |
| `co_semaphore` | violation | two releases before the first of two waiters runs: the second waits although there is a resource |

The violations are real disagreements with a comment or the
documentation of the repository; `PROJECT.json` quotes the lines under `findings`.
The properties of the passing runs are stated so that they hold beside them and beside the
observations below: `NoLostWakeup` and `PostedRuns` speak of the first run of the loop,
the liveness of the pool is checked with a fixed number of workers, `MainCbCalled` excepts
a `cleanup()` that hangs, `http` starts the server once, `Responded` excepts connections
that end, `TimerFires` speaks of waits that fit an `int`, and each exception of
`MqttMoves`, `ClientInStep`, `FramingHolds`, `DnsSettledOnce`, `ModulePaired`, `AlarmOnTime`, `SignalRouting`,
`MachineScope`, `JoinHonest` and `BlockReported` is named in
the comment above the property, as a history field of the model. The exceptions are the code's own
failures: where they occur nothing is promised, and the property says that they are the only ones.

### Bounds, and why they are enough

- `pipe`: two writers (they exclude each other, so a third adds only a name), buffers
  of two bytes, one to three buffers, nine bytes and two lives of the pipe. Nine
  bytes fill the three buffers and still leave a writer waiting in the middle of an
  append; the pool grows twice and shrinks twice.
- `loop`: two functions of each kind, two runs, two rounds of clean-up. Two of a
  kind are needed for order and for one function cancelling another; the second run
  for what survives the first; one function posted from each round exhausts the rounds, and in the
  last run functions post others without end.
- `pool_fixed`: two workers, three tasks (one more than workers), two levels of
  which one is reached by a priority out of range. `pool_dynamic`: three threads for
  a pool of one to two, so that a worker may be created while another is still
  leaving; two lives.
- `http`: two connections, one pipelining two requests; enough for a response that
  waits, for a request behind the last one, for batches and for two connections
  whose cells are reused.
- `events`: two user timers (one persistent, one one-shot interval) and the exit timer,
  three units of time and a three-bit wait; two events on two descriptors, so that two
  share one and one moves between them; two loops, two signal events, two signals that can and
  one that cannot be handled, pipes of one (`PipeCap`). The sets an event is given (`SigSets`) are one number, two,
  and one with the number that is refused; of the signal events
  at most one at a time is one-shot and at most one is odd (`FewSignals`).
- `work`: a tree of each kind in each mode with one or two levels, and two deeper ones with
  a composite inside a sequence and a parallel inside both; at most two functions wait in
  the loop (`MaxQueue`). Four actions in three queues, so that
  one waits behind another while a higher and a lower queue are ready. Two RPC ids, so that one request is
  open while the other is settled, and two ticks to the time-out. Two loops, two registrations, two
  lives of the watchdog.
- `sequential`: a machine of two states and a sub-machine of one; two routes, one event function and two states that own
  the sub-machine, three of these at a time (`FewParts`); up to three calls on the machine within one call on its
  sub-machine. Two servers and two questions.
  Two requests with bodies of up to two bytes, cut everywhere. Blocks of two bytes and eight
  bytes of memory, so that a block is moved to the front, grown and shrunk. Three
  days of clock, which the weekday masks and a special day divide, and targets into the second week. Two routines,
  three tokens in a queue, and one token in all left over at the end of `cleanup()` (`MaxStale`). Three sockets or
  threads, of which the first may report when the third is in use, and up to two seconds
  (`MaxWait`) before the next try, so that a wait is counted down. Three modules (two
  siblings, or a chain of three).

Deadlock is checked for `loop` and `events`. The other systems really may stop: their
clients need not call anything any more, and the bounds on calls are used up.

### Fairness

- `pipe`: the scheduler runs the backend and each writer inside `append()`. Nobody
  is obliged to call `append()` or `cleanup()`. Weak fairness is enough, for
  `curr_buffer_mutex_` is only tried, never waited for, by the backend.
- `loop`: the loop's thread runs and callbacks return. `epoll_wait()` is sure to return only
  when the eventfd is readable or `runNext()` functions wait (the time-out is 0
  then): no other event is assumed, so a lost wake-up would show. `exitLoop()` is
  never assumed.
- `pool`: each worker is scheduled, tasks return, the mutex starves nobody (strong
  fairness, since another thread may hold it now and then). A spurious wake-up is
  possible and never assumed, so a lost notification would show. The client finishes
  what it began and its loop runs.
- `http`: callbacks return, the user lets go of each `Context` eventually, a socket
  becomes writable and takes something, and the end of a socket is reported.
- `events`: the loop takes its steps and the clock ticks (`TimerFairness`); no event but the
  end of the computed wait is assumed to wake the loop.
- `work`: the timer of the ring ticks while it is enabled (`RpcFairness`), which is
  `TimerFires` of `events`; no answer ever has to come. The watchdog's thread runs while it exists
  (`WDogFairness`); no loop has to answer.

## Proofs

All theorems are proved by TLAPS for every value of the constants that satisfies
the named assumptions. `ConfigAssumption` (the pipe, the pool) and `CheckTimesAssumption`
(the ring) are the checks of `initialize()`; `MachineAssumption` says that neither -1 nor 0, the final state, is a state of the user's; `TimerAssumption` leaves out persistent timers of interval 0 and
intervals that do not fit the `int` of `epoll_wait()`; `SignalAssumption` and
`WatchAssumption` say that an event has one loop, that there are finitely many events, and
what a descriptor can be watched for; `DnsAssumption`, that there are finitely many servers;
`RoutinesAssumption`, that the token of no routine is the null token; `ModulesAssumption`, that the root and
"no parent" are no modules to be added; `AlarmAssumption`, that a day and the range of the wait are not
empty. The others (`BoundAssumption`, `ReqsAssumption`,
`ConnsAssumption`, `BlockAssumption`, `WaitAssumption`, `RpcAssumption`) are types of
bounds. Since the bounds are arbitrary, they restrict nothing.

**AsyncPipe** (`AsyncPipeProofs`): `TypeCorrect`, `PoolAccounted`
(`BufferAccounting` and `BufferBound`), `BackPressure` (`WaiterHasSupplier`),
`BytesInOrder` (`InOrder`), `CleanupComplete` (`CleanupFlushed`) and `Refinement`
(`ImplementsChannel`). The inductive
invariant `IInv` adds three parts. `Locking`: a thread inside a session owns
`curr_buffer_mutex_`; it is needed because only the owner may touch `curr_buffer_`.
`Phases`: the stop flag is up exactly while the owner waits in `cleanup()`, and the backend
ends only then. `Slots`: which buffers exist at which place of the two programs; for
instance a buffer that is left in `curr_buffer_` is neither full nor, outside a copy, empty, and a
backend that quits has emptied it. `BackPressure` is then arithmetic: a waiter sees
`buff_num >= buff_max_num > 0`, no free buffer and no current one, so by
the accounting some buffer is in the queue or in the backend's hands. The
order is proved with two lemmas about the queue (`PushOrder`, `PopOrder`) that say where a
buffer's first byte follows on. For the refinement `Issued` adds that
the queue holds only bytes that were appended: it follows from the order by induction over the queue,
which is out of the prover's reach, and so it is carried along as an invariant of its own.
The chunk handed to the callback is then the interval that follows the delivered bytes, and every
step maps to one of the channel's or to a stutter.

**CommonLoop** (`CommonLoopProofs`): `TypeCorrect`, `WakeupNotLost`
(`NoLostWakeup`), `CalledInOrder` (`Fifo`) and `WaitsOnce` (`QueuedOnce`). The invariant adds `TmpDrained` (the queue being drained is empty
outside its loop, so a swap leaves an empty queue behind), `IdType` (parity of the
ids), and `Committed` (in the first run the flag mirrors the eventfd, and is set
while functions wait). For the order a second invariant, `OInv`, is proved on top of it
(`OrderInvariance`). `PhaseQueues`: which queues are empty at which place of the loop and of
its clean-up, which is why swapping and moving lists loses nothing. `Ordered`: the functions of
a kind ascend through the queue being drained and then the one being filled.
`Waiting`: the pending functions are those in a queue. `Issued`: no id is in
use before it is handed out, so that an appended one is above all others.

**ThreadPool** (`ThreadPoolProofs`): `TypeCorrect`, `IdleCounted` (`IdleCount`),
`ThreadsBounded` (`AtMostMax`), `TaskInOnePlace` (`OnePlace`) and `CalledOnce`
(`MainCbOnce`). None of these is inductive alone, and the invariant adds three parts.
`Registered`: outside `cleanup()` the workers are in `threads_cabinet`, during it in the
vector of threads to join, one of the two is empty, neither exceeds `max_thread_num`,
and whoever can take tasks is in one of them; the limit follows. `Joins`: a worker that the
main loop is asked to join has ended and is registered nowhere, so that joining it
takes nobody out of the wait and each is asked for once. `Stages`: what a worker holds at
each place of `threadProc()`, what is known of that task, and that a `main_cb` not yet
posted is neither queued nor called; this is what makes a second post impossible. The
parts need each other: `idle_thread_num` is not decremented at zero because it counts
the workers in the wait, and a task taken from the head of a level is in nobody else's hands
because it is at one place. `PushOne` and `TakeOne` say this of the levels.

**Signals, Timers, FdEvents** (`EventsProofs`): `SignalsRouted` (`SignalRouting`),
`TimersQueued` (`TimerQueued`) and `FdsRegistered` (`FdRegistered`). `SignalRouting` is
inductive with the types: that no event has gone odd means that what is enabled is subscribed, and then
`unsubscribeSignal()` finds a subscriber, a pipe and a handler to restore. `TimerInv` says of each `Timer` whose it is (`TimerOwned`), that no
two share an owner or a token (`TimerUnique`) and that an enabled event holds its own
(`TimerHeld`): `deleteTimer()` sets an expiry to 0, rebuilds the heap and pops the front, which is
the right one because every other expiry is above 0. That a fresh token exists is proved from
the cardinalities. `FdInv` counts (`FdCounted`): the reference count is the number of events on the descriptor,
each of the three counters is the number of enabled events that want its kind, and the mask, which
is what epoll was told, is the set of kinds whose counter is above 0. A counter that decides when epoll is told to
forget a kind is right exactly because it is a cardinality. An enabled event has a
descriptor (`FdInUse`).

**Cabinet, TcpServer, HttpServer** (`HttpServerProofs`, `HttpPipelineProofs`):
`ContextsAlive` (`ContextAlive`) for any number of connections, requests and starts, and
`ResponsesInOrder` (`PipelineOrder`) for a server started at most once. The hypothesis
is needed: the run `http_restart` shows that a second `start()` gives out the tokens of the
first again. `HttpInv` consists of `CabOK` (the free list of a cabinet runs
through vacant cells, none of them twice, and ids do not exceed the last one), `Linked` (the open
connections and the cells in use name each other), `RxOK` (the receive loop on the stack works for
an open connection or for one that is not found any more, and what it still has to parse has its
context) and `Halted` (a server that does not run has no connection). What `alloc()`, `free()`
and `clear()` do to a sound cabinet are lemmas. `PipeInv` adds `TokenIds` (with one start, the id of a token
numbers the connections, so an old token never finds a new connection), `HeldOK` (a
`Context` carries the token of the connection its request came from), `Apart` (the request
in the handler's hands is no kept one), and for each open connection `Piped`: what was written followed by
what waits in the send buffer is the requests 0, 1, ... in order, each later request waits in
`res_buff`, is kept by a handler or is being handled, and the write event is enabled while something
has to be written.

**StateMachine, Buffer** (`SequentialProofs`): `MachineScoped` (`MachineScope`) and
`BufferKeeps` (`BufferFaithful`). `MachineInv` adds to the property that a running machine is in a state it has or
in the final one, and that a stopped one has no state: a transition leaves exactly
the state that was entered. What callbacks of the sub-machine call meanwhile is a lemma of its own: each such call
keeps the invariant, with the machine in another state or in none, so that three of them do. `BufferInv` adds what a sound buffer is
(`Sound`: `r <= w <=` size of the block) and that all readable bytes were put in by the user; that is what makes the
bytes behind `w` invisible when a block is grown or moved to the front.

**Alarm** (`SequentialProofs`): `AlarmsOnTime` (`AlarmOnTime`) for any length of the day, any
masks, special days, zones and clocks. `AlInv` adds `Kept` (only a running alarm has a timer, a
running `WorkdayAlarm` is subscribed, what fired last lies before the target or the present)
and `Rested`: an alarm at rest aims at nothing that is still to come. That is what
makes `enable()` right, which searches from the old target when this is ahead of the clock.
The heart is that the search finds the least time there is: with the day as a symbol this is division with
remainder, which the solver does not do by itself, so the day and the second of a time are lemmas of their own.

**ActionExecutor** (`SequentialProofs`): `ExecutorKeepsPriority` (`ExecutorPriority`) for any number of
actions. `ExInv` adds `Placed` (an action is at one place in one queue, and not deleted), `RunsInFront` (who
runs is the front of the current queue), `Serves` (while the inner loop serves a queue, the higher ones are
empty and nobody runs elsewhere) and `Rests` (when `schedule()` has returned the first queue is
the current one, and its front settled). The property alone is not inductive: `cancel()` takes away a front, and
what then makes the next `schedule()` right is that an action behind it cannot be running.

**ModuleTree** (`SequentialProofs`): `HooksPairUp` (`ModulePaired`) for any set of modules, any tree of
them and any choice of the hooks that fail. The recursion is a stack, and the invariant says what the
stack is: `PathBy` gives each module a depth such that the calls under way are one at each depth, from the root
down to the innermost, and each of them but the root's was made by the call of its parent, which
stands at that child with a call that may make it (`Linked`, `Makes`). `TreeOK` is the shape of
the tree, `Begun` says what a call has achieved by the child it has come to (a `stop()` at child `i`
has stopped all behind `i`), and `HooksPair` is the property between calls. No induction over the tree is needed:
a step touches the innermost call and its caller, and `ChildRests` says that the children of the innermost one are at rest.

**Coroutine** (`ServicesProofs`): `ReadyRoutinesRun` (`ReadyRuns`) and `JoinsHonestly` (`JoinHonest`) for
any number of routines. A cancelled routine may be woken at odd times and found in several queues at once,
so all that `CoInv` says of queues is about the others (`Calm`): each is in one of them at most and once (`Once`,
`Lines`), whoever waits at a primitive is suspended in that very call (`Waits`, `Locked`), and a `join_token` is of a routine that is
suspended in `join()` for it (`JoinKept`). Without the last two a wake-up by a mutex could end a `join()` early. `Swept` and
`Current` are what `cleanup()` and the switch of stacks need. A second life of the scheduler begins with the tokens of
the first in its queues; the routines they name are `odd`, and count with the cancelled ones.

**TcpClient** (`ServicesProofs`): `TcpClientInStep` (`ClientInStep`). `ClientInv` adds that a client that
was initialized has a connector that was, unless its address was bad, which is why a lost connection can be followed by a new start. The model has
no constants and the run visits all its states; the proof says why they are all.

**MqttClient, RpcCalls, DnsRequest** (`ServicesProofs`): `MqttKeepsMoving` (`MqttMoves`), `RpcCalledOnce`
(`RpcOnce`) and `DnsSettles` (`DnsSettledOnce`). In `MqttInv`, `OneThread` says that the thread exists only while
connecting, `Fenced` that a client on its way to a connection has no event for the socket it will get,
`Counting` that a client that waits has seconds left, and `Driven` that
there is a timer, the first result on its way, or the thread that will post
it. In `RpcInv`, `Sane` counts the calls of each callback and says of both rings
`RingOK`: `value_number_` is the number of values in the slots, and the timer runs while there are
any. Whether the timer is stopped depends on a count alone, so this count has to be shown
to be the cardinality of the places in the ring, through adding and turning (`RingAddOK`,
`RingTickOK`). `Watched`: a pending request is in the ring while the monitor has its callback.
In `DnsInv`, `Awaited` says that an open question is in the ring or among those the current tick still has
to call, and each question satisfies `Tallied` (its failures number the servers that failed it, unless one did twice,
and these are servers it was sent to) and `SettledOnce`. "All servers failed" is then a
statement about cardinalities: a subset as large as the whole is the whole.

Only model-checked:

- all liveness, and everything that depends on fairness: out of reach of the prover;
- `SerialProgress` and `NoOrphan`: the calls of `Actions` recurse through ten kinds of
  composites that start, stop and reset each other within one call, and the model has the recursion
  of the code as recursive operators. What such a call leaves is an induction over the tree. The call by call form that
  `ModuleTree` has would do for a proof, but here it would multiply the states of the run beyond use;
- `FramingHolds`: the text of several requests is their concatenation, and the parser's loops are
  recursive operators over it: induction over data.

`BytesInOrder`, `CleanupComplete`, the three `TypeCorrect`, `OrderInvariance` and `HttpInvariance`
are theorems whose invariants are not repeated in a run: the runs check stronger or related properties.

## Observations

Behaviour of the code that the models show, or that was met while modelling, beyond the
findings. Where a model has it, the property names the exception.

**Loop, pool, pipe.** `cancel()` does not find functions that the clean-up has moved to
its local lists (`common_loop_run.cpp:243`). The counter of the clean-up's rounds is
decremented by the test itself, so that the warning about a forced end is one round off
(`:269`). A worker that decided to leave still counts, so that a task may wait with nobody
to take it, and two workers may leave on the same count (`thread_pool.cpp:304`).
`cleanup()` empties the cabinet under a worker that is leaving, whose assertion then
fails (`:374`). `initialize()` after `cleanup()` creates workers while the stop flag is
still up (`:123`). Between `popOneTask()` and the entry in `doing_tasks_token`, `cancel()`
reports a task that is about to run as not found (`:327`).

**HTTP.** After the last request the read side is shut down, and the next read reports the end of
the connection: a last response that is not out within the turn is lost
(`server_imp.cpp:174`, `buffered_fd.cpp:230`);
requests behind the last one in the same buffer are still handed to handlers (`:159`), and a
second last one among them moves `close_index` on (`:171`): a response that already waits to end the connection
then waits until the socket ends.
A piece that ends inside the method makes the parser fail (`request_parser.cpp:46`); a request without
`Content-Length` takes what follows it in its piece as its body (`:150`).

**Timers, descriptors, signals.** A persistent timer of interval 0 keeps
`handleExpiredTimers()` from ending. A wait of 2^31 ms or more is cut
(`epoll/loop.cpp:73`). A batch holds raw pointers to the shared data of descriptors
(`epoll/loop.cpp:80`). An event disabled by an earlier callback of the same list still
fires (`fd_event.cpp:178`), and `initialize()` with `kPersist` does not take the one-shot
flag back (`:59`). `SignalEvent::enable()` that fails half way leaves the earlier signals
subscribed (`signal_event_impl.cpp:73`), the handler reads the table of contexts without
the lock (`common_loop_signal.cpp:62`), and a full pipe loses signals. `initialize()` of an enabled
signal event changes its set under the subscriptions: `disable()` then leaves the old numbers subscribed,
installs SIG_DFL over the application's handler of a number that nobody had subscribed to
(`common_loop_signal.cpp:182`), and uses a null `sp_signal_read_event_` when the loop has no subscriber left (`:201`).

**Flow.** `reset()` does not cancel a resumed stash function and a superseded block
callback (`action.cpp:318`, `action.h:125`). A time-out of an action that is not a
composite leaves its child running. The result of a last child that came during a pause finishes the action even if
it was paused again, or reset and idle, by the time the loop delivers it (`assemble_action.cpp:107`). A paused parallel action drops results of its
children. A repeat of 0 times wraps. `cancelAll()` stops only the fronts of the queues,
`cancelCurrent()` and `cancel()` leave the index at a queue that may be empty
(`action_executor.cpp:63`). `stop()` and `restart()` of a state machine leave its
sub-machine running (`state_machine.cpp:368`); a machine whose sub-machine terminated
on an event it has no route for ignores later events; a callback of the sub-machine may stop, start or run
the outer machine (`:362`, `:400`), which leaves the sub-machine running behind a machine that has moved on, or
`run()` with a null `curr_state_` or `sub_sm` (`:402`). `EventPublisher::publish()` shadows its
`tmp_vec_`, and `subscribe()` uses `std::remove` without `erase`.

**Coroutine.** `cleanup()` leaves the ready queue and the queues of the primitives as they are and starts the ids anew
(`scheduler.cpp:188`, `cabinet.hpp:142`): an old token starts or wakes the new routine that got it, so that one is
dispatched twice and `join()` says true while its target lives. A routine that creates another while `cleanup()` ends
it may move the cells under `foreach()`. A cancelled waiter leaves its token in the queue of a mutex, semaphore or
channel, and a wake-up may be handed to it; `Mutex::Locker` ignores the result of
`lock()`; a cancelled waiter of a `Condition` leaves `wait_token_` set; a pending
`schedule()` outlives a deleted `Scheduler`.

**RPC, DNS, TCP, MQTT.** `Rpc::cleanup()` clears the callback of the monitor that only the
constructor sets (`rpc.cpp:64`), and the iterator of a pending request is used after its
callback (`:171`). `DnsRequest` counts failures and not servers, so that a server that
repeats itself speaks for another (`dns_request.cpp:285`); a new list of servers changes the
limit of open questions; ids are 16 bits wide and 0 is also the value for failure (`:150`); a callback that cancels
its own question destroys the function that is running (`:292`). When no socket can be
created during a retry, `stop()` meets a null timer (`tcp_connector.cpp:160`); a bad
address or an unreadable `SO_ERROR` leaves the client connecting; `connect_fail_cb_` may
restart the connector that is calling it (`:261`). A late result of an earlier connect is
applied to the new thread (`mqtt/client.cpp:301`); a CONNACK after `stop()` revives the
client without its timer; `stop()` and `start()` before `onDisconnected` leave the read event on
the old socket.

**Modules, watchdog, alarm.** `initialize()` or `start()` that fails half way is not
undone (`module.cpp:140`), and `Main()` does not stop the context when `apps.start()`
fails. `LoopWDog::Stop()` joins its thread holding the lock the thread takes
(`loop_wdog.cpp:154`). When a loop's function comes between the test and the mark of `CheckLoopTag()` (`:102`, `:103`), the
loop is marked with no function on its way: it is reported as blocked, never as recovered, and never asked again. The header speaks of 5 s, the thread turns every second.
`Alarm::disable()` keeps the target, so that the next `enable()` leaves an occurrence out
(`alarm.cpp:92`); `refresh()` right after an alarm that fired early makes it fire again
(`:119`); a wait of more than 49.7 days wraps and the alarm fires early (`:201`). A
`WorkdayAlarm` that finds no day is subscribed but not running, and a calendar update
does not start it (`workday_alarm.cpp:78`). `~Alarm()` calls `disable()`, and from there
the `onDisable()` of the base class: a `WorkdayAlarm` deleted while it runs stays in the
list of its calendar (`alarm.cpp:69`).

## Not modelled

`PROJECT.json` lists every component with its reason. In short: text and byte formats
(HTTP and JSON messages, URLs, framings, DNS messages, terminal, serializer), published
algorithms (crypto), third-party code (nlohmann, cron expressions), wrappers of
system calls (sockets, UART, files, D-Bus), start-up code and examples.

The map covers a small share of the repository's lines, and a large one is out of reach:
`3rd-party/nlohmann/json.hpp` alone is more than a third of them, examples are a tenth, and
of `modules/` the greater part is headers of declarations, text formats and
conversions, wrappers of system calls, logging and tests. What has state and
order is modelled but for the parts named in the plan.

## Plan

1. Proofs: what `Cabinet` promises of its tokens between two `clear()`s; the trees of `Actions` call by
   call, in a module of their own that is checked on smaller trees.
2. `WorkThread` (the one-thread variant of `ThreadPool`) and `TimerPool`.
3. `AsyncSink` composed with `AsyncPipe`: records stay whole; the trace sink after it.
4. Pure modules: the scalable integers and the key scanner of the terminal, against a
   reference definition.
5. The select engine, where it differs from epoll.

Abstract specifications worth stating next: a set of live tokens that `Cabinet`
implements between two `clear()`s; an in-order responder that a connection of
`HttpServer` implements; a set of pending tasks for `ThreadPool`.
