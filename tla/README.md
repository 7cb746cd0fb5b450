# A TLA+ verification project for SweepDSEmu

SweepDSEmu is a Nintendo 3DS emulator (a fork of Azahar/Citra, C++) that also hosts a
DS/DSi core. It re-implements the console's operating system kernel: emulated programs
run on up to four emulated cores and call an HLE kernel (`src/src/core/hle/kernel`) that
schedules their threads and makes them wait for mutexes, semaphores, events, timers,
other threads, address arbiters and IPC sessions. This kernel is the part of the program
whose correctness depends on the order of events, and it has next to no unit tests
(`src/src/tests/core/hle/kernel` tests IPC translation only). It is the first thing this project
models, followed by what drives it (timers and the system loop) and by the multiplayer rooms,
which are the distributed part of the program.

## Inventory

| component | state | operations | what makes it correct |
|---|---|---|---|
| scheduler, `thread.cpp`, `common/thread_queue_list.h` | ready queue (one deque per priority and a chain of pointers through the priorities), current thread, thread statuses, wakeup events | CreateThread, SetupMainThread, sleep, yield, ResumeFromWait, SetPriority, BoostPriority, Stop, Set/ClearUnscheduleMode, Reschedule | the queue holds exactly the Ready threads; the chain is sorted and complete; nobody waits for ever behind a worse thread |
| wait objects, `wait_object.cpp` | waiting list of each object, wait_objects of each thread | Add/RemoveWaitingThread, WakeupAllWaitingThreads | no lost wakeup; both sides of a wait agree |
| mutex, `mutex.cpp` | lock count, holder, priority; held and pending mutexes of a thread | Acquire, Release, UpdatePriority, ReleaseThreadMutexes | one live owner; a waiter lends its priority while it waits and no longer |
| semaphore, event, timer | count; signalled flag, reset type; pending expiry, interval | Acquire, Release; Signal, Clear; Set, Cancel, TimerCallback | bounds; what is acquired is available |
| handle table, `handle_table.cpp` | objects, generations with the free list threaded through, generation counter | Create, Duplicate, Close, Clear, Get | a partial map from handles to objects; stale handles stay invalid |
| address arbiter, `address_arbiter.cpp` | its own list of threads, their addresses | ArbitrateAddress (signal one, some, all; wait with or without timeout), timeout, close | its list is the threads in WaitArb, in the order they came |
| CPU limiter of core 1, `thread.cpp`, resource limits | mode, ready, active, whose turn it is, threads put to sleep, ticks | SetScheduleMode, UpdateAppCpuLimit, DoTimeLimit, OnTick | no thread is stranded in a sleep it did not ask for |
| HLE asynchronous requests, `hle_ipc.h` | host tasks, thread-safe wakeups, count of pending operations | RunAsync, RunOnThreadWorker, wakeup callback | one wakeup per request; the count covers it to its end |
| IPC ports and sessions | pending sessions and requests, the request being handled, both ends of a session, places of a port | Connect, CreateSession, AcceptSession, SendSyncRequest, ReplyAndReceive, closing either end | a request is in one place, taken once, answered by its session; places are counted exactly |
| core timing, `core_timing.cpp` | event queue, thread-safe queue, slice, downcount and clock of each core | ScheduleEvent (own core, other core, host thread), UnscheduleEvent, Advance, SetNextSlice | events fire at their tick, also those inside a slice; clocks stay together |
| system loop, signals, savestates, `core.cpp` | signal slot, pending save or load and its age, locals of RunLoop | SendSignal, RunLoop, Reset, Shutdown | requests end, one at a time; no event is lost over a pass or a load |
| VM manager, shared memory | interval maps | map, unmap, reprotect | not modelled |
| room, `network/room.cpp` | members with their connections, bans | join, kick, ban, unban, disconnection, close | a player is on the list once, with a live connection, and leaves it |
| room member, `network/room_member.cpp` | state, send list, known members, loop thread | Join, Leave, moderation requests, MemberLoop | it agrees with the room, or will; calls return |
| video, audio, CPU cores, file systems, loaders, services, front ends | | | out of scope; see PROJECT.json for the reasons |

How they interact: the emulated cores are run in turn by one host thread (`System::RunLoop`),
so a system call or a timing callback runs to its end before anything else happens in the
kernel. The nondeterminism that matters is *which* comes next: which core and thread calls
what, which timer or timeout is due, and whether a thread that was woken is switched in
before the next event hits it. A system call that makes a thread wait leaves state behind in
three places (the thread, the waiting lists, the event queue), and a wakeup, a timeout and a
kill each have to clean up all three; that is where the hazards listed in PROJECT.json are.

Three places are concurrent in the ordinary sense. Host threads (tasks of HLE services, audio,
input) schedule events through the thread-safe queue of a timer while the emulation thread runs.
Front ends send signals to the emulation thread. And a multiplayer room has a thread of its own,
with two threads in every player that share a state and a send list.

## Modules

* `HandleTable` models `HandleTable` line by line: the packing of handles with its bit widths
  as constants, the free list inside `generations`, the wrap of the generation counter. Two
  history variables (`free`, `recent`) state what the free list and the window of issued
  handles are. `HandleMap` is the abstract specification, a partial map, and `ImplementsMap` the
  refinement.
* `ThreadManager` models the scheduler of one core and the ready queue with its pointer chain
  (indices, -1 for `UnlinkedTag`, -2 for `nullptr`). `Reschedule` is PopNextReadyThread followed
  by SwitchContext and has three outcomes: `KeepCurrent`, `GoIdle`, `SwitchTo(t)`. Every reason
  to block other than a sleep is the status "Blocked", and whatever may end it is `Signal`.
* `KernelSync` models threads and the objects they wait for. The one variable `kernel` is a record
  with a function for every field of the threads and objects (`KState`), and the functions of the
  code are operators on it under their own names; an action applies one system call or one timing
  callback. A loop of the code is a recursive function from the number of turns done to a kernel
  state. The wakeup loop has as many turns as the object has waiters, which the proofs show to be
  enough. The ASSERTs on these paths (Acquire, WakeupAllWaitingThreads and all four of ResumeFromWait,
  the DEBUG_ASSERTs among them; `Assertions` lists them) are recorded in `failed`, after which the
  emulator stops. Each thread keeps three ghost fields: `timed` (the wait has a
  timeout), `result` and `granted` (what the last wait returned and acquired). The scheduler is
  abstracted: a core may switch to any Ready thread. `MCKernelMutex` and `MCKernelObjects`
  instantiate it.
* `CoreOne` composes everything that puts a thread of core 1 to sleep. `ThreadWait` holds what
  they share: statuses, ResumeFromWait, wakeup events in the two queues, Stop. `AddressArbiter`
  adds the arbiter's list, `CpuLimiter` the two limiter objects with their ticks, `HleAsync` the
  host tasks and `pending_async_operations`. The ready queue is reduced to priorities: among
  equals any thread may be picked. Ghosts: `arrived` (order of arrival), `died` (the status a
  thread was killed in). What the emulator would stop for is recorded in `failed`: the assertions of
  ResumeFromWait for a thread that is Ready with a callback, Running or Dead (`Refused`), those of the
  arbiter and of the HLE callback, and the exception of `wakeup_callback_table.at`. The assertion on
  `wait_objects` is KernelSync's: the threads here wait for no object.
* `CoreTiming` models the timers and the three loops of RunLoop over them; one step is one
  iteration, so host threads come in between. Times are relative to `executed_ticks` of a core,
  so no clock grows. A host thread schedules in two steps: it reads the clock without a lock
  (`ScheduleThreadSafe`; a torn sum, off by a slice, is a clock read earlier or a longer delay) and
  pushes the event any number of slices later (`PushThreadSafe`).
  `SystemSignals` is the signal slot and the pending savestate operation, and `SystemLoop`
  puts both together as RunLoop does: signals first, then a pass over the timers.
* `Sessions` models ports, sessions and svcReplyAndReceive; a wakeup of a server thread includes
  the request it acquires. `Kill` stops a client or a server thread in the middle of anything. Ghosts: `orphans` (callers whose request was dropped with an end of
  the session) and `missed` (a reply left a request and woke nobody). `RequestReply` is the
  abstract specification of svcSendSyncRequest, and `ImplementsRequests` the refinement. It allows
  both what the TODO in `~ServerSession` asks for, that callers of a session that ends are told, and
  what the code does, that they are left asleep.
* `Multiplayer` composes `Room` (the thread of the room) and `RoomMember` (user thread and loop
  thread of every player) over `EnetLinks`, which models the ENet library from the way the two
  use it: reliable ordered packets, a disconnection that drops what is queued, a connection that
  breaks and that each end notices by itself. Ghost: `undone` (a Leave whose state was overwritten).
* `Filters` has the two operators on lists that the arbiter, the room, KernelSync and the proofs
  share: the set of the elements, and what an erase-remove or a stable partition leaves.
* `QueueLemmas` and the modules whose names end in `Proofs` hold the proofs, one module for each
  specification.

Recursion is written as a recursive function everywhere, so that every module can be proved about.

Operators whose comment starts with "Faulty variant" are deliberate mistakes used to confirm
that a property can fail; no action uses them.

## Runs

| run | checks | result |
|---|---|---|
| handle_table | TypeOK, FreeListExact, NoEarlyReuse, ImplementsMap | pass, 25 thousand states |
| sync_mutex | NoLostWakeup, WaitListsMatch, MutexOwnership, PriorityExact, DirectInheritance | pass, 0.5 million states |
| sync_objects | NoLostWakeup, ResultMatchesOwnership, AssertionsHold | pass, 1.4 million states |
| thread_manager | ReadyQueueExact, ChainSorted, AlarmsMatchWaits, OneRuns, NoStarvationBehindWorse | pass, 22 thousand states |
| core_one | ArbiterListExact, OrderKept, SleepHasWaker, OneWakeupOnItsWay, QuietWhenNoAsync, FailureExplained, SleepsEnd | pass, 154 thousand states |
| system_loop | NoEventInsideSlice, ClocksTogether, HostEventInTime, RequestAnswered, EventsFire | pass, 471 thousand states |
| sessions | RequestTracked, SessionsCounted, NoLostWakeup, ImplementsRequests, RequestsTaken | pass, 200 thousand states |
| multiplayer | MembersExact, JoinAssert, ListConverges, MembershipAgrees, JoinAnswered, LeaveEnds | pass, 200 thousand states |
| inversion | NoPriorityInversion | violated |
| duplicate_handles | AcquiresWhatIsAvailable | violated |
| self_wait | WaitingListsHoldWaiters | violated |
| yield | YieldGivesTurn | violated |

What the violations show:

* *inversion*: `thread.h` says the inheritance of priorities prevents priority inversion. It
  does so for one step only (DirectInheritance holds): when t1 waits for a mutex held by t2,
  and t2 waits for a mutex held by t3, t2 rises to the priority of t1 but t3 does not.
* *duplicate_handles*: a wait_all list that names a one-shot event twice passes the check that
  everything is available and then fails the assertion in the second `Acquire`.
* *self_wait*: a thread may wait for its own handle. If its process is terminated, `Stop`
  marks it Dead and wakes its waiters while it is still one of them, and the assertion about
  waiting lists fails. The other runs exclude this wait (`SelfWait = FALSE`).
* *yield*: the comment in `svcSleepThread` says that a reschedule is exactly a yield; a Ready
  thread of the same priority never gets the CPU from it, because PopNextReadyThread only
  looks for strictly better ones.

The type invariants of the modules other than HandleTable hold on the same instances and are not
listed again as properties of the runs; all of them are proved.

What the passing runs show beside the properties themselves: several are stated with the
exception the code makes, and TLC reaches each exception.

* A thread killed in WaitArb stays on the arbiter's list; the next signal fails the assertion
  "Inconsistent AddressArbiter state". A host task that outlives its killed thread makes
  `wakeup_callback_table.at` throw, and its operation counts as pending for ever. A timed waiter
  of an arbiter that was closed calls back into it. FailureExplained does not say that these
  cannot happen: it says that nothing else fails among the assertions above, and that each of the
  three needs its kill or close.
* A boost may outlast its cause. `Mutex::Acquire` records the priority its new holder has at that
  moment (mutex.cpp:62), a boost included: a thread that is boosted through one mutex, takes a free
  one and releases the first keeps the boost until the second is released or somebody has
  waited for it. PriorityExact says what is true: a mutex with waiters gives its holder the priority of the
  best of those who wait now, and a thread that holds nothing is at its nominal priority.
* A host event is in the event queue before its time (HostEventInTime), as the comment at
  core_timing.cpp:82 wants, when the host thread pushes it right after it has read the clock. One that is preempted in
  between may push an event whose time has passed; it fires at the next Advance (EventsFire) and
  inside no slice (NoEventInsideSlice).
* UnscheduleEvent does not look into the thread-safe queue (its TODO). A change of the CPU limit
  from another core can therefore leave two chains of ticks; OnTick ignores `active`, so both
  go on; threads still wake (SleepHasWaker, SleepsEnd). A thread the limiter remembers that has
  since called svcSleepThread may be woken early.
* `is_timer_sane` is not saved. After a load the first Advance takes a started slice for the end
  of one, so the clocks may differ by two slices instead of one (ClocksTogether).
* A second signal of the same kind overwrites the slot number of the first. Reset does not
  clear a pending savestate operation.
* Closing an end of a session wakes none of its callers (the TODO in `~ServerSession`). A reply
  does not wake a second server thread that waits on the same session although a request is
  pending; the replying server finds it when it receives again, so requests are still taken
  (NoLostWakeup, RequestsTaken), unless it is stopped before. Sessions are accepted and requests
  taken newest first, and a server looks at its handles in order, so a request may starve as long as
  clients keep connecting and asking: RequestsTaken is about what happens once they are quiet. A
  reply to a client that was killed leaves it dead (ImplementsRequests).
* Leave may be undone by the loop thread (`undone`), `send_list` survives a Leave so that a stale
  JoinRequest can be sent over the next connection, and a connection lost while Joining is not
  reported (JoinAnswered and LeaveEnds name these cases). A closing room tells its members only;
  a player whose request is in flight learns it by the timeout.

### Bounds

* handle_table: 3 slots, generations 1..4, 2 objects. The table fills, slots are freed in every
  order, and the counter wraps while handles of the last turn are open. SlotWidth 4 leaves
  slot numbers beyond the table, as the 16 bits of the code do.
* thread_manager: 2 threads, 3 priorities: priorities are linked in every order (between two,
  in front, at the end) and two threads share a queue.
* sync_mutex: 3 threads with 3 priorities on 2 cores in 2 processes, 2 mutexes (`MaxLock` 1: no
  recursive locking), single waits and the list <<m1, m2>> for any and all, svcSetThreadPriority
  to the middle priority (so that it raises and lowers). Enough for chains of two holders, for
  a cycle of waits and for a kill that releases two mutexes to different waiters.
* sync_objects: 2 threads of one core and one object of every kind; recursive locking up to
  `MaxLock` 2, a semaphore of 2, a pulse event and a one-shot timer, periodic or not.
* `MaxLock` bounds only a mutex the caller already holds; a wait for somebody else's mutex is
  never cut off.
* core_one: an application thread and a system thread of one priority in processes of their own,
  two addresses, at most one change of the CPU limit (`MaxUpdates`) besides the launch, from core
  1 or another core. Two threads are enough for order among equals, for a kill during a wait
  next to a survivor that signals, and for both sides of the time limit; one change reaches the
  double chain of ticks.
* system_loop: 2 cores, slices of 2 ticks, `MinDelay` and `Overshoot` 1, a periodic event, and
  one event that guest and host schedule at once or 3 ticks ahead (beyond a slice), one slot,
  one load (`MaxLoads`). Both sides of every comparison of RunLoop occur: a core behind by more
  and by no more than `MinDelay`, an event inside and beyond the slice, a slice cut short. The
  number of loads is a counter and therefore bounded; the three invariants also hold with four.
* sessions: 3 clients, 2 server threads, 2 sessions, two places at the port of the server and one at that
  of the HLE service, so that both ports are full at times, two sessions wait to be accepted, two requests
  wait behind one that is handled, and two servers share a session. Two of the clients and one server may be
  stopped (`Mortal`; with all five the properties hold too, in twice the time). A session that
  has lost both ends is used again, so runs are of any length.
* multiplayer: a host and a guest, 2 slots, 2 connections per player at a time (`MaxLinks`, so that
  an old connection and a new one coexist), and 2 joins or moderation requests (`MaxCalls`) after
  the host has joined. Enough for Join, Leave, Join over a stale connection, and for a kick or
  ban that races a join. The connection that may break is the guest's (`Unreliable`): the host of this run
  is in the process of its room. The proofs are for any set of players with such connections, so for
  a dedicated room as well.
* core_one, sessions and multiplayer do not check deadlock: programs may exit, callers may
  be orphaned, and a room may close.
* KernelSync's runs do not check deadlock: programs can exit all their threads, or deadlock
  themselves with two mutexes, which is theirs to avoid.

### Fairness

Nothing is assumed about the emulated programs, about who signals a blocked thread, or about users.

* ThreadManager: weak fairness of `Reschedule` and of the delivery of a due wakeup event. Each
  pass of `System::RunLoop` (core.cpp:235-246) runs a slice of every core, advances its timer and
  reschedules, so neither can be put off for ever.
* CoreOne: weak fairness of every pending wakeup callback and limiter tick, for the same reason,
  and of the end of a host task (a blocking operation returns).
* SystemLoop: weak fairness of `RunLoop` (the emulation thread calls it in a loop) and strong
  fairness of `Clock` (five seconds pass; the step is looked at only at the top of a pass). The
  liveness properties assume that the front end stops sending signals (`Quiet`), because each
  signal ends its pass early.
* Sessions: a server thread that can accept a session or receive a request does one of these in the end,
  any of them (weak fairness of the choice, per thread; svcReplyAndReceive takes the first handle that
  is ready, in an order nothing is assumed of), and a server closes a session it is told is closed.
  Clients, replies and other closing are free. RequestsTaken assumes that clients go quiet (`Quiet`).
* Multiplayer: weak fairness of each player's loop thread together with the return of Leave, and
  of the room's thread. The users, breaking connections and Room::Destroy are free.

## Proofs

All proofs hold for every value of the constants that satisfies the named assumptions of the
modules: any number of threads, clients, cores, players and connections, any table, queue or
slice length. The assumptions say no more than the code does: sizes are positive, "no thread" and
"no object" are not threads or objects, there are finitely many kinds of events
(`TimingAssumption`), the host is a player (`RoomAssumption`). TLC evaluates them in the runs, and
every inductive invariant below was model-checked before it was proved.

* `QueueLemmas`: what append, prepend, removal, filtering (`Kept`) and concatenation do to a
  sequence without repetitions and to its set of elements (`Holds`) and to the order of two
  elements (`Precedes`). `SetInduction` is induction over the naturals, for a set instead of
  a predicate: it follows from the well-foundedness of < alone, and it is how `Kept` and the bounds
  of finite sets of times are reasoned about.
* `ThreadManagerProofs`: TypeCorrect, ReadyQueueCorrect, ChainCorrect, AlarmsCorrect and
  OneRunsCorrect. None is inductive alone: Reschedule keeps "only the current thread runs" and
  "no event for a running thread" only because what it finds in a queue is Ready
  (ReadyQueueExact), and it keeps the queue exact only because a running thread is in no queue.
  Their conjunction `IInv` is inductive. `PrepareKeepsOrder` is the proof of
  `ThreadQueueList::link`: inserting a priority between its neighbours keeps the chain sorted.
  `NextIsReady` shows that the branch of SwitchContext for a thread whose status changed during
  scheduling cannot be taken, as long as only the emulation thread touches statuses.
* `HandleTableProofs`: TypeCorrect, FreeListCorrect, NoEarlyReuseCorrect and the refinement
  MapRefined. The free list is carried as `Threaded` (links follow the sequence `free`) and `Holds`
  (the sequence lists the free slots). NoEarlyReuse needs the strengthening `WindowExact`: the i-th
  remembered handle carries the generation the counter had that many creations ago on a wheel of
  MaxGen - 1. For the refinement, `PackedHandle` and `SameHandle` show that packing slot and
  generation loses nothing while a slot fits its bits, so that what a handle denotes changes only
  for the slot an operation touches; the map has room exactly when the free list is not empty.
* `CoreOneProofs`: TypeCorrect, ArbiterListCorrect, ArrivalOrder, SleepersAreWoken, WakeupsCounted,
  SavestateIsQuiet and FailuresAreExplained. The strengthening looks at one thread at a time: which
  callback goes with a status (CallbackInv), that at most one wakeup is on its way and for whom
  (WakeupInv), and that a thread's manner of death is remembered only when it is dead (DiedInv).
  The arbiter's list, the count of async operations (the cardinality of the threads that asked and
  were not resumed) and the limiters (the active mode has a tick) rest on it. SleepHasWaker and
  FailureExplained are inductive relative to these.
* `SessionsProofs`: TypeCorrect, PlacesCorrect, NoLostWakeupCorrect, RequestsTracked and the
  refinement RequestsRefined. A request is held by one session, as pending or as the one handled,
  and only while both ends are open (SessionInv, ClientInv); a server thread that sleeps waits on
  open sessions (ServerInv). From that every step of `Sessions` is a step of `RequestReply` or
  leaves its variables alone. Any set of threads may be stopped.
* `MultiplayerProofs`: TypeCorrect, MembersCorrect, JoinAssertHolds, ListsConverge and
  MembershipAgreed. The properties speak of the moment a packet is handled, so the invariant speaks
  of packets on their way: an answer that lets a player in is preceded by a list with its name
  (Promises), and the last list under way is the room's (Latest), unless the connection is known to
  end. An end of a connection that is gone has told the other (LinkInv), and a player has at most
  one open connection, and only while its loop thread runs (PlayerInv).
* `SystemLoopProofs`: TypeCorrect and EventsInTime. NoEventInsideSlice is not inductive: the slice
  of a core that is behind is cut in the first loop of RunLoop and used after all other cores have
  advanced. The invariant `PickInv` says that the core picked so far is one already passed, that
  no event of it comes before the end of its slice, and that there is one if any passed core is
  behind, so RunLoop never dereferences a null `current_core_to_execute`. Events of other cores
  and of host threads go to a thread-safe queue, which only Advance empties.
* `KernelSyncProofs`: TypeCorrect, NoWakeupIsLost, WaitListsCorrect, MutexesOwned, PrioritiesExact,
  InheritanceDirect, ResultsCorrect and AssertionsNeverFail, that is, every invariant of sync_mutex
  and sync_objects. They are conjuncts or consequences of one invariant, `IInv`, because they hold
  each other up: the assertion in `Acquire` rests on what is available, a waiter being served
  exactly once rests on the lists, and a boost going with its waiter rests on a stopped thread leaving
  its lists before its mutexes are handed on.

  A system call is a composition of functions of the code, and the invariant does not hold between
  them. `Good(S, D, X, E)` says what holds inside one: D is the thread that is being stopped (Dead
  but still in lists and holding mutexes), X the object whose waiters are being woken (some of them
  could have it), E the mutexes whose priority is about to be recomputed. `IInv` is Good with all
  three empty. Its parts: waiting lists and wait_objects agree (ListInv), they fit the status
  (FitsInv), owners (MutexInv), priorities (PrioInv), what is known of the answer in each status
  (AnswerInv), nobody could have what he waits for (AvailInv), mutexes are as urgent as their
  simple waiters and no more urgent than the best of them if all are simple (InheritInv), and counts
  (CountInv). A lemma ending in Keeps takes one function
  from a Good state to a Good state with other parts suspended: `WokenKeeps` for the thread that is
  served, `StopKeeps` for Thread::Stop, `BlockedKeeps` for the waits.

  A loop is a function of the number of turns done; `LoopExists` gives its equations and
  `LoopInduction`, from `SetInduction`, an invariant of all its turns. The heart is `WakeAllKeeps`: each
  turn that serves somebody shortens the waiting list, so after as many turns as the list was long
  nobody who is left can be served (`Quiet`), and X may be dropped again. Serving a thread that waits
  for all takes other objects too, which can only make more objects unavailable.

  The theorems have one hypothesis, `WellUsed`: no thread waits for its own handle, and a list given to
  svcWaitSynchronizationN is not empty and names an object once. Without the first two parts the
  assertions do fail (the runs self_wait and duplicate_handles). With an empty list and wait_all
  FALSE the thread sleeps for ever with nothing to wait for; the code says so itself
  (svc.cpp:928), and WaitListsMatch is not meant for it. `MaxLock` may be anything: the bound
  on recursive locking plays no part in the proofs.

Only model-checked, and why:

* liveness (NoStarvationBehindWorse, SleepsEnd, RequestAnswered, EventsFire, RequestsTaken,
  JoinAnswered, LeaveEnds): the prover has no rule for fairness and ENABLED;
* ClocksTogether and HostEventInTime: their bounds are those of two cores and an overshoot shorter
  than a slice, which is how the code uses them (`MAX_SLICE_LENGTH` is over a million ticks, an overshoot far below that). They
  are not theorems for all values of the constants: TLC finds a violation of the first with an
  overshoot longer than a slice, and of the second with three cores that each overshoot by half a
  slice.

## Not modelled, and simplifications

* Handles of system calls, resource limits, TLS slots, thread contexts, logging.
* WaitIPC, WaitHleEvent and WaitArb in KernelSync; in ThreadManager they are "Blocked". CoreOne and
  Sessions model them.
* The index that WaitSynchronizationN returns (`GetWaitObjectIndex`).
* Negative release counts of semaphores; initial counts other than 0; initially locked mutexes
  (the same as locking them in the next step).
* Time: a delay is zero or positive and a pending event may be due at any moment, which
  includes every order that real delays can produce.
* The CPU limiter's `continue` in PopNextReadyThread is in CoreOne (core 1 only), over a ready
  queue without its chain; the lengths of the limiter's phases are left out.
* Address arbiter: the memory words. A program may store into them at any time, so whether a wait
  finds its condition true is a free choice. The AddTicks of a signal that wakes nobody is left out.
* Core timing: clock scaling, RemoveEvent, the order of events of one tick, nanoseconds. A periodic
  kernel timer of less than 4 ns has 0 cycles and keeps Advance in its loop; `Interval` is
  positive here.
* System loop: what a savestate contains beyond the timers, loaders, gdbstub, movie playback.
* IPC: command buffers and their translation (errors of which are unimplemented in the code),
  named ports, the IPC recorder. A server waits on all its sessions and its port.
* Resource limits: Reserve and Release are counters that log an excess and never refuse it; only
  what drives the CPU limiter is modelled.
* Multiplayer: wifi, chat, status, game information and ZipPass packets, verified usernames (bans
  are by address), several players behind one address (a ban removes only the named one), the
  unlocked reads of member_information by user interfaces, and Leave without a loop thread, which
  dereferences a null pointer; the front ends call it in a room only.
* VM manager and regions: sequential interval maps without a hazard that depends on order. CPU
  emulation, video, audio, file systems, loaders, services, front ends: numerical or I/O code, or
  code whose interaction with the kernel is the sleeps and sessions above.

## Plan

1. Done: `HandleTable`, `KernelSync`, `ThreadManager`, first proofs.
2. Done: `CoreOne` (arbiter, CPU limiter, HLE requests), `SystemLoop` (timers, signals, savestates),
   `Sessions` with `RequestReply`, `Multiplayer`.
3. Done: proofs for CoreOne, Sessions, Multiplayer, SystemLoop and the two refinements.
4. Done: proofs of all invariants of KernelSync, with its loops as recursive functions.
5. Not planned: the VM manager, RemoveEvent, and the other packets of the rooms.
