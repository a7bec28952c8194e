# RV-9: models, checks and proofs

RV-9 is a small operating system for RISC-V microcontrollers. It has a kernel of
its own (`components/rv9_kernel`) that runs inside one task of a host kernel
(FreeRTOS), an abstraction layer over both (`rv9_kal`), processes
(`rv9_proc`), modules (`rv9_module`) and an I/O system of managers and drivers
(`rv9_io`). This directory holds TLA+ models of its concurrent and failing
parts, the TLC configurations that check them, and proofs of their main
invariants for TLAPS.

    tlc -workers 2 -config KernelLives.cfg MCRvKernel     # check one instance
    tlapm RvKernelProofs.tla                              # check one module's proofs

Short names below: `sched.c` is `components/rv9_kernel/src/sched.c`, `kernel.h`
its header, `kal_rt.c` is in `components/rv9_kal/src`, `proc.c` in
`components/rv9_proc/src`, `module.c` in `components/rv9_module/src`, `logring.c`
in `main`, `shell.c` in
`modules/shell`, `drv_ssh.c` and `ssh_trans.c` in `components/rv9_ssh/src`, and `io.c`, `claim.c`, `pipefm.c`, `pfm.c`, `rbf.c`, `nfm.c` and the
drivers in `components/rv9_io/src`.

## 1. Inventory

| Component | State it keeps | Operations | Hard because |
|---|---|---|---|
| Kernel scheduler, `sched.c` | thread table, `s_current`, notes ring, tick, scheduler lock; semaphores, mutexes and queues with their wait lists | create, exit, kill, stop, release, sleep, yield, take/give, lock/unlock, send/receive, gives from interrupts, set/boost priority | interrupts between a check and the block it leads to; deadlines racing gives; ending a thread that is on a list; stacks freed at a switch |
| Kernel heap, `heap.c` | a list of blocks | alloc, calloc, free | a split or a merge that leaves one of two links behind |
| Locks for every context, `kal_rt.c` | host mutex, noted holder, `boosted`, per-thread `holds` and `boost` | acquire, release, destroy | host tasks pre-empt between any two steps; a boost must be neither lost nor left behind; a stop must not orphan a lock |
| Events, release clock, watchdog, `kal_rt.c` | counts and backlogs, release slots, deadlines | wait, signal, release, overrun, stop | a stop or a signal racing the draining of releases; lateness of several periods; stopping a task that missed |
| KAL, `kal_native.c`, `kal_freertos.c`, `kal_mem.c` | mostly a mapping of calls; memory classes and their floor | tasks, semaphores, timers, allocation | the floor's check and the allocation are two steps |
| Processes, `proc.c` | descriptors, numbers, history, budgets, holds | fork, exec, chain, exit, kill, wait, prune | a parent stopped inside fork; descriptors forgotten under those who look at them; who buries the killed |
| Real-time admission, `proc.c` | per process interval, execution time, placement | admit, place, declare, run | each admission moves others; an analysis that is short by one release admits a loop that misses |
| Module directory, `module.c` | entries with links, revisions and images | scan, load, link, unlink | the directory is searched without its lock; images come and go under links |
| I/O manager: paths and sessions, `io.c` | devices, paths, sessions | open, close, dup, read, write, hang up | nothing is held while a driver opens, drains or waits; sessions end under the calls of others |
| I/O manager: claims and failsafes, `claim.c`, `io.c` | claims by device and owner, promises | open, reserve at fork, inherit, close, exit, park | an exit hook in four steps, each of which others may come between |
| Pipes, `pipefm.c` | rings with counts of readers and writers | open, close, read, write | "no writer yet" and "no writer any more"; names used again; waits at a full or empty ring |
| Publications, `pfm.c` | sequence-locked cells, waiters | reserve, publish, observe, wait | readers race writers without a lock; a stale give ends a wait |
| Block files, `rbf.c` | sectors, bitmap, descriptors, paths | format, mount, open, create, write, close, remove | power lost between two writes; a path's own copy of a descriptor |
| Flash disk, `drv_flashdisk.c` | a cache of erase blocks | read, write, flush, evict | an erase, a write or a read that fails in the middle of an eviction |
| Network manager, `nfm.c` | listeners, connections | open (in and out), close | listeners outlive connections, by a grace |
| Network driver, `drv_net.c` | the link, its retries, the network remembered | ask, try, forget, disconnect; events; the watch | events that are late, or never come |
| Log, `logring.c` | lines deferred from real-time context; a ring of bytes | log, flush, read | written from every context |
| SSH driver, `drv_ssh.c`, `ssh_trans.c` | keys, a login, one channel with two windows, bytes to read and to say | open, read, write, close, hang up | credit counted on both sides, keys that change per direction, an end that must not overtake the last bytes |
| Shell, `shell.c` | its paths, parked and pointed elsewhere; variables, control words | run, pipeline, capture | an open takes the lowest slot; a pipe end kept is a writer that never ends; any open or fork fails |
| GPIO, audio and other drivers; SCF, PIO, IFM | per-driver | per-driver | protocols and hardware; little state shared inside RV-9 |
| Console, raster, panels, speech to text, other commands | private | private | sequential computations and programs over the rest |

How they meet: processes call the I/O manager and the KAL; the KAL calls the
kernel (or the host); drivers on host tasks give semaphores to threads; the
process layer watches kernel threads end and *releases* the corpses of those the
kernel stopped; the I/O manager closes a dead process's paths for it and parks
what it drove; a fork links a module, reserves devices and cells by the module's
manifest, and is charged to its ancestors. The shared state at each boundary is
what the abstract specifications describe, or what a model carries of the
component beyond it: `RvProc` has the thread slots of the kernel and the links
of the module directory, `RvClaims` the paths of the I/O manager.

What makes each correct is stated with its properties in section 3.
`PROJECT.json` lists the components with their status and the hazards, each at
its line with the properties that would catch it.

## 2. Modules

| Module | Models |
|---|---|
| `RvKernel` | `sched.c`, all of it that changes state |
| `RvThreads` | what the layers above rely on of the thread table (abstract) |
| `RvKernelProofs` | types, priorities, bands; the inductive invariants, and that `RvKernel` implements `RvThreads` |
| `RvHeap` | `heap.c` |
| `RvLock` | `rv9_lock_t` of `kal_rt.c` against threads and host tasks |
| `RvRelease` | real-time tasks, the release clock, events, stops and the watchdog |
| `RvProc`, `RvProcProofs` | the process table, for ordinary processes |
| `RvAdmit`, `RvAdmitProofs` | admission, response bounds and placement, with the processor they are about |
| `RvModules` | the module directory |
| `RvSession` | paths, sessions and hangups of `io.c`, over a driver shaped like `drv_ssh.c` |
| `RvSessionProofs` | proofs about those, about a session of ssh and about the shell |
| `RvClaims` | `claim.c` and the hooks of `io.c` at fork and exit |
| `RvServicesProofs` | proofs about services that share no state: locks, the heap, claims, releases, network paths, modules, files, the flash disk, the log |
| `RvLemmas` | finite sets of numbers, counts and sums, for those proofs |
| `RvPipe`, `RvPipeProofs` | `pipefm.c` |
| `RvChannel` | what a named pipe promises (abstract) |
| `RvPublish`, `RvPublishProofs` | `pfm.c` |
| `RvFile` | `rbf.c` |
| `RvFlash` | `drv_flashdisk.c` |
| `RvListen` | listeners and connections of `nfm.c` |
| `RvLink` | keeping the link, in `drv_net.c` |
| `RvLog` | deferral and flush of `logring.c` |
| `RvSsh` | a session of `drv_ssh.c` with its client, from key exchange to close |
| `RvShell` | what `shell.c` does with its paths for a command line |
| `MCRv...` | instances for TLC |

Each component's module has one action per operation, or per part of an
operation that others can come between; the module's head says where those
points are. Definitions under a comment "Bug:" are plausible faults of the
definition below them. No specification uses them; the mutants of
`PROJECT.json` put one in its place to see that the property fails.

Components that share no state are checked in one run: `MCRvServices` chooses
at the start of a behaviour which service it is of, and the others stand still.
The set of behaviours is the union of those of the services, not their product.
`MCRvFair` does the same with the kernel and the network driver, for what must
happen in the end; there the fairness of each is asked for only in the
behaviours that are its own. `MCRvLock` chooses a cast (which threads and host
tasks take part, whether locks nest), `MCRvSession` a world (what may happen
beside the calls), and `RvFile` what else `happens`.

### RvKernel

`state`, `blockedOn`, `timer`, `base`, `age`, `boost`, `eff`, `seq`, `fault`,
`holds`, `cancel` and `stack` are fields of `struct rv9k_thread`; `waitq` and
`count` are the lists and counts of semaphores, mutexes and queues; `pend` is
the notes ring of `pend_wake`. `pc`, `want` and `limit` say where a thread is
inside the kernel. `rv9k_sem_take` is `Take`, `BlockOn`, `Reschedule` and `Woke`,
because the interrupt mask is given back between the check and the push, and
because a switch lies between the push and the second look. Interrupts
(`GiveFromIsr`, `Tick`) are possible in every state. A message queue is two wait
queues that are each other's `Partner`: taking an item leaves room.

Abstractions, by name. Deadlines count down rather than being compared to a
32-bit tick. `seq` is a rank, not a counter. Queue contents are not modelled,
only their number. The rule that nobody waits with the scheduler locked
(`MayWait`) and that nobody ends holding a mutex (`MayEnd`, lifted for
`Careless`) are the callers' obligations stated in the headers. `crashed` means
that a stale stack pointer was loaded, or a list entered twice; the code has no
behaviour after that, so the model stops, which is why configurations with
deadlines or interrupts turn deadlock checking off.

### RvHeap

A block is named by the address of its header; sizes, alignment, split and merge
are the code's arithmetic, with numbers that wrap at `Word`. What a user writes
past the end of its block, and a free of what was not given, are outside.

### RvLock

The guard `s_lock_guard` makes `Own`, `Contend` and `Release` indivisible; the
mutex, the reading of a holder and the boosting of it are steps of their own.
RV-9 threads are all in one host task, so one runs at a time (`cpu`) and another
takes over only where a thread sleeps or calls the scheduler; `Tasks` are
pre-empted anywhere.

### RvRelease and RvAdmit

`RvRelease` is one task at a time: interrupts of the clock and of events come
between any two of its steps, time passes in units, and the watchdog flags, then
seizes. `outlived` is not in the code: it notes that an activation ended past
the deadline of the release it served, which the code judges by its own count.
`RvAdmit` has the analysis (`response_bound`, `place_rt`) as operators, the
placements as state, and beneath them a processor that runs what is owed slice by
slice at two priorities: the analysis is checked against what then happens, not
against another analysis.

### RvProc

A descriptor is a record of the fields of `rv9_proc_t`; `list` and `ended` are
the two lists it is on; an `Actor` is a thread slot, or the boot task. Stretches
under the table's lock are one action; between them anybody runs, and a process
may be stopped (`StopsAt`). What it then had in hand goes to `lost`: the
properties count it, because the code never gets it back. Of the kernel it has
the slots with `RvThreads`' life, of the module directory the counts of links. A chain
is three actions, because the code gives the old module back without the lock and
then waits for the lock to name the next: `ChainLinked`, `ChainSwapped`, `Chained`.

### RvModules

The scan, `rv9_mod_register_image`, `rv9_mod_link` and `rv9_mod_unlink`. A link
looks the name up without the lock and takes its link under it: two actions.
Images are named by where they are: in the store, in a block, or nowhere.

### RvSession and RvClaims

`RvSession` follows the I/O lock: what `io.c` does under one hold is one action,
and the driver's `open`, `close` and each call of `read` or `write`, made with
nothing held, are points others come between. `busy` counts the calls between
`session_enter` and `session_leave`. `then` is where the shared `dev_last_close`
returns to.

`RvClaims` has a claim per device and owner, and paths by opener and copy with
the set of processes that have them, so that an inherited path is one path of
two processes. The exit hook is four steps: what was promised is noted, paths are
closed, reservations given back, actuators parked.

### RvPipe, RvChannel and RvPublish

Each look a reader or writer takes at a pipe is one hold of the device's lock and
one action; between two looks anything happens. `RvChannel` knows names and
contents only: which bytes of which writer are under a name, in their order, with
`sent` to say that a write goes on where its last piece ended. The mapping reads
the ring as a sequence from `head`.

A publication has no lock: each access to `seq`, to one of the two words of a
value, to `armed` and to a waiter's semaphore is an action. The opens, closes and
reservations take the device's lock.

### RvFile and RvFlash

`RvFile`: a call is one action, since it holds the mount's lock; a failed write
and a power cut are alternatives of it, and a format is its writes one by one. Which
of them may fail is chosen at the start (`happens`): bits, data and the descriptor of
a close (`"fail"`), or the write that comes after an entry's or a file's first
(`"tear"`), each of which is given up on its own. In `MCRvServices` a volume is
followed no further than until one name is torn. Reads of the directory do not
fail: the code takes that for a name that is not there.
`fd` of a path is its own copy of the descriptor. `RvFlash`: values are sets of
bits, so that writing without an erase clears and never sets; `written`, `fresh`
and `torn` note what the code does not, what was last written and what is at
risk.

### RvListen, RvLink and RvLog

`RvListen` has the table of listeners with its grace, and a path per daemon.
`RvLink` has one action per handler on the event task; a `setstat` from a process
is taken apart where another task could run. The radio (`esp_wifi`) is external:
it is idle, trying, stuck, joined or leased, and its events are posted in order.
`RvLog` has the steps of a flush, between which real-time tasks defer lines.

### RvSsh and RvShell

`RvSsh` has a step per packet read and what is done about it, because the driver
runs from one read of the connection to the next with nothing between but writes.
`phase` is how far `ssh_open` has come, then `"shell"`, then the steps of
`ssh_close`; `chan` and `pend` are the fields of `ssh_t`; a call that waits for
credit in the middle of `ssh_send_data` keeps what it has `left`. The connection is
a sequence of packets each way, and may break at any step. The client is external:
it guesses a key exchange rightly or wrongly, tries logins, opens channels, types
within its credit, shows what it hears, and leaves by itself or when its channel
closes. `flow` counts what the code does not: bytes said, not said and lost.

`RvShell` has the shell's path table as a function from slots, with `open`, `close`,
`dup2` and the inheritance of a fork as `io.c` has them, and one action per stage
of `run`, `run_pipeline` and `capture`; any open and any fork may fail. A child
that reads by a pipe leaves when nobody writes by it any more.

## 3. Runs

| Run | Instance | Distinct states | Properties |
|---|---|---|---|
| `kernel_waits` | 3 threads, 2 priorities; semaphore, nesting mutex, message queue of one item; waits without deadline or of one tick | 1.28 M | `NoLostWakeup` |
| `kernel_lives` | 3 threads, semaphore given by an interrupt, mutex; sleeps, kills, stops, releases, creates; a notes ring for one note | 1.22 M | `KernelInv`, `MutexHasLivingOwner`, `ImplementsThreadTable` |
| `kernel_priorities` | 3 threads of priorities 0, 1, 2 of 3, a semaphore; aging by one, boosts, sets; one that overruns, one killed, one stopped, asleep or not | 2.45 M | `EffectiveIsEarned`, `BandsHold`, `DeadStayOff` |
| `kernel_fair` | 2 threads of `RV9_PRIO_HIGH` and `RV9_PRIO_LOW`, with the real `RV9K_AGE_MAX` (8 k); or the network driver, 2 networks of which one answers, 2 requests (279 k) | 0.29 M | `DeadlinesEnd`, `NoStarvation`, `LinkComesBack` |
| `pipe` | 2 ends that may each be both, 2 names, 2 pipes of 2 bytes, calls of 3 bytes, one end asked to stop | 0.44 M | `PipesHaveEnds`, `ImplementsChannel`, `EndsAreHeard` |
| `session` | 3 processes, 2 paths, 2 sessions; three worlds: calls that leave, calls cut off or stopped inside, and last closes as well | 1.44 M | `NothingFreedInUse`, `CallsReachTheirOwn`, `NothingLost`, `DeviceAccounted`, `HangupEnds` |
| `proc` | 3 descriptors, 2 threads and the boot task, 2 modules, pids to 3, a history of at most 1; 2 forks with stops everywhere and chains, 4 without | 1.85 M | `RefsAreHolds`, `Accounted`, `LinksAreHeld` |
| `services` | one of thirteen, below | 0.84 M | below |
| `kernel_stale_load` | 2 threads, a semaphore given by an interrupt | violation | `LoadsSavedContext` |
| `session_reopened` | 2 paths, with last closes | violation | `SessionBehindPath` |
| `proc_chain` | 1 module; a chain refused after the old module was given back | violation | `CodeIsLinked` |
| `file_half_formatted` | power cuts within a format | violation | `MountedIsWhole` |

The services, each with its own properties:

| Service | Instance | Distinct states | Properties |
|---|---|---|---|
| locks | 5 casts: 3 threads, or 2 threads and a host task, on two locks, nesting or not; 2 threads and 2 host tasks on one lock; stops | 0.08 M | `NoOrphanLock`, `LoansLast` |
| claims | 2 processes, 2 devices, 3 manifests, inherited paths | 66 k | `ClaimsHold`, `LeftAsPromised` |
| publications | 3 writers, of which one is not declared, 2 observers that wait, one of them taking snapshots, 1 cell, 1 waiter's slot, 2 publications | 0.26 M | `SnapshotsAreWhole`, `OneWriter`, `NoSleepThroughChange` |
| releases | a loop of period 2 and fatal deadline 1, or an event's handler; 8 units of time, a backlog of 2 | 22 k | `ReleasesKept` |
| admission | 3 processes of 4 programs, 2 priorities, to any hyperperiod | 138 k | `DeadlinesAreMet` |
| files | 8 sectors, 2 names, 2 paths, 2 segments; truncation, with seeks or without, or failed writes and power cuts, or a name torn from its descriptor | 153 k | `SectorsHaveOneUse` |
| flash disk | 2 blocks of 2 sectors of a bit, 1 slot, failures, a power cut | 6.9 k | `ReadsWhatWasWritten`, `OnlyFreshAtRisk` |
| log | 2 tasks that log, a ring of 4, 6 deferred lines | 15 k | `NeverSilent` |
| heap | 39 bytes, 5 requests | 12 k | `HeapInv` |
| modules | a store of two and a bad one, 2 newcomers, 3 linkers, 2 blocks | 7 k | `ImagesAreHeld` |
| listeners | 2 daemons, 3 ports, 2 listeners, 4 sockets, a grace of 2 | 58 k | `ListenersLast` |
| ssh | 4 clients: one that logs in thrice, one that makes three requests, one that types four bytes, one with a window of a byte; a window of 2, packets of 1 | 73 k | `SessionAgrees`, `HeardToTheEnd` |
| shell | 4 tables, 12 slots, pipelines of up to 4 stages with and without redirections, in the background or not | 3.9 k | `ShellLetsGo` |

What the properties say, the deeper ones in a sentence each. `NoLostWakeup`: no
unit of a count lies beside a sleeping waiter that nobody is about to wake.
`KernelInv`: lists, states and places in the kernel agree. `ImplementsThreadTable`:
a thread slot's life goes as the layers above are promised. `BandsHold`,
`NoStarvation`: aging lifts far enough, and no further. `LinkComesBack`: a board
that wants a link gets one, and the driver does not claim one it has lost.
`ImplementsChannel`: bytes under a name come out once, in order, before the end
of file. `CallsReachTheirOwn`: a call inside a driver has its own session in hand.
`DeviceAccounted`: what decides first, last and refused is a count of what is
there. `RefsAreHolds`, `Accounted`, `LinksAreHeld`: a process's holds, charges and
links are those of whoever has them, whoever was stopped where. `LeftAsPromised`:
a device its driver promised to park is parked. `SnapshotsAreWhole`: an
observation is one publication. `DeadlinesAreMet`: what was admitted meets its
deadlines when it runs. `SectorsHaveOneUse`, `ReadsWhatWasWritten`,
`OnlyFreshAtRisk`: no sector is two things, a disk is a disk, and what a power cut
takes is what it is said to take. `NeverSilent`: a line deferred is printed or
counted. `ImagesAreHeld`: an image stays while anybody runs in it.
`ListenersLast`: a port answers between one connection and the next.
`ClaimsHold`: who owns a device does so for a reason that is still there, and alone
where it was promised alone. `ReleasesKept`: no release, stop or event is slept
through, and a task that missed works no more. `DeadStayOff`: a thread that overran
its stack stays a corpse, and no stack that was given back is returned to.
`SessionAgrees`: both ends of an ssh session count the same credit, answer what was
asked in its order, and open each packet as it was sealed. `HeardToTheEnd`: a client
that stays hears all that was written. `ShellLetsGo`: a pipeline is joined as its
line says, and leaves nothing behind in the shell.

Why the bounds are enough. Three threads are a holder, a waiter and a third that
wakes, kills or is passed over; a fourth only repeats the second. Counts and
timeouts of one reach zero, positive and limit. A notes ring that holds one note
is full at the second. A pipe of two bytes is overfilled by a write of
three, whose rest goes in as it is read, and wraps under the pieces; two pipes are
one for each name, or one and its successor under a name. Two paths are one that ended and one that replaced it; three processes are
whoever serves, a job left behind and a newcomer. Three descriptors are a parent,
a child and whoever takes memory that was theirs; a fourth fork, after three pids,
has a number that was another's.
A writer that is not declared comes where nobody watches (`ThirdUnwatched`): it is
there for who may have the cell, and what observers see of a writer the other two
show. One path of a process to a device is enough for claims to be taken, refused and
inherited; a second open of the same owner is in the proof, for any number of copies.
One waiter's slot is one that is handed on; two publications are one that is
read and one that lands meanwhile. A volume of eight sectors is full after three
files' worth; one bit to a byte makes the search for a clear bit cross bytes. One
cache slot is evicted by every other block. Two listeners are fewer than the
ports. Bounds that cap what would grow for ever are named with "bound:" in their
modules. Symmetry is used for descriptors and thread slots of `proc`, where no
liveness is checked.

Hypotheses, which are the findings' other side (section 4):

- `NoLostWakeup` needs `IsrQs = {}` and nobody stopped while woken.
- `LoadsSavedContext` needs no interrupts and no deadlines.
- `LoansLast` promises between RV-9 threads only, or where locks do not nest.
- In `RvSession`, `CallsReachTheirOwn` and `NothingLost` are about worlds in which
  calls leave, `NothingFreedInUse` and `NothingLost` about those in which a last
  close comes after a hangup, `BusyIsCalls` about those in which nobody is stopped.
- `OneWriter` and `NoSleepThroughChange` need a writer not to be stopped inside its
  copy, and the second not between taking a waiter's arm and giving to it either; and
  where one may be stopped before it has looked at every waiter, a declared cell.
- `LateIsLast`, in `ReleasesKept`, is about a task that is on its schedule.
- `DeadlinesAreMet` needs forks one by one (`OneByOne`) and a processor that owes
  nothing when the set of loops changes (`Quiet`).
- `DeadStayOff`, where threads wait, needs none to block off its stack: `NoneBlocksOffStack`
  of `MCRvKernel`, the run's `ACTION_CONSTRAINT`, keeps such behaviours out.
- `LinksAreHeld` counts links as long as nobody is stopped between the two halves of
  a chain (`LostAt({"swap"})`).
- `SectorsHaveOneUse` is not about a truncation with a power cut after it or with the
  failed close of its path, two writers of one file, the removal of an open file, or a
  format with files open. It says nothing of a volume on which an entry was written and
  its descriptor was not, or the bits of a file were cleared and its entry was not
  (`"tear"`), and nothing of sizes on one where paths were put past the end (`"seek"`).
- That nothing typed is lost, in `SessionAgrees`, is about clients with credit enough
  for what the program writes. `HeardToTheEnd` is about clients that stay, and an
  end before the three seconds are over.
- `ShellLetsGo` says nothing of a capture's input in a shell whose own is closed.
- `LinkComesBack` needs `Prompt`, `Steady` and `~MayRefuse`.

Deadlock checking is off where a bound or a crash ends a behaviour, and in
`services`, where time, publications, cuts and uploads are bounded.

### Fairness

`RvKernel`: once entered the kernel goes on, the clock ticks, and a thread in its
own code reaches a call that offers the processor again and again. The last is
what `rv9k_preempt_point` is for; a thread that never calls the kernel does
starve the rest, by design. There is no fairness on gives, so no property says
that a waiter without a deadline ever runs. `RvPipe`: a call under way looks
again, as its sleep of `PIPE_SLICE_MS` ends; nothing makes a process open, close
or call. `RvSession`: whoever is hanging up or closing goes on, and the wait of
`HANGUP_WAIT_MS` ends; a call inside the driver need never leave. `RvLink`: the
event task and the timer run, a call under way goes on (weak fairness), and an
attempt that is made again and again is answered at some time, with a link where
the network is in range and a failure where it is not (strong fairness, of the
world and not of the code). Nothing makes a lost or stuck attempt report itself:
that is what the watch is for.

## 4. What the models show of the code

Four disagreements are runs of their own and findings in `PROJECT.json`:

- **`kernel_stale_load`** (`sched.c:500`). An interrupt's give between a thread's
  push and the drain of the notes makes the thread wake itself; it is READY,
  may be chosen, and is switched to from itself through
  `rv9_ctx_switch(&prev->sp, next->sp)`, whose second argument was read before
  the first is written. It continues in a frame it has already left. A deadline
  of which the tick has come does the same (`KernelWaits`, `LoadsSavedContext`).
- **`session_reopened`** (`io.c:696`). The last close lets go of the lock before
  the driver has closed; an open admitted meanwhile establishes a session that the
  end of the drain forgets.
- **`proc_chain`** (`proc.c:837`). A chain that finds no room for the statics of
  the next module has already given the old one back, and its end gives it back
  again: another process may run in an image that nobody has linked. A process that
  is killed while it waits for the table's lock at `proc.c:843` does the same: the
  old module is given back at `proc.c:827`, the descriptor names the next only at
  `proc.c:844`, and who buries the process (`proc.c:951`) gives the old one back
  again, and the next never. `Proc` with `ChainEnds` as it is and the first part of
  `LinksAreHeld` without its condition shows it.
- **`file_half_formatted`** (`rbf.c:240`). Power lost between the identification
  sector and the reservations leaves a volume that passes its magic check with its
  own sectors marked free, which the comment at `rbf.c:232` says it cannot.

Others were met with the same models, and are reproduced by changing a constant of
a configuration and checking the property named:

- `KernelWaits` with `IsrQs = {s}`: `NoLostWakeup` fails. An interrupt's give falls
  between the look at the count and the push onto the list, where nobody is yet
  to be noted (`sched.c:864`), against "a thread about to block never blocks"
  (`sched.c:79`).
- `KernelWaits` with `Stoppable = {2}`: `NoLostWakeup` fails. The one woken is
  stopped before it runs, and the count it was to take stays up beside the
  sleepers.
- `KernelWaits` with `MayOverrun = {2}`, or `KernelPriorities` without its
  `ACTION_CONSTRAINT`: `DeadStayOff` fails. `stack_fault` leaves the thread on the list it was blocking on, and the next
  give makes the corpse READY, against `kernel.h:306-313`.
- `LoansLast` without its hypotheses: releasing the inner of two contended locks
  takes back the boost of both (`kal_rt.c:330`); with host tasks the boost may
  come after the release that should have taken it back (`kal_rt.c:273`).
- `Session` with `"in"` in every `StopsAt`: `BusyIsCalls`, were it not restricted,
  fails, and every later hangup of that device waits out its limit. With
  `"hangwait"`: `DeviceAccounted` fails, and the device is refused for good. With
  `CutsOff`, a call abandoned in the driver reads `drv_state` again and finds the
  next session.
- `Proc` with `MayAskUnborn = TRUE`: `RefsAreHolds` fails. A descriptor keeps its thread's handle after
  exit (`proc.c:148`), and a new thread in that slot is taken for the dead process.
- A process started in the slot of one that has ended may be taken for that one by
  `current_locked` (`proc.c:144`), which takes the newest descriptor with the handle
  whatever its state, and `finish` never clears it: if it was inserted before the one
  that ended, its forks are charged to nobody. `Proc` has such behaviours; none of its
  properties says otherwise.
- `Services` with `OneByOne = FALSE`: `DeadlinesAreMet` fails. Two forks are
  analysed one after the other and entered later; an event-driven process has no
  interval until it declares its event; and a declaration that has read its
  placement (`proc.c:481`, `522`) may apply it over a newer one. With
  `Quiet = FALSE` it fails in the change from one placement to the next, which
  the analysis, being of steady states, does not cover.
- `Services` with `StopsAt = {"half"}`: `SnapshotsAreWhole` fails. A writer stopped
  inside its copy leaves `seq` odd, and the first half of the next writer's copy
  then looks whole; `pfm.c:911` relies on its being even. With `{"give"}`:
  `NoSleepThroughChange` fails, as the exchange of `armed` took the wake with it.
  With `StopsAt = {"look"}` and `Declared = {w1}` it fails for `w2`: a process that opens
  the cell before `pfm_ended` has come to it takes its `last_writer` over, and then nobody
  gives what the stopped one left to give (`pfm.c:366`, `889`).
  Nothing in `pfm.c` but where threads are stopped keeps any of these from happening:
  RV-9's threads lose the processor only in calls of the kernel, and the watchdog
  seizes a real-time task only in its own code.
- `KernelFair` with `Prompt = FALSE` (a board with two processors): a `got_ip` of
  the old network handled after the new attempt was set up leaves `LinkComesBack`
  violated: the state is UP, unwatched, and the disconnect that follows is taken
  for our own. `drv_net.c:144` says only a setstat runs elsewhere "and it sets the
  attempt up before starting it". With `Steady = FALSE`: a link lost within
  `LEAVE_WINDOW_MS` of asking is swallowed as our own. With `MayRefuse = TRUE`:
  `esp_wifi_set_config` refused after the disconnect leaves UP with no link and no
  watch.

- `Services` with `Ample = 1` and a client `Sitting(1, 1, 2, 8, 4)`, against
  `SshAssumption`: `SessionAgrees` fails. `pend` is made room in only when all of it was read; while a write reads on
  for credit between two reads that stop half way, packets within the client's
  window no longer fit and are dropped, against `drv_ssh.c:459`, "The window is
  meant to make this impossible; if it happens, the client has overrun its credit".
- `Services`, without the hypothesis of `ShellLetsGo`: a shell whose input is closed
  opens the pipe of `set N = cmd` in slot 0 (`shell.c:487`), and the command inherits
  the writer of its own answer as its input.

Met while reading, and outside what the models say:

- `waitq_push` and `waitq_pop_best` wake the last comer of equals, where
  `sched.c:317` says the first.
- `rv9_proc_wait_why` looks a process up after `rv9_proc_wait` has let it go
  (`proc.c:2220-2242`): the fault it reports may be none, or another's, though its
  comment says the descriptor is still there. The look is in `RvProc` (`WaitWhy`)
  and changes no state.
- A park is refused where another process has the device exclusively by an
  inherited path, or claims it between the release of claims and the park
  (`io.c:1138`), against "Last, and on every path out of a process"; and only
  the first `MAX_FAILSAFES` promises are kept.
- `release_ahead` (`kal_rt.c:1316`) may put the schedule a period ahead of the
  clock, where its comment says it errs towards late.
- `alloc_sector` stops at the first clear bit past the volume's end though later
  bitmap sectors have none of that; a truncation is on the medium before the
  descriptor that still names its sectors is (a power cut between breaks
  `SectorsHaveOneUse`); `rbf_close` drops the failure of `fd_write`, which after a
  truncation does the same without a power cut.
- `rbf_open` writes the entry of a new file before its descriptor (`rbf.c:466-467`):
  where the second write fails the entry names a sector that holds what it held
  before, taken for a descriptor. `rbf_remove` clears the bits before it clears the
  entry (`rbf.c:762-767`): where that write fails the entry names sectors that are
  free, and are given out again. `RvFile` has both (`"tear"`); the first part of
  `SectorsHaveOneUse` fails without its condition.
- `rbf_write` records as size where the path has got to, whatever it could write
  (`rbf.c:637-638`): a seek past the end and a write for which there is no room leave
  a size past the last sector (`"seek"`).
- The head comment of `drv_flashdisk.c` names the writes since the last flush as
  what power takes; between an erase and the write the block's older sectors go
  too. `OnlyFreshAtRisk` states what does hold.
- An ordinary log line that finds a flush under way is printed before the lines
  held back, two flushers may swap theirs, and a flusher stopped half way leaves
  the flag up for ever, against "Anything held back goes first". In the byte ring
  (not modelled) `if (s_head == 0) s_wrapped = true` can be missed when another
  task writes in between, and the whole log kept is then not shown until the
  next wrap.
- `align_up` of a size within `ALIGN` of `SIZE_MAX` is zero (`heap.c:31`), which
  `HeapAssumption` excludes.
- `response_bound` stops after 64 rounds (`proc.c:1574-1589`), where its comment says
  "iterated to a fixed point or until it passes the deadline". A value that has not
  come to rest by then and is not past the deadline would be taken for a bound.
  `EnoughRounds` says when that cannot be: while no deadline is as long as 65 of the
  shortest executions declared.
- Admission takes only the newest `RT_MAX_ANALYSED` into its analysis, never those
  that give no interval at fork, and leaves placements applied to others though
  the fork is refused later.
- `scf.c` (not modelled): a line as long as its buffer loses its newline, and after
  a driver's error `*done` counts bytes that were not sent. `kal_mem.c` (not
  modelled): the floor's check is exact, where its comment says pessimistic.
- `drv_gpio.c` (not modelled): an open computes the direction under the lock and
  configures the pin after it, so that a reader may make a writer's pin an input;
  direction is set without the lock; and the host keeps one handler per pin, so
  that a second watcher of a pin replaces the first, where a comment promises
  each its own.
- `drv_ssh.c` has no lock: a background job's write while the shell is in the middle
  of `read_exact` into `frame` destroys the packet, and its output otherwise waits
  in `obuf` until the shell reads again.
- `nfm.c` makes the lock of its listeners on first use, by looking and then
  making.

## 5. What is proved

| Theorem | For every | Says |
|---|---|---|
| `TypeCorrect` | value of the constants | `Spec => []TypeOK` of the kernel |
| `EarnedAlways`, `BandsAlwaysHold` | value of the constants | priorities are those earned; aging keeps to its bands |
| `KernelInvHolds`, `QueuesConsistent`, `StacksSafe` | value with `MayOverrun = {}` | the inductive invariant, and the two properties in it |
| `ThreadTableImplemented` | value with `MayOverrun = {}` | `RvKernel` implements `RvThreads` |
| `OwnersLive` | value with `MayOverrun = {}` and `Careless = {}` | a locked mutex has a living owner that counts it |
| `WakeupsKept` | value with `MayOverrun`, `IsrQs`, `Killable` and `Stoppable` empty | no count lies beside a sleeper |
| `SettledStayOff` | value with `MayOverrun`, `IsrQs` and `Sleeps` empty and no deadlines | the dead stay off the processor, with waits, gives, kills and stops |
| `OverrunsStayOff` | value with `Waitqs` and `Sleeps` empty | the same with overruns, kills and stops, and nothing to wait on |
| `LockTypes`, `LockInvHolds`, `NoLockOrphaned` | number of threads, host tasks and locks, nested in any way | stops orphan no lock |
| `LoansReturned`, `LoansStay` | the same; with no host task, and with no nesting | a borrowed priority is given back when its lock is let go, and not before |
| `LoansLastInCasts` | cast | the same of the run's own specification |
| `PipesCounted` | number of ends, names and pipes | readers, writers and names agree with who has what open |
| `PipeInvHolds`, `ChannelImplemented` | the same, and any capacity and pieces | the ring holds what was written; `RvPipe` implements `RvChannel` |
| `FlashInvHolds`, `FlashReads`, `FlashRisks` | geometry, number of slots, number of power cuts | reads find what was written, and power takes only what is said to be at risk |
| `PubInvHolds`, `SnapshotsWhole`, `OneWriterAlways` | number of writers, observers, cells, publications and retries, with `OutsideCopy` | one writer at a cell; a snapshot is one publication |
| `ChangesWake` | the same, with `WakesEnd` | nobody sleeps through a publication or the end of a writer |
| `SessionsKept`, `NoneFreedInUse`, `OwnReached`, `NoneLost` | number of processes, paths and sessions, and every world | sessions are used by their own, not after they are freed, and are not lost |
| `AccountsKept` | the same, in worlds where nobody is stopped in a drain or a hangup's wait | counts, references and `hanging` are what they stand for |
| `ClaimsKept` | number of processes, devices and copies of a path, any manifests | a claim is somebody's paths and reservation, and is alone where promised |
| `ParkedAsPromised` | the same, where no manifest promises more than `MaxFailsafes` | a promised park is made, refused, or known to be forgotten |
| `ReleasesAreKept` | tasks, periods, deadlines, backlog | nothing a waiting task is to hear is slept through; a late activation is the last |
| `ListenersKept` | number of daemons, ports, listeners and sockets, any grace | a port answers between connections; uses and sockets are counted |
| `RefsHold` | number of descriptors, threads and modules, any numbering, history and budgets, with `MayAskUnborn = FALSE` and no fault at `bury` | a descriptor's count is of those who hold it, and none is forgotten in somebody's hand |
| `ChargesAccounted` | the same | a process holds its own cost and that of all who are charged to it, and no more than its budget |
| `LinksHeld`, `CodeLinked` | as `RefsHold`, with `ChainEnds` without `TRUE` | as long as nobody is stopped within a chain, a module's links are of those who run or carry it, and running code is linked |
| `ImagesKept` | store, uploads, number of linkers, memory | an image stays while anybody runs in it, and no longer |
| `FilesKept` | disk, number of files and handles, segment limits, seeks, failures and cuts, with `CleanWorlds` | until an entry and its descriptor are torn apart, no sector is two things, and none in use is free on the medium |
| `NeverLostSilently` | number of tasks, lines and slots | a line that is not there to be printed was printed, or is counted as lost |
| `DeadlinesMet` | processes, programs, cores and rounds, with `OneByOne`, `Quiet`, `RtSlots <= Analysed` and `Converges` | an admitted process is served within its deadline |
| `EnoughRounds` | processes and programs | where the rounds `Converges` asks for are enough |
| `ShellLetsGoAlways` | slots, table to start from, number of stages, whatever does not open or does not start | the shell has its own paths back, waits with no end of a pipe left, and each stage has what its line says |
| `HeardToTheEndAlways` | client, windows, sizes of packets, reads and writes | a client that stays has shown all that was said |
| `OpenedAsSealedAlways` | the same | either end reads the next packet as it was sealed |
| `RepliesMatchAlways` | the same | each question has one answer, in the order of the questions |
| `HeapInvHolds` | region, header, alignment, requests | blocks tile the region, no two overlap, no two free ones touch |

Assumptions: each module's one named assumption on its constants
(`KernelAssumption`, `LockAssumption`, `PipeAssumption`, `FlashAssumption`,
`HeapAssumption`, `PubAssumption`, `SessionAssumption`, `ClaimsAssumption`,
`ReleaseAssumption`, `ListenAssumption`, `ProcAssumption`, `ModAssumption`,
`FileAssumption`, `LogAssumption`, `AdmitAssumption`, `ShellAssumption`,
`SshAssumption`), which TLC evaluates in a run;
and hypotheses where said, each the other side of something in section 4. `MayOverrun =
{}`: a thread that runs off its stack while blocking is left on a list, and the
invariant is then false. `Careless = {}`: a thread that ends with a mutex leaves it
locked. `IsrQs`, `Killable` and `Stoppable` empty: an interrupt's give between a look
and a push is not noted, and one woken and then ended takes its unit with it. No
deadlines, sleeps or interrupts: with any of them a thread may be READY before its own
switch, and a stop that finds it so frees the stack it is still on. `OutsideCopy` and
`WakesEnd`: a writer is not stopped in its copy, nor in a give, nor in its wakes if its
cell is not declared. Manifests no longer than `MaxFailsafes`: of more promises than that an
exit notes only some, and leaves the rest as they are. `MayAskUnborn = FALSE`: a process is
asked about by the number its fork returned, not by one its fork has yet to return.
No fault at `bury`: a thread that ran off its stack after `finish` marked its process
as ended would be nobody's to bury. `ChainEnds` without `TRUE`: a chain is refused before
the old module is given back; the other refusal is what `proc_chain` finds. A stop
between giving the old module back and naming the next is the other way to the same
end, which `LinksHeld` and `CodeLinked` have as a condition on the state
(`LostAt({"swap"}) = {}`), and they show that there is no third. The instance of the run
`proc` meets all three. `CleanWorlds`: the power is not cut in a format, no entry is torn from its descriptor,
and the power does not go nor a close fail in a world that truncates (so are the worlds
of the run `services`, but the one with `"tear"`). For `DeadlinesMet`:
a process is admitted only once the one before has declared its release (`OneByOne`;
two in between are placed as if the other were not there), they come and go while
nothing is owed (`Quiet`), the table of releases is no longer than the analysis
(`RtSlots <= Analysed`, in the code 4 and 8), and a bound within the deadline is one the
iteration came to rest at (`Converges`). `EnoughRounds` proves the last where no
deadline is 65 of the shortest executions or more. `HeapAssumption` includes that no
request is within an alignment of the largest number. `ShellAssumption`: the slots the
shell parks by are free at its prompt, and it starts with no end of a pipe of its own.
`SshAssumption`: a client whose window is called ample grants more than its program
writes.

Why `KernelInv`. That a list and `blockedOn` agree is not inductive: a push is safe
only if the thread pushed is on no list, which is so because a thread in its own
code, or about to block, is. Saying that takes where each thread can be:
`Runs` (only the one with the processor is RUNNING, or between check and switch),
`Waits` (who is on a list wants something, and is BLOCKED, or READY after a
deadline), `Stands` (who is alive or has the processor has a stack). With these every
action preserves `QueueConsistent /\ PlaceInv`, and the crash-free part of the
refinement follows: a woken thread was alive, so no wake is a birth. The proof
goes action by action in `RvKernelProofs`, from lemmas about `Without`,
`Unlinked`, `PopBest` and `Turn`.

The other facts about the kernel need invariants of their own, on top of that one.
`OwnerInv`: a mutex is free exactly when its count says so, a thread's `holds` is the
number of mutexes that name it, and the dead hold none; the step that matters is an
unlock with a waiter, which makes an owner of a thread that must still be alive.
`CountInv`: a thread about to block found the count at zero and nothing has raised it
since (`Asks`), and while anybody sleeps the units of a count are no more than the
threads woken to take them (`Counted`); a give adds one to each side. `LoadInv`: nothing
is due, nobody sleeps, and the thread that is giving up the processor is not ready
(`Settled`), so that no switch is to the thread it is from. `LoneInv` is what is left
of the places where the only ways into the kernel are to yield, to be started and to
end: who is alive has a stack, and who ran off one has the processor or is dead.

`LockInv` says who is named while the mutex is held and that nobody is named in the
middle of an acquire or a release; `NoOrphanLock` needs it together with
`HoldsCounted`, which is what the stop looks at, and with `OffCpu`: a thread with the
mutex and not yet counted has the processor, and nobody is stopped there.
A loan between threads is of whoever the lock names still (`Lends`): a thread that is
about to lend has the processor, so the one it read cannot have let go since. That a
loan stays needs no such thing. The only step that takes a priority away is a release,
which takes it from the thread that releases; where nobody has two locks (`Single`, and
for a waiter `NeverNested`) no other lock names that thread. Without either hypothesis
each fails, as section 4 says.
`EndInv` of `RvPipeProofs` is the counting half of the pipe's invariant, and needs the
cardinality of a set that gains or loses one member. `RingInv` is the other half: the
tail stands `count` slots past the head, round the end, and the slots between hold
bytes that were written (`Blank` is none); `CallInv` says that who is in a call has the
pipe open that way. The refinement then rests on four facts about any ring: a write
of k fills the k free slots from the tail and disturbs no other, which appends to the
sequence read from the head; a read of k takes its first k; an empty one reads as
no bytes; and the step of one pipe leaves the sequences of the others. That one name
is one pipe, from `PipesHaveEnds`, is what lets a name stand for a ring.

`FlashInv` adds to the two properties what makes them inductive: a block has one
slot, a slot that is not dirty is what the flash holds, a block is erased only
under a slot that stays dirty, a block with no slot is as it was written, and the
block a write evicts for is in no slot. `HeapInv` is inductive as it is: that blocks
tile the region is what a split and a merge must keep, and that no two free ones
touch is what makes one merge each way enough. The lemmas about a split and a
merge are about any list that is tiled, and the frees are two merges of it.

`PubInv` says what an odd counter means: exactly one writer copies, the one that
holds the cell (`Holds`, `Counts`). `Words` gives the two words by how far that writer
has come, and otherwise they are what was said last; so a copy an observer began
under an even counter is of words that stand for as long as the counter does
(`View`), and a counter that only grows makes "the same number" mean "nobody came in
between". A stopped writer goes on waking under the device's lock with a fault set,
past the cell it no longer holds, which is why each part speaks of those without.

`ChangesWake` needs who will wake. `WaitInv`: an observer that sits has its slot to
itself (`Seats`); a declared cell stays its writer's while it is stopped (`Kept`), and a
writer without a fault is of a cell without one (`Sound`); and an observer asleep is
either armed, or the one that took its arm has still to give; and if the counter has
moved on since it looked, somebody still comes to its slot: a writer that has not looked
at it yet, or `pfm_ended` for a stopped one (`Sleeps`).

`SessionInv` has one part for each question asked of a device. `Counted`: `refs` is who
has a path, `open_count` the paths of the current session, and no path is of a session
to come. `Places`: who opens is alone with the only path, there is one hangup at a time
and the session has none during it. `NobodyInside`: a hangup that closes found nobody
calling, and nobody is let in after it, since every path it left is of an ended session.
From these, where calls leave (`Own`): a call of an ended session keeps the hangup
waiting, so the session behind the device is the caller's own. Where a last close comes
after a hangup (`Neat`): the device has a session only between an open and the end of
the hangup, and only the hangup's close has it in hand to free. `Served` is who a
refusal waits for. Each is a statement about one process, and most steps leave all but
one process as they were (`OneSteps`).

`ClaimsInv` is about the claim records a device has, one for each owner. `Counts`: the
references of a record are the open paths of its owner and its reservation, and nothing
exclusive or promised is recorded of a claim without a reference; each open, inheritance
and close moves both sides by one. `Possesses`: a reservation is given back before an
exit can end, so that who is past it holds nothing by it; who is not yet live has no
path. `ExclusiveIsAlone` is inductive with these, because a claim is only taken where
`Blocked` looked at every other owner's. `LeftAsPromised` needs where a promise is on
its way: `WillPark` says that of every promised device that its process drove, the promise
is still recorded with the claim, or noted (`todo`), or in hand, or turned down. The
step that matters is the exit's look at its claims, which notes every promise because
they are no more than it has room for (`Cardinality` of what is promised, bounded by the
manifest).

`RtInv` is about one task at a time. `Listens`: whoever waits with nothing given has not
been asked to stop, and an event's signals nobody looked at are still being given; it
also says where the task *looks* (after the drain), which is why the order of the drain
and the look at `stop` matters. `OnSchedule`: the clock's next release and the one the
task is to answer are both multiples of the period, and the first is no later than the
second unless a wakeup is there. That is what makes "late, counted from the schedule" the
distance from the release served, which an activation remembers: `late = since - Served`.
So a task that outlived its deadline finds that out when it next waits. The arithmetic is
about whole periods (`OnGrid`, `IntoPeriod`), for any period.

`ProcInv` is who may hold what, and that the counts are of those. Its parts (`Places`) are
about one thread, process or call each: a thread is one process's, and one that ended has
of its thread only the end of the trampoline or whoever buries it (`ThreadsSound`); who
holds a descriptor holds the one it found, which has a thread or has ended (`HoldsSound`);
one actor at most buries it (`BuriersApart`), one at most is giving it a thread
(`MakersSound`); what was stopped with a hold in hand keeps its process from being
forgotten (`LostSound`); serials are never reused (`SerialsApart`). With those,
`HoldsCounted` is a count that changes by at most one of its three parts: a step holds,
drops, or passes a hold on. Every action is shown to have one of fourteen effects
(`Quiet` to `Dying`), and each part to survive each effect, so that two dozen actions
need not be taken ten times each. `LinkInv` is on top: for each module, links, and the
sets of those who run it, end with it, carry it or were stopped with it, of which an
action moves one member. A process between the halves of a chain (`Between`) is of none
of them by its descriptor, and of one by what its thread carries. That a thread that ran off its stack can always be collected
is not counted: `DeadAreFound` has it from `ThreadsSound` and `TasksSound`.
`BillInv` is on top as well, for each living process: what it holds is its own cost and a
sum over the others, over the forks under way and over what stopped threads were forking
(`Charge`), of which an action moves one term, from one sum to another or to and from
`held`. What has to be known besides is whose number is whose: nobody is charged to a
number that a fork has still to put in the table (`Taken`), so that the process it becomes
starts with nothing but its own cost; and as a process holds no less than any one of the
terms (`HeldCovers`), `uncharge_ancestors` never stops at zero.

`ModInv` has a part for a linker, one for an entry and one for two entries. What is
counted is a set of linkers, which a link or an unlink moves one of. The step that
matters is the last unlink: nobody else runs in the image it gives back, because the
count is the linkers and was one; and an image that came by a path is never in place, so
that "in place or not resident" gives back only what was linked from the store.

`ListenInv`: a listener counts the paths that came by it (`SlotsSound`), a socket is one
listener's or one path's (`SocketsApart`), and a port used less than the grace ago has a
listener that is used, or has idled for no longer than the port (`Answers`). That last part
is what makes the grace hold: `Stays` says what no operation does to a listener in use or
within its grace, and is proved of reaping first, then of what each operation does after
it. That a socket is never lost is a count of two sets of holders with one each.

`FilesInv` speaks of a volume that is mounted, or was (`Standing`): of each file, its
descriptor and the segments in it are sectors it has alone, marked, and as many as its
size says but for a seek; of each open path, that it is of a file that is there. A sector
changes hands in one step only, where a write grows a file, and what is marked there
is marked before the segment is written: with a failure or a power cut it is marked
and nobody's, which is why `Tidy` asks that every marked sector be somebody's only
where nothing failed. That a write grows a file sector by sector is a recursive
function in the model. What it computes is shown by the first turn that would break
what is to hold (`LeastExists`): such a turn has one before it, from which it follows.
The rounds of `response_bound` and `place_rt` are shown to be natural numbers, and
placements, in the same way; what cannot be had so is induction as the library states
it.

`LogInv` says where a line is: in the ring, in a flusher's hand, at the port, or counted;
in one of them only. `RingLine(i)` is the i-th line held back, round the end of the ring,
and those are in the order they were logged. A count taken is a flusher's `tally` until
it is told, so that what is lost is a count, what was told, and a sum over the flushers,
of which a step changes one term.

`AdmitInv` is the argument of response-time analysis, for tasks of one level that share
the processor in any order. `Book` is what the analysis looked at: everybody in the
process table once, one at most on its way, its placement the one it will run at, and
each with a bound: a number no longer than the deadline which the declared execution
and all that may run before it (as often as they are released in that time) fit into
(`Answered`). An admission looks at all of them again, so it keeps the bound or refuses.
`InTime` says of each process that its level has been at work without a break for some
time less than that bound: what it has done since is one unit for each unit of time,
by releases that began in that time (`InWindow`). So what is still owed at that level is
less than what is left of the bound; when nothing is owed the time starts over. A
process that still owes was released no earlier than that time began, and so is within
its deadline. The release being answered is the last one, since deadlines are no longer
than intervals.

`ShellInv` says of each slot of the shell what it holds at each step: what the shell had
there, with what is parked moved aside (`Plain`); or an end of a pipe, in a slot that was
free (`ShellFrame`); or, of the first two, what this stage is to have, from the moment it
is pointed there until the fork (`ShellAims`). Those overlap: in a shell with its own
input or output closed a pipe's end lands in slot 0 or 1, and in one with both, the next
one lands in the other. What makes it inductive is that a slot with an end in it was free
in the shell's own table, so that putting back what was parked never closes an end, and
letting an end go never closes what is the shell's own. With that, each of `RvShell`'s
actions is a step from one such table to another, and a pipeline may be of any length.

`SshInv` is a balance (`SshBalance`): what the program said is what the client has shown,
what it has heard, what is under way to it, what the call has left, what the buffer holds,
and what could not be said. What is under way is a sum over a sequence of packets
(`Carried`), of which a step appends one or takes the first; `CarriedAppend` and
`CarriedTail` are those two facts. The other half is `SshFarewell`: a close of the channel
is said only with nothing left in the call or the buffer, is the last packet that counts,
and a client that saw it has nothing still on its way. The steps are grouped by what they
do to the balance, so that a packet read by the driver, whatever it is, is one lemma.

`OpenedAsSealed` is a promise about the heads of two queues; `SshSeals` counts what is in
them. The client's packets are clear up to the change of keys, and as many clear ones are on
their way as the driver has still to read (`Due`) less those the client has still to send
(`Owes`): one more where it guessed wrong. The driver's clear packets are a script of three,
of which the client has heard a part (`HasHeard`) and the driver said a part (`HasSaid`);
between the two is what is under way, and behind it all is sealed.

`RepliesMatch` asks for a way to match what was asked with what is under way.
`SshAnswers` says it of the kinds of packets only, with the packets to the client before
those to the driver: a packet that is an answer, or a question, stands in the place of
what was asked (`Settles`). A step appends a question at the one end, takes an answer at
the other, or turns the first question to the driver into the last answer to the client,
which is the same place; `SettlesMore` and its like are those facts about any sequence.

Model-checked only: liveness (`DeadlinesEnd`, `NoStarvation`, `EndsAreHeard`,
`HangupEnds`, `LinkComesBack`), which is beyond TLAPS here; everything about the
link; and of `SessionAgrees` its credit (the other parts are `RepliesMatchAlways` and
`OpenedAsSealedAlways`).

## 6. Not modelled, and what could be next

Not to be modelled: register moves, drawing, inference, cryptography, packet
formats, hardware registers, and most commands. They are sequential, or belong to
systems outside this repository. They are also the larger part of its lines:
fonts, raster and panels, the speech model, programs other than the shell's
handling of paths, and headers of tables; which is why the definitions here stand
for about an eighth of the source.

Parts of modelled components that are left out are named in `PROJECT.json` with each
component. Of those with state of their own:

1. The memory floor of `kal_mem.c` (a check and an allocation), the ring of bytes of
   `logring.c`, the line buffer of `scf.c` and the sharing of pins in `drv_gpio.c`:
   read, with what was met noted in section 4, and small enough to model next.
2. The host's own tasks inside the kernel's lists (`pfm.c:441`): `RvKernel` would have
   to be taken apart into single reads and writes of links.
3. A proof of the credit in `SessionAgrees`.
4. Real-time processes in `RvProc`, with the wait of `RvRelease` and the placement of
   `RvAdmit` in one model.
