# Specifications of the GNU Mach kernel's synchronisation, IPC and scheduling

This directory holds TLA+ specifications of the parts of the kernel in which
several threads and processors meet: the two kinds of sleeping locks, the
message queues of ports, the port rights of tasks, the global synchronisation
calls behind user-level locks, and the thread states of the scheduler. TLC
checks each of them on small instances. TLAPS proves the main properties of the
locks, of the message queues and of the scheduler for every number of threads,
processors, ports and messages.

## The parts and how they interact

    user tasks    mach_msg          gsync_wait / wake     mach_port_*
                     |                    |                   |
    ipc/          IpcMqueue            (kern/) Gsync       IpcRight
                     |                    |  \                |
    kern/         thread_go,           kmutex  \          locks of spaces
                  clear_wait             |      \             |
                     |                 KMutex    \       ComplexLock
                     +----------------- Sched ----+-----------+

Everything that blocks does so with `assert_wait` and `thread_block`, and is
woken by `thread_wakeup_prim` or `clear_wait`. `Sched` models these four with
the context switch below them. The other modules use a summary: a thread is
asleep on a queue or it can run, and a wakeup, an interruption or a timeout
makes it run. `Gsync` uses the mutex of `KMutex` in the same way, each call one
step. What licenses this is that `KMutex` implements `Mutex`, and that in
`Sched` a woken thread is never lost (`OnePlace`).

| module | models | lines of code it stands for |
|---|---|---|
| `Mutex`, `KMutex` | the sleeping mutex | kern/kmutex.c |
| `RWLock`, `ComplexLock` | read/write locks with upgrade, downgrade and recursion | kern/lock.c |
| `IpcMqueue` | message queues of ports and port sets | ipc/ipc_mqueue.c, parts of ipc_port.c, ipc_pset.c, ipc_thread.c, kern/ipc_sched.c |
| `Gsync` | gsync_wait, gsync_wake, gsync_requeue | kern/gsync.c, kern/list.h |
| `IpcRight` | port rights, their counts, notifications | ipc/ipc_right.c, ipc_object.c, ipc_port.c, ipc_notify.c, parts of mach_port.c |
| `ThreadStates`, `Sched` | thread states, run queue, idle processors, stacks, stopping a thread | kern/sched_prim.c, parts of kern/thread.c, kern/thread_swap.c |

`KernQueue` has the operations on queues that `KMutex` and `IpcMqueue` share.
`MC*` modules instantiate them for TLC. `QueueLemmas`, `KMutexProofs`,
`ComplexLockProofs`, `IpcMqueueInvariant`, `IpcMqueueProofs`, `SchedInvariant`
and `SchedProofs` hold lemmas and theorems.
`Mutex`, `RWLock` and `ThreadStates` are abstract: they say what a component
promises, and the detailed module is shown to implement them. Operators whose
name ends in `_something` next to an operator of the plain name are faulty forms
of it; no action uses them, and each of them breaks a property.

## How the modules correspond to the code

### KMutex

The state is `mtxp->state`, the queue of threads asleep on the mutex, and for
each thread a point in `kmutex_lock` or `kmutex_unlock`. One step is one atomic
instruction on the state word or one section under the internal spin lock.
`interrupt` is `clear_wait` with `THREAD_INTERRUPTED`: it takes a sleeper off the
queue without the spin lock, at any time. A thread that an unlocker woke owns the
mutex from that moment, although it has not run yet. `Mutex` says what callers
are promised: one holder; waiters in the order in which they came, any of whom may
give up; the holder passes the mutex to the oldest waiter, and frees it only when
nobody waits. The mapping takes the owners for holders and the queue of sleepers
for the waiters.

### ComplexLock

The fields of `struct lock` change only under the interlock; a step is what
happens from taking it to dropping it. A waiting thread spins or sleeps
(`mode`), as `lock_wait_time` says. `reads`, `upgrading` and `base` are history:
they record what callers were granted and are never read by the code's steps.
The callers keep the rules the code asserts (`lock_done` of what they hold,
`lock_set_recursive` only by a writer that came in through `lock_write`).

### IpcMqueue

A port has its state, message count, limit and blocked senders; a queue, of a
port or of a set, has messages and receivers. The actions are `ipc_mqueue_send`
and `ipc_mqueue_receive` up to the point where the thread blocks, their
continuations (`send_resume`, `receive_resume`, `receive_finish`), the death of
ports and sets, the change of the limit and of the set, and what may hit a
blocked thread: `interrupt`, `softclock` and `thread_timeout`, `thread_go`. On a
multiprocessor the receiver of a message is woken some time after the queue was
unlocked, and a timer that softclock has unlinked fires later. The delivery of
several messages to several receivers (`ipc_mqueue_changed`, `ipc_mqueue_move`)
is a pure operator, `Deliver`. Message contents are left out, except for the
size, in which kernel and 32-bit users differ by `Shrink`.

### Gsync

The bucket lists are modelled by their pointers (`next`, `prev`), because the
code splices them by hand. A step is what a thread does between two places where
it can sleep: the bucket mutex, user memory, the block itself. `wild` is set when
the code would follow or write through a bad pointer.

### IpcRight

A space maps names to entries (`type`, `urefs`, `object`, `request`). A port
keeps `mscount`, `srights`, `sorights`, its references, its receiver and its
requests. The write lock of a space and the lock of a port make an operation of
`ipc_right.c` one step; `ipc_port_destroy` continues after it has unlocked the
dead port, with a step per section. Rights outside entries (in messages or in
the kernel's hands) are counted in the fields `send`, `sonce` and `receive` of
their port, those of queued messages in `qsend` and `qsonce`. Nothing else is a
history variable:
the properties recount the rights from the entries.

### Sched

A thread has its `TH_` flags, `wait_event`, `wake_active`, `suspend_count`,
`swap_func` (whether it is to resume at a continuation) and `AST_HALT`. A
processor has its active thread, its state, the thread it was given while idle,
and a point in the scheduler: selecting, about to invoke `arg`, about to
dispatch `arg`, and so on. A step is one section under a thread lock, a wait
queue lock, or the lock of the run queue; processors interleave between them. In
particular `clear_wait` is two steps when the thread waits for an event (line
314 unlocks it), a thread that leaves its processor is dispatched in a later
step, and `choose_pset_thread` enters the idle queue some time after it saw the
run queue empty. `thread_hold`/`thread_dowait`/`thread_release` and `thread_halt`
(with `must_halt`) are calls of a running thread, recorded in `call` and
`target`. The code is abstracted as follows: one run queue, no priorities, so
that any queued thread may be chosen; whether a stack is at hand is left open;
which continuations `thread_halt` may interrupt is left open.

## Model checking

Every run but the three marked (v) passes. Deadlock is checked in `kmutex`, `lock`
and `sched`; in the others a system in which everybody waits or has used up the
bounds is a legal end.

| run | instance | checks |
|---|---|---|
| `kmutex` | 3 threads | `MutualExclusion`, `SleepersSeen`, `ImplementsMutex`, `LockReturns` |
| `lock` | 3 threads, one recursive, 2 read holds each, multiprocessor | `Exclusion`, `ReadCountExact`, `NoLostWakeup`, `ImplementsRWLock`, `UpgradeCompletes`, `WriterGetsLock` |
| `mqueue_safety` | 3 threads, a port, a set, limits 1 and 2, 3 messages, all timeouts, uniprocessor | `Conservation`, `MsgcountExact`, `NobodyWaitsInVain`, `NoStrandedSender`, `NoStrangeWakeup`, `TimeoutWasAskedFor` |
| `mqueue_smp` | 3 threads, a port, two sizes, limit 1, 3 messages, multiprocessor | `Conservation`, `NoStrandedSender` |
| `gsync_wait` | 3 threads, 2 addresses in a bucket, broadcasts, timeouts and interruptions | `EveryWaiterListed`, `NoStaleWaiter` |
| `gsync_requeue` | 3 threads, 2 buckets, requeues both ways | `NoLockDeadlock` |
| `gsync_splice` (v) | 3 threads, requeues between two buckets, signals | `EveryWaiterListed` |
| `gsync_exclusion` (v) | 3 threads, an address, signals, timeouts and interruptions | `Exclusion` |
| `right_requests` | 2 spaces, 2 names, a port, dead-name and no-senders requests | `SrightsExact`, `SorightsExact`, `ReferencesExact`, `OneName`, `UrefsInRange`, `RequestsMatch`, `NoSendersTaken` |
| `right_backup` | a space, 2 ports, one the other's backup | `SrightsCovered`, `ReferencesExact`, `OneReceiver` |
| `right_backup_send` (v) | the same | `SrightsExact` |
| `sched` | 2 processors, 3 threads, of which two stop the third | `OnePlace`, `LinksUsedOnce`, `NoPanic`, `IdleExact`, `StaysStopped`, `NoStrandedStopper`, `FollowsTable` |

Bounds. Three threads are the least with which one can hold, one wait and one
interfere; the locks need no more (their proofs are for any number). A queue
limit of 1 or 2 against three messages makes two senders block at the same time,
overtake each other and be let through; a set of one port shows every move into and out of a
set. `MaxSent` only bounds the counters. Two addresses in one bucket are what
tells a sorted list from an unsorted one, two buckets what orders two mutexes.
`UREFS_MAX` is 3, so that user references reach their maximum. In
`right_*`, `MaxLoose`, `MaxSrights`, `MaxEntries` and `MaxMade` bound how many
rights exist at a time; two names in a space are what a rename, a reverse lookup
and a duplicate need. Two processors and three threads in `sched` give one
thread that is stopped while it runs, is queued, sleeps, is given to an idle
processor or waits for a stack, and two that stop it at the same time, or one
after the other.

Symmetry is used where no property tells the permuted values apart and no
liveness is checked, and in `mqueue_safety`, `mqueue_smp`, `gsync_wait` and
`gsync_requeue` a view that leaves out fields nobody reads before they are set
again.

Fairness. `kmutex`: a thread that runs inside a call goes on, and an owner
unlocks; nothing forces anybody to call `kmutex_lock`, and no interruption is
needed. `lock`: a thread that can get the interlock gets it, and holders release
their holds. The others are checked for safety only. Whether a thread of `sched`
runs depends on priorities, which are not modelled. That a blocked sender of
`IpcMqueue` returns is not claimed: a sender that has been let through goes back to
the head of its loop (ipc/ipc_mqueue.c:269) and looks at the count of the port again;
others may have filled it since, and nothing bounds how often this happens.
`NoStrandedSender` is what the code does guarantee: when there is room at a port at
which senders are blocked, as many have been woken to take it.

### What the violations show

* `gsync_splice`: `gsync_requeue` (kern/gsync.c:514-521) links the moved waiters
  into the destination list but does not set the `prev` of the node after them.
  The next insertion or removal there drops the moved waiters from the list; no
  `gsync_wake` finds them.
* `gsync_exclusion`: a waiter that was interrupted or timed out stays on its list
  while it sleeps for the bucket mutex. `gsync_wake`, which holds that mutex, finds
  it there and wakes it (kern/gsync.c:360), so that it returns from `kmutex_lock` as
  if it had been handed the mutex. Both are then in the section of which 395 says
  that "the buckets' simple locks give us atomicity".
* `right_backup_send`: `ipc_right_delta` (ipc/ipc_right.c:957-978), dropping the
  receive right of an entry that has a send right too, leaves `ip_srights` as it
  is "because the port is destroyed first". With a port-destroyed request the port
  lives on, with a count one too high, and its no-senders notification never
  comes. `right_backup` therefore checks `SrightsCovered`: the count is never too
  low.

### Further disagreements met while modelling

These were reproduced with TLC on variants of the instances above, or follow from
the cited lines. The runs above are set up so that they do not occur.

* kern/lock.c:644 panics in `lock_set_recursive` unless `want_write` is set; a
  thread that became the writer by an upgrade has `want_upgrade` set, and is told
  by the comment at 632 that it may call it.
* ipc/ipc_mqueue.c:368: on a multiprocessor the receiver is woken after the queue
  is unlocked. It may have taken its message already and wait for something else:
  the wakeup is then "strange" (the assertion at 635 and 298). `NoStrangeWakeup`
  holds on a uniprocessor.
* kern/mach_clock.c:399-432: softclock unlinks a timer before it calls its
  function. On a multiprocessor `thread_timeout` may end a later wait of the
  thread, one for which no timeout was set. `TimeoutWasAskedFor` holds on a
  uniprocessor.
* ipc/ipc_mqueue.c:360 compares the kernel's size of a message with the size of a
  waiting 32-bit receiver's buffer; a receiver that comes later is measured by the
  user's size.
* kern/gsync.c:520 does not insert the moved waiters in the order that 188 relies
  on; 345 reads a wait result that `kmutex_lock` has overwritten, and
  returns `KERN_TIMEDOUT` for an interruption; 490 leaves `exact` uninitialised
  where 494 reads it; 262 touches user memory with the map read-locked.
* kern/thread.c:1148: `thread_halt` that finds its victim at a continuation marks
  it halted and wakes nobody. A second `thread_halt` asleep at 1076 until the first
  is complete stays asleep. `NoStrandedStopper` is about `thread_dowait` only.
* kern/thread.c:1264: two threads that hold each other at the same time are both
  suspended for good. `MayStop` has no cycle in the run.
* kern/thread.c:1353 takes the lock of a wait queue with a thread lock held,
  kern/sched_prim.c:410-416 the other way round. Spin locks are the steps of the
  model, so this order is not checked.
* vm/vm_map.c:1697-1741: three `continue`s in the loop of `vm_map_pageable_scan`
  skip the advance to the next entry at its end.

## Proofs

All theorems are for arbitrary finite sets of threads, processors, ports and so
on. The assumptions are those named in the modules: model values are distinct,
sets that are counted are finite, the counters of the complex lock do not
overflow (`ConstantsAssumption`).

* `QueueLemmas`: what enqueueing, dequeueing and unlinking do to the set of
  elements of a queue without duplicates.
* `KMutexProofs`: `Inv` adds to mutual exclusion that the state word is AVAIL iff
  nobody owns the mutex, that sleepers imply CONTENDED with an owner, and that the
  queue holds exactly the sleepers. Without the last one an unlocker might hand
  the mutex to a thread that does not sleep. From it follow `MutualExclusion`,
  `SleepersSeen` and that `KMutex` implements `Mutex`: an unlocker that finds CONTENDED
  hands over to the head of the queue, and one that frees the mutex found nobody.
* `ComplexLockProofs`: `Inv` ties each flag to its owner: `read_count` is the
  number of read holds, `want_write` and `want_upgrade` belong to one thread each,
  waiting threads hold nothing the others wait for, recursion belongs to the
  owner. The counting argument (`CountReads`) is about the cardinality of a set of
  pairs. From it follow `Exclusion`, `ReadCountExact`, `NoLostWakeup`, and that
  `ComplexLock` implements `RWLock`.
* `IpcMqueueInvariant`, `IpcMqueueProofs`: `IInv` consists of the shape of the queues (no duplicates, no
  thread on two of them, blocked threads on the one they wait on), the sending
  part (a port with blocked senders is full, or has let through as many as there
  is room for) and the receiving part (receivers wait only on empty queues of live
  ports). From it follow `NoStrandedSender` and `NobodyWaitsInVain`, on uni- and
  multiprocessors.
* `SchedInvariant`, `SchedProofs`: the invariant `SchedInv` has five parts. The
  arguments of the points of a processor are what they should be (a processor
  about to dispatch has a thread to dispatch, and so on); the idle queue and its
  count agree with the states of the processors; a thread is marked `TH_RUN`
  exactly if it is on a processor, in transit between two steps of one, given to
  an idle one, queued or waiting for a stack, and it is in one of these places
  only (`Placed`); a thread marked as coming in is on the swapin queue (`SwapInv`),
  so that the thread a processor is about to invoke is not, and `thread_swapin`
  queues it; a thread that could be chosen to run has no wait event. The
  third is the counting argument of the scheduler, and needs the first: a step
  that puts a thread somewhere has just taken it from somewhere else. From it
  follow `OnePlace`, `LinksUsedOnce` and `IdleExact`.

Only model-checked: liveness (out of the prover's reach); everything about
`Gsync`, whose properties speak of what recursive walks along linked lists
find, which would take induction over data; everything about `IpcRight`;
`Conservation`, `MsgcountExact`, `NoStrangeWakeup` and `TimeoutWasAskedFor`; in
`Sched`, `NoPanic`, `StaysStopped`, `NoStrandedStopper` and `FollowsTable`.

## Not modelled

The repository has half a million lines, two thirds of them imported Linux
drivers (linux/), and most of the rest is code that no model at this level
captures: page tables and traps (i386, x86_64, aarch64, xen), device drivers,
the kernel debugger, the stub compiler (mig), test programs and tools. The
modules here stand for some three thousand lines of the kernel proper; the share of the
whole repository is below one percent.

Of the kernel proper these are left out: message copy-in and copy-out
(ipc_kmsg.c), which is about byte layouts; virtual memory (vm/), whose
busy-page protocol among faults, pagers, pageout and object collapse deserves a
project of its own; the allocators and trees, which are sequential; creation
and termination of tasks and threads; processor assignment and shutdown;
priorities. In modelled components: bound threads and local run queues,
`thread_suspend`/`thread_resume` and with them the wakeups on `TH_EV_STATE`,
`thread_halt` without `must_halt` (Sched);
messages to kernel ports and circular messages (IpcMqueue); message-accepted
requests, port-set rights, the growth of tables, and notifications lost because
no message buffer can be allocated (IpcRight); the mapping of
shared pages (Gsync). The experimental additions (tensors, atom space, tracing)
compute on data or observe, and promise nothing about interleavings.
