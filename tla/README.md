# A TLA+ model of the XNU kernel's synchronisation core

The modules here specify the locks that everything else in the x86_64 kernel is
built on, the waiting and waking of threads, and three services built on them:
semaphores, thread calls and the message queue of a Mach port.  TLC checks them on
small instances; TLAPS proves most of the safety properties for every number of
threads, mutexes, calls and messages.  Source paths are relative to `src/`.

1. Inventory, 2. Modules, 3. Runs, 4. Bounds, 5. Fairness, 6. Proofs,
7. Observations about the code, 8. Left out.

## 1. Inventory

| part | state | operations | talks to |
|---|---|---|---|
| reader-writer lock `lck_rw_t` (`osfmk/i386/i386_lock.s`, `osfmk/i386/locks_i386.c`) | one word: reader count, interlock byte, want_write, want_upgrade, two waiting bits | lock shared / exclusive, try, upgrade, downgrade, done | wait queues by two events; scheduler by `rwlock_count` |
| mutex `lck_mtx_t` (same files) | owner; one word: waiters, priority, interlock, locked, promoted, spin | lock, lock_spin, try, convert_spin, unlock; spinwait, wait, acquire, wakeup | wait queues; scheduler by `promotions` and `sched_pri` |
| wait queues (`osfmk/kern/waitq.c`) | queue of threads, event mask | assert wait, select, wakeup one / all / thread, clear | scheduler, Mach IPC |
| thread wait state (`osfmk/kern/sched_prim.c`) | `TH_WAIT`, `TH_RUN`, `wait_result`, `at_safe_point`, wait timer | assert_wait, thread_block, clear_wait, timer expiry, abort, thread_go | wait queues, timers |
| semaphores (`osfmk/kern/sync_sema.c`) | count, wait queue, active flag, references | wait, timed wait, signal, signal_all, signal_thread, wait_signal, destroy | wait queues |
| thread calls (`osfmk/kern/thread_call.c`) | pending and delayed queue, worker counts and two timers per group; references and flags per call | enter, delayed enter, cancel, cancel_wait, free; workers, daemon, timers, rescan | timer calls, scheduler callbacks |
| message queues (`osfmk/ipc/ipc_mqueue.c`) | message list, count, limit, full-waiters flag | send, post, receive, set limit, changed, destroy | wait queues, ports |
| timer calls (`osfmk/kern/timer_call.c`) | per-processor ordered queues | enter, cancel, expire, migrate | seen by the above as "set", "callout on its way" |
| everything else: scheduler queues, ports and rights, vouchers, ledgers, virtual memory, BSD, I/O Kit | | | not modelled, see section 8 |

`PROJECT.json` lists every part as a component, modelled or not, with the reason, and
the hazards of the modelled parts: the behaviours a test hardly reaches, each at the
line where it bites and with the properties that would catch it.

How the parts meet in the models: `EventWait`, `Semaphore` and `MsgQueue` extend
`ThreadWait`, so a wait, a wakeup, a late timer callout and an abort are the same
actions in all three.  `RWLock` and `Mutex` use waits in the simplest form (declare,
sleep, be woken) and model what `ThreadWait` leaves out, the priorities.  `ThreadCall`
stands alone: its lock is a spin lock and its only use of a wait is
`thread_call_cancel_wait`.

## 2. Modules

| module | models or proves |
|---|---|
| `SharedExclusive` | what a reader-writer lock promises |
| `RWLock`, `MCRWLock` | `lck_rw_t`; instances |
| `RWLockProofs` | ownership of the word, wakeups, counts, refinement |
| `Mutex`, `MCMutex` | `lck_mtx_t` with priority lending; instances |
| `MutexProofs`, `MutexPriorities` | ownership and wakeups; promotions |
| `ThreadWait` | wait state of a thread, wait queues, wait timer, aborts |
| `ThreadWaitProofs` | the queues, for every module that extends `ThreadWait` |
| `EventWait`, `MCEventWait` | `assert_wait`, `thread_block`, `thread_wakeup_prim` on the global queues; instance |
| `EventWaitProofs` | timers, aborts, masks, wakeups |
| `Semaphore`, `MCSemaphore` | counting semaphores; instances |
| `MsgQueue`, `MCMsgQueue` | the message queue of a port; instance |
| `MsgQueueProofs` | slots, messages, senders and receivers |
| `ThreadCall`, `MCThreadCall` | thread calls; instances |
| `ThreadCallSteps`, `ThreadCallProofs` | every step keeps queues, counts and references exact; the theorems |

A definition that ends up in a mutated model ("Mutant: ...") is there to show that a
property can fail; it is no part of any specification.

### RWLock, SharedExclusive

`RWLock` has the word as a record, one program point per thread (`pc`), the snapshot
`prior_lock_state` (`prior`), the event a thread sleeps on (`waiting`), per thread
`rwlock_count` and `TH_SFLAG_RW_PROMOTED`, and `lck_rw_priv_excl`.  An action is one
atomic access to the word: a compare-and-swap of the assembly, taking the interlock
byte, or the code run behind it up to its release.  Actions carry the names of the
routines; a suffix names the step (`_fast` the swap of the entry point, `_deadline` the
end of spinning, `_want` and `_drain` the two loops of `lck_rw_lock_exclusive_gen`,
`_writers`, `_readers`, `_drop` those of `lck_rw_done_gen`).  Failed swaps and pauses
change nothing and are stuttering steps.  `prior` is reset where the code no longer
uses it.  `SharedExclusive` is the promise: modes none, shared, upgrading, exclusive
per thread; a granted upgrade never lets a writer in, a refused one leaves no hold.

### Mutex

Several mutexes, each with its word and owner; per thread the program point, the
mutex it works on (`obj`), its copy of the word (`ecx`), the mutexes it was told it
holds, and the scheduler's fields the lock changes.  An action is a successful swap
or the code behind the interlock up to the store that gives it back;
`lck_mtx_lock_finish` is the common tail that records the owner, promotes and drops
the interlock; an unlock is three steps (swap, store, wakeup) and a demotion.  What
the users of the lock keep to is stated in `NotHeld` and `MayBlock`: no recursive
locking, no blocking call under a spin hold, blocking calls in increasing order of
the mutexes.  Base priorities are fixed.

### ThreadWait, EventWait

`ThreadWait` has the fields of a thread that a wait changes, the wait queues with
their locks, event masks and order (`ahead`), and the wait timer: `armed` while it is on
a timer queue, `firing` for callouts that have left it and have not run.  The spin lock
of a thread is never seen held: a step is the code between two points where it is
free.  The lock of a queue is a variable, because `clear_wait_internal` (for the timer,
the two aborts, or a thread itself) only tries for it: `clearing` holds, for each kind
of caller, the queue it failed on.  The panic after `LockTimeOut` tries is left out:
locks are held for bounded times.

`EventWait` adds the clients: `assert_wait` with its variants and
`thread_wakeup_prim`, each a step that locks the queue and one that works under the
lock, and `thread_block`.  A thread may wake others between declaring a wait and
blocking.  `due` records, for two properties, that the clock has run out on the wait.

### Semaphore

`sync_sema.c` over `ThreadWait`, with a semaphore's queue lock as the semaphore lock.
A call is: take the references (`WaitCall`, `port_name_to_semaphore`, `SignalCall`,
`DestroyCall`), lock, work under the lock in one step, block if need be, drop the
references (`semaphore_dereference`, `LastReference`).  `active` also stands for the
owner field and the task's list, which change with it.  `units` records, for one
property, that the call was given a unit.  Each semaphore starts with a port whose
send rights hold one reference; once these are gone (`semaphore_notify`) no new port is
made.

### ThreadCall

Calls of three kinds: allocated ones, which are reference counted and can be waited
for (`Alloc`), ones in storage of their owner (`Setup`), and the entries of the
internal pool (`Internal`).  `Alike` are the calls with the one function and parameter
that `thread_call_func_cancel` is called with.  Per group the two queues,
the counts, `target_thread_count`, the flags, and both timers as "armed for" and
"callout on its way".  Deadlines are distances from now that `Tick` shortens; a timer may
expire anywhere in its window.  A step is a section under the group's lock; where the
code does several things to several calls in one section (the delayed timer, the
rescan, `thread_call_func_cancel` of all) `locked` says who goes on.  Workers run,
block and finish functions without the lock; the daemon creates threads without it.
Where the load on the system decides (`thread_call_group_should_add_thread`) the model
may go either way.  Two panics can be reached and are steps (`DaemonPanics`: "Pending
work, but threads are idle?"; `finish_panic`: "Someone waiting on a thread call that is
scheduled for free"): whoever panics keeps the lock for ever.  What a worker reads in
the storage of a freed call is any of the values `RefsRead`.

### MsgQueue

`ipc_mqueue.c` over `ThreadWait`.  A send reserves a slot, or waits for one, and then
posts; a receive takes the first message or waits to be handed one
(`ipc_mqueue_post` to a waiting receiver).  `port` goes from active through cleared (the
receive right is gone) to dead; `imq_msgcount` wraps at `MsgcountRange`.  `outside` is
where the messages are that no send is about.

## 3. Runs

| run | instance | checks |
|---|---|---|
| `rw_safety` | 3 threads, writers privileged or not, symmetric | `ReleaseFindsItsHold` (the word alone tells `lck_rw_done` its kind of hold, and no panic), `WritersNotForgotten`, `ReadersNotForgotten` (a sleeper has its waiting bit set and still has something to wait for, for a draining writer other than its own want bit, or somebody is about to wake it), `CountTracksHold` (the priority floor covers the holds and ends with them), `ImplementsSharedExclusive` |
| `rw_liveness` | 1 privileged writer, 2 readers that may upgrade | `PrivilegedAcquires`: who has want_write, or an upgrade under way, gets the lock |
| `mtx_one` | 3 threads of priorities 1, 2, 4, 1 mutex | `MutualExclusion`, `InterlockExclusive` (the plain stores behind the interlock lose nothing), `WaitersExact`, `NoLostWakeup`, `HolderBoosted`, `PromotionsExact` (a thread's promotions are those of the mutexes it is promoted for, and end with them), `WaiterServed` (liveness) |
| `event_waits` | 2 waiters and a waker, 2 events on 1 queue | `SleepersQueued`, `TimersCounted`, `AbortedAwake`, `WakeupsFind`, `TimeoutsDue` (a callout of the wait timer starts on a wait only when its deadline has passed; not what its retries for the queue lock end), `DeadlineEnds` (liveness) |
| `sem_signals` | 1 semaphore: a waiter with deadline or polling that is aborted, a plain waiter, a thread that signals in all ways and destroys | `TypeOK`, `WaitersMarked` (a thread waits only on an active semaphore with the count -1), `UnitsDelivered` (a plain, timed or polling wait succeeds exactly if it was given a unit), `SignalCounts` (a signal adds one unit, to the count or to one waiter) |
| `sem_refs` | 2 semaphores: a thread that waits on one and signals the other, two that end semaphores in all ways | `FreedUnused`, `LastReferenceFrees` (liveness) |
| `thread_calls` | one call of each kind, 2 workers, 1 waiting client, 1 group, thread creation may fail | `QueuesExact`, `CountsExact`, `DelayedCovered`, `RefsExact`, `OutstandingExact`, `WaiterWillWake` |
| `thread_calls_live` | one allocated and one other call, creation succeeds | `WorkNotForgotten` (pending calls have a worker, or the daemon, that will see to them), `DeallocTimerOnce`, `PendingRuns` and `WaiterReturns` (liveness, "unless the kernel panics") |
| `thread_call_groups` | 2 groups with a call each | violation of `PendingRuns`, see below |
| `thread_call_freed` | one allocated call, 1 worker, 1 waiting client | violation of `WorkerOwnsCall`, see below |
| `msg_queue` | 2 senders, 2 receivers, 3 messages, limits 0 and 1 | `TypeOK`, `SlotsExact`, `SendersRemembered`, `ReceiversServed`, `MessagesConserved` |
| `msg_queue_dead` | the same | violation of `DeinitOfEmptyQueue`, see below |

Deadlock is checked in all runs but the two of the message queue, where a dead port
with no thread in a call is the end of the system.

The three violations are findings in `PROJECT.json`.

* `thread_call_groups`: the daemon looks at each group once per wakeup; a call entered
  in a group it has passed, while it creates a thread for a later one, wakes nobody and
  stays pending (`thread_call.c:1321`).
* `thread_call_freed`: `thread_call_finish` gives up its reference, drops the lock to wake
  the clients of `thread_call_cancel_wait`, and looks at the call again
  (`thread_call.c:1135`); a client that runs first may have freed it.
* `msg_queue_dead`: a receiver that looked the queue up before the port died declares its
  wait on the destroyed queue (`ipc_mqueue.c:852`).

## 4. Bounds

Three threads are the least with which a holder, a sleeper and a newcomer meet (or a
winning upgrader, a losing one and a writer; or an unlocker, a sleeper that was lent
for and a contender).  No counter of the two locks is bounded: reader and waiter counts
are bounded by the number of threads.

`MaxFiring` bounds the callouts of one timer in flight: two in `event_waits` let a late
one meet the next.  In `event_waits` the bits of one event lie within those of the
other, so that the mask test passes for a queue without the event; one waiter is
preferred and uninterruptible, the other is aborted in both ways and has deadlines.

`MaxCount` keeps a semaphore's count from being raised further (the signaller stays in
front of the lock); 2 in `sem_signals` is one more than the waiters can take at a time.
`MaxRefs` keeps `semaphore_destroy` from being called again and again on a destroyed
semaphore, which leaks a reference each time (section 7).

`Workers` bounds the threads of a pool: with two, one can block, be waited for or retire
while the other works.  `THREAD_CALL_ADD_RATIO` is 4 in `thread_calls`, as in the code,
and 1 in `thread_calls_live`, so that one call more than there are workers lets the pool
grow; that the pool grows is also what lets the daemon meet an idle worker and panic.  Delays are one tick, so that soft and hard deadline can differ by one and be
past.  `MsgcountRange` stands for 2^32 and is 8; it is larger than the number of
messages, as memory guarantees, but not by much, so that a count that falls below zero
is seen.  A `Qlimits` of {0, 1} makes queues full, and admits a limit below what is
queued; `MACH_PORT_QLIMIT_KERNEL` is 2.

## 5. Fairness

* `RWLock`: every thread inside the lock's code goes on (weak fairness of `Continue`: a
  runnable thread runs, spinning ends at a deadline), and a holder that keeps being
  able to release does so (strong fairness of `lck_rw_done`, whose swap may find the
  interlock taken now and then).
* `Mutex`: strong fairness of `Continue` and of the unlock, because each swap competes
  with others for the word and the hardware lets every processor win in the end.
* `EventWait`: the holder of a queue lock lets go of it, the clock advances and callouts
  run (weak), and a callout that keeps trying for a queue lock that is free again and
  again gets it (strong; the code panics otherwise).  Nothing is assumed of wakers.
* `Semaphore`: a thread in a call goes on, and gets a lock that is free again and again;
  the last reference gets the task lock likewise (`mutex_pause` backs off between tries).
* `ThreadCall`: a section under the lock ends (weak); workers, waiting clients and the
  daemon, which take a spin lock that is free again and again, get it (strong);
  functions return, and what they block on happens.  Nothing is assumed of clients or
  timers.

## 6. Proofs

All theorems hold for every value of the constants that satisfies the assumptions
named in the modules.  What these say of the code: threads, workers and mutexes are
finite sets; priorities are numbers; `None` names nothing; a queue's number, a delay, a
limit has its type; a signal to a thread names a thread; the messages there are, which
must fit in memory, are fewer than a 32-bit count can tell apart.  TLC evaluates them in
every run.

| module | theorems | property of a run |
|---|---|---|
| `RWLockProofs` | `Invariance`, `ExclusionHolds`, `ReleaseSafe`, `WritersAreWoken`, `ReadersAreWoken`, `CountTracks`, `Refinement` | the five of `rw_safety` |
| `MutexProofs` | `MutexExclusion`, `InterlockSafe`, `WaitersCounted`, `WakeupsNotLost` | the first four of `mtx_one` |
| `MutexPriorities` | `PromotionsBalance`, `OneMutexBoosts` | `PromotionsExact`, `HolderBoosted` |
| `EventWaitProofs` | `TimersAreCounted`, `AbortsEndWaits`, `TimeoutsAreDue`, `SleepersAreQueued`, `WakeupsReach` | the five safety properties of `event_waits` |
| `MsgQueueProofs` | `SlotsAreExact`, `SendersAreRemembered`, `ReceiversAreServed`, `MessagesAreConserved` | all of `msg_queue` but `TypeOK` |
| `ThreadCallProofs` | `QueuesAreExact`, `CountsAreExact`, `ReferencesAreExact`, `OutstandingIsExact`, `WaitersWillWake`, `DeallocTimerIsOnce` | those of `thread_calls` but `DelayedCovered`; `DeallocTimerOnce` |
| | `StorageIsSound` (a call is allocated while it is queued or its function runs; an internal entry is off its free list only while queued) | none |

`ReferencesAreExact` and `StorageIsSound` stop where the reference does: a worker in the
last part of `thread_call_finish` has none, and is not covered (finding
`thread_call_freed`).  `PromotionsBalance` is about any number of mutexes, also taken in
nested order, though the run has one.

Each proof finds an inductive invariant and shows that every action keeps it.

* **RWLock.**  `IInv` is the type invariant with `SharedCountExact` (the reader count is
  the number of holds), `BitsOwned` (want_write, want_upgrade and the interlock have one
  owner each, told by the program points) and `HoldsExclude`.  Mutual exclusion is not
  inductive without the owners of the bits, because a writer that waits for readers
  to drain holds nothing yet.  The wakeup theorems add what each step owes the
  sleepers (`KeepsWriters`, `KeepsDrainers`): one that clears the bit, or takes away what
  a sleeper waits for, takes on its wakeup; `CountTracks` adds that `prior` still tells
  which hold is being dropped.  `Refinement` maps the program points to the modes
  of `SharedExclusive`.
* **Mutex.**  `IInv` gives the locked and the interlock bit one owner each; `WInv` adds
  that the waiters field counts the threads between the two places where it is changed,
  and that somebody is responsible for a sleeper.  `PInv` adds the lending of
  priorities: the promoted bit belongs to the owner, a woken thread that was promoted
  for a mutex still contends for it, and each thread's `promotions` counts the mutexes it
  is promoted for.  `OneMutexBoosts` assumes that there is one mutex (section 7).
* **ThreadWait.**  `QueueInv`: a thread is on a queue exactly if it waits there, once, and
  `MaskInv`: the mask of a queue covers the events waited for.  They are proved once for
  the steps of `ThreadWait`, and used for `EventWait` and `MsgQueue`.
* **EventWait.**  `IInv` adds what each program point knows about its wait; `EventInv` adds
  the hashing of events to queues.  `TimeoutsAreDue` rests on `RetryIsDue`: a callout that
  starts, and has to try again for the queue lock, started on a wait that was due.
* **MsgQueue.**  `IInv` has the place of each message (`Placed`), the slots
  (`Slots`: `imq_msgcount` is the number of messages queued and of slots reserved or passed
  on), and what each sender and receiver knows; a slot passed on to a sender that is
  not yet running is what the count alone cannot show.
* **ThreadCall.**  `IInv` is `QueueInv`, `PoolInv` (counts of the workers) and `CallInv`
  (references, outstanding submissions, storage).  Cardinalities enter as the hypothesis
  `FiniteCounts`, which `CountsOfFiniteSets` discharges.  Then, on top of it: `DeallocInv`, and
  `WaitInv` (for a client that waits, a function is in flight that will see
  `THREAD_CALL_WAIT`, or the wakeup is on its way).

Only model-checked:

* liveness (`PrivilegedAcquires`, `WaiterServed`, `DeadlineEnds`, `LastReferenceFrees`,
  `PendingRuns`, `WaiterReturns`), which is out of the prover's reach;
* `WaitersMarked`, `UnitsDelivered`, `SignalCounts` and `FreedUnused` of `Semaphore`: they need
  an invariant of their own about the unit, the references and the locks each call has at
  every program point, also of the calls that hold two semaphores;
* `DelayedCovered` and `WorkNotForgotten` of `ThreadCall`: the first rests on the order of the
  delayed queue, the second holds only with one group whose threads can be created;
* `TypeOK` of `Semaphore` and of `MsgQueue`, whose bounds (`MaxCount`, `MaxRefs`, `MaxFiring`)
  belong to the instances; the proofs use type invariants of their own.

## 7. Observations about the code

What the models showed beyond the properties; none of these is assumed away.

* A callout of the wait timer that failed to get the semaphore lock tries again
  (`sched_prim.c:1328`), and may then end a later `semaphore_wait` on the same
  semaphore, one without deadline, with `KERN_OPERATION_TIMED_OUT`;
  `osfmk/man/semaphore_wait.html:24-44` lists no timeout.  `TimeoutsDue` is therefore about
  the start of a callout, not about its retries.
* `semaphore_convert_wait_result` is applied to `self->wait_result` although no wait was
  declared on that path (`sync_sema.c:738`, comment at 730-733): the result is that of an
  earlier wait.  `UnitsDelivered` says nothing of `semaphore_wait_signal` when the
  semaphore it signals is dead.
* A failed `semaphore_destroy` keeps the reference it took (`sync_sema.c:281`).
* `semaphore_signal_all` leaves a positive count alone.
* The two reader-writer try-locks take the lock before they raise `rwlock_count`
  (`i386_lock.s:531`, `:654`: "a 3 instr window where preemption may not notice"), which
  `locks.c:1076-1082` says should be the other way round; `CountTracksHold` excepts the
  window.
* With two mutexes `HolderBoosted` does not hold: releasing one takes back what the
  other relies on.
* `thread_abort_safely` gives up when the thread meanwhile waits on another queue.
* `thread_call_wake` has `group->flags &= TCG_DEALLOC_ACTIVE` (`thread_call.c:1062`) where the
  complement is meant: it clears `TCG_PARALLEL`.
* The daemon panics with "Pending work, but threads are idle?" (`thread_call.c:185`) when it
  looks at a parallel group with pending calls where one worker was woken and another is
  idle.  `thread_calls_live` reaches this (`DaemonPanics`); `WorkNotForgotten` says that a
  worker is awake whenever it happens.
* A failed thread creation leaves `active_count` raised for ever, although the comment
  says "We can try again later."; so `WorkNotForgotten` is checked where creation succeeds.
* The daemon passes a group (finding `thread_call_groups`).
* `thread_call_cancel_wait` returns TRUE without waiting when the call is in flight and was
  entered again (comment at `thread_call.c:998-1005`).
* `thread_call_finish` reads `tc_refs` after it has dropped the lock to wake the waiters
  (finding `thread_call_freed`).
* With two clients in `thread_call_cancel_wait` of one call and two of its functions in
  flight, a cancellation that counts as a finish lets both return with
  `THREAD_CALL_WAIT` still set; after `thread_call_free` the last `thread_call_finish`
  panics (`thread_call.c:1137`) though nobody waits.  The runs have one client.
* `thread_call_isactive` is wrong for calls in their owner's storage, which have no counts.
* A receiver may wait on the queue of a dead port (finding `msg_queue_dead`), and a
  sender that reserved its slot before the port died and posts after makes
  `imq_msgcount` wrap; raising a limit that was lowered admits more senders than there
  are slots (`ipc_mqueue_set_qlimit`).

## 8. Left out

Statistics, lock groups, DTrace probes, debugging variants and the indirect mutexes
that carry them (same protocol behind one more pointer); `lck_rw_sleep`,
`lck_mtx_sleep` and `lck_mtx_yield`; wait queue sets, links and preposts, and with them
port sets and messages to kernel objects; thread suspension (`thread_stop`); the order
within timer queues (a timer is set, on its way, or has run, and callouts come in any
order); semaphores created later or moved between tasks; destruction of locks;
overflow of the 16-bit reader and waiter counts, which would take 65536 threads on one
lock; changes of a thread's base priority while it holds a mutex, time-share decay and
run queues, for which fairness stands.  Memory ordering is that of x86: locked
instructions are atomic and the plain stores behind the interlock are seen in order.

The other parts of the kernel (virtual memory, ports and rights, vouchers, ledgers,
tasks, BSD, networking, I/O Kit, platform code) are listed in `PROJECT.json` with the
reason why they are not modelled: most are systems of their own above the core
modelled here, or sequential code behind one lock, or hardware and I/O.
