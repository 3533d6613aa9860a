# TLA+ models of the minimal kernel

The repository is Linux 5.19-rc8 stripped to what boots to a "Hello, World!"
in QEMU (`minified/`, about 112 000 lines of C): 32-bit x86, one CPU,
`CONFIG_PREEMPT_NONE`, many subsystems reduced to stubs.  This directory holds
TLA+ modules of the parts whose correctness depends on interleaving (the
scheduler core and the sleeping locks, timers, softirqs and RCU, the folio
lock, descriptor tables), TLC configurations that check them, and TLAPS
proofs.

## What runs concurrently

There is one CPU and no kernel preemption.  `preempt_disable()` is a compiler
barrier and a spinlock masks interrupts at most.  So kernel code of a task is
atomic with respect to other tasks between two calls of `__schedule()`; what
interleaves with it is

* **other tasks**, wherever it calls `schedule()` or `cond_resched()`;
* **interrupts**, wherever they are enabled: they wake tasks
  (`try_to_wake_up()`), set `need_resched`, run softirqs, and switch to nobody.

All modules take their granularity from this: one action per stretch of code
between two such points.

## Inventory

| component | state | operations | hard part | correct when |
|---|---|---|---|---|
| scheduler core, `kernel/sched/core.c` | `__state`, `on_rq`, `rq->curr`, `TIF_NEED_RESCHED` | wake-up, switch, fork, death, tick | wake-ups between a state change and `__schedule()` | no runnable task is off the queue, no dead task comes back |
| idle loop, `kernel/sched/idle.c` | where it stands, interrupt flag | test, halt, leave | wake-up between test and halt | never halts on top of work |
| CFS, `kernel/sched/fair.c` | vruntime tree, slices | enqueue, pick, tick | ordering, arithmetic | picks every queued task again and again |
| semaphore, `kernel/locking/semaphore.c` | count, wait list | `down`, `down_trylock`, `up` | hand-over to a task about to sleep | units conserved, FIFO, no lost wake-up |
| mutex, `kernel/locking/mutex.c` | owner word with flags, wait list | `mutex_lock*`, `mutex_trylock`, `mutex_unlock` | stealing, hand-over, signals | exclusive, nobody starves |
| rwsem, `kernel/locking/rwsem.c` | count word, owner, wait list | `down_read*`, `down_write*`, `up_*`, `downgrade_write` | stealing, timeouts, hand-over, batch wake-up, signals | readers xor writer, count exact, nobody starves |
| signals, `kernel/signal.c` | pending sets, `TIF_SIGPENDING` | `signal_wake_up`, blocking | sender against sleeper | (only as an actor here) |
| wait queues, `kernel/sched/wait.c` | entry lists | prepare, wake, finish | exclusive entries whose wake function may refuse | every waiter is found (`FolioLock`) |
| folio lock, `mm/filemap.c` | `PG_locked`, `PG_waiters`, hashed wait queues | lock, wait, unlock | buckets shared by folios, hand-over, killed waiters | one owner, nobody forgotten, every wait ends |
| softirqs, `kernel/softirq.c` | pending mask, `preempt_count` | raise, `__do_softirq`, irq exit | restart limit without ksoftirqd | everything raised is served and the task gets on |
| RCU, `kernel/rcu/tiny.c` | callback list with two tails | `call_rcu`, `rcu_qs`, `rcu_process_callbacks` | callbacks that queue callbacks, interrupts | grace period, order, all callbacks run |
| timer wheel, `kernel/time/timer.c` | buckets, bitmap, base clock, `next_expiry` | `mod_timer`, `del_timer`, expiry | wrapping clock, unlocked checks | no bucket skipped, no callback early |
| line-discipline semaphore, `drivers/tty/tty_ldsem.c` | count, two wait lists | read/write lock with timeout | timeout against grant | readers xor writer, count exact, timeouts kept |
| descriptor tables, `fs/file.c` | `files_struct` with its `fdtable`, sharing | `open`, `dup`, `dup2`, `close`, `fork`, `exec`, `exit` | resizing while others use the table, failed forks | bitmaps, slots and counts agree |
| deferred close, `fs/file_table.c`, `kernel/task_work.c`, `kernel/workqueue.c` | `f_count`, `task_works`, `delayed_fput_list` | `fput`, `task_work_run`, `queue_work_on` | who closes what, when the task exits | no file left, none closed early |
| percpu rwsem, `kernel/locking/percpu-rwsem.c` | reader count, block flag | read lock only | nothing ever write-locks it | not modelled |
| fork/exit, kthreads | process tree, zombies | `copy_process`, `do_exit`, `wait4` | parent against child | tasks and their files only |
| memory, `mm/` | free lists, region lists, slabs, page tables | alloc, free, map | merge/split arithmetic, limits | allocators planned |
| path walk and mounts, `fs/` | dentries, inodes, mounts | lookup, mount | reference counts | dentries planned |
| tty buffer, driver core, lib | flip buffer, klist, kobject, idr | | reference counts, reader/writer hand-over | planned |
| initramfs, `init/initramfs.c` | cpio state machine | | input split at any point | planned |
| boot and arch code, printk, strings | | | sequential or I/O | not planned |

`PROJECT.json` lists every component with its status, and the hazards, each at
its line, with the properties that would catch it.

## Modules

```
Sched ......... operators of the scheduler core
  SchedCore ... the scheduler under its most general client, with the idle loop
  Semaphore   Mutex   RWSem   Ldsem ... the sleeping locks
                 \      |      /
                  RWLock ............. the abstract lock these three implement
  FolioLock ... the folio lock on its wait queues
ListHead ...... list_add_tail(), list_del(), list_del_all()
LockLemmas .... lemmas on Sched and ListHead, on which rest
  SchedulerProofs ... SchedCore and Semaphore
  MutexProofs   RWSemProofs   LdsemProofs   FolioLockProofs
Timer ......... the timer wheel
Softirq ....... the softirq loop
  RcuTiny ..... tiny RCU on top of it
SoftirqProofs . RcuTiny and Timer
FdTable ....... descriptor tables as values
TaskWork ...... fput(), task_work, the workqueue stub
  Files ....... processes that use both
    FilesProofs
MC* ........... instances for TLC, with the .cfg files
```

**Sched** has the state every other module shares.  `tstate[p]` is
`p->__state`, `on_rq` the set of tasks that are queued, `curr` is `rq->curr`,
`need_resched` the flag of the current task, `sig[p]` what
`signal_pending_state()` sees.  `try_to_wake_up`, `__schedule`,
`preempt_schedule_common` (that is `__schedule(SM_PREEMPT)`) keep the names of
the code.  Two things that the code does and one might not expect are kept:
`try_to_wake_up()` compares the state mask for the current task only, and
`__schedule()` puts a task back to `TASK_RUNNING` if a signal it listens to is
pending.  `get_signal()` is a stub in this tree, so a fatal signal stays
pending for ever (`recalc_sigpending`).

**SchedCore** lets the current task do anything the scheduler's interface
allows, in any order, and interrupts wake any task that may be on a wait list
or a timer (`Wakeable`).  That nobody wakes a dead task after the switch away
from it is an assumption on the callers, as `try_to_wake_up()` compares no mask
for a task that is not current; what the model checks is the window before the
switch, in which what the dying task left behind may still fire.  The idle loop has a program counter: the interrupt window is
between the loop test (`tested`) and the second read of `need_resched` with
interrupts off.

**Semaphore**, **Mutex**, **RWSem** have one action per stretch of the lock
functions between two sleeps.  The window between "queued and not
`TASK_RUNNING`" and `schedule()` is a location of its own (`sleep`), so that an
interrupt can come in between; `slept` is inside `schedule()` or just back from
it, and with `need_resched` set `schedule()` goes round again.  Around the lock
there are preemption, ticks, stray wake-ups, signals, and tasks that sleep for
another reason with the lock held.

* `Semaphore`: `up_flag[t]` is `waiter.up`; `held` counts units out, because a
  semaphore has no owner (`console_sem` is released by whoever printed last).
* `Mutex`: the owner word is `owner` and `flags`; `CanTake` and
  `FlagsAfterTrylock` are `__mutex_trylock_common()`.
* `RWSem`: `count` is the integer of the code, with its bits.
  `rwsem_mark_wake` and its callers are functions from what they read to what
  they change (count, list, owner, readers admitted, tasks to wake), which the
  actions `Apply`.  `expired` says whose timeout has passed; it may pass at any
  time.

**RWLock** is what users rely on: one writer or any number of readers.  The
refinement mapping takes the tasks between the return of the lock function and
the call of the unlock function.

**Timer** keeps times as unsigned numbers of `Width` bits and compares them as
`jiffies.h` does.  A section under `base->lock` is a step; `mod_timer()` by a
task is two, as it looks at the timer before it takes the lock.  `mark[t]` is
history: `clamped` for a timeout beyond the wheel's reach, `stale` for a timer
that was found on the expired list (see the observations).

**Softirq** is the loop of `__do_softirq()` with the points at which interrupts
may come in; **RcuTiny** extends it with the callback list (`rcucblist` and the
number of its entries before `donetail`), readers, user mode and the tick.
`order` and `guarded` are history: the callbacks not yet invoked in the order
of `call_rcu()`, and those that the present reader protects.

**FolioLock** puts all folios in one bucket.  `wait[t]` is the
`wait_page_queue` on the waiter's stack with its flags; `folio_unlock` includes
the walk of `__wake_up_common()` over the queue with `wake_page_function()`.
Tasks take several folios only in ascending order and with trylock, as
`find_lock_entries()` does.

**Ldsem** has `schedule_timeout()` below it: `left[t]` is what is left of a
timeout, the timer may fire (`process_timeout`) at any point between two steps
of the waiter once it is due.

**FdTable** is a set of functions from a table to a table, named like those of
`fs/file.c`.  **TaskWork** is what happens to a file at its last `fput()`.
`alloc` are the `struct file`s in use; the one list of the workqueue stub is
detached by whoever queues the work.  **Files** composes the two: a step ends
where the code may sleep (allocation of a bigger table, path walk, the body of
`read()`, `->release()`).  `want_fd` is `alloc_fd()` or the beginning of
`ksys_dup3()`, whichever called `expand_files()`.  `fdget()` takes both paths of
`__fget_light()`, told apart by the count of the table.  `execve()` works on the
table as it is, shared or not, since `unshare_fd()` is a stub: `close_on_exec_bit`,
`close_on_exec_word` and `close_on_exec_end` are the stretches of
`do_close_on_exec()` between two files that it closes, with what it keeps in
`loc`: the rest of the word (`set`) and which fdtable it points to (`fd2`, its
size).  When another task has replaced that fdtable (`Stale`) it reads the array
embedded in `files_struct` as it was left (`fd_array`) or, of a later one, memory
that `free_fdtable_rcu()` may have freed, any contents.  Two variables are
history: `short`, the files of which `fdput()` dropped a reference that `fdget()`
had not taken, and `torn`, whether an exec has closed a descriptor of a replaced
fdtable.

Operators whose comment starts with "Mutation:" are deliberately wrong
variants of the definition that follows.  Each property has one: with the
variant in place of the definition TLC finds the property violated.

## Runs

| run | instance | states | shows |
|---|---|---|---|
| `sched_core` | 3 tasks | 57 000 | `CoreInv` (with `CurrQueued`, `DeadNotQueued`), `RunnableQueued`, `NoHaltWithWork`, `DeadStaysDead`, `IdleEnds` |
| `semaphore` | 3 tasks, 2 units | 2 000 | `Conservation`, `NoBarging`, `NoLostWakeup`, `FIFO`, `DownReturns` |
| `mutex` | 3 tasks, uninterruptible or interruptible, signals that can be blocked, one task that sleeps as a holder | 58 000 | `IInv` (with the flags and the wait list), `OwnerHolds`, `NoLostWakeup`, `NoStealAfterHandoff`, `ImplementsLock`, `NoStarvation` |
| `rwsem` | 3 tasks, killable or not, fatal signals, `MAX_READERS_WAKEUP` 1, symmetry | 398 000 | `CountExact`, `NoLostWakeup`, `NoReaderLeftBehind`, `NoStealAfterHandoff`, `ImplementsLock` |
| `rwsem_live` | 3 tasks, uninterruptible | 29 000 | `NoStarvation` |
| `timer` | 2 timers, 2 levels of 4 buckets, 5-bit clock | 1 600 000 | `NextExpirySafe`, `BucketRight`, `NoWarning`, `NeverEarly` |
| `rcu` | 4 callbacks, `MAX_SOFTIRQ_RESTART` 3 | 35 100 | `GracePeriod`, `CallbackOrder`, `CallbackRuns`, `SoftirqYields` |
| `foliolock` | 3 tasks, 2 folios in one bucket, one killable task, unfairness 1 | 67 000 | `OneOwner`, `NoLostWakeup`, `WaitEnds` |
| `ldsem` | 3 tasks, timeout 1 or none | 48 000 | `CountExact`, `NoLostWakeup`, `ImplementsLock`, `TimedWaitEnds` |
| `files` | 2 tasks and a kernel thread, 2 files, 2 tables, words of 2 bits, 3 descriptors, symmetry | 634 000 | `RefExact`, `TableConsistent`, `NoFileLeft` |
| `files_fdput` | 2 tasks | | finds `CloseFindsCount` violated, see the findings |
| `files_exec` | 2 tasks | | finds `AllocFindsEmptySlot` violated, see the findings |

Bounds.  Three tasks give a holder, a first waiter and a second waiter or a
thief, which is what every branch of the lock functions distinguishes (first
or not, alone or not).  Two units make a semaphore whose hand-over and whose
trylock can coexist; a third task then queues.  With three tasks at most two
readers queue, so `MAX_READERS_WAKEUP` (256 in the code) is 1 to let the limit
bite.  In the mutex an
interruptible waiter with a signal stands for a killable one with a fatal
signal, which takes the same paths, and an uninterruptible one ignores the
signal; the proofs cover the other combinations.  The rwsem has no interruptible variant.  `rwsem_live` drops
signals, which only let waiters leave, and sleeping holders, to stay within
minutes.
The wheel needs two levels for a timer to be put in a coarse bucket, and a
clock of 5 bits wraps within a turn of the wheel, so the bounds on lag
(`MaxLag`: how far the softirq may be behind the tick) and on the ticks that
pass inside one `mod_timer()` (`MaxTicks`) keep `jiffies` comparisons meaningful,
as 2^31 ticks do in the code; `MCView` identifies states up to a shift of the
clock by a turn of the coarsest level.  Four callbacks fill both parts of the
list while one runs and one is queued from it.  Two folios in a bucket make
wake-ups for a neighbour; unfairness 1 (5 in the code) lets a waiter lose the
lock once before it is handed over.  In `files` a word has 2 bits so that the
third descriptor makes a table grow; `MaxHeld` and `MaxHeldInAll` bound the
descriptors that hold a file to 2 in a table and 3 in all, not those that an
`open()` in progress has taken; `OpenCloexec` has every file opened
close-on-exec, so that an exec has something to close in any word.  `Bounded`
follows a behaviour up to and including the step that makes `short` or `torn`
true, after which the properties speak of the other files or of nothing; what
they say then is proved.  The two violation runs are not `Bounded`.
`MCView` drops what no later step reads.
In `foliolock` and `ldsem` a holder does not sleep
for another reason, so the idle task, which those modules leave out, never runs.

No other counter in these models is unbounded.

Fairness.  `SchedCore` assumes weak fairness of the idle loop: it runs when it
is current.  The lock modules assume of CFS that every queued task is switched
to again and again (strong fairness of the switch to it) and then executes
long enough to finish the few instructions of its wait loop (strong fairness
of those; `sysctl_sched_min_granularity` guarantees a slice); that the tick
comes; that time passes; and of the users that a holder lets go and that what
they wait for elsewhere happens.  Nothing is assumed about stealing, signals or
stray wake-ups.  `Ldsem` assumes the same of the scheduler and that time passes
and due timers fire, but not that holders let go.  `FolioLock` assumes that
holders unlock, as folios are locked over bounded sections.  `RcuTiny` assumes
that the tick does not stop, that handlers and read-side sections end, and that
a task with `need_resched` set gets to `schedule()`, at the end of its system
call at the latest.

## Findings

* `fdput()` (`include/linux/file.h:33-38`) calls `fput()` without a look at
  `FDPUT_FPUT`.  `__fget_light()` takes no reference for a task that is alone
  with its table.  The run `files_fdput` opens a file, reads once and has a
  descriptor whose file has count 0, which `filp_close()` reports as an error
  (`fs/open.c:724`).  `fdput_pos()` has the same trouble with the position lock,
  which it and `fdput()` both unlock.

* `do_close_on_exec()` (`fs/file.c:546-565`) reads `fdt` once per word and goes
  on with it after `filp_close()` and `cond_resched()`.  Upstream the table is
  private by then; here `unshare_fd()` is a stub (`kernel/fork.c:1735`), and a task
  that shares the table may have made it grow.  The exec then empties the slot
  in the old fdtable and frees the descriptor in the new one, whose slot still
  holds the file, without a reference.  The run `files_exec` ends there;
  `alloc_fd()` calls it an error when it hands the descriptor out
  (`fs/file.c:437`, "slot %d not NULL!").

Observations that no run is about, met while modelling:

* `mod_timer()` on a timer that the softirq has moved to its list of expired
  timers leaves it there if the new bucket has the same index; it then fires
  with the others, early (`stale` in `Timer`).  And the unlocked
  `timer_pending()` of `__mod_timer()` may see a timer that has just expired by
  the time the lock is taken.
* `queue_work_on()` (`kernel/workqueue.c:11`) says it "runs work immediately", but
  a work that is queued again while it sleeps is dropped, and `delayed_fput()`
  then leaves files on its list.  It takes two kernel threads that drop files;
  `NoFileLeft` says that with one the list stays empty, and nothing beyond.
* `rcu_barrier()` waits on a completion, and completions are stubs: it returns
  with its `rcu_head`, on the stack, still queued.
* `tty_ldisc_lock()` that times out returns `-EBUSY` with `TTY_LDISC_CHANGING`
  still set.

## Proofs

`SchedulerProofs` proves of `SchedCore`, for any set of tasks, from the one
assumption that the idle task is not among them:

* `CoreInvariance`: `CoreSpec => []CoreInv`, where `CoreInv` is `CoreTypeOK`, `RunnableQueued`,
  `CurrQueued`, `NoHaltWithWork`, `DeadNotQueued` and `IdlePcIdle` (the idle
  loop is past its test only while the idle task is current).  None of them is
  inductive alone: a switch keeps `RunnableQueued` only if the task that calls
  it was queued (`CurrQueued`); a halt keeps `NoHaltWithWork` only because queued
  work came with `need_resched`; a wake-up keeps `DeadNotQueued` because of who
  may be woken and of the mask.
* `CoreTypes`, `NoTaskLost`, `NeverHaltsWithWork`, `DeadNeverQueued`: its
  parts as properties of the specification;
* `DeathIsFinal`: `CoreSpec => DeadStaysDead`, an action property.

The lemmas `WakeInv`, `ScheduleInv` and `PreemptInv` say that `try_to_wake_up()`
and the two forms of `__schedule()` keep the invariant; the actions cite them.

Of `Semaphore` it proves, for any set of tasks and any positive number of units:
`Conservation`, `NoBarging` and `NoLostWakeup` are inductive together, with the
types, `SchedOK` and the finiteness of the set of grants: `NoBarging` needs that
`up()` adds to count only with an empty list, conservation needs that the task
`up()` grants to had no grant yet, which is what `NoLostWakeup` says of the list.
`UnitsConserved`, `NobodyBarges`, `WakeupsKept` are the parts.  `GrantedInOrder` is
the action property `FIFO`: whoever is not ahead of a waiter does not get ahead of
it and is granted no unit while it waits.  It takes both ends of the list, that
newcomers go behind everybody (`AppendOrder`) and that the unit goes to the one
before whom nobody stands (`HeadBefore`, `TailOrder`); `ListStep` sums up what a
step does to the list.  `ClientOfScheduler` ties the two modules:
every step of the semaphore is a step of `SchedCore` or leaves the scheduler
alone, so its behaviours, with the idle loop kept at its test, which `Semaphore`
does not look into, are behaviours of the scheduler core.  The other locks
wake several tasks or block in one step, which `SchedCore` takes several for;
they use the scheduler through the lemmas of `LockLemmas` only.

`MutexProofs` proves, for any set of tasks, from the assumptions that neither
the idle task nor `NULL` is one of them and that the lock functions use the
three sleep states:

* `Invariance`: `Spec => []IInv`, where `IInv` is `TypeOK`, the invariants on
  the owner word, its flags and the wait list, and `RunQueue`, what the mutex relies on the scheduler for.  The
  flags and the list need each other: a failed attempt by a waiter may set
  HANDOFF without a test of the list because whoever makes it is queued; an
  unlock that hands over finds somebody because HANDOFF implies waiters; a
  waiter that gives up or goes back to sleep is never the one the lock was
  handed to, which is what keeps `NoLostWakeup`; a task that is not queued was
  not handed the lock (`PickupIsFirst`, `QueuedExactly`), so the fast path takes
  only a free one.  `NoLostWakeup` also needs that whom `try_to_wake_up()` skips,
  because it is running, is queued (`RunQueue`).
* `Exclusion`, `FlagBits`, `WakeupsKept`: its parts;
* `NoStealing`: `Spec => NoStealAfterHandoff`;
* `Refinement`: `Spec => ImplementsLock`, the mutex implements `RWLock`.  Both
  follow from `OwnerStep`, which sums up what a step may do to the owner word.

`LockLemmas` has what these proofs and those below keep needing: what
`list_add_tail()`, `list_del()` and `list_del_all()` do to the entries of a list
without duplicates and to the first one; that such a list is as long as its set
of entries is large; and what the operators of `Sched` do to the run queue
(`WakeUp`, `Scheduled`, `Preempted`, `StateSet`, `Ticked`), stated for the part of
its state the locks rely on, `SchedOK`.  `list_del_all()` is a recursive function;
that its recursion defines a function and what the function returns is proved by
`InductionUpTo`, an induction principle over sets of numbers, itself proved from
the well-foundedness of inclusion on finite sets.

`RWSemProofs`, for any set of tasks, any `MAX_READERS_WAKEUP` but 0, and any of
the sleep states.  The code decides on a copy of the word and of the list, so the
invariant is a predicate on a *configuration*, `Config(c, list, g, at)`: the queue
holds each task of the slow path once unless it is in the set `g` of readers let
in (`QueueOK`), writers exclude readers (`Exclusive`), the word `c` has the digits
that `list`, `g` and `at` say (`WordOK`).  `IInv` says this of the variables, and that
the first waiter of a free lock is a writer and awake (`FirstOK`) and that readers
let in are awake (`GrantedOK`).  The argument has three layers:

* the word: `WordRead` and `WordWritten` say what testing, setting and clearing
  each bit, and adding biases, do to the digits;
* decisions: `rwsem_mark_wake()`, `rwsem_wake()`, `rwsem_cond_wake_waiter()` and
  `rwsem_del_wake_waiter()` turn a configuration into an `Outcome`, a
  configuration whose first waiter, if nobody holds the lock, is a writer that
  is awake or is being woken (`MarkWakeOutcome` and the lemmas after it);
* steps: each action makes a configuration out of the present one (`TakesRead`,
  `DropsWrite`, `Enqueued`, `Dequeued`, ...), takes a decision on it, and carries it
  out (`CarriedOut`).

The theorems are `CountIsExact`, `WakeupsKept`, `ReadersLetIn`, `HandoffKept` (the
action property: neither fast path nor a thief gets a lock with HANDOFF set) and
`Refinement` (it implements `RWLock`, with `Downgrade`).

`LdsemProofs`, for any finite set of tasks whose number fits the active part of
count (`MaskAssumption`; 16 bits on this build, where `pid_max` is 32768) and any
timeouts.  `TwoDigits`
reads count as a number in base `MASK + 1`: the low digit is how many are active,
readers that were let in and have yet to return among them, the high one,
subtracted, how many wait or write.  `Alone`, `WriterTold`, `BehindWriter` and the
place of each task on the lists (`Queued`) complete the invariant: a reader that
times out may leave its bias only if it is still on the list, and the readers
that a timed-out writer lets in are let in only if no other writer is there.
`CountIsExact`, `NobodyForgotten`, `Refinement`.

`FolioLockProofs`, for any tasks, any folios in the bucket and any unfairness.
`WaitOK` says of each `wait_page_queue` in which order its flags are set and when it
is on the bucket; `Owned` that a locked folio has one owner, the sleeper it is
handed to included; `Remembered` that a waiter's folio has PG_waiters and is
locked, or that an exclusive waiter of it is awake.  The last is what a killed
waiter and `folio_unlock()` with neighbours in the bucket must keep.
`FolioOwned`, `WaitersFound`.

`SoftirqProofs`, of `RcuTiny`, for any callbacks and any restart limit.  `InOrder`: the list
being invoked followed by the one being filled is the order of `call_rcu()`;
`Protected`: nothing that a reader protects is before donetail; `Raised`:
`RCU_SOFTIRQ` is pending only with callbacks done, and is not raised while it is
served.  `ReadersSafe`, `InvokedInOrder`, and `NoSpuriousSoftirq`: the early return
of `rcu_process_callbacks()` is dead code on this build.

`SoftirqProofs`, of `Timer`, for any timers, any timeouts, any width of the clock
and any number, size and ratio of levels, from `WheelAssumption`: a level spans more
than a granule of the next (`LVL_CLK_SHIFT < LVL_BITS`), the bits of the wheel fit
an unsigned long, the longest timeout is within `NEXT_TIMER_MAX_DELTA`, and the
timeouts asked for with the lag of the softirq and of `mod_timer()` stay within
half of the clock's range.  The build (32 bits, 3, 6, 8 levels or 9) is such a wheel, for
timeouts below 2^30 ticks less those lags.  The argument is in four layers:

* powers of 2, quotients and remainders, from the cardinality of power sets, as
  the library has no other theorem on exponents;
* the wrapping clock: a time is the base clock and an offset (`Offset`, `AddSub`),
  the comparisons of `jiffies.h` are comparisons of offsets below `Half`, and
  `Dist(i, c)` is how many ticks after time `c` bucket `i` is collected;
* what the functions compute, in these terms: `calc_wheel_index()` picks the bucket
  whose distance is the time rounded up to its level's granule, `lvl_clk`, which is
  recursive in the level, is the clock rounded up once (`LvlClk`: that function
  satisfies the recursion, and a least level where another one differed cannot be),
  `__next_timer_interrupt()` is the least distance of a pending bucket although
  it stops at the first level that cannot be overtaken, and
  `collect_expired_timers()` takes exactly the buckets at distance 0;
* steps: `TimerInv` is kept by each action.

`TimerInv` is the types and seven facts: the bitmap is exact (`MapExact`), no pending
bucket is due before `next_expiry` (`NextFirst`), one is due exactly then unless a
deletion set `next_expiry_recalc` (`NextHits`), the softirq's lag is bounded
(`Lag`), a queued timer is collected within a granule of its expiry or was
overdue when it was armed (`Placed`), an expiring one is due (`Due`), and what
`mod_timer()` computed before the lock is not old (`Asked`).  `Placed` is not
inductive without `NextFirst`, since a clock that jumps over a bucket puts it a
whole turn away; and no comparison means anything without `Lag` and `Asked`,
which keep times within half of the range.  `NextExpiryNeverLate`, `BucketsRight`,
`NeverWarns`, and `CallbacksNeverEarly`, an action property.

`FilesProofs`, for any finite sets of tasks and tables, any files, any size of a
word and any limits on descriptors, from the assumptions that `NULL` is none of
them, that `init` is not a kernel thread, and that the limit of a process
(`NOFILE`, 1024 in the code, as `setrlimit()` is a stub) is not above
`sysctl_nr_open`.  Nothing is assumed of who reads or execs: the invariant is
`~torn => IInv /\ Queues`, since after an exec on a replaced fdtable no part of it
holds.  It has four parts.

* Each table by itself (`Sound`): the bitmap is within the table and covers the
  slots in use, `next_fd` and the full words hide no free descriptor.  The lemmas
  on `FdTable` say what `alloc_fd()`'s search, `take_fd`, `__put_unused_fd`,
  `copy_table` and the growing of a table keep of it; that `alloc_fdtable()`
  returns a table big enough is where powers of 2 come in (`PowerAbove`).
* Tables and tasks: a descriptor that is taken and empty is promised to exactly
  one task that will install a file there (`Promised`), one task at most resizes,
  and the table is too small for its descriptor until it does (`OneResizes`);
  the count of a table is the number of its users, a fork that is copying into
  it included (`Counted`); a table that is being made or taken apart is in one
  task's hands (`Private`, `Parents`, `Empty`); and `Placed` says which local
  variables each location has.  Without `Private` a fork that is copying and a
  table that is being closed could meet; without `Promised` a `dup2()` onto a
  descriptor that `open()` has reserved could not be told from one onto a free
  one, and an exec could close one that `open()` has reserved.
* References (`RefsOK`): `f_count` is at most the number of descriptors and hands
  that hold the file, and exactly that for files outside `short`.  `Balance` says
  how a step that changes one slot and one task's hands changes that number,
  `RefsCopied` how `dup_fd()` does, for all slots at once.
* Lists (`Queues`): a file is allocated exactly if it has references or waits, on
  one list, once (`Waits`, for files outside `short`); who has files to close is
  on its way to do so (`Workers`); with one kernel thread the work is pending
  only while that thread runs it, so `delayed_fput_list` is always taken at once
  (`Delayed`).

`TablesConsistent`, `NoFileIsLeft` and `RefsExact` are the properties of the run,
whoever shares, reads and execs.  Two theorems bound the findings:
`EmptySlotUnlessTorn` (before an exec on a replaced fdtable no free descriptor
has a file in its slot) and `CloseMissesCountIfShort` (before such an exec, only
a file that was read on the light path of `fdget()` has an open descriptor and
count 0).  `NoRefLeaks`: the missing reference makes a file be closed early,
never be kept.

The inductive invariants of the modules above were checked by TLC on the
instances of the runs before they were proved.

Liveness (`IdleEnds`, `DownReturns`, `NoStarvation`, `CallbackRuns`,
`SoftirqYields`, `WaitEnds`, `TimedWaitEnds`) is model-checked only, as fairness is
out of the prover's reach.

## What is not modelled, and why

* Interrupts inside `try_to_wake_up()`.  `wake_up_q()` calls it with interrupts
  enabled and, in this tree, without `pi_lock`; a nested wake-up of the same
  task is a hazard of its own (see the hazards), to be modelled at a finer
  grain.
* CFS: which queued task is picked, and when a wake-up preempts, is a
  nondeterministic choice here.
* `TASK_STOPPED`, `TASK_TRACED`, `TASK_PARKED`: no code path of this
  configuration that is modelled uses them.
* Optimistic spinning, lockdep, SMP: compiled out.
* The READFAIL bit of the rwsem (2^23 readers).
* Timers: `del_timer_sync()` is `del_timer()` on one CPU; `hrtimer`s, clock events
  and `MOD_TIMER_REDUCE`, which has no caller, are left out.
* Files: the position lock, `O_PATH` files, the path walk.
* Completions, `percpu_down_write()`, `rcu_sync_enter()`, `task_work_cancel()`,
  tasklets: stubs or without a caller in this tree.
* The rest of the tree, listed as `not_modelled` in `PROJECT.json`.  The modules
  stand for about 4 000 lines out of 183 000: most of the tree is boot and
  device initialisation that runs once and in order, headers, architecture code
  and the build's own tools, or path walk, memory management and the driver
  model, whose correctness is in data structures (trees, page tables) rather
  than in control.

## Plan

1. `TtwuIrq`: `try_to_wake_up()` at the grain of its reads and writes with
   nested interrupts; whether it still implements the atomic wake-up of
   `Sched`, and what `nr_running` counts.
2. `FairRq`: vruntime, `min_vruntime`, slices, with wrap-around arithmetic.
3. `Buddy`, `Memblock`, `Slub`: allocators against a set of free pages.
4. `TtyBuffer`, `Klist`, `Initramfs`, the process tree.
