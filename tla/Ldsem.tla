------------------------------- MODULE Ldsem -------------------------------
(***************************************************************************)
(* The line-discipline semaphore of drivers/tty/tty_ldisc.c: the           *)
(* reader/writer lock of drivers/tty/tty_ldsem.c, whose waiters may time   *)
(* out, with schedule_timeout() of kernel/time/timer.c below it.           *)
(*                                                                         *)
(* sem->wait_lock masks interrupts, and an interrupt that takes the lock   *)
(* (tty_ldisc_ref() never sleeps) gives it back before it returns; so the  *)
(* arithmetic on count together with the section under wait_lock is one    *)
(* step, and the retries of its compare-and-exchange loops are not needed. *)
(* What may come at any point between two steps of a waiter is the timer   *)
(* that schedule_timeout() keeps on the waiter's stack.  A holder of the   *)
(* lock does not sleep for another reason, a bound, so that some task is   *)
(* always runnable and the idle task never runs.                           *)
(***************************************************************************)
EXTENDS Sched, ListHead, Integers

CONSTANTS
  MASK,        \* LDSEM_ACTIVE_MASK, 2^k - 1
  Timeouts,    \* the finite timeouts that callers pass, in jiffies
  MAX          \* MAX_SCHEDULE_TIMEOUT

ASSUME MaskAssumption == MASK \in Nat \ {0} /\ IsFiniteSet(Tasks) /\ Cardinality(Tasks) < MASK

ASSUME TimeoutAssumption == Timeouts \subseteq Nat \ {0} /\ MAX \notin Timeouts \cup {0}

VARIABLES
  count,         \* sem->count
  wait_readers,  \* sem->wait_readers
  read_wait,     \* sem->read_wait, the tasks of its waiters
  write_wait,    \* sem->write_wait
  left,          \* each waiter's timeout, as expire - jiffies while it sleeps
  armed,         \* the tasks whose on-stack timer is queued
  pc             \* where each task stands

ldsemVars == <<count, wait_readers, read_wait, write_wait, left, armed, pc>>

vars == <<schedVars, ldsemVars>>

ACTIVE_BIAS == 1

WAIT_BIAS == -MASK - 1

WRITE_BIAS == WAIT_BIAS + ACTIVE_BIAS

\* count & LDSEM_ACTIVE_MASK
Active(c) == c % (MASK + 1)

\* "read", "write": holds the lock; "r_top": queued as a reader, at the head
\* of the loop; "_sleep": about to call schedule(); "_slept": in it, or back.
Location == {"out", "read", "write", "r_top", "r_sleep", "r_slept", "w_sleep", "w_slept"}

Init ==
  /\ SchedInit
  /\ count = 0
  /\ wait_readers = 0
  /\ read_wait = <<>>
  /\ write_wait = <<>>
  /\ left = [t \in Tasks |-> MAX]
  /\ armed = {}
  /\ pc = [t \in Tasks |-> "out"]

----------------------------------------------------------------------------
(* Waking *)

Nobody(c, readers, n) == [count |-> c, readers |-> readers, n |-> n, wake |-> {}]

\* Mutation: the adjustment is kept although a writer holds the lock.
__ldsem_wake_readers_NoUndo(c, readers, n) ==
  [count |-> c + n * (ACTIVE_BIAS - WAIT_BIAS), readers |-> <<>>, n |-> 0, wake |-> ToSet(readers)]

\* Turn all waiting readers into active ones, unless a writer is active.
__ldsem_wake_readers(c, readers, n) ==
  LET adjusted == c + n * (ACTIVE_BIAS - WAIT_BIAS)
  IN IF adjusted > 0
     THEN [count |-> adjusted, readers |-> <<>>, n |-> 0, wake |-> ToSet(readers)]
     ELSE Nobody(c, readers, n)

\* A writer is only woken: it takes the lock itself.
__ldsem_wake(c, readers, n) ==
  IF write_wait # <<>> THEN [Nobody(c, readers, n) EXCEPT !.wake = {Head(write_wait)}]
  ELSE IF readers # <<>> THEN __ldsem_wake_readers(c, readers, n)
  ELSE Nobody(c, readers, n)

\* Carry out what one of the above decided.
Apply(r) ==
  /\ count' = r.count
  /\ read_wait' = r.readers
  /\ wait_readers' = r.n
  /\ wake_up_q(r.wake)
  /\ UNCHANGED <<curr, sig>>

----------------------------------------------------------------------------
(* schedule_timeout() *)

\* Set the state and call schedule_timeout(), up to schedule().
prepare(t, timeout, next) ==
  /\ tstate' = [tstate EXCEPT ![t] = "UNINTERRUPTIBLE"]
  /\ left' = [left EXCEPT ![t] = timeout]
  /\ armed' = IF timeout = MAX THEN armed \ {t} ELSE armed \cup {t}
  /\ pc' = [pc EXCEPT ![t] = next]
  /\ UNCHANGED <<on_rq, curr, need_resched, sig>>

schedule(t) ==
  /\ curr = t
  /\ pc[t] \in {"r_sleep", "w_sleep"} \/ (pc[t] \in {"r_slept", "w_slept"} /\ need_resched)
  /\ __schedule(t)
  /\ pc' = [pc EXCEPT ![t] = IF @ \in {"r_sleep", "r_slept"} THEN "r_slept" ELSE "w_slept"]
  /\ UNCHANGED <<count, wait_readers, read_wait, write_wait, left, armed>>

\* Mutation: the timer runs out without waking the sleeper.
process_timeout_Silent(t) ==
  /\ t \in armed /\ left[t] = 0
  /\ armed' = armed \ {t}
  /\ UNCHANGED <<schedVars, count, wait_readers, read_wait, write_wait, left, pc>>

\* The timer of t expires: not before its time, but maybe later.
process_timeout(t) ==
  /\ t \in armed /\ left[t] = 0
  /\ armed' = armed \ {t}
  /\ wake_up_process(t)
  /\ UNCHANGED <<curr, sig, count, wait_readers, read_wait, write_wait, left, pc>>

\* jiffies advances.
do_timer ==
  /\ \E t \in Tasks : left[t] \notin {MAX, 0}
  /\ left' = [t \in Tasks |-> IF left[t] \in {MAX, 0} THEN left[t] ELSE left[t] - 1]
  /\ UNCHANGED <<schedVars, count, wait_readers, read_wait, write_wait, armed, pc>>

\* Leave the slow path: del_singleshot_timer_sync() has removed the timer.
leave(t, next) ==
  /\ left' = [left EXCEPT ![t] = MAX]
  /\ armed' = armed \ {t}
  /\ pc' = [pc EXCEPT ![t] = next]

----------------------------------------------------------------------------
(* Reading *)

down_read_fast(t) ==
  /\ curr = t /\ pc[t] = "out"
  /\ count + ACTIVE_BIAS > 0
  /\ count' = count + ACTIVE_BIAS
  /\ pc' = [pc EXCEPT ![t] = "read"]
  /\ UNCHANGED <<schedVars, wait_readers, read_wait, write_wait, left, armed>>

\* Turn the failed attempt into a waiter and, if nobody is active, wake the
\* first in line.
down_read_failed(t, timeout) ==
  LET c == count + WAIT_BIAS
      readers == list_add_tail(read_wait, t)
  IN /\ curr = t /\ pc[t] = "out"
     /\ count + ACTIVE_BIAS <= 0
     /\ left' = [left EXCEPT ![t] = timeout]
     /\ pc' = [pc EXCEPT ![t] = "r_top"]
     /\ Apply(IF Active(c) = 0 THEN __ldsem_wake(c, readers, wait_readers + 1)
              ELSE Nobody(c, readers, wait_readers + 1))
     /\ UNCHANGED <<write_wait, armed>>

ReadLoop(t) == curr = t /\ (pc[t] = "r_top" \/ (pc[t] = "r_slept" /\ ~need_resched))

\* waiter.task is NULL: a wake-up has made t active.
read_granted(t) ==
  /\ ReadLoop(t) /\ ~InList(read_wait, t)
  /\ leave(t, "read")
  /\ UNCHANGED <<schedVars, count, wait_readers, read_wait, write_wait>>

\* Mutation: a reader that times out leaves its bias in count.
read_timeout_KeepsBias(t) ==
  /\ ReadLoop(t) /\ InList(read_wait, t) /\ left[t] = 0
  /\ wait_readers' = wait_readers - 1
  /\ read_wait' = list_del(read_wait, t)
  /\ leave(t, "out")
  /\ UNCHANGED <<schedVars, count, write_wait>>

read_timeout(t) ==
  /\ ReadLoop(t) /\ InList(read_wait, t) /\ left[t] = 0
  /\ count' = count - WAIT_BIAS
  /\ wait_readers' = wait_readers - 1
  /\ read_wait' = list_del(read_wait, t)
  /\ leave(t, "out")
  /\ UNCHANGED <<schedVars, write_wait>>

read_again(t) ==
  /\ ReadLoop(t) /\ InList(read_wait, t) /\ left[t] # 0
  /\ prepare(t, left[t], "r_sleep")
  /\ UNCHANGED <<count, wait_readers, read_wait, write_wait>>

ldsem_down_read_trylock(t) ==
  /\ curr = t /\ pc[t] = "out"
  /\ count >= 0
  /\ count' = count + ACTIVE_BIAS
  /\ pc' = [pc EXCEPT ![t] = "read"]
  /\ UNCHANGED <<schedVars, wait_readers, read_wait, write_wait, left, armed>>

\* The last reader wakes the first waiter.
ldsem_up_read(t) ==
  LET c == count - ACTIVE_BIAS
  IN /\ curr = t /\ pc[t] = "read"
     /\ Apply(IF c < 0 /\ Active(c) = 0 THEN __ldsem_wake(c, read_wait, wait_readers)
              ELSE Nobody(c, read_wait, wait_readers))
     /\ pc' = [pc EXCEPT ![t] = "out"]
     /\ UNCHANGED <<write_wait, left, armed>>

----------------------------------------------------------------------------
(* Writing *)

down_write_fast(t) ==
  /\ curr = t /\ pc[t] = "out"
  /\ Active(count + WRITE_BIAS) = ACTIVE_BIAS
  /\ count' = count + WRITE_BIAS
  /\ pc' = [pc EXCEPT ![t] = "write"]
  /\ UNCHANGED <<schedVars, wait_readers, read_wait, write_wait, left, armed>>

down_write_failed(t, timeout) ==
  /\ curr = t /\ pc[t] = "out"
  /\ Active(count + WRITE_BIAS) # ACTIVE_BIAS
  /\ count' = count + WRITE_BIAS - ACTIVE_BIAS
  /\ write_wait' = list_add_tail(write_wait, t)
  /\ prepare(t, timeout, "w_sleep")
  /\ UNCHANGED <<wait_readers, read_wait>>

WriteLoop(t) == curr = t /\ pc[t] = "w_slept" /\ ~need_resched

\* writer_trylock(): no other task is active.
writer_trylock == Active(count + ACTIVE_BIAS) = ACTIVE_BIAS

write_granted(t) ==
  /\ WriteLoop(t) /\ writer_trylock
  /\ count' = count + ACTIVE_BIAS
  /\ write_wait' = list_del(write_wait, t)
  /\ leave(t, "write")
  /\ UNCHANGED <<schedVars, wait_readers, read_wait>>

\* Mutation: the writer leaves without waking the readers behind it.
write_timeout_NoWake(t) ==
  /\ WriteLoop(t) /\ ~writer_trylock /\ left[t] = 0
  /\ write_wait' = list_del(write_wait, t)
  /\ Apply(Nobody(count - WAIT_BIAS, read_wait, wait_readers))
  /\ leave(t, "out")

\* A writer that times out gives its place back; if it was the last writer
\* the readers that waited behind it may join those that are active.
write_timeout(t) ==
  LET c == count - WAIT_BIAS
  IN /\ WriteLoop(t) /\ ~writer_trylock /\ left[t] = 0
     /\ write_wait' = list_del(write_wait, t)
     /\ Apply(IF write_wait' = <<>> THEN __ldsem_wake_readers(c, read_wait, wait_readers)
              ELSE Nobody(c, read_wait, wait_readers))
     /\ leave(t, "out")

write_again(t) ==
  /\ WriteLoop(t) /\ ~writer_trylock /\ left[t] # 0
  /\ prepare(t, left[t], "w_sleep")
  /\ UNCHANGED <<count, wait_readers, read_wait, write_wait>>

ldsem_down_write_trylock(t) ==
  /\ curr = t /\ pc[t] = "out"
  /\ Active(count) = 0
  /\ count' = count + WRITE_BIAS
  /\ pc' = [pc EXCEPT ![t] = "write"]
  /\ UNCHANGED <<schedVars, wait_readers, read_wait, write_wait, left, armed>>

ldsem_up_write(t) ==
  LET c == count - WRITE_BIAS
  IN /\ curr = t /\ pc[t] = "write"
     /\ Apply(IF c < 0 THEN __ldsem_wake(c, read_wait, wait_readers)
              ELSE Nobody(c, read_wait, wait_readers))
     /\ pc' = [pc EXCEPT ![t] = "out"]
     /\ UNCHANGED <<write_wait, left, armed>>

----------------------------------------------------------------------------
(* The rest of the system *)

resched(t) == pc[t] \in {"out", "read", "write"} /\ cond_resched(t) /\ UNCHANGED ldsemVars

irq_wakes(p) == stray_wake_up(p) /\ UNCHANGED ldsemVars

tick == update_process_times /\ UNCHANGED ldsemVars

----------------------------------------------------------------------------

ReadStep(t) ==
  \/ down_read_fast(t) \/ (\E timeout \in Timeouts \cup {MAX} : down_read_failed(t, timeout))
  \/ ldsem_down_read_trylock(t) \/ ldsem_up_read(t)

WriteStep(t) ==
  \/ down_write_fast(t) \/ (\E timeout \in Timeouts \cup {MAX} : down_write_failed(t, timeout))
  \/ ldsem_down_write_trylock(t) \/ ldsem_up_write(t)

\* Back from schedule_timeout().
Return(t) ==
  \/ read_granted(t) \/ read_timeout(t) \/ read_again(t)
  \/ write_granted(t) \/ write_timeout(t) \/ write_again(t)

Next ==
  \/ \E t \in Tasks :
       \/ ReadStep(t) \/ WriteStep(t) \/ Return(t)
       \/ schedule(t) \/ process_timeout(t) \/ resched(t) \/ irq_wakes(t)
  \/ do_timer
  \/ tick

switch_to(t) == (\E u \in Tasks \ {t} : schedule(u) \/ resched(u)) /\ curr' = t

\* The scheduler as in Semaphore; time passes, and timers expire.  Nothing
\* is assumed of the tasks that hold the lock.
Fairness ==
  /\ \A t \in Tasks :
       SF_vars(switch_to(t)) /\ SF_vars(Return(t)) /\ WF_vars(process_timeout(t))
  /\ WF_vars(\E t \in Tasks : schedule(t) \/ resched(t))
  /\ WF_vars(tick)
  /\ WF_vars(do_timer)

Spec == Init /\ [][Next]_vars

FairSpec == Spec /\ Fairness

----------------------------------------------------------------------------
(* Properties *)

In(locations) == {t \in Tasks : pc[t] \in locations}

\* Readers that were made active and have not returned yet.
Granted == {t \in In({"r_top", "r_sleep", "r_slept"}) : ~InList(read_wait, t)}

\* No path leaves a bias behind: count is what the holders and the waiters
\* add up to, through timeouts, failed attempts and wake-ups that are undone.
CountExact ==
  /\ count = ACTIVE_BIAS * Cardinality(In({"read"}) \cup Granted)
             + WRITE_BIAS * Cardinality(In({"write"}))
             + WAIT_BIAS * (Len(read_wait) + Len(write_wait))
  /\ wait_readers = Len(read_wait)

\* Nobody waits for nothing: while no task is active, a queued writer is
\* awake and will try; readers wait only behind a writer, queued or active.
NoLostWakeup ==
  /\ write_wait # <<>> /\ Active(count) = 0 => \E t \in on_rq : InList(write_wait, t)
  /\ read_wait # <<>> /\ write_wait = <<>> => In({"write"}) # {}

\* A timeout is kept whatever the holders of the lock do: a waiter with one
\* returns, with the lock or without, though no task ever gives it up.
TimedWaitEnds ==
  \A t \in Tasks : left[t] # MAX ~> left[t] = MAX

\* For its users the semaphore is a reader/writer lock.
Abstract == INSTANCE RWLock WITH readers <- In({"read"}), writers <- In({"write"})

ImplementsLock == Abstract!Spec

=============================================================================
