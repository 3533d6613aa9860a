------------------------------- MODULE Mutex -------------------------------
(***************************************************************************)
(* The sleeping mutex of kernel/locking/mutex.c.                           *)
(*                                                                         *)
(* lock->owner packs a task pointer and three flag bits into one word;     *)
(* here it is the pair owner, flags.  On the uniprocessor build the code   *)
(* between two calls of schedule() is atomic with respect to other tasks,  *)
(* no interrupt touches a mutex, and every cmpxchg succeeds at its first   *)
(* attempt.  What interleaves is everything a waiter may find after        *)
(* schedule(): the lock stolen by a task that never slept, handed to it,   *)
(* a signal, a wake-up that has nothing to do with the lock.               *)
(***************************************************************************)
EXTENDS Sched, ListHead

CONSTANTS NULL,        \* no owner
          LockStates,  \* the sleep states of the lock functions in use
          Fatality,    \* the kinds of signal sent: fatal (TRUE) or not
          Blockers     \* the tasks that sleep for other reasons too

ASSUME NULLAssumption == NULL \notin Tasks

ASSUME ParamAssumption == LockStates \subseteq SleepState /\ Fatality \subseteq BOOLEAN /\ Blockers \subseteq Tasks

VARIABLES
  owner,       \* __mutex_owner(lock)
  flags,       \* __owner_flags(lock->owner)
  wait_list,   \* lock->wait_list, the tasks of the queued waiters
  pc,          \* where each task stands
  lstate       \* the sleep state the task's lock function asks for

mutexVars == <<owner, flags, wait_list, pc, lstate>>

vars == <<schedVars, mutexVars>>

Flag == {"WAITERS", "HANDOFF", "PICKUP"}

\* "out":   neither holds the mutex nor waits for it
\* "sleep": in __mutex_lock_common(), about to call schedule()
\* "slept": inside, or just back from, schedule()
\* "cs":    mutex_lock() has returned, mutex_unlock() not been called
Location == {"out", "sleep", "slept", "cs"}

Init ==
  /\ SchedInit
  /\ owner = NULL
  /\ flags = {}
  /\ wait_list = <<>>
  /\ pc = [t \in Tasks |-> "out"]
  /\ lstate = [t \in Tasks |-> "UNINTERRUPTIBLE"]

----------------------------------------------------------------------------
(* The owner word *)

\* Mutation: a lock that was handed over may be taken by anybody.
CanTake_AnyPickup(t) == owner = NULL \/ "PICKUP" \in flags

\* Mutation: an owned lock is taken for free while it has no waiters.
CanTake_Owned(t) == owner = NULL \/ flags = {} \/ (owner = t /\ "PICKUP" \in flags)

\* __mutex_trylock_common() succeeds: the lock is free, or it was handed to t.
CanTake(t) == owner = NULL \/ (owner = t /\ "PICKUP" \in flags)

\* Mutation: PICKUP survives the acquisition.
FlagsAfterTrylock_KeepsPickup(t, handoff) ==
  IF ~CanTake(t) /\ handoff /\ "PICKUP" \notin flags THEN flags \cup {"HANDOFF"} ELSE flags

\* Mutation: the first waiter never asks for a hand-over.
FlagsAfterTrylock_NoHandoff(t, handoff) == IF CanTake(t) THEN flags \ {"PICKUP"} ELSE flags

\* The flags it leaves behind: success takes PICKUP off, and a failed attempt
\* by the first waiter asks for a hand-over.
FlagsAfterTrylock(t, handoff) ==
  IF CanTake(t) THEN flags \ {"PICKUP"}
  ELSE IF handoff /\ "PICKUP" \notin flags THEN flags \cup {"HANDOFF"}
  ELSE flags

\* __mutex_add_waiter() and __mutex_remove_waiter(), on the flags f.
FlagsAfterAdd(f) == IF wait_list = <<>> THEN f \cup {"WAITERS"} ELSE f

FlagsAfterRemove(f, list) == IF list = <<>> THEN {} ELSE f

----------------------------------------------------------------------------
(* mutex_lock(), mutex_lock_interruptible(), mutex_lock_killable() *)

\* The fast path and the first __mutex_trylock() of the slow path; also
\* mutex_trylock(), which has no effect when it fails.
mutex_lock_uncontended(t) ==
  /\ curr = t /\ pc[t] = "out"
  /\ CanTake(t)
  /\ owner' = t
  /\ flags' = FlagsAfterTrylock(t, FALSE)
  /\ pc' = [pc EXCEPT ![t] = "cs"]
  /\ UNCHANGED <<schedVars, wait_list, lstate>>

\* The slow path up to the first schedule_preempt_disabled().
mutex_lock_wait(t, state) ==
  /\ curr = t /\ pc[t] = "out"
  /\ ~CanTake(t)
  /\ ~signal_pending_state(state, t)
  /\ wait_list' = list_add_tail(wait_list, t)
  /\ flags' = FlagsAfterAdd(flags)
  /\ tstate' = [tstate EXCEPT ![t] = state]
  /\ lstate' = [lstate EXCEPT ![t] = state]
  /\ pc' = [pc EXCEPT ![t] = "sleep"]
  /\ UNCHANGED <<on_rq, curr, need_resched, sig, owner>>

\* With a signal pending the waiter is queued and taken off again: -EINTR.
mutex_lock_eintr(t, state) ==
  /\ curr = t /\ pc[t] = "out"
  /\ ~CanTake(t)
  /\ signal_pending_state(state, t)
  /\ flags' = FlagsAfterRemove(FlagsAfterAdd(flags), wait_list)
  /\ UNCHANGED <<schedVars, owner, wait_list, pc, lstate>>

\* schedule() goes round again when it comes back with need_resched set.
sleep(t) ==
  /\ curr = t
  /\ pc[t] = "sleep" \/ (pc[t] = "slept" /\ need_resched)
  /\ __schedule(t)
  /\ pc' = [pc EXCEPT ![t] = "slept"]
  /\ UNCHANGED <<owner, flags, wait_list, lstate>>

Back(t) == curr = t /\ pc[t] = "slept" /\ ~need_resched

First(t) == Head(wait_list) = t

\* __mutex_trylock_or_handoff() succeeds after the sleep.
woken_acquires(t) ==
  /\ Back(t)
  /\ CanTake(t)
  /\ owner' = t
  /\ wait_list' = list_del(wait_list, t)
  /\ flags' = FlagsAfterRemove(FlagsAfterTrylock(t, First(t)), wait_list')
  /\ pc' = [pc EXCEPT ![t] = "cs"]
  /\ UNCHANGED <<schedVars, lstate>>

\* It fails, and a signal ends the wait.
woken_eintr(t) ==
  /\ Back(t)
  /\ ~CanTake(t)
  /\ signal_pending_state(lstate[t], t)
  /\ wait_list' = list_del(wait_list, t)
  /\ flags' = FlagsAfterRemove(FlagsAfterTrylock(t, First(t)), wait_list')
  /\ pc' = [pc EXCEPT ![t] = "out"]
  /\ UNCHANGED <<schedVars, owner, lstate>>

\* It fails, and the waiter goes back to sleep.
woken_waits(t) ==
  /\ Back(t)
  /\ ~CanTake(t)
  /\ ~signal_pending_state(lstate[t], t)
  /\ flags' = FlagsAfterTrylock(t, First(t))
  /\ tstate' = [tstate EXCEPT ![t] = lstate[t]]
  /\ pc' = [pc EXCEPT ![t] = "sleep"]
  /\ UNCHANGED <<on_rq, curr, need_resched, sig, owner, wait_list, lstate>>

----------------------------------------------------------------------------
(* mutex_unlock() *)

\* __mutex_handoff(lock, next): the lock changes hands before next runs.
__mutex_handoff(next) ==
  /\ owner' = next
  /\ flags' = (flags \cap {"WAITERS"}) \cup (IF next = NULL THEN {} ELSE {"PICKUP"})

\* Mutation: the lock is handed to the last waiter.
mutex_unlock_HandsToLast(t) ==
  /\ curr = t /\ pc[t] = "cs"
  /\ IF "HANDOFF" \in flags
     THEN __mutex_handoff(IF wait_list = <<>> THEN NULL ELSE Last(wait_list))
     ELSE owner' = NULL /\ UNCHANGED flags
  /\ IF flags \cap {"WAITERS", "HANDOFF"} # {} /\ wait_list # <<>>
     THEN wake_up_q({Head(wait_list)})
     ELSE UNCHANGED <<tstate, on_rq, need_resched>>
  /\ pc' = [pc EXCEPT ![t] = "out"]
  /\ UNCHANGED <<curr, sig, wait_list, lstate>>

\* Mutation: the slow path wakes the first waiter only to hand over.
mutex_unlock_NoWake(t) ==
  /\ curr = t /\ pc[t] = "cs"
  /\ IF "HANDOFF" \in flags
     THEN /\ __mutex_handoff(Head(wait_list))
          /\ wake_up_q({Head(wait_list)})
     ELSE owner' = NULL /\ UNCHANGED <<flags, tstate, on_rq, need_resched>>
  /\ pc' = [pc EXCEPT ![t] = "out"]
  /\ UNCHANGED <<curr, sig, wait_list, lstate>>

\* The fast path, when there are no flags, and __mutex_unlock_slowpath().
mutex_unlock(t) ==
  /\ curr = t /\ pc[t] = "cs"
  /\ IF "HANDOFF" \in flags
     THEN __mutex_handoff(IF wait_list = <<>> THEN NULL ELSE Head(wait_list))
     ELSE owner' = NULL /\ UNCHANGED flags
  /\ IF flags \cap {"WAITERS", "HANDOFF"} # {} /\ wait_list # <<>>
     THEN wake_up_q({Head(wait_list)})
     ELSE UNCHANGED <<tstate, on_rq, need_resched>>
  /\ pc' = [pc EXCEPT ![t] = "out"]
  /\ UNCHANGED <<curr, sig, wait_list, lstate>>

----------------------------------------------------------------------------
(* The rest of the system *)

\* Tasks are preempted in the critical section as well as outside.
resched(t) == pc[t] \in {"out", "cs"} /\ cond_resched(t) /\ UNCHANGED mutexVars

\* They sleep there as well: a mutex may be held across I/O.
blocks(t) ==
  /\ t \in Blockers
  /\ pc[t] \in {"out", "cs"}
  /\ wait_elsewhere(t)
  /\ UNCHANGED mutexVars

task_signals(p, fatal) ==
  /\ curr \in Tasks => pc[curr] \in {"out", "cs"}
  /\ signal_wake_up(p, fatal)
  /\ UNCHANGED mutexVars

set_current_blocked(t) == pc[t] = "out" /\ recalc_sigpending(t) /\ UNCHANGED mutexVars

irq_wakes(p) == stray_wake_up(p) /\ UNCHANGED mutexVars

tick == update_process_times /\ UNCHANGED mutexVars

leave_idle == schedule_idle /\ UNCHANGED mutexVars

----------------------------------------------------------------------------

LockStep(t) ==
  \/ mutex_lock_uncontended(t)
  \/ \E state \in LockStates : mutex_lock_wait(t, state) \/ mutex_lock_eintr(t, state)
  \/ sleep(t)
  \/ woken_acquires(t) \/ woken_eintr(t) \/ woken_waits(t)
  \/ mutex_unlock(t)

Environment ==
  \/ \E t \in Tasks : resched(t) \/ blocks(t) \/ set_current_blocked(t) \/ irq_wakes(t)
  \/ \E t \in Tasks, fatal \in Fatality : task_signals(t, fatal)
  \/ tick
  \/ leave_idle

Next == Environment \/ \E t \in Tasks : LockStep(t)

\* CFS runs every queued task again and again, and lets it execute a few
\* instructions before the next tick preempts it; what a task waits for
\* elsewhere happens, and a holder unlocks some day.
Fairness ==
  /\ \A t \in Tasks :
       /\ SF_vars(Next /\ curr # t /\ curr' = t)
       /\ SF_vars(woken_acquires(t) \/ woken_eintr(t) \/ woken_waits(t) \/ mutex_unlock(t))
       /\ WF_vars(pc[t] \in {"out", "cs"} /\ irq_wakes(t))
  /\ WF_vars(\E t \in Tasks : sleep(t) \/ resched(t))
  /\ WF_vars(tick \/ leave_idle)

Spec == Init /\ [][Next]_vars

FairSpec == Spec /\ Fairness

----------------------------------------------------------------------------
(* Properties *)

TypeOK ==
  /\ SchedTypeOK
  /\ owner \in Tasks \cup {NULL}
  /\ flags \subseteq Flag
  /\ wait_list \in Seq(Tasks)
  /\ pc \in [Tasks -> Location]
  /\ lstate \in [Tasks -> SleepState]

\* The lock as its users see it: a task holds it from the return of
\* mutex_lock() to mutex_unlock().
Holder == {t \in Tasks : pc[t] = "cs"}

\* Who is in the critical section is who the owner word names, unless the
\* word says that the named task has yet to pick the lock up.
OwnerHolds == Holder = {t \in Tasks : owner = t /\ "PICKUP" \notin flags}

\* The WAITERS bit sends mutex_unlock() into the slow path exactly when a
\* waiter is queued there.
WaitersFlag == "WAITERS" \in flags <=> wait_list # <<>>

\* The MUTEX_WARN_ONs of the file: a free lock carries neither HANDOFF nor
\* PICKUP, and neither of the two outlives the waiters they are for.
FlagsForWaiters ==
  /\ owner = NULL => flags \subseteq {"WAITERS"}
  /\ wait_list = <<>> => flags = {}
  /\ "PICKUP" \in flags => "HANDOFF" \notin flags

\* A lock that was handed over is handed to the first waiter, and that one
\* is still queued, so it will find it.
PickupIsFirst == "PICKUP" \in flags => wait_list # <<>> /\ owner = Head(wait_list)

\* No wake-up is lost: while the lock is free or handed over, the first
\* waiter is runnable.
NoLostWakeup ==
  wait_list # <<>> /\ (owner = NULL \/ "PICKUP" \in flags) =>
    tstate[Head(wait_list)] = "RUNNING" /\ Head(wait_list) \in on_rq

\* The wait list holds each task that is in the slow path once.
QueuedExactly ==
  /\ NoDup(wait_list)
  /\ \A t \in Tasks : InList(wait_list, t) <=> pc[t] \in {"sleep", "slept"}

\* What the rest relies on the scheduler for: a runnable task is queued, and a
\* queued one is runnable unless it is about to sleep.
RunQueue ==
  /\ \A t \in Tasks : tstate[t] = "RUNNING" => t \in on_rq
  /\ curr \in Tasks => curr \in on_rq
  /\ \A t \in on_rq : tstate[t] = "RUNNING" \/ (t = curr /\ pc[t] = "sleep")

\* The inductive invariant behind the safety properties.
IInv ==
  /\ TypeOK /\ RunQueue /\ QueuedExactly
  /\ OwnerHolds /\ WaitersFlag /\ FlagsForWaiters /\ PickupIsFirst /\ NoLostWakeup

\* Once the first waiter has asked for it, the lock goes to nobody but the
\* first waiter: no stealing.
NoStealAfterHandoff ==
  [][("HANDOFF" \in flags \/ "PICKUP" \in flags) /\ owner' # owner => owner' = Head(wait_list)]_vars

\* Despite stealing and stray wake-ups, every task that waits uninterruptibly
\* gets the mutex.
NoStarvation ==
  \A t \in Tasks :
    pc[t] \in {"sleep", "slept"} /\ lstate[t] = "UNINTERRUPTIBLE" ~> pc[t] = "cs"

\* The mutex is an exclusive lock for its users: the refinement mapping takes
\* the tasks in the critical section as the abstract writers.
Abstract == INSTANCE RWLock WITH readers <- {}, writers <- Holder

ImplementsLock == Abstract!Spec

=============================================================================
