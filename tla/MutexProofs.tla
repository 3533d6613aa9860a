---------------------------- MODULE MutexProofs ----------------------------
(***************************************************************************)
(* Proofs about Mutex, for any set of tasks: the inductive invariant, the  *)
(* safety properties that follow from it, and the refinement of RWLock.    *)
(***************************************************************************)
EXTENDS Mutex, LockLemmas

----------------------------------------------------------------------------
(* The scheduler *)

\* A wake-up keeps the run queue consistent, leaves a runnable task alone and
\* makes runnable whom it is meant for.
LEMMA Wake ==
  ASSUME SchedTypeOK, RunQueue, NEW W \in SUBSET Tasks, NEW mask, try_to_wake_up(W, mask),
         curr' = curr, curr \in Tasks => pc'[curr] = pc[curr] \/ tstate[curr] = "RUNNING"
  PROVE  /\ tstate' \in [Tasks -> {"RUNNING"} \cup SleepState]
         /\ on_rq' \subseteq Tasks
         /\ need_resched' \in BOOLEAN
         /\ RunQueue'
         /\ \A p \in Tasks : tstate[p] = "RUNNING" => tstate'[p] = "RUNNING"
         /\ \A p \in W \ {curr} : tstate'[p] = "RUNNING"
<1> USE DEF SchedTypeOK, try_to_wake_up, Woken
<1>1. tstate' \in [Tasks -> {"RUNNING"} \cup SleepState] /\ on_rq' \subseteq Tasks
  OBVIOUS
<1>2. need_resched' \in BOOLEAN BY DEF check_preempt_curr
<1>3. \A p \in Tasks : tstate[p] = "RUNNING" => tstate'[p] = "RUNNING"
  OBVIOUS
<1>4. \A p \in W \ {curr} : tstate'[p] = "RUNNING"
  OBVIOUS
<1>5. RunQueue' BY IdleAssumption DEF RunQueue
<1>. QED BY <1>1, <1>2, <1>3, <1>4, <1>5

\* A switch by schedule() of a task in the slow path.
LEMMA Switch ==
  ASSUME SchedTypeOK, RunQueue, NEW t \in Tasks, curr = t, __schedule(t),
         pc' = [pc EXCEPT ![t] = "slept"], pc \in [Tasks -> Location],
         pc[t] \in {"sleep", "slept"}
  PROVE  /\ SchedTypeOK' /\ RunQueue'
         /\ \A p \in Tasks : tstate[p] = "RUNNING" => tstate'[p] = "RUNNING"
<1> USE IdleAssumption DEF SchedTypeOK, __schedule, pick_next_task
<1>1. SchedTypeOK' BY DEF SleepState
<1>2. \A p \in Tasks : tstate[p] = "RUNNING" => tstate'[p] = "RUNNING"
  OBVIOUS
<1>3. RunQueue' BY DEF RunQueue
<1>. QED BY <1>1, <1>2, <1>3

\* A switch by preemption of a task that is not about to sleep.
LEMMA Preempt ==
  ASSUME SchedTypeOK, RunQueue, preempt_schedule_common, UNCHANGED pc,
         curr \in Tasks => pc[curr] # "sleep"
  PROVE  SchedTypeOK' /\ RunQueue' /\ UNCHANGED tstate
BY IdleAssumption DEF SchedTypeOK, RunQueue, preempt_schedule_common, pick_next_task

----------------------------------------------------------------------------
(* The inductive invariant *)

\* A step of the scheduler that leaves the mutex alone and the first waiter
\* runnable.
LEMMA SchedulerStep ==
  ASSUME IInv, UNCHANGED <<owner, flags, wait_list, lstate>>,
         pc' \in [Tasks -> Location],
         \A t \in Tasks : pc'[t] = pc[t] \/ (pc[t] = "sleep" /\ pc'[t] = "slept"),
         SchedTypeOK', RunQueue',
         \A t \in Tasks : InList(wait_list, t) /\ tstate[t] = "RUNNING" => tstate'[t] = "RUNNING"
  PROVE  IInv'
<1>1. TypeOK' BY DEF IInv, TypeOK
<1>2. QueuedExactly' BY DEF IInv, QueuedExactly
<1>3. OwnerHolds' BY DEF IInv, OwnerHolds, Holder
<1>4. WaitersFlag' /\ FlagsForWaiters' /\ PickupIsFirst'
  BY DEF IInv, WaitersFlag, FlagsForWaiters, PickupIsFirst
<1>5. NoLostWakeup'
  <2>1. wait_list # <<>> => Head(wait_list) \in Tasks /\ InList(wait_list, Head(wait_list))
    BY HeadInList DEF IInv, TypeOK
  <2>. QED BY <2>1 DEF IInv, NoLostWakeup, RunQueue
<1>. QED BY <1>1, <1>2, <1>3, <1>4, <1>5 DEF IInv

\* The steps of the rest of the system.
LEMMA EnvironmentInv == ASSUME IInv, Environment PROVE IInv'
<1> USE IdleAssumption
<1>0. SchedTypeOK /\ RunQueue /\ pc \in [Tasks -> Location] BY DEF IInv, TypeOK
<1>1. ASSUME NEW t \in Tasks, resched(t) PROVE IInv'
  <2>1. SchedTypeOK' /\ RunQueue' /\ UNCHANGED tstate
    BY <1>0, <1>1, Preempt DEF resched, cond_resched, mutexVars
  <2>. QED BY <1>0, <1>1, <2>1, SchedulerStep DEF resched, mutexVars
<1>2. ASSUME NEW t \in Tasks, blocks(t) PROVE IInv'
  <2>1. SchedTypeOK'
    BY <1>0, <1>2 DEF blocks, wait_elsewhere, SchedTypeOK, pick_next_task, SleepState
  <2>2. RunQueue'
    BY <1>0, <1>2 DEF blocks, wait_elsewhere, SchedTypeOK, RunQueue, pick_next_task, mutexVars
  <2>3. ~InList(wait_list, t) BY <1>2 DEF blocks, IInv, QueuedExactly
  <2>4. \A p \in Tasks : InList(wait_list, p) /\ tstate[p] = "RUNNING" => tstate'[p] = "RUNNING"
    BY <1>0, <1>2, <2>3 DEF blocks, wait_elsewhere, SchedTypeOK
  <2>. QED BY <1>0, <1>2, <2>1, <2>2, <2>4, SchedulerStep DEF blocks, mutexVars
<1>3. ASSUME NEW t \in Tasks, set_current_blocked(t) PROVE IInv'
  <2>1. SchedTypeOK' /\ RunQueue'
    BY <1>0, <1>3 DEF set_current_blocked, recalc_sigpending, SchedTypeOK, Signal, RunQueue, mutexVars
  <2>. QED BY <1>0, <1>3, <2>1, SchedulerStep DEF set_current_blocked, recalc_sigpending, mutexVars
<1>4. ASSUME NEW t \in Tasks, irq_wakes(t) PROVE IInv'
  <2>1. try_to_wake_up({t}, TASK_NORMAL) /\ curr' = curr /\ UNCHANGED <<mutexVars, sig>>
    BY <1>4 DEF irq_wakes, stray_wake_up, wake_up_process
  <2>2. UNCHANGED pc BY <2>1 DEF mutexVars
  <2>3. /\ tstate' \in [Tasks -> {"RUNNING"} \cup SleepState] /\ on_rq' \subseteq Tasks
        /\ need_resched' \in BOOLEAN /\ RunQueue'
        /\ \A p \in Tasks : tstate[p] = "RUNNING" => tstate'[p] = "RUNNING"
    BY <1>0, <2>1, <2>2, Wake
  <2>4. SchedTypeOK' BY <1>0, <2>1, <2>3 DEF SchedTypeOK
  <2>. QED BY <1>0, <2>1, <2>3, <2>4, SchedulerStep DEF mutexVars
<1>5. ASSUME NEW t \in Tasks, NEW fatal \in Fatality, task_signals(t, fatal) PROVE IInv'
  <2> DEFINE mask == IF fatal THEN {"INTERRUPTIBLE", "KILLABLE"} ELSE {"INTERRUPTIBLE"}
  <2>1. try_to_wake_up({t}, mask) /\ curr' = curr /\ UNCHANGED mutexVars
    BY <1>5 DEF task_signals, signal_wake_up
  <2>2. UNCHANGED pc BY <2>1 DEF mutexVars
  <2> HIDE DEF mask
  <2>3. /\ tstate' \in [Tasks -> {"RUNNING"} \cup SleepState] /\ on_rq' \subseteq Tasks
        /\ need_resched' \in BOOLEAN /\ RunQueue'
        /\ \A p \in Tasks : tstate[p] = "RUNNING" => tstate'[p] = "RUNNING"
    BY <1>0, <2>1, <2>2, Wake
  <2>4. sig' \in [Tasks -> Signal]
    BY <1>0, <1>5 DEF task_signals, signal_wake_up, SchedTypeOK, Signal
  <2>5. SchedTypeOK' BY <1>0, <2>1, <2>3, <2>4 DEF SchedTypeOK
  <2>. QED BY <1>0, <2>1, <2>3, <2>5, SchedulerStep DEF mutexVars
<1>6. CASE tick
  <2>1. SchedTypeOK' /\ RunQueue' /\ UNCHANGED tstate
    BY <1>0, <1>6 DEF tick, update_process_times, SchedTypeOK, RunQueue, mutexVars
  <2>. QED BY <1>0, <1>6, <2>1, SchedulerStep DEF tick, mutexVars
<1>7. CASE leave_idle
  <2>1. SchedTypeOK' /\ RunQueue' /\ UNCHANGED tstate
    BY <1>0, <1>7, Preempt DEF leave_idle, schedule_idle, mutexVars
  <2>. QED BY <1>0, <1>7, <2>1, SchedulerStep DEF leave_idle, mutexVars
<1>. QED BY <1>1, <1>2, <1>3, <1>4, <1>5, <1>6, <1>7 DEF Environment

\* The steps of the lock functions, one lemma each.  The fast path finds the
\* lock free: a task that is not queued has not been handed it.
LEMMA UncontendedInv ==
  ASSUME IInv, NEW t \in Tasks, mutex_lock_uncontended(t) PROVE IInv' /\ owner = NULL
<1> USE NULLAssumption DEF mutex_lock_uncontended
<1>0. ~InList(wait_list, t) BY DEF IInv, QueuedExactly
<1>1. owner = NULL
  BY <1>0, HeadInList DEF CanTake, IInv, TypeOK, PickupIsFirst
<1>2. flags' = flags /\ flags \subseteq {"WAITERS"}
  BY <1>1 DEF CanTake, FlagsAfterTrylock, IInv, FlagsForWaiters
<1>3. TypeOK'
  BY <1>2 DEF IInv, TypeOK, SchedTypeOK, schedVars, Location
<1>4. RunQueue' BY DEF IInv, TypeOK, RunQueue, schedVars
<1>5. QueuedExactly' BY DEF IInv, TypeOK, QueuedExactly
<1>6. OwnerHolds' BY <1>1, <1>2 DEF IInv, TypeOK, OwnerHolds, Holder
<1>7. WaitersFlag' /\ FlagsForWaiters' /\ PickupIsFirst' /\ NoLostWakeup'
  BY <1>2 DEF IInv, WaitersFlag, FlagsForWaiters, PickupIsFirst, NoLostWakeup
<1>. QED BY <1>1, <1>3, <1>4, <1>5, <1>6, <1>7 DEF IInv

\* A new waiter goes to the end of the list and so disturbs no hand-over.
LEMMA WaitInv ==
  ASSUME IInv, NEW t \in Tasks, NEW state \in LockStates, mutex_lock_wait(t, state) PROVE IInv'
<1> USE NULLAssumption, ParamAssumption DEF mutex_lock_wait
<1>0. ~InList(wait_list, t) /\ NoDup(wait_list) /\ wait_list \in Seq(Tasks) /\ owner # NULL
  BY DEF IInv, TypeOK, QueuedExactly, CanTake
<1>1. /\ wait_list' \in Seq(Tasks) /\ wait_list' # <<>> /\ NoDup(wait_list')
      /\ \A x : InList(wait_list', x) <=> InList(wait_list, x) \/ x = t
      /\ wait_list # <<>> => Head(wait_list') = Head(wait_list)
  BY <1>0, ListAddTail
<1>2. flags' = flags \cup {"WAITERS"}
  BY DEF FlagsAfterAdd, IInv, WaitersFlag
<1>3. TypeOK'
  BY <1>1, <1>2 DEF IInv, TypeOK, SchedTypeOK, Location, Flag, SleepState
<1>4. RunQueue' BY DEF IInv, TypeOK, SchedTypeOK, RunQueue, SleepState
<1>5. QueuedExactly' BY <1>1 DEF IInv, TypeOK, QueuedExactly
<1>6. OwnerHolds' BY <1>2 DEF IInv, TypeOK, OwnerHolds, Holder
<1>7. WaitersFlag' /\ FlagsForWaiters' /\ PickupIsFirst'
  BY <1>0, <1>1, <1>2 DEF IInv, WaitersFlag, FlagsForWaiters, PickupIsFirst
<1>8. NoLostWakeup'
  <2>1. wait_list # <<>> => Head(wait_list) \in Tasks /\ Head(wait_list) # t
    BY <1>0, HeadInList
  <2>. QED BY <1>0, <1>1, <1>2, <2>1 DEF IInv, TypeOK, SchedTypeOK, PickupIsFirst, NoLostWakeup
<1>. QED BY <1>3, <1>4, <1>5, <1>6, <1>7, <1>8 DEF IInv

\* Queueing and dequeueing in one go leaves no trace.
LEMMA EintrStutters ==
  ASSUME IInv, NEW t \in Tasks, NEW state \in LockStates, mutex_lock_eintr(t, state)
  PROVE  UNCHANGED vars
<1>1. flags' = flags
  BY DEF mutex_lock_eintr, FlagsAfterRemove, FlagsAfterAdd, IInv, FlagsForWaiters
<1>. QED BY <1>1 DEF mutex_lock_eintr, vars, mutexVars

\* schedule() in the slow path changes nothing that the mutex depends on.
LEMMA SleepInv ==
  ASSUME IInv, NEW t \in Tasks, sleep(t) PROVE IInv'
<1>0. SchedTypeOK /\ RunQueue /\ pc \in [Tasks -> Location] BY DEF IInv, TypeOK
<1>1. /\ SchedTypeOK' /\ RunQueue'
      /\ \A p \in Tasks : tstate[p] = "RUNNING" => tstate'[p] = "RUNNING"
  BY <1>0, Switch DEF sleep
<1>. QED BY <1>0, <1>1, SchedulerStep DEF sleep, Location

\* A waiter that is back from schedule() is queued.
LEMMA BackQueued ==
  ASSUME IInv, NEW t \in Tasks, Back(t)
  PROVE  /\ InList(wait_list, t) /\ NoDup(wait_list) /\ wait_list \in Seq(Tasks)
         /\ wait_list # <<>> /\ "WAITERS" \in flags
         /\ Head(wait_list) \in Tasks
<1>1. InList(wait_list, t) /\ NoDup(wait_list) /\ wait_list \in Seq(Tasks)
  BY DEF IInv, TypeOK, QueuedExactly, Back
<1>2. wait_list # <<>> /\ Head(wait_list) \in Tasks BY <1>1, HeadInList
<1>. QED BY <1>1, <1>2 DEF IInv, WaitersFlag

\* A waiter takes the lock when nobody holds it, and takes its flags along.
LEMMA AcquiresInv ==
  ASSUME IInv, NEW t \in Tasks, woken_acquires(t)
  PROVE  IInv' /\ Holder = {} /\ (owner = t \/ (owner = NULL /\ flags \subseteq {"WAITERS"}))
<1> USE NULLAssumption DEF woken_acquires
<1>0. /\ InList(wait_list, t) /\ NoDup(wait_list) /\ wait_list \in Seq(Tasks)
      /\ wait_list # <<>> /\ "WAITERS" \in flags /\ pc[t] = "slept"
  BY BackQueued DEF Back
<1>1. /\ wait_list' \in Seq(Tasks) /\ NoDup(wait_list')
      /\ \A x : InList(wait_list', x) <=> InList(wait_list, x) /\ x # t
  BY <1>0, ListDel
<1>2. flags' = IF wait_list' = <<>> THEN {} ELSE flags \ {"PICKUP"}
  BY DEF FlagsAfterRemove, FlagsAfterTrylock
<1>3. Holder = {}
  BY DEF CanTake, IInv, OwnerHolds
<1>4. TypeOK'
  BY <1>1, <1>2 DEF IInv, TypeOK, SchedTypeOK, schedVars, Location
<1>5. RunQueue' BY <1>0 DEF IInv, TypeOK, RunQueue, schedVars
<1>6. QueuedExactly' BY <1>1 DEF IInv, TypeOK, QueuedExactly
<1>7. OwnerHolds' BY <1>2, <1>3 DEF IInv, TypeOK, OwnerHolds, Holder
<1>8. WaitersFlag' /\ FlagsForWaiters' /\ PickupIsFirst' /\ NoLostWakeup'
  BY <1>0, <1>2 DEF WaitersFlag, FlagsForWaiters, PickupIsFirst, NoLostWakeup
<1>9. owner = t \/ (owner = NULL /\ flags \subseteq {"WAITERS"})
  BY DEF CanTake, IInv, FlagsForWaiters
<1>. QED BY <1>3, <1>4, <1>5, <1>6, <1>7, <1>8, <1>9 DEF IInv

\* What a failed attempt of a waiter does to the flags.
LEMMA FailedTrylock ==
  ASSUME IInv, NEW t \in Tasks, Back(t), ~CanTake(t), NEW f, f = FlagsAfterTrylock(t, First(t))
  PROVE  /\ owner # NULL /\ f \subseteq Flag /\ "WAITERS" \in f
         /\ "PICKUP" \in f <=> "PICKUP" \in flags
         /\ "PICKUP" \in f => "HANDOFF" \notin f /\ owner = Head(wait_list) /\ owner # t
<1>1. owner # NULL /\ ("PICKUP" \in flags => owner # t) BY DEF CanTake
<1>2. f = flags \/ (f = flags \cup {"HANDOFF"} /\ "PICKUP" \notin flags)
  BY DEF FlagsAfterTrylock
<1>3. "WAITERS" \in flags BY BackQueued
<1>. QED BY <1>1, <1>2, <1>3 DEF IInv, TypeOK, Flag, FlagsForWaiters, PickupIsFirst

\* A waiter that gives up is not the one the lock was handed to.
LEMMA EintrInv ==
  ASSUME IInv, NEW t \in Tasks, woken_eintr(t) PROVE IInv'
<1> USE NULLAssumption DEF woken_eintr
<1> DEFINE f == FlagsAfterTrylock(t, First(t))
<1>0. /\ InList(wait_list, t) /\ NoDup(wait_list) /\ wait_list \in Seq(Tasks)
      /\ wait_list # <<>> /\ pc[t] = "slept" /\ Head(wait_list) \in Tasks
  BY BackQueued DEF Back
<1>1. /\ wait_list' \in Seq(Tasks) /\ NoDup(wait_list')
      /\ \A x : InList(wait_list', x) <=> InList(wait_list, x) /\ x # t
      /\ Head(wait_list) # t => wait_list' # <<>> /\ Head(wait_list') = Head(wait_list)
  BY <1>0, ListDel
<1>2. /\ owner # NULL /\ f \subseteq Flag /\ "WAITERS" \in f
      /\ "PICKUP" \in f <=> "PICKUP" \in flags
      /\ "PICKUP" \in f => "HANDOFF" \notin f /\ owner = Head(wait_list) /\ owner # t
  BY FailedTrylock
<1>3. flags' = IF wait_list' = <<>> THEN {} ELSE f BY DEF FlagsAfterRemove
<1> HIDE DEF f
<1>4. TypeOK'
  BY <1>1, <1>2, <1>3 DEF IInv, TypeOK, SchedTypeOK, schedVars, Location
<1>5. RunQueue' BY <1>0 DEF IInv, TypeOK, RunQueue, schedVars
<1>6. QueuedExactly' BY <1>1 DEF IInv, TypeOK, QueuedExactly
<1>7. "PICKUP" \in flags' <=> "PICKUP" \in flags BY <1>1, <1>2, <1>3
<1>8. OwnerHolds'
  <2>1. Holder' = Holder BY <1>0 DEF Holder, IInv, TypeOK
  <2>. QED BY <2>1, <1>7 DEF IInv, OwnerHolds
<1>9. WaitersFlag' /\ FlagsForWaiters' BY <1>2, <1>3 DEF WaitersFlag, FlagsForWaiters
<1>10. PickupIsFirst' BY <1>1, <1>2, <1>3 DEF PickupIsFirst
<1>11. NoLostWakeup'
  BY <1>1, <1>2, <1>3, <1>7 DEF IInv, NoLostWakeup, PickupIsFirst, schedVars
<1>. QED BY <1>4, <1>5, <1>6, <1>8, <1>9, <1>10, <1>11 DEF IInv

\* Nor is a waiter that goes back to sleep.
LEMMA WaitsInv ==
  ASSUME IInv, NEW t \in Tasks, woken_waits(t) PROVE IInv'
<1> USE NULLAssumption DEF woken_waits
<1>0. /\ wait_list # <<>> /\ pc[t] = "slept" /\ curr = t /\ Head(wait_list) \in Tasks
  BY BackQueued DEF Back
<1>1. /\ owner # NULL /\ flags' \subseteq Flag /\ "WAITERS" \in flags'
      /\ "PICKUP" \in flags' <=> "PICKUP" \in flags
      /\ "PICKUP" \in flags' => "HANDOFF" \notin flags' /\ owner = Head(wait_list) /\ owner # t
  BY FailedTrylock
<1>2. TypeOK' BY <1>1 DEF IInv, TypeOK, SchedTypeOK, Location
<1>3. RunQueue' BY <1>0 DEF IInv, TypeOK, SchedTypeOK, RunQueue, SleepState
<1>4. QueuedExactly' BY <1>0 DEF IInv, TypeOK, QueuedExactly
<1>5. OwnerHolds'
  <2>1. Holder' = Holder BY <1>0 DEF Holder, IInv, TypeOK
  <2>. QED BY <2>1, <1>1 DEF IInv, OwnerHolds
<1>6. WaitersFlag' /\ FlagsForWaiters' /\ PickupIsFirst'
  BY <1>0, <1>1 DEF WaitersFlag, FlagsForWaiters, PickupIsFirst
<1>7. NoLostWakeup'
  BY <1>0, <1>1 DEF IInv, TypeOK, SchedTypeOK, NoLostWakeup
<1>. QED BY <1>2, <1>3, <1>4, <1>5, <1>6, <1>7 DEF IInv

\* mutex_unlock() frees the lock or hands it to the first waiter, which it
\* wakes.
LEMMA UnlockInv ==
  ASSUME IInv, NEW t \in Tasks, mutex_unlock(t)
  PROVE  /\ IInv' /\ owner = t /\ "PICKUP" \notin flags
         /\ owner' # NULL => owner' = Head(wait_list)
         /\ "HANDOFF" \in flags => owner' = Head(wait_list)
         /\ Holder' = Holder \ {t}
<1> USE NULLAssumption DEF mutex_unlock
<1>0. /\ owner = t /\ "PICKUP" \notin flags /\ Holder = {t}
      /\ ~InList(wait_list, t) /\ wait_list \in Seq(Tasks)
  BY DEF IInv, TypeOK, OwnerHolds, Holder, QueuedExactly
<1>1. wait_list # <<>> => Head(wait_list) \in Tasks /\ Head(wait_list) # t
  BY <1>0, HeadInList
<1>2. \/ /\ owner' = Head(wait_list) /\ wait_list # <<>> /\ flags' = {"WAITERS", "PICKUP"}
      \/ /\ owner' = NULL /\ "HANDOFF" \notin flags /\ flags' = flags /\ flags \subseteq {"WAITERS"}
  <2>1. CASE "HANDOFF" \in flags
    <3>1. wait_list # <<>> /\ "WAITERS" \in flags
      BY <2>1 DEF IInv, FlagsForWaiters, WaitersFlag
    <3>. QED BY <1>0, <1>1, <2>1, <3>1 DEF __mutex_handoff
  <2>2. CASE "HANDOFF" \notin flags
    BY <1>0, <2>2 DEF IInv, TypeOK, Flag
  <2>. QED BY <2>1, <2>2
<1>3. /\ SchedTypeOK' /\ RunQueue'
      /\ wait_list # <<>> => tstate'[Head(wait_list)] = "RUNNING"
  <2>0. SchedTypeOK /\ RunQueue /\ tstate[t] = "RUNNING" /\ pc'[t] = "out"
    BY DEF IInv, TypeOK, RunQueue
  <2>1. CASE wait_list # <<>>
    <3>1. try_to_wake_up({Head(wait_list)}, TASK_NORMAL)
      BY <2>1 DEF IInv, WaitersFlag, wake_up_q
    <3>2. {Head(wait_list)} \in SUBSET Tasks BY <1>1, <2>1
    <3>3. /\ tstate' \in [Tasks -> {"RUNNING"} \cup SleepState] /\ on_rq' \subseteq Tasks
          /\ need_resched' \in BOOLEAN /\ RunQueue'
          /\ \A p \in {Head(wait_list)} \ {curr} : tstate'[p] = "RUNNING"
      BY <2>0, <3>1, <3>2, Wake
    <3>. QED BY <1>1, <2>0, <2>1, <3>3 DEF SchedTypeOK
  <2>2. CASE wait_list = <<>>
    BY <2>0, <2>2 DEF SchedTypeOK, RunQueue, IInv, TypeOK
  <2>. QED BY <2>1, <2>2
<1>4. TypeOK' BY <1>1, <1>2, <1>3 DEF IInv, TypeOK, Flag, Location
<1>5. QueuedExactly' BY DEF IInv, TypeOK, QueuedExactly
<1>6. Holder' = {} BY <1>0 DEF Holder, IInv, TypeOK
<1>7. OwnerHolds' BY <1>2, <1>6 DEF OwnerHolds
<1>8. WaitersFlag' BY <1>2 DEF IInv, WaitersFlag
<1>9. FlagsForWaiters' /\ PickupIsFirst'
  BY <1>1, <1>2 DEF IInv, FlagsForWaiters, PickupIsFirst
<1>10. NoLostWakeup' BY <1>1, <1>3 DEF NoLostWakeup, RunQueue
<1>. QED BY <1>0, <1>2, <1>3, <1>4, <1>5, <1>6, <1>7, <1>8, <1>9, <1>10 DEF IInv

\* Every step keeps the invariant.
THEOREM Inductive == IInv /\ [Next]_vars => IInv'
<1> SUFFICES ASSUME IInv, [Next]_vars PROVE IInv'
  OBVIOUS
<1>1. ASSUME UNCHANGED vars PROVE IInv'
  BY <1>1 DEF vars, schedVars, mutexVars, IInv, TypeOK, SchedTypeOK, RunQueue, QueuedExactly,
     OwnerHolds, Holder, WaitersFlag, FlagsForWaiters, PickupIsFirst, NoLostWakeup
<1>2. CASE Environment BY <1>2, EnvironmentInv
<1>3. ASSUME NEW t \in Tasks, LockStep(t) PROVE IInv'
  <2>1. CASE mutex_lock_uncontended(t) BY <2>1, UncontendedInv
  <2>2. CASE \E state \in LockStates : mutex_lock_wait(t, state) BY <2>2, WaitInv
  <2>3. CASE \E state \in LockStates : mutex_lock_eintr(t, state) BY <2>3, <1>1, EintrStutters
  <2>4. CASE sleep(t) BY <2>4, SleepInv
  <2>5. CASE woken_acquires(t) BY <2>5, AcquiresInv
  <2>6. CASE woken_eintr(t) BY <2>6, EintrInv
  <2>7. CASE woken_waits(t) BY <2>7, WaitsInv
  <2>8. CASE mutex_unlock(t) BY <2>8, UnlockInv
  <2>. QED BY <1>3, <2>1, <2>2, <2>3, <2>4, <2>5, <2>6, <2>7, <2>8 DEF LockStep
<1>. QED BY <1>1, <1>2, <1>3 DEF Next

\* The mutex starts free, with all tasks runnable.
LEMMA Initial == Init => IInv
<1> SUFFICES ASSUME Init PROVE IInv
  OBVIOUS
<1> USE NULLAssumption, IdleAssumption DEF Init, SchedInit
<1>1. TypeOK
  <2>1. SchedTypeOK BY DEF SchedTypeOK, Signal
  <2>2. wait_list \in Seq(Tasks) /\ flags \subseteq Flag OBVIOUS
  <2>3. pc \in [Tasks -> Location] /\ lstate \in [Tasks -> SleepState] BY DEF Location, SleepState
  <2>. QED BY <2>1, <2>2, <2>3 DEF TypeOK
<1>2. RunQueue BY DEF RunQueue
<1>3. QueuedExactly BY DEF QueuedExactly, NoDup, InList
<1>4. OwnerHolds BY DEF OwnerHolds, Holder
<1>5. WaitersFlag /\ FlagsForWaiters /\ PickupIsFirst /\ NoLostWakeup
  BY DEF WaitersFlag, FlagsForWaiters, PickupIsFirst, NoLostWakeup
<1>. QED BY <1>1, <1>2, <1>3, <1>4, <1>5 DEF IInv

\* The invariant holds in every state of the mutex.
THEOREM Invariance == Spec => []IInv
BY Initial, Inductive, PTL DEF Spec

----------------------------------------------------------------------------
(* The properties that follow *)

\* The owner word names who is in the critical section, and at most one is.
THEOREM Exclusion == Spec => []OwnerHolds
<1>1. IInv => OwnerHolds BY DEF IInv
<1>. QED BY <1>1, Invariance, PTL

\* The flag bits of the owner word agree with the wait list: the fast path of
\* mutex_unlock() is taken only when nobody waits, and the MUTEX_WARN_ONs of
\* the file never fire.
THEOREM FlagBits == Spec => [](WaitersFlag /\ FlagsForWaiters /\ PickupIsFirst /\ QueuedExactly)
<1>1. IInv => WaitersFlag /\ FlagsForWaiters /\ PickupIsFirst /\ QueuedExactly BY DEF IInv
<1>. QED BY <1>1, Invariance, PTL

\* mutex_unlock() never leaves a free lock behind with its first waiter
\* asleep.
THEOREM WakeupsKept == Spec => []NoLostWakeup
<1>1. IInv => NoLostWakeup BY DEF IInv
<1>. QED BY <1>1, Invariance, PTL

\* No step changes the owner word but to take the lock, to free it or to hand
\* it over.
LEMMA OwnerStep ==
  ASSUME IInv, [Next]_vars
  PROVE  \/ owner' = owner /\ Holder' = Holder
         \/ \E t \in Tasks : Holder = {} /\ Holder' = {t} /\ owner' = t
                             /\ (owner = t \/ (owner = NULL /\ flags \subseteq {"WAITERS"}))
         \/ \E t \in Tasks : t \in Holder /\ Holder' = Holder \ {t}
                             /\ "PICKUP" \notin flags
                             /\ ("HANDOFF" \in flags => owner' = Head(wait_list))
<1>0. pc \in [Tasks -> Location] BY DEF IInv, TypeOK
<1>1. CASE UNCHANGED vars BY <1>1 DEF vars, mutexVars, Holder
<1>2. CASE Environment
  <2>1. UNCHANGED mutexVars
    BY <1>2 DEF Environment, resched, blocks, set_current_blocked, irq_wakes, task_signals, tick,
       leave_idle
  <2>. QED BY <2>1 DEF mutexVars, Holder
<1>3. ASSUME NEW t \in Tasks, LockStep(t)
      PROVE  \/ owner' = owner /\ Holder' = Holder
             \/ Holder = {} /\ Holder' = {t} /\ owner' = t
                /\ (owner = t \/ (owner = NULL /\ flags \subseteq {"WAITERS"}))
             \/ t \in Holder /\ Holder' = Holder \ {t} /\ "PICKUP" \notin flags
                /\ ("HANDOFF" \in flags => owner' = Head(wait_list))
  <2>1. CASE mutex_lock_uncontended(t)
    <3>1. owner = NULL BY <2>1, UncontendedInv
    <3>2. Holder = {} /\ flags \subseteq {"WAITERS"}
      BY <3>1, NULLAssumption DEF IInv, OwnerHolds, FlagsForWaiters
    <3>3. Holder' = {t} BY <1>0, <2>1, <3>2 DEF mutex_lock_uncontended, Holder
    <3>. QED BY <2>1, <3>1, <3>2, <3>3 DEF mutex_lock_uncontended
  <2>2. CASE \E state \in LockStates : mutex_lock_wait(t, state)
    BY <1>0, <2>2 DEF mutex_lock_wait, Holder
  <2>3. CASE \E state \in LockStates : mutex_lock_eintr(t, state)
    BY <2>3 DEF mutex_lock_eintr, Holder
  <2>4. CASE sleep(t) BY <1>0, <2>4 DEF sleep, Holder
  <2>5. CASE woken_acquires(t)
    <3>1. Holder = {} /\ (owner = t \/ (owner = NULL /\ flags \subseteq {"WAITERS"}))
      BY <2>5, AcquiresInv
    <3>2. Holder' = {t} BY <1>0, <2>5, <3>1 DEF woken_acquires, Holder
    <3>. QED BY <2>5, <3>1, <3>2 DEF woken_acquires
  <2>6. CASE woken_eintr(t) BY <1>0, <2>6 DEF woken_eintr, Back, Holder
  <2>7. CASE woken_waits(t) BY <1>0, <2>7 DEF woken_waits, Back, Holder
  <2>8. CASE mutex_unlock(t)
    <3>1. t \in Holder BY <2>8 DEF mutex_unlock, Holder
    <3>. QED BY <2>8, <3>1, UnlockInv
  <2>. QED BY <1>3, <2>1, <2>2, <2>3, <2>4, <2>5, <2>6, <2>7, <2>8 DEF LockStep
<1>. QED BY <1>1, <1>2, <1>3 DEF Next

\* Once the first waiter has asked for a hand-over, nobody steals the lock.
THEOREM NoStealing == Spec => NoStealAfterHandoff
<1>1. ASSUME IInv, [Next]_vars
      PROVE  [("HANDOFF" \in flags \/ "PICKUP" \in flags) /\ owner' # owner =>
                owner' = Head(wait_list)]_vars
  BY <1>1, OwnerStep
<1>. QED BY <1>1, Invariance, PTL DEF Spec, NoStealAfterHandoff

\* The mutex implements an exclusive lock.
THEOREM Refinement == Spec => ImplementsLock
<1>1. Init => Abstract!Init
  BY DEF Init, Abstract!Init, Holder
<1>2. ASSUME IInv, [Next]_vars PROVE [Abstract!Next]_<<{}, Holder>>
  BY <1>2, OwnerStep DEF Abstract!Next, Abstract!AcquireWrite, Abstract!ReleaseWrite
<1>. QED BY <1>1, <1>2, Invariance, PTL DEF Spec, ImplementsLock, Abstract!Spec

=============================================================================
