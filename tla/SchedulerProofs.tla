-------------------------- MODULE SchedulerProofs --------------------------
(***************************************************************************)
(* Proofs about SchedCore, for any set of tasks: the invariant of the run  *)
(* queue and the idle loop, and that death is final.                       *)
(*                                                                         *)
(* Then about Semaphore, the plainest client of the scheduler, for any set *)
(* of tasks and any number of units: no unit is lost or made up, nobody    *)
(* overtakes a waiter, no wake-up is lost, units are granted in the order  *)
(* of queueing; and every step of the semaphore is one that the scheduler  *)
(* core allows, so that what is proved of the one holds for the other.     *)
(***************************************************************************)
EXTENDS LockLemmas, SchedCore, Semaphore

----------------------------------------------------------------------------
(* The scheduler core *)

\* try_to_wake_up() keeps the scheduler's variables in their types.
LEMMA WakeType ==
  ASSUME CoreTypeOK, NEW W \in SUBSET Tasks, NEW mask, try_to_wake_up(W, mask)
  PROVE  tstate' \in [Tasks -> TaskState] /\ on_rq' \subseteq Tasks /\ need_resched' \in BOOLEAN
BY DEF CoreTypeOK, try_to_wake_up, Woken, check_preempt_curr, TaskState

\* A wake-up of a task that may be woken keeps the invariant.
LEMMA WakeInv ==
  ASSUME CoreInv, NEW p \in Wakeable, NEW mask, try_to_wake_up({p}, mask),
         curr' = curr, curr \in Tasks \/ idle_pc' # "hlt", idle_pc' \in {"loop", idle_pc},
         mask \cap {"NONE", "NEW", "DEAD"} = {}, sig' \in [Tasks -> Signal]
  PROVE  CoreInv'
<1> p \in Tasks BY DEF Wakeable
<1>1. CoreTypeOK'
  <2>1. tstate' \in [Tasks -> TaskState] /\ on_rq' \subseteq Tasks /\ need_resched' \in BOOLEAN
    BY WakeType DEF CoreInv
  <2>. QED BY <2>1 DEF CoreInv, CoreTypeOK, IdleLocation
<1>2. RunnableQueued' /\ DeadNotQueued'
  BY DEF CoreInv, CoreTypeOK, RunnableQueued, CurrQueued, DeadNotQueued, try_to_wake_up, Woken, Wakeable
<1>3. CurrQueued' BY DEF CoreInv, CurrQueued, try_to_wake_up, Woken
<1>4. NoHaltWithWork'
  <2> SUFFICES ASSUME curr = Idle, on_rq' # {} PROVE need_resched' /\ idle_pc' # "hlt"
    BY DEF NoHaltWithWork
  <2>1. idle_pc' # "hlt" BY IdleAssumption
  <2>2. CASE Woken({p}, mask) \ {curr} = {}
    BY <2>1, <2>2 DEF CoreInv, NoHaltWithWork, try_to_wake_up
  <2>3. CASE Woken({p}, mask) \ {curr} # {}
    BY <2>1, <2>3 DEF try_to_wake_up, check_preempt_curr
  <2>. QED BY <2>2, <2>3
<1>5. IdlePcIdle' BY DEF CoreInv, IdlePcIdle
<1>. QED BY <1>1, <1>2, <1>3, <1>4, <1>5 DEF CoreInv

\* The same for a switch by __schedule(SM_NONE).
LEMMA ScheduleInv ==
  ASSUME CoreInv, curr \in Tasks, __schedule(curr), idle_pc' = idle_pc
  PROVE  CoreInv'
<1> USE IdleAssumption
<1>1. CoreTypeOK'
  BY DEF CoreInv, CoreTypeOK, __schedule, pick_next_task, TaskState
<1>2. RunnableQueued'
  BY DEF CoreInv, CoreTypeOK, RunnableQueued, CurrQueued, __schedule
<1>3. CurrQueued' BY DEF CoreInv, CoreTypeOK, CurrQueued, __schedule, pick_next_task
<1>4. NoHaltWithWork' BY DEF CoreInv, CoreTypeOK, NoHaltWithWork, __schedule, pick_next_task
<1>5. DeadNotQueued'
  BY DEF CoreInv, CoreTypeOK, DeadNotQueued, __schedule, signal_pending_state
<1>6. IdlePcIdle' BY DEF CoreInv, IdlePcIdle, __schedule
<1>. QED BY <1>1, <1>2, <1>3, <1>4, <1>5, <1>6 DEF CoreInv

\* The same for __schedule(SM_PREEMPT), by a task or by the idle task.
LEMMA PreemptInv ==
  ASSUME CoreInv, preempt_schedule_common, idle_pc' = idle_pc, idle_pc = "loop",
         curr \in Tasks => tstate[curr] # "DEAD"
  PROVE  CoreInv'
<1> USE IdleAssumption
<1>1. CoreTypeOK' BY DEF CoreInv, CoreTypeOK, preempt_schedule_common, pick_next_task
<1>2. RunnableQueued' BY DEF CoreInv, RunnableQueued, preempt_schedule_common
<1>3. CurrQueued' BY DEF CoreInv, CoreTypeOK, CurrQueued, preempt_schedule_common, pick_next_task
<1>4. NoHaltWithWork' BY DEF CoreInv, CoreTypeOK, NoHaltWithWork, preempt_schedule_common, pick_next_task
<1>5. DeadNotQueued'
  BY DEF CoreInv, CoreTypeOK, DeadNotQueued, preempt_schedule_common
<1>6. IdlePcIdle' BY DEF IdlePcIdle
<1>. QED BY <1>1, <1>2, <1>3, <1>4, <1>5, <1>6 DEF CoreInv

\* Every step keeps the invariant.
THEOREM CoreInductive == CoreInv /\ [CoreNext]_coreVars => CoreInv'
<1> SUFFICES ASSUME CoreInv, [CoreNext]_coreVars PROVE CoreInv'
  OBVIOUS
<1> USE IdleAssumption
<1>1. CASE UNCHANGED coreVars
  BY <1>1 DEF CoreInv, CoreTypeOK, RunnableQueued, CurrQueued, NoHaltWithWork, DeadNotQueued, IdlePcIdle,
     coreVars, schedVars
<1>2. CASE \E s \in SleepState \cup {"RUNNING"} : set_current_state(s)
  BY <1>2 DEF set_current_state, Executing, CoreInv, CoreTypeOK, RunnableQueued, CurrQueued,
     NoHaltWithWork, DeadNotQueued, IdlePcIdle, TaskState, SleepState
<1>3. CASE schedule
  BY <1>3, ScheduleInv DEF schedule
<1>4. CASE __cond_resched
  <2>1. idle_pc = "loop" BY <1>4 DEF __cond_resched, Executing, CoreInv, IdlePcIdle
  <2>. QED BY <1>4, <2>1, PreemptInv DEF __cond_resched, cond_resched, Executing
<1>5. ASSUME NEW p \in Tasks, task_wakes(p) PROVE CoreInv'
  BY <1>5, WakeInv DEF task_wakes, Executing, wake_up_process, TASK_NORMAL, SleepState, CoreInv, CoreTypeOK
<1>6. ASSUME NEW p \in Tasks, sched_fork(p) PROVE CoreInv'
  BY <1>6 DEF sched_fork, Executing, CoreInv, CoreTypeOK, RunnableQueued, CurrQueued,
     NoHaltWithWork, DeadNotQueued, IdlePcIdle, TaskState
<1>7. ASSUME NEW p \in Tasks, wake_up_new_task(p) PROVE CoreInv'
  BY <1>7 DEF wake_up_new_task, check_preempt_curr, Executing, CoreInv, CoreTypeOK, RunnableQueued,
     CurrQueued, NoHaltWithWork, DeadNotQueued, IdlePcIdle, TaskState
<1>8. ASSUME NEW p \in Tasks, NEW fatal \in BOOLEAN, task_signals(p, fatal) PROVE CoreInv'
  <2> DEFINE m == IF fatal THEN {"INTERRUPTIBLE", "KILLABLE"} ELSE {"INTERRUPTIBLE"}
  <2>1. sig' \in [Tasks -> Signal]
    BY <1>8 DEF task_signals, signal_wake_up, CoreInv, CoreTypeOK, Signal
  <2>2. m \cap {"NONE", "NEW", "DEAD"} = {} OBVIOUS
  <2>3. p \in Wakeable /\ try_to_wake_up({p}, m) /\ curr' = curr /\ idle_pc' = idle_pc /\ curr \in Tasks
    BY <1>8 DEF task_signals, signal_wake_up, Executing
  <2> HIDE DEF m
  <2>. QED BY <2>1, <2>2, <2>3, WakeInv
<1>9. CASE set_current_blocked
  BY <1>9 DEF set_current_blocked, recalc_sigpending, Executing, CoreInv, CoreTypeOK, RunnableQueued, CurrQueued,
     NoHaltWithWork, DeadNotQueued, IdlePcIdle, Signal
<1>10. CASE do_task_dead
  BY <1>10 DEF do_task_dead, Executing, CoreInv, CoreTypeOK, RunnableQueued, CurrQueued,
     NoHaltWithWork, DeadNotQueued, IdlePcIdle, TaskState
<1>11. CASE do_idle
  BY <1>11 DEF do_idle, schedVars, CoreInv, CoreTypeOK, RunnableQueued, CurrQueued,
     NoHaltWithWork, DeadNotQueued, IdlePcIdle, IdleLocation
<1>12. CASE cpuidle_idle_call
  BY <1>12 DEF cpuidle_idle_call, schedVars, CoreInv, CoreTypeOK, RunnableQueued, CurrQueued,
     NoHaltWithWork, DeadNotQueued, IdlePcIdle, IdleLocation
<1>13. CASE do_idle_ends
  BY <1>13, PreemptInv DEF do_idle_ends, schedule_idle
<1>14. CASE scheduler_tick
  <2>1. need_resched' = need_resched \/ need_resched' = TRUE
    BY <1>14 DEF scheduler_tick, update_process_times, schedVars
  <2>2. idle_pc' \in {"loop", idle_pc} \ {"hlt"} /\ tstate' = tstate /\ on_rq' = on_rq /\ curr' = curr /\ sig' = sig
    BY <1>14 DEF scheduler_tick, update_process_times, schedVars, irq_exit
  <2>3. CoreTypeOK' /\ RunnableQueued' /\ CurrQueued' /\ DeadNotQueued' /\ IdlePcIdle'
    BY <2>1, <2>2 DEF CoreInv, CoreTypeOK, RunnableQueued, CurrQueued, DeadNotQueued, IdlePcIdle, IdleLocation
  <2>4. NoHaltWithWork' BY <2>1, <2>2 DEF CoreInv, NoHaltWithWork
  <2>. QED BY <2>3, <2>4 DEF CoreInv
<1>15. ASSUME NEW p \in Tasks, interrupt_wakes(p) PROVE CoreInv'
  BY <1>15, WakeInv DEF interrupt_wakes, irq_exit, wake_up_process, TASK_NORMAL, SleepState, CoreInv, CoreTypeOK
<1>. QED
  BY <1>1, <1>2, <1>3, <1>4, <1>5, <1>6, <1>7, <1>8, <1>9, <1>10, <1>11, <1>12, <1>13, <1>14, <1>15
  DEF CoreNext, CurrStep, IdleStep, Interrupt

\* CoreTypeOK, RunnableQueued, CurrQueued, NoHaltWithWork and DeadNotQueued hold
\* in every reachable state, for any number of tasks.
THEOREM CoreInvariance == CoreSpec => []CoreInv
<1>1. CoreInit => CoreInv
  BY IdleAssumption DEF CoreInit, CoreInv, CoreTypeOK, RunnableQueued, CurrQueued, NoHaltWithWork, DeadNotQueued,
     IdlePcIdle, TaskState, Signal, IdleLocation
<1>. QED BY <1>1, CoreInductive, PTL DEF CoreSpec

\* Type correctness of the scheduler core.
THEOREM CoreTypes == CoreSpec => []CoreTypeOK
<1>1. CoreInv => CoreTypeOK BY DEF CoreInv
<1>. QED BY <1>1, CoreInvariance, PTL

\* A task that believes it is running is on the run queue.
THEOREM NoTaskLost == CoreSpec => []RunnableQueued
<1>1. CoreInv => RunnableQueued BY DEF CoreInv
<1>. QED BY <1>1, CoreInvariance, PTL

\* do_idle() never halts the CPU while a task is runnable.
THEOREM NeverHaltsWithWork == CoreSpec => []NoHaltWithWork
<1>1. CoreInv => NoHaltWithWork BY DEF CoreInv
<1>. QED BY <1>1, CoreInvariance, PTL

\* No task is picked again after the switch away from its death.
THEOREM DeadNeverQueued == CoreSpec => []DeadNotQueued
<1>1. CoreInv => DeadNotQueued BY DEF CoreInv
<1>. QED BY <1>1, CoreInvariance, PTL

\* No step of any task, of the idle loop or of an interrupt brings a task
\* back from TASK_DEAD.
THEOREM DeathIsFinal == CoreSpec => DeadStaysDead
<1> DEFINE A == \A p \in Tasks : tstate[p] = "DEAD" => tstate'[p] = "DEAD"
<1>1. ASSUME CoreInv, CoreNext PROVE A
  <2> SUFFICES ASSUME NEW d \in Tasks, tstate[d] = "DEAD" PROVE tstate'[d] = "DEAD"
    OBVIOUS
  <2>1. ASSUME NEW p \in Wakeable, NEW mask, "DEAD" \notin mask, try_to_wake_up({p}, mask)
        PROVE  tstate'[d] = "DEAD"
    BY <2>1 DEF try_to_wake_up, Woken, Wakeable
  <2>2. CASE \E s \in SleepState \cup {"RUNNING"} : set_current_state(s)
    BY <1>1, <2>2 DEF set_current_state, Executing, CoreInv, CoreTypeOK
  <2>3. CASE schedule
    BY <1>1, <2>3 DEF schedule, __schedule, signal_pending_state, CoreInv, CoreTypeOK
  <2>4. ASSUME NEW p \in Tasks, task_wakes(p) \/ interrupt_wakes(p) PROVE tstate'[d] = "DEAD"
    <3>1. p \in Wakeable /\ try_to_wake_up({p}, TASK_NORMAL)
      BY <2>4 DEF task_wakes, interrupt_wakes, wake_up_process
    <3>. QED BY <3>1, <2>1 DEF TASK_NORMAL, SleepState
  <2>5. ASSUME NEW p \in Tasks, sched_fork(p) \/ wake_up_new_task(p) PROVE tstate'[d] = "DEAD"
    BY <1>1, <2>5 DEF sched_fork, wake_up_new_task, CoreInv, CoreTypeOK
  <2>6. ASSUME NEW p \in Tasks, NEW fatal \in BOOLEAN, task_signals(p, fatal)
        PROVE  tstate'[d] = "DEAD"
    <3> DEFINE m == IF fatal THEN {"INTERRUPTIBLE", "KILLABLE"} ELSE {"INTERRUPTIBLE"}
    <3>1. p \in Wakeable /\ try_to_wake_up({p}, m)
      BY <2>6 DEF task_signals, signal_wake_up
    <3>2. "DEAD" \notin m OBVIOUS
    <3> HIDE DEF m
    <3>. QED BY <3>1, <3>2, <2>1
  <2>7. CASE do_task_dead
    BY <1>1, <2>7 DEF do_task_dead, CoreInv, CoreTypeOK
  <2>8. CASE __cond_resched \/ set_current_blocked \/ IdleStep \/ scheduler_tick
    BY <2>8 DEF __cond_resched, cond_resched, preempt_schedule_common, set_current_blocked, recalc_sigpending,
       IdleStep, do_idle, cpuidle_idle_call, do_idle_ends, schedule_idle, scheduler_tick, update_process_times, schedVars
  <2>. QED BY <1>1, <2>2, <2>3, <2>4, <2>5, <2>6, <2>7, <2>8 DEF CoreNext, CurrStep, Interrupt
<1>2. ASSUME CoreInv, [CoreNext]_coreVars PROVE [A]_coreVars
  BY <1>1, <1>2
<1>. QED BY <1>2, CoreInvariance, PTL DEF CoreSpec, DeadStaysDead

----------------------------------------------------------------------------
(* The semaphore *)

TypeOK ==
  /\ count \in Nat /\ held \in Nat
  /\ wait_list \in Seq(Tasks)
  /\ up_flag \in [Tasks -> BOOLEAN]
  /\ pc \in [Tasks -> Location]

\* The properties are inductive together, with the types and the run queue.
\* A grant set that is finite is what lets a unit be counted.
IInv ==
  /\ TypeOK /\ SchedOK /\ IsFiniteSet(Granted)
  /\ Conservation /\ NoBarging /\ NoLostWakeup

----------------------------------------------------------------------------

\* What the properties depend on, apart from the state of the scheduler.
LEMMA SchedulerStep ==
  ASSUME IInv, SchedOK', UNCHANGED <<count, wait_list, up_flag, held>>,
         pc' \in [Tasks -> Location], \A t \in Tasks : pc'[t] = "out" <=> pc[t] = "out",
         \A t \in Tasks : tstate'[t] \in {tstate[t], "RUNNING"} \/ InList(wait_list, t),
         \A t \in Granted : tstate'[t] = "RUNNING"
  PROVE  IInv' /\ Granted' = Granted
<1>1. TypeOK' BY DEF IInv, TypeOK
<1>2. Granted' = Granted BY DEF Granted
<1>3. NoLostWakeup'
  <2>1. \A t \in Granted : t \in Tasks /\ tstate'[t] = "RUNNING" /\ t \in on_rq'
    BY DEF Granted, SchedOK
  <2>2. \A t \in Tasks : tstate'[t] # "RUNNING" => InList(wait_list, t)
    BY DEF IInv, NoLostWakeup
  <2>. QED BY <1>2, <2>1, <2>2 DEF IInv, NoLostWakeup
<1>. QED BY <1>1, <1>2, <1>3 DEF IInv, Conservation, NoBarging

\* A task that was granted a unit is runnable.
LEMMA GrantedRuns == ASSUME IInv PROVE \A t \in Granted : t \in Tasks /\ tstate[t] = "RUNNING"
BY DEF IInv, NoLostWakeup, Granted

\* down() finds a unit, or down_trylock() does, in a task or an interrupt.
LEMMA TakeInv ==
  ASSUME IInv, count > 0, count' = count - 1, held' = held + 1,
         UNCHANGED <<schedVars, wait_list, up_flag, pc>>
  PROVE  IInv' /\ Granted' = Granted
<1>1. TypeOK' BY DEF IInv, TypeOK
<1>2. SchedOK' BY Ticked DEF IInv
<1>3. Granted' = Granted BY DEF Granted
<1>4. Conservation'
  <2>1. Cardinality(Granted) \in Nat BY FS_CardinalityType DEF IInv
  <2>. QED BY <1>3, <2>1, NAssumption DEF IInv, TypeOK, Conservation
<1>5. NoBarging' BY DEF IInv, TypeOK, NoBarging
<1>6. NoLostWakeup' BY <1>3 DEF IInv, NoLostWakeup, schedVars
<1>. QED BY <1>1, <1>2, <1>3, <1>4, <1>5, <1>6 DEF IInv

\* A new waiter has no unit yet, and there is none in count.
LEMMA QueueInv == ASSUME IInv, NEW t \in Tasks, __down(t) PROVE IInv' /\ Granted' = Granted
<1> USE DEF __down
<1>0. ~InList(wait_list, t) /\ NoDup(wait_list) /\ wait_list \in Seq(Tasks) /\ t \notin Granted
  BY DEF IInv, TypeOK, NoLostWakeup, Granted
<1>1. /\ wait_list' \in Seq(Tasks) /\ NoDup(wait_list')
      /\ \A x : InList(wait_list', x) <=> InList(wait_list, x) \/ x = t
  BY <1>0, ListAddTail
<1>2. TypeOK' BY <1>1 DEF IInv, TypeOK, Location
<1>3. SchedOK' /\ \A p \in Tasks \ {t} : tstate'[p] = tstate[p]
  BY StateSet DEF IInv, SleepState
<1>4. Granted' = Granted BY <1>0 DEF IInv, TypeOK, Granted
<1>5. Conservation' BY <1>4 DEF IInv, Conservation
<1>6. NoBarging' BY DEF IInv, TypeOK, NoBarging
<1>7. NoLostWakeup'
  <2>1. \A p \in Tasks : InList(wait_list', p) <=> pc'[p] # "out" /\ ~up_flag'[p]
    BY <1>1 DEF IInv, TypeOK, NoLostWakeup
  <2>2. \A p \in Tasks : tstate'[p] # "RUNNING" => InList(wait_list', p)
    BY <1>1, <1>3 DEF IInv, NoLostWakeup
  <2>3. \A p \in Granted : tstate'[p] = "RUNNING" /\ p \in on_rq'
    BY <1>0, <1>3 DEF IInv, NoLostWakeup, Granted
  <2>. QED BY <1>1, <1>4, <2>1, <2>2, <2>3 DEF NoLostWakeup
<1>. QED BY <1>2, <1>3, <1>4, <1>5, <1>6, <1>7 DEF IInv

\* schedule() puts nobody to sleep who has been granted a unit.
LEMMA SleepInv == ASSUME IInv, NEW t \in Tasks, sleep(t) PROVE IInv' /\ Granted' = Granted
<1>1. SchedOK' /\ StaysRunnable /\ \A p \in Tasks : tstate'[p] \in {tstate[p], "RUNNING"}
  BY Scheduled DEF IInv, sleep
<1>2. pc' \in [Tasks -> Location] /\ \A p \in Tasks : pc'[p] = "out" <=> pc[p] = "out"
  BY DEF IInv, TypeOK, sleep, Location
<1>. QED BY <1>1, <1>2, GrantedRuns, SchedulerStep DEF sleep, StaysRunnable

\* A waiter that finds waiter.up set returns with the unit; any other is
\* still queued and goes back to sleep.
LEMMA WokenInv == ASSUME IInv, NEW t \in Tasks, woken(t) PROVE IInv' /\ Granted' \subseteq Granted
<1> USE DEF woken
<1>1. CASE up_flag[t]
  <2>1. TypeOK' BY <1>1 DEF IInv, TypeOK, Location
  <2>2. SchedOK' BY <1>1, Ticked DEF IInv, schedVars
  <2>3. Granted' = Granted \ {t} /\ t \in Granted BY <1>1 DEF IInv, TypeOK, Granted
  <2>4. IsFiniteSet(Granted') /\ Cardinality(Granted') = Cardinality(Granted) - 1
    BY <2>3, FS_RemoveElement DEF IInv
  <2>5. Conservation'
    <3>1. Cardinality(Granted) \in Nat BY FS_CardinalityType DEF IInv
    <3>. QED BY <1>1, <2>4, <3>1, NAssumption DEF IInv, TypeOK, Conservation
  <2>6. NoBarging' BY DEF IInv, NoBarging
  <2>7. NoLostWakeup' BY <1>1, <2>3 DEF IInv, TypeOK, NoLostWakeup
  <2>. QED BY <2>1, <2>2, <2>3, <2>4, <2>5, <2>6, <2>7 DEF IInv
<1>2. CASE ~up_flag[t]
  <2>1. SchedOK' /\ \A p \in Tasks \ {t} : tstate'[p] = tstate[p]
    BY <1>2, StateSet DEF IInv, SleepState
  <2>2. InList(wait_list, t) /\ t \notin Granted BY <1>2 DEF IInv, NoLostWakeup, Granted
  <2>3. pc' \in [Tasks -> Location] /\ \A p \in Tasks : pc'[p] = "out" <=> pc[p] = "out"
    BY <1>2 DEF IInv, TypeOK, Location
  <2>. QED BY <1>2, <2>1, <2>2, <2>3, GrantedRuns, SchedulerStep
<1>. QED BY <1>1, <1>2

\* up() with somebody waiting: the unit goes to the first, which is woken.
LEMMA HandOverInv ==
  ASSUME IInv, held > 0, held' = held - 1, __up
  PROVE  IInv' /\ Granted' = Granted \cup {Head(wait_list)}
<1> USE DEF __up
<1> DEFINE h == Head(wait_list)
<1>0. h \in Tasks /\ InList(wait_list, h) /\ NoDup(wait_list) /\ wait_list \in Seq(Tasks)
  BY HeadInList DEF IInv, TypeOK, NoLostWakeup
<1>1. /\ wait_list' \in Seq(Tasks) /\ NoDup(wait_list')
      /\ \A x : InList(wait_list', x) <=> InList(wait_list, x) /\ x # h
  <2>1. wait_list' = list_del(wait_list, h)
    BY <1>0, DelHead
  <2> HIDE DEF h, __up
  <2>. QED BY <1>0, <2>1, ListDel
<1>2. SchedOK' /\ StaysRunnable /\ tstate'[h] = "RUNNING"
      /\ \A p \in Tasks : tstate'[p] \in {tstate[p], "RUNNING"}
  <2>1. {h} \in SUBSET Tasks /\ sig' \in [Tasks -> Signal]
    BY <1>0 DEF IInv, SchedOK, SchedTypeOK
  <2>2. try_to_wake_up({h}, TASK_NORMAL) BY DEF wake_up_process
  <2>3. SchedOK BY DEF IInv
  <2> HIDE DEF h
  <2>. QED BY <2>1, <2>2, <2>3, WakeUp
<1> HIDE DEF h
<1>3. TypeOK'
  <2>1. up_flag' = [up_flag EXCEPT ![h] = TRUE] BY DEF h
  <2>. QED BY <1>1, <2>1 DEF IInv, TypeOK
<1>4. Granted' = Granted \cup {h} /\ h \notin Granted
  <2>1. pc[h] # "out" /\ ~up_flag[h] BY <1>0 DEF IInv, NoLostWakeup
  <2>2. \A p \in Tasks : up_flag'[p] <=> up_flag[p] \/ p = h BY DEF IInv, TypeOK, h
  <2>. QED BY <1>0, <2>1, <2>2 DEF Granted
<1>5. IsFiniteSet(Granted') /\ Cardinality(Granted') = Cardinality(Granted) + 1
  BY <1>4, FS_AddElement DEF IInv
<1>6. Conservation'
  <2>1. Cardinality(Granted) \in Nat BY FS_CardinalityType DEF IInv
  <2>. QED BY <1>5, <2>1, NAssumption DEF IInv, TypeOK, Conservation
<1>7. NoBarging' BY DEF IInv, TypeOK, NoBarging
<1>8. NoLostWakeup'
  <2>1. \A p \in Tasks : up_flag'[p] <=> up_flag[p] \/ p = h BY DEF IInv, TypeOK, h
  <2>2. \A p \in Tasks : InList(wait_list', p) <=> pc'[p] # "out" /\ ~up_flag'[p]
    BY <1>1, <2>1 DEF IInv, NoLostWakeup
  <2>3. \A p \in Tasks : tstate'[p] # "RUNNING" => InList(wait_list', p)
    BY <1>1, <1>2 DEF IInv, NoLostWakeup
  <2>4. \A p \in Granted' : tstate'[p] = "RUNNING" /\ p \in on_rq'
    BY <1>0, <1>2, <1>4, GrantedRuns DEF StaysRunnable, SchedOK
  <2>. QED BY <1>1, <2>2, <2>3, <2>4 DEF NoLostWakeup
<1>. QED BY <1>2, <1>3, <1>4, <1>5, <1>6, <1>7, <1>8 DEF IInv, h

\* up() with nobody waiting counts the unit.
LEMMA CountInv ==
  ASSUME IInv, held > 0, held' = held - 1, up_count PROVE IInv' /\ Granted' = Granted
<1> USE DEF up_count
<1>1. TypeOK' BY DEF IInv, TypeOK
<1>2. SchedOK' BY Ticked DEF IInv
<1>3. Granted' = Granted BY DEF Granted
<1>4. Conservation'
  <2>1. Cardinality(Granted) \in Nat BY FS_CardinalityType DEF IInv
  <2>. QED BY <1>3, <2>1, NAssumption DEF IInv, TypeOK, Conservation
<1>5. NoBarging' BY DEF NoBarging
<1>6. NoLostWakeup' BY <1>3 DEF IInv, NoLostWakeup, schedVars
<1>. QED BY <1>1, <1>2, <1>3, <1>4, <1>5, <1>6 DEF IInv

\* up() hands its unit to the first waiter, or puts it back into count.
LEMMA UpInv ==
  ASSUME IInv, up PROVE IInv' /\ \A p \in Granted' \ Granted : p = Head(wait_list)
BY HandOverInv, CountInv DEF up

\* The steps of the rest of the system.
LEMMA EnvironmentInv ==
  ASSUME IInv, (\E t \in Tasks : resched(t) \/ irq_wakes(t)) \/ tick \/ leave_idle
  PROVE  IInv' /\ Granted' = Granted
<1>0. SchedOK /\ pc \in [Tasks -> Location] BY DEF IInv, TypeOK
<1>1. ASSUME NEW t \in Tasks, resched(t) PROVE IInv' /\ Granted' = Granted
  <2>1. SchedOK' /\ UNCHANGED tstate
    BY <1>0, <1>1, Preempted DEF resched, cond_resched
  <2>. QED BY <1>0, <1>1, <2>1, GrantedRuns, SchedulerStep DEF resched, semVars
<1>2. ASSUME NEW t \in Tasks, irq_wakes(t) PROVE IInv' /\ Granted' = Granted
  <2>1. try_to_wake_up({t}, TASK_NORMAL) /\ curr' = curr /\ sig' \in [Tasks -> Signal]
    BY <1>0, <1>2 DEF irq_wakes, stray_wake_up, wake_up_process, SchedOK, SchedTypeOK
  <2>2. SchedOK' /\ StaysRunnable /\ \A p \in Tasks : tstate'[p] \in {tstate[p], "RUNNING"}
    BY <1>0, <2>1, WakeUp
  <2>. QED BY <1>0, <1>2, <2>2, GrantedRuns, SchedulerStep DEF irq_wakes, semVars, StaysRunnable
<1>3. CASE tick
  <2>1. SchedOK' /\ UNCHANGED tstate BY <1>0, <1>3, Ticked DEF tick
  <2>. QED BY <1>0, <1>3, <2>1, GrantedRuns, SchedulerStep DEF tick, semVars
<1>4. CASE leave_idle
  <2>1. SchedOK' /\ UNCHANGED tstate BY <1>0, <1>4, Preempted DEF leave_idle, schedule_idle
  <2>. QED BY <1>0, <1>4, <2>1, GrantedRuns, SchedulerStep DEF leave_idle, semVars
<1>. QED BY <1>1, <1>2, <1>3, <1>4

\* Every step keeps the invariant, and grants a unit to the first waiter or
\* to nobody.
THEOREM Inductive ==
  ASSUME IInv, [Next]_vars
  PROVE  IInv' /\ \A p \in Granted' \ Granted : p = Head(wait_list)
<1>1. CASE UNCHANGED vars
  <2>1. SchedOK' BY <1>1, Ticked DEF IInv, vars
  <2>. QED BY <1>1, <2>1 DEF vars, schedVars, semVars, IInv, TypeOK, Granted, Conservation, NoBarging,
          NoLostWakeup
<1>2. ASSUME NEW t \in Tasks, TaskStep(t) \/ irq_wakes(t)
      PROVE  IInv' /\ \A p \in Granted' \ Granted : p = Head(wait_list)
  <2>1. CASE down_fast(t) BY <2>1, TakeInv DEF down_fast
  <2>2. CASE __down(t) BY <2>2, QueueInv
  <2>3. CASE sleep(t) BY <2>3, SleepInv
  <2>4. CASE woken(t) BY <2>4, WokenInv
  <2>5. CASE task_up(t) BY <2>5, UpInv DEF task_up
  <2>6. CASE resched(t) \/ irq_wakes(t) BY <2>6, EnvironmentInv
  <2>. QED BY <1>2, <2>1, <2>2, <2>3, <2>4, <2>5, <2>6 DEF TaskStep
<1>3. CASE down_trylock
  <2>1. count > 0 BY <1>3 DEF down_trylock, IInv, TypeOK
  <2>. QED BY <1>3, <2>1, TakeInv DEF down_trylock
<1>4. CASE irq_up BY <1>4, UpInv DEF irq_up
<1>5. CASE tick \/ leave_idle BY <1>5, EnvironmentInv
<1>. QED BY <1>1, <1>2, <1>3, <1>4, <1>5 DEF Next

\* All units are in count and nobody waits.
LEMMA Initial == Init => IInv
<1> SUFFICES ASSUME Init PROVE IInv
  OBVIOUS
<1> USE NAssumption DEF Init
<1>1. TypeOK BY DEF TypeOK, Location
<1>2. SchedOK BY SchedStarts
<1>3. Granted = {} BY DEF Granted
<1>4. IsFiniteSet(Granted) /\ Conservation BY <1>3, FS_EmptySet DEF Conservation
<1>5. NoBarging BY DEF NoBarging
<1>6. NoLostWakeup BY <1>3 DEF SchedInit, NoLostWakeup, NoDup, InList
<1>. QED BY <1>1, <1>2, <1>4, <1>5, <1>6 DEF IInv

\* The invariant holds in every state of the semaphore.
THEOREM Invariance == Spec => []IInv
BY Initial, Inductive, PTL DEF Spec

----------------------------------------------------------------------------
(* The properties that follow *)

\* No unit is lost or made up.
THEOREM UnitsConserved == Spec => []Conservation
<1>1. IInv => Conservation BY DEF IInv
<1>. QED BY <1>1, Invariance, PTL

\* Nobody overtakes a waiter.
THEOREM NobodyBarges == Spec => []NoBarging
<1>1. IInv => NoBarging BY DEF IInv
<1>. QED BY <1>1, Invariance, PTL

\* Who waits can be found by up(), and who was granted a unit runs.
THEOREM WakeupsKept == Spec => []NoLostWakeup
<1>1. IInv => NoLostWakeup BY DEF IInv
<1>. QED BY <1>1, Invariance, PTL

\* q stands before p on the list s.
Before(s, q, p) == \E i, j \in DOMAIN s : i < j /\ s[i] = q /\ s[j] = p

\* list_add_tail() puts its entry ahead of nobody who is on the list.
LEMMA AppendOrder ==
  ASSUME NEW S, NEW s \in Seq(S), NEW e \in S, ~InList(s, e), NEW p, p # e, NEW q,
         Before(Append(s, e), q, p)
  PROVE  Before(s, q, p)
<1> DEFINE r == Append(s, e)
<1>1. /\ Len(s) \in Nat /\ DOMAIN s = 1 .. Len(s) /\ DOMAIN r = 1 .. Len(s) + 1
      /\ r[Len(s) + 1] = e /\ \A k \in 1 .. Len(s) : r[k] = s[k]
  BY AppendProperties
<1>2. PICK i, j \in DOMAIN r : i < j /\ r[i] = q /\ r[j] = p BY DEF Before
<1> HIDE DEF r
<1>3. j # Len(s) + 1 BY <1>1, <1>2
<1>4. i \in 1 .. Len(s) /\ j \in 1 .. Len(s) BY <1>1, <1>2, <1>3
<1>. QED BY <1>1, <1>2, <1>4 DEF Before

\* To take the first entry off the list leaves the others in their order.
LEMMA TailOrder ==
  ASSUME NEW S, NEW s \in Seq(S), s # <<>>, NEW p, NEW q, Before(Tail(s), q, p)
  PROVE  Before(s, q, p)
<1> DEFINE r == Tail(s)
<1>1. /\ Len(s) \in Nat \ {0} /\ DOMAIN s = 1 .. Len(s) /\ DOMAIN r = 1 .. Len(s) - 1
      /\ \A k \in 1 .. Len(s) - 1 : r[k] = s[k + 1]
  BY HeadTailProperties
<1>2. PICK i, j \in DOMAIN r : i < j /\ r[i] = q /\ r[j] = p BY DEF Before
<1> HIDE DEF r
<1>3. i + 1 \in DOMAIN s /\ j + 1 \in DOMAIN s /\ i + 1 < j + 1 BY <1>1, <1>2
<1>4. s[i + 1] = q /\ s[j + 1] = p BY <1>1, <1>2
<1>. QED BY <1>3, <1>4 DEF Before

\* The first entry stands before every other.
LEMMA HeadBefore ==
  ASSUME NEW S, NEW s \in Seq(S), NEW p, InList(s, p), p # Head(s)
  PROVE  Before(s, Head(s), p)
<1>1. PICK j \in DOMAIN s : s[j] = p BY DEF InList
<1>2. j \in 1 .. Len(s) /\ 1 \in DOMAIN s /\ Head(s) = s[1] BY <1>1
<1>3. 1 < j BY <1>1, <1>2
<1>. QED BY <1>1, <1>2, <1>3 DEF Before

\* What a step does to the wait list: nothing, and then nobody is granted a
\* unit; or it queues a newcomer at the tail, or takes off the first waiter and
\* grants a unit to that one.
LEMMA ListStep ==
  ASSUME IInv, [Next]_vars
  PROVE  \/ wait_list' = wait_list /\ Granted' \subseteq Granted
         \/ \E t \in Tasks : /\ wait_list' = Append(wait_list, t)
                             /\ ~InList(wait_list, t)
                             /\ Granted' = Granted
         \/ /\ wait_list # <<>>
            /\ wait_list' = Tail(wait_list)
            /\ Granted' \subseteq Granted \cup {Head(wait_list)}
<1> DEFINE Same == wait_list' = wait_list /\ Granted' \subseteq Granted
           Queued == \E t \in Tasks : /\ wait_list' = Append(wait_list, t)
                                      /\ ~InList(wait_list, t)
                                      /\ Granted' = Granted
           Handed == /\ wait_list # <<>>
                     /\ wait_list' = Tail(wait_list)
                     /\ Granted' \subseteq Granted \cup {Head(wait_list)}
<1>1. CASE UNCHANGED vars
  <2>1. Same BY <1>1 DEF vars, semVars, Granted
  <2>. QED BY <2>1
<1>2. ASSUME up PROVE Same \/ Handed
  <2>1. held > 0 /\ held' = held - 1 BY <1>2 DEF up
  <2>2. CASE __up
    <3>1. Granted' = Granted \cup {Head(wait_list)} BY <2>1, <2>2, HandOverInv
    <3>. QED BY <2>2, <3>1 DEF __up
  <2>3. CASE up_count
    <3>1. Granted' = Granted BY <2>1, <2>3, CountInv
    <3>. QED BY <2>3, <3>1 DEF up_count
  <2>. QED BY <1>2, <2>2, <2>3 DEF up
<1>3. ASSUME NEW t \in Tasks, TaskStep(t) \/ irq_wakes(t) PROVE Same \/ Queued \/ Handed
  <2>1. CASE down_fast(t)
    <3>1. Granted' = Granted /\ wait_list' = wait_list BY <2>1, TakeInv DEF down_fast
    <3>. QED BY <3>1
  <2>2. CASE __down(t)
    <3>1. Granted' = Granted BY <2>2, QueueInv
    <3>2. wait_list' = Append(wait_list, t) /\ ~InList(wait_list, t)
      BY <2>2 DEF __down, list_add_tail, IInv, NoLostWakeup
    <3>. QED BY <3>1, <3>2
  <2>3. CASE sleep(t)
    <3>1. Granted' = Granted /\ wait_list' = wait_list BY <2>3, SleepInv DEF sleep
    <3>. QED BY <3>1
  <2>4. CASE woken(t)
    <3>1. Granted' \subseteq Granted /\ wait_list' = wait_list BY <2>4, WokenInv DEF woken
    <3>. QED BY <3>1
  <2>5. CASE task_up(t) BY <1>2, <2>5 DEF task_up
  <2>6. CASE resched(t) \/ irq_wakes(t)
    <3>1. Granted' = Granted BY <2>6, EnvironmentInv
    <3>2. wait_list' = wait_list BY <2>6 DEF resched, irq_wakes, semVars
    <3>. QED BY <3>1, <3>2
  <2>. QED BY <1>3, <2>1, <2>2, <2>3, <2>4, <2>5, <2>6 DEF TaskStep
<1>4. CASE down_trylock
  <2>1. count > 0 BY <1>4 DEF down_trylock, IInv, TypeOK
  <2>2. Granted' = Granted /\ wait_list' = wait_list BY <1>4, <2>1, TakeInv DEF down_trylock
  <2>. QED BY <2>2
<1>5. CASE irq_up BY <1>2, <1>5 DEF irq_up
<1>6. CASE tick \/ leave_idle
  <2>1. Granted' = Granted BY <1>6, EnvironmentInv
  <2>2. wait_list' = wait_list BY <1>6 DEF tick, leave_idle, semVars
  <2>. QED BY <2>1, <2>2
<1>. QED BY <1>1, <1>3, <1>4, <1>5, <1>6 DEF Next

\* Whoever is not ahead of a waiting p stays behind it, and gets no unit.
LEMMA NoOvertaking ==
  ASSUME IInv, [Next]_vars, NEW p \in NotGranted \cap NotGranted', NEW q \in Tasks, ~Ahead(q, p)
  PROVE  ~Ahead(q, p)' /\ q \notin Granted' \ Granted
<1>0. IInv' BY Inductive
<1>1. /\ p \in Tasks /\ wait_list \in Seq(Tasks)
      /\ NoDup(wait_list) /\ InList(wait_list, p) /\ InList(wait_list', p)
  BY <1>0 DEF NotGranted, IInv, TypeOK, NoLostWakeup
<1>2. Ahead(q, p) <=> Before(wait_list, q, p) BY DEF Ahead, Before
<1>3. Ahead(q, p)' <=> Before(wait_list', q, p) BY DEF Ahead, Before
<1>4. CASE wait_list' = wait_list /\ Granted' \subseteq Granted BY <1>2, <1>3, <1>4
<1>5. CASE \E t \in Tasks : /\ wait_list' = Append(wait_list, t)
                            /\ ~InList(wait_list, t)
                            /\ Granted' = Granted
  <2>1. PICK t \in Tasks : /\ wait_list' = Append(wait_list, t)
                           /\ ~InList(wait_list, t)
                           /\ Granted' = Granted
    BY <1>5
  <2>2. p # t BY <1>1, <2>1
  <2>3. ~Before(wait_list', q, p) BY <1>1, <1>2, <2>1, <2>2, AppendOrder
  <2>. QED BY <1>3, <2>1, <2>3
<1>6. CASE /\ wait_list # <<>>
           /\ wait_list' = Tail(wait_list)
           /\ Granted' \subseteq Granted \cup {Head(wait_list)}
  <2>1. ~Before(wait_list', q, p) BY <1>1, <1>2, <1>6, TailOrder
  <2>2. p # Head(wait_list)
    <3> DEFINE r == Tail(wait_list)
    <3>1. /\ Len(wait_list) \in Nat \ {0} /\ DOMAIN wait_list = 1 .. Len(wait_list)
          /\ DOMAIN r = 1 .. Len(wait_list) - 1
          /\ Head(wait_list) = wait_list[1]
          /\ \A k \in 1 .. Len(wait_list) - 1 : r[k] = wait_list[k + 1]
      BY <1>1, <1>6, HeadTailProperties
    <3>2. InList(r, p) BY <1>1, <1>6
    <3> HIDE DEF r
    <3>3. PICK k \in 1 .. Len(wait_list) - 1 : r[k] = p BY <3>1, <3>2 DEF InList
    <3>4. k + 1 \in DOMAIN wait_list /\ k + 1 # 1 /\ wait_list[k + 1] = p /\ 1 \in DOMAIN wait_list
      BY <3>1, <3>3
    <3>. QED BY <1>1, <3>1, <3>4 DEF NoDup
  <2>3. q # Head(wait_list) BY <1>1, <1>2, <2>2, HeadBefore
  <2>. QED BY <1>3, <1>6, <2>1, <2>3
<1>. QED BY <1>4, <1>5, <1>6, ListStep

\* Units are granted in the order of queueing: nobody who queues behind a
\* waiter, or comes later, gets ahead of it or is granted a unit before it.
THEOREM GrantedInOrder == Spec => FIFO
<1>1. ASSUME IInv, [Next]_vars
      PROVE  [\A p \in NotGranted \cap NotGranted', q \in Tasks :
                ~Ahead(q, p) => ~Ahead(q, p)' /\ q \notin Granted' \ Granted]_vars
  BY <1>1, NoOvertaking
<1>. QED BY <1>1, Invariance, PTL DEF Spec, FIFO

----------------------------------------------------------------------------
(* The semaphore as a client of the scheduler *)

\* Every step of the semaphore is a step of the scheduler core or leaves the
\* scheduler alone.
LEMMA ClientStep ==
  ASSUME IInv, [Next]_vars, idle_pc = "loop", idle_pc' = "loop"
  PROVE  [CoreNext]_coreVars
<1>0. /\ tstate \in [Tasks -> {"RUNNING"} \cup SleepState] /\ curr \in Tasks \cup {Idle}
      /\ wait_list \in Seq(Tasks)
  BY DEF IInv, TypeOK, SchedOK, SchedTypeOK
<1>1. \A t \in Tasks : t \in Wakeable BY <1>0 DEF Wakeable, SleepState
<1>2. CASE UNCHANGED schedVars BY <1>2 DEF coreVars
<1>3. ASSUME NEW t \in Tasks, curr = t, tstate' = [tstate EXCEPT ![t] = "UNINTERRUPTIBLE"],
             UNCHANGED <<on_rq, curr, need_resched, sig>>
      PROVE  [CoreNext]_coreVars
  <2>1. Executing BY <1>0, <1>3 DEF Executing, SleepState
  <2>2. set_current_state("UNINTERRUPTIBLE") BY <1>3, <2>1 DEF set_current_state
  <2>. QED BY <2>2 DEF CoreNext, CurrStep, SleepState
<1>4. ASSUME NEW t \in Tasks, sleep(t) PROVE [CoreNext]_coreVars
  <2>1. schedule BY <1>4 DEF sleep, schedule
  <2>. QED BY <2>1 DEF CoreNext, CurrStep
<1>5. ASSUME NEW t \in Tasks, resched(t) PROVE [CoreNext]_coreVars
  <2>1. Executing BY <1>0, <1>5 DEF Executing, SleepState, resched, cond_resched
  <2>2. __cond_resched BY <1>5, <2>1 DEF __cond_resched, resched, cond_resched
  <2>. QED BY <2>2 DEF CoreNext, CurrStep
<1>6. ASSUME NEW p \in Tasks, wake_up_process(p), UNCHANGED <<curr, sig>> PROVE [CoreNext]_coreVars
  <2>1. interrupt_wakes(p) BY <1>1, <1>6 DEF interrupt_wakes, irq_exit
  <2>. QED BY <2>1 DEF CoreNext, Interrupt
<1>7. CASE up
  <2>1. CASE __up
    <3>1. Head(wait_list) \in Tasks BY <1>0, <2>1 DEF __up
    <3>. QED BY <1>6, <2>1, <3>1 DEF __up
  <2>2. CASE up_count BY <1>2, <2>2 DEF up_count, schedVars
  <2>. QED BY <1>7, <2>1, <2>2 DEF up
<1>8. CASE tick
  <2>1. scheduler_tick BY <1>8 DEF tick, scheduler_tick, irq_exit
  <2>. QED BY <2>1 DEF CoreNext, Interrupt
<1>9. CASE leave_idle
  <2>1. do_idle_ends BY <1>9 DEF leave_idle, do_idle_ends
  <2>. QED BY <2>1 DEF CoreNext, IdleStep
<1>10. ASSUME NEW t \in Tasks, TaskStep(t) \/ irq_wakes(t) PROVE [CoreNext]_coreVars
  <2>1. CASE down_fast(t) BY <1>2, <2>1 DEF down_fast, schedVars
  <2>2. CASE __down(t) BY <1>3, <2>2 DEF __down
  <2>3. CASE woken(t)
    <3>1. CASE up_flag[t] BY <1>2, <2>3, <3>1 DEF woken, schedVars
    <3>2. CASE ~up_flag[t] BY <1>3, <2>3, <3>2 DEF woken
    <3>. QED BY <3>1, <3>2
  <2>4. CASE task_up(t) BY <1>7, <2>4 DEF task_up
  <2>5. CASE irq_wakes(t) BY <1>6, <2>5 DEF irq_wakes, stray_wake_up
  <2>. QED BY <1>4, <1>5, <1>10, <2>1, <2>2, <2>3, <2>4, <2>5 DEF TaskStep
<1>11. CASE down_trylock BY <1>2, <1>11 DEF down_trylock, schedVars
<1>12. CASE UNCHANGED vars BY <1>2, <1>12 DEF vars, schedVars
<1>. QED BY <1>7, <1>8, <1>9, <1>10, <1>11, <1>12 DEF Next, irq_up

\* The semaphore uses the scheduler as the scheduler expects: with do_idle()
\* at its loop test throughout, which Semaphore does not look into, its
\* behaviours are behaviours of the scheduler core.
THEOREM ClientOfScheduler ==
  Spec /\ [](idle_pc = "loop") => CoreInit /\ [][CoreNext]_coreVars
<1> DEFINE Waiting == idle_pc = "loop"
<1>1. ASSUME Init, Waiting PROVE CoreInit
  <2>1. Tasks # {} /\ Tasks \in SUBSET Tasks BY <1>1 DEF Init, SchedInit
  <2>2. tstate = [p \in Tasks |-> IF p \in Tasks THEN "RUNNING" ELSE "NONE"] BY <1>1 DEF Init, SchedInit
  <2>. QED BY <1>1, <2>1, <2>2 DEF Init, SchedInit, CoreInit
<1>2. ASSUME IInv, [Next]_vars, Waiting, Waiting' PROVE [CoreNext]_coreVars
  BY <1>2, ClientStep
<1> HIDE DEF Waiting
<1>3. Spec /\ []Waiting => CoreInit /\ [][CoreNext]_coreVars BY <1>1, <1>2, Invariance, PTL DEF Spec
<1>. QED BY <1>3 DEF Waiting

=============================================================================
