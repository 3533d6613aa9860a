------------------------------- MODULE Sched -------------------------------
(***************************************************************************)
(* The scheduler core of a uniprocessor, non-preemptible kernel:           *)
(* kernel/sched/core.c with the idle loop of kernel/sched/idle.c.          *)
(*                                                                         *)
(* The build has one CPU and no CONFIG_PREEMPTION, so preempt_disable()    *)
(* is a compiler barrier and a spinlock only masks interrupts (and only    *)
(* in its _irq variants).  Kernel code of one task is therefore atomic     *)
(* with respect to the other tasks between two calls of __schedule(), and  *)
(* what interleaves with it is interrupts, which may wake tasks and set    *)
(* need_resched but switch to nobody.  The other modules build on the      *)
(* operators of this one: try_to_wake_up(), __schedule().                  *)
(*                                                                         *)
(* pick_next_task_fair() orders tasks by vruntime; here any queued task    *)
(* may be picked, and the modules that state liveness assume of the choice *)
(* only that it is fair.                                                   *)
(***************************************************************************)
EXTENDS Naturals, FiniteSets

CONSTANTS Tasks,      \* the task_structs, swapper/0 excluded
          Idle        \* swapper/0, rq->idle

ASSUME IdleAssumption == Idle \notin Tasks

VARIABLES
  tstate,        \* task->__state
  on_rq,         \* the tasks whose on_rq is TASK_ON_RQ_QUEUED
  curr,          \* rq->curr
  need_resched,  \* TIF_NEED_RESCHED of rq->curr
  sig            \* what signal_pending() and __fatal_signal_pending() see

schedVars == <<tstate, on_rq, curr, need_resched, sig>>

----------------------------------------------------------------------------
(* Task states *)

\* The sleeping states a task gives itself with set_current_state().
SleepState == {"INTERRUPTIBLE", "UNINTERRUPTIBLE", "KILLABLE"}

\* "NONE" is a task_struct that has not been forked.
TaskState == {"NONE", "NEW", "RUNNING", "DEAD"} \cup SleepState

\* TASK_INTERRUPTIBLE | TASK_UNINTERRUPTIBLE; KILLABLE holds the latter bit.
TASK_NORMAL == SleepState

Signal == {"none", "pending", "fatal"}

signal_pending_state(s, p) ==
  \/ s = "INTERRUPTIBLE" /\ sig[p] # "none"
  \/ s = "KILLABLE" /\ sig[p] = "fatal"

----------------------------------------------------------------------------
(* Wake-ups *)

\* ttwu_do_wakeup() runs check_preempt_curr(): a fair task always preempts
\* the idle class; between fair tasks the vruntimes decide, either way here.
check_preempt_curr ==
  IF curr = Idle THEN need_resched' = TRUE ELSE need_resched' \in {need_resched, TRUE}

\* Mutation: the state of the current task is not compared with the mask.
Woken_NoMask(W, mask) == {p \in W : tstate[p] # "RUNNING"}

\* The tasks of W that try_to_wake_up() makes runnable.  Only the current
\* task is compared with the caller's mask: for any other task the function
\* returns early if it is running already, and wakes it otherwise.
Woken(W, mask) ==
  {p \in W : IF p = curr THEN tstate[p] \in mask ELSE tstate[p] # "RUNNING"}

\* try_to_wake_up(p, mask) for each p of W, one after the other.
try_to_wake_up(W, mask) ==
  /\ tstate' = [p \in Tasks |-> IF p \in Woken(W, mask) THEN "RUNNING" ELSE tstate[p]]
  /\ on_rq' = on_rq \cup (Woken(W, mask) \ {curr})
  /\ IF Woken(W, mask) \ {curr} = {} THEN UNCHANGED need_resched ELSE check_preempt_curr

wake_up_process(p) == try_to_wake_up({p}, TASK_NORMAL)

\* wake_up_q() wakes each task that wake_q_add() collected.
wake_up_q(W) == try_to_wake_up(W, TASK_NORMAL)

----------------------------------------------------------------------------
(* Switching *)

\* pick_next_task(): pick_next_task_fair(), else pick_next_task_idle().
pick_next_task(rq) == IF rq = {} THEN {Idle} ELSE rq

\* Mutation: a pending signal makes prev TASK_RUNNING, and it is dequeued
\* all the same.
__schedule_SignalDequeues(prev) ==
  LET stays == tstate[prev] = "RUNNING" \/ signal_pending_state(tstate[prev], prev)
      rq == IF tstate[prev] = "RUNNING" THEN on_rq ELSE on_rq \ {prev}
  IN /\ tstate' = IF stays THEN [tstate EXCEPT ![prev] = "RUNNING"] ELSE tstate
     /\ on_rq' = rq
     /\ curr' \in pick_next_task(rq)
     /\ need_resched' = FALSE
     /\ UNCHANGED sig

\* __schedule(SM_NONE) called by task prev: a prev that is not TASK_RUNNING
\* leaves the run queue, unless a signal it listens to is pending.
__schedule(prev) ==
  LET stays == tstate[prev] = "RUNNING" \/ signal_pending_state(tstate[prev], prev)
      rq == IF stays THEN on_rq ELSE on_rq \ {prev}
  IN /\ tstate' = IF stays THEN [tstate EXCEPT ![prev] = "RUNNING"] ELSE tstate
     /\ on_rq' = rq
     /\ curr' \in pick_next_task(rq)
     /\ need_resched' = FALSE
     /\ UNCHANGED sig

\* __schedule(SM_PREEMPT): prev stays queued whatever its state.
preempt_schedule_common ==
  /\ curr' \in pick_next_task(on_rq)
  /\ need_resched' = FALSE
  /\ UNCHANGED <<tstate, on_rq, sig>>

----------------------------------------------------------------------------
(* What goes on around the code a module studies: the steps below are taken *)
(* by interrupts and by tasks that are between two operations.              *)

\* All tasks are runnable and one of them is current.
SchedInit ==
  /\ tstate = [p \in Tasks |-> "RUNNING"]
  /\ on_rq = Tasks
  /\ curr \in Tasks
  /\ need_resched = FALSE
  /\ sig = [p \in Tasks |-> "none"]

SchedTypeOK ==
  /\ tstate \in [Tasks -> {"RUNNING"} \cup SleepState]
  /\ on_rq \subseteq Tasks
  /\ curr \in Tasks \cup {Idle}
  /\ need_resched \in BOOLEAN
  /\ sig \in [Tasks -> Signal]

\* What the locks rely on the run queue for: a runnable task is on it, and
\* so is the current one.
SchedOK ==
  /\ SchedTypeOK
  /\ \A t \in Tasks : tstate[t] = "RUNNING" => t \in on_rq
  /\ curr \in Tasks => curr \in on_rq

\* No task stops running but by schedule() or by changing its own state.
StaysRunnable == \A p \in Tasks : tstate[p] = "RUNNING" => tstate'[p] = "RUNNING"

\* An interrupt wakes p for a reason that is not the lock's: a timer, a wait
\* queue that p is on as well.
stray_wake_up(p) ==
  /\ tstate[p] # "RUNNING"
  /\ wake_up_process(p)
  /\ UNCHANGED <<curr, sig>>

\* The tick asks for a switch: task_tick_fair() with a second task queued,
\* rcu_sched_clock_irq() of whoever is current, the idle task too, while
\* callbacks wait for a quiescent state.
update_process_times ==
  /\ ~need_resched
  /\ need_resched' = TRUE
  /\ UNCHANGED <<tstate, on_rq, curr, sig>>

\* Task t passes a cond_resched() or goes back to user mode.
cond_resched(t) ==
  /\ curr = t
  /\ need_resched
  /\ preempt_schedule_common

\* Task t waits for something that is not the lock, until an interrupt wakes
\* it: set_current_state() and schedule() with nothing in between.
wait_elsewhere(t) ==
  /\ curr = t
  /\ tstate' = [tstate EXCEPT ![t] = "UNINTERRUPTIBLE"]
  /\ on_rq' = on_rq \ {t}
  /\ curr' \in pick_next_task(on_rq')
  /\ need_resched' = FALSE
  /\ UNCHANGED sig

\* do_idle() ends with schedule_idle() once need_resched is set; the idle
\* task is TASK_RUNNING, so no task is dequeued.
schedule_idle ==
  /\ curr = Idle
  /\ need_resched
  /\ preempt_schedule_common

\* signal_wake_up(p, fatal) by the current task: a fatal signal adds
\* TASK_WAKEKILL to the mask.
signal_wake_up(p, fatal) ==
  /\ curr \in Tasks
  /\ sig' = [sig EXCEPT ![p] = IF fatal \/ @ = "fatal" THEN "fatal" ELSE "pending"]
  /\ try_to_wake_up({p}, IF fatal THEN {"INTERRUPTIBLE", "KILLABLE"} ELSE {"INTERRUPTIBLE"})
  /\ UNCHANGED curr

\* recalc_sigpending() after task t has blocked the signals that are pending.
\* SIGKILL cannot be blocked, and get_signal(), which would take signals off
\* the queue, is a stub in this tree: a fatal signal stays pending.
recalc_sigpending(t) ==
  /\ curr = t
  /\ sig[t] = "pending"
  /\ sig' = [sig EXCEPT ![t] = "none"]
  /\ UNCHANGED <<tstate, on_rq, curr, need_resched>>

=============================================================================
