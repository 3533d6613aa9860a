----------------------------- MODULE SchedCore -----------------------------
(***************************************************************************)
(* The scheduler core under its most general client: the current task may *)
(* change its own state, call schedule(), yield at a cond_resched(), wake, *)
(* signal or fork another task, or die; interrupts wake tasks and tick at  *)
(* any point where they are enabled; the idle task runs do_idle().         *)
(***************************************************************************)
EXTENDS Sched

VARIABLE idle_pc     \* where do_idle() stands

coreVars == <<schedVars, idle_pc>>

\* "loop":   at the test of the while loop, or out of it
\* "tested": the test found need_resched clear, interrupts are still enabled
\* "hlt":    halted, with interrupts enabled
IdleLocation == {"loop", "tested", "hlt"}

CoreInit ==
  \E alive \in SUBSET Tasks :
    /\ alive # {}
    /\ tstate = [p \in Tasks |-> IF p \in alive THEN "RUNNING" ELSE "NONE"]
    /\ on_rq = alive
    /\ curr \in alive
    /\ need_resched = FALSE
    /\ sig = [p \in Tasks |-> "none"]
    /\ idle_pc = "loop"

CoreTypeOK ==
  /\ tstate \in [Tasks -> TaskState]
  /\ on_rq \subseteq Tasks
  /\ curr \in Tasks \cup {Idle}
  /\ need_resched \in BOOLEAN
  /\ sig \in [Tasks -> Signal]
  /\ idle_pc \in IdleLocation

----------------------------------------------------------------------------
(* Steps of the current task *)

\* A task that has been through set_special_state(TASK_DEAD) only has
\* __schedule() left.
Executing == curr \in Tasks /\ tstate[curr] # "DEAD"

set_current_state(s) ==
  /\ Executing
  /\ tstate' = [tstate EXCEPT ![curr] = s]
  /\ UNCHANGED <<on_rq, curr, need_resched, sig, idle_pc>>

\* Mutation: do_task_dead() calls __schedule(SM_PREEMPT).
schedule_DeadPreempted ==
  /\ curr \in Tasks
  /\ IF tstate[curr] = "DEAD" THEN preempt_schedule_common ELSE __schedule(curr)
  /\ UNCHANGED idle_pc

\* schedule() runs __schedule() until need_resched() is clear; a task that
\* comes back with need_resched set takes this step again.
schedule ==
  /\ curr \in Tasks
  /\ __schedule(curr)
  /\ UNCHANGED idle_pc

__cond_resched ==
  /\ Executing
  /\ cond_resched(curr)
  /\ UNCHANGED idle_pc

\* The tasks somebody may wake: those that sit on a wait list or a timer.  A
\* task is on none before wake_up_new_task() and once it is dead and switched
\* away from; while it dies, what it left behind may still fire.  This is an
\* assumption on the callers: for a task that is not current try_to_wake_up()
\* compares no mask, and would wake a dead one.
Wakeable ==
  {p \in Tasks : tstate[p] \notin {"NONE", "NEW"} /\ (tstate[p] = "DEAD" => p = curr)}

task_wakes(p) ==
  /\ Executing
  /\ p \in Wakeable
  /\ wake_up_process(p)
  /\ UNCHANGED <<curr, sig, idle_pc>>

task_signals(p, fatal) ==
  /\ Executing
  /\ p \in Wakeable
  /\ signal_wake_up(p, fatal)
  /\ UNCHANGED idle_pc

set_current_blocked ==
  /\ Executing
  /\ tstate[curr] = "RUNNING"
  /\ recalc_sigpending(curr)
  /\ UNCHANGED idle_pc

sched_fork(p) ==
  /\ Executing
  /\ tstate[p] = "NONE"
  /\ tstate' = [tstate EXCEPT ![p] = "NEW"]
  /\ UNCHANGED <<on_rq, curr, need_resched, sig, idle_pc>>

wake_up_new_task(p) ==
  /\ Executing
  /\ tstate[p] = "NEW"
  /\ tstate' = [tstate EXCEPT ![p] = "RUNNING"]
  /\ on_rq' = on_rq \cup {p}
  /\ check_preempt_curr
  /\ UNCHANGED <<curr, sig, idle_pc>>

\* do_task_dead() up to its __schedule(SM_NONE), which is the next step.
do_task_dead ==
  /\ Executing
  /\ tstate' = [tstate EXCEPT ![curr] = "DEAD"]
  /\ UNCHANGED <<on_rq, curr, need_resched, sig, idle_pc>>

----------------------------------------------------------------------------
(* The idle task *)

\* An interrupt may wake somebody between the loop test and
\* local_irq_disable().
do_idle ==
  /\ curr = Idle
  /\ idle_pc = "loop"
  /\ ~need_resched
  /\ idle_pc' = "tested"
  /\ UNCHANGED schedVars

\* Mutation: need_resched() is not read again with interrupts off.
cpuidle_idle_call_NoRecheck ==
  /\ idle_pc = "tested"
  /\ idle_pc' = "hlt"
  /\ UNCHANGED schedVars

\* Mutation: the early return does not go back to the loop test.
cpuidle_idle_call_NoRetest ==
  /\ idle_pc = "tested"
  /\ idle_pc' = IF need_resched THEN "tested" ELSE "hlt"
  /\ UNCHANGED schedVars

\* From local_irq_disable() to the sti; hlt pair: with interrupts off
\* need_resched() is read again.
cpuidle_idle_call ==
  /\ idle_pc = "tested"
  /\ idle_pc' = IF need_resched THEN "loop" ELSE "hlt"
  /\ UNCHANGED schedVars

do_idle_ends ==
  /\ idle_pc = "loop"
  /\ schedule_idle
  /\ UNCHANGED idle_pc

----------------------------------------------------------------------------
(* Interrupts *)

\* Any interrupt ends the halt.
irq_exit == idle_pc' = IF idle_pc = "hlt" THEN "loop" ELSE idle_pc

interrupt_wakes(p) ==
  /\ p \in Wakeable
  /\ wake_up_process(p)
  /\ irq_exit
  /\ UNCHANGED <<curr, sig>>

\* The tick asks for a switch or finds no reason to.
scheduler_tick ==
  /\ update_process_times \/ UNCHANGED schedVars
  /\ irq_exit

----------------------------------------------------------------------------

CurrStep ==
  \/ \E s \in SleepState \cup {"RUNNING"} : set_current_state(s)
  \/ schedule
  \/ __cond_resched
  \/ \E p \in Tasks : task_wakes(p) \/ sched_fork(p) \/ wake_up_new_task(p)
  \/ \E p \in Tasks, fatal \in BOOLEAN : task_signals(p, fatal)
  \/ set_current_blocked
  \/ do_task_dead

IdleStep == do_idle \/ cpuidle_idle_call \/ do_idle_ends

Interrupt == scheduler_tick \/ \E p \in Tasks : interrupt_wakes(p)

CoreNext == CurrStep \/ IdleStep \/ Interrupt

\* The idle loop runs whenever the idle task is current.
CoreSpec == CoreInit /\ [][CoreNext]_coreVars /\ WF_coreVars(IdleStep)

----------------------------------------------------------------------------

\* A task is TASK_RUNNING only while it is queued: no interleaving of
\* set_current_state(), an interrupt's try_to_wake_up() and __schedule()
\* leaves a task that believes it runs off the run queue for ever.
RunnableQueued == \A p \in Tasks : tstate[p] = "RUNNING" => p \in on_rq

\* The task __schedule() switched to is still queued when it runs.
CurrQueued == curr \in Tasks => curr \in on_rq

\* The idle task never overlooks a wake-up: while it is current, queued work
\* comes with need_resched, and do_idle() never halts the CPU on top of it.
NoHaltWithWork ==
  curr = Idle /\ on_rq # {} => need_resched /\ idle_pc # "hlt"

\* finish_task_switch() drops the task_struct of a dead task: it is never
\* queued, hence never picked, after the switch away from it; and a task is
\* not queued before wake_up_new_task().
DeadNotQueued ==
  \A p \in Tasks :
    /\ tstate[p] = "DEAD" /\ p # curr => p \notin on_rq
    /\ tstate[p] \in {"NEW", "NONE"} => p \notin on_rq

\* What do_task_dead() started cannot be undone: an interrupt that wakes the
\* dying task between set_special_state() and __schedule() must find that
\* the state does not match.
DeadStaysDead == [][\A p \in Tasks : tstate[p] = "DEAD" => tstate'[p] = "DEAD"]_coreVars

\* do_idle() is past its loop test only while the idle task is current.
IdlePcIdle == idle_pc # "loop" => curr = Idle

\* The inductive invariant behind the safety properties.
CoreInv == CoreTypeOK /\ RunnableQueued /\ CurrQueued /\ NoHaltWithWork /\ DeadNotQueued /\ IdlePcIdle

\* Work queued by an interrupt gets the CPU out of the idle loop.
IdleEnds == (curr = Idle /\ on_rq # {}) ~> (curr # Idle)

=============================================================================
