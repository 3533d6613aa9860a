------------------------------ MODULE RcuTiny ------------------------------
(***************************************************************************)
(* Tiny RCU, kernel/rcu/tiny.c, on top of the softirq loop.                *)
(*                                                                         *)
(* The callback list with its two tail pointers is a sequence and the      *)
(* number of its callbacks that are past a grace period (donetail).  A     *)
(* reader is kernel code of the current task, or a softirq handler, that   *)
(* does not schedule; the quiescent states are the calls of rcu_qs() in    *)
(* __schedule() and in the tick that interrupts user mode.                 *)
(***************************************************************************)
EXTENDS Softirq, ListHead

CONSTANTS Cbs    \* the rcu_heads

VARIABLES
  rcucblist,  \* the callbacks, first to curtail
  done,       \* how many of them are before donetail
  list,       \* the callbacks rcu_process_callbacks() has taken off
  mode,       \* what the CPU runs below interrupts: user, kernel, idle
  rd,         \* the task is in an RCU read-side critical section
  guarded,    \* history: the callbacks queued since that section began
  order       \* history: the queued callbacks in the order of call_rcu()

vars == <<softirqVars, rcucblist, done, list, mode, rd, guarded, order>>
rcuVars == <<rcucblist, done, list, order>>

TypeOK ==
  /\ SoftirqTypeOK
  /\ rcucblist \in Seq(Cbs) /\ list \in Seq(Cbs) /\ order \in Seq(Cbs)
  /\ done \in 0 .. Len(rcucblist)
  /\ mode \in {"user", "kernel", "idle"}
  /\ rd \in BOOLEAN /\ guarded \subseteq Cbs

Init ==
  /\ SoftirqInit
  /\ rcucblist = <<>> /\ done = 0 /\ list = <<>> /\ order = <<>>
  /\ mode = "kernel" /\ rd = FALSE /\ guarded = {}

\* An rcu_head that is on no list; queueing it twice is a caller's bug.
Free == Cbs \ (ToSet(rcucblist) \cup ToSet(list))

----------------------------------------------------------------------------
(* call_rcu() *)

\* Mutation: a new callback is put behind donetail, ahead of those that wait.
Enqueue_AtDone(c) ==
  rcucblist' = SubSeq(rcucblist, 1, done) \o <<c>> \o SubSeq(rcucblist, done + 1, Len(rcucblist))

\* *curtail = head; curtail = &head->next.
Enqueue(c) == rcucblist' = Append(rcucblist, c)

\* call_rcu() asks for a reschedule when it interrupts the idle task.
call_rcu(c) ==
  /\ c \in Free
  /\ Enqueue(c)
  /\ order' = Append(order, c)
  /\ guarded' = IF rd THEN guarded \cup {c} ELSE guarded
  /\ UNCHANGED <<done, list>>

IdleResched == need_resched' = (need_resched \/ mode = "idle")

\* The task, outside of any softirq.
task_call_rcu(c) ==
  /\ ~Serving /\ mode # "user"
  /\ call_rcu(c) /\ IdleResched
  /\ UNCHANGED <<pending, todo, max_restart, bh, mode, rd>>

\* An interrupt handler, which then leaves by irq_exit().
irq_call_rcu(c) ==
  /\ call_rcu(c) /\ IdleResched
  /\ irq_exit(pending)
  /\ UNCHANGED <<bh, mode, rd>>

----------------------------------------------------------------------------
(* Quiescent states *)

\* rcu_qs(): everything queued so far is done, and the softirq is raised.
rcu_qs ==
  /\ done' = Len(rcucblist)
  /\ pending' = IF done # Len(rcucblist) THEN pending \cup {RCU_SOFTIRQ} ELSE pending

\* Mutation: the tick takes whatever it interrupts for a quiescent state.
TickQs_Always == ~Serving

\* rcu_sched_clock_irq(user): user mode is a quiescent state, ...
TickQs == mode = "user" /\ ~Serving
TickDone == IF TickQs THEN Len(rcucblist) ELSE done
TickPending == IF TickQs /\ done # Len(rcucblist) THEN pending \cup {RCU_SOFTIRQ} ELSE pending

\* Mutation: the kernel code that the tick interrupts is not asked for one.
TickResched_Never == need_resched

\* ... and the kernel is asked to reach one.
TickResched == need_resched \/ (~TickQs /\ done # Len(rcucblist))

\* The timer interrupt: run_local_timers() may raise TIMER_SOFTIRQ,
\* rcu_sched_clock_irq() and scheduler_tick() may ask for a reschedule.
tick ==
  /\ done' = TickDone
  /\ need_resched' \in {TickResched, TRUE}
  /\ \E R \in SUBSET {TIMER_SOFTIRQ} : irq_exit(TickPending \cup R)
  /\ UNCHANGED <<bh, rcucblist, list, order, mode, rd, guarded>>

\* __schedule(): rcu_note_context_switch() and the switch to some task, or
\* to the same one.  A task that returns to user mode with need_resched set
\* comes here first, the idle loop when it sees the flag.
schedule ==
  /\ ~Serving /\ ~bh /\ ~rd /\ mode # "user"
  /\ mode = "idle" => need_resched
  /\ rcu_qs
  /\ need_resched' = FALSE
  /\ mode' \in {"kernel", "idle"}
  /\ UNCHANGED <<todo, max_restart, bh, rcucblist, list, order, rd, guarded>>

----------------------------------------------------------------------------
(* RCU_SOFTIRQ and the other handlers *)

\* rcu_process_callbacks(): the done callbacks are taken off the list.  The
\* early return is not reached: whoever raises the softirq has made some done,
\* and only this handler takes them off.
rcu_process_callbacks ==
  /\ todo # {} /\ NextVec = RCU_SOFTIRQ /\ list = <<>> /\ done > 0
  /\ list' = SubSeq(rcucblist, 1, done)
  /\ rcucblist' = SubSeq(rcucblist, done + 1, Len(rcucblist))
  /\ done' = 0
  /\ UNCHANGED <<softirqVars, order, mode, rd, guarded>>

\* rcu_reclaim_tiny() runs the first callback, whose head is free from here
\* on; a call_rcu() of the callback itself is the step irq_call_rcu().
rcu_reclaim_tiny ==
  /\ list # <<>>
  /\ list' = Tail(list)
  /\ order' = list_del(order, Head(list))
  /\ todo' = IF Tail(list) = <<>> THEN todo \ {RCU_SOFTIRQ} ELSE todo
  /\ UNCHANGED <<pending, max_restart, bh, need_resched, rcucblist, done, mode, rd, guarded>>

\* A timer callback, which may raise a softirq or use call_rcu().
timer_softirq ==
  /\ todo # {} /\ NextVec = TIMER_SOFTIRQ
  /\ todo' = todo \ {TIMER_SOFTIRQ}
  /\ pending' \in {pending, pending \cup {TIMER_SOFTIRQ}}
  /\ UNCHANGED <<max_restart, bh, need_resched, mode, rd>>
  /\ \/ \E c \in Cbs : call_rcu(c)
     \/ UNCHANGED <<rcuVars, guarded>>

----------------------------------------------------------------------------
(* The task *)

\* A section with bottom halves disabled lies within a read-side section or
\* outside of all.
rcu_read_lock ==
  /\ ~Serving /\ ~bh /\ mode # "user" /\ ~rd
  /\ rd' = TRUE /\ guarded' = {}
  /\ UNCHANGED <<softirqVars, rcuVars, mode>>

rcu_read_unlock ==
  /\ ~Serving /\ ~bh /\ rd
  /\ rd' = FALSE /\ guarded' = {}
  /\ UNCHANGED <<softirqVars, rcuVars, mode>>

\* exit_to_user_mode_loop() schedules first when need_resched is set.
exit_to_user_mode ==
  /\ ~Serving /\ ~bh /\ ~rd /\ mode = "kernel" /\ ~need_resched
  /\ mode' = "user"
  /\ UNCHANGED <<softirqVars, rcuVars, rd, guarded>>

\* A system call or a fault.
enter_from_user_mode ==
  /\ ~Serving /\ mode = "user"
  /\ mode' = "kernel"
  /\ UNCHANGED <<softirqVars, rcuVars, rd, guarded>>

task_bh ==
  /\ mode = "kernel"
  /\ local_bh_disable \/ local_bh_enable
  /\ UNCHANGED <<rcuVars, mode, rd, guarded>>

----------------------------------------------------------------------------

softirq_action ==
  \/ timer_softirq \/ rcu_process_callbacks \/ rcu_reclaim_tiny
  \/ (softirq_restart \/ softirq_end) /\ UNCHANGED <<rcuVars, mode, rd, guarded>>

Next ==
  \/ \E c \in Cbs : task_call_rcu(c) \/ irq_call_rcu(c)
  \/ tick
  \/ schedule
  \/ softirq_action
  \/ rcu_read_lock \/ rcu_read_unlock
  \/ exit_to_user_mode \/ enter_from_user_mode
  \/ task_bh

Spec == Init /\ [][Next]_vars

\* The periodic tick never stops, softirq handlers and read-side sections
\* end, bottom halves are enabled again, and a task that should reschedule
\* does so at the end of its system call or in the idle loop at the latest.
FairSpec ==
  /\ Spec
  /\ WF_vars(tick) /\ WF_vars(softirq_action)
  /\ SF_vars(rcu_read_unlock) /\ SF_vars(task_bh /\ bh)
  /\ SF_vars(need_resched /\ schedule)
  /\ WF_vars(enter_from_user_mode /\ need_resched)

----------------------------------------------------------------------------
(* Properties *)

\* The grace period: no callback that was queued while a reader runs is
\* invoked, or even taken off the list, before that reader ends, whoever
\* queued it and whatever interrupted the reader.
GracePeriod == guarded \cap ToSet(list) = {}

\* Callbacks are invoked in the order of call_rcu() and none is lost or run
\* twice, although rcu_process_callbacks() takes them off in batches while
\* interrupts and callbacks append new ones behind donetail.
CallbackOrder == list \o rcucblist = order

\* Every callback is invoked eventually: a tick asks for a quiescent state,
\* the next context switch gives it, and the softirq it raises is served at
\* the exit of a later interrupt, there being no ksoftirqd to wake.
CallbackRuns == \A c \in Cbs : c \in ToSet(order) ~> c \notin ToSet(order)

\* The CPU gets back to the task however often interrupts and handlers
\* raise softirqs: the rounds of __do_softirq() are bounded.
SoftirqYields == []<>~Serving

=============================================================================
