------------------------------ MODULE Softirq ------------------------------
(***************************************************************************)
(* The softirq loop of kernel/softirq.c on one CPU.                        *)
(*                                                                         *)
(* smpboot_register_percpu_thread() is a stub, so there is no ksoftirqd:   *)
(* wakeup_softirqd() does nothing and ksoftirqd_running() is false.  What  *)
(* __do_softirq() leaves pending waits for the exit of the next interrupt  *)
(* or for the next local_bh_enable().  Handlers run with interrupts on;    *)
(* an interrupt that arrives then, or while the task has bottom halves     *)
(* disabled, finds in_interrupt() true and starts no softirq.              *)
(***************************************************************************)
EXTENDS Naturals

CONSTANTS MAX_SOFTIRQ_RESTART    \* 10 in the code

ASSUME RestartAssumption == MAX_SOFTIRQ_RESTART \in Nat \ {0}

VARIABLES
  pending,       \* local_softirq_pending()
  todo,          \* the bits __do_softirq() has read and not yet handled
  max_restart,   \* its local counter; 0 while no softirq is served
  bh,            \* the task has bottom halves disabled
  need_resched   \* TIF_NEED_RESCHED of the current task

softirqVars == <<pending, todo, max_restart, bh, need_resched>>

TIMER_SOFTIRQ == 1
RCU_SOFTIRQ == 9
Softirqs == {TIMER_SOFTIRQ, RCU_SOFTIRQ}

SoftirqTypeOK ==
  /\ pending \subseteq Softirqs /\ todo \subseteq Softirqs
  /\ max_restart \in 0 .. MAX_SOFTIRQ_RESTART
  /\ bh \in BOOLEAN /\ need_resched \in BOOLEAN

SoftirqInit ==
  /\ pending = {} /\ todo = {} /\ max_restart = 0
  /\ bh = FALSE /\ need_resched = FALSE

Serving == max_restart > 0

\* in_interrupt(), as seen from an interrupt that is about to return.
in_interrupt == Serving \/ bh

\* The first round of __do_softirq(), reading the bits p.
do_softirq(p) ==
  /\ todo' = p
  /\ pending' = {}
  /\ max_restart' = MAX_SOFTIRQ_RESTART

\* __irq_exit_rcu() after a handler that left the bits p pending.
irq_exit(p) ==
  IF ~in_interrupt /\ p # {} THEN do_softirq(p)
  ELSE pending' = p /\ UNCHANGED <<todo, max_restart>>

\* while ((softirq_bit = ffs(pending))): lowest bit first.
NextVec == CHOOSE v \in todo : \A w \in todo : v <= w

\* Mutation: the restarts are not counted.
softirq_restart_Unbounded ==
  /\ Serving /\ todo = {} /\ pending # {}
  /\ ~need_resched
  /\ todo' = pending /\ pending' = {}
  /\ UNCHANGED <<max_restart, bh, need_resched>>

\* All bits of a round are handled and new ones came in: another round, if
\* it is not yet MAX_SOFTIRQ_TIME (either way here), nobody has to be
\* scheduled, and a restart is left.
softirq_restart ==
  /\ Serving /\ todo = {} /\ pending # {}
  /\ ~need_resched /\ max_restart > 1
  /\ max_restart' = max_restart - 1
  /\ todo' = pending /\ pending' = {}
  /\ UNCHANGED <<bh, need_resched>>

\* __do_softirq() returns; what is pending stays so.
softirq_end ==
  /\ Serving /\ todo = {}
  /\ max_restart' = 0
  /\ UNCHANGED <<pending, todo, bh, need_resched>>

local_bh_disable ==
  /\ ~Serving /\ ~bh
  /\ bh' = TRUE
  /\ UNCHANGED <<pending, todo, max_restart, need_resched>>

\* __local_bh_enable_ip() runs what came up in between.
local_bh_enable ==
  /\ ~Serving /\ bh
  /\ bh' = FALSE
  /\ IF pending # {} THEN do_softirq(pending) ELSE UNCHANGED <<pending, todo, max_restart>>
  /\ UNCHANGED need_resched

=============================================================================
