----------------------------- MODULE Semaphore -----------------------------
(***************************************************************************)
(* The counting semaphore of kernel/locking/semaphore.c.                   *)
(*                                                                         *)
(* sem->lock is a raw spinlock taken with interrupts off, so down(), up()  *)
(* and the piece of ___down_common() between two calls of schedule() are   *)
(* atomic steps.  The one window in it is from raw_spin_unlock_irq() to    *)
(* schedule(): the waiter is queued and no longer TASK_RUNNING, still      *)
(* current, and an interrupt may call up() on the same semaphore or wake   *)
(* the task for a reason of its own.                                       *)
(*                                                                         *)
(* A semaphore has no owner: any task, or an interrupt, may give back a    *)
(* unit that somebody took.                                                *)
(***************************************************************************)
EXTENDS Sched, ListHead

CONSTANT N           \* the n of __SEMAPHORE_INITIALIZER()

ASSUME NAssumption == N \in Nat \ {0}

VARIABLES
  count,       \* sem->count
  wait_list,   \* sem->wait_list, the tasks of the queued waiters
  up_flag,     \* waiter.up of each task's semaphore_waiter
  pc,          \* where each task stands in down()
  held         \* units that down() or down_trylock() returned, minus calls of up()

semVars == <<count, wait_list, up_flag, pc, held>>

vars == <<schedVars, semVars>>

\* "out":   not in down()
\* "sleep": in ___down_common(), lock dropped, about to call schedule()
\* "slept": inside, or just back from, schedule()
Location == {"out", "sleep", "slept"}

Init ==
  /\ SchedInit
  /\ count = N
  /\ wait_list = <<>>
  /\ up_flag = [p \in Tasks |-> FALSE]
  /\ pc = [p \in Tasks |-> "out"]
  /\ held = 0

----------------------------------------------------------------------------
(* down() *)

down_fast(t) ==
  /\ curr = t /\ pc[t] = "out"
  /\ count > 0
  /\ count' = count - 1
  /\ held' = held + 1
  /\ UNCHANGED <<schedVars, wait_list, up_flag, pc>>

\* Mutation: the waiter is queued at the head.
__down_AtHead(t) ==
  /\ curr = t /\ pc[t] = "out"
  /\ count <= 0
  /\ wait_list' = <<t>> \o wait_list
  /\ up_flag' = [up_flag EXCEPT ![t] = FALSE]
  /\ tstate' = [tstate EXCEPT ![t] = "UNINTERRUPTIBLE"]
  /\ pc' = [pc EXCEPT ![t] = "sleep"]
  /\ UNCHANGED <<on_rq, curr, need_resched, sig, count, held>>

\* __down(): queue a waiter at the tail and prepare to sleep.
\* signal_pending_state() ignores signals in TASK_UNINTERRUPTIBLE and the
\* timeout is MAX_SCHEDULE_TIMEOUT: neither early exit of the loop is taken.
__down(t) ==
  /\ curr = t /\ pc[t] = "out"
  /\ count <= 0
  /\ wait_list' = list_add_tail(wait_list, t)
  /\ up_flag' = [up_flag EXCEPT ![t] = FALSE]
  /\ tstate' = [tstate EXCEPT ![t] = "UNINTERRUPTIBLE"]
  /\ pc' = [pc EXCEPT ![t] = "sleep"]
  /\ UNCHANGED <<on_rq, curr, need_resched, sig, count, held>>

\* schedule_timeout(MAX_SCHEDULE_TIMEOUT) is schedule(); back from it with
\* need_resched set, schedule() goes round again.
sleep(t) ==
  /\ curr = t
  /\ pc[t] = "sleep" \/ (pc[t] = "slept" /\ need_resched)
  /\ __schedule(t)
  /\ pc' = [pc EXCEPT ![t] = "slept"]
  /\ UNCHANGED <<count, wait_list, up_flag, held>>

\* The rest of the loop body, up to the next sleep or the return.
woken(t) ==
  /\ curr = t /\ pc[t] = "slept" /\ ~need_resched
  /\ IF up_flag[t]
     THEN /\ pc' = [pc EXCEPT ![t] = "out"]
          /\ held' = held + 1
          /\ UNCHANGED tstate
     ELSE /\ pc' = [pc EXCEPT ![t] = "sleep"]
          /\ tstate' = [tstate EXCEPT ![t] = "UNINTERRUPTIBLE"]
          /\ UNCHANGED held
  /\ UNCHANGED <<on_rq, curr, need_resched, sig, count, wait_list, up_flag>>

\* down_trylock(), from a task or an interrupt; it fails with no effect.
down_trylock ==
  /\ count - 1 >= 0
  /\ count' = count - 1
  /\ held' = held + 1
  /\ UNCHANGED <<schedVars, wait_list, up_flag, pc>>

----------------------------------------------------------------------------
(* up() *)

\* Mutation: the unit is handed over and counted as well.
__up_Counts ==
  /\ wait_list # <<>>
  /\ wait_list' = Tail(wait_list)
  /\ up_flag' = [up_flag EXCEPT ![Head(wait_list)] = TRUE]
  /\ wake_up_process(Head(wait_list))
  /\ count' = count + 1
  /\ UNCHANGED <<curr, sig, pc>>

\* Mutation: nobody is woken.
__up_NoWakeUp ==
  /\ wait_list # <<>>
  /\ wait_list' = Tail(wait_list)
  /\ up_flag' = [up_flag EXCEPT ![Head(wait_list)] = TRUE]
  /\ UNCHANGED <<schedVars, count, pc>>

\* Mutation: the last waiter gets the unit.
__up_Last ==
  /\ wait_list # <<>>
  /\ wait_list' = Front(wait_list)
  /\ up_flag' = [up_flag EXCEPT ![Last(wait_list)] = TRUE]
  /\ wake_up_process(Last(wait_list))
  /\ UNCHANGED <<curr, sig, count, pc>>

\* __up(): the unit goes to the first waiter without passing through count.
__up ==
  /\ wait_list # <<>>
  /\ wait_list' = Tail(wait_list)
  /\ up_flag' = [up_flag EXCEPT ![Head(wait_list)] = TRUE]
  /\ wake_up_process(Head(wait_list))
  /\ UNCHANGED <<curr, sig, count, pc>>

\* Mutation: the unit may be counted although somebody waits.
up_count_Always ==
  /\ count' = count + 1
  /\ UNCHANGED <<schedVars, wait_list, up_flag, pc>>

up_count ==
  /\ wait_list = <<>>
  /\ count' = count + 1
  /\ UNCHANGED <<schedVars, wait_list, up_flag, pc>>

\* Only a unit that was taken is given back.
up ==
  /\ held > 0
  /\ held' = held - 1
  /\ __up \/ up_count

\* Where a task may call up(): outside down(); an interrupt may, always.
task_up(t) == curr = t /\ pc[t] = "out" /\ up

irq_up == up

----------------------------------------------------------------------------
(* The rest of the system *)

\* A task outside down() passes a preemption point.
resched(t) == pc[t] = "out" /\ cond_resched(t) /\ UNCHANGED semVars

irq_wakes(p) == stray_wake_up(p) /\ UNCHANGED semVars

tick == update_process_times /\ UNCHANGED semVars

leave_idle == schedule_idle /\ UNCHANGED semVars

----------------------------------------------------------------------------

TaskStep(t) == down_fast(t) \/ __down(t) \/ sleep(t) \/ woken(t) \/ task_up(t) \/ resched(t)

Next ==
  \/ \E t \in Tasks : TaskStep(t) \/ irq_wakes(t)
  \/ down_trylock
  \/ irq_up
  \/ tick
  \/ leave_idle

\* The assumptions behind the liveness property: CFS runs every queued task
\* again and again and lets it execute a few instructions before the next
\* tick preempts it (sysctl_sched_min_granularity), the tick interrupts
\* whoever runs, and every unit taken is given back some day.
Fairness ==
  /\ \A t \in Tasks : SF_vars(Next /\ curr # t /\ curr' = t) /\ SF_vars(woken(t))
  /\ WF_vars(\E t \in Tasks : sleep(t) \/ resched(t))
  /\ WF_vars(tick \/ leave_idle)
  /\ WF_vars(irq_up)

Spec == Init /\ [][Next]_vars

FairSpec == Spec /\ Fairness

----------------------------------------------------------------------------
(* Properties *)

\* A unit is granted between __up() and the return of the waiter's down().
Granted == {t \in Tasks : pc[t] # "out" /\ up_flag[t]}

\* No unit is lost or made up by the hand-over from up() to a sleeper: those
\* in count, those returned and those granted are N at any time.
Conservation == count + held + Cardinality(Granted) = N

\* down() and down_trylock() cannot overtake a waiter: no unit is in count
\* while somebody queues.
NoBarging == count > 0 => wait_list = <<>>

\* No wake-up is lost.  A task in down() is in the wait list once, for an up()
\* to find, until it is granted a unit; it may sleep meanwhile, but from the
\* moment of the grant, in the window before schedule() too, it is and stays
\* runnable.
NoLostWakeup ==
  /\ NoDup(wait_list)
  /\ \A t \in Tasks : InList(wait_list, t) <=> pc[t] # "out" /\ ~up_flag[t]
  /\ \A t \in Tasks : tstate[t] # "RUNNING" => InList(wait_list, t)
  /\ \A t \in Granted : tstate[t] = "RUNNING" /\ t \in on_rq

\* A task in down() that has not been granted a unit.
NotGranted == {t \in Tasks : pc[t] # "out" /\ ~up_flag[t]}

\* q stands before p on sem->wait_list.
Ahead(q, p) ==
  \E i, j \in DOMAIN wait_list : i < j /\ wait_list[i] = q /\ wait_list[j] = p

\* Waiters get their units in the order in which they called down(), which
\* takes both list_add_tail() and the hand-over to the first entry: as long as
\* p waits, whoever is not ahead of it, because it queued later or is still
\* outside down(), does not get ahead of it and is granted no unit.
FIFO ==
  [][\A p \in NotGranted \cap NotGranted', q \in Tasks :
       ~Ahead(q, p) => ~Ahead(q, p)' /\ q \notin Granted' \ Granted]_vars

\* Every down() returns.
DownReturns == \A t \in Tasks : pc[t] # "out" ~> pc[t] = "out"

=============================================================================
