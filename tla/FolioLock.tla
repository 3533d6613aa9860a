----------------------------- MODULE FolioLock -----------------------------
(***************************************************************************)
(* The folio lock of mm/filemap.c: the PG_locked bit, the PG_waiters bit   *)
(* and the hashed wait queues of folio_wait_table, walked by               *)
(* __wake_up_common() of kernel/sched/wait.c with wake_page_function().    *)
(*                                                                         *)
(* The folios of the model hash to one bucket, so a wake-up for one walks  *)
(* the waiters of the other.  Only tasks lock and unlock folios and q->lock *)
(* masks interrupts, so folio_unlock() with its walk is one step; the      *)
(* bookmark, which lets interrupts in after WAITQUEUE_WALK_BREAK_CNT       *)
(* entries, changes nothing that an interrupt could see or disturb.  The   *)
(* window of the waiter is from set_current_state() to io_schedule().      *)
(* A task that holds a folio does not sleep for another reason, a bound,   *)
(* so that some task is always runnable and the idle task never runs.      *)
(***************************************************************************)
EXTENDS Sched, ListHead

CONSTANTS
  Folios,                      \* folios whose wait queue is the same, by index
  LockStates,                  \* the states that waiters sleep in, a bound
  Mortal,                      \* the tasks that are sent a SIGKILL, a bound
  sysctl_page_lock_unfairness  \* wake-ups that may lose the lock to a barger

ASSUME FolioAssumption == Folios \subseteq Nat \ {0}

ASSUME BoundsAssumption == LockStates \subseteq {"UNINTERRUPTIBLE", "KILLABLE"} /\ Mortal \subseteq Tasks

ASSUME UnfairnessAssumption == sysctl_page_lock_unfairness \in Nat

VARIABLES
  locked,      \* the folios with PG_locked
  waiters,     \* the folios with PG_waiters
  queue,       \* the bucket: the tasks whose wait_page_queue is on it
  wait,        \* each task's wait_page_queue with the arguments it waits with
  unfairness,  \* the local of folio_wait_bit_common(), 0 once it is spent
  pc,          \* where each task stands in folio_wait_bit_common()
  holds        \* the folios that each task has locked

folioVars == <<locked, waiters, queue, wait, unfairness, pc, holds>>

vars == <<schedVars, folioVars>>

NoFolio == 0

Location == {"out", "sleep", "slept"}

\* CUSTOM asks for the lock to be handed over, DONE says that it was.
WaitFlag == {"EXCLUSIVE", "CUSTOM", "WOKEN", "DONE"}

Wait == [folio : Folios \cup {NoFolio}, state : {"UNINTERRUPTIBLE", "KILLABLE"},
         flags : SUBSET WaitFlag]

\* The wait_page_queue is on the stack of folio_wait_bit_common().
NoWait == [folio |-> NoFolio, state |-> "UNINTERRUPTIBLE", flags |-> {}]

Init ==
  /\ SchedInit
  /\ locked = {}
  /\ waiters = {}
  /\ queue = <<>>
  /\ wait = [t \in Tasks |-> NoWait]
  /\ unfairness = [t \in Tasks |-> 0]
  /\ pc = [t \in Tasks |-> "out"]
  /\ holds = [t \in Tasks |-> {}]

----------------------------------------------------------------------------
(* Locking *)

\* A task collects folios only with folio_trylock() and in ascending order, as
\* find_lock_entries() does for truncation.
folio_trylock(t, f) ==
  /\ curr = t /\ pc[t] = "out" /\ \A g \in holds[t] : g < f
  /\ f \notin locked
  /\ locked' = locked \cup {f}
  /\ holds' = [holds EXCEPT ![t] = @ \cup {f}]
  /\ UNCHANGED <<schedVars, waiters, queue, wait, unfairness, pc>>

\* Mutation: a waiter never asks for the lock to be handed over.
Flags_NeverCustom(exclusive, left) == IF exclusive THEN {"EXCLUSIVE"} ELSE {}

\* wait->flags at the repeat label: an exclusive waiter that has used up its
\* unfairness asks for the lock to be handed over.
Flags(exclusive, left) ==
  IF ~exclusive THEN {} ELSE IF left = 0 THEN {"EXCLUSIVE", "CUSTOM"} ELSE {"EXCLUSIVE"}

\* The return of folio_wait_bit_common(): its locals are gone.
finish_wait(t) ==
  /\ pc' = [pc EXCEPT ![t] = "out"]
  /\ wait' = [wait EXCEPT ![t] = NoWait]
  /\ unfairness' = [unfairness EXCEPT ![t] = 0]

\* From the repeat label to io_schedule().  The bit was just seen set, so
\* folio_trylock_flag() fails; a pending signal takes the entry back off.
enqueue(t, f, st, exclusive, left) ==
  /\ waiters' = waiters \cup {f}
  /\ IF signal_pending_state(st, t)
     THEN /\ finish_wait(t)
          /\ UNCHANGED <<queue, tstate>>
     ELSE /\ unfairness' = [unfairness EXCEPT ![t] = IF left = 0 THEN 0 ELSE left - 1]
          /\ wait' = [wait EXCEPT ![t] = [folio |-> f, state |-> st, flags |-> Flags(exclusive, left)]]
          /\ queue' = list_add_tail(queue, t)
          /\ tstate' = [tstate EXCEPT ![t] = st]
          /\ pc' = [pc EXCEPT ![t] = "sleep"]

\* Called by a task that holds no folio.
folio_wait_bit_common(t, f, st, exclusive) ==
  /\ curr = t /\ pc[t] = "out" /\ holds[t] = {}
  /\ f \in locked
  /\ enqueue(t, f, st, exclusive, sysctl_page_lock_unfairness)
  /\ UNCHANGED <<on_rq, curr, need_resched, sig, locked, holds>>

\* folio_lock(), __folio_lock_killable() once the trylock has failed.
__folio_lock(t, f, st) == folio_wait_bit_common(t, f, st, TRUE)

\* folio_wait_locked(), folio_wait_locked_killable() of a locked folio.
folio_wait_locked(t, f, st) == folio_wait_bit_common(t, f, st, FALSE)

io_schedule(t) ==
  /\ curr = t
  /\ pc[t] = "sleep" \/ (pc[t] = "slept" /\ need_resched)
  /\ __schedule(t)
  /\ pc' = [pc EXCEPT ![t] = "slept"]
  /\ UNCHANGED <<locked, waiters, queue, wait, unfairness, holds>>

Back(t) == curr = t /\ pc[t] = "slept" /\ ~need_resched

\* Woken by a signal or for another reason, the entry still queued: give up
\* with -EINTR, finish_wait() removing it, or sleep again.
not_woken(t) ==
  /\ Back(t) /\ "WOKEN" \notin wait[t].flags
  /\ IF signal_pending_state(wait[t].state, t)
     THEN /\ queue' = list_del(queue, t)
          /\ finish_wait(t)
          /\ UNCHANGED tstate
     ELSE /\ tstate' = [tstate EXCEPT ![t] = wait[t].state]
          /\ pc' = [pc EXCEPT ![t] = "sleep"]
          /\ UNCHANGED <<queue, wait, unfairness>>
  /\ UNCHANGED <<on_rq, curr, need_resched, sig, locked, waiters, holds>>

\* finish_wait() after a shared wait, or with the lock handed over.
woken(t) ==
  /\ Back(t) /\ "WOKEN" \in wait[t].flags
  /\ "EXCLUSIVE" \in wait[t].flags => "DONE" \in wait[t].flags
  /\ holds' = IF "DONE" \in wait[t].flags THEN [holds EXCEPT ![t] = {wait[t].folio}] ELSE holds
  /\ finish_wait(t)
  /\ UNCHANGED <<schedVars, locked, waiters, queue>>

\* Mutation: a waiter that was woken does not look at the bit.
retry_NoTest(t) ==
  /\ Back(t) /\ wait[t].flags \cap {"WOKEN", "EXCLUSIVE", "DONE"} = {"WOKEN", "EXCLUSIVE"}
  /\ locked' = locked \cup {wait[t].folio}
  /\ holds' = [holds EXCEPT ![t] = {wait[t].folio}]
  /\ finish_wait(t)
  /\ UNCHANGED <<schedVars, waiters, queue>>

\* An exclusive waiter that was woken without the lock tries to take it, and
\* queues again at the tail when somebody was faster.
retry(t) ==
  /\ Back(t) /\ wait[t].flags \cap {"WOKEN", "EXCLUSIVE", "DONE"} = {"WOKEN", "EXCLUSIVE"}
  /\ IF wait[t].folio \in locked
     THEN /\ enqueue(t, wait[t].folio, wait[t].state, TRUE, unfairness[t])
          /\ UNCHANGED <<locked, holds>>
     ELSE /\ locked' = locked \cup {wait[t].folio}
          /\ holds' = [holds EXCEPT ![t] = {wait[t].folio}]
          /\ finish_wait(t)
          /\ UNCHANGED <<tstate, waiters, queue>>
  /\ UNCHANGED <<on_rq, curr, need_resched, sig>>

----------------------------------------------------------------------------
(* Unlocking *)

\* wake_page_match()
Matches(f) == {i \in DOMAIN queue : wait[queue[i]].folio = f}

\* The entries that __wake_up_common() visits with nr_exclusive = 1: up to
\* the first exclusive waiter for f, whose wake_page_function() returns 1.
Visited(f) ==
  {i \in DOMAIN queue : \A j \in Matches(f) : "EXCLUSIVE" \in wait[queue[j]].flags => i <= j}

\* Mutation: the walk stops at the first exclusive waiter, be it for another
\* folio.
WokenBy_AnyFolio(f) ==
  {queue[i] : i \in {k \in Matches(f) :
      \A j \in DOMAIN queue : "EXCLUSIVE" \in wait[queue[j]].flags => k <= j}}

\* wake_page_function() wakes each matching entry and unlinks it.
WokenBy(f) == {queue[i] : i \in Visited(f) \cap Matches(f)}

\* The waiter that gets the lock while it sleeps.
HandedTo(f) == {t \in WokenBy(f) : "CUSTOM" \in wait[t].flags}

\* folio_wake_bit(): walk the queue, then clear PG_waiters if no entry that
\* was visited belongs to f, or none is left of anybody.
folio_wake_bit(f) ==
  /\ queue' = list_del_all(queue, WokenBy(f))
  /\ wait' = [t \in Tasks |->
       IF t \notin WokenBy(f) THEN wait[t]
       ELSE [wait[t] EXCEPT !.flags = @ \cup {"WOKEN"} \cup (IF t \in HandedTo(f) THEN {"DONE"} ELSE {})]]
  /\ locked' = IF HandedTo(f) = {} THEN locked \ {f} ELSE locked
  /\ waiters' = IF queue' = <<>> \/ WokenBy(f) = {} THEN waiters \ {f} ELSE waiters
  /\ wake_up_q(WokenBy(f))
  /\ UNCHANGED <<curr, sig>>

\* A batch is unlocked in the order in which it was locked.
folio_unlock(t, f) ==
  /\ curr = t /\ pc[t] = "out" /\ f \in holds[t] /\ \A g \in holds[t] : f <= g
  /\ holds' = [holds EXCEPT ![t] = @ \ {f}]
  /\ IF f \in waiters
     THEN folio_wake_bit(f)
     ELSE locked' = locked \ {f} /\ UNCHANGED <<schedVars, waiters, queue, wait>>
  /\ UNCHANGED <<unfairness, pc>>

----------------------------------------------------------------------------
(* The rest of the system *)

resched(t) == pc[t] = "out" /\ cond_resched(t) /\ UNCHANGED folioVars

irq_wakes(p) == stray_wake_up(p) /\ UNCHANGED folioVars

kill(p) == p \in Mortal /\ curr # p /\ sig[p] # "fatal" /\ signal_wake_up(p, TRUE) /\ UNCHANGED folioVars

tick == update_process_times /\ UNCHANGED folioVars

----------------------------------------------------------------------------

TaskStep(t) ==
  \/ \E f \in Folios : folio_trylock(t, f)
  \/ \E f \in Folios, st \in LockStates :
       __folio_lock(t, f, st) \/ folio_wait_locked(t, f, st)
  \/ io_schedule(t) \/ not_woken(t) \/ woken(t) \/ retry(t)
  \/ \E f \in Folios : folio_unlock(t, f)
  \/ resched(t)

Next ==
  \/ \E t \in Tasks : TaskStep(t) \/ irq_wakes(t) \/ kill(t)
  \/ tick

\* Another task switches to t.
switch_to(t) == (\E u \in Tasks \ {t} : io_schedule(u) \/ resched(u)) /\ curr' = t

\* The scheduler as in Semaphore; every folio that was locked is unlocked.
Fairness ==
  /\ \A t \in Tasks :
       /\ SF_vars(switch_to(t))
       /\ SF_vars(not_woken(t) \/ woken(t) \/ retry(t) \/ \E f \in Folios : folio_unlock(t, f))
  /\ WF_vars(\E t \in Tasks : io_schedule(t) \/ resched(t))
  /\ WF_vars(tick)

Spec == Init /\ [][Next]_vars

FairSpec == Spec /\ Fairness

----------------------------------------------------------------------------
(* Properties *)

\* The owners of f: who holds it, and who was handed it and has yet to run.
Owners(f) ==
  {t \in Tasks : \/ f \in holds[t]
                 \/ pc[t] # "out" /\ wait[t].folio = f /\ "DONE" \in wait[t].flags}

\* The lock has one owner exactly when PG_locked is set, also while it is
\* being handed to a waiter that is asleep, or that a signal has woken.
OneOwner == \A f \in Folios : Cardinality(Owners(f)) = IF f \in locked THEN 1 ELSE 0

\* Nobody is forgotten: the unlock will find a waiter (PG_waiters is set as
\* long as one is queued, whatever the neighbours in the bucket do), and
\* while the bit is clear some exclusive waiter is awake to take the lock
\* and to wake the next when it unlocks.
NoLostWakeup ==
  \A i \in DOMAIN queue :
    LET f == wait[queue[i]].folio
    IN /\ f \in waiters
       /\ \/ f \in locked
          \/ \E t \in on_rq : /\ pc[t] = "slept" /\ wait[t].folio = f
                              /\ {"WOKEN", "EXCLUSIVE"} \subseteq wait[t].flags

\* Every wait ends, also against tasks that keep taking the lock on the fast
\* path: a waiter loses it sysctl_page_lock_unfairness times and is then
\* handed it.
WaitEnds == \A t \in Tasks : pc[t] # "out" ~> pc[t] = "out"

=============================================================================
