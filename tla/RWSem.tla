------------------------------- MODULE RWSem -------------------------------
(***************************************************************************)
(* The reader/writer semaphore of kernel/locking/rwsem.c.                  *)
(*                                                                         *)
(* sem->count is kept as the integer the code computes with: the writer    *)
(* bit, the WAITERS and HANDOFF bits and, from RWSEM_READER_BIAS up, the   *)
(* number of readers, so that a flag subtracted twice or a bias too many   *)
(* shows.  (The READFAIL bit stands for 2^23 readers and is left out.)     *)
(*                                                                         *)
(* On the uniprocessor build the code between two calls of schedule() is   *)
(* one step, except that interrupts, which touch no rwsem, may wake tasks  *)
(* in between.  jiffies runs past waiter->timeout at any moment.           *)
(***************************************************************************)
EXTENDS Sched, Integers, ListHead

CONSTANTS MAX_READERS_WAKEUP,  \* readers that one rwsem_mark_wake() admits
          LockStates,          \* the sleep states of the lock functions in use
          Fatality,            \* the kinds of signal sent: fatal (TRUE) or not
          Blockers             \* the tasks that sleep for other reasons too

ASSUME MaxReadersAssumption == MAX_READERS_WAKEUP \in Nat \ {0}

ASSUME ParamAssumption == LockStates \subseteq SleepState /\ Fatality \subseteq BOOLEAN /\ Blockers \subseteq Tasks

VARIABLES
  count,         \* sem->count
  reader_owned,  \* RWSEM_READER_OWNED of sem->owner
  wait_list,     \* sem->wait_list, a sequence of waiters
  granted,       \* the readers whose waiter.task rwsem_mark_wake() cleared
  expired,       \* the queued waiters with time_after(jiffies, waiter.timeout)
  pc,            \* where each task stands
  lstate         \* the sleep state the task's lock function asks for

rwsemVars == <<count, reader_owned, wait_list, granted, expired, pc, lstate>>

vars == <<schedVars, rwsemVars>>

\* "out":    neither holds the lock nor waits for it
\* "queued": in a slow path, at the top of its wait loop
\* "sleep":  not TASK_RUNNING any more, about to call schedule()
\* "slept":  inside, or just back from, schedule()
\* "read", "write": holds the lock
Location == {"out", "queued", "sleep", "slept", "read", "write"}

\* struct rwsem_waiter; its timeout is in expired, and its handoff_set only
\* steers the optimistic spinning that this configuration does not have.
Waiter(t, type) == [task |-> t, type |-> type]

Init ==
  /\ SchedInit
  /\ count = 0
  /\ reader_owned = FALSE
  /\ wait_list = <<>>
  /\ granted = {}
  /\ expired = {}
  /\ pc = [t \in Tasks |-> "out"]
  /\ lstate = [t \in Tasks |-> "UNINTERRUPTIBLE"]

----------------------------------------------------------------------------
(* sem->count *)

RWSEM_WRITER_LOCKED == 1
RWSEM_FLAG_WAITERS  == 2
RWSEM_FLAG_HANDOFF  == 4
RWSEM_READER_BIAS   == 256

Has(c, flag) == (c \div flag) % 2 = 1

SetFlag(c, flag) == IF Has(c, flag) THEN c ELSE c + flag

ClearFlag(c, flag) == IF Has(c, flag) THEN c - flag ELSE c

\* count >> RWSEM_READER_SHIFT
Readers(c) == c \div RWSEM_READER_BIAS

\* count & RWSEM_LOCK_MASK
Locked(c) == Has(c, RWSEM_WRITER_LOCKED) \/ Readers(c) # 0

\* count & RWSEM_READ_FAILED_MASK
ReadFailed(c) == \E f \in {RWSEM_WRITER_LOCKED, RWSEM_FLAG_WAITERS, RWSEM_FLAG_HANDOFF} : Has(c, f)

----------------------------------------------------------------------------
(* rwsem_mark_wake() and its callers, as functions on what they change: the *)
(* count, the list, the readers they grant the lock to, the tasks they wake *)

Quiet(c, list, owned) ==
  [count |-> c, list |-> list, owned |-> owned, grant |-> {}, wake |-> {}]

\* The readers admitted in one go: the first MAX_READERS_WAKEUP of the list,
\* writers in between are passed over.
ReadersToWake(list) ==
  LET rank(i) == Cardinality({j \in 1 .. i : list[j].type = "read"})
  IN {list[i] : i \in {j \in DOMAIN list : list[j].type = "read" /\ rank(j) <= MAX_READERS_WAKEUP}}

TasksOf(W) == {w.task : w \in W}

\* Mutation: readers are woken but not let in.
rwsem_mark_wake_NoGrant(c, list, owned, wake_type) ==
  [Quiet(c, list, owned) EXCEPT !.wake = {Head(list).task}]

\* Mutation: readers are let in without a look at the writer bit, left on
\* the list if keeps, and not woken unless wakes.
MarkWakeVariant(c, list, owned, looks, keeps, wakes) ==
  LET first == Head(list)
      R == ReadersToWake(list)
      rest == IF keeps THEN list ELSE list_del_all(list, R)
      unhand == IF Has(c, RWSEM_FLAG_HANDOFF) THEN RWSEM_FLAG_HANDOFF ELSE 0
      unwait == IF rest = <<>> THEN RWSEM_FLAG_WAITERS ELSE 0
  IN IF first.type = "write"
     THEN [Quiet(c, list, owned) EXCEPT !.wake = {first.task}]
     ELSE IF looks /\ Has(c, RWSEM_WRITER_LOCKED)
     THEN Quiet(c, list, owned)
     ELSE [count |-> c + Cardinality(R) * RWSEM_READER_BIAS - unwait - unhand,
           list  |-> rest,
           owned |-> TRUE,
           grant |-> TasksOf(R),
           wake  |-> IF wakes THEN TasksOf(R) ELSE {}]

\* wake_type is "ANY", "READERS" or "READ_OWNED"; list is not empty.
rwsem_mark_wake(c, list, owned, wake_type) ==
  LET first == Head(list)
      R == ReadersToWake(list)
      rest == list_del_all(list, R)
      unhand == IF Has(c, RWSEM_FLAG_HANDOFF) THEN RWSEM_FLAG_HANDOFF ELSE 0
      unwait == IF rest = <<>> THEN RWSEM_FLAG_WAITERS ELSE 0
  IN IF first.type = "write"
     THEN [Quiet(c, list, owned) EXCEPT !.wake = IF wake_type = "ANY" THEN {first.task} ELSE {}]
     ELSE IF wake_type # "READ_OWNED" /\ Has(c, RWSEM_WRITER_LOCKED)
     THEN Quiet(IF first.task \in expired THEN SetFlag(c, RWSEM_FLAG_HANDOFF) ELSE c, list, owned)
     ELSE [count |-> c + Cardinality(R) * RWSEM_READER_BIAS - unwait - unhand,
           list  |-> rest,
           owned |-> IF wake_type = "READ_OWNED" THEN owned ELSE TRUE,
           grant |-> TasksOf(R),
           wake  |-> TasksOf(R)]

rwsem_cond_wake_waiter(c, list, owned) ==
  IF Has(c, RWSEM_WRITER_LOCKED) THEN Quiet(c, list, owned)
  ELSE rwsem_mark_wake(c, list, owned, IF Readers(c) # 0 THEN "READERS" ELSE "ANY")

\* rwsem_wake() and rwsem_downgrade_wake() look at the list first.
rwsem_wake(c, list, owned, wake_type) ==
  IF list = <<>> THEN Quiet(c, list, owned) ELSE rwsem_mark_wake(c, list, owned, wake_type)

\* Mutation: HANDOFF survives the last waiter.
rwsem_del_wake_waiter_KeepsHandoff(c, list, owned, w) ==
  LET rest == list_del(list, w)
  IN IF rest = <<>>
     THEN Quiet(ClearFlag(c, RWSEM_FLAG_WAITERS), rest, owned)
     ELSE IF Head(list) = w THEN rwsem_mark_wake(c, rest, owned, "ANY")
     ELSE Quiet(c, rest, owned)

\* rwsem_del_waiter() and, if the waiter was the first of several, a wake-up
\* for the one that is first now.
rwsem_del_wake_waiter(c, list, owned, w) ==
  LET rest == list_del(list, w)
  IN IF rest = <<>>
     THEN Quiet(ClearFlag(ClearFlag(c, RWSEM_FLAG_HANDOFF), RWSEM_FLAG_WAITERS), rest, owned)
     ELSE IF Head(list) = w THEN rwsem_mark_wake(c, rest, owned, "ANY")
     ELSE Quiet(c, rest, owned)

\* Store the outcome r, and wake_up_q().
Apply(r) ==
  /\ count' = r.count
  /\ wait_list' = r.list
  /\ reader_owned' = r.owned
  /\ granted' = granted \cup r.grant
  /\ wake_up_q(r.wake)

----------------------------------------------------------------------------
(* down_read() *)

\* What rwsem_read_trylock() leaves in count, whether it succeeds or not.
Biased == count + RWSEM_READER_BIAS

\* Mutation: a reader may steal a lock that was promised.
ReadMustQueue_NoHandoff ==
  \/ Has(count, RWSEM_WRITER_LOCKED)
  \/ reader_owned /\ Readers(Biased) > 1

\* The slow path queues rather than steals: other readers hold the lock with
\* somebody waiting for it, or a writer holds it or was promised it.
ReadMustQueue ==
  \/ Has(count, RWSEM_WRITER_LOCKED) \/ Has(count, RWSEM_FLAG_HANDOFF)
  \/ reader_owned /\ Readers(Biased) > 1

\* rwsem_read_trylock() and __down_read_trylock() succeed.
down_read_fast(t) ==
  /\ curr = t /\ pc[t] = "out"
  /\ ~ReadFailed(Biased)
  /\ count' = Biased
  /\ reader_owned' = TRUE
  /\ pc' = [pc EXCEPT ![t] = "read"]
  /\ UNCHANGED <<schedVars, wait_list, granted, expired, lstate>>

\* Stealing: the lock is free, or held by readers that the owner field does
\* not tell of.  The first reader lets queued readers at the head in as well.
down_read_steal(t) ==
  /\ curr = t /\ pc[t] = "out"
  /\ ReadFailed(Biased)
  /\ ~ReadMustQueue
  /\ IF Readers(Biased) = 1 /\ Has(Biased, RWSEM_FLAG_WAITERS)
     THEN Apply(rwsem_wake(Biased, wait_list, TRUE, "READ_OWNED"))
     ELSE Apply(Quiet(Biased, wait_list, TRUE))
  /\ pc' = [pc EXCEPT ![t] = "read"]
  /\ UNCHANGED <<curr, sig, expired, lstate>>

\* The lock cannot have been released between rwsem_read_trylock() and
\* wait_lock, so the branch for an empty queue without a writer is dead here.
down_read_queue(t, state) ==
  /\ curr = t /\ pc[t] = "out"
  /\ ReadFailed(Biased)
  /\ ReadMustQueue
  /\ Apply(rwsem_cond_wake_waiter(
             Biased - RWSEM_READER_BIAS + (IF wait_list = <<>> THEN RWSEM_FLAG_WAITERS ELSE 0),
             list_add_tail(wait_list, Waiter(t, "read")), reader_owned))
  /\ expired' = expired \ {t}
  /\ lstate' = [lstate EXCEPT ![t] = state]
  /\ pc' = [pc EXCEPT ![t] = "queued"]
  /\ UNCHANGED <<curr, sig>>

----------------------------------------------------------------------------
(* down_write() *)

\* rwsem_write_trylock() succeeds.
down_write_fast(t) ==
  /\ curr = t /\ pc[t] = "out"
  /\ count = 0
  /\ count' = RWSEM_WRITER_LOCKED
  /\ reader_owned' = FALSE
  /\ pc' = [pc EXCEPT ![t] = "write"]
  /\ UNCHANGED <<schedVars, wait_list, granted, expired, lstate>>

down_write_queue(t, state) ==
  /\ curr = t /\ pc[t] = "out"
  /\ count # 0
  /\ LET list == list_add_tail(wait_list, Waiter(t, "write"))
     IN Apply(IF wait_list # <<>>
              THEN rwsem_cond_wake_waiter(count, list, reader_owned)
              ELSE Quiet(SetFlag(count, RWSEM_FLAG_WAITERS), list, reader_owned))
  /\ expired' = expired \ {t}
  /\ lstate' = [lstate EXCEPT ![t] = state]
  /\ pc' = [pc EXCEPT ![t] = "queued"]
  /\ UNCHANGED <<curr, sig>>

----------------------------------------------------------------------------
(* The wait loops of the two slow paths *)

\* schedule() goes round again when it comes back with need_resched set.
sleep(t) ==
  /\ curr = t
  /\ pc[t] = "sleep" \/ (pc[t] = "slept" /\ need_resched)
  /\ __schedule(t)
  /\ pc' = [pc EXCEPT ![t] = "slept"]
  /\ UNCHANGED <<count, reader_owned, wait_list, granted, expired, lstate>>

LoopTop(t) ==
  /\ curr = t
  /\ pc[t] = "queued" \/ (pc[t] = "slept" /\ ~need_resched)

\* At the top of the loop, with the waiter still queued.
Waits(t, type) == LoopTop(t) /\ Contains(wait_list, Waiter(t, type))

\* set_current_state() and on to schedule().
GoToSleep(t) ==
  /\ tstate' = [tstate EXCEPT ![t] = lstate[t]]
  /\ pc' = [pc EXCEPT ![t] = "sleep"]
  /\ UNCHANGED <<on_rq, curr, need_resched, sig, reader_owned, wait_list, granted, expired, lstate>>

\* -EINTR: leave the queue, with count as c.
GiveUp(t, type, c) ==
  /\ signal_pending_state(lstate[t], t)
  /\ Apply(rwsem_del_wake_waiter(c, wait_list, reader_owned, Waiter(t, type)))
  /\ pc' = [pc EXCEPT ![t] = "out"]
  /\ expired' = expired \ {t}
  /\ UNCHANGED <<curr, sig, lstate>>

\* waiter.task is NULL: rwsem_mark_wake() has counted this reader in.
read_granted(t) ==
  /\ LoopTop(t)
  /\ t \in granted
  /\ granted' = granted \ {t}
  /\ pc' = [pc EXCEPT ![t] = "read"]
  /\ expired' = expired \ {t}
  /\ UNCHANGED <<schedVars, count, reader_owned, wait_list, lstate>>

read_gives_up(t) == Waits(t, "read") /\ GiveUp(t, "read", count)

read_waits(t) ==
  /\ Waits(t, "read")
  /\ ~signal_pending_state(lstate[t], t)
  /\ UNCHANGED count
  /\ GoToSleep(t)

\* rwsem_try_write_lock() fails outright: somebody else was promised the
\* lock, or it is held and this waiter cannot (again) ask for a hand-over.
WriteRefused(t) ==
  \/ Has(count, RWSEM_FLAG_HANDOFF) /\ Head(wait_list).task # t
  \/ Locked(count) /\ (Has(count, RWSEM_FLAG_HANDOFF) \/ t \notin expired)

\* Mutation: the writer looks for another writer only.
WriteTakes_OverReaders(t) == ~Has(count, RWSEM_WRITER_LOCKED)

WriteTakes(t) == ~Locked(count) /\ ~WriteRefused(t)

\* Mutation: a writer never asks for the hand-over.
CountAfterFailure_NoHandoff(t) == count

\* The count after a failed rwsem_try_write_lock().
CountAfterFailure(t) ==
  IF WriteRefused(t) THEN count ELSE SetFlag(count, RWSEM_FLAG_HANDOFF)

write_takes(t) ==
  /\ Waits(t, "write")
  /\ WriteTakes(t)
  /\ wait_list' = list_del(wait_list, Waiter(t, "write"))
  /\ LET c == ClearFlag(SetFlag(count, RWSEM_WRITER_LOCKED), RWSEM_FLAG_HANDOFF)
     IN count' = IF Len(wait_list) = 1 THEN ClearFlag(c, RWSEM_FLAG_WAITERS) ELSE c
  /\ reader_owned' = FALSE
  /\ pc' = [pc EXCEPT ![t] = "write"]
  /\ expired' = expired \ {t}
  /\ UNCHANGED <<schedVars, granted, lstate>>

\* The failed attempt before may have set HANDOFF.
write_gives_up(t) ==
  /\ Waits(t, "write")
  /\ ~WriteTakes(t)
  /\ GiveUp(t, "write", CountAfterFailure(t))

write_waits(t) ==
  /\ Waits(t, "write")
  /\ ~WriteTakes(t)
  /\ ~signal_pending_state(lstate[t], t)
  /\ count' = CountAfterFailure(t)
  /\ GoToSleep(t)

----------------------------------------------------------------------------
(* up_read(), up_write(), downgrade_write() *)

up_read(t) ==
  /\ curr = t /\ pc[t] = "read"
  /\ LET c == count - RWSEM_READER_BIAS
     IN Apply(IF ~Locked(c) /\ Has(c, RWSEM_FLAG_WAITERS)
              THEN rwsem_wake(c, wait_list, reader_owned, "ANY")
              ELSE Quiet(c, wait_list, reader_owned))
  /\ pc' = [pc EXCEPT ![t] = "out"]
  /\ UNCHANGED <<curr, sig, expired, lstate>>

\* Mutation: up_write() wakes nobody.
up_write_NoWake(t) ==
  /\ curr = t /\ pc[t] = "write"
  /\ Apply(Quiet(count - RWSEM_WRITER_LOCKED, wait_list, FALSE))
  /\ pc' = [pc EXCEPT ![t] = "out"]
  /\ UNCHANGED <<curr, sig, expired, lstate>>

up_write(t) ==
  /\ curr = t /\ pc[t] = "write"
  /\ LET c == count - RWSEM_WRITER_LOCKED
     IN Apply(IF Has(count, RWSEM_FLAG_WAITERS)
              THEN rwsem_wake(c, wait_list, FALSE, "ANY")
              ELSE Quiet(c, wait_list, FALSE))
  /\ pc' = [pc EXCEPT ![t] = "out"]
  /\ UNCHANGED <<curr, sig, expired, lstate>>

downgrade_write(t) ==
  /\ curr = t /\ pc[t] = "write"
  /\ LET c == count - RWSEM_WRITER_LOCKED + RWSEM_READER_BIAS
     IN Apply(IF Has(count, RWSEM_FLAG_WAITERS)
              THEN rwsem_wake(c, wait_list, TRUE, "READ_OWNED")
              ELSE Quiet(c, wait_list, TRUE))
  /\ pc' = [pc EXCEPT ![t] = "read"]
  /\ UNCHANGED <<curr, sig, expired, lstate>>

----------------------------------------------------------------------------
(* The rest of the system *)

\* jiffies passes waiter.timeout.
waiter_expires(t) ==
  /\ \E i \in DOMAIN wait_list : wait_list[i].task = t
  /\ t \notin expired
  /\ expired' = expired \cup {t}
  /\ UNCHANGED <<schedVars, count, reader_owned, wait_list, granted, pc, lstate>>

resched(t) == pc[t] \in {"out", "read", "write"} /\ cond_resched(t) /\ UNCHANGED rwsemVars

\* A task may sleep while it holds the lock.
blocks(t) ==
  /\ t \in Blockers
  /\ pc[t] \in {"out", "read", "write"}
  /\ wait_elsewhere(t)
  /\ UNCHANGED rwsemVars

task_signals(p, fatal) ==
  /\ curr \in Tasks => pc[curr] \in {"out", "read", "write"}
  /\ signal_wake_up(p, fatal)
  /\ UNCHANGED rwsemVars

irq_wakes(p) == stray_wake_up(p) /\ UNCHANGED rwsemVars

tick == update_process_times /\ UNCHANGED rwsemVars

leave_idle == schedule_idle /\ UNCHANGED rwsemVars

----------------------------------------------------------------------------

ReadStep(t) ==
  \/ down_read_fast(t) \/ down_read_steal(t)
  \/ \E state \in LockStates : down_read_queue(t, state)
  \/ read_granted(t) \/ read_gives_up(t) \/ read_waits(t)
  \/ up_read(t)

WriteStep(t) ==
  \/ down_write_fast(t)
  \/ \E state \in LockStates : down_write_queue(t, state)
  \/ write_takes(t) \/ write_gives_up(t) \/ write_waits(t)
  \/ up_write(t) \/ downgrade_write(t)

Environment ==
  \/ \E t \in Tasks : resched(t) \/ blocks(t) \/ irq_wakes(t) \/ waiter_expires(t)
  \/ \E t \in Tasks, fatal \in Fatality : task_signals(t, fatal)
  \/ tick
  \/ leave_idle

Next == Environment \/ \E t \in Tasks : ReadStep(t) \/ WriteStep(t) \/ sleep(t)

Spec == Init /\ [][Next]_vars

\* CFS runs every queued task again and again, and lets it execute a few
\* instructions before the next tick preempts it; time passes; what a task
\* waits for elsewhere happens; a holder lets go some day.
Fairness ==
  /\ \A t \in Tasks :
       /\ SF_vars(Next /\ curr # t /\ curr' = t)
       /\ SF_vars(\/ read_granted(t) \/ read_waits(t) \/ write_takes(t) \/ write_waits(t)
                  \/ up_read(t) \/ up_write(t))
       /\ WF_vars(pc[t] \in {"out", "read", "write"} /\ irq_wakes(t))
       /\ WF_vars(waiter_expires(t))
  /\ WF_vars(\E t \in Tasks : sleep(t) \/ resched(t))
  /\ WF_vars(tick \/ leave_idle)

FairSpec == Spec /\ Fairness

----------------------------------------------------------------------------
(* Properties *)

Reading == {t \in Tasks : pc[t] = "read"}

Writing == {t \in Tasks : pc[t] = "write"}

\* The word is exact: one bias for each reader in or let in, the writer bit
\* for the writer, WAITERS exactly while the queue is not empty, HANDOFF only
\* with somebody to hand the lock to.
CountExact ==
  \E handoff \in {0, RWSEM_FLAG_HANDOFF} :
    /\ count = RWSEM_READER_BIAS * Cardinality(Reading \cup granted)
               + Cardinality(Writing)
               + (IF wait_list = <<>> THEN 0 ELSE RWSEM_FLAG_WAITERS)
               + handoff
    /\ wait_list = <<>> => handoff = 0

\* No wake-up is lost: once the lock is free and somebody waits, the first
\* waiter is runnable; so is a reader that was let in, which counts as a
\* reader, and shuts writers out, before it runs; and a task in a slow path is
\* queued, or was let in, and not both.
NoLostWakeup ==
  /\ wait_list # <<>> /\ ~Locked(count) =>
       LET t == Head(wait_list).task IN tstate[t] = "RUNNING" /\ t \in on_rq
  /\ \A t \in granted : tstate[t] = "RUNNING" /\ t \in on_rq
  /\ granted # {} => Writing = {}
  /\ \A t \in Tasks :
       Cardinality({i \in DOMAIN wait_list : wait_list[i].task = t}) + (IF t \in granted THEN 1 ELSE 0)
         = IF pc[t] \in {"queued", "sleep", "slept"} THEN 1 ELSE 0

\* A reader is first in the queue only while a writer holds the lock, or
\* while the readers let in before it, MAX_READERS_WAKEUP at a time, do.
NoReaderLeftBehind ==
  wait_list # <<>> /\ Head(wait_list).type = "read" => Locked(count)

\* Once HANDOFF is set the lock goes to the head of the queue: a task that
\* was not queued does not get it, reader or writer.
NoStealAfterHandoff ==
  [][Has(count, RWSEM_FLAG_HANDOFF) =>
       \A t \in Tasks : pc[t] = "out" => pc'[t] \notin {"read", "write"}]_vars

\* Whoever waits, reader or writer, gets the lock.
NoStarvation ==
  \A t \in Tasks : pc[t] \in {"queued", "sleep", "slept"} ~> pc[t] \in {"read", "write"}

\* For its users the rwsem is a reader/writer lock.
Abstract == INSTANCE RWLock WITH readers <- Reading, writers <- Writing

ImplementsLock == Abstract!Spec

=============================================================================
