-------------------------- MODULE FolioLockProofs --------------------------
(***************************************************************************)
(* Proofs about FolioLock, for any tasks, any folios in the bucket and any *)
(* unfairness: a locked folio has one owner, also while it is handed to a  *)
(* sleeper, and no waiter is forgotten.                                    *)
(***************************************************************************)
EXTENDS FolioLock, LockLemmas

TypeOK ==
  /\ locked \subseteq Folios /\ waiters \subseteq Folios
  /\ queue \in Seq(Tasks)
  /\ wait \in [Tasks -> Wait]
  /\ unfairness \in [Tasks -> Nat]
  /\ pc \in [Tasks -> Location]
  /\ holds \in [Tasks -> SUBSET Folios]

\* A wait_page_queue exists while its task is in folio_wait_bit_common(), is
\* on the bucket until it is woken, and its flags are set in this order.  A
\* task that waits holds nothing, and is current until it calls io_schedule().
WaitOK(t) ==
  /\ pc[t] = "out" => wait[t].flags = {}
  /\ pc[t] # "out" => wait[t].folio \in Folios /\ holds[t] = {}
  /\ InList(queue, t) <=> pc[t] # "out" /\ "WOKEN" \notin wait[t].flags
  /\ "DONE" \in wait[t].flags => {"WOKEN", "EXCLUSIVE"} \subseteq wait[t].flags
  /\ "CUSTOM" \in wait[t].flags => "EXCLUSIVE" \in wait[t].flags
  /\ "WOKEN" \in wait[t].flags => tstate[t] = "RUNNING" /\ pc[t] = "slept"
  /\ pc[t] = "sleep" => curr = t

\* One owner when the bit is set, none when it is clear.
Owned == \A f \in Folios : IF f \in locked THEN \E t \in Tasks : Owners(f) = {t} ELSE Owners(f) = {}

\* t was woken for f and will try to take it, or has it already.
Wakened(t, f) ==
  /\ t \in on_rq /\ pc[t] = "slept" /\ wait[t].folio = f
  /\ {"WOKEN", "EXCLUSIVE"} \subseteq wait[t].flags

\* NoLostWakeup by task instead of by position in the bucket.
Remembered ==
  \A u \in Tasks : InList(queue, u) =>
    /\ wait[u].folio \in waiters
    /\ wait[u].folio \in locked \/ \E t \in Tasks : Wakened(t, wait[u].folio)

IInv ==
  /\ TypeOK /\ SchedOK /\ NoDup(queue)
  /\ \A t \in Tasks : WaitOK(t)
  /\ Owned /\ Remembered

----------------------------------------------------------------------------
(* Waiting *)

\* A step of the scheduler that leaves the folios alone.
LEMMA SchedulerStep ==
  ASSUME IInv, SchedOK', StaysRunnable, UNCHANGED <<locked, waiters, queue, wait, unfairness, holds>>,
         pc' \in [Tasks -> Location],
         \A t \in Tasks : pc'[t] = pc[t] \/ (pc[t] = "sleep" /\ pc'[t] = "slept"),
         \A t \in Tasks : pc'[t] = "sleep" => curr' = t
  PROVE  IInv'
<1>1. TypeOK' /\ NoDup(queue') BY DEF IInv, TypeOK
<1>2. \A t \in Tasks : WaitOK(t)' BY DEF IInv, WaitOK, StaysRunnable
<1>3. Owned'
  <2>1. \A f \in Folios : Owners(f)' = Owners(f) BY DEF Owners
  <2>. QED BY <2>1 DEF IInv, Owned
<1>4. \A t \in Tasks, f \in Folios : Wakened(t, f) => Wakened(t, f)'
  BY DEF Wakened, IInv, WaitOK, SchedOK, StaysRunnable
<1>5. Remembered' BY <1>4 DEF IInv, Remembered, WaitOK
<1>. QED BY <1>1, <1>2, <1>3, <1>5 DEF IInv

\* A step of task t that concerns its own wait only: the others' stay as
\* they are.
OthersKept(t) ==
  \A u \in Tasks \ {t} :
    /\ wait'[u] = wait[u] /\ pc'[u] = pc[u] /\ holds'[u] = holds[u] /\ tstate'[u] = tstate[u]
    /\ InList(queue', u) <=> InList(queue, u)

\* Such a step takes the folios of N, which were free, and releases none.  If t
\* was the one who would take a folio, then the folio is locked now.
LEMMA OwnStep ==
  ASSUME IInv, NEW t \in Tasks, NEW N \in SUBSET Folios,
         TypeOK', SchedOK', NoDup(queue'), OthersKept(t), WaitOK(t)', curr = t, curr' = t, on_rq' = on_rq,
         locked' = locked \cup N, N \cap locked = {}, waiters \subseteq waiters',
         \A g \in N : t \in Owners(g)',
         \A g \in Folios \ N : t \in Owners(g)' <=> t \in Owners(g),
         \A g \in Folios : Wakened(t, g) => g \in locked',
         InList(queue', t) => \/ wait'[t].folio \in waiters' \cap locked'
                              \/ InList(queue, t) /\ wait'[t] = wait[t]
  PROVE  IInv'
<1>1. ASSUME NEW u \in Tasks PROVE WaitOK(u)'
  <2>1. CASE u = t BY <2>1
  <2>2. CASE u # t
    <3>1. WaitOK(u) /\ pc[u] # "sleep" BY <2>2 DEF IInv, WaitOK
    <3>. QED BY <2>2, <3>1 DEF OthersKept, WaitOK
  <2>. QED BY <2>1, <2>2
<1>2. \A g \in Folios : \A u \in Tasks \ {t} : u \in Owners(g)' <=> u \in Owners(g)
  BY DEF Owners, OthersKept
<1>3. Owned'
  <2> SUFFICES ASSUME NEW g \in Folios
               PROVE  IF g \in locked' THEN \E u \in Tasks : Owners(g)' = {u} ELSE Owners(g)' = {}
    BY DEF Owned
  <2>0. Owners(g) \subseteq Tasks /\ Owners(g)' \subseteq Tasks BY DEF Owners
  <2>1. CASE g \in N
    <3>1. Owners(g) = {} BY <2>1 DEF IInv, Owned
    <3>2. t \in Owners(g)' /\ \A u \in Tasks \ {t} : u \notin Owners(g)' BY <2>1, <3>1, <1>2
    <3>3. Owners(g)' = {t} BY <2>0, <3>2, Zenon
    <3>. QED BY <2>1, <3>3
  <2>2. CASE g \notin N
    <3>3. \A u \in Tasks : u \in Owners(g)' <=> u \in Owners(g) BY <2>2, <1>2
    <3>1. Owners(g)' = Owners(g) BY <2>0, <3>3, Zenon
    <3>. QED BY <2>2, <3>1 DEF IInv, Owned
  <2>. QED BY <2>1, <2>2
<1>4. \A u \in Tasks \ {t}, g \in Folios : Wakened(u, g) => Wakened(u, g)'
  BY DEF Wakened, OthersKept
<1>5. Remembered'
  <2> SUFFICES ASSUME NEW u \in Tasks, InList(queue', u)
               PROVE  /\ wait'[u].folio \in waiters'
                      /\ wait'[u].folio \in locked' \/ \E v \in Tasks : Wakened(v, wait[u].folio)'
    BY DEF Remembered
  <2>1. CASE u = t /\ wait'[t].folio \in waiters' \cap locked' BY <2>1
  <2>2. CASE InList(queue, u) /\ wait'[u] = wait[u]
    <3>1. InList(queue, u) /\ wait'[u] = wait[u] BY <2>2
    <3>2. /\ wait[u].folio \in waiters /\ wait[u].folio \in Folios
          /\ wait[u].folio \in locked \/ \E v \in Tasks : Wakened(v, wait[u].folio)
      BY <3>1 DEF IInv, Remembered, WaitOK
    <3>3. PICK g \in Folios : g = wait[u].folio BY <3>2
    <3>4. ASSUME NEW v \in Tasks, Wakened(v, g) PROVE g \in locked' \/ Wakened(v, g)'
      BY <3>4, <1>4
    <3>5. g \in locked' \/ \E v \in Tasks : Wakened(v, g)' BY <3>2, <3>3, <3>4
    <3>6. (wait[u].folio)' = g BY <3>1, <3>3
    <3>7. \A v \in Tasks : Wakened(v, g)' => Wakened(v, wait[u].folio)' BY <3>6 DEF Wakened
    <3>. QED BY <3>1, <3>2, <3>3, <3>5, <3>6, <3>7
  <2>. QED BY <2>1, <2>2 DEF OthersKept
<1>. QED BY <1>1, <1>3, <1>5 DEF IInv

\* finish_wait() gives the task's locals back.
LEMMA FinishWait ==
  ASSUME IInv, NEW t \in Tasks, finish_wait(t)
  PROVE  /\ wait' \in [Tasks -> Wait] /\ unfairness' \in [Tasks -> Nat] /\ pc' \in [Tasks -> Location]
         /\ pc'[t] = "out" /\ wait'[t] = NoWait
         /\ \A u \in Tasks \ {t} : pc'[u] = pc[u] /\ wait'[u] = wait[u]
<1>1. NoWait \in Wait BY DEF NoWait, Wait, NoFolio
<1>. QED BY <1>1 DEF finish_wait, IInv, TypeOK, Location

\* A free folio that is taken without waiting has one owner.
LEMMA TrylockInv ==
  ASSUME IInv, NEW t \in Tasks, NEW f \in Folios, folio_trylock(t, f)
  PROVE  IInv'
<1> USE DEF folio_trylock
<1>1. TypeOK' /\ NoDup(queue') BY DEF IInv, TypeOK
<1>2. SchedOK' BY Ticked DEF IInv
<1>3. OthersKept(t) BY <1>1 DEF OthersKept, IInv, TypeOK, schedVars
<1>4. WaitOK(t)' BY DEF IInv, WaitOK, schedVars
<1>5. \A g \in Folios \ {f} : t \in Owners(g)' <=> t \in Owners(g)
  BY DEF Owners, IInv, TypeOK
<1>6. t \in Owners(f)' BY DEF Owners, IInv, TypeOK
<1>7. ~InList(queue', t) /\ \A g \in Folios : ~Wakened(t, g) BY DEF IInv, WaitOK, Wakened
<1> HIDE DEF folio_trylock
<1>8. /\ {f} \in SUBSET Folios /\ curr = t /\ curr' = t /\ on_rq' = on_rq /\ locked' = locked \cup {f}
      /\ {f} \cap locked = {} /\ waiters \subseteq waiters'
  BY DEF folio_trylock, schedVars
<1>. QED BY <1>1, <1>2, <1>3, <1>4, <1>5, <1>6, <1>7, <1>8, OwnStep

\* From the repeat label on: t queues for f, whose bit is set, or returns
\* because of a signal.  If it was awake to take a folio, it was f.
LEMMA EnqueueInv ==
  ASSUME IInv, NEW t \in Tasks, NEW f \in Folios, NEW st \in {"UNINTERRUPTIBLE", "KILLABLE"},
         NEW exclusive \in BOOLEAN, NEW left \in Nat, curr = t, f \in locked,
         ~InList(queue, t), holds[t] = {}, "DONE" \notin wait[t].flags,
         \A g \in Folios : Wakened(t, g) => g = f,
         enqueue(t, f, st, exclusive, left), UNCHANGED <<on_rq, curr, need_resched, sig, locked, holds>>
  PROVE  IInv'
<1>0. /\ wait \in [Tasks -> Wait] /\ pc \in [Tasks -> Location] /\ unfairness \in [Tasks -> Nat]
      /\ queue \in Seq(Tasks) /\ NoDup(queue)
  BY DEF IInv, TypeOK
<1>1. /\ Flags(exclusive, left) \subseteq {"EXCLUSIVE", "CUSTOM"}
      /\ "CUSTOM" \in Flags(exclusive, left) => "EXCLUSIVE" \in Flags(exclusive, left)
  BY DEF Flags
<1>2. waiters' = waiters \cup {f} BY DEF enqueue
<1>3. \A g \in Folios : t \notin Owners(g) BY DEF Owners
<1>4. CASE signal_pending_state(st, t)
  <2>1. finish_wait(t) /\ UNCHANGED <<queue, tstate>> BY <1>4 DEF enqueue
  <2>2. /\ wait' \in [Tasks -> Wait] /\ unfairness' \in [Tasks -> Nat] /\ pc' \in [Tasks -> Location]
        /\ pc'[t] = "out" /\ wait'[t] = NoWait
        /\ \A u \in Tasks \ {t} : pc'[u] = pc[u] /\ wait'[u] = wait[u]
    BY <2>1, FinishWait
  <2>3. TypeOK' /\ NoDup(queue') BY <1>2, <2>1, <2>2 DEF IInv, TypeOK
  <2>4. SchedOK' BY <2>1, Ticked DEF IInv, schedVars
  <2>5. OthersKept(t) BY <2>1, <2>2 DEF OthersKept
  <2>6. WaitOK(t)' BY <2>1, <2>2 DEF WaitOK, NoWait
  <2>7. \A g \in Folios : t \notin Owners(g)' BY <2>2 DEF Owners
  <2>8. ~InList(queue', t) BY <2>1
  <2>. QED BY <1>2, <1>3, <2>3, <2>4, <2>5, <2>6, <2>7, <2>8, OwnStep
<1>5. CASE ~signal_pending_state(st, t)
  <2>1. /\ wait' = [wait EXCEPT ![t] = [folio |-> f, state |-> st, flags |-> Flags(exclusive, left)]]
        /\ unfairness' = [unfairness EXCEPT ![t] = IF left = 0 THEN 0 ELSE left - 1]
        /\ queue' = list_add_tail(queue, t)
        /\ tstate' = [tstate EXCEPT ![t] = st]
        /\ pc' = [pc EXCEPT ![t] = "sleep"]
    BY <1>5 DEF enqueue
  <2>2. /\ queue' \in Seq(Tasks) /\ NoDup(queue')
        /\ \A x : InList(queue', x) <=> InList(queue, x) \/ x = t
    BY <1>0, <2>1, ListAddTail
  <2>3. /\ pc'[t] = "sleep" /\ wait'[t].folio = f /\ wait'[t].flags = Flags(exclusive, left)
        /\ \A u \in Tasks \ {t} : pc'[u] = pc[u] /\ wait'[u] = wait[u]
    BY <1>0, <2>1
  <2>4. TypeOK'
    <3>1. [folio |-> f, state |-> st, flags |-> Flags(exclusive, left)] \in Wait
      BY <1>1 DEF Wait, WaitFlag
    <3>2. wait' \in [Tasks -> Wait] /\ pc' \in [Tasks -> Location] BY <1>0, <2>1, <3>1 DEF Location
    <3>3. unfairness' \in [Tasks -> Nat] BY <1>0, <2>1
    <3>. QED BY <1>2, <2>2, <3>2, <3>3 DEF IInv, TypeOK
  <2>5. SchedOK' /\ \A u \in Tasks \ {t} : tstate'[u] = tstate[u]
    <3>1. st \in SleepState BY DEF SleepState
    <3>. QED BY <2>1, <3>1, StateSet DEF IInv
  <2>6. OthersKept(t) BY <2>2, <2>3, <2>5 DEF OthersKept
  <2>7. WaitOK(t)' BY <1>1, <2>2, <2>3 DEF WaitOK
  <2>8. \A g \in Folios : t \notin Owners(g)' BY <1>1, <2>3 DEF Owners
  <2>. QED BY <1>2, <1>3, <2>2, <2>3, <2>4, <2>5, <2>6, <2>7, <2>8, OwnStep
<1>. QED BY <1>4, <1>5

\* A task that starts to wait queues behind a locked folio.
LEMMA WaitBitInv ==
  ASSUME IInv, NEW t \in Tasks, NEW f \in Folios, NEW st \in LockStates, NEW exclusive \in BOOLEAN,
         folio_wait_bit_common(t, f, st, exclusive)
  PROVE  IInv'
<1>1. /\ st \in {"UNINTERRUPTIBLE", "KILLABLE"} /\ sysctl_page_lock_unfairness \in Nat
      /\ curr = t /\ pc[t] = "out" /\ f \in locked /\ holds[t] = {}
      /\ enqueue(t, f, st, exclusive, sysctl_page_lock_unfairness)
      /\ UNCHANGED <<on_rq, curr, need_resched, sig, locked, holds>>
  BY BoundsAssumption, UnfairnessAssumption DEF folio_wait_bit_common
<1>2. ~InList(queue, t) /\ "DONE" \notin wait[t].flags BY <1>1 DEF IInv, WaitOK
<1>3. \A g \in Folios : Wakened(t, g) => g = f BY <1>1 DEF Wakened
<1>. QED BY <1>1, <1>2, <1>3, EnqueueInv

\* To sleep changes no folio and no waiter.
LEMMA IoScheduleInv == ASSUME IInv, NEW t \in Tasks, io_schedule(t) PROVE IInv'
<1>1. curr = t /\ __schedule(t) /\ SchedOK BY DEF io_schedule, IInv
<1>2. SchedOK' /\ StaysRunnable BY <1>1, Scheduled
<1>3. /\ pc' = [pc EXCEPT ![t] = "slept"] /\ pc[t] \in {"sleep", "slept"} /\ pc \in [Tasks -> Location]
      /\ UNCHANGED <<locked, waiters, queue, wait, unfairness, holds>>
  BY DEF io_schedule, IInv, TypeOK
<1>4. pc' \in [Tasks -> Location] BY <1>3 DEF Location
<1>5. \A u \in Tasks : pc'[u] = pc[u] \/ (pc[u] = "sleep" /\ pc'[u] = "slept") BY <1>3
<1>6. \A u \in Tasks : pc'[u] # "sleep" BY <1>1, <1>3 DEF IInv, WaitOK
<1>. QED BY <1>2, <1>3, <1>4, <1>5, <1>6, SchedulerStep

\* The entry is still on the bucket: t gives up, or prepares to sleep again.
LEMMA NotWokenInv == ASSUME IInv, NEW t \in Tasks, not_woken(t) PROVE IInv'
<1>0. /\ curr = t /\ pc[t] = "slept" /\ "WOKEN" \notin wait[t].flags
      /\ UNCHANGED <<on_rq, curr, need_resched, sig, locked, waiters, holds>>
  BY DEF not_woken, Back
<1>1. /\ wait \in [Tasks -> Wait] /\ pc \in [Tasks -> Location]
      /\ queue \in Seq(Tasks) /\ NoDup(queue) /\ InList(queue, t) /\ "DONE" \notin wait[t].flags
      /\ holds[t] = {} /\ wait[t].folio \in Folios
  BY <1>0 DEF IInv, TypeOK, WaitOK
<1>2. \A g \in Folios : ~Wakened(t, g) /\ t \notin Owners(g) BY <1>0, <1>1 DEF Wakened, Owners
<1> DEFINE N == {}
<1>3. /\ N \in SUBSET Folios /\ locked' = locked \cup N /\ N \cap locked = {}
      /\ waiters \subseteq waiters' /\ curr' = t /\ \A g \in N : FALSE
  BY <1>0
<1> HIDE DEF N
<1>4. CASE signal_pending_state(wait[t].state, t)
  <2>1. queue' = list_del(queue, t) /\ finish_wait(t) /\ UNCHANGED tstate BY <1>4 DEF not_woken
  <2>2. /\ wait' \in [Tasks -> Wait] /\ unfairness' \in [Tasks -> Nat] /\ pc' \in [Tasks -> Location]
        /\ pc'[t] = "out" /\ wait'[t] = NoWait
        /\ \A u \in Tasks \ {t} : pc'[u] = pc[u] /\ wait'[u] = wait[u]
    BY <2>1, FinishWait
  <2>3. /\ queue' \in Seq(Tasks) /\ NoDup(queue')
        /\ \A x : InList(queue', x) <=> InList(queue, x) /\ x # t
    BY <1>1, <2>1, ListDel
  <2>4. TypeOK' BY <1>0, <2>2, <2>3 DEF IInv, TypeOK
  <2>5. SchedOK' BY <1>0, <2>1, Ticked DEF IInv, schedVars
  <2>6. OthersKept(t) BY <1>0, <2>1, <2>2, <2>3 DEF OthersKept
  <2>7. WaitOK(t)' BY <2>2, <2>3 DEF WaitOK, NoWait
  <2>8. \A g \in Folios : t \notin Owners(g)' BY <1>0, <1>1, <2>2 DEF Owners
  <2>. QED BY <1>0, <1>2, <1>3, <2>3, <2>4, <2>5, <2>6, <2>7, <2>8, OwnStep
<1>5. CASE ~signal_pending_state(wait[t].state, t)
  <2>1. /\ tstate' = [tstate EXCEPT ![t] = wait[t].state] /\ pc' = [pc EXCEPT ![t] = "sleep"]
        /\ UNCHANGED <<queue, wait, unfairness>>
    BY <1>5 DEF not_woken
  <2>2. TypeOK' BY <1>0, <2>1 DEF IInv, TypeOK, Location
  <2>3. SchedOK' /\ \A u \in Tasks \ {t} : tstate'[u] = tstate[u]
    <3>1. wait[t].state \in SleepState BY <1>1 DEF Wait, SleepState
    <3>. QED BY <1>0, <2>1, <3>1, StateSet DEF IInv
  <2>4. pc'[t] = "sleep" /\ \A u \in Tasks \ {t} : pc'[u] = pc[u] BY <1>1, <2>1
  <2>5. OthersKept(t) BY <1>0, <2>1, <2>3, <2>4 DEF OthersKept
  <2>6. WaitOK(t)
    BY DEF IInv
  <2>7. WaitOK(t)' BY <1>0, <1>1, <2>1, <2>4, <2>6 DEF WaitOK
  <2>8. \A g \in Folios : t \notin Owners(g)' BY <1>0, <1>1, <2>1 DEF Owners
  <2>. QED BY <1>0, <1>1, <1>2, <1>3, <2>1, <2>2, <2>3, <2>5, <2>7, <2>8, OwnStep
<1>. QED BY <1>4, <1>5

\* t returns from a shared wait, or with the folio that it was handed.
LEMMA WokenInv == ASSUME IInv, NEW t \in Tasks, woken(t) PROVE IInv'
<1>1. /\ curr = t /\ pc[t] = "slept" /\ "WOKEN" \in wait[t].flags /\ finish_wait(t)
      /\ "EXCLUSIVE" \in wait[t].flags => "DONE" \in wait[t].flags
      /\ holds' = IF "DONE" \in wait[t].flags THEN [holds EXCEPT ![t] = {wait[t].folio}] ELSE holds
      /\ UNCHANGED <<schedVars, locked, waiters, queue>>
  BY DEF woken, Back
<1>2. /\ holds \in [Tasks -> SUBSET Folios] /\ holds[t] = {} /\ wait[t].folio \in Folios /\ ~InList(queue, t)
  BY <1>1 DEF IInv, TypeOK, WaitOK
<1>3. /\ wait' \in [Tasks -> Wait] /\ unfairness' \in [Tasks -> Nat] /\ pc' \in [Tasks -> Location]
      /\ pc'[t] = "out" /\ wait'[t] = NoWait
      /\ \A u \in Tasks \ {t} : pc'[u] = pc[u] /\ wait'[u] = wait[u]
  BY <1>1, FinishWait
<1>4. /\ holds' \in [Tasks -> SUBSET Folios]
      /\ holds'[t] = IF "DONE" \in wait[t].flags THEN {wait[t].folio} ELSE {}
      /\ \A u \in Tasks \ {t} : holds'[u] = holds[u]
  BY <1>1, <1>2
<1>5. TypeOK' /\ NoDup(queue') BY <1>1, <1>3, <1>4 DEF IInv, TypeOK
<1>6. SchedOK' /\ UNCHANGED tstate BY <1>1, Ticked DEF IInv
<1>7. OthersKept(t) BY <1>1, <1>3, <1>4, <1>6 DEF OthersKept
<1>8. WaitOK(t)' BY <1>1, <1>2, <1>3 DEF WaitOK, NoWait
<1>9. \A g \in Folios : t \in Owners(g)' <=> t \in Owners(g)
  BY <1>1, <1>2, <1>3, <1>4 DEF Owners
<1>10. ASSUME NEW g \in Folios, Wakened(t, g) PROVE g \in locked
  <2>1. t \in Owners(g) BY <1>1, <1>10 DEF Wakened, Owners
  <2>. QED BY <2>1 DEF IInv, Owned
<1> DEFINE N == {}
<1>11. /\ N \in SUBSET Folios /\ locked' = locked \cup N /\ N \cap locked = {} /\ curr' = t
       /\ waiters \subseteq waiters' /\ on_rq' = on_rq /\ locked' = locked /\ ~InList(queue', t)
       /\ \A g \in N : FALSE
  BY <1>1, <1>2 DEF schedVars
<1> HIDE DEF N
<1>. QED BY <1>1, <1>5, <1>6, <1>7, <1>8, <1>9, <1>10, <1>11, OwnStep

\* A woken waiter finds the folio free, or queues again with PG_waiters set.
LEMMA RetryInv == ASSUME IInv, NEW t \in Tasks, retry(t) PROVE IInv'
<1> DEFINE f == wait[t].folio
<1>1. /\ curr = t /\ pc[t] = "slept" /\ UNCHANGED <<on_rq, curr, need_resched, sig>>
      /\ "WOKEN" \in wait[t].flags /\ "EXCLUSIVE" \in wait[t].flags /\ "DONE" \notin wait[t].flags
  BY DEF retry, Back
<1>2. /\ holds \in [Tasks -> SUBSET Folios] /\ holds[t] = {} /\ f \in Folios /\ ~InList(queue, t)
      /\ unfairness[t] \in Nat /\ wait[t].state \in {"UNINTERRUPTIBLE", "KILLABLE"}
      /\ \A g \in Folios : Wakened(t, g) => g = f
      /\ \A g \in Folios : t \notin Owners(g)
  BY <1>1 DEF IInv, TypeOK, WaitOK, Wait, Wakened, Owners
<1>3. CASE f \in locked
  <2>1. enqueue(t, f, wait[t].state, TRUE, unfairness[t]) /\ UNCHANGED <<locked, holds>>
    BY <1>3 DEF retry
  <2> HIDE DEF f
  <2>. QED BY <1>1, <1>2, <1>3, <2>1, EnqueueInv
<1>4. CASE f \notin locked
  <2>1. /\ locked' = locked \cup {f} /\ holds' = [holds EXCEPT ![t] = {f}] /\ finish_wait(t)
        /\ UNCHANGED <<tstate, waiters, queue>>
    BY <1>4 DEF retry
  <2> HIDE DEF f
  <2>2. /\ wait' \in [Tasks -> Wait] /\ unfairness' \in [Tasks -> Nat] /\ pc' \in [Tasks -> Location]
        /\ pc'[t] = "out" /\ wait'[t] = NoWait
        /\ \A u \in Tasks \ {t} : pc'[u] = pc[u] /\ wait'[u] = wait[u]
    BY <2>1, FinishWait
  <2>3. /\ holds' \in [Tasks -> SUBSET Folios] /\ holds'[t] = {f}
        /\ \A u \in Tasks \ {t} : holds'[u] = holds[u]
    BY <1>2, <2>1
  <2>4. TypeOK' /\ NoDup(queue') BY <1>2, <2>1, <2>2, <2>3 DEF IInv, TypeOK
  <2>5. SchedOK' BY <1>1, <2>1, Ticked DEF IInv, schedVars
  <2>6. OthersKept(t) BY <2>1, <2>2, <2>3 DEF OthersKept
  <2>7. WaitOK(t)' BY <1>2, <2>1, <2>2 DEF WaitOK, NoWait
  <2>8. \A g \in Folios : t \in Owners(g)' <=> g = f
    BY <2>2, <2>3 DEF Owners
  <2>9. /\ {f} \in SUBSET Folios /\ {f} \cap locked = {} /\ curr' = t /\ waiters \subseteq waiters'
        /\ ~InList(queue', t) /\ on_rq' = on_rq
    BY <1>1, <1>2, <1>4, <2>1
  <2>. QED BY <1>1, <1>2, <2>1, <2>4, <2>5, <2>6, <2>7, <2>8, <2>9, OwnStep
<1>. QED BY <1>3, <1>4

----------------------------------------------------------------------------
(* Unlocking *)

\* Whom the walk of __wake_up_common() wakes: waiters of f, one exclusive one
\* at the most, and an exclusive one if it leaves any waiter of f behind.
LEMMA Walk ==
  ASSUME TypeOK, NoDup(queue), NEW f \in Folios
  PROVE  /\ WokenBy(f) \subseteq Tasks
         /\ \A u \in WokenBy(f) : InList(queue, u) /\ wait[u].folio = f
         /\ \A u, v \in WokenBy(f) :
              "EXCLUSIVE" \in wait[u].flags /\ "EXCLUSIVE" \in wait[v].flags => u = v
         /\ \A u \in Tasks : InList(queue, u) /\ wait[u].folio = f /\ u \notin WokenBy(f)
              => \E v \in WokenBy(f) : "EXCLUSIVE" \in wait[v].flags
<1>0. queue \in Seq(Tasks) /\ DOMAIN queue = 1 .. Len(queue) /\ Len(queue) \in Nat BY DEF TypeOK
<1>1. WokenBy(f) \subseteq Tasks BY <1>0 DEF WokenBy, Matches
<1>2. \A u \in WokenBy(f) : InList(queue, u) /\ wait[u].folio = f BY DEF WokenBy, Matches, InList
<1>3. ASSUME NEW u \in WokenBy(f), NEW v \in WokenBy(f),
             "EXCLUSIVE" \in wait[u].flags, "EXCLUSIVE" \in wait[v].flags
      PROVE  u = v
  <2>1. PICK i \in Visited(f) \cap Matches(f) : queue[i] = u BY DEF WokenBy
  <2>2. PICK j \in Visited(f) \cap Matches(f) : queue[j] = v BY DEF WokenBy
  <2>3. i <= j /\ j <= i BY <1>3, <2>1, <2>2 DEF Visited
  <2>4. i \in Nat /\ j \in Nat BY <1>0 DEF Matches
  <2>5. i = j BY <2>3, <2>4
  <2>. QED BY <2>1, <2>2, <2>5
<1>4. ASSUME NEW u \in Tasks, InList(queue, u), wait[u].folio = f, u \notin WokenBy(f)
      PROVE  \E v \in WokenBy(f) : "EXCLUSIVE" \in wait[v].flags
  <2> DEFINE X == {j \in Matches(f) : "EXCLUSIVE" \in wait[queue[j]].flags}
  <2>1. PICK i \in DOMAIN queue : queue[i] = u BY <1>4 DEF InList
  <2>2. i \in Matches(f) BY <1>4, <2>1 DEF Matches
  <2>3. i \notin Visited(f) BY <1>4, <2>1, <2>2 DEF WokenBy
  <2>4. X # {} BY <2>1, <2>3 DEF Visited
  <2>5. X \in SUBSET Nat BY <1>0 DEF Matches
  <2>6. PICK k \in X : \A j \in X : k <= j
    <3> HIDE DEF X
    <3>. QED BY <2>4, <2>5, LeastNatural
  <2>7. k \in Matches(f) /\ k \in DOMAIN queue /\ "EXCLUSIVE" \in wait[queue[k]].flags BY DEF Matches
  <2>8. k \in Visited(f) BY <2>6, <2>7 DEF Visited
  <2>. QED BY <2>7, <2>8 DEF WokenBy
<1>. QED BY <1>1, <1>2, <1>3, <1>4

\* Nobody waits for the folio: it is free.
LEMMA UnlockNoWaiters ==
  ASSUME IInv, NEW t \in Tasks, NEW f \in Folios, folio_unlock(t, f), f \notin waiters
  PROVE  IInv'
<1>1. /\ curr = t /\ pc[t] = "out" /\ f \in holds[t] /\ holds' = [holds EXCEPT ![t] = @ \ {f}]
      /\ locked' = locked \ {f} /\ UNCHANGED <<schedVars, waiters, queue, wait, unfairness, pc>>
  BY DEF folio_unlock
<1>2. holds \in [Tasks -> SUBSET Folios] BY DEF IInv, TypeOK
<1>3. /\ holds' \in [Tasks -> SUBSET Folios] /\ holds'[t] = holds[t] \ {f}
      /\ \A u \in Tasks \ {t} : holds'[u] = holds[u]
  BY <1>1, <1>2
<1>4. TypeOK' /\ NoDup(queue') BY <1>1, <1>3 DEF IInv, TypeOK
<1>5. SchedOK' BY <1>1, Ticked DEF IInv
<1>6. \A u \in Tasks : WaitOK(u)' BY <1>1, <1>3 DEF IInv, WaitOK, schedVars
<1>7. Owned'
  <2>1. t \in Owners(f) BY <1>1 DEF Owners
  <2>2. Owners(f) = {t} BY <2>1 DEF IInv, Owned
  <2>3. \A u \in Tasks : u \in Owners(f)' <=> u \in Owners(f) /\ u # t
    BY <1>1, <1>3 DEF Owners
  <2>4. Owners(f)' = {} BY <2>2, <2>3 DEF Owners
  <2>5. ASSUME NEW g \in Folios \ {f} PROVE Owners(g)' = Owners(g)
    <3>1. \A u \in Tasks : u \in Owners(g)' <=> u \in Owners(g) BY <1>1, <1>3 DEF Owners
    <3>2. Owners(g) \subseteq Tasks /\ Owners(g)' \subseteq Tasks BY DEF Owners
    <3>. QED BY <3>1, <3>2, Zenon
  <2>. QED BY <1>1, <2>4, <2>5 DEF IInv, Owned
<1>8. \A u \in Tasks, g \in Folios : Wakened(u, g) => Wakened(u, g)' BY <1>1 DEF Wakened, schedVars
<1>9. Remembered'
  <2> SUFFICES ASSUME NEW u \in Tasks, InList(queue, u)
               PROVE  /\ wait[u].folio \in waiters
                      /\ wait[u].folio \in locked' \/ \E v \in Tasks : Wakened(v, wait[u].folio)'
    BY <1>1 DEF Remembered
  <2>1. /\ wait[u].folio \in waiters /\ wait[u].folio \in Folios
        /\ wait[u].folio \in locked \/ \E v \in Tasks : Wakened(v, wait[u].folio)
    BY DEF IInv, Remembered, WaitOK
  <2>2. PICK g \in Folios : g = wait[u].folio /\ g # f BY <2>1
  <2>3. g \in locked' \/ \E v \in Tasks : Wakened(v, g)' BY <1>1, <1>8, <2>1, <2>2
  <2>4. \A v \in Tasks : Wakened(v, g)' => Wakened(v, wait[u].folio)' BY <1>1, <2>2 DEF Wakened
  <2>. QED BY <2>1, <2>2, <2>3, <2>4
<1>. QED BY <1>4, <1>5, <1>6, <1>7, <1>9 DEF IInv

\* Somebody may wait for it: the folio is free, or belongs to whom it was
\* handed, and who is left in the bucket has an awake waiter before it.
LEMMA UnlockWakes ==
  ASSUME IInv, NEW t \in Tasks, NEW f \in Folios, folio_unlock(t, f), f \in waiters
  PROVE  IInv'
<1> DEFINE W == WokenBy(f)
           H == HandedTo(f)
<1>1. /\ curr = t /\ pc[t] = "out" /\ f \in holds[t] /\ holds' = [holds EXCEPT ![t] = @ \ {f}]
      /\ UNCHANGED <<unfairness, pc>> /\ curr' = curr /\ sig' = sig
      /\ queue' = list_del_all(queue, W)
      /\ wait' = [u \in Tasks |->
           IF u \notin W THEN wait[u]
           ELSE [wait[u] EXCEPT !.flags = @ \cup {"WOKEN"} \cup (IF u \in H THEN {"DONE"} ELSE {})]]
      /\ locked' = IF H = {} THEN locked \ {f} ELSE locked
      /\ waiters' = IF queue' = <<>> \/ W = {} THEN waiters \ {f} ELSE waiters
      /\ try_to_wake_up(W, TASK_NORMAL)
  BY DEF folio_unlock, folio_wake_bit, wake_up_q
<1>2. /\ W \subseteq Tasks /\ \A u \in W : InList(queue, u) /\ wait[u].folio = f
      /\ \A u, v \in W : "EXCLUSIVE" \in wait[u].flags /\ "EXCLUSIVE" \in wait[v].flags => u = v
      /\ \A u \in Tasks : InList(queue, u) /\ wait[u].folio = f /\ u \notin W
           => \E v \in W : "EXCLUSIVE" \in wait[v].flags
  BY Walk DEF IInv
<1>3. H \subseteq W /\ \A u \in W : u \in H <=> "CUSTOM" \in wait[u].flags BY DEF HandedTo
<1> HIDE DEF W, H
<1>4. /\ holds \in [Tasks -> SUBSET Folios] /\ wait \in [Tasks -> Wait] /\ queue \in Seq(Tasks)
      /\ NoDup(queue) /\ SchedOK /\ sig \in [Tasks -> Signal]
  BY DEF IInv, TypeOK, SchedOK, SchedTypeOK
<1>5. /\ queue' \in Seq(Tasks) /\ NoDup(queue')
      /\ \A x : InList(queue', x) <=> InList(queue, x) /\ x \notin W
  BY <1>1, <1>4, ListDelAll
<1>6. /\ holds' \in [Tasks -> SUBSET Folios] /\ holds'[t] = holds[t] \ {f}
      /\ \A u \in Tasks \ {t} : holds'[u] = holds[u]
  BY <1>1, <1>4
<1>7. ASSUME NEW u \in Tasks
      PROVE  /\ wait'[u] \in Wait /\ wait'[u].folio = wait[u].folio
             /\ u \notin W => wait'[u] = wait[u]
             /\ u \in W => wait'[u].flags = wait[u].flags \cup {"WOKEN"} \cup (IF u \in H THEN {"DONE"} ELSE {})
  BY <1>1, <1>4 DEF Wait, WaitFlag
<1>8. wait' \in [Tasks -> Wait] BY <1>1, <1>7
<1>9. TypeOK' BY <1>1, <1>5, <1>6, <1>8 DEF IInv, TypeOK
<1>10. /\ SchedOK' /\ StaysRunnable
       /\ \A p \in Tasks \ W : tstate'[p] = tstate[p]
       /\ \A p \in W : tstate'[p] = "RUNNING"
  BY <1>1, <1>2, <1>4, WakeUp
<1>11. \A u \in W : pc[u] = "slept" /\ "WOKEN" \notin wait[u].flags /\ "DONE" \notin wait[u].flags /\ u # t
  BY <1>1, <1>2 DEF IInv, WaitOK, TypeOK, Location
<1>12. ASSUME NEW u \in Tasks PROVE WaitOK(u)'
  <2>1. WaitOK(u) BY DEF IInv
  <2>2. CASE u \in W
    <3>1. "CUSTOM" \in wait'[u].flags => "CUSTOM" \in wait[u].flags BY <1>7, <2>2
    <3>2. "DONE" \in wait'[u].flags => "CUSTOM" \in wait[u].flags BY <1>3, <1>7, <1>11, <2>2
    <3>3. wait[u].folio \in Folios /\ holds[u] = {} BY <1>11, <2>1, <2>2 DEF WaitOK
    <3>4. /\ pc'[u] = "slept" /\ tstate'[u] = "RUNNING" /\ ~InList(queue', u)
          /\ wait'[u].folio \in Folios /\ holds'[u] = {}
      BY <1>1, <1>5, <1>6, <1>7, <1>10, <1>11, <2>2, <3>3
    <3>5. "WOKEN" \in wait'[u].flags BY <1>7, <2>2
    <3>6. "EXCLUSIVE" \in wait[u].flags => "EXCLUSIVE" \in wait'[u].flags BY <1>7, <2>2
    <3>. QED BY <2>1, <3>1, <3>2, <3>4, <3>5, <3>6 DEF WaitOK
  <2>3. CASE u \notin W BY <1>1, <1>5, <1>6, <1>7, <1>10, <2>1, <2>3 DEF WaitOK
  <2>. QED BY <2>2, <2>3
<1>13. Owned'
  <2>1. t \in Owners(f) BY <1>1 DEF Owners
  <2>2. Owners(f) = {t} /\ f \in locked BY <2>1 DEF IInv, Owned
  <2>3. ASSUME NEW u \in Tasks PROVE u \in Owners(f)' <=> u \in H
    <3>1. CASE u = t BY <3>1, <1>1, <1>3, <1>6, <1>11 DEF Owners
    <3>2. CASE u # t /\ u \in W
      <4>1. u \notin Owners(f) BY <3>2, <2>2
      <4>2. f \notin holds'[u] /\ pc'[u] # "out" /\ wait'[u].folio = f
        <5>1. holds'[u] = holds[u] /\ f \notin holds[u] BY <1>6, <3>2, <4>1 DEF Owners
        <5>2. pc'[u] = pc[u] /\ pc[u] = "slept" BY <1>1, <1>11, <3>2
        <5>3. wait'[u].folio = wait[u].folio BY <1>7
        <5>4. wait[u].folio = f BY <1>2, <3>2
        <5>. QED BY <5>1, <5>2, <5>3, <5>4
      <4>3. u \in Owners(f)' <=> "DONE" \in wait'[u].flags BY <4>2 DEF Owners
      <4>. QED BY <3>2, <4>3, <1>7, <1>11
    <3>3. CASE u # t /\ u \notin W
      <4>1. u \notin Owners(f) BY <3>3, <2>2
      <4>. QED BY <3>3, <4>1, <1>1, <1>3, <1>6, <1>7 DEF Owners
    <3>. QED BY <3>1, <3>2, <3>3
  <2>4. Owners(f)' = H
    <3>1. Owners(f)' \subseteq Tasks /\ H \subseteq Tasks BY <1>2, <1>3 DEF Owners
    <3>. QED BY <2>3, <3>1, Zenon
  <2>5. \A u, v \in H : u = v BY <1>2, <1>3 DEF IInv, WaitOK
  <2>6. IF f \in locked' THEN \E u \in Tasks : Owners(f)' = {u} ELSE Owners(f)' = {}
    <3>1. CASE H = {}
      <4>1. f \notin locked' BY <1>1, <3>1
      <4>. QED BY <2>4, <3>1, <4>1
    <3>2. CASE H # {}
      <4>1. PICK u \in H : TRUE BY <3>2
      <4>2. H = {u} BY <2>5, <4>1
      <4>. QED BY <1>1, <1>2, <1>3, <2>2, <2>4, <3>2, <4>2
    <3>. QED BY <3>1, <3>2
  <2>7. ASSUME NEW g \in Folios \ {f} PROVE Owners(g)' = Owners(g)
    <3>1. \A u \in Tasks : u \in Owners(g)' <=> u \in Owners(g) BY <1>1, <1>2, <1>6, <1>7 DEF Owners
    <3>2. Owners(g) \subseteq Tasks /\ Owners(g)' \subseteq Tasks BY DEF Owners
    <3>. QED BY <3>1, <3>2, Zenon
  <2>8. ASSUME NEW g \in Folios
        PROVE  IF g \in locked' THEN \E u \in Tasks : Owners(g)' = {u} ELSE Owners(g)' = {}
    <3>1. CASE g = f BY <2>6, <3>1
    <3>2. CASE g # f
      <4>1. Owners(g)' = Owners(g) /\ (g \in locked' <=> g \in locked) BY <1>1, <2>7, <3>2
      <4>. QED BY <4>1 DEF IInv, Owned
    <3>. QED BY <3>1, <3>2
  <2>. QED BY <2>8 DEF Owned
<1>14. \A u \in Tasks, g \in Folios : Wakened(u, g) => Wakened(u, g)'
  BY <1>1, <1>7, <1>10, <1>11 DEF Wakened, IInv, WaitOK, SchedOK, StaysRunnable
<1>15. ASSUME NEW u \in Tasks, InList(queue', u), NEW g, g = wait[u].folio
       PROVE  g \in waiters' /\ (g \in locked' \/ \E v \in Tasks : Wakened(v, g)')
  <2>1. /\ InList(queue, u) /\ u \notin W BY <1>5, <1>15
  <2>2. /\ g \in waiters /\ g \in Folios
        /\ g \in locked \/ \E v \in Tasks : Wakened(v, g)
    BY <1>15, <2>1 DEF IInv, Remembered, WaitOK
  <2>3. CASE g # f BY <1>1, <1>14, <2>2, <2>3
  <2>4. CASE g = f
    <3>1. PICK v \in W : "EXCLUSIVE" \in wait[v].flags BY <1>2, <1>15, <2>1, <2>4
    <3>2. Wakened(v, f)'
      BY <3>1, <1>1, <1>2, <1>7, <1>10, <1>11 DEF Wakened, SchedOK
    <3>3. queue' # <<>> BY <1>5, <1>15, HeadInList
    <3>. QED BY <1>1, <1>2, <2>2, <2>4, <3>1, <3>2, <3>3
  <2>. QED BY <2>3, <2>4
<1>16. Remembered'
  <2> SUFFICES ASSUME NEW u \in Tasks, InList(queue', u)
               PROVE  /\ wait'[u].folio \in waiters'
                      /\ wait'[u].folio \in locked' \/ \E v \in Tasks : Wakened(v, wait[u].folio)'
    BY DEF Remembered
  <2>1. PICK g : g = wait[u].folio OBVIOUS
  <2>2. g = wait'[u].folio BY <1>7, <2>1
  <2>3. \A v \in Tasks : Wakened(v, g)' => Wakened(v, wait[u].folio)' BY <2>2 DEF Wakened
  <2>. QED BY <1>15, <2>1, <2>2, <2>3
<1>. QED BY <1>5, <1>9, <1>10, <1>12, <1>13, <1>16 DEF IInv

----------------------------------------------------------------------------
(* The inductive invariant and what follows from it *)

\* Every step of every task, of the interrupts and of the tick keeps IInv.
LEMMA Inductive == IInv /\ [Next]_vars => IInv'
<1> SUFFICES ASSUME IInv, [Next]_vars PROVE IInv'
  OBVIOUS
<1>0. ASSUME NEW t \in Tasks, TaskStep(t) PROVE IInv'
  <2>1. ASSUME NEW f \in Folios, folio_trylock(t, f) PROVE IInv' BY <2>1, TrylockInv
  <2>2. ASSUME NEW f \in Folios, NEW st \in LockStates,
               __folio_lock(t, f, st) \/ folio_wait_locked(t, f, st)
        PROVE  IInv'
    BY <2>2, WaitBitInv DEF __folio_lock, folio_wait_locked
  <2>3. CASE io_schedule(t) BY <2>3, IoScheduleInv
  <2>4. CASE not_woken(t) BY <2>4, NotWokenInv
  <2>5. CASE woken(t) BY <2>5, WokenInv
  <2>6. CASE retry(t) BY <2>6, RetryInv
  <2>7. ASSUME NEW f \in Folios, folio_unlock(t, f) PROVE IInv'
    BY <2>7, UnlockNoWaiters, UnlockWakes
  <2>8. CASE resched(t)
    <3>1. preempt_schedule_common /\ curr = t /\ pc[t] = "out" /\ UNCHANGED folioVars
      BY <2>8 DEF resched, cond_resched
    <3>2. SchedOK' /\ UNCHANGED tstate BY <3>1, Preempted DEF IInv
    <3>3. \A u \in Tasks : pc'[u] # "sleep" BY <3>1 DEF IInv, WaitOK, folioVars
    <3>. QED BY <3>1, <3>2, <3>3, SchedulerStep DEF folioVars, StaysRunnable, IInv, TypeOK
  <2>. QED BY <1>0, <2>1, <2>2, <2>3, <2>4, <2>5, <2>6, <2>7, <2>8 DEF TaskStep
<1>1. ASSUME SchedOK', StaysRunnable, curr' = curr, UNCHANGED folioVars PROVE IInv'
  <2>1. /\ UNCHANGED <<locked, waiters, queue, wait, unfairness, holds>> /\ pc' = pc
        /\ pc \in [Tasks -> Location] /\ \A t \in Tasks : pc'[t] = "sleep" => curr' = t
    BY <1>1 DEF folioVars, IInv, TypeOK, WaitOK
  <2>. QED BY <1>1, <2>1, SchedulerStep
<1>2. ASSUME NEW t \in Tasks, irq_wakes(t) PROVE IInv'
  <2>1. /\ SchedOK /\ {t} \in SUBSET Tasks /\ try_to_wake_up({t}, TASK_NORMAL) /\ curr' = curr
        /\ sig' \in [Tasks -> Signal] /\ UNCHANGED folioVars
    BY <1>2 DEF irq_wakes, stray_wake_up, wake_up_process, IInv, SchedOK, SchedTypeOK
  <2>2. SchedOK' /\ StaysRunnable BY <2>1, WakeUp
  <2>. QED BY <2>1, <2>2, <1>1
<1>3. ASSUME NEW t \in Tasks, kill(t) PROVE IInv'
  <2>1. /\ SchedOK /\ {t} \in SUBSET Tasks /\ try_to_wake_up({t}, {"INTERRUPTIBLE", "KILLABLE"})
        /\ curr' = curr /\ sig' = [sig EXCEPT ![t] = "fatal"] /\ UNCHANGED folioVars
    BY <1>3 DEF kill, signal_wake_up, IInv
  <2>2. sig' \in [Tasks -> Signal] BY <2>1 DEF SchedOK, SchedTypeOK, Signal
  <2>3. SchedOK' /\ StaysRunnable BY <2>1, <2>2, WakeUp
  <2>. QED BY <2>1, <2>3, <1>1
<1>4. CASE tick
  <2>1. SchedOK' /\ UNCHANGED tstate BY <1>4, Ticked DEF tick, IInv
  <2>2. curr' = curr /\ UNCHANGED folioVars BY <1>4 DEF tick, update_process_times
  <2>. QED BY <1>1, <2>1, <2>2 DEF StaysRunnable
<1>5. CASE UNCHANGED vars
  <2>1. SchedOK' /\ UNCHANGED tstate BY <1>5, Ticked DEF vars, IInv
  <2>2. curr' = curr /\ UNCHANGED folioVars BY <1>5 DEF vars, schedVars
  <2>. QED BY <1>1, <2>1, <2>2 DEF StaysRunnable
<1>. QED BY <1>0, <1>2, <1>3, <1>4, <1>5 DEF Next

\* Nothing is locked and nobody waits.
LEMMA Initially == Init => IInv
<1> SUFFICES ASSUME Init PROVE IInv
  OBVIOUS
<1>1. SchedOK BY SchedStarts DEF Init
<1>2. NoWait \in Wait BY DEF NoWait, Wait, NoFolio
<1>3. TypeOK /\ NoDup(queue) BY <1>2 DEF Init, TypeOK, NoDup, Location
<1>4. \A t : ~InList(queue, t) BY DEF Init, InList
<1>5. \A t \in Tasks : WaitOK(t) BY <1>4 DEF Init, WaitOK, NoWait
<1>6. \A f \in Folios : Owners(f) = {} BY DEF Init, Owners
<1>. QED BY <1>1, <1>3, <1>4, <1>5, <1>6 DEF IInv, Owned, Remembered, Init

\* The owners, the bucket and the flags of the waiters agree in every state
\* of lock, wait, hand-over and unlock.
THEOREM Invariance == Spec => []IInv
BY Initially, Inductive, PTL DEF Spec

\* A folio that is locked has one owner, and one that is not has none, also
\* while folio_wake_bit() hands it to a task that is asleep.
THEOREM FolioOwned == Spec => []OneOwner
<1>1. IInv => OneOwner
  <2> SUFFICES ASSUME IInv, NEW f \in Folios PROVE Cardinality(Owners(f)) = IF f \in locked THEN 1 ELSE 0
    BY DEF OneOwner
  <2>1. CASE f \in locked
    <3>1. PICK t \in Tasks : Owners(f) = {t} BY <2>1 DEF IInv, Owned
    <3>. QED BY <2>1, <3>1, FS_Singleton
  <2>2. CASE f \notin locked
    <3>1. Owners(f) = {} BY <2>2 DEF IInv, Owned
    <3>. QED BY <2>2, <3>1, FS_EmptySet
  <2>. QED BY <2>1, <2>2
<1>. QED BY <1>1, Invariance, PTL

\* Whoever is in the bucket is found by the unlock, or an exclusive waiter of
\* the same folio is awake: clearing PG_waiters, giving up after a signal and
\* the hand-over never leave a sleeper behind.
THEOREM WaitersFound == Spec => []NoLostWakeup
<1>1. IInv => NoLostWakeup
  <2> SUFFICES ASSUME IInv, NEW i \in DOMAIN queue
               PROVE  LET f == wait[queue[i]].folio
                      IN /\ f \in waiters
                         /\ \/ f \in locked
                            \/ \E t \in on_rq : /\ pc[t] = "slept" /\ wait[t].folio = f
                                                /\ {"WOKEN", "EXCLUSIVE"} \subseteq wait[t].flags
    BY DEF NoLostWakeup
  <2>1. queue[i] \in Tasks /\ InList(queue, queue[i]) BY DEF IInv, TypeOK, InList
  <2>2. PICK u \in Tasks : u = queue[i] /\ InList(queue, u) BY <2>1
  <2>3. /\ wait[u].folio \in waiters
        /\ wait[u].folio \in locked \/ \E t \in Tasks : Wakened(t, wait[u].folio)
    BY <2>2 DEF IInv, Remembered
  <2>. QED BY <2>2, <2>3 DEF Wakened
<1>. QED BY <1>1, Invariance, PTL

=============================================================================
