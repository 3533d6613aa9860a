---------------------------- MODULE LdsemProofs ----------------------------
(***************************************************************************)
(* Proofs about Ldsem, for any finite set of tasks, any width of the       *)
(* active part of count that can hold their number, and any timeouts: what *)
(* count says, that no wake-up is lost, and that the semaphore is a        *)
(* reader/writer lock.                                                     *)
(***************************************************************************)
EXTENDS Ldsem, LockLemmas

Reading == {"r_top", "r_sleep", "r_slept"}
WriteWaiting == {"w_sleep", "w_slept"}

\* Whoever is active: readers, readers that were let in and have yet to
\* return, and the writer.
Readers == In({"read"})
Writers == In({"write"})
Holders == In({"read", "write"}) \cup Granted

TypeOK ==
  /\ count \in Int
  /\ read_wait \in Seq(Tasks) /\ write_wait \in Seq(Tasks)
  /\ pc \in [Tasks -> Location]

\* The waiters are on the list that their place in the code says; a reader
\* that was let in is on none.
Queued ==
  /\ NoDup(read_wait) /\ NoDup(write_wait)
  /\ \A t \in Tasks : InList(read_wait, t) => pc[t] \in Reading
  /\ \A t \in Tasks : InList(write_wait, t) <=> pc[t] \in WriteWaiting

\* A writer is alone.
Alone == \A t \in Writers : Holders = {t}

\* What is subtracted from count, in multiples of WAIT_BIAS.
Waiting == Cardinality(Writers) + Len(read_wait) + Len(write_wait)

\* count in two digits: how many are active, and how many wait or write.
TwoDigits == count = Cardinality(Holders) - (MASK + 1) * Waiting /\ wait_readers = Len(read_wait)

\* While nobody is active a queued writer has been told.
WriterTold ==
  write_wait # <<>> /\ Holders = {} => \E t \in Tasks : InList(write_wait, t) /\ tstate[t] = "RUNNING"

\* Readers queue behind writers only.
BehindWriter == read_wait # <<>> /\ write_wait = <<>> => Writers # {}

IInv ==
  /\ TypeOK /\ SchedOK /\ Queued
  /\ Alone /\ TwoDigits /\ WriterTold /\ BehindWriter

----------------------------------------------------------------------------
(* The arithmetic of count *)

\* The remainder of a number whose low digit is a.
LEMMA LowDigit ==
  ASSUME NEW m \in Nat \ {0}, NEW a \in 0 .. m - 1, NEW k \in Nat
  PROVE  (a - m * k) % m = a
<1> DEFINE c == a - m * k
           d == c \div m
           r == c % m
<1>1. c \in Int OBVIOUS
<1>2. c = m * d + r /\ r \in 0 .. m - 1 /\ d \in Int OBVIOUS
<1>. QED OBVIOUS

\* A number in two digits: its remainder is the low one, and its sign tells
\* whether the high one is zero.
LEMMA Digits ==
  ASSUME NEW a \in 0 .. MASK, NEW k \in Nat, NEW c, c = a - (MASK + 1) * k
  PROVE  /\ c \in Int /\ Active(c) = a
         /\ c >= 0 <=> k = 0
         /\ c > 0 => k = 0
<1> DEFINE m == MASK + 1
<1>0. m \in Nat \ {0} /\ a \in 0 .. m - 1 BY MaskAssumption
<1> HIDE DEF m
<1>1. c = a - m * k BY DEF m
<1>2. (a - m * k) % m = a BY <1>0, LowDigit
<1>3. CASE k = 0 BY <1>0, <1>1, <1>2, <1>3 DEF Active, m
<1>4. CASE k >= 1
  <2>1. m * k = m * (k - 1) + m /\ m * (k - 1) >= 0 BY <1>0, <1>4
  <2>2. c < 0 /\ c \in Int BY <1>0, <1>1, <2>1
  <2>. QED BY <1>1, <1>2, <1>4, <2>2 DEF Active, m
<1>. QED BY <1>3, <1>4

\* How many there are of each; there is room for one more in the low digit.
LEMMA Sizes ==
  ASSUME IInv
  PROVE  /\ Holders \subseteq Tasks /\ IsFiniteSet(Holders) /\ Cardinality(Holders) \in 0 .. MASK - 1
         /\ Cardinality(Holders) = 0 <=> Holders = {}
         /\ Writers \subseteq Holders /\ IsFiniteSet(Writers)
         /\ Cardinality(Writers) = IF Writers = {} THEN 0 ELSE 1
         /\ Len(read_wait) \in Nat /\ Len(write_wait) \in Nat /\ Waiting \in Nat
         /\ Waiting = 0 <=> Writers = {} /\ read_wait = <<>> /\ write_wait = <<>>
<1>1. Holders \subseteq Tasks /\ Writers \subseteq Holders BY DEF Holders, Writers, In, Granted
<1>2. IsFiniteSet(Holders) /\ Cardinality(Holders) <= Cardinality(Tasks) /\ IsFiniteSet(Writers)
  BY <1>1, MaskAssumption, FS_Subset
<1>3. Cardinality(Holders) \in Nat /\ Cardinality(Tasks) \in Nat BY <1>2, MaskAssumption, FS_CardinalityType
<1>4. Cardinality(Holders) \in 0 .. MASK - 1 BY <1>2, <1>3, MaskAssumption
<1>5. Cardinality(Writers) = IF Writers = {} THEN 0 ELSE 1
  <2>1. CASE Writers = {} BY <2>1, FS_EmptySet
  <2>2. CASE Writers # {}
    <3>1. PICK t \in Writers : Holders = {t} BY <2>2 DEF IInv, Alone
    <3>2. Writers = {t} BY <1>1, <3>1
    <3>. QED BY <2>2, <3>2, FS_Singleton
  <2>. QED BY <2>1, <2>2
<1>6. Len(read_wait) \in Nat /\ Len(write_wait) \in Nat BY DEF IInv, TypeOK
<1>7. (read_wait = <<>> <=> Len(read_wait) = 0) /\ (write_wait = <<>> <=> Len(write_wait) = 0)
  BY DEF IInv, TypeOK
<1>8. Waiting \in Nat /\ (Waiting = 0 <=> Writers = {} /\ read_wait = <<>> /\ write_wait = <<>>)
  BY <1>5, <1>6, <1>7 DEF Waiting
<1>9. Cardinality(Holders) = 0 <=> Holders = {} BY <1>2, FS_EmptySet
<1>. QED BY <1>1, <1>2, <1>4, <1>5, <1>6, <1>8, <1>9

\* What the code reads off count.
LEMMA CountRead ==
  ASSUME IInv
  PROVE  /\ Active(count) = Cardinality(Holders)
         /\ Active(count) = 0 <=> Holders = {}
         /\ count >= 0 <=> Writers = {} /\ read_wait = <<>> /\ write_wait = <<>>
<1>1. Cardinality(Holders) \in 0 .. MASK BY Sizes, MaskAssumption
<1>2. Waiting \in Nat /\ count = Cardinality(Holders) - (MASK + 1) * Waiting BY Sizes DEF IInv, TwoDigits
<1>3. Active(count) = Cardinality(Holders) /\ (count >= 0 <=> Waiting = 0) BY <1>1, <1>2, Digits
<1>. QED BY <1>3, Sizes

----------------------------------------------------------------------------
(* Steps that change who is where, but not count *)

\* Nobody becomes active or gives up, and no writer that should be awake goes
\* to sleep.
LEMMA SchedulerStep ==
  ASSUME IInv, SchedOK', UNCHANGED <<count, wait_readers, read_wait, write_wait>>,
         pc' \in [Tasks -> Location],
         \A u \in Tasks : \/ pc'[u] = pc[u]
                          \/ pc[u] \in Reading /\ pc'[u] \in Reading
                          \/ pc[u] \in WriteWaiting /\ pc'[u] \in WriteWaiting,
         \A u \in Tasks : InList(write_wait, u) /\ Holders = {} /\ tstate[u] = "RUNNING"
                            => tstate'[u] = "RUNNING"
  PROVE  IInv' /\ Holders' = Holders /\ Writers' = Writers /\ Readers' = Readers
<1>1. Writers' = Writers /\ Readers' = Readers BY DEF Readers, Writers, In, Reading, WriteWaiting
<1>2. Holders' = Holders
  <2>1. In({"read", "write"})' = In({"read", "write"}) BY DEF In, Reading, WriteWaiting
  <2>2. Granted' = Granted BY DEF Granted, In, Reading, WriteWaiting
  <2>. QED BY <2>1, <2>2 DEF Holders
<1>3. TypeOK' BY DEF IInv, TypeOK
<1>4. Queued' BY DEF IInv, Queued, Reading, WriteWaiting
<1>5. Alone' BY <1>1, <1>2 DEF IInv, Alone
<1>6. TwoDigits' BY <1>1, <1>2 DEF IInv, TwoDigits, Waiting
<1>7. WriterTold' /\ BehindWriter' BY <1>1, <1>2 DEF IInv, WriterTold, BehindWriter
<1>. QED BY <1>1, <1>2, <1>3, <1>4, <1>5, <1>6, <1>7 DEF IInv

\* Task t moves to l; the lists keep the others.
LEMMA Moves ==
  ASSUME IInv, NEW t \in Tasks, NEW l \in Location, pc' = [pc EXCEPT ![t] = l],
         \A u \in Tasks \ {t} : InList(read_wait', u) <=> InList(read_wait, u)
  PROVE  /\ pc' \in [Tasks -> Location] /\ pc'[t] = l /\ \A u \in Tasks \ {t} : pc'[u] = pc[u]
         /\ Holders' = IF l \in {"read", "write"} \/ (l \in Reading /\ ~InList(read_wait', t))
                       THEN Holders \cup {t} ELSE Holders \ {t}
         /\ Writers' = IF l = "write" THEN Writers \cup {t} ELSE Writers \ {t}
         /\ Readers' = IF l = "read" THEN Readers \cup {t} ELSE Readers \ {t}
<1>1. pc' \in [Tasks -> Location] /\ pc'[t] = l /\ \A u \in Tasks \ {t} : pc'[u] = pc[u]
  BY DEF IInv, TypeOK
<1>2. \A u \in Tasks \ {t} : u \in Holders' <=> u \in Holders BY <1>1 DEF Holders, In, Granted
<1>3. t \in Holders' <=> l \in {"read", "write"} \/ (l \in Reading /\ ~InList(read_wait', t))
  BY <1>1 DEF Holders, In, Granted, Reading
<1>4. Holders \subseteq Tasks /\ Holders' \subseteq Tasks BY DEF Holders, In, Granted
<1>5. Writers' = IF l = "write" THEN Writers \cup {t} ELSE Writers \ {t}
  BY <1>1 DEF Writers, In
<1>6. Readers' = IF l = "read" THEN Readers \cup {t} ELSE Readers \ {t}
  BY <1>1 DEF Readers, In
<1>7. Holders' = IF l \in {"read", "write"} \/ (l \in Reading /\ ~InList(read_wait', t))
                 THEN Holders \cup {t} ELSE Holders \ {t}
  BY <1>2, <1>3, <1>4
<1>. QED BY <1>1, <1>5, <1>6, <1>7

\* The scheduler, the timers and the waiters that go round their loop again.
LEMMA EnvironmentInv ==
  ASSUME IInv,
         \/ \E t \in Tasks : schedule(t) \/ process_timeout(t) \/ resched(t) \/ irq_wakes(t)
         \/ do_timer \/ tick \/ UNCHANGED vars
  PROVE  IInv' /\ Writers' = Writers /\ Readers' = Readers
<1>0. SchedOK /\ pc \in [Tasks -> Location] BY DEF IInv, TypeOK
<1>1. ASSUME SchedOK', StaysRunnable, UNCHANGED <<count, wait_readers, read_wait, write_wait>>, pc' = pc
      PROVE  IInv' /\ Writers' = Writers /\ Readers' = Readers
  BY <1>0, <1>1, SchedulerStep DEF StaysRunnable
<1>2. ASSUME NEW t \in Tasks, schedule(t)
      PROVE  IInv' /\ Writers' = Writers /\ Readers' = Readers
  <2>1. /\ curr = t /\ __schedule(t) /\ pc[t] \in Reading \cup WriteWaiting
        /\ pc' = [pc EXCEPT ![t] = IF @ \in {"r_sleep", "r_slept"} THEN "r_slept" ELSE "w_slept"]
        /\ pc[t] # "r_top"
        /\ UNCHANGED <<count, wait_readers, read_wait, write_wait>>
    BY <1>2 DEF schedule, Reading, WriteWaiting
  <2>2. SchedOK' /\ StaysRunnable BY <1>0, <2>1, Scheduled
  <2>3. pc' \in [Tasks -> Location] BY <1>0, <2>1 DEF Location
  <2>4. \A u \in Tasks : \/ pc'[u] = pc[u]
                         \/ pc[u] \in Reading /\ pc'[u] \in Reading
                         \/ pc[u] \in WriteWaiting /\ pc'[u] \in WriteWaiting
    BY <1>0, <2>1 DEF Reading, WriteWaiting
  <2>. QED BY <2>1, <2>2, <2>3, <2>4, SchedulerStep DEF StaysRunnable
<1>3. ASSUME NEW t \in Tasks, process_timeout(t) \/ irq_wakes(t)
      PROVE  IInv' /\ Writers' = Writers /\ Readers' = Readers
  <2>1. /\ {t} \in SUBSET Tasks /\ try_to_wake_up({t}, TASK_NORMAL) /\ curr' = curr
        /\ sig' \in [Tasks -> Signal] /\ UNCHANGED <<count, wait_readers, read_wait, write_wait>> /\ pc' = pc
    BY <1>0, <1>3
       DEF process_timeout, irq_wakes, stray_wake_up, wake_up_process, SchedOK, SchedTypeOK, ldsemVars
  <2>2. SchedOK' /\ StaysRunnable BY <1>0, <2>1, WakeUp
  <2>. QED BY <1>1, <2>1, <2>2
<1>4. ASSUME NEW t \in Tasks, resched(t)
      PROVE  IInv' /\ Writers' = Writers /\ Readers' = Readers
  <2>1. SchedOK' /\ UNCHANGED tstate BY <1>0, <1>4, Preempted DEF resched, cond_resched
  <2>2. UNCHANGED <<count, wait_readers, read_wait, write_wait>> /\ pc' = pc BY <1>4 DEF resched, ldsemVars
  <2>. QED BY <1>1, <2>1, <2>2 DEF StaysRunnable
<1>5. CASE do_timer \/ tick \/ UNCHANGED vars
  <2>1. SchedOK' /\ UNCHANGED tstate BY <1>0, <1>5, Ticked DEF do_timer, tick, vars
  <2>2. UNCHANGED <<count, wait_readers, read_wait, write_wait>> /\ pc' = pc
    BY <1>5 DEF do_timer, tick, vars, ldsemVars
  <2>. QED BY <1>1, <2>1, <2>2 DEF StaysRunnable
<1>. QED BY <1>2, <1>3, <1>4, <1>5

\* A waiter that goes back to sleep is not the writer that was told.
LEMMA AgainInv ==
  ASSUME IInv, NEW t \in Tasks, read_again(t) \/ write_again(t)
  PROVE  IInv' /\ Writers' = Writers /\ Readers' = Readers
<1> DEFINE next == IF read_again(t) THEN "r_sleep" ELSE "w_sleep"
<1>1. /\ tstate' = [tstate EXCEPT ![t] = "UNINTERRUPTIBLE"] /\ pc' = [pc EXCEPT ![t] = next]
      /\ UNCHANGED <<on_rq, curr, need_resched, sig>>
      /\ UNCHANGED <<count, wait_readers, read_wait, write_wait>>
  BY DEF read_again, write_again, prepare
<1>2. \/ next = "r_sleep" /\ pc[t] \in Reading
      \/ next = "w_sleep" /\ pc[t] \in WriteWaiting /\ Active(count + ACTIVE_BIAS) # ACTIVE_BIAS
  BY DEF read_again, write_again, ReadLoop, WriteLoop, Reading, WriteWaiting, writer_trylock
<1> HIDE DEF next
<1>3. pc \in [Tasks -> Location] /\ SchedOK BY DEF IInv, TypeOK
<1>4. pc' \in [Tasks -> Location] BY <1>1, <1>2, <1>3 DEF Location
<1>5. \A u \in Tasks : \/ pc'[u] = pc[u]
                       \/ pc[u] \in Reading /\ pc'[u] \in Reading
                       \/ pc[u] \in WriteWaiting /\ pc'[u] \in WriteWaiting
  BY <1>1, <1>2, <1>3 DEF Reading, WriteWaiting
<1>6. SchedOK' /\ \A u \in Tasks \ {t} : tstate'[u] = tstate[u]
  <2>1. "UNINTERRUPTIBLE" \in SleepState BY DEF SleepState
  <2>. QED BY <1>1, <1>3, <2>1, StateSet
<1>7. ~(InList(write_wait, t) /\ Holders = {})
  <2> SUFFICES ASSUME InList(write_wait, t), Holders = {} PROVE FALSE
    OBVIOUS
  <2>1. Active(count + ACTIVE_BIAS) # ACTIVE_BIAS
    BY <1>2 DEF IInv, Queued, Reading, WriteWaiting
  <2>2. Waiting \in Nat /\ count = 0 - (MASK + 1) * Waiting BY Sizes DEF IInv, TwoDigits
  <2>3. count + 1 = 1 - (MASK + 1) * Waiting BY <2>2, MaskAssumption
  <2>4. 1 \in 0 .. MASK BY MaskAssumption
  <2>5. Active(count + 1) = 1 BY <2>2, <2>3, <2>4, Digits
  <2>. QED BY <2>1, <2>5 DEF ACTIVE_BIAS
<1>. QED BY <1>1, <1>4, <1>5, <1>6, <1>7, SchedulerStep

----------------------------------------------------------------------------
(* Taking the lock without waiting *)

\* count is not negative: no writer and no waiter.
LEMMA ReadTaken ==
  ASSUME IInv, NEW t \in Tasks, down_read_fast(t) \/ ldsem_down_read_trylock(t)
  PROVE  IInv' /\ Writers = {} /\ t \notin Readers /\ Readers' = Readers \cup {t} /\ Writers' = Writers
<1>1. /\ pc[t] = "out" /\ count >= 0 /\ count' = count + 1 /\ pc' = [pc EXCEPT ![t] = "read"]
      /\ UNCHANGED <<schedVars, wait_readers, read_wait, write_wait>>
  BY DEF down_read_fast, ldsem_down_read_trylock, ACTIVE_BIAS, IInv, TypeOK
<1>2. Writers = {} /\ read_wait = <<>> /\ write_wait = <<>> BY <1>1, CountRead
<1>3. "read" \in Location BY DEF Location
<1>4. /\ pc' \in [Tasks -> Location] /\ pc'[t] = "read" /\ \A u \in Tasks \ {t} : pc'[u] = pc[u]
      /\ Holders' = Holders \cup {t} /\ Writers' = Writers \ {t} /\ Readers' = Readers \cup {t}
  BY <1>1, <1>3, Moves
<1>5. Writers' = {} /\ t \notin Readers /\ t \notin Holders
  BY <1>1, <1>2, <1>4 DEF Readers, Holders, Granted, In
<1>6. TypeOK' BY <1>1, <1>4 DEF IInv, TypeOK
<1>7. SchedOK' BY <1>1, Ticked DEF IInv
<1>8. \A u : ~InList(read_wait, u) /\ ~InList(write_wait, u) BY <1>2 DEF InList
<1>9. Queued' BY <1>1, <1>2, <1>4, <1>8 DEF IInv, Queued, WriteWaiting
<1>10. TwoDigits'
  <2>1. Cardinality(Holders') = Cardinality(Holders) + 1 BY <1>4, <1>5, Sizes, FS_AddElement
  <2>2. Waiting' = Waiting BY <1>1, <1>2, <1>5 DEF Waiting
  <2>3. Cardinality(Holders) \in Int /\ Waiting \in Int /\ MASK \in Int BY Sizes, MaskAssumption
  <2>. QED BY <1>1, <2>1, <2>2, <2>3 DEF IInv, TwoDigits
<1>11. Alone' /\ WriterTold' /\ BehindWriter' BY <1>1, <1>2, <1>5 DEF Alone, WriterTold, BehindWriter
<1>. QED BY <1>2, <1>4, <1>5, <1>6, <1>7, <1>9, <1>10, <1>11 DEF IInv

\* The low digit is zero: nobody is active.
LEMMA WriteTaken ==
  ASSUME IInv, NEW t \in Tasks, down_write_fast(t) \/ ldsem_down_write_trylock(t)
  PROVE  IInv' /\ Writers = {} /\ Readers = {} /\ Readers' = Readers /\ Writers' = {t}
<1>0. /\ Cardinality(Holders) \in 0 .. MASK - 1 /\ Waiting \in Nat /\ MASK \in Nat \ {0}
      /\ count = Cardinality(Holders) - (MASK + 1) * Waiting
  BY Sizes, MaskAssumption DEF IInv, TwoDigits
<1>1. /\ pc[t] = "out" /\ count' = count + WRITE_BIAS /\ pc' = [pc EXCEPT ![t] = "write"]
      /\ UNCHANGED <<schedVars, wait_readers, read_wait, write_wait>>
  BY DEF down_write_fast, ldsem_down_write_trylock
<1>2. Holders = {}
  <2>1. CASE down_write_fast(t)
    <3>1. /\ count + WRITE_BIAS = (Cardinality(Holders) + 1) - (MASK + 1) * (Waiting + 1)
          /\ Cardinality(Holders) + 1 \in 0 .. MASK /\ Waiting + 1 \in Nat
      BY <1>0 DEF WRITE_BIAS, WAIT_BIAS, ACTIVE_BIAS
    <3>2. Active(count + WRITE_BIAS) = Cardinality(Holders) + 1 BY <3>1, Digits
    <3>3. Cardinality(Holders) = 0 BY <1>0, <2>1, <3>2 DEF down_write_fast, ACTIVE_BIAS
    <3>. QED BY <3>3, Sizes
  <2>2. CASE ldsem_down_write_trylock(t) BY <2>2, CountRead DEF ldsem_down_write_trylock
  <2>. QED BY <2>1, <2>2
<1>3. Writers = {} /\ Readers = {} BY <1>2 DEF Holders, Writers, Readers, In
<1>4. "write" \in Location BY DEF Location
<1>5. /\ pc' \in [Tasks -> Location] /\ pc'[t] = "write" /\ \A u \in Tasks \ {t} : pc'[u] = pc[u]
      /\ Holders' = Holders \cup {t} /\ Writers' = Writers \cup {t} /\ Readers' = Readers \ {t}
  BY <1>1, <1>4, Moves
<1>6. Holders' = {t} /\ Writers' = {t} /\ Readers' = Readers BY <1>2, <1>3, <1>5
<1>7. TypeOK'
  <2>1. count' \in Int BY <1>0, <1>1 DEF WRITE_BIAS, WAIT_BIAS, ACTIVE_BIAS
  <2>. QED BY <1>1, <1>5, <2>1 DEF IInv, TypeOK
<1>8. SchedOK' BY <1>1, Ticked DEF IInv
<1>9. Queued' BY <1>1, <1>5 DEF IInv, Queued, Reading, WriteWaiting
<1>10. TwoDigits'
  <2>1. Cardinality(Holders') = 1 /\ Cardinality(Writers') = 1 BY <1>6, FS_Singleton
  <2>2. Cardinality(Holders) = 0 /\ Cardinality(Writers) = 0 BY <1>2, <1>3, FS_EmptySet
  <2>3. Waiting' = Waiting + 1 BY <1>1, <2>1, <2>2, Sizes DEF Waiting
  <2>4. count' = 1 - (MASK + 1) * (Waiting + 1)
    BY <1>0, <1>1, <2>2 DEF WRITE_BIAS, WAIT_BIAS, ACTIVE_BIAS
  <2>. QED BY <1>1, <2>1, <2>3, <2>4 DEF IInv, TwoDigits
<1>11. Alone' /\ WriterTold' /\ BehindWriter' BY <1>6 DEF Alone, WriterTold, BehindWriter
<1>. QED BY <1>3, <1>6, <1>7, <1>8, <1>9, <1>10, <1>11 DEF IInv

----------------------------------------------------------------------------
(* Back from schedule_timeout() *)

\* The reader was counted in by whoever took it off the list.
LEMMA ReadGranted ==
  ASSUME IInv, NEW t \in Tasks, read_granted(t)
  PROVE  IInv' /\ Writers = {} /\ t \notin Readers /\ Readers' = Readers \cup {t} /\ Writers' = Writers
<1>1. /\ pc[t] \in Reading /\ ~InList(read_wait, t) /\ pc' = [pc EXCEPT ![t] = "read"]
      /\ UNCHANGED <<schedVars, count, wait_readers, read_wait, write_wait>>
  BY DEF read_granted, ReadLoop, leave, Reading
<1>2. "read" \in Location BY DEF Location
<1>3. /\ pc' \in [Tasks -> Location] /\ pc'[t] = "read" /\ \A u \in Tasks \ {t} : pc'[u] = pc[u]
      /\ Holders' = Holders \cup {t} /\ Writers' = Writers \ {t} /\ Readers' = Readers \cup {t}
  BY <1>1, <1>2, Moves
<1>4. t \in Holders /\ t \notin Readers /\ t \notin Writers
  BY <1>1 DEF Holders, Readers, Writers, In, Granted, Reading
<1>5. Writers = {} /\ Writers' = Writers /\ Holders' = Holders BY <1>3, <1>4 DEF IInv, Alone
<1>6. TypeOK' BY <1>1, <1>3 DEF IInv, TypeOK
<1>7. SchedOK' /\ UNCHANGED tstate BY <1>1, Ticked DEF IInv
<1>8. Queued' BY <1>1, <1>3 DEF IInv, Queued, Reading, WriteWaiting
<1>9. TwoDigits' BY <1>1, <1>5 DEF IInv, TwoDigits, Waiting
<1>10. Alone' /\ WriterTold' /\ BehindWriter'
  BY <1>1, <1>5, <1>7 DEF IInv, Alone, WriterTold, BehindWriter
<1>. QED BY <1>3, <1>4, <1>5, <1>6, <1>7, <1>8, <1>9, <1>10 DEF IInv

\* The length of the list that an entry has left or joined.
LEMMA Lengths ==
  ASSUME NEW s \in Seq(Tasks), NoDup(s), NEW t \in Tasks
  PROVE  /\ InList(s, t) => Len(list_del(s, t)) = Len(s) - 1
         /\ Len(list_add_tail(s, t)) = Len(s) + 1
<1>1. ASSUME InList(s, t) PROVE Len(list_del(s, t)) = Len(s) - 1
  <2> DEFINE i == CHOOSE j \in DOMAIN s : s[j] = t
  <2>1. i \in 1 .. Len(s) BY <1>1 DEF InList
  <2>2. list_del(s, t) = RemoveAt(s, i) BY DEF list_del
  <2> HIDE DEF i
  <2>. QED BY <2>1, <2>2, RemoveAtElements
<1>. QED BY <1>1 DEF list_add_tail

\* A reader that times out takes its share of count and its entry with it.
LEMMA ReadTimedOut ==
  ASSUME IInv, NEW t \in Tasks, read_timeout(t)
  PROVE  IInv' /\ Readers' = Readers /\ Writers' = Writers
<1>1. /\ pc[t] \in Reading /\ InList(read_wait, t) /\ pc' = [pc EXCEPT ![t] = "out"]
      /\ count' = count - WAIT_BIAS /\ wait_readers' = wait_readers - 1
      /\ read_wait' = list_del(read_wait, t) /\ UNCHANGED <<schedVars, write_wait>>
  BY DEF read_timeout, ReadLoop, leave, Reading
<1>2. read_wait \in Seq(Tasks) /\ NoDup(read_wait) /\ wait_readers = Len(read_wait) /\ Len(read_wait) \in Nat
  BY DEF IInv, TypeOK, Queued, TwoDigits
<1>3. /\ read_wait' \in Seq(Tasks) /\ NoDup(read_wait') /\ Len(read_wait') = Len(read_wait) - 1
      /\ \A x : InList(read_wait', x) <=> InList(read_wait, x) /\ x # t
  BY <1>1, <1>2, ListDel, Lengths
<1>4. "out" \in Location /\ "out" \notin Reading BY DEF Location, Reading
<1>5. /\ pc' \in [Tasks -> Location] /\ pc'[t] = "out" /\ \A u \in Tasks \ {t} : pc'[u] = pc[u]
      /\ Holders' = Holders \ {t} /\ Writers' = Writers \ {t} /\ Readers' = Readers \ {t}
  BY <1>1, <1>3, <1>4, Moves
<1>6. t \notin Holders /\ t \notin Readers /\ t \notin Writers
  BY <1>1 DEF Holders, Readers, Writers, In, Granted, Reading
<1>7. Holders' = Holders /\ Writers' = Writers /\ Readers' = Readers BY <1>5, <1>6
<1>8. TwoDigits' /\ count' \in Int
  <2>1. Waiting' = Waiting - 1 BY <1>1, <1>2, <1>3, <1>7, Sizes DEF Waiting
  <2>2. Cardinality(Holders) \in Int /\ Waiting \in Int /\ MASK \in Int BY Sizes, MaskAssumption
  <2>3. count = Cardinality(Holders) - (MASK + 1) * Waiting BY DEF IInv, TwoDigits
  <2>4. count' = Cardinality(Holders) - (MASK + 1) * (Waiting - 1) BY <1>1, <2>2, <2>3 DEF WAIT_BIAS
  <2>. QED BY <1>1, <1>2, <1>3, <1>7, <2>1, <2>2, <2>4 DEF TwoDigits
<1>9. TypeOK' BY <1>1, <1>3, <1>5, <1>8 DEF IInv, TypeOK
<1>10. SchedOK' /\ UNCHANGED tstate BY <1>1, Ticked DEF IInv
<1>11. Queued' BY <1>1, <1>3, <1>5 DEF IInv, Queued, Reading, WriteWaiting
<1>12. Alone' /\ WriterTold' BY <1>1, <1>7, <1>10 DEF IInv, Alone, WriterTold
<1>13. BehindWriter'
  <2>1. read_wait # <<>> BY <1>1, <1>2, HeadInList
  <2>. QED BY <1>1, <1>7, <2>1 DEF IInv, BehindWriter
<1>. QED BY <1>7, <1>8, <1>9, <1>10, <1>11, <1>12, <1>13 DEF IInv

\* A queued writer takes the lock only when it is the only one active.
LEMMA WriteGranted ==
  ASSUME IInv, NEW t \in Tasks, write_granted(t)
  PROVE  IInv' /\ Writers = {} /\ Readers = {} /\ Readers' = Readers /\ Writers' = {t}
<1>0. /\ Cardinality(Holders) \in 0 .. MASK - 1 /\ Waiting \in Nat /\ MASK \in Nat \ {0}
      /\ count = Cardinality(Holders) - (MASK + 1) * Waiting
      /\ write_wait \in Seq(Tasks) /\ NoDup(write_wait)
  BY Sizes, MaskAssumption DEF IInv, TwoDigits, TypeOK, Queued
<1>1. /\ pc[t] = "w_slept" /\ Active(count + 1) = 1 /\ count' = count + 1
      /\ write_wait' = list_del(write_wait, t)
      /\ pc' = [pc EXCEPT ![t] = "write"] /\ UNCHANGED <<schedVars, wait_readers, read_wait>>
  BY DEF write_granted, WriteLoop, writer_trylock, leave, ACTIVE_BIAS
<1>2. InList(write_wait, t) BY <1>1 DEF IInv, Queued, WriteWaiting
<1>3. /\ write_wait' \in Seq(Tasks) /\ NoDup(write_wait') /\ Len(write_wait') = Len(write_wait) - 1
      /\ \A x : InList(write_wait', x) <=> InList(write_wait, x) /\ x # t
  BY <1>0, <1>1, <1>2, ListDel, Lengths
<1>4. Holders = {}
  <2>1. count + 1 = (Cardinality(Holders) + 1) - (MASK + 1) * Waiting /\ Cardinality(Holders) + 1 \in 0 .. MASK
    BY <1>0
  <2>2. Active(count + 1) = Cardinality(Holders) + 1 BY <1>0, <2>1, Digits
  <2>3. Cardinality(Holders) \in Int /\ Cardinality(Holders) + 1 = 1 BY <1>1, <2>2, Sizes
  <2>4. Cardinality(Holders) = 0 BY <2>3
  <2>. QED BY <2>4, Sizes
<1>5. Writers = {} /\ Readers = {} BY <1>4 DEF Holders, Writers, Readers, In
<1>6. "write" \in Location BY DEF Location
<1>7. /\ pc' \in [Tasks -> Location] /\ pc'[t] = "write" /\ \A u \in Tasks \ {t} : pc'[u] = pc[u]
      /\ Holders' = Holders \cup {t} /\ Writers' = Writers \cup {t} /\ Readers' = Readers \ {t}
  BY <1>1, <1>6, Moves
<1>8. Holders' = {t} /\ Writers' = {t} /\ Readers' = Readers BY <1>4, <1>5, <1>7
<1>9. TypeOK' BY <1>0, <1>1, <1>3, <1>7 DEF IInv, TypeOK
<1>10. SchedOK' BY <1>1, Ticked DEF IInv
<1>11. Queued' BY <1>1, <1>3, <1>7 DEF IInv, Queued, Reading, WriteWaiting
<1>12. TwoDigits'
  <2>1. Cardinality(Holders') = 1 /\ Cardinality(Writers') = 1 BY <1>8, FS_Singleton
  <2>2. Cardinality(Holders) = 0 /\ Cardinality(Writers) = 0 BY <1>4, <1>5, FS_EmptySet
  <2>3. Waiting' = Waiting BY <1>1, <1>3, <2>1, <2>2, Sizes DEF Waiting
  <2>. QED BY <1>0, <1>1, <2>1, <2>2, <2>3 DEF IInv, TwoDigits
<1>13. Alone' /\ WriterTold' /\ BehindWriter' BY <1>8 DEF Alone, WriterTold, BehindWriter
<1>. QED BY <1>5, <1>8, <1>9, <1>10, <1>11, <1>12, <1>13 DEF IInv

----------------------------------------------------------------------------
(* Queueing *)

\* A writer queues only while somebody is active.
LEMMA WriteQueued ==
  ASSUME IInv, NEW t \in Tasks, NEW timeout, down_write_failed(t, timeout)
  PROVE  IInv' /\ Readers' = Readers /\ Writers' = Writers
<1>0. /\ Cardinality(Holders) \in 0 .. MASK - 1 /\ Waiting \in Nat /\ MASK \in Nat \ {0}
      /\ count = Cardinality(Holders) - (MASK + 1) * Waiting
      /\ write_wait \in Seq(Tasks) /\ NoDup(write_wait) /\ SchedOK
  BY Sizes, MaskAssumption DEF IInv, TwoDigits, TypeOK, Queued
<1>1. /\ pc[t] = "out" /\ Active(count + WRITE_BIAS) # ACTIVE_BIAS /\ count' = count + WRITE_BIAS - ACTIVE_BIAS
      /\ write_wait' = list_add_tail(write_wait, t) /\ tstate' = [tstate EXCEPT ![t] = "UNINTERRUPTIBLE"]
      /\ pc' = [pc EXCEPT ![t] = "w_sleep"]
      /\ UNCHANGED <<on_rq, curr, need_resched, sig>> /\ UNCHANGED <<wait_readers, read_wait>>
  BY DEF down_write_failed, prepare
<1>2. ~InList(write_wait, t) BY <1>1 DEF IInv, Queued, WriteWaiting
<1>3. /\ write_wait' \in Seq(Tasks) /\ NoDup(write_wait') /\ Len(write_wait') = Len(write_wait) + 1
      /\ write_wait' # <<>> /\ \A x : InList(write_wait', x) <=> InList(write_wait, x) \/ x = t
  BY <1>0, <1>1, <1>2, ListAddTail, Lengths
<1>4. Holders # {}
  <2>1. /\ count + WRITE_BIAS = (Cardinality(Holders) + 1) - (MASK + 1) * (Waiting + 1)
        /\ Cardinality(Holders) + 1 \in 0 .. MASK /\ Waiting + 1 \in Nat
    BY <1>0 DEF WRITE_BIAS, WAIT_BIAS, ACTIVE_BIAS
  <2>2. Active(count + WRITE_BIAS) = Cardinality(Holders) + 1 BY <2>1, Digits
  <2>3. Cardinality(Holders) # 0 BY <1>0, <1>1, <2>2 DEF ACTIVE_BIAS
  <2>. QED BY <2>3, Sizes
<1>5. "w_sleep" \in Location /\ "w_sleep" \notin Reading BY DEF Location, Reading
<1>6. /\ pc' \in [Tasks -> Location] /\ pc'[t] = "w_sleep" /\ \A u \in Tasks \ {t} : pc'[u] = pc[u]
      /\ Holders' = Holders \ {t} /\ Writers' = Writers \ {t} /\ Readers' = Readers \ {t}
  BY <1>1, <1>5, Moves
<1>7. t \notin Holders /\ t \notin Readers /\ t \notin Writers
  BY <1>1 DEF Holders, Readers, Writers, In, Granted
<1>8. Holders' = Holders /\ Writers' = Writers /\ Readers' = Readers BY <1>6, <1>7
<1>9. TwoDigits' /\ count' \in Int
  <2>0. Cardinality(Writers) \in Int /\ Len(read_wait) \in Int /\ Len(write_wait) \in Int BY Sizes
  <2>1. Waiting' = Waiting + 1 BY <1>1, <1>3, <1>8, <2>0 DEF Waiting
  <2>2. count' = Cardinality(Holders) - (MASK + 1) * (Waiting + 1)
    BY <1>0, <1>1 DEF WRITE_BIAS, WAIT_BIAS, ACTIVE_BIAS
  <2>. QED BY <1>0, <1>1, <1>8, <2>1, <2>2 DEF IInv, TwoDigits
<1>10. TypeOK' BY <1>1, <1>3, <1>6, <1>9 DEF IInv, TypeOK
<1>11. SchedOK'
  <2>1. "UNINTERRUPTIBLE" \in SleepState BY DEF SleepState
  <2>. QED BY <1>0, <1>1, <2>1, StateSet
<1>12. Queued' BY <1>1, <1>3, <1>6 DEF IInv, Queued, Reading, WriteWaiting
<1>13. Alone' /\ WriterTold' /\ BehindWriter'
  BY <1>3, <1>4, <1>8 DEF IInv, Alone, WriterTold, BehindWriter
<1>. QED BY <1>8, <1>9, <1>10, <1>11, <1>12, <1>13 DEF IInv

\* A reader queues behind a writer that is active or queued.  If nobody is
\* active it is a queued one, which is told.
LEMMA ReadQueued ==
  ASSUME IInv, NEW t \in Tasks, NEW timeout, down_read_failed(t, timeout)
  PROVE  IInv' /\ Readers' = Readers /\ Writers' = Writers
<1> DEFINE c == count + WAIT_BIAS
           list == list_add_tail(read_wait, t)
           W == IF Holders = {} THEN {Head(write_wait)} ELSE {}
<1>0. /\ Cardinality(Holders) \in 0 .. MASK - 1 /\ Cardinality(Holders) \in 0 .. MASK
      /\ Waiting \in Nat /\ MASK \in Nat \ {0}
      /\ count = Cardinality(Holders) - (MASK + 1) * Waiting
      /\ read_wait \in Seq(Tasks) /\ NoDup(read_wait) /\ wait_readers = Len(read_wait)
      /\ write_wait \in Seq(Tasks) /\ SchedOK /\ sig \in [Tasks -> Signal] /\ Len(read_wait) \in Nat
  <2>1. Cardinality(Holders) \in 0 .. MASK - 1 /\ Waiting \in Nat /\ MASK \in Nat \ {0} /\ Len(read_wait) \in Nat
    BY Sizes, MaskAssumption
  <2>. QED BY <2>1 DEF IInv, TwoDigits, TypeOK, Queued, SchedOK, SchedTypeOK
<1>1. /\ pc[t] = "out" /\ count + 1 <= 0 /\ pc' = [pc EXCEPT ![t] = "r_top"] /\ UNCHANGED write_wait
      /\ Apply(IF Active(c) = 0 THEN __ldsem_wake(c, list, wait_readers + 1)
               ELSE Nobody(c, list, wait_readers + 1))
  BY DEF down_read_failed, ACTIVE_BIAS
<1>2. Active(c) = 0 <=> Holders = {}
  <2>1. c = Cardinality(Holders) - (MASK + 1) * (Waiting + 1) /\ Waiting + 1 \in Nat BY <1>0 DEF WAIT_BIAS
  <2>2. Active(c) = Cardinality(Holders) BY <1>0, <2>1, Digits
  <2>. QED BY <2>2, Sizes
<1>3. write_wait = <<>> => Writers # {}
  <2>1. ~(count >= 0) BY <1>0, <1>1
  <2>2. Writers # {} \/ read_wait # <<>> \/ write_wait # <<>> BY <2>1, CountRead
  <2>. QED BY <2>2 DEF IInv, BehindWriter
<1>4. Writers # {} => Holders # {} BY Sizes
<1>5. /\ count' = c /\ read_wait' = list /\ wait_readers' = wait_readers + 1
      /\ wake_up_q(W) /\ UNCHANGED <<curr, sig>>
  <2>1. CASE Holders = {}
    <3>1. __ldsem_wake(c, list, wait_readers + 1) =
            [Nobody(c, list, wait_readers + 1) EXCEPT !.wake = {Head(write_wait)}]
      BY <1>3, <1>4, <2>1 DEF __ldsem_wake
    <3>. QED BY <1>1, <1>2, <2>1, <3>1 DEF Apply, Nobody
  <2>2. CASE Holders # {} BY <1>1, <1>2, <2>2 DEF Apply, Nobody
  <2>. QED BY <2>1, <2>2
<1> HIDE DEF c, list, W
<1>6. ~InList(read_wait, t) BY <1>1 DEF IInv, Queued, Reading
<1>7. /\ read_wait' \in Seq(Tasks) /\ NoDup(read_wait') /\ Len(read_wait') = Len(read_wait) + 1
      /\ \A x : InList(read_wait', x) <=> InList(read_wait, x) \/ x = t
  BY <1>0, <1>5, <1>6, ListAddTail, Lengths DEF list
<1>8. "r_top" \in Location /\ "r_top" \in Reading BY DEF Location, Reading
<1>9. /\ pc' \in [Tasks -> Location] /\ pc'[t] = "r_top" /\ \A u \in Tasks \ {t} : pc'[u] = pc[u]
      /\ Holders' = Holders \ {t} /\ Writers' = Writers \ {t} /\ Readers' = Readers \ {t}
  BY <1>1, <1>7, <1>8, Moves
<1>10. t \notin Holders /\ t \notin Readers /\ t \notin Writers
  BY <1>1 DEF Holders, Readers, Writers, In, Granted
<1>11. Holders' = Holders /\ Writers' = Writers /\ Readers' = Readers BY <1>9, <1>10
<1>12. TwoDigits' /\ count' \in Int
  <2>0. Cardinality(Writers) \in Int /\ Len(read_wait) \in Int /\ Len(write_wait) \in Int BY Sizes
  <2>1. Waiting' = Waiting + 1
    <3>1. Len(read_wait') = Len(read_wait) + 1 /\ Len(write_wait') = Len(write_wait) BY <1>1, <1>7
    <3>2. Cardinality(Writers') = Cardinality(Writers) BY <1>11
    <3>. QED BY <2>0, <3>1, <3>2 DEF Waiting
  <2>2. count' = Cardinality(Holders) - (MASK + 1) * (Waiting + 1) BY <1>0, <1>5 DEF c, WAIT_BIAS
  <2>. QED BY <1>0, <1>5, <1>7, <1>11, <2>1, <2>2 DEF TwoDigits
<1>13. TypeOK' BY <1>1, <1>7, <1>9, <1>12 DEF IInv, TypeOK
<1>14. W \in SUBSET Tasks /\ (Holders = {} => InList(write_wait, Head(write_wait)) /\ Head(write_wait) \in W)
  BY <1>0, <1>3, <1>4, HeadInList DEF W
<1>15. SchedOK' /\ StaysRunnable /\ \A p \in W : tstate'[p] = "RUNNING"
  <2>1. try_to_wake_up(W, TASK_NORMAL) /\ curr' = curr /\ sig' \in [Tasks -> Signal] BY <1>0, <1>5 DEF wake_up_q
  <2>. QED BY <1>0, <1>14, <2>1, WakeUp
<1>16. Queued' BY <1>1, <1>7, <1>8, <1>9 DEF IInv, Queued, Reading, WriteWaiting
<1>17. Alone' /\ WriterTold' /\ BehindWriter'
  BY <1>1, <1>3, <1>11, <1>14, <1>15 DEF IInv, Alone, WriterTold, BehindWriter
<1>. QED BY <1>11, <1>12, <1>13, <1>15, <1>16, <1>17 DEF IInv

----------------------------------------------------------------------------
(* Giving the lock, or the wish for it, back *)

\* The readers are let in if nothing stands against them.
LEMMA WakeReaders ==
  ASSUME NEW a \in Nat, NEW n \in Nat, NEW w \in Nat, NEW list, a + n \in 1 .. MASK,
         NEW c, c = a - (MASK + 1) * (w + n)
  PROVE  __ldsem_wake_readers(c, list, n) =
           IF w = 0 THEN [count |-> a + n, readers |-> <<>>, n |-> 0, wake |-> ToSet(list)]
           ELSE Nobody(c, list, n)
<1> DEFINE adjusted == c + n * (ACTIVE_BIAS - WAIT_BIAS)
<1>0. MASK \in Nat BY MaskAssumption
<1>1. adjusted = (a + n) - (MASK + 1) * w
  <2>1. ACTIVE_BIAS - WAIT_BIAS = (MASK + 1) + 1 BY <1>0 DEF ACTIVE_BIAS, WAIT_BIAS
  <2>2. n * ((MASK + 1) + 1) = n * (MASK + 1) + n BY <1>0
  <2>3. c = a - (MASK + 1) * w - n * (MASK + 1) BY <1>0
  <2>. QED BY <1>0, <2>1, <2>2, <2>3
<1>2. a + n \in 0 .. MASK OBVIOUS
<1>3. adjusted > 0 <=> w = 0
  <2>1. adjusted >= 0 <=> w = 0 BY <1>1, <1>2, Digits
  <2>2. adjusted > 0 => w = 0 BY <1>1, <1>2, Digits
  <2>3. w = 0 => adjusted > 0 BY <1>0, <1>1
  <2>. QED BY <2>2, <2>3
<1>4. w = 0 => adjusted = a + n BY <1>0, <1>1
<1>. QED BY <1>3, <1>4 DEF __ldsem_wake_readers

\* How many there are after t is gone.
LEMMA OneLess ==
  ASSUME IInv, NEW t \in Tasks
  PROVE  /\ Cardinality(Holders \ {t}) = IF t \in Holders THEN Cardinality(Holders) - 1 ELSE Cardinality(Holders)
         /\ Cardinality(Writers \ {t}) = IF t \in Writers THEN Cardinality(Writers) - 1 ELSE Cardinality(Writers)
<1>1. IsFiniteSet(Holders) /\ IsFiniteSet(Writers) BY Sizes
<1>. QED BY <1>1, FS_RemoveElement

\* Task t leaves, and no reader is let in.
LEMMA Leaves ==
  ASSUME IInv, NEW t \in Tasks, pc' = [pc EXCEPT ![t] = "out"], UNCHANGED <<read_wait, wait_readers>>,
         SchedOK',
         \/ pc[t] = "read" /\ write_wait' = write_wait /\ count' = count - ACTIVE_BIAS
         \/ pc[t] = "write" /\ write_wait' = write_wait /\ count' = count - WRITE_BIAS
         \/ pc[t] = "w_slept" /\ write_wait' = list_del(write_wait, t) /\ count' = count - WAIT_BIAS,
         write_wait' # <<>> /\ Holders \ {t} = {}
           => \E u \in Tasks : InList(write_wait', u) /\ tstate'[u] = "RUNNING",
         read_wait # <<>> /\ write_wait' = <<>> => Writers \ {t} # {}
  PROVE  IInv' /\ Readers' = Readers \ {t} /\ Writers' = Writers \ {t}
<1>0. /\ write_wait \in Seq(Tasks) /\ NoDup(write_wait) /\ read_wait \in Seq(Tasks) /\ NoDup(read_wait)
      /\ count \in Int /\ MASK \in Nat
  BY MaskAssumption DEF IInv, TypeOK, Queued
<1>1. "out" \in Location /\ "out" \notin Reading BY DEF Location, Reading
<1>2. /\ pc' \in [Tasks -> Location] /\ pc'[t] = "out" /\ \A u \in Tasks \ {t} : pc'[u] = pc[u]
      /\ Holders' = Holders \ {t} /\ Writers' = Writers \ {t} /\ Readers' = Readers \ {t}
  BY <1>1, Moves
<1>3. InList(write_wait, t) <=> pc[t] = "w_slept" BY DEF IInv, Queued, WriteWaiting
<1>4. /\ write_wait' \in Seq(Tasks) /\ NoDup(write_wait')
      /\ \A x : InList(write_wait', x) <=> InList(write_wait, x) /\ x # t
      /\ Len(write_wait') = IF pc[t] = "w_slept" THEN Len(write_wait) - 1 ELSE Len(write_wait)
  <2>1. CASE pc[t] = "w_slept" BY <1>0, <1>3, <2>1, ListDel, Lengths
  <2>2. CASE pc[t] # "w_slept" BY <1>0, <1>3, <2>2
  <2>. QED BY <2>1, <2>2
<1>5. TypeOK' BY <1>0, <1>2, <1>4 DEF IInv, TypeOK, ACTIVE_BIAS, WRITE_BIAS, WAIT_BIAS
<1>6. ~InList(read_wait, t) BY DEF IInv, Queued, Reading
<1>7. Queued' BY <1>0, <1>2, <1>4, <1>6 DEF IInv, Queued, Reading, WriteWaiting
<1>8. Alone' BY <1>2 DEF IInv, Alone
<1>9. TwoDigits'
  <2> DEFINE a == Cardinality(Holders)
             k == Waiting
  <2>0. a \in Int /\ k \in Int /\ Cardinality(Writers) \in Int /\ Len(read_wait) \in Int /\ Len(write_wait) \in Int
    BY Sizes
  <2>1. /\ Cardinality(Holders') = IF t \in Holders THEN a - 1 ELSE a
        /\ Cardinality(Writers') = IF t \in Writers THEN Cardinality(Writers) - 1 ELSE Cardinality(Writers)
    BY <1>2, OneLess
  <2>2. (t \in Holders <=> pc[t] \in {"read", "write"}) /\ (t \in Writers <=> pc[t] = "write")
    BY DEF Holders, Writers, Granted, In
  <2>3. count = a - (MASK + 1) * k /\ wait_readers = Len(read_wait) BY DEF IInv, TwoDigits
  <2>4. Waiting' = IF pc[t] = "read" THEN k ELSE k - 1
    <3>1. Len(read_wait') = Len(read_wait) OBVIOUS
    <3>2. CASE pc[t] = "read"
      <4>1. Len(write_wait') = Len(write_wait) /\ Cardinality(Writers') = Cardinality(Writers)
        BY <1>4, <2>1, <2>2, <3>2
      <4>. QED BY <3>1, <3>2, <4>1 DEF Waiting
    <3>3. CASE pc[t] = "write"
      <4>1. Len(write_wait') = Len(write_wait) /\ Cardinality(Writers') = Cardinality(Writers) - 1
        BY <1>4, <2>1, <2>2, <3>3
      <4>. QED BY <2>0, <3>1, <3>3, <4>1 DEF Waiting
    <3>4. CASE pc[t] = "w_slept"
      <4>1. Len(write_wait') = Len(write_wait) - 1 /\ Cardinality(Writers') = Cardinality(Writers)
        BY <1>4, <2>1, <2>2, <3>4
      <4>. QED BY <2>0, <3>1, <3>4, <4>1 DEF Waiting
    <3>. QED BY <3>2, <3>3, <3>4
  <2> HIDE DEF a, k
  <2>5. CASE pc[t] = "read"
    <3>1. count' = (a - 1) - (MASK + 1) * k BY <1>0, <2>0, <2>3, <2>5 DEF ACTIVE_BIAS
    <3>. QED BY <2>1, <2>2, <2>3, <2>4, <2>5, <3>1 DEF TwoDigits
  <2>6. CASE pc[t] = "write"
    <3>1. count' = (a - 1) - (MASK + 1) * (k - 1)
      BY <1>0, <2>0, <2>3, <2>6 DEF WRITE_BIAS, WAIT_BIAS, ACTIVE_BIAS
    <3>. QED BY <2>1, <2>2, <2>3, <2>4, <2>6, <3>1 DEF TwoDigits
  <2>7. CASE pc[t] = "w_slept"
    <3>1. count' = a - (MASK + 1) * (k - 1) BY <1>0, <2>0, <2>3, <2>7 DEF WAIT_BIAS
    <3>. QED BY <2>1, <2>2, <2>3, <2>4, <2>7, <3>1 DEF TwoDigits
  <2>. QED BY <2>5, <2>6, <2>7
<1>10. WriterTold' /\ BehindWriter' BY <1>2 DEF WriterTold, BehindWriter
<1>. QED BY <1>2, <1>5, <1>7, <1>8, <1>9, <1>10 DEF IInv

\* Task t leaves, no writer is left, and all readers are let in.
LEMMA AllAdmitted ==
  ASSUME IInv, NEW t \in Tasks, pc' = [pc EXCEPT ![t] = "out"], pc[t] \in {"write", "w_slept"},
         SchedOK', Writers \subseteq {t}, \A u \in Tasks \ {t} : ~InList(write_wait, u),
         write_wait' = <<>>, read_wait' = <<>>, wait_readers' = 0,
         count' = Cardinality(Holders \ {t}) + Len(read_wait)
  PROVE  IInv' /\ Readers' = Readers /\ Writers' = {}
<1>0. read_wait \in Seq(Tasks) /\ NoDup(read_wait) /\ pc \in [Tasks -> Location] BY DEF IInv, TypeOK, Queued
<1>1. /\ pc' \in [Tasks -> Location] /\ pc'[t] = "out" /\ \A u \in Tasks \ {t} : pc'[u] = pc[u]
  BY <1>0 DEF Location
<1>2. \A x : ~InList(read_wait', x) /\ ~InList(write_wait', x) BY DEF InList
<1>3. Writers' = {} BY <1>1 DEF Writers, In
<1>4. Readers' = Readers BY <1>1 DEF Readers, In
<1>5. \A x : x \in ToSet(read_wait) <=> InList(read_wait, x) BY <1>0, ListCardinality
<1>6. \A x \in Tasks : InList(read_wait, x) => pc[x] \in Reading /\ x # t /\ x \notin Holders
  BY DEF IInv, Queued, Reading, Holders, Granted, In
<1>7. Holders' = (Holders \ {t}) \cup ToSet(read_wait)
  <2>1. \A u \in Tasks \ {t} : u \in Holders' <=> u \in Holders \/ InList(read_wait, u)
    BY <1>1, <1>2, <1>6 DEF Holders, Granted, In, Reading
  <2>2. t \notin Holders' BY <1>1 DEF Holders, Granted, In
  <2>3. Holders \subseteq Tasks /\ Holders' \subseteq Tasks /\ ToSet(read_wait) \subseteq Tasks /\ t \notin ToSet(read_wait)
    BY <1>0, <1>5, <1>6, ListCardinality DEF Holders, Granted, In
  <2>. QED BY <1>5, <2>1, <2>2, <2>3
<1>8. Cardinality(Holders') = Cardinality(Holders \ {t}) + Len(read_wait)
  <2>1. IsFiniteSet(Holders) BY Sizes
  <2>2. IsFiniteSet(Holders \ {t}) BY <2>1, FS_Subset
  <2>3. IsFiniteSet(ToSet(read_wait)) /\ Cardinality(ToSet(read_wait)) = Len(read_wait) /\ ToSet(read_wait) \subseteq Tasks
    BY <1>0, ListCardinality
  <2>4. (Holders \ {t}) \cap ToSet(read_wait) = {} BY <1>5, <1>6, <2>3
  <2>5. Cardinality((Holders \ {t}) \cup ToSet(read_wait))
          = Cardinality(Holders \ {t}) + Cardinality(ToSet(read_wait)) - Cardinality({})
    BY <2>2, <2>3, <2>4, FS_Union
  <2>6. Cardinality(Holders \ {t}) \in Nat /\ Len(read_wait) \in Nat BY <2>2, <2>3, FS_CardinalityType
  <2>. QED BY <1>7, <2>3, <2>5, <2>6, FS_EmptySet
<1>9. Cardinality(Holders') \in Int /\ MASK \in Int
  <2>1. Holders' \subseteq Tasks BY DEF Holders, Granted, In
  <2>. QED BY <2>1, MaskAssumption, FS_Subset, FS_CardinalityType
<1>10. TwoDigits'
  <2>1. Waiting' = 0 BY <1>3, FS_EmptySet DEF Waiting
  <2>. QED BY <1>8, <1>9, <2>1 DEF TwoDigits
<1>11. TypeOK' BY <1>1, <1>8, <1>9 DEF TypeOK
<1>12. Queued' BY <1>1, <1>2 DEF IInv, Queued, NoDup, WriteWaiting
<1>13. Alone' /\ WriterTold' /\ BehindWriter' BY <1>3 DEF Alone, WriterTold, BehindWriter
<1>. QED BY <1>3, <1>4, <1>10, <1>11, <1>12, <1>13 DEF IInv

\* What a decision does once it is carried out.
LEMMA Applied ==
  ASSUME SchedOK, NEW c, NEW list, NEW n, NEW W \in SUBSET Tasks,
         Apply([count |-> c, readers |-> list, n |-> n, wake |-> W])
  PROVE  /\ count' = c /\ read_wait' = list /\ wait_readers' = n
         /\ SchedOK' /\ StaysRunnable /\ \A p \in W : tstate'[p] = "RUNNING"
<1>1. /\ count' = c /\ read_wait' = list /\ wait_readers' = n
      /\ try_to_wake_up(W, TASK_NORMAL) /\ curr' = curr /\ sig' = sig
  BY DEF Apply, wake_up_q
<1>2. sig' \in [Tasks -> Signal] BY <1>1 DEF SchedOK, SchedTypeOK
<1>. QED BY <1>1, <1>2, WakeUp

\* The last reader out tells the first writer, if there is a writer; no reader
\* waits otherwise.
LEMMA ReadReleased ==
  ASSUME IInv, NEW t \in Tasks, ldsem_up_read(t)
  PROVE  IInv' /\ t \in Readers /\ Readers' = Readers \ {t} /\ Writers' = Writers
<1> DEFINE c == count - ACTIVE_BIAS
           a == Cardinality(Holders)
           W == IF c < 0 /\ Active(c) = 0 THEN {Head(write_wait)} ELSE {}
<1>1. /\ pc[t] = "read" /\ pc' = [pc EXCEPT ![t] = "out"] /\ UNCHANGED write_wait
      /\ Apply(IF c < 0 /\ Active(c) = 0 THEN __ldsem_wake(c, read_wait, wait_readers)
               ELSE Nobody(c, read_wait, wait_readers))
  BY DEF ldsem_up_read
<1>2. t \in Readers /\ t \in Holders /\ t \notin Writers BY <1>1 DEF Readers, Writers, Holders, In
<1>3. Writers = {} BY <1>2 DEF IInv, Alone
<1>4. a \in 1 .. MASK /\ Waiting \in Nat /\ MASK \in Nat
  <2>1. Cardinality(Holders) \in 0 .. MASK - 1 /\ Cardinality(Holders) # 0 /\ Waiting \in Nat
    BY <1>2, Sizes
  <2>. QED BY <2>1, MaskAssumption
<1>5. (c < 0 <=> write_wait # <<>>) /\ Active(c) = a - 1
  <2>1. count = a - (MASK + 1) * Waiting BY DEF IInv, TwoDigits
  <2> DEFINE b == a - 1
  <2> HIDE DEF a
  <2>2. c = b - (MASK + 1) * Waiting /\ b \in 0 .. MASK BY <1>4, <2>1 DEF ACTIVE_BIAS
  <2> HIDE DEF b, c
  <2>3. c \in Int /\ Active(c) = b /\ (c >= 0 <=> Waiting = 0) BY <1>4, <2>2, Digits
  <2>4. Waiting = 0 <=> write_wait = <<>>
    <3>1. Waiting = 0 <=> read_wait = <<>> /\ write_wait = <<>> BY <1>3, Sizes
    <3>2. write_wait = <<>> => read_wait = <<>> BY <1>3 DEF IInv, BehindWriter
    <3>. QED BY <3>1, <3>2
  <2>. QED BY <2>3, <2>4 DEF b
<1>6. Apply([count |-> c, readers |-> read_wait, n |-> wait_readers, wake |-> W])
  <2>1. CASE c < 0 /\ Active(c) = 0
    <3>1. __ldsem_wake(c, read_wait, wait_readers) = [Nobody(c, read_wait, wait_readers) EXCEPT !.wake = W]
      BY <1>5, <2>1 DEF __ldsem_wake
    <3>2. __ldsem_wake(c, read_wait, wait_readers) =
            [count |-> c, readers |-> read_wait, n |-> wait_readers, wake |-> W]
      BY <3>1 DEF Nobody
    <3>. QED BY <1>1, <2>1, <3>2
  <2>2. CASE ~(c < 0 /\ Active(c) = 0)
    <3>1. W = {} BY <2>2
    <3> HIDE DEF W
    <3>. QED BY <1>1, <2>2, <3>1 DEF Nobody
  <2>. QED BY <2>1, <2>2
<1>7. SchedOK /\ write_wait \in Seq(Tasks) BY DEF IInv, TypeOK
<1>8. W \in SUBSET Tasks /\ (write_wait # <<>> => InList(write_wait, Head(write_wait)))
  BY <1>5, <1>7, HeadInList
<1> HIDE DEF W, c
<1>9. /\ count' = c /\ UNCHANGED <<read_wait, wait_readers>>
      /\ SchedOK' /\ \A p \in W : tstate'[p] = "RUNNING"
  BY <1>6, <1>7, <1>8, Applied
<1>10. write_wait' # <<>> /\ Holders \ {t} = {}
         => \E u \in Tasks : InList(write_wait', u) /\ tstate'[u] = "RUNNING"
  <2> SUFFICES ASSUME write_wait # <<>>, Holders \ {t} = {}
               PROVE  \E u \in Tasks : InList(write_wait, u) /\ tstate'[u] = "RUNNING"
    BY <1>1
  <2>1. a = 1
    <3>1. Holders = {t} BY <1>2
    <3>. QED BY <3>1, FS_Singleton
  <2>2. Head(write_wait) \in W BY <1>5, <2>1 DEF W
  <2>. QED BY <1>8, <1>9, <2>2
<1>11. read_wait # <<>> /\ write_wait' = <<>> => Writers \ {t} # {}
  BY <1>1, <1>3 DEF IInv, BehindWriter
<1>12. count' = count - ACTIVE_BIAS BY <1>9 DEF c
<1>13. IInv' /\ Readers' = Readers \ {t} /\ Writers' = Writers \ {t}
  BY <1>1, <1>9, <1>10, <1>11, <1>12, Leaves
<1>. QED BY <1>2, <1>3, <1>13

\* The writer out tells the next writer, or lets all readers in.
LEMMA WriteReleased ==
  ASSUME IInv, NEW t \in Tasks, ldsem_up_write(t)
  PROVE  IInv' /\ t \in Writers /\ Readers' = Readers /\ Writers' = Writers \ {t}
<1> DEFINE c == count - WRITE_BIAS
<1>1. /\ pc[t] = "write" /\ pc' = [pc EXCEPT ![t] = "out"] /\ UNCHANGED write_wait
      /\ Apply(IF c < 0 THEN __ldsem_wake(c, read_wait, wait_readers)
               ELSE Nobody(c, read_wait, wait_readers))
  BY DEF ldsem_up_write
<1>2. t \in Writers BY <1>1 DEF Writers, In
<1>3. Holders = {t} /\ Writers = {t} /\ t \notin Readers
  <2>1. Holders = {t} BY <1>2 DEF IInv, Alone
  <2>. QED BY <1>1, <1>2, <2>1, Sizes DEF Readers, In
<1>4. Cardinality(Holders) = 1 /\ Cardinality(Writers) = 1 /\ Cardinality(Holders \ {t}) = 0
  <2>1. Holders \ {t} = {} BY <1>3
  <2>. QED BY <1>3, <2>1, FS_Singleton, FS_EmptySet
<1> DEFINE n == Len(read_wait)
           m == Len(write_wait)
<1>5. n \in Nat /\ m \in Nat /\ (n = 0 <=> read_wait = <<>>) /\ (m = 0 <=> write_wait = <<>>)
      /\ MASK \in Nat /\ wait_readers = n /\ count = 1 - (MASK + 1) * (1 + n + m)
      /\ SchedOK /\ write_wait \in Seq(Tasks) /\ read_wait \in Seq(Tasks) /\ NoDup(read_wait)
  BY <1>4, MaskAssumption DEF IInv, TypeOK, TwoDigits, Waiting, Queued
<1> HIDE DEF n, m
<1>6. c = 0 - (MASK + 1) * (n + m)
  BY <1>5 DEF WRITE_BIAS, WAIT_BIAS, ACTIVE_BIAS
<1> HIDE DEF c
<1>7. c < 0 <=> write_wait # <<>> \/ read_wait # <<>>
  <2>1. 0 \in 0 .. MASK /\ n + m \in Nat BY <1>5
  <2>2. c \in Int /\ (c >= 0 <=> n + m = 0) BY <1>6, <2>1, Digits
  <2>. QED BY <1>5, <2>2
<1>8. CASE write_wait # <<>>
  <2> DEFINE W == {Head(write_wait)}
  <2>1. W \in SUBSET Tasks /\ InList(write_wait, Head(write_wait)) /\ Head(write_wait) \in W
    BY <1>5, <1>8, HeadInList
  <2>2. __ldsem_wake(c, read_wait, wait_readers) = [Nobody(c, read_wait, wait_readers) EXCEPT !.wake = W]
    BY <1>8 DEF __ldsem_wake
  <2> HIDE DEF W
  <2>3. Apply([count |-> c, readers |-> read_wait, n |-> wait_readers, wake |-> W])
    BY <1>1, <1>7, <1>8, <2>2 DEF Nobody
  <2>4. /\ count' = c /\ UNCHANGED <<read_wait, wait_readers>>
        /\ SchedOK' /\ \A p \in W : tstate'[p] = "RUNNING"
    BY <1>5, <2>1, <2>3, Applied
  <2>5. \E u \in Tasks : InList(write_wait', u) /\ tstate'[u] = "RUNNING" BY <1>1, <2>1, <2>4
  <2>6. count' = count - WRITE_BIAS BY <2>4 DEF c
  <2>7. IInv' /\ Readers' = Readers \ {t} /\ Writers' = Writers \ {t}
    BY <1>1, <1>8, <2>4, <2>5, <2>6, Leaves
  <2>. QED BY <1>2, <1>3, <2>7
<1>9. CASE write_wait = <<>> /\ read_wait = <<>>
  <2> DEFINE W == {}
  <2>1. W \in SUBSET Tasks OBVIOUS
  <2>2. Apply([count |-> c, readers |-> read_wait, n |-> wait_readers, wake |-> W])
    BY <1>1, <1>7, <1>9 DEF Nobody
  <2> HIDE DEF W
  <2>3. count' = c /\ UNCHANGED <<read_wait, wait_readers>> /\ SchedOK'
    BY <1>5, <2>1, <2>2, Applied
  <2>4. count' = count - WRITE_BIAS BY <2>3 DEF c
  <2>5. IInv' /\ Readers' = Readers \ {t} /\ Writers' = Writers \ {t}
    BY <1>1, <1>9, <2>3, <2>4, Leaves
  <2>. QED BY <1>2, <1>3, <2>5
<1>10. CASE write_wait = <<>> /\ read_wait # <<>>
  <2>1. n \in 1 .. MASK /\ 0 + n \in 1 .. MASK
    <3>1. IsFiniteSet(ToSet(read_wait)) /\ Cardinality(ToSet(read_wait)) = n /\ ToSet(read_wait) \subseteq Tasks
      BY <1>5, ListCardinality DEF n
    <3>2. n <= Cardinality(Tasks) /\ Cardinality(Tasks) \in Nat
      BY <3>1, MaskAssumption, FS_Subset, FS_CardinalityType
    <3>. QED BY <1>5, <1>10, <3>2, MaskAssumption
  <2>2. c = 0 - (MASK + 1) * (0 + n) BY <1>5, <1>6, <1>10
  <2> DEFINE W == ToSet(read_wait)
  <2>3. __ldsem_wake_readers(c, read_wait, n) = [count |-> 0 + n, readers |-> <<>>, n |-> 0, wake |-> W]
    <3> DEFINE z == 0
    <3>1. z \in Nat /\ z + n \in 1 .. MASK /\ c = z - (MASK + 1) * (z + n) /\ z = 0 BY <2>1, <2>2
    <3> HIDE DEF z
    <3>2. __ldsem_wake_readers(c, read_wait, n) =
            IF z = 0 THEN [count |-> z + n, readers |-> <<>>, n |-> 0, wake |-> ToSet(read_wait)]
            ELSE Nobody(c, read_wait, n)
      <4>1. n \in Nat BY <1>5
      <4>. QED BY <3>1, <4>1, WakeReaders, Zenon
    <3>. QED BY <3>1, <3>2
  <2>4. W \in SUBSET Tasks BY <1>5, ListCardinality
  <2> HIDE DEF W
  <2>5. Apply([count |-> 0 + n, readers |-> <<>>, n |-> 0, wake |-> W])
    <3>1. __ldsem_wake(c, read_wait, wait_readers) = __ldsem_wake_readers(c, read_wait, n)
      BY <1>5, <1>10 DEF __ldsem_wake
    <3>. QED BY <1>1, <1>7, <1>10, <2>3, <3>1
  <2>6. count' = 0 + n /\ read_wait' = <<>> /\ wait_readers' = 0 /\ SchedOK'
    BY <1>5, <2>4, <2>5, Applied
  <2>7. count' = Cardinality(Holders \ {t}) + Len(read_wait) BY <1>4, <2>6 DEF n
  <2>8. \A u \in Tasks \ {t} : ~InList(write_wait, u) BY <1>10 DEF InList
  <2>9. Writers \subseteq {t} /\ write_wait' = <<>> /\ pc[t] \in {"write", "w_slept"} BY <1>1, <1>3, <1>10
  <2>10. IInv' /\ Readers' = Readers /\ Writers' = {} BY <1>1, <2>6, <2>7, <2>8, <2>9, AllAdmitted
  <2>. QED BY <1>3, <2>10
<1>. QED BY <1>8, <1>9, <1>10

\* Those that are active and the readers that wait are different tasks: count
\* has room for all of them.
LEMMA Room ==
  ASSUME IInv
  PROVE  Cardinality(Holders) + Len(read_wait) \in 0 .. MASK
<1>0. read_wait \in Seq(Tasks) /\ NoDup(read_wait) BY DEF IInv, TypeOK, Queued
<1> DEFINE R == ToSet(read_wait)
<1>1. IsFiniteSet(R) /\ Cardinality(R) = Len(read_wait) /\ R \subseteq Tasks
      /\ \A x : x \in R <=> InList(read_wait, x)
  BY <1>0, ListCardinality
<1>2. Holders \subseteq Tasks /\ IsFiniteSet(Holders) BY Sizes
<1>3. Holders \cap R = {} BY <1>1, <1>2 DEF IInv, Queued, Holders, Granted, In, Reading
<1> HIDE DEF R
<1>4. Cardinality(Holders \cup R) = Cardinality(Holders) + Cardinality(R) - Cardinality({})
  BY <1>1, <1>2, <1>3, FS_Union
<1>5. Cardinality(Holders \cup R) <= Cardinality(Tasks)
  <2>1. Holders \cup R \subseteq Tasks BY <1>1, <1>2
  <2>. QED BY <2>1, MaskAssumption, FS_Subset
<1>6. Cardinality(Holders) \in Nat /\ Cardinality(R) \in Nat /\ Cardinality(Tasks) \in Nat /\ Cardinality({}) = 0
  BY <1>1, <1>2, MaskAssumption, FS_CardinalityType, FS_EmptySet
<1>. QED BY <1>1, <1>4, <1>5, <1>6, MaskAssumption

\* A writer gives up while somebody is active: if it was the last in line
\* the readers behind it join readers that are active.
LEMMA WriteTimedOut ==
  ASSUME IInv, NEW t \in Tasks, write_timeout(t)
  PROVE  IInv' /\ Readers' = Readers /\ Writers' = Writers
<1> DEFINE c == count - WAIT_BIAS
           a == Cardinality(Holders)
           n == Len(read_wait)
           w == Cardinality(Writers)
<1>1. /\ pc[t] = "w_slept" /\ pc' = [pc EXCEPT ![t] = "out"] /\ write_wait' = list_del(write_wait, t)
      /\ Active(count + 1) # 1
      /\ Apply(IF write_wait' = <<>> THEN __ldsem_wake_readers(c, read_wait, wait_readers)
               ELSE Nobody(c, read_wait, wait_readers))
  BY DEF write_timeout, WriteLoop, writer_trylock, leave, ACTIVE_BIAS
<1>2. t \notin Holders /\ t \notin Readers /\ t \notin Writers BY <1>1 DEF Holders, Granted, Readers, Writers, In
<1>3. /\ write_wait \in Seq(Tasks) /\ NoDup(write_wait) /\ SchedOK /\ wait_readers = n
      /\ count = a - (MASK + 1) * Waiting /\ Waiting = w + n + Len(write_wait)
      /\ read_wait \in Seq(Tasks) /\ NoDup(read_wait)
  BY DEF IInv, TypeOK, Queued, TwoDigits, Waiting
<1>4. /\ a \in 0 .. MASK - 1 /\ a \in Nat /\ n \in Nat /\ w \in Nat /\ Len(write_wait) \in Nat
      /\ Waiting \in Nat /\ MASK \in Nat
  BY Sizes, MaskAssumption
<1>5. InList(write_wait, t) BY <1>1 DEF IInv, Queued, WriteWaiting
<1>6. /\ write_wait' \in Seq(Tasks) /\ Len(write_wait') = Len(write_wait) - 1
      /\ \A x : InList(write_wait', x) <=> InList(write_wait, x) /\ x # t
  BY <1>1, <1>3, <1>5, ListDel, Lengths
<1>7. Holders # {} /\ a # 0
  <2>1. a # 0 <=> Holders # {} BY Sizes
  <2> DEFINE b == a + 1
  <2> HIDE DEF a
  <2>2. count + 1 = b - (MASK + 1) * Waiting /\ b \in 0 .. MASK BY <1>3, <1>4
  <2> HIDE DEF b
  <2>3. Active(count + 1) = b BY <1>4, <2>2, Digits
  <2>. QED BY <1>1, <1>4, <2>1, <2>3 DEF b
<1>8. Holders \ {t} = Holders /\ Writers \ {t} = Writers /\ Readers \ {t} = Readers BY <1>2
<1>9. CASE write_wait' # <<>> \/ Writers # {}
  <2> DEFINE W == {}
  <2>1. W \in SUBSET Tasks OBVIOUS
  <2>2. Apply(Nobody(c, read_wait, wait_readers))
    <3>1. CASE write_wait' # <<>> BY <1>1, <3>1
    <3>2. CASE write_wait' = <<>>
      <4>1. w = 1 BY <1>9, <3>2, Sizes
      <4>2. Len(write_wait) = 1 BY <1>4, <1>6, <3>2
      <4>3. a + n \in 1 .. MASK BY <1>4, <1>7, Room
      <4> HIDE DEF a, n, w
      <4>4. c = a - (MASK + 1) * (w + n) BY <1>3, <1>4, <4>2 DEF WAIT_BIAS
      <4> HIDE DEF c
      <4>5. __ldsem_wake_readers(c, read_wait, n) =
              IF w = 0 THEN [count |-> a + n, readers |-> <<>>, n |-> 0, wake |-> ToSet(read_wait)]
              ELSE Nobody(c, read_wait, n)
        <5>1. a \in Nat /\ n \in Nat /\ w \in Nat BY <1>4
        <5>. QED BY <4>3, <4>4, <5>1, WakeReaders
      <4>6. __ldsem_wake_readers(c, read_wait, wait_readers) = Nobody(c, read_wait, wait_readers)
        BY <1>3, <4>1, <4>5
      <4>. QED BY <1>1, <3>2, <4>6
    <3>. QED BY <3>1, <3>2
  <2>3. Apply([count |-> c, readers |-> read_wait, n |-> wait_readers, wake |-> W]) BY <2>2 DEF Nobody
  <2> HIDE DEF W
  <2>4. count' = c /\ UNCHANGED <<read_wait, wait_readers>> /\ SchedOK'
    BY <1>3, <2>1, <2>3, Applied
  <2>5. read_wait # <<>> /\ write_wait' = <<>> => Writers \ {t} # {} BY <1>8, <1>9
  <2>6. Holders \ {t} # {} BY <1>7, <1>8
  <2>7. IInv' /\ Readers' = Readers \ {t} /\ Writers' = Writers \ {t}
    BY <1>1, <2>4, <2>5, <2>6, Leaves
  <2>. QED BY <1>8, <2>7
<1>10. CASE write_wait' = <<>> /\ Writers = {}
  <2> DEFINE W == ToSet(read_wait)
  <2>1. w = 0 BY <1>10, Sizes
  <2>2. Len(write_wait) = 1 BY <1>4, <1>6, <1>10
  <2>3. a + n \in 1 .. MASK BY <1>4, <1>7, Room
  <2>4. W \in SUBSET Tasks BY <1>3, ListCardinality
  <2>5. Apply([count |-> a + n, readers |-> <<>>, n |-> 0, wake |-> W])
    <3> HIDE DEF a, n, w
    <3>1. c = a - (MASK + 1) * (w + n) BY <1>3, <1>4, <2>2 DEF WAIT_BIAS
    <3> HIDE DEF c
    <3>2. __ldsem_wake_readers(c, read_wait, n) =
            IF w = 0 THEN [count |-> a + n, readers |-> <<>>, n |-> 0, wake |-> W]
            ELSE Nobody(c, read_wait, n)
      <4>1. a \in Nat /\ n \in Nat /\ w \in Nat BY <1>4
      <4>. QED BY <2>3, <3>1, <4>1, WakeReaders
    <3>3. __ldsem_wake_readers(c, read_wait, wait_readers) =
            [count |-> a + n, readers |-> <<>>, n |-> 0, wake |-> W]
      BY <1>3, <2>1, <3>2
    <3>. QED BY <1>1, <1>10, <3>3
  <2> HIDE DEF W
  <2>6. count' = a + n /\ read_wait' = <<>> /\ wait_readers' = 0 /\ SchedOK'
    BY <1>3, <2>4, <2>5, Applied
  <2>7. count' = Cardinality(Holders \ {t}) + Len(read_wait) BY <1>8, <2>6
  <2>8. \A u \in Tasks \ {t} : ~InList(write_wait, u)
    <3>1. \A x : ~InList(write_wait', x) BY <1>10 DEF InList
    <3>. QED BY <1>6, <3>1
  <2>9. IInv' /\ Readers' = Readers /\ Writers' = {} BY <1>1, <1>10, <2>6, <2>7, <2>8, AllAdmitted
  <2>. QED BY <1>10, <2>9
<1>. QED BY <1>9, <1>10

----------------------------------------------------------------------------
(* The theorems *)

\* count is 0, nobody holds the lock and nobody waits.
LEMMA Initially == Init => IInv
<1> SUFFICES ASSUME Init PROVE IInv
  OBVIOUS
<1>1. SchedOK BY SchedStarts DEF Init
<1>2. TypeOK BY DEF Init, TypeOK, Location
<1>3. \A x : ~InList(read_wait, x) /\ ~InList(write_wait, x) BY DEF Init, InList
<1>4. Queued BY <1>3 DEF Init, Queued, NoDup, WriteWaiting
<1>5. Holders = {} /\ Writers = {} BY DEF Init, Holders, Writers, Granted, In
<1>6. TwoDigits
  <2>1. Waiting = 0 BY <1>5, FS_EmptySet DEF Init, Waiting
  <2>. QED BY <1>5, <2>1, FS_EmptySet, MaskAssumption DEF Init, TwoDigits
<1>7. Alone /\ WriterTold /\ BehindWriter BY <1>5 DEF Init, Alone, WriterTold, BehindWriter
<1>. QED BY <1>1, <1>2, <1>4, <1>6, <1>7 DEF IInv

\* Every step keeps the invariant, and is to its users a step of the lock.
LEMMA Inductive ==
  ASSUME IInv, [Next]_vars
  PROVE  IInv' /\ [Abstract!Next]_<<Readers, Writers>>
<1> USE DEF Abstract!Next, Abstract!AcquireRead, Abstract!AcquireWrite, Abstract!ReleaseRead,
            Abstract!ReleaseWrite, Readers, Writers
<1>1. CASE \/ \E t \in Tasks : schedule(t) \/ process_timeout(t) \/ resched(t) \/ irq_wakes(t)
           \/ do_timer \/ tick \/ UNCHANGED vars
  BY <1>1, EnvironmentInv
<1>2. ASSUME NEW t \in Tasks, ReadStep(t) PROVE IInv' /\ [Abstract!Next]_<<Readers, Writers>>
  <2>1. CASE down_read_fast(t) \/ ldsem_down_read_trylock(t) BY <2>1, ReadTaken
  <2>2. CASE \E timeout \in Timeouts \cup {MAX} : down_read_failed(t, timeout) BY <2>2, ReadQueued
  <2>3. CASE ldsem_up_read(t) BY <2>3, ReadReleased
  <2>. QED BY <1>2, <2>1, <2>2, <2>3 DEF ReadStep
<1>3. ASSUME NEW t \in Tasks, WriteStep(t) PROVE IInv' /\ [Abstract!Next]_<<Readers, Writers>>
  <2>1. CASE down_write_fast(t) \/ ldsem_down_write_trylock(t) BY <2>1, WriteTaken
  <2>2. CASE \E timeout \in Timeouts \cup {MAX} : down_write_failed(t, timeout) BY <2>2, WriteQueued
  <2>3. CASE ldsem_up_write(t) BY <2>3, WriteReleased
  <2>. QED BY <1>3, <2>1, <2>2, <2>3 DEF WriteStep
<1>4. ASSUME NEW t \in Tasks, Return(t) PROVE IInv' /\ [Abstract!Next]_<<Readers, Writers>>
  <2>1. CASE read_granted(t) BY <2>1, ReadGranted
  <2>2. CASE read_timeout(t) BY <2>2, ReadTimedOut
  <2>3. CASE write_granted(t) BY <2>3, WriteGranted
  <2>4. CASE write_timeout(t) BY <2>4, WriteTimedOut
  <2>5. CASE read_again(t) \/ write_again(t) BY <2>5, AgainInv
  <2>. QED BY <1>4, <2>1, <2>2, <2>3, <2>4, <2>5 DEF Return
<1>. QED BY <1>1, <1>2, <1>3, <1>4 DEF Next

\* The two digits of count, the two lists and the run queue agree in every
\* state of the semaphore.
THEOREM Invariance == Spec => []IInv
BY Initially, Inductive, PTL DEF Spec

\* count is the sum of what the holders and the waiters have added to it, on
\* every path: timeouts, failed attempts, wake-ups that let readers in.
THEOREM CountIsExact == Spec => []CountExact
<1>1. IInv => CountExact
  <2> SUFFICES ASSUME IInv PROVE CountExact
    OBVIOUS
  <2> DEFINE R == In({"read"}) \cup Granted
  <2>1. Holders = R \cup Writers /\ R \cap Writers = {}
    BY DEF Holders, Writers, Granted, In
  <2>2. IsFiniteSet(Holders) /\ IsFiniteSet(Writers) BY Sizes
  <2>3. IsFiniteSet(R) BY <2>1, <2>2, FS_Subset
  <2> HIDE DEF R
  <2>4. Cardinality(Holders) = Cardinality(R) + Cardinality(Writers) - Cardinality({})
    BY <2>1, <2>2, <2>3, FS_Union
  <2> DEFINE r == Cardinality(R)
             w == Cardinality(Writers)
             l == Len(read_wait) + Len(write_wait)
  <2>5. r \in Nat /\ w \in Nat /\ l \in Nat /\ MASK \in Nat /\ Cardinality({}) = 0
    BY <2>2, <2>3, FS_CardinalityType, FS_EmptySet, MaskAssumption, Sizes
  <2>6. count = (r + w) - (MASK + 1) * (w + l) /\ wait_readers = Len(read_wait)
    <3>1. Waiting = w + l BY <2>5, Sizes DEF Waiting
    <3>2. Cardinality(Holders) = r + w BY <2>4, <2>5
    <3>. QED BY <3>1, <3>2 DEF IInv, TwoDigits
  <2> HIDE DEF r, w, l
  <2>7. count = ACTIVE_BIAS * r + WRITE_BIAS * w + WAIT_BIAS * l
    BY <2>5, <2>6 DEF ACTIVE_BIAS, WRITE_BIAS, WAIT_BIAS
  <2>. QED BY <2>6, <2>7 DEF CountExact, r, w, l, R, Writers
<1>. QED BY <1>1, Invariance, PTL

\* While nobody is active a queued writer is on the run queue, and readers
\* wait only behind a writer: whoever waits has somebody to wait for.
THEOREM NobodyForgotten == Spec => []NoLostWakeup
<1>1. IInv => NoLostWakeup
  <2> SUFFICES ASSUME IInv PROVE NoLostWakeup
    OBVIOUS
  <2>1. Active(count) = 0 <=> Holders = {} BY CountRead
  <2>2. write_wait # <<>> /\ Active(count) = 0 => \E t \in on_rq : InList(write_wait, t)
    BY <2>1 DEF IInv, WriterTold, SchedOK
  <2>3. read_wait # <<>> /\ write_wait = <<>> => In({"write"}) # {}
    BY DEF IInv, BehindWriter, Writers
  <2>. QED BY <2>2, <2>3 DEF NoLostWakeup
<1>. QED BY <1>1, Invariance, PTL

\* To its users the semaphore is a reader/writer lock, whatever times out.
THEOREM Refinement == Spec => ImplementsLock
<1>1. Init => Abstract!Init BY DEF Init, Abstract!Init, In
<1>2. ASSUME IInv, [Next]_vars PROVE [Abstract!Next]_<<In({"read"}), In({"write"})>>
  BY <1>2, Inductive DEF Readers, Writers
<1>. QED BY <1>1, <1>2, Invariance, PTL DEF Spec, ImplementsLock, Abstract!Spec

=============================================================================
