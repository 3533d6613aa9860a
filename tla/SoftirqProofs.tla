--------------------------- MODULE SoftirqProofs ---------------------------
(***************************************************************************)
(* Proofs about the two softirqs that this kernel has.                     *)
(*                                                                         *)
(* RcuTiny, for any callbacks and any number of restarts: the grace        *)
(* period, the order of the callbacks, and that the softirq finds work     *)
(* whenever it runs.                                                       *)
(*                                                                         *)
(* Timer, for any clock width, any number and size of levels and any       *)
(* timeouts that WheelAssumption allows: next_expiry is never late, every  *)
(* timer is in the right bucket, the warnings never fire and no callback   *)
(* is early.  The proofs about powers of two, remainders and the wrapping  *)
(* clock come first.                                                       *)
(***************************************************************************)
EXTENDS RcuTiny, Timer, SequenceTheorems, FiniteSetTheorems, TLAPS

----------------------------------------------------------------------------
(* Tiny RCU: the inductive invariant *)

\* The two lists together are the callbacks in the order of call_rcu(), and
\* no rcu_head is on them twice.
InOrder == list \o rcucblist = order /\ NoDup(order)

\* What is before donetail, or taken off, was queued before the reader began;
\* the reader is never in user mode, where a tick is a quiescent state.
Protected ==
  /\ \A i \in DOMAIN list : list[i] \notin guarded
  /\ \A i \in 1 .. done : rcucblist[i] \notin guarded
  /\ rd => mode # "user"
  /\ ~rd => guarded = {}

\* RCU_SOFTIRQ is raised by a quiescent state only, never while a softirq is
\* served, and stays raised until the callbacks that are done are taken off.
Raised ==
  /\ RCU_SOFTIRQ \in pending => ~Serving /\ done > 0
  /\ RCU_SOFTIRQ \in todo /\ list = <<>> => done > 0
  /\ list # <<>> => RCU_SOFTIRQ \in todo
  /\ todo # {} => Serving

IInv == TypeOK /\ InOrder /\ Protected /\ Raised

----------------------------------------------------------------------------
(* Lists *)

\* To unlink the first entry of a list without duplicates is to take its tail.
LEMMA DelFirst ==
  ASSUME NEW S, NEW s \in Seq(S), s # <<>>, NoDup(s)
  PROVE  list_del(s, Head(s)) = Tail(s)
<1>1. Len(s) \in Nat \ {0} /\ DOMAIN s = 1 .. Len(s) /\ Head(s) = s[1] /\ 1 \in DOMAIN s OBVIOUS
<1>2. (CHOOSE j \in DOMAIN s : s[j] = Head(s)) = 1 BY <1>1 DEF NoDup
<1>3. list_del(s, Head(s)) = SubSeq(s, 1, 0) \o SubSeq(s, 2, Len(s))
  <2>1. list_del(s, Head(s)) = RemoveAt(s, 1) BY <1>2 DEF list_del
  <2>2. RemoveAt(s, 1) = SubSeq(s, 1, 1 - 1) \o SubSeq(s, 1 + 1, Len(s)) BY DEF RemoveAt
  <2>3. 1 - 1 = 0 /\ 1 + 1 = 2 OBVIOUS
  <2>. QED BY <2>1, <2>2, <2>3
<1>4. SubSeq(s, 1, 0) = <<>> BY SubSeqEmpty
<1>5. SubSeq(s, 2, Len(s)) = Tail(s) BY TailIsSubSeq
<1>6. Tail(s) \in Seq(S) BY HeadTailProperties
<1>. QED BY <1>3, <1>4, <1>5, <1>6, ConcatEmptySeq

\* The tail of a list without duplicates has none.
LEMMA TailNoDup ==
  ASSUME NEW S, NEW s \in Seq(S), s # <<>>, NoDup(s)
  PROVE  NoDup(Tail(s))
<1>1. /\ Tail(s) \in Seq(S) /\ Len(Tail(s)) = Len(s) - 1 /\ DOMAIN Tail(s) = 1 .. Len(s) - 1
      /\ \A i \in 1 .. Len(s) - 1 : Tail(s)[i] = s[i + 1]
  BY HeadTailProperties
<1>2. DOMAIN s = 1 .. Len(s) /\ Len(s) \in Nat OBVIOUS
<1>. QED BY <1>1, <1>2 DEF NoDup

\* The entries of two lists one after the other are those of the lists.
LEMMA ConcatEntries ==
  ASSUME NEW S, NEW s \in Seq(S), NEW t \in Seq(S), NEW e, InList(s \o t, e)
  PROVE  InList(s, e) \/ InList(t, e)
<1>1. /\ s \o t \in Seq(S) /\ Len(s \o t) = Len(s) + Len(t)
      /\ \A i \in 1 .. Len(s) + Len(t) : (s \o t)[i] = IF i <= Len(s) THEN s[i] ELSE t[i - Len(s)]
  BY ConcatProperties
<1>2. /\ Len(s) \in Nat /\ Len(t) \in Nat /\ DOMAIN s = 1 .. Len(s) /\ DOMAIN t = 1 .. Len(t)
      /\ DOMAIN (s \o t) = 1 .. Len(s) + Len(t)
  BY <1>1
<1>3. PICK i \in 1 .. Len(s) + Len(t) : (s \o t)[i] = e BY <1>2 DEF InList
<1>4. CASE i <= Len(s) BY <1>1, <1>2, <1>3, <1>4 DEF InList
<1>5. CASE i > Len(s)
  <2>1. i - Len(s) \in DOMAIN t /\ t[i - Len(s)] = e BY <1>1, <1>2, <1>3, <1>5
  <2>. QED BY <2>1 DEF InList
<1>. QED BY <1>2, <1>4, <1>5

\* To append to the second is to append to both.
LEMMA ConcatAppend ==
  ASSUME NEW S, NEW s \in Seq(S), NEW t \in Seq(S), NEW e \in S
  PROVE  s \o Append(t, e) = Append(s \o t, e)
<1>1. <<e>> \in Seq(S) /\ s \o t \in Seq(S) BY ConcatProperties
<1>2. Append(t, e) = t \o <<e>> /\ Append(s \o t, e) = (s \o t) \o <<e>> BY <1>1, AppendIsConcat
<1>. QED BY <1>1, <1>2, ConcatAssociative

\* The head of the first is the head of both.
LEMMA ConcatHead ==
  ASSUME NEW S, NEW s \in Seq(S), NEW t \in Seq(S), s # <<>>, NEW r, r = s \o t
  PROVE  r # <<>> /\ Head(r) = Head(s) /\ Tail(r) = Tail(s) \o t
<1>1. /\ r \in Seq(S) /\ Len(r) = Len(s) + Len(t)
      /\ \A i \in 1 .. Len(s) + Len(t) : r[i] = IF i <= Len(s) THEN s[i] ELSE t[i - Len(s)]
  BY ConcatProperties
<1>2. Len(s) \in Nat \ {0} /\ Len(t) \in Nat OBVIOUS
<1>3. r # <<>> /\ Head(s) = s[1] /\ Head(r) = r[1] BY <1>1, <1>2
<1>4. Head(r) = Head(s) BY <1>1, <1>2, <1>3
<1>5. /\ Tail(r) \in Seq(S) /\ Len(Tail(r)) = Len(s) + Len(t) - 1
      /\ \A i \in 1 .. Len(s) + Len(t) - 1 : Tail(r)[i] = r[i + 1]
  BY <1>1, <1>3, HeadTailProperties
<1>6. /\ Tail(s) \in Seq(S) /\ Len(Tail(s)) = Len(s) - 1
      /\ \A i \in 1 .. Len(s) - 1 : Tail(s)[i] = s[i + 1]
  BY HeadTailProperties
<1>7. /\ Tail(s) \o t \in Seq(S) /\ Len(Tail(s) \o t) = Len(s) - 1 + Len(t)
      /\ \A i \in 1 .. Len(s) - 1 + Len(t) :
           (Tail(s) \o t)[i] = IF i <= Len(s) - 1 THEN Tail(s)[i] ELSE t[i - (Len(s) - 1)]
  BY <1>6, ConcatProperties
<1>8. ASSUME NEW i \in 1 .. Len(s) + Len(t) - 1 PROVE Tail(r)[i] = (Tail(s) \o t)[i]
  <2>1. CASE i <= Len(s) - 1 BY <2>1, <1>1, <1>2, <1>5, <1>6, <1>7
  <2>2. CASE i > Len(s) - 1
    <3>1. (i + 1) - Len(s) = i - (Len(s) - 1) /\ ~(i + 1 <= Len(s)) /\ i + 1 \in 1 .. Len(s) + Len(t)
      BY <2>2, <1>2
    <3>. QED BY <2>2, <3>1, <1>1, <1>2, <1>5, <1>7
  <2>. QED BY <1>2, <2>1, <2>2
<1>9. Tail(r) = Tail(s) \o t BY <1>2, <1>5, <1>7, <1>8, SeqEqual
<1>. QED BY <1>3, <1>4, <1>9

\* A list grows at its tail by an entry that is not on it.
LEMMA Grown ==
  ASSUME NEW S, NEW s \in Seq(S), NEW e \in S, ~InList(s, e), NoDup(s)
  PROVE  NoDup(Append(s, e))
<1>1. /\ Append(s, e) \in Seq(S) /\ DOMAIN s = 1 .. Len(s) /\ Len(s) \in Nat
      /\ DOMAIN Append(s, e) = 1 .. Len(s) + 1
      /\ Append(s, e)[Len(s) + 1] = e /\ \A k \in 1 .. Len(s) : Append(s, e)[k] = s[k]
  BY AppendProperties
<1>. QED BY <1>1 DEF NoDup, InList

----------------------------------------------------------------------------
(* The operations *)

\* call_rcu() appends behind donetail a callback that is on no list.
LEMMA CallRcu ==
  ASSUME IInv, NEW c \in Cbs, call_rcu(c), rd' = rd, mode' = mode
  PROVE  /\ rcucblist' \in Seq(Cbs) /\ list' = list /\ order' \in Seq(Cbs)
         /\ done' = done /\ done \in 0 .. Len(rcucblist') /\ guarded' \subseteq Cbs
         /\ InOrder' /\ Protected'
<1>1. /\ c \in Free /\ rcucblist' = Append(rcucblist, c) /\ order' = Append(order, c)
      /\ done' = done /\ list' = list /\ guarded' = IF rd THEN guarded \cup {c} ELSE guarded
  BY DEF call_rcu, Enqueue
<1>2. /\ rcucblist \in Seq(Cbs) /\ list \in Seq(Cbs) /\ order \in Seq(Cbs)
      /\ done \in 0 .. Len(rcucblist) /\ guarded \subseteq Cbs
      /\ list \o rcucblist = order /\ NoDup(order)
  BY DEF IInv, TypeOK, InOrder
<1>3. ~InList(list, c) /\ ~InList(rcucblist, c) BY <1>1 DEF Free, ToSet, InList
<1>4. /\ rcucblist' \in Seq(Cbs) /\ Len(rcucblist') = Len(rcucblist) + 1
      /\ \A i \in 1 .. Len(rcucblist) : rcucblist'[i] = rcucblist[i]
      /\ order' \in Seq(Cbs)
  BY <1>1, <1>2, AppendProperties
<1>5. done \in 0 .. Len(rcucblist') BY <1>2, <1>4
<1>6. InOrder'
  <2>1. ~InList(order, c) BY <1>2, <1>3, ConcatEntries
  <2>2. NoDup(order') BY <1>1, <1>2, <2>1, Grown
  <2>3. list \o Append(rcucblist, c) = Append(list \o rcucblist, c) BY <1>2, ConcatAppend
  <2>. QED BY <1>1, <1>2, <2>2, <2>3 DEF InOrder
<1>7. Protected'
  <2>1. Protected BY DEF IInv
  <2>2. \A i \in DOMAIN list : list[i] # c BY <1>3 DEF InList
  <2>3. \A i \in 1 .. done : rcucblist'[i] = rcucblist[i] /\ rcucblist[i] # c
    <3>1. \A i \in 1 .. done : i \in 1 .. Len(rcucblist) /\ i \in DOMAIN rcucblist BY <1>2
    <3>. QED BY <1>3, <1>4, <3>1 DEF InList
  <2>. QED BY <1>1, <2>1, <2>2, <2>3 DEF Protected
<1>. QED BY <1>1, <1>2, <1>4, <1>5, <1>6, <1>7

\* An interrupt that leaves the bits P pending, RCU_SOFTIRQ among them only if
\* there is something for it to do.
LEMMA IrqExit ==
  ASSUME IInv, NEW P \in SUBSET Softirqs, irq_exit(P), list' = list, done' \in Nat, done' >= done,
         RCU_SOFTIRQ \in P => ~Serving /\ done' > 0, need_resched' \in BOOLEAN, bh' = bh
  PROVE  SoftirqTypeOK' /\ Raised'
<1>1. /\ SoftirqTypeOK /\ Raised /\ done \in Nat BY DEF IInv, TypeOK
<1>2. CASE ~in_interrupt /\ P # {}
  <2>1. todo' = P /\ pending' = {} /\ max_restart' = MAX_SOFTIRQ_RESTART
    BY <1>2 DEF irq_exit, do_softirq
  <2>2. list = <<>> BY <1>1, <1>2 DEF Raised, in_interrupt
  <2>3. SoftirqTypeOK' BY <1>1, <2>1, RestartAssumption DEF SoftirqTypeOK
  <2>4. Raised' BY <2>1, <2>2, RestartAssumption DEF Raised, Serving
  <2>. QED BY <2>3, <2>4
<1>3. CASE ~(~in_interrupt /\ P # {})
  <2>1. pending' = P /\ todo' = todo /\ max_restart' = max_restart BY <1>3 DEF irq_exit
  <2>2. SoftirqTypeOK' BY <1>1, <2>1 DEF SoftirqTypeOK
  <2>3. Raised' BY <1>1, <2>1 DEF Raised, Serving
  <2>. QED BY <2>2, <2>3
<1>. QED BY <1>2, <1>3

\* call_rcu(), by a task or an interrupt, appends behind donetail.
LEMMA CallSteps ==
  ASSUME IInv, NEW c \in Cbs, task_call_rcu(c) \/ irq_call_rcu(c)
  PROVE  IInv'
<1>1. call_rcu(c) /\ rd' = rd /\ mode' = mode /\ bh' = bh /\ need_resched' \in BOOLEAN
  BY DEF task_call_rcu, irq_call_rcu, IdleResched, IInv, TypeOK, SoftirqTypeOK
<1>2. /\ rcucblist' \in Seq(Cbs) /\ list' = list /\ order' \in Seq(Cbs)
      /\ done' = done /\ done \in 0 .. Len(rcucblist') /\ guarded' \subseteq Cbs
      /\ InOrder' /\ Protected'
  BY <1>1, CallRcu
<1>3. SoftirqTypeOK' /\ Raised'
  <2>1. CASE task_call_rcu(c)
    BY <1>1, <1>2, <2>1 DEF task_call_rcu, IInv, TypeOK, SoftirqTypeOK, Raised, Serving
  <2>2. CASE irq_call_rcu(c)
    <3>1. irq_exit(pending) BY <2>2 DEF irq_call_rcu
    <3>2. /\ pending \in SUBSET Softirqs /\ done' \in Nat /\ done' >= done
          /\ RCU_SOFTIRQ \in pending => ~Serving /\ done' > 0
      BY <1>2 DEF IInv, TypeOK, SoftirqTypeOK, Raised
    <3>. QED BY <1>1, <1>2, <3>1, <3>2, IrqExit
  <2>. QED BY <2>1, <2>2
<1>. QED BY <1>1, <1>2, <1>3 DEF IInv, TypeOK

\* Where no reader is, all that is queued may be done.
LEMMA Quiescent ==
  ASSUME IInv, ~rd, done' \in {done, Len(rcucblist)},
         UNCHANGED <<rcucblist, list, order, rd, guarded>>
  PROVE  InOrder' /\ Protected' /\ done' \in 0 .. Len(rcucblist') /\ done' >= done
<1>1. guarded = {} /\ done \in 0 .. Len(rcucblist) /\ Len(rcucblist) \in Nat BY DEF IInv, Protected, TypeOK
<1>. QED BY <1>1 DEF IInv, InOrder, Protected

\* A tick moves donetail only where no reader can be.
LEMMA TickStep == ASSUME IInv, tick PROVE IInv'
<1>1. /\ done' = TickDone /\ UNCHANGED <<bh, rcucblist, list, order, mode, rd, guarded>>
      /\ need_resched' \in {TickResched, TRUE}
  BY DEF tick
<1>2. PICK R \in SUBSET {TIMER_SOFTIRQ} : irq_exit(TickPending \cup R) BY DEF tick
<1>3. need_resched' \in BOOLEAN BY <1>1 DEF TickResched, IInv, TypeOK, SoftirqTypeOK
<1>4. done \in 0 .. Len(rcucblist) /\ Len(rcucblist) \in Nat BY DEF IInv, TypeOK
<1>5. InOrder' /\ Protected' /\ done' \in 0 .. Len(rcucblist') /\ done' >= done
  <2>1. CASE TickQs
    <3>1. ~rd BY <2>1 DEF TickQs, IInv, Protected
    <3>. QED BY <1>1, <2>1, <3>1, Quiescent DEF TickDone
  <2>2. CASE ~TickQs BY <1>1, <1>4, <2>2 DEF TickDone, IInv, InOrder, Protected
  <2>. QED BY <2>1, <2>2
<1>6. /\ TickPending \cup R \in SUBSET Softirqs
      /\ RCU_SOFTIRQ \in TickPending \cup R => ~Serving /\ done' > 0
  <2>1. RCU_SOFTIRQ \notin R BY DEF RCU_SOFTIRQ, TIMER_SOFTIRQ
  <2>2. RCU_SOFTIRQ \in pending => ~Serving /\ done > 0 BY DEF IInv, Raised
  <2>3. pending \subseteq Softirqs /\ RCU_SOFTIRQ \in Softirqs /\ TIMER_SOFTIRQ \in Softirqs
    BY DEF Softirqs, IInv, TypeOK, SoftirqTypeOK
  <2>4. TickPending \cup R \in SUBSET Softirqs BY <2>3 DEF TickPending
  <2>5. ASSUME RCU_SOFTIRQ \in TickPending PROVE ~Serving /\ done' > 0
    <3>1. CASE TickQs /\ done # Len(rcucblist)
      BY <1>1, <1>4, <3>1 DEF TickDone, TickQs
    <3>2. CASE ~(TickQs /\ done # Len(rcucblist))
      BY <1>1, <1>4, <1>5, <2>2, <2>5, <3>2 DEF TickPending
    <3>. QED BY <3>1, <3>2
  <2>. QED BY <2>1, <2>4, <2>5
<1>7. SoftirqTypeOK' /\ Raised'
  <2>1. done' \in Nat /\ list' = list /\ bh' = bh BY <1>1, <1>5
  <2>. QED BY <1>2, <1>3, <1>5, <1>6, <2>1, IrqExit
<1>. QED BY <1>1, <1>5, <1>7 DEF IInv, TypeOK

\* A switch is outside of all readers.
LEMMA ScheduleStep == ASSUME IInv, schedule PROVE IInv'
<1>1. /\ ~Serving /\ ~rd /\ done' = Len(rcucblist) /\ need_resched' = FALSE /\ mode' \in {"kernel", "idle"}
      /\ pending' = IF done # Len(rcucblist) THEN pending \cup {RCU_SOFTIRQ} ELSE pending
      /\ UNCHANGED <<todo, max_restart, bh, rcucblist, list, order, rd, guarded>>
  BY DEF schedule, rcu_qs
<1>2. InOrder' /\ Protected' /\ done' \in 0 .. Len(rcucblist') /\ done' >= done
  BY <1>1, Quiescent
<1>3. done \in 0 .. Len(rcucblist) /\ Len(rcucblist) \in Nat BY DEF IInv, TypeOK
<1>4. SoftirqTypeOK' BY <1>1 DEF IInv, TypeOK, SoftirqTypeOK, Softirqs
<1>5. Raised' BY <1>1, <1>3 DEF IInv, Raised, Serving
<1>. QED BY <1>1, <1>2, <1>4, <1>5 DEF IInv, TypeOK

\* __do_softirq() takes one of the bits that it has read.
LEMMA VecServed == ASSUME todo \subseteq Softirqs, todo # {} PROVE NextVec \in todo
<1>1. CASE TIMER_SOFTIRQ \in todo
  <2>1. \A w \in todo : TIMER_SOFTIRQ <= w BY DEF Softirqs, TIMER_SOFTIRQ, RCU_SOFTIRQ
  <2>. QED BY <1>1, <2>1, Zenon DEF NextVec
<1>2. CASE TIMER_SOFTIRQ \notin todo
  <2>1. todo = {RCU_SOFTIRQ} BY <1>2 DEF Softirqs
  <2>2. RCU_SOFTIRQ <= RCU_SOFTIRQ BY DEF RCU_SOFTIRQ
  <2>. QED BY <2>1, <2>2, Zenon DEF NextVec
<1>. QED BY <1>1, <1>2

\* The callbacks before donetail change over to list, which was empty.
LEMMA ProcessStep == ASSUME IInv, rcu_process_callbacks PROVE IInv'
<1>1. /\ todo # {} /\ NextVec = RCU_SOFTIRQ /\ list = <<>> /\ done > 0
      /\ list' = SubSeq(rcucblist, 1, done)
      /\ rcucblist' = SubSeq(rcucblist, done + 1, Len(rcucblist))
      /\ done' = 0 /\ UNCHANGED <<softirqVars, order, mode, rd, guarded>>
  BY DEF rcu_process_callbacks
<1>2. /\ rcucblist \in Seq(Cbs) /\ done \in 0 .. Len(rcucblist) /\ Len(rcucblist) \in Nat
      /\ order \in Seq(Cbs) /\ list \o rcucblist = order /\ NoDup(order)
  BY DEF IInv, TypeOK, InOrder
<1>3. /\ list' \in Seq(Cbs) /\ Len(list') = done /\ \A i \in 1 .. done : list'[i] = rcucblist[i]
      /\ rcucblist' \in Seq(Cbs)
  BY <1>1, <1>2
<1>4. InOrder'
  <2>1. 1 \in 1 .. Len(rcucblist) + 1 /\ done \in 1 - 1 .. Len(rcucblist) /\ Len(rcucblist) \in done .. Len(rcucblist)
    BY <1>2
  <2>2. list' \o rcucblist' = SubSeq(rcucblist, 1, Len(rcucblist))
    BY <1>1, <1>2, <2>1, ConcatAdjacentSubSeq
  <2>3. SubSeq(rcucblist, 1, Len(rcucblist)) = rcucblist BY <1>2, SubSeqFull
  <2>4. list \o rcucblist = rcucblist BY <1>1, <1>2, ConcatEmptySeq
  <2>. QED BY <1>1, <1>2, <2>2, <2>3, <2>4 DEF InOrder
<1>5. Protected'
  <2>1. DOMAIN list' = 1 .. done BY <1>2, <1>3
  <2>2. Protected BY DEF IInv
  <2>. QED BY <1>1, <1>3, <2>1, <2>2 DEF Protected
<1>6. Raised'
  <2>1. RCU_SOFTIRQ \in todo
    BY <1>1, VecServed DEF IInv, TypeOK, SoftirqTypeOK
  <2>2. list' # <<>>
    <3>1. Len(list') = done /\ done # 0 BY <1>1, <1>2, <1>3
    <3>. QED BY <3>1
  <2>3. Raised BY DEF IInv
  <2>. QED BY <1>1, <2>1, <2>2, <2>3 DEF Raised, Serving, softirqVars
<1>. QED BY <1>1, <1>2, <1>3, <1>4, <1>5, <1>6 DEF IInv, TypeOK, SoftirqTypeOK, softirqVars

\* The first callback of the batch is the first of all.
LEMMA ReclaimStep == ASSUME IInv, rcu_reclaim_tiny PROVE IInv'
<1>1. /\ list # <<>> /\ list' = Tail(list) /\ order' = list_del(order, Head(list))
      /\ todo' = IF Tail(list) = <<>> THEN todo \ {RCU_SOFTIRQ} ELSE todo
      /\ UNCHANGED <<pending, max_restart, bh, need_resched, rcucblist, done, mode, rd, guarded>>
  BY DEF rcu_reclaim_tiny
<1>2. /\ list \in Seq(Cbs) /\ rcucblist \in Seq(Cbs) /\ order \in Seq(Cbs)
      /\ list \o rcucblist = order /\ NoDup(order)
  BY DEF IInv, TypeOK, InOrder
<1>3. order # <<>> /\ Head(order) = Head(list) /\ Tail(order) = Tail(list) \o rcucblist
  BY <1>1, <1>2, ConcatHead
<1>4. order' = Tail(order) BY <1>1, <1>2, <1>3, DelFirst
<1>5. NoDup(Tail(order)) /\ Tail(order) \in Seq(Cbs) BY <1>2, <1>3, TailNoDup
<1>6. InOrder' BY <1>1, <1>3, <1>4, <1>5 DEF InOrder
<1>7. Protected'
  <2>1. /\ list' \in Seq(Cbs) /\ DOMAIN list' = 1 .. Len(list) - 1 /\ DOMAIN list = 1 .. Len(list)
        /\ \A i \in 1 .. Len(list) - 1 : list'[i] = list[i + 1] /\ i + 1 \in DOMAIN list
    BY <1>1, <1>2
  <2>2. Protected BY DEF IInv
  <2>. QED BY <1>1, <2>1, <2>2 DEF Protected
<1>8. Raised' BY <1>1 DEF IInv, Raised, Serving
<1>9. list' \in Seq(Cbs) BY <1>1, <1>2
<1>. QED BY <1>1, <1>4, <1>5, <1>6, <1>7, <1>8, <1>9 DEF IInv, TypeOK, SoftirqTypeOK

\* The timer softirq leaves the callbacks alone.
LEMMA TimerStep == ASSUME IInv, timer_softirq PROVE IInv'
<1>1. /\ todo' = todo \ {TIMER_SOFTIRQ} /\ pending' \in {pending, pending \cup {TIMER_SOFTIRQ}}
      /\ UNCHANGED <<max_restart, bh, need_resched, mode, rd>>
  BY DEF timer_softirq
<1>2. SoftirqTypeOK' BY <1>1 DEF IInv, TypeOK, SoftirqTypeOK, Softirqs
<1>3. ASSUME list' = list, done' = done PROVE Raised'
  BY <1>1, <1>3 DEF IInv, Raised, Serving, TIMER_SOFTIRQ, RCU_SOFTIRQ
<1>4. ASSUME NEW c \in Cbs, call_rcu(c) PROVE IInv'
  <2>1. /\ rcucblist' \in Seq(Cbs) /\ list' = list /\ order' \in Seq(Cbs)
        /\ done' = done /\ done \in 0 .. Len(rcucblist') /\ guarded' \subseteq Cbs
        /\ InOrder' /\ Protected'
    BY <1>1, <1>4, CallRcu
  <2>. QED BY <1>1, <1>2, <1>3, <2>1 DEF IInv, TypeOK
<1>5. CASE UNCHANGED <<rcuVars, guarded>>
  BY <1>1, <1>2, <1>3, <1>5 DEF IInv, TypeOK, InOrder, Protected, rcuVars
<1>. QED BY <1>4, <1>5 DEF timer_softirq

\* The steps that touch neither list: the rounds of __do_softirq(), sections
\* with bottom halves disabled, readers, and the borders to user mode.
LEMMA OtherStep ==
  ASSUME IInv,
         \/ (softirq_restart \/ softirq_end) /\ UNCHANGED <<rcuVars, mode, rd, guarded>>
         \/ task_bh
         \/ rcu_read_lock \/ rcu_read_unlock \/ exit_to_user_mode \/ enter_from_user_mode
  PROVE  IInv'
<1>1. rcucblist' = rcucblist /\ done' = done /\ list' = list /\ order' = order
  BY DEF rcuVars, task_bh, rcu_read_lock, rcu_read_unlock, exit_to_user_mode, enter_from_user_mode
<1>2. InOrder' BY <1>1 DEF IInv, InOrder
<1>3. mode' \in {"user", "kernel", "idle"} /\ rd' \in BOOLEAN /\ guarded' \subseteq Cbs /\ Protected'
  <2>0. mode \in {"user", "kernel", "idle"} /\ rd \in BOOLEAN /\ guarded \subseteq Cbs /\ Protected
    BY DEF IInv, TypeOK
  <2>1. CASE UNCHANGED <<mode, rd, guarded>> BY <1>1, <2>0, <2>1 DEF Protected
  <2>2. CASE rcu_read_lock \/ rcu_read_unlock
    <3>1. rd' \in BOOLEAN /\ guarded' = {} /\ mode' = mode /\ (rd' => mode # "user")
      BY <2>0, <2>2, Zenon DEF rcu_read_lock, rcu_read_unlock
    <3>. QED BY <1>1, <2>0, <3>1 DEF Protected
  <2>3. CASE exit_to_user_mode \/ enter_from_user_mode
    <3>1. rd' = rd /\ guarded' = guarded /\ (mode' = "kernel" \/ (mode' = "user" /\ ~rd))
      BY <2>3 DEF exit_to_user_mode, enter_from_user_mode
    <3>. QED BY <1>1, <2>0, <3>1 DEF Protected
  <2>. QED BY <2>1, <2>2, <2>3 DEF task_bh
<1>4. SoftirqTypeOK' /\ Raised'
  <2>0. /\ Raised /\ pending \subseteq Softirqs /\ todo \subseteq Softirqs /\ bh \in BOOLEAN /\ need_resched \in BOOLEAN
        /\ max_restart \in 0 .. MAX_SOFTIRQ_RESTART /\ MAX_SOFTIRQ_RESTART \in Nat \ {0}
    BY RestartAssumption DEF IInv, TypeOK, SoftirqTypeOK
  <2>1. bh' \in BOOLEAN /\ need_resched' \in BOOLEAN
    BY <2>0, Zenon DEF softirq_restart, softirq_end, task_bh, local_bh_disable, local_bh_enable,
       rcu_read_lock, rcu_read_unlock, exit_to_user_mode, enter_from_user_mode, softirqVars
  <2>2. CASE softirq_restart
    <3>1. /\ max_restart > 1 /\ max_restart' = max_restart - 1 /\ todo = {} /\ todo' = pending /\ pending' = {}
      BY <2>2 DEF softirq_restart
    <3>2. max_restart' \in 0 .. MAX_SOFTIRQ_RESTART /\ max_restart > 0 /\ max_restart' > 0 BY <2>0, <3>1
    <3>. QED BY <1>1, <2>0, <2>1, <3>1, <3>2 DEF SoftirqTypeOK, Raised, Serving
  <2>3. CASE softirq_end
    <3>1. todo = {} /\ todo' = todo /\ pending' = pending /\ max_restart' = 0 BY <2>3 DEF softirq_end
    <3>2. max_restart' \in 0 .. MAX_SOFTIRQ_RESTART /\ ~(max_restart' > 0) BY <2>0, <3>1
    <3>. QED BY <1>1, <2>0, <2>1, <3>1, <3>2 DEF SoftirqTypeOK, Raised, Serving
  <2>4. CASE task_bh /\ UNCHANGED <<pending, todo, max_restart>>
    BY <1>1, <2>0, <2>1, <2>4 DEF SoftirqTypeOK, Raised, Serving
  <2>5. CASE task_bh /\ ~UNCHANGED <<pending, todo, max_restart>>
    <3>1. ~Serving /\ todo' = pending /\ pending' = {} /\ max_restart' = MAX_SOFTIRQ_RESTART
      BY <2>5 DEF task_bh, local_bh_disable, local_bh_enable, do_softirq
    <3>2. max_restart' \in 0 .. MAX_SOFTIRQ_RESTART /\ max_restart' > 0 BY <2>0, <3>1
    <3>. QED BY <1>1, <2>0, <2>1, <3>1, <3>2 DEF SoftirqTypeOK, Raised, Serving
  <2>6. CASE UNCHANGED softirqVars
    BY <1>1, <2>0, <2>6 DEF softirqVars, SoftirqTypeOK, Raised, Serving
  <2>. QED BY <2>2, <2>3, <2>4, <2>5, <2>6
              DEF rcu_read_lock, rcu_read_unlock, exit_to_user_mode, enter_from_user_mode
<1>. QED BY <1>1, <1>2, <1>3, <1>4 DEF IInv, TypeOK

----------------------------------------------------------------------------
(* The inductive invariant and what follows from it *)

\* No callbacks, no softirq pending.
LEMMA Initially == Init => IInv
<1> SUFFICES ASSUME Init PROVE IInv
  OBVIOUS
<1>1. SoftirqTypeOK /\ Raised
  <2>1. 0 \in 0 .. MAX_SOFTIRQ_RESTART BY RestartAssumption
  <2>2. pending = {} /\ todo = {} /\ max_restart = 0 /\ bh \in BOOLEAN /\ need_resched \in BOOLEAN /\ list = <<>>
    BY Zenon DEF Init, SoftirqInit
  <2>. QED BY <2>1, <2>2 DEF SoftirqTypeOK, Raised, Serving
<1>2. TypeOK
  <2>1. /\ rcucblist \in Seq(Cbs) /\ list \in Seq(Cbs) /\ order \in Seq(Cbs)
        /\ done \in 0 .. Len(rcucblist) /\ guarded \subseteq Cbs
    BY DEF Init
  <2>2. mode \in {"user", "kernel", "idle"} /\ rd \in BOOLEAN BY Zenon DEF Init
  <2>. QED BY <1>1, <2>1, <2>2 DEF TypeOK
<1>3. InOrder
  <2>1. list = <<>> /\ rcucblist = <<>> /\ order = <<>> /\ list \o rcucblist = <<>> BY ConcatEmptySeq DEF Init
  <2>2. NoDup(<<>>) BY DEF NoDup
  <2>. QED BY <2>1, <2>2 DEF InOrder
<1>4. Protected BY DEF Init, Protected
<1>. QED BY <1>1, <1>2, <1>3, <1>4 DEF IInv

\* Every step keeps the invariant.
LEMMA Inductive == IInv /\ [Next]_vars => IInv'
<1> SUFFICES ASSUME IInv, [Next]_vars PROVE IInv'
  OBVIOUS
<1>1. ASSUME NEW c \in Cbs, task_call_rcu(c) \/ irq_call_rcu(c) PROVE IInv' BY <1>1, CallSteps
<1>2. CASE tick BY <1>2, TickStep
<1>3. CASE schedule BY <1>3, ScheduleStep
<1>4. CASE softirq_action
  BY <1>4, TimerStep, ProcessStep, ReclaimStep, OtherStep DEF softirq_action
<1>5. CASE rcu_read_lock \/ rcu_read_unlock \/ exit_to_user_mode \/ enter_from_user_mode \/ task_bh
  BY <1>5, OtherStep
<1>6. CASE UNCHANGED vars
  BY <1>6 DEF vars, softirqVars, IInv, TypeOK, SoftirqTypeOK, InOrder, Protected, Raised, Serving
<1>. QED BY <1>1, <1>2, <1>3, <1>4, <1>5, <1>6 DEF Next

\* The two lists, donetail, the reader and the pending softirq agree in
\* every state.
THEOREM Invariance == Spec => []IInv
BY Initially, Inductive, PTL DEF Spec

\* No callback that was queued while a reader runs is invoked, or taken off the
\* list, before the reader ends.
THEOREM ReadersSafe == Spec => []GracePeriod
<1>1. IInv => GracePeriod BY DEF IInv, Protected, GracePeriod, ToSet
<1>. QED BY <1>1, Invariance, PTL

\* Callbacks are invoked in the order of call_rcu(), none is lost or run twice.
THEOREM InvokedInOrder == Spec => []CallbackOrder
<1>1. IInv => CallbackOrder BY DEF IInv, InOrder, CallbackOrder
<1>. QED BY <1>1, Invariance, PTL

\* The early return of rcu_process_callbacks(), "nobody to invoke", is never
\* taken: when the handler is called, callbacks are done.
HandlerHasWork == todo # {} /\ NextVec = RCU_SOFTIRQ /\ list = <<>> => done > 0

\* RCU_SOFTIRQ is raised by whoever moves donetail and cannot be raised again
\* while it is served, so rcu_process_callbacks() always finds callbacks.
THEOREM NoSpuriousSoftirq == Spec => []HandlerHasWork
<1>1. IInv => HandlerHasWork
  <2> SUFFICES ASSUME IInv, todo # {}, NextVec = RCU_SOFTIRQ, list = <<>> PROVE done > 0
    BY DEF HandlerHasWork
  <2>1. NextVec \in todo BY VecServed DEF IInv, TypeOK, SoftirqTypeOK
  <2>. QED BY <2>1 DEF IInv, Raised
<1>. QED BY <1>1, Invariance, PTL

----------------------------------------------------------------------------
(* The timer wheel: the inductive invariant *)

\* How many ticks after time c bucket i is collected: the time is a multiple
\* of the granularity, and its position in the level is the bucket's.
Period(i) == LVL_SIZE * LVL_GRAN(Level(i))
Dist(i, c) == ((i % LVL_SIZE) * LVL_GRAN(Level(i)) - c) % Period(i)

\* Ticks from the clock to next_expiry, and to the jiffy after this one: the
\* clock is never ahead of that.
Ahead == Sub(next_expiry, clk)
Lead == Sub(Long(jiffies + 1), clk)

\* A bit is set exactly while timers are on the bucket's list.
MapExact == pending_map = {i \in Index : Vector(i) # {}}

\* next_expiry is not far away, and no pending bucket is due before it.
NextFirst == Ahead <= NEXT_TIMER_MAX_DELTA /\ \A i \in pending_map : Ahead <= Dist(i, clk)

\* It is the time of a bucket, unless a deletion has made it stale.
NextHits ==
  ~next_expiry_recalc /\ timers_pending => \E i \in pending_map : Dist(i, clk) = Ahead

\* The softirq is behind by MaxLag ticks at most.
Lag == Lead <= Ahead + MaxLag + 1

\* Bucket i is collected a granule after time e at most, or it was overdue
\* when the timer was armed, by the ticks of mod_timer() and one: c is the
\* clock, and l the ticks from there to the next jiffy.
PlacedAt(i, e, c, l) ==
  LET late == Sub(Long(c + Dist(i, c)), e)
  IN late <= LVL_GRAN(Level(i)) \/ (late <= MaxTicks + 1 /\ Dist(i, c) <= l)

\* A timer that is expiring was due before the clock; a is Ahead.
MaxLate == NEXT_TIMER_MAX_DELTA + LVL_GRAN(LVL_DEPTH - 1) + MaxTicks + 1
DueAt(e, c, a) == Sub(c, e) # 0 /\ Sub(c, e) + a <= MaxLate

Placed == \A t \in Timers : mark[t] = "exact" /\ entry[t] = "wheel" => PlacedAt(idx[t], expires[t], clk, Lead)
Due == \A t \in Timers : mark[t] = "exact" /\ entry[t] = "heads" => DueAt(expires[t], clk, Ahead)

\* What the task has computed before it took the lock.
Asked ==
  call # None => \E d \in Deltas : call.e = Long(jiffies - call.ticks + d)

TimerInv ==
  /\ TimerTypeOK /\ MapExact /\ NextFirst /\ NextHits /\ Lag /\ Placed /\ Due /\ Asked

----------------------------------------------------------------------------
(* Numbers *)

\* A set of natural numbers that is not empty has a least element.
LEMMA LeastNatural ==
  ASSUME NEW S \in SUBSET Nat, S # {}
  PROVE  \E n \in S : \A m \in S : n <= m
<1> DEFINE U == {0 .. n : n \in S}
<1>1. U \subseteq FiniteSubsetsOf(Nat) /\ U # {}
  <2>1. \A n \in S : IsFiniteSet(0 .. n) /\ 0 .. n \subseteq Nat BY FS_Interval
  <2>. QED BY <2>1 DEF FiniteSubsetsOf
<1>2. \E x \in U : \A y \in U : ~ (<<y, x>> \in StrictSubsetOrdering(Nat))
  BY <1>1, FS_StrictSubsetOrderingWellFounded, WFMin
<1>3. PICK n \in S : \A m \in S : ~ (<<0 .. m, 0 .. n>> \in StrictSubsetOrdering(Nat)) BY <1>2
<1>4. ASSUME NEW m \in S, m < n PROVE FALSE
  <2>1. 0 .. m \subseteq 0 .. n /\ n \in 0 .. n /\ n \notin 0 .. m /\ 0 .. n \subseteq Nat BY <1>4
  <2>. QED BY <1>3, <2>1 DEF StrictSubsetOrdering
<1>. QED BY <1>4

\* Powers of two multiply: a subset of two disjoint sets is a subset of each.
LEMMA PowerSum ==
  ASSUME NEW a \in Nat, NEW b \in Nat
  PROVE  2^(a + b) = 2^a * 2^b
<1> DEFINE A == 1 .. a
           B == a + 1 .. a + b
           S == 1 .. a + b
           f == [T \in SUBSET S |-> <<T \cap A, T \cap B>>]
           X == (SUBSET A) \X (SUBSET B)
<1>1. IsFiniteSet(A) /\ Cardinality(A) = a
  <2>1. IsFiniteSet(A) /\ Cardinality(A) = IF 1 > a THEN 0 ELSE a - 1 + 1 BY FS_Interval
  <2>. QED BY <2>1
<1>2. IsFiniteSet(B) /\ Cardinality(B) = b
  <2>1. IsFiniteSet(B) /\ Cardinality(B) = IF a + 1 > a + b THEN 0 ELSE (a + b) - (a + 1) + 1 BY FS_Interval
  <2>. QED BY <2>1
<1>3. IsFiniteSet(S) /\ Cardinality(S) = a + b
  <2>1. IsFiniteSet(S) /\ Cardinality(S) = IF 1 > a + b THEN 0 ELSE (a + b) - 1 + 1 BY FS_Interval
  <2>. QED BY <2>1
<1>4. A \cap B = {} /\ A \cup B = S OBVIOUS
<1> HIDE DEF A, B, S
<1>5. f \in Bijection(SUBSET S, X)
  <2>1. f \in [SUBSET S -> X] OBVIOUS
  <2>2. \A T, U \in SUBSET S : f[T] = f[U] => T = U
    <3> SUFFICES ASSUME NEW T \in SUBSET S, NEW U \in SUBSET S, f[T] = f[U] PROVE T = U
      OBVIOUS
    <3>1. T \cap A = U \cap A /\ T \cap B = U \cap B OBVIOUS
    <3>. QED BY <1>4, <3>1
  <2>3. \A y \in X : \E T \in SUBSET S : f[T] = y
    <3> SUFFICES ASSUME NEW y \in X PROVE \E T \in SUBSET S : f[T] = y
      OBVIOUS
    <3>0. PICK U \in SUBSET A, V \in SUBSET B : y = <<U, V>> OBVIOUS
    <3>1. U \cup V \in SUBSET S /\ (U \cup V) \cap A = U /\ (U \cup V) \cap B = V BY <1>4
    <3>. QED BY <3>0, <3>1
  <2> HIDE DEF f
  <2>. QED BY <2>1, <2>2, <2>3 DEF Bijection, Injection, Surjection, IsInjective
<1>6. IsFiniteSet(SUBSET S) /\ Cardinality(SUBSET S) = 2^(a + b) BY <1>3, FS_SUBSET
<1>7. /\ IsFiniteSet(SUBSET A) /\ Cardinality(SUBSET A) = 2^a
      /\ IsFiniteSet(SUBSET B) /\ Cardinality(SUBSET B) = 2^b
  BY <1>1, <1>2, FS_SUBSET
<1>8. Cardinality(X) = 2^a * 2^b BY <1>7, FS_Product
<1>9. ExistsBijection(SUBSET S, X) BY <1>5, Zenon DEF ExistsBijection
<1>10. Cardinality(X) = Cardinality(SUBSET S)
  <2> HIDE DEF X
  <2>. QED BY <1>6, <1>9, FS_Bijection
<1>. QED BY <1>6, <1>8, <1>10

\* A power of two is positive.
LEMMA PowerType == ASSUME NEW n \in Nat PROVE 2^n \in Nat \ {0}
<1> DEFINE S == 1 .. n
<1>1. IsFiniteSet(S) /\ Cardinality(S) = n
  <2>1. IsFiniteSet(S) /\ Cardinality(S) = IF 1 > n THEN 0 ELSE n - 1 + 1 BY FS_Interval
  <2>. QED BY <2>1
<1> HIDE DEF S
<1>2. IsFiniteSet(SUBSET S) /\ Cardinality(SUBSET S) = 2^n BY <1>1, FS_SUBSET
<1>3. Cardinality(SUBSET S) \in Nat BY <1>2, FS_CardinalityType
<1>4. Cardinality(SUBSET S) # 0
  <2>1. {} \in SUBSET S OBVIOUS
  <2>. QED BY <1>2, <2>1, FS_EmptySet
<1>. QED BY <1>2, <1>3, <1>4

\* The first two.
LEMMA PowerSmall == 2^0 = 1 /\ 2^1 = 2
<1>1. 2^0 = 1
  <2>1. IsFiniteSet({}) /\ Cardinality({}) = 0 BY FS_EmptySet
  <2>2. Cardinality(SUBSET {}) = 2^0 BY <2>1, FS_SUBSET
  <2>3. SUBSET {} = {{}} OBVIOUS
  <2>4. Cardinality({{}}) = 1 BY FS_Singleton
  <2>. QED BY <2>2, <2>3, <2>4
<1>2. 2^1 = 2
  <2> DEFINE S == {0}
  <2>1. IsFiniteSet(S) /\ Cardinality(S) = 1 BY FS_Singleton
  <2>2. Cardinality(SUBSET S) = 2^1 BY <2>1, FS_SUBSET
  <2>3. SUBSET S = {{}} \cup {S} OBVIOUS
  <2>4. IsFiniteSet({{}}) /\ Cardinality({{}}) = 1 BY FS_Singleton
  <2>5. S \notin {{}} OBVIOUS
  <2> HIDE DEF S
  <2>6. PICK E : E = {{}} OBVIOUS
  <2>7. Cardinality(E \cup {S}) = IF S \in E THEN Cardinality(E) ELSE Cardinality(E) + 1
    BY <2>4, <2>6, FS_AddElement
  <2>. QED BY <2>2, <2>3, <2>4, <2>5, <2>6, <2>7
<1>. QED BY <1>1, <1>2

\* Products of integers.
LEMMA Products ==
  ASSUME NEW a \in Int, NEW b \in Int, NEW c \in Nat, a <= b
  PROVE  a * c \in Int /\ b * c \in Int /\ a * c <= b * c
OBVIOUS

\* Quotient and remainder.
LEMMA DivMod ==
  ASSUME NEW a \in Int, NEW m \in Nat \ {0}
  PROVE  a % m \in 0 .. m - 1 /\ a \div m \in Int /\ a = (m * (a \div m)) + (a % m)
<1>1. a % m \in 0 .. m - 1 OBVIOUS
<1>2. a \div m \in Int OBVIOUS
<1>3. a % m = a - m * (a \div m) OBVIOUS
<1>4. m * (a \div m) \in Int BY <1>2
<1>. QED BY <1>1, <1>2, <1>3, <1>4

\* They are the only ones.
LEMMA ModUnique ==
  ASSUME NEW a \in Int, NEW m \in Nat \ {0}, NEW q \in Int, NEW r \in 0 .. m - 1, a = (m * q) + r
  PROVE  a % m = r /\ a \div m = q
<1> DEFINE p == a \div m
           s == a % m
<1>1. s \in 0 .. m - 1 /\ p \in Int /\ a = (m * p) + s BY DivMod
<1> HIDE DEF p, s
<1>2. CASE p < q
  <2>1. p + 1 \in Int /\ p + 1 <= q BY <1>1, <1>2
  <2>2. (p + 1) * m <= q * m BY <2>1, Products
  <2>3. m * p + m <= m * q BY <1>1, <2>2
  <2>. QED BY <1>1, <2>3
<1>3. CASE p > q
  <2>1. q + 1 \in Int /\ q + 1 <= p BY <1>1, <1>3
  <2>2. (q + 1) * m <= p * m BY <1>1, <2>1, Products
  <2>3. m * q + m <= m * p BY <1>1, <2>2
  <2>. QED BY <1>1, <2>3
<1>4. CASE p = q BY <1>1, <1>4 DEF p, s
<1>. QED BY <1>1, <1>2, <1>3, <1>4

\* Adding a multiple of the modulus changes nothing.
LEMMA ModShift ==
  ASSUME NEW a \in Int, NEW m \in Nat \ {0}, NEW q \in Int
  PROVE  (a + (m * q)) % m = a % m
<1>1. PICK p \in Int, r \in 0 .. m - 1 : a = (m * p) + r /\ r = a % m BY DivMod
<1>2. a + (m * q) = (m * (p + q)) + r /\ p + q \in Int /\ a + (m * q) \in Int BY <1>1
<1>. QED BY <1>1, <1>2, ModUnique

\* A remainder may be taken of a remainder by a multiple of the modulus.
LEMMA ModMod ==
  ASSUME NEW a \in Int, NEW m \in Nat \ {0}, NEW k \in Nat \ {0}, NEW w \in Nat \ {0}, w = m * k
  PROVE  (a % w) % m = a % m
<1>1. PICK p \in Int, r \in 0 .. w - 1 : a = (w * p) + r /\ r = a % w BY DivMod
<1>2. PICK q \in Int : r = a + (m * q)
  <2>1. r = a + (m * (k * (- p))) /\ k * (- p) \in Int BY <1>1
  <2>. QED BY <2>1
<1>3. (a + (m * q)) % m = a % m BY <1>2, ModShift
<1>. QED BY <1>1, <1>2, <1>3

\* Numbers below the modulus, and one turn around it.
LEMMA ModNear ==
  ASSUME NEW m \in Nat \ {0}, NEW x \in - m .. (2 * m) - 1
  PROVE  x % m = IF x < 0 THEN x + m ELSE IF x < m THEN x ELSE x - m
<1>1. CASE x < 0
  <2>1. x = (m * (-1)) + (x + m) /\ x + m \in 0 .. m - 1 BY <1>1
  <2>. QED BY <1>1, <2>1, ModUnique
<1>2. CASE x >= 0 /\ x < m
  <2>1. x = (m * 0) + x /\ x \in 0 .. m - 1 BY <1>2
  <2>. QED BY <1>2, <2>1, ModUnique
<1>3. CASE x >= m
  <2>1. x = (m * 1) + (x - m) /\ x - m \in 0 .. m - 1 BY <1>3
  <2>. QED BY <1>3, <2>1, ModUnique
<1>. QED BY <1>1, <1>2, <1>3

----------------------------------------------------------------------------
(* The wheel's constants *)

Words == 2^Width
Half == 2^(Width - 1)
Levels == 0 .. LVL_DEPTH - 1

\* The clock's range, its half and the idle horizon.
LEMMA Ranges ==
  /\ Words \in Nat \ {0} /\ Half \in Nat \ {0} /\ NEXT_TIMER_MAX_DELTA \in Nat
  /\ Words = 2 * Half /\ Half = 2 * (NEXT_TIMER_MAX_DELTA + 1)
<1> DEFINE q == 2^(Width - 2)
<1>0. Width \in Nat /\ Width - 1 \in Nat /\ Width - 2 \in Nat BY WheelAssumption
<1>1. q \in Nat \ {0} /\ 2^(Width - 1) \in Nat \ {0} /\ 2^Width \in Nat \ {0} BY <1>0, PowerType
<1>2. 2^(Width - 1) = 2 * q
  <2>1. Width - 1 = (Width - 2) + 1 BY <1>0
  <2>2. 2^((Width - 2) + 1) = q * 2^1 BY <1>0, PowerSum
  <2>. QED BY <1>1, <2>1, <2>2, PowerSmall
<1>3. 2^Width = 2 * 2^(Width - 1)
  <2>1. Width = (Width - 1) + 1 BY <1>0
  <2>2. 2^((Width - 1) + 1) = 2^(Width - 1) * 2^1 BY <1>0, PowerSum
  <2>. QED BY <1>1, <2>1, <2>2, PowerSmall
<1>. QED BY <1>1, <1>2, <1>3 DEF Words, Half, NEXT_TIMER_MAX_DELTA

\* The buckets of a level, and the ratio of two levels' clocks.
LEMMA Sizes ==
  /\ LVL_SIZE \in Nat \ {0, 1} /\ LVL_CLK_DIV \in Nat \ {0}
  /\ \E k \in Nat \ {0} : LVL_SIZE = LVL_CLK_DIV * k
<1> DEFINE d == LVL_BITS - LVL_CLK_SHIFT
<1>0. /\ LVL_BITS \in Nat \ {0} /\ LVL_CLK_SHIFT \in Nat /\ d \in Nat
      /\ LVL_BITS - 1 \in Nat
      /\ LVL_BITS = LVL_CLK_SHIFT + d /\ LVL_BITS = (LVL_BITS - 1) + 1
  BY WheelAssumption
<1> HIDE DEF d
<1>1. 2^(LVL_CLK_SHIFT + d) = 2^LVL_CLK_SHIFT * 2^d BY <1>0, PowerSum
<1>2. 2^((LVL_BITS - 1) + 1) = 2^(LVL_BITS - 1) * 2^1 BY <1>0, PowerSum
<1>3. 2^LVL_CLK_SHIFT \in Nat \ {0} /\ 2^d \in Nat \ {0} /\ 2^(LVL_BITS - 1) \in Nat \ {0}
  BY <1>0, PowerType
<1>4. LVL_SIZE = LVL_CLK_DIV * 2^d BY <1>0, <1>1 DEF LVL_SIZE, LVL_CLK_DIV
<1>5. LVL_SIZE = 2^(LVL_BITS - 1) * 2 BY <1>0, <1>2, PowerSmall DEF LVL_SIZE
<1>. QED BY <1>3, <1>4, <1>5 DEF LVL_CLK_DIV

\* The granularity of a level, and of the next one.
LEMMA Grans ==
  /\ LVL_GRAN(0) = 1
  /\ \A n \in Nat : LVL_GRAN(n) \in Nat \ {0} /\ LVL_GRAN(n + 1) = LVL_CLK_DIV * LVL_GRAN(n)
<1>0. LVL_CLK_SHIFT \in Nat BY WheelAssumption
<1>1. LVL_GRAN(0) = 1
  <2>1. 0 * LVL_CLK_SHIFT = 0 BY <1>0
  <2>. QED BY <2>1, PowerSmall DEF LVL_GRAN
<1>2. ASSUME NEW n \in Nat
      PROVE  LVL_GRAN(n) \in Nat \ {0} /\ LVL_GRAN(n + 1) = LVL_CLK_DIV * LVL_GRAN(n)
  <2>1. n * LVL_CLK_SHIFT \in Nat /\ (n + 1) * LVL_CLK_SHIFT = LVL_CLK_SHIFT + n * LVL_CLK_SHIFT BY <1>0
  <2>2. 2^(n * LVL_CLK_SHIFT) \in Nat \ {0} BY <2>1, PowerType
  <2>3. 2^(LVL_CLK_SHIFT + n * LVL_CLK_SHIFT) = 2^LVL_CLK_SHIFT * 2^(n * LVL_CLK_SHIFT)
    BY <1>0, <2>1, PowerSum
  <2>. QED BY <2>1, <2>2, <2>3 DEF LVL_GRAN, LVL_CLK_DIV
<1>. QED BY <1>1, <1>2

\* A coarser granularity is a multiple of a finer one.
LEMMA GranMultiple ==
  ASSUME NEW m \in Nat, NEW n \in Nat, m <= n
  PROVE  \E k \in Nat \ {0} : LVL_GRAN(n) = LVL_GRAN(m) * k
<1> DEFINE a == m * LVL_CLK_SHIFT
           b == (n - m) * LVL_CLK_SHIFT
<1>1. LVL_CLK_SHIFT \in Nat /\ n - m \in Nat BY WheelAssumption
<1>2. a \in Nat /\ b \in Nat /\ n * LVL_CLK_SHIFT = a + b BY <1>1
<1>3. LVL_GRAN(n) = 2^(n * LVL_CLK_SHIFT) /\ LVL_GRAN(m) = 2^a BY DEF LVL_GRAN
<1> HIDE DEF a, b
<1>4. 2^(a + b) = 2^a * 2^b /\ 2^b \in Nat \ {0} BY <1>2, PowerSum, PowerType
<1>. QED BY <1>2, <1>3, <1>4

\* A turn of a level is a whole part of the clock's range.
LEMMA Turns ==
  ASSUME NEW n \in Levels
  PROVE  /\ LVL_SIZE * LVL_GRAN(n) \in Nat \ {0}
         /\ \E k \in Nat \ {0} : Words = (LVL_SIZE * LVL_GRAN(n)) * k
<1> DEFINE a == n * LVL_CLK_SHIFT
           b == LVL_BITS
           p == (LVL_DEPTH - 1) * LVL_CLK_SHIFT
           d == Width - (b + a)
<1>1. /\ n \in Nat /\ n <= LVL_DEPTH - 1 /\ LVL_DEPTH \in Nat /\ LVL_CLK_SHIFT \in Nat
      /\ b \in Nat /\ Width \in Nat /\ p + b <= Width
  BY WheelAssumption DEF Levels
<1>2. a \in Nat /\ p \in Int /\ a <= p BY <1>1, Products
<1>3. d \in Nat /\ Width = (b + a) + d /\ b + a \in Nat BY <1>1, <1>2
<1>4. LVL_GRAN(n) = 2^a /\ LVL_SIZE = 2^b BY DEF LVL_GRAN, LVL_SIZE
<1> HIDE DEF a, b, d, p
<1>5. 2^(b + a) = 2^b * 2^a /\ 2^((b + a) + d) = 2^(b + a) * 2^d BY <1>1, <1>2, <1>3, PowerSum
<1>6. 2^d \in Nat \ {0} /\ 2^(b + a) \in Nat \ {0} BY <1>3, PowerType
<1>. QED BY <1>3, <1>4, <1>5, <1>6 DEF Words

\* How far the levels reach: the whole wheel is below half of the range.
LEMMA Reach ==
  ASSUME NEW n \in Levels
  PROVE  /\ LVL_START(n + 1) = (LVL_SIZE - 1) * LVL_GRAN(n)
         /\ LVL_GRAN(n) \in Nat \ {0}
         /\ LVL_GRAN(n) <= LVL_GRAN(LVL_DEPTH - 1)
         /\ LVL_GRAN(LVL_DEPTH - 1) <= NEXT_TIMER_MAX_DELTA
         /\ LVL_SIZE * LVL_GRAN(n) = LVL_START(n + 1) + LVL_GRAN(n)
         /\ LVL_START(n + 1) \in Nat
         /\ LVL_SIZE * LVL_GRAN(n) \in Nat
         /\ LVL_SIZE * LVL_GRAN(n) <= 2 * NEXT_TIMER_MAX_DELTA
         /\ LVL_SIZE * LVL_GRAN(n) < Half
         /\ WHEEL_TIMEOUT_CUTOFF = (LVL_SIZE - 1) * LVL_GRAN(LVL_DEPTH - 1)
         /\ WHEEL_TIMEOUT_CUTOFF \in Nat
         /\ WHEEL_TIMEOUT_CUTOFF <= NEXT_TIMER_MAX_DELTA
         /\ WHEEL_TIMEOUT_MAX \in Nat
         /\ WHEEL_TIMEOUT_MAX < WHEEL_TIMEOUT_CUTOFF
<1> DEFINE l == LVL_DEPTH - 1
<1>1. /\ n \in Nat /\ l \in Nat /\ n <= l /\ LVL_DEPTH \in Nat /\ l + 1 = LVL_DEPTH
      /\ (n + 1) - 1 = n /\ WHEEL_TIMEOUT_CUTOFF <= NEXT_TIMER_MAX_DELTA
  BY WheelAssumption DEF Levels
<1>2. LVL_START(n + 1) = (LVL_SIZE - 1) * LVL_GRAN(n)
  BY <1>1 DEF LVL_START, LVL_GRAN
<1>3. WHEEL_TIMEOUT_CUTOFF = (LVL_SIZE - 1) * LVL_GRAN(l)
  BY <1>1 DEF WHEEL_TIMEOUT_CUTOFF, LVL_START, LVL_GRAN
<1>4. WHEEL_TIMEOUT_MAX = WHEEL_TIMEOUT_CUTOFF - LVL_GRAN(l) BY DEF WHEEL_TIMEOUT_MAX
<1>5. PICK g, f : g = LVL_GRAN(n) /\ f = LVL_GRAN(l) OBVIOUS
<1>6. g \in Nat \ {0} /\ f \in Nat \ {0} BY <1>1, <1>5, Grans
<1>7. PICK k \in Nat \ {0} : f = g * k BY <1>1, <1>5, GranMultiple
<1>8. g <= f
  <2>1. 1 * g <= k * g BY <1>6, <1>7, Products
  <2>. QED BY <1>6, <1>7, <2>1
<1>9. PICK s \in Nat \ {0, 1} : s = LVL_SIZE BY Sizes
<1>10. /\ (s - 1) * f \in Nat /\ f <= (s - 1) * f /\ s * f = (s - 1) * f + f
       /\ (s - 1) * g \in Nat /\ g <= (s - 1) * g /\ s * g = (s - 1) * g + g
       /\ s * g <= s * f
  <2>1. s - 1 \in Nat /\ s - 1 >= 1 BY <1>9
  <2>2. 1 * f <= (s - 1) * f /\ 1 * g <= (s - 1) * g BY <1>6, <2>1, Products
  <2>3. g * s <= f * s BY <1>6, <1>8, Products
  <2>. QED BY <1>6, <2>1, <2>2, <2>3
<1>11. s * f <= 2 * NEXT_TIMER_MAX_DELTA BY <1>1, <1>3, <1>5, <1>6, <1>9, <1>10, Ranges
<1>. QED BY <1>1, <1>2, <1>3, <1>4, <1>5, <1>6, <1>8, <1>9, <1>10, <1>11, Ranges

----------------------------------------------------------------------------
(* Wrapping time *)

\* One turn of the clock.
LEMMA Wrap ==
  ASSUME NEW x \in - Words .. (2 * Words) - 1
  PROVE  /\ Long(x) = IF x < 0 THEN x + Words ELSE IF x < Words THEN x ELSE x - Words
         /\ Long(x) \in 0 .. Words - 1
<1>1. Words \in Nat \ {0} BY Ranges
<1>2. Long(x) = x % Words BY DEF Long, Words
<1>3. x % Words = IF x < 0 THEN x + Words ELSE IF x < Words THEN x ELSE x - Words BY <1>1, ModNear
<1>. QED BY <1>1, <1>2, <1>3

\* The distance of two times.
LEMMA WrapSub ==
  ASSUME NEW a \in 0 .. Words - 1, NEW b \in 0 .. Words - 1
  PROVE  /\ Sub(a, b) = IF a >= b THEN a - b ELSE (a - b) + Words
         /\ Sub(a, b) \in 0 .. Words - 1
<1>1. a - b \in - Words .. (2 * Words) - 1 BY Ranges
<1>2. Long(a - b) = IF a - b < 0 THEN (a - b) + Words ELSE IF a - b < Words THEN a - b ELSE (a - b) - Words
  BY <1>1, Wrap
<1>. QED BY <1>2, Ranges DEF Sub

\* The range of an unsigned long.
LEMMA LongsIs == Longs = 0 .. Words - 1
BY DEF Longs, Words

\* A time is the other one and the distance.
LEMMA SubAdd ==
  ASSUME NEW a \in Longs, NEW b \in Longs
  PROVE  a = Long(b + Sub(a, b)) /\ Sub(a, b) \in Longs
<1>1. a \in 0 .. Words - 1 /\ b \in 0 .. Words - 1 BY LongsIs
<1>2. /\ Sub(a, b) = IF a >= b THEN a - b ELSE (a - b) + Words
      /\ Sub(a, b) \in 0 .. Words - 1
  BY <1>1, WrapSub
<1>3. b + Sub(a, b) \in - Words .. (2 * Words) - 1 BY <1>1, <1>2, Ranges
<1>4. LET x == b + Sub(a, b)
      IN  Long(x) = IF x < 0 THEN x + Words ELSE IF x < Words THEN x ELSE x - Words
  BY <1>3, Wrap
<1>. QED BY <1>1, <1>2, <1>4, Ranges, LongsIs

\* Moving a time by less than the range.
LEMMA AddSub ==
  ASSUME NEW b \in Longs, NEW d \in Longs
  PROVE  Long(b + d) \in Longs /\ Sub(Long(b + d), b) = d
<1>1. b \in 0 .. Words - 1 /\ d \in 0 .. Words - 1 /\ Words \in Nat \ {0} BY LongsIs, Ranges
<1>2. b + d \in - Words .. (2 * Words) - 1 BY <1>1
<1>3. PICK x \in - Words .. (2 * Words) - 1, y \in 0 .. Words - 1 : x = b + d /\ y = Long(x) BY <1>2, Wrap
<1>4. /\ y = IF x < 0 THEN x + Words ELSE IF x < Words THEN x ELSE x - Words
      /\ y \in 0 .. Words - 1
  BY <1>3, Wrap
<1>5. Sub(y, b) = IF y >= b THEN y - b ELSE (y - b) + Words BY <1>1, <1>4, WrapSub
<1>. QED BY <1>1, <1>3, <1>4, <1>5, LongsIs

\* Moving a time away from another one.
LEMMA SubMove ==
  ASSUME NEW a \in Longs, NEW b \in Longs, NEW h \in Nat, Sub(a, b) + h < Words
  PROVE  Long(a + h) \in Longs /\ Sub(Long(a + h), b) = Sub(a, b) + h
<1>1. a \in 0 .. Words - 1 /\ b \in 0 .. Words - 1 /\ Words \in Nat \ {0} BY LongsIs, Ranges
<1>2. /\ Sub(a, b) = IF a >= b THEN a - b ELSE (a - b) + Words
      /\ Sub(a, b) \in 0 .. Words - 1
  BY <1>1, WrapSub
<1>3. PICK x \in - Words .. (2 * Words) - 1, y \in 0 .. Words - 1 : x = a + h /\ y = Long(x) BY <1>1, <1>2, Wrap
<1>4. /\ y = IF x < 0 THEN x + Words ELSE IF x < Words THEN x ELSE x - Words
      /\ y \in 0 .. Words - 1
  BY <1>3, Wrap
<1>5. Sub(y, b) = IF y >= b THEN y - b ELSE (y - b) + Words BY <1>1, <1>4, WrapSub
<1>. QED BY <1>1, <1>2, <1>3, <1>4, <1>5, LongsIs

\* A wrapped number differs by whole turns.
LEMMA LongTurns ==
  ASSUME NEW x \in Int
  PROVE  Long(x) \in Longs /\ \E e \in Int : Long(x) = x + (Words * e)
<1>1. Words \in Nat \ {0} /\ Long(x) = x % Words BY Ranges DEF Long, Words
<1>2. PICK q \in Int, r \in 0 .. Words - 1 : r = x % Words /\ x = (Words * q) + r BY <1>1, DivMod
<1>3. r = x + (Words * (- q)) /\ - q \in Int BY <1>1, <1>2
<1>. QED BY <1>1, <1>2, <1>3, LongsIs

----------------------------------------------------------------------------
(* Buckets *)

\* A bucket's level and its position there.
LEMMA BucketOf ==
  ASSUME NEW i \in Index
  PROVE  /\ Level(i) \in Levels /\ i % LVL_SIZE \in 0 .. LVL_SIZE - 1
         /\ i = (Level(i) * LVL_SIZE) + (i % LVL_SIZE)
<1>1. PICK s \in Nat \ {0, 1} : s = LVL_SIZE BY Sizes
<1>2. LVL_DEPTH \in Nat \ {0} BY WheelAssumption
<1>3. PICK n \in Int, r \in 0 .. s - 1 : n = i \div s /\ r = i % s /\ i = (s * n) + r
  <2>1. i \in Int /\ s \in Nat \ {0} BY <1>1, <1>2 DEF Index
  <2>. QED BY <2>1, DivMod
<1>4. i >= 0 /\ i < LVL_DEPTH * s BY <1>1, <1>2 DEF Index
<1>5. n >= 0
  <2> SUFFICES ASSUME n < 0 PROVE FALSE BY <1>3
  <2>1. n + 1 \in Int /\ n + 1 <= 0 BY <1>3
  <2>2. (n + 1) * s <= 0 * s BY <1>1, <2>1, Products
  <2>3. (s * n) + s <= 0 BY <1>1, <1>3, <2>2
  <2>. QED BY <1>1, <1>3, <1>4, <2>3
<1>6. n < LVL_DEPTH
  <2> SUFFICES ASSUME LVL_DEPTH <= n PROVE FALSE BY <1>2, <1>3
  <2>1. LVL_DEPTH * s <= n * s BY <1>1, <1>2, <1>3, Products
  <2>. QED BY <1>1, <1>2, <1>3, <1>4, <2>1
<1>7. Level(i) = n BY <1>1, <1>3 DEF Level
<1>8. i = (n * s) + r BY <1>1, <1>3
<1>9. n \in Levels BY <1>2, <1>3, <1>5, <1>6 DEF Levels
<1>. QED BY <1>1, <1>3, <1>7, <1>8, <1>9

\* Every level and position is a bucket.
LEMMA BucketAt ==
  ASSUME NEW n \in Levels, NEW r \in 0 .. LVL_SIZE - 1
  PROVE  /\ (n * LVL_SIZE) + r \in Index
         /\ Level((n * LVL_SIZE) + r) = n /\ ((n * LVL_SIZE) + r) % LVL_SIZE = r
<1>1. PICK s \in Nat \ {0, 1} : s = LVL_SIZE BY Sizes
<1>2. LVL_DEPTH \in Nat \ {0} /\ n \in Nat /\ n + 1 <= LVL_DEPTH BY WheelAssumption DEF Levels
<1>3. (n + 1) * s <= LVL_DEPTH * s BY <1>1, <1>2, Products
<1>4. (n * s) + r \in 0 .. (LVL_DEPTH * s) - 1 BY <1>1, <1>2, <1>3
<1>5. PICK i \in Int : i = (n * s) + r BY <1>4
<1>6. i = (s * n) + r BY <1>1, <1>2, <1>5
<1>7. i % s = r /\ i \div s = n BY <1>1, <1>2, <1>5, <1>6, ModUnique
<1>. QED BY <1>1, <1>4, <1>5, <1>7 DEF Index, Level

\* A level's turn.
LEMMA PeriodType ==
  ASSUME NEW i \in Index
  PROVE  /\ Period(i) \in Nat \ {0} /\ Period(i) < Half
         /\ \E k \in Nat \ {0} : Words = Period(i) * k
<1>1. Level(i) \in Levels BY BucketOf
<1>. QED BY <1>1, Turns, Reach DEF Period

\* A bucket is collected within one turn of its level.
LEMMA DistType ==
  ASSUME NEW i \in Index, NEW c \in Int
  PROVE  Dist(i, c) \in 0 .. Period(i) - 1 /\ Dist(i, c) < Half /\ Dist(i, c) \in Longs
<1>1. Level(i) \in Levels /\ i % LVL_SIZE \in 0 .. LVL_SIZE - 1 BY BucketOf
<1>2. LVL_GRAN(Level(i)) \in Nat \ {0} BY <1>1, Reach
<1>3. (i % LVL_SIZE) * LVL_GRAN(Level(i)) - c \in Int BY <1>1, <1>2, Sizes
<1>4. Period(i) \in Nat \ {0} /\ Period(i) < Half BY PeriodType
<1>5. Dist(i, c) \in 0 .. Period(i) - 1 BY <1>3, <1>4, DivMod DEF Dist
<1>. QED BY <1>4, <1>5, Ranges, LongsIs

\* A time that is the bucket's, up to turns of the level, and less than a
\* turn away is the distance.
LEMMA DistIs ==
  ASSUME NEW i \in Index, NEW c \in Int, NEW d \in 0 .. Period(i) - 1, NEW q \in Int,
         (i % LVL_SIZE) * LVL_GRAN(Level(i)) - c = (Period(i) * q) + d
  PROVE  Dist(i, c) = d
<1>1. Level(i) \in Levels /\ i % LVL_SIZE \in 0 .. LVL_SIZE - 1 BY BucketOf
<1>2. LVL_GRAN(Level(i)) \in Nat \ {0} BY <1>1, Reach
<1>3. (i % LVL_SIZE) * LVL_GRAN(Level(i)) - c \in Int BY <1>1, <1>2, Sizes
<1>4. Period(i) \in Nat \ {0} /\ Period(i) < Half BY PeriodType
<1>. QED BY <1>3, <1>4, ModUnique DEF Dist

\* The distance is what is missing to the bucket's own time, up to whole turns.
LEMMA DistHas ==
  ASSUME NEW i \in Index, NEW c \in Int
  PROVE  /\ (i % LVL_SIZE) * LVL_GRAN(Level(i)) \in Int
         /\ \E q \in Int : (i % LVL_SIZE) * LVL_GRAN(Level(i)) - c = (Period(i) * q) + Dist(i, c)
<1>1. Level(i) \in Levels /\ i % LVL_SIZE \in 0 .. LVL_SIZE - 1 BY BucketOf
<1>2. LVL_GRAN(Level(i)) \in Nat \ {0} BY <1>1, Reach
<1>3. (i % LVL_SIZE) * LVL_GRAN(Level(i)) - c \in Int /\ (i % LVL_SIZE) * LVL_GRAN(Level(i)) \in Int
  BY <1>1, <1>2, Sizes
<1>4. Period(i) \in Nat \ {0} /\ Period(i) < Half BY PeriodType
<1>. QED BY <1>3, <1>4, DivMod DEF Dist

\* The distance shrinks as the clock moves on.
LEMMA DistMove ==
  ASSUME NEW i \in Index, NEW c \in Longs, NEW a \in 0 .. Dist(i, c)
  PROVE  Dist(i, Long(c + a)) = Dist(i, c) - a
<1>0. c \in Int /\ c + a \in Int /\ Dist(i, c) \in 0 .. Period(i) - 1 BY LongsIs, Ranges, DistType
<1>1. PICK z \in Int, q \in Int :
        z = (i % LVL_SIZE) * LVL_GRAN(Level(i)) /\ z - c = (Period(i) * q) + Dist(i, c)
  BY <1>0, DistHas
<1>2. PICK k \in Nat \ {0} : Period(i) \in Nat \ {0} /\ Words = Period(i) * k BY PeriodType
<1>3. PICK e \in Int, y \in Longs : y = Long(c + a) /\ y = (c + a) + (Words * e) BY <1>0, LongTurns
<1>4. y \in Int BY <1>3, LongsIs, Ranges
<1>5. Dist(i, c) - a \in 0 .. Period(i) - 1 BY <1>0, <1>2
<1>6. PICK p \in Nat \ {0} : p = Period(i) BY <1>2
<1>7. Words * e = p * (k * e) /\ k * e \in Int BY <1>2, <1>3, <1>6
<1>8. PICK f \in Int : Words * e = p * f BY <1>7
<1>9. z - y = (p * (q - f)) + (Dist(i, c) - a) /\ q - f \in Int
  <2>1. PICK u \in Int, v \in Int : u = p * q /\ v = p * f BY <1>1, <1>6, <1>8
  <2>2. p * (q - f) = u - v /\ q - f \in Int BY <1>1, <1>6, <1>8, <2>1
  <2>3. PICK x \in Int : x = Dist(i, c) BY <1>0, <1>2
  <2>4. z - c = u + x /\ y = (c + a) + v BY <1>1, <1>3, <1>6, <1>8, <2>1, <2>3
  <2>5. a \in Int BY <1>0, <1>2
  <2>6. z - y = (u - v) + (x - a) BY <1>0, <1>4, <2>4, <2>5
  <2>. QED BY <2>2, <2>3, <2>6
<1>. QED BY <1>1, <1>3, <1>4, <1>5, <1>6, <1>9, DistIs

\* collect_expired_timers() looks at bucket i at the times at distance 0.
LEMMA Position ==
  ASSUME NEW i \in Index, NEW x \in Int
  PROVE  Dist(i, x) = 0 <=> x % LVL_GRAN(Level(i)) = 0
                            /\ (x \div LVL_GRAN(Level(i))) % LVL_SIZE = i % LVL_SIZE
<1>1. Level(i) \in Levels /\ i % LVL_SIZE \in 0 .. LVL_SIZE - 1 BY BucketOf
<1>2. PICK g \in Nat \ {0} : g = LVL_GRAN(Level(i)) BY <1>1, Reach
<1>3. PICK s \in Nat \ {0} : s = LVL_SIZE BY Sizes
<1>4. PICK r \in 0 .. s - 1 : r = i % LVL_SIZE BY <1>1, <1>3
<1>5. Period(i) = s * g BY <1>2, <1>3 DEF Period
<1>6. ASSUME Dist(i, x) = 0 PROVE x % g = 0 /\ (x \div g) % s = r
  <2>1. PICK q \in Int : (r * g) - x = ((s * g) * q) + 0 BY <1>2, <1>4, <1>5, <1>6, DistHas
  <2>2. PICK y \in Int : y = r - (s * q) BY <1>3, <1>4, <2>1
  <2>3. x = (g * y) + 0
    <3>1. g * y = (g * r) - ((s * g) * q) BY <1>2, <1>3, <1>4, <2>1, <2>2
    <3>2. PICK u \in Int, v \in Int : u = g * r /\ v = (s * g) * q BY <1>2, <1>3, <1>4, <2>1
    <3>3. g * y = u - v /\ u - x = v BY <1>2, <1>4, <2>1, <3>1, <3>2
    <3>. QED BY <3>2, <3>3
  <2>4. x % g = 0 /\ x \div g = y BY <1>2, <2>2, <2>3, ModUnique
  <2>5. y = (s * (- q)) + r /\ - q \in Int BY <1>3, <1>4, <2>1, <2>2
  <2>6. PICK p \in Int : p = - q BY <2>1
  <2>7. y \in Int /\ s \in Nat \ {0} /\ p \in Int /\ r \in 0 .. s - 1 /\ y = (s * p) + r
    BY <1>3, <1>4, <2>2, <2>5, <2>6
  <2>8. y % s = r BY <2>7, ModUnique
  <2>. QED BY <2>4, <2>8
<1>7. ASSUME x % g = 0, (x \div g) % s = r PROVE Dist(i, x) = 0
  <2>0. x \div g \in Int /\ x = (g * (x \div g)) + (x % g) BY <1>2, DivMod
  <2>1. PICK y \in Int : y = x \div g /\ x = (g * y) + 0 BY <1>7, <2>0
  <2>a. y \div s \in Int /\ y = (s * (y \div s)) + (y % s) BY <1>3, <2>1, DivMod
  <2>b. y % s = r BY <1>7, <2>1
  <2>2. PICK z \in Int : y = (s * z) + r BY <2>a, <2>b
  <2>3. g * y = ((s * g) * z) + (r * g) BY <1>2, <1>3, <1>4, <2>1, <2>2
  <2>4. (r * g) - x = ((s * g) * (- z)) + 0 /\ - z \in Int
    <3>1. PICK u \in Int, v \in Int : u = r * g /\ v = (s * g) * z BY <1>2, <1>3, <1>4, <2>2
    <3>2. x = v + u BY <2>1, <2>3, <3>1
    <3>3. (s * g) * (- z) = - v BY <1>2, <1>3, <2>2, <3>1
    <3>. QED BY <2>2, <3>1, <3>2, <3>3
  <2>5. 0 \in 0 .. Period(i) - 1 BY PeriodType
  <2>. QED BY <1>2, <1>4, <1>5, <2>4, <2>5, DistIs
<1>. QED BY <1>2, <1>3, <1>4, <1>6, <1>7

\* At a time at distance 0 and from a time less than a turn before it.
LEMMA DistZero ==
  ASSUME NEW i \in Index, NEW c \in Longs, NEW d \in 0 .. Period(i) - 1
  PROVE  Dist(i, Long(c + d)) = 0 <=> d = Dist(i, c)
<1>0. PICK p \in Nat \ {0} : p = Period(i) /\ p < Half BY PeriodType
<1>1. c \in Int /\ Dist(i, c) \in 0 .. p - 1
  <2>1. c \in Int BY LongsIs, Ranges
  <2>. QED BY <1>0, <2>1, DistType
<1>2. d = Dist(i, c) => Dist(i, Long(c + d)) = 0 BY <1>0, <1>1, DistMove
<1>3. ASSUME Dist(i, Long(c + d)) = 0 PROVE d = Dist(i, c)
  <2>0. c + d \in Int BY <1>0, <1>1
  <2>1. PICK e \in Int, y \in Longs : y = Long(c + d) /\ y = (c + d) + (Words * e) BY <2>0, LongTurns
  <2>2. y \in Int BY <2>1, LongsIs, Ranges
  <2>3. PICK z \in Int, q \in Int : z = (i % LVL_SIZE) * LVL_GRAN(Level(i)) /\ z - y = (p * q) + 0
    BY <1>0, <1>3, <2>1, <2>2, DistHas
  <2>4. PICK k \in Nat \ {0} : Words = p * k BY <1>0, PeriodType
  <2>5. Words * e = p * (k * e) /\ k * e \in Int BY <1>0, <2>1, <2>4
  <2>6. PICK f \in Int : Words * e = p * f BY <2>5
  <2>7. z - c = (p * (q + f)) + d /\ q + f \in Int
    <3>1. PICK u \in Int, v \in Int : u = p * q /\ v = p * f BY <1>0, <2>3, <2>6
    <3>2. p * (q + f) = u + v /\ q + f \in Int BY <1>0, <2>3, <2>6, <3>1
    <3>3. z - y = u /\ y = (c + d) + v BY <2>1, <2>3, <2>6, <3>1
    <3>4. z - c = (u + v) + d BY <1>0, <1>1, <2>2, <3>3
    <3>. QED BY <3>2, <3>4
  <2>. QED BY <1>0, <1>1, <2>3, <2>7, DistIs
<1>. QED BY <1>2, <1>3

\* The reference definition of a bucket's expiry in terms of the distance.
LEMMA BucketExpiryIs ==
  ASSUME NEW i \in Index, clk \in Longs
  PROVE  /\ BucketExpiry(i) = Long(clk + Dist(i, clk)) /\ BucketExpiry(i) \in Longs
         /\ Sub(BucketExpiry(i), clk) = Dist(i, clk)
<1> DEFINE g == LVL_GRAN(Level(i))
           D == {d \in 0 .. LVL_SIZE * g - 1 :
                   LET x == Long(clk + d) IN x % g = 0 /\ (x \div g) % LVL_SIZE = i % LVL_SIZE}
<1>1. clk \in Int /\ Period(i) \in Nat \ {0} /\ Dist(i, clk) \in 0 .. Period(i) - 1 /\ Dist(i, clk) \in Longs
  <2>1. clk \in Int BY LongsIs, Ranges
  <2>. QED BY <2>1, PeriodType, DistType
<1>2. ASSUME NEW d \in 0 .. Period(i) - 1
      PROVE  LET x == Long(clk + d)
             IN (x % g = 0 /\ (x \div g) % LVL_SIZE = i % LVL_SIZE) <=> d = Dist(i, clk)
  <2>1. Long(clk + d) \in Longs BY <1>1, LongTurns
  <2>2. PICK x \in Int : x = Long(clk + d) BY <2>1, LongsIs, Ranges
  <2>3. Dist(i, x) = 0 <=> (x % g = 0 /\ (x \div g) % LVL_SIZE = i % LVL_SIZE) BY <2>2, Position
  <2>4. Dist(i, x) = 0 <=> d = Dist(i, clk) BY <1>2, <2>2, DistZero
  <2> HIDE DEF g
  <2>. QED BY <2>2, <2>3, <2>4
<1>3. 0 .. LVL_SIZE * g - 1 = 0 .. Period(i) - 1 BY DEF Period
<1>4. D = {Dist(i, clk)}
  <2>1. D = {d \in 0 .. Period(i) - 1 :
                   LET x == Long(clk + d) IN x % g = 0 /\ (x \div g) % LVL_SIZE = i % LVL_SIZE}
    BY <1>3
  <2> HIDE DEF D, g
  <2>. QED BY <1>1, <1>2, <2>1
<1>5. BucketExpiry(i) = Long(clk + CHOOSE d \in D : TRUE) BY DEF BucketExpiry
<1> HIDE DEF D
<1>6. (CHOOSE d \in D : TRUE) = Dist(i, clk) BY <1>4
<1>7. BucketExpiry(i) = Long(clk + Dist(i, clk)) BY <1>5, <1>6
<1>. QED BY <1>1, <1>7, AddSub

\* The buckets that are due at a time are those at distance 0.
LEMMA CollectedIs ==
  ASSUME NEW c \in Longs, pending_map \subseteq Index
  PROVE  Collected(c) = {i \in pending_map : Dist(i, c) = 0}
<1> DEFINE at(n) == (n * LVL_SIZE) + ((c \div LVL_GRAN(n)) % LVL_SIZE)
           on == {n \in 0 .. LVL_DEPTH - 1 : c % LVL_GRAN(n) = 0}
<1>0. c \in Int BY LongsIs, Ranges
<1>1. ASSUME NEW i \in pending_map, Dist(i, c) = 0
      PROVE  \E n \in on : i = at(n)
  <2>1. i \in Index BY <1>1
  <2>2. c % LVL_GRAN(Level(i)) = 0 /\ (c \div LVL_GRAN(Level(i))) % LVL_SIZE = i % LVL_SIZE
    BY <1>0, <1>1, <2>1, Position
  <2>3. Level(i) \in Levels /\ i = (Level(i) * LVL_SIZE) + (i % LVL_SIZE) BY <2>1, BucketOf
  <2>. QED BY <2>2, <2>3 DEF Levels
<1>2. ASSUME NEW n \in on PROVE at(n) \in Index /\ Dist(at(n), c) = 0
  <2>1. n \in Levels BY DEF Levels
  <2>2. PICK g \in Nat \ {0} : g = LVL_GRAN(n) BY <2>1, Reach
  <2>3. PICK y \in Int : y = c \div g BY <1>0, <2>2, DivMod
  <2>4. LVL_SIZE \in Nat \ {0} BY Sizes
  <2>5. PICK r \in 0 .. LVL_SIZE - 1 : r = y % LVL_SIZE BY <2>3, <2>4, DivMod
  <2>6. PICK i : i = (n * LVL_SIZE) + r OBVIOUS
  <2>7. i \in Index /\ Level(i) = n /\ i % LVL_SIZE = r BY <2>1, <2>5, <2>6, BucketAt
  <2>8. i = at(n) /\ c % g = 0 BY <2>2, <2>3, <2>5, <2>6
  <2> HIDE DEF at
  <2>. QED BY <1>0, <2>2, <2>3, <2>5, <2>7, <2>8, Position
<1>3. Collected(c) = {at(n) : n \in on} \cap pending_map BY DEF Collected
<1> HIDE DEF at, on
<1>. QED BY <1>1, <1>2, <1>3

----------------------------------------------------------------------------
(* The bucket of an expiry *)

\* A timeout within a level's reach: the bucket is collected after the expiry
\* and a granule later at most.
LEMMA CalcIndex ==
  ASSUME NEW e \in Longs, NEW c \in Longs, NEW n \in Levels, Sub(e, c) < LVL_START(n + 1),
         NEW b, b = calc_index(e, n)
  PROVE  /\ b.idx \in Index /\ b.expiry \in Longs /\ Level(b.idx) = n
         /\ Sub(b.expiry, c) = Dist(b.idx, c)
         /\ \E h \in 1 .. LVL_GRAN(n) : Sub(b.expiry, e) = h /\ Dist(b.idx, c) = Sub(e, c) + h
<1>1. PICK g \in Nat \ {0} : g = LVL_GRAN(n) BY Reach
<1>2. PICK s \in Nat \ {0, 1} : s = LVL_SIZE BY Sizes
<1>3. PICK p \in Nat \ {0} : p = s * g /\ p = LVL_START(n + 1) + g /\ p < Half
  BY <1>1, <1>2, Reach, Turns
<1>4. e \in Int /\ c \in Int /\ e \in 0 .. Words - 1 /\ c \in 0 .. Words - 1 BY LongsIs, Ranges
<1>5. e \div g \in Int /\ e % g \in 0 .. g - 1 /\ e = (g * (e \div g)) + (e % g) BY <1>1, <1>4, DivMod
<1>6. PICK k \in Int, h \in 1 .. g : k = (e \div g) + 1 /\ k * g = e + h
  <2>1. PICK a \in Int, y \in 0 .. g - 1 : a = e \div g /\ e = (g * a) + y BY <1>5
  <2>2. (a + 1) * g = (g * a) + g BY <1>1, <2>1
  <2>3. PICK z \in Int : z = g * a BY <1>1, <2>1
  <2>4. (a + 1) * g = e + (g - y) /\ g - y \in 1 .. g BY <1>1, <1>4, <2>1, <2>2, <2>3
  <2>5. a + 1 \in Int /\ a + 1 = (e \div g) + 1 BY <2>1
  <2>6. PICK k \in Int, h \in 1 .. g : k = (e \div g) + 1 /\ k = a + 1 /\ h = g - y BY <2>4, <2>5
  <2>7. k * g = e + h BY <2>4, <2>6
  <2>. QED BY <2>6, <2>7
<1>7. PICK u \in Int, r \in 0 .. s - 1 : r = k % s /\ k = (s * u) + r
  <2>1. k \in Int /\ s \in Nat \ {0} BY <1>2, <1>6
  <2>. QED BY <2>1, DivMod
<1>8. PICK i : i = (n * s) + r OBVIOUS
<1>9. i \in Index /\ Level(i) = n /\ i % LVL_SIZE = r BY <1>2, <1>7, <1>8, BucketAt
<1>10. b.idx = i /\ b.expiry = Long(e + h) BY <1>1, <1>2, <1>6, <1>7, <1>8 DEF calc_index
<1>11. PICK d \in 0 .. Words - 1 : d = Sub(e, c) /\ d = IF e >= c THEN e - c ELSE (e - c) + Words
  BY <1>4, WrapSub
<1>12. d + h < p BY <1>1, <1>3, <1>6, <1>11, Ranges, Reach
<1>13. Period(i) = p BY <1>1, <1>2, <1>3, <1>9 DEF Period
<1>14. PICK w \in Nat \ {0} : Words = p * w BY <1>9, <1>13, PeriodType
<1>15. \E q \in Int : (r * g) - c = (p * q) + (d + h)
  <2>1. r * g = (e + h) - (p * u)
    <3>1. k * g = ((s * g) * u) + (r * g) BY <1>1, <1>2, <1>6, <1>7
    <3>2. PICK x \in Int, y \in Int : x = p * u /\ y = r * g BY <1>1, <1>2, <1>3, <1>7
    <3>. QED BY <1>1, <1>3, <1>4, <1>6, <3>1, <3>2
  <2>2. CASE e >= c
    <3>1. p * (- u) = - (p * u) /\ - u \in Int /\ p * u \in Int BY <1>3, <1>7
    <3>2. PICK x \in Int, f \in Int : x = p * u /\ f = - u /\ p * f = - x BY <3>1
    <3>3. (r * g) - c = ((e + h) - x) - c BY <2>1, <3>2
    <3>4. (r * g) - c = (p * f) + (d + h) BY <1>1, <1>4, <1>6, <1>11, <2>2, <3>2, <3>3
    <3>. QED BY <3>2, <3>4
  <2>3. CASE e < c
    <3>0. p * ((- u) - w) = (- (p * u)) - (p * w) /\ (- u) - w \in Int /\ p * u \in Int
      <4>1. p \in Int /\ u \in Int /\ w \in Int BY <1>3, <1>7, <1>14
      <4>. QED BY <4>1
    <3>1. p * ((- u) - w) = (- (p * u)) - Words /\ (- u) - w \in Int /\ p * u \in Int BY <1>14, <3>0
    <3>2. PICK x \in Int, f \in Int : x = p * u /\ f = (- u) - w /\ p * f = (- x) - Words BY <3>1
    <3>3. (r * g) - c = ((e + h) - x) - c BY <2>1, <3>2
    <3>4. (r * g) - c = (p * f) + (d + h) BY <1>1, <1>4, <1>6, <1>11, <2>3, <3>2, <3>3, Ranges
    <3>. QED BY <3>2, <3>4
  <2>. QED BY <1>4, <2>2, <2>3
<1>16. Dist(i, c) = d + h
  <2>1. d + h \in 0 .. p - 1 BY <1>1, <1>3, <1>6, <1>11, <1>12, Ranges
  <2>. QED BY <1>1, <1>4, <1>9, <1>13, <1>15, <2>1, DistIs
<1>17. h \in Longs /\ Sub(e, c) + h < Words /\ h \in Nat
  <2>1. h \in Nat /\ h < p /\ d + h < p /\ p < Words BY <1>1, <1>3, <1>6, <1>11, <1>12, Ranges
  <2>. QED BY <1>3, <1>11, <2>1, Ranges, LongsIs
<1>18. Long(e + h) \in Longs /\ Sub(Long(e + h), e) = h BY <1>17, AddSub
<1>19. Sub(Long(e + h), c) = Sub(e, c) + h BY <1>17, SubMove
<1>. QED BY <1>1, <1>6, <1>9, <1>10, <1>11, <1>16, <1>18, <1>19

\* Any timeout: the bucket's expiry is the time at which it is collected; if
\* the timer was not too far away that is one granule after the expiry at
\* most, or now for an overdue timer.
LEMMA CalcWheelIndex ==
  ASSUME NEW e \in Longs, NEW c \in Longs, NEW b, b = calc_wheel_index(e, c)
  PROVE  /\ b.idx \in Index /\ b.expiry \in Longs
         /\ Sub(b.expiry, c) = Dist(b.idx, c)
         /\ \/ Far(e, c)
            \/ Sub(e, c) >= Half /\ b.expiry = c /\ Dist(b.idx, c) = 0
            \/ \E h \in 1 .. LVL_GRAN(Level(b.idx)) :
                  Sub(b.expiry, e) = h /\ Dist(b.idx, c) = Sub(e, c) + h
<1> DEFINE delta == Sub(e, c)
           fits == {n \in 0 .. LVL_DEPTH - 2 : delta < LVL_START(n + 1)}
           least == CHOOSE n \in fits : \A k \in fits : n <= k
<1>0. LVL_DEPTH \in Nat \ {0} /\ LVL_DEPTH - 1 \in Levels /\ 0 \in Levels BY WheelAssumption DEF Levels
<1>1. delta \in 0 .. Words - 1 BY WrapSub, LongsIs
<1>2. CASE fits # {}
  <2>1. least \in fits
    <3>1. fits \in SUBSET Nat BY <1>0
    <3> HIDE DEF fits
    <3>2. \E n \in fits : \A k \in fits : n <= k BY <1>2, <3>1, LeastNatural
    <3>. QED BY <3>2
  <2>2. least \in Levels /\ delta < LVL_START(least + 1) BY <1>0, <2>1 DEF Levels
  <2>3. b = calc_index(e, least) BY <1>2 DEF calc_wheel_index
  <2> HIDE DEF least, fits
  <2>. QED BY <2>2, <2>3, CalcIndex
<1>3. CASE fits = {} /\ delta >= 2^(Width - 1)
  <2>1. b.idx = c % LVL_SIZE /\ b.expiry = c BY <1>3 DEF calc_wheel_index
  <2>2. PICK s \in Nat \ {0} : s = LVL_SIZE BY Sizes
  <2>3. c \in Int /\ Words \in Nat BY LongsIs, Ranges
  <2>4. PICK r \in 0 .. s - 1 : r = c % s BY <2>2, <2>3, DivMod
  <2>5. (0 * LVL_SIZE) + r = r BY <2>2
  <2>6. r \in Index /\ Level(r) = 0 /\ r % LVL_SIZE = r BY <1>0, <2>2, <2>4, <2>5, BucketAt
  <2>7. c % 1 = 0 /\ c \div 1 = c BY <2>3
  <2>8. Dist(r, c) = 0
    <3>1. LVL_GRAN(Level(r)) = 1 BY <2>6, Grans
    <3>2. c % LVL_GRAN(Level(r)) = 0 /\ (c \div LVL_GRAN(Level(r))) % LVL_SIZE = r % LVL_SIZE
      BY <2>2, <2>4, <2>6, <2>7, <3>1
    <3>. QED BY <2>3, <2>6, <3>2, Position
  <2>9. Sub(c, c) = 0 BY WrapSub, LongsIs, Ranges
  <2>. QED BY <1>3, <2>1, <2>2, <2>4, <2>6, <2>8, <2>9 DEF Half
<1>4. CASE fits = {} /\ delta < 2^(Width - 1) /\ delta < WHEEL_TIMEOUT_CUTOFF
  <2>1. b = calc_index(e, LVL_DEPTH - 1)
    <3>1. delta \in Int /\ WHEEL_TIMEOUT_CUTOFF \in Int /\ 2^(Width - 1) \in Int BY <1>0, <1>1, Reach, Ranges DEF Half
    <3> HIDE DEF fits
    <3>2. ~(delta >= 2^(Width - 1)) /\ ~(delta >= WHEEL_TIMEOUT_CUTOFF) BY <1>4, <3>1
    <3>. QED BY <1>4, <3>2 DEF calc_wheel_index, fits
  <2>2. (LVL_DEPTH - 1) + 1 = LVL_DEPTH BY <1>0
  <2>3. delta < LVL_START((LVL_DEPTH - 1) + 1) BY <1>4, <2>2 DEF WHEEL_TIMEOUT_CUTOFF
  <2>. QED BY <1>0, <2>1, <2>3, CalcIndex
<1>5. CASE fits = {} /\ delta < 2^(Width - 1) /\ delta >= WHEEL_TIMEOUT_CUTOFF
  <2>1. WHEEL_TIMEOUT_MAX \in Nat /\ WHEEL_TIMEOUT_CUTOFF \in Nat /\ WHEEL_TIMEOUT_MAX < WHEEL_TIMEOUT_CUTOFF
    BY <1>0, Reach
  <2>2. WHEEL_TIMEOUT_MAX \in Longs BY <1>0, <2>1, Reach, Ranges, LongsIs
  <2>3. PICK f \in Longs : f = Long(c + WHEEL_TIMEOUT_MAX) /\ Sub(f, c) = WHEEL_TIMEOUT_MAX
    BY <2>2, AddSub
  <2>4. b = calc_index(f, LVL_DEPTH - 1)
    <3>1. delta \in Int /\ 2^(Width - 1) \in Int BY <1>1, Ranges DEF Half
    <3> HIDE DEF fits
    <3>2. ~(delta >= 2^(Width - 1)) BY <1>5, <3>1
    <3>. QED BY <1>5, <2>3, <3>2 DEF calc_wheel_index, fits
  <2>5. (LVL_DEPTH - 1) + 1 = LVL_DEPTH BY <1>0
  <2>6. Sub(f, c) < LVL_START((LVL_DEPTH - 1) + 1) BY <2>1, <2>3, <2>5 DEF WHEEL_TIMEOUT_CUTOFF
  <2>7. b.idx \in Index /\ b.expiry \in Longs /\ Sub(b.expiry, c) = Dist(b.idx, c)
    BY <1>0, <2>4, <2>6, CalcIndex
  <2>8. Far(e, c) BY <1>1, <1>5, <2>1, Ranges DEF Far, Half
  <2>. QED BY <2>7, <2>8
<1>6. delta \in Int /\ WHEEL_TIMEOUT_CUTOFF \in Int /\ 2^(Width - 1) \in Int BY <1>0, <1>1, Reach, Ranges DEF Half
<1> HIDE DEF fits, delta
<1>. QED BY <1>2, <1>3, <1>4, <1>5, <1>6

----------------------------------------------------------------------------
(* The clocks of the levels *)

\* A time in granules of level n, rounded up.
Ceil(c, n) == ((c + LVL_GRAN(n)) - 1) \div LVL_GRAN(n)

\* The clock of a level, rounded up, is less than a granule ahead.
LEMMA CeilIs ==
  ASSUME NEW c \in Nat, NEW n \in Nat
  PROVE  Ceil(c, n) \in Int /\ (Ceil(c, n) * LVL_GRAN(n)) - c \in 0 .. LVL_GRAN(n) - 1
<1>1. PICK g \in Nat \ {0} : g = LVL_GRAN(n) BY Grans
<1>2. PICK x \in Int : x = (c + g) - 1 BY <1>1
<1>3. PICK q \in Int, r \in 0 .. g - 1 : q = x \div g /\ x = (g * q) + r BY <1>1, <1>2, DivMod
<1>4. PICK z \in Int : z = g * q /\ z = q * g BY <1>1, <1>3
<1>5. z - c \in 0 .. g - 1 BY <1>1, <1>2, <1>3, <1>4
<1>6. Ceil(c, n) = q BY <1>1, <1>2, <1>3 DEF Ceil
<1>. QED BY <1>1, <1>3, <1>4, <1>5, <1>6

\* Only one multiple of the granularity is that close.
LEMMA CeilUnique ==
  ASSUME NEW c \in Nat, NEW n \in Nat, NEW l \in Int, (l * LVL_GRAN(n)) - c \in 0 .. LVL_GRAN(n) - 1
  PROVE  Ceil(c, n) = l
<1>1. PICK g \in Nat \ {0} : g = LVL_GRAN(n) BY Grans
<1>2. PICK x \in Int : x = (c + g) - 1 BY <1>1
<1>3. PICK z \in Int : z = g * l /\ z = l * g BY <1>1
<1>4. PICK r \in 0 .. g - 1 : r = x - z BY <1>1, <1>2, <1>3
<1>5. x = (g * l) + r BY <1>2, <1>3, <1>4
<1>6. x \div g = l BY <1>1, <1>2, <1>4, <1>5, ModUnique
<1>. QED BY <1>1, <1>2, <1>6 DEF Ceil

\* Shifting down and rounding up once more, and the granules up to there.
LEMMA CeilStep ==
  ASSUME NEW c \in Nat, NEW n \in Nat
  PROVE  LET k == Ceil(c, n)
         IN /\ Ceil(c, n + 1) = (k \div LVL_CLK_DIV) + (IF k % LVL_CLK_DIV = 0 THEN 0 ELSE 1)
            /\ k + ((LVL_CLK_DIV - (k % LVL_CLK_DIV)) % LVL_CLK_DIV) = LVL_CLK_DIV * Ceil(c, n + 1)
<1>1. PICK g \in Nat \ {0} : g = LVL_GRAN(n) BY Grans
<1>2. PICK d \in Nat \ {0} : d = LVL_CLK_DIV BY Sizes
<1>3. PICK f \in Nat \ {0} : f = LVL_GRAN(n + 1) /\ f = d * g BY <1>1, <1>2, Grans
<1>4. PICK k \in Int : k = Ceil(c, n) /\ (k * g) - c \in 0 .. g - 1 BY <1>1, CeilIs
<1>5. PICK q \in Int, r \in 0 .. d - 1 : q = k \div d /\ r = k % d /\ k = (d * q) + r
  <2>1. k \in Int /\ d \in Nat \ {0} BY <1>2, <1>4
  <2>. QED BY <2>1, DivMod
<1>6. PICK l \in Int : l = q + (IF r = 0 THEN 0 ELSE 1) BY <1>5
<1>7. PICK a \in 0 .. d - 1 : a = (IF r = 0 THEN 0 ELSE d - r) /\ d * l = k + a
  <2>1. CASE r = 0
    <3>0. PICK z \in Int : z = d * q BY <1>2, <1>5
    <3>1. l = q /\ k = d * q
      <4>1. l = q BY <1>5, <1>6, <2>1
      <4>2. k = z + r BY <1>5, <3>0
      <4>. QED BY <2>1, <3>0, <4>1, <4>2
    <3>2. d * l = k + 0 /\ 0 \in 0 .. d - 1 BY <1>2, <1>4, <3>1
    <3>. QED BY <2>1, <3>2
  <2>2. CASE r # 0
    <3>1. l = q + 1 /\ d * l = (d * q) + d BY <1>2, <1>5, <1>6, <2>2
    <3>2. PICK z \in Int : z = d * q BY <1>2, <1>5
    <3>3. k = z + r /\ d * l = z + d BY <1>5, <3>1, <3>2
    <3>4. k \in Int /\ r \in 0 .. d - 1 /\ d \in Nat \ {0} BY <1>2, <1>4, <1>5
    <3>5. d * l = k + (d - r) /\ d - r \in 0 .. d - 1 BY <2>2, <3>2, <3>3, <3>4
    <3>. QED BY <2>2, <3>5
  <2>. QED BY <2>1, <2>2
<1>8. (d - r) % d = a
  <2>1. d - r \in - d .. (2 * d) - 1 BY <1>2, <1>5
  <2>2. (d - r) % d = IF d - r < 0 THEN (d - r) + d ELSE IF d - r < d THEN d - r ELSE (d - r) - d
    BY <1>2, <2>1, ModNear
  <2>. QED BY <1>2, <1>5, <1>7, <2>2
<1>9. (l * f) - c \in 0 .. f - 1
  <2>1. l * f = (d * l) * g BY <1>1, <1>2, <1>3, <1>6
  <2>2. (d * l) * g = (k + a) * g BY <1>7
  <2>3. (k + a) * g = (k * g) + (a * g) BY <1>1, <1>4, <1>7
  <2>4. a * g <= (d - 1) * g /\ 0 * g <= a * g /\ a * g \in Int BY <1>1, <1>2, <1>7, Products
  <2>5. (d - 1) * g = f - g BY <1>1, <1>2, <1>3
  <2>6. PICK x \in Int, y \in Int : x = k * g /\ y = a * g BY <1>1, <1>4, <2>4
  <2>7. l * f = x + y /\ 0 <= y /\ y <= f - g BY <1>1, <2>1, <2>2, <2>3, <2>4, <2>5, <2>6
  <2>. QED BY <1>1, <1>3, <1>4, <2>6, <2>7
<1>10. Ceil(c, n + 1) = l BY <1>3, <1>6, <1>9, CeilUnique
<1>. QED BY <1>2, <1>4, <1>5, <1>6, <1>7, <1>8, <1>10

\* A coarser level's clock, as a time, is not earlier.
LEMMA CeilMono ==
  ASSUME NEW c \in Nat, NEW m \in Nat, NEW n \in Nat, m <= n
  PROVE  Ceil(c, m) * LVL_GRAN(m) <= Ceil(c, n) * LVL_GRAN(n)
<1>1. PICK g \in Nat \ {0} : g = LVL_GRAN(m) BY Grans
<1>2. PICK f \in Nat \ {0} : f = LVL_GRAN(n) BY Grans
<1>3. PICK k \in Nat \ {0} : f = g * k BY <1>1, <1>2, GranMultiple
<1>4. PICK a \in Int : a = Ceil(c, m) /\ (a * g) - c \in 0 .. g - 1 BY <1>1, CeilIs
<1>5. PICK b \in Int : b = Ceil(c, n) /\ (b * f) - c \in 0 .. f - 1 BY <1>2, CeilIs
<1>6. PICK e \in Int : e = k * b BY <1>3, <1>5
<1>7. b * f = e * g BY <1>1, <1>3, <1>5, <1>6
<1>8. ASSUME e < a PROVE FALSE
  <2>1. e <= a - 1 /\ a - 1 \in Int BY <1>4, <1>6, <1>8
  <2>2. e * g <= (a - 1) * g /\ e * g \in Int BY <1>1, <1>6, <2>1, Products
  <2>3. (a - 1) * g = (a * g) - g /\ a * g \in Int BY <1>1, <1>4
  <2>. QED BY <1>1, <1>2, <1>4, <1>5, <1>7, <2>2, <2>3
<1>9. a * g <= e * g
  <2>1. a <= e BY <1>4, <1>6, <1>8
  <2>. QED BY <1>1, <1>4, <1>6, <2>1, Products
<1>. QED BY <1>1, <1>2, <1>4, <1>5, <1>7, <1>9

\* __next_timer_interrupt()'s clocks are the rounded times.
LEMMA LvlClk ==
  ASSUME NEW c \in Nat, NEW n \in Levels
  PROVE  lvl_clk(c)[n] = Ceil(c, n)
<1> DEFINE S == 0 .. LVL_DEPTH - 1
           step(f) == [j \in S |-> IF j = 0 THEN c
                        ELSE (f[j - 1] \div LVL_CLK_DIV) + (IF f[j - 1] % LVL_CLK_DIV = 0 THEN 0 ELSE 1)]
           g == [j \in S |-> Ceil(c, j)]
<1>0. LVL_DEPTH \in Nat \ {0} BY WheelAssumption
<1>1. Ceil(c, 0) = c
  <2>1. (c * LVL_GRAN(0)) - c \in 0 .. LVL_GRAN(0) - 1 BY Grans
  <2>. QED BY <2>1, CeilUnique
<1>2. ASSUME NEW j \in S, j # 0
      PROVE  LET k == Ceil(c, j - 1)
             IN Ceil(c, j) = (k \div LVL_CLK_DIV) + (IF k % LVL_CLK_DIV = 0 THEN 0 ELSE 1)
  <2>1. j - 1 \in Nat /\ (j - 1) + 1 = j BY <1>0, <1>2
  <2>. QED BY <2>1, CeilStep
<1>3. g = step(g)
  <2>1. ASSUME NEW j \in S PROVE g[j] = step(g)[j]
    <3>1. CASE j = 0 BY <1>1, <3>1
    <3>2. CASE j # 0
      <4>1. j - 1 \in S BY <1>0, <3>2
      <4>2. g[j - 1] = Ceil(c, j - 1) /\ g[j] = Ceil(c, j) BY <4>1
      <4>. QED BY <1>2, <3>2, <4>2
    <3>. QED BY <3>1, <3>2
  <2>. QED BY <2>1
<1>4. lvl_clk(c) = CHOOSE f : f = step(f) BY DEF lvl_clk
<1> DEFINE h == lvl_clk(c)
<1>5. h = step(h)
  <2> HIDE DEF step, g
  <2>. QED BY <1>3, <1>4
<1> HIDE DEF h
<1>6. \A j \in S : h[j] = g[j]
  <2> DEFINE bad == {j \in S : h[j] # g[j]}
  <2> SUFFICES ASSUME bad # {} PROVE FALSE OBVIOUS
  <2>1. bad \in SUBSET Nat BY <1>0
  <2>2. PICK j \in bad : \A k \in bad : j <= k
    <3> HIDE DEF bad
    <3>. QED BY <2>1, LeastNatural
  <2>3. CASE j = 0
    <3>1. h[j] = step(h)[j] /\ g[j] = step(g)[j] BY <1>3, <1>5
    <3>. QED BY <2>3, <3>1
  <2>4. CASE j # 0
    <3>1. j - 1 \in S /\ j - 1 < j BY <1>0, <2>4
    <3>2. h[j - 1] = g[j - 1] BY <1>0, <2>2, <3>1
    <3>3. h[j] = step(h)[j] /\ g[j] = step(g)[j] BY <1>3, <1>5
    <3>4. step(h)[j] = step(g)[j] BY <2>4, <3>2
    <3>. QED BY <3>3, <3>4
  <2>. QED BY <2>3, <2>4
<1>7. h[n] = g[n] /\ g[n] = Ceil(c, n) BY <1>6 DEF Levels
<1>. QED BY <1>7 DEF h

----------------------------------------------------------------------------
(* The next pending bucket *)

\* The bucket d positions after a level's clock.
After(c, n, d) == (n * LVL_SIZE) + (((Ceil(c, n) % LVL_SIZE) + d) % LVL_SIZE)

\* How far away the bucket d places after the clock of its level is.
LEMMA AfterDist ==
  ASSUME NEW c \in Longs, NEW n \in Levels, NEW d \in 0 .. LVL_SIZE - 1
  PROVE  /\ After(c, n, d) \in Index /\ Level(After(c, n, d)) = n
         /\ Ceil(c, n) \in Int
         /\ Dist(After(c, n, d), c) = ((Ceil(c, n) + d) * LVL_GRAN(n)) - c
<1>1. PICK g \in Nat \ {0} : g = LVL_GRAN(n) BY Reach
<1>2. PICK s \in Nat \ {0} : s = LVL_SIZE BY Sizes
<1>3. c \in Nat /\ n \in Nat BY LongsIs, Ranges DEF Levels
<1>4. PICK l \in Int : l = Ceil(c, n) /\ (l * g) - c \in 0 .. g - 1 BY <1>1, <1>3, CeilIs
<1>5. PICK a \in Int, x \in 0 .. s - 1 : x = l % s /\ l = (s * a) + x
  <2>1. l \in Int /\ s \in Nat \ {0} BY <1>2, <1>4
  <2>. QED BY <2>1, DivMod
<1>6. PICK b \in Int, r \in 0 .. s - 1 : r = (x + d) % s /\ x + d = (s * b) + r
  <2>1. x + d \in Int /\ s \in Nat \ {0} BY <1>2, <1>5
  <2>. QED BY <2>1, DivMod
<1>7. PICK i : i = (n * s) + r /\ i = After(c, n, d) BY <1>2, <1>4, <1>5, <1>6 DEF After
<1>8. i \in Index /\ Level(i) = n /\ i % LVL_SIZE = r BY <1>2, <1>6, <1>7, BucketAt
<1>9. PICK p \in Nat \ {0} : p = s * g /\ p = Period(i) BY <1>1, <1>2, <1>8, Turns DEF Period
<1>10. PICK u \in Int : u = a + b BY <1>5, <1>6
<1>11. l + d = (s * u) + r
  <2>1. s * u = (s * a) + (s * b) BY <1>2, <1>5, <1>6, <1>10
  <2>2. PICK y \in Int, z \in Int : y = s * a /\ z = s * b BY <1>2, <1>5, <1>6
  <2>3. l = y + x /\ x + d = z + r /\ s * u = y + z BY <1>5, <1>6, <2>1, <2>2
  <2>4. l \in Int /\ x \in Int /\ r \in Int /\ d \in Int BY <1>2, <1>4, <1>5, <1>6
  <2>. QED BY <2>2, <2>3, <2>4
<1>12. (l + d) * g = (p * u) + (r * g)
  <2>1. ((s * u) + r) * g = ((s * g) * u) + (r * g) BY <1>1, <1>2, <1>6, <1>10
  <2>. QED BY <1>9, <1>11, <2>1
<1>13. ((l + d) * g) - c \in 0 .. p - 1
  <2>1. (l + d) * g = (l * g) + (d * g) BY <1>1, <1>2, <1>4
  <2>2. 0 * g <= d * g /\ d * g <= (s - 1) * g /\ d * g \in Int BY <1>1, <1>2, Products
  <2>3. (s - 1) * g = p - g BY <1>1, <1>2, <1>9
  <2>4. PICK y \in Int, z \in Int : y = l * g /\ z = d * g BY <1>1, <1>4, <2>2
  <2>5. 0 <= z /\ z <= p - g /\ y - c \in 0 .. g - 1 /\ (l + d) * g = y + z
    BY <1>1, <1>4, <2>1, <2>2, <2>3, <2>4
  <2>. QED BY <1>1, <1>3, <1>9, <2>4, <2>5
<1>14. (r * g) - c = (p * (- u)) + (((l + d) * g) - c) /\ - u \in Int
  <2>1. PICK y \in Int, z \in Int, w \in Int : y = p * u /\ z = r * g /\ w = (l + d) * g
    BY <1>1, <1>2, <1>4, <1>6, <1>9, <1>10
  <2>2. p * (- u) = - y BY <1>9, <1>10, <2>1
  <2>3. w = y + z BY <1>12, <2>1
  <2>. QED BY <1>3, <1>10, <2>1, <2>2, <2>3
<1>15. PICK v \in Int, w \in 0 .. p - 1 : v = - u /\ w = ((l + d) * g) - c BY <1>10, <1>13
<1>16. Dist(i, c) = w
  <2>1. (i % LVL_SIZE) * LVL_GRAN(Level(i)) - c = (Period(i) * v) + w BY <1>1, <1>8, <1>9, <1>14, <1>15
  <2>. QED BY <1>3, <1>8, <1>9, <1>15, <2>1, DistIs
<1>. QED BY <1>1, <1>4, <1>7, <1>8, <1>15, <1>16

\* Every bucket of the level is one of them.
LEMMA AfterCover ==
  ASSUME NEW c \in Longs, NEW i \in Index
  PROVE  \E d \in 0 .. LVL_SIZE - 1 : i = After(c, Level(i), d)
<1>1. Level(i) \in Levels /\ i = (Level(i) * LVL_SIZE) + (i % LVL_SIZE) BY BucketOf
<1>2. PICK s \in Nat \ {0} : s = LVL_SIZE BY Sizes
<1>3. PICK r \in 0 .. s - 1 : r = i % s BY <1>2, BucketOf
<1>4. c \in Nat /\ Level(i) \in Nat BY <1>1, LongsIs, Ranges DEF Levels
<1>5. Ceil(c, Level(i)) \in Int BY <1>4, CeilIs
<1>6. PICK x \in 0 .. s - 1 : x = Ceil(c, Level(i)) % s BY <1>2, <1>5, DivMod
<1>7. PICK d \in 0 .. s - 1 : d = IF r >= x THEN r - x ELSE (r - x) + s BY <1>2, <1>3, <1>6
<1>8. (x + d) % s = r
  <2>1. PICK y \in - s .. (2 * s) - 1 : y = x + d BY <1>2, <1>6, <1>7
  <2>2. y % s = IF y < 0 THEN y + s ELSE IF y < s THEN y ELSE y - s BY <1>2, <2>1, ModNear
  <2>. QED BY <1>2, <1>3, <1>6, <1>7, <2>1, <2>2
<1>. QED BY <1>1, <1>2, <1>3, <1>6, <1>7, <1>8 DEF After

\* The search on one level finds its first bucket.
LEMMA FirstBucket ==
  ASSUME NEW map \in SUBSET Index, NEW c \in Longs, NEW n \in Levels, HasPending(map, c, n)
  PROVE  \E i \in map :
           /\ Level(i) = n
           /\ Dist(i, c) = ((lvl_clk(c)[n] + FirstIn(map, c, n)) * LVL_GRAN(n)) - c
           /\ \A j \in map : Level(j) = n => Dist(i, c) <= Dist(j, c)
           /\ FirstIn(map, c, n) \in 0 .. LVL_SIZE - 1
           /\ Sub(Long((lvl_clk(c)[n] + FirstIn(map, c, n)) * LVL_GRAN(n)), c) = Dist(i, c)
<1> DEFINE D == next_pending_bucket(map, n * LVL_SIZE, lvl_clk(c)[n] % LVL_SIZE)
           F == FirstIn(map, c, n)
<1>0. c \in Nat /\ c \in 0 .. Words - 1 /\ Words \in Nat \ {0} BY LongsIs, Ranges
<1>1. PICK l : l = lvl_clk(c)[n] /\ l = Ceil(c, n) BY <1>0, LvlClk
<1>2. D = {d \in 0 .. LVL_SIZE - 1 : After(c, n, d) \in map}
  BY <1>1 DEF next_pending_bucket, After
<1>3. F \in D /\ \A k \in D : F <= k
  <2>1. D \in SUBSET Nat /\ D # {} BY <1>2, Sizes DEF HasPending
  <2>2. F = CHOOSE d \in D : \A k \in D : d <= k BY DEF FirstIn
  <2> HIDE DEF D, F
  <2>3. \E d \in D : \A k \in D : d <= k BY <2>1, LeastNatural
  <2>. QED BY <2>2, <2>3
<1> HIDE DEF D, F
<1>4. F \in 0 .. LVL_SIZE - 1 /\ After(c, n, F) \in map BY <1>2, <1>3
<1>5. PICK i \in map : i = After(c, n, F) BY <1>4
<1>6. i \in Index /\ Level(i) = n /\ l \in Int /\ Dist(i, c) = ((l + F) * LVL_GRAN(n)) - c
  BY <1>1, <1>4, <1>5, AfterDist
<1>7. PICK g \in Nat \ {0} : g = LVL_GRAN(n) BY Reach
<1>8. ASSUME NEW j \in map, Level(j) = n PROVE Dist(i, c) <= Dist(j, c)
  <2>1. PICK d \in 0 .. LVL_SIZE - 1 : j = After(c, n, d) BY <1>8, AfterCover
  <2>2. F <= d BY <1>2, <1>3, <2>1
  <2>3. Dist(j, c) = ((l + d) * g) - c BY <1>1, <1>7, <2>1, AfterDist
  <2>4. F \in Int /\ d \in Int BY <1>4, Sizes
  <2>5. (l + F) * g <= (l + d) * g /\ (l + F) * g \in Int /\ (l + d) * g \in Int
    BY <1>6, <1>7, <2>2, <2>4, Products
  <2>. QED BY <1>0, <1>6, <1>7, <2>3, <2>5
<1>9. Sub(Long((l + F) * g), c) = Dist(i, c)
  <2>1. PICK d \in Longs : d = Dist(i, c) /\ d < Half BY <1>0, <1>6, DistType
  <2>2. F \in Int BY <1>4, Sizes
  <2>3. PICK z \in Int : z = (l + F) * g BY <1>6, <1>7, <2>2
  <2>4. z = c + d BY <1>0, <1>6, <1>7, <2>1, <2>3, LongsIs
  <2>. QED BY <2>1, <2>3, <2>4, AddSub
<1>. QED BY <1>1, <1>4, <1>6, <1>7, <1>8, <1>9 DEF F

\* next_pending_bucket() finds a bucket in a level that has one.
LEMMA HasPendingIf ==
  ASSUME NEW map \in SUBSET Index, NEW c \in Longs, NEW i \in map
  PROVE  HasPending(map, c, Level(i))
<1>1. i \in Index /\ Level(i) \in Levels BY BucketOf
<1>2. c \in Nat BY LongsIs, Ranges
<1>3. PICK d \in 0 .. LVL_SIZE - 1 : i = After(c, Level(i), d) BY <1>1, AfterCover
<1>4. lvl_clk(c)[Level(i)] = Ceil(c, Level(i)) BY <1>1, <1>2, LvlClk
<1>. QED BY <1>3, <1>4 DEF HasPending, next_pending_bucket, After

\* Where the search stops no bucket of a coarser level comes earlier.
LEMMA StopsRight ==
  ASSUME NEW map \in SUBSET Index, NEW c \in Longs, NEW n \in Levels, StopsAt(map, c, n),
         NEW j \in map, Level(j) > n
  PROVE  ((lvl_clk(c)[n] + FirstIn(map, c, n)) * LVL_GRAN(n)) - c <= Dist(j, c)
<1>0. c \in Nat /\ n \in Nat /\ j \in Index BY LongsIs, Ranges DEF Levels
<1>1. PICK m \in Levels : m = Level(j) BY <1>0, BucketOf
<1>2. PICK l \in Int : l = lvl_clk(c)[n] /\ l = Ceil(c, n) BY <1>0, LvlClk, CeilIs
<1>3. PICK g \in Nat \ {0} : g = LVL_GRAN(n) BY Reach
<1>4. PICK F \in 0 .. LVL_SIZE - 1 : F = FirstIn(map, c, n) BY FirstBucket DEF StopsAt
<1>5. F <= (LVL_CLK_DIV - (l % LVL_CLK_DIV)) % LVL_CLK_DIV BY <1>2, <1>4 DEF StopsAt
<1>6. PICK e \in Nat \ {0} : e = LVL_CLK_DIV BY Sizes
<1>7. PICK a \in Int : a = Ceil(c, n + 1) BY <1>0, CeilIs
<1>8. l + F <= e * a
  <2>1. PICK x : x = (e - (l % e)) % e /\ l + x = e * a BY <1>0, <1>2, <1>6, <1>7, CeilStep
  <2>2. l % e \in Int BY <1>2, <1>6, DivMod
  <2>3. x \in Int BY <1>6, <2>1, <2>2, DivMod
  <2>4. F <= x /\ F \in Int /\ l \in Int BY <1>2, <1>4, <1>5, <1>6, <2>1, Sizes
  <2>. QED BY <2>1, <2>3, <2>4
<1>9. (l + F) * g <= a * LVL_GRAN(n + 1) /\ a * LVL_GRAN(n + 1) \in Int
  <2>1. l + F \in Int /\ e * a \in Int BY <1>2, <1>4, <1>6, <1>7, Sizes
  <2>2. (l + F) * g <= (e * a) * g BY <1>3, <1>8, <2>1, Products
  <2>3. LVL_GRAN(n + 1) = e * g BY <1>0, <1>3, <1>6, Grans
  <2>4. a * (e * g) = (e * a) * g /\ a * (e * g) \in Int BY <1>3, <1>6, <1>7
  <2>. QED BY <2>2, <2>3, <2>4
<1>10. a * LVL_GRAN(n + 1) <= Ceil(c, m) * LVL_GRAN(m)
  <2>1. n + 1 \in Nat /\ m \in Nat /\ n + 1 <= m BY <1>0, <1>1 DEF Levels
  <2>. QED BY <1>0, <1>7, <2>1, CeilMono
<1>11. Ceil(c, m) * LVL_GRAN(m) - c <= Dist(j, c)
  <2>1. PICK d \in 0 .. LVL_SIZE - 1 : j = After(c, m, d) BY <1>0, <1>1, AfterCover
  <2>2. Dist(j, c) = ((Ceil(c, m) + d) * LVL_GRAN(m)) - c BY <1>1, <2>1, AfterDist
  <2>3. PICK k \in Int, f \in Nat \ {0} : k = Ceil(c, m) /\ f = LVL_GRAN(m) BY <1>0, <1>1, Reach, CeilIs DEF Levels
  <2>4. k <= k + d /\ k + d \in Int BY <2>1, <2>3, Sizes
  <2>5. k * f <= (k + d) * f /\ k * f \in Int /\ (k + d) * f \in Int BY <2>3, <2>4, Products
  <2>. QED BY <1>0, <2>2, <2>3, <2>5
<1>12. Ceil(c, m) * LVL_GRAN(m) \in Int BY <1>0, <1>1, Reach, CeilIs DEF Levels
<1>13. (l + F) * g \in Int /\ Dist(j, c) \in Int
  <2>1. l + F \in Int BY <1>2, <1>4, Sizes
  <2>2. Period(j) \in Nat /\ Dist(j, c) \in 0 .. Period(j) - 1 BY <1>0, DistType, PeriodType
  <2>. QED BY <1>3, <2>1, <2>2
<1>. QED BY <1>0, <1>2, <1>3, <1>4, <1>9, <1>10, <1>11, <1>12, <1>13

\* __next_timer_interrupt() is the first pending bucket, or the idle horizon.
LEMMA NextInterrupt ==
  ASSUME NEW map \in SUBSET Index, NEW c \in Longs, NEW x, x = __next_timer_interrupt(map, c)
  PROVE  /\ x \in Longs
         /\ Sub(x, c) <= NEXT_TIMER_MAX_DELTA
         /\ \A i \in map : Sub(x, c) <= Dist(i, c)
         /\ x = Long(c + NEXT_TIMER_MAX_DELTA) \/ \E i \in map : Dist(i, c) = Sub(x, c)
<1> DEFINE levels == {n \in 0 .. LVL_DEPTH - 1 : \A k \in 0 .. n - 1 : ~StopsAt(map, c, k)}
           on == {n \in levels : HasPending(map, c, n)}
           time(n) == Long((lvl_clk(c)[n] + FirstIn(map, c, n)) * LVL_GRAN(n))
           times == {time(n) : n \in on} \cup {Long(c + NEXT_TIMER_MAX_DELTA)}
<1>0. LVL_DEPTH \in Nat \ {0} /\ c \in Nat /\ c \in 0 .. Words - 1 BY WheelAssumption, LongsIs, Ranges
<1>1. x = CHOOSE y \in times : \A z \in times : Sub(y, c) <= Sub(z, c) BY DEF __next_timer_interrupt
<1>2. PICK h \in Longs : h = Long(c + NEXT_TIMER_MAX_DELTA) /\ Sub(h, c) = NEXT_TIMER_MAX_DELTA
  <2>1. NEXT_TIMER_MAX_DELTA \in Longs BY Ranges, LongsIs
  <2>. QED BY <2>1, AddSub
<1>3. ASSUME NEW n \in on
      PROVE  /\ time(n) \in Longs
             /\ \E i \in map : Dist(i, c) = Sub(time(n), c)
             /\ \A j \in map : Level(j) = n => Sub(time(n), c) <= Dist(j, c)
             /\ \A j \in map : StopsAt(map, c, n) /\ Level(j) > n => Sub(time(n), c) <= Dist(j, c)
  <2>1. n \in Levels /\ HasPending(map, c, n) BY <1>3 DEF Levels
  <2>2. PICK F \in 0 .. LVL_SIZE - 1 : F = FirstIn(map, c, n) BY <2>1, FirstBucket
  <2>3. PICK l \in Int : l = lvl_clk(c)[n]
    <3>1. n \in Nat BY <1>0, <2>1 DEF Levels
    <3>2. lvl_clk(c)[n] = Ceil(c, n) BY <1>0, <2>1, LvlClk
    <3>. QED BY <1>0, <3>1, <3>2, CeilIs
  <2>4. PICK g \in Nat \ {0} : g = LVL_GRAN(n) BY <2>1, Reach
  <2>5. PICK z \in Int : z = (l + F) * g
    <3>1. l + F \in Int BY <2>2, <2>3, Sizes
    <3>. QED BY <2>4, <3>1
  <2>6. time(n) = Long(z) /\ time(n) \in Longs BY <2>2, <2>3, <2>4, <2>5, LongTurns
  <2>7. PICK i \in map : /\ Dist(i, c) = z - c
                         /\ \A j \in map : Level(j) = n => Dist(i, c) <= Dist(j, c)
                         /\ Sub(Long(z), c) = Dist(i, c)
    BY <2>1, <2>2, <2>3, <2>4, <2>5, FirstBucket
  <2>8. ASSUME StopsAt(map, c, n), NEW j \in map, Level(j) > n PROVE z - c <= Dist(j, c)
    BY <2>1, <2>2, <2>3, <2>4, <2>5, <2>8, StopsRight
  <2> HIDE DEF time, on
  <2>. QED BY <2>6, <2>7, <2>8
<1>4. times \subseteq Longs BY <1>2, <1>3
<1> HIDE DEF time
<1>5. x \in times /\ \A z \in times : Sub(x, c) <= Sub(z, c)
  <2> DEFINE V == {Sub(y, c) : y \in times}
  <2>1. ASSUME NEW y \in times PROVE Sub(y, c) \in Nat
    <3>1. y \in 0 .. Words - 1 BY <1>4, LongsIs
    <3>2. Sub(y, c) \in 0 .. Words - 1 BY <1>0, <3>1, WrapSub
    <3>. QED BY <3>2, Ranges
  <2>2. V \in SUBSET Nat /\ V # {} BY <2>1
  <2> HIDE DEF times
  <2>3. PICK v \in V : \A w \in V : v <= w
    <3> HIDE DEF V
    <3>. QED BY <2>2, LeastNatural
  <2>4. \E y \in times : \A z \in times : Sub(y, c) <= Sub(z, c) BY <2>3
  <2>. QED BY <1>1, <2>4
<1>6. x \in Longs BY <1>4, <1>5
<1>7. Sub(x, c) <= NEXT_TIMER_MAX_DELTA BY <1>2, <1>5
<1>8. x = Long(c + NEXT_TIMER_MAX_DELTA) \/ \E i \in map : Dist(i, c) = Sub(x, c) BY <1>3, <1>5
<1>9. ASSUME NEW i \in map PROVE Sub(x, c) <= Dist(i, c)
  <2>0. Sub(x, c) \in Int /\ i \in Index /\ Dist(i, c) \in Int
    <3>1. Sub(x, c) \in 0 .. Words - 1 BY <1>0, <1>6, WrapSub, LongsIs
    <3>2. i \in Index OBVIOUS
    <3>3. Dist(i, c) \in Longs BY <1>0, <3>2, DistType
    <3>. QED BY <3>1, <3>2, <3>3, LongsIs, Ranges
  <2>1. PICK m \in Levels : m = Level(i) BY <2>0, BucketOf
  <2>2. HasPending(map, c, m) BY <2>1, HasPendingIf
  <2>3. CASE m \in levels
    <3>1. m \in on BY <2>2, <2>3
    <3>2. Sub(time(m), c) <= Dist(i, c) BY <1>3, <2>1, <3>1
    <3>3. time(m) \in times /\ time(m) \in Longs BY <1>4, <3>1
    <3>4. Sub(x, c) <= Sub(time(m), c) BY <1>5, <3>3
    <3>5. Sub(time(m), c) \in 0 .. Words - 1 BY <1>0, <3>3, WrapSub, LongsIs
    <3>. QED BY <2>0, <3>2, <3>4, <3>5, Ranges
  <2>4. CASE m \notin levels
    <3> DEFINE stops == {k \in 0 .. m - 1 : StopsAt(map, c, k)}
    <3>1. stops \in SUBSET Nat /\ stops # {} BY <1>0, <2>1, <2>4 DEF Levels
    <3>2. PICK k \in stops : \A j \in stops : k <= j
      <4> HIDE DEF stops
      <4>. QED BY <3>1, LeastNatural
    <3>3. k \in 0 .. m - 1 /\ StopsAt(map, c, k) /\ HasPending(map, c, k) BY <3>2 DEF StopsAt
    <3>4. k \in levels
      <4>1. k \in 0 .. LVL_DEPTH - 1 BY <1>0, <2>1, <3>3 DEF Levels
      <4>2. ASSUME NEW j \in 0 .. k - 1, StopsAt(map, c, j) PROVE FALSE
        <5>1. j \in stops /\ j < k /\ j \in Int /\ k \in Int BY <1>0, <2>1, <3>3, <4>2 DEF Levels
        <5> HIDE DEF stops
        <5>. QED BY <3>2, <5>1
      <4>. QED BY <4>1, <4>2
    <3>5. k \in on BY <3>3, <3>4
    <3>6. Level(i) > k BY <1>0, <2>1, <3>3 DEF Levels
    <3>7. Sub(time(k), c) <= Dist(i, c) BY <1>3, <3>3, <3>5, <3>6
    <3>8. time(k) \in times /\ time(k) \in Longs BY <1>4, <3>5
    <3>9. Sub(x, c) <= Sub(time(k), c) BY <1>5, <3>8
    <3>10. Sub(time(k), c) \in 0 .. Words - 1 BY <1>0, <3>8, WrapSub, LongsIs
    <3>. QED BY <2>0, <3>7, <3>9, <3>10, Ranges
  <2>. QED BY <2>3, <2>4
<1>. QED BY <1>6, <1>7, <1>8, <1>9

----------------------------------------------------------------------------
(* The clock, next_expiry and jiffies *)

\* The bounds on lags and timeouts keep all times within half of the range.
LEMMA Bounds ==
  /\ MaxLag \in Nat /\ MaxTicks \in Nat /\ NEXT_TIMER_MAX_DELTA \in Nat
  /\ LVL_GRAN(LVL_DEPTH - 1) \in Nat \ {0}
  /\ NEXT_TIMER_MAX_DELTA + LVL_GRAN(LVL_DEPTH - 1) + MaxLag + MaxTicks + 2 < Half
  /\ \A d \in Deltas : d \in Nat /\ NEXT_TIMER_MAX_DELTA + d + MaxLag + MaxTicks < Half
<1>1. MaxLag \in Nat /\ MaxTicks \in Nat /\ Deltas \subseteq Nat /\ LVL_DEPTH - 1 \in Levels
  BY WheelAssumption DEF Levels
<1>2. \A d \in Deltas \cup {LVL_GRAN(LVL_DEPTH - 1) + 2} : d + MaxLag + MaxTicks < Half - NEXT_TIMER_MAX_DELTA
  BY WheelAssumption DEF Half
<1>3. NEXT_TIMER_MAX_DELTA \in Nat /\ Half \in Nat BY Ranges
<1>4. PICK g \in Nat \ {0} : g = LVL_GRAN(LVL_DEPTH - 1) BY <1>1, Reach
<1>5. (g + 2) + MaxLag + MaxTicks < Half - NEXT_TIMER_MAX_DELTA BY <1>2, <1>4
<1>. QED BY <1>1, <1>2, <1>3, <1>4, <1>5

\* Two times given by their offsets from a third.
LEMMA Offsets ==
  ASSUME NEW c \in Longs, NEW a \in - (Words - 1) .. Words - 1, NEW b \in - (Words - 1) .. Words - 1,
         a - b < Words, b - a < Words
  PROVE  /\ Long(c + a) \in Longs /\ Long(c + b) \in Longs
         /\ Sub(Long(c + a), Long(c + b)) = IF a >= b THEN a - b ELSE (a - b) + Words
<1>1. c \in 0 .. Words - 1 /\ Words \in Nat \ {0} BY LongsIs, Ranges
<1>2. PICK x \in - Words .. (2 * Words) - 1, u \in 0 .. Words - 1 : x = c + a /\ u = Long(x) BY <1>1, Wrap
<1>3. PICK y \in - Words .. (2 * Words) - 1, v \in 0 .. Words - 1 : y = c + b /\ v = Long(y) BY <1>1, Wrap
<1>4. /\ u = IF x < 0 THEN x + Words ELSE IF x < Words THEN x ELSE x - Words
      /\ u \in 0 .. Words - 1
  BY <1>2, Wrap
<1>5. /\ v = IF y < 0 THEN y + Words ELSE IF y < Words THEN y ELSE y - Words
      /\ v \in 0 .. Words - 1
  BY <1>3, Wrap
<1>6. Sub(u, v) = IF u >= v THEN u - v ELSE (u - v) + Words BY <1>4, <1>5, WrapSub
<1>7. Sub(u, v) = IF a >= b THEN a - b ELSE (a - b) + Words BY <1>1, <1>2, <1>3, <1>4, <1>5, <1>6
<1>. QED BY <1>2, <1>3, <1>4, <1>5, <1>7, LongsIs

\* A time as an offset behind or ahead of another one.
LEMMA Offset ==
  ASSUME NEW a \in Longs, NEW b \in Longs
  PROVE  /\ a = Long(b + Sub(a, b)) /\ b = Long(a - Sub(a, b)) /\ a = Long(a + 0)
         /\ Sub(a, b) \in Nat /\ Sub(a, b) < Words
<1>1. a \in 0 .. Words - 1 /\ b \in 0 .. Words - 1 /\ Words \in Nat \ {0} BY LongsIs, Ranges
<1>2. PICK d \in 0 .. Words - 1 : d = Sub(a, b) /\ d = IF a >= b THEN a - b ELSE (a - b) + Words
  BY <1>1, WrapSub
<1>3. PICK x \in - Words .. (2 * Words) - 1 : x = a - d BY <1>1, <1>2
<1>4. Long(x) = IF x < 0 THEN x + Words ELSE IF x < Words THEN x ELSE x - Words BY <1>3, Wrap
<1>5. Long(x) = b BY <1>1, <1>2, <1>3, <1>4
<1>6. PICK y \in - Words .. (2 * Words) - 1 : y = a /\ y = a + 0 BY <1>1
<1>7. Long(y) = IF y < 0 THEN y + Words ELSE IF y < Words THEN y ELSE y - Words BY <1>6, Wrap
<1>8. a = Long(b + Sub(a, b)) BY SubAdd
<1>9. a = Long(a + 0) BY <1>1, <1>6, <1>7
<1>10. b = Long(a - Sub(a, b)) BY <1>2, <1>3, <1>5
<1>. QED BY <1>1, <1>2, <1>8, <1>9, <1>10

\* Moving twice.
LEMMA LongLong ==
  ASSUME NEW x \in Int, NEW y \in Int
  PROVE  Long(Long(x) + y) = Long(x + y)
<1>1. PICK e \in Int, u \in Longs : u = Long(x) /\ u = x + (Words * e) BY LongTurns
<1>2. Words \in Nat \ {0} /\ u \in Int BY <1>1, Ranges, LongsIs
<1>3. PICK z \in Int : z = Words * e BY <1>1, <1>2
<1>4. u + y = (x + y) + (Words * e) BY <1>1, <1>2, <1>3
<1>5. ((x + y) + (Words * e)) % Words = (x + y) % Words
  <2>1. x + y \in Int OBVIOUS
  <2>. QED BY <1>1, <1>2, <2>1, ModShift
<1>. QED BY <1>1, <1>4, <1>5 DEF Long, Words

\* Where jiffies and next_expiry are, seen from the clock.
LEMMA Times ==
  ASSUME jiffies \in Longs, clk \in Longs, next_expiry \in Longs,
         Ahead <= NEXT_TIMER_MAX_DELTA, Lag
  PROVE  /\ Ahead \in Nat /\ Lead \in Nat /\ Lead <= Ahead + MaxLag + 1 /\ Lead < Half /\ Ahead < Half
         /\ next_expiry = Long(clk + Ahead) /\ jiffies = Long(clk + (Lead - 1))
         /\ Long(jiffies + 1) = Long(clk + Lead)
         /\ time_before(jiffies, next_expiry) <=> Lead <= Ahead
         /\ Lead > Ahead => Sub(jiffies, next_expiry) = (Lead - 1) - Ahead
         /\ Sub(next_expiry, clk) < Half
         /\ Sub(jiffies, clk) \in 1 .. Half - 1 <=> Lead >= 2
         /\ time_after_eq(jiffies, clk) <=> Lead >= 1
<1>1. jiffies \in Int /\ clk \in Int BY LongsIs, Ranges
<1>2. Long(jiffies + 1) \in Longs BY <1>1, LongTurns
<1>3. Ahead \in Nat /\ Ahead < Words /\ next_expiry = Long(clk + Ahead) BY Offset DEF Ahead
<1>4. Lead \in Nat /\ Lead < Words /\ Long(jiffies + 1) = Long(clk + Lead) BY <1>2, Offset DEF Lead
<1>5. Lead <= Ahead + MaxLag + 1 BY DEF Lag
<1>6. Lead < Half /\ Ahead < Half /\ Lead - 1 < Half BY <1>3, <1>4, <1>5, Bounds, Ranges
<1>7. jiffies = Long(clk + (Lead - 1))
  <2>1. Long(Long(jiffies + 1) + (- 1)) = Long((jiffies + 1) + (- 1)) BY <1>1, LongLong
  <2>2. Long(Long(clk + Lead) + (- 1)) = Long((clk + Lead) + (- 1)) BY <1>1, <1>4, LongLong
  <2>3. (jiffies + 1) + (- 1) = jiffies + 0 /\ (clk + Lead) + (- 1) = clk + (Lead - 1) BY <1>1, <1>4
  <2>4. jiffies = Long(jiffies + 0) BY Offset
  <2>. QED BY <1>4, <2>1, <2>2, <2>3, <2>4
<1>8. PICK a \in Nat, l \in Nat : a = Ahead /\ l = Lead /\ a < Half /\ l < Half BY <1>3, <1>4, <1>6
<1>9. Sub(jiffies, next_expiry) = IF l - 1 >= a THEN (l - 1) - a ELSE ((l - 1) - a) + Words
  <2>1. /\ l - 1 \in - (Words - 1) .. Words - 1 /\ a \in - (Words - 1) .. Words - 1
        /\ (l - 1) - a < Words /\ a - (l - 1) < Words
    BY <1>8, Ranges
  <2>. QED BY <1>3, <1>7, <1>8, <2>1, Offsets
<1>10. Sub(jiffies, clk) = IF l - 1 >= 0 THEN l - 1 ELSE (l - 1) + Words
  <2>1. /\ l - 1 \in - (Words - 1) .. Words - 1 /\ 0 \in - (Words - 1) .. Words - 1
        /\ (l - 1) - 0 < Words /\ 0 - (l - 1) < Words
    BY <1>8, Ranges
  <2>2. Sub(Long(clk + (l - 1)), Long(clk + 0)) = IF l - 1 >= 0 THEN (l - 1) - 0 ELSE ((l - 1) - 0) + Words
    BY <2>1, Offsets
  <2>3. clk = Long(clk + 0) BY Offset
  <2>. QED BY <1>7, <1>8, <2>2, <2>3
<1>11. time_before(jiffies, next_expiry) <=> l <= a
  <2>1. a - (l - 1) <= NEXT_TIMER_MAX_DELTA + 1 BY <1>8, Ranges
  <2>2. (l - 1) - a <= MaxLag BY <1>5, <1>8, Bounds
  <2>. QED BY <1>8, <1>9, <2>1, <2>2, Ranges, Bounds DEF time_before, Half
<1>12. time_after_eq(jiffies, clk) <=> l >= 1
  BY <1>8, <1>10, Ranges DEF time_after_eq, time_before, Half
<1>13. Sub(jiffies, clk) \in 1 .. Half - 1 <=> l >= 2 BY <1>8, <1>10, Ranges
<1>14. Sub(next_expiry, clk) < Half BY <1>6 DEF Ahead
<1>. QED BY <1>3, <1>4, <1>5, <1>6, <1>7, <1>8, <1>9, <1>11, <1>12, <1>13, <1>14

\* forward_timer_base() moves the clock towards jiffies and stops at
\* next_expiry.
LEMMA Forward ==
  ASSUME jiffies \in Longs, clk \in Longs, next_expiry \in Longs,
         Ahead <= NEXT_TIMER_MAX_DELTA, Lag
  PROVE  \E f \in 0 .. Ahead :
           /\ f <= Lead /\ (Lead - f <= 1 \/ f = Ahead)
           /\ forward_timer_base = Long(clk + f)
<1>1. /\ Ahead \in Nat /\ Lead \in Nat
      /\ next_expiry = Long(clk + Ahead) /\ jiffies = Long(clk + (Lead - 1))
      /\ time_before(jiffies, next_expiry) <=> Lead <= Ahead
      /\ Sub(next_expiry, clk) < Half
      /\ Sub(jiffies, clk) \in 1 .. Half - 1 <=> Lead >= 2
  BY Times
<1>2. clk = Long(clk + 0) BY Offset
<1>3. ~time_before(next_expiry, clk)
  <2>1. Sub(next_expiry, clk) \in Nat /\ Half \in Nat BY Offset, Ranges
  <2>. QED BY <1>1, <2>1 DEF time_before, Half
<1>4. CASE Lead < 2
  <2>1. forward_timer_base = clk BY <1>1, <1>4 DEF forward_timer_base, Half
  <2>. QED BY <1>1, <1>2, <1>4, <2>1
<1>5. CASE Lead >= 2 /\ Lead <= Ahead
  <2>1. forward_timer_base = jiffies BY <1>1, <1>5 DEF forward_timer_base, Half
  <2>2. Lead - 1 \in 0 .. Ahead BY <1>1, <1>5
  <2>. QED BY <1>1, <1>5, <2>1, <2>2
<1>6. CASE Lead >= 2 /\ Lead > Ahead
  <2>1. forward_timer_base = next_expiry BY <1>1, <1>3, <1>6 DEF forward_timer_base, Half
  <2>. QED BY <1>1, <1>6, <2>1
<1>. QED BY <1>1, <1>4, <1>5, <1>6

----------------------------------------------------------------------------
(* What moving the clock and arming a timer do to a timer's place *)

\* To move the clock towards a time shortens the distance by as much.
LEMMA SubLess ==
  ASSUME NEW a \in Longs, NEW c \in Longs, NEW f \in 0 .. Sub(a, c)
  PROVE  Long(c + f) \in Longs /\ Sub(a, Long(c + f)) = Sub(a, c) - f
<1>1. PICK d \in Nat : d = Sub(a, c) /\ d < Words /\ a = Long(c + d) BY Offset
<1>2. /\ d \in - (Words - 1) .. Words - 1 /\ f \in - (Words - 1) .. Words - 1
      /\ d - f < Words /\ f - d < Words /\ d >= f
  BY <1>1, Ranges
<1>. QED BY <1>1, <1>2, Offsets

\* A timer stays placed right when the clock moves, up to its bucket's time.
LEMMA PlacedMoves ==
  ASSUME NEW i \in Index, NEW e \in Longs, NEW c \in Longs, NEW l \in Nat,
         NEW f \in 0 .. Dist(i, c), f <= l, PlacedAt(i, e, c, l)
  PROVE  PlacedAt(i, e, Long(c + f), l - f)
<1>1. c \in Int BY LongsIs, Ranges
<1>2. PICK d \in Nat : d = Dist(i, c)
  <2>1. Dist(i, c) \in Longs BY <1>1, DistType
  <2>. QED BY <2>1, LongsIs, Ranges
<1>3. Dist(i, Long(c + f)) = d - f BY <1>2, DistMove
<1>4. Long(Long(c + f) + (d - f)) = Long(c + d)
  <2>1. Long(Long(c + f) + (d - f)) = Long((c + f) + (d - f)) BY <1>1, <1>2, LongLong
  <2>2. (c + f) + (d - f) = c + d BY <1>1, <1>2
  <2>. QED BY <2>1, <2>2
<1>5. d <= l => d - f <= l - f BY <1>2
<1>. QED BY <1>2, <1>3, <1>4, <1>5 DEF PlacedAt

\* A timer that is expiring stays due when the clock moves.
LEMMA DueMoves ==
  ASSUME NEW e \in Longs, NEW c \in Longs, NEW a \in Nat, NEW f \in Nat, NEW x \in Nat, x + f <= a,
         DueAt(e, c, a)
  PROVE  DueAt(e, Long(c + f), x)
<1>1. PICK d \in Nat : d = Sub(c, e) BY Offset
<1>2. d # 0 /\ d + a <= MaxLate BY <1>1 DEF DueAt
<1>3. MaxLate \in Nat /\ MaxLate < Half BY Bounds, Ranges DEF MaxLate
<1>4. d + f < Words /\ d + f <= MaxLate BY <1>1, <1>2, <1>3, Ranges
<1>5. Sub(Long(c + f), e) = d + f BY <1>1, <1>4, SubMove
<1>. QED BY <1>1, <1>2, <1>3, <1>5 DEF DueAt

\* calc_wheel_index() places a timer right.
LEMMA NewPlaced ==
  ASSUME NEW e \in Longs, NEW c \in Longs, NEW b, b = calc_wheel_index(e, c), ~Far(e, c),
         NEW l \in Nat, NEW o \in Int, e = Long(c + o), o >= - (MaxTicks + 1), o < Half
  PROVE  PlacedAt(b.idx, e, c, l)
<1>1. /\ b.idx \in Index /\ b.expiry \in Longs
      /\ Sub(b.expiry, c) = Dist(b.idx, c)
      /\ \/ Sub(e, c) >= Half /\ b.expiry = c /\ Dist(b.idx, c) = 0
         \/ \E h \in 1 .. LVL_GRAN(Level(b.idx)) :
               Sub(b.expiry, e) = h /\ Dist(b.idx, c) = Sub(e, c) + h
  BY CalcWheelIndex
<1>2. Long(c + Dist(b.idx, c)) = b.expiry BY <1>1, Offset
<1>3. Level(b.idx) \in Levels /\ LVL_GRAN(Level(b.idx)) \in Nat BY <1>1, BucketOf, Reach
<1>4. CASE Sub(e, c) >= Half /\ b.expiry = c /\ Dist(b.idx, c) = 0
  <2>1. /\ o \in - (Words - 1) .. Words - 1 /\ 0 \in - (Words - 1) .. Words - 1
        /\ o - 0 < Words /\ 0 - o < Words
    BY Bounds, Ranges
  <2>2. c = Long(c + 0) BY Offset
  <2>3. Sub(e, c) = IF o >= 0 THEN o - 0 ELSE (o - 0) + Words BY <2>1, <2>2, Offsets
  <2>4. Sub(c, e) = IF 0 >= o THEN 0 - o ELSE (0 - o) + Words BY <2>1, <2>2, Offsets
  <2>5. o < 0 BY <1>4, <2>3, Ranges
  <2>6. Sub(c, e) <= MaxTicks + 1 BY <2>4, <2>5, Bounds
  <2>. QED BY <1>2, <1>4, <2>6 DEF PlacedAt
<1>5. CASE \E h \in 1 .. LVL_GRAN(Level(b.idx)) : Sub(b.expiry, e) = h
  <2>1. Sub(b.expiry, e) <= LVL_GRAN(Level(b.idx)) BY <1>3, <1>5
  <2>. QED BY <1>2, <2>1 DEF PlacedAt
<1>. QED BY <1>1, <1>4, <1>5

----------------------------------------------------------------------------
(* The steps *)

\* The types of what the sections under base->lock write.
WheelType ==
  /\ clk \in Longs /\ next_expiry \in Longs
  /\ next_expiry_recalc \in BOOLEAN /\ timers_pending \in BOOLEAN
  /\ pending_map \subseteq Index
  /\ expires \in [Timers -> Longs]
  /\ idx \in [Timers -> Index]
  /\ entry \in [Timers -> {"none", "wheel", "heads"}]
  /\ mark \in [Timers -> {"off", "exact", "clamped", "stale"}]

Wheel == MapExact /\ NextFirst /\ NextHits /\ Lag /\ Placed /\ Due

\* What forward_timer_base() changes of the two distances.
LEMMA ClockMoves ==
  ASSUME jiffies \in Longs, clk \in Longs, next_expiry \in Longs, NEW f \in Nat, f <= Lead,
         clk' = Long(clk + f), jiffies' = jiffies
  PROVE  /\ clk' \in Longs /\ Lead' = Lead - f /\ Lead \in Nat
         /\ next_expiry' = next_expiry /\ f <= Ahead => Ahead' = Ahead - f
<1>1. jiffies + 1 \in Int BY LongsIs, Ranges
<1>2. PICK x \in Longs : x = Long(jiffies + 1) BY <1>1, LongTurns
<1>3. Lead = Sub(x, clk) /\ Lead' = Sub(x, clk') BY <1>2 DEF Lead
<1>4. Lead \in Nat BY <1>3, Offset
<1>5. f \in 0 .. Sub(x, clk) BY <1>3, <1>4
<1>6. clk' \in Longs /\ Lead' = Lead - f BY <1>3, <1>5, SubLess
<1>7. ASSUME next_expiry' = next_expiry, f <= Ahead PROVE Ahead' = Ahead - f
  <2>1. Ahead \in Nat /\ Ahead = Sub(next_expiry, clk) BY Offset DEF Ahead
  <2>2. f \in 0 .. Sub(next_expiry, clk) BY <1>7, <2>1
  <2>. QED BY <1>7, <2>1, <2>2, SubLess DEF Ahead
<1>. QED BY <1>4, <1>6, <1>7

\* A timer whose place does not change stays well placed while the clock
\* moves on, not past its bucket; an expiring one stays due.
LEMMA Stays ==
  ASSUME WheelType, MapExact, NEW u \in Timers, NEW f \in Nat, NEW a \in Nat,
         f <= a, f <= Lead, Lead \in Nat, Lead' = Lead - f, clk' = Long(clk + f),
         \A i \in pending_map : a <= Dist(i, clk),
         expires'[u] = expires[u], mark[u] = "exact",
         entry[u] = "wheel", idx'[u] = idx[u], Placed
  PROVE  PlacedAt(idx'[u], expires'[u], clk', Lead')
<1>1. idx[u] \in Index /\ idx[u] \in pending_map /\ expires[u] \in Longs /\ clk \in Longs
  BY DEF WheelType, MapExact, Vector
<1>2. PlacedAt(idx[u], expires[u], clk, Lead) BY DEF Placed
<1>3. Dist(idx[u], clk) \in Int
  <2>1. clk \in Int BY <1>1, LongsIs, Ranges
  <2>2. Dist(idx[u], clk) \in Longs BY <1>1, <2>1, DistType
  <2>. QED BY <2>2, LongsIs, Ranges
<1>4. f \in 0 .. Dist(idx[u], clk) BY <1>1, <1>3
<1>. QED BY <1>1, <1>2, <1>4, PlacedMoves

\* The buckets that are not empty without timer t.
LEMMA DetachMap ==
  ASSUME WheelType, MapExact, NEW t \in Timers
  PROVE  MapAfterDetach(t) = {i \in Index : Vector(i) \ {t} # {}}
<1>1. ASSUME NEW i \in Index, i # idx[t] \/ entry[t] # "wheel" PROVE Vector(i) \ {t} = Vector(i)
  BY <1>1 DEF Vector
<1>2. CASE Singular(t)
  <2>1. idx[t] \in Index /\ Vector(idx[t]) \ {t} = {} BY <1>2 DEF Singular, WheelType
  <2>2. MapAfterDetach(t) = pending_map \ {idx[t]} BY <1>2 DEF MapAfterDetach
  <2>. QED BY <1>1, <2>1, <2>2 DEF MapExact
<1>3. CASE ~Singular(t)
  <2>1. MapAfterDetach(t) = pending_map BY <1>3 DEF MapAfterDetach
  <2>2. ASSUME NEW i \in Index PROVE Vector(i) # {} <=> Vector(i) \ {t} # {}
    <3>1. CASE i # idx[t] \/ entry[t] # "wheel" BY <1>1, <3>1
    <3>2. CASE i = idx[t] /\ entry[t] = "wheel"
      <4>1. Vector(i) # {t} /\ t \in Vector(i) BY <1>3, <3>2 DEF Singular, Vector
      <4>. QED BY <4>1
    <3>. QED BY <3>1, <3>2
  <2>. QED BY <2>1, <2>2 DEF MapExact
<1>. QED BY <1>2, <1>3

\* Taking a timer off its list.
LEMMA MapDetached ==
  ASSUME WheelType, MapExact, NEW t \in Timers, idx' = idx,
         entry' = [entry EXCEPT ![t] = "none"], pending_map' = MapAfterDetach(t)
  PROVE  MapExact'
<1>1. \A i \in Index : Vector(i)' = Vector(i) \ {t} BY DEF Vector, WheelType
<1>. QED BY <1>1, DetachMap DEF MapExact

\* Moving it to another list.
LEMMA MapQueued ==
  ASSUME WheelType, MapExact, NEW t \in Timers, NEW k \in Index,
         idx' = [idx EXCEPT ![t] = k],
         entry' = [entry EXCEPT ![t] = "wheel"], pending_map' = MapAfterDetach(t) \cup {k}
  PROVE  MapExact'
<1>1. ASSUME NEW i \in Index PROVE Vector(i)' = (Vector(i) \ {t}) \cup (IF i = k THEN {t} ELSE {})
  BY DEF Vector, WheelType
<1>2. ASSUME NEW i \in Index PROVE i \in pending_map' <=> Vector(i)' # {}
  BY <1>1, DetachMap
<1>3. pending_map' \subseteq Index BY DetachMap
<1>. QED BY <1>2, <1>3 DEF MapExact

\* __mod_timer() under the lock, for a time that the callers ask for.
LEMMA Locked ==
  ASSUME jiffies \in Longs, WheelType, Wheel, NEW t \in Timers, NEW e \in Longs, NEW seen \in BOOLEAN,
         NEW o \in Int, e = Long(jiffies + o), o >= - MaxTicks,
         NEXT_TIMER_MAX_DELTA + o + MaxLag < Half,
         mod_timer_locked(t, e, seen), jiffies' = jiffies
  PROVE  WheelType' /\ Wheel'
<1> DEFINE c == forward_timer_base
           b == calc_wheel_index(e, c)
<1>1. /\ clk \in Longs /\ next_expiry \in Longs /\ pending_map \subseteq Index
      /\ MapExact /\ Ahead <= NEXT_TIMER_MAX_DELTA /\ (\A i \in pending_map : Ahead <= Dist(i, clk))
      /\ Lag /\ Placed /\ Due /\ NextHits
  BY DEF WheelType, Wheel, NextFirst
<1>2. /\ Ahead \in Nat /\ Lead \in Nat /\ Lead <= Ahead + MaxLag + 1 /\ Lead < Half /\ Ahead < Half
      /\ next_expiry = Long(clk + Ahead) /\ jiffies = Long(clk + (Lead - 1))
  BY <1>1, Times
<1>14. PICK A \in Nat, L \in Nat : A = Ahead /\ L = Lead BY <1>2
<1>3. PICK f \in Nat : /\ f <= Ahead /\ f <= Lead /\ (Lead - f <= 1 \/ f = Ahead)
                       /\ c = Long(clk + f)
  BY <1>1, <1>2, Forward
<1>4. clk' = c /\ expires' = [expires EXCEPT ![t] = e]
  BY DEF mod_timer_locked, enqueue_timer
<1>5. clk' \in Longs /\ Lead' = Lead - f /\ (next_expiry' = next_expiry => Ahead' = Ahead - f)
  BY <1>1, <1>2, <1>3, <1>4, ClockMoves
<1>6. /\ b.idx \in Index /\ b.expiry \in Longs
      /\ Sub(b.expiry, c) = Dist(b.idx, c)
  BY <1>4, <1>5, CalcWheelIndex
<1>7. ASSUME ~Far(e, c) PROVE PlacedAt(b.idx, e, c, Lead')
  <2>1. PICK x \in Int : x = (Lead - f) - 1 BY <1>2, <1>3
  <2>2. clk \in Int BY <1>1, LongsIs, Ranges
  <2>3. jiffies = Long(c + x)
    <3>1. Long(Long(clk + f) + x) = Long((clk + f) + x) BY <1>3, <2>1, <2>2, LongLong
    <3>2. (clk + f) + x = clk + (Lead - 1) BY <1>2, <1>3, <2>1, <2>2
    <3>. QED BY <1>2, <1>3, <3>1, <3>2
  <2>4. c \in Int BY <1>4, <1>5, LongsIs, Ranges
  <2>5. e = Long(c + (x + o))
    <3>1. Long(Long(c + x) + o) = Long((c + x) + o) BY <2>1, <2>4, LongLong
    <3>2. (c + x) + o = c + (x + o) BY <2>1, <2>4
    <3>. QED BY <2>3, <3>1, <3>2
  <2>6. x + o \in Int /\ x + o >= - (MaxTicks + 1) /\ x + o < Half
    BY <1>1, <1>2, <1>3, <2>1, Bounds, Ranges
  <2>7. Lead' \in Nat BY <1>2, <1>3, <1>5
  <2> HIDE DEF c, b
  <2>. QED BY <1>4, <1>5, <1>7, <2>5, <2>6, <2>7, NewPlaced DEF b
<1>8. ASSUME NEW i \in pending_map PROVE Dist(i, clk') = Dist(i, clk) - f
  <2>1. i \in Index /\ clk \in Int BY <1>1, LongsIs, Ranges
  <2>2. Dist(i, clk) \in Int
    <3>1. Dist(i, clk) \in Longs BY <2>1, DistType
    <3>. QED BY <3>1, LongsIs, Ranges
  <2>3. f \in 0 .. Dist(i, clk) BY <1>1, <1>2, <1>3, <2>2
  <2>. QED BY <1>1, <1>3, <1>4, <2>1, <2>3, DistMove
<1>9. ASSUME NEW i \in Index PROVE Dist(i, clk) \in Nat /\ Dist(i, clk') \in Nat
  <2>1. clk \in Int /\ clk' \in Int BY <1>1, <1>5, LongsIs, Ranges
  <2>2. Dist(i, clk) \in Longs /\ Dist(i, clk') \in Longs BY <2>1, DistType
  <2>. QED BY <2>2, LongsIs, Ranges
<1>10. ASSUME NEW u \in Timers, u # t, mark[u] = "exact", entry[u] = "wheel", idx'[u] = idx[u]
       PROVE  PlacedAt(idx'[u], expires'[u], clk', Lead')
  <2>1. expires'[u] = expires[u] BY <1>4, <1>10 DEF WheelType
  <2> HIDE DEF c
  <2>. QED BY <1>1, <1>2, <1>3, <1>4, <1>5, <1>10, <2>1, Stays
<1>11. ASSUME NEW u \in Timers, u # t, mark[u] = "exact", entry[u] = "heads", Ahead' \in Nat, Ahead' + f <= Ahead
       PROVE  DueAt(expires'[u], clk', Ahead')
  <2>1. expires'[u] = expires[u] /\ expires[u] \in Longs BY <1>4, <1>11 DEF WheelType
  <2>2. DueAt(expires[u], clk, Ahead) BY <1>1, <1>11 DEF Due
  <2> HIDE DEF c
  <2>. QED BY <1>1, <1>2, <1>3, <1>4, <1>11, <2>1, <2>2, DueMoves
<1> HIDE DEF c, b
<1>12. CASE seen /\ b.idx = idx[t]
  <2>1. /\ UNCHANGED <<next_expiry, next_expiry_recalc, timers_pending, pending_map, idx, entry>>
        /\ mark' = [mark EXCEPT ![t] = IF entry[t] # "wheel" THEN "stale"
                                       ELSE IF Far(e, c) THEN "clamped" ELSE "exact"]
    BY <1>12 DEF mod_timer_locked, b, c
  <2>2. WheelType' BY <1>4, <1>5, <2>1 DEF WheelType
  <2>3. MapExact' BY <1>1, <2>1 DEF MapExact, Vector
  <2>4. Ahead' = Ahead - f BY <1>5, <2>1
  <2>5. NextFirst' BY <1>1, <1>2, <1>3, <1>8, <1>9, <2>1, <2>4, Ranges DEF NextFirst
  <2>6. NextHits' BY <1>1, <1>2, <1>3, <1>8, <1>9, <2>1, <2>4 DEF NextHits
  <2>7. Lag' BY <1>2, <1>3, <1>5, <2>4, Bounds DEF Lag
  <2>8. Placed'
    <3>1. ASSUME NEW u \in Timers, mark'[u] = "exact", entry'[u] = "wheel"
          PROVE  PlacedAt(idx'[u], expires'[u], clk', Lead')
      <4>1. CASE u # t BY <1>10, <2>1, <3>1, <4>1 DEF WheelType
      <4>2. CASE u = t
        <5>1. ~Far(e, c) /\ idx'[u] = b.idx /\ expires'[u] = e
          BY <1>4, <1>12, <2>1, <3>1, <4>2 DEF WheelType
        <5>. QED BY <1>4, <1>7, <5>1
      <4>. QED BY <4>1, <4>2
    <3>. QED BY <3>1 DEF Placed
  <2>9. Due'
    <3>0. Ahead' \in Nat /\ Ahead' + f <= Ahead BY <1>2, <1>3, <2>4
    <3>1. ASSUME NEW u \in Timers, mark'[u] = "exact", entry'[u] = "heads"
          PROVE  DueAt(expires'[u], clk', Ahead')
      <4>1. u # t BY <2>1, <3>1 DEF WheelType
      <4>. QED BY <1>11, <2>1, <3>0, <3>1, <4>1 DEF WheelType
    <3>. QED BY <3>1 DEF Due
  <2>. QED BY <2>2, <2>3, <2>5, <2>6, <2>7, <2>8, <2>9 DEF Wheel
<1>13. CASE ~(seen /\ b.idx = idx[t])
  <2>1. /\ enqueue_timer(t, b, c, MapAfterDetach(t), next_expiry_recalc \/ Singular(t))
        /\ mark' = [mark EXCEPT ![t] = IF Far(e, c) THEN "clamped" ELSE "exact"]
    BY <1>13 DEF mod_timer_locked, b, c
  <2>2. /\ pending_map' = MapAfterDetach(t) \cup {b.idx}
        /\ idx' = [idx EXCEPT ![t] = b.idx]
        /\ entry' = [entry EXCEPT ![t] = "wheel"]
    BY <2>1 DEF enqueue_timer
  <2>3. MapExact' BY <1>1, <1>6, <2>2, MapQueued
  <2>4. MapAfterDetach(t) \subseteq pending_map /\ (~Singular(t) => MapAfterDetach(t) = pending_map)
    BY DEF MapAfterDetach
  <2>5. PICK d \in Nat : d = Dist(b.idx, c) BY <1>4, <1>6, <1>9
  <2>6. time_before(b.expiry, next_expiry) <=> d < Ahead - f
    <3>1. d < Half
      <4>1. c \in Int BY <1>4, <1>5, LongsIs, Ranges
      <4>. QED BY <1>6, <2>5, <4>1, DistType
    <3>2. PICK a \in Nat : a = Ahead - f /\ a < Half BY <1>2, <1>3, Ranges
    <3>3. b.expiry = Long(c + d)
      <4>1. c \in Longs BY <1>4, <1>5
      <4>. QED BY <1>6, <2>5, <4>1, Offset
    <3>4. next_expiry = Long(c + a)
      <4>1. clk \in Int BY <1>1, LongsIs, Ranges
      <4>2. Long(Long(clk + f) + a) = Long((clk + f) + a) BY <1>3, <3>2, <4>1, LongLong
      <4>3. (clk + f) + a = clk + Ahead BY <1>2, <1>3, <3>2, <4>1
      <4>. QED BY <1>2, <1>3, <4>2, <4>3
    <3>5. /\ d \in - (Words - 1) .. Words - 1 /\ a \in - (Words - 1) .. Words - 1
          /\ d - a < Words /\ a - d < Words
      BY <2>5, <3>1, <3>2, Ranges
    <3>6. Sub(b.expiry, next_expiry) = IF d >= a THEN d - a ELSE (d - a) + Words
      BY <1>4, <1>5, <3>3, <3>4, <3>5, Offsets
    <3>. QED BY <2>5, <3>1, <3>2, <3>6, Ranges DEF time_before, Half
  <2>7. \/ /\ d < Ahead - f /\ next_expiry' = b.expiry /\ timers_pending' = TRUE /\ next_expiry_recalc' = FALSE
           /\ Ahead' = d
        \/ /\ d >= Ahead - f /\ next_expiry' = next_expiry /\ timers_pending' = timers_pending
           /\ next_expiry_recalc' = (next_expiry_recalc \/ Singular(t)) /\ Ahead' = Ahead - f
    <3>1. CASE d < Ahead - f
      <4>1. next_expiry' = b.expiry /\ timers_pending' = TRUE /\ next_expiry_recalc' = FALSE
        BY <2>1, <2>6, <3>1 DEF enqueue_timer
      <4>2. Ahead' = d BY <1>4, <1>6, <2>5, <4>1 DEF Ahead
      <4>. QED BY <3>1, <4>1, <4>2
    <3>2. CASE d >= Ahead - f
      <4>0. ~(d < Ahead - f) BY <1>2, <2>5, <3>2
      <4>1. /\ next_expiry' = next_expiry /\ timers_pending' = timers_pending
            /\ next_expiry_recalc' = (next_expiry_recalc \/ Singular(t))
        BY <2>1, <2>6, <4>0 DEF enqueue_timer
      <4>. QED BY <1>5, <3>2, <4>1
    <3>3. d < A - f \/ d >= A - f BY <1>3, <1>14, <2>5
    <3>. QED BY <1>14, <3>1, <3>2, <3>3
  <2>8. PICK x \in Nat : x = Ahead' /\ x + f <= A /\ x <= d
    <3>1. (d < A - f /\ Ahead' = d) \/ (d >= A - f /\ Ahead' = A - f) BY <1>14, <2>7
    <3>2. f <= A BY <1>3, <1>14
    <3>. QED BY <1>3, <1>14, <2>5, <3>1, <3>2
  <2>9. WheelType'
    <3>1. pending_map' \subseteq Index BY <1>1, <1>6, <2>2, <2>4
    <3>2. next_expiry' \in Longs BY <1>1, <1>6, <2>7
    <3>3. next_expiry_recalc' \in BOOLEAN /\ timers_pending' \in BOOLEAN BY <2>7 DEF WheelType
    <3>4. expires' \in [Timers -> Longs] /\ idx' \in [Timers -> Index]
      BY <1>4, <1>6, <2>2 DEF WheelType
    <3>5. entry' \in [Timers -> {"none", "wheel", "heads"}] /\ mark' \in [Timers -> {"off", "exact", "clamped", "stale"}]
      BY <2>1, <2>2 DEF WheelType
    <3>. QED BY <1>5, <3>1, <3>2, <3>3, <3>4, <3>5 DEF WheelType
  <2>10. NextFirst'
    <3>0. A <= NEXT_TIMER_MAX_DELTA BY <1>1, <1>14
    <3>3. NEXT_TIMER_MAX_DELTA \in Nat BY Ranges
    <3>4. x + f <= A BY <2>8
    <3>5. x <= A BY <3>4
    <3>1. x <= NEXT_TIMER_MAX_DELTA BY <3>0, <3>3, <3>5
    <3>2. ASSUME NEW i \in pending_map' PROVE x <= Dist(i, clk')
      <4>1. CASE i = b.idx BY <1>4, <2>5, <2>8, <4>1
      <4>2. CASE i \in pending_map
        <5>1. PICK y \in Nat : y = Dist(i, clk) /\ Dist(i, clk') = y - f /\ A <= y
          BY <1>1, <1>8, <1>9, <1>14, <4>2
        <5>2. x + f <= A /\ A <= y BY <2>8, <5>1
        <5>3. x <= y - f BY <5>2
        <5>. QED BY <5>1, <5>3
      <4>. QED BY <2>2, <2>4, <4>1, <4>2
    <3>. QED BY <2>8, <3>1, <3>2 DEF NextFirst
  <2>11. NextHits'
    <3>1. CASE Ahead' = d
      <4>1. b.idx \in pending_map' /\ Dist(b.idx, clk') = Ahead' BY <1>4, <2>2, <2>5, <3>1
      <4>. QED BY <4>1 DEF NextHits
    <3>2. CASE /\ next_expiry' = next_expiry /\ timers_pending' = timers_pending
               /\ next_expiry_recalc' = (next_expiry_recalc \/ Singular(t)) /\ Ahead' = Ahead - f
      <4> SUFFICES ASSUME ~next_expiry_recalc', timers_pending'
                   PROVE  \E i \in pending_map' : Dist(i, clk') = Ahead'
        BY DEF NextHits
      <4>1. ~next_expiry_recalc /\ ~Singular(t) /\ timers_pending BY <3>2
      <4>2. PICK i \in pending_map : Dist(i, clk) = Ahead BY <1>1, <4>1 DEF NextHits
      <4>3. i \in pending_map' /\ Dist(i, clk') = Ahead - f BY <1>8, <2>2, <2>4, <4>1, <4>2
      <4>. QED BY <3>2, <4>3
    <3>. QED BY <2>7, <3>1, <3>2
  <2>12. Lag'
    <3>1. Lead' <= 1 \/ Ahead' = Ahead - f
      BY <1>2, <1>3, <1>5, <2>5, <2>7
    <3>2. Lead' = L - f /\ L <= A + MaxLag + 1 /\ MaxLag \in Nat /\ f <= L BY <1>2, <1>3, <1>5, <1>14, Bounds
    <3>3. PICK y \in Nat : y = Lead' /\ y = L - f BY <1>3, <1>14, <3>2
    <3>4. y <= 1 \/ x = A - f BY <1>14, <2>8, <3>1, <3>3
    <3>6. y = L - f /\ L <= A + MaxLag + 1 /\ MaxLag \in Nat BY <3>2, <3>3
    <3>5. y <= x + MaxLag + 1 BY <3>4, <3>6
    <3>. QED BY <2>8, <3>3, <3>5 DEF Lag
  <2>13. Placed'
    <3>1. ASSUME NEW u \in Timers, mark'[u] = "exact", entry'[u] = "wheel"
          PROVE  PlacedAt(idx'[u], expires'[u], clk', Lead')
      <4>1. CASE u # t BY <1>10, <2>1, <2>2, <3>1, <4>1 DEF WheelType
      <4>2. CASE u = t
        <5>1. ~Far(e, c) /\ idx'[u] = b.idx /\ expires'[u] = e
          BY <1>4, <2>1, <2>2, <3>1, <4>2 DEF WheelType
        <5>. QED BY <1>4, <1>7, <5>1
      <4>. QED BY <4>1, <4>2
    <3>. QED BY <3>1 DEF Placed
  <2>14. Due'
    <3>1. ASSUME NEW u \in Timers, mark'[u] = "exact", entry'[u] = "heads"
          PROVE  DueAt(expires'[u], clk', Ahead')
      <4>1. u # t BY <2>2, <3>1 DEF WheelType
      <4>2. Ahead' \in Nat /\ Ahead' + f <= Ahead BY <1>14, <2>8
      <4>. QED BY <1>11, <2>1, <2>2, <3>1, <4>1, <4>2 DEF WheelType
    <3>. QED BY <3>1 DEF Due
  <2>. QED BY <2>3, <2>9, <2>10, <2>11, <2>12, <2>13, <2>14 DEF Wheel
<1>. QED BY <1>12, <1>13

\* The parts of the invariant.
LEMMA InvParts == TimerInv <=> TimerTypeOK /\ Wheel /\ Asked
BY DEF TimerInv, Wheel

\* The part of the type that __mod_timer() changes, and the rest.
LEMMA TypeParts ==
  TimerTypeOK <=>
    /\ jiffies \in Longs /\ WheelType
    /\ running_timer \in Timers \cup {None}
    /\ pc \in {"idle", "run", "fn"}
    /\ softirq \in BOOLEAN
    /\ call \in [t : Timers, e : Longs, pending : BOOLEAN, ticks : 0 .. MaxTicks] \cup {None}
BY DEF TimerTypeOK, WheelType

wheelVars == <<clk, next_expiry, next_expiry_recalc, timers_pending, pending_map, expires, idx, entry, mark>>

\* Steps that leave the wheel alone.
LEMMA WheelSame ==
  ASSUME jiffies' = jiffies, UNCHANGED wheelVars
  PROVE  (WheelType /\ Wheel) => (WheelType' /\ Wheel')
<1>1. Ahead' = Ahead /\ Lead' = Lead BY DEF wheelVars, Ahead, Lead
<1>2. WheelType => WheelType' BY DEF WheelType, wheelVars
<1>3. MapExact => MapExact' BY DEF MapExact, Vector, wheelVars
<1>4. NextFirst => NextFirst' BY <1>1 DEF NextFirst, wheelVars
<1>5. NextHits => NextHits' BY <1>1 DEF NextHits, wheelVars
<1>6. Lag => Lag' BY <1>1 DEF Lag
<1>7. Placed => Placed' BY <1>1 DEF Placed, wheelVars
<1>8. Due => Due' BY <1>1 DEF Due, wheelVars
<1>. QED BY <1>2, <1>3, <1>4, <1>5, <1>6, <1>7, <1>8 DEF Wheel

\* The invariant holds when the base has been initialised.
LEMMA InitStep == TimerInit => TimerInv
<1> SUFFICES ASSUME TimerInit PROVE TimerInv OBVIOUS
<1>1. Words \in Nat \ {0} /\ NEXT_TIMER_MAX_DELTA \in Nat /\ NEXT_TIMER_MAX_DELTA \in Longs
  BY Ranges, LongsIs
<1>2. jiffies \in Longs /\ clk \in Longs /\ clk = jiffies BY <1>1, LongsIs DEF TimerInit, Words
<1>3. next_expiry \in Longs /\ Ahead = NEXT_TIMER_MAX_DELTA
  BY <1>1, <1>2, AddSub DEF TimerInit, Ahead
<1>4. 0 \in Index /\ 0 \in Longs
  <2>1. 0 \in Levels /\ 0 \in 0 .. LVL_SIZE - 1 BY Sizes, WheelAssumption DEF Levels
  <2>2. (0 * LVL_SIZE) + 0 = 0 BY Sizes
  <2>3. (0 * LVL_SIZE) + 0 \in Index BY <2>1, BucketAt
  <2>. QED BY <1>1, <2>2, <2>3, LongsIs
<1>5. TimerTypeOK BY <1>2, <1>3, <1>4 DEF TimerInit, TimerTypeOK
<1>6. MapExact BY DEF MapExact, Vector, TimerInit
<1>7. NextFirst BY <1>1, <1>3 DEF NextFirst, TimerInit
<1>8. NextHits BY DEF NextHits, TimerInit
<1>9. Lag
  <2>1. 1 \in Longs BY LongsIs, Ranges
  <2>2. Lead = 1 BY <1>2, <2>1, AddSub DEF Lead
  <2>. QED BY <1>1, <1>3, <2>2, Bounds DEF Lag
<1>10. Placed /\ Due BY DEF Placed, Due, TimerInit
<1>11. Asked BY DEF Asked, TimerInit
<1>. QED BY <1>5, <1>6, <1>7, <1>8, <1>9, <1>10, <1>11 DEF TimerInv

\* A task's mod_timer() up to the lock changes nothing of the wheel.
LEMMA CheckStep ==
  ASSUME TimerInv, NEW t \in TaskTimers, NEW d \in Deltas, mod_timer_check(t, Long(jiffies + d))
  PROVE  TimerInv'
<1>1. TimerTypeOK /\ Wheel /\ jiffies \in Longs /\ WheelType BY InvParts, TypeParts
<1>2. jiffies' = jiffies /\ UNCHANGED wheelVars BY DEF mod_timer_check, wheelVars
<1>3. WheelType' /\ Wheel' BY <1>1, <1>2, WheelSame
<1>4. d \in Nat /\ jiffies \in Int /\ MaxTicks \in Nat BY <1>1, Bounds, LongsIs, Ranges
<1>5. PICK e \in Longs : e = Long(jiffies + d)
  <2>1. jiffies + d \in Int BY <1>4
  <2>. QED BY <2>1, LongTurns
<1>6. /\ call' = [t |-> t, e |-> e, pending |-> timer_pending(t), ticks |-> 0]
      /\ UNCHANGED <<running_timer, pc, softirq>>
  BY <1>5 DEF mod_timer_check
<1>7. t \in Timers /\ timer_pending(t) \in BOOLEAN /\ 0 \in 0 .. MaxTicks
  BY <1>4, WheelAssumption DEF timer_pending
<1>8. TimerTypeOK'
  <2>1. call' \in [t : Timers, e : Longs, pending : BOOLEAN, ticks : 0 .. MaxTicks] BY <1>6, <1>7
  <2>. QED BY <1>1, <1>2, <1>3, <1>6, <2>1 DEF TimerTypeOK, WheelType
<1>9. Asked'
  <2>1. (jiffies - 0) + d = jiffies + d BY <1>4
  <2>2. call'.e = Long((jiffies' - call'.ticks) + d) BY <1>2, <1>5, <1>6, <2>1
  <2>. QED BY <2>2 DEF Asked
<1>. QED BY <1>3, <1>8, <1>9 DEF TimerInv, Wheel

\* The rest of it, MaxTicks ticks later at most.
LEMMA TaskStep ==
  ASSUME TimerInv, mod_timer_task
  PROVE  TimerInv'
<1>1. TimerTypeOK /\ Wheel /\ jiffies \in Longs /\ WheelType /\ Asked BY InvParts, TypeParts
<1>2. /\ call # None /\ mod_timer_locked(call.t, call.e, call.pending) /\ call' = None
      /\ UNCHANGED <<jiffies, running_timer, pc, softirq>>
  BY DEF mod_timer_task
<1>3. call.t \in Timers /\ call.e \in Longs /\ call.pending \in BOOLEAN /\ call.ticks \in 0 .. MaxTicks
  BY <1>1, <1>2 DEF TimerTypeOK
<1>4. PICK d \in Deltas : call.e = Long(jiffies - call.ticks + d) BY <1>1, <1>2 DEF Asked
<1>5. PICK k \in 0 .. MaxTicks : k = call.ticks BY <1>3
<1>6. MaxTicks \in Nat /\ d \in Nat /\ jiffies \in Int /\ MaxLag \in Nat /\ NEXT_TIMER_MAX_DELTA \in Nat
      /\ NEXT_TIMER_MAX_DELTA + d + MaxLag + MaxTicks < Half /\ Half \in Nat
  BY <1>1, Bounds, LongsIs, Ranges
<1>7. PICK o \in Int : o = d - k BY <1>5, <1>6
<1>8. jiffies - k + d = jiffies + o /\ o >= - MaxTicks /\ NEXT_TIMER_MAX_DELTA + o + MaxLag < Half
  BY <1>5, <1>6, <1>7
<1>9. call.e = Long(jiffies + o) BY <1>4, <1>5, <1>8
<1>10. WheelType' /\ Wheel' BY <1>1, <1>2, <1>3, <1>8, <1>9, Locked
<1>11. TimerTypeOK' BY <1>1, <1>2, <1>10 DEF TimerTypeOK, WheelType
<1>12. Asked' BY <1>2 DEF Asked
<1>. QED BY <1>10, <1>11, <1>12 DEF TimerInv, Wheel

\* mod_timer() by an interrupt or a callback.
LEMMA IrqStep ==
  ASSUME TimerInv, NEW t \in Timers, NEW d \in Deltas, mod_timer_irq(t, Long(jiffies + d))
  PROVE  TimerInv'
<1>1. TimerTypeOK /\ Wheel /\ jiffies \in Longs /\ WheelType /\ Asked BY InvParts, TypeParts
<1>2. MaxTicks \in Nat /\ d \in Nat /\ jiffies \in Int /\ MaxLag \in Nat /\ NEXT_TIMER_MAX_DELTA \in Nat
      /\ NEXT_TIMER_MAX_DELTA + d + MaxLag + MaxTicks < Half /\ Half \in Nat
  BY <1>1, Bounds, LongsIs, Ranges
<1>3. PICK e \in Longs : e = Long(jiffies + d)
  <2>1. jiffies + d \in Int BY <1>2
  <2>. QED BY <2>1, LongTurns
<1>4. mod_timer_locked(t, e, timer_pending(t)) /\ UNCHANGED <<jiffies, running_timer, pc, softirq, call>>
  BY <1>3 DEF mod_timer_irq
<1>5. timer_pending(t) \in BOOLEAN BY DEF timer_pending
<1>6. d \in Int /\ d >= - MaxTicks /\ NEXT_TIMER_MAX_DELTA + d + MaxLag < Half BY <1>2
<1>7. WheelType' /\ Wheel' BY <1>1, <1>3, <1>4, <1>5, <1>6, Locked
<1>8. TimerTypeOK' BY <1>1, <1>4, <1>7 DEF TimerTypeOK, WheelType
<1>9. Asked' BY <1>1, <1>4 DEF Asked
<1>. QED BY <1>7, <1>8, <1>9 DEF TimerInv, Wheel

\* del_timer(): the last timer of a bucket makes next_expiry stale.
LEMMA DelStep ==
  ASSUME TimerInv, NEW t \in Timers, del_timer(t)
  PROVE  TimerInv'
<1>1. TimerTypeOK /\ Wheel /\ WheelType /\ Asked /\ MapExact /\ NextFirst /\ NextHits /\ Lag /\ Placed /\ Due
  BY InvParts, TypeParts DEF TimerInv
<1>2. /\ pending_map' = MapAfterDetach(t)
      /\ next_expiry_recalc' = (next_expiry_recalc \/ Singular(t))
      /\ entry' = [entry EXCEPT ![t] = "none"]
      /\ mark' = [mark EXCEPT ![t] = "off"]
      /\ UNCHANGED <<jiffies, clk, next_expiry, timers_pending, expires, idx, running_timer, pc, softirq, call>>
  BY DEF del_timer
<1>3. pending_map' \subseteq pending_map /\ (~Singular(t) => pending_map' = pending_map)
  BY <1>2 DEF MapAfterDetach
<1>4. Ahead' = Ahead /\ Lead' = Lead BY <1>2 DEF Ahead, Lead
<1>5. TimerTypeOK'
  <2>1. pending_map' \subseteq Index BY <1>1, <1>3 DEF WheelType
  <2>2. next_expiry_recalc' \in BOOLEAN BY <1>1, <1>2 DEF WheelType, Singular
  <2>3. entry' \in [Timers -> {"none", "wheel", "heads"}] /\ mark' \in [Timers -> {"off", "exact", "clamped", "stale"}]
    BY <1>1, <1>2 DEF WheelType
  <2>. QED BY <1>1, <1>2, <2>1, <2>2, <2>3 DEF TimerTypeOK
<1>6. MapExact' BY <1>1, <1>2, MapDetached
<1>7. NextFirst' BY <1>1, <1>2, <1>3, <1>4 DEF NextFirst
<1>8. NextHits' BY <1>1, <1>2, <1>3, <1>4 DEF NextHits
<1>9. Lag' BY <1>1, <1>4 DEF Lag
<1>10. Placed' BY <1>1, <1>2, <1>4 DEF Placed, WheelType
<1>11. Due' BY <1>1, <1>2, <1>4 DEF Due, WheelType
<1>12. Asked' BY <1>1, <1>2 DEF Asked
<1>. QED BY <1>5, <1>6, <1>7, <1>8, <1>9, <1>10, <1>11, <1>12 DEF TimerInv

\* A tick: jiffies moves, and with it what the task asked for is closer.
LEMMA LocalTimersStep ==
  ASSUME TimerInv, run_local_timers
  PROVE  TimerInv'
<1>1. /\ TimerTypeOK /\ WheelType /\ Asked /\ MapExact /\ NextFirst /\ NextHits /\ Lag /\ Placed /\ Due
      /\ jiffies \in Longs /\ clk \in Longs /\ next_expiry \in Longs /\ Ahead <= NEXT_TIMER_MAX_DELTA
  BY InvParts, TypeParts DEF TimerInv, WheelType, NextFirst
<1>2. /\ time_before(jiffies, next_expiry) \/ Sub(jiffies, next_expiry) < MaxLag
      /\ \/ call = None /\ UNCHANGED call
         \/ call # None /\ call.ticks < MaxTicks /\ call' = [call EXCEPT !.ticks = @ + 1]
      /\ jiffies' = Long(jiffies + 1)
      /\ softirq' = (softirq \/ time_after_eq(jiffies', next_expiry))
      /\ UNCHANGED wheelVars /\ UNCHANGED <<running_timer, pc>>
  BY DEF run_local_timers, wheelVars
<1>3. /\ Ahead \in Nat /\ Lead \in Nat /\ Lead < Half
      /\ Long(jiffies + 1) = Long(clk + Lead)
      /\ time_before(jiffies, next_expiry) <=> Lead <= Ahead
      /\ Lead > Ahead => Sub(jiffies, next_expiry) = (Lead - 1) - Ahead
  BY <1>1, Times
<1>4. jiffies \in Int /\ clk \in Int BY <1>1, LongsIs, Ranges
<1>5. jiffies' \in Longs /\ jiffies' \in Int
  <2>1. jiffies + 1 \in Int BY <1>4
  <2>2. jiffies' \in Longs BY <1>2, <2>1, LongTurns
  <2>. QED BY <2>2, LongsIs, Ranges
<1>6. PICK a \in Nat, l \in Nat : a = Ahead /\ l = Lead BY <1>3
<1>7. Lead' = l + 1
  <2>1. Long(Long(clk + l) + 1) = Long((clk + l) + 1) BY <1>4, LongLong
  <2>2. (clk + l) + 1 = clk + (l + 1) BY <1>4
  <2>3. Long(jiffies' + 1) = Long(clk + (l + 1)) BY <1>2, <1>3, <1>6, <2>1, <2>2
  <2>4. l + 1 \in Longs BY <1>3, <1>6, Ranges, LongsIs
  <2>5. clk' = clk BY <1>2 DEF wheelVars
  <2>. QED BY <1>1, <2>3, <2>4, <2>5, AddSub DEF Lead
<1>8. Ahead' = a BY <1>2, <1>6 DEF Ahead, wheelVars
<1>9. l <= a + MaxLag
  <2>0. MaxLag \in Nat BY Bounds
  <2>1. CASE l <= a BY <2>0, <2>1
  <2>2. CASE l > a
    <3>1. Sub(jiffies, next_expiry) = (l - 1) - a /\ ~time_before(jiffies, next_expiry) BY <1>3, <1>6, <2>2
    <3>2. (l - 1) - a < MaxLag BY <1>2, <3>1
    <3>. QED BY <2>0, <3>2
  <2>. QED BY <2>1, <2>2
<1>10. WheelType' BY <1>1, <1>2 DEF WheelType, wheelVars
<1>11. call' \in [t : Timers, e : Longs, pending : BOOLEAN, ticks : 0 .. MaxTicks] \cup {None}
  <2>1. CASE call = None BY <1>2, <2>1
  <2>2. CASE call # None
    <3>1. call \in [t : Timers, e : Longs, pending : BOOLEAN, ticks : 0 .. MaxTicks]
      BY <1>1, <2>2 DEF TimerTypeOK
    <3>2. call.ticks + 1 \in 0 .. MaxTicks BY <1>2, <2>2, <3>1, Bounds
    <3>. QED BY <1>2, <2>2, <3>1, <3>2
  <2>. QED BY <2>1, <2>2
<1>12. TimerTypeOK'
  <2>1. softirq' \in BOOLEAN BY <1>1, <1>2 DEF TimerTypeOK, time_after_eq
  <2>. QED BY <1>1, <1>2, <1>5, <1>10, <1>11, <2>1 DEF TimerTypeOK, WheelType
<1>13. MapExact' BY <1>1, <1>2 DEF MapExact, Vector, wheelVars
<1>14. NextFirst' BY <1>1, <1>2, <1>6, <1>8 DEF NextFirst, wheelVars
<1>15. NextHits' BY <1>1, <1>2, <1>6, <1>8 DEF NextHits, wheelVars
<1>16. Lag'
  <2>1. l + 1 <= a + MaxLag + 1 BY <1>9, Bounds
  <2>. QED BY <1>7, <1>8, <2>1 DEF Lag
<1>17. Placed'
  <2>1. ASSUME NEW u \in Timers, mark[u] = "exact", entry[u] = "wheel"
        PROVE  PlacedAt(idx[u], expires[u], clk, l + 1)
    <3>1. PlacedAt(idx[u], expires[u], clk, l) BY <1>1, <1>6, <2>1 DEF Placed
    <3>2. Dist(idx[u], clk) \in Int
      <4>1. idx[u] \in Index BY <1>1 DEF WheelType
      <4>2. Dist(idx[u], clk) \in Longs BY <1>4, <4>1, DistType
      <4>. QED BY <4>2, LongsIs, Ranges
    <3>3. Dist(idx[u], clk) <= l => Dist(idx[u], clk) <= l + 1 BY <3>2
    <3>. QED BY <3>1, <3>3 DEF PlacedAt
  <2>. QED BY <1>2, <1>7, <2>1 DEF Placed, wheelVars
<1>18. Due' BY <1>1, <1>2, <1>6, <1>8 DEF Due, wheelVars
<1>19. Asked'
  <2> SUFFICES ASSUME call' # None
               PROVE  \E d \in Deltas : call'.e = Long(jiffies' - call'.ticks + d)
    BY DEF Asked
  <2>1. call # None /\ call' = [call EXCEPT !.ticks = @ + 1] BY <1>2
  <2>2. call \in [t : Timers, e : Longs, pending : BOOLEAN, ticks : 0 .. MaxTicks] BY <1>1, <2>1 DEF TimerTypeOK
  <2>3. PICK d \in Deltas : call.e = Long(jiffies - call.ticks + d) BY <1>1, <2>1 DEF Asked
  <2>4. PICK k \in Nat : k = call.ticks /\ call'.ticks = k + 1 /\ call'.e = call.e
    BY <2>1, <2>2, Bounds
  <2>5. d \in Nat BY Bounds
  <2>6. PICK y \in Int : y = d - (k + 1) BY <2>4, <2>5
  <2>7. Long(Long(jiffies + 1) + y) = Long((jiffies + 1) + y)
    <3>1. jiffies + 1 \in Int BY <1>4
    <3>. QED BY <2>6, <3>1, LongLong
  <2>8. (jiffies + 1) + y = jiffies - k + d BY <1>4, <2>4, <2>5, <2>6
  <2>9. jiffies' + y = jiffies' - (k + 1) + d BY <1>5, <2>4, <2>5, <2>6
  <2>10. call'.e = Long(jiffies' - call'.ticks + d) BY <1>2, <2>3, <2>4, <2>7, <2>8, <2>9
  <2>. QED BY <2>10
<1>. QED BY <1>12, <1>13, <1>14, <1>15, <1>16, <1>17, <1>18, <1>19 DEF TimerInv

\* Steps that leave the wheel alone.
LEMMA PlainSteps ==
  ASSUME TimerInv, run_timer_softirq \/ call_timer_fn \/ run_done
  PROVE  TimerInv'
<1>1. TimerTypeOK /\ Wheel /\ WheelType /\ Asked BY InvParts, TypeParts
<1>2. jiffies' = jiffies /\ UNCHANGED wheelVars /\ call' = call
  BY DEF run_timer_softirq, call_timer_fn, run_done, wheelVars
<1>3. WheelType' /\ Wheel' BY <1>1, <1>2, WheelSame
<1>4. TimerTypeOK'
  <2>1. /\ running_timer' \in Timers \cup {None} /\ pc' \in {"idle", "run", "fn"} /\ softirq' \in BOOLEAN
    BY <1>1 DEF TimerTypeOK, run_timer_softirq, call_timer_fn, run_done
  <2>. QED BY <1>1, <1>2, <1>3, <2>1 DEF TimerTypeOK, WheelType
<1>5. Asked' BY <1>1, <1>2 DEF Asked
<1>. QED BY <1>3, <1>4, <1>5 DEF TimerInv, Wheel

\* A timer is taken off heads[] and its callback begins.
LEMMA ExpireStep ==
  ASSUME TimerInv, NEW t \in Timers, expire_timers(t)
  PROVE  TimerInv'
<1>1. TimerTypeOK /\ WheelType /\ Asked /\ MapExact /\ NextFirst /\ NextHits /\ Lag /\ Placed /\ Due
  BY InvParts, TypeParts DEF TimerInv
<1>2. /\ entry[t] = "heads" /\ running_timer' = t /\ pc' = "fn"
      /\ entry' = [entry EXCEPT ![t] = "none"]
      /\ mark' = [mark EXCEPT ![t] = "off"]
      /\ UNCHANGED <<jiffies, clk, next_expiry, next_expiry_recalc, timers_pending, pending_map,
                     expires, idx, softirq, call>>
  BY DEF expire_timers, Heads
<1>3. Ahead' = Ahead /\ Lead' = Lead BY <1>2 DEF Ahead, Lead
<1>4. TimerTypeOK'
  <2>1. entry' \in [Timers -> {"none", "wheel", "heads"}] /\ mark' \in [Timers -> {"off", "exact", "clamped", "stale"}]
    BY <1>1, <1>2 DEF WheelType
  <2>. QED BY <1>1, <1>2, <2>1 DEF TimerTypeOK
<1>5. MapExact'
  <2>1. \A i \in Index : Vector(i)' = Vector(i) BY <1>1, <1>2 DEF Vector, WheelType
  <2>. QED BY <1>1, <1>2, <2>1 DEF MapExact
<1>6. NextFirst' BY <1>1, <1>2, <1>3 DEF NextFirst
<1>7. NextHits' BY <1>1, <1>2, <1>3 DEF NextHits
<1>8. Lag' BY <1>1, <1>3 DEF Lag
<1>9. Placed' BY <1>1, <1>2, <1>3 DEF Placed, WheelType
<1>10. Due' BY <1>1, <1>2, <1>3 DEF Due, WheelType
<1>11. Asked' BY <1>1, <1>2 DEF Asked
<1>. QED BY <1>4, <1>5, <1>6, <1>7, <1>8, <1>9, <1>10, <1>11 DEF TimerInv

\* One turn of __run_timers(): the buckets that are due are emptied, the clock
\* moves past them and next_expiry is computed again.
LEMMA CollectStep ==
  ASSUME TimerInv, collect_expired_timers
  PROVE  TimerInv'
<1> DEFINE due == Collected(next_expiry)
           c == Long(next_expiry + 1)
<1>1. /\ TimerTypeOK /\ WheelType /\ Asked /\ MapExact /\ NextFirst /\ NextHits /\ Lag /\ Placed /\ Due
      /\ jiffies \in Longs /\ clk \in Longs /\ next_expiry \in Longs /\ Ahead <= NEXT_TIMER_MAX_DELTA
      /\ pending_map \subseteq Index /\ (\A i \in pending_map : Ahead <= Dist(i, clk))
  BY InvParts, TypeParts DEF TimerInv, WheelType, NextFirst
<1>2. /\ Heads = {} /\ LoopAgain
      /\ pending_map' = pending_map \ due
      /\ entry' = [t \in Timers |-> IF entry[t] = "wheel" /\ idx[t] \in due THEN "heads" ELSE entry[t]]
      /\ clk' = c
      /\ next_expiry' = __next_timer_interrupt(pending_map \ due, c)
      /\ next_expiry_recalc' = FALSE
      /\ timers_pending' = (next_expiry' # Long(c + NEXT_TIMER_MAX_DELTA))
      /\ UNCHANGED <<jiffies, expires, idx, running_timer, pc, softirq, call, mark>>
  BY DEF collect_expired_timers
<1>3. /\ Ahead \in Nat /\ Lead \in Nat /\ Lead <= Ahead + MaxLag + 1 /\ Lead < Half /\ Ahead < Half
      /\ next_expiry = Long(clk + Ahead)
      /\ time_before(jiffies, next_expiry) <=> Lead <= Ahead
  BY <1>1, Times
<1>4. PICK a \in Nat, l \in Nat : a = Ahead /\ l = Lead /\ a < Half /\ l < Half BY <1>3
<1>5. l > a
  <2>1. ~time_before(jiffies, next_expiry) BY <1>2 DEF LoopAgain, time_after_eq
  <2>2. ~(l <= a) BY <1>3, <1>4, <2>1
  <2>. QED BY <2>2
<1>6. clk \in Int BY <1>1, LongsIs, Ranges
<1>7. c = Long(clk + (a + 1))
  <2>1. Long(Long(clk + a) + 1) = Long((clk + a) + 1) BY <1>6, LongLong
  <2>2. (clk + a) + 1 = clk + (a + 1) BY <1>6
  <2>. QED BY <1>3, <1>4, <2>1, <2>2
<1>8. PICK f \in Nat : f = a + 1 /\ f <= l /\ c = Long(clk + f) BY <1>5, <1>7
<1> HIDE DEF c
<1>9. clk' \in Longs /\ Lead' = l - f
  <2>1. f <= Lead BY <1>4, <1>8
  <2>. QED BY <1>1, <1>2, <1>4, <1>8, <2>1, ClockMoves
<1>10. \A i \in Index : Dist(i, clk) \in Nat
  <2>1. \A i \in Index : Dist(i, clk) \in Longs BY <1>6, DistType
  <2>. QED BY <2>1, LongsIs, Ranges
<1>11. ASSUME NEW i \in pending_map PROVE i \in due <=> Dist(i, clk) = a
  <2>1. i \in due <=> Dist(i, next_expiry) = 0 BY <1>1, CollectedIs
  <2>2. PICK d \in Nat : d = Dist(i, clk) /\ a <= d BY <1>1, <1>4, <1>10
  <2>3. a \in 0 .. Dist(i, clk) BY <2>2
  <2>4. Dist(i, next_expiry) = d - a BY <1>1, <1>3, <1>4, <2>2, <2>3, DistMove
  <2>5. d - a = 0 <=> d = a BY <2>2
  <2>. QED BY <2>1, <2>2, <2>4, <2>5
<1> HIDE DEF due
<1>12. ASSUME NEW i \in pending_map' PROVE i \in Index /\ f <= Dist(i, clk) /\ f \in 0 .. Dist(i, clk)
  <2>1. i \in pending_map /\ i \notin due /\ i \in Index BY <1>1, <1>2
  <2>2. PICK d \in Nat : d = Dist(i, clk) /\ a <= d /\ d # a BY <1>1, <1>4, <1>10, <1>11, <2>1
  <2>3. f <= d BY <1>8, <2>2
  <2>. QED BY <2>1, <2>2, <2>3
<1>13. /\ next_expiry' \in Longs
       /\ Ahead' <= NEXT_TIMER_MAX_DELTA
       /\ \A i \in pending_map' : Ahead' <= Dist(i, clk')
       /\ next_expiry' = Long(clk' + NEXT_TIMER_MAX_DELTA) \/ \E i \in pending_map' : Dist(i, clk') = Ahead'
  <2>1. pending_map \ due \in SUBSET Index /\ c \in Longs BY <1>1, <1>2, <1>9
  <2>. QED BY <1>2, <2>1, NextInterrupt DEF Ahead
<1>14. PICK x \in Nat : x = Ahead'
  <2>1. Sub(next_expiry', clk') \in Nat BY <1>9, <1>13, Offset
  <2>. QED BY <2>1 DEF Ahead
<1>15. TimerTypeOK'
  <2>1. pending_map' \subseteq Index BY <1>1, <1>2
  <2>2. entry' \in [Timers -> {"none", "wheel", "heads"}] BY <1>1, <1>2 DEF WheelType
  <2>3. next_expiry_recalc' \in BOOLEAN /\ timers_pending' \in BOOLEAN BY <1>2
  <2>. QED BY <1>1, <1>2, <1>9, <1>13, <2>1, <2>2, <2>3 DEF TimerTypeOK
<1>16. MapExact'
  <2>1. ASSUME NEW i \in Index PROVE Vector(i)' = IF i \in due THEN {} ELSE Vector(i)
    BY <1>1, <1>2 DEF Vector, WheelType
  <2>. QED BY <1>1, <1>2, <2>1 DEF MapExact
<1>17. NextFirst' BY <1>13 DEF NextFirst
<1>18. NextHits' BY <1>2, <1>13 DEF NextHits
<1>19. Lag'
  <2>1. l <= a + MaxLag + 1 /\ MaxLag \in Nat BY <1>3, <1>4, Bounds
  <2>2. l - f <= x + MaxLag + 1 BY <1>8, <2>1
  <2>. QED BY <1>9, <1>14, <2>2 DEF Lag
<1>20. Placed'
  <2>1. ASSUME NEW u \in Timers, mark'[u] = "exact", entry'[u] = "wheel"
        PROVE  PlacedAt(idx'[u], expires'[u], clk', Lead')
    <3>1. /\ mark[u] = "exact" /\ entry[u] = "wheel" /\ idx[u] \notin due
          /\ idx'[u] = idx[u] /\ expires'[u] = expires[u]
      BY <1>2, <2>1
    <3>2. idx[u] \in pending_map /\ expires[u] \in Longs BY <1>1, <3>1 DEF MapExact, Vector, WheelType
    <3>3. idx[u] \in pending_map' BY <1>2, <3>1, <3>2
    <3>4. idx[u] \in Index /\ f \in 0 .. Dist(idx[u], clk) BY <1>12, <3>3
    <3>5. PlacedAt(idx[u], expires[u], clk, l) BY <1>1, <1>4, <3>1 DEF Placed
    <3>6. PlacedAt(idx[u], expires[u], Long(clk + f), l - f)
      BY <1>1, <1>8, <3>2, <3>4, <3>5, PlacedMoves
    <3>. QED BY <1>2, <1>8, <1>9, <3>1, <3>6
  <2>. QED BY <2>1 DEF Placed
<1>21. Due'
  <2>1. ASSUME NEW u \in Timers, mark'[u] = "exact", entry'[u] = "heads"
        PROVE  DueAt(expires'[u], clk', Ahead')
    <3>1. entry[u] # "heads" BY <1>2 DEF Heads
    <3>2. /\ mark[u] = "exact" /\ entry[u] = "wheel" /\ idx[u] \in due /\ expires'[u] = expires[u]
      BY <1>2, <2>1, <3>1
    <3>3. idx[u] \in pending_map /\ idx[u] \in Index /\ expires[u] \in Longs
      BY <1>1, <3>2 DEF MapExact, Vector, WheelType
    <3>4. Dist(idx[u], clk) = a BY <1>11, <3>2, <3>3
    <3>5. PICK e \in Longs, y \in Nat : e = expires[u] /\ y = Sub(next_expiry, e) /\ y < Words
      BY <1>1, <3>3, Offset
    <3>6. PICK g \in Nat : g = LVL_GRAN(Level(idx[u])) /\ g <= LVL_GRAN(LVL_DEPTH - 1)
      <4>1. Level(idx[u]) \in Levels BY <3>3, BucketOf
      <4>. QED BY <4>1, Reach
    <3>7. y <= g \/ y <= MaxTicks + 1
      <4>1. PlacedAt(idx[u], e, clk, Lead) BY <1>1, <3>2, <3>5 DEF Placed
      <4>2. Long(clk + Dist(idx[u], clk)) = next_expiry BY <1>3, <1>4, <3>4
      <4>. QED BY <3>5, <3>6, <4>1, <4>2 DEF PlacedAt
    <3>8. y + 1 + x <= MaxLate /\ y + 1 < Words
      <4>1. PICK z \in Nat \ {0} : z = LVL_GRAN(LVL_DEPTH - 1) BY Bounds
      <4>2. x <= NEXT_TIMER_MAX_DELTA BY <1>13, <1>14
      <4>3. NEXT_TIMER_MAX_DELTA \in Nat /\ MaxTicks \in Nat BY Bounds
      <4>4. y <= z + MaxTicks BY <3>6, <3>7, <4>1, <4>3
      <4>5. MaxLate = NEXT_TIMER_MAX_DELTA + z + MaxTicks + 1 BY <4>1 DEF MaxLate
      <4>6. y + 1 + x <= MaxLate BY <4>2, <4>3, <4>4, <4>5
      <4>7. MaxLate \in Nat /\ MaxLate < Half /\ Half < Words /\ Half \in Nat /\ Words \in Nat
        <5>1. NEXT_TIMER_MAX_DELTA + z + MaxLag + MaxTicks + 2 < Half /\ MaxLag \in Nat BY <4>1, Bounds
        <5>2. Half \in Nat \ {0} /\ Words = 2 * Half BY Ranges
        <5>. QED BY <4>3, <4>5, <5>1, <5>2
      <4>8. y + 1 <= y + 1 + x OBVIOUS
      <4>. QED BY <4>6, <4>7, <4>8
    <3>9. Sub(Long(next_expiry + 1), e) = y + 1 BY <1>1, <3>5, <3>8, SubMove
    <3>10. Sub(clk', e) = y + 1 BY <1>2, <3>9 DEF c
    <3>11. y + 1 # 0 BY <3>5
    <3>12. DueAt(e, clk', x) BY <3>8, <3>10, <3>11 DEF DueAt
    <3>. QED BY <1>14, <3>2, <3>5, <3>12
  <2>. QED BY <2>1 DEF Due
<1>22. Asked' BY <1>1, <1>2 DEF Asked
<1>. QED BY <1>15, <1>16, <1>17, <1>18, <1>19, <1>20, <1>21, <1>22 DEF TimerInv

----------------------------------------------------------------------------
(* The timer wheel: theorems *)

\* The invariant holds in every reachable state.
THEOREM TimerInvariance == TimerSpec => []TimerInv
<1>1. TimerInit => TimerInv BY InitStep
<1>2. TimerInv /\ [TimerNext]_timerVars => TimerInv'
  <2> SUFFICES ASSUME TimerInv, [TimerNext]_timerVars PROVE TimerInv' OBVIOUS
  <2>1. CASE UNCHANGED timerVars
    <3>1. TimerTypeOK /\ Wheel /\ WheelType /\ Asked BY InvParts, TypeParts
    <3>2. jiffies' = jiffies /\ UNCHANGED wheelVars BY <2>1 DEF timerVars, wheelVars
    <3>3. WheelType' /\ Wheel' BY <3>1, <3>2, WheelSame
    <3>4. TimerTypeOK' BY <2>1, <3>1 DEF TimerTypeOK, timerVars
    <3>5. Asked' BY <2>1, <3>1 DEF Asked, timerVars
    <3>. QED BY <3>3, <3>4, <3>5 DEF TimerInv, Wheel
  <2>2. CASE \E t \in TaskTimers, d \in Deltas : mod_timer_check(t, Long(jiffies + d)) BY <2>2, CheckStep
  <2>3. CASE \E t \in Timers, d \in Deltas : mod_timer_irq(t, Long(jiffies + d)) BY <2>3, IrqStep
  <2>4. CASE \E t \in Timers : del_timer(t) BY <2>4, DelStep
  <2>5. CASE mod_timer_task BY <2>5, TaskStep
  <2>6. CASE run_local_timers BY <2>6, LocalTimersStep
  <2>7. CASE run_timer_softirq \/ call_timer_fn \/ run_done BY <2>7, PlainSteps
  <2>8. CASE collect_expired_timers BY <2>8, CollectStep
  <2>9. CASE \E t \in Timers : expire_timers(t) BY <2>9, ExpireStep
  <2>. QED BY <2>1, <2>2, <2>3, <2>4, <2>5, <2>6, <2>7, <2>8, <2>9 DEF TimerNext, Run
<1>. QED BY <1>1, <1>2, PTL DEF TimerSpec

\* next_expiry is never later than the bucket of a queued timer, whatever the
\* width of the clock, the number and size of the levels and the timeouts.
THEOREM NextExpiryNeverLate == TimerSpec => []NextExpirySafe
<1>1. TimerInv => NextExpirySafe
  <2> SUFFICES ASSUME TimerInv PROVE NextExpirySafe OBVIOUS
  <2>1. clk \in Longs /\ pending_map \subseteq Index /\ MapExact /\ NextFirst
    BY DEF TimerInv, TimerTypeOK
  <2>2. ASSUME NEW i \in pending_map PROVE Sub(next_expiry, clk) <= Sub(BucketExpiry(i), clk)
    <3>1. Sub(BucketExpiry(i), clk) = Dist(i, clk) BY <2>1, BucketExpiryIs
    <3>. QED BY <2>1, <3>1 DEF NextFirst, Ahead
  <2>. QED BY <2>1, <2>2 DEF NextExpirySafe, MapExact
<1>. QED BY <1>1, TimerInvariance, PTL

\* Every timer is in a bucket that is collected at its expiry or up to one
\* granule later, or is overdue.
THEOREM BucketsRight == TimerSpec => []BucketRight
<1>1. TimerInv => BucketRight
  <2> SUFFICES ASSUME TimerInv, NEW t \in Timers, entry[t] = "wheel", mark[t] = "exact"
               PROVE  LET b == BucketExpiry(idx[t])
                      IN /\ time_after_eq(b, expires[t])
                         /\ \/ Sub(b, expires[t]) <= LVL_GRAN(Level(idx[t]))
                            \/ time_after_eq(jiffies + 1, b)
    BY DEF BucketRight
  <2>1. /\ jiffies \in Longs /\ clk \in Longs /\ next_expiry \in Longs /\ Ahead <= NEXT_TIMER_MAX_DELTA /\ Lag
        /\ idx[t] \in Index /\ expires[t] \in Longs /\ Placed
    BY DEF TimerInv, TimerTypeOK, NextFirst
  <2>2. PICK b \in Longs : b = BucketExpiry(idx[t]) /\ b = Long(clk + Dist(idx[t], clk))
    BY <2>1, BucketExpiryIs
  <2>3. PICK y \in Nat : y = Sub(b, expires[t]) BY <2>1, <2>2, Offset
  <2>4. PICK l \in Nat : l = Lead /\ l < Half /\ Long(jiffies + 1) = Long(clk + l) BY <2>1, Times
  <2>5. PICK d \in Nat : d = Dist(idx[t], clk) /\ d < Half
    <3>1. clk \in Int BY <2>1, LongsIs, Ranges
    <3>2. Dist(idx[t], clk) \in Longs /\ Dist(idx[t], clk) < Half BY <2>1, <3>1, DistType
    <3>. QED BY <3>2, LongsIs, Ranges
  <2>6. PICK g \in Nat : g = LVL_GRAN(Level(idx[t])) /\ g < Half
    <3>1. Level(idx[t]) \in Levels BY <2>1, BucketOf
    <3>2. LVL_GRAN(Level(idx[t])) \in Nat /\ LVL_GRAN(Level(idx[t])) <= LVL_GRAN(LVL_DEPTH - 1)
          /\ LVL_GRAN(LVL_DEPTH - 1) <= NEXT_TIMER_MAX_DELTA
      BY <3>1, Reach
    <3>. QED BY <3>2, Bounds, Ranges
  <2>7. y <= g \/ (y <= MaxTicks + 1 /\ d <= l)
    <3>1. PlacedAt(idx[t], expires[t], clk, Lead) BY <2>1 DEF Placed
    <3>. QED BY <2>2, <2>3, <2>4, <2>5, <2>6, <3>1 DEF PlacedAt
  <2>8. y < Half
    <3>1. MaxTicks \in Nat /\ MaxTicks + 1 < Half /\ Half \in Nat BY Bounds, Ranges
    <3>. QED BY <2>3, <2>6, <2>7, <3>1
  <2>9. time_after_eq(b, expires[t])
    <3>1. ~(y >= Half) BY <2>8, Ranges
    <3>. QED BY <2>3, <3>1 DEF time_after_eq, time_before, Half
  <2>10. ASSUME d <= l PROVE time_after_eq(jiffies + 1, b)
    <3>1. /\ l \in - (Words - 1) .. Words - 1 /\ d \in - (Words - 1) .. Words - 1
          /\ l - d < Words /\ d - l < Words
      BY <2>4, <2>5, Ranges
    <3>2. Sub(Long(clk + l), Long(clk + d)) = l - d BY <2>1, <2>10, <3>1, Offsets
    <3>3. Sub(jiffies + 1, b) = Sub(Long(jiffies + 1), b)
      <4>1. jiffies + 1 \in Int /\ b \in Int /\ - b \in Int BY <2>1, <2>2, LongsIs, Ranges
      <4>2. Long(Long(jiffies + 1) + (- b)) = Long((jiffies + 1) + (- b)) BY <4>1, LongLong
      <4>3. (jiffies + 1) + (- b) = (jiffies + 1) - b BY <4>1
      <4>4. Long(jiffies + 1) \in Int
        <5>1. Long(jiffies + 1) \in Longs BY <4>1, LongTurns
        <5>. QED BY <5>1, LongsIs, Ranges
      <4>5. Long(jiffies + 1) + (- b) = Long(jiffies + 1) - b BY <4>1, <4>4
      <4>. QED BY <4>2, <4>3, <4>5 DEF Sub
    <3>4. Sub(jiffies + 1, b) = l - d BY <2>2, <2>4, <2>5, <3>2, <3>3
    <3>5. ~(l - d >= Half) BY <2>4, <2>5, Ranges
    <3>. QED BY <3>4, <3>5 DEF time_after_eq, time_before, Half
  <2>. QED BY <2>2, <2>3, <2>6, <2>7, <2>9, <2>10
<1>. QED BY <1>1, TimerInvariance, PTL

\* Neither of the two WARN_ON_ONCE() of the wheel fires.
THEOREM NeverWarns == TimerSpec => []NoWarning
<1>1. TimerInv => NoWarning
  <2> SUFFICES ASSUME TimerInv PROVE NoWarning OBVIOUS
  <2>1. /\ jiffies \in Longs /\ clk \in Longs /\ next_expiry \in Longs /\ pending_map \subseteq Index
        /\ Ahead <= NEXT_TIMER_MAX_DELTA /\ Lag /\ NextHits
    BY DEF TimerInv, TimerTypeOK, NextFirst
  <2>2. PICK a \in Nat : a = Ahead /\ a < Half /\ next_expiry = Long(clk + a) BY <2>1, Times
  <2>3. time_after_eq(next_expiry, clk)
    <3>1. ~(a >= Half) BY <2>2, Ranges
    <3>. QED BY <2>2, <3>1 DEF time_after_eq, time_before, Half, Ahead
  <2>4. ASSUME ~next_expiry_recalc, timers_pending PROVE Collected(next_expiry) # {}
    <3>1. PICK i \in pending_map : Dist(i, clk) = a BY <2>1, <2>2, <2>4 DEF NextHits
    <3>2. a \in 0 .. Dist(i, clk) BY <3>1
    <3>3. Dist(i, next_expiry) = a - a BY <2>1, <2>2, <3>1, <3>2, DistMove
    <3>4. a - a = 0 OBVIOUS
    <3>5. Collected(next_expiry) = {j \in pending_map : Dist(j, next_expiry) = 0} BY <2>1, CollectedIs
    <3>. QED BY <3>3, <3>4, <3>5
  <2>5. next_expiry_recalc \in BOOLEAN /\ timers_pending \in BOOLEAN BY DEF TimerInv, TimerTypeOK
  <2>. QED BY <2>3, <2>4, <2>5 DEF NoWarning
<1>. QED BY <1>1, TimerInvariance, PTL

\* No callback runs before the time its timer was armed for.
THEOREM CallbacksNeverEarly == TimerSpec => NeverEarly
<1>1. TimerInv /\ [TimerNext]_timerVars =>
        [\A t \in Timers : expire_timers(t) /\ mark[t] = "exact" => time_after_eq(jiffies, expires[t])]_timerVars
  <2> SUFFICES ASSUME TimerInv, NEW t \in Timers, expire_timers(t), mark[t] = "exact"
               PROVE  time_after_eq(jiffies, expires[t])
    OBVIOUS
  <2>1. /\ jiffies \in Longs /\ clk \in Longs /\ next_expiry \in Longs
        /\ Ahead <= NEXT_TIMER_MAX_DELTA /\ Lag /\ Due /\ expires[t] \in Longs
    BY DEF TimerInv, TimerTypeOK, NextFirst
  <2>2. entry[t] = "heads" BY DEF expire_timers, Heads
  <2>3. PICK a \in Nat, l \in Nat : /\ a = Ahead /\ l = Lead /\ l <= a + MaxLag + 1
                                    /\ jiffies = Long(clk + (l - 1))
    BY <2>1, Times
  <2>4. PICK y \in Nat : y = Sub(clk, expires[t]) /\ expires[t] = Long(clk - y) BY <2>1, Offset
  <2>5. y # 0 /\ y + a <= MaxLate BY <2>1, <2>2, <2>3, <2>4 DEF Due, DueAt
  <2>6. MaxLate + MaxLag < Half /\ MaxLate \in Nat /\ MaxLag \in Nat /\ Half \in Nat \ {0} /\ Words = 2 * Half
    BY Bounds, Ranges DEF MaxLate
  <2>7. PICK x \in Int, z \in Int : x = l - 1 /\ z = - y BY <2>3, <2>4
  <2>8. /\ x \in - (Words - 1) .. Words - 1 /\ z \in - (Words - 1) .. Words - 1
        /\ x - z < Half /\ x >= z /\ x - z < Words /\ z - x < Words
    <3>1. l <= a + MaxLag + 1 /\ x = l - 1 /\ z = - y BY <2>3, <2>7
    <3>2. x - z <= MaxLate + MaxLag /\ x >= z /\ x >= - 1 /\ z <= - 1 BY <2>5, <2>6, <3>1
    <3>. QED BY <2>6, <3>2
  <2>9. clk - y = clk + z
    <3>1. clk \in Int BY <2>1, LongsIs, Ranges
    <3>. QED BY <2>7, <3>1
  <2>10. Sub(jiffies, expires[t]) = x - z
    BY <2>1, <2>3, <2>4, <2>7, <2>8, <2>9, Offsets
  <2>11. ~(x - z >= Half) BY <2>6, <2>7, <2>8
  <2>. QED BY <2>10, <2>11 DEF time_after_eq, time_before, Half
<1>. QED BY <1>1, TimerInvariance, PTL DEF TimerSpec, NeverEarly

=============================================================================
