---------------------------- MODULE RWSemProofs ----------------------------
(***************************************************************************)
(* Proofs about RWSem, for any set of tasks and any bound on the readers   *)
(* woken at a time: what count says, that no wake-up is lost, that HANDOFF *)
(* is respected, and that the semaphore is a reader/writer lock.           *)
(*                                                                         *)
(* The functions by which the code decides whom to let in and whom to wake *)
(* work on values that are not yet in the semaphore.  The parts of the     *)
(* inductive invariant are therefore predicates on a configuration: a      *)
(* count c, a list, the set g of readers let in, the places at of tasks.   *)
(***************************************************************************)
EXTENDS RWSem, LockLemmas

Waiters == [task : Tasks, type : {"read", "write"}]

Slow == {"queued", "sleep", "slept"}

ReadersIn(g, at) == {u \in Tasks : at[u] = "read"} \cup g

WritersIn(at) == {u \in Tasks : at[u] = "write"}

IsQueued(list, u) == InList(list, Waiter(u, "read")) \/ InList(list, Waiter(u, "write"))

\* A task in a slow path waits once, or was let in; no other task does.
QueueOK(list, g, at) ==
  /\ list \in Seq(Waiters) /\ NoDup(list) /\ g \subseteq Tasks
  /\ \A u \in Tasks : ~(InList(list, Waiter(u, "read")) /\ InList(list, Waiter(u, "write")))
  /\ \A u \in g : ~IsQueued(list, u)
  /\ \A u \in Tasks : at[u] \in Slow <=> u \in g \/ IsQueued(list, u)

\* A writer is alone.
Exclusive(g, at) ==
  WritersIn(at) = {} \/ (ReadersIn(g, at) = {} /\ \E u \in Tasks : WritersIn(at) = {u})

\* The word of r readers, with the writer, WAITERS and HANDOFF bits.
Word(r, w, p, h) ==
  RWSEM_READER_BIAS * r + w + RWSEM_FLAG_WAITERS * p + RWSEM_FLAG_HANDOFF * h

Bit == {0, 1}

WordOK(c, list, g, at) ==
  /\ IsFiniteSet(ReadersIn(g, at))
  /\ \E h \in Bit :
       /\ c = Word(Cardinality(ReadersIn(g, at)), Cardinality(WritersIn(at)), IF list = <<>> THEN 0 ELSE 1, h)
       /\ list = <<>> => h = 0

Config(c, list, g, at) ==
  /\ at \in [Tasks -> Location]
  /\ QueueOK(list, g, at)
  /\ Exclusive(g, at)
  /\ WordOK(c, list, g, at)

\* Nobody holds the lock.
Free(g, at) == ReadersIn(g, at) = {} /\ WritersIn(at) = {}

\* While the lock is free the first waiter is a writer, and runnable.
FirstOK ==
  wait_list # <<>> /\ Free(granted, pc)
    => Head(wait_list).type = "write" /\ tstate[Head(wait_list).task] = "RUNNING"

GrantedOK == \A u \in granted : tstate[u] = "RUNNING"

IInv ==
  /\ SchedOK
  /\ lstate \in [Tasks -> SleepState]
  /\ Config(count, wait_list, granted, pc)
  /\ FirstOK
  /\ GrantedOK

----------------------------------------------------------------------------
(* The word *)

\* What the code reads off a word.
LEMMA WordRead ==
  ASSUME NEW r \in Nat, NEW w \in Bit, NEW p \in Bit, NEW h \in Bit,
         NEW c, c = Word(r, w, p, h)
  PROVE  /\ c \in Nat
         /\ Has(c, RWSEM_WRITER_LOCKED) <=> w = 1
         /\ Has(c, RWSEM_FLAG_WAITERS) <=> p = 1
         /\ Has(c, RWSEM_FLAG_HANDOFF) <=> h = 1
         /\ Readers(c) = r
         /\ Locked(c) <=> w = 1 \/ r # 0
         /\ ReadFailed(c) <=> w = 1 \/ p = 1 \/ h = 1
         /\ c = 0 <=> r = 0 /\ w = 0 /\ p = 0 /\ h = 0
<1> USE DEF RWSEM_WRITER_LOCKED, RWSEM_FLAG_WAITERS, RWSEM_FLAG_HANDOFF, RWSEM_READER_BIAS, Bit
<1>1. c = 256 * r + w + 2 * p + 4 * h /\ c \in Nat BY DEF Word
<1>2. Has(c, 1) <=> w = 1 BY <1>1 DEF Has
<1>3. Has(c, 2) <=> p = 1 BY <1>1 DEF Has
<1>4. Has(c, 4) <=> h = 1 BY <1>1 DEF Has
<1>5. Readers(c) = r BY <1>1 DEF Readers
<1>6. Locked(c) <=> w = 1 \/ r # 0 BY <1>2, <1>5 DEF Locked
<1>7. ReadFailed(c) <=> w = 1 \/ p = 1 \/ h = 1 BY <1>2, <1>3, <1>4 DEF ReadFailed
<1>8. c = 0 <=> r = 0 /\ w = 0 /\ p = 0 /\ h = 0 BY <1>1
<1>. QED BY <1>1, <1>2, <1>3, <1>4, <1>5, <1>6, <1>7, <1>8

\* What setting and clearing a flag, or adding biases, makes of a word.
LEMMA WordWritten ==
  ASSUME NEW r \in Nat, NEW w \in Bit, NEW p \in Bit, NEW h \in Bit, NEW k \in Nat,
         NEW c, c = Word(r, w, p, h)
  PROVE  /\ SetFlag(c, RWSEM_WRITER_LOCKED) = Word(r, 1, p, h)
         /\ SetFlag(c, RWSEM_FLAG_WAITERS) = Word(r, w, 1, h)
         /\ SetFlag(c, RWSEM_FLAG_HANDOFF) = Word(r, w, p, 1)
         /\ ClearFlag(c, RWSEM_FLAG_WAITERS) = Word(r, w, 0, h)
         /\ ClearFlag(c, RWSEM_FLAG_HANDOFF) = Word(r, w, p, 0)
         /\ c + k * RWSEM_READER_BIAS = Word(r + k, w, p, h)
<1>1. /\ c \in Nat
      /\ Has(c, RWSEM_WRITER_LOCKED) <=> w = 1
      /\ Has(c, RWSEM_FLAG_WAITERS) <=> p = 1
      /\ Has(c, RWSEM_FLAG_HANDOFF) <=> h = 1
  BY WordRead
<1> USE DEF RWSEM_WRITER_LOCKED, RWSEM_FLAG_WAITERS, RWSEM_FLAG_HANDOFF, RWSEM_READER_BIAS, Bit
<1>2. c = 256 * r + w + 2 * p + 4 * h BY DEF Word
<1>3. SetFlag(c, 1) = Word(r, 1, p, h) BY <1>1, <1>2 DEF SetFlag, Word
<1>4. SetFlag(c, 2) = Word(r, w, 1, h) BY <1>1, <1>2 DEF SetFlag, Word
<1>5. SetFlag(c, 4) = Word(r, w, p, 1) BY <1>1, <1>2 DEF SetFlag, Word
<1>6. ClearFlag(c, 2) = Word(r, w, 0, h) BY <1>1, <1>2 DEF ClearFlag, Word
<1>7. ClearFlag(c, 4) = Word(r, w, p, 0) BY <1>1, <1>2 DEF ClearFlag, Word
<1>8. c + k * 256 = Word(r + k, w, p, h) BY <1>1, <1>2 DEF Word
<1>. QED BY <1>3, <1>4, <1>5, <1>6, <1>7, <1>8

----------------------------------------------------------------------------
(* The readers that are let in *)

\* At least the reader at the head, readers all of them, and as many tasks as
\* there are entries.
LEMMA ToWake ==
  ASSUME NEW g, NEW at, NEW list, QueueOK(list, g, at), list # <<>>, Head(list).type = "read"
  PROVE  LET R == ReadersToWake(list)
         IN /\ \A x \in R : InList(list, x) /\ x.type = "read"
            /\ Head(list) \in R
            /\ TasksOf(R) \subseteq Tasks /\ TasksOf(R) # {}
            /\ \A x \in R : x = Waiter(x.task, "read")
            /\ \A u \in Tasks : u \in TasksOf(R) <=> Waiter(u, "read") \in R
            /\ IsFiniteSet(TasksOf(R)) /\ Cardinality(TasksOf(R)) = Cardinality(R)
            /\ Cardinality(R) \in Nat
<1> DEFINE R == ReadersToWake(list)
<1>1. list \in Seq(Waiters) /\ NoDup(list) BY DEF QueueOK
<1>2. \A x \in R : InList(list, x) /\ x.type = "read" BY DEF ReadersToWake, InList
<1>3. Head(list) \in R
  <2> DEFINE rank(i) == Cardinality({j \in 1 .. i : list[j].type = "read"})
  <2>1. 1 \in DOMAIN list /\ Head(list) = list[1] BY <1>1
  <2>2. {j \in 1 .. 1 : list[j].type = "read"} = {1} BY <2>1
  <2>3. rank(1) = 1 BY <2>2, FS_Singleton
  <2>4. rank(1) <= MAX_READERS_WAKEUP BY <2>3, MaxReadersAssumption
  <2>. QED BY <2>1, <2>4 DEF ReadersToWake
<1> HIDE DEF R
<1>4. \A x \in R : x \in Waiters BY <1>1, <1>2, HeadInList
<1>5. \A x \in R : x = Waiter(x.task, "read") /\ x.task \in Tasks BY <1>2, <1>4 DEF Waiters, Waiter
<1>6. TasksOf(R) \subseteq Tasks /\ TasksOf(R) # {} BY <1>3, <1>5 DEF TasksOf
<1>7. \A u \in Tasks : u \in TasksOf(R) <=> Waiter(u, "read") \in R
  BY <1>5 DEF TasksOf, Waiter
<1>8. IsFiniteSet(R)
  <2>1. R \subseteq ToSet(list) BY <1>1, <1>2, ListCardinality
  <2>. QED BY <1>1, <2>1, ListCardinality, FS_Subset
<1>9. ExistsBijection(R, TasksOf(R))
  <2> DEFINE f == [x \in R |-> x.task]
  <2>1. f \in [R -> TasksOf(R)] BY DEF TasksOf
  <2>2. \A x, y \in R : f[x] = f[y] => x = y BY <1>5
  <2>3. \A u \in TasksOf(R) : \E x \in R : f[x] = u BY DEF TasksOf
  <2> HIDE DEF f
  <2>4. f \in Bijection(R, TasksOf(R)) BY <2>1, <2>2, <2>3 DEF Bijection, Injection, Surjection, IsInjective
  <2>. QED BY <2>4 DEF ExistsBijection
<1>10. IsFiniteSet(TasksOf(R)) /\ Cardinality(TasksOf(R)) = Cardinality(R) /\ Cardinality(R) \in Nat
  BY <1>8, <1>9, FS_Bijection, FS_CardinalityType
<1>. QED BY <1>2, <1>3, <1>5, <1>6, <1>7, <1>10 DEF R

----------------------------------------------------------------------------
(* Configurations *)

\* What the code reads off the word of a configuration.
LEMMA Bits ==
  ASSUME NEW c, NEW list, NEW g, NEW at, Config(c, list, g, at)
  PROVE  /\ Cardinality(ReadersIn(g, at)) \in Nat
         /\ Cardinality(ReadersIn(g, at)) = 0 <=> ReadersIn(g, at) = {}
         /\ Cardinality(WritersIn(at)) \in Bit
         /\ Cardinality(WritersIn(at)) = 1 <=> WritersIn(at) # {}
         /\ c \in Nat
         /\ Has(c, RWSEM_WRITER_LOCKED) <=> WritersIn(at) # {}
         /\ Has(c, RWSEM_FLAG_WAITERS) <=> list # <<>>
         /\ Has(c, RWSEM_FLAG_HANDOFF) => list # <<>>
         /\ Readers(c) = Cardinality(ReadersIn(g, at))
         /\ Locked(c) <=> ~Free(g, at)
         /\ ReadFailed(c) <=> WritersIn(at) # {} \/ list # <<>>
         /\ c = 0 <=> Free(g, at) /\ list = <<>>
<1> DEFINE r == Cardinality(ReadersIn(g, at))
           w == Cardinality(WritersIn(at))
           p == IF list = <<>> THEN 0 ELSE 1
<1>1. IsFiniteSet(ReadersIn(g, at)) BY DEF Config, WordOK
<1>2. r \in Nat /\ (r = 0 <=> ReadersIn(g, at) = {}) BY <1>1, FS_CardinalityType, FS_EmptySet
<1>3. w \in Bit /\ (w = 1 <=> WritersIn(at) # {})
  <2>1. CASE WritersIn(at) = {} BY <2>1, FS_EmptySet DEF Bit
  <2>2. CASE WritersIn(at) # {}
    <3>1. PICK u : WritersIn(at) = {u} BY <2>2 DEF Config, Exclusive
    <3>. QED BY <2>2, <3>1, FS_Singleton DEF Bit
  <2>. QED BY <2>1, <2>2
<1>4. PICK h \in Bit : c = Word(r, w, p, h) /\ (list = <<>> => h = 0) BY DEF Config, WordOK
<1>5. p \in Bit /\ (p = 1 <=> list # <<>>) BY DEF Bit
<1> HIDE DEF r, w, p
<1>6. /\ c \in Nat
      /\ Has(c, RWSEM_WRITER_LOCKED) <=> w = 1
      /\ Has(c, RWSEM_FLAG_WAITERS) <=> p = 1
      /\ Has(c, RWSEM_FLAG_HANDOFF) <=> h = 1
      /\ Readers(c) = r
      /\ Locked(c) <=> w = 1 \/ r # 0
      /\ ReadFailed(c) <=> w = 1 \/ p = 1 \/ h = 1
      /\ c = 0 <=> r = 0 /\ w = 0 /\ p = 0 /\ h = 0
  <2>1. r \in Nat /\ w \in Bit /\ p \in Bit /\ h \in Bit /\ c = Word(r, w, p, h) BY <1>2, <1>3, <1>4, <1>5
  <2>. QED BY <2>1, WordRead
<1>7. h = 1 => list # <<>> BY <1>4
<1>8. (w = 0 <=> w # 1) /\ (p = 0 <=> p # 1) /\ (h = 0 <=> h # 1) BY <1>3, <1>5 DEF Bit
<1>9. Free(g, at) <=> r = 0 /\ w # 1 BY <1>2, <1>3 DEF Free
<1>. QED BY <1>2, <1>3, <1>5, <1>6, <1>7, <1>8, <1>9 DEF r, w

\* The word of a configuration with waiters, and without.
LEMMA Digits ==
  ASSUME NEW c, NEW list, NEW g, NEW at, Config(c, list, g, at)
  PROVE  LET r == Cardinality(ReadersIn(g, at))
             w == Cardinality(WritersIn(at))
         IN /\ list # <<>> => \E h \in Bit : c = Word(r, w, 1, h) /\ (h = 1 <=> Has(c, RWSEM_FLAG_HANDOFF))
            /\ list = <<>> => c = Word(r, w, 0, 0)
<1> DEFINE r == Cardinality(ReadersIn(g, at))
           w == Cardinality(WritersIn(at))
<1>1. r \in Nat /\ w \in Bit BY Bits
<1>2. ASSUME list # <<>> PROVE \E h \in Bit : c = Word(r, w, 1, h) /\ (h = 1 <=> Has(c, RWSEM_FLAG_HANDOFF))
  <2>1. PICK h \in Bit : c = Word(r, w, 1, h) BY <1>2 DEF Config, WordOK
  <2> HIDE DEF r, w
  <2> DEFINE one == 1
  <2>2. one \in Bit /\ c = Word(r, w, one, h) BY <2>1 DEF Bit
  <2> HIDE DEF one
  <2>3. Has(c, RWSEM_FLAG_HANDOFF) <=> h = 1 BY <1>1, <2>2, WordRead
  <2>. QED BY <2>1, <2>3
<1>3. list = <<>> => c = Word(r, w, 0, 0) BY DEF Config, WordOK
<1> HIDE DEF r, w
<1>4. /\ list # <<>> => \E h \in Bit : c = Word(r, w, 1, h) /\ (h = 1 <=> Has(c, RWSEM_FLAG_HANDOFF))
      /\ list = <<>> => c = Word(r, w, 0, 0)
  BY <1>2, <1>3
<1>. QED BY <1>4 DEF r, w

\* The outcome of a decision: a configuration again, whose first waiter, if
\* nobody holds the lock, is a writer that is awake or is being woken.
Outcome(r, g, at) ==
  /\ Config(r.count, r.list, g \cup r.grant, at)
  /\ r.grant \subseteq r.wake /\ r.wake \subseteq Tasks
  /\ r.list # <<>> /\ Free(g \cup r.grant, at)
       => /\ Head(r.list).type = "write"
          /\ Head(r.list).task \in r.wake \/ tstate[Head(r.list).task] = "RUNNING"

\* To wake nobody is right while nobody is missed.
LEMMA QuietOutcome ==
  ASSUME NEW c, NEW list, NEW g, NEW at, NEW owned, Config(c, list, g, at),
         list # <<>> /\ Free(g, at) => Head(list).type = "write" /\ tstate[Head(list).task] = "RUNNING"
  PROVE  Outcome(Quiet(c, list, owned), g, at)
<1> DEFINE r == Quiet(c, list, owned)
<1>1. r.count = c /\ r.list = list /\ r.grant = {} /\ r.wake = {} BY DEF Quiet
<1> HIDE DEF r
<1>2. g \cup r.grant = g BY <1>1
<1>3. Config(r.count, r.list, g \cup r.grant, at) BY <1>1, <1>2
<1>. QED BY <1>1, <1>2, <1>3 DEF Outcome, r

\* HANDOFF may be set while somebody waits.
LEMMA HandoffSet ==
  ASSUME NEW c, NEW list, NEW g, NEW at, Config(c, list, g, at), list # <<>>
  PROVE  Config(SetFlag(c, RWSEM_FLAG_HANDOFF), list, g, at)
<1> DEFINE r == Cardinality(ReadersIn(g, at))
           w == Cardinality(WritersIn(at))
<1>1. PICK h \in Bit : c = Word(r, w, 1, h) BY DEF Config, WordOK
<1>2. r \in Nat /\ w \in Bit /\ 1 \in Bit BY Bits DEF Bit
<1> HIDE DEF r, w
<1>3. SetFlag(c, RWSEM_FLAG_HANDOFF) = Word(r, w, 1, 1) BY <1>1, <1>2, WordWritten
<1>4. WordOK(SetFlag(c, RWSEM_FLAG_HANDOFF), list, g, at) BY <1>2, <1>3 DEF Config, WordOK, r, w
<1>. QED BY <1>4 DEF Config

\* Letting the readers in.
LEMMA Admitted ==
  ASSUME NEW c, NEW list, NEW g, NEW at, Config(c, list, g, at), list # <<>>,
         Head(list).type = "read", WritersIn(at) = {}
  PROVE  LET R == ReadersToWake(list)
             rest == list_del_all(list, R)
             unhand == IF Has(c, RWSEM_FLAG_HANDOFF) THEN RWSEM_FLAG_HANDOFF ELSE 0
             unwait == IF rest = <<>> THEN RWSEM_FLAG_WAITERS ELSE 0
         IN /\ Config(c + Cardinality(R) * RWSEM_READER_BIAS - unwait - unhand, rest, g \cup TasksOf(R), at)
            /\ TasksOf(R) \subseteq Tasks /\ TasksOf(R) # {}
<1> DEFINE R == ReadersToWake(list)
           G == TasksOf(R)
           rest == list_del_all(list, R)
           unhand == IF Has(c, RWSEM_FLAG_HANDOFF) THEN RWSEM_FLAG_HANDOFF ELSE 0
           unwait == IF rest = <<>> THEN RWSEM_FLAG_WAITERS ELSE 0
           c2 == c + Cardinality(R) * RWSEM_READER_BIAS - unwait - unhand
<1>0. QueueOK(list, g, at) /\ at \in [Tasks -> Location] /\ list \in Seq(Waiters) /\ NoDup(list) /\ g \subseteq Tasks
  BY DEF Config, QueueOK
<1>1. /\ \A x \in R : InList(list, x) /\ x.type = "read"
      /\ G \subseteq Tasks /\ G # {}
      /\ \A x \in R : x = Waiter(x.task, "read")
      /\ \A u \in Tasks : u \in G <=> Waiter(u, "read") \in R
      /\ IsFiniteSet(G) /\ Cardinality(G) = Cardinality(R) /\ Cardinality(R) \in Nat
  BY <1>0, ToWake
<1> HIDE DEF R
<1>2. /\ rest \in Seq(Waiters) /\ NoDup(rest)
      /\ \A x : InList(rest, x) <=> InList(list, x) /\ x \notin R
  BY <1>0, ListDelAll
<1> HIDE DEF G, rest
<1>3. \A u \in Tasks : /\ InList(rest, Waiter(u, "read")) <=> InList(list, Waiter(u, "read")) /\ u \notin G
                       /\ InList(rest, Waiter(u, "write")) <=> InList(list, Waiter(u, "write"))
                       /\ u \in G => InList(list, Waiter(u, "read"))
  <2>1. \A u \in Tasks : Waiter(u, "write") \notin R BY <1>1 DEF Waiter
  <2>. QED BY <1>1, <1>2, <2>1
<1>4. QueueOK(rest, g \cup G, at)
  <2>1. \A u \in Tasks : ~(InList(rest, Waiter(u, "read")) /\ InList(rest, Waiter(u, "write")))
    BY <1>0, <1>3 DEF QueueOK
  <2>2. \A u \in g \cup G : ~IsQueued(rest, u) BY <1>0, <1>1, <1>3 DEF QueueOK, IsQueued
  <2>3. \A u \in Tasks : at[u] \in Slow <=> u \in g \cup G \/ IsQueued(rest, u)
    BY <1>0, <1>3 DEF QueueOK, IsQueued
  <2>. QED BY <1>0, <1>1, <1>2, <2>1, <2>2, <2>3 DEF QueueOK
<1>5. /\ ReadersIn(g \cup G, at) = ReadersIn(g, at) \cup G
      /\ ReadersIn(g, at) \cap G = {}
  <2>1. \A u \in G : at[u] \in Slow /\ u \notin g BY <1>0, <1>1, <1>3 DEF QueueOK, IsQueued
  <2>. QED BY <2>1 DEF ReadersIn, Slow
<1>6. Exclusive(g \cup G, at) BY DEF Exclusive
<1> DEFINE r == Cardinality(ReadersIn(g, at))
           k == Cardinality(R)
           p == IF rest = <<>> THEN 0 ELSE 1
<1>7. IsFiniteSet(ReadersIn(g \cup G, at)) /\ Cardinality(ReadersIn(g \cup G, at)) = r + k
  <2>1. IsFiniteSet(ReadersIn(g, at)) BY DEF Config, WordOK
  <2>2. /\ IsFiniteSet(ReadersIn(g, at) \cup G)
        /\ Cardinality(ReadersIn(g, at) \cup G) = r + Cardinality(G) - Cardinality({})
    BY <1>1, <1>5, <2>1, FS_Union
  <2>3. r \in Nat /\ Cardinality({}) = 0 BY Bits, FS_EmptySet
  <2> HIDE DEF r
  <2>4. r + Cardinality(G) - Cardinality({}) = r + k BY <1>1, <2>3
  <2>. QED BY <1>5, <2>2, <2>4
<1>8. PICK h \in Bit : c = Word(r, 0, 1, h) /\ (Has(c, RWSEM_FLAG_HANDOFF) <=> h = 1)
  <2>1. Cardinality(WritersIn(at)) = 0 BY FS_EmptySet
  <2>. QED BY <2>1, Digits
<1>9. r \in Nat /\ k \in Nat /\ 0 \in Bit BY <1>1, Bits DEF Bit
<1>10. c2 = Word(r + k, 0, p, 0)
  <2> HIDE DEF r, k
  <2>1. unhand = 4 * h BY <1>8 DEF Bit, RWSEM_FLAG_HANDOFF
  <2>2. unwait = 2 - 2 * p BY DEF RWSEM_FLAG_WAITERS
  <2>3. c2 = c + 256 * k - unwait - unhand BY <1>9 DEF RWSEM_READER_BIAS, k
  <2>4. p \in Int /\ h \in Int BY DEF Bit
  <2> HIDE DEF c2, p, unwait, unhand
  <2>. QED BY <1>8, <1>9, <2>1, <2>2, <2>3, <2>4
         DEF Word, RWSEM_READER_BIAS, RWSEM_FLAG_WAITERS, RWSEM_FLAG_HANDOFF
<1>11. WordOK(c2, rest, g \cup G, at)
  <2>1. Cardinality(WritersIn(at)) = 0 BY FS_EmptySet
  <2> HIDE DEF c2
  <2>. QED BY <1>7, <1>9, <1>10, <2>1 DEF WordOK
<1>12. Config(c2, rest, g \cup G, at) BY <1>0, <1>4, <1>6, <1>11 DEF Config
<1>. QED BY <1>1, <1>12 DEF R, G, rest

\* rwsem_mark_wake() decides well: unless it is asked to wake readers only the
\* lock may be free, and it is told of a writer unless the caller is a reader.
LEMMA MarkWakeOutcome ==
  ASSUME NEW c, NEW list, NEW g, NEW at, NEW owned, NEW wake_type, Config(c, list, g, at), list # <<>>,
         wake_type = "ANY" \/ ReadersIn(g, at) # {},
         wake_type = "READ_OWNED" => WritersIn(at) = {}
  PROVE  Outcome(rwsem_mark_wake(c, list, owned, wake_type), g, at)
<1> DEFINE r == rwsem_mark_wake(c, list, owned, wake_type)
<1>1. Head(list).task \in Tasks /\ Head(list).type \in {"read", "write"}
  <2>1. list \in Seq(Waiters) BY DEF Config, QueueOK
  <2>2. Head(list) \in Waiters BY <2>1, HeadInList
  <2>. QED BY <2>2 DEF Waiters
<1>2. CASE Head(list).type = "write"
  <2> DEFINE W == IF wake_type = "ANY" THEN {Head(list).task} ELSE {}
  <2>1. r = [Quiet(c, list, owned) EXCEPT !.wake = W] BY <1>2 DEF rwsem_mark_wake
  <2>2. W \subseteq Tasks /\ (wake_type = "ANY" => Head(list).task \in W) BY <1>1
  <2> HIDE DEF r, W
  <2>3. r.count = c /\ r.list = list /\ r.grant = {} /\ r.wake = W BY <2>1 DEF Quiet
  <2>4. g \cup r.grant = g BY <2>3
  <2>5. Config(r.count, r.list, g \cup r.grant, at) BY <2>3, <2>4
  <2>. QED BY <1>2, <2>2, <2>3, <2>4, <2>5 DEF Outcome, Free, r
<1>3. CASE Head(list).type = "read" /\ wake_type # "READ_OWNED" /\ Has(c, RWSEM_WRITER_LOCKED)
  <2> DEFINE c2 == IF Head(list).task \in expired THEN SetFlag(c, RWSEM_FLAG_HANDOFF) ELSE c
  <2>1. r = Quiet(c2, list, owned) BY <1>3 DEF rwsem_mark_wake
  <2>2. Config(c2, list, g, at) BY HandoffSet
  <2>3. ~Free(g, at) BY <1>3, Bits DEF Free
  <2> HIDE DEF r, c2
  <2>. QED BY <2>1, <2>2, <2>3, QuietOutcome DEF r
<1>4. CASE Head(list).type = "read" /\ (wake_type = "READ_OWNED" \/ ~Has(c, RWSEM_WRITER_LOCKED))
  <2>1. WritersIn(at) = {} BY <1>4, Bits
  <2> DEFINE R == ReadersToWake(list)
             rest == list_del_all(list, R)
             unhand == IF Has(c, RWSEM_FLAG_HANDOFF) THEN RWSEM_FLAG_HANDOFF ELSE 0
             unwait == IF rest = <<>> THEN RWSEM_FLAG_WAITERS ELSE 0
             c2 == c + Cardinality(R) * RWSEM_READER_BIAS - unwait - unhand
             own == IF wake_type = "READ_OWNED" THEN owned ELSE TRUE
             G == TasksOf(R)
  <2>2. Config(c2, rest, g \cup G, at) /\ G \subseteq Tasks /\ G # {} BY <1>4, <2>1, Admitted
  <2>3. r = [count |-> c2, list |-> rest, owned |-> own, grant |-> G, wake |-> G]
    BY <1>4 DEF rwsem_mark_wake
  <2> HIDE DEF r, c2, rest, own, G
  <2>4. r.count = c2 /\ r.list = rest /\ r.grant = G /\ r.wake = G BY <2>3
  <2>5. ~Free(g \cup G, at) BY <2>2 DEF Free, ReadersIn
  <2>. QED BY <2>2, <2>4, <2>5 DEF Outcome, r
<1>. QED BY <1>1, <1>2, <1>3, <1>4

\* rwsem_wake(), with a list that may be empty.
LEMMA WakeOutcome ==
  ASSUME NEW c, NEW list, NEW g, NEW at, NEW owned, NEW wake_type, Config(c, list, g, at),
         wake_type = "ANY" \/ ReadersIn(g, at) # {},
         wake_type = "READ_OWNED" => WritersIn(at) = {}
  PROVE  Outcome(rwsem_wake(c, list, owned, wake_type), g, at)
BY MarkWakeOutcome, QuietOutcome DEF rwsem_wake

\* rwsem_cond_wake_waiter() decides well, also for the waiter just queued.
LEMMA CondWakeOutcome ==
  ASSUME NEW c, NEW list, NEW g, NEW at, NEW owned, Config(c, list, g, at), list # <<>>
  PROVE  Outcome(rwsem_cond_wake_waiter(c, list, owned), g, at)
<1>1. CASE Has(c, RWSEM_WRITER_LOCKED)
  <2>1. ~Free(g, at) BY <1>1, Bits DEF Free
  <2>. QED BY <1>1, <2>1, QuietOutcome DEF rwsem_cond_wake_waiter
<1>2. CASE ~Has(c, RWSEM_WRITER_LOCKED)
  <2> DEFINE type == IF Readers(c) # 0 THEN "READERS" ELSE "ANY"
  <2>1. type = "ANY" \/ ReadersIn(g, at) # {} BY Bits
  <2>2. type # "READ_OWNED" OBVIOUS
  <2>3. rwsem_cond_wake_waiter(c, list, owned) = rwsem_mark_wake(c, list, owned, type)
    BY <1>2 DEF rwsem_cond_wake_waiter
  <2> HIDE DEF type
  <2>. QED BY <2>1, <2>2, <2>3, MarkWakeOutcome
<1>. QED BY <1>1, <1>2

----------------------------------------------------------------------------
(* Moves of one task *)

\* A task that is not in a slow path stays out of them.
LEMMA StaysOut ==
  ASSUME NEW list, NEW g, NEW at \in [Tasks -> Location], NEW t \in Tasks, NEW l \in Location,
         QueueOK(list, g, at), at[t] \notin Slow, l \notin Slow
  PROVE  QueueOK(list, g, [at EXCEPT ![t] = l]) /\ t \notin g
<1> DEFINE at2 == [at EXCEPT ![t] = l]
<1>1. at2[t] = l /\ \A u \in Tasks \ {t} : at2[u] = at[u] OBVIOUS
<1> HIDE DEF at2
<1>2. QueueOK(list, g, at2) /\ t \notin g BY <1>1 DEF QueueOK
<1>. QED BY <1>2 DEF at2

\* Putting a configuration together.
LEMMA Assembled ==
  ASSUME NEW c, NEW list, NEW g, NEW at \in [Tasks -> Location], QueueOK(list, g, at), Exclusive(g, at),
         IsFiniteSet(ReadersIn(g, at)), NEW p, p = IF list = <<>> THEN 0 ELSE 1,
         NEW h \in Bit, p = 0 => h = 0,
         c = Word(Cardinality(ReadersIn(g, at)), Cardinality(WritersIn(at)), p, h)
  PROVE  Config(c, list, g, at)
BY DEF Config, WordOK

\* The list stays; d readers more and e writers more.
LEMMA Recounted ==
  ASSUME NEW c, NEW list, NEW g, NEW at, Config(c, list, g, at),
         NEW g2, NEW at2 \in [Tasks -> Location], QueueOK(list, g2, at2), Exclusive(g2, at2),
         IsFiniteSet(ReadersIn(g2, at2)), NEW d \in Int, NEW e \in Int,
         Cardinality(ReadersIn(g2, at2)) = Cardinality(ReadersIn(g, at)) + d,
         Cardinality(WritersIn(at2)) = Cardinality(WritersIn(at)) + e
  PROVE  Config(c + RWSEM_READER_BIAS * d + RWSEM_WRITER_LOCKED * e, list, g2, at2)
<1> DEFINE r == Cardinality(ReadersIn(g, at))
           w == Cardinality(WritersIn(at))
           p == IF list = <<>> THEN 0 ELSE 1
           c2 == c + RWSEM_READER_BIAS * d + RWSEM_WRITER_LOCKED * e
<1>1. PICK h \in Bit : c = Word(r, w, p, h) /\ (list = <<>> => h = 0) BY DEF Config, WordOK
<1>2. r \in Int /\ w \in Int /\ p \in Int /\ h \in Int BY Bits DEF Bit
<1>3. c2 = Word(r + d, w + e, p, h)
  <2> HIDE DEF r, w, p
  <2>. QED BY <1>1, <1>2
         DEF Word, RWSEM_READER_BIAS, RWSEM_WRITER_LOCKED, RWSEM_FLAG_WAITERS, RWSEM_FLAG_HANDOFF
<1> HIDE DEF c2
<1>4. c2 = Word(Cardinality(ReadersIn(g2, at2)), Cardinality(WritersIn(at2)), p, h) BY <1>3
<1>5. p = 0 => h = 0 BY <1>1
<1>. QED BY <1>4, <1>5, Assembled DEF c2

\* One more reader is one more bias.
LEMMA TakesRead ==
  ASSUME NEW c, NEW list, NEW g, NEW at, Config(c, list, g, at), NEW t \in Tasks, at[t] = "out",
         WritersIn(at) = {}
  PROVE  /\ Config(c + RWSEM_READER_BIAS, list, g, [at EXCEPT ![t] = "read"])
         /\ t \in ReadersIn(g, [at EXCEPT ![t] = "read"])
<1> DEFINE at2 == [at EXCEPT ![t] = "read"]
<1>0. at \in [Tasks -> Location] /\ QueueOK(list, g, at) BY DEF Config
<1>1. "read" \in Location /\ "read" \notin Slow /\ at[t] \notin Slow BY DEF Location, Slow
<1>2. QueueOK(list, g, at2) /\ t \notin g BY <1>0, <1>1, StaysOut
<1>3. /\ at2 \in [Tasks -> Location] /\ WritersIn(at2) = WritersIn(at) \ {t}
      /\ ReadersIn(g, at2) = ReadersIn(g, at) \cup {t}
  BY <1>0, <1>1, <1>2 DEF WritersIn, ReadersIn
<1>4. t \notin ReadersIn(g, at) BY <1>2 DEF ReadersIn
<1> HIDE DEF at2
<1>5. WritersIn(at2) = {} /\ WritersIn(at2) = WritersIn(at) BY <1>3
<1>6. IsFiniteSet(ReadersIn(g, at2)) /\ Cardinality(ReadersIn(g, at2)) = Cardinality(ReadersIn(g, at)) + 1
  <2>1. IsFiniteSet(ReadersIn(g, at)) BY DEF Config, WordOK
  <2>. QED BY <1>3, <1>4, <2>1, FS_AddElement
<1>7. Exclusive(g, at2) BY <1>5 DEF Exclusive
<1>8. Cardinality(WritersIn(at2)) = Cardinality(WritersIn(at)) + 0 BY <1>5, FS_EmptySet
<1>9. Config(c + RWSEM_READER_BIAS * 1 + RWSEM_WRITER_LOCKED * 0, list, g, at2)
  BY <1>2, <1>3, <1>6, <1>7, <1>8, Recounted
<1>10. c + RWSEM_READER_BIAS * 1 + RWSEM_WRITER_LOCKED * 0 = c + RWSEM_READER_BIAS
  BY Bits DEF RWSEM_READER_BIAS, RWSEM_WRITER_LOCKED
<1>. QED BY <1>3, <1>9, <1>10 DEF at2

\* One reader less is one bias less.
LEMMA DropsRead ==
  ASSUME NEW c, NEW list, NEW g, NEW at, Config(c, list, g, at), NEW t \in Tasks, at[t] = "read"
  PROVE  /\ Config(c - RWSEM_READER_BIAS, list, g, [at EXCEPT ![t] = "out"])
         /\ WritersIn([at EXCEPT ![t] = "out"]) = {} /\ WritersIn(at) = {}
<1> DEFINE at2 == [at EXCEPT ![t] = "out"]
<1>0. at \in [Tasks -> Location] /\ QueueOK(list, g, at) BY DEF Config
<1>1. "out" \in Location /\ "out" \notin Slow /\ at[t] \notin Slow BY DEF Location, Slow
<1>2. QueueOK(list, g, at2) /\ t \notin g BY <1>0, <1>1, StaysOut
<1>3. /\ at2 \in [Tasks -> Location] /\ WritersIn(at2) = WritersIn(at) \ {t}
      /\ ReadersIn(g, at2) = ReadersIn(g, at) \ {t}
  BY <1>0, <1>1, <1>2 DEF WritersIn, ReadersIn
<1>4. t \in ReadersIn(g, at) BY DEF ReadersIn
<1> HIDE DEF at2
<1>5. WritersIn(at) = {} /\ WritersIn(at2) = {} BY <1>3, <1>4 DEF Config, Exclusive
<1>6. IsFiniteSet(ReadersIn(g, at2)) /\ Cardinality(ReadersIn(g, at2)) = Cardinality(ReadersIn(g, at)) - 1
  <2>1. IsFiniteSet(ReadersIn(g, at)) BY DEF Config, WordOK
  <2>. QED BY <1>3, <1>4, <2>1, FS_RemoveElement
<1>7. Exclusive(g, at2) BY <1>5 DEF Exclusive
<1>8. Cardinality(WritersIn(at2)) = Cardinality(WritersIn(at)) + 0 BY <1>5, FS_EmptySet
<1>9. Cardinality(ReadersIn(g, at2)) = Cardinality(ReadersIn(g, at)) + (-1) BY <1>6, Bits
<1>10. Config(c + RWSEM_READER_BIAS * (-1) + RWSEM_WRITER_LOCKED * 0, list, g, at2)
  BY <1>2, <1>3, <1>6, <1>7, <1>8, <1>9, Recounted
<1>11. c + RWSEM_READER_BIAS * (-1) + RWSEM_WRITER_LOCKED * 0 = c - RWSEM_READER_BIAS
  BY Bits DEF RWSEM_READER_BIAS, RWSEM_WRITER_LOCKED
<1>. QED BY <1>5, <1>10, <1>11 DEF at2

\* The writer of a free lock is the writer bit.
LEMMA TakesWrite ==
  ASSUME NEW c, NEW list, NEW g, NEW at, Config(c, list, g, at), NEW t \in Tasks, at[t] = "out",
         Free(g, at)
  PROVE  Config(c + RWSEM_WRITER_LOCKED, list, g, [at EXCEPT ![t] = "write"])
<1> DEFINE at2 == [at EXCEPT ![t] = "write"]
<1>0. at \in [Tasks -> Location] /\ QueueOK(list, g, at) BY DEF Config
<1>1. "write" \in Location /\ "write" \notin Slow /\ at[t] \notin Slow BY DEF Location, Slow
<1>2. QueueOK(list, g, at2) /\ t \notin g BY <1>0, <1>1, StaysOut
<1>3. /\ at2 \in [Tasks -> Location] /\ WritersIn(at2) = WritersIn(at) \cup {t}
      /\ ReadersIn(g, at2) = ReadersIn(g, at) \ {t}
  BY <1>0, <1>1, <1>2 DEF WritersIn, ReadersIn
<1> HIDE DEF at2
<1>4. WritersIn(at) = {} /\ WritersIn(at2) = {t} /\ ReadersIn(g, at2) = {} /\ ReadersIn(g, at) = {}
  BY <1>3 DEF Free
<1>5. Exclusive(g, at2) BY <1>4 DEF Exclusive
<1>6. IsFiniteSet(ReadersIn(g, at2)) /\ Cardinality(ReadersIn(g, at2)) = Cardinality(ReadersIn(g, at)) + 0
  BY <1>4, FS_EmptySet
<1>7. Cardinality(WritersIn(at2)) = Cardinality(WritersIn(at)) + 1 BY <1>4, FS_EmptySet, FS_Singleton
<1>8. Config(c + RWSEM_READER_BIAS * 0 + RWSEM_WRITER_LOCKED * 1, list, g, at2)
  BY <1>2, <1>3, <1>5, <1>6, <1>7, Recounted
<1>9. c + RWSEM_READER_BIAS * 0 + RWSEM_WRITER_LOCKED * 1 = c + RWSEM_WRITER_LOCKED
  BY Bits DEF RWSEM_READER_BIAS, RWSEM_WRITER_LOCKED
<1>. QED BY <1>8, <1>9 DEF at2

\* Without its writer the lock is free.
LEMMA DropsWrite ==
  ASSUME NEW c, NEW list, NEW g, NEW at, Config(c, list, g, at), NEW t \in Tasks, at[t] = "write"
  PROVE  /\ Config(c - RWSEM_WRITER_LOCKED, list, g, [at EXCEPT ![t] = "out"])
         /\ Free(g, [at EXCEPT ![t] = "out"])
<1> DEFINE at2 == [at EXCEPT ![t] = "out"]
<1>0. at \in [Tasks -> Location] /\ QueueOK(list, g, at) BY DEF Config
<1>1. "out" \in Location /\ "out" \notin Slow /\ at[t] \notin Slow BY DEF Location, Slow
<1>2. QueueOK(list, g, at2) /\ t \notin g BY <1>0, <1>1, StaysOut
<1>3. /\ at2 \in [Tasks -> Location] /\ WritersIn(at2) = WritersIn(at) \ {t}
      /\ ReadersIn(g, at2) = ReadersIn(g, at) \ {t}
  BY <1>0, <1>1, <1>2 DEF WritersIn, ReadersIn
<1>4. t \in WritersIn(at) BY DEF WritersIn
<1> HIDE DEF at2
<1>5. WritersIn(at) = {t} /\ ReadersIn(g, at) = {} BY <1>4 DEF Config, Exclusive
<1>6. WritersIn(at2) = {} /\ ReadersIn(g, at2) = {} BY <1>3, <1>5
<1>7. Exclusive(g, at2) BY <1>6 DEF Exclusive
<1>8. IsFiniteSet(ReadersIn(g, at2)) /\ Cardinality(ReadersIn(g, at2)) = Cardinality(ReadersIn(g, at)) + 0
  BY <1>5, <1>6, FS_EmptySet
<1>9. Cardinality(WritersIn(at2)) = Cardinality(WritersIn(at)) + (-1)
  <2>1. Cardinality(WritersIn(at2)) = 0 /\ Cardinality(WritersIn(at)) = 1 BY <1>5, <1>6, FS_EmptySet, FS_Singleton
  <2>. QED BY <2>1
<1>10. Config(c + RWSEM_READER_BIAS * 0 + RWSEM_WRITER_LOCKED * (-1), list, g, at2)
  BY <1>2, <1>3, <1>7, <1>8, <1>9, Recounted
<1>11. c + RWSEM_READER_BIAS * 0 + RWSEM_WRITER_LOCKED * (-1) = c - RWSEM_WRITER_LOCKED
  BY Bits DEF RWSEM_READER_BIAS, RWSEM_WRITER_LOCKED
<1>. QED BY <1>6, <1>10, <1>11 DEF at2, Free

\* A reader that was let in returns.
LEMMA Returns ==
  ASSUME NEW c, NEW list, NEW g, NEW at, Config(c, list, g, at), NEW t, t \in g,
         NEW g2, g2 = g \ {t}, NEW at2, at2 = [at EXCEPT ![t] = "read"]
  PROVE  Config(c, list, g2, at2) /\ WritersIn(at) = {}
<1>0. at \in [Tasks -> Location] /\ QueueOK(list, g, at) /\ t \in Tasks BY DEF Config, QueueOK
<1>1. at2 \in [Tasks -> Location] /\ at2[t] = "read" /\ \A u \in Tasks \ {t} : at2[u] = at[u]
  BY <1>0 DEF Location
<1>2. at[t] \in Slow BY <1>0 DEF QueueOK
<1>3. QueueOK(list, g2, at2) BY <1>0, <1>1, <1>2 DEF QueueOK, Slow
<1>4. ReadersIn(g2, at2) = ReadersIn(g, at) /\ t \in ReadersIn(g, at) BY <1>0, <1>1 DEF ReadersIn
<1>5. WritersIn(at2) = WritersIn(at) BY <1>0, <1>1, <1>2 DEF WritersIn, Slow
<1>6. WritersIn(at) = {} BY <1>4 DEF Config, Exclusive
<1>7. Exclusive(g2, at2) /\ WordOK(c, list, g2, at2) BY <1>4, <1>5, <1>6 DEF Config, Exclusive, WordOK
<1>8. Config(c, list, g2, at2) BY <1>1, <1>3, <1>7 DEF Config
<1>. QED BY <1>4, <1>6, <1>8

\* A task joins the queue.
LEMMA Enqueued ==
  ASSUME NEW c, NEW list, NEW g, NEW at, Config(c, list, g, at), NEW t \in Tasks, at[t] = "out",
         NEW type \in {"read", "write"}
  PROVE  LET at2 == [at EXCEPT ![t] = "queued"]
             list2 == list_add_tail(list, Waiter(t, type))
         IN /\ Config(SetFlag(c, RWSEM_FLAG_WAITERS), list2, g, at2) /\ list2 # <<>>
            /\ ReadersIn(g, at2) = ReadersIn(g, at) /\ WritersIn(at2) = WritersIn(at)
<1> DEFINE at2 == [at EXCEPT ![t] = "queued"]
           e == Waiter(t, type)
           list2 == list_add_tail(list, e)
           c2 == SetFlag(c, RWSEM_FLAG_WAITERS)
<1>0. at \in [Tasks -> Location] /\ QueueOK(list, g, at) /\ list \in Seq(Waiters) /\ NoDup(list) BY DEF Config, QueueOK
<1>1. at2 \in [Tasks -> Location] /\ at2[t] = "queued" /\ \A u \in Tasks \ {t} : at2[u] = at[u]
  BY <1>0 DEF Location
<1>2. ~InList(list, Waiter(t, "read")) /\ ~InList(list, Waiter(t, "write")) /\ t \notin g
  BY <1>0 DEF QueueOK, Slow, IsQueued
<1>3. e \in Waiters /\ ~InList(list, e) BY <1>2 DEF Waiters, Waiter
<1>4. \A u \in Tasks, y \in {"read", "write"} : Waiter(u, y) = e <=> u = t /\ y = type BY DEF Waiter
<1> HIDE DEF e
<1>5. /\ list2 \in Seq(Waiters) /\ list2 # <<>> /\ NoDup(list2)
      /\ \A x : InList(list2, x) <=> InList(list, x) \/ x = e
  BY <1>0, <1>3, ListAddTail
<1> HIDE DEF at2, list2
<1>6. /\ \A u \in Tasks \ {t} : \A y \in {"read", "write"} : InList(list2, Waiter(u, y)) <=> InList(list, Waiter(u, y))
      /\ \A y \in {"read", "write"} : InList(list2, Waiter(t, y)) <=> y = type
  BY <1>2, <1>4, <1>5
<1>7. QueueOK(list2, g, at2)
  <2>1. \A u \in Tasks : ~(InList(list2, Waiter(u, "read")) /\ InList(list2, Waiter(u, "write")))
    BY <1>0, <1>6 DEF QueueOK
  <2>2. \A u \in g : ~IsQueued(list2, u) BY <1>0, <1>2, <1>6 DEF QueueOK, IsQueued
  <2>3. \A u \in Tasks : at2[u] \in Slow <=> u \in g \/ IsQueued(list2, u)
    <3>1. \A u \in Tasks \ {t} : at2[u] \in Slow <=> u \in g \/ IsQueued(list2, u)
      BY <1>0, <1>1, <1>6 DEF QueueOK, IsQueued
    <3>2. at2[t] \in Slow /\ IsQueued(list2, t) BY <1>1, <1>6 DEF Slow, IsQueued
    <3>. QED BY <3>1, <3>2
  <2>. QED BY <1>0, <1>5, <2>1, <2>2, <2>3 DEF QueueOK
<1>8. ReadersIn(g, at2) = ReadersIn(g, at) BY <1>1, <1>2 DEF ReadersIn
<1>9. WritersIn(at2) = WritersIn(at) BY <1>1 DEF WritersIn
<1>10. Exclusive(g, at2) /\ IsFiniteSet(ReadersIn(g, at2)) BY <1>8, <1>9 DEF Config, Exclusive, WordOK
<1>11. Config(c2, list2, g, at2)
  <2> DEFINE r == Cardinality(ReadersIn(g, at))
             w == Cardinality(WritersIn(at))
             p == IF list = <<>> THEN 0 ELSE 1
  <2>1. PICK h \in Bit : c = Word(r, w, p, h) BY DEF Config, WordOK
  <2>2. r \in Nat /\ w \in Bit /\ p \in Bit /\ 0 \in Nat BY Bits DEF Bit
  <2> HIDE DEF r, w, p
  <2>3. c2 = Word(r, w, 1, h) BY <2>1, <2>2, WordWritten
  <2>4. c2 = Word(Cardinality(ReadersIn(g, at2)), Cardinality(WritersIn(at2)), 1, h) BY <1>8, <1>9, <2>3 DEF r, w
  <2> HIDE DEF c2
  <2> DEFINE p2 == 1
  <2>5. p2 = (IF list2 = <<>> THEN 0 ELSE 1) /\ (p2 = 0 => h = 0) BY <1>5
  <2>. QED BY <1>1, <1>5, <1>7, <1>10, <2>4, <2>5, Assembled
<1>. QED BY <1>5, <1>8, <1>9, <1>11 DEF at2, list2, e

\* A waiter leaves the queue: the flags go with the last one, and HANDOFF may
\* go with any.
LEMMA Dequeued ==
  ASSUME NEW c, NEW list, NEW g, NEW at, Config(c, list, g, at), NEW t \in Tasks,
         NEW type \in {"read", "write"}, InList(list, Waiter(t, type))
  PROVE  LET at2 == [at EXCEPT ![t] = "out"]
             rest == list_del(list, Waiter(t, type))
             c1 == ClearFlag(c, RWSEM_FLAG_HANDOFF)
         IN /\ rest = <<>> => Config(ClearFlag(c1, RWSEM_FLAG_WAITERS), rest, g, at2)
            /\ rest # <<>> => Config(c, rest, g, at2) /\ Config(c1, rest, g, at2)
            /\ ReadersIn(g, at2) = ReadersIn(g, at) /\ WritersIn(at2) = WritersIn(at)
<1> DEFINE at2 == [at EXCEPT ![t] = "out"]
           e == Waiter(t, type)
           rest == list_del(list, e)
           c1 == ClearFlag(c, RWSEM_FLAG_HANDOFF)
           c2 == ClearFlag(c1, RWSEM_FLAG_WAITERS)
<1>0. at \in [Tasks -> Location] /\ QueueOK(list, g, at) /\ list \in Seq(Waiters) /\ NoDup(list) BY DEF Config, QueueOK
<1>1. at2 \in [Tasks -> Location] /\ at2[t] = "out" /\ \A u \in Tasks \ {t} : at2[u] = at[u]
  BY <1>0 DEF Location
<1>2. IsQueued(list, t) BY DEF IsQueued
<1>3. at[t] \in Slow /\ t \notin g BY <1>0, <1>2 DEF QueueOK
<1>4. \A u \in Tasks, y \in {"read", "write"} : Waiter(u, y) = e <=> u = t /\ y = type BY DEF Waiter
<1>5. InList(list, e) OBVIOUS
<1> HIDE DEF e
<1>6. rest \in Seq(Waiters) /\ NoDup(rest) /\ \A x : InList(rest, x) <=> InList(list, x) /\ x # e
  BY <1>0, <1>5, ListDel
<1> HIDE DEF at2, rest
<1>7. /\ \A u \in Tasks \ {t} : \A y \in {"read", "write"} : InList(rest, Waiter(u, y)) <=> InList(list, Waiter(u, y))
      /\ \A y \in {"read", "write"} : ~InList(rest, Waiter(t, y))
  <2>1. \A y \in {"read", "write"} : InList(list, Waiter(t, y)) => y = type BY <1>0 DEF QueueOK
  <2>. QED BY <1>4, <1>6, <2>1
<1>8. QueueOK(rest, g, at2)
  <2>1. \A u \in Tasks : ~(InList(rest, Waiter(u, "read")) /\ InList(rest, Waiter(u, "write")))
    BY <1>0, <1>7 DEF QueueOK
  <2>2. \A u \in g : ~IsQueued(rest, u) BY <1>0, <1>3, <1>7 DEF QueueOK, IsQueued
  <2>3. \A u \in Tasks : at2[u] \in Slow <=> u \in g \/ IsQueued(rest, u)
    <3>1. \A u \in Tasks \ {t} : at2[u] \in Slow <=> u \in g \/ IsQueued(rest, u)
      BY <1>0, <1>1, <1>7 DEF QueueOK, IsQueued
    <3>2. at2[t] \notin Slow /\ ~IsQueued(rest, t) BY <1>1, <1>7 DEF Slow, IsQueued
    <3>. QED BY <1>3, <3>1, <3>2
  <2>. QED BY <1>0, <1>6, <2>1, <2>2, <2>3 DEF QueueOK
<1>9. ReadersIn(g, at2) = ReadersIn(g, at) BY <1>1, <1>3 DEF ReadersIn, Slow
<1>10. WritersIn(at2) = WritersIn(at) BY <1>1, <1>3 DEF WritersIn, Slow
<1>11. Exclusive(g, at2) /\ IsFiniteSet(ReadersIn(g, at2)) BY <1>9, <1>10 DEF Config, Exclusive, WordOK
<1> DEFINE r == Cardinality(ReadersIn(g, at))
           w == Cardinality(WritersIn(at))
           p == IF rest = <<>> THEN 0 ELSE 1
           zero == 0
           one == 1
<1>12. list # <<>> BY <1>0, HeadInList
<1>13. PICK h \in Bit : c = Word(r, w, one, h) BY <1>12, Digits
<1>14. r \in Nat /\ w \in Bit /\ zero \in Bit /\ one \in Bit /\ 0 \in Nat BY Bits DEF Bit
<1>15. c1 = Word(r, w, one, zero)
  <2> HIDE DEF r, w, one
  <2>. QED BY <1>13, <1>14, WordWritten
<1>16. c2 = Word(r, w, zero, zero)
  <2> HIDE DEF r, w, c1, one
  <2>1. zero = 0 OBVIOUS
  <2> HIDE DEF zero
  <2>. QED BY <1>14, <1>15, <2>1, WordWritten
<1> HIDE DEF c1, c2
<1>17. ASSUME rest = <<>> PROVE Config(c2, rest, g, at2)
  <2>1. c2 = Word(Cardinality(ReadersIn(g, at2)), Cardinality(WritersIn(at2)), p, zero)
    BY <1>9, <1>10, <1>16, <1>17
  <2>. QED BY <1>1, <1>8, <1>11, <1>14, <2>1, Assembled
<1>18. ASSUME rest # <<>> PROVE Config(c, rest, g, at2) /\ Config(c1, rest, g, at2)
  <2>1. /\ c = Word(Cardinality(ReadersIn(g, at2)), Cardinality(WritersIn(at2)), p, h)
        /\ c1 = Word(Cardinality(ReadersIn(g, at2)), Cardinality(WritersIn(at2)), p, zero)
        /\ p # 0
    BY <1>9, <1>10, <1>13, <1>15, <1>18
  <2>. QED BY <1>1, <1>8, <1>11, <1>14, <2>1, Assembled
<1>. QED BY <1>9, <1>10, <1>17, <1>18 DEF at2, rest, e, c1, c2

\* rwsem_del_wake_waiter() decides well.
LEMMA DelOutcome ==
  ASSUME NEW c, NEW list, NEW g, NEW at, NEW owned, Config(c, list, g, at), NEW t \in Tasks,
         NEW type \in {"read", "write"}, InList(list, Waiter(t, type)),
         Free(g, at) => Head(list).type = "write" /\ tstate[Head(list).task] = "RUNNING"
  PROVE  Outcome(rwsem_del_wake_waiter(c, list, owned, Waiter(t, type)), g, [at EXCEPT ![t] = "out"])
<1> DEFINE at2 == [at EXCEPT ![t] = "out"]
           e == Waiter(t, type)
           rest == list_del(list, e)
           c2 == ClearFlag(ClearFlag(c, RWSEM_FLAG_HANDOFF), RWSEM_FLAG_WAITERS)
<1>1. /\ rest = <<>> => Config(c2, rest, g, at2)
      /\ rest # <<>> => Config(c, rest, g, at2)
      /\ ReadersIn(g, at2) = ReadersIn(g, at) /\ WritersIn(at2) = WritersIn(at)
  BY Dequeued
<1>2. list \in Seq(Waiters) /\ NoDup(list) /\ InList(list, e) BY DEF Config, QueueOK
<1>3. Head(list) # e => Head(rest) = Head(list)
  <2> HIDE DEF e
  <2>. QED BY <1>2, ListDel
<1>4. Free(g, at2) => Free(g, at) BY <1>1 DEF Free
<1>5. rwsem_del_wake_waiter(c, list, owned, e) =
        IF rest = <<>> THEN Quiet(c2, rest, owned)
        ELSE IF Head(list) = e THEN rwsem_mark_wake(c, rest, owned, "ANY")
        ELSE Quiet(c, rest, owned)
  BY DEF rwsem_del_wake_waiter
<1> HIDE DEF at2, e, rest, c2
<1>6. CASE rest = <<>>
  <2>1. Config(c2, rest, g, at2) BY <1>1, <1>6
  <2>2. Outcome(Quiet(c2, rest, owned), g, at2) BY <1>6, <2>1, QuietOutcome
  <2>. QED BY <1>5, <1>6, <2>2 DEF e, at2
<1>7. CASE rest # <<>> /\ Head(list) = e
  <2> DEFINE any == "ANY"
  <2>1. any = "ANY" /\ any # "READ_OWNED" OBVIOUS
  <2> HIDE DEF any
  <2>2. Outcome(rwsem_mark_wake(c, rest, owned, any), g, at2) BY <1>1, <1>7, <2>1, MarkWakeOutcome
  <2>. QED BY <1>5, <1>7, <2>1, <2>2 DEF e, at2
<1>8. CASE rest # <<>> /\ Head(list) # e
  <2>1. Free(g, at2) => Head(rest).type = "write" /\ tstate[Head(rest).task] = "RUNNING" BY <1>3, <1>4, <1>8
  <2>2. Outcome(Quiet(c, rest, owned), g, at2) BY <1>1, <1>8, <2>1, QuietOutcome
  <2>. QED BY <1>5, <1>8, <2>2 DEF e, at2
<1>. QED BY <1>6, <1>7, <1>8

----------------------------------------------------------------------------
(* Steps *)

\* A configuration that is stored.
LEMMA Stored ==
  ASSUME NEW c, NEW list, NEW g, NEW at, Config(c, list, g, at),
         count' = c, wait_list' = list, granted' = g, pc' = at
  PROVE  Config(count, wait_list, granted, pc)'
BY DEF Config, QueueOK, Exclusive, WordOK

\* A decision that is carried out.
LEMMA CarriedOut ==
  ASSUME IInv, NEW r, NEW at, Outcome(r, granted, at), Apply(r), pc' = at, UNCHANGED <<curr, sig>>,
         lstate' \in [Tasks -> SleepState]
  PROVE  IInv'
<1> DEFINE g == granted \cup r.grant
<1>1. /\ count' = r.count /\ wait_list' = r.list /\ granted' = g
      /\ try_to_wake_up(r.wake, TASK_NORMAL)
  BY DEF Apply, wake_up_q
<1>2. r.wake \in SUBSET Tasks /\ r.grant \subseteq r.wake BY DEF Outcome
<1>3. sig' \in [Tasks -> Signal] /\ curr' = curr BY DEF IInv, SchedOK, SchedTypeOK
<1>4. SchedOK' /\ StaysRunnable /\ \A p \in r.wake : tstate'[p] = "RUNNING"
  BY <1>1, <1>2, <1>3, WakeUp DEF IInv
<1>5. Config(r.count, r.list, g, at) BY DEF Outcome
<1> HIDE DEF g
<1>6. Config(count, wait_list, granted, pc)' BY <1>1, <1>5, Stored
<1>7. FirstOK'
  <2> SUFFICES ASSUME r.list # <<>>, Free(g, at)
               PROVE  Head(r.list).type = "write" /\ tstate'[Head(r.list).task] = "RUNNING"
    BY <1>1 DEF FirstOK, Free, ReadersIn, WritersIn
  <2>1. Head(r.list).type = "write" /\ (Head(r.list).task \in r.wake \/ tstate[Head(r.list).task] = "RUNNING")
    BY DEF Outcome, g
  <2>2. Head(r.list).task \in Tasks
    <3>1. r.list \in Seq(Waiters) BY <1>5 DEF Config, QueueOK
    <3>2. Head(r.list) \in Waiters BY <3>1, HeadInList
    <3>. QED BY <3>2 DEF Waiters
  <2>. QED BY <1>4, <2>1, <2>2 DEF StaysRunnable
<1>8. GrantedOK'
  <2>1. granted \subseteq Tasks BY DEF IInv, Config, QueueOK
  <2>2. \A u \in g : tstate'[u] = "RUNNING" BY <1>2, <1>4, <2>1 DEF IInv, GrantedOK, StaysRunnable, g
  <2>. QED BY <1>1, <2>2 DEF GrantedOK
<1>. QED BY <1>4, <1>6, <1>7, <1>8 DEF IInv

\* A step that lets nobody in and wakes nobody.
LEMMA Plainly ==
  ASSUME IInv, NEW c, NEW list, NEW g, NEW at, Config(c, list, g, at),
         count' = c, wait_list' = list, granted' = g, pc' = at, g \subseteq granted,
         UNCHANGED <<schedVars, lstate>>,
         list # <<>> /\ Free(g, at) => Head(list).type = "write" /\ tstate[Head(list).task] = "RUNNING"
  PROVE  IInv'
<1>1. SchedOK' /\ tstate' = tstate BY Ticked DEF IInv
<1>2. Config(count, wait_list, granted, pc)' BY Stored
<1>3. FirstOK' BY <1>1 DEF FirstOK, Free, ReadersIn, WritersIn
<1>4. GrantedOK' BY <1>1 DEF IInv, GrantedOK
<1>. QED BY <1>1, <1>2, <1>3, <1>4 DEF IInv

\* Who is first while the lock is free, and the parts of the invariant that the
\* steps need.
LEMMA Known ==
  ASSUME IInv
  PROVE  /\ Config(count, wait_list, granted, pc)
         /\ wait_list # <<>> /\ Free(granted, pc)
              => Head(wait_list).type = "write" /\ tstate[Head(wait_list).task] = "RUNNING"
         /\ pc \in [Tasks -> Location] /\ lstate \in [Tasks -> SleepState] /\ SchedOK
         /\ granted \subseteq Tasks /\ count \in Nat
         /\ Writing = WritersIn(pc) /\ Reading \subseteq ReadersIn(granted, pc)
         /\ ReadersIn(granted, pc) = Reading \cup granted
BY Bits DEF IInv, Config, QueueOK, FirstOK, Writing, Reading, WritersIn, ReadersIn

\* The holders after one task has moved.
LEMMA Moved ==
  ASSUME pc \in [Tasks -> Location], NEW t \in Tasks, NEW l \in Location, pc' = [pc EXCEPT ![t] = l]
  PROVE  /\ l = "read" => Reading' = Reading \cup {t}
         /\ l # "read" => Reading' = Reading \ {t}
         /\ l = "write" => Writing' = Writing \cup {t}
         /\ l # "write" => Writing' = Writing \ {t}
BY DEF Reading, Writing

----------------------------------------------------------------------------
(* Reading *)

\* A reader's attempt leaves the flags as they are.
LEMMA BiasedRead ==
  ASSUME count \in Nat
  PROVE  /\ \A f \in {RWSEM_WRITER_LOCKED, RWSEM_FLAG_WAITERS, RWSEM_FLAG_HANDOFF} : Has(Biased, f) <=> Has(count, f)
         /\ ReadFailed(Biased) <=> ReadFailed(count)
         /\ Readers(Biased) = Readers(count) + 1
<1> USE DEF RWSEM_WRITER_LOCKED, RWSEM_FLAG_WAITERS, RWSEM_FLAG_HANDOFF
<1>1. Biased = count + 256 BY DEF Biased, RWSEM_READER_BIAS
<1>2. Has(Biased, 1) <=> Has(count, 1) BY <1>1 DEF Has
<1>3. Has(Biased, 2) <=> Has(count, 2) BY <1>1 DEF Has
<1>4. Has(Biased, 4) <=> Has(count, 4) BY <1>1 DEF Has
<1>5. Readers(Biased) = Readers(count) + 1 BY <1>1 DEF Readers, RWSEM_READER_BIAS
<1>. QED BY <1>2, <1>3, <1>4, <1>5 DEF ReadFailed

\* The fast path succeeds only if nobody waits, so it overtakes nobody.
LEMMA ReadFast ==
  ASSUME IInv, NEW t \in Tasks, down_read_fast(t)
  PROVE  /\ IInv' /\ Writing = {} /\ t \notin Reading /\ Reading' = Reading \cup {t} /\ Writing' = Writing
         /\ ~Has(count, RWSEM_FLAG_HANDOFF)
<1> DEFINE at == [pc EXCEPT ![t] = "read"]
<1>0. Config(count, wait_list, granted, pc) /\ pc \in [Tasks -> Location] /\ count \in Nat /\ Writing = WritersIn(pc)
  BY Known
<1>1. /\ pc[t] = "out" /\ ~ReadFailed(Biased) /\ count' = count + RWSEM_READER_BIAS /\ pc' = at
      /\ UNCHANGED <<schedVars, wait_list, granted, lstate>>
  BY DEF down_read_fast, Biased
<1>2. ~ReadFailed(count) BY <1>0, <1>1, BiasedRead
<1>3. WritersIn(pc) = {} /\ wait_list = <<>> /\ ~Has(count, RWSEM_FLAG_HANDOFF) BY <1>0, <1>2, Bits
<1>4. Config(count + RWSEM_READER_BIAS, wait_list, granted, at) BY <1>0, <1>1, <1>3, TakesRead
<1>5. "read" \in Location BY DEF Location
<1>6. Reading' = Reading \cup {t} /\ Writing' = Writing \ {t} BY <1>0, <1>1, <1>5, Moved
<1>7. t \notin Reading BY <1>1 DEF Reading
<1> HIDE DEF at
<1>8. IInv' BY <1>1, <1>3, <1>4, Plainly
<1>. QED BY <1>0, <1>3, <1>6, <1>7, <1>8

\* A reader that steals the lock lets in the readers that wait in front.
LEMMA ReadSteals ==
  ASSUME IInv, NEW t \in Tasks, down_read_steal(t)
  PROVE  /\ IInv' /\ Writing = {} /\ t \notin Reading /\ Reading' = Reading \cup {t} /\ Writing' = Writing
         /\ ~Has(count, RWSEM_FLAG_HANDOFF)
<1> DEFINE at == [pc EXCEPT ![t] = "read"]
<1>0. /\ Config(count, wait_list, granted, pc) /\ pc \in [Tasks -> Location] /\ count \in Nat
      /\ Writing = WritersIn(pc) /\ lstate \in [Tasks -> SleepState]
  BY Known
<1>1. /\ pc[t] = "out" /\ ~ReadMustQueue /\ pc' = at
      /\ IF Readers(Biased) = 1 /\ Has(Biased, RWSEM_FLAG_WAITERS)
         THEN Apply(rwsem_wake(Biased, wait_list, TRUE, "READ_OWNED"))
         ELSE Apply(Quiet(Biased, wait_list, TRUE))
      /\ UNCHANGED <<curr, sig, lstate>>
  BY DEF down_read_steal
<1>2. ~Has(count, RWSEM_WRITER_LOCKED) /\ ~Has(count, RWSEM_FLAG_HANDOFF) BY <1>1 DEF ReadMustQueue
<1>3. WritersIn(pc) = {} BY <1>0, <1>2, Bits
<1>4. Config(Biased, wait_list, granted, at) /\ t \in ReadersIn(granted, at)
  BY <1>0, <1>1, <1>3, TakesRead DEF Biased
<1>5. "read" \in Location BY DEF Location
<1>6. Reading' = Reading \cup {t} /\ Writing' = Writing \ {t} BY <1>0, <1>1, <1>5, Moved
<1>7. t \notin Reading BY <1>1 DEF Reading
<1> HIDE DEF at
<1>8. WritersIn(at) = {} /\ ReadersIn(granted, at) # {} /\ ~Free(granted, at) BY <1>4 DEF Config, Exclusive, Free
<1>9. Outcome(rwsem_wake(Biased, wait_list, TRUE, "READ_OWNED"), granted, at) BY <1>4, <1>8, WakeOutcome
<1>10. Outcome(Quiet(Biased, wait_list, TRUE), granted, at) BY <1>4, <1>8, QuietOutcome
<1>11. IInv' BY <1>0, <1>1, <1>9, <1>10, CarriedOut
<1>. QED BY <1>0, <1>2, <1>3, <1>6, <1>7, <1>11

\* A reader that cannot have the lock queues, and may be let in at once.
LEMMA ReadQueues ==
  ASSUME IInv, NEW t \in Tasks, NEW state \in LockStates, down_read_queue(t, state)
  PROVE  IInv' /\ Reading' = Reading /\ Writing' = Writing /\ pc'[t] = "queued"
<1> DEFINE at == [pc EXCEPT ![t] = "queued"]
           list == list_add_tail(wait_list, Waiter(t, "read"))
           c == Biased - RWSEM_READER_BIAS + (IF wait_list = <<>> THEN RWSEM_FLAG_WAITERS ELSE 0)
<1>0. /\ Config(count, wait_list, granted, pc) /\ pc \in [Tasks -> Location] /\ count \in Nat
      /\ lstate \in [Tasks -> SleepState]
  BY Known
<1>1. /\ pc[t] = "out" /\ pc' = at /\ Apply(rwsem_cond_wake_waiter(c, list, reader_owned))
      /\ lstate' = [lstate EXCEPT ![t] = state] /\ UNCHANGED <<curr, sig>>
  BY DEF down_read_queue
<1>2. c = SetFlag(count, RWSEM_FLAG_WAITERS)
  <2>1. Has(count, RWSEM_FLAG_WAITERS) <=> wait_list # <<>> BY <1>0, Bits
  <2>. QED BY <1>0, <2>1 DEF SetFlag, Biased, RWSEM_READER_BIAS, RWSEM_FLAG_WAITERS
<1> HIDE DEF c
<1>3. Config(c, list, granted, at) /\ list # <<>> BY <1>0, <1>1, <1>2, Enqueued
<1>4. "queued" \in Location BY DEF Location
<1>5. Reading' = Reading \ {t} /\ Writing' = Writing \ {t} BY <1>0, <1>1, <1>4, Moved
<1>6. t \notin Reading /\ t \notin Writing BY <1>1 DEF Reading, Writing
<1>7. pc'[t] = "queued" BY <1>0, <1>1
<1>8. lstate' \in [Tasks -> SleepState] BY <1>0, <1>1, ParamAssumption
<1> HIDE DEF at, list
<1>9. Outcome(rwsem_cond_wake_waiter(c, list, reader_owned), granted, at) BY <1>3, CondWakeOutcome
<1>10. IInv' BY <1>1, <1>8, <1>9, CarriedOut
<1>. QED BY <1>5, <1>6, <1>7, <1>10

\* A reader that was let in finds that out; its bias is there already.
LEMMA ReadReturns ==
  ASSUME IInv, NEW t \in Tasks, read_granted(t)
  PROVE  IInv' /\ Writing = {} /\ t \notin Reading /\ Reading' = Reading \cup {t} /\ Writing' = Writing
<1> DEFINE at == [pc EXCEPT ![t] = "read"]
           g == granted \ {t}
<1>0. /\ Config(count, wait_list, granted, pc) /\ pc \in [Tasks -> Location] /\ Writing = WritersIn(pc)
  BY Known
<1>1. /\ pc[t] \in Slow /\ t \in granted /\ granted' = g /\ pc' = at
      /\ UNCHANGED <<schedVars, count, wait_list, lstate>>
  BY DEF read_granted, LoopTop, Slow
<1>2. Config(count, wait_list, g, at) /\ WritersIn(pc) = {} /\ ReadersIn(g, at) # {}
  <2>1. t \in granted /\ g = granted \ {t} /\ at = [pc EXCEPT ![t] = "read"] BY <1>1
  <2> HIDE DEF g, at
  <2>2. Config(count, wait_list, granted, pc) BY <1>0
  <2>3. Config(count, wait_list, g, at) BY <2>1, <2>2, Returns
  <2>4. WritersIn(pc) = {} BY <2>1, <2>2, Returns
  <2>5. ReadersIn(g, at) # {} BY <1>0, <2>1 DEF ReadersIn
  <2>. QED BY <2>3, <2>4, <2>5
<1>3. "read" \in Location BY DEF Location
<1>4. Reading' = Reading \cup {t} /\ Writing' = Writing \ {t} BY <1>0, <1>1, <1>3, Moved
<1>5. t \notin Reading BY <1>1 DEF Reading, Slow
<1>6. g \subseteq granted /\ ~Free(g, at) BY <1>2 DEF Free
<1> HIDE DEF at, g
<1>7. IInv' BY <1>1, <1>2, <1>6, Plainly
<1>. QED BY <1>0, <1>2, <1>4, <1>5, <1>7

\* The last reader out wakes the first in line.
LEMMA ReadReleases ==
  ASSUME IInv, NEW t \in Tasks, up_read(t)
  PROVE  IInv' /\ t \in Reading /\ Reading' = Reading \ {t} /\ Writing' = Writing
<1> DEFINE at == [pc EXCEPT ![t] = "out"]
           c == count - RWSEM_READER_BIAS
<1>0. /\ Config(count, wait_list, granted, pc) /\ pc \in [Tasks -> Location]
      /\ Writing = WritersIn(pc) /\ lstate \in [Tasks -> SleepState]
  BY Known
<1>1. /\ pc[t] = "read" /\ pc' = at
      /\ Apply(IF ~Locked(c) /\ Has(c, RWSEM_FLAG_WAITERS)
               THEN rwsem_wake(c, wait_list, reader_owned, "ANY") ELSE Quiet(c, wait_list, reader_owned))
      /\ UNCHANGED <<curr, sig, lstate>>
  BY DEF up_read
<1>2. Config(c, wait_list, granted, at) BY <1>0, <1>1, DropsRead
<1>3. "out" \in Location BY DEF Location
<1>4. Reading' = Reading \ {t} /\ Writing' = Writing \ {t} BY <1>0, <1>1, <1>3, Moved
<1>5. t \in Reading /\ t \notin Writing BY <1>1 DEF Reading, Writing
<1> HIDE DEF at, c
<1>6. (Locked(c) <=> ~Free(granted, at)) /\ (Has(c, RWSEM_FLAG_WAITERS) <=> wait_list # <<>>) BY <1>2, Bits
<1>7. CASE ~Locked(c) /\ Has(c, RWSEM_FLAG_WAITERS)
  <2>1. Outcome(rwsem_wake(c, wait_list, reader_owned, "ANY"), granted, at) BY <1>2, WakeOutcome
  <2>. QED BY <1>0, <1>1, <1>4, <1>5, <1>7, <2>1, CarriedOut
<1>8. CASE ~(~Locked(c) /\ Has(c, RWSEM_FLAG_WAITERS))
  <2>1. Outcome(Quiet(c, wait_list, reader_owned), granted, at) BY <1>2, <1>6, <1>8, QuietOutcome
  <2>. QED BY <1>0, <1>1, <1>4, <1>5, <1>8, <2>1, CarriedOut
<1>. QED BY <1>7, <1>8

----------------------------------------------------------------------------
(* Writing *)

\* The fast path of a writer takes a word of 0 only.
LEMMA WriteFast ==
  ASSUME IInv, NEW t \in Tasks, down_write_fast(t)
  PROVE  /\ IInv' /\ Writing = {} /\ Reading = {} /\ Writing' = {t} /\ Reading' = Reading
         /\ ~Has(count, RWSEM_FLAG_HANDOFF)
<1> DEFINE at == [pc EXCEPT ![t] = "write"]
<1>0. /\ Config(count, wait_list, granted, pc) /\ pc \in [Tasks -> Location]
      /\ Writing = WritersIn(pc) /\ Reading \subseteq ReadersIn(granted, pc)
  BY Known
<1>1. /\ pc[t] = "out" /\ count = 0 /\ count' = count + RWSEM_WRITER_LOCKED /\ pc' = at
      /\ UNCHANGED <<schedVars, wait_list, granted, lstate>>
  BY DEF down_write_fast, RWSEM_WRITER_LOCKED
<1>2. Free(granted, pc) /\ wait_list = <<>> /\ ~Has(count, RWSEM_FLAG_HANDOFF) BY <1>0, <1>1, Bits
<1>3. Config(count + RWSEM_WRITER_LOCKED, wait_list, granted, at) BY <1>0, <1>1, <1>2, TakesWrite
<1>4. "write" \in Location BY DEF Location
<1>5. Reading' = Reading \ {t} /\ Writing' = Writing \cup {t} BY <1>0, <1>1, <1>4, Moved
<1>6. Writing = {} /\ Reading = {} BY <1>0, <1>2 DEF Free
<1> HIDE DEF at
<1>7. IInv' BY <1>1, <1>2, <1>3, Plainly
<1>. QED BY <1>2, <1>5, <1>6, <1>7

\* A writer that cannot have the lock queues.
LEMMA WriteQueues ==
  ASSUME IInv, NEW t \in Tasks, NEW state \in LockStates, down_write_queue(t, state)
  PROVE  IInv' /\ Reading' = Reading /\ Writing' = Writing /\ pc'[t] = "queued"
<1> DEFINE at == [pc EXCEPT ![t] = "queued"]
           list == list_add_tail(wait_list, Waiter(t, "write"))
           c == SetFlag(count, RWSEM_FLAG_WAITERS)
<1>0. /\ Config(count, wait_list, granted, pc) /\ pc \in [Tasks -> Location] /\ count \in Nat
      /\ lstate \in [Tasks -> SleepState]
  BY Known
<1>1. /\ pc[t] = "out" /\ pc' = at /\ count # 0
      /\ Apply(IF wait_list # <<>> THEN rwsem_cond_wake_waiter(count, list, reader_owned)
               ELSE Quiet(c, list, reader_owned))
      /\ lstate' = [lstate EXCEPT ![t] = state] /\ UNCHANGED <<curr, sig>>
  BY DEF down_write_queue
<1>2. wait_list # <<>> => c = count
  <2>1. Has(count, RWSEM_FLAG_WAITERS) <=> wait_list # <<>> BY <1>0, Bits
  <2>. QED BY <2>1 DEF SetFlag
<1>3. wait_list = <<>> => ~Free(granted, pc) BY <1>0, <1>1, Bits
<1> HIDE DEF c
<1>4. /\ Config(c, list, granted, at) /\ list # <<>>
      /\ ReadersIn(granted, at) = ReadersIn(granted, pc) /\ WritersIn(at) = WritersIn(pc)
  BY <1>0, <1>1, Enqueued DEF c
<1>5. "queued" \in Location BY DEF Location
<1>6. Reading' = Reading \ {t} /\ Writing' = Writing \ {t} BY <1>0, <1>1, <1>5, Moved
<1>7. t \notin Reading /\ t \notin Writing BY <1>1 DEF Reading, Writing
<1>8. pc'[t] = "queued" BY <1>0, <1>1
<1>9. lstate' \in [Tasks -> SleepState] BY <1>0, <1>1, ParamAssumption
<1> HIDE DEF at, list
<1>10. CASE wait_list # <<>>
  <2>1. Outcome(rwsem_cond_wake_waiter(c, list, reader_owned), granted, at) BY <1>4, CondWakeOutcome
  <2>2. IInv' BY <1>1, <1>2, <1>9, <1>10, <2>1, CarriedOut
  <2>. QED BY <1>6, <1>7, <1>8, <2>2
<1>11. CASE wait_list = <<>>
  <2>1. ~Free(granted, at) BY <1>3, <1>4, <1>11 DEF Free
  <2>2. Outcome(Quiet(c, list, reader_owned), granted, at) BY <1>4, <2>1, QuietOutcome
  <2>3. IInv' BY <1>1, <1>9, <1>11, <2>2, CarriedOut
  <2>. QED BY <1>6, <1>7, <1>8, <2>3
<1>. QED BY <1>10, <1>11

\* The writer, on its way out, wakes the first in line.
LEMMA WriteReleases ==
  ASSUME IInv, NEW t \in Tasks, up_write(t)
  PROVE  IInv' /\ t \in Writing /\ Writing' = Writing \ {t} /\ Reading' = Reading
<1> DEFINE at == [pc EXCEPT ![t] = "out"]
           c == count - RWSEM_WRITER_LOCKED
<1>0. /\ Config(count, wait_list, granted, pc) /\ pc \in [Tasks -> Location]
      /\ lstate \in [Tasks -> SleepState]
  BY Known
<1>1. /\ pc[t] = "write" /\ pc' = at
      /\ Apply(IF Has(count, RWSEM_FLAG_WAITERS) THEN rwsem_wake(c, wait_list, FALSE, "ANY")
               ELSE Quiet(c, wait_list, FALSE))
      /\ UNCHANGED <<curr, sig, lstate>>
  BY DEF up_write
<1>2. Config(c, wait_list, granted, at) BY <1>0, <1>1, DropsWrite
<1>3. "out" \in Location BY DEF Location
<1>4. Reading' = Reading \ {t} /\ Writing' = Writing \ {t} BY <1>0, <1>1, <1>3, Moved
<1>5. t \in Writing /\ t \notin Reading BY <1>1 DEF Reading, Writing
<1> HIDE DEF at, c
<1>6. Has(count, RWSEM_FLAG_WAITERS) <=> wait_list # <<>> BY <1>0, Bits
<1>7. CASE wait_list # <<>>
  <2>1. Outcome(rwsem_wake(c, wait_list, FALSE, "ANY"), granted, at) BY <1>2, WakeOutcome
  <2>. QED BY <1>0, <1>1, <1>4, <1>5, <1>6, <1>7, <2>1, CarriedOut
<1>8. CASE wait_list = <<>>
  <2>1. Outcome(Quiet(c, wait_list, FALSE), granted, at) BY <1>2, <1>8, QuietOutcome
  <2>. QED BY <1>0, <1>1, <1>4, <1>5, <1>6, <1>8, <2>1, CarriedOut
<1>. QED BY <1>7, <1>8

\* A writer turns reader, and lets in the readers that wait in front.
LEMMA Downgrades ==
  ASSUME IInv, NEW t \in Tasks, downgrade_write(t)
  PROVE  IInv' /\ t \in Writing /\ Writing' = Writing \ {t} /\ Reading' = Reading \cup {t}
<1> DEFINE at == [pc EXCEPT ![t] = "read"]
           out == [pc EXCEPT ![t] = "out"]
           c == count - RWSEM_WRITER_LOCKED + RWSEM_READER_BIAS
<1>0. /\ Config(count, wait_list, granted, pc) /\ pc \in [Tasks -> Location]
      /\ lstate \in [Tasks -> SleepState]
  BY Known
<1>1. /\ pc[t] = "write" /\ pc' = at
      /\ Apply(IF Has(count, RWSEM_FLAG_WAITERS) THEN rwsem_wake(c, wait_list, TRUE, "READ_OWNED")
               ELSE Quiet(c, wait_list, TRUE))
      /\ UNCHANGED <<curr, sig, lstate>>
  BY DEF downgrade_write
<1>2. Config(count - RWSEM_WRITER_LOCKED, wait_list, granted, out) /\ Free(granted, out)
  BY <1>0, <1>1, DropsWrite
<1>3. out[t] = "out" /\ at = [out EXCEPT ![t] = "read"] /\ at[t] = "read" BY <1>0
<1>4. "read" \in Location BY DEF Location
<1>5. Reading' = Reading \cup {t} /\ Writing' = Writing \ {t} BY <1>0, <1>1, <1>4, Moved
<1>6. t \in Writing BY <1>1 DEF Writing
<1> HIDE DEF at, out
<1>7. Config(c, wait_list, granted, at) BY <1>2, <1>3, TakesRead DEF Free
<1> HIDE DEF c
<1>8. ReadersIn(granted, at) # {} BY <1>3 DEF ReadersIn
<1>9. WritersIn(at) = {} BY <1>7, <1>8 DEF Config, Exclusive
<1>10. Has(count, RWSEM_FLAG_WAITERS) <=> wait_list # <<>> BY <1>0, Bits
<1>11. CASE wait_list # <<>>
  <2>1. Outcome(rwsem_wake(c, wait_list, TRUE, "READ_OWNED"), granted, at) BY <1>7, <1>8, <1>9, WakeOutcome
  <2>. QED BY <1>0, <1>1, <1>5, <1>6, <1>10, <1>11, <2>1, CarriedOut
<1>12. CASE wait_list = <<>>
  <2>1. Outcome(Quiet(c, wait_list, TRUE), granted, at) BY <1>7, <1>12, QuietOutcome
  <2>. QED BY <1>0, <1>1, <1>5, <1>6, <1>10, <1>12, <2>1, CarriedOut
<1>. QED BY <1>11, <1>12

\* The entry that a task in the wait loop stands for.
LEMMA WaitsInList ==
  ASSUME IInv, NEW t \in Tasks, NEW type \in {"read", "write"}, Waits(t, type)
  PROVE  InList(wait_list, Waiter(t, type)) /\ wait_list # <<>> /\ pc[t] \in Slow
<1>1. wait_list \in Seq(Waiters) BY DEF IInv, Config, QueueOK
<1>2. InList(wait_list, Waiter(t, type)) BY <1>1 DEF Waits, Contains, InList
<1>3. pc[t] \in Slow BY DEF Waits, LoopTop, Slow
<1>. QED BY <1>1, <1>2, <1>3, HeadInList

\* The writer takes the free lock; what is left of the queue keeps WAITERS.
LEMMA WriteTaken ==
  ASSUME IInv, NEW t \in Tasks, write_takes(t)
  PROVE  IInv' /\ Writing = {} /\ Reading = {} /\ Writing' = {t} /\ Reading' = Reading
<1> DEFINE at == [pc EXCEPT ![t] = "write"]
           out == [pc EXCEPT ![t] = "out"]
           rest == list_del(wait_list, Waiter(t, "write"))
           c == ClearFlag(SetFlag(count, RWSEM_WRITER_LOCKED), RWSEM_FLAG_HANDOFF)
           c1 == ClearFlag(count, RWSEM_FLAG_HANDOFF)
           c2 == ClearFlag(c1, RWSEM_FLAG_WAITERS)
<1>0. /\ Config(count, wait_list, granted, pc) /\ pc \in [Tasks -> Location]
      /\ Writing = WritersIn(pc) /\ Reading \subseteq ReadersIn(granted, pc)
  BY Known
<1>1. /\ Waits(t, "write") /\ ~Locked(count) /\ wait_list' = rest /\ pc' = at
      /\ count' = IF Len(wait_list) = 1 THEN ClearFlag(c, RWSEM_FLAG_WAITERS) ELSE c
      /\ UNCHANGED <<schedVars, granted, lstate>>
  BY DEF write_takes, WriteTakes
<1>2. InList(wait_list, Waiter(t, "write")) /\ wait_list # <<>> /\ pc[t] \in Slow BY <1>1, WaitsInList
<1>3. Free(granted, pc) BY <1>0, <1>1, Bits
<1>4. /\ rest = <<>> => Config(c2, rest, granted, out)
      /\ rest # <<>> => Config(c1, rest, granted, out)
      /\ ReadersIn(granted, out) = ReadersIn(granted, pc) /\ WritersIn(out) = WritersIn(pc)
  <2> DEFINE type == "write"
             left == list_del(wait_list, Waiter(t, type))
  <2>1. type \in {"read", "write"} /\ InList(wait_list, Waiter(t, type)) /\ left = rest BY <1>2
  <2> HIDE DEF type, rest
  <2>2. left = <<>> => Config(c2, left, granted, out) BY <1>0, <2>1, Dequeued
  <2>3. left # <<>> => Config(c1, left, granted, out) BY <1>0, <2>1, Dequeued
  <2>4. ReadersIn(granted, out) = ReadersIn(granted, pc) /\ WritersIn(out) = WritersIn(pc)
    BY <1>0, <1>2 DEF ReadersIn, WritersIn, Slow
  <2> HIDE DEF left, c1, c2
  <2>. QED BY <2>1, <2>2, <2>3, <2>4
<1>5. rest = <<>> <=> Len(wait_list) = 1
  <2>1. wait_list \in Seq(Waiters) /\ NoDup(wait_list) BY <1>0 DEF Config, QueueOK
  <2>2. rest \in Seq(Waiters) /\ Len(rest) = Len(wait_list) - 1
    <3> DEFINE i == CHOOSE j \in DOMAIN wait_list : wait_list[j] = Waiter(t, "write")
    <3>1. i \in 1 .. Len(wait_list) BY <1>2, <2>1 DEF InList
    <3>2. rest = RemoveAt(wait_list, i) BY DEF list_del
    <3> HIDE DEF i, rest
    <3>. QED BY <2>1, <3>1, <3>2, RemoveAtElements
  <2> HIDE DEF rest
  <2>3. rest = <<>> <=> Len(rest) = 0 BY <2>2
  <2>4. Len(wait_list) \in Nat BY <2>1
  <2>. QED BY <2>2, <2>3, <2>4
<1>6. c = c1 + RWSEM_WRITER_LOCKED /\ ClearFlag(c, RWSEM_FLAG_WAITERS) = c2 + RWSEM_WRITER_LOCKED
  <2> DEFINE zero == 0
             one == 1
  <2>1. PICK h \in Bit : count = Word(zero, zero, one, h)
    <3>1. Cardinality(ReadersIn(granted, pc)) = 0 /\ Cardinality(WritersIn(pc)) = 0
      BY <1>3, FS_EmptySet DEF Free
    <3>. QED BY <1>0, <1>2, <3>1, Digits
  <2>2. zero \in Nat /\ zero \in Bit /\ one \in Bit /\ zero = 0 /\ one = 1 BY DEF Bit
  <2> HIDE DEF zero, one, c, c1, c2
  <2>3. SetFlag(count, RWSEM_WRITER_LOCKED) = Word(zero, one, one, h) /\ c1 = Word(zero, zero, one, zero)
    BY <2>1, <2>2, WordWritten DEF c1
  <2>4. c = Word(zero, one, one, zero) BY <2>2, <2>3, WordWritten DEF c
  <2>5. ClearFlag(c, RWSEM_FLAG_WAITERS) = Word(zero, one, zero, zero) BY <2>2, <2>4, WordWritten
  <2>6. c2 = Word(zero, zero, zero, zero) BY <2>2, <2>3, WordWritten DEF c2
  <2>. QED BY <2>2, <2>3, <2>4, <2>5, <2>6
         DEF Word, RWSEM_WRITER_LOCKED, RWSEM_READER_BIAS, RWSEM_FLAG_WAITERS, RWSEM_FLAG_HANDOFF
<1>7. Free(granted, out) BY <1>3, <1>4 DEF Free
<1>8. out[t] = "out" /\ at = [out EXCEPT ![t] = "write"] /\ at[t] = "write" BY <1>0
<1>9. "write" \in Location BY DEF Location
<1>10. Reading' = Reading \ {t} /\ Writing' = Writing \cup {t} BY <1>0, <1>1, <1>9, Moved
<1>11. Writing = {} /\ Reading = {} BY <1>0, <1>3 DEF Free
<1> HIDE DEF at, out, rest, c, c1, c2
<1>12. Config(count', rest, granted, at)
  <2>1. CASE rest = <<>> BY <1>1, <1>4, <1>5, <1>6, <1>7, <1>8, <2>1, TakesWrite
  <2>2. CASE rest # <<>> BY <1>1, <1>4, <1>5, <1>6, <1>7, <1>8, <2>2, TakesWrite
  <2>. QED BY <2>1, <2>2
<1>13. ~Free(granted, at) BY <1>8 DEF Free, WritersIn
<1>14. IInv'
  <2>1. PICK d : d = count' OBVIOUS
  <2>2. Config(d, rest, granted, at) BY <1>12, <2>1
  <2>. QED BY <1>1, <1>13, <2>1, <2>2, Plainly
<1>. QED BY <1>10, <1>11, <1>14

----------------------------------------------------------------------------
(* The wait loops *)

\* A waiter that gives up, with count as c, is missed by nobody.
LEMMA GivesUp ==
  ASSUME IInv, NEW t \in Tasks, NEW type \in {"read", "write"}, NEW c, Waits(t, type),
         GiveUp(t, type, c), Config(c, wait_list, granted, pc)
  PROVE  IInv' /\ Reading' = Reading /\ Writing' = Writing
<1> DEFINE at == [pc EXCEPT ![t] = "out"]
           r == rwsem_del_wake_waiter(c, wait_list, reader_owned, Waiter(t, type))
<1>0. /\ pc \in [Tasks -> Location] /\ lstate \in [Tasks -> SleepState]
      /\ wait_list # <<>> /\ Free(granted, pc)
              => Head(wait_list).type = "write" /\ tstate[Head(wait_list).task] = "RUNNING"
  BY Known
<1>1. Apply(r) /\ pc' = at /\ UNCHANGED <<curr, sig, lstate>> BY DEF GiveUp
<1>2. InList(wait_list, Waiter(t, type)) /\ wait_list # <<>> /\ pc[t] \in Slow BY WaitsInList
<1>3. Outcome(r, granted, at) BY <1>0, <1>2, DelOutcome
<1>4. "out" \in Location BY DEF Location
<1>5. Reading' = Reading \ {t} /\ Writing' = Writing \ {t} BY <1>0, <1>1, <1>4, Moved
<1>6. t \notin Reading /\ t \notin Writing BY <1>2 DEF Reading, Writing, Slow
<1> HIDE DEF at, r
<1>7. IInv' BY <1>0, <1>1, <1>3, CarriedOut
<1>. QED BY <1>5, <1>6, <1>7

\* A failed attempt of a queued writer leaves the word of a configuration.
LEMMA Failed ==
  ASSUME IInv, NEW t \in Tasks, wait_list # <<>>
  PROVE  Config(CountAfterFailure(t), wait_list, granted, pc)
<1>1. Config(count, wait_list, granted, pc) BY Known
<1>2. Config(SetFlag(count, RWSEM_FLAG_HANDOFF), wait_list, granted, pc) BY <1>1, HandoffSet
<1>. QED BY <1>1, <1>2 DEF CountAfterFailure

\* Moving on within the slow path changes nothing for the others.
LEMMA StaysSlow ==
  ASSUME NEW c, NEW list, NEW g, NEW at, Config(c, list, g, at), NEW t \in Tasks, at[t] \in Slow,
         NEW l \in Slow
  PROVE  LET at2 == [at EXCEPT ![t] = l]
         IN Config(c, list, g, at2) /\ (Free(g, at2) <=> Free(g, at))
<1> DEFINE at2 == [at EXCEPT ![t] = l]
<1>0. at \in [Tasks -> Location] /\ QueueOK(list, g, at) BY DEF Config
<1>1. at2 \in [Tasks -> Location] /\ at2[t] = l /\ \A u \in Tasks \ {t} : at2[u] = at[u]
  BY <1>0 DEF Location, Slow
<1> HIDE DEF at2
<1>2. QueueOK(list, g, at2)
  <2>1. \A u \in Tasks : at2[u] \in Slow <=> at[u] \in Slow BY <1>1
  <2>. QED BY <1>0, <2>1 DEF QueueOK
<1>3. ReadersIn(g, at2) = ReadersIn(g, at) /\ WritersIn(at2) = WritersIn(at)
  BY <1>1 DEF ReadersIn, WritersIn, Slow
<1>4. Exclusive(g, at2) /\ WordOK(c, list, g, at2) BY <1>3 DEF Config, Exclusive, WordOK
<1>5. Config(c, list, g, at2) BY <1>1, <1>2, <1>4 DEF Config
<1>. QED BY <1>3, <1>5 DEF at2, Free

\* A waiter goes to sleep, unless it is first in line for a free lock.
LEMMA FallsAsleep ==
  ASSUME IInv, NEW t \in Tasks, NEW type \in {"read", "write"}, NEW c, Waits(t, type),
         GoToSleep(t), count' = c, Config(c, wait_list, granted, pc),
         Free(granted, pc) => Head(wait_list).task # t
  PROVE  IInv' /\ Reading' = Reading /\ Writing' = Writing
<1> DEFINE at == [pc EXCEPT ![t] = "sleep"]
<1>0. /\ pc \in [Tasks -> Location] /\ lstate \in [Tasks -> SleepState] /\ SchedOK
      /\ wait_list # <<>> /\ Free(granted, pc)
              => Head(wait_list).type = "write" /\ tstate[Head(wait_list).task] = "RUNNING"
      /\ granted \subseteq Tasks /\ QueueOK(wait_list, granted, pc)
  BY Known DEF Config
<1>1. /\ tstate' = [tstate EXCEPT ![t] = lstate[t]] /\ pc' = at
      /\ UNCHANGED <<on_rq, curr, need_resched, sig>> /\ UNCHANGED <<wait_list, granted, lstate>>
  BY DEF GoToSleep
<1>2. InList(wait_list, Waiter(t, type)) /\ wait_list # <<>> /\ pc[t] \in Slow BY WaitsInList
<1>3. t \notin granted BY <1>0, <1>2 DEF QueueOK, IsQueued
<1>4. "sleep" \in Location /\ "sleep" \in Slow BY DEF Location, Slow
<1>5. Config(c, wait_list, granted, at) /\ (Free(granted, at) <=> Free(granted, pc)) BY <1>2, <1>4, StaysSlow
<1>6. Reading' = Reading \ {t} /\ Writing' = Writing \ {t} BY <1>0, <1>1, <1>4, Moved
<1>7. t \notin Reading /\ t \notin Writing BY <1>2 DEF Reading, Writing, Slow
<1>8. SchedOK' /\ \A p \in Tasks \ {t} : tstate'[p] = tstate[p]
  <2>1. lstate[t] \in SleepState BY <1>0
  <2>. QED BY <1>0, <1>1, <2>1, StateSet
<1> HIDE DEF at
<1>9. Config(count, wait_list, granted, pc)' BY <1>1, <1>5, Stored
<1>10. FirstOK'
  <2>1. Head(wait_list).task \in Tasks
    <3>1. Head(wait_list) \in Waiters BY <1>0, <1>2, HeadInList DEF QueueOK
    <3>. QED BY <3>1 DEF Waiters
  <2>2. Free(granted, at) => Head(wait_list).type = "write" /\ tstate'[Head(wait_list).task] = "RUNNING"
    BY <1>0, <1>2, <1>5, <1>8, <2>1
  <2>. QED BY <1>1, <2>2 DEF FirstOK, Free, ReadersIn, WritersIn
<1>11. GrantedOK' BY <1>0, <1>1, <1>3, <1>8 DEF GrantedOK, IInv
<1>12. IInv' BY <1>0, <1>1, <1>8, <1>9, <1>10, <1>11 DEF IInv
<1>. QED BY <1>6, <1>7, <1>12

\* The first waiter for a free lock is a writer, so a reader may sleep.
LEMMA ReadWaits ==
  ASSUME IInv, NEW t \in Tasks, read_waits(t)
  PROVE  IInv' /\ Reading' = Reading /\ Writing' = Writing
<1> DEFINE type == "read"
<1>1. Waits(t, type) /\ GoToSleep(t) /\ count' = count /\ type \in {"read", "write"} BY DEF read_waits
<1>2. InList(wait_list, Waiter(t, "read")) /\ wait_list # <<>> BY <1>1, WaitsInList
<1>3. /\ Config(count, wait_list, granted, pc) /\ QueueOK(wait_list, granted, pc)
      /\ Free(granted, pc) => Head(wait_list).type = "write"
  BY <1>2, Known DEF Config
<1>4. ASSUME Head(wait_list).type = "write", Head(wait_list).task = t PROVE FALSE
  <2>1. Head(wait_list) \in Waiters /\ InList(wait_list, Head(wait_list)) BY <1>2, <1>3, HeadInList DEF QueueOK
  <2>2. Head(wait_list) = Waiter(t, "write") BY <1>4, <2>1 DEF Waiters, Waiter
  <2>. QED BY <1>2, <1>3, <2>1, <2>2 DEF QueueOK
<1> HIDE DEF type
<1>. QED BY <1>1, <1>3, <1>4, FallsAsleep

\* A writer that cannot take a free lock is not first in line.
LEMMA WriteWaits ==
  ASSUME IInv, NEW t \in Tasks, write_waits(t)
  PROVE  IInv' /\ Reading' = Reading /\ Writing' = Writing
<1> DEFINE type == "write"
           c == CountAfterFailure(t)
<1>1. Waits(t, type) /\ GoToSleep(t) /\ count' = c /\ type \in {"read", "write"} /\ ~WriteTakes(t)
  BY DEF write_waits
<1>2. wait_list # <<>> BY <1>1, WaitsInList
<1>3. Locked(count) <=> ~Free(granted, pc) BY Known, Bits
<1>4. Free(granted, pc) => Head(wait_list).task # t BY <1>1, <1>3 DEF WriteTakes, WriteRefused
<1>5. Config(c, wait_list, granted, pc) BY <1>2, Failed
<1> HIDE DEF type, c
<1>. QED BY <1>1, <1>4, <1>5, FallsAsleep

\* A waiter that is killed leaves the queue in order.
LEMMA WaiterLeaves ==
  ASSUME IInv, NEW t \in Tasks, read_gives_up(t) \/ write_gives_up(t)
  PROVE  IInv' /\ Reading' = Reading /\ Writing' = Writing
<1>1. CASE read_gives_up(t)
  <2> DEFINE type == "read"
  <2>1. type \in {"read", "write"} /\ Waits(t, type) /\ GiveUp(t, type, count) BY <1>1 DEF read_gives_up
  <2> HIDE DEF type
  <2>. QED BY <2>1, Known, GivesUp
<1>2. CASE write_gives_up(t)
  <2> DEFINE type == "write"
             c == CountAfterFailure(t)
  <2>1. type \in {"read", "write"} /\ Waits(t, type) /\ GiveUp(t, type, c) BY <1>2 DEF write_gives_up
  <2>2. wait_list # <<>> BY <2>1, WaitsInList
  <2>3. Config(c, wait_list, granted, pc) BY <2>2, Failed
  <2> HIDE DEF type, c
  <2>. QED BY <2>1, <2>3, GivesUp
<1>. QED BY <1>1, <1>2

----------------------------------------------------------------------------
(* Everybody else *)

\* The steps of the scheduler: tasks in the slow path may run there, and
\* nobody who waits or was let in stops running.
LEMMA SchedulerStep ==
  ASSUME IInv, SchedOK', \A u \in Tasks : pc[u] \in Slow /\ tstate[u] = "RUNNING" => tstate'[u] = "RUNNING",
         NEW at, pc' = at, Config(count, wait_list, granted, at), Free(granted, at) <=> Free(granted, pc),
         UNCHANGED <<count, wait_list, granted, lstate>>
  PROVE  IInv'
<1>0. /\ Config(count, wait_list, granted, pc) /\ lstate \in [Tasks -> SleepState]
      /\ wait_list # <<>> /\ Free(granted, pc)
           => Head(wait_list).type = "write" /\ tstate[Head(wait_list).task] = "RUNNING"
      /\ QueueOK(wait_list, granted, pc) /\ granted \subseteq Tasks
  BY Known DEF Config
<1>1. Config(count, wait_list, granted, pc)' BY Stored
<1>2. GrantedOK' BY <1>0 DEF GrantedOK, IInv, QueueOK
<1>3. wait_list # <<>> => Head(wait_list).task \in Tasks /\ pc[Head(wait_list).task] \in Slow
  <2> SUFFICES ASSUME wait_list # <<>> PROVE Head(wait_list).task \in Tasks /\ pc[Head(wait_list).task] \in Slow
    OBVIOUS
  <2> DEFINE u == Head(wait_list).task
  <2>1. Head(wait_list) \in Waiters /\ InList(wait_list, Head(wait_list)) BY <1>0, HeadInList DEF QueueOK
  <2>2. Head(wait_list) \in {Waiter(u, "read"), Waiter(u, "write")} /\ u \in Tasks BY <2>1 DEF Waiters, Waiter
  <2> HIDE DEF u
  <2>3. IsQueued(wait_list, u) BY <2>1, <2>2 DEF IsQueued
  <2>. QED BY <1>0, <2>2, <2>3 DEF QueueOK, u
<1>4. wait_list # <<>> /\ Free(granted, at)
        => Head(wait_list).type = "write" /\ tstate'[Head(wait_list).task] = "RUNNING"
  BY <1>0, <1>3
<1>5. FirstOK' BY <1>4 DEF FirstOK, Free, ReadersIn, WritersIn
<1>. QED BY <1>0, <1>1, <1>2, <1>5 DEF IInv

\* Preemption, ticks, signals, stray wake-ups and timeouts that pass.
LEMMA EnvironmentInv ==
  ASSUME IInv, Environment \/ (\E t \in Tasks : sleep(t)) \/ UNCHANGED vars
  PROVE  IInv' /\ Reading' = Reading /\ Writing' = Writing
<1>0. /\ SchedOK /\ pc \in [Tasks -> Location] /\ Config(count, wait_list, granted, pc)
      /\ lstate \in [Tasks -> SleepState]
  BY Known
<1>1. ASSUME SchedOK', \A u \in Tasks : pc[u] \in Slow /\ tstate[u] = "RUNNING" => tstate'[u] = "RUNNING",
             UNCHANGED <<count, wait_list, granted, lstate, pc>>
      PROVE  IInv' /\ Reading' = Reading /\ Writing' = Writing
  <2>1. PICK at : at = pc OBVIOUS
  <2>2. pc' = at /\ Config(count, wait_list, granted, at) /\ (Free(granted, at) <=> Free(granted, pc))
    BY <1>0, <1>1, <2>1
  <2>3. IInv' BY <1>1, <2>2, SchedulerStep
  <2>. QED BY <1>1, <2>3 DEF Reading, Writing
<1>2. ASSUME SchedOK', UNCHANGED tstate, UNCHANGED rwsemVars
      PROVE  IInv' /\ Reading' = Reading /\ Writing' = Writing
  BY <1>1, <1>2 DEF rwsemVars
<1>3. ASSUME NEW t \in Tasks, sleep(t) PROVE IInv' /\ Reading' = Reading /\ Writing' = Writing
  <2> DEFINE at == [pc EXCEPT ![t] = "slept"]
  <2>1. /\ curr = t /\ pc[t] \in Slow /\ __schedule(t) /\ pc' = at
        /\ UNCHANGED <<count, wait_list, granted, lstate>>
    BY <1>3 DEF sleep, Slow
  <2>2. SchedOK' /\ StaysRunnable BY <1>0, <2>1, Scheduled
  <2>3. "slept" \in Slow /\ "slept" \in Location BY DEF Slow, Location
  <2>4. Config(count, wait_list, granted, at) /\ (Free(granted, at) <=> Free(granted, pc))
    BY <1>0, <2>1, <2>3, StaysSlow
  <2>5. Reading' = Reading \ {t} /\ Writing' = Writing \ {t} BY <1>0, <2>1, <2>3, Moved
  <2>6. t \notin Reading /\ t \notin Writing BY <2>1 DEF Reading, Writing, Slow
  <2> HIDE DEF at
  <2>7. IInv' BY <2>1, <2>2, <2>4, SchedulerStep DEF StaysRunnable
  <2>. QED BY <2>5, <2>6, <2>7
<1>4. ASSUME NEW t \in Tasks, resched(t) PROVE IInv' /\ Reading' = Reading /\ Writing' = Writing
  <2>1. SchedOK' /\ UNCHANGED tstate BY <1>0, <1>4, Preempted DEF resched, cond_resched
  <2>. QED BY <1>2, <1>4, <2>1 DEF resched
<1>5. ASSUME NEW t \in Tasks, blocks(t) PROVE IInv' /\ Reading' = Reading /\ Writing' = Writing
  <2>1. wait_elsewhere(t) /\ pc[t] \notin Slow /\ UNCHANGED rwsemVars BY <1>5 DEF blocks, Slow
  <2>2. SchedOK'
    BY <1>0, <2>1, IdleAssumption DEF wait_elsewhere, SchedOK, SchedTypeOK, SleepState, pick_next_task
  <2>3. \A u \in Tasks \ {t} : tstate'[u] = tstate[u]
    BY <1>0, <2>1 DEF wait_elsewhere, SchedOK, SchedTypeOK
  <2>. QED BY <1>1, <2>1, <2>2, <2>3 DEF rwsemVars
<1>6. ASSUME NEW t \in Tasks, NEW mask, try_to_wake_up({t}, mask), curr' = curr,
             sig' \in [Tasks -> Signal], UNCHANGED rwsemVars
      PROVE  IInv' /\ Reading' = Reading /\ Writing' = Writing
  <2>1. {t} \in SUBSET Tasks OBVIOUS
  <2>2. SchedOK' /\ StaysRunnable BY <1>0, <1>6, <2>1, WakeUp
  <2>. QED BY <1>1, <1>6, <2>2 DEF rwsemVars, StaysRunnable
<1>7. ASSUME NEW t \in Tasks, irq_wakes(t) PROVE IInv' /\ Reading' = Reading /\ Writing' = Writing
  BY <1>0, <1>6, <1>7 DEF irq_wakes, stray_wake_up, wake_up_process, SchedOK, SchedTypeOK
<1>8. ASSUME NEW t \in Tasks, NEW fatal \in Fatality, task_signals(t, fatal)
      PROVE  IInv' /\ Reading' = Reading /\ Writing' = Writing
  <2> DEFINE mask == IF fatal THEN {"INTERRUPTIBLE", "KILLABLE"} ELSE {"INTERRUPTIBLE"}
  <2>1. try_to_wake_up({t}, mask) /\ curr' = curr /\ UNCHANGED rwsemVars
    BY <1>8 DEF task_signals, signal_wake_up
  <2>2. sig' \in [Tasks -> Signal]
    BY <1>0, <1>8 DEF task_signals, signal_wake_up, SchedOK, SchedTypeOK, Signal
  <2> HIDE DEF mask
  <2>. QED BY <1>6, <2>1, <2>2
<1>9. ASSUME NEW t \in Tasks, waiter_expires(t) PROVE IInv' /\ Reading' = Reading /\ Writing' = Writing
  <2>1. SchedOK' /\ UNCHANGED tstate BY <1>0, <1>9, Ticked DEF waiter_expires
  <2>. QED BY <1>1, <1>9, <2>1 DEF waiter_expires
<1>10. CASE tick \/ UNCHANGED vars
  <2>1. SchedOK' /\ UNCHANGED tstate BY <1>0, <1>10, Ticked DEF tick, vars
  <2>2. UNCHANGED rwsemVars BY <1>10 DEF tick, vars
  <2>. QED BY <1>2, <2>1, <2>2
<1>11. CASE leave_idle
  <2>1. SchedOK' /\ UNCHANGED tstate BY <1>0, <1>11, Preempted DEF leave_idle, schedule_idle
  <2>. QED BY <1>2, <1>11, <2>1 DEF leave_idle
<1>. QED BY <1>3, <1>4, <1>5, <1>7, <1>8, <1>9, <1>10, <1>11 DEF Environment

----------------------------------------------------------------------------
(* The theorems *)

\* The word is 0, nobody holds the lock and nobody waits.
LEMMA Initially == Init => IInv
<1> SUFFICES ASSUME Init PROVE IInv
  OBVIOUS
<1>1. SchedOK BY SchedStarts DEF Init
<1>2. pc \in [Tasks -> Location] /\ lstate \in [Tasks -> SleepState] BY DEF Init, Location, SleepState
<1>3. \A x : ~InList(wait_list, x) BY DEF Init, InList
<1>4. QueueOK(wait_list, granted, pc)
  <2>1. wait_list \in Seq(Waiters) /\ NoDup(wait_list) /\ granted = {} BY DEF Init, NoDup
  <2>2. \A u \in Tasks : pc[u] \notin Slow BY DEF Init, Slow
  <2>. QED BY <1>3, <2>1, <2>2 DEF QueueOK, IsQueued
<1>5. ReadersIn(granted, pc) = {} /\ WritersIn(pc) = {} BY DEF Init, ReadersIn, WritersIn
<1>6. WordOK(count, wait_list, granted, pc)
  <2>1. IsFiniteSet(ReadersIn(granted, pc)) /\ Cardinality(ReadersIn(granted, pc)) = 0 /\ Cardinality(WritersIn(pc)) = 0
    BY <1>5, FS_EmptySet
  <2>2. 0 \in Bit /\ Word(0, 0, 0, 0) = 0
    BY DEF Bit, Word, RWSEM_READER_BIAS, RWSEM_FLAG_WAITERS, RWSEM_FLAG_HANDOFF
  <2>3. wait_list = <<>> /\ count = 0 BY DEF Init
  <2>. QED BY <2>1, <2>2, <2>3 DEF WordOK
<1>7. Config(count, wait_list, granted, pc) BY <1>2, <1>4, <1>5, <1>6 DEF Config, Exclusive
<1>8. FirstOK /\ GrantedOK BY DEF Init, FirstOK, GrantedOK
<1>. QED BY <1>1, <1>2, <1>7, <1>8 DEF IInv

\* Every step keeps the invariant, and is to its users a step of the lock.
LEMMA Inductive ==
  ASSUME IInv, [Next]_vars
  PROVE  IInv' /\ [Abstract!Next]_<<Reading, Writing>>
<1> USE DEF Abstract!Next, Abstract!AcquireRead, Abstract!AcquireWrite, Abstract!ReleaseRead,
            Abstract!ReleaseWrite, Abstract!Downgrade
<1>1. CASE Environment \/ (\E t \in Tasks : sleep(t)) \/ UNCHANGED vars BY <1>1, EnvironmentInv
<1>2. ASSUME NEW t \in Tasks, ReadStep(t) PROVE IInv' /\ [Abstract!Next]_<<Reading, Writing>>
  <2>1. CASE down_read_fast(t) BY <2>1, ReadFast
  <2>2. CASE down_read_steal(t) BY <2>2, ReadSteals
  <2>3. CASE \E state \in LockStates : down_read_queue(t, state) BY <2>3, ReadQueues
  <2>4. CASE read_granted(t) BY <2>4, ReadReturns
  <2>5. CASE read_gives_up(t) BY <2>5, WaiterLeaves
  <2>6. CASE read_waits(t) BY <2>6, ReadWaits
  <2>7. CASE up_read(t) BY <2>7, ReadReleases
  <2>. QED BY <1>2, <2>1, <2>2, <2>3, <2>4, <2>5, <2>6, <2>7 DEF ReadStep
<1>3. ASSUME NEW t \in Tasks, WriteStep(t) PROVE IInv' /\ [Abstract!Next]_<<Reading, Writing>>
  <2>1. CASE down_write_fast(t) BY <2>1, WriteFast
  <2>2. CASE \E state \in LockStates : down_write_queue(t, state) BY <2>2, WriteQueues
  <2>3. CASE write_takes(t) BY <2>3, WriteTaken
  <2>4. CASE write_gives_up(t) BY <2>4, WaiterLeaves
  <2>5. CASE write_waits(t) BY <2>5, WriteWaits
  <2>6. CASE up_write(t) BY <2>6, WriteReleases
  <2>7. CASE downgrade_write(t) BY <2>7, Downgrades
  <2>. QED BY <1>3, <2>1, <2>2, <2>3, <2>4, <2>5, <2>6, <2>7 DEF WriteStep
<1>. QED BY <1>1, <1>2, <1>3 DEF Next

\* The word, the queue, the readers let in and the run queue agree in every
\* state of the semaphore.
THEOREM Invariance == Spec => []IInv
BY Initially, Inductive, PTL DEF Spec

\* The word in sem->count is exact on every path: stealing, hand-over,
\* readers let in by others, waiters that give up, downgrades.
THEOREM CountIsExact == Spec => []CountExact
<1>1. IInv => CountExact
  <2> SUFFICES ASSUME IInv PROVE CountExact
    OBVIOUS
  <2>1. Config(count, wait_list, granted, pc) /\ ReadersIn(granted, pc) = Reading \cup granted /\ Writing = WritersIn(pc)
    BY Known
  <2> DEFINE r == Cardinality(Reading \cup granted)
             w == Cardinality(Writing)
  <2>2. r \in Nat /\ w \in Nat
    <3>1. Cardinality(ReadersIn(granted, pc)) \in Nat /\ Cardinality(WritersIn(pc)) \in Bit BY <2>1, Bits
    <3>. QED BY <2>1, <3>1 DEF Bit
  <2>3. PICK h \in Bit : count = Word(r, w, IF wait_list = <<>> THEN 0 ELSE 1, h) /\ (wait_list = <<>> => h = 0)
    BY <2>1 DEF Config, WordOK
  <2> HIDE DEF r, w
  <2> DEFINE handoff == RWSEM_FLAG_HANDOFF * h
  <2>4. handoff \in {0, RWSEM_FLAG_HANDOFF} /\ (wait_list = <<>> => handoff = 0)
    BY <2>3 DEF Bit, RWSEM_FLAG_HANDOFF
  <2>5. count = RWSEM_READER_BIAS * r + w + (IF wait_list = <<>> THEN 0 ELSE RWSEM_FLAG_WAITERS) + handoff
    BY <2>2, <2>3 DEF Word, Bit, RWSEM_READER_BIAS, RWSEM_FLAG_WAITERS, RWSEM_FLAG_HANDOFF
  <2> HIDE DEF handoff
  <2>. QED BY <2>4, <2>5 DEF CountExact, r, w
<1>. QED BY <1>1, Invariance, PTL

\* Whoever should run can: the first in line for a free lock, and a reader
\* that was let in while it slept; nobody is queued twice or forgotten.
THEOREM WakeupsKept == Spec => []NoLostWakeup
<1>1. IInv => NoLostWakeup
  <2> SUFFICES ASSUME IInv PROVE NoLostWakeup
    OBVIOUS
  <2>0. /\ Config(count, wait_list, granted, pc) /\ Writing = WritersIn(pc) /\ granted \subseteq Tasks /\ SchedOK
        /\ ReadersIn(granted, pc) = Reading \cup granted
        /\ QueueOK(wait_list, granted, pc) /\ wait_list \in Seq(Waiters) /\ NoDup(wait_list)
    BY Known DEF Config, QueueOK
  <2>1. ASSUME wait_list # <<>>, ~Locked(count)
        PROVE  tstate[Head(wait_list).task] = "RUNNING" /\ Head(wait_list).task \in on_rq
    <3>1. Free(granted, pc) BY <2>0, <2>1, Bits
    <3>2. tstate[Head(wait_list).task] = "RUNNING" BY <2>1, <3>1, Known
    <3>3. Head(wait_list) \in Waiters BY <2>0, <2>1, HeadInList
    <3>. QED BY <2>0, <3>2, <3>3 DEF Waiters, SchedOK
  <2>2. \A t \in granted : tstate[t] = "RUNNING" /\ t \in on_rq BY <2>0 DEF IInv, GrantedOK, SchedOK
  <2>3. granted # {} => Writing = {} BY <2>0 DEF Config, Exclusive
  <2>4. ASSUME NEW t \in Tasks
        PROVE  Cardinality({i \in DOMAIN wait_list : wait_list[i].task = t}) + (IF t \in granted THEN 1 ELSE 0)
                 = IF pc[t] \in {"queued", "sleep", "slept"} THEN 1 ELSE 0
    <3> DEFINE P == {i \in DOMAIN wait_list : wait_list[i].task = t}
    <3>1. \A i \in P : wait_list[i] \in {Waiter(t, "read"), Waiter(t, "write")} /\ i \in DOMAIN wait_list
      <4>1. \A i \in DOMAIN wait_list : wait_list[i] \in Waiters BY <2>0
      <4>. QED BY <4>1 DEF Waiters, Waiter
    <3>2. \A i, j \in P : i = j
      <4> SUFFICES ASSUME NEW i \in P, NEW j \in P PROVE i = j
        OBVIOUS
      <4>1. wait_list[i] = wait_list[j] BY <2>0, <3>1 DEF QueueOK, InList
      <4>. QED BY <2>0, <3>1, <4>1 DEF NoDup
    <3>3. P # {} <=> IsQueued(wait_list, t)
      <4>1. P # {} => IsQueued(wait_list, t) BY <3>1 DEF IsQueued, InList
      <4>2. IsQueued(wait_list, t) => P # {} BY DEF IsQueued, InList, Waiter
      <4>. QED BY <4>1, <4>2
    <3> HIDE DEF P
    <3>4. Cardinality(P) = IF IsQueued(wait_list, t) THEN 1 ELSE 0
      <4>1. CASE P = {} BY <3>3, <4>1, FS_EmptySet
      <4>2. CASE P # {}
        <5>1. PICK i : P = {i} BY <3>2, <4>2
        <5>. QED BY <3>3, <4>2, <5>1, FS_Singleton
      <4>. QED BY <4>1, <4>2
    <3>5. t \in granted => ~IsQueued(wait_list, t) BY <2>0 DEF QueueOK
    <3>6. pc[t] \in Slow <=> t \in granted \/ IsQueued(wait_list, t) BY <2>0 DEF QueueOK
    <3>. QED BY <3>4, <3>5, <3>6 DEF P, Slow
  <2>. QED BY <2>1, <2>2, <2>3, <2>4 DEF NoLostWakeup
<1>. QED BY <1>1, Invariance, PTL

\* No reader stays first in the queue of a lock that nobody holds.
THEOREM ReadersLetIn == Spec => []NoReaderLeftBehind
<1>1. IInv => NoReaderLeftBehind
  <2> SUFFICES ASSUME IInv, wait_list # <<>>, Head(wait_list).type = "read" PROVE Locked(count)
    BY DEF NoReaderLeftBehind
  <2>1. ~Free(granted, pc) BY Known
  <2>. QED BY <2>1, Known, Bits
<1>. QED BY <1>1, Invariance, PTL

\* A step that lets an outsider in is none of a lock with HANDOFF set.
LEMMA NoStealing ==
  ASSUME IInv, Next, Has(count, RWSEM_FLAG_HANDOFF), NEW u \in Tasks, pc[u] = "out"
  PROVE  pc'[u] \notin {"read", "write"}
<1>1. pc'[u] \in {"read", "write"} => u \in Reading' \cup Writing' BY DEF Reading, Writing
<1>2. u \notin Reading \cup Writing BY DEF Reading, Writing
<1>3. CASE Environment \/ \E t \in Tasks : sleep(t) BY <1>1, <1>2, <1>3, EnvironmentInv
<1>4. ASSUME NEW t \in Tasks, ReadStep(t) PROVE pc'[u] \notin {"read", "write"}
  <2>1. ~down_read_fast(t) /\ ~down_read_steal(t) BY ReadFast, ReadSteals
  <2>2. CASE \E state \in LockStates : down_read_queue(t, state) BY <1>1, <1>2, <2>2, ReadQueues
  <2>3. CASE read_granted(t)
    <3>1. u # t BY <2>3 DEF read_granted, LoopTop
    <3>. QED BY <1>1, <1>2, <2>3, <3>1, ReadReturns
  <2>4. CASE read_gives_up(t) BY <1>1, <1>2, <2>4, WaiterLeaves
  <2>5. CASE read_waits(t) BY <1>1, <1>2, <2>5, ReadWaits
  <2>6. CASE up_read(t) BY <1>1, <1>2, <2>6, ReadReleases
  <2>. QED BY <1>4, <2>1, <2>2, <2>3, <2>4, <2>5, <2>6 DEF ReadStep
<1>5. ASSUME NEW t \in Tasks, WriteStep(t) PROVE pc'[u] \notin {"read", "write"}
  <2>1. ~down_write_fast(t) BY WriteFast
  <2>2. CASE \E state \in LockStates : down_write_queue(t, state) BY <1>1, <1>2, <2>2, WriteQueues
  <2>3. CASE write_takes(t)
    <3>1. u # t BY <2>3 DEF write_takes, Waits, LoopTop
    <3>. QED BY <1>1, <1>2, <2>3, <3>1, WriteTaken
  <2>4. CASE write_gives_up(t) BY <1>1, <1>2, <2>4, WaiterLeaves
  <2>5. CASE write_waits(t) BY <1>1, <1>2, <2>5, WriteWaits
  <2>6. CASE up_write(t) BY <1>1, <1>2, <2>6, WriteReleases
  <2>7. CASE downgrade_write(t)
    <3>1. u # t BY <2>7 DEF downgrade_write
    <3>. QED BY <1>1, <1>2, <2>7, <3>1, Downgrades
  <2>. QED BY <1>5, <2>1, <2>2, <2>3, <2>4, <2>5, <2>6, <2>7 DEF WriteStep
<1>. QED BY <1>3, <1>4, <1>5 DEF Next

\* Once HANDOFF is set nobody overtakes the queue.
THEOREM HandoffKept == Spec => NoStealAfterHandoff
<1>1. ASSUME IInv, [Next]_vars
      PROVE  [Has(count, RWSEM_FLAG_HANDOFF) =>
                \A t \in Tasks : pc[t] = "out" => pc'[t] \notin {"read", "write"}]_vars
  BY <1>1, NoStealing
<1>. QED BY <1>1, Invariance, PTL DEF Spec, NoStealAfterHandoff

\* To its users the semaphore is a reader/writer lock, downgrade included.
THEOREM Refinement == Spec => ImplementsLock
<1>1. Init => Abstract!Init BY DEF Init, Abstract!Init, Reading, Writing
<1>2. ASSUME IInv, [Next]_vars PROVE [Abstract!Next]_<<Reading, Writing>>
  BY <1>2, Inductive
<1>. QED BY <1>1, <1>2, Invariance, PTL DEF Spec, ImplementsLock, Abstract!Spec

=============================================================================
