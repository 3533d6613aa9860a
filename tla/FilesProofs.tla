---------------------------- MODULE FilesProofs ----------------------------
(***************************************************************************)
(* Proofs about Files, for any tasks, tables, files and table sizes: the   *)
(* parts of a descriptor table agree, references are counted exactly, and  *)
(* every file without references is on one list to be closed; until an     *)
(* exec goes on with an fdtable that another task has replaced.            *)
(***************************************************************************)
EXTENDS Files, FiniteSetTheorems, TLAPS

----------------------------------------------------------------------------
(* The inductive invariant *)

Table ==
  [count : Nat, max_fds : Nat, fd : [Fds -> Files \cup {NULL}], open : SUBSET Fds, full : SUBSET Nat,
   cloexec : SUBSET Fds, next_fd : Nat, resizing : BOOLEAN]

Locals ==
  [op : {"none", "open", "dup", "dup2", "light", "counted", "fork"}, file : Files \cup {NULL},
   fd : Nat, fd2 : Nat, files : Structs \cup {NULL}, child : Tasks \cup {NULL}, set : SUBSET Fds]

TypeOK ==
  /\ alloc \subseteq Files /\ f_count \in [Files -> Nat]
  /\ task_works \in [Tasks -> Seq(Files)] /\ todo \in [Tasks -> Seq(Files)]
  /\ delayed_fput_list \in Seq(Files)
  /\ work_exited \subseteq Tasks /\ pending \in BOOLEAN
  /\ tab \in [Structs -> Table]
  /\ tfiles \in [Tasks -> Structs \cup {NULL}]
  /\ pc \in [Tasks -> Location]
  /\ loc \in [Tasks -> Locals]

\* What the bitmaps of a table say is true.
Sound(x) ==
  /\ x.open \subseteq 0 .. x.max_fds - 1
  /\ 0 .. x.next_fd - 1 \subseteq x.open
  /\ \A i \in Fds : Word(i) \in x.full => i \in x.open
  /\ \A i \in Fds : x.fd[i] # NULL => i \in x.open

\* Descriptor i of table x is taken by an open() that has no file for it yet.
Reserved(x, i) == i \in x.open /\ x.fd[i] = NULL

\* The locations of a task that has a table, and of one in its own table only.
WithTable == {"user", "leave", "resize", "resize_wait", "install", "use", "dup_fd", "exec"}

\* What goes with each location: the table and the local variables of task t.
PlaceOK(t, files, where, l) ==
  /\ t \in KThreads => where \in {"user", "leave", "use"} /\ files = NULL
  /\ t \notin KThreads /\ where \in WithTable => files \in Structs
  /\ where \in {"none", "new", "exit_run"} => files = NULL
  /\ where = "exit_files" => (files \in Structs <=> l.op = "fork")
  /\ where \in {"none", "new", "user", "leave", "exit_run"} => l = NoLocals
  /\ where \in {"resize", "resize_wait", "install"} =>
       l.op \in {"open", "dup", "dup2"} /\ l.fd \in Fds /\ l.fd2 \in Fds
  /\ where \in {"resize", "resize_wait"} => (l.file \in Files <=> l.op = "dup")
  /\ where \in {"install", "dup_fd", "exec", "exit_files"} => l.file = NULL
  /\ where = "use" => l.file \in Files /\ l.op \in {"light", "counted"}
  /\ l.files \in Structs <=> where \in {"dup_fd", "exit_files"}
  /\ l.child \in Tasks <=> where = "dup_fd"

Placed == \A t \in Tasks : PlaceOK(t, tfiles[t], pc[t], loc[t])

\* A child that is being forked has one parent.
Parents ==
  \A t \in Tasks : pc[t] = "dup_fd" =>
    /\ pc[loc[t].child] = "new"
    /\ \A u \in Tasks \ {t} : loc[u].child # loc[t].child

\* The table that is made or closed is in nobody else's hands.
Private ==
  \A t \in Tasks : loc[t].files \in Structs =>
    \A u \in Tasks : tfiles[u] # loc[t].files /\ (u # t => loc[u].files # loc[t].files)

\* The users of table s, a fork() that makes it included, are counted.
Users(s) == {t \in Tasks : tfiles[t] = s \/ (pc[t] = "dup_fd" /\ loc[t].files = s)}
Counted == \A s \in Structs : tab[s].count = Cardinality(Users(s))

\* A table that is not finished has nothing in it, nor has one that is free.
Empty ==
  /\ \A t \in Tasks : pc[t] = "dup_fd" => tab[loc[t].files] = NewTable
  /\ \A s \in Structs :
       tab[s].count = 0 /\ (\A t \in Tasks : loc[t].files # s) => \A i \in Fds : tab[s].fd[i] = NULL

\* Taken without a file, for exactly one task.
Promised ==
  \A s \in Structs : tab[s].count > 0 =>
    \A i \in Fds :
      /\ Reserved(tab[s], i) <=> Installing(s, i) # {}
      /\ \A t, u \in Installing(s, i) : t = u

Resizing(s) == {t \in Tasks : tfiles[t] = s /\ At(t, "resize")}

\* One task resizes, and the table is too small for its descriptor until then.
OneResizes ==
  /\ \A s \in Structs : tab[s].count > 0 =>
       /\ tab[s].resizing <=> Resizing(s) # {}
       /\ \A t, u \in Resizing(s) : t = u
  /\ \A t \in Tasks : At(t, "resize") => T(t).max_fds <= loc[t].fd

\* The references to f there are.
InSlots(f) == {p \in Structs \X Fds : tab[p[1]].fd[p[2]] = f}
Refs(f) == Cardinality(InHand(f)) + Cardinality(InSlots(f))

\* The count is never above them; it is exact but for what fdput() dropped
\* without having taken it.
RefsOK ==
  \A f \in Files : f_count[f] <= Refs(f) /\ (f \notin short => f_count[f] = Refs(f))

\* Tasks that do not run have no works.
Gone == \A t \in Tasks : pc[t] \in {"none", "new"} => task_works[t] = <<>> /\ todo[t] = <<>>

\* The lists of files that wait to be closed: what is on them, and only once.
In(q, f) == \E c \in Lists : \E i \in DOMAIN q[c] : q[c][i] = f

Once(q, f) ==
  \A c, d \in Lists : \A i \in DOMAIN q[c], j \in DOMAIN q[d] :
    q[c][i] = f /\ q[d][j] = f => c = d /\ i = j

\* Exactly the files that are allocated and have no reference wait.
Waits(f) ==
  /\ In(Queue, f) <=> f \in alloc /\ f_count[f] = 0
  /\ Once(Queue, f)
  /\ f \notin alloc => f_count[f] = 0

\* Who has files to close comes to it.
Workers ==
  \A t \in Tasks :
    /\ todo[t] # <<>> => pc[t] \in {"leave", "exit_run"}
    /\ t \in work_exited => pc[t] = "none"
    /\ t \in KThreads => task_works[t] = <<>>

\* One kernel thread: the work is pending only while it runs, so it never finds
\* the work pending.
Alone == \A t, u \in KThreads : t = u

Delayed ==
  Alone => /\ delayed_fput_list = <<>>
           /\ pending => \E t \in KThreads : todo[t] # <<>>

Queues == (\A f \in Files \ short : Waits(f)) /\ Workers /\ Delayed

IInv ==
  /\ TypeOK /\ (\A s \in Structs : Sound(tab[s])) /\ Placed /\ Parents /\ Private /\ Counted /\ Empty
  /\ Promised /\ OneResizes /\ Gone /\ RefsOK

\* All that is said holds until an exec closes a descriptor of a replaced
\* fdtable.
Inv == torn \in BOOLEAN /\ (~torn => IInv /\ Queues)

----------------------------------------------------------------------------
(* Numbers *)

\* A set of natural numbers that is not empty has a least element.
LEMMA LeastNatural ==
  ASSUME NEW S \in SUBSET Nat, S # {}
  PROVE  \E n \in S : \A m \in S : n <= m
<1> DEFINE U == {0 .. n : n \in S}
<1>1. U \subseteq FiniteSubsetsOf(Nat) /\ U # {}
  <2>1. \A n \in S : IsFiniteSet(0 .. n) /\ 0 .. n \subseteq Nat BY FS_Interval
  <2>. QED BY <2>1 DEF FiniteSubsetsOf
<1>2. \E x \in U : \A y \in U : ~ (<<y, x>> \in StrictSubsetOrdering(Nat))
  BY <1>1, FS_StrictSubsetOrderingWellFounded, WFMin
<1>3. PICK n \in S : \A m \in S : ~ (<<0 .. m, 0 .. n>> \in StrictSubsetOrdering(Nat)) BY <1>2
<1>4. ASSUME NEW m \in S, m < n PROVE FALSE
  <2>1. 0 .. m \subseteq 0 .. n /\ n \in 0 .. n /\ n \notin 0 .. m /\ 0 .. n \subseteq Nat BY <1>4
  <2>. QED BY <1>3, <2>1 DEF StrictSubsetOrdering
<1>. QED BY <1>4

\* What Min() and Max() of the model return.
LEMMA MinOf ==
  ASSUME NEW S \in SUBSET Nat, S # {}
  PROVE  Min(S) \in S /\ \A m \in S : Min(S) <= m
BY LeastNatural DEF Min

\* A bounded set that is not empty has a greatest element.
LEMMA MaxOf ==
  ASSUME NEW n \in Nat, NEW S \in SUBSET (0 .. n), S # {}
  PROVE  Max(S) \in S /\ \A m \in S : m <= Max(S)
<1> DEFINE D == {n - m : m \in S}
<1>1. D \in SUBSET Nat /\ D # {}
  <2>1. \A m \in S : n - m \in Nat OBVIOUS
  <2>. QED BY <2>1
<1>2. PICK d \in D : \A k \in D : d <= k
  <2> HIDE DEF D
  <2>. QED BY <1>1, LeastNatural
<1>3. PICK x \in S : d = n - x OBVIOUS
<1>4. \A m \in S : x >= m
  <2> SUFFICES ASSUME NEW m \in S PROVE x >= m OBVIOUS
  <2>1. d <= n - m BY <1>2
  <2>. QED BY <1>3, <2>1
<1>. QED BY <1>4 DEF Max

\* A number is below its power of two: a set has more subsets than elements.
LEMMA PowerAbove == ASSUME NEW n \in Nat PROVE 2^n \in Nat /\ 2^n > n
<1> DEFINE S == 1 .. n
           f == [i \in 0 .. n |-> IF i = 0 THEN {} ELSE {i}]
<1>1. IsFiniteSet(S) /\ Cardinality(S) = n
  <2>1. n - 1 + 1 = n OBVIOUS
  <2>. QED BY <2>1, FS_Interval
<1>2. IsFiniteSet(SUBSET S) /\ Cardinality(SUBSET S) = 2^n
  <2> HIDE DEF S
  <2>. QED BY <1>1, FS_SUBSET
<1>3. f \in Injection(0 .. n, SUBSET S) BY DEF Injection, IsInjective
<1>4. Cardinality(0 .. n) = n + 1 BY FS_Interval
<1>5. Cardinality(0 .. n) <= Cardinality(SUBSET S)
  <2> HIDE DEF f, S
  <2>. QED BY <1>2, <1>3, FS_Injection
<1>6. Cardinality(SUBSET S) \in Nat BY <1>2, FS_CardinalityType
<1>. QED BY <1>2, <1>4, <1>5, <1>6

\* Multiplication is monotonic.
LEMMA Products ==
  ASSUME NEW a \in Nat, NEW b \in Nat, NEW c \in Nat, a <= b
  PROVE  a * c \in Nat /\ b * c \in Nat /\ a * c <= b * c
OBVIOUS

\* The word of a descriptor.
LEMMA WordOf ==
  ASSUME NEW i \in Nat
  PROVE  /\ Word(i) \in Nat /\ Word(i) <= i
         /\ Word(i) * BITS_PER_LONG <= i /\ i < (Word(i) + 1) * BITS_PER_LONG
<1>1. BITS_PER_LONG \in Nat \ {0} BY TableAssumption
<1>2. Word(i) \in Nat /\ Word(i) * BITS_PER_LONG <= i /\ i < (Word(i) + 1) * BITS_PER_LONG BY <1>1 DEF Word
<1>3. Word(i) <= Word(i) * BITS_PER_LONG BY <1>1, <1>2
<1>. QED BY <1>1, <1>2, <1>3

\* A descriptor below word w is in a word below w.
LEMMA WordBelow ==
  ASSUME NEW i \in Nat, NEW w \in Nat
  PROVE  Word(i) < w <=> i < w * BITS_PER_LONG
<1>1. BITS_PER_LONG \in Nat \ {0} BY TableAssumption
<1>2. CASE Word(i) < w
  <2>1. Word(i) + 1 \in Nat /\ Word(i) + 1 <= w /\ i < (Word(i) + 1) * BITS_PER_LONG BY <1>2, WordOf
  <2>2. (Word(i) + 1) * BITS_PER_LONG <= w * BITS_PER_LONG BY <1>1, <2>1, Products
  <2>3. (Word(i) + 1) * BITS_PER_LONG \in Nat /\ w * BITS_PER_LONG \in Nat BY <1>1, <2>1, Products
  <2>. QED BY <1>2, <2>1, <2>2, <2>3
<1>3. CASE w <= Word(i)
  <2>1. Word(i) \in Nat /\ Word(i) * BITS_PER_LONG <= i BY WordOf
  <2>2. /\ w * BITS_PER_LONG <= Word(i) * BITS_PER_LONG
        /\ Word(i) * BITS_PER_LONG \in Nat /\ w * BITS_PER_LONG \in Nat
    BY <1>1, <1>3, <2>1, Products
  <2>. QED BY <1>3, <2>1, <2>2
<1>. QED BY <1>2, <1>3, WordOf

\* A higher descriptor is in no lower word.
LEMMA WordMonotonic ==
  ASSUME NEW i \in Nat, NEW j \in Nat, i <= j
  PROVE  Word(i) <= Word(j)
<1>0. Word(j) \in Nat BY WordOf
<1>1. BITS_PER_LONG \in Nat \ {0} /\ Word(j) + 1 \in Nat BY <1>0, TableAssumption
<1>2. i < (Word(j) + 1) * BITS_PER_LONG BY <1>1, WordOf
<1>3. Word(i) < Word(j) + 1 BY <1>1, <1>2, WordBelow
<1>. QED BY <1>3, WordOf

----------------------------------------------------------------------------
(* Descriptor tables *)

\* find_next_zero_bit() skips set bits only, and stops at a clear one or at
\* the limit.
LEMMA FirstZeroFound ==
  ASSUME NEW bits, NEW from \in Nat, NEW limit \in Nat, from <= limit
  PROVE  LET r == FirstZero(bits, from, limit)
         IN r \in from .. limit /\ (r < limit => r \notin bits) /\ \A i \in from .. r - 1 : i \in bits
<1> DEFINE S == {limit} \cup {i \in from .. limit - 1 : i \notin bits}
           r == Min(S)
<1>1. S \in SUBSET Nat /\ S # {} OBVIOUS
<1>2. r \in S /\ \A m \in S : r <= m
  <2> HIDE DEF S
  <2>. QED BY <1>1, MinOf
<1>3. \A i \in from .. r - 1 : i \in bits BY <1>2
<1>. QED BY <1>2, <1>3 DEF FirstZero

\* The descriptor that alloc_fd() tries is free, and the first one.
LEMMA CandidateFound ==
  ASSUME NEW x \in Table, Sound(x)
  PROVE  LET nr == candidate(x)
         IN /\ nr \in Nat /\ nr \notin x.open
            /\ nr <= sysctl_nr_open => 0 .. nr - 1 \subseteq x.open
<1>1. x.next_fd \in Nat /\ x.max_fds \in Nat /\ 0 .. x.next_fd - 1 \subseteq x.open /\ x.open \subseteq 0 .. x.max_fds - 1
      /\ \A i \in Fds : Word(i) \in x.full => i \in x.open
  BY DEF Table, Sound
<1>2. CASE x.next_fd >= x.max_fds
  <2>1. candidate(x) = x.next_fd BY <1>1, <1>2 DEF candidate
  <2>. QED BY <1>1, <1>2, <2>1
<1>3. CASE x.next_fd < x.max_fds
  <2> DEFINE start == x.next_fd
             w == FirstZero(x.full, Word(start), Word(x.max_fds))
             bitbit == w * BITS_PER_LONG
             from == IF bitbit > start THEN bitbit ELSE start
             nr == FirstZero(x.open, from, x.max_fds)
  <2>1. Word(start) \in Nat /\ Word(x.max_fds) \in Nat /\ Word(start) <= Word(x.max_fds)
    BY <1>1, <1>3, WordOf, WordMonotonic
  <2>2. w \in Word(start) .. Word(x.max_fds) /\ \A k \in Word(start) .. w - 1 : k \in x.full
    BY <2>1, FirstZeroFound
  <2>3. bitbit \in Nat /\ bitbit <= x.max_fds
    <3>1. BITS_PER_LONG \in Nat /\ w \in Nat /\ w <= Word(x.max_fds) BY <2>1, <2>2, TableAssumption
    <3>2. w * BITS_PER_LONG <= Word(x.max_fds) * BITS_PER_LONG BY <2>1, <3>1
    <3>3. Word(x.max_fds) * BITS_PER_LONG <= x.max_fds BY <1>1, WordOf
    <3>. QED BY <1>1, <2>1, <3>1, <3>2, <3>3
  <2>4. from \in Nat /\ from <= x.max_fds BY <1>1, <1>3, <2>3
  <2>5. nr \in from .. x.max_fds /\ (nr < x.max_fds => nr \notin x.open) /\ \A i \in from .. nr - 1 : i \in x.open
    BY <1>1, <2>4, FirstZeroFound
  <2>6. candidate(x) = nr BY <1>1, <1>3, <2>3 DEF candidate, find_next_fd
  <2>7. ASSUME NEW i \in 0 .. nr - 1, nr <= sysctl_nr_open PROVE i \in x.open
    <3>1. CASE i < start BY <1>1, <3>1
    <3>2. CASE start <= i /\ i < bitbit
      <4>1. i \in Nat /\ w \in Nat /\ i \in Fds BY <1>1, <2>1, <2>2, <2>5, <2>7, TableAssumption DEF Fds
      <4>2. Word(i) < w /\ Word(start) <= Word(i) BY <1>1, <3>2, <4>1, WordBelow, WordMonotonic
      <4>3. Word(i) \in x.full BY <2>1, <2>2, <4>1, <4>2, WordOf
      <4>. QED BY <1>1, <4>1, <4>3
    <3>3. CASE from <= i BY <2>4, <2>5, <2>7, <3>3
    <3>. QED BY <1>1, <2>3, <2>4, <2>5, <2>7, <3>1, <3>2, <3>3
  <2>8. nr \notin x.open BY <1>1, <2>4, <2>5
  <2>. QED BY <2>4, <2>5, <2>6, <2>7, <2>8
<1>. QED BY <1>1, <1>2, <1>3

\* Two tables that differ in their bitmaps and slots only.
SameShape(x, y) == x.count = y.count /\ x.max_fds = y.max_fds /\ x.resizing = y.resizing

\* __set_open_fd() sets the bit of a full word only if the word is full.
LEMMA SetOpen ==
  ASSUME NEW x \in Table, NEW i \in Fds, i < x.max_fds,
         x.open \subseteq 0 .. x.max_fds - 1, 0 .. x.next_fd - 1 \subseteq x.open \cup {i},
         \A j \in Fds : (Word(j) \in x.full => j \in x.open) /\ (x.fd[j] # NULL => j \in x.open \cup {i})
  PROVE  LET y == __set_open_fd(x, i)
         IN y \in Table /\ Sound(y) /\ SameShape(x, y) /\ y.open = x.open \cup {i} /\ y.fd = x.fd
<1> DEFINE y == __set_open_fd(x, i)
<1>0. i \in Nat /\ Word(i) \in Nat BY WordOf, TableAssumption DEF Fds
<1>1. /\ y.open = x.open \cup {i} /\ y.fd = x.fd /\ y.max_fds = x.max_fds /\ y.next_fd = x.next_fd
      /\ y.full = IF InWord(Word(i)) \subseteq x.open \cup {i} THEN x.full \cup {Word(i)} ELSE x.full
      /\ SameShape(x, y)
  BY DEF __set_open_fd, Table, SameShape
<1>2. y \in Table BY <1>0 DEF __set_open_fd, Table
<1>3. \A j \in Fds : Word(j) \in y.full => j \in y.open BY <1>1 DEF InWord
<1>4. Sound(y) BY <1>0, <1>1, <1>3 DEF Sound, Table
<1>. QED BY <1>1, <1>2, <1>4

\* alloc_fd() takes the first free descriptor.
LEMMA TakeFd ==
  ASSUME NEW x \in Table, Sound(x), candidate(x) < NOFILE, candidate(x) < x.max_fds, NEW on \in BOOLEAN
  PROVE  LET nr == candidate(x)
             y == take_fd(x, nr, on)
         IN /\ nr \in Fds /\ nr \notin x.open
            /\ y \in Table /\ Sound(y) /\ SameShape(x, y) /\ y.open = x.open \cup {nr} /\ y.fd = x.fd
<1> DEFINE nr == candidate(x)
           z == [x EXCEPT !.next_fd = nr + 1, !.fd[nr] = NULL]
           u == __set_open_fd(z, nr)
<1>1. nr \in Nat /\ nr \notin x.open /\ nr \in Fds /\ 0 .. nr - 1 \subseteq x.open
  <2>1. nr \in Nat /\ nr \notin x.open /\ (nr <= sysctl_nr_open => 0 .. nr - 1 \subseteq x.open) BY CandidateFound
  <2>. QED BY <2>1, TableAssumption DEF Fds
<1>2. nr < x.max_fds OBVIOUS
<1> HIDE DEF nr
<1>3. x.fd[nr] = NULL BY <1>1 DEF Sound
<1>4. z \in Table /\ z.fd = x.fd /\ z.open = x.open /\ z.full = x.full /\ z.next_fd = nr + 1 /\ SameShape(x, z)
  <2>1. x.fd \in [Fds -> Files \cup {NULL}] BY DEF Table
  <2>2. [x.fd EXCEPT ![nr] = NULL] = x.fd BY <1>1, <1>3, <2>1
  <2>3. z.fd = [x.fd EXCEPT ![nr] = NULL] BY DEF Table
  <2>4. z.open = x.open /\ z.full = x.full /\ z.next_fd = nr + 1 /\ SameShape(x, z) BY DEF Table, SameShape
  <2>5. z \in Table
    <3>1. nr + 1 \in Nat BY <1>1
    <3>2. z = [x EXCEPT !.next_fd = nr + 1, !.fd = x.fd] BY <2>2 DEF Table
    <3>. QED BY <2>1, <3>1, <3>2 DEF Table
  <2>. QED BY <2>2, <2>3, <2>4, <2>5
<1>5. u \in Table /\ Sound(u) /\ SameShape(x, u) /\ u.open = x.open \cup {nr} /\ u.fd = x.fd
  <2>1. z.max_fds = x.max_fds /\ z.open \subseteq 0 .. z.max_fds - 1
        /\ \A j \in Fds : (Word(j) \in z.full => j \in z.open) /\ (z.fd[j] # NULL => j \in z.open \cup {nr})
    BY <1>4 DEF Sound, SameShape
  <2>2. 0 .. z.next_fd - 1 \subseteq z.open \cup {nr} BY <1>1, <1>4
  <2> HIDE DEF z
  <2>. QED BY <1>1, <1>2, <1>4, <2>1, <2>2, SetOpen DEF SameShape
<1>6. take_fd(x, nr, on) = [u EXCEPT !.cloexec = IF on THEN @ \cup {nr} ELSE @ \ {nr}]
  BY DEF take_fd, __set_close_on_exec
<1> HIDE DEF u
<1>7. LET y == take_fd(x, nr, on) IN y \in Table /\ Sound(y) /\ SameShape(u, y) /\ y.open = u.open /\ y.fd = u.fd
  BY <1>1, <1>5, <1>6 DEF Table, Sound, SameShape
<1>. QED BY <1>1, <1>5, <1>7 DEF nr, SameShape

\* __put_unused_fd() after the slot was emptied.
LEMMA PutUnused ==
  ASSUME NEW x \in Table, Sound(x), NEW i \in Fds,
         NEW z \in Table, SameShape(x, z), z.open = x.open, z.full = x.full, z.next_fd = x.next_fd,
         z.fd = [x.fd EXCEPT ![i] = NULL]
  PROVE  LET y == __put_unused_fd(z, i)
         IN y \in Table /\ Sound(y) /\ SameShape(x, y) /\ y.open = x.open \ {i} /\ y.fd = z.fd
<1> DEFINE y == __put_unused_fd(z, i)
<1>1. /\ y.open = x.open \ {i} /\ y.fd = z.fd /\ y.full = x.full \ {Word(i)}
      /\ y.next_fd = (IF i < x.next_fd THEN i ELSE x.next_fd) /\ SameShape(x, y)
  BY DEF __put_unused_fd, __clear_open_fd, Table, SameShape
<1>2. i \in Nat BY DEF Fds
<1>3. y \in Table BY <1>2 DEF __put_unused_fd, __clear_open_fd, Table
<1>4. y.open \subseteq 0 .. y.max_fds - 1 /\ 0 .. y.next_fd - 1 \subseteq y.open
  BY <1>1, <1>2 DEF Sound, SameShape, Table
<1>5. \A j \in Fds : (Word(j) \in y.full => j \in y.open) /\ (y.fd[j] # NULL => j \in y.open)
  BY <1>1 DEF Sound, Table
<1>. QED BY <1>1, <1>3, <1>4, <1>5 DEF Sound

\* do_dup2() puts a file into a descriptor that fits.
LEMMA PutFile ==
  ASSUME NEW x \in Table, Sound(x), NEW i \in Fds, i < x.max_fds, NEW f \in Files
  PROVE  LET y == __set_close_on_exec(__set_open_fd([x EXCEPT !.fd[i] = f], i), i, FALSE)
         IN /\ y \in Table /\ Sound(y) /\ SameShape(x, y) /\ y.open = x.open \cup {i}
            /\ y.fd = [x.fd EXCEPT ![i] = f]
<1> DEFINE z == [x EXCEPT !.fd[i] = f]
           u == __set_open_fd(z, i)
<1>1. z \in Table /\ z.fd = [x.fd EXCEPT ![i] = f] /\ z.open = x.open /\ z.full = x.full
      /\ z.next_fd = x.next_fd /\ SameShape(x, z)
  BY DEF Table, SameShape
<1>2. u \in Table /\ Sound(u) /\ SameShape(x, u) /\ u.open = x.open \cup {i} /\ u.fd = z.fd
  <2>1. z.max_fds = x.max_fds /\ z.open \subseteq 0 .. z.max_fds - 1 /\ 0 .. z.next_fd - 1 \subseteq z.open \cup {i}
        /\ \A j \in Fds : (Word(j) \in z.full => j \in z.open) /\ (z.fd[j] # NULL => j \in z.open \cup {i})
    BY <1>1 DEF Sound, SameShape, Table
  <2>2. i < z.max_fds /\ z \in Table BY <1>1, <2>1
  <2> HIDE DEF z
  <2>3. u \in Table /\ Sound(u) /\ SameShape(z, u) /\ u.open = z.open \cup {i} /\ u.fd = z.fd
    BY <2>1, <2>2, SetOpen
  <2>. QED BY <1>1, <2>3 DEF SameShape
<1> HIDE DEF u
<1>. QED BY <1>1, <1>2 DEF __set_close_on_exec, Table, Sound, SameShape, u

\* A table that has just been allocated.
LEMMA NewTableOK ==
  /\ NewTable \in Table /\ Sound(NewTable) /\ NewTable.count = 1 /\ ~NewTable.resizing
  /\ \A i \in Fds : NewTable.fd[i] = NULL /\ ~Reserved(NewTable, i)
  /\ NoTable \in Table /\ Sound(NoTable) /\ NoTable.count = 0 /\ \A i \in Fds : NoTable.fd[i] = NULL
<1>1. NewTable \in Table /\ NoTable \in Table BY TableAssumption DEF NewTable, NoTable, Table, NR_OPEN_DEFAULT
<1>2. Sound(NewTable) /\ Sound(NoTable) BY DEF NewTable, NoTable, Sound
<1>. QED BY <1>1, <1>2 DEF NewTable, NoTable, Reserved

\* dup_fd() copies a table with all its files, without what is reserved.
LEMMA CopyTable ==
  ASSUME NEW x \in Table, Sound(x), NEW max \in Nat, count_open_files(x) <= max
  PROVE  LET y == copy_table(x, max, count_open_files(x))
         IN /\ y \in Table /\ Sound(y) /\ y.fd = x.fd /\ y.count = 1 /\ ~y.resizing
            /\ \A i \in Fds : ~Reserved(y, i)
<1> DEFINE n == count_open_files(x)
           y == copy_table(x, max, n)
           W == {0} \cup {Word(i) : i \in x.open}
<1>0. x.max_fds \in Nat /\ x.open \subseteq Nat /\ \A i \in x.open : i < x.max_fds BY DEF Table, Sound
<1>1. Max(W) \in W /\ \A k \in W : k <= Max(W)
  <2>1. W \in SUBSET (0 .. x.max_fds) /\ W # {} BY <1>0, WordOf
  <2> HIDE DEF W
  <2>. QED BY <1>0, <2>1, MaxOf
<1>2. Max(W) \in Nat BY <1>0, <1>1, WordOf
<1>3. n = (Max(W) + 1) * BITS_PER_LONG /\ n \in Nat BY <1>2, TableAssumption DEF count_open_files
<1>4. \A i \in x.open : i < n
  <2> SUFFICES ASSUME NEW i \in x.open PROVE i < n OBVIOUS
  <2>1. Word(i) <= Max(W) /\ Word(i) \in Nat BY <1>0, <1>1, WordOf
  <2>2. Word(i) < Max(W) + 1 /\ Max(W) + 1 \in Nat BY <1>2, <2>1
  <2> HIDE DEF W, n
  <2>. QED BY <1>0, <1>3, <2>2, WordBelow
<1> HIDE DEF n, W
<1>5. /\ y.open = {i \in x.open : i < n /\ i \notin {j \in x.open : x.fd[j] = NULL}}
      /\ y.full = {w \in x.full : w < Word(n) /\ \A i \in {j \in x.open : x.fd[j] = NULL} : Word(i) # w}
      /\ y.fd = [i \in Fds |-> IF i < n THEN x.fd[i] ELSE NULL]
      /\ y.max_fds = max /\ y.next_fd = 0 /\ y.count = 1 /\ y.resizing = FALSE
  BY DEF copy_table, NewTable
<1>6. y.fd = x.fd
  <2>1. \A i \in Fds : ~(i < n) => x.fd[i] = NULL BY <1>4 DEF Sound
  <2>. QED BY <1>5, <2>1 DEF Table
<1>7. y \in Table
  <2> DEFINE r == {j \in x.open : x.fd[j] = NULL}
             F == [i \in Fds |-> IF i < n THEN x.fd[i] ELSE NULL]
             O == {i \in x.open : i < n /\ i \notin r}
             U == {w \in x.full : w < Word(n) /\ \A i \in r : Word(i) # w}
             C == {i \in x.cloexec : i < n}
  <2>1. y = [NewTable EXCEPT !.max_fds = max, !.fd = F, !.open = O, !.full = U, !.cloexec = C]
    BY DEF copy_table
  <2>2. F \in [Fds -> Files \cup {NULL}] /\ O \in SUBSET Fds /\ U \in SUBSET Nat /\ C \in SUBSET Fds BY DEF Table
  <2> HIDE DEF y, r, F, O, U, C
  <2>. QED BY <2>1, <2>2, NewTableOK DEF Table
<1> HIDE DEF y
<1>8. \A i \in Fds : (x.fd[i] # NULL => i \in y.open) /\ (i \in y.open => x.fd[i] # NULL)
  BY <1>4, <1>5 DEF Sound
<1>9. y.open \subseteq 0 .. y.max_fds - 1
  <2>1. n <= max BY DEF n
  <2>. QED BY <1>0, <1>3, <1>5, <2>1
<1>10. 0 .. y.next_fd - 1 \subseteq y.open BY <1>5
<1>11. \A i \in Fds : Word(i) \in y.full => i \in y.open
  <2> SUFFICES ASSUME NEW i \in Fds, Word(i) \in y.full PROVE i \in y.open OBVIOUS
  <2>1. i \in x.open BY <1>5 DEF Sound
  <2>2. x.fd[i] # NULL BY <1>5, <2>1
  <2>. QED BY <1>8, <2>2
<1>12. Sound(y) BY <1>6, <1>8, <1>9, <1>10, <1>11 DEF Sound
<1>. QED BY <1>5, <1>6, <1>7, <1>8, <1>12 DEF y, n, Reserved

\* The size that alloc_fdtable() comes to.
LEMMA AllocSize == ASSUME NEW nr \in Nat PROVE alloc_fdtable(nr) \in Nat
<1> DEFINE sizes == {BITS_PER_LONG * 2^k : k \in 0 .. nr}
           big == {s \in sizes : s > nr}
<1>1. BITS_PER_LONG \in Nat \ {0} /\ sysctl_nr_open \in Nat \ {0} BY TableAssumption
<1>2. \A k \in 0 .. nr : 2^k \in Nat BY PowerAbove
<1>3. big \in SUBSET Nat
  <2>1. \A k \in 0 .. nr : BITS_PER_LONG * 2^k \in Nat BY <1>1, <1>2
  <2>. QED BY <2>1
<1>4. BITS_PER_LONG * 2^nr \in big
  <2>1. 2^nr \in Nat /\ 2^nr > nr BY PowerAbove
  <2>2. BITS_PER_LONG * 2^nr >= 2^nr BY <1>1, <2>1
  <2>3. BITS_PER_LONG * 2^nr \in Nat /\ BITS_PER_LONG * 2^nr > nr BY <1>1, <2>1, <2>2
  <2>. QED BY <2>3
<1>5. Min(big) \in Nat
  <2> HIDE DEF big
  <2>. QED BY <1>3, <1>4, MinOf
<1>6. ((sysctl_nr_open - 1) \div BITS_PER_LONG + 1) * BITS_PER_LONG \in Nat
  <2>1. (sysctl_nr_open - 1) \div BITS_PER_LONG \in Nat BY <1>1
  <2>. QED BY <1>1, <2>1
<1>. QED BY <1>5, <1>6 DEF alloc_fdtable

----------------------------------------------------------------------------
(* Works *)

\* The lists of files to be closed are those of the tasks and the common one;
\* a step changes the lists of the task that takes it.
WorksKept(t) ==
  /\ alloc' \subseteq Files /\ f_count' \in [Files -> Nat]
  /\ task_works' \in [Tasks -> Seq(Files)] /\ todo' \in [Tasks -> Seq(Files)]
  /\ delayed_fput_list' \in Seq(Files)
  /\ work_exited' \subseteq Tasks /\ pending' \in BOOLEAN
  /\ \A u \in Tasks \ {t} : task_works'[u] = task_works[u] /\ todo'[u] = todo[u]

\* fput() drops one reference, if there is one, and touches no other count.
LEMMA FputWorks ==
  ASSUME TypeOK, NEW t \in Tasks, NEW f \in Files, NEW refs \in [Files -> Nat], fput(t, f, refs)
  PROVE  /\ WorksKept(t)
         /\ f_count'[f] = IF refs[f] = 0 THEN 0 ELSE refs[f] - 1
         /\ \A g \in Files \ {f} : f_count'[g] = refs[g]
<1>1. /\ f_count' \in [Files -> Nat] /\ f_count'[f] = (IF refs[f] = 0 THEN 0 ELSE refs[f] - 1)
      /\ \A g \in Files \ {f} : f_count'[g] = refs[g]
  BY DEF fput
<1>2. work_exited' \subseteq Tasks /\ alloc' \subseteq Files BY DEF fput, TypeOK
<1>3. CASE refs[f] # 1 BY <1>1, <1>2, <1>3 DEF fput, TypeOK, WorksKept
<1>4. CASE refs[f] = 1
  <2>1. fput_zero(t, f) BY <1>4 DEF fput
  <2>2. <<f>> \in Seq(Files) /\ <<f>> \o delayed_fput_list \in Seq(Files) /\ <<f>> \o task_works[t] \in Seq(Files)
    BY DEF TypeOK
  <2>3. CASE CanAddWork(t) BY <1>1, <1>2, <2>1, <2>2, <2>3 DEF fput_zero, WorksKept, TypeOK
  <2>4. CASE ~CanAddWork(t) BY <1>1, <1>2, <2>1, <2>2, <2>4 DEF fput_zero, schedule_delayed_work, WorksKept, TypeOK
  <2>. QED BY <2>3, <2>4
<1>. QED BY <1>1, <1>3, <1>4

\* The same for a step that leaves the lists alone.
LEMMA NoWorks ==
  ASSUME TypeOK, NEW t \in Tasks, keepWorks, f_count' \in [Files -> Nat]
  PROVE  WorksKept(t)
BY DEF keepWorks, TypeOK, WorksKept

\* And for one that allocates a file.
LEMMA NewWorks ==
  ASSUME TypeOK, NEW t \in Tasks, NEW f \in Files, get_empty_file(f)
  PROVE  WorksKept(t)
BY DEF get_empty_file, alloc_empty_file, TypeOK, WorksKept

----------------------------------------------------------------------------
(* References *)

One(p) == IF p THEN 1 ELSE 0

\* The task holds a reference to f.
Holds(l, f) == l.file = f /\ l.op # "light"

\* What the task holds of f, and what a slot with a does.
Hand(l, f) == One(Holds(l, f))
Slot(a, f) == One(a = f)

\* The references to a file are finitely many.
LEMMA RefsFinite ==
  ASSUME NEW f
  PROVE  /\ IsFiniteSet(InHand(f)) /\ IsFiniteSet(InSlots(f))
         /\ Cardinality(InHand(f)) \in Nat /\ Cardinality(InSlots(f)) \in Nat
         /\ Refs(f) \in Nat /\ Refs(f)' \in Nat
<1>1. IsFiniteSet(Structs \X Fds)
  <2>1. IsFiniteSet(Fds) BY TableAssumption, FS_Interval DEF Fds
  <2>. QED BY <2>1, FilesAssumption, FS_Product
<1>2. \A S \in SUBSET Tasks : IsFiniteSet(S) /\ Cardinality(S) \in Nat
  BY FilesAssumption, FS_Subset, FS_CardinalityType
<1>3. \A S \in SUBSET (Structs \X Fds) : IsFiniteSet(S) /\ Cardinality(S) \in Nat
  BY <1>1, FS_Subset, FS_CardinalityType
<1>4. InHand(f) \in SUBSET Tasks /\ InHand(f)' \in SUBSET Tasks BY DEF InHand
<1>5. InSlots(f) \in SUBSET (Structs \X Fds) /\ InSlots(f)' \in SUBSET (Structs \X Fds) BY DEF InSlots
<1>. QED BY <1>2, <1>3, <1>4, <1>5 DEF Refs

\* The references to f after a step in which a task that held l0 holds l1, and
\* a slot with a gets b.
Moved(f, l0, l1, a, b) == Refs(f)' = Refs(f) - Hand(l0, f) + Hand(l1, f) - Slot(a, f) + Slot(b, f)

\* A set gains or loses x.
LEMMA OneMore ==
  ASSUME NEW S, IsFiniteSet(S), NEW x
  PROVE  /\ Cardinality(S \cup {x}) = Cardinality(S) - One(x \in S) + 1
         /\ Cardinality(S \ {x}) = Cardinality(S) - One(x \in S) + 0
<1>1. Cardinality(S) \in Nat BY FS_CardinalityType
<1>2. CASE x \in S BY <1>1, <1>2, FS_AddElement, FS_RemoveElement DEF One, Hand, Slot
<1>3. CASE x \notin S BY <1>1, <1>3, FS_AddElement, FS_RemoveElement DEF One, Hand, Slot
<1>. QED BY <1>2, <1>3

\* A step of task t changes what it has in hand.
LEMMA HandStep ==
  ASSUME loc \in [Tasks -> Locals], NEW t \in Tasks, NEW l, loc' = [loc EXCEPT ![t] = l], NEW f
  PROVE  Cardinality(InHand(f)') = Cardinality(InHand(f)) - Hand(loc[t], f) + Hand(l, f)
<1>1. InHand(f)' = IF Holds(l, f) THEN InHand(f) \cup {t} ELSE InHand(f) \ {t} BY DEF InHand, Holds
<1>2. Holds(loc[t], f) <=> t \in InHand(f) BY DEF InHand, Holds
<1>3. IsFiniteSet(InHand(f)) BY RefsFinite
<1>4. Hand(loc[t], f) = One(t \in InHand(f)) BY <1>2 DEF One, Hand, Slot
<1>5. CASE Holds(l, f)
  <2>1. InHand(f)' = InHand(f) \cup {t} /\ Hand(l, f) = 1 BY <1>1, <1>5 DEF One, Hand, Slot
  <2>. QED BY <1>3, <1>4, <2>1, OneMore
<1>6. CASE ~(Holds(l, f))
  <2>1. InHand(f)' = InHand(f) \ {t} /\ Hand(l, f) = 0 BY <1>1, <1>6 DEF One, Hand, Slot
  <2>. QED BY <1>3, <1>4, <2>1, OneMore
<1>. QED BY <1>5, <1>6

\* Slot i of table s becomes b, the others stay, or all stay.
SlotBecomes(s, i, b) ==
  \A u \in Structs, j \in Fds : tab'[u].fd[j] = IF u = s /\ j = i THEN b ELSE tab[u].fd[j]

SlotsSame == \A u \in Structs, j \in Fds : tab'[u].fd[j] = tab[u].fd[j]

\* A step changes slot i of table s.
LEMMA SlotStep ==
  ASSUME NEW s \in Structs, NEW i \in Fds, NEW b,
         SlotBecomes(s, i, b),
         NEW f
  PROVE  Cardinality(InSlots(f)') = Cardinality(InSlots(f)) - Slot(tab[s].fd[i], f) + Slot(b, f)
<1>1. InSlots(f)' = IF b = f THEN InSlots(f) \cup {<<s, i>>} ELSE InSlots(f) \ {<<s, i>>} BY DEF InSlots, SlotBecomes
<1>2. tab[s].fd[i] = f <=> <<s, i>> \in InSlots(f) BY DEF InSlots
<1>3. IsFiniteSet(InSlots(f)) BY RefsFinite
<1>4. Slot(tab[s].fd[i], f) = One(<<s, i>> \in InSlots(f)) BY <1>2 DEF One, Hand, Slot
<1> DEFINE p == <<s, i>>
<1>5. /\ Cardinality(InSlots(f) \cup {p}) = Cardinality(InSlots(f)) - One(p \in InSlots(f)) + 1
      /\ Cardinality(InSlots(f) \ {p}) = Cardinality(InSlots(f)) - One(p \in InSlots(f)) + 0
  <2> HIDE DEF p
  <2>. QED BY <1>3, OneMore
<1>6. CASE b = f
  <2>1. InSlots(f)' = InSlots(f) \cup {<<s, i>>} /\ Slot(b, f) = 1 BY <1>1, <1>6 DEF One, Hand, Slot
  <2>. QED BY <1>4, <1>5, <2>1, Zenon
<1>7. CASE ~(b = f)
  <2>1. InSlots(f)' = InSlots(f) \ {<<s, i>>} /\ Slot(b, f) = 0 BY <1>1, <1>7 DEF One, Hand, Slot
  <2>. QED BY <1>4, <1>5, <2>1, Zenon
<1>. QED BY <1>6, <1>7

\* Both at once.
LEMMA Balance ==
  ASSUME loc \in [Tasks -> Locals], NEW t \in Tasks, NEW l, loc' = [loc EXCEPT ![t] = l],
         NEW s \in Structs, NEW i \in Fds, NEW b,
         SlotBecomes(s, i, b),
         NEW f
  PROVE  Moved(f, loc[t], l, tab[s].fd[i], b)
<1> DEFINE h == Cardinality(InHand(f))
           k == Cardinality(InSlots(f))
           h0 == Hand(loc[t], f)
           h1 == Hand(l, f)
           k0 == Slot(tab[s].fd[i], f)
           k1 == Slot(b, f)
<1>1. Cardinality(InHand(f)') = h - h0 + h1 BY HandStep
<1>2. Cardinality(InSlots(f)') = k - k0 + k1 BY SlotStep
<1>3. h \in Nat /\ k \in Nat BY RefsFinite
<1>4. h0 \in Nat /\ h1 \in Nat /\ k0 \in Nat /\ k1 \in Nat BY DEF One, Hand, Slot
<1>5. Refs(f)' = (h - h0 + h1) + (k - k0 + k1) /\ Refs(f) = h + k BY <1>1, <1>2 DEF Refs
<1> HIDE DEF h, k, h0, h1, k0, k1
<1>6. Refs(f)' = Refs(f) - h0 + h1 - k0 + k1 BY <1>3, <1>4, <1>5
<1>. QED BY <1>6 DEF h0, h1, k0, k1, Moved

\* The same for a step that changes what a task has in hand and no slot.
LEMMA HandBalance ==
  ASSUME loc \in [Tasks -> Locals], NEW t \in Tasks, NEW l, loc' = [loc EXCEPT ![t] = l],
         SlotsSame,
         NEW f
  PROVE  Refs(f)' = Refs(f) - Hand(loc[t], f) + Hand(l, f)
<1> DEFINE h == Cardinality(InHand(f))
           k == Cardinality(InSlots(f))
           h0 == Hand(loc[t], f)
           h1 == Hand(l, f)
<1>1. Cardinality(InHand(f)') = h - h0 + h1 BY HandStep
<1>2. InSlots(f)' = InSlots(f) BY DEF InSlots, SlotsSame
<1>3. h \in Nat /\ k \in Nat BY RefsFinite
<1>4. h0 \in Nat /\ h1 \in Nat BY DEF One, Hand, Slot
<1>5. Refs(f)' = (h - h0 + h1) + k /\ Refs(f) = h + k BY <1>1, <1>2 DEF Refs
<1> HIDE DEF h, k, h0, h1
<1>6. Refs(f)' = Refs(f) - h0 + h1 BY <1>3, <1>4, <1>5
<1>. QED BY <1>6 DEF h0, h1

\* The counts follow when references are taken ...
LEMMA RefsTaken ==
  ASSUME TypeOK, RefsOK, short \subseteq short', NEW refs \in [Files -> Nat], f_count' = refs,
         \A f \in Files : Refs(f)' = Refs(f) + (refs[f] - f_count[f])
  PROVE  RefsOK'
<1> SUFFICES ASSUME NEW f \in Files
             PROVE  refs[f] <= Refs(f)' /\ (f \notin short' => refs[f] = Refs(f)')
  BY DEF RefsOK
<1>1. f_count[f] \in Nat /\ Refs(f) \in Nat /\ refs[f] \in Nat BY RefsFinite DEF TypeOK
<1>2. f_count[f] <= Refs(f) /\ (f \notin short' => f_count[f] = Refs(f)) BY DEF RefsOK
<1>3. Refs(f)' = Refs(f) + (refs[f] - f_count[f]) OBVIOUS
<1>. QED BY <1>1, <1>2, <1>3

\* ... and when one is dropped that was taken, or the file is short of it.
LEMMA RefsDropped ==
  ASSUME TypeOK, RefsOK, short \subseteq short', NEW t \in Tasks, NEW g \in Files, NEW refs \in [Files -> Nat], fput(t, g, refs),
         \A f \in Files :
           /\ Refs(f)' >= Refs(f) + (refs[f] - f_count[f]) - Slot(f, g)
           /\ f \notin short' => Refs(f)' = Refs(f) + (refs[f] - f_count[f]) - Slot(f, g)
  PROVE  RefsOK'
<1> SUFFICES ASSUME NEW f \in Files
             PROVE  f_count'[f] <= Refs(f)' /\ (f \notin short' => f_count'[f] = Refs(f)')
  BY DEF RefsOK
<1>1. f_count[f] \in Nat /\ Refs(f) \in Nat /\ Refs(f)' \in Nat /\ refs[f] \in Nat BY RefsFinite DEF TypeOK
<1>2. f_count[f] <= Refs(f) /\ (f \notin short' => f_count[f] = Refs(f)) BY DEF RefsOK
<1>3. /\ Refs(f)' >= Refs(f) + (refs[f] - f_count[f]) - Slot(f, g)
      /\ f \notin short' => Refs(f)' = Refs(f) + (refs[f] - f_count[f]) - Slot(f, g)
  OBVIOUS
<1>4. CASE f = g
  <2>1. f_count'[f] = IF refs[f] = 0 THEN 0 ELSE refs[f] - 1 BY <1>4, FputWorks
  <2>2. Slot(f, g) = 1 BY <1>4 DEF One, Hand, Slot
  <2>. QED BY <1>1, <1>2, <1>3, <2>1, <2>2
<1>5. CASE f # g
  <2>1. f_count'[f] = refs[f] BY <1>5, FputWorks
  <2>2. Slot(f, g) = 0 BY <1>5 DEF One, Hand, Slot
  <2>. QED BY <1>1, <1>2, <1>3, <2>1, <2>2
<1>. QED BY <1>4, <1>5

\* The count of a new file, which is one short if its address was kept.
LEMMA NewRefs ==
  ASSUME TypeOK, RefsOK, Queues, NEW g \in Files, get_empty_file(g),
         \A f \in Files : Refs(f)' = Refs(f) + Slot(g, f)
  PROVE  RefsOK'
<1>1. /\ g \notin alloc /\ f_count' = [f_count EXCEPT ![g] = 1]
      /\ short' = IF Named(g) THEN short ELSE short \ {g}
  BY DEF get_empty_file, alloc_empty_file
<1> SUFFICES ASSUME NEW f \in Files
             PROVE  f_count'[f] <= Refs(f)' /\ (f \notin short' => f_count'[f] = Refs(f)')
  BY DEF RefsOK
<1>2. f_count[f] \in Nat /\ Refs(f) \in Nat BY RefsFinite DEF TypeOK
<1>3. f_count[f] <= Refs(f) /\ (f \notin short => f_count[f] = Refs(f)) BY DEF RefsOK
<1>4. Refs(f)' = Refs(f) + Slot(g, f) OBVIOUS
<1>5. CASE f # g
  <2>1. Slot(g, f) = 0 /\ f_count'[f] = f_count[f] BY <1>1, <1>5 DEF TypeOK, Slot, One
  <2>2. f \notin short' => f \notin short BY <1>1, <1>5
  <2>. QED BY <1>2, <1>3, <1>4, <2>1, <2>2
<1>6. CASE f = g
  <2>1. Slot(g, f) = 1 /\ f_count'[f] = 1 BY <1>1, <1>6 DEF TypeOK, Slot, One
  <2>2. CASE f \notin short
    <3>1. f_count[f] = 0 BY <1>1, <1>6, <2>2 DEF Queues, Waits
    <3>. QED BY <1>2, <1>3, <1>4, <2>1, <2>2, <3>1
  <2>3. CASE ~Named(f)
    <3>1. InHand(f) = {} /\ InSlots(f) = {} BY <2>3 DEF Named, InHand, InSlots
    <3>2. Cardinality(InHand(f)) = 0 /\ Cardinality(InSlots(f)) = 0 BY <3>1, FS_EmptySet
    <3>3. Refs(f) = 0 BY <3>2 DEF Refs
    <3>. QED BY <1>4, <2>1, <3>3
  <2>4. f \notin short' => f \notin short \/ ~Named(f) BY <1>1, <1>6
  <2>. QED BY <1>2, <1>4, <2>1, <2>2, <2>3, <2>4
<1>. QED BY <1>5, <1>6

----------------------------------------------------------------------------
(* Steps *)

\* What the steps keep apart from the counts of references.
Frame ==
  /\ TypeOK /\ (\A s \in Structs : Sound(tab[s])) /\ Placed /\ Parents /\ Private /\ Counted /\ Empty
  /\ Promised /\ OneResizes /\ Gone

\* A table that a task has is counted.
LEMMA TableUsed ==
  ASSUME IInv, NEW t \in Tasks, tfiles[t] \in Structs
  PROVE  T(t) \in Table /\ Sound(T(t)) /\ T(t).count > 0 /\ T(t) = tab[tfiles[t]]
<1>1. T(t) \in Table /\ Sound(T(t)) /\ T(t) = tab[tfiles[t]] BY DEF IInv, TypeOK, T
<1>2. t \in Users(tfiles[t]) /\ Users(tfiles[t]) \in SUBSET Tasks BY DEF Users
<1>3. IsFiniteSet(Users(tfiles[t])) BY <1>2, FilesAssumption, FS_Subset
<1>4. Cardinality(Users(tfiles[t])) \in Nat /\ Cardinality(Users(tfiles[t])) # 0
  BY <1>2, <1>3, FS_CardinalityType, FS_EmptySet
<1>. QED BY <1>1, <1>4 DEF IInv, Counted

\* A task in a system call on descriptors puts the table y in the place of its
\* own: what y reserves and whether it is being resized must agree with where
\* the task came from and where it goes.
Busy == {"user", "leave", "resize", "resize_wait", "install", "use", "exec"}

Replaces(t, y, where, l) ==
  /\ pc[t] \in Busy /\ where \in Busy
  /\ y \in Table /\ Sound(y) /\ y.count = T(t).count
  /\ l \in Locals /\ PlaceOK(t, tfiles[t], where, l)
  /\ \A i \in Fds :
       Reserved(y, i) <=> (Reserved(T(t), i) /\ ~(pc[t] = "install" /\ loc[t].fd = i))
                          \/ (where = "install" /\ l.fd = i)
  /\ where = "install" => ~Reserved(T(t), l.fd)
  /\ y.resizing <=> (T(t).resizing /\ pc[t] # "resize") \/ where = "resize"
  /\ where = "resize" => y.max_fds <= l.fd /\ (T(t).resizing => pc[t] = "resize")
  /\ pc[t] # "resize" => y.max_fds = T(t).max_fds

\* A task replaces its table and goes on elsewhere: all of the invariant but
\* the references is kept.
LEMMA TableStep ==
  ASSUME IInv, NEW t \in Tasks \ KThreads, NEW y, NEW where, NEW l, Replaces(t, y, where, l),
         put_table(t, y), UNCHANGED tfiles, WorksKept(t), go(t, where, l)
  PROVE  Frame'
<1> USE DEF Replaces, put_table, go
<1>1. PICK s \in Structs : tfiles[t] = s BY DEF IInv, Placed, PlaceOK, Busy, WithTable
<1>2. T(t) \in Table /\ T(t).count > 0 /\ T(t) = tab[s] BY <1>1, TableUsed
<1>3. /\ tab' \in [Structs -> Table] /\ tab'[s] = y /\ \A u \in Structs \ {s} : tab'[u] = tab[u]
      /\ pc' \in [Tasks -> Location] /\ pc'[t] = where /\ \A u \in Tasks \ {t} : pc'[u] = pc[u]
      /\ loc' \in [Tasks -> Locals] /\ loc'[t] = l /\ \A u \in Tasks \ {t} : loc'[u] = loc[u]
      /\ tfiles' = tfiles /\ tfiles \in [Tasks -> Structs \cup {NULL}]
  BY <1>1 DEF IInv, TypeOK, Busy, Location
<1>4. TypeOK' BY <1>3 DEF IInv, TypeOK, WorksKept
<1>5. \A u \in Structs : Sound(tab'[u]) BY <1>3 DEF IInv
<1>6. Placed' BY <1>3 DEF IInv, Placed
<1>7. l.files \notin Structs /\ l.child \notin Tasks /\ loc[t].files \notin Structs /\ loc[t].child \notin Tasks
  BY DEF IInv, Placed, PlaceOK, Busy
<1>8. Parents'
  <2> SUFFICES ASSUME NEW u \in Tasks, pc'[u] = "dup_fd"
               PROVE  /\ pc'[loc'[u].child] = "new"
                      /\ \A v \in Tasks \ {u} : loc'[v].child # loc'[u].child
    BY DEF Parents
  <2>1. u # t /\ pc[u] = "dup_fd" /\ loc'[u] = loc[u] BY <1>3 DEF Busy
  <2>2. loc[u].child \in Tasks BY <2>1 DEF IInv, Placed, PlaceOK
  <2>3. pc[loc[u].child] = "new" /\ \A v \in Tasks \ {u} : loc[v].child # loc[u].child BY <2>1 DEF IInv, Parents
  <2>4. loc[u].child # t BY <2>3 DEF Busy
  <2>. QED BY <1>3, <1>7, <2>1, <2>2, <2>3, <2>4
<1>9. Private'
  <2> SUFFICES ASSUME NEW u \in Tasks, loc'[u].files \in Structs, NEW v \in Tasks
               PROVE  tfiles'[v] # loc'[u].files /\ (v # u => loc'[v].files # loc'[u].files)
    BY <1>3 DEF Private
  <2>1. u # t /\ loc'[u] = loc[u] BY <1>3, <1>7
  <2>. QED BY <1>3, <1>7, <2>1 DEF IInv, Private
<1>10. Counted'
  <2>1. \A u \in Structs : Users(u)' = Users(u) BY <1>3, <1>7 DEF Users, Busy
  <2>2. \A u \in Structs : tab'[u].count = tab[u].count BY <1>2, <1>3
  <2>. QED BY <2>1, <2>2 DEF IInv, Counted
<1>11. Empty'
  <2>1. ASSUME NEW u \in Tasks, pc'[u] = "dup_fd" PROVE tab'[loc'[u].files] = NewTable
    <3>1. u # t /\ pc[u] = "dup_fd" /\ loc'[u] = loc[u] BY <1>3, <2>1 DEF Busy
    <3>2. loc[u].files \in Structs BY <3>1 DEF IInv, Placed, PlaceOK
    <3>3. loc[u].files # s BY <1>1, <3>2 DEF IInv, Private
    <3>. QED BY <1>3, <3>1, <3>2, <3>3 DEF IInv, Empty
  <2>2. ASSUME NEW u \in Structs, tab'[u].count = 0, \A v \in Tasks : loc'[v].files # u, NEW i \in Fds
        PROVE  tab'[u].fd[i] = NULL
    <3>1. u # s /\ tab'[u] = tab[u] BY <1>1, <1>2, <1>3, <2>2
    <3>2. \A v \in Tasks : loc[v].files # u BY <1>3, <1>7, <2>2
    <3>. QED BY <2>2, <3>1, <3>2 DEF IInv, Empty
  <2>. QED BY <1>3, <2>1, <2>2 DEF Empty
<1>12. Promised'
  <2> SUFFICES ASSUME NEW u \in Structs, tab'[u].count > 0, NEW i \in Fds
               PROVE  /\ Reserved(tab'[u], i) <=> Installing(u, i)' # {}
                      /\ \A v, x \in Installing(u, i)' : v = x
    BY DEF Promised, Reserved
  <2>1. CASE u # s
    <3>1. Installing(u, i)' = Installing(u, i) BY <1>3, <1>1, <2>1 DEF Installing, At
    <3>. QED BY <1>3, <2>1, <3>1 DEF IInv, Promised
  <2>2. CASE u = s
    <3>1. /\ Reserved(tab[s], i) <=> Installing(s, i) # {}
          /\ \A v, x \in Installing(s, i) : v = x
      BY <1>1, <1>2 DEF IInv, Promised
    <3>2. t \in Installing(s, i) <=> pc[t] = "install" /\ loc[t].fd = i BY <1>1 DEF Installing, At
    <3>3. Installing(s, i)' = (Installing(s, i) \ {t}) \cup {v \in {t} : where = "install" /\ l.fd = i}
      BY <1>1, <1>3 DEF Installing, At
    <3>4. Reserved(tab'[s], i) <=> Reserved(y, i) BY <1>3
    <3> DEFINE Goal == (Reserved(tab'[s], i) <=> Installing(s, i)' # {}) /\ \A v, x \in Installing(s, i)' : v = x
    <3>5. CASE where = "install" /\ l.fd = i
      <4>1. Reserved(y, i) /\ Installing(s, i) = {} BY <1>2, <3>1, <3>5
      <4>2. Installing(s, i)' = {t} BY <3>3, <3>5, <4>1
      <4>3. Goal BY <3>4, <4>1, <4>2
      <4>. QED BY <2>2, <4>3
    <3>6. CASE ~(where = "install" /\ l.fd = i)
      <4>1. Installing(s, i)' = Installing(s, i) \ {t} BY <3>3, <3>6
      <4>2. Reserved(y, i) <=> Reserved(tab[s], i) /\ ~(t \in Installing(s, i)) BY <1>2, <3>2, <3>6
      <4>3. Goal BY <3>1, <3>4, <4>1, <4>2
      <4>. QED BY <2>2, <4>3
    <3>. QED BY <3>5, <3>6
  <2>. QED BY <2>1, <2>2
<1>13. OneResizes'
  <2>1. ASSUME NEW u \in Structs, tab'[u].count > 0
        PROVE  (tab'[u].resizing <=> Resizing(u)' # {}) /\ \A v, x \in Resizing(u)' : v = x
    <3>1. CASE u # s
      <4>1. Resizing(u)' = Resizing(u) BY <1>1, <1>3, <3>1 DEF Resizing, At
      <4>. QED BY <1>3, <2>1, <3>1, <4>1 DEF IInv, OneResizes
    <3>2. CASE u = s
      <4>1. (tab[s].resizing <=> Resizing(s) # {}) /\ \A v, x \in Resizing(s) : v = x
        BY <1>1, <1>2 DEF IInv, OneResizes
      <4>2. t \in Resizing(s) <=> pc[t] = "resize" BY <1>1 DEF Resizing, At
      <4>3. Resizing(s)' = (Resizing(s) \ {t}) \cup {v \in {t} : where = "resize"} BY <1>1, <1>3 DEF Resizing, At
      <4>4. tab'[s].resizing <=> y.resizing BY <1>3
      <4> DEFINE Goal == (tab'[s].resizing <=> Resizing(s)' # {}) /\ \A v, x \in Resizing(s)' : v = x
      <4>5. CASE where = "resize"
        <5>1. y.resizing /\ (Resizing(s) = {} \/ t \in Resizing(s)) BY <1>2, <4>1, <4>2, <4>5
        <5>2. Resizing(s)' = {t} BY <4>1, <4>3, <4>5, <5>1
        <5>3. Goal BY <4>4, <5>1, <5>2
        <5>. QED BY <3>2, <5>3
      <4>6. CASE where # "resize"
        <5>1. Resizing(s)' = Resizing(s) \ {t} BY <4>3, <4>6
        <5>2. y.resizing <=> tab[s].resizing /\ ~(t \in Resizing(s)) BY <1>2, <4>2, <4>6
        <5>3. Goal BY <4>1, <4>4, <5>1, <5>2
        <5>. QED BY <3>2, <5>3
      <4>. QED BY <4>5, <4>6
    <3>. QED BY <3>1, <3>2
  <2>2. ASSUME NEW u \in Tasks, pc'[u] = "resize" PROVE tab'[tfiles'[u]].max_fds <= loc'[u].fd
    <3>1. CASE u = t BY <1>1, <1>3, <2>2, <3>1
    <3>2. CASE u # t
      <4>1. pc[u] = "resize" /\ T(u).max_fds <= loc[u].fd BY <1>3, <2>2, <3>2 DEF IInv, OneResizes, At
      <4>2. CASE tfiles[u] # s
        <5>1. tfiles[u] \in Structs BY <4>1 DEF IInv, Placed, PlaceOK, WithTable
        <5>. QED BY <1>3, <3>2, <4>1, <4>2, <5>1 DEF T
      <4>3. CASE tfiles[u] = s
        <5>1. u \in Resizing(s) /\ \A v, x \in Resizing(s) : v = x
          BY <1>1, <1>2, <4>1, <4>3 DEF IInv, OneResizes, Resizing, At
        <5>2. pc[t] # "resize" BY <1>1, <3>2, <5>1 DEF Resizing, At
        <5>. QED BY <1>2, <1>3, <3>2, <4>1, <4>3, <5>2 DEF T
      <4>. QED BY <4>2, <4>3
    <3>. QED BY <3>1, <3>2
  <2>. QED BY <2>1, <2>2 DEF OneResizes, At, T
<1>14. Gone'
  <2> SUFFICES ASSUME NEW u \in Tasks, pc'[u] \in {"none", "new"} PROVE task_works'[u] = <<>> /\ todo'[u] = <<>>
    BY DEF Gone
  <2>1. u # t /\ pc[u] = pc'[u] BY <1>3 DEF Busy
  <2>. QED BY <2>1 DEF IInv, Gone, WorksKept
<1>. QED BY <1>4, <1>5, <1>6, <1>8, <1>9, <1>10, <1>11, <1>12, <1>13, <1>14 DEF Frame

\* A task does something that concerns no table.
Aside == {"user", "leave", "use", "exit_run"}

\* Such a step keeps all of the invariant but the references.
LEMMA QuietStep ==
  ASSUME IInv, NEW t \in Tasks, pc[t] \in Aside, NEW where \in Aside \cup {"none"}, NEW l \in Locals,
         PlaceOK(t, tfiles[t], where, l), UNCHANGED <<tab, tfiles>>, WorksKept(t),
         pc' = [pc EXCEPT ![t] = where], loc' = [loc EXCEPT ![t] = l],
         where = "none" => task_works'[t] = <<>> /\ todo'[t] = <<>>
  PROVE  Frame'
<1>1. /\ pc' \in [Tasks -> Location] /\ pc'[t] = where /\ \A u \in Tasks \ {t} : pc'[u] = pc[u]
      /\ loc' \in [Tasks -> Locals] /\ loc'[t] = l /\ \A u \in Tasks \ {t} : loc'[u] = loc[u]
  BY DEF IInv, TypeOK, Aside, Location
<1>2. l.files \notin Structs /\ l.child \notin Tasks /\ loc[t].files \notin Structs /\ loc[t].child \notin Tasks
  BY DEF IInv, Placed, PlaceOK, Aside
<1>3. TypeOK' BY <1>1 DEF IInv, TypeOK, WorksKept
<1>4. Placed' BY <1>1 DEF IInv, Placed
<1>5. Parents'
  <2> SUFFICES ASSUME NEW u \in Tasks, pc'[u] = "dup_fd"
               PROVE  /\ pc'[loc'[u].child] = "new"
                      /\ \A v \in Tasks \ {u} : loc'[v].child # loc'[u].child
    BY DEF Parents
  <2>1. u # t /\ pc[u] = "dup_fd" /\ loc'[u] = loc[u] BY <1>1 DEF Aside
  <2>2. loc[u].child \in Tasks BY <2>1 DEF IInv, Placed, PlaceOK
  <2>3. pc[loc[u].child] = "new" /\ \A v \in Tasks \ {u} : loc[v].child # loc[u].child BY <2>1 DEF IInv, Parents
  <2>4. loc[u].child # t BY <2>3 DEF Aside
  <2>. QED BY <1>1, <1>2, <2>1, <2>2, <2>3, <2>4
<1>6. Private'
  <2> SUFFICES ASSUME NEW u \in Tasks, loc'[u].files \in Structs, NEW v \in Tasks
               PROVE  tfiles'[v] # loc'[u].files /\ (v # u => loc'[v].files # loc'[u].files)
    BY DEF Private
  <2>1. u # t /\ loc'[u] = loc[u] BY <1>1, <1>2
  <2>. QED BY <1>1, <1>2, <2>1 DEF IInv, Private
<1>7. Counted'
  <2>1. \A u \in Structs : Users(u)' = Users(u) BY <1>1, <1>2 DEF Users, Aside
  <2>. QED BY <2>1 DEF IInv, Counted
<1>8. Empty'
  <2>1. \A u \in Structs : (\A v \in Tasks : loc'[v].files # u) => \A v \in Tasks : loc[v].files # u BY <1>1, <1>2
  <2>2. \A u \in Tasks : pc'[u] = "dup_fd" => pc[u] = "dup_fd" /\ loc'[u] = loc[u] BY <1>1 DEF Aside
  <2>. QED BY <2>1, <2>2 DEF IInv, Empty
<1>9. Promised'
  <2>1. \A u \in Structs, i \in Fds : Installing(u, i)' = Installing(u, i) BY <1>1 DEF Installing, At, Aside
  <2>. QED BY <2>1 DEF IInv, Promised
<1>10. OneResizes'
  <2>1. \A u \in Structs : Resizing(u)' = Resizing(u) BY <1>1 DEF Resizing, At, Aside
  <2>2. \A u \in Tasks : pc'[u] = "resize" => pc[u] = "resize" /\ loc'[u] = loc[u] BY <1>1 DEF Aside
  <2>. QED BY <2>1, <2>2 DEF IInv, OneResizes, At, T
<1>11. Gone'
  <2> SUFFICES ASSUME NEW u \in Tasks, pc'[u] \in {"none", "new"} PROVE task_works'[u] = <<>> /\ todo'[u] = <<>>
    BY DEF Gone
  <2>1. CASE u = t BY <1>1, <2>1 DEF Aside
  <2>2. CASE u # t BY <1>1, <2>2 DEF IInv, Gone, WorksKept
  <2>. QED BY <2>1, <2>2
<1>. QED BY <1>3, <1>4, <1>5, <1>6, <1>7, <1>8, <1>9, <1>10, <1>11 DEF Frame, IInv

----------------------------------------------------------------------------
(* System calls on descriptors *)

\* put_table() changes slot i of the task's table, or none.
LEMMA SlotPut ==
  ASSUME IInv, NEW t \in Tasks, NEW s \in Structs, tfiles[t] = s, NEW y, NEW i \in Fds, NEW b,
         y.fd = [T(t).fd EXCEPT ![i] = b], put_table(t, y)
  PROVE  SlotBecomes(s, i, b)
BY DEF IInv, TypeOK, put_table, T, Table, SlotBecomes

\* A new table with the old files changes no slot.
LEMMA SlotsKept ==
  ASSUME IInv, NEW t \in Tasks, tfiles[t] \in Structs, NEW y, y.fd = T(t).fd, put_table(t, y)
  PROVE  SlotsSame
BY DEF IInv, TypeOK, put_table, T, SlotsSame

\* The task has nothing in hand.
LEMMA NoLocalsOK ==
  /\ NoLocals \in Locals /\ (\A f \in Files : Hand(NoLocals, f) = 0)
  /\ \A t \in Tasks, files \in Structs \cup {NULL}, where \in {"user", "leave"} :
       (t \in KThreads => files = NULL) /\ (t \notin KThreads => files \in Structs)
       => PlaceOK(t, files, where, NoLocals)
<1>1. NULL \notin Files /\ NULL \notin Tasks /\ NULL \notin Structs BY TableAssumption, FilesAssumption
<1>2. NoLocals \in Locals BY DEF NoLocals, Locals
<1>3. \A f \in Files : Hand(NoLocals, f) = 0 BY <1>1 DEF NoLocals, One, Hand, Slot, Holds
<1>4. NoLocals.files \notin Structs /\ NoLocals.child \notin Tasks BY <1>1 DEF NoLocals
<1>. QED BY <1>2, <1>3, <1>4 DEF PlaceOK, WithTable

\* The end of a system call.
LEMMA CallDone ==
  ASSUME NEW t \in Tasks, done(t)
  PROVE  \E where \in {"user", "leave"} :
           pc' = [pc EXCEPT ![t] = where] /\ loc' = [loc EXCEPT ![t] = NoLocals]
BY DEF done, go

\* What want_fd() is called with: the task's table x, grown perhaps, the local
\* variables l, and the counts refs with what l holds.
Wants(t, x, l, refs) ==
  /\ pc[t] \in {"user", "resize", "resize_wait"}
  /\ x \in Table /\ Sound(x) /\ x.count = T(t).count /\ x.fd = T(t).fd /\ x.open = T(t).open
  /\ x.resizing <=> T(t).resizing /\ pc[t] # "resize"
  /\ pc[t] # "resize" => x.max_fds = T(t).max_fds
  /\ l \in Locals /\ l.op \in {"open", "dup", "dup2"} /\ l.fd \in Fds /\ l.fd2 \in Fds
  /\ l.file \in Files <=> l.op = "dup"
  /\ l.files = NULL /\ l.child = NULL
  /\ loc[t] \in {l, NoLocals}
  /\ refs \in [Files -> Nat]
  /\ \A f \in Files : refs[f] - f_count[f] = Hand(l, f) - Hand(loc[t], f)

\* want_fd() goes on to where, with table y and local variables k.
GoesOn(x, y, where, l, k) ==
  /\ where \in {"user", "leave", "resize", "resize_wait", "install"}
  /\ y \in Table /\ Sound(y) /\ x.count = y.count /\ x.max_fds = y.max_fds
  /\ k = NoLocals \/ \E n \in Fds : k = [l EXCEPT !.fd = n]
  /\ where \in {"user", "leave"} <=> k = NoLocals
  /\ y.resizing <=> x.resizing \/ where = "resize"
  /\ where = "resize" => ~x.resizing /\ x.max_fds <= k.fd
  /\ where = "install" => k.fd \notin x.open /\ l.op = "open"
  /\ \A i \in Fds : Reserved(y, i) <=> Reserved(x, i) \/ (where = "install" /\ k.fd = i)

\* However alloc_fd() goes on, all of the invariant but the references is kept.
LEMMA WantFrame ==
  ASSUME IInv, NEW t \in Tasks \ KThreads, NEW x, NEW l, NEW refs, Wants(t, x, l, refs),
         NEW y, NEW where, NEW k, GoesOn(x, y, where, l, k),
         put_table(t, y), UNCHANGED tfiles, WorksKept(t), go(t, where, k)
  PROVE  Frame'
<1>0. k \in Locals BY NoLocalsOK DEF GoesOn, Wants, Locals, Fds
<1> USE DEF GoesOn
<1>1. tfiles[t] \in Structs /\ pc[t] \in Busy /\ where \in Busy
  BY DEF IInv, TypeOK, Wants, Placed, PlaceOK, WithTable, Busy
<1>2. y.count = T(t).count /\ (pc[t] # "resize" => y.max_fds = T(t).max_fds) /\ y.max_fds = x.max_fds
  BY DEF Wants, SameShape, Table
<1>3. PlaceOK(t, tfiles[t], where, k)
  <2>1. CASE k = NoLocals BY <1>1, <2>1, NoLocalsOK
  <2>2. CASE k # NoLocals
    <3>1. PICK n \in Fds : k = [l EXCEPT !.fd = n] BY <2>2
    <3>2. /\ k.op = l.op /\ k.file = l.file /\ k.fd = n /\ k.fd2 = l.fd2 /\ k.files = NULL /\ k.child = NULL
          /\ l.op \in {"open", "dup", "dup2"} /\ l.fd2 \in Fds /\ (l.file \in Files <=> l.op = "dup")
          /\ l.file \in Files \cup {NULL}
      BY <3>1 DEF Wants, Locals
    <3>3. NULL \notin Structs /\ NULL \notin Tasks /\ where \in {"resize", "resize_wait", "install"}
      BY <2>2, FilesAssumption
    <3>. QED BY <1>1, <3>2, <3>3 DEF PlaceOK, WithTable
  <2>. QED BY <2>1, <2>2
<1>4. pc[t] # "install" /\ (\A i \in Fds : Reserved(x, i) <=> Reserved(T(t), i)) /\ ~(Reserved(T(t), k.fd) /\ where = "install")
  BY DEF Wants, Reserved
<1>5. y.resizing <=> (T(t).resizing /\ pc[t] # "resize") \/ where = "resize" BY DEF Wants
<1>6. where = "resize" => y.max_fds <= k.fd /\ (T(t).resizing => pc[t] = "resize") BY <1>2 DEF Wants
<1>7. \A i \in Fds :
        Reserved(y, i) <=> (Reserved(T(t), i) /\ ~(pc[t] = "install" /\ loc[t].fd = i))
                           \/ (where = "install" /\ k.fd = i)
  BY <1>4
<1>8. where = "install" => ~Reserved(T(t), k.fd) BY <1>4
<1>9. Replaces(t, y, where, k) BY <1>0, <1>1, <1>2, <1>3, <1>5, <1>6, <1>7, <1>8 DEF Replaces
<1>. QED BY <1>9, TableStep

\* The counts after want_fd(), when no slot changes and the task keeps what it
\* holds ...
LEMMA WantKeeps ==
  ASSUME IInv, short \subseteq short', NEW t \in Tasks \ KThreads, NEW x, NEW l, NEW refs, Wants(t, x, l, refs),
         NEW y, y.fd = x.fd, put_table(t, y), f_count' = refs,
         NEW k, \A f \in Files : Holds(k, f) <=> Holds(l, f), loc' = [loc EXCEPT ![t] = k]
  PROVE  RefsOK'
<1>1. tfiles[t] \in Structs BY DEF IInv, Placed, PlaceOK, WithTable, Wants
<1>2. SlotsSame BY <1>1, SlotsKept DEF Wants
<1>3. ASSUME NEW f \in Files PROVE Refs(f)' = Refs(f) + (refs[f] - f_count[f])
  <2>1. Refs(f)' = Refs(f) - Hand(loc[t], f) + Hand(k, f) BY <1>2, HandBalance DEF IInv, TypeOK
  <2>2. refs[f] - f_count[f] = Hand(l, f) - Hand(loc[t], f) BY DEF Wants
  <2>3. Hand(k, f) = Hand(l, f) BY DEF One, Hand, Slot
  <2>4. Hand(l, f) \in Nat /\ Hand(loc[t], f) \in Nat /\ Refs(f) \in Nat BY RefsFinite DEF One, Hand, Slot
  <2>. QED BY <2>1, <2>2, <2>3, <2>4
<1>. QED BY <1>3, RefsTaken DEF Wants, IInv

\* ... and when a call that fails drops it.
LEMMA NoFd ==
  ASSUME IInv, short \subseteq short', NEW t \in Tasks \ KThreads, NEW x, NEW l, NEW refs, Wants(t, x, l, refs),
         put_table(t, x), no_fd(t, l, refs), UNCHANGED tfiles
  PROVE  IInv'
<1>1. TypeOK /\ RefsOK BY DEF IInv
<1>0. PICK s \in Structs : tfiles[t] = s BY DEF IInv, Placed, PlaceOK, WithTable, Wants
<1>2. PICK where \in {"user", "leave"} :
        pc' = [pc EXCEPT ![t] = where] /\ loc' = [loc EXCEPT ![t] = NoLocals]
  BY CallDone DEF no_fd
<1>3. l.op = "dup" => l.file \in Files BY DEF Wants
<1>4. WorksKept(t)
  <2>1. CASE l.op = "dup" BY <1>1, <1>3, <2>1, FputWorks DEF no_fd, Wants
  <2>2. CASE l.op # "dup" BY <1>1, <2>2, NoWorks DEF no_fd, Wants
  <2>. QED BY <2>1, <2>2
<1>5. Frame'
  <2>1. go(t, where, NoLocals) BY <1>2 DEF go
  <2>2. GoesOn(x, x, where, l, NoLocals) BY DEF GoesOn, Wants
  <2>. QED BY <1>4, <2>1, <2>2, WantFrame
<1>6. ASSUME NEW f \in Files
      PROVE  Refs(f)' = Refs(f) + (refs[f] - f_count[f]) - Hand(l, f)
  <2>1. SlotsSame BY <1>0, SlotsKept DEF Wants
  <2>2. Refs(f)' = Refs(f) - Hand(loc[t], f) + Hand(NoLocals, f)
    BY <1>2, <2>1, HandBalance DEF IInv, TypeOK
  <2>3. refs[f] - f_count[f] = Hand(l, f) - Hand(loc[t], f) BY DEF Wants
  <2>4. Hand(NoLocals, f) = 0 BY NoLocalsOK
  <2>5. Hand(l, f) \in Nat /\ Hand(loc[t], f) \in Nat /\ Refs(f) \in Nat BY RefsFinite DEF One, Hand, Slot
  <2>. QED BY <2>2, <2>3, <2>4, <2>5
<1>7. RefsOK'
  <2>1. CASE l.op = "dup"
    <3>1. ASSUME NEW f \in Files PROVE Refs(f)' = Refs(f) + (refs[f] - f_count[f]) - Slot(f, l.file)
      <4>1. Holds(l, f) <=> f = l.file BY <2>1 DEF Holds
      <4>2. Hand(l, f) = Slot(f, l.file) BY <4>1 DEF One, Hand, Slot
      <4>. QED BY <1>6, <4>2
    <3>2. \A f \in Files : Refs(f)' \in Nat BY RefsFinite
    <3>. QED BY <1>1, <1>3, <2>1, <3>1, <3>2, RefsDropped DEF no_fd, Wants
  <2>2. CASE l.op # "dup"
    <3>1. ASSUME NEW f \in Files PROVE Refs(f)' = Refs(f) + (refs[f] - f_count[f])
      <4>1. Hand(l, f) = 0 BY <2>2 DEF Wants, Holds, One, Hand, Slot
      <4>2. Refs(f) \in Nat /\ refs[f] \in Nat /\ f_count[f] \in Nat BY <1>1, RefsFinite DEF TypeOK, Wants
      <4>. QED BY <1>6, <4>1, <4>2
    <3>. QED BY <1>1, <2>2, <3>1, RefsTaken DEF no_fd, Wants
  <2>. QED BY <2>1, <2>2
<1>. QED BY <1>5, <1>7 DEF Frame, IInv

\* dup2() with a descriptor that fits.
LEMMA Dup2Fits ==
  ASSUME IInv, short \subseteq short', NEW t \in Tasks \ KThreads, NEW x, NEW l, NEW refs, Wants(t, x, l, refs),
         l.op = "dup2", l.fd < x.max_fds, do_dup2(t, x, l), done(t), UNCHANGED tfiles
  PROVE  IInv'
<1>1. TypeOK /\ RefsOK BY DEF IInv
<1>0. PICK s \in Structs : tfiles[t] = s BY DEF IInv, Placed, PlaceOK, WithTable, Wants
<1>2. PICK where \in {"user", "leave"} :
        pc' = [pc EXCEPT ![t] = where] /\ loc' = [loc EXCEPT ![t] = NoLocals]
  BY CallDone
<1>3. go(t, where, NoLocals) BY <1>2 DEF go
<1>4. \A f \in Files : refs[f] = f_count[f] /\ Hand(loc[t], f) = 0 /\ Hand(l, f) = 0
  <2> SUFFICES ASSUME NEW f \in Files
               PROVE  refs[f] = f_count[f] /\ Hand(loc[t], f) = 0 /\ Hand(l, f) = 0
    OBVIOUS
  <2>1. Hand(l, f) = 0 BY DEF Wants, Holds, One, Hand, Slot
  <2>2. Hand(loc[t], f) = 0 BY <2>1, NoLocalsOK DEF Wants
  <2>3. refs[f] - f_count[f] = 0 BY <2>1, <2>2 DEF Wants
  <2>. QED BY <1>1, <2>1, <2>2, <2>3 DEF Wants, TypeOK
<1>5. x \in Table /\ Sound(x) /\ l.fd \in Fds /\ l.fd2 \in Fds /\ x.fd \in [Fds -> Files \cup {NULL}] /\ x.fd = T(t).fd
  BY DEF Wants, Table
<1> DEFINE file == x.fd[l.fd2]
           tofree == x.fd[l.fd]
           more == [f_count EXCEPT ![file] = @ + 1]
<1>6. CASE file = NULL \/ (tofree = NULL /\ l.fd \in x.open)
  <2>1. put_table(t, x) /\ UNCHANGED workVars BY <1>6 DEF do_dup2
  <2>2. WorksKept(t) BY <1>1, <2>1, NoWorks DEF keepWorks, workVars, TypeOK
  <2>3. GoesOn(x, x, where, l, NoLocals) BY DEF GoesOn, Wants
  <2>4. Frame' BY <1>3, <2>1, <2>2, <2>3, WantFrame
  <2>5. f_count' = refs
    <3>1. f_count' = f_count BY <2>1 DEF workVars
    <3>2. refs \in [Files -> Nat] /\ f_count \in [Files -> Nat] BY <1>1 DEF Wants, TypeOK
    <3>. QED BY <1>4, <3>1, <3>2
  <2>6. RefsOK'
    <3>1. \A f \in Files : Holds(NoLocals, f) <=> Holds(l, f)
      <4>1. \A f \in Files : Hand(NoLocals, f) = 0 /\ Hand(l, f) = 0 BY <1>4, NoLocalsOK
      <4>. QED BY <4>1 DEF One, Hand, Slot
    <3>. QED BY <1>2, <2>1, <2>5, <3>1, WantKeeps
  <2>. QED BY <2>4, <2>6 DEF Frame, IInv
<1>7. CASE file # NULL /\ ~(tofree = NULL /\ l.fd \in x.open)
  <2> DEFINE y == __set_close_on_exec(__set_open_fd([x EXCEPT !.fd[l.fd] = file], l.fd), l.fd, FALSE)
  <2>1. file \in Files /\ tofree \in Files \cup {NULL} BY <1>5, <1>7
  <2>2. put_table(t, y) /\ IF tofree = NULL THEN f_count' = more /\ keepWorks ELSE fput(t, tofree, more)
    BY <1>7 DEF do_dup2
  <2>3. more \in [Files -> Nat] /\ \A f \in Files : more[f] = f_count[f] + Slot(file, f)
    BY <1>1, <2>1 DEF TypeOK, One, Hand, Slot
  <2>4. y \in Table /\ Sound(y) /\ SameShape(x, y) /\ y.open = x.open \cup {l.fd} /\ y.fd = [x.fd EXCEPT ![l.fd] = file]
    <3> HIDE DEF file
    <3>. QED BY <1>5, <2>1, PutFile
  <2> HIDE DEF y, file, tofree, more
  <2>5. WorksKept(t)
    <3>1. CASE tofree = NULL BY <1>1, <2>2, <2>3, <3>1, NoWorks
    <3>2. CASE tofree # NULL BY <1>1, <2>1, <2>2, <2>3, <3>2, FputWorks
    <3>. QED BY <3>1, <3>2
  <2>6. Frame'
    <3>1. \A i \in Fds : Reserved(y, i) <=> Reserved(x, i)
      <4>1. ~Reserved(x, l.fd) /\ NULL # file /\ y.fd[l.fd] = file BY <1>5, <1>7, <2>4 DEF Reserved, tofree
      <4>2. ~Reserved(y, l.fd) BY <4>1 DEF Reserved
      <4>3. \A i \in Fds \ {l.fd} : y.fd[i] = x.fd[i] /\ (i \in y.open <=> i \in x.open) BY <1>5, <2>4
      <4>. QED BY <4>1, <4>2, <4>3 DEF Reserved
    <3>2. GoesOn(x, y, where, l, NoLocals) BY <2>4, <3>1 DEF GoesOn, SameShape
    <3>. QED BY <1>3, <2>2, <2>5, <3>2, WantFrame
  <2>7. ASSUME NEW f \in Files PROVE Refs(f)' = Refs(f) + (more[f] - f_count[f]) - Slot(tofree, f)
    <3>1. SlotBecomes(s, l.fd, file)
      BY <1>0, <1>5, <2>2, <2>4, SlotPut
    <3>2. Moved(f, loc[t], NoLocals, tab[s].fd[l.fd], file)
      BY <1>1, <1>2, <1>5, <3>1, Balance DEF TypeOK
    <3>3. tab[s].fd[l.fd] = tofree BY <1>0, <1>5 DEF T, tofree
    <3>4. Hand(loc[t], f) = 0 /\ Hand(NoLocals, f) = 0 BY <1>4, NoLocalsOK
    <3>5. Refs(f) \in Nat /\ f_count[f] \in Nat /\ Slot(tofree, f) \in Nat /\ Slot(file, f) \in Nat
      BY <1>1, RefsFinite DEF TypeOK, One, Hand, Slot
    <3>6. Refs(f)' = Refs(f) - 0 + 0 - Slot(tofree, f) + Slot(file, f) BY <3>2, <3>3, <3>4 DEF Moved
    <3>. QED BY <2>3, <3>5, <3>6
  <2>8. RefsOK'
    <3>1. \A f \in Files : Refs(f)' \in Nat /\ Refs(f) \in Nat /\ more[f] \in Nat /\ f_count[f] \in Nat
      BY <1>1, <2>3, RefsFinite DEF TypeOK
    <3>2. CASE tofree = NULL
      <4>1. \A f \in Files : Slot(tofree, f) = 0 BY <3>2, TableAssumption DEF One, Hand, Slot
      <4>2. \A f \in Files : Refs(f)' = Refs(f) + (more[f] - f_count[f]) BY <2>7, <3>1, <4>1
      <4>. QED BY <1>1, <2>2, <2>3, <3>2, <4>2, RefsTaken
    <3>3. CASE tofree # NULL
      <4>1. \A f \in Files : Slot(tofree, f) = Slot(f, tofree) BY DEF One, Hand, Slot
      <4>2. \A f \in Files : Refs(f)' = Refs(f) + (more[f] - f_count[f]) - Slot(f, tofree) BY <2>7, <4>1
      <4>. QED BY <1>1, <2>1, <2>2, <2>3, <3>1, <3>3, <4>2, RefsDropped
    <3>. QED BY <3>2, <3>3
  <2>. QED BY <2>6, <2>8 DEF Frame, IInv
<1>. QED BY <1>6, <1>7

\* dup() and open() with a descriptor that fits.
LEMMA DupFits ==
  ASSUME IInv, short \subseteq short', NEW t \in Tasks \ KThreads, NEW x, NEW l, NEW refs, Wants(t, x, l, refs),
         l.op = "dup", NEW nr, nr = candidate(x), nr < NOFILE, nr < x.max_fds,
         put_table(t, [take_fd(x, nr, FALSE) EXCEPT !.fd[nr] = l.file]),
         f_count' = refs, keepWorks, done(t), UNCHANGED tfiles
  PROVE  IInv'
<1>1. TypeOK /\ RefsOK BY DEF IInv
<1>0. PICK s \in Structs : tfiles[t] = s BY DEF IInv, Placed, PlaceOK, WithTable, Wants
<1>2. PICK where \in {"user", "leave"} :
        pc' = [pc EXCEPT ![t] = where] /\ loc' = [loc EXCEPT ![t] = NoLocals]
  BY CallDone
<1>3. go(t, where, NoLocals) BY <1>2 DEF go
<1> DEFINE z == take_fd(x, nr, FALSE)
           y == [z EXCEPT !.fd[nr] = l.file]
<1>4. x \in Table /\ Sound(x) /\ x.fd \in [Fds -> Files \cup {NULL}] /\ x.fd = T(t).fd /\ l.file \in Files
  BY DEF Wants, Table
<1>5. /\ nr \in Fds /\ nr \notin x.open
      /\ z \in Table /\ Sound(z) /\ SameShape(x, z) /\ z.open = x.open \cup {nr} /\ z.fd = x.fd
  BY <1>4, TakeFd
<1> HIDE DEF z
<1>6. /\ y \in Table /\ Sound(y) /\ SameShape(x, y) /\ y.open = x.open \cup {nr}
      /\ y.fd = [x.fd EXCEPT ![nr] = l.file]
  BY <1>4, <1>5 DEF Table, Sound, SameShape
<1>7. put_table(t, y) BY DEF z
<1> HIDE DEF y
<1>8. WorksKept(t) BY <1>1, NoWorks DEF Wants
<1>9. Frame'
  <2>1. \A i \in Fds : Reserved(y, i) <=> Reserved(x, i)
    <3>1. l.file # NULL /\ y.fd[nr] = l.file BY <1>4, <1>5, <1>6, TableAssumption
    <3>2. ~Reserved(y, nr) /\ ~Reserved(x, nr) BY <1>5, <3>1 DEF Reserved
    <3>3. \A i \in Fds \ {nr} : y.fd[i] = x.fd[i] /\ (i \in y.open <=> i \in x.open) BY <1>4, <1>6
    <3>. QED BY <3>2, <3>3 DEF Reserved
  <2>2. GoesOn(x, y, where, l, NoLocals) BY <1>6, <2>1 DEF GoesOn, SameShape
  <2>. QED BY <1>3, <1>7, <1>8, <2>2, WantFrame
<1>10. ASSUME NEW f \in Files PROVE Refs(f)' = Refs(f) + (refs[f] - f_count[f])
  <2>1. SlotBecomes(s, nr, l.file)
    BY <1>0, <1>4, <1>5, <1>6, <1>7, SlotPut
  <2>2. Moved(f, loc[t], NoLocals, tab[s].fd[nr], l.file)
    BY <1>1, <1>2, <1>5, <2>1, Balance DEF TypeOK
  <2>3. tab[s].fd[nr] = NULL BY <1>0, <1>4, <1>5 DEF T, Sound
  <2>4. Slot(NULL, f) = 0 /\ Hand(NoLocals, f) = 0 BY NoLocalsOK, TableAssumption DEF One, Hand, Slot
  <2>5. Slot(l.file, f) = Hand(l, f) BY DEF One, Hand, Slot, Holds
  <2>6. refs[f] - f_count[f] = Hand(l, f) - Hand(loc[t], f) BY DEF Wants
  <2>7. Refs(f)' = Refs(f) - Hand(loc[t], f) + 0 - 0 + Hand(l, f) BY <2>2, <2>3, <2>4, <2>5 DEF Moved
  <2>8. Hand(l, f) \in Nat /\ Hand(loc[t], f) \in Nat /\ Refs(f) \in Nat BY RefsFinite DEF One, Hand, Slot
  <2>. QED BY <2>6, <2>7, <2>8
<1>11. RefsOK' BY <1>1, <1>10, RefsTaken DEF Wants
<1>. QED BY <1>9, <1>11 DEF Frame, IInv

\* open() with a descriptor that fits, and a table that must grow first: the
\* task goes on with a descriptor.
LEMMA WantGoesOn ==
  ASSUME IInv, short \subseteq short', NEW t \in Tasks \ KThreads, NEW x, NEW l, NEW refs, Wants(t, x, l, refs),
         NEW nr \in Fds, NEW y, NEW where, GoesOn(x, y, where, l, [l EXCEPT !.fd = nr]), y.fd = x.fd,
         put_table(t, y), f_count' = refs, keepWorks, go(t, where, [l EXCEPT !.fd = nr]), UNCHANGED tfiles
  PROVE  IInv'
<1> DEFINE k == [l EXCEPT !.fd = nr]
<1>1. TypeOK /\ refs \in [Files -> Nat] BY DEF IInv, Wants
<1>2. WorksKept(t) BY <1>1, NoWorks
<1>3. \A f \in Files : Holds(k, f) <=> Holds(l, f) BY DEF Holds, Wants, Locals
<1>4. GoesOn(x, y, where, l, k) /\ go(t, where, k) /\ loc' = [loc EXCEPT ![t] = k] BY DEF go
<1> HIDE DEF k
<1>5. Frame' BY <1>2, <1>4, WantFrame
<1>6. RefsOK' BY <1>3, <1>4, WantKeeps
<1>. QED BY <1>5, <1>6 DEF Frame, IInv

\* alloc_fd() and the beginning of dup3().
LEMMA WantFd ==
  ASSUME IInv, short \subseteq short', NEW t \in Tasks \ KThreads, NEW x, NEW l, NEW refs, Wants(t, x, l, refs),
         want_fd(t, x, l, refs), UNCHANGED tfiles
  PROVE  IInv'
<1> DEFINE nr == IF l.op = "dup2" THEN l.fd ELSE candidate(x)
           verdict == IF nr >= NOFILE THEN "EMFILE" ELSE expand_files(x, nr)
<1>1. x \in Table /\ Sound(x) /\ l.op \in {"open", "dup", "dup2"} /\ l \in Locals /\ l.fd \in Fds /\ x.max_fds \in Nat
  BY DEF Wants, Table
<1>2. nr \in Nat
  <2>1. candidate(x) \in Nat BY <1>1, CandidateFound
  <2>. QED BY <1>1, <2>1 DEF Fds
<1>3. NOFILE \in Nat /\ NOFILE <= sysctl_nr_open /\ sysctl_nr_open \in Nat BY TableAssumption
<1>4. verdict # "EMFILE" => nr < NOFILE /\ nr \in Fds BY <1>2, <1>3 DEF Fds
<1>5. verdict = "fits" => nr < x.max_fds BY DEF expand_files
<1>6. verdict \in {"expand", "wait"} => x.max_fds <= nr BY <1>1, <1>2 DEF expand_files
<1>7. verdict = "expand" => ~x.resizing BY DEF expand_files
<1>8. verdict = "wait" => x.resizing BY DEF expand_files
<1> HIDE DEF verdict
<1> DEFINE k == [l EXCEPT !.fd = nr]
<1>9. k \in Locals /\ k.fd = nr /\ k # NoLocals BY <1>1, <1>2 DEF Locals, NoLocals
<1>10. CASE verdict = "fits" /\ l.op = "dup2" /\ do_dup2(t, x, l) /\ done(t)
  BY <1>5, <1>10, Dup2Fits
<1>11. CASE /\ verdict = "fits" /\ l.op = "dup"
            /\ put_table(t, [take_fd(x, nr, FALSE) EXCEPT !.fd[nr] = l.file])
            /\ f_count' = refs /\ keepWorks /\ done(t)
  <2>1. nr = candidate(x) /\ nr < NOFILE /\ nr < x.max_fds BY <1>4, <1>5, <1>11
  <2> HIDE DEF nr
  <2>. QED BY <1>11, <2>1, DupFits
<1>12. CASE /\ verdict = "fits" /\ l.op = "open"
            /\ \E cloexec \in OpenCloexec : put_table(t, take_fd(x, nr, cloexec))
            /\ f_count' = refs /\ keepWorks /\ go(t, "install", k)
  <2>1. PICK cloexec \in BOOLEAN : put_table(t, take_fd(x, nr, cloexec)) BY <1>12, FilesAssumption
  <2>2. nr = candidate(x) /\ nr < NOFILE /\ nr < x.max_fds /\ nr \in Fds BY <1>4, <1>5, <1>12
  <2> DEFINE y == take_fd(x, nr, cloexec)
  <2>3. /\ nr \notin x.open
        /\ y \in Table /\ Sound(y) /\ SameShape(x, y) /\ y.open = x.open \cup {nr} /\ y.fd = x.fd
    <3> HIDE DEF nr
    <3>. QED BY <1>1, <2>2, TakeFd
  <2>4. GoesOn(x, y, "install", l, k)
    <3>1. x.fd[nr] = NULL BY <1>1, <2>2, <2>3 DEF Sound
    <3> HIDE DEF y, nr
    <3>2. \A i \in Fds : Reserved(y, i) <=> Reserved(x, i) \/ i = nr BY <2>3, <3>1 DEF Reserved
    <3>3. k.fd = nr /\ k # NoLocals /\ \E n \in Fds : k = [l EXCEPT !.fd = n] BY <1>9, <2>2
    <3> HIDE DEF k
    <3>. QED BY <1>12, <2>3, <3>2, <3>3 DEF GoesOn, SameShape
  <2> HIDE DEF y, nr
  <2>. QED BY <1>12, <2>1, <2>2, <2>3, <2>4, WantGoesOn DEF y
<1>13. CASE /\ verdict = "expand"
            /\ put_table(t, [x EXCEPT !.resizing = TRUE])
            /\ f_count' = refs /\ keepWorks /\ go(t, "resize", k)
  <2> DEFINE y == [x EXCEPT !.resizing = TRUE]
  <2>1. nr \in Fds /\ x.max_fds <= nr /\ ~x.resizing BY <1>4, <1>6, <1>7, <1>13
  <2>2. y \in Table /\ Sound(y) /\ y.fd = x.fd /\ y.open = x.open /\ y.count = x.count /\ y.max_fds = x.max_fds /\ y.resizing
    BY <1>1 DEF Table, Sound
  <2>3. GoesOn(x, y, "resize", l, k)
    <3> HIDE DEF y, nr
    <3>1. k.fd = nr /\ k # NoLocals /\ \E n \in Fds : k = [l EXCEPT !.fd = n] BY <1>9, <2>1
    <3> HIDE DEF k
    <3>. QED BY <2>1, <2>2, <3>1 DEF GoesOn, Reserved
  <2> HIDE DEF y, nr
  <2>. QED BY <1>13, <2>1, <2>2, <2>3, WantGoesOn DEF y
<1>14. CASE /\ verdict = "wait" /\ put_table(t, x)
            /\ f_count' = refs /\ keepWorks /\ go(t, "resize_wait", k)
  <2>1. nr \in Fds BY <1>4, <1>14
  <2> HIDE DEF nr
  <2>2. GoesOn(x, x, "resize_wait", l, k)
    <3>1. k.fd = nr /\ k # NoLocals /\ \E n \in Fds : k = [l EXCEPT !.fd = n] BY <1>9, <2>1
    <3> HIDE DEF k
    <3>. QED BY <1>1, <3>1 DEF GoesOn
  <2>. QED BY <1>14, <2>1, <2>2, WantGoesOn
<1>15. CASE verdict = "EMFILE" /\ put_table(t, x) /\ no_fd(t, l, refs)
  BY <1>15, NoFd
<1>16. PICK n \in {nr}, v \in {verdict} :
         \/ v = "fits" /\ l.op = "dup2" /\ do_dup2(t, x, l) /\ done(t)
         \/ /\ v = "fits" /\ l.op = "dup"
            /\ put_table(t, [take_fd(x, n, FALSE) EXCEPT !.fd[n] = l.file])
            /\ f_count' = refs /\ keepWorks /\ done(t)
         \/ /\ v = "fits" /\ l.op = "open"
            /\ \E cloexec \in OpenCloexec : put_table(t, take_fd(x, n, cloexec))
            /\ f_count' = refs /\ keepWorks /\ go(t, "install", [l EXCEPT !.fd = n])
         \/ /\ v = "expand" /\ put_table(t, [x EXCEPT !.resizing = TRUE])
            /\ f_count' = refs /\ keepWorks /\ go(t, "resize", [l EXCEPT !.fd = n])
         \/ /\ v = "wait" /\ put_table(t, x)
            /\ f_count' = refs /\ keepWorks /\ go(t, "resize_wait", [l EXCEPT !.fd = n])
         \/ v = "EMFILE" /\ put_table(t, x) /\ no_fd(t, l, refs)
  BY Zenon DEF want_fd, verdict
<1>17. n = nr /\ v = verdict OBVIOUS
<1> HIDE DEF nr
<1>. QED BY <1>10, <1>11, <1>12, <1>13, <1>14, <1>15, <1>16, <1>17

\* A task that makes a system call has a table and nothing in hand.
LEMMA Caller ==
  ASSUME IInv, NEW t \in Tasks, Calls(t) \/ pc[t] \in {"resize", "resize_wait", "install", "exec", "dup_fd"}
  PROVE  /\ t \in Tasks \ KThreads /\ (\E s \in Structs : tfiles[t] = s)
         /\ T(t) \in Table /\ Sound(T(t)) /\ T(t).count > 0
         /\ pc[t] = "user" => loc[t] = NoLocals
         /\ pc[t] \in {"user", "exec"} => loc[t].file = NULL
         /\ Calls(t) => pc[t] = "user"
<1>1. t \notin KThreads /\ tfiles[t] \in Structs BY DEF IInv, Placed, PlaceOK, WithTable, Calls, At
<1>2. (pc[t] = "user" => loc[t] = NoLocals) /\ (pc[t] \in {"user", "exec"} => loc[t].file = NULL)
  <2>1. NoLocals.file = NULL BY DEF NoLocals
  <2>. QED BY <2>1 DEF IInv, Placed, PlaceOK
<1>3. Calls(t) => pc[t] = "user" BY DEF Calls, At
<1>. QED BY <1>1, <1>2, <1>3, TableUsed

\* open() wants any descriptor ...
LEMMA OpenWants ==
  ASSUME IInv, NEW t \in Tasks, open(t)
  PROVE  /\ t \in Tasks \ KThreads /\ UNCHANGED tfiles
         /\ \E l : l.op = "open" /\ Wants(t, T(t), l, f_count) /\ want_fd(t, T(t), l, f_count)
<1> DEFINE l == [NoLocals EXCEPT !.op = "open"]
<1>1. /\ t \in Tasks \ KThreads /\ T(t) \in Table /\ Sound(T(t)) /\ loc[t] = NoLocals /\ pc[t] = "user"
  BY Caller DEF open
<1>2. /\ l \in Locals /\ l.op = "open" /\ l.fd \in Fds /\ l.fd2 \in Fds /\ l.file = NULL
      /\ l.files = NULL /\ l.child = NULL
  BY TableAssumption DEF NoLocals, Locals, Fds
<1>3. want_fd(t, T(t), l, f_count) /\ UNCHANGED tfiles BY DEF open
<1> HIDE DEF l
<1>4. \A f \in Files : f_count[f] - f_count[f] = Hand(l, f) - Hand(loc[t], f)
  BY <1>1, <1>2, NoLocalsOK, TableAssumption DEF IInv, TypeOK, Hand, Holds, One
<1>5. Wants(t, T(t), l, f_count) BY <1>1, <1>2, <1>4, TableAssumption DEF Wants, IInv, TypeOK
<1>. QED BY <1>1, <1>2, <1>3, <1>5

\* ... and keeps the invariant.
LEMMA OpenStep == ASSUME IInv, short \subseteq short', NEW t \in Tasks, open(t) PROVE IInv'
BY OpenWants, WantFd

\* dup() wants one for the file of fd ...
LEMMA DupWants ==
  ASSUME IInv, NEW t \in Tasks, NEW fd \in Fds, dup(t, fd)
  PROVE  /\ t \in Tasks \ KThreads /\ UNCHANGED tfiles
         /\ \E g \in Files : /\ g = T(t).fd[fd]
                             /\ \E l, refs : /\ l.file = g /\ refs = [f_count EXCEPT ![g] = @ + 1]
                                             /\ Wants(t, T(t), l, refs) /\ want_fd(t, T(t), l, refs)
<1> DEFINE file == T(t).fd[fd]
           l == [NoLocals EXCEPT !.op = "dup", !.file = file]
           refs == [f_count EXCEPT ![file] = @ + 1]
<1>1. /\ t \in Tasks \ KThreads /\ T(t) \in Table /\ Sound(T(t)) /\ loc[t] = NoLocals /\ pc[t] = "user"
  BY Caller DEF dup
<1>2. file \in Files BY <1>1 DEF dup, Fgets, Table
<1>3. want_fd(t, T(t), l, refs) /\ UNCHANGED tfiles BY DEF dup
<1>4. PICK x : x = T(t) OBVIOUS
<1>5. PICK g \in Files : g = file BY <1>2
<1> DEFINE k == [NoLocals EXCEPT !.op = "dup", !.file = g]
<1>6. /\ k \in Locals /\ k.op = "dup" /\ k.fd \in Fds /\ k.fd2 \in Fds /\ k.file = g
      /\ k.files = NULL /\ k.child = NULL
  <2>1. 0 \in Fds /\ 0 \in Nat BY TableAssumption DEF Fds
  <2>2. NoLocals.fd = 0 /\ NoLocals.fd2 = 0 /\ NoLocals.files = NULL /\ NoLocals.child = NULL BY DEF NoLocals
  <2>. QED BY <2>1, <2>2, NoLocalsOK DEF Locals
<1>7. refs \in [Files -> Nat] /\ \A f \in Files : refs[f] = f_count[f] + Slot(g, f)
  BY <1>5 DEF IInv, TypeOK, Slot, One
<1>8. k = l BY <1>5
<1> HIDE DEF l, k, refs, file
<1>9. \A f \in Files : refs[f] - f_count[f] = Hand(k, f) - Hand(loc[t], f)
  <2> SUFFICES ASSUME NEW f \in Files PROVE refs[f] - f_count[f] = Hand(k, f) - Hand(loc[t], f) OBVIOUS
  <2>1. Hand(loc[t], f) = 0 BY <1>1, NoLocalsOK
  <2>2. Hand(k, f) = Slot(g, f) /\ Slot(g, f) \in Nat BY <1>6 DEF Hand, Slot, One, Holds
  <2>. QED BY <1>7, <2>1, <2>2 DEF IInv, TypeOK
<1>10. Wants(t, T(t), k, refs) BY <1>1, <1>6, <1>7, <1>9 DEF Wants
<1>11. refs = [f_count EXCEPT ![g] = @ + 1] BY <1>5 DEF refs
<1>12. k.file = g /\ want_fd(t, T(t), k, refs) /\ g = T(t).fd[fd] /\ UNCHANGED tfiles BY <1>3, <1>5, <1>6, <1>8 DEF file
<1>. QED BY <1>1, <1>10, <1>11, <1>12

\* ... and keeps it: the reference it takes is in hand until it has a descriptor.
LEMMA DupStep == ASSUME IInv, short \subseteq short', NEW t \in Tasks, NEW fd \in Fds, dup(t, fd) PROVE IInv'
BY DupWants, WantFd

\* dup2() wants a certain one ...
LEMMA Dup2Wants ==
  ASSUME IInv, NEW t \in Tasks, NEW oldfd \in Fds, NEW newfd \in Fds, dup2(t, oldfd, newfd)
  PROVE  /\ t \in Tasks \ KThreads /\ UNCHANGED tfiles
         /\ \E l : l.op = "dup2" /\ Wants(t, T(t), l, f_count) /\ want_fd(t, T(t), l, f_count)
<1> DEFINE l == [NoLocals EXCEPT !.op = "dup2", !.fd = newfd, !.fd2 = oldfd]
<1>1. /\ t \in Tasks \ KThreads /\ T(t) \in Table /\ Sound(T(t)) /\ loc[t] = NoLocals /\ pc[t] = "user"
  BY Caller DEF dup2
<1>2. /\ l \in Locals /\ l.op = "dup2" /\ l.fd \in Fds /\ l.fd2 \in Fds /\ l.file = NULL
      /\ l.files = NULL /\ l.child = NULL
  <2>1. newfd \in Nat /\ oldfd \in Nat BY DEF Fds
  <2>2. NoLocals.file = NULL /\ NoLocals.files = NULL /\ NoLocals.child = NULL BY DEF NoLocals
  <2>. QED BY <2>1, <2>2, NoLocalsOK DEF Locals
<1>3. want_fd(t, T(t), l, f_count) /\ UNCHANGED tfiles BY DEF dup2
<1> HIDE DEF l
<1>4. \A f \in Files : f_count[f] - f_count[f] = Hand(l, f) - Hand(loc[t], f)
  BY <1>1, <1>2, NoLocalsOK, TableAssumption DEF IInv, TypeOK, Hand, Holds, One
<1>5. Wants(t, T(t), l, f_count) BY <1>1, <1>2, <1>4, TableAssumption DEF Wants, IInv, TypeOK
<1>. QED BY <1>1, <1>2, <1>3, <1>5

\* ... and keeps it, whether that is free, taken or promised.
LEMMA Dup2Step ==
  ASSUME IInv, short \subseteq short', NEW t \in Tasks, NEW oldfd \in Fds, NEW newfd \in Fds, dup2(t, oldfd, newfd)
  PROVE  IInv'
BY Dup2Wants, WantFd

\* A task in a resize, or waiting for one, wants what it wanted.
LEMMA WantsStill ==
  ASSUME IInv, NEW t \in Tasks, pc[t] \in {"resize", "resize_wait"},
         NEW x \in Table, Sound(x), x.count = T(t).count, x.fd = T(t).fd, x.open = T(t).open,
         x.resizing <=> T(t).resizing /\ pc[t] # "resize",
         pc[t] # "resize" => x.max_fds = T(t).max_fds
  PROVE  t \in Tasks \ KThreads /\ Wants(t, x, loc[t], f_count)
<1>1. t \in Tasks \ KThreads BY Caller
<1>2. /\ loc[t] \in Locals /\ loc[t].op \in {"open", "dup", "dup2"} /\ loc[t].fd \in Fds /\ loc[t].fd2 \in Fds
      /\ loc[t].file \in Files <=> loc[t].op = "dup"
      /\ loc[t].files \notin Structs /\ loc[t].child \notin Tasks
  BY DEF IInv, TypeOK, Placed, PlaceOK
<1>3. loc[t].files = NULL /\ loc[t].child = NULL BY <1>2 DEF Locals
<1>4. \A f \in Files : f_count[f] - f_count[f] = Hand(loc[t], f) - Hand(loc[t], f)
  BY DEF IInv, TypeOK, Hand, One
<1>. QED BY <1>1, <1>2, <1>3, <1>4 DEF Wants, IInv, TypeOK

\* At the end of expand_fdtable() the task goes on with the table that has
\* grown, or fails ...
LEMMA ResizedWants ==
  ASSUME IInv, NEW t \in Tasks, NEW ok, resized(t, ok)
  PROVE  /\ t \in Tasks \ KThreads /\ UNCHANGED tfiles
         /\ \E x : /\ Wants(t, x, loc[t], f_count)
                   /\ want_fd(t, x, loc[t], f_count) \/ (put_table(t, x) /\ no_fd(t, loc[t], f_count))
<1> DEFINE new == alloc_fdtable(loc[t].fd)
           kept == [T(t) EXCEPT !.resizing = FALSE]
           grown == [kept EXCEPT !.max_fds = new]
<1>1. pc[t] = "resize" /\ UNCHANGED tfiles BY DEF resized, At
<1>2. T(t) \in Table /\ Sound(T(t)) BY <1>1, Caller
<1>3. loc[t].fd \in Nat /\ T(t).max_fds <= loc[t].fd
  BY <1>1 DEF IInv, TypeOK, Placed, PlaceOK, Fds, OneResizes, At
<1>4. new \in Nat BY <1>3, AllocSize
<1> HIDE DEF new
<1>5. CASE ok /\ new > loc[t].fd
  <2>1. want_fd(t, grown, loc[t], f_count) BY <1>5 DEF resized, new
  <2>2. new >= T(t).max_fds BY <1>2, <1>3, <1>4, <1>5 DEF Table
  <2>3. /\ grown \in Table /\ grown.count = T(t).count /\ grown.fd = T(t).fd /\ grown.open = T(t).open
        /\ grown.resizing = FALSE /\ grown.full = T(t).full /\ grown.next_fd = T(t).next_fd /\ grown.max_fds = new
    BY <1>2, <1>4 DEF Table
  <2>4. Sound(grown) BY <1>2, <1>4, <2>2, <2>3 DEF Sound, Table
  <2> HIDE DEF grown
  <2>5. t \in Tasks \ KThreads /\ Wants(t, grown, loc[t], f_count) BY <1>1, <2>3, <2>4, WantsStill
  <2>. QED BY <1>1, <2>1, <2>5
<1>6. CASE ~(ok /\ new > loc[t].fd)
  <2>1. put_table(t, kept) /\ no_fd(t, loc[t], f_count) BY <1>6 DEF resized, new
  <2>2. /\ kept \in Table /\ kept.count = T(t).count /\ kept.fd = T(t).fd /\ kept.open = T(t).open
        /\ kept.resizing = FALSE /\ Sound(kept)
    BY <1>2 DEF Table, Sound
  <2> HIDE DEF kept
  <2>3. t \in Tasks \ KThreads /\ Wants(t, kept, loc[t], f_count) BY <1>1, <2>2, WantsStill
  <2>. QED BY <1>1, <2>1, <2>3
<1>. QED BY <1>5, <1>6

\* ... and keeps the invariant.
LEMMA ResizedStep == ASSUME IInv, short \subseteq short', NEW t \in Tasks, NEW ok, resized(t, ok) PROVE IInv'
<1>1. t \in Tasks \ KThreads /\ UNCHANGED tfiles BY ResizedWants
<1>2. PICK x : /\ Wants(t, x, loc[t], f_count)
               /\ want_fd(t, x, loc[t], f_count) \/ (put_table(t, x) /\ no_fd(t, loc[t], f_count))
  BY ResizedWants
<1>. QED BY <1>1, <1>2, WantFd, NoFd

\* A task that waited for the resizing of another keeps it.
LEMMA ResizeWaitedStep == ASSUME IInv, short \subseteq short', NEW t \in Tasks, resize_waited(t) PROVE IInv'
<1>1. pc[t] = "resize_wait" /\ ~T(t).resizing /\ UNCHANGED tfiles BY DEF resize_waited, At
<1>2. T(t) \in Table /\ Sound(T(t)) BY <1>1, Caller
<1>3. t \in Tasks \ KThreads /\ Wants(t, T(t), loc[t], f_count) BY <1>1, <1>2, WantsStill
<1>4. CASE loc[t].fd >= T(t).max_fds
  <2> DEFINE y == [T(t) EXCEPT !.resizing = TRUE]
  <2>1. put_table(t, y) /\ go(t, "resize", loc[t]) /\ UNCHANGED workVars BY <1>4 DEF resize_waited
  <2>2. /\ y \in Table /\ Sound(y) /\ y.fd = T(t).fd /\ y.open = T(t).open /\ y.count = T(t).count
        /\ y.max_fds = T(t).max_fds /\ y.resizing
    BY <1>2 DEF Table, Sound
  <2> HIDE DEF y
  <2>3. PICK l \in Locals : l = loc[t] BY DEF IInv, TypeOK
  <2>4. l.fd \in Fds /\ l.op # "none" /\ l.op = loc[t].op BY <1>1, <2>3 DEF IInv, Placed, PlaceOK
  <2>5. l = [l EXCEPT !.fd = l.fd] BY DEF Locals
  <2>6. PICK n \in Fds : l = [l EXCEPT !.fd = n] /\ l.fd = n BY <2>4, <2>5
  <2>7. l # NoLocals BY <2>4 DEF NoLocals
  <2>8. GoesOn(T(t), y, "resize", l, l)
    BY <1>1, <1>2, <1>4, <2>2, <2>3, <2>6, <2>7 DEF GoesOn, Reserved, Table, Fds
  <2>9. keepWorks /\ f_count' = f_count BY <2>1 DEF workVars, keepWorks
  <2>. QED BY <1>1, <1>3, <2>1, <2>2, <2>3, <2>6, <2>8, <2>9, WantGoesOn
<1>5. CASE ~(loc[t].fd >= T(t).max_fds)
  <2>1. want_fd(t, T(t), loc[t], f_count) BY <1>5 DEF resize_waited
  <2>. QED BY <1>1, <1>3, <2>1, WantFd
<1>. QED BY <1>4, <1>5

\* fd_install() keeps it: the slot that was promised to the task is empty;
\* and so does put_unused_fd() when the path walk fails.
LEMMA InstallStep ==
  ASSUME IInv, Queues, NEW t \in Tasks, NEW f \in Files \cup {NULL}, install_open(t, f)
  PROVE  IInv'
<1>1. pc[t] = "install" /\ done(t) /\ UNCHANGED tfiles /\ TypeOK /\ RefsOK
  BY DEF install_open, At, IInv
<1>2. t \in Tasks \ KThreads /\ T(t) \in Table /\ Sound(T(t)) /\ T(t).count > 0 BY <1>1, Caller
<1>3. PICK s \in Structs : tfiles[t] = s BY <1>1, Caller
<1>4. T(t) = tab[s] BY <1>3 DEF T
<1>5. PICK i \in Fds : loc[t].fd = i BY <1>1 DEF IInv, Placed, PlaceOK
<1>6. Reserved(T(t), i)
  <2>1. t \in Installing(s, i) BY <1>1, <1>3, <1>5 DEF Installing, At
  <2>. QED BY <1>2, <1>4, <2>1 DEF IInv, Promised
<1>7. PICK where \in {"user", "leave"} :
        pc' = [pc EXCEPT ![t] = where] /\ loc' = [loc EXCEPT ![t] = NoLocals]
  BY <1>1, CallDone
<1>8. go(t, where, NoLocals) /\ PlaceOK(t, tfiles[t], where, NoLocals) BY <1>2, <1>3, <1>7, NoLocalsOK DEF go
<1>9. \A g \in Files : Hand(loc[t], g) = 0 /\ Hand(NoLocals, g) = 0
  <2>1. loc[t].file = NULL BY <1>1 DEF IInv, Placed, PlaceOK
  <2>. QED BY <2>1, NoLocalsOK, TableAssumption DEF Hand, One, Holds
<1>10. T(t).fd[i] = NULL /\ i \in T(t).open BY <1>6 DEF Reserved
<1>11. CASE f = NULL
  <2> DEFINE y == __put_unused_fd(T(t), i)
  <2>1. put_table(t, y) /\ f_count' = f_count /\ keepWorks /\ short' = short
    BY <1>5, <1>11 DEF install_open, workVars, keepWorks
  <2>2. T(t).fd = [T(t).fd EXCEPT ![i] = NULL] BY <1>2, <1>10 DEF Table
  <2>3. y \in Table /\ Sound(y) /\ SameShape(T(t), y) /\ y.open = T(t).open \ {i} /\ y.fd = T(t).fd
    BY <1>2, <2>2, PutUnused DEF SameShape
  <2> HIDE DEF y
  <2>4. Replaces(t, y, where, NoLocals)
    <3>1. \A j \in Fds : Reserved(y, j) <=> Reserved(T(t), j) /\ j # i BY <2>3 DEF Reserved
    <3>. QED BY <1>1, <1>5, <1>8, <2>3, <3>1, NoLocalsOK DEF Replaces, SameShape, Busy
  <2>5. Frame' BY <1>1, <1>2, <1>8, <2>1, <2>4, NoWorks, TableStep DEF TypeOK
  <2>6. ASSUME NEW g \in Files PROVE Refs(g)' = Refs(g) + (f_count[g] - f_count[g])
    <3>1. SlotsSame BY <1>2, <1>3, <2>1, <2>3, SlotsKept
    <3>2. Refs(g)' = Refs(g) - Hand(loc[t], g) + Hand(NoLocals, g) BY <1>1, <1>7, <3>1, HandBalance DEF TypeOK
    <3>3. Refs(g) \in Nat /\ f_count[g] \in Nat BY <1>1, RefsFinite DEF TypeOK
    <3>. QED BY <1>9, <3>2, <3>3
  <2>7. RefsOK' BY <1>1, <2>1, <2>6, RefsTaken DEF TypeOK
  <2>. QED BY <2>5, <2>7 DEF Frame, IInv
<1>12. CASE f # NULL
  <2> DEFINE y == [T(t) EXCEPT !.fd[i] = f]
  <2>1. f \in Files /\ put_table(t, y) /\ get_empty_file(f) BY <1>5, <1>12 DEF install_open
  <2>2. /\ y \in Table /\ Sound(y) /\ SameShape(T(t), y) /\ y.open = T(t).open
        /\ y.fd = [T(t).fd EXCEPT ![i] = f]
    BY <1>2, <1>10, <2>1 DEF Table, Sound, SameShape
  <2> HIDE DEF y
  <2>4. Replaces(t, y, where, NoLocals)
    <3>1. y.fd[i] = f /\ \A j \in Fds \ {i} : y.fd[j] = T(t).fd[j] BY <1>2, <2>2 DEF Table
    <3>2. \A j \in Fds : Reserved(y, j) <=> Reserved(T(t), j) /\ j # i BY <1>12, <2>2, <3>1 DEF Reserved
    <3>. QED BY <1>1, <1>5, <1>8, <2>2, <3>2, NoLocalsOK DEF Replaces, SameShape, Busy
  <2>5. Frame' BY <1>1, <1>2, <1>8, <2>1, <2>4, NewWorks, TableStep
  <2>6. ASSUME NEW g \in Files PROVE Refs(g)' = Refs(g) + Slot(f, g)
    <3>1. SlotBecomes(s, i, f) BY <1>2, <1>3, <2>1, <2>2, SlotPut
    <3>2. Moved(g, loc[t], NoLocals, tab[s].fd[i], f) BY <1>1, <1>7, <3>1, Balance DEF TypeOK
    <3>3. Slot(tab[s].fd[i], g) = 0 BY <1>4, <1>10, TableAssumption DEF Slot, One
    <3>4. Refs(g)' = Refs(g) - 0 + 0 - 0 + Slot(f, g) BY <1>9, <3>2, <3>3 DEF Moved
    <3>5. Refs(g) \in Nat /\ Slot(f, g) \in Nat BY RefsFinite DEF Slot, One
    <3>. QED BY <3>4, <3>5
  <2>7. RefsOK' BY <1>1, <2>1, <2>6, NewRefs
  <2>. QED BY <2>5, <2>7 DEF Frame, IInv
<1>. QED BY <1>11, <1>12

\* A slot is emptied and the reference that it had is dropped.
LEMMA SlotDropped ==
  ASSUME TypeOK, RefsOK, short \subseteq short', NEW t \in Tasks, NEW l, loc' = [loc EXCEPT ![t] = l],
         \A f \in Files : Hand(l, f) = Hand(loc[t], f),
         NEW s \in Structs, NEW i \in Fds, SlotBecomes(s, i, NULL),
         NEW g \in Files, g = tab[s].fd[i], fput(t, g, f_count)
  PROVE  RefsOK'
<1>1. ASSUME NEW f \in Files PROVE Refs(f)' = Refs(f) + (f_count[f] - f_count[f]) - Slot(f, g)
  <2>1. Moved(f, loc[t], l, tab[s].fd[i], NULL) BY Balance DEF TypeOK
  <2>2. Slot(NULL, f) = 0 /\ Slot(tab[s].fd[i], f) = Slot(f, g) BY TableAssumption DEF Slot, One
  <2>3. Refs(f)' = Refs(f) - Hand(loc[t], f) + Hand(loc[t], f) - Slot(f, g) + 0 BY <2>1, <2>2 DEF Moved
  <2>4. Refs(f) \in Nat /\ f_count[f] \in Nat /\ Slot(f, g) \in Nat /\ Hand(loc[t], f) \in Nat
    BY RefsFinite DEF TypeOK, Slot, One, Hand
  <2>. QED BY <2>3, <2>4
<1>2. f_count \in [Files -> Nat] /\ \A f \in Files : Refs(f)' \in Nat BY RefsFinite DEF TypeOK
<1>. QED BY <1>1, <1>2, RefsDropped

\* close(), and a turn of do_close_on_exec(), which goes on with l.
LEMMA SlotClosed ==
  ASSUME IInv, short \subseteq short', NEW t \in Tasks \ KThreads, pc[t] \in {"user", "exec"},
         NEW fd \in Fds, T(t).fd[fd] # NULL, NEW cloexec \in SUBSET Fds,
         NEW where \in {"user", "leave", "exec"}, NEW l \in Locals, PlaceOK(t, tfiles[t], where, l), l.file = NULL,
         put_table(t, __put_unused_fd([T(t) EXCEPT !.fd[fd] = NULL, !.cloexec = cloexec], fd)),
         fput(t, T(t).fd[fd], f_count), go(t, where, l), UNCHANGED tfiles
  PROVE  IInv'
<1>1. TypeOK /\ RefsOK BY DEF IInv
<1>2. PICK s \in Structs : tfiles[t] = s BY DEF IInv, Placed, PlaceOK, WithTable
<1>3. T(t) = tab[s] /\ T(t) \in Table /\ Sound(T(t)) BY <1>2, TableUsed DEF T
<1>4. PICK g \in Files : g = T(t).fd[fd] BY <1>3 DEF Table
<1> DEFINE z == [T(t) EXCEPT !.fd[fd] = NULL, !.cloexec = cloexec]
           y == __put_unused_fd(z, fd)
<1>5. z \in Table /\ SameShape(T(t), z) /\ z.open = T(t).open /\ z.full = T(t).full /\ z.next_fd = T(t).next_fd
      /\ z.fd = [T(t).fd EXCEPT ![fd] = NULL]
  BY <1>3 DEF Table, SameShape
<1>6. put_table(t, y) OBVIOUS
<1> HIDE DEF z
<1>7. y \in Table /\ Sound(y) /\ SameShape(T(t), y) /\ y.open = T(t).open \ {fd} /\ y.fd = z.fd
  BY <1>3, <1>5, PutUnused
<1> HIDE DEF y
<1>8. WorksKept(t) BY <1>1, <1>4, FputWorks DEF TypeOK
<1>9. Replaces(t, y, where, l)
  <2>1. \A j \in Fds \ {fd} : y.fd[j] = T(t).fd[j] BY <1>3, <1>5, <1>7 DEF Table
  <2>2. \A j \in Fds : Reserved(y, j) <=> Reserved(T(t), j) BY <1>7, <2>1 DEF Reserved
  <2>. QED BY <1>7, <2>2 DEF Replaces, SameShape, Busy
<1>10. Frame' BY <1>6, <1>8, <1>9, TableStep
<1>11. SlotBecomes(s, fd, NULL) BY <1>2, <1>5, <1>6, <1>7, SlotPut
<1>12. \A f \in Files : Hand(l, f) = Hand(loc[t], f)
  <2>1. loc[t].file = NULL BY Caller DEF Calls, At
  <2>. QED BY <2>1, TableAssumption DEF Hand, Holds, One
<1>13. RefsOK' BY <1>1, <1>3, <1>4, <1>11, <1>12, SlotDropped DEF go
<1>. QED BY <1>10, <1>13 DEF Frame, IInv

\* close() keeps the invariant.
LEMMA CloseStep == ASSUME IInv, short \subseteq short', NEW t \in Tasks, NEW fd \in Fds, close(t, fd) PROVE IInv'
<1>1. t \in Tasks \ KThreads /\ pc[t] = "user" /\ T(t) \in Table /\ tfiles[t] \in Structs BY Caller DEF close
<1>2. PICK where \in {"user", "leave"} : go(t, where, NoLocals) BY DEF close, done, go
<1>3. PICK c \in SUBSET Fds : c = T(t).cloexec BY <1>1 DEF Table
<1>4. [T(t) EXCEPT !.fd[fd] = NULL] = [T(t) EXCEPT !.fd[fd] = NULL, !.cloexec = c] BY <1>1, <1>3 DEF Table
<1>5. PlaceOK(t, tfiles[t], where, NoLocals) /\ NoLocals \in Locals BY <1>1, NoLocalsOK
<1>6. NoLocals.file = NULL BY DEF NoLocals
<1>7. /\ put_table(t, __put_unused_fd([T(t) EXCEPT !.fd[fd] = NULL, !.cloexec = c], fd))
      /\ fput(t, T(t).fd[fd], f_count) /\ T(t).fd[fd] # NULL /\ UNCHANGED tfiles
  BY <1>4 DEF close
<1>8. PICK l \in Locals : l = NoLocals BY <1>5
<1>. QED BY <1>1, <1>2, <1>5, <1>6, <1>7, <1>8, SlotClosed

\* The first descriptor that is marked and holds a file.
LEMMA MarkedFirst ==
  ASSUME NEW x \in Table, NEW marks \in SUBSET Fds, Marked(marks, x.fd) # {}
  PROVE  LET fd == Min(Marked(marks, x.fd)) IN fd \in Fds /\ x.fd[fd] # NULL
<1> DEFINE S == Marked(marks, x.fd)
<1>1. S \in SUBSET Nat /\ S # {}
  <2>1. Fds \subseteq Nat BY TableAssumption DEF Fds
  <2>. QED BY <2>1 DEF Marked
<1>2. Min(S) \in S
  <2> HIDE DEF S
  <2>. QED BY <1>1, MinOf
<1>. QED BY <1>2 DEF Marked

\* do_close_on_exec() is at a file of the task's own table, on its way.
LEMMA ExecGoesOn ==
  ASSUME NEW t \in Tasks \ KThreads, tfiles[t] \in Structs, NEW l \in Locals, l.file = NULL,
         l.files = NULL, l.child = NULL
  PROVE  PlaceOK(t, tfiles[t], "exec", l)
BY FilesAssumption DEF PlaceOK, WithTable

\* So does each turn of do_close_on_exec() that finds its fdtable in place.
LEMMA CloseOnExecStep ==
  ASSUME IInv, UNCHANGED short, NEW t \in Tasks, do_close_on_exec(t), ~torn'
  PROVE  IInv'
<1>1. /\ t \in Tasks \ KThreads /\ pc[t] \in {"user", "exec"} /\ T(t) \in Table /\ Sound(T(t)) /\ tfiles[t] \in Structs
      /\ loc[t].file = NULL
  BY Caller DEF do_close_on_exec, At, Calls
<1>2. loc[t] \in Locals /\ loc[t].files = NULL /\ loc[t].child = NULL
  <2>1. loc[t] \in Locals /\ loc[t].files \notin Structs /\ loc[t].child \notin Tasks
    BY <1>1 DEF IInv, TypeOK, Placed, PlaceOK
  <2>. QED BY <2>1 DEF Locals
<1>3. PICK slots \in SlotsRead(t) :
        close_on_exec_bit(t, slots) \/ close_on_exec_word(t, slots) \/ close_on_exec_end(t, slots)
  BY DEF do_close_on_exec
<1>4. CASE close_on_exec_bit(t, slots)
  <2> DEFINE fd == Min(Marked(loc[t].set, T(t).fd))
             rest == {i \in loc[t].set : i > fd}
             l == [loc[t] EXCEPT !.fd = fd, !.set = rest]
  <2>1. ~Stale(t) /\ slots = T(t).fd /\ UNCHANGED tfiles
    BY <1>3, <1>4 DEF close_on_exec_bit, SlotsRead
  <2>2. /\ Marked(loc[t].set, T(t).fd) # {} /\ fput(t, T(t).fd[fd], f_count) /\ go(t, "exec", l)
        /\ put_table(t, __put_unused_fd([T(t) EXCEPT !.fd[fd] = NULL], fd))
    BY <1>2, <1>4, <2>1 DEF close_on_exec_bit, Locals
  <2>3. fd \in Fds /\ T(t).fd[fd] # NULL BY <1>1, <1>2, <2>2, MarkedFirst DEF Locals
  <2> HIDE DEF fd
  <2>4. l \in Locals /\ l.file = NULL /\ l.files = NULL /\ l.child = NULL
    <3>1. rest \in SUBSET Fds /\ fd \in Nat BY <1>2, <2>3 DEF Locals, Fds
    <3> HIDE DEF rest
    <3>. QED BY <1>1, <1>2, <3>1 DEF Locals
  <2> HIDE DEF l
  <2>5. PICK c \in SUBSET Fds : c = T(t).cloexec BY <1>1 DEF Table
  <2>6. [T(t) EXCEPT !.fd[fd] = NULL] = [T(t) EXCEPT !.fd[fd] = NULL, !.cloexec = c] BY <1>1, <2>5 DEF Table
  <2>7. PlaceOK(t, tfiles[t], "exec", l) BY <1>1, <2>4, ExecGoesOn
  <2>. QED BY <1>1, <2>1, <2>2, <2>3, <2>4, <2>6, <2>7, SlotClosed
<1>5. CASE close_on_exec_word(t, slots)
  <2> DEFINE marks == {i \in T(t).cloexec : ToCome(t, i)}
             fd == Min(Marked(marks, T(t).fd))
             rest == {i \in T(t).cloexec : ToCome(t, i) => Word(i) > Word(fd)}
             next == {i \in marks : Word(i) = Word(fd) /\ i > fd}
             l == [NoLocals EXCEPT !.fd = fd, !.fd2 = T(t).max_fds, !.set = next]
  <2>1. /\ Marked(marks, T(t).fd) # {} /\ fput(t, T(t).fd[fd], f_count) /\ go(t, "exec", l)
        /\ put_table(t, __put_unused_fd([T(t) EXCEPT !.fd[fd] = NULL, !.cloexec = rest], fd))
        /\ UNCHANGED tfiles
    BY <1>1, <1>5 DEF close_on_exec_word, Table
  <2>2. marks \in SUBSET Fds /\ rest \in SUBSET Fds /\ T(t).max_fds \in Nat BY <1>1 DEF Table
  <2> HIDE DEF marks, rest
  <2>3. fd \in Fds /\ T(t).fd[fd] # NULL BY <1>1, <2>1, <2>2, MarkedFirst
  <2> HIDE DEF fd
  <2>4. l \in Locals /\ l.file = NULL /\ l.files = NULL /\ l.child = NULL
    <3>1. NoLocals.file = NULL /\ NoLocals.files = NULL /\ NoLocals.child = NULL BY DEF NoLocals
    <3>2. next \in SUBSET Fds BY <2>2
    <3>3. fd \in Nat BY <2>3 DEF Fds
    <3> HIDE DEF next
    <3>. QED BY <2>2, <3>1, <3>2, <3>3, NoLocalsOK DEF Locals
  <2> HIDE DEF l
  <2>5. PlaceOK(t, tfiles[t], "exec", l) BY <1>1, <2>4, ExecGoesOn
  <2>. QED BY <1>1, <2>1, <2>2, <2>3, <2>4, <2>5, SlotClosed
<1>6. CASE close_on_exec_end(t, slots)
  <2> DEFINE y == [T(t) EXCEPT !.cloexec = {i \in @ : ~ToCome(t, i)}]
  <2>1. UNCHANGED workVars /\ put_table(t, y) /\ done(t) /\ UNCHANGED tfiles BY <1>6 DEF close_on_exec_end
  <2>2. y \in Table /\ Sound(y) /\ SameShape(T(t), y) /\ y.open = T(t).open /\ y.fd = T(t).fd
    BY <1>1 DEF Table, Sound, SameShape
  <2> HIDE DEF y
  <2>4. PICK where \in {"user", "leave"} :
          pc' = [pc EXCEPT ![t] = where] /\ loc' = [loc EXCEPT ![t] = NoLocals]
    BY <2>1, CallDone
  <2>5. go(t, where, NoLocals) /\ PlaceOK(t, tfiles[t], where, NoLocals) BY <1>1, <2>4, NoLocalsOK DEF go
  <2>6. TypeOK /\ RefsOK /\ keepWorks /\ f_count' = f_count BY <2>1 DEF IInv, workVars, keepWorks
  <2>7. Replaces(t, y, where, NoLocals) BY <1>1, <2>2, <2>5, NoLocalsOK DEF Replaces, SameShape, Busy, Reserved
  <2>8. Frame' BY <1>1, <2>1, <2>5, <2>6, <2>7, NoWorks, TableStep DEF TypeOK
  <2>9. ASSUME NEW g \in Files PROVE Refs(g)' = Refs(g) + (f_count[g] - f_count[g])
    <3>1. SlotsSame BY <1>1, <2>1, <2>2, SlotsKept
    <3>2. Refs(g)' = Refs(g) - Hand(loc[t], g) + Hand(NoLocals, g) BY <2>4, <2>6, <3>1, HandBalance DEF TypeOK
    <3>3. Refs(g) \in Nat /\ f_count[g] \in Nat BY <2>6, RefsFinite DEF TypeOK
    <3>4. Hand(loc[t], g) = 0 /\ Hand(NoLocals, g) = 0
      BY <1>1, NoLocalsOK, TableAssumption DEF Hand, Holds, One
    <3>. QED BY <3>2, <3>3, <3>4
  <2>10. RefsOK' BY <2>6, <2>9, RefsTaken DEF TypeOK
  <2>. QED BY <2>8, <2>10 DEF Frame, IInv
<1>. QED BY <1>3, <1>4, <1>5, <1>6

----------------------------------------------------------------------------
(* Steps without a table *)

\* The counts of a step that takes or leaves references, without a slot.
LEMMA QuietRefs ==
  ASSUME TypeOK, RefsOK, short \subseteq short', NEW t \in Tasks, NEW l, loc' = [loc EXCEPT ![t] = l], UNCHANGED tab,
         NEW refs \in [Files -> Nat], f_count' = refs,
         \A f \in Files : refs[f] = f_count[f] + Hand(l, f) - Hand(loc[t], f)
  PROVE  RefsOK'
<1>1. ASSUME NEW f \in Files PROVE Refs(f)' = Refs(f) + (refs[f] - f_count[f])
  <2>1. SlotsSame BY DEF SlotsSame
  <2>2. Refs(f)' = Refs(f) - Hand(loc[t], f) + Hand(l, f) BY <2>1, HandBalance DEF TypeOK
  <2>3. refs[f] = f_count[f] + Hand(l, f) - Hand(loc[t], f) OBVIOUS
  <2>4. Refs(f) \in Nat /\ f_count[f] \in Nat /\ Hand(l, f) \in Nat /\ Hand(loc[t], f) \in Nat
    BY RefsFinite DEF TypeOK, Hand, One
  <2>. QED BY <2>2, <2>3, <2>4
<1>. QED BY <1>1, RefsTaken

\* fdget() keeps it, on the light path and on the counted one.
LEMMA FdgetStep == ASSUME IInv, short \subseteq short', NEW t \in Tasks, NEW fd \in Fds, fdget(t, fd) PROVE IInv'
<1>1. /\ t \in Tasks \ KThreads /\ T(t) \in Table /\ loc[t] = NoLocals /\ pc[t] = "user" /\ Calls(t)
      /\ TypeOK /\ RefsOK
  BY Caller DEF fdget, IInv
<1>2. PICK g \in Files : g = T(t).fd[fd] BY <1>1 DEF fdget, Table
<1>3. PICK path \in {"light", "counted"} : path = IF T(t).count = 1 THEN "light" ELSE "counted" OBVIOUS
<1> DEFINE refs == IF path = "counted" THEN [f_count EXCEPT ![g] = @ + 1] ELSE f_count
           l == [NoLocals EXCEPT !.op = path, !.file = g]
<1>4. f_count' = refs /\ go(t, "use", l) /\ keepWorks /\ UNCHANGED <<tab, tfiles>> BY <1>2, <1>3 DEF fdget
<1>5. refs \in [Files -> Nat] BY <1>1 DEF TypeOK
<1>6. path \in {"light", "counted"} OBVIOUS
<1>7. l \in Locals /\ l.op = path /\ l.file = g /\ l.files = NULL /\ l.child = NULL
  <2>1. NoLocals.files = NULL /\ NoLocals.child = NULL BY DEF NoLocals
  <2>. QED BY <1>6, <2>1, NoLocalsOK DEF Locals
<1> HIDE DEF l
<1>8. \A f \in Files : refs[f] = f_count[f] + Hand(l, f) - Hand(loc[t], f)
  <2> SUFFICES ASSUME NEW f \in Files PROVE refs[f] = f_count[f] + Hand(l, f) - Hand(loc[t], f) OBVIOUS
  <2>1. f_count[f] \in Nat /\ Hand(loc[t], f) = 0 BY <1>1, NoLocalsOK DEF TypeOK
  <2>2. CASE path = "light"
    <3>1. Hand(l, f) = 0 /\ refs[f] = f_count[f] BY <1>7, <2>2 DEF Hand, Holds, One
    <3>. QED BY <2>1, <3>1
  <2>3. CASE path = "counted"
    <3>1. refs[f] = f_count[f] + Hand(l, f) /\ Hand(l, f) \in Nat BY <1>1, <1>7, <2>3 DEF Hand, Holds, One, TypeOK
    <3>. QED BY <2>1, <3>1
  <2>. QED BY <1>6, <2>2, <2>3
<1> HIDE DEF refs
<1>9. RefsOK' BY <1>1, <1>4, <1>5, <1>8, QuietRefs DEF go
<1>10. Frame'
  <2>1. WorksKept(t) BY <1>1, <1>4, <1>5, NoWorks
  <2>2. PlaceOK(t, tfiles[t], "use", l)
    <3>1. tfiles[t] \in Structs BY <1>1, Caller
    <3>2. NULL \notin Structs /\ NULL \notin Tasks BY FilesAssumption
    <3>. QED BY <1>1, <1>7, <3>1, <3>2 DEF PlaceOK, WithTable
  <2>. QED BY <1>1, <1>4, <1>7, <2>1, <2>2, QuietStep DEF go, Aside
<1>. QED BY <1>9, <1>10 DEF Frame, IInv

\* fdput() keeps it.
LEMMA FdputStep == ASSUME IInv, NEW t \in Tasks, fdput(t) PROVE IInv'
<1>1. pc[t] = "use" /\ UNCHANGED <<tab, tfiles>> /\ TypeOK /\ RefsOK BY DEF fdput, At, IInv
<1>2. PICK g \in Files : g = loc[t].file BY <1>1 DEF IInv, Placed, PlaceOK
<1>3. fput(t, g, f_count) BY <1>2 DEF fdput
<1>4. PICK where \in {"user", "leave"} :
        pc' = [pc EXCEPT ![t] = where] /\ loc' = [loc EXCEPT ![t] = NoLocals]
  BY CallDone DEF fdput
<1>5. Frame'
  <2>1. WorksKept(t) BY <1>1, <1>3, FputWorks DEF TypeOK
  <2>2. (t \in KThreads => tfiles[t] = NULL) /\ (t \notin KThreads => tfiles[t] \in Structs)
    BY <1>1 DEF IInv, Placed, PlaceOK, WithTable
  <2>3. PlaceOK(t, tfiles[t], where, NoLocals) BY <1>1, <2>2, NoLocalsOK DEF TypeOK
  <2>. QED BY <1>1, <1>4, <2>1, <2>3, NoLocalsOK, QuietStep DEF Aside
<1>6. ASSUME NEW f \in Files
      PROVE  /\ Refs(f)' >= Refs(f) + (f_count[f] - f_count[f]) - Slot(f, g)
             /\ f \notin short' => Refs(f)' = Refs(f) + (f_count[f] - f_count[f]) - Slot(f, g)
  <2>1. SlotsSame BY <1>1 DEF SlotsSame
  <2>2. Refs(f)' = Refs(f) - Hand(loc[t], f) + Hand(NoLocals, f) BY <1>1, <1>4, <2>1, HandBalance DEF TypeOK
  <2>3. Hand(NoLocals, f) = 0 /\ f_count[f] \in Nat /\ Refs(f) \in Nat BY <1>1, NoLocalsOK, RefsFinite DEF TypeOK
  <2>4. Hand(loc[t], f) \in {0, Slot(f, g)} /\ Slot(f, g) \in Nat BY <1>2 DEF Hand, Slot, Holds, One
  <2>5. ASSUME f \notin short' PROVE Hand(loc[t], f) = Slot(f, g)
    <3>1. loc[t].op # "light" \/ f # g BY <1>2, <2>5 DEF fdput
    <3>. QED BY <1>2, <3>1 DEF Hand, Slot, Holds, One
  <2>. QED BY <2>2, <2>3, <2>4, <2>5
<1>7. short \subseteq short' BY DEF fdput
<1>8. RefsOK' BY <1>1, <1>3, <1>6, <1>7, RefsDropped DEF TypeOK
<1>. QED BY <1>5, <1>8 DEF Frame, IInv

\* A kernel thread that opens a file keeps it.
LEMMA KthreadOpenStep == ASSUME IInv, Queues, NEW t \in Tasks, NEW g \in Files, kthread_open(t, g) PROVE IInv'
<1> DEFINE l == [NoLocals EXCEPT !.op = "counted", !.file = g]
<1>1. /\ t \in KThreads /\ pc[t] = "user" /\ get_empty_file(g) /\ go(t, "use", l)
      /\ UNCHANGED <<tab, tfiles>> /\ TypeOK /\ RefsOK
  BY DEF kthread_open, At, IInv
<1>2. loc[t] = NoLocals /\ tfiles[t] = NULL BY <1>1 DEF IInv, Placed, PlaceOK
<1>3. l \in Locals /\ l.op = "counted" /\ l.file = g /\ l.files = NULL /\ l.child = NULL
  <2>1. NoLocals.files = NULL /\ NoLocals.child = NULL BY DEF NoLocals
  <2>. QED BY <2>1, NoLocalsOK DEF Locals
<1> HIDE DEF l
<1>4. ASSUME NEW f \in Files PROVE Refs(f)' = Refs(f) + Slot(g, f)
  <2>1. Hand(loc[t], f) = 0 /\ Hand(l, f) = Slot(g, f) /\ Slot(g, f) \in Nat /\ Refs(f) \in Nat
    BY <1>2, <1>3, NoLocalsOK, RefsFinite DEF Hand, Slot, Holds, One
  <2>2. SlotsSame BY <1>1 DEF SlotsSame
  <2>3. Refs(f)' = Refs(f) - Hand(loc[t], f) + Hand(l, f) BY <1>1, <2>2, HandBalance DEF TypeOK, go
  <2>. QED BY <2>1, <2>3
<1>5. RefsOK' BY <1>1, <1>4, NewRefs
<1>6. Frame'
  <2>1. WorksKept(t) BY <1>1, NewWorks
  <2>2. PlaceOK(t, tfiles[t], "use", l)
    <3>1. NULL \notin Structs /\ NULL \notin Tasks BY FilesAssumption
    <3>. QED BY <1>1, <1>2, <1>3, <3>1 DEF PlaceOK, WithTable
  <2>. QED BY <1>1, <1>3, <2>1, <2>2, QuietStep DEF go, Aside
<1>. QED BY <1>5, <1>6 DEF Frame, IInv

\* The closing of a file on the way back to user mode keeps it.
LEMMA TaskWorkRunStep == ASSUME IInv, short \subseteq short', NEW t \in Tasks, task_work_run(t) PROVE IInv'
<1>1. pc[t] \in {"leave", "exit_run"} /\ __fput(t) /\ UNCHANGED <<tab, tfiles, loc>> /\ TypeOK /\ RefsOK
  BY DEF task_work_run, IInv
<1>2. PICK where \in {"user", "leave", "exit_run"} :
        /\ pc' = [pc EXCEPT ![t] = where] /\ (pc[t] = "exit_run" <=> where = "exit_run")
  BY <1>1 DEF task_work_run
<1>3. loc[t] = NoLocals /\ loc' = [loc EXCEPT ![t] = NoLocals] BY <1>1 DEF IInv, Placed, PlaceOK, TypeOK
<1>4. WorksKept(t)
  <2> DEFINE list == IF todo[t] # <<>> THEN todo[t] ELSE task_works[t]
  <2>1. list \in Seq(Files) /\ list # <<>> BY <1>1 DEF __fput, TypeOK
  <2>2. Tail(list) \in Seq(Files) /\ <<>> \in Seq(Files) BY <2>1
  <2>3. todo' = [todo EXCEPT ![t] = Tail(list)] /\ (task_works' = task_works \/ task_works' = [task_works EXCEPT ![t] = <<>>])
        /\ pending' \in BOOLEAN /\ UNCHANGED <<f_count, work_exited, delayed_fput_list>> /\ alloc' \subseteq alloc
    BY <1>1 DEF __fput, TypeOK
  <2> HIDE DEF list
  <2>. QED BY <1>1, <2>2, <2>3 DEF WorksKept, TypeOK
<1>5. f_count' = f_count /\ f_count \in [Files -> Nat] BY <1>1 DEF __fput, TypeOK
<1>6. RefsOK'
  <2>1. PICK refs \in [Files -> Nat] : refs = f_count BY <1>5
  <2>2. \A f \in Files : refs[f] = f_count[f] + Hand(NoLocals, f) - Hand(loc[t], f) BY <1>3, <2>1, NoLocalsOK
  <2>3. TypeOK /\ RefsOK /\ UNCHANGED tab BY <1>1
  <2>. QED BY <1>3, <1>5, <2>1, <2>2, <2>3, QuietRefs
<1>7. Frame'
  <2>1. PlaceOK(t, tfiles[t], where, NoLocals)
    <3>1. CASE pc[t] = "leave"
      <4>1. (t \in KThreads => tfiles[t] = NULL) /\ (t \notin KThreads => tfiles[t] \in Structs)
        BY <3>1 DEF IInv, Placed, PlaceOK, WithTable
      <4>. QED BY <1>1, <1>2, <3>1, <4>1, NoLocalsOK DEF TypeOK
    <3>2. CASE pc[t] = "exit_run" BY <1>2, <1>3, <3>2 DEF IInv, Placed
    <3>. QED BY <1>1, <3>1, <3>2
  <2>. QED BY <1>1, <1>2, <1>3, <1>4, <2>1, NoLocalsOK, QuietStep DEF Aside
<1>. QED BY <1>6, <1>7 DEF Frame, IInv

\* The end of exit_task_work() keeps it: no file is left on the lists.
LEMMA ExitTaskWorkStep == ASSUME IInv, short \subseteq short', NEW t \in Tasks, exit_task_work(t) PROVE IInv'
<1>1. /\ pc[t] = "exit_run" /\ close_task_works(t) /\ UNCHANGED <<tab, tfiles, loc>> /\ TypeOK /\ RefsOK
      /\ pc' = [pc EXCEPT ![t] = "none"]
  BY DEF exit_task_work, IInv, At
<1>2. loc[t] = NoLocals /\ loc' = [loc EXCEPT ![t] = NoLocals] BY <1>1 DEF IInv, Placed, PlaceOK, TypeOK
<1>3. WorksKept(t) /\ task_works'[t] = <<>> /\ todo'[t] = <<>> BY <1>1 DEF close_task_works, WorksKept, TypeOK
<1>4. f_count' = f_count /\ f_count \in [Files -> Nat] BY <1>1 DEF close_task_works, TypeOK
<1>5. RefsOK'
  <2>1. PICK refs \in [Files -> Nat] : refs = f_count BY <1>4
  <2>2. \A f \in Files : refs[f] = f_count[f] + Hand(NoLocals, f) - Hand(loc[t], f) BY <1>2, <2>1, NoLocalsOK
  <2>3. TypeOK /\ RefsOK /\ UNCHANGED tab BY <1>1
  <2>. QED BY <1>2, <1>4, <2>1, <2>2, <2>3, QuietRefs
<1>6. Frame'
  <2>1. PlaceOK(t, tfiles[t], "none", NoLocals)
    <3>1. PlaceOK(t, tfiles[t], "exit_run", NoLocals) BY <1>1, <1>2 DEF IInv, Placed
    <3>. QED BY <3>1 DEF PlaceOK, WithTable
  <2>. QED BY <1>1, <1>2, <1>3, <2>1, NoLocalsOK, QuietStep DEF Aside
<1>. QED BY <1>5, <1>6 DEF Frame, IInv

----------------------------------------------------------------------------
(* Processes *)

\* A step of fork() or exit(), of task t and perhaps its child c: nobody else's
\* place changes.
Others(t, c) ==
  \A u \in Tasks \ {t, c} : pc'[u] = pc[u] /\ loc'[u] = loc[u] /\ tfiles'[u] = tfiles[u]

\* Table s becomes y: the same one with another count, or one that no open()
\* and no resize is about.
Remade(s, y) ==
  /\ y \in Table /\ Sound(y) /\ tab' = [tab EXCEPT ![s] = y]
  /\ \/ /\ tab[s].count > 0 /\ y.fd = tab[s].fd /\ y.open = tab[s].open
        /\ y.max_fds = tab[s].max_fds /\ y.resizing = tab[s].resizing
     \/ /\ \A u \in Tasks : tfiles[u] = s => pc[u] \notin {"install", "resize"}
        /\ y.count > 0 => ~y.resizing /\ \A i \in Fds : ~Reserved(y, i)

\* What fork() and exit() have in common: two tasks change places and one
\* table is remade.
LEMMA ProcessStep ==
  ASSUME IInv, NEW t \in Tasks, NEW c \in Tasks, Others(t, c), NEW s \in Structs, NEW y, Remade(s, y),
         tfiles' \in [Tasks -> Structs \cup {NULL}], pc' \in [Tasks -> Location], loc' \in [Tasks -> Locals],
         \A u \in {t, c} : /\ PlaceOK(u, tfiles'[u], pc'[u], loc'[u])
                           /\ pc[u] \notin {"install", "resize"} /\ pc'[u] \notin {"install", "resize"},
         WorksKept(t)
  PROVE  /\ TypeOK' /\ (\A r \in Structs : Sound(tab'[r])) /\ Placed' /\ Promised' /\ OneResizes'
         /\ tab'[s] = y /\ \A r \in Structs \ {s} : tab'[r] = tab[r]
<1>1. tab' \in [Structs -> Table] /\ tab'[s] = y /\ \A r \in Structs \ {s} : tab'[r] = tab[r]
  BY DEF Remade, IInv, TypeOK
<1>2. TypeOK' BY <1>1 DEF IInv, TypeOK, WorksKept
<1>3. \A r \in Structs : Sound(tab'[r]) BY <1>1 DEF IInv, Remade
<1>4. Placed' BY DEF IInv, Placed, Others
<1>5. \A r \in Structs, i \in Fds : Installing(r, i)' = Installing(r, i) BY DEF Installing, At, Others
<1>6. \A r \in Structs : Resizing(r)' = Resizing(r) BY DEF Resizing, At, Others
<1>7. Promised'
  <2> SUFFICES ASSUME NEW r \in Structs, tab'[r].count > 0, NEW i \in Fds
               PROVE  /\ Reserved(tab'[r], i) <=> Installing(r, i) # {}
                      /\ \A v, x \in Installing(r, i) : v = x
    BY <1>5 DEF Promised, Reserved
  <2>1. CASE r # s BY <1>1, <2>1 DEF IInv, Promised
  <2>2. CASE r = s /\ tab[s].count > 0 /\ y.fd = tab[s].fd /\ y.open = tab[s].open
    BY <1>1, <2>2 DEF IInv, Promised, Reserved
  <2>3. CASE r = s /\ ~Reserved(y, i) /\ \A u \in Tasks : tfiles[u] = s => pc[u] \notin {"install", "resize"}
    <3>1. Installing(r, i) = {} BY <2>3 DEF Installing, At
    <3>. QED BY <1>1, <2>3, <3>1
  <2>. QED BY <1>1, <2>1, <2>2, <2>3 DEF Remade
<1>8. ASSUME NEW r \in Structs, tab'[r].count > 0
      PROVE  (tab'[r].resizing <=> Resizing(r)' # {}) /\ \A v, x \in Resizing(r)' : v = x
  <2>1. CASE r # s BY <1>1, <1>6, <1>8, <2>1 DEF IInv, OneResizes
  <2>2. CASE r = s /\ tab[s].count > 0 /\ y.resizing = tab[s].resizing BY <1>1, <1>6, <2>2 DEF IInv, OneResizes
  <2>3. CASE r = s /\ ~y.resizing /\ \A u \in Tasks : tfiles[u] = s => pc[u] \notin {"install", "resize"}
    <3>1. Resizing(r) = {} BY <2>3 DEF Resizing, At
    <3>. QED BY <1>1, <1>6, <2>3, <3>1
  <2>. QED BY <1>1, <1>8, <2>1, <2>2, <2>3 DEF Remade
<1>9. ASSUME NEW u \in Tasks, pc'[u] = "resize" PROVE tab'[tfiles'[u]].max_fds <= loc'[u].fd
  <2>1. pc[u] = "resize" /\ loc'[u] = loc[u] /\ tfiles'[u] = tfiles[u] /\ T(u).max_fds <= loc[u].fd
    BY <1>9 DEF Others, IInv, OneResizes, At
  <2>2. tfiles[u] \in Structs BY <2>1 DEF IInv, Placed, PlaceOK, WithTable
  <2>3. tab'[tfiles[u]].max_fds = tab[tfiles[u]].max_fds BY <1>1, <2>1, <2>2 DEF Remade
  <2>. QED BY <2>1, <2>3 DEF T
<1>10. OneResizes' BY <1>8, <1>9 DEF OneResizes, At, T
<1>. QED BY <1>1, <1>2, <1>3, <1>4, <1>7, <1>10

\* Nobody has a table whose count is zero, and one task has one with count one.
LEMMA FewUsers ==
  ASSUME IInv, NEW s \in Structs
  PROVE  /\ IsFiniteSet(Users(s)) /\ tab[s].count = Cardinality(Users(s)) /\ tab[s].count \in Nat
         /\ tab[s].count = 0 => Users(s) = {}
         /\ tab[s].count = 1 => \A t, u \in Users(s) : t = u
<1>1. Users(s) \in SUBSET Tasks BY DEF Users
<1>2. IsFiniteSet(Users(s)) BY <1>1, FilesAssumption, FS_Subset
<1>3. tab[s].count = Cardinality(Users(s)) BY DEF IInv, Counted
<1>4. Cardinality(Users(s)) \in Nat BY <1>2, FS_CardinalityType
<1>5. Cardinality(Users(s)) = 0 => Users(s) = {} BY <1>2, FS_EmptySet
<1>6. Cardinality(Users(s)) = 1 => \A t, u \in Users(s) : t = u BY <1>2, FS_Singleton
<1>. QED BY <1>2, <1>3, <1>4, <1>5, <1>6

\* The counts, when no slot and no hand changes.
LEMMA SameRefs ==
  ASSUME RefsOK, short \subseteq short', f_count' = f_count, SlotsSame, \A f \in Files : InHand(f)' = InHand(f)
  PROVE  RefsOK'
<1>1. \A f \in Files : InSlots(f)' = InSlots(f) BY DEF InSlots, SlotsSame
<1>. QED BY <1>1 DEF RefsOK, Refs

\* clone() with CLONE_FILES keeps the invariant: one more user of the table.
LEMMA CloneFilesStep == ASSUME IInv, short \subseteq short', NEW t \in Tasks, NEW c \in Tasks, clone_files(t, c) PROVE IInv'
<1>1. /\ Calls(t) /\ pc[c] = "none" /\ loc' = loc /\ TypeOK /\ RefsOK /\ f_count' = f_count
      /\ UNCHANGED <<alloc, task_works, delayed_fput_list, pending, todo>> /\ work_exited' = work_exited \ {c}
      /\ pc' = [pc EXCEPT ![c] = "user", ![t] = "user"] /\ tfiles' = [tfiles EXCEPT ![c] = tfiles[t]]
  BY DEF clone_files, new_task, At, IInv
<1>2. /\ t \in Tasks \ KThreads /\ T(t) \in Table /\ Sound(T(t)) /\ T(t).count > 0 /\ pc[t] = "user"
      /\ loc[t] = NoLocals
  BY <1>1, Caller
<1>3. PICK s \in Structs : tfiles[t] = s BY <1>1, Caller
<1>4. T(t) = tab[s] /\ c # t BY <1>1, <1>2, <1>3 DEF T
<1>5. tfiles[c] = NULL /\ loc[c] = NoLocals /\ c \notin KThreads BY <1>1 DEF IInv, Placed, PlaceOK
<1> DEFINE y == [tab[s] EXCEPT !.count = @ + 1]
<1>6. y \in Table /\ Sound(y) /\ y.count = tab[s].count + 1 /\ y.fd = tab[s].fd /\ y.open = tab[s].open
      /\ y.max_fds = tab[s].max_fds /\ y.resizing = tab[s].resizing /\ tab[s].count \in Nat
  BY <1>2, <1>4 DEF Table, Sound
<1>7. tab' = [tab EXCEPT ![s] = y] BY <1>3, <1>4 DEF clone_files, put_table
<1> HIDE DEF y
<1>8. Remade(s, y) BY <1>2, <1>4, <1>6, <1>7 DEF Remade
<1>9. /\ pc' \in [Tasks -> Location] /\ pc'[t] = "user" /\ pc'[c] = "user"
      /\ tfiles' \in [Tasks -> Structs \cup {NULL}] /\ tfiles'[t] = s /\ tfiles'[c] = s
      /\ \A u \in Tasks \ {t, c} : pc'[u] = pc[u]
      /\ \A u \in Tasks \ {c} : tfiles'[u] = tfiles[u]
      /\ loc' \in [Tasks -> Locals]
  BY <1>1, <1>3, <1>4 DEF TypeOK, Location
<1>10. Others(t, c) BY <1>1, <1>9 DEF Others
<1>11. \A u \in {t, c} : PlaceOK(u, tfiles'[u], pc'[u], loc'[u]) BY <1>1, <1>2, <1>5, <1>9, NoLocalsOK
<1>12. WorksKept(t) BY <1>1 DEF WorksKept, TypeOK
<1>13. /\ TypeOK' /\ (\A r \in Structs : Sound(tab'[r])) /\ Placed' /\ Promised' /\ OneResizes'
       /\ tab'[s] = y /\ \A r \in Structs \ {s} : tab'[r] = tab[r]
  BY <1>1, <1>2, <1>8, <1>9, <1>10, <1>11, <1>12, ProcessStep
<1>14. Gone' BY <1>1, <1>9 DEF IInv, Gone
<1>15. Parents'
  <2> SUFFICES ASSUME NEW u \in Tasks, pc'[u] = "dup_fd"
               PROVE  pc'[loc[u].child] = "new" /\ \A v \in Tasks \ {u} : loc[v].child # loc[u].child
    BY <1>1 DEF Parents
  <2>1. pc[u] = "dup_fd" BY <1>9
  <2>2. loc[u].child \in Tasks /\ pc[loc[u].child] = "new" /\ \A v \in Tasks \ {u} : loc[v].child # loc[u].child
    BY <2>1 DEF IInv, Placed, PlaceOK, Parents
  <2>. QED BY <1>1, <1>2, <1>9, <2>2
<1>16. Private'
  <2>1. \A u \in Tasks : loc[u].files # s BY <1>3 DEF IInv, Private
  <2>. QED BY <1>1, <1>9, <2>1 DEF IInv, Private
<1>17. Counted'
  <2>1. \A r \in Structs : Users(r)' = IF r = s THEN Users(r) \cup {c} ELSE Users(r)
    <3>1. \A u \in Tasks : pc'[u] = "dup_fd" <=> pc[u] = "dup_fd" BY <1>1, <1>2, <1>9
    <3>2. NULL \notin Structs BY FilesAssumption
    <3>. QED BY <1>1, <1>5, <1>9, <3>1, <3>2 DEF Users
  <2>2. c \notin Users(s) /\ IsFiniteSet(Users(s)) /\ tab[s].count = Cardinality(Users(s))
    BY <1>1, <1>5, FewUsers, FilesAssumption DEF Users
  <2>3. Cardinality(Users(s) \cup {c}) = tab[s].count + 1 BY <2>2, FS_AddElement
  <2> SUFFICES ASSUME NEW r \in Structs PROVE tab'[r].count = Cardinality(Users(r)') BY DEF Counted
  <2>4. CASE r = s BY <1>6, <1>13, <2>1, <2>3, <2>4
  <2>5. CASE r # s BY <1>13, <2>1, <2>5 DEF IInv, Counted
  <2>. QED BY <2>4, <2>5
<1>18. Empty'
  <2>1. ASSUME NEW u \in Tasks, pc'[u] = "dup_fd" PROVE tab'[loc'[u].files] = NewTable
    <3>1. pc[u] = "dup_fd" BY <1>9, <2>1
    <3>2. loc[u].files \in Structs /\ loc[u].files # s BY <1>3, <3>1 DEF IInv, Placed, PlaceOK, Private
    <3>. QED BY <1>1, <1>13, <3>1, <3>2 DEF IInv, Empty
  <2>2. y.count > 0 BY <1>6
  <2>3. \A r \in Structs : tab'[r].count = 0 => r # s BY <1>13, <2>2
  <2>. QED BY <1>1, <1>13, <2>1, <2>3 DEF IInv, Empty
<1>19. RefsOK'
  <2>1. SlotsSame BY <1>6, <1>13 DEF SlotsSame
  <2>2. \A f \in Files : InHand(f)' = InHand(f) BY <1>1 DEF InHand
  <2>. QED BY <1>1, <2>1, <2>2, SameRefs
<1>. QED BY <1>13, <1>14, <1>15, <1>16, <1>17, <1>18, <1>19 DEF IInv

\* So does fork() up to the point where it has a table to copy into.
LEMMA CopyFilesStep ==
  ASSUME IInv, short \subseteq short', NEW t \in Tasks, NEW c \in Tasks, NEW s \in Structs, copy_files(t, c, s)
  PROVE  IInv'
<1> DEFINE l == [NoLocals EXCEPT !.files = s, !.child = c, !.fd2 = NR_OPEN_DEFAULT]
<1>1. /\ Calls(t) /\ pc[c] = "none" /\ tfiles' = tfiles /\ TypeOK /\ RefsOK /\ f_count' = f_count
      /\ UNCHANGED <<alloc, task_works, delayed_fput_list, pending, todo>> /\ work_exited' = work_exited \ {c}
      /\ pc' = [pc EXCEPT ![c] = "new", ![t] = "dup_fd"] /\ loc' = [loc EXCEPT ![t] = l]
      /\ tab[s].count = 0 /\ \A u \in Tasks : loc[u].files # s
  BY DEF copy_files, new_task, At, IInv
<1>2. t \in Tasks \ KThreads /\ pc[t] = "user" /\ loc[t] = NoLocals /\ tfiles[t] \in Structs /\ c # t
  BY <1>1, Caller
<1>3. tfiles[c] = NULL /\ loc[c] = NoLocals /\ c \notin KThreads BY <1>1 DEF IInv, Placed, PlaceOK
<1>4. \A u \in Tasks : tfiles[u] # s
  <2>1. Users(s) = {} BY <1>1, FewUsers
  <2>. QED BY <2>1 DEF Users
<1>5. l \in Locals /\ l.file = NULL /\ l.op = "none" /\ l.files = s /\ l.child = c
  <2>1. NoLocals.file = NULL /\ NoLocals.op = "none" BY DEF NoLocals
  <2>2. NR_OPEN_DEFAULT \in Nat BY TableAssumption DEF NR_OPEN_DEFAULT
  <2>. QED BY <2>1, <2>2, NoLocalsOK DEF Locals
<1> HIDE DEF l
<1>6. tab' = [tab EXCEPT ![s] = NewTable] BY DEF copy_files
<1>7. Remade(s, NewTable) BY <1>4, <1>6, NewTableOK DEF Remade
<1>8. /\ pc' \in [Tasks -> Location] /\ pc'[t] = "dup_fd" /\ pc'[c] = "new"
      /\ \A u \in Tasks \ {t, c} : pc'[u] = pc[u]
      /\ loc' \in [Tasks -> Locals] /\ loc'[t] = l /\ \A u \in Tasks \ {t} : loc'[u] = loc[u]
      /\ tfiles' \in [Tasks -> Structs \cup {NULL}]
  BY <1>1, <1>2, <1>5 DEF TypeOK, Location
<1>9. Others(t, c) BY <1>1, <1>8 DEF Others
<1>10. NoLocals.files \notin Structs /\ NoLocals.child \notin Tasks BY FilesAssumption DEF NoLocals
<1>11. PlaceOK(t, tfiles'[t], pc'[t], loc'[t]) /\ PlaceOK(c, tfiles'[c], pc'[c], loc'[c])
  BY <1>1, <1>2, <1>3, <1>5, <1>8, <1>10 DEF PlaceOK, WithTable
<1>12. WorksKept(t) BY <1>1 DEF WorksKept, TypeOK
<1>13. /\ TypeOK' /\ (\A r \in Structs : Sound(tab'[r])) /\ Placed' /\ Promised' /\ OneResizes'
       /\ tab'[s] = NewTable /\ \A r \in Structs \ {s} : tab'[r] = tab[r]
  BY <1>1, <1>2, <1>7, <1>8, <1>9, <1>11, <1>12, ProcessStep
<1>14. Gone'
  <2>1. task_works[c] = <<>> /\ todo[c] = <<>> BY <1>1 DEF IInv, Gone
  <2>. QED BY <1>1, <1>8, <2>1 DEF IInv, Gone
<1>15. Parents'
  <2> SUFFICES ASSUME NEW u \in Tasks, pc'[u] = "dup_fd"
               PROVE  pc'[loc'[u].child] = "new" /\ \A v \in Tasks \ {u} : loc'[v].child # loc'[u].child
    BY DEF Parents
  <2>1. \A v \in Tasks : loc[v].child # c
    <3>1. \A v \in Tasks : loc[v].child \in Tasks => pc[loc[v].child] = "new"
      BY DEF IInv, Placed, PlaceOK, Parents
    <3>. QED BY <1>1, <3>1
  <2>2. CASE u = t BY <1>5, <1>8, <2>1, <2>2
  <2>3. CASE u # t
    <3>1. u # c /\ pc[u] = "dup_fd" BY <1>8, <2>3
    <3>2. loc[u].child \in Tasks /\ pc[loc[u].child] = "new" /\ \A v \in Tasks \ {u} : loc[v].child # loc[u].child
      BY <3>1 DEF IInv, Placed, PlaceOK, Parents
    <3>3. loc[u].child # t BY <1>2, <3>2
    <3>. QED BY <1>5, <1>8, <2>1, <2>3, <3>2, <3>3
  <2>. QED BY <2>2, <2>3
<1>16. Private'
  <2> SUFFICES ASSUME NEW u \in Tasks, loc'[u].files \in Structs, NEW v \in Tasks
               PROVE  tfiles[v] # loc'[u].files /\ (v # u => loc'[v].files # loc'[u].files)
    BY <1>1 DEF Private
  <2>1. CASE u = t BY <1>1, <1>4, <1>5, <1>8, <2>1
  <2>2. CASE u # t BY <1>1, <1>5, <1>8, <2>2 DEF IInv, Private
  <2>. QED BY <2>1, <2>2
<1>17. Counted'
  <2>1. Users(s)' = {t} BY <1>1, <1>2, <1>4, <1>5, <1>8 DEF Users
  <2>2. \A r \in Structs \ {s} : Users(r)' = Users(r) BY <1>1, <1>2, <1>5, <1>8 DEF Users
  <2>3. Cardinality({t}) = 1 BY FS_Singleton
  <2> SUFFICES ASSUME NEW r \in Structs PROVE tab'[r].count = Cardinality(Users(r)') BY DEF Counted
  <2>4. CASE r = s BY <1>13, <2>1, <2>3, <2>4, NewTableOK
  <2>5. CASE r # s BY <1>13, <2>2, <2>5 DEF IInv, Counted
  <2>. QED BY <2>4, <2>5
<1>18. Empty'
  <2>1. ASSUME NEW u \in Tasks, pc'[u] = "dup_fd" PROVE tab'[loc'[u].files] = NewTable
    <3>1. CASE u = t BY <1>5, <1>8, <1>13, <3>1
    <3>2. CASE u # t
      <4>1. pc[u] = "dup_fd" /\ loc'[u] = loc[u] BY <1>8, <2>1, <3>2
      <4>2. loc[u].files \in Structs /\ loc[u].files # s BY <1>1, <4>1 DEF IInv, Placed, PlaceOK
      <4>. QED BY <1>13, <4>1, <4>2 DEF IInv, Empty
    <3>. QED BY <3>1, <3>2
  <2>2. \A r \in Structs : tab'[r].count = 0 => r # s /\ tab'[r] = tab[r] BY <1>13, NewTableOK
  <2>3. \A r \in Structs : (\A u \in Tasks : loc'[u].files # r) => \A u \in Tasks : loc[u].files # r
    BY <1>2, <1>8, <1>10
  <2>. QED BY <2>1, <2>2, <2>3 DEF IInv, Empty
<1>19. RefsOK'
  <2>1. SlotsSame
    <3>1. \A i \in Fds : tab[s].fd[i] = NULL BY <1>1 DEF IInv, Empty
    <3>. QED BY <1>13, <3>1, NewTableOK DEF SlotsSame
  <2>2. \A f \in Files : InHand(f)' = InHand(f)
    <3>1. \A f \in Files : f # NULL BY TableAssumption
    <3>2. NoLocals.file = NULL BY DEF NoLocals
    <3>. QED BY <1>2, <1>5, <1>8, <3>1, <3>2 DEF InHand
  <2>. QED BY <1>1, <2>1, <2>2, SameRefs
<1>. QED BY <1>13, <1>14, <1>15, <1>16, <1>17, <1>18, <1>19 DEF IInv

\* A task that forks, its child and the table it makes.
LEMMA Forking ==
  ASSUME IInv, NEW t \in Tasks, pc[t] = "dup_fd"
  PROVE  \E c \in Tasks, s \in Structs :
           /\ loc[t].child = c /\ loc[t].files = s /\ c # t /\ pc[c] = "new" /\ tfiles[c] = NULL
           /\ c \notin KThreads /\ t \notin KThreads /\ loc[c] = NoLocals /\ loc[t].file = NULL
           /\ tab[s] = NewTable /\ tfiles[t] \in Structs \ {s}
           /\ \A u \in Tasks : tfiles[u] # s /\ (u # t => loc[u].files # s /\ loc[u].child # c)
<1>1. PICK c \in Tasks, s \in Structs : loc[t].child = c /\ loc[t].files = s BY DEF IInv, Placed, PlaceOK
<1>2. pc[c] = "new" /\ \A u \in Tasks \ {t} : loc[u].child # c BY <1>1 DEF IInv, Parents
<1>3. tfiles[c] = NULL /\ c \notin KThreads /\ loc[c] = NoLocals BY <1>2 DEF IInv, Placed, PlaceOK
<1>4. t \notin KThreads /\ tfiles[t] \in Structs /\ loc[t].file = NULL BY DEF IInv, Placed, PlaceOK, WithTable
<1>5. \A u \in Tasks : tfiles[u] # s /\ (u # t => loc[u].files # s) BY <1>1 DEF IInv, Private
<1>6. tab[s] = NewTable BY <1>1 DEF IInv, Empty
<1>. QED BY <1>1, <1>2, <1>3, <1>4, <1>5, <1>6

\* The end of fork(): the child gets table y, or is gone.
LEMMA ForkEnds ==
  ASSUME IInv, NEW t \in Tasks, pc[t] = "dup_fd", NEW y \in Table, Sound(y),
         NEW where, forked(t, y, where), keepWorks, f_count' \in [Files -> Nat],
         (where = "user" /\ y.count = 1 /\ ~y.resizing /\ \A i \in Fds : ~Reserved(y, i))
         \/ (where = "none" /\ y = NoTable)
  PROVE  /\ Frame' /\ tab' = [tab EXCEPT ![loc[t].files] = y]
         /\ \A f \in Files : InHand(f)' = InHand(f)
<1>1. PICK c \in Tasks, s \in Structs :
        /\ loc[t].child = c /\ loc[t].files = s /\ c # t /\ pc[c] = "new" /\ tfiles[c] = NULL
        /\ c \notin KThreads /\ t \notin KThreads /\ loc[c] = NoLocals /\ loc[t].file = NULL
        /\ tab[s] = NewTable /\ tfiles[t] \in Structs \ {s}
        /\ \A u \in Tasks : tfiles[u] # s /\ (u # t => loc[u].files # s /\ loc[u].child # c)
  BY Forking
<1> DEFINE own == IF where = "user" THEN s ELSE NULL
<1>2. own \in Structs \cup {NULL} /\ (where = "user" => own = s) /\ (where = "none" => own = NULL) OBVIOUS
<1>3. /\ tab' = [tab EXCEPT ![s] = y] /\ tfiles' = [tfiles EXCEPT ![c] = own]
      /\ pc' = [pc EXCEPT ![c] = where, ![t] = "user"] /\ loc' = [loc EXCEPT ![t] = NoLocals]
  <2>1. NoTable.count = 0 BY NewTableOK
  <2>2. y = NoTable <=> where # "user" BY <2>1
  <2>3. own = IF y = NoTable THEN NULL ELSE s BY <2>2
  <2> HIDE DEF own
  <2>. QED BY <1>1, <2>3, Zenon DEF forked
<1>4. y.count > 0 => ~y.resizing /\ \A i \in Fds : ~Reserved(y, i) BY NewTableOK
<1> HIDE DEF own
<1>5. Remade(s, y) BY <1>1, <1>3, <1>4 DEF Remade
<1>6. /\ pc' \in [Tasks -> Location] /\ pc'[t] = "user" /\ pc'[c] = where
      /\ \A u \in Tasks \ {t, c} : pc'[u] = pc[u]
      /\ loc' \in [Tasks -> Locals] /\ loc'[t] = NoLocals /\ \A u \in Tasks \ {t} : loc'[u] = loc[u]
      /\ tfiles' \in [Tasks -> Structs \cup {NULL}] /\ tfiles'[c] = own
      /\ \A u \in Tasks \ {c} : tfiles'[u] = tfiles[u]
  BY <1>1, <1>2, <1>3, NoLocalsOK DEF IInv, TypeOK, Location
<1>7. Others(t, c) BY <1>6 DEF Others
<1>8. NoLocals.files \notin Structs /\ NoLocals.child \notin Tasks /\ NULL \notin Files /\ NULL \notin Structs
  BY FilesAssumption, TableAssumption DEF NoLocals
<1>9. PlaceOK(t, tfiles'[t], pc'[t], loc'[t]) /\ PlaceOK(c, tfiles'[c], pc'[c], loc'[c])
  BY <1>1, <1>2, <1>6, <1>8 DEF PlaceOK, WithTable
<1>10. WorksKept(t) BY NoWorks DEF IInv
<1>11. /\ TypeOK' /\ (\A r \in Structs : Sound(tab'[r])) /\ Placed' /\ Promised' /\ OneResizes'
       /\ tab'[s] = y /\ \A r \in Structs \ {s} : tab'[r] = tab[r]
  BY <1>1, <1>5, <1>6, <1>7, <1>9, <1>10, ProcessStep
<1>12. Gone'
  <2>1. task_works[c] = <<>> /\ todo[c] = <<>> BY <1>1 DEF IInv, Gone
  <2>. QED BY <1>6, <2>1 DEF IInv, Gone, keepWorks
<1>13. Parents'
  <2> SUFFICES ASSUME NEW u \in Tasks, pc'[u] = "dup_fd"
               PROVE  pc'[loc'[u].child] = "new" /\ \A v \in Tasks \ {u} : loc'[v].child # loc'[u].child
    BY DEF Parents
  <2>1. u # t /\ u # c /\ pc[u] = "dup_fd" BY <1>6
  <2>2. loc[u].child \in Tasks /\ pc[loc[u].child] = "new" /\ \A v \in Tasks \ {u} : loc[v].child # loc[u].child
    BY <2>1 DEF IInv, Placed, PlaceOK, Parents
  <2>3. loc[u].child # t /\ loc[u].child # c BY <1>1, <2>1, <2>2
  <2>. QED BY <1>6, <1>8, <2>1, <2>2, <2>3
<1>14. Private'
  <2> SUFFICES ASSUME NEW u \in Tasks, loc'[u].files \in Structs, NEW v \in Tasks
               PROVE  tfiles'[v] # loc'[u].files /\ (v # u => loc'[v].files # loc'[u].files)
    BY DEF Private
  <2>1. u # t /\ loc'[u] = loc[u] BY <1>6, <1>8
  <2>2. loc[u].files # s /\ tfiles[v] # loc[u].files /\ (v # u => loc[v].files # loc[u].files)
    BY <1>1, <2>1 DEF IInv, Private
  <2>. QED BY <1>2, <1>6, <1>8, <2>1, <2>2
<1>15. Counted'
  <2>1. Users(s)' = IF where = "user" THEN {c} ELSE {}
    <3>1. \A u \in Tasks : tfiles'[u] = s <=> u = c /\ where = "user" BY <1>1, <1>2, <1>6, <1>8
    <3>2. \A u \in Tasks : ~(pc'[u] = "dup_fd" /\ loc'[u].files = s) BY <1>1, <1>6
    <3>. QED BY <3>1, <3>2 DEF Users
  <2>2. \A r \in Structs \ {s} : Users(r)' = Users(r)
    <3>1. \A u \in Tasks, r \in Structs \ {s} : tfiles'[u] = r <=> tfiles[u] = r BY <1>1, <1>2, <1>6, <1>8
    <3>2. \A u \in Tasks, r \in Structs \ {s} :
            pc'[u] = "dup_fd" /\ loc'[u].files = r <=> pc[u] = "dup_fd" /\ loc[u].files = r
      BY <1>1, <1>6
    <3>. QED BY <3>1, <3>2 DEF Users
  <2>3. Cardinality({c}) = 1 /\ Cardinality({}) = 0 BY FS_Singleton, FS_EmptySet
  <2> SUFFICES ASSUME NEW r \in Structs PROVE tab'[r].count = Cardinality(Users(r)') BY DEF Counted
  <2>4. CASE r = s BY <1>11, <2>1, <2>3, <2>4, NewTableOK
  <2>5. CASE r # s BY <1>11, <2>2, <2>5 DEF IInv, Counted
  <2>. QED BY <2>4, <2>5
<1>16. Empty'
  <2>1. ASSUME NEW u \in Tasks, pc'[u] = "dup_fd" PROVE tab'[loc'[u].files] = NewTable
    <3>1. u # t /\ u # c /\ pc[u] = "dup_fd" /\ loc'[u] = loc[u] BY <1>6, <2>1
    <3>2. loc[u].files \in Structs /\ loc[u].files # s BY <1>1, <3>1 DEF IInv, Placed, PlaceOK
    <3>. QED BY <1>11, <3>1, <3>2 DEF IInv, Empty
  <2>2. ASSUME NEW r \in Structs, tab'[r].count = 0, \A u \in Tasks : loc'[u].files # r, NEW i \in Fds
        PROVE  tab'[r].fd[i] = NULL
    <3>1. CASE r = s BY <1>11, <2>2, <3>1, NewTableOK
    <3>2. CASE r # s
      <4>1. \A u \in Tasks : loc[u].files # r BY <1>1, <1>6, <2>2, <3>2
      <4>. QED BY <1>11, <2>2, <3>2, <4>1 DEF IInv, Empty
    <3>. QED BY <3>1, <3>2
  <2>. QED BY <2>1, <2>2 DEF Empty
<1>17. \A f \in Files : InHand(f)' = InHand(f)
  <2>1. NoLocals.file = NULL BY DEF NoLocals
  <2>. QED BY <1>1, <1>6, <1>8, <2>1 DEF InHand
<1>. QED BY <1>1, <1>3, <1>11, <1>12, <1>13, <1>14, <1>15, <1>16, <1>17 DEF Frame

\* A copy of table a takes a reference to each of its descriptors' files.
LEMMA RefsCopied ==
  ASSUME TypeOK, RefsOK, short \subseteq short', NEW a \in Structs, NEW s \in Structs \ {a}, NEW y, y.fd = tab[a].fd,
         tab' = [tab EXCEPT ![s] = y], \A i \in Fds : tab[s].fd[i] = NULL,
         f_count' = [f \in Files |-> f_count[f] + Cardinality(Slots(tab[a], f))],
         \A f \in Files : InHand(f)' = InHand(f)
  PROVE  f_count' \in [Files -> Nat] /\ RefsOK'
<1>1. ASSUME NEW f \in Files
      PROVE  /\ Cardinality(Slots(tab[a], f)) \in Nat
             /\ Refs(f)' = Refs(f) + Cardinality(Slots(tab[a], f))
  <2> DEFINE S == Slots(tab[a], f)
             P == {<<s, i>> : i \in S}
             b == [i \in S |-> <<s, i>>]
  <2>1. IsFiniteSet(S)
    <3>1. IsFiniteSet(Fds) BY TableAssumption, FS_Interval DEF Fds
    <3>2. S \subseteq Fds BY DEF Slots
    <3> HIDE DEF S
    <3>. QED BY <3>1, <3>2, FS_Subset
  <2>2. b \in Bijection(S, P)
    <3> HIDE DEF S
    <3>. QED BY DEF Bijection, Injection, Surjection, IsInjective
  <2>3. IsFiniteSet(P) /\ Cardinality(P) = Cardinality(S)
    <3>1. ExistsBijection(S, P) BY <2>2 DEF ExistsBijection
    <3> HIDE DEF S, P
    <3>. QED BY <2>1, <3>1, FS_Bijection
  <2>4. InSlots(f)' = InSlots(f) \cup P
    <3>1. \A r \in Structs, i \in Fds : tab'[r].fd[i] = IF r = s THEN tab[a].fd[i] ELSE tab[r].fd[i] BY DEF TypeOK
    <3>2. NULL # f BY TableAssumption
    <3>. QED BY <3>1, <3>2 DEF InSlots, Slots
  <2>5. InSlots(f) \cap P = {}
    <3>1. NULL # f BY TableAssumption
    <3>. QED BY <3>1 DEF InSlots, Slots
  <2> HIDE DEF P, b
  <2>6. Cardinality(InSlots(f) \cup P) = Cardinality(InSlots(f)) + Cardinality(P)
    <3>1. IsFiniteSet(InSlots(f)) /\ Cardinality(InSlots(f)) \in Nat BY RefsFinite
    <3>2. Cardinality(InSlots(f) \cup P) = Cardinality(InSlots(f)) + Cardinality(P) - Cardinality(InSlots(f) \cap P)
      BY <2>3, <3>1, FS_Union
    <3>3. Cardinality(InSlots(f) \cap P) = 0 /\ Cardinality(P) \in Nat BY <2>3, <2>5, FS_EmptySet, FS_CardinalityType
    <3>. QED BY <3>1, <3>2, <3>3
  <2>7. Cardinality(S) \in Nat BY <2>1, FS_CardinalityType
  <2>8. Cardinality(InHand(f)) \in Nat /\ Cardinality(InSlots(f)) \in Nat BY RefsFinite
  <2>9. Refs(f)' = Cardinality(InHand(f)) + (Cardinality(InSlots(f)) + Cardinality(S))
    BY <2>3, <2>4, <2>6 DEF Refs
  <2> HIDE DEF S
  <2>10. Refs(f)' = Refs(f) + Cardinality(S) BY <2>7, <2>8, <2>9 DEF Refs
  <2>. QED BY <2>7, <2>10 DEF S
<1> DEFINE refs == [f \in Files |-> f_count[f] + Cardinality(Slots(tab[a], f))]
<1>2. refs \in [Files -> Nat] BY <1>1 DEF TypeOK
<1>3. \A f \in Files : Refs(f)' = Refs(f) + (refs[f] - f_count[f])
  <2> SUFFICES ASSUME NEW f \in Files PROVE Refs(f)' = Refs(f) + (refs[f] - f_count[f]) OBVIOUS
  <2>1. f_count[f] \in Nat /\ Refs(f) \in Nat BY RefsFinite DEF TypeOK
  <2>2. refs[f] = f_count[f] + Cardinality(Slots(tab[a], f)) OBVIOUS
  <2>. QED BY <1>1, <2>1, <2>2
<1>4. f_count' = refs OBVIOUS
<1> HIDE DEF refs
<1>. QED BY <1>2, <1>3, <1>4, RefsTaken

\* dup_fd() keeps it: a reference for each descriptor of the copy.
LEMMA DupFdStep == ASSUME IInv, short \subseteq short', NEW t \in Tasks, dup_fd(t) PROVE IInv'
<1> DEFINE y == copy_table(T(t), loc[t].fd2, count_open_files(T(t)))
<1>1. pc[t] = "dup_fd" /\ keepWorks /\ forked(t, y, "user") /\ TypeOK /\ RefsOK BY DEF dup_fd, At, IInv
<1>2. PICK a \in Structs : tfiles[t] = a BY <1>1, Caller
<1>3. T(t) = tab[a] /\ T(t) \in Table /\ Sound(T(t)) BY <1>1, <1>2, Caller DEF T
<1>4. PICK s \in Structs \ {a} : loc[t].files = s /\ tab[s] = NewTable BY <1>1, <1>2, Forking
<1>5. loc[t].fd2 \in Nat /\ count_open_files(T(t)) <= loc[t].fd2 BY <1>1 DEF dup_fd, TypeOK, Locals
<1>6. /\ y \in Table /\ Sound(y) /\ y.fd = tab[a].fd /\ y.count = 1 /\ ~y.resizing
      /\ \A i \in Fds : ~Reserved(y, i)
  BY <1>3, <1>5, CopyTable
<1> HIDE DEF y
<1>7. f_count' = [f \in Files |-> f_count[f] + Cardinality(Slots(tab[a], f))] BY <1>3 DEF dup_fd
<1>8. tab' = [tab EXCEPT ![s] = y] BY <1>1, <1>4 DEF forked
<1>9. \A i \in Fds : tab[s].fd[i] = NULL BY <1>4, NewTableOK
<1>10. \A f \in Files : InHand(f)' = InHand(f)
  <2>1. NoLocals.file = NULL /\ loc[t].file = NULL /\ NULL \notin Files BY <1>1, Forking, TableAssumption DEF NoLocals
  <2>2. loc' = [loc EXCEPT ![t] = NoLocals] BY <1>1 DEF forked
  <2>. QED BY <1>1, <2>1, <2>2 DEF InHand, TypeOK
<1>11. f_count' \in [Files -> Nat] /\ RefsOK' BY <1>1, <1>6, <1>7, <1>8, <1>9, <1>10, RefsCopied
<1>12. Frame' BY <1>1, <1>6, <1>11, ForkEnds
<1>. QED BY <1>11, <1>12 DEF Frame, IInv

\* dup_fd() keeps it when it finds that the table has grown, or gives up.
LEMMA DupFdAgainStep == ASSUME IInv, short \subseteq short', NEW t \in Tasks, NEW ok \in BOOLEAN, dup_fd_again(t, ok) PROVE IInv'
<1>1. /\ pc[t] = "dup_fd" /\ TypeOK /\ RefsOK /\ f_count' = f_count /\ keepWorks /\ f_count \in [Files -> Nat]
      /\ T(t) \in Table /\ Sound(T(t))
  BY Caller DEF dup_fd_again, At, IInv, TypeOK, workVars, keepWorks
<1>2. PICK c \in Tasks, s \in Structs :
        /\ loc[t].child = c /\ loc[t].files = s /\ c # t /\ pc[c] = "new"
        /\ tab[s] = NewTable /\ loc[t].file = NULL /\ t \notin KThreads
        /\ \A u \in Tasks : tfiles[u] # s /\ (u # t => loc[u].files # s /\ loc[u].child # c)
  BY <1>1, Forking
<1>3. CASE ~ok
  <2>1. forked(t, NoTable, "none") BY <1>3 DEF dup_fd_again
  <2>2. Frame' /\ tab' = [tab EXCEPT ![s] = NoTable] /\ \A f \in Files : InHand(f)' = InHand(f)
    BY <1>1, <1>2, <2>1, NewTableOK, ForkEnds
  <2>3. SlotsSame BY <1>1, <1>2, <2>2, NewTableOK DEF SlotsSame, TypeOK
  <2>4. RefsOK' BY <1>1, <2>2, <2>3, SameRefs
  <2>. QED BY <2>2, <2>4 DEF Frame, IInv
<1>4. CASE ok
  <2> DEFINE n == count_open_files(T(t))
             size == alloc_fdtable(n - 1)
             l == [loc[t] EXCEPT !.fd2 = size]
  <2>1. go(t, "dup_fd", l) /\ UNCHANGED <<tab, tfiles>> BY <1>4 DEF dup_fd_again
  <2>2. size \in Nat
    <3> DEFINE x == T(t)
               W == {0} \cup {Word(i) : i \in x.open}
    <3>0. x.max_fds \in Nat /\ x.open \subseteq Nat /\ \A i \in x.open : i < x.max_fds BY <1>1 DEF Table, Sound
    <3>1. Max(W) \in W
      <4>1. W \in SUBSET (0 .. x.max_fds) /\ W # {} BY <3>0, WordOf
      <4> HIDE DEF W, x
      <4>. QED BY <3>0, <4>1, MaxOf
    <3>2. Max(W) \in Nat BY <3>0, <3>1, WordOf
    <3>3. n = (Max(W) + 1) * BITS_PER_LONG /\ BITS_PER_LONG \in Nat \ {0} BY TableAssumption DEF count_open_files
    <3> HIDE DEF n, W, x
    <3>4. n - 1 \in Nat
      <4>1. 1 * BITS_PER_LONG <= (Max(W) + 1) * BITS_PER_LONG BY <3>2, <3>3
      <4>2. (Max(W) + 1) * BITS_PER_LONG \in Nat BY <3>2, <3>3
      <4>. QED BY <3>3, <4>1, <4>2
    <3>. QED BY <3>4, AllocSize
  <2> HIDE DEF n, size
  <2>3. loc[t] \in Locals BY <1>1 DEF TypeOK
  <2>4. /\ l \in Locals /\ l.op = loc[t].op /\ l.file = loc[t].file /\ l.fd = loc[t].fd
        /\ l.files = loc[t].files /\ l.child = loc[t].child
    BY <2>2, <2>3 DEF Locals
  <2> HIDE DEF l
  <2>5. /\ pc' = pc /\ loc' \in [Tasks -> Locals] /\ loc'[t] = l /\ \A u \in Tasks \ {t} : loc'[u] = loc[u]
    BY <1>1, <2>1, <2>4 DEF go, TypeOK
  <2>6. \A u \in Tasks : loc'[u].op = loc[u].op /\ loc'[u].file = loc[u].file /\ loc'[u].files = loc[u].files
                         /\ loc'[u].child = loc[u].child /\ loc'[u].fd = loc[u].fd
    BY <2>4, <2>5
  <2>7. TypeOK' BY <1>1, <2>1, <2>5 DEF TypeOK, keepWorks
  <2>8. Placed'
    <3>1. PlaceOK(t, tfiles[t], pc[t], l)
      <4>1. PlaceOK(t, tfiles[t], pc[t], loc[t]) BY DEF IInv, Placed
      <4>. QED BY <1>1, <2>4, <4>1 DEF PlaceOK
    <3>. QED BY <2>1, <2>5, <3>1 DEF IInv, Placed
  <2>9. Parents' BY <2>5, <2>6 DEF IInv, Parents
  <2>10. Private' BY <2>1, <2>6 DEF IInv, Private
  <2>11. Counted'
    <3>1. \A r \in Structs : Users(r)' = Users(r) BY <2>1, <2>5, <2>6 DEF Users
    <3>. QED BY <2>1, <3>1 DEF IInv, Counted
  <2>12. Empty' BY <2>1, <2>5, <2>6 DEF IInv, Empty
  <2>13. Promised'
    <3>1. \A r \in Structs, i \in Fds : Installing(r, i)' = Installing(r, i) BY <2>1, <2>5, <2>6 DEF Installing, At
    <3>. QED BY <2>1, <3>1 DEF IInv, Promised
  <2>14. OneResizes'
    <3>1. \A r \in Structs : Resizing(r)' = Resizing(r) BY <2>1, <2>5 DEF Resizing, At
    <3>. QED BY <2>1, <2>5, <2>6, <3>1 DEF IInv, OneResizes, At, T
  <2>15. Gone' BY <1>1, <2>5 DEF IInv, Gone, keepWorks
  <2>16. RefsOK'
    <3>1. SlotsSame BY <2>1 DEF SlotsSame
    <3>2. \A f \in Files : InHand(f)' = InHand(f) BY <2>6 DEF InHand
    <3>. QED BY <1>1, <3>1, <3>2, SameRefs
  <2>17. \A r \in Structs : Sound(tab'[r]) BY <2>1 DEF IInv
  <2>. QED BY <2>7, <2>8, <2>9, <2>10, <2>11, <2>12, <2>13, <2>14, <2>15, <2>16, <2>17 DEF IInv
<1>. QED BY <1>3, <1>4

\* copy_process() fails after the table was copied: the copy is the parent's to
\* close.
LEMMA BadForkStep == ASSUME IInv, short \subseteq short', NEW t \in Tasks, dup_fd_bad_fork(t) PROVE IInv'
<1> DEFINE z == copy_table(T(t), loc[t].fd2, count_open_files(T(t)))
           y == [z EXCEPT !.count = 0]
<1>1. pc[t] = "dup_fd" /\ keepWorks /\ TypeOK /\ RefsOK /\ tfiles' = tfiles BY DEF dup_fd_bad_fork, At, IInv
<1>2. PICK a \in Structs : tfiles[t] = a BY <1>1, Caller
<1>3. T(t) = tab[a] /\ T(t) \in Table /\ Sound(T(t)) BY <1>1, <1>2, Caller DEF T
<1>4. PICK c \in Tasks, s \in Structs :
        /\ loc[t].child = c /\ loc[t].files = s /\ c # t /\ pc[c] = "new" /\ tfiles[c] = NULL
        /\ c \notin KThreads /\ t \notin KThreads /\ loc[c] = NoLocals /\ loc[t].file = NULL
        /\ tab[s] = NewTable /\ tfiles[t] \in Structs \ {s}
        /\ \A u \in Tasks : tfiles[u] # s /\ (u # t => loc[u].files # s /\ loc[u].child # c)
  BY <1>1, Forking
<1>5. loc[t].fd2 \in Nat /\ count_open_files(T(t)) <= loc[t].fd2 BY <1>1 DEF dup_fd_bad_fork, TypeOK, Locals
<1>6. tab' = [tab EXCEPT ![s] = y] BY <1>4 DEF dup_fd_bad_fork
<1>7. z \in Table /\ Sound(z) /\ z.fd = tab[a].fd BY <1>3, <1>5, CopyTable
<1> HIDE DEF z
<1>8. y \in Table /\ Sound(y) /\ y.fd = tab[a].fd /\ y.count = 0 BY <1>7 DEF Table, Sound
<1> HIDE DEF y
<1> DEFINE l == [NoLocals EXCEPT !.op = "fork", !.files = s]
<1>9. pc' = [pc EXCEPT ![c] = "none", ![t] = "exit_files"] /\ loc' = [loc EXCEPT ![t] = l]
  BY <1>4 DEF dup_fd_bad_fork
<1>10. l \in Locals /\ l.op = "fork" /\ l.file = NULL /\ l.files = s /\ l.child = NULL
  <2>1. NoLocals.file = NULL /\ NoLocals.child = NULL BY DEF NoLocals
  <2>. QED BY <2>1, NoLocalsOK DEF Locals
<1> HIDE DEF l
<1>11. NULL \notin Tasks /\ NULL \notin Structs /\ NULL \notin Files BY FilesAssumption, TableAssumption
<1>12. /\ pc' \in [Tasks -> Location] /\ pc'[t] = "exit_files" /\ pc'[c] = "none"
       /\ \A u \in Tasks \ {t, c} : pc'[u] = pc[u]
       /\ loc' \in [Tasks -> Locals] /\ loc'[t] = l /\ \A u \in Tasks \ {t} : loc'[u] = loc[u]
       /\ tfiles' \in [Tasks -> Structs \cup {NULL}]
  BY <1>1, <1>4, <1>9, <1>10 DEF TypeOK, Location
<1>13. \A f \in Files : InHand(f)' = InHand(f) BY <1>4, <1>10, <1>11, <1>12 DEF InHand
<1>14. f_count' \in [Files -> Nat] /\ RefsOK'
  <2>1. f_count' = [f \in Files |-> f_count[f] + Cardinality(Slots(tab[a], f))] BY <1>3 DEF dup_fd_bad_fork
  <2>2. \A i \in Fds : tab[s].fd[i] = NULL BY <1>4, NewTableOK
  <2>3. s \in Structs \ {a} BY <1>2, <1>4
  <2>. QED BY <1>1, <1>6, <1>8, <1>13, <2>1, <2>2, <2>3, RefsCopied
<1>15. Remade(s, y) BY <1>4, <1>6, <1>8 DEF Remade
<1>16. Others(t, c) BY <1>1, <1>12 DEF Others
<1>17. PlaceOK(t, tfiles'[t], pc'[t], loc'[t]) /\ PlaceOK(c, tfiles'[c], pc'[c], loc'[c])
  <2>1. NoLocals.files \notin Structs /\ NoLocals.child \notin Tasks BY <1>11 DEF NoLocals
  <2>. QED BY <1>1, <1>4, <1>10, <1>11, <1>12, <2>1 DEF PlaceOK, WithTable
<1>18. WorksKept(t) BY <1>1, <1>14, NoWorks
<1>19. /\ TypeOK' /\ (\A r \in Structs : Sound(tab'[r])) /\ Placed' /\ Promised' /\ OneResizes'
       /\ tab'[s] = y /\ \A r \in Structs \ {s} : tab'[r] = tab[r]
  BY <1>1, <1>4, <1>12, <1>15, <1>16, <1>17, <1>18, ProcessStep
<1>20. Gone'
  <2>1. task_works[c] = <<>> /\ todo[c] = <<>> BY <1>4 DEF IInv, Gone
  <2>. QED BY <1>1, <1>12, <2>1 DEF IInv, Gone, keepWorks
<1>21. Parents'
  <2> SUFFICES ASSUME NEW u \in Tasks, pc'[u] = "dup_fd"
               PROVE  pc'[loc'[u].child] = "new" /\ \A v \in Tasks \ {u} : loc'[v].child # loc'[u].child
    BY DEF Parents
  <2>1. u # t /\ u # c /\ pc[u] = "dup_fd" BY <1>12
  <2>2. loc[u].child \in Tasks /\ pc[loc[u].child] = "new" /\ \A v \in Tasks \ {u} : loc[v].child # loc[u].child
    BY <2>1 DEF IInv, Placed, PlaceOK, Parents
  <2>3. loc[u].child # t /\ loc[u].child # c BY <1>1, <1>4, <2>1, <2>2
  <2>. QED BY <1>10, <1>11, <1>12, <2>1, <2>2, <2>3
<1>22. Private' BY <1>1, <1>4, <1>10, <1>12 DEF IInv, Private
<1>23. Counted'
  <2>1. Users(s)' = {} BY <1>1, <1>4, <1>12 DEF Users
  <2>2. \A r \in Structs \ {s} : Users(r)' = Users(r) BY <1>1, <1>4, <1>12 DEF Users
  <2>3. Cardinality({}) = 0 BY FS_EmptySet
  <2> SUFFICES ASSUME NEW r \in Structs PROVE tab'[r].count = Cardinality(Users(r)') BY DEF Counted
  <2>4. CASE r = s BY <1>8, <1>19, <2>1, <2>3, <2>4
  <2>5. CASE r # s BY <1>19, <2>2, <2>5 DEF IInv, Counted
  <2>. QED BY <2>4, <2>5
<1>24. Empty'
  <2>1. ASSUME NEW u \in Tasks, pc'[u] = "dup_fd" PROVE tab'[loc'[u].files] = NewTable
    <3>1. u # t /\ u # c /\ pc[u] = "dup_fd" /\ loc'[u] = loc[u] BY <1>12, <2>1
    <3>2. loc[u].files \in Structs /\ loc[u].files # s BY <1>4, <3>1 DEF IInv, Placed, PlaceOK
    <3>. QED BY <1>19, <3>1, <3>2 DEF IInv, Empty
  <2>2. ASSUME NEW r \in Structs, tab'[r].count = 0, \A u \in Tasks : loc'[u].files # r, NEW i \in Fds
        PROVE  tab'[r].fd[i] = NULL
    <3>1. r # s BY <1>10, <1>12, <2>2
    <3>2. \A u \in Tasks : loc[u].files # r BY <1>4, <1>12, <2>2, <3>1
    <3>. QED BY <1>19, <2>2, <3>1, <3>2 DEF IInv, Empty
  <2>. QED BY <2>1, <2>2 DEF Empty
<1>. QED BY <1>14, <1>19, <1>20, <1>21, <1>22, <1>23, <1>24 DEF IInv

\* exit_files() keeps it: the last user takes the table apart.
LEMMA ExitFilesStep == ASSUME IInv, short \subseteq short', NEW t \in Tasks, exit_files(t) PROVE IInv'
<1>1. /\ Calls(t) /\ UNCHANGED workVars /\ TypeOK /\ RefsOK /\ tfiles' = [tfiles EXCEPT ![t] = NULL]
      /\ f_count' = f_count /\ keepWorks
  BY DEF exit_files, IInv, workVars, keepWorks
<1>2. /\ t \in Tasks \ KThreads /\ T(t) \in Table /\ Sound(T(t)) /\ T(t).count > 0 /\ pc[t] = "user"
      /\ loc[t] = NoLocals
  BY <1>1, Caller
<1>3. PICK s \in Structs : tfiles[t] = s BY <1>1, Caller
<1>4. T(t) = tab[s] BY <1>3 DEF T
<1> DEFINE y == [tab[s] EXCEPT !.count = @ - 1]
           last == tab[s].count = 1
           where == IF last THEN "exit_files" ELSE "exit_run"
           l == IF last THEN [NoLocals EXCEPT !.files = s] ELSE NoLocals
<1>5. /\ y \in Table /\ Sound(y) /\ y.count = tab[s].count - 1 /\ y.fd = tab[s].fd /\ y.open = tab[s].open
      /\ y.max_fds = tab[s].max_fds /\ y.resizing = tab[s].resizing /\ tab[s].count \in Nat \ {0}
  BY <1>2, <1>4 DEF Table, Sound
<1>6. /\ tab' = [tab EXCEPT ![s] = y] /\ pc' = [pc EXCEPT ![t] = where] /\ loc' = [loc EXCEPT ![t] = l]
  BY <1>3, <1>4 DEF exit_files, put_table, go
<1>7. NULL \notin Tasks /\ NULL \notin Structs /\ NULL \notin Files BY FilesAssumption, TableAssumption
<1>8. l \in Locals /\ l.file = NULL /\ l.op = "none" /\ l.child = NULL /\ l.files = IF last THEN s ELSE NULL
  <2>1. NoLocals.file = NULL /\ NoLocals.child = NULL /\ NoLocals.op = "none" /\ NoLocals.files = NULL BY DEF NoLocals
  <2>. QED BY <2>1, NoLocalsOK DEF Locals
<1>9. where = IF last THEN "exit_files" ELSE "exit_run" OBVIOUS
<1>10. ~last => l = NoLocals OBVIOUS
<1> HIDE DEF y, l, where
<1>11. Remade(s, y) BY <1>2, <1>4, <1>5, <1>6 DEF Remade
<1>12. /\ pc' \in [Tasks -> Location] /\ pc'[t] = where /\ \A u \in Tasks \ {t} : pc'[u] = pc[u]
       /\ loc' \in [Tasks -> Locals] /\ loc'[t] = l /\ \A u \in Tasks \ {t} : loc'[u] = loc[u]
       /\ tfiles' \in [Tasks -> Structs \cup {NULL}] /\ tfiles'[t] = NULL /\ \A u \in Tasks \ {t} : tfiles'[u] = tfiles[u]
       /\ where \in {"exit_files", "exit_run"}
  BY <1>1, <1>6, <1>8, <1>9 DEF TypeOK, Location
<1>13. Others(t, t) BY <1>12 DEF Others
<1>14. PlaceOK(t, tfiles'[t], pc'[t], loc'[t]) BY <1>2, <1>7, <1>8, <1>9, <1>10, <1>12 DEF PlaceOK, WithTable
<1>15. WorksKept(t) BY <1>1, NoWorks DEF TypeOK
<1>16. /\ TypeOK' /\ (\A r \in Structs : Sound(tab'[r])) /\ Placed' /\ Promised' /\ OneResizes'
       /\ tab'[s] = y /\ \A r \in Structs \ {s} : tab'[r] = tab[r]
  BY <1>2, <1>11, <1>12, <1>13, <1>14, <1>15, ProcessStep
<1>17. Gone' BY <1>1, <1>12 DEF IInv, Gone, keepWorks
<1>18. Parents'
  <2> SUFFICES ASSUME NEW u \in Tasks, pc'[u] = "dup_fd"
               PROVE  pc'[loc'[u].child] = "new" /\ \A v \in Tasks \ {u} : loc'[v].child # loc'[u].child
    BY DEF Parents
  <2>1. u # t /\ pc[u] = "dup_fd" BY <1>12
  <2>2. loc[u].child \in Tasks /\ pc[loc[u].child] = "new" /\ \A v \in Tasks \ {u} : loc[v].child # loc[u].child
    BY <2>1 DEF IInv, Placed, PlaceOK, Parents
  <2>3. loc[u].child # t BY <1>2, <2>2
  <2>. QED BY <1>7, <1>8, <1>12, <2>1, <2>2, <2>3
<1>19. \A u \in Tasks : loc[u].files # s BY <1>3 DEF IInv, Private
<1>20. Private'
  <2> SUFFICES ASSUME NEW u \in Tasks, loc'[u].files \in Structs, NEW v \in Tasks
               PROVE  tfiles'[v] # loc'[u].files /\ (v # u => loc'[v].files # loc'[u].files)
    BY DEF Private
  <2>1. CASE u = t
    <3>1. last /\ loc'[u].files = s BY <1>7, <1>8, <1>12, <2>1
    <3>2. \A v1, v2 \in Users(s) : v1 = v2 BY <3>1, FewUsers
    <3>3. \A v1 \in Tasks : tfiles[v1] = s => v1 = t BY <1>3, <3>2 DEF Users
    <3>. QED BY <1>7, <1>12, <1>19, <2>1, <3>1, <3>3
  <2>2. CASE u # t
    <3>1. loc'[u] = loc[u] /\ loc[u].files # s /\ loc[u].files \in Structs BY <1>12, <1>19, <2>2
    <3>2. tfiles[v] # loc[u].files /\ (v # u => loc[v].files # loc[u].files) BY <3>1 DEF IInv, Private
    <3>. QED BY <1>7, <1>8, <1>12, <2>2, <3>1, <3>2
  <2>. QED BY <2>1, <2>2
<1>21. Counted'
  <2>1. \A r \in Structs : Users(r)' = IF r = s THEN Users(r) \ {t} ELSE Users(r)
    BY <1>2, <1>3, <1>7, <1>12 DEF Users
  <2>2. t \in Users(s) /\ IsFiniteSet(Users(s)) /\ tab[s].count = Cardinality(Users(s)) BY <1>3, FewUsers DEF Users
  <2>3. Cardinality(Users(s) \ {t}) = tab[s].count - 1 BY <2>2, FS_RemoveElement
  <2> SUFFICES ASSUME NEW r \in Structs PROVE tab'[r].count = Cardinality(Users(r)') BY DEF Counted
  <2>4. CASE r = s BY <1>5, <1>16, <2>1, <2>3, <2>4
  <2>5. CASE r # s BY <1>16, <2>1, <2>5 DEF IInv, Counted
  <2>. QED BY <2>4, <2>5
<1>22. Empty'
  <2>1. ASSUME NEW u \in Tasks, pc'[u] = "dup_fd" PROVE tab'[loc'[u].files] = NewTable
    <3>1. u # t /\ pc[u] = "dup_fd" /\ loc'[u] = loc[u] BY <1>12, <2>1
    <3>2. loc[u].files \in Structs /\ loc[u].files # s BY <1>19, <3>1 DEF IInv, Placed, PlaceOK
    <3>. QED BY <1>16, <3>1, <3>2 DEF IInv, Empty
  <2>2. ASSUME NEW r \in Structs, tab'[r].count = 0, \A u \in Tasks : loc'[u].files # r, NEW i \in Fds
        PROVE  tab'[r].fd[i] = NULL
    <3>1. r # s
      <4>1. CASE last BY <1>8, <1>12, <2>2, <4>1
      <4>2. CASE ~last BY <1>5, <1>16, <2>2, <4>2
      <4>. QED BY <4>1, <4>2
    <3>2. \A u \in Tasks : loc[u].files # r
      <4>1. NoLocals.files = NULL BY DEF NoLocals
      <4>. QED BY <1>2, <1>7, <1>12, <2>2, <4>1
    <3>. QED BY <1>16, <2>2, <3>1, <3>2 DEF IInv, Empty
  <2>. QED BY <2>1, <2>2 DEF Empty
<1>23. RefsOK'
  <2>1. SlotsSame BY <1>5, <1>16 DEF SlotsSame
  <2>2. NoLocals.file = NULL BY DEF NoLocals
  <2>3. \A f \in Files : InHand(f)' = InHand(f) BY <1>2, <1>7, <1>8, <1>12, <2>2 DEF InHand
  <2>. QED BY <1>1, <2>1, <2>3, SameRefs
<1>. QED BY <1>16, <1>17, <1>18, <1>20, <1>21, <1>22, <1>23 DEF IInv

\* close_files() of a table that nobody sees.
LEMMA CloseFilesStep == ASSUME IInv, short \subseteq short', NEW t \in Tasks, close_files(t) PROVE IInv'
<1>1. pc[t] = "exit_files" /\ tfiles' = tfiles /\ TypeOK /\ RefsOK BY DEF close_files, At, IInv
<1>2. PICK a \in Structs : loc[t].files = a BY <1>1 DEF IInv, Placed, PlaceOK
<1>3. \A u \in Tasks : tfiles[u] # a /\ (u # t => loc[u].files # a) BY <1>2 DEF IInv, Private
<1>4. tab[a].count = 0 /\ tab[a] \in Table /\ Sound(tab[a])
  <2>1. Users(a) = {} BY <1>1, <1>3 DEF Users
  <2>2. tab[a].count = Cardinality(Users(a)) BY DEF IInv, Counted
  <2>. QED BY <1>1, <2>1, <2>2, FS_EmptySet DEF IInv, TypeOK
<1> DEFINE taken == {i \in tab[a].open : tab[a].fd[i] # NULL}
           fd == Min(taken)
<1>5. ASSUME NEW y, y \in Table, Sound(y), y.count = 0, tab' = [tab EXCEPT ![a] = y], WorksKept(t),
             NEW where, NEW l \in Locals, pc' = [pc EXCEPT ![t] = where], loc' = [loc EXCEPT ![t] = l],
             PlaceOK(t, tfiles[t], where, l), l.child = NULL,
             (where = "exit_files" /\ l.files = a) \/ (where \in {"user", "leave", "exit_run"} /\ l = NoLocals /\ y = NoTable)
      PROVE  Frame'
  <2>1. NULL \notin Tasks /\ NULL \notin Structs /\ NoLocals.files = NULL BY FilesAssumption DEF NoLocals
  <2>2. Remade(a, y) BY <1>3, <1>5 DEF Remade
  <2>3. /\ pc' \in [Tasks -> Location] /\ pc'[t] = where /\ \A u \in Tasks \ {t} : pc'[u] = pc[u]
        /\ loc' \in [Tasks -> Locals] /\ loc'[t] = l /\ \A u \in Tasks \ {t} : loc'[u] = loc[u]
        /\ where \in {"exit_files", "user", "leave", "exit_run"}
    BY <1>1, <1>5 DEF TypeOK, Location
  <2>4. Others(t, t) BY <1>1, <2>3 DEF Others
  <2>5. tfiles' \in [Tasks -> Structs \cup {NULL}] /\ PlaceOK(t, tfiles'[t], pc'[t], loc'[t])
    BY <1>1, <1>5, <2>3 DEF TypeOK
  <2>6. /\ TypeOK' /\ (\A r \in Structs : Sound(tab'[r])) /\ Placed' /\ Promised' /\ OneResizes'
        /\ tab'[a] = y /\ \A r \in Structs \ {a} : tab'[r] = tab[r]
    BY <1>1, <1>5, <2>2, <2>3, <2>4, <2>5, ProcessStep
  <2>7. Gone' BY <1>5, <2>3 DEF IInv, Gone, WorksKept
  <2>8. Parents'
    <3> SUFFICES ASSUME NEW u \in Tasks, pc'[u] = "dup_fd"
                 PROVE  pc'[loc'[u].child] = "new" /\ \A v \in Tasks \ {u} : loc'[v].child # loc'[u].child
      BY DEF Parents
    <3>1. u # t /\ pc[u] = "dup_fd" BY <2>3
    <3>2. loc[u].child \in Tasks /\ pc[loc[u].child] = "new" /\ \A v \in Tasks \ {u} : loc[v].child # loc[u].child
      BY <3>1 DEF IInv, Placed, PlaceOK, Parents
    <3>3. loc[u].child # t BY <1>1, <3>2
    <3>. QED BY <1>5, <2>1, <2>3, <3>1, <3>2, <3>3
  <2>9. Private'
    <3> SUFFICES ASSUME NEW u \in Tasks, loc'[u].files \in Structs, NEW v \in Tasks
                 PROVE  tfiles[v] # loc'[u].files /\ (v # u => loc'[v].files # loc'[u].files)
      BY <1>1 DEF Private
    <3>1. CASE u = t
      <4>1. loc'[u].files = a BY <1>5, <2>1, <2>3, <3>1
      <4>. QED BY <1>3, <2>3, <3>1, <4>1
    <3>2. CASE u # t
      <4>1. loc'[u] = loc[u] /\ loc[u].files # a /\ loc[u].files \in Structs BY <1>3, <2>3, <3>2
      <4>2. tfiles[v] # loc[u].files /\ (v # u => loc[v].files # loc[u].files) BY <4>1 DEF IInv, Private
      <4>. QED BY <1>5, <2>1, <2>3, <4>1, <4>2
    <3>. QED BY <3>1, <3>2
  <2>10. Counted'
    <3>1. \A r \in Structs : Users(r)' = Users(r) BY <1>1, <2>3 DEF Users
    <3>2. \A r \in Structs : tab'[r].count = tab[r].count BY <1>4, <1>5, <2>6
    <3>. QED BY <3>1, <3>2 DEF IInv, Counted
  <2>11. Empty'
    <3>1. ASSUME NEW u \in Tasks, pc'[u] = "dup_fd" PROVE tab'[loc'[u].files] = NewTable
      <4>1. u # t /\ pc[u] = "dup_fd" /\ loc'[u] = loc[u] BY <2>3, <3>1
      <4>2. loc[u].files \in Structs /\ loc[u].files # a BY <1>3, <4>1 DEF IInv, Placed, PlaceOK
      <4>. QED BY <2>6, <4>1, <4>2 DEF IInv, Empty
    <3>2. ASSUME NEW r \in Structs, tab'[r].count = 0, \A u \in Tasks : loc'[u].files # r, NEW i \in Fds
          PROVE  tab'[r].fd[i] = NULL
      <4>1. CASE r = a
        <5>1. y = NoTable BY <1>5, <2>3, <3>2, <4>1
        <5>. QED BY <2>6, <4>1, <5>1, NewTableOK
      <4>2. CASE r # a
        <5>1. \A u \in Tasks : loc[u].files # r BY <1>2, <2>3, <3>2, <4>2
        <5>. QED BY <2>6, <3>2, <4>2, <5>1 DEF IInv, Empty
      <4>. QED BY <4>1, <4>2
    <3>. QED BY <3>1, <3>2 DEF Empty
  <2>. QED BY <2>6, <2>7, <2>8, <2>9, <2>10, <2>11 DEF Frame
<1>6. loc[t].file = NULL /\ loc[t].child = NULL /\ loc[t] \in Locals
  <2>1. loc[t].file = NULL /\ loc[t].child \notin Tasks BY <1>1 DEF IInv, Placed, PlaceOK
  <2>2. loc[t] \in Locals BY <1>1 DEF TypeOK
  <2>. QED BY <2>1, <2>2 DEF Locals
<1>7. NULL \notin Files /\ NoLocals.file = NULL /\ NoLocals.child = NULL BY TableAssumption DEF NoLocals
<1>8. CASE taken = {}
  <2>1. /\ tab' = [tab EXCEPT ![a] = NoTable] /\ f_count' = f_count /\ keepWorks
        /\ IF loc[t].op = "fork" THEN done(t) ELSE go(t, "exit_run", NoLocals)
    BY <1>2, <1>8 DEF close_files, workVars, keepWorks
  <2>2. PICK where \in {"user", "leave", "exit_run"} :
          /\ pc' = [pc EXCEPT ![t] = where] /\ loc' = [loc EXCEPT ![t] = NoLocals]
          /\ where = "exit_run" <=> loc[t].op # "fork"
    BY <2>1 DEF done, go
  <2>3. PlaceOK(t, tfiles[t], where, NoLocals)
    <3>1. t \notin KThreads /\ (tfiles[t] \in Structs <=> loc[t].op = "fork") /\ tfiles[t] \in Structs \cup {NULL}
      BY <1>1 DEF IInv, Placed, PlaceOK, TypeOK
    <3>2. CASE where = "exit_run"
      <4>1. tfiles[t] = NULL BY <2>2, <3>1, <3>2
      <4>2. NoLocals.files \notin Structs /\ NoLocals.child \notin Tasks BY FilesAssumption DEF NoLocals
      <4>. QED BY <3>1, <3>2, <4>1, <4>2 DEF PlaceOK, WithTable
    <3>3. CASE where # "exit_run" BY <2>2, <3>1, <3>3, NoLocalsOK
    <3>. QED BY <3>2, <3>3
  <2>4. WorksKept(t) BY <1>1, <2>1, NoWorks DEF TypeOK
  <2>5. Frame' BY <1>5, <1>7, <2>1, <2>2, <2>3, <2>4, NewTableOK, NoLocalsOK
  <2>6. SlotsSame
    <3>1. \A i \in Fds : tab[a].fd[i] = NULL BY <1>4, <1>8 DEF Sound
    <3>. QED BY <1>1, <2>1, <3>1, NewTableOK DEF SlotsSame, TypeOK
  <2>7. \A f \in Files : InHand(f)' = InHand(f) BY <1>1, <1>6, <1>7, <2>2 DEF InHand, TypeOK
  <2>8. RefsOK' BY <1>1, <2>1, <2>6, <2>7, SameRefs
  <2>. QED BY <2>5, <2>8 DEF Frame, IInv
<1>9. CASE taken # {}
  <2>1. fd \in taken
    <3>1. taken \in SUBSET Nat BY <1>4 DEF Table, Fds
    <3> HIDE DEF taken
    <3>. QED BY <1>9, <3>1, MinOf
  <2>2. /\ tab' = [tab EXCEPT ![a].fd[fd] = NULL] /\ fput(t, tab[a].fd[fd], f_count) /\ pc' = pc /\ loc' = loc
    BY <1>2, <1>9 DEF close_files
  <2>3. fd \in tab[a].open /\ tab[a].fd[fd] # NULL BY <2>1
  <2> HIDE DEF fd, taken
  <2> DEFINE y == [tab[a] EXCEPT !.fd[fd] = NULL]
  <2>4. CASE fd \in Fds
    <3>1. PICK g \in Files : g = tab[a].fd[fd] BY <1>4, <2>3, <2>4 DEF Table
    <3>2. y \in Table /\ Sound(y) /\ y.count = 0 /\ y.fd = [tab[a].fd EXCEPT ![fd] = NULL] BY <1>4, <2>4 DEF Table, Sound
    <3>3. tab' = [tab EXCEPT ![a] = y] BY <1>1, <2>2 DEF TypeOK
    <3> HIDE DEF y
    <3>4. WorksKept(t) BY <1>1, <2>2, <3>1, FputWorks DEF TypeOK
    <3>5. pc' = [pc EXCEPT ![t] = "exit_files"] /\ loc' = [loc EXCEPT ![t] = loc[t]] BY <1>1, <2>2 DEF TypeOK
    <3>6. PlaceOK(t, tfiles[t], "exit_files", loc[t]) BY <1>1 DEF IInv, Placed
    <3>7. PICK l \in Locals : l = loc[t] BY <1>6
    <3>8. Frame' BY <1>2, <1>5, <1>6, <3>2, <3>3, <3>4, <3>5, <3>6, <3>7
    <3>9. SlotBecomes(a, fd, NULL) BY <1>1, <1>4, <2>4, <3>2, <3>3 DEF SlotBecomes, TypeOK, Table
    <3>10. loc' = [loc EXCEPT ![t] = l] BY <3>5, <3>7
    <3>11. RefsOK' BY <1>1, <2>2, <2>4, <3>1, <3>7, <3>9, <3>10, SlotDropped
    <3>. QED BY <3>8, <3>11 DEF Frame, IInv
  <2>. QED BY <1>4, <2>3, <2>4 DEF Table
<1>. QED BY <1>8, <1>9

----------------------------------------------------------------------------
(* Files that wait to be closed *)

\* A file is added to the front of list c ...
LEMMA Pushed ==
  ASSUME NEW q \in [Lists -> Seq(Files)], NEW r \in [Lists -> Seq(Files)], NEW c \in Lists, NEW g \in Files,
         r[c] = <<g>> \o q[c], \A d \in Lists \ {c} : r[d] = q[d], NEW f
  PROVE  /\ In(r, f) <=> In(q, f) \/ f = g
         /\ Once(q, f) /\ (f = g => ~In(q, f)) => Once(r, f)
<1>1. /\ Len(r[c]) = Len(q[c]) + 1 /\ r[c][1] = g /\ Len(q[c]) \in Nat
      /\ \A i \in 1 .. Len(q[c]) : r[c][i + 1] = q[c][i]
      /\ \A i \in 2 .. Len(r[c]) : i - 1 \in 1 .. Len(q[c]) /\ r[c][i] = q[c][i - 1]
  BY DEF In
<1>2. \A d \in Lists : DOMAIN q[d] = 1 .. Len(q[d]) /\ DOMAIN r[d] = 1 .. Len(r[d]) OBVIOUS
<1>3. ASSUME In(q, f) PROVE In(r, f)
  <2>0. PICK d \in Lists : \E i \in DOMAIN q[d] : q[d][i] = f BY <1>3 DEF In
  <2>1. PICK i \in DOMAIN q[d] : q[d][i] = f BY <2>0
  <2>2. CASE d = c
    <3>1. i + 1 \in DOMAIN r[c] /\ r[c][i + 1] = f BY <1>1, <1>2, <2>1, <2>2
    <3>. QED BY <3>1 DEF In
  <2>3. CASE d # c BY <2>1, <2>3 DEF In
  <2>. QED BY <2>2, <2>3
<1>4. ASSUME f = g PROVE In(r, f)
  <2>1. 1 \in DOMAIN r[c] /\ r[c][1] = f BY <1>1, <1>2, <1>4
  <2>. QED BY <2>1 DEF In
<1>5. ASSUME In(r, f), f # g PROVE In(q, f)
  <2>0. PICK d \in Lists : \E i \in DOMAIN r[d] : r[d][i] = f BY <1>5 DEF In
  <2>1. PICK i \in DOMAIN r[d] : r[d][i] = f BY <2>0
  <2>2. CASE d = c
    <3>1. i \in 2 .. Len(r[c]) BY <1>1, <1>2, <1>5, <2>1, <2>2
    <3>2. i - 1 \in DOMAIN q[c] /\ q[c][i - 1] = f BY <1>1, <1>2, <2>1, <2>2, <3>1
    <3>. QED BY <3>2 DEF In
  <2>3. CASE d # c BY <2>1, <2>3 DEF In
  <2>. QED BY <2>2, <2>3
<1>6. ASSUME Once(q, f), f = g => ~In(q, f) PROVE Once(r, f)
  <2> SUFFICES ASSUME NEW d \in Lists, NEW e \in Lists, NEW i \in DOMAIN r[d], NEW j \in DOMAIN r[e],
                      r[d][i] = f, r[e][j] = f
               PROVE  d = e /\ i = j
    BY DEF Once
  <2>1. CASE f = g
    <3>1. \A b \in Lists : \A k \in DOMAIN q[b] : q[b][k] # f BY <1>6, <2>1 DEF In
    <3>2. \A b \in Lists : \A k \in DOMAIN r[b] : r[b][k] = f => b = c /\ k = 1
      <4> SUFFICES ASSUME NEW b \in Lists, NEW k \in DOMAIN r[b], r[b][k] = f PROVE b = c /\ k = 1 OBVIOUS
      <4>1. b = c BY <3>1
      <4>2. k \notin 2 .. Len(r[c]) BY <1>1, <1>2, <3>1, <4>1
      <4>. QED BY <1>1, <1>2, <4>1, <4>2
    <3>. QED BY <3>2
  <2>2. CASE f # g
    <3>1. \A b \in Lists : \A k \in DOMAIN r[b] : r[b][k] = f =>
            IF b = c THEN k \in 2 .. Len(r[c]) /\ k - 1 \in DOMAIN q[c] /\ q[c][k - 1] = f
            ELSE k \in DOMAIN q[b] /\ q[b][k] = f
      BY <1>1, <1>2, <2>2
    <3>2. \A a, b \in Lists : \A k \in DOMAIN q[a], m \in DOMAIN q[b] : q[a][k] = f /\ q[b][m] = f => a = b /\ k = m
      BY <1>6 DEF Once
    <3>3. CASE d = c /\ e = c
      <4>1. i \in 2 .. Len(r[c]) /\ j \in 2 .. Len(r[c]) /\ i - 1 = j - 1 BY <3>1, <3>2, <3>3
      <4>. QED BY <1>1, <3>3, <4>1
    <3>4. CASE d = c /\ e # c BY <3>1, <3>2, <3>4
    <3>5. CASE d # c /\ e = c
      <4>1. j - 1 \in DOMAIN q[c] /\ q[c][j - 1] = f /\ i \in DOMAIN q[d] /\ q[d][i] = f BY <3>1, <3>5
      <4>. QED BY <3>2, <3>5, <4>1
    <3>6. CASE d # c /\ e # c BY <3>1, <3>2, <3>6
    <3>. QED BY <3>3, <3>4, <3>5, <3>6
  <2>. QED BY <2>1, <2>2
<1>. QED BY <1>3, <1>4, <1>5, <1>6

\* ... and the first one of list c is taken off, which is on no list then ...
LEMMA Popped ==
  ASSUME NEW q \in [Lists -> Seq(Files)], NEW r \in [Lists -> Seq(Files)], NEW c \in Lists, q[c] # <<>>,
         r[c] = Tail(q[c]), \A d \in Lists \ {c} : r[d] = q[d], NEW f, Once(q, f)
  PROVE  /\ In(r, f) <=> In(q, f) /\ f # Head(q[c])
         /\ Once(r, f)
<1>1. /\ Len(q[c]) \in Nat \ {0} /\ Len(r[c]) = Len(q[c]) - 1 /\ Head(q[c]) = q[c][1]
      /\ \A i \in 1 .. Len(r[c]) : i + 1 \in 2 .. Len(q[c]) /\ r[c][i] = q[c][i + 1]
      /\ \A i \in 2 .. Len(q[c]) : i - 1 \in 1 .. Len(r[c]) /\ q[c][i] = r[c][i - 1]
  OBVIOUS
<1>2. \A d \in Lists : DOMAIN q[d] = 1 .. Len(q[d]) /\ DOMAIN r[d] = 1 .. Len(r[d]) OBVIOUS
<1>3. \A b \in Lists : \A k \in DOMAIN r[b] : r[b][k] = f =>
        IF b = c THEN k + 1 \in DOMAIN q[c] /\ q[c][k + 1] = f /\ k + 1 # 1
        ELSE k \in DOMAIN q[b] /\ q[b][k] = f
  <2> SUFFICES ASSUME NEW b \in Lists, NEW k \in DOMAIN r[b], r[b][k] = f
               PROVE  IF b = c THEN k + 1 \in DOMAIN q[c] /\ q[c][k + 1] = f /\ k + 1 # 1
                      ELSE k \in DOMAIN q[b] /\ q[b][k] = f
    OBVIOUS
  <2>1. CASE b = c
    <3>1. k \in 1 .. Len(r[c]) BY <1>2, <2>1
    <3>2. k + 1 \in 2 .. Len(q[c]) /\ r[c][k] = q[c][k + 1] BY <1>1, <3>1
    <3>. QED BY <1>1, <1>2, <2>1, <3>1, <3>2
  <2>2. CASE b # c BY <2>2
  <2>. QED BY <2>1, <2>2
<1>4. \A a, b \in Lists : \A k \in DOMAIN q[a], m \in DOMAIN q[b] : q[a][k] = f /\ q[b][m] = f => a = b /\ k = m
  BY DEF Once
<1>5. ASSUME In(r, f) PROVE In(q, f) /\ f # Head(q[c])
  <2>0. PICK d \in Lists : \E i \in DOMAIN r[d] : r[d][i] = f BY <1>5 DEF In
  <2>1. PICK i \in DOMAIN r[d] : r[d][i] = f BY <2>0
  <2>2. In(q, f) BY <1>3, <2>1 DEF In
  <2>3. 1 \in DOMAIN q[c] BY <1>1, <1>2
  <2>4. CASE d = c
    <3>1. i + 1 \in DOMAIN q[c] /\ q[c][i + 1] = f /\ i + 1 # 1 BY <1>3, <2>1, <2>4
    <3>2. q[c][1] # f BY <1>4, <2>3, <3>1
    <3>. QED BY <1>1, <2>2, <3>2
  <2>5. CASE d # c BY <1>1, <1>3, <1>4, <2>1, <2>2, <2>3, <2>5
  <2>. QED BY <2>4, <2>5
<1>6. ASSUME In(q, f), f # Head(q[c]) PROVE In(r, f)
  <2>0. PICK d \in Lists : \E i \in DOMAIN q[d] : q[d][i] = f BY <1>6 DEF In
  <2>1. PICK i \in DOMAIN q[d] : q[d][i] = f BY <2>0
  <2>2. CASE d = c
    <3>1. i \in 2 .. Len(q[c]) BY <1>1, <1>2, <1>6, <2>1, <2>2
    <3>2. i - 1 \in DOMAIN r[c] /\ r[c][i - 1] = f BY <1>1, <1>2, <2>1, <2>2, <3>1
    <3>. QED BY <3>2 DEF In
  <2>3. CASE d # c BY <2>1, <2>3 DEF In
  <2>. QED BY <2>2, <2>3
<1>7. Once(r, f)
  <2> SUFFICES ASSUME NEW d \in Lists, NEW e \in Lists, NEW i \in DOMAIN r[d], NEW j \in DOMAIN r[e],
                      r[d][i] = f, r[e][j] = f
               PROVE  d = e /\ i = j
    BY DEF Once
  <2>1. CASE d = c /\ e = c
    <3>1. i + 1 = j + 1 BY <1>3, <1>4, <2>1
    <3>. QED BY <1>2, <2>1, <3>1
  <2>2. CASE d = c /\ e # c BY <1>3, <1>4, <2>2
  <2>3. CASE d # c /\ e = c BY <1>3, <1>4, <2>3
  <2>4. CASE d # c /\ e # c BY <1>3, <1>4, <2>4
  <2>. QED BY <2>1, <2>2, <2>3, <2>4
<1>. QED BY <1>5, <1>6, <1>7

\* ... or list c is detached: what was on it is on list e.
LEMMA Detached ==
  ASSUME NEW q \in [Lists -> Seq(Files)], NEW r \in [Lists -> Seq(Files)], NEW c \in Lists, NEW e \in Lists, c # e,
         q[e] = <<>>, r[e] = q[c], r[c] = <<>>, \A d \in Lists \ {c, e} : r[d] = q[d], NEW f
  PROVE  (In(r, f) <=> In(q, f)) /\ (Once(q, f) => Once(r, f))
<1> DEFINE from(d) == IF d = e THEN c ELSE d
<1>1. \A d \in Lists : \A i \in DOMAIN r[d] : d # c /\ from(d) \in Lists /\ i \in DOMAIN q[from(d)] /\ r[d][i] = q[from(d)][i]
  BY DEF In
<1>2. \A d \in Lists : \A i \in DOMAIN q[d] :
        d # e /\ LET b == IF d = c THEN e ELSE d IN b \in Lists /\ i \in DOMAIN r[b] /\ r[b][i] = q[d][i]
  BY DEF In
<1>3. In(r, f) => In(q, f) BY <1>1 DEF In
<1>4. In(q, f) => In(r, f) BY <1>2 DEF In
<1>5. ASSUME Once(q, f) PROVE Once(r, f)
  <2> SUFFICES ASSUME NEW a \in Lists, NEW b \in Lists, NEW i \in DOMAIN r[a], NEW j \in DOMAIN r[b],
                      r[a][i] = f, r[b][j] = f
               PROVE  a = b /\ i = j
    BY DEF Once
  <2>1. from(a) = from(b) /\ i = j BY <1>1, <1>5 DEF Once
  <2>2. a # c /\ b # c BY <1>1
  <2>. QED BY <2>1, <2>2
<1>. QED BY <1>3, <1>4, <1>5

\* The lists.
LEMMA QueueIs ==
  /\ \A t \in Tasks : <<"task_works", t>> \in Lists /\ <<"todo", t>> \in Lists
  /\ <<"delayed_fput_list", "work">> \in Lists
  /\ \A c \in Lists : \/ \E t \in Tasks : c = <<"task_works", t>> \/ c = <<"todo", t>>
                      \/ c = <<"delayed_fput_list", "work">>
  /\ \A t \in Tasks : /\ Queue[<<"task_works", t>>] = task_works[t] /\ Queue'[<<"task_works", t>>] = task_works'[t]
                      /\ Queue[<<"todo", t>>] = todo[t] /\ Queue'[<<"todo", t>>] = todo'[t]
  /\ Queue[<<"delayed_fput_list", "work">>] = delayed_fput_list
  /\ Queue'[<<"delayed_fput_list", "work">>] = delayed_fput_list'
  /\ TypeOK => Queue \in [Lists -> Seq(Files)]
  /\ TypeOK' => Queue' \in [Lists -> Seq(Files)]
<1>1. \A c \in Lists : \/ \E t \in Tasks : c = <<"task_works", t>> \/ c = <<"todo", t>>
                       \/ c = <<"delayed_fput_list", "work">>
  BY DEF Lists
<1>2. /\ <<"delayed_fput_list", "work">> \in Lists
      /\ \A t \in Tasks : <<"task_works", t>> \in Lists /\ <<"todo", t>> \in Lists
  BY DEF Lists
<1>3. \A t \in Tasks : /\ Queue[<<"task_works", t>>] = task_works[t] /\ Queue'[<<"task_works", t>>] = task_works'[t]
                       /\ Queue[<<"todo", t>>] = todo[t] /\ Queue'[<<"todo", t>>] = todo'[t]
  BY <1>2 DEF Queue
<1>4. /\ Queue[<<"delayed_fput_list", "work">>] = delayed_fput_list
      /\ Queue'[<<"delayed_fput_list", "work">>] = delayed_fput_list'
  BY <1>2 DEF Queue
<1>5. TypeOK => Queue \in [Lists -> Seq(Files)]
  <2>1. ASSUME TypeOK, NEW c \in Lists PROVE Queue[c] \in Seq(Files)
    <3>1. /\ \A t \in Tasks : task_works[t] \in Seq(Files) /\ todo[t] \in Seq(Files)
          /\ delayed_fput_list \in Seq(Files)
      BY <2>1 DEF TypeOK
    <3>2. ASSUME NEW t \in Tasks, c = <<"task_works", t>> PROVE Queue[c] \in Seq(Files) BY <1>3, <3>1, <3>2
    <3>3. ASSUME NEW t \in Tasks, c = <<"todo", t>> PROVE Queue[c] \in Seq(Files) BY <1>3, <3>1, <3>3
    <3>4. CASE c = <<"delayed_fput_list", "work">> BY <1>4, <3>1, <3>4
    <3>. QED BY <1>1, <3>2, <3>3, <3>4
  <2>2. Queue = [c \in Lists |-> Queue[c]] BY DEF Queue
  <2>. QED BY <2>1, <2>2
<1>6. TypeOK' => Queue' \in [Lists -> Seq(Files)]
  <2>1. ASSUME TypeOK', NEW c \in Lists PROVE Queue'[c] \in Seq(Files)
    <3>1. /\ \A t \in Tasks : task_works'[t] \in Seq(Files) /\ todo'[t] \in Seq(Files)
          /\ delayed_fput_list' \in Seq(Files)
      BY <2>1 DEF TypeOK
    <3>2. ASSUME NEW t \in Tasks, c = <<"task_works", t>> PROVE Queue'[c] \in Seq(Files) BY <1>3, <3>1, <3>2
    <3>3. ASSUME NEW t \in Tasks, c = <<"todo", t>> PROVE Queue'[c] \in Seq(Files) BY <1>3, <3>1, <3>3
    <3>4. CASE c = <<"delayed_fput_list", "work">> BY <1>4, <3>1, <3>4
    <3>. QED BY <1>1, <3>2, <3>3, <3>4
  <2>2. Queue' = [c \in Lists |-> Queue'[c]] BY DEF Queue
  <2>. QED BY <2>1, <2>2
<1>. QED BY <1>1, <1>2, <1>3, <1>4, <1>5, <1>6

\* A step that changes list c only.
LEMMA OtherLists ==
  ASSUME NEW c \in Lists,
         \A u \in Tasks : /\ <<"task_works", u>> # c => task_works'[u] = task_works[u]
                          /\ <<"todo", u>> # c => todo'[u] = todo[u],
         <<"delayed_fput_list", "work">> # c => delayed_fput_list' = delayed_fput_list
  PROVE  \A d \in Lists \ {c} : Queue'[d] = Queue[d]
<1> SUFFICES ASSUME NEW d \in Lists, d # c PROVE Queue'[d] = Queue[d] OBVIOUS
<1>1. ASSUME NEW u \in Tasks, d = <<"task_works", u>> PROVE Queue'[d] = Queue[d] BY <1>1, QueueIs
<1>2. ASSUME NEW u \in Tasks, d = <<"todo", u>> PROVE Queue'[d] = Queue[d] BY <1>2, QueueIs
<1>3. CASE d = <<"delayed_fput_list", "work">> BY <1>3, QueueIs
<1>. QED BY <1>1, <1>2, <1>3, QueueIs

\* refs[f] is zero where f_count[f] is.
SameZeros(refs) == \A f \in Files \ short : refs[f] = 0 <=> f_count[f] = 0

\* The only tasks that may get to a file, or have been through with them, are
\* the ones at these locations.
Closing == {"none", "leave", "exit_run"}

\* A step that leaves the lists alone, and no count becomes zero.
LEMMA StillQueues ==
  ASSUME Queues, short \subseteq short', SameZeros(f_count'), work_exited' \subseteq work_exited,
         UNCHANGED <<alloc, task_works, delayed_fput_list, pending, todo>>,
         \A u \in Tasks : pc'[u] = pc[u] \/ pc[u] \notin Closing \/ (pc[u] = "none" /\ u \notin work_exited')
  PROVE  Queues'
<1>1. Queue' = Queue BY DEF Queue
<1>2. ASSUME NEW f \in Files \ short' PROVE Waits(f)'
  <2>1. f \in Files \ short OBVIOUS
  <2>2. Waits(f) /\ (f_count'[f] = 0 <=> f_count[f] = 0) BY <2>1 DEF Queues, SameZeros
  <2>. QED BY <1>1, <2>2 DEF Waits
<1>3. Workers' BY DEF Queues, Workers, Closing
<1>4. Delayed' BY DEF Queues, Delayed, Alone
<1>. QED BY <1>2, <1>3, <1>4 DEF Queues

\* The same for a step of task t that takes references.
LEMMA TakenQueues ==
  ASSUME Queues, TypeOK, short \subseteq short', NEW t \in Tasks, NEW where, pc[t] \notin Closing,
         NEW refs, SameZeros(refs), f_count' = refs, keepWorks, pc' = [pc EXCEPT ![t] = where]
  PROVE  Queues'
<1>1. \A u \in Tasks : pc'[u] = pc[u] \/ pc[u] \notin Closing BY DEF TypeOK
<1>. QED BY <1>1, StillQueues DEF keepWorks

\* The last reference goes: the file is on one list more, which is that of the
\* task, or the one that the task, a kernel thread, comes to at once, or the
\* one that waits for another kernel thread.
LEMMA LastPut ==
  ASSUME TypeOK, Queues, NEW t \in Tasks, pc[t] \notin Closing, NEW g \in Files, fput_zero(t, g)
  PROVE  /\ \E c \in Lists : Queue'[c] = <<g>> \o Queue[c] /\ \A d \in Lists \ {c} : Queue'[d] = Queue[d]
         /\ \A u \in Tasks : /\ todo'[u] # <<>> => todo[u] # <<>> \/ (u = t /\ t \in KThreads)
                             /\ u \in KThreads => task_works'[u] = <<>>
         /\ Delayed'
<1>1. /\ t \notin work_exited /\ todo[t] = <<>> /\ (CanAddWork(t) <=> t \notin KThreads)
  BY DEF Queues, Workers, Closing, CanAddWork
<1>2. task_works \in [Tasks -> Seq(Files)] /\ todo \in [Tasks -> Seq(Files)] /\ delayed_fput_list \in Seq(Files)
  BY DEF TypeOK
<1>3. \A u \in KThreads : task_works[u] = <<>> BY KThreadAssumption DEF Queues, Workers
<1>4. CASE t \notin KThreads
  <2>1. task_works' = [task_works EXCEPT ![t] = <<g>> \o @] /\ UNCHANGED <<delayed_fput_list, pending, todo>>
    BY <1>1, <1>4 DEF fput_zero
  <2> DEFINE c == <<"task_works", t>>
  <2>2. Queue'[c] = <<g>> \o Queue[c] BY <1>2, QueueIs, <2>1
  <2>3. \A d \in Lists \ {c} : Queue'[d] = Queue[d] BY <1>2, <2>1, QueueIs, OtherLists
  <2>4. Delayed' BY <2>1 DEF Queues, Delayed, Alone
  <2>5. \A u \in KThreads : task_works'[u] = <<>> BY <1>2, <1>3, <1>4, <2>1, KThreadAssumption
  <2>6. c \in Lists BY QueueIs
  <2> HIDE DEF c
  <2>7. \E k \in Lists : Queue'[k] = <<g>> \o Queue[k] /\ \A d \in Lists \ {k} : Queue'[d] = Queue[d] BY <2>2, <2>3, <2>6
  <2>8. \A u \in Tasks : todo'[u] = todo[u] BY <2>1
  <2>. QED BY <2>4, <2>5, <2>7, <2>8
<1>5. CASE t \in KThreads /\ delayed_fput_list = <<>> /\ ~pending
  <2>1. /\ pending' = TRUE /\ delayed_fput_list' = <<>> /\ todo' = [todo EXCEPT ![t] = <<g>>]
        /\ UNCHANGED task_works
    BY <1>1, <1>5 DEF fput_zero, schedule_delayed_work
  <2> DEFINE c == <<"todo", t>>
  <2>2. Queue'[c] = <<g>> \o Queue[c]
    <3>1. <<g>> \o <<>> = <<g>> OBVIOUS
    <3>. QED BY <1>1, <1>2, QueueIs, <2>1, <3>1
  <2>3. \A d \in Lists \ {c} : Queue'[d] = Queue[d] BY <1>2, <1>5, <2>1, QueueIs, OtherLists
  <2>4. Delayed'
    <3>1. todo'[t] # <<>> BY <1>2, <2>1
    <3>. QED BY <1>5, <2>1, <3>1 DEF Delayed
  <2>5. c \in Lists BY QueueIs
  <2> HIDE DEF c
  <2>. QED BY <1>2, <1>3, <1>5, <2>1, <2>2, <2>3, <2>4, <2>5
<1>6. CASE t \in KThreads /\ (delayed_fput_list # <<>> \/ pending)
  <2>1. delayed_fput_list' = <<g>> \o delayed_fput_list /\ UNCHANGED <<task_works, pending, todo>>
    <3>1. <<g>> \o <<>> = <<g>> OBVIOUS
    <3>. QED BY <1>1, <1>6, <3>1 DEF fput_zero, schedule_delayed_work
  <2> DEFINE c == <<"delayed_fput_list", "work">>
  <2>2. Queue'[c] = <<g>> \o Queue[c] BY QueueIs, <2>1
  <2>3. \A d \in Lists \ {c} : Queue'[d] = Queue[d] BY <2>1, QueueIs, OtherLists
  <2>4. ~Alone BY <1>1, <1>6 DEF Queues, Delayed, Alone
  <2>5. Delayed' BY <2>4 DEF Delayed
  <2>6. c \in Lists BY QueueIs
  <2> HIDE DEF c
  <2>7. \E k \in Lists : Queue'[k] = <<g>> \o Queue[k] /\ \A d \in Lists \ {k} : Queue'[d] = Queue[d] BY <2>2, <2>3, <2>6
  <2>8. \A u \in Tasks : todo'[u] = todo[u] /\ (u \in KThreads => task_works'[u] = <<>>) BY <1>3, <2>1
  <2>. QED BY <2>5, <2>7, <2>8
<1>. QED BY <1>4, <1>5, <1>6

\* fput() of a reference that was counted.
LEMMA FputQueues ==
  ASSUME TypeOK, TypeOK', Queues, short \subseteq short', NEW t \in Tasks, pc[t] \notin Closing, NEW where,
         NEW g \in Files, NEW refs \in [Files -> Nat], fput(t, g, refs), SameZeros(refs),
         g \notin short' => f_count[g] > 0,
         pc' = [pc EXCEPT ![t] = where], t \in KThreads /\ todo'[t] # <<>> => where = "leave"
  PROVE  Queues'
<1>1. /\ f_count'[g] = (IF refs[g] = 0 THEN 0 ELSE refs[g] - 1) /\ refs[g] \in Nat
      /\ \A f \in Files \ {g} : f_count'[f] = refs[f]
  BY FputWorks
<1>2. UNCHANGED <<work_exited, alloc>> BY DEF fput
<1>3. pc'[t] = where /\ \A u \in Tasks \ {t} : pc'[u] = pc[u] BY DEF TypeOK
<1>4. \A f \in Files \ short' : f \in Files \ short /\ Waits(f) /\ (refs[f] = 0 <=> f_count[f] = 0)
  BY DEF Queues, SameZeros
<1>5. g \notin short' => refs[g] # 0 /\ ~In(Queue, g)
  <2> SUFFICES ASSUME g \notin short' PROVE refs[g] # 0 /\ ~In(Queue, g) OBVIOUS
  <2>1. f_count[g] # 0 BY DEF TypeOK
  <2>. QED BY <1>4, <2>1 DEF Waits
<1>6. CASE refs[g] # 1
  <2>1. UNCHANGED <<task_works, delayed_fput_list, pending, todo>> BY <1>6 DEF fput
  <2>2. Queue' = Queue BY <2>1 DEF Queue
  <2>3. ASSUME NEW f \in Files \ short' PROVE Waits(f)'
    <3>1. Waits(f) /\ (refs[f] = 0 <=> f_count[f] = 0) BY <1>4
    <3>2. f_count'[f] = 0 <=> f_count[f] = 0
      <4>1. CASE f = g BY <1>1, <1>5, <1>6, <3>1, <4>1
      <4>2. CASE f # g BY <1>1, <3>1, <4>2
      <4>. QED BY <4>1, <4>2
    <3>. QED BY <1>2, <2>2, <3>1, <3>2 DEF Waits
  <2>4. Workers' BY <1>2, <1>3, <2>1 DEF Queues, Workers, Closing
  <2>5. Delayed' BY <2>1 DEF Queues, Delayed, Alone
  <2>. QED BY <2>3, <2>4, <2>5 DEF Queues
<1>7. CASE refs[g] = 1
  <2>0. fput_zero(t, g) BY <1>7 DEF fput
  <2>1. PICK c \in Lists : Queue'[c] = <<g>> \o Queue[c] /\ \A d \in Lists \ {c} : Queue'[d] = Queue[d]
    BY <2>0, LastPut
  <2>2. PICK q \in [Lists -> Seq(Files)], r \in [Lists -> Seq(Files)] : q = Queue /\ r = Queue' BY QueueIs
  <2>3. ASSUME NEW f \in Files \ short' PROVE Waits(f)'
    <3>1. Waits(f) /\ (refs[f] = 0 <=> f_count[f] = 0) BY <1>4
    <3>2. /\ In(Queue', f) <=> In(Queue, f) \/ f = g
          /\ Once(Queue, f) /\ (f = g => ~In(Queue, f)) => Once(Queue', f)
      <4>1. r[c] = <<g>> \o q[c] /\ \A d \in Lists \ {c} : r[d] = q[d] BY <2>1, <2>2
      <4>2. (In(r, f) <=> In(q, f) \/ f = g) /\ (Once(q, f) /\ (f = g => ~In(q, f)) => Once(r, f)) BY <4>1, Pushed
      <4>. QED BY <2>2, <4>2
    <3>3. Once(Queue', f) BY <1>5, <3>1, <3>2 DEF Waits
    <3>4. f = g => f \in alloc /\ f_count'[f] = 0
      <4>1. f = g => f \in alloc BY <1>5, <3>1 DEF Waits
      <4>. QED BY <1>1, <1>7, <4>1
    <3>5. f # g => (f_count'[f] = 0 <=> f_count[f] = 0) BY <1>1, <3>1
    <3>. QED BY <1>2, <3>1, <3>2, <3>3, <3>4, <3>5 DEF Waits
  <2>4. /\ \A u \in Tasks : /\ todo'[u] # <<>> => todo[u] # <<>> \/ (u = t /\ t \in KThreads)
                            /\ u \in KThreads => task_works'[u] = <<>>
        /\ Delayed'
    BY <2>0, LastPut
  <2>5. Workers' BY <1>2, <1>3, <2>4 DEF Queues, Workers, Closing
  <2>. QED BY <2>3, <2>4, <2>5 DEF Queues
<1>. QED BY <1>6, <1>7

\* A turn of the loop that closes files.
LEMMA RunQueues ==
  ASSUME TypeOK, TypeOK', Queues, UNCHANGED short, NEW t \in Tasks, task_work_run(t)
  PROVE  Queues'
<1> DEFINE detached == todo[t] # <<>>
           list == IF detached THEN todo[t] ELSE task_works[t]
           g == Head(list)
<1>1. /\ list # <<>> /\ alloc' = alloc \ {g} /\ todo' = [todo EXCEPT ![t] = Tail(list)]
      /\ task_works' = (IF detached THEN task_works ELSE [task_works EXCEPT ![t] = <<>>])
      /\ pending' = (IF detached /\ ~CanAddWork(t) /\ Len(list) = 1 THEN FALSE ELSE pending)
      /\ UNCHANGED <<f_count, work_exited, delayed_fput_list>>
  BY DEF task_work_run, __fput
<1>2. /\ pc[t] \in {"leave", "exit_run"} /\ \A u \in Tasks \ {t} : pc'[u] = pc[u]
      /\ pc'[t] = IF pc[t] = "leave" /\ todo'[t] = <<>> THEN "user" ELSE pc[t]
  BY DEF task_work_run, TypeOK
<1>3. /\ task_works \in [Tasks -> Seq(Files)] /\ todo \in [Tasks -> Seq(Files)] /\ list \in Seq(Files)
      /\ g \in Files /\ pending \in BOOLEAN
  BY <1>1 DEF TypeOK
<1>4. t \in KThreads => task_works[t] = <<>> BY DEF Queues, Workers
<1> DEFINE a == <<"task_works", t>>
           b == <<"todo", t>>
           m == IF detached THEN Queue ELSE [Queue EXCEPT ![a] = <<>>, ![b] = Queue[a]]
<1>5. a \in Lists /\ b \in Lists /\ a # b BY QueueIs
<1>6. /\ m \in [Lists -> Seq(Files)] /\ m[b] = list
      /\ ~detached => m[a] = <<>> /\ m[b] = Queue[a] /\ Queue[b] = <<>> /\ \A d \in Lists \ {a, b} : m[d] = Queue[d]
  BY <1>5, QueueIs
<1>7. Queue'[b] = Tail(m[b]) BY <1>1, <1>3, <1>6, QueueIs
<1>8. \A d \in Lists \ {b} : Queue'[d] = m[d]
  <2> SUFFICES ASSUME NEW d \in Lists \ {b} PROVE Queue'[d] = m[d] OBVIOUS
  <2>1. ASSUME NEW u \in Tasks, d = <<"task_works", u>> PROVE Queue'[d] = m[d]
    <3>1. Queue[d] = task_works[u] /\ Queue'[d] = task_works'[u] BY <2>1, QueueIs
    <3>2. CASE u = t BY <1>1, <1>3, <1>6, <2>1, <3>1, <3>2
    <3>3. CASE u # t
      <4>1. d \notin {a, b} /\ task_works'[u] = task_works[u] BY <1>1, <1>3, <2>1, <3>3
      <4>. QED BY <1>6, <3>1, <4>1
    <3>. QED BY <3>2, <3>3
  <2>2. ASSUME NEW u \in Tasks, d = <<"todo", u>> PROVE Queue'[d] = m[d]
    <3>1. Queue[d] = todo[u] /\ Queue'[d] = todo'[u] BY <2>2, QueueIs
    <3>2. u # t /\ d \notin {a, b} BY <2>2
    <3>3. todo'[u] = todo[u] BY <1>1, <1>3, <3>2
    <3>. QED BY <1>6, <3>1, <3>2, <3>3
  <2>3. CASE d = <<"delayed_fput_list", "work">> BY <1>1, QueueIs, <2>3
  <2>. QED BY QueueIs, <2>1, <2>2, <2>3
<1> HIDE DEF a, b
<1>9. ASSUME NEW f \in Files \ short'
      PROVE  (In(Queue', f) <=> In(Queue, f) /\ f # g) /\ Once(Queue', f)
  <2>1. Once(Queue, f) BY <1>9 DEF Queues, Waits
  <2>2. (In(m, f) <=> In(Queue, f)) /\ Once(m, f)
    <3>1. CASE detached BY <2>1, <3>1
    <3>2. CASE ~detached
      <4>1. PICK q \in [Lists -> Seq(Files)], n \in [Lists -> Seq(Files)] : q = Queue /\ n = m BY <1>6, QueueIs
      <4> HIDE DEF m
      <4>2. q[b] = <<>> /\ n[b] = q[a] /\ n[a] = <<>> /\ \A d \in Lists \ {a, b} : n[d] = q[d] BY <1>6, <3>2, <4>1
      <4>3. (In(n, f) <=> In(q, f)) /\ (Once(q, f) => Once(n, f)) BY <1>5, <4>2, Detached
      <4>. QED BY <2>1, <4>1, <4>3
    <3>. QED BY <3>1, <3>2
  <2> HIDE DEF m, list, detached
  <2>3. m[b] # <<>> /\ Head(m[b]) = g BY <1>1, <1>6
  <2>4. PICK n \in [Lists -> Seq(Files)], r \in [Lists -> Seq(Files)] : n = m /\ r = Queue' BY <1>6, QueueIs
  <2>5. n[b] # <<>> /\ r[b] = Tail(n[b]) /\ (\A d \in Lists \ {b} : r[d] = n[d]) /\ Once(n, f)
    BY <1>7, <1>8, <2>2, <2>3, <2>4
  <2>6. (In(r, f) <=> In(n, f) /\ f # Head(n[b])) /\ Once(r, f) BY <1>5, <2>5, Popped
  <2>. QED BY <2>2, <2>3, <2>4, <2>6
<1>10. ASSUME NEW f \in Files \ short' PROVE Waits(f)'
  <2>1. Waits(f) BY DEF Queues
  <2>2. (In(Queue', f) <=> In(Queue, f) /\ f # g) /\ Once(Queue', f) BY <1>9
  <2>3. f = g => In(Queue, f)
    <3>1. (detached => Queue[b] = list) /\ (~detached => Queue[a] = list) BY QueueIs DEF a, b
    <3>2. 1 \in DOMAIN list /\ g = list[1] BY <1>1, <1>3
    <3>. QED BY <1>5, <3>1, <3>2 DEF In
  <2> HIDE DEF g
  <2>. QED BY <1>1, <2>1, <2>2, <2>3 DEF Waits
<1>11. Workers'
  <2>1. \A u \in Tasks \ {t} : todo'[u] = todo[u] /\ task_works'[u] = task_works[u] BY <1>1, <1>3
  <2>2. task_works'[t] # <<>> => task_works[t] # <<>> BY <1>1, <1>3
  <2>3. t \notin work_exited' /\ (todo'[t] # <<>> => pc'[t] \in {"leave", "exit_run"}) BY <1>1, <1>2 DEF Queues, Workers
  <2>. QED BY <1>1, <1>2, <1>4, <2>1, <2>2, <2>3 DEF Queues, Workers
<1>12. Delayed'
  <2> SUFFICES ASSUME Alone PROVE delayed_fput_list' = <<>> /\ (pending' => \E u \in KThreads : todo'[u] # <<>>)
    BY DEF Delayed, Alone
  <2>1. delayed_fput_list' = <<>> /\ (pending' => pending) BY <1>1, <1>3 DEF Queues, Delayed
  <2> SUFFICES ASSUME pending' PROVE \E u \in KThreads : todo'[u] # <<>> BY <2>1
  <2>2. PICK u \in KThreads : todo[u] # <<>> BY <2>1 DEF Queues, Delayed
  <2>3. CASE u # t BY <1>1, <1>3, <2>2, <2>3, KThreadAssumption
  <2>4. CASE u = t
    <3>1. detached /\ ~CanAddWork(t) BY <2>2, <2>4 DEF CanAddWork
    <3>2. Len(list) # 1 BY <1>1, <3>1
    <3>3. Tail(list) # <<>>
      <4>1. list # <<>> /\ list \in Seq(Files) BY <1>1, <1>3
      <4> HIDE DEF list
      <4>2. Len(list) \in Nat /\ Len(list) # 0 /\ Len(Tail(list)) = Len(list) - 1 BY <4>1
      <4>. QED BY <3>2, <4>2
    <3>. QED BY <1>1, <1>3, <2>2, <2>4, <3>3
  <2>. QED BY <2>3, <2>4
<1>. QED BY <1>10, <1>11, <1>12 DEF Queues

\* A task that exits closes its list when it is empty.
LEMMA ExitQueues ==
  ASSUME TypeOK, Queues, UNCHANGED short, NEW t \in Tasks, exit_task_work(t)
  PROVE  Queues'
<1>1. /\ todo[t] = <<>> /\ work_exited' = work_exited \cup {t} /\ pc' = [pc EXCEPT ![t] = "none"]
      /\ UNCHANGED <<alloc, f_count, task_works, delayed_fput_list, pending, todo>>
  BY DEF exit_task_work, close_task_works
<1>2. pc'[t] = "none" /\ \A u \in Tasks \ {t} : pc'[u] = pc[u] BY <1>1 DEF TypeOK
<1>3. Queue' = Queue BY <1>1 DEF Queue
<1>4. \A f \in Files \ short' : Waits(f)' BY <1>1, <1>3 DEF Queues, Waits
<1>5. Workers' BY <1>1, <1>2 DEF Queues, Workers
<1>6. Delayed' BY <1>1 DEF Queues, Delayed, Alone
<1>. QED BY <1>4, <1>5, <1>6 DEF Queues

\* A file that is allocated waits nowhere.
LEMMA NewFileQueues ==
  ASSUME TypeOK, Queues, NEW t \in Tasks, pc[t] \notin Closing, NEW where, pc' = [pc EXCEPT ![t] = where],
         NEW g \in Files, get_empty_file(g)
  PROVE  Queues'
<1>1. /\ g \notin alloc /\ alloc' = alloc \cup {g} /\ f_count' = [f_count EXCEPT ![g] = 1]
      /\ UNCHANGED <<task_works, work_exited, delayed_fput_list, pending, todo>>
      /\ short' = IF Named(g) THEN short ELSE short \ {g}
  BY DEF get_empty_file, alloc_empty_file
<1>2. \A u \in Tasks \ {t} : pc'[u] = pc[u] BY DEF TypeOK
<1>3. Queue' = Queue BY <1>1 DEF Queue
<1>4. ASSUME NEW f \in Files \ short' PROVE Waits(f)'
  <2>1. CASE f # g
    <3>1. f \notin short BY <1>1, <2>1
    <3>2. Waits(f) /\ f_count'[f] = f_count[f] BY <1>1, <2>1, <3>1 DEF Queues, TypeOK
    <3>. QED BY <1>1, <1>3, <2>1, <3>2 DEF Waits
  <2>2. CASE f = g
    <3>1. ~In(Queue, f)
      <4>1. CASE f \notin short BY <1>1, <2>2, <4>1 DEF Queues, Waits
      <4>2. CASE f \in short
        <5>1. ~Named(f) BY <1>1, <2>2, <4>2
        <5>2. Waiting(f) = {} BY <5>1 DEF Named
        <5>3. ASSUME NEW c \in Lists, NEW i \in DOMAIN Queue[c], Queue[c][i] = f PROVE FALSE
          <6>1. <<c, i>> \in {<<c, k>> : k \in {j \in DOMAIN Queue[c] : Queue[c][j] = f}} BY <5>3
          <6>2. <<c, i>> \in Waiting(f) BY <6>1 DEF Waiting
          <6>. QED BY <5>2, <6>2
        <5>. QED BY <5>3 DEF In
      <4>. QED BY <4>1, <4>2
    <3>2. Once(Queue, f) BY <3>1 DEF In, Once
    <3>3. f \in alloc' /\ f_count'[f] # 0 BY <1>1, <2>2 DEF TypeOK
    <3>. QED BY <1>3, <3>1, <3>2, <3>3 DEF Waits
  <2>. QED BY <2>1, <2>2
<1>5. Workers' BY <1>1, <1>2 DEF Queues, Workers, Closing
<1>6. Delayed' BY <1>1 DEF Queues, Delayed, Alone
<1>. QED BY <1>4, <1>5, <1>6 DEF Queues

\* A file in a slot, or in the hands of a task, has a count.
LEMMA SlotCounted ==
  ASSUME TypeOK, RefsOK, NEW f \in Files \ short, NEW s \in Structs, NEW i \in Fds, tab[s].fd[i] = f
  PROVE  f_count[f] > 0
<1>1. <<s, i>> \in InSlots(f) BY DEF InSlots
<1>2. IsFiniteSet(InSlots(f)) /\ Cardinality(InSlots(f)) \in Nat /\ Cardinality(InHand(f)) \in Nat BY RefsFinite
<1>3. Cardinality(InSlots(f)) # 0 BY <1>1, <1>2, FS_EmptySet
<1>. QED BY <1>2, <1>3 DEF RefsOK, Refs

LEMMA HandCounted ==
  ASSUME TypeOK, RefsOK, NEW f \in Files \ short, NEW t \in Tasks, loc[t].file = f, loc[t].op # "light"
  PROVE  f_count[f] > 0
<1>1. t \in InHand(f) BY DEF InHand
<1>2. IsFiniteSet(InHand(f)) /\ Cardinality(InSlots(f)) \in Nat /\ Cardinality(InHand(f)) \in Nat BY RefsFinite
<1>3. Cardinality(InHand(f)) # 0 BY <1>1, <1>2, FS_EmptySet
<1>. QED BY <1>2, <1>3 DEF RefsOK, Refs

\* One more reference to a file that has some.
LEMMA OneTaken ==
  ASSUME TypeOK, NEW g \in Files, g \notin short => f_count[g] > 0, NEW refs, refs = [f_count EXCEPT ![g] = @ + 1]
  PROVE  SameZeros(refs) /\ refs \in [Files -> Nat]
BY DEF TypeOK, SameZeros

\* fput() of a file that was in a slot.
LEMMA SlotPutQueues ==
  ASSUME IInv, TypeOK', Queues, short \subseteq short', NEW t \in Tasks \ KThreads, pc[t] \notin Closing,
         NEW s \in Structs, NEW i \in Fds, tab[s].fd[i] # NULL, fput(t, tab[s].fd[i], f_count),
         NEW where, pc' = [pc EXCEPT ![t] = where]
  PROVE  Queues'
<1>1. TypeOK /\ RefsOK /\ tab[s] \in Table /\ f_count \in [Files -> Nat] BY DEF IInv, TypeOK
<1>2. PICK g \in Files : g = tab[s].fd[i] BY <1>1 DEF Table
<1>3. g \notin short' => f_count[g] > 0 BY <1>1, <1>2, SlotCounted
<1>4. SameZeros(f_count) BY DEF SameZeros
<1>. QED BY <1>1, <1>2, <1>3, <1>4, FputQueues

\* A call without a descriptor.
LEMMA NoFdQueues ==
  ASSUME IInv, TypeOK', Queues, short \subseteq short', NEW t \in Tasks \ KThreads,
         NEW x, NEW l, NEW refs, Wants(t, x, l, refs), no_fd(t, l, refs), SameZeros(refs),
         l.op = "dup" /\ l.file \notin short => f_count[l.file] > 0
  PROVE  Queues'
<1>1. TypeOK /\ refs \in [Files -> Nat] /\ pc[t] \notin Closing BY DEF IInv, Wants, Closing
<1>2. PICK where \in {"user", "leave"} : pc' = [pc EXCEPT ![t] = where] BY CallDone DEF no_fd
<1>3. CASE l.op = "dup"
  <2>1. PICK g \in Files : g = l.file BY <1>3 DEF Wants
  <2>2. fput(t, g, refs) /\ (g \notin short' => f_count[g] > 0) BY <1>3, <2>1 DEF no_fd
  <2>. QED BY <1>1, <1>2, <2>2, FputQueues
<1>4. CASE l.op # "dup" BY <1>1, <1>2, <1>4, TakenQueues DEF no_fd
<1>. QED BY <1>3, <1>4

\* alloc_fd() and the beginning of dup3().
LEMMA WantQueues ==
  ASSUME IInv, TypeOK', Queues, short \subseteq short', NEW t \in Tasks \ KThreads,
         NEW x, NEW l, NEW refs, Wants(t, x, l, refs), want_fd(t, x, l, refs), SameZeros(refs),
         l.op = "dup" /\ l.file \notin short => f_count[l.file] > 0
  PROVE  Queues'
<1>1. TypeOK /\ RefsOK /\ refs \in [Files -> Nat] /\ pc[t] \notin Closing BY DEF IInv, Wants, Closing
<1>2. \/ \E where : f_count' = refs /\ keepWorks /\ pc' = [pc EXCEPT ![t] = where]
      \/ do_dup2(t, x, l) /\ done(t)
      \/ no_fd(t, l, refs)
  BY DEF want_fd, done, go
<1>3. ASSUME NEW where, f_count' = refs /\ keepWorks /\ pc' = [pc EXCEPT ![t] = where] PROVE Queues'
  BY <1>1, <1>3, TakenQueues
<1>4. CASE do_dup2(t, x, l) /\ done(t)
  <2>1. PICK where \in {"user", "leave"} : pc' = [pc EXCEPT ![t] = where] BY <1>4, CallDone
  <2>2. PICK s \in Structs : tfiles[t] = s BY DEF IInv, Placed, PlaceOK, WithTable, Wants
  <2>3. x.fd = tab[s].fd /\ tab[s] \in Table /\ l.fd \in Fds /\ l.fd2 \in Fds BY <1>1, <2>2 DEF Wants, T, TypeOK
  <2>4. SameZeros(f_count) BY DEF SameZeros
  <2>5. CASE UNCHANGED workVars
    <3>1. f_count' = f_count /\ keepWorks BY <2>5 DEF workVars, keepWorks
    <3>. QED BY <1>1, <2>1, <2>4, <3>1, TakenQueues
  <2>6. CASE ~UNCHANGED workVars
    <3> DEFINE file == x.fd[l.fd2]
               tofree == x.fd[l.fd]
               more == [f_count EXCEPT ![file] = @ + 1]
    <3>1. file # NULL /\ IF tofree = NULL THEN f_count' = more /\ keepWorks ELSE fput(t, tofree, more)
      BY <1>4, <2>6 DEF do_dup2
    <3>2. PICK f \in Files : f = file BY <2>3, <3>1 DEF Table
    <3>3. PICK r : r = [f_count EXCEPT ![f] = @ + 1] OBVIOUS
    <3>4. f \notin short => f_count[f] > 0 BY <1>1, <2>3, <3>2, SlotCounted
    <3>5. SameZeros(r) /\ r \in [Files -> Nat] BY <1>1, <3>3, <3>4, OneTaken
    <3>6. r = more BY <3>2, <3>3
    <3>7. CASE tofree = NULL BY <1>1, <2>1, <3>1, <3>5, <3>6, <3>7, TakenQueues
    <3>8. CASE tofree # NULL
      <4>1. PICK g \in Files : g = tofree BY <2>3, <3>8 DEF Table
      <4>2. g \notin short => f_count[g] > 0 BY <1>1, <2>3, <4>1, SlotCounted
      <4>3. fput(t, g, r) BY <3>1, <3>6, <3>8, <4>1
      <4>. QED BY <1>1, <2>1, <3>5, <4>2, <4>3, FputQueues
    <3>. QED BY <3>7, <3>8
  <2>. QED BY <2>5, <2>6
<1>5. CASE no_fd(t, l, refs) BY <1>5, NoFdQueues
<1>. QED BY <1>2, <1>3, <1>4, <1>5

\* The system calls that allocate descriptors.
LEMMA OpenQueues ==
  ASSUME IInv, TypeOK', Queues, short \subseteq short', NEW t \in Tasks, open(t)
  PROVE  Queues'
<1>1. t \in Tasks \ KThreads /\ \E l : l.op = "open" /\ Wants(t, T(t), l, f_count) /\ want_fd(t, T(t), l, f_count)
  BY OpenWants
<1>2. PICK l : l.op = "open" /\ Wants(t, T(t), l, f_count) /\ want_fd(t, T(t), l, f_count) BY <1>1
<1>3. SameZeros(f_count) BY DEF SameZeros
<1>. QED BY <1>1, <1>2, <1>3, WantQueues

LEMMA DupQueues ==
  ASSUME IInv, TypeOK', Queues, short \subseteq short', NEW t \in Tasks, NEW fd \in Fds, dup(t, fd)
  PROVE  Queues'
<1>1. t \in Tasks \ KThreads BY DupWants
<1>2. PICK g \in Files : /\ g = T(t).fd[fd]
                         /\ \E l, refs : /\ l.file = g /\ refs = [f_count EXCEPT ![g] = @ + 1]
                                         /\ Wants(t, T(t), l, refs) /\ want_fd(t, T(t), l, refs)
  BY DupWants
<1>3. PICK l, refs : /\ l.file = g /\ refs = [f_count EXCEPT ![g] = @ + 1]
                     /\ Wants(t, T(t), l, refs) /\ want_fd(t, T(t), l, refs)
  BY <1>2
<1>4. f_count[g] > 0 BY <1>2 DEF dup, Fgets
<1>5. SameZeros(refs) BY <1>3, <1>4, OneTaken DEF IInv
<1>. QED BY <1>1, <1>3, <1>4, <1>5, WantQueues

LEMMA Dup2Queues ==
  ASSUME IInv, TypeOK', Queues, short \subseteq short', NEW t \in Tasks, NEW oldfd \in Fds, NEW newfd \in Fds, dup2(t, oldfd, newfd)
  PROVE  Queues'
<1>1. t \in Tasks \ KThreads /\ \E l : l.op = "dup2" /\ Wants(t, T(t), l, f_count) /\ want_fd(t, T(t), l, f_count)
  BY Dup2Wants
<1>2. PICK l : l.op = "dup2" /\ Wants(t, T(t), l, f_count) /\ want_fd(t, T(t), l, f_count) BY <1>1
<1>3. SameZeros(f_count) BY DEF SameZeros
<1>. QED BY <1>1, <1>2, <1>3, WantQueues

\* They go on when the table has been resized: dup() holds its file.
LEMMA ResizedQueues ==
  ASSUME IInv, TypeOK', Queues, short \subseteq short', NEW t \in Tasks, NEW ok, resized(t, ok)
  PROVE  Queues'
<1>1. t \in Tasks \ KThreads BY ResizedWants
<1>2. PICK x : /\ Wants(t, x, loc[t], f_count)
               /\ want_fd(t, x, loc[t], f_count) \/ (put_table(t, x) /\ no_fd(t, loc[t], f_count))
  BY ResizedWants
<1>3. SameZeros(f_count) BY DEF SameZeros
<1>4. loc[t].op = "dup" /\ loc[t].file \notin short => f_count[loc[t].file] > 0
  BY <1>2, HandCounted DEF Wants, IInv
<1>5. CASE want_fd(t, x, loc[t], f_count) BY <1>1, <1>2, <1>3, <1>4, <1>5, WantQueues
<1>6. CASE no_fd(t, loc[t], f_count) BY <1>1, <1>2, <1>3, <1>4, <1>6, NoFdQueues
<1>. QED BY <1>2, <1>5, <1>6

LEMMA ResizeWaitedQueues ==
  ASSUME IInv, TypeOK', Queues, short \subseteq short', NEW t \in Tasks, resize_waited(t)
  PROVE  Queues'
<1>1. pc[t] = "resize_wait" /\ ~T(t).resizing BY DEF resize_waited, At
<1>2. T(t) \in Table /\ Sound(T(t)) BY <1>1, Caller
<1>3. t \in Tasks \ KThreads /\ Wants(t, T(t), loc[t], f_count) BY <1>1, <1>2, WantsStill
<1>4. SameZeros(f_count) BY DEF SameZeros
<1>5. CASE loc[t].fd >= T(t).max_fds
  <2>1. pc' = [pc EXCEPT ![t] = "resize"] /\ f_count' = f_count /\ keepWorks
    BY <1>5 DEF resize_waited, go, workVars, keepWorks
  <2>2. TypeOK /\ pc[t] \notin Closing BY <1>1 DEF IInv, Closing
  <2>. QED BY <1>4, <2>1, <2>2, TakenQueues
<1>6. CASE ~(loc[t].fd >= T(t).max_fds)
  <2>1. want_fd(t, T(t), loc[t], f_count) BY <1>6 DEF resize_waited
  <2>2. loc[t].op = "dup" /\ loc[t].file \notin short => f_count[loc[t].file] > 0
    BY <1>3, HandCounted DEF Wants, IInv
  <2>. QED BY <1>3, <1>4, <2>1, <2>2, WantQueues
<1>. QED BY <1>5, <1>6

\* open() has its file, or none.
LEMMA InstallQueues ==
  ASSUME IInv, Queues, NEW t \in Tasks, NEW f \in Files \cup {NULL}, install_open(t, f)
  PROVE  Queues'
<1>1. TypeOK /\ pc[t] \notin Closing BY DEF IInv, install_open, At, Closing
<1>2. PICK where \in {"user", "leave"} : pc' = [pc EXCEPT ![t] = where] BY CallDone DEF install_open
<1>3. CASE f = NULL
  <2>1. f_count' = f_count /\ keepWorks /\ short' = short BY <1>3 DEF install_open, workVars, keepWorks
  <2>2. SameZeros(f_count) BY DEF SameZeros
  <2>. QED BY <1>1, <1>2, <2>1, <2>2, TakenQueues
<1>4. CASE f # NULL BY <1>1, <1>2, <1>4, NewFileQueues DEF install_open
<1>. QED BY <1>3, <1>4

\* close(), and the turns of do_close_on_exec() that find their fdtable in
\* place.
LEMMA CloseQueues ==
  ASSUME IInv, TypeOK', Queues, short \subseteq short', NEW t \in Tasks, NEW fd \in Fds, close(t, fd)
  PROVE  Queues'
<1>1. t \in Tasks \ KThreads /\ pc[t] \notin Closing BY Caller DEF close, Closing
<1>2. PICK s \in Structs : tfiles[t] = s BY Caller DEF close
<1>3. PICK where \in {"user", "leave"} : pc' = [pc EXCEPT ![t] = where] BY CallDone DEF close
<1>4. tab[s].fd[fd] # NULL /\ fput(t, tab[s].fd[fd], f_count) BY <1>2 DEF close, T
<1>. QED BY <1>1, <1>2, <1>3, <1>4, SlotPutQueues

LEMMA ExecQueues ==
  ASSUME IInv, TypeOK', Queues, UNCHANGED short, NEW t \in Tasks, do_close_on_exec(t), ~torn'
  PROVE  Queues'
<1>1. t \in Tasks \ KThreads /\ pc[t] \in {"user", "exec"} /\ T(t) \in Table
  BY Caller DEF do_close_on_exec, At, Calls
<1>2. PICK s \in Structs : tfiles[t] = s BY Caller DEF do_close_on_exec, At, Calls
<1>3. TypeOK /\ loc[t] \in Locals /\ pc[t] \notin Closing /\ T(t) = tab[s] BY <1>1, <1>2 DEF IInv, TypeOK, Closing, T
<1>4. ASSUME NEW fd, fd \in Fds, T(t).fd[fd] # NULL, fput(t, T(t).fd[fd], f_count), NEW l, go(t, "exec", l)
      PROVE  Queues'
  BY <1>1, <1>3, <1>4, SlotPutQueues DEF go
<1>5. PICK slots \in SlotsRead(t) :
        close_on_exec_bit(t, slots) \/ close_on_exec_word(t, slots) \/ close_on_exec_end(t, slots)
  BY DEF do_close_on_exec
<1>6. CASE close_on_exec_bit(t, slots)
  <2> DEFINE fd == Min(Marked(loc[t].set, T(t).fd))
  <2>1. slots = T(t).fd BY <1>5, <1>6 DEF close_on_exec_bit, SlotsRead
  <2>2. fd \in Fds /\ T(t).fd[fd] # NULL BY <1>1, <1>3, <1>6, <2>1, MarkedFirst DEF close_on_exec_bit, Locals
  <2>3. fput(t, T(t).fd[fd], f_count) /\ \E l : go(t, "exec", l) BY <1>6, <2>1 DEF close_on_exec_bit
  <2> HIDE DEF fd
  <2>. QED BY <1>4, <2>2, <2>3
<1>7. CASE close_on_exec_word(t, slots)
  <2> DEFINE marks == {i \in T(t).cloexec : ToCome(t, i)}
             fd == Min(Marked(marks, T(t).fd))
  <2>1. Marked(marks, T(t).fd) # {} /\ fput(t, T(t).fd[fd], f_count) /\ \E l : go(t, "exec", l)
    BY <1>7 DEF close_on_exec_word
  <2>2. marks \in SUBSET Fds BY <1>1 DEF Table
  <2> HIDE DEF marks
  <2>3. fd \in Fds /\ T(t).fd[fd] # NULL BY <1>1, <2>1, <2>2, MarkedFirst
  <2> HIDE DEF fd
  <2>. QED BY <1>4, <2>1, <2>3
<1>8. CASE close_on_exec_end(t, slots)
  <2>1. PICK where \in {"user", "leave"} : pc' = [pc EXCEPT ![t] = where] BY <1>8, CallDone DEF close_on_exec_end
  <2>2. f_count' = f_count /\ keepWorks BY <1>8 DEF close_on_exec_end, workVars, keepWorks
  <2>3. SameZeros(f_count) BY DEF SameZeros
  <2>. QED BY <1>3, <2>1, <2>2, <2>3, TakenQueues
<1>. QED BY <1>5, <1>6, <1>7, <1>8

\* The use of a file: fdget() takes a reference where there is one, or none,
\* and fdput() drops it; the file of a light fdget() is short from then on.
LEMMA FdgetQueues ==
  ASSUME IInv, TypeOK', Queues, short \subseteq short', NEW t \in Tasks, NEW fd \in Fds, fdget(t, fd)
  PROVE  Queues'
<1>1. TypeOK /\ pc[t] \notin Closing /\ T(t) \in Table BY Caller DEF IInv, fdget, Closing, Calls, At
<1>2. PICK g \in Files : g = T(t).fd[fd] BY <1>1 DEF fdget, Table
<1>3. keepWorks /\ pc' = [pc EXCEPT ![t] = "use"] BY DEF fdget, go
<1>4. CASE f_count' = f_count
  <2>1. SameZeros(f_count) BY DEF SameZeros
  <2>. QED BY <1>1, <1>3, <1>4, <2>1, TakenQueues
<1>5. CASE f_count' # f_count
  <2>1. PICK refs : refs = [f_count EXCEPT ![g] = @ + 1] OBVIOUS
  <2>2. f_count' = refs /\ f_count[g] > 0 BY <1>2, <1>5, <2>1 DEF fdget, Fgets
  <2>3. SameZeros(refs) BY <1>1, <2>1, <2>2, OneTaken
  <2>. QED BY <1>1, <1>3, <2>2, <2>3, TakenQueues
<1>. QED BY <1>4, <1>5

LEMMA FdputQueues ==
  ASSUME IInv, TypeOK', Queues, NEW t \in Tasks, fdput(t)
  PROVE  Queues'
<1>1. TypeOK /\ RefsOK /\ pc[t] = "use" /\ pc[t] \notin Closing /\ f_count \in [Files -> Nat]
  BY DEF IInv, TypeOK, fdput, At, Closing
<1>2. PICK g \in Files : g = loc[t].file BY <1>1 DEF IInv, Placed, PlaceOK
<1>3. fput(t, g, f_count) BY <1>2 DEF fdput
<1>4. short \subseteq short' /\ (g \notin short' => g \notin short /\ loc[t].op # "light") BY <1>2 DEF fdput
<1>5. g \notin short' => f_count[g] > 0 BY <1>1, <1>2, <1>4, HandCounted
<1>6. PICK where : where = IF task_works'[t] = <<>> /\ todo'[t] = <<>> THEN "user" ELSE "leave" OBVIOUS
<1>7. pc' = [pc EXCEPT ![t] = where] /\ (todo'[t] # <<>> => where = "leave") BY <1>6 DEF fdput, done, go
<1>8. SameZeros(f_count) BY DEF SameZeros
<1>. QED BY <1>1, <1>3, <1>4, <1>5, <1>7, <1>8, FputQueues

LEMMA KthreadOpenQueues ==
  ASSUME IInv, Queues, NEW t \in Tasks, NEW g \in Files, kthread_open(t, g)
  PROVE  Queues'
<1>1. TypeOK /\ pc[t] \notin Closing /\ pc' = [pc EXCEPT ![t] = "use"] /\ get_empty_file(g)
  BY DEF IInv, kthread_open, At, Closing, go
<1>. QED BY <1>1, NewFileQueues

\* fork() makes a task without works; a copy of the table takes references
\* where there are some.
LEMMA NewTaskQueues ==
  ASSUME TypeOK, Queues, short \subseteq short', NEW t \in Tasks, NEW c \in Tasks, NEW where, new_task(t, c, where)
  PROVE  Queues'
<1>1. /\ pc[t] = "user" /\ pc[c] = "none" /\ work_exited' = work_exited \ {c}
      /\ pc' = [pc EXCEPT ![c] = where[1], ![t] = where[2]]
      /\ UNCHANGED <<f_count, alloc, task_works, delayed_fput_list, pending, todo>>
  BY DEF new_task, Calls, At
<1>2. \A u \in Tasks : pc'[u] = pc[u] \/ pc[u] \notin Closing \/ (pc[u] = "none" /\ u \notin work_exited')
  BY <1>1 DEF TypeOK, Closing
<1>3. SameZeros(f_count') BY <1>1 DEF SameZeros
<1>. QED BY <1>1, <1>2, <1>3, StillQueues

LEMMA ForkedQueues ==
  ASSUME IInv, Queues, short \subseteq short', NEW t \in Tasks, pc[t] = "dup_fd", keepWorks, SameZeros(f_count'),
         NEW where, NEW there, pc' = [pc EXCEPT ![loc[t].child] = where, ![t] = there]
  PROVE  Queues'
<1>1. PICK c \in Tasks : loc[t].child = c /\ pc[c] = "new" BY Forking
<1>2. \A u \in Tasks : pc'[u] = pc[u] \/ pc[u] \notin Closing BY <1>1 DEF IInv, TypeOK, Closing
<1>. QED BY <1>2, StillQueues DEF keepWorks

LEMMA CopiedZeros ==
  ASSUME IInv, NEW t \in Tasks, pc[t] = "dup_fd",
         f_count' = [f \in Files |-> f_count[f] + Cardinality(Slots(T(t), f))]
  PROVE  SameZeros(f_count')
<1> SUFFICES ASSUME NEW f \in Files \ short PROVE f_count'[f] = 0 <=> f_count[f] = 0 BY DEF SameZeros
<1>1. PICK s \in Structs : tfiles[t] = s BY Caller
<1>2. T(t) = tab[s] /\ TypeOK /\ RefsOK /\ f_count[f] \in Nat BY <1>1 DEF IInv, TypeOK, T
<1>3. f_count'[f] = f_count[f] + Cardinality(Slots(tab[s], f)) BY <1>2
<1>4. IsFiniteSet(Slots(tab[s], f)) /\ Cardinality(Slots(tab[s], f)) \in Nat
  <2>1. IsFiniteSet(Fds) BY TableAssumption, FS_Interval DEF Fds
  <2>2. Slots(tab[s], f) \subseteq Fds BY DEF Slots
  <2>. QED BY <2>1, <2>2, FS_Subset, FS_CardinalityType
<1>5. CASE Slots(tab[s], f) = {}
  <2>1. Cardinality(Slots(tab[s], f)) = 0 BY <1>5, FS_EmptySet
  <2>. QED BY <1>2, <1>3, <2>1
<1>6. CASE Slots(tab[s], f) # {}
  <2>1. PICK i \in Fds : tab[s].fd[i] = f BY <1>6 DEF Slots
  <2>2. f_count[f] > 0 BY <1>2, <2>1, SlotCounted
  <2>. QED BY <1>2, <1>3, <1>4, <2>2
<1>. QED BY <1>5, <1>6

LEMMA DupFdQueues ==
  ASSUME IInv, Queues, short \subseteq short', NEW t \in Tasks, dup_fd(t) \/ dup_fd_bad_fork(t)
  PROVE  Queues'
<1>1. /\ pc[t] = "dup_fd" /\ keepWorks /\ f_count' = [f \in Files |-> f_count[f] + Cardinality(Slots(T(t), f))]
      /\ \E where, there : pc' = [pc EXCEPT ![loc[t].child] = where, ![t] = there]
  BY DEF dup_fd, dup_fd_bad_fork, forked, At
<1>. QED BY <1>1, CopiedZeros, ForkedQueues

LEMMA DupFdAgainQueues ==
  ASSUME IInv, Queues, short \subseteq short', NEW t \in Tasks, NEW ok \in BOOLEAN, dup_fd_again(t, ok)
  PROVE  Queues'
<1>1. pc[t] = "dup_fd" /\ keepWorks /\ f_count' = f_count BY DEF dup_fd_again, At, workVars, keepWorks
<1>2. SameZeros(f_count) /\ TypeOK /\ pc[t] \notin Closing BY <1>1 DEF SameZeros, IInv, Closing
<1>3. CASE ok
  <2>1. pc' = [pc EXCEPT ![t] = "dup_fd"] BY <1>3 DEF dup_fd_again, go
  <2>. QED BY <1>1, <1>2, <2>1, TakenQueues
<1>4. CASE ~ok
  <2>1. pc' = [pc EXCEPT ![loc[t].child] = "none", ![t] = "user"] BY <1>4 DEF dup_fd_again, forked
  <2>. QED BY <1>1, <1>2, <2>1, ForkedQueues
<1>. QED BY <1>3, <1>4

\* exit() lets its table go, and the last one closes the files.
LEMMA ExitFilesQueues ==
  ASSUME IInv, Queues, short \subseteq short', NEW t \in Tasks, exit_files(t)
  PROVE  Queues'
<1>1. TypeOK /\ pc[t] \notin Closing /\ SameZeros(f_count) BY DEF IInv, exit_files, Calls, At, Closing, SameZeros
<1>2. f_count' = f_count /\ keepWorks BY DEF exit_files, workVars, keepWorks
<1>3. \E where : pc' = [pc EXCEPT ![t] = where] BY DEF exit_files, go
<1>. QED BY <1>1, <1>2, <1>3, TakenQueues

LEMMA CloseFilesQueues ==
  ASSUME IInv, TypeOK', Queues, short \subseteq short', NEW t \in Tasks, close_files(t)
  PROVE  Queues'
<1>1. TypeOK /\ pc[t] = "exit_files" /\ pc[t] \notin Closing BY DEF IInv, close_files, At, Closing
<1>2. PICK a \in Structs : loc[t].files = a BY <1>1 DEF IInv, Placed, PlaceOK
<1>3. t \in Tasks \ KThreads /\ tab[a] \in Table BY <1>1 DEF IInv, TypeOK, Placed, PlaceOK
<1> DEFINE taken == {i \in tab[a].open : tab[a].fd[i] # NULL}
           fd == Min(taken)
<1>4. CASE taken = {}
  <2>1. f_count' = f_count /\ keepWorks BY <1>2, <1>4 DEF close_files, workVars, keepWorks
  <2>2. \E where : pc' = [pc EXCEPT ![t] = where] BY <1>2, <1>4 DEF close_files, done, go
  <2>3. SameZeros(f_count) BY DEF SameZeros
  <2>. QED BY <1>1, <2>1, <2>2, <2>3, TakenQueues
<1>5. CASE taken # {}
  <2>1. fput(t, tab[a].fd[fd], f_count) /\ pc' = pc BY <1>2, <1>5 DEF close_files
  <2>2. fd \in Fds /\ tab[a].fd[fd] # NULL
    <3>1. taken \in SUBSET Nat BY <1>3 DEF Table, Fds
    <3>2. taken \subseteq Fds BY <1>3 DEF Table
    <3>3. fd \in taken
      <4> HIDE DEF taken
      <4>. QED BY <1>5, <3>1, MinOf
    <3>. QED BY <3>2, <3>3
  <2> HIDE DEF fd
  <2>3. pc' = [pc EXCEPT ![t] = pc[t]] BY <1>1, <2>1 DEF TypeOK
  <2>. QED BY <1>1, <1>3, <2>1, <2>2, <2>3, SlotPutQueues
<1>. QED BY <1>4, <1>5

----------------------------------------------------------------------------
(* The theorems *)

\* The first task and its empty table satisfy the invariant.
LEMMA InitIInv == ASSUME Init PROVE IInv
<1>1. PICK a \in Structs : /\ tab = [s \in Structs |-> IF s = a THEN NewTable ELSE NoTable]
                           /\ tfiles = [t \in Tasks |-> IF t = init THEN a ELSE NULL]
  BY DEF Init
<1>2. /\ pc = [t \in Tasks |-> IF t = init \/ t \in KThreads THEN "user" ELSE "none"]
      /\ loc = [t \in Tasks |-> NoLocals] /\ f_count = [f \in Files |-> 0] /\ alloc = {}
      /\ task_works = [t \in Tasks |-> <<>>] /\ todo = [t \in Tasks |-> <<>>] /\ delayed_fput_list = <<>>
      /\ work_exited = {} /\ pending = FALSE
  BY DEF Init
<1>3. init \in Tasks \ KThreads /\ NULL \notin Tasks /\ NULL \notin Structs /\ NULL \notin Files
  BY FilesAssumption, TableAssumption
<1>4. NoLocals.files = NULL /\ NoLocals.child = NULL /\ NoLocals.file = NULL BY DEF NoLocals
<1>5. TypeOK
  <2>1. <<>> \in Seq(Files) OBVIOUS
  <2>2. task_works \in [Tasks -> Seq(Files)] /\ todo \in [Tasks -> Seq(Files)] /\ delayed_fput_list \in Seq(Files)
    BY <1>2, <2>1
  <2>3. f_count \in [Files -> Nat] /\ alloc \subseteq Files /\ work_exited \subseteq Tasks /\ pending \in BOOLEAN BY <1>2
  <2>4. tab \in [Structs -> Table] BY <1>1, NewTableOK
  <2>5. tfiles \in [Tasks -> Structs \cup {NULL}] BY <1>1
  <2>6. pc \in [Tasks -> Location] BY <1>2 DEF Location
  <2>7. loc \in [Tasks -> Locals] BY <1>2, NoLocalsOK
  <2>. QED BY <2>2, <2>3, <2>4, <2>5, <2>6, <2>7 DEF TypeOK
<1>6. \A s \in Structs : Sound(tab[s]) BY <1>1, NewTableOK
<1>7. Placed
  <2> SUFFICES ASSUME NEW t \in Tasks PROVE PlaceOK(t, tfiles[t], pc[t], loc[t]) BY DEF Placed
  <2>1. CASE t = init \/ t \in KThreads BY <1>1, <1>2, <1>3, <2>1, NoLocalsOK
  <2>2. CASE ~(t = init \/ t \in KThreads) BY <1>1, <1>2, <1>3, <1>4, <2>2 DEF PlaceOK, WithTable
  <2>. QED BY <2>1, <2>2
<1>8. \A t \in Tasks : pc[t] \in {"user", "none"} BY <1>2
<1>9. Parents /\ Private BY <1>2, <1>3, <1>4, <1>8 DEF Parents, Private
<1>10. Counted
  <2> SUFFICES ASSUME NEW s \in Structs PROVE tab[s].count = Cardinality(Users(s)) BY DEF Counted
  <2>1. Users(s) = IF s = a THEN {init} ELSE {} BY <1>1, <1>3, <1>8 DEF Users
  <2>2. Cardinality({init}) = 1 /\ Cardinality({}) = 0 BY FS_Singleton, FS_EmptySet
  <2>. QED BY <1>1, <2>1, <2>2, NewTableOK
<1>11. Empty BY <1>1, <1>8, NewTableOK DEF Empty
<1>12. Promised
  <2>1. \A s \in Structs, i \in Fds : Installing(s, i) = {} BY <1>8 DEF Installing, At
  <2>2. \A s \in Structs : tab[s].count > 0 => tab[s] = NewTable BY <1>1, NewTableOK
  <2>3. \A i \in Fds : ~Reserved(NewTable, i) BY NewTableOK
  <2>. QED BY <2>1, <2>2, <2>3 DEF Promised
<1>13. OneResizes
  <2>1. \A s \in Structs : Resizing(s) = {} BY <1>8 DEF Resizing, At
  <2>2. \A s \in Structs : tab[s].count > 0 => tab[s] = NewTable BY <1>1, NewTableOK
  <2>. QED BY <1>8, <2>1, <2>2, NewTableOK DEF OneResizes, At
<1>14. Gone BY <1>2 DEF Gone
<1>15. RefsOK
  <2>1. \A f \in Files : InHand(f) = {} BY <1>2, <1>3, <1>4 DEF InHand
  <2>2. \A s \in Structs, i \in Fds : tab[s].fd[i] = NULL BY <1>1, NewTableOK
  <2>3. \A f \in Files : InSlots(f) = {} BY <1>3, <2>2 DEF InSlots
  <2>4. ASSUME NEW f \in Files PROVE f_count[f] = 0 /\ Refs(f) = 0
    <3>1. InHand(f) = {} /\ InSlots(f) = {} BY <2>1, <2>3
    <3>2. Cardinality(InHand(f)) = 0 /\ Cardinality(InSlots(f)) = 0 BY <3>1, FS_EmptySet
    <3>. QED BY <1>2, <3>2 DEF Refs
  <2>. QED BY <2>4 DEF RefsOK
<1>. QED BY <1>5, <1>6, <1>7, <1>9, <1>10, <1>11, <1>12, <1>13, <1>14, <1>15 DEF IInv

\* No file waits at first.
LEMMA InitQueues == ASSUME Init PROVE Queues
<1>1. /\ f_count = [f \in Files |-> 0] /\ alloc = {} /\ work_exited = {} /\ delayed_fput_list = <<>> /\ pending = FALSE
      /\ task_works = [t \in Tasks |-> <<>>] /\ todo = [t \in Tasks |-> <<>>]
  BY DEF Init
<1>2. ASSUME NEW c \in Lists PROVE Queue[c] = <<>>
  <2>1. ASSUME NEW t \in Tasks, c = <<"task_works", t>> \/ c = <<"todo", t>> PROVE Queue[c] = <<>> BY <1>1, <2>1, QueueIs
  <2>2. CASE c = <<"delayed_fput_list", "work">> BY <1>1, <2>2, QueueIs
  <2>. QED BY <2>1, <2>2, QueueIs
<1>3. \A f : ~In(Queue, f) /\ Once(Queue, f) BY <1>2 DEF In, Once
<1>4. \A f \in Files : Waits(f) BY <1>1, <1>3 DEF Waits
<1>5. Workers /\ Delayed BY <1>1 DEF Workers, Delayed
<1>. QED BY <1>4, <1>5 DEF Queues

\* Every step keeps both, as long as no exec closes a descriptor of a replaced
\* fdtable.
LEMMA NextStep == ASSUME IInv, Queues, Next, ~torn' PROVE IInv' /\ Queues'
<1>1. ASSUME IInv' PROVE TypeOK' BY <1>1 DEF IInv
<1>2. ASSUME NEW t \in Tasks, Descriptor(t), short' = short PROVE IInv' /\ Queues'
  <2>0. short \subseteq short' BY <1>2
  <2>1. CASE open(t) BY <1>1, <2>0, <2>1, OpenStep, OpenQueues
  <2>2. ASSUME NEW fd \in Fds, dup(t, fd) PROVE IInv' /\ Queues' BY <1>1, <2>0, <2>2, DupStep, DupQueues
  <2>3. ASSUME NEW fd \in Fds, close(t, fd) PROVE IInv' /\ Queues' BY <1>1, <2>0, <2>3, CloseStep, CloseQueues
  <2>4. ASSUME NEW fd \in Fds, fdget(t, fd) PROVE IInv' /\ Queues' BY <1>1, <2>0, <2>4, FdgetStep, FdgetQueues
  <2>5. ASSUME NEW fd \in Fds, NEW fd2 \in Fds, dup2(t, fd, fd2) PROVE IInv' /\ Queues'
    BY <1>1, <2>0, <2>5, Dup2Step, Dup2Queues
  <2>6. CASE resize_waited(t) BY <1>1, <2>0, <2>6, ResizeWaitedStep, ResizeWaitedQueues
  <2>. QED BY <1>2, <2>1, <2>2, <2>3, <2>4, <2>5, <2>6 DEF Descriptor
<1>3. ASSUME NEW t \in Tasks, Process(t), short' = short PROVE IInv' /\ Queues'
  <2>0. short \subseteq short' /\ TypeOK BY <1>3 DEF IInv
  <2>1. ASSUME NEW c \in Tasks, clone_files(t, c) PROVE IInv' /\ Queues'
    BY <2>0, <2>1, CloneFilesStep, NewTaskQueues DEF clone_files
  <2>2. ASSUME NEW c \in Tasks, NEW s \in Structs, copy_files(t, c, s) PROVE IInv' /\ Queues'
    BY <2>0, <2>2, CopyFilesStep, NewTaskQueues DEF copy_files
  <2>3. CASE dup_fd(t) BY <2>0, <2>3, DupFdStep, DupFdQueues
  <2>4. CASE dup_fd_bad_fork(t) BY <2>0, <2>4, BadForkStep, DupFdQueues
  <2>5. ASSUME NEW ok \in BOOLEAN, dup_fd_again(t, ok) PROVE IInv' /\ Queues'
    BY <2>0, <2>5, DupFdAgainStep, DupFdAgainQueues
  <2>6. CASE exit_files(t) BY <2>0, <2>6, ExitFilesStep, ExitFilesQueues
  <2>7. CASE close_files(t) BY <1>1, <2>0, <2>7, CloseFilesStep, CloseFilesQueues
  <2>8. CASE exit_task_work(t) BY <1>3, <2>0, <2>8, ExitTaskWorkStep, ExitQueues
  <2>9. CASE task_work_run(t) BY <1>1, <1>3, <2>0, <2>9, TaskWorkRunStep, RunQueues
  <2>. QED BY <1>3, <2>1, <2>2, <2>3, <2>4, <2>5, <2>6, <2>7, <2>8, <2>9 DEF Process
<1>4. ASSUME NEW t \in Tasks, Use(t) PROVE IInv' /\ Queues'
  <2>1. ASSUME NEW f \in Files \cup {NULL}, install_open(t, f) PROVE IInv' /\ Queues'
    BY <2>1, InstallStep, InstallQueues
  <2>2. ASSUME NEW f \in Files, kthread_open(t, f) PROVE IInv' /\ Queues' BY <2>2, KthreadOpenStep, KthreadOpenQueues
  <2>3. CASE fdput(t) BY <1>1, <2>3, FdputStep, FdputQueues
  <2>. QED BY <1>4, <2>1, <2>2, <2>3 DEF Use
<1>5. ASSUME NEW t \in Tasks, NEW ok \in BOOLEAN, resized(t, ok), short' = short PROVE IInv' /\ Queues'
  <2>1. short \subseteq short' BY <1>5
  <2>. QED BY <1>1, <1>5, <2>1, ResizedStep, ResizedQueues
<1>6. ASSUME NEW t \in Tasks, do_close_on_exec(t), short' = short PROVE IInv' /\ Queues'
  BY <1>1, <1>6, CloseOnExecStep, ExecQueues
<1>. QED BY <1>2, <1>3, <1>4, <1>5, <1>6 DEF Next

\* A step that changes nothing keeps them.
LEMMA Stutter == ASSUME IInv, Queues, UNCHANGED vars PROVE IInv' /\ Queues'
<1>1. UNCHANGED <<alloc, f_count, task_works, work_exited, delayed_fput_list, pending, todo>>
      /\ UNCHANGED <<tab, tfiles, pc, loc>> /\ short' = short
  BY DEF vars, workVars, fileVars
<1>2. TypeOK' /\ Gone' BY <1>1 DEF IInv, TypeOK, Gone
<1>3. (\A s \in Structs : Sound(tab[s]))' /\ Placed' /\ Parents' /\ Private' /\ Empty'
  BY <1>1 DEF IInv, Placed, Parents, Private, Empty
<1>4. Counted'
  <2>1. \A s : Users(s)' = Users(s) BY <1>1 DEF Users
  <2>. QED BY <1>1, <2>1 DEF IInv, Counted
<1>5. Promised'
  <2>1. \A s, i : Installing(s, i)' = Installing(s, i) BY <1>1 DEF Installing, At
  <2>. QED BY <1>1, <2>1 DEF IInv, Promised
<1>6. OneResizes'
  <2>1. \A s : Resizing(s)' = Resizing(s) BY <1>1 DEF Resizing, At
  <2>2. \A t : At(t, "resize")' = At(t, "resize") /\ T(t)' = T(t) BY <1>1 DEF At, T
  <2>. QED BY <1>1, <2>1, <2>2 DEF IInv, OneResizes
<1>7. RefsOK'
  <2>1. \A f : InHand(f)' = InHand(f) /\ InSlots(f)' = InSlots(f) BY <1>1 DEF InHand, InSlots
  <2>2. \A f : Refs(f)' = Refs(f) BY <2>1 DEF Refs
  <2>. QED BY <1>1, <2>2 DEF IInv, RefsOK
<1>8. Queues'
  <2>1. SameZeros(f_count') /\ short \subseteq short' BY <1>1 DEF SameZeros
  <2>. QED BY <1>1, <2>1, StillQueues
<1>. QED BY <1>2, <1>3, <1>4, <1>5, <1>6, <1>7, <1>8 DEF IInv

\* The inductive invariant of the descriptor tables, the counts and the lists.
THEOREM Invariance == Spec => []Inv
<1>1. Init => Inv
  <2>1. Init => torn = FALSE BY DEF Init
  <2>. QED BY <2>1, InitIInv, InitQueues DEF Inv
<1>2. Inv /\ [Next]_vars => Inv'
  <2> SUFFICES ASSUME Inv, [Next]_vars PROVE Inv' OBVIOUS
  <2>1. torn' = torn \/ torn' = TRUE
    BY DEF Next, vars, do_close_on_exec, close_on_exec_bit, close_on_exec_word, close_on_exec_end
  <2>2. torn' \in BOOLEAN /\ (torn => torn') BY <2>1 DEF Inv
  <2>3. ASSUME ~torn' PROVE IInv' /\ Queues' BY <2>2, <2>3, NextStep, Stutter DEF Inv
  <2>. QED BY <2>2, <2>3 DEF Inv
<1>. QED BY <1>1, <1>2, PTL DEF Spec

\* A set without two elements has none or one.
LEMMA AtMostOne ==
  ASSUME NEW S, \A x, y \in S : x = y
  PROVE  Cardinality(S) = IF S = {} THEN 0 ELSE 1
<1>1. CASE S = {} BY <1>1, FS_EmptySet
<1>2. CASE S # {}
  <2>1. PICK x \in S : TRUE BY <1>2
  <2>2. S = {x} BY <2>1
  <2>. QED BY <1>2, <2>2, FS_Singleton
<1>. QED BY <1>1, <1>2

\* The parts of a table agree, whoever shares it, also while one that shares it
\* is in execve(), as long as no exec closes a descriptor of a replaced fdtable:
\* a descriptor is taken if and only if it holds a file or is promised to
\* exactly one task, next_fd and the full words hide no free descriptor, and
\* one task at most resizes.
THEOREM TablesConsistent == Spec => []TableConsistent
<1>1. ASSUME Inv PROVE TableConsistent
  <2> SUFFICES ASSUME NEW s \in Structs, ~torn, tab[s].count > 0
               PROVE  /\ tab[s].open \subseteq 0 .. tab[s].max_fds - 1
                      /\ \A i \in Fds : Cardinality(Installing(s, i)) + (IF tab[s].fd[i] = NULL THEN 0 ELSE 1)
                                         = IF i \in tab[s].open THEN 1 ELSE 0
                      /\ 0 .. tab[s].next_fd - 1 \subseteq tab[s].open
                      /\ \A i \in Fds : Word(i) \in tab[s].full => i \in tab[s].open
                      /\ Cardinality({t \in Tasks : tfiles[t] = s /\ At(t, "resize")}) = IF tab[s].resizing THEN 1 ELSE 0
    BY DEF TableConsistent
  <2>0. IInv BY <1>1 DEF Inv
  <2>1. Sound(tab[s]) BY <2>0 DEF IInv
  <2>2. ASSUME NEW i \in Fds
        PROVE  Cardinality(Installing(s, i)) + (IF tab[s].fd[i] = NULL THEN 0 ELSE 1) = IF i \in tab[s].open THEN 1 ELSE 0
    <3>1. /\ Reserved(tab[s], i) <=> Installing(s, i) # {}
          /\ \A t, u \in Installing(s, i) : t = u
      BY <2>0 DEF IInv, Promised
    <3>2. Cardinality(Installing(s, i)) = IF Installing(s, i) = {} THEN 0 ELSE 1 BY <3>1, AtMostOne
    <3>3. i \in tab[s].open <=> tab[s].fd[i] # NULL \/ Installing(s, i) # {} BY <2>1, <3>1 DEF Sound, Reserved
    <3>4. tab[s].fd[i] # NULL => Installing(s, i) = {} BY <3>1 DEF Reserved
    <3>. QED BY <3>2, <3>3, <3>4
  <2>3. Cardinality(Resizing(s)) = IF tab[s].resizing THEN 1 ELSE 0
    <3>1. (tab[s].resizing <=> Resizing(s) # {}) /\ \A t, u \in Resizing(s) : t = u BY <2>0 DEF IInv, OneResizes
    <3>2. Cardinality(Resizing(s)) = IF Resizing(s) = {} THEN 0 ELSE 1 BY <3>1, AtMostOne
    <3>. QED BY <3>1, <3>2
  <2>. QED BY <2>1, <2>2, <2>3 DEF Sound, Resizing
<1>. QED BY <1>1, Invariance, PTL

\* A descriptor that is free has an empty slot: the exec that closes one of a
\* replaced fdtable is the only cause of "alloc_fd: slot %d not NULL!".
THEOREM EmptySlotUnlessTorn == Spec => [](~torn => AllocFindsEmptySlot)
<1>1. Inv => (~torn => AllocFindsEmptySlot) BY DEF Inv, IInv, Sound, AllocFindsEmptySlot
<1>. QED BY <1>1, Invariance, PTL

\* Every file that is allocated has references or waits on one list, once, to be
\* closed, and none that is free does; the list is that of a task that lives,
\* and never delayed_fput_list where there is one kernel thread.
THEOREM NoFileIsLeft == Spec => []NoFileLeft
<1>1. ASSUME Inv PROVE NoFileLeft
  <2> SUFFICES ASSUME ~torn
               PROVE  /\ \A f \in Files \ short :
                           /\ Cardinality(Waiting(f)) = IF f \in alloc /\ f_count[f] = 0 THEN 1 ELSE 0
                           /\ f \notin alloc => f_count[f] = 0
                      /\ \A t \in Tasks : pc[t] \in {"none", "new"} => task_works[t] = <<>> /\ todo[t] = <<>>
                      /\ (\A t, u \in KThreads : t = u) => delayed_fput_list = <<>>
    BY DEF NoFileLeft
  <2>1. IInv /\ Queues BY <1>1 DEF Inv
  <2>2. ASSUME NEW f \in Files \ short
        PROVE  /\ Cardinality(Waiting(f)) = IF f \in alloc /\ f_count[f] = 0 THEN 1 ELSE 0
               /\ f \notin alloc => f_count[f] = 0
    <3>1. Waits(f) BY <2>1 DEF Queues
    <3>2. ASSUME NEW p \in Waiting(f) PROVE \E c \in Lists : \E i \in DOMAIN Queue[c] : p = <<c, i>> /\ Queue[c][i] = f
      BY <3>2 DEF Waiting
    <3>3. ASSUME NEW c \in Lists, NEW i \in DOMAIN Queue[c], Queue[c][i] = f PROVE <<c, i>> \in Waiting(f)
      <4>1. <<c, i>> \in {<<c, k>> : k \in {j \in DOMAIN Queue[c] : Queue[c][j] = f}} BY <3>3
      <4>. QED BY <4>1 DEF Waiting
    <3>4. Waiting(f) # {} <=> In(Queue, f) BY <3>2, <3>3 DEF In
    <3>5. ASSUME NEW p \in Waiting(f), NEW q \in Waiting(f) PROVE p = q
      <4>1. PICK c \in Lists : \E i \in DOMAIN Queue[c] : p = <<c, i>> /\ Queue[c][i] = f BY <3>2
      <4>2. PICK i \in DOMAIN Queue[c] : p = <<c, i>> /\ Queue[c][i] = f BY <4>1
      <4>3. PICK d \in Lists : \E j \in DOMAIN Queue[d] : q = <<d, j>> /\ Queue[d][j] = f BY <3>2
      <4>4. PICK j \in DOMAIN Queue[d] : q = <<d, j>> /\ Queue[d][j] = f BY <4>3
      <4>5. c = d /\ i = j BY <3>1, <4>2, <4>4 DEF Waits, Once
      <4>. QED BY <4>2, <4>4, <4>5
    <3>6. Cardinality(Waiting(f)) = IF Waiting(f) = {} THEN 0 ELSE 1 BY <3>5, AtMostOne
    <3>. QED BY <3>1, <3>4, <3>6 DEF Waits
  <2>3. Gone /\ (Alone => delayed_fput_list = <<>>) BY <2>1 DEF IInv, Queues, Delayed
  <2>. QED BY <2>2, <2>3 DEF Gone, Alone
<1>. QED BY <1>1, Invariance, PTL

\* f_count counts the descriptors and the tasks that hold the file, and no more,
\* through sharing, fork, exec and exit, and whether or not a task is alone with
\* its table; but for the files that fdput() made short.
THEOREM RefsExact == Spec => []RefExact
<1>1. Inv => RefExact BY DEF Inv, IInv, RefsOK, RefExact, Refs, InSlots
<1>. QED BY <1>1, Invariance, PTL

\* The file of a descriptor has references, unless fdput() has dropped one that
\* fdget() had not taken, or an exec has closed a descriptor of a replaced
\* fdtable: "VFS: Close: file count is 0" has no other cause.
OthersFindCount ==
  ~torn => \A s \in Structs, i \in Fds : tab[s].fd[i] \in Files \ short => f_count[tab[s].fd[i]] > 0

\* filp_close() finds a count of 0 for no other reason than the two findings.
THEOREM CloseMissesCountIfShort == Spec => []OthersFindCount
<1>1. ASSUME Inv PROVE OthersFindCount
  <2> SUFFICES ASSUME ~torn, NEW s \in Structs, NEW i \in Fds, tab[s].fd[i] \in Files \ short
               PROVE  f_count[tab[s].fd[i]] > 0
    BY DEF OthersFindCount
  <2>. QED BY <1>1, SlotCounted DEF Inv, IInv
<1>. QED BY <1>1, Invariance, PTL

\* The count is at most the number of references, also for the files that are
\* short: one whose last reference goes is closed, never kept open for good.
RefsNeverMissed ==
  ~torn => \A f \in Files :
    f_count[f] <= Cardinality(InHand(f)) + Cardinality({p \in Structs \X Fds : tab[p[1]].fd[p[2]] = f})

\* No file leaks on the light path of fdget().
THEOREM NoRefLeaks == Spec => []RefsNeverMissed
<1>1. Inv => RefsNeverMissed BY DEF Inv, IInv, RefsOK, RefsNeverMissed, Refs, InSlots
<1>. QED BY <1>1, Invariance, PTL

=============================================================================
