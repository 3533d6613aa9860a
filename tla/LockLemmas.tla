----------------------------- MODULE LockLemmas -----------------------------
(***************************************************************************)
(* What the proofs about the locks share: induction on natural numbers,    *)
(* list_add_tail(), list_del() and list_del_all() on lists without         *)
(* duplicates, and what the steps of the scheduler do to the run queue.    *)
(***************************************************************************)
EXTENDS Sched, ListHead, SequenceTheorems, FiniteSetTheorems, TLAPS

----------------------------------------------------------------------------
(* Natural numbers *)

\* A set of natural numbers that is not empty has a least element.  (The
\* induction theorems of the library take a predicate; this one takes a set,
\* which the provers can instantiate.)
LEMMA LeastNatural ==
  ASSUME NEW T \in SUBSET Nat, T # {}
  PROVE  \E n \in T : \A m \in T : n <= m
<1> DEFINE U == {1 .. n : n \in T}
<1>1. IsWellFoundedOn(StrictSubsetOrdering(Nat), FiniteSubsetsOf(Nat))
  BY FS_StrictSubsetOrderingWellFounded
<1>2. U \subseteq FiniteSubsetsOf(Nat) /\ U # {}
  <2>1. \A n \in T : IsFiniteSet(1 .. n) /\ 1 .. n \subseteq Nat BY FS_Interval
  <2>. QED BY <2>1 DEF FiniteSubsetsOf
<1>3. \E x \in U : \A y \in U : ~ (<<y, x>> \in StrictSubsetOrdering(Nat))
  BY <1>1, <1>2, WFMin
<1>4. PICK n \in T : \A m \in T : ~ (<<1 .. m, 1 .. n>> \in StrictSubsetOrdering(Nat))
  BY <1>3
<1>5. ASSUME NEW m \in T, m < n PROVE FALSE
  <2>1. 1 .. m \subseteq Nat /\ 1 .. n \subseteq Nat /\ 1 .. m \subseteq 1 .. n BY <1>5
  <2>2. n \in 1 .. n /\ n \notin 1 .. m BY <1>5
  <2>3. <<1 .. m, 1 .. n>> \in StrictSubsetOrdering(Nat)
    BY <2>1, <2>2 DEF StrictSubsetOrdering
  <2>. QED BY <1>4, <2>3
<1>. QED BY <1>5

\* Induction up to m: what holds of 0 and is passed on holds of all.
LEMMA InductionUpTo ==
  ASSUME NEW m \in Nat, NEW S, 0 \in S, \A n \in 0 .. m - 1 : n \in S => n + 1 \in S
  PROVE  \A n \in 0 .. m : n \in S
<1> DEFINE Bad == {n \in 0 .. m : n \notin S}
<1> SUFFICES ASSUME Bad # {} PROVE FALSE
  OBVIOUS
<1>1. PICK n \in Bad : \A k \in Bad : n <= k
  <2>1. Bad \in SUBSET Nat OBVIOUS
  <2> HIDE DEF Bad
  <2>. QED BY <2>1, LeastNatural
<1>2. n \in 0 .. m /\ n \notin S /\ n # 0 OBVIOUS
<1>3. n - 1 \in 0 .. m - 1 /\ n - 1 \in 0 .. m /\ ~(n <= n - 1) /\ (n - 1) + 1 = n BY <1>2
<1>4. n - 1 \in S BY <1>1, <1>3
<1>5. (n - 1) + 1 \in S BY <1>3, <1>4
<1>. QED BY <1>2, <1>3, <1>5

----------------------------------------------------------------------------
(* Lists *)

\* A list that is not empty has a first entry, and one with an entry is not
\* empty.
LEMMA HeadInList ==
  ASSUME NEW S, NEW s \in Seq(S)
  PROVE  /\ s # <<>> => Head(s) \in S /\ InList(s, Head(s))
         /\ \A x : InList(s, x) => s # <<>> /\ x \in S
BY DEF InList

\* A list without duplicates is as long as the set of its entries is large.
LEMMA ListCardinality ==
  ASSUME NEW S, NEW s \in Seq(S), NoDup(s)
  PROVE  /\ IsFiniteSet(ToSet(s)) /\ Cardinality(ToSet(s)) = Len(s)
         /\ ToSet(s) \subseteq S
         /\ \A x : x \in ToSet(s) <=> InList(s, x)
<1>1. DOMAIN s = 1 .. Len(s) /\ Len(s) \in Nat /\ \A i \in 1 .. Len(s) : s[i] \in S
  OBVIOUS
<1>2. IsFiniteSet(1 .. Len(s)) /\ Cardinality(1 .. Len(s)) = Len(s)
  <2>1. 1 \in Int /\ Len(s) \in Int /\ (IF 1 > Len(s) THEN 0 ELSE Len(s) - 1 + 1) = Len(s) BY <1>1
  <2>. QED BY <2>1, FS_Interval
<1> DEFINE f == [i \in 1 .. Len(s) |-> s[i]]
<1>3. f \in Bijection(1 .. Len(s), ToSet(s))
  <2>1. f \in [1 .. Len(s) -> ToSet(s)] BY <1>1 DEF ToSet
  <2>2. \A i, j \in 1 .. Len(s) : f[i] = f[j] => i = j BY <1>1 DEF NoDup
  <2>3. \A x \in ToSet(s) : \E i \in 1 .. Len(s) : f[i] = x BY <1>1 DEF ToSet
  <2>. QED BY <2>1, <2>2, <2>3 DEF Bijection, Injection, Surjection, IsInjective
<1>4. ExistsBijection(1 .. Len(s), ToSet(s)) BY <1>3 DEF ExistsBijection
<1>5. IsFiniteSet(ToSet(s)) /\ Cardinality(ToSet(s)) = Len(s) BY <1>2, <1>4, FS_Bijection
<1>6. ToSet(s) \subseteq S /\ \A x : x \in ToSet(s) <=> InList(s, x) BY <1>1 DEF ToSet, InList
<1>. QED BY <1>5, <1>6

\* RemoveAt() takes one position out and closes the gap.
LEMMA RemoveAtElements ==
  ASSUME NEW S, NEW s \in Seq(S), NEW i \in 1 .. Len(s)
  PROVE  /\ RemoveAt(s, i) \in Seq(S)
         /\ Len(RemoveAt(s, i)) = Len(s) - 1
         /\ \A k \in 1 .. Len(s) - 1 : RemoveAt(s, i)[k] = IF k < i THEN s[k] ELSE s[k + 1]
<1> DEFINE a == SubSeq(s, 1, i - 1)
           b == SubSeq(s, i + 1, Len(s))
<1>0. Len(s) \in Nat /\ i \in Nat /\ i \in Int OBVIOUS
<1>1. a \in Seq(S) /\ Len(a) = i - 1 /\ \A k \in 1 .. i - 1 : a[k] = s[k]
  BY <1>0
<1>2. b \in Seq(S) /\ Len(b) = Len(s) - i /\ \A k \in 1 .. Len(s) - i : b[k] = s[i + k]
  BY <1>0
<1>3. RemoveAt(s, i) = a \o b BY DEF RemoveAt
<1> HIDE DEF a, b
<1>4. /\ a \o b \in Seq(S) /\ Len(a \o b) = Len(a) + Len(b)
      /\ \A k \in 1 .. Len(a) + Len(b) : (a \o b)[k] = IF k <= Len(a) THEN a[k] ELSE b[k - Len(a)]
  BY <1>1, <1>2, ConcatProperties
<1>5. ASSUME NEW k \in 1 .. Len(s) - 1
      PROVE  (a \o b)[k] = IF k < i THEN s[k] ELSE s[k + 1]
  <2>1. CASE k < i BY <2>1, <1>0, <1>1, <1>2, <1>4
  <2>2. CASE k >= i
    <3>1. (a \o b)[k] = b[k - (i - 1)] BY <2>2, <1>0, <1>1, <1>2, <1>4
    <3>2. k - (i - 1) \in 1 .. Len(s) - i BY <2>2, <1>0
    <3>3. b[k - (i - 1)] = s[i + (k - (i - 1))] BY <3>2, <1>2
    <3>4. i + (k - (i - 1)) = k + 1 BY <1>0
    <3>. QED BY <2>2, <3>1, <3>3, <3>4, <1>0
  <2>3. k < i \/ k >= i BY <1>0
  <2>. QED BY <2>1, <2>2, <2>3
<1>. QED BY <1>0, <1>1, <1>2, <1>3, <1>4, <1>5

\* list_del() removes the entry and nothing else, and keeps the order of the
\* first two.
LEMMA ListDel ==
  ASSUME NEW S, NEW s \in Seq(S), NEW e, InList(s, e), NoDup(s)
  PROVE  LET r == list_del(s, e)
         IN /\ r \in Seq(S)
            /\ NoDup(r)
            /\ \A x : InList(r, x) <=> InList(s, x) /\ x # e
            /\ Head(s) # e => r # <<>> /\ Head(r) = Head(s)
<1> DEFINE i == CHOOSE j \in DOMAIN s : s[j] = e
           r == list_del(s, e)
<1>1. i \in DOMAIN s /\ s[i] = e BY DEF InList
<1>2. DOMAIN s = 1 .. Len(s) /\ Len(s) \in Nat OBVIOUS
<1>3. r = RemoveAt(s, i) BY DEF list_del
<1> HIDE DEF i, r
<1>4. /\ r \in Seq(S) /\ Len(r) = Len(s) - 1 /\ DOMAIN r = 1 .. Len(s) - 1
      /\ \A k \in 1 .. Len(s) - 1 : r[k] = IF k < i THEN s[k] ELSE s[k + 1]
  <2>1. i \in 1 .. Len(s) BY <1>1, <1>2
  <2>2. /\ RemoveAt(s, i) \in Seq(S) /\ Len(RemoveAt(s, i)) = Len(s) - 1
        /\ \A k \in 1 .. Len(s) - 1 : RemoveAt(s, i)[k] = IF k < i THEN s[k] ELSE s[k + 1]
    BY <2>1, RemoveAtElements
  <2>3. r \in Seq(S) /\ Len(r) = Len(s) - 1 BY <2>2, <1>3
  <2>4. DOMAIN r = 1 .. Len(r) BY <2>3
  <2>. QED BY <2>2, <2>3, <2>4, <1>3
<1>5. \A j \in 1 .. Len(s) : j # i => s[j] # e
  BY <1>1, <1>2 DEF NoDup
<1>6. NoDup(r)
  <2> SUFFICES ASSUME NEW j \in 1 .. Len(s) - 1, NEW k \in 1 .. Len(s) - 1, r[j] = r[k]
               PROVE  j = k
    BY <1>4 DEF NoDup
  <2> DEFINE p(n) == IF n < i THEN n ELSE n + 1
  <2>1. p(j) \in 1 .. Len(s) /\ p(k) \in 1 .. Len(s) BY <1>1, <1>2
  <2>2. r[j] = s[p(j)] /\ r[k] = s[p(k)] BY <1>4
  <2>3. p(j) = p(k) BY <2>1, <2>2, <1>2 DEF NoDup
  <2>. QED BY <2>3, <1>1, <1>2
<1>7. ASSUME NEW x PROVE InList(r, x) <=> InList(s, x) /\ x # e
  <2>1. ASSUME InList(r, x) PROVE InList(s, x) /\ x # e
    <3>1. PICK k \in 1 .. Len(s) - 1 : r[k] = x BY <2>1, <1>4 DEF InList
    <3>2. k \in 1 .. Len(s) /\ k + 1 \in 1 .. Len(s) BY <1>2
    <3>3. CASE k < i BY <3>1, <3>2, <3>3, <1>1, <1>2, <1>4, <1>5 DEF InList
    <3>4. CASE k >= i
      <4>1. k + 1 # i /\ s[k + 1] = x BY <3>1, <3>4, <1>1, <1>2, <1>4
      <4>. QED BY <4>1, <3>2, <1>2, <1>5 DEF InList
    <3>. QED BY <3>3, <3>4, <1>1, <1>2
  <2>2. ASSUME InList(s, x), x # e PROVE InList(r, x)
    <3>1. PICK k \in 1 .. Len(s) : s[k] = x BY <2>2, <1>2 DEF InList
    <3>2. k # i BY <3>1, <2>2, <1>1
    <3>3. CASE k < i
      <4>1. k \in 1 .. Len(s) - 1 BY <3>3, <1>1, <1>2
      <4>. QED BY <4>1, <3>1, <3>3, <1>4 DEF InList
    <3>4. CASE k > i
      <4>1. k - 1 \in 1 .. Len(s) - 1 /\ ~(k - 1 < i) /\ (k - 1) + 1 = k BY <3>4, <1>1, <1>2
      <4>2. r[k - 1] = x BY <4>1, <3>1, <1>4
      <4>. QED BY <4>1, <4>2, <1>4 DEF InList
    <3>. QED BY <3>2, <3>3, <3>4, <1>1, <1>2
  <2>. QED BY <2>1, <2>2
<1>8. Head(s) # e => r # <<>> /\ Head(r) = Head(s)
  <2> SUFFICES ASSUME Head(s) # e PROVE r # <<>> /\ Head(r) = Head(s)
    OBVIOUS
  <2>1. s # <<>> /\ Head(s) = s[1] BY <1>1, <1>2
  <2>2. i > 1 /\ 1 \in 1 .. Len(s) - 1 BY <2>1, <1>1, <1>2
  <2>3. r[1] = s[1] BY <2>2, <1>1, <1>2, <1>4
  <2>. QED BY <2>1, <2>2, <2>3, <1>2, <1>4
<1>. QED BY <1>4, <1>6, <1>7, <1>8 DEF r

\* To unlink the first entry is to take the tail.
LEMMA DelHead ==
  ASSUME NEW S, NEW s \in Seq(S), s # <<>>, NoDup(s)
  PROVE  Tail(s) = list_del(s, Head(s))
<1> DEFINE i == CHOOSE j \in DOMAIN s : s[j] = Head(s)
<1>0. Len(s) \in Nat \ {0} /\ DOMAIN s = 1 .. Len(s) /\ Head(s) = s[1] /\ 1 \in DOMAIN s OBVIOUS
<1>1. i = 1 BY <1>0 DEF NoDup
<1>2. list_del(s, Head(s)) = RemoveAt(s, 1) BY <1>1 DEF list_del
<1>3. /\ RemoveAt(s, 1) \in Seq(S) /\ Len(RemoveAt(s, 1)) = Len(s) - 1
      /\ \A k \in 1 .. Len(s) - 1 : RemoveAt(s, 1)[k] = s[k + 1]
  <2>1. 1 \in 1 .. Len(s) BY <1>0
  <2>2. \A k \in 1 .. Len(s) - 1 : ~(k < 1) BY <1>0
  <2>. QED BY <2>1, <2>2, RemoveAtElements
<1>4. /\ Tail(s) \in Seq(S) /\ Len(Tail(s)) = Len(s) - 1
      /\ \A k \in 1 .. Len(s) - 1 : Tail(s)[k] = s[k + 1]
  BY <1>0, HeadTailProperties
<1>. QED BY <1>2, <1>3, <1>4, SeqEqual

\* list_add_tail() of a new entry.
LEMMA ListAddTail ==
  ASSUME NEW S, NEW s \in Seq(S), NEW e \in S, ~InList(s, e), NoDup(s)
  PROVE  LET r == list_add_tail(s, e)
         IN /\ r \in Seq(S)
            /\ r # <<>>
            /\ NoDup(r)
            /\ \A x : InList(r, x) <=> InList(s, x) \/ x = e
            /\ Head(r) = IF s = <<>> THEN e ELSE Head(s)
<1> DEFINE r == Append(s, e)
<1>1. /\ r \in Seq(S) /\ Len(s) \in Nat /\ DOMAIN s = 1 .. Len(s)
      /\ Len(r) = Len(s) + 1 /\ DOMAIN r = 1 .. Len(s) + 1
      /\ r[Len(s) + 1] = e /\ \A k \in 1 .. Len(s) : r[k] = s[k]
  BY AppendProperties
<1> HIDE DEF r
<1>2. r # <<>> BY <1>1
<1>3. NoDup(r) BY <1>1 DEF NoDup, InList
<1>4. ASSUME NEW x PROVE InList(r, x) <=> InList(s, x) \/ x = e
  <2>1. ASSUME InList(r, x) PROVE InList(s, x) \/ x = e
    <3>1. PICK k \in 1 .. Len(s) + 1 : r[k] = x BY <2>1, <1>1 DEF InList
    <3>2. CASE k = Len(s) + 1 BY <3>1, <3>2, <1>1
    <3>3. CASE k \in 1 .. Len(s) BY <3>1, <3>3, <1>1 DEF InList
    <3>. QED BY <3>2, <3>3, <1>1
  <2>2. ASSUME InList(s, x) PROVE InList(r, x)
    <3>1. PICK k \in 1 .. Len(s) : s[k] = x BY <2>2, <1>1 DEF InList
    <3>2. k \in DOMAIN r /\ r[k] = x BY <3>1, <1>1
    <3>. QED BY <3>2 DEF InList
  <2>3. InList(r, e)
    <3>1. Len(s) + 1 \in DOMAIN r BY <1>1
    <3>. QED BY <3>1, <1>1 DEF InList
  <2>. QED BY <2>1, <2>2, <2>3
<1>5. Head(r) = IF s = <<>> THEN e ELSE Head(s)
  <2>1. Head(r) = r[1] BY <1>1, <1>2
  <2>2. CASE s = <<>> BY <2>1, <2>2, <1>1
  <2>3. CASE s # <<>> BY <2>1, <2>3, <1>1
  <2>. QED BY <2>2, <2>3
<1>. QED BY <1>1, <1>2, <1>3, <1>4, <1>5 DEF r, list_add_tail

\* g[i] is what list_del_all() has made of the first i entries.
IsRest(s, D, g) ==
  g = [i \in 0 .. Len(s) |->
         IF i = 0 THEN <<>> ELSE IF s[i] \in D THEN g[i - 1] ELSE Append(g[i - 1], s[i])]

\* The recursion of list_del_all() defines a function.
LEMMA DelAllDefined == ASSUME NEW S, NEW s \in Seq(S), NEW D PROVE \E g : IsRest(s, D, g)
<1> DEFINE Step(g, i) ==
             IF i = 0 THEN <<>> ELSE IF s[i] \in D THEN g[i - 1] ELSE Append(g[i - 1], s[i])
           G == {n \in 0 .. Len(s) : \E g : g = [i \in 0 .. n |-> Step(g, i)]}
<1>0. Len(s) \in Nat OBVIOUS
<1>1. 0 \in G
  <2> DEFINE g == [i \in 0 .. 0 |-> <<>>]
  <2>1. g = [i \in 0 .. 0 |-> Step(g, i)] OBVIOUS
  <2>2. 0 \in 0 .. Len(s) BY <1>0
  <2> HIDE DEF g, Step
  <2>. QED BY <2>1, <2>2
<1>2. ASSUME NEW n \in 0 .. Len(s) - 1, n \in G PROVE n + 1 \in G
  <2>1. PICK g : g = [i \in 0 .. n |-> Step(g, i)] BY <1>2
  <2> DEFINE h == [i \in 0 .. n + 1 |-> IF i = n + 1 THEN Step(g, i) ELSE g[i]]
  <2>2. \A i \in 0 .. n : h[i] = g[i] BY <1>0
  <2>3. ASSUME NEW i \in 0 .. n + 1 PROVE h[i] = Step(h, i)
    <3>1. CASE i = 0 BY <1>0, <2>1, <3>1
    <3>2. CASE i # 0
      <4>1. i - 1 \in 0 .. n BY <1>0, <3>2
      <4>2. h[i - 1] = g[i - 1] BY <2>2, <4>1
      <4>3. Step(h, i) = Step(g, i) BY <3>2, <4>2
      <4>4. h[i] = Step(g, i)
        <5>1. CASE i = n + 1 BY <5>1
        <5>2. CASE i # n + 1
          <6>1. i \in 0 .. n BY <1>0, <5>2
          <6>2. g[i] = Step(g, i) BY <2>1, <6>1
          <6>. QED BY <2>2, <6>1, <6>2
        <5>. QED BY <5>1, <5>2
      <4>. QED BY <4>3, <4>4
    <3>. QED BY <3>1, <3>2
  <2>4. h = [i \in 0 .. n + 1 |-> Step(h, i)] BY <2>3
  <2>5. n + 1 \in 0 .. Len(s) BY <1>0
  <2> HIDE DEF h
  <2>. QED BY <2>4, <2>5
<1>3. \A n \in 0 .. Len(s) : n \in G
  <2> HIDE DEF G
  <2>. QED BY <1>0, <1>1, <1>2, InductionUpTo
<1>4. Len(s) \in 0 .. Len(s) BY <1>0
<1>5. Len(s) \in G
  <2> HIDE DEF G
  <2>. QED BY <1>3, <1>4
<1>. QED BY <1>5 DEF IsRest

\* list_del_all() removes the entries of D and nothing else.
LEMMA ListDelAll ==
  ASSUME NEW S, NEW s \in Seq(S), NEW D, NoDup(s)
  PROVE  LET r == list_del_all(s, D)
         IN /\ r \in Seq(S)
            /\ NoDup(r)
            /\ \A x : InList(r, x) <=> InList(s, x) /\ x \notin D
<1> DEFINE f == CHOOSE g : IsRest(s, D, g)
<1>0. Len(s) \in Nat /\ DOMAIN s = 1 .. Len(s) OBVIOUS
<1>1. f = [i \in 0 .. Len(s) |->
             IF i = 0 THEN <<>> ELSE IF s[i] \in D THEN f[i - 1] ELSE Append(f[i - 1], s[i])]
  <2>1. \E g : IsRest(s, D, g) BY DelAllDefined
  <2>2. IsRest(s, D, f) BY <2>1, Zenon
  <2> HIDE DEF f
  <2>. QED BY <2>2 DEF IsRest
<1>2. list_del_all(s, D) = f[Len(s)] BY Zenon DEF list_del_all, IsRest
<1> HIDE DEF f
<1> DEFINE Good(n) == /\ f[n] \in Seq(S) /\ NoDup(f[n])
                      /\ \A x : InList(f[n], x) <=> x \notin D /\ \E i \in 1 .. n : s[i] = x
           G == {n \in 0 .. Len(s) : Good(n)}
<1>3. 0 \in G
  <2>1. f[0] = <<>> /\ 0 \in 0 .. Len(s) BY <1>0, <1>1
  <2>2. <<>> \in Seq(S) /\ NoDup(<<>>) /\ \A x : ~InList(<<>>, x) BY DEF NoDup, InList
  <2>3. \A x : ~\E i \in 1 .. 0 : s[i] = x OBVIOUS
  <2>4. Good(0) BY <2>1, <2>2, <2>3
  <2>. QED BY <2>1, <2>4
<1>4. ASSUME NEW n \in 0 .. Len(s) - 1, n \in G PROVE n + 1 \in G
  <2>1. /\ n + 1 \in 0 .. Len(s) /\ n + 1 # 0 /\ n + 1 \in 1 .. Len(s) /\ (n + 1) - 1 = n
        /\ s[n + 1] \in S /\ \A i \in 1 .. n + 1 : i = n + 1 \/ i \in 1 .. n
        /\ 1 .. n \subseteq 1 .. n + 1 /\ n + 1 \in 1 .. n + 1
    BY <1>0
  <2>2. f[n + 1] = IF s[n + 1] \in D THEN f[n] ELSE Append(f[n], s[n + 1])
    BY <1>1, <2>1
  <2>3. Good(n) BY <1>4
  <2>4. CASE s[n + 1] \in D
    <3>1. f[n + 1] = f[n] BY <2>2, <2>4
    <3>2. \A x : x \notin D /\ (\E i \in 1 .. n + 1 : s[i] = x)
                 <=> x \notin D /\ (\E i \in 1 .. n : s[i] = x)
      BY <2>1, <2>4
    <3>3. Good(n + 1) BY <2>3, <3>1, <3>2
    <3>. QED BY <2>1, <3>3
  <2>5. CASE s[n + 1] \notin D
    <3>1. f[n + 1] = list_add_tail(f[n], s[n + 1]) BY <2>2, <2>5 DEF list_add_tail
    <3>2. ~InList(f[n], s[n + 1])
      <4>1. \A i \in 1 .. n : i \in DOMAIN s /\ i # n + 1 BY <1>0
      <4>2. \A i \in 1 .. n : s[i] # s[n + 1] BY <1>0, <2>1, <4>1 DEF NoDup
      <4>. QED BY <2>3, <4>2
    <3>3. /\ f[n + 1] \in Seq(S) /\ NoDup(f[n + 1])
          /\ \A x : InList(f[n + 1], x) <=> InList(f[n], x) \/ x = s[n + 1]
      <4>1. f[n] \in Seq(S) /\ NoDup(f[n]) /\ s[n + 1] \in S BY <2>1, <2>3
      <4>. QED BY <3>1, <3>2, <4>1, ListAddTail
    <3>4. ASSUME NEW x
          PROVE  InList(f[n + 1], x) <=> x \notin D /\ \E i \in 1 .. n + 1 : s[i] = x
      BY <2>1, <2>3, <2>5, <3>3
    <3>5. Good(n + 1) BY <3>3, <3>4
    <3>. QED BY <2>1, <3>5
  <2>. QED BY <2>4, <2>5
<1>5. Len(s) \in G
  <2>1. \A n \in 0 .. Len(s) : n \in G
    <3> HIDE DEF G
    <3>. QED BY <1>0, <1>3, <1>4, InductionUpTo
  <2>2. Len(s) \in 0 .. Len(s) BY <1>0
  <2> HIDE DEF G
  <2>. QED BY <2>1, <2>2
<1>6. Good(Len(s)) BY <1>5
<1>7. \A x : InList(s, x) <=> \E i \in 1 .. Len(s) : s[i] = x BY <1>0 DEF InList
<1>. QED BY <1>2, <1>6, <1>7

----------------------------------------------------------------------------
(* The scheduler *)

\* All tasks start runnable.
LEMMA SchedStarts == SchedInit => SchedOK
BY IdleAssumption DEF SchedInit, SchedOK, SchedTypeOK, Signal

\* A wake-up makes runnable whom it is meant for and nobody else.
LEMMA WakeUp ==
  ASSUME SchedOK, NEW W \in SUBSET Tasks, NEW mask, try_to_wake_up(W, mask), curr' = curr,
         sig' \in [Tasks -> Signal]
  PROVE  /\ SchedOK' /\ StaysRunnable
         /\ \A p \in Tasks \ W : tstate'[p] = tstate[p]
         /\ \A p \in Tasks : tstate'[p] \in {tstate[p], "RUNNING"}
         /\ mask = TASK_NORMAL => \A p \in W : tstate'[p] = "RUNNING"
<1> USE IdleAssumption DEF SchedOK, SchedTypeOK, try_to_wake_up, Woken
<1>1. tstate' \in [Tasks -> {"RUNNING"} \cup SleepState] /\ on_rq' \subseteq Tasks
  OBVIOUS
<1>2. need_resched' \in BOOLEAN BY DEF check_preempt_curr
<1>3. StaysRunnable BY DEF StaysRunnable
<1>4. \A t \in Tasks : tstate'[t] = "RUNNING" => t \in on_rq' OBVIOUS
<1>5. SchedOK' BY <1>1, <1>2, <1>4
<1>6. mask = TASK_NORMAL => \A p \in W : tstate'[p] = "RUNNING" BY DEF TASK_NORMAL
<1>. QED BY <1>3, <1>5, <1>6

\* schedule() puts the caller to sleep only if it has asked for it.
LEMMA Scheduled ==
  ASSUME SchedOK, NEW t \in Tasks, curr = t, __schedule(t)
  PROVE  SchedOK' /\ StaysRunnable /\ \A p \in Tasks : tstate'[p] \in {tstate[p], "RUNNING"}
<1> USE IdleAssumption DEF SchedOK, SchedTypeOK, __schedule, pick_next_task
<1>1. SchedTypeOK' BY DEF SleepState
<1>2. StaysRunnable BY DEF StaysRunnable
<1>3. \A p \in Tasks : tstate'[p] \in {tstate[p], "RUNNING"} OBVIOUS
<1>4. \A p \in Tasks : tstate'[p] = "RUNNING" => p \in on_rq' OBVIOUS
<1>5. curr' \in Tasks => curr' \in on_rq' OBVIOUS
<1>. QED BY <1>1, <1>2, <1>3, <1>4, <1>5

\* A preemption changes no task's state.
LEMMA Preempted ==
  ASSUME SchedOK, preempt_schedule_common
  PROVE  SchedOK' /\ UNCHANGED tstate
BY IdleAssumption DEF SchedOK, SchedTypeOK, preempt_schedule_common, pick_next_task

\* The current task prepares to sleep.
LEMMA StateSet ==
  ASSUME SchedOK, NEW t \in Tasks, NEW s \in SleepState, tstate' = [tstate EXCEPT ![t] = s],
         UNCHANGED <<on_rq, curr, need_resched, sig>>
  PROVE  SchedOK' /\ \A p \in Tasks \ {t} : tstate'[p] = tstate[p]
BY IdleAssumption DEF SchedOK, SchedTypeOK, SleepState

\* The tick, and steps that are not the scheduler's.
LEMMA Ticked ==
  ASSUME SchedOK, update_process_times \/ UNCHANGED schedVars
  PROVE  SchedOK' /\ UNCHANGED tstate
BY DEF SchedOK, SchedTypeOK, update_process_times, schedVars

=============================================================================
