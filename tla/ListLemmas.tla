------------------------------- MODULE ListLemmas -------------------------------
(***************************************************************************)
(* What the proofs need to know of lists and of numbers, whatever they are *)
(* lists of.                                                               *)
(***************************************************************************)
EXTENDS Integers, Sequences, SequencesExt, Lists, SequenceTheorems, FiniteSetTheorems, TLAPS

\* A list without repetitions, and what occurs in a list.
OnceEach(q)  == \A i, j \in 1..Len(q) : q[i] = q[j] => i = j
Occurs(x, q) == \E i \in 1..Len(q) : q[i] = x
OccursIn(x, q, m, n) == \E i \in m..n : q[i] = x
Precedes(x, y, q) == \E i, j \in 1..Len(q) : i < j /\ q[i] = x /\ q[j] = y

\* What RemoveAt leaves.
LEMMA RemoveAtProperties ==
    ASSUME NEW S, NEW q \in Seq(S), NEW m \in 1..Len(q)
    PROVE  /\ RemoveAt(q, m) \in Seq(S)
           /\ Len(RemoveAt(q, m)) = Len(q) - 1
           /\ \A k \in 1..(Len(q) - 1) : RemoveAt(q, m)[k] = IF k < m THEN q[k] ELSE q[k + 1]
  <1> DEFINE a == SubSeq(q, 1, m - 1)
             b == SubSeq(q, m + 1, Len(q))
  <1>1. Len(q) \in Nat /\ m \in Nat /\ \A i \in 1..Len(q) : q[i] \in S
    BY LenProperties, ElementOfSeq
  <1>2. a \in Seq(S) /\ Len(a) = m - 1 /\ \A i \in 1..(m - 1) : a[i] = q[i]
    BY <1>1, SubSeqProperties, \A i \in 1..(m - 1) : i \in 1..Len(q)
  <1>3. /\ b \in Seq(S) /\ Len(b) = Len(q) - m
        /\ \A i \in 1..(Len(q) - m) : b[i] = q[m + i]
    BY <1>1, SubSeqProperties
  <1> HIDE DEF a, b
  <1>4. RemoveAt(q, m) = a \o b
    BY DEF RemoveAt, a, b
  <1>5. /\ a \o b \in Seq(S) /\ Len(a \o b) = Len(a) + Len(b)
        /\ \A i \in 1 .. Len(a) + Len(b) : (a \o b)[i] = IF i <= Len(a) THEN a[i] ELSE b[i - Len(a)]
    BY <1>2, <1>3, ConcatProperties
  <1> QED BY <1>1, <1>2, <1>3, <1>4, <1>5

\* Every set of numbers has a least one: the intervals up to its elements are ordered
\* by inclusion, which is well-founded on finite sets.
LEMMA Least ==
    ASSUME NEW T, T \subseteq Nat, T # {}
    PROVE  \E x \in T : \A y \in T : x <= y
  <1> DEFINE upto == {0..n : n \in T}
  <1>1. upto \subseteq FiniteSubsetsOf(Nat) /\ upto # {}
    <2>1. ASSUME NEW n \in T PROVE 0..n \in FiniteSubsetsOf(Nat)
      BY FS_Interval DEF FiniteSubsetsOf
    <2> QED BY <2>1
  <1>2. \E u \in upto : \A v \in upto : <<v, u>> \notin StrictSubsetOrdering(Nat)
    <2> HIDE DEF upto
    <2> QED BY <1>1, FS_StrictSubsetOrderingWellFounded, WFMin
  <1>3. PICK m \in T : \A n \in T : <<0..n, 0..m>> \notin StrictSubsetOrdering(Nat)
    BY <1>2
  <1>4. ASSUME NEW n \in T, n < m PROVE FALSE
    <2>1. 0..n \subseteq 0..m /\ 0..n \in SUBSET Nat /\ 0..m \in SUBSET Nat
      BY <1>4
    <2>2. m \in 0..m /\ m \notin 0..n
      BY <1>4
    <2> QED BY <1>3, <2>1, <2>2 DEF StrictSubsetOrdering
  <1> QED BY <1>4

\* RemoveFirst in a list without repetitions.
LEMMA RemoveFirstProperties ==
    ASSUME NEW S, NEW q \in Seq(S), NEW m \in 1..Len(q), OnceEach(q)
    PROVE  RemoveFirst(q, q[m]) = RemoveAt(q, m)
  <1> DEFINE ks == {i \in 1..Len(q) : q[i] = q[m]}
  <1>1. ks = {m} /\ m \in Nat
    BY LenProperties DEF OnceEach
  <1>2. Min(ks) = m
    BY <1>1 DEF Min
  <1>3. SelectInSeq(q, LAMBDA v : v = q[m]) = m
    BY <1>1, <1>2 DEF SelectInSeq
  <1> QED BY <1>3 DEF RemoveFirst

\* A list without repetitions from which one element is taken.
LEMMA WithoutOne ==
    ASSUME NEW S, NEW q \in Seq(S), NEW m \in 1..Len(q), OnceEach(q),
           NEW p, p = RemoveAt(q, m)
    PROVE  /\ p \in Seq(S) /\ OnceEach(p)
           /\ \A x : Occurs(x, p) <=> Occurs(x, q) /\ x # q[m]
  <1> USE DEF OnceEach
  <1> DEFINE old(i) == IF i < m THEN i ELSE i + 1
  <1>1. Len(q) \in Nat /\ m \in Nat
    BY LenProperties
  <1>2. /\ p \in Seq(S) /\ Len(p) = Len(q) - 1
        /\ \A i \in 1..(Len(q) - 1) : p[i] = IF i < m THEN q[i] ELSE q[i + 1]
    BY RemoveAtProperties
  <1>3. ASSUME NEW i \in 1..Len(p)
        PROVE  old(i) \in 1..Len(q) /\ old(i) # m /\ p[i] = q[old(i)]
    <2>1. i \in 1..(Len(q) - 1) /\ p[i] = IF i < m THEN q[i] ELSE q[i + 1]
      BY <1>2
    <2> QED BY <1>1, <2>1
  <1>4. ASSUME NEW i \in 1..Len(p), NEW j \in 1..Len(p), p[i] = p[j]
        PROVE  i = j
    <2>1. old(i) = old(j)
      BY SMTT(30), <1>3, <1>4
    <2>2. i \in Nat /\ j \in Nat
      BY <1>1, <1>2
    <2> QED BY <1>1, <2>1, <2>2
  <1>5. ASSUME NEW j \in 1..Len(q), j # m
        PROVE  \E i \in 1..Len(p) : p[i] = q[j]
    <2>1. CASE j < m
      <3>1. j \in 1..Len(p) /\ p[j] = q[j]
        BY <2>1, <1>1, <1>2
      <3> QED BY <3>1
    <2>2. CASE j > m
      <3>1. j - 1 \in 1..(Len(q) - 1) /\ ~(j - 1 < m) /\ (j - 1) + 1 = j
        BY <2>2, <1>1
      <3>2. p[j - 1] = q[j] /\ j - 1 \in 1..Len(p)
        BY <1>2, <3>1
      <3> QED BY <3>2
    <2> QED BY <2>1, <2>2, <1>1, <1>5
  <1>6. ASSUME NEW i \in 1..Len(p)
        PROVE  p[i] # q[m] /\ \E j \in 1..Len(q) : j # m /\ p[i] = q[j]
    <2> HIDE DEF old
    <2> QED BY <1>3
  <1>7. ASSUME NEW x PROVE Occurs(x, p) <=> Occurs(x, q) /\ x # q[m]
    <2>1. ASSUME Occurs(x, p) PROVE Occurs(x, q) /\ x # q[m]
      <3>1. PICK i \in 1..Len(p) : p[i] = x
        BY <2>1 DEF Occurs
      <3> QED BY <3>1, <1>6 DEF Occurs
    <2>2. ASSUME Occurs(x, q), x # q[m] PROVE Occurs(x, p)
      <3>1. PICK j \in 1..Len(q) : q[j] = x
        BY <2>2 DEF Occurs
      <3> QED BY <2>2, <3>1, <1>5 DEF Occurs
    <2> QED BY <2>1, <2>2
  <1> QED BY <1>2, <1>4, <1>7

\* Two lists without repetitions and without common elements, one after the other.
LEMMA Joined ==
    ASSUME NEW S, NEW p \in Seq(S), NEW q \in Seq(S), OnceEach(p), OnceEach(q),
           \A x : ~(Occurs(x, p) /\ Occurs(x, q)), NEW u, u = p \o q
    PROVE  /\ u \in Seq(S) /\ OnceEach(u)
           /\ \A x : Occurs(x, u) <=> Occurs(x, p) \/ Occurs(x, q)
  <1>1. /\ u \in Seq(S) /\ Len(u) = Len(p) + Len(q) /\ Len(p) \in Nat /\ Len(q) \in Nat
        /\ \A i \in 1..(Len(p) + Len(q)) : u[i] = IF i <= Len(p) THEN p[i] ELSE q[i - Len(p)]
    BY ConcatProperties, LenProperties
  <1>2. ASSUME NEW i \in 1..Len(u)
        PROVE  \/ i \in 1..Len(p) /\ u[i] = p[i]
               \/ i - Len(p) \in 1..Len(q) /\ u[i] = q[i - Len(p)]
    BY <1>1
  <1>3. ASSUME NEW i \in 1..Len(u), NEW j \in 1..Len(u), u[i] = u[j]
        PROVE  i = j
    <2>0. \A k \in 1..Len(p), l \in 1..Len(q) : p[k] # q[l]
      BY DEF Occurs
    <2>1. CASE i \in 1..Len(p) /\ j \in 1..Len(p)
      BY <2>1, <1>1, <1>3 DEF OnceEach
    <2>2. CASE i \notin 1..Len(p) /\ j \notin 1..Len(p)
      <3>1. i - Len(p) = j - Len(p)
        BY <2>2, <1>2, <1>3 DEF OnceEach
      <3> QED BY <3>1, <1>1
    <2>3. CASE i \in 1..Len(p) /\ j \notin 1..Len(p)
      BY <2>0, <2>3, <1>1, <1>2, <1>3
    <2>4. CASE i \notin 1..Len(p) /\ j \in 1..Len(p)
      BY <2>0, <2>4, <1>1, <1>2, <1>3
    <2> QED BY <2>1, <2>2, <2>3, <2>4
  <1>4. ASSUME NEW j \in 1..Len(q) PROVE \E i \in 1..Len(u) : u[i] = q[j]
    <2>1. Len(p) + j \in 1..Len(u) /\ ~(Len(p) + j <= Len(p)) /\ (Len(p) + j) - Len(p) = j
      BY <1>1
    <2> QED BY <1>1, <2>1
  <1>5. \A i \in 1..Len(p) : i \in 1..Len(u) /\ u[i] = p[i]
    BY <1>1
  <1>6. ASSUME NEW x PROVE Occurs(x, u) <=> Occurs(x, p) \/ Occurs(x, q)
    <2>1. ASSUME Occurs(x, u) PROVE Occurs(x, p) \/ Occurs(x, q)
      BY <2>1, <1>2 DEF Occurs
    <2>2. ASSUME Occurs(x, p) PROVE Occurs(x, u)
      BY <2>2, <1>5 DEF Occurs
    <2>3. ASSUME Occurs(x, q) PROVE Occurs(x, u)
      BY <2>3, <1>4 DEF Occurs
    <2> QED BY <2>1, <2>2, <2>3
  <1>7. OnceEach(u)
    BY <1>3 DEF OnceEach
  <1> QED BY <1>1, <1>6, <1>7

\* A list to which one element is added.
LEMMA OneMore ==
    ASSUME NEW S, NEW q \in Seq(S), NEW y \in S, NEW p, p = Append(q, y)
    PROVE  /\ p \in Seq(S) /\ Len(p) = Len(q) + 1
           /\ \A x : Occurs(x, p) <=> Occurs(x, q) \/ x = y
           /\ OnceEach(q) /\ ~Occurs(y, q) => OnceEach(p)
  <1>1. /\ p \in Seq(S) /\ Len(p) = Len(q) + 1 /\ Len(q) \in Nat
        /\ \A i \in 1..Len(q) : p[i] = q[i]
        /\ p[Len(q) + 1] = y
    BY AppendProperties, LenProperties
  <1>2. 1..Len(p) = (1..Len(q)) \cup {Len(q) + 1}
    BY <1>1
  <1> QED BY <1>1, <1>2 DEF Occurs, OnceEach

\* A list without its first element.
LEMMA OneLess ==
    ASSUME NEW S, NEW q \in Seq(S), q # <<>>, NEW p, p = Tail(q)
    PROVE  /\ p \in Seq(S) /\ Len(p) = Len(q) - 1 /\ Head(q) \in S /\ Occurs(Head(q), q)
           /\ \A x : Occurs(x, p) => Occurs(x, q)
           /\ OnceEach(q) => /\ OnceEach(p)
                             /\ \A x : Occurs(x, p) <=> Occurs(x, q) /\ x # Head(q)
  <1>1. /\ p \in Seq(S) /\ Len(p) = Len(q) - 1 /\ Len(q) \in Nat /\ Len(q) > 0
        /\ Head(q) \in S /\ Head(q) = q[1]
        /\ \A i \in 1..Len(p) : p[i] = q[i + 1]
    BY HeadTailProperties, LenProperties, EmptySeq
  <1>2. ASSUME NEW i \in 1..Len(p) PROVE i + 1 \in 1..Len(q) /\ i + 1 # 1 /\ p[i] = q[i + 1]
    BY <1>1
  <1>3. ASSUME NEW j \in 1..Len(q), j # 1 PROVE \E i \in 1..Len(p) : p[i] = q[j]
    <2>1. j - 1 \in 1..Len(p) /\ (j - 1) + 1 = j
      BY <1>1, <1>3
    <2> QED BY <1>1, <2>1
  <1>4. 1 \in 1..Len(q)
    BY <1>1
  <1>5. \A x : Occurs(x, p) => Occurs(x, q)
    BY <1>2 DEF Occurs
  <1>6. ASSUME OnceEach(q)
        PROVE  OnceEach(p) /\ \A x : Occurs(x, p) <=> Occurs(x, q) /\ x # Head(q)
    <2>1. ASSUME NEW i \in 1..Len(p), NEW j \in 1..Len(p), p[i] = p[j] PROVE i = j
      <3>1. i + 1 = j + 1
        BY <1>2, <1>6, <2>1 DEF OnceEach
      <3> QED BY <1>1, <3>1
    <2>2. \A i \in 1..Len(p) : p[i] # q[1]
      BY <1>2, <1>4, <1>6 DEF OnceEach
    <2>3. ASSUME NEW x, Occurs(x, q), x # q[1] PROVE Occurs(x, p)
      BY <1>3, <2>3 DEF Occurs
    <2> QED BY <1>1, <1>5, <2>1, <2>2, <2>3 DEF Occurs, OnceEach
  <1> QED BY <1>1, <1>4, <1>5, <1>6 DEF Occurs

\* A piece of a list.
LEMMA Piece ==
    ASSUME NEW S, NEW q \in Seq(S), NEW m \in Nat, NEW n \in Nat, m >= 1, n <= Len(q),
           NEW p, p = SubSeq(q, m, n)
    PROVE  /\ p \in Seq(S)
           /\ \A x : Occurs(x, p) <=> OccursIn(x, q, m, n)
           /\ \A x : Occurs(x, p) => Occurs(x, q)
           /\ OnceEach(q) => OnceEach(p)
  <1>1. Len(q) \in Nat /\ \A i \in 1..Len(q) : q[i] \in S
    BY LenProperties, ElementOfSeq
  <1>2. \A i \in m..n : i \in 1..Len(q) /\ q[i] \in S
    BY <1>1
  <1>3. /\ p \in Seq(S) /\ Len(p) = IF m <= n THEN n - m + 1 ELSE 0
        /\ \A i \in 1..(n - m + 1) : p[i] = q[m + i - 1]
    BY <1>2, SubSeqProperties
  <1>4. ASSUME NEW i \in 1..Len(p)
        PROVE  m + i - 1 \in m..n /\ p[i] = q[m + i - 1] /\ i \in Nat
    <2>1. i \in 1..(n - m + 1) /\ i \in Nat /\ m <= n
      BY <1>3
    <2> QED BY <1>3, <2>1
  <1>5. ASSUME NEW j \in m..n PROVE j - m + 1 \in 1..Len(p) /\ p[j - m + 1] = q[j]
    <2>1. j - m + 1 \in 1..(n - m + 1) /\ Len(p) = n - m + 1 /\ m + (j - m + 1) - 1 = j
      BY <1>3
    <2> QED BY <1>3, <2>1
  <1>6. \A x : Occurs(x, p) <=> OccursIn(x, q, m, n)
    <2> USE DEF OccursIn
    <2> TAKE x
    <2>1. ASSUME Occurs(x, p) PROVE \E i \in m..n : q[i] = x
      BY <1>4, <2>1 DEF Occurs
    <2>2. ASSUME NEW i \in m..n, q[i] = x PROVE Occurs(x, p)
      BY <1>5, <2>2 DEF Occurs
    <2> QED BY <2>1, <2>2
  <1>7. \A x : Occurs(x, p) => Occurs(x, q)
    BY <1>2, <1>6 DEF Occurs, OccursIn
  <1>8. ASSUME OnceEach(q), NEW i \in 1..Len(p), NEW j \in 1..Len(p), p[i] = p[j]
        PROVE  i = j
    <2>1. m + i - 1 = m + j - 1
      BY <1>2, <1>4, <1>8 DEF OnceEach
    <2> QED BY <1>4, <2>1
  <1> QED BY <1>3, <1>6, <1>7, <1>8 DEF OnceEach

\* The two parts of a list without repetitions have nothing in common.
Upto(q, u) == SubSeq(q, 1, u)
Beyond(q, u)  == SubSeq(q, u + 1, Len(q))
LEMMA TwoParts ==
    ASSUME NEW S, NEW q \in Seq(S), OnceEach(q), NEW u \in 0..Len(q)
    PROVE  /\ Upto(q, u) \in Seq(S) /\ Beyond(q, u) \in Seq(S)
           /\ OnceEach(Upto(q, u)) /\ OnceEach(Beyond(q, u))
           /\ \A x : ~(Occurs(x, Upto(q, u)) /\ Occurs(x, Beyond(q, u)))
           /\ \A x : Occurs(x, q) <=> Occurs(x, Upto(q, u)) \/ Occurs(x, Beyond(q, u))
  <1> DEFINE a == Upto(q, u)
             b == Beyond(q, u)
  <1> USE DEF Upto, Beyond
  <1>1. Len(q) \in Nat /\ u \in Nat /\ u + 1 \in Nat /\ u <= Len(q)
    BY LenProperties
  <1>2. /\ a \in Seq(S) /\ OnceEach(a)
        /\ \A x : Occurs(x, a) <=> OccursIn(x, q, 1, u)
    <2> DEFINE m == 1
    <2>1. m \in Nat /\ m >= 1 /\ u \in Nat /\ u <= Len(q) /\ a = SubSeq(q, m, u)
      BY <1>1
    <2> HIDE DEF m
    <2>2. /\ a \in Seq(S) /\ OnceEach(a)
          /\ \A x : Occurs(x, a) <=> OccursIn(x, q, m, u)
      BY <2>1, Piece
    <2> QED BY <2>2 DEF m
  <1>3. /\ b \in Seq(S) /\ OnceEach(b)
        /\ \A x : Occurs(x, b) <=> OccursIn(x, q, u + 1, Len(q))
    <2> DEFINE m == u + 1
               n == Len(q)
    <2>1. m \in Nat /\ m >= 1 /\ n \in Nat /\ n <= Len(q) /\ b = SubSeq(q, m, n)
      BY <1>1
    <2> HIDE DEF m, n
    <2>2. /\ b \in Seq(S) /\ OnceEach(b)
          /\ \A x : Occurs(x, b) <=> OccursIn(x, q, m, n)
      BY <2>1, Piece
    <2> QED BY <2>2 DEF m, n
  <1>4. \A i \in 1..u, j \in (u + 1)..Len(q) : q[i] # q[j]
    <2> TAKE i \in 1..u, j \in (u + 1)..Len(q)
    <2>1. i \in 1..Len(q) /\ j \in 1..Len(q) /\ i # j
      BY <1>1
    <2> QED BY <2>1 DEF OnceEach
  <1>5. 1..Len(q) = (1..u) \cup ((u + 1)..Len(q))
    BY <1>1
  <1>6. \A x : Occurs(x, q) <=> Occurs(x, a) \/ Occurs(x, b)
    BY <1>2, <1>3, <1>5 DEF Occurs, OccursIn
  <1>7. \A x : ~(Occurs(x, a) /\ Occurs(x, b))
    BY <1>2, <1>3, <1>4 DEF OccursIn
  <1> QED BY <1>2, <1>3, <1>6, <1>7

\* A list without repetitions is as long as the set of its elements is large.
LEMMA CountedOnce ==
    ASSUME NEW S, NEW q \in Seq(S), OnceEach(q)
    PROVE  /\ \A x : x \in ToSet(q) <=> Occurs(x, q)
           /\ IsFiniteSet(ToSet(q)) /\ Cardinality(ToSet(q)) = Len(q)
  <1> DEFINE n == Len(q)
             f == [i \in 1..n |-> q[i]]
  <1>1. n \in Nat /\ DOMAIN q = 1..n
    BY LenProperties
  <1>2. \A x : x \in ToSet(q) <=> Occurs(x, q)
    BY <1>1 DEF ToSet, Occurs
  <1>3. f \in Bijection(1..n, ToSet(q))
    BY <1>1 DEF Bijection, Injection, Surjection, IsInjective, ToSet, OnceEach
  <1>4. ExistsBijection(1..n, ToSet(q))
    BY <1>3 DEF ExistsBijection
  <1> QED BY <1>1, <1>2, <1>4, FS_CountingElements, FS_NatBijection

--------------------------------------------------------------------------------
(* Folds.  A fold is defined by a recursive function on the subsets of a    *)
(* finite set, from which c takes one element after the other.             *)

\* c takes an element of every subset.
Picks(c, S) == \A s \in SUBSET S : s # {} => c[s] \in s

\* Induction along such a function: a property of {} that every subset inherits from
\* the one without the element taken is a property of all.
Inherits(T, S, c) == \A s \in SUBSET S : s # {} /\ s \ {c[s]} \in T => s \in T
LEMMA TakenInduction ==
    ASSUME NEW S, IsFiniteSet(S), NEW c, Picks(c, S), NEW T, {} \in T, Inherits(T, S, c)
    PROVE  SUBSET S \subseteq T
  <1> USE DEF Picks, Inherits
  <1> DEFINE bad == {s \in SUBSET S : s \notin T}
             sizes == {Cardinality(s) : s \in bad}
  <1> SUFFICES ASSUME bad # {} PROVE FALSE
    OBVIOUS
  <1>1. \A s \in SUBSET S : IsFiniteSet(s) /\ Cardinality(s) \in Nat
    BY FS_Subset, FS_CardinalityType
  <1>2. sizes \subseteq Nat /\ sizes # {}
    BY <1>1
  <1>3. PICK n \in sizes : \A m \in sizes : n <= m
    <2> HIDE DEF sizes
    <2> QED BY <1>2, Least
  <1>4. PICK s \in bad : Cardinality(s) = n
    OBVIOUS
  <1>5. s # {} /\ c[s] \in s /\ s \ {c[s]} \in SUBSET S
    OBVIOUS
  <1>6. Cardinality(s \ {c[s]}) = Cardinality(s) - 1
    BY <1>1, <1>5, FS_RemoveElement
  <1>7. s \ {c[s]} \in T
    <2>1. Cardinality(s) \in Nat /\ Cardinality(s \ {c[s]}) \in Nat
      BY <1>1, <1>5
    <2>2. ASSUME s \ {c[s]} \in bad PROVE FALSE
      <3>1. Cardinality(s \ {c[s]}) \in sizes
        BY <2>2
      <3>2. n <= Cardinality(s \ {c[s]})
        BY <1>3, <3>1
      <3> QED BY <1>4, <1>6, <2>1, <3>2
    <2> QED BY <1>5, <2>2
  <1> QED BY <1>4, <1>5, <1>7

\* What the recursion is: h applied to the value for the rest and the element taken.
Folds(g, S, base, c, h) ==
    \A s \in SUBSET S : g[s] = IF s = {} THEN base ELSE h[<<g[s \ {c[s]}], c[s]>>]

\* h does not leave X, and g follows h as long as it is in X.
Keeps(h, X, S) == \A x \in X, i \in S : h[<<x, i>>] \in X
Recurs(g, S, X, base, c, h) ==
    /\ g[{}] = base
    /\ \A s \in SUBSET S : s # {} /\ g[s \ {c[s]}] \in X => g[s] = h[<<g[s \ {c[s]}], c[s]>>]

\* There is such a function, with values in a set that h does not leave.
LEMMA FoldExists ==
    ASSUME NEW S, IsFiniteSet(S), NEW c, Picks(c, S), NEW X, NEW base \in X,
           NEW h, Keeps(h, X, S)
    PROVE  \E g \in [SUBSET S -> X] : Folds(g, S, base, c, h)
  <1> USE DEF Picks, Keeps
  <1> DEFINE upto(n) == {s \in SUBSET S : Cardinality(s) <= n}
             fits(g, n) == \A s \in upto(n) :
                 g[s] = IF s = {} THEN base ELSE h[<<g[s \ {c[s]}], c[s]>>]
             good(n) == \E g \in [SUBSET S -> X] : fits(g, n)
             bad == {n \in Nat : ~good(n)}
  <1>1. \A s \in SUBSET S : IsFiniteSet(s) /\ Cardinality(s) \in Nat /\ Cardinality(s) <= Cardinality(S)
    BY FS_Subset, FS_CardinalityType
  <1>2. Cardinality(S) \in Nat
    BY <1>1
  <1>3. good(0)
    <2> DEFINE g == [s \in SUBSET S |-> base]
    <2>1. \A s \in upto(0) : s = {}
      <3> SUFFICES ASSUME NEW s \in upto(0) PROVE s = {}
        OBVIOUS
      <3>1. IsFiniteSet(s) /\ Cardinality(s) = 0
        BY <1>1
      <3> QED BY <3>1, FS_EmptySet
    <2>2. g \in [SUBSET S -> X] /\ fits(g, 0)
      BY <2>1
    <2> QED BY <2>2
  <1>4. ASSUME NEW n \in Nat, good(n) PROVE good(n + 1)
    <2>1. PICK g \in [SUBSET S -> X] : fits(g, n)
      BY <1>4
    <2> DEFINE f == [s \in SUBSET S |-> IF s = {} THEN base ELSE h[<<g[s \ {c[s]}], c[s]>>]]
    <2>2. f \in [SUBSET S -> X]
      <3>1. ASSUME NEW s \in SUBSET S, s # {} PROVE h[<<g[s \ {c[s]}], c[s]>>] \in X
        <4>1. c[s] \in S /\ s \ {c[s]} \in SUBSET S
          BY <3>1
        <4> QED BY <4>1
      <3> QED BY <3>1
    <2>3. ASSUME NEW s \in upto(n + 1), s # {} PROVE f[s \ {c[s]}] = g[s \ {c[s]}]
      <3> DEFINE t == s \ {c[s]}
      <3>1. t \in SUBSET S /\ Cardinality(s) \in Nat /\ Cardinality(t) = Cardinality(s) - 1
        BY <1>1, <2>3, FS_RemoveElement
      <3>2. t \in upto(n)
        BY <3>1
      <3>3. g[t] = IF t = {} THEN base ELSE h[<<g[t \ {c[t]}], c[t]>>]
        BY <2>1, <3>2
      <3> HIDE DEF t
      <3>4. f[t] = g[t]
        BY <3>1, <3>3
      <3> QED BY <3>4 DEF t
    <2>4. fits(f, n + 1)
      <3> SUFFICES ASSUME NEW s \in upto(n + 1)
                   PROVE  f[s] = IF s = {} THEN base ELSE h[<<f[s \ {c[s]}], c[s]>>]
        OBVIOUS
      <3>1. f[s] = IF s = {} THEN base ELSE h[<<g[s \ {c[s]}], c[s]>>]
        OBVIOUS
      <3> QED BY <2>3, <3>1
    <2> QED BY <2>2, <2>4
  <1>5. good(Cardinality(S))
    <2> HIDE DEF good
    <2> SUFFICES ASSUME bad # {} PROVE FALSE
      BY <1>2
    <2>1. PICK n \in bad : \A m \in bad : n <= m
      <3>1. bad \subseteq Nat
        OBVIOUS
      <3> HIDE DEF bad
      <3> QED BY <3>1, Least
    <2>2. n # 0 /\ n \in Nat /\ ~good(n)
      BY <1>3
    <2>3. n - 1 \in Nat /\ (n - 1) + 1 = n /\ n - 1 \notin bad
      BY <2>1, <2>2
    <2> QED BY <1>4, <2>2, <2>3
  <1>6. PICK g \in [SUBSET S -> X] : fits(g, Cardinality(S))
    BY <1>5
  <1>7. Folds(g, S, base, c, h)
    BY <1>1, <1>6 DEF Folds
  <1> QED BY <1>7

\* A function that follows h wherever it is in X stays in X.
LEMMA FoldStays ==
    ASSUME NEW S, IsFiniteSet(S), NEW c, Picks(c, S), NEW X, NEW base \in X,
           NEW h, Keeps(h, X, S), NEW g, Recurs(g, S, X, base, c, h)
    PROVE  (\A s \in SUBSET S : g[s] \in X) /\ Folds(g, S, base, c, h)
  <1> USE DEF Picks, Keeps, Recurs
  <1> DEFINE T == {s \in SUBSET S : g[s] \in X}
  <1>1. {} \in T
    OBVIOUS
  <1>2. ASSUME NEW s \in SUBSET S, s # {}, s \ {c[s]} \in T PROVE s \in T
    <2>1. g[s] = h[<<g[s \ {c[s]}], c[s]>>] /\ g[s \ {c[s]}] \in X /\ c[s] \in S
      BY <1>2
    <2> QED BY <2>1
  <1>3. SUBSET S \subseteq T
    <2> HIDE DEF T
    <2>1. Picks(c, S) /\ Inherits(T, S, c)
      BY <1>2 DEF Inherits
    <2> HIDE DEF Picks
    <2> QED BY <1>1, <2>1, TakenInduction
  <1>4. \A s \in SUBSET S : g[s] \in X
    BY <1>3
  <1> QED BY <1>4 DEF Folds

\* The largest of some positions.
LEMMA LargestIn ==
    ASSUME NEW n \in Nat, NEW t \in SUBSET (1..n), t # {}
    PROVE  Max(t) \in t /\ \A y \in t : y <= Max(t)
  <1> DEFINE down == {n - x : x \in t}
  <1>1. down \subseteq Nat /\ down # {}
    OBVIOUS
  <1>2. PICK m \in down : \A d \in down : m <= d
    <2> HIDE DEF down
    <2> QED BY <1>1, Least
  <1>3. PICK x \in t : m = n - x
    OBVIOUS
  <1>4. \A y \in t : x >= y
    <2> TAKE y \in t
    <2>1. n - x <= n - y /\ x \in 1..n /\ y \in 1..n
      BY <1>2, <1>3
    <2> QED BY <2>1
  <1>5. \E z \in t : \A y \in t : z >= y
    BY <1>4
  <1>6. Max(t) \in t /\ \A y \in t : Max(t) >= y
    BY <1>5 DEF Max
  <1>7. Max(t) \in 1..n /\ \A y \in t : y \in 1..n
    BY <1>6
  <1> QED BY <1>6, <1>7

\* FoldLeft takes the positions of a list from the last one down, so that it is a
\* function of the positions up to k, which are all there are for every k.
LEMMA PrefixFold ==
    ASSUME NEW n \in Nat, NEW base, NEW h, NEW g,
           NEW c, \A s \in SUBSET (1..n) : c[s] = Max(s), Folds(g, 1..n, base, c, h)
    PROVE  g[1..0] = base /\ \A k \in 1..n : g[1..k] = h[<<g[1..(k - 1)], k>>]
  <1>1. 1..0 = {} /\ {} \in SUBSET (1..n)
    OBVIOUS
  <1>2. ASSUME NEW k \in 1..n PROVE g[1..k] = h[<<g[1..(k - 1)], k>>]
    <2>1. 1..k \in SUBSET (1..n) /\ k \in 1..k
      OBVIOUS
    <2>2. Max(1..k) = k
      <3>1. 1..k # {}
        BY <2>1
      <3>2. Max(1..k) \in 1..k /\ k <= Max(1..k)
        BY <2>1, <3>1, LargestIn
      <3> QED BY <3>2
    <2>3. c[1..k] = k
      BY <2>1, <2>2
    <2>4. (1..k) \ {k} = 1..(k - 1)
      OBVIOUS
    <2>5. 1..k # {}
      BY <2>1
    <2>6. g[1..k] = h[<<g[(1..k) \ {c[1..k]}], c[1..k]>>]
      BY <2>1, <2>5 DEF Folds
    <2> QED BY <2>3, <2>4, <2>6
  <1> QED BY <1>1, <1>2 DEF Folds

\* Induction up to n.
LEMMA UpTo ==
    ASSUME NEW n \in Nat, NEW T, 0 \in T, \A k \in 1..n : k - 1 \in T => k \in T
    PROVE  0..n \subseteq T
  <1> DEFINE bad == {k \in 0..n : k \notin T}
  <1> SUFFICES ASSUME bad # {} PROVE FALSE
    OBVIOUS
  <1>1. bad \subseteq Nat
    OBVIOUS
  <1>2. PICK k \in bad : \A m \in bad : k <= m
    <2> HIDE DEF bad
    <2> QED BY <1>1, Least
  <1>3. k \in 1..n /\ k - 1 \in 0..n /\ ~(k <= k - 1)
    BY <1>2
  <1>4. k - 1 \in T
    BY <1>2, <1>3
  <1> QED BY <1>2, <1>3, <1>4

\* What Kept keeps: the elements in S and their order, in a list that is no longer.
LEMMA KeptProperties ==
    ASSUME NEW X, NEW s \in Seq(X), NEW S
    PROVE  /\ Kept(s, S) \in Seq(X) /\ Len(Kept(s, S)) <= Len(s)
           /\ \A x : Occurs(x, Kept(s, S)) <=> Occurs(x, s) /\ x \in S
           /\ OnceEach(s) => OnceEach(Kept(s, S))
           /\ \A x, y \in S : Precedes(x, y, s) => Precedes(x, y, Kept(s, S))
  <1> DEFINE n == Len(s)
             D == DOMAIN s
             c == [t \in SUBSET D |-> Max(t)]
             none == <<>>
             h == [y \in Seq(X) \X D |->
                    IF s[y[2]] \in S THEN Append(y[1], s[y[2]]) ELSE y[1]]
             iter == CHOOSE it : it = [t \in SUBSET D |->
                        IF t = {} THEN <<>>
                        ELSE IF s[Max(t)] \in S THEN Append(it[t \ {Max(t)}], s[Max(t)])
                             ELSE it[t \ {Max(t)}]]
  <1>1. n \in Nat /\ D = 1..n /\ IsFiniteSet(D) /\ \A i \in D : s[i] \in X
    BY LenProperties, ElementOfSeq, FS_Interval
  <1>2. Kept(s, S) = iter[D]
    BY DEF Kept, FoldLeft, MapThenFoldSet
  <1>3. \A t \in SUBSET D : t # {} => c[t] \in t /\ c[t] = Max(t)
    <2> HIDE DEF n, D
    <2>1. ASSUME NEW t \in SUBSET D, t # {} PROVE Max(t) \in t
      BY <1>1, <2>1, LargestIn
    <2> QED BY <2>1
  <1> HIDE DEF D
  <1>4. \A x \in Seq(X), i \in D : /\ h[<<x, i>>] \in Seq(X)
                                   /\ h[<<x, i>>] = IF s[i] \in S THEN Append(x, s[i]) ELSE x
    BY <1>1
  <1>5. none \in Seq(X) /\ none = <<>>
    OBVIOUS
  <1> HIDE DEF n, c, h, none
  <1>6. PICK g \in [SUBSET D -> Seq(X)] : Folds(g, D, none, c, h)
    BY <1>1, <1>3, <1>4, <1>5, FoldExists DEF Picks, Keeps
  <1>7. g = [t \in SUBSET D |->
                IF t = {} THEN <<>>
                ELSE IF s[Max(t)] \in S THEN Append(g[t \ {Max(t)}], s[Max(t)])
                     ELSE g[t \ {Max(t)}]]
    <2>1. ASSUME NEW t \in SUBSET D
          PROVE  g[t] = IF t = {} THEN <<>>
                        ELSE IF s[Max(t)] \in S THEN Append(g[t \ {Max(t)}], s[Max(t)])
                             ELSE g[t \ {Max(t)}]
      <3>1. CASE t = {}
        BY <3>1, <1>5, <1>6 DEF Folds
      <3>2. CASE t # {}
        <4>1. /\ c[t] = Max(t) /\ Max(t) \in D /\ t \ {Max(t)} \in SUBSET D
              /\ g[t \ {Max(t)}] \in Seq(X)
          BY <1>3, <1>6, <3>2
        <4>2. g[t] = h[<<g[t \ {c[t]}], c[t]>>]
          BY <1>6, <3>2 DEF Folds
        <4> QED BY <1>4, <3>2, <4>1, <4>2
      <3> QED BY <3>1, <3>2
    <2> QED BY <2>1
  <1>8. iter = [t \in SUBSET D |->
                IF t = {} THEN <<>>
                ELSE IF s[Max(t)] \in S THEN Append(iter[t \ {Max(t)}], s[Max(t)])
                     ELSE iter[t \ {Max(t)}]]
    BY <1>7
  <1> HIDE DEF iter
  <1>9. iter[{}] = none /\ \A t \in SUBSET D : t # {} /\ iter[t \ {c[t]}] \in Seq(X) =>
                iter[t] = h[<<iter[t \ {c[t]}], c[t]>>]
    <2>1. iter[{}] = none
      BY <1>5, <1>8
    <2>2. ASSUME NEW t \in SUBSET D, t # {}, iter[t \ {c[t]}] \in Seq(X)
          PROVE  iter[t] = h[<<iter[t \ {c[t]}], c[t]>>]
      <3>1. c[t] = Max(t) /\ c[t] \in D
        BY <1>3, <2>2
      <3>2. iter[t] = IF s[c[t]] \in S THEN Append(iter[t \ {c[t]}], s[c[t]]) ELSE iter[t \ {c[t]}]
        BY <1>8, <2>2, <3>1
      <3> DEFINE v == iter[t \ {c[t]}]
                 i == c[t]
      <3>3. v \in Seq(X) /\ i \in D /\ iter[t] = IF s[i] \in S THEN Append(v, s[i]) ELSE v
        BY <2>2, <3>1, <3>2
      <3> HIDE DEF v, i
      <3>4. iter[t] = h[<<v, i>>]
        BY <1>4, <3>3
      <3> QED BY <3>4 DEF v, i
    <2> QED BY <2>1, <2>2
  <1>10. (\A t \in SUBSET D : iter[t] \in Seq(X)) /\ Folds(iter, D, none, c, h)
    <2>1. Picks(c, D) /\ Keeps(h, Seq(X), D)
      BY <1>3, <1>4 DEF Picks, Keeps
    <2>2. Recurs(iter, D, Seq(X), none, c, h)
      BY <1>9 DEF Recurs
    <2> QED BY <1>1, <1>5, <2>1, <2>2, FoldStays
  <1>11. iter[1..0] = none /\ \A k \in 1..n : iter[1..k] = h[<<iter[1..(k - 1)], k>>]
    <2>1. \A t \in SUBSET (1..n) : c[t] = Max(t)
      BY <1>1 DEF c
    <2>2. n \in Nat /\ Folds(iter, 1..n, none, c, h)
      BY <1>1, <1>10
    <2> QED BY <2>1, <2>2, PrefixFold
  <1> DEFINE K(k) == iter[1..k]
             Ordered(k) == \A x, y \in S :
                (\E i, j \in 1..k : i < j /\ s[i] = x /\ s[j] = y) => Precedes(x, y, K(k))
             Good(k) == /\ K(k) \in Seq(X) /\ Len(K(k)) <= k
                        /\ \A x : Occurs(x, K(k)) <=> x \in S /\ \E i \in 1..k : s[i] = x
                        /\ OnceEach(s) => OnceEach(K(k))
                        /\ Ordered(k)
  <1>12. Good(0)
    <2>1. K(0) = <<>> /\ 1..0 = {}
      BY <1>5, <1>11
    <2> QED BY <2>1 DEF Occurs, OnceEach
  <1>13. ASSUME NEW k \in 1..n, Good(k - 1) PROVE Good(k)
    <2>1. K(k) = IF s[k] \in S THEN Append(K(k - 1), s[k]) ELSE K(k - 1)
      <3>1. k \in D /\ K(k - 1) \in Seq(X) /\ K(k) = h[<<K(k - 1), k>>]
        BY <1>1, <1>11, <1>13
      <3> HIDE DEF K
      <3> QED BY <1>4, <3>1
    <2>2. s[k] \in X /\ k - 1 \in Nat /\ 1..k = (1..(k - 1)) \cup {k} /\ k \notin 1..(k - 1)
      BY <1>1
    <2> DEFINE q == K(k - 1)
               p == K(k)
    <2>3. q \in Seq(X) /\ Len(q) \in Nat /\ Len(q) <= k - 1
      BY <1>13, LenProperties
    <2>4. \A x : Occurs(x, q) <=> x \in S /\ \E i \in 1..(k - 1) : s[i] = x
      BY <1>13
    <2>5. OnceEach(s) => OnceEach(q)
      BY <1>13
    <2>6. p = IF s[k] \in S THEN Append(q, s[k]) ELSE q
      BY <2>1
    <2> HIDE DEF K
    <2>7. CASE s[k] \notin S
      <3>1. p = q
        BY <2>6, <2>7
      <3>2. ASSUME NEW x \in S, NEW y \in S, NEW i \in 1..k, NEW j \in 1..k, i < j, s[i] = x, s[j] = y
            PROVE  Precedes(x, y, p)
        <4>1. i \in 1..(k - 1) /\ j \in 1..(k - 1)
          BY <2>2, <2>7, <3>2
        <4> QED BY <1>13, <3>1, <3>2, <4>1
      <3>3. Ordered(k)
        BY <3>2
      <3> HIDE DEF Ordered
      <3> QED BY <2>2, <2>3, <2>4, <2>5, <2>7, <3>1, <3>3
    <2>8. CASE s[k] \in S
      <3> HIDE DEF p, q
      <3>1. p \in Seq(X) /\ Len(p) = Len(q) + 1
        BY <2>2, <2>3, <2>6, <2>8
      <3>2. /\ \A i \in 1..Len(q) : p[i] = q[i]
            /\ p[Len(q) + 1] = s[k] /\ 1..Len(p) = (1..Len(q)) \cup {Len(q) + 1}
        BY <2>2, <2>3, <2>6, <2>8, <3>1
      <3>3. \A x : Occurs(x, p) <=> Occurs(x, q) \/ x = s[k]
        BY <3>2 DEF Occurs
      <3>4. ASSUME OnceEach(s) PROVE OnceEach(p)
        <4>1. ~Occurs(s[k], q)
          <5>1. ASSUME NEW i \in 1..(k - 1), s[i] = s[k] PROVE FALSE
            <6>1. i \in 1..n /\ k \in 1..n /\ i # k
              BY <1>1, <2>2
            <6> QED BY <3>4, <5>1, <6>1 DEF OnceEach, n
          <5> QED BY <2>4, <5>1
        <4> QED BY <2>3, <2>5, <3>2, <3>4, <4>1 DEF Occurs, OnceEach
      <3>5. ASSUME NEW x \in S, NEW y \in S, NEW i \in 1..k, NEW j \in 1..k, i < j, s[i] = x, s[j] = y
            PROVE  Precedes(x, y, p)
        <4>1. i \in 1..(k - 1)
          BY <2>2, <3>5
        <4>2. CASE j = k
          <5>1. Occurs(x, q)
            BY <2>4, <3>5, <4>1
          <5>2. PICK l \in 1..Len(q) : q[l] = x
            BY <5>1 DEF Occurs
          <5>3. /\ l \in 1..Len(p) /\ Len(q) + 1 \in 1..Len(p) /\ l < Len(q) + 1
                /\ p[l] = x /\ p[Len(q) + 1] = y
            BY <2>3, <3>1, <3>2, <3>5, <4>2, <5>2
          <5> QED BY <5>3 DEF Precedes
        <4>3. CASE j # k
          <5>1. Precedes(x, y, q)
            <6>1. Ordered(k - 1) /\ j \in 1..(k - 1)
              BY <1>13, <2>2, <3>5, <4>3
            <6> QED BY <3>5, <4>1, <6>1 DEF q
          <5>2. PICK l \in 1..Len(q), m \in 1..Len(q) : l < m /\ q[l] = x /\ q[m] = y
            BY <5>1 DEF Precedes
          <5>3. l \in 1..Len(p) /\ m \in 1..Len(p) /\ p[l] = x /\ p[m] = y
            BY <3>2, <5>2
          <5> QED BY <5>2, <5>3 DEF Precedes
        <4> QED BY <4>2, <4>3
      <3>6. Ordered(k)
        BY <3>5 DEF p
      <3> HIDE DEF Ordered
      <3> QED BY <2>2, <2>3, <2>4, <2>8, <3>1, <3>3, <3>4, <3>6 DEF p
    <2> QED BY <2>7, <2>8
  <1>14. Good(n)
    <2> DEFINE T == {k \in 0..n : Good(k)}
    <2> HIDE DEF Good
    <2>1. 0 \in T /\ \A k \in 1..n : k - 1 \in T => k \in T
      BY <1>1, <1>12, <1>13
    <2> HIDE DEF T
    <2>2. 0..n \subseteq T
      BY <1>1, <2>1, UpTo
    <2> QED BY <1>1, <2>2 DEF T
  <1>15. K(n) = Kept(s, S)
    BY <1>1, <1>2
  <1> HIDE DEF K
  <1>16. \A x : Occurs(x, Kept(s, S)) <=> x \in S /\ Occurs(x, s)
    BY <1>14, <1>15 DEF Occurs, n
  <1>17. \A x, y \in S : Precedes(x, y, s) => Precedes(x, y, Kept(s, S))
    <2> SUFFICES ASSUME NEW x \in S, NEW y \in S, Precedes(x, y, s) PROVE Precedes(x, y, Kept(s, S))
      OBVIOUS
    <2>1. \E i, j \in 1..n : i < j /\ s[i] = x /\ s[j] = y
      BY DEF Precedes, n
    <2>2. Ordered(n)
      BY <1>14
    <2> QED BY <1>15, <2>1, <2>2
  <1>18. Kept(s, S) \in Seq(X) /\ Len(Kept(s, S)) <= Len(s) /\ (OnceEach(s) => OnceEach(Kept(s, S)))
    BY <1>14, <1>15 DEF n
  <1> QED BY <1>16, <1>17, <1>18

--------------------------------------------------------------------------------

\* A finite set as a list: its elements, each of them once.
LEMMA SetListed ==
    ASSUME NEW S, IsFiniteSet(S), NEW q, q = SetToSeq(S)
    PROVE  /\ q \in Seq(S) /\ Len(q) = Cardinality(S) /\ OnceEach(q)
           /\ \A x : Occurs(x, q) <=> x \in S
  <1> DEFINE n == Cardinality(S)
  <1>1. n \in Nat /\ ExistsBijection(1..n, S)
    BY FS_CardinalityType
  <1>2. \E f \in [1..n -> S] : IsInjective(f)
    <2>1. PICK f : f \in Bijection(1..n, S)
      BY <1>1 DEF ExistsBijection
    <2>2. f \in Injection(1..n, S)
      BY <2>1 DEF Bijection
    <2> QED BY <2>2 DEF Injection
  <1>3. q \in [1..n -> S] /\ IsInjective(q)
    BY <1>2 DEF SetToSeq
  <1>4. q \in Seq(S) /\ Len(q) = n /\ DOMAIN q = 1..n
    BY <1>1, <1>3
  <1>5. OnceEach(q)
    BY <1>3, <1>4 DEF IsInjective, OnceEach
  <1>6. q \in Surjection(1..n, S)
    <2>1. q \in Injection(1..n, S)
      BY <1>3 DEF Injection
    <2>2. Cardinality(1..n) = n
      BY <1>1, FS_Interval
    <2> QED BY <2>1, <2>2, FS_Injection
  <1>7. \A x : Occurs(x, q) <=> x \in S
    <2>1. \A x \in S : \E k \in 1..n : q[k] = x
      BY <1>6 DEF Surjection
    <2>2. \A k \in 1..n : q[k] \in S
      BY <1>3
    <2> QED BY <1>4, <2>1, <2>2 DEF Occurs
  <1> QED BY <1>4, <1>5, <1>7

\* A list of consecutive numbers in their order has every number in its place.
LEMMA InItsPlace ==
    ASSUME NEW a \in Nat, NEW b \in Int, NEW q \in Seq(Nat), OnceEach(q),
           \A x : Occurs(x, q) <=> x \in a..b,
           \A x, y \in a..b : x < y => Precedes(x, y, q)
    PROVE  \A x \in a..b : q[x - a + 1] = x
  <1> DEFINE n == Len(q)
             T == {j \in 0..n : \A m \in 1..j : q[m] = a + m - 1}
  <1>1. n \in Nat /\ \A m \in 1..n : q[m] \in a..b
    BY LenProperties DEF Occurs
  <1>2. \A k, m \in 1..n : q[k] = q[m] => k = m
    BY DEF OnceEach
  <1> HIDE DEF n
  <1>3. ASSUME NEW j \in 1..n, j - 1 \in T PROVE j \in T
    <2> DEFINE y == q[j]  z == a + j - 1
    <2>1. y \in a..b /\ z \in Nat /\ \A m \in 1..(j - 1) : q[m] = a + m - 1
      BY <1>1, <1>3
    <2>2. ~(y < z)
      <3> SUFFICES ASSUME y < z PROVE FALSE
        OBVIOUS
      <3> DEFINE m == y - a + 1
      <3>1. m \in 1..(j - 1) /\ a + m - 1 = y
        BY <2>1
      <3> HIDE DEF m
      <3>2. q[m] = y
        BY <2>1, <3>1
      <3>3. m \in 1..n /\ m # j
        BY <1>1, <3>1
      <3> QED BY <1>2, <3>2, <3>3
    <2>3. ~(z < y)
      <3> SUFFICES ASSUME z < y PROVE FALSE
        OBVIOUS
      <3>1. z \in a..b
        BY <2>1
      <3>2. Precedes(z, y, q)
        BY <2>1, <3>1
      <3>3. PICK k, m \in 1..n : k < m /\ q[k] = z /\ q[m] = y
        BY <3>2 DEF Precedes, n
      <3>4. m = j
        BY <1>2, <3>3
      <3>5. k \in 1..(j - 1)
        BY <3>3, <3>4
      <3>6. q[k] = a + k - 1
        BY <2>1, <3>5
      <3> QED BY <3>3, <3>5, <3>6
    <2>4. y = z
      BY <2>1, <2>2, <2>3
    <2>5. \A m \in 1..j : m \in 1..(j - 1) \/ m = j
      OBVIOUS
    <2> QED BY <2>1, <2>4, <2>5
  <1>4. 0 \in T
    BY <1>1
  <1>5. n \in T
    <2> HIDE DEF T
    <2>1. 0..n \subseteq T
      BY <1>1, <1>3, <1>4, UpTo
    <2> QED BY <1>1, <2>1
  <1> SUFFICES ASSUME NEW x \in a..b PROVE q[x - a + 1] = x
    OBVIOUS
  <1>6. PICK m \in 1..n : q[m] = x
    BY DEF Occurs, n
  <1>7. x = a + m - 1
    BY <1>5, <1>6
  <1> QED BY <1>6, <1>7

--------------------------------------------------------------------------------
\* A list with one element more.
LEMMA Appended ==
    ASSUME NEW S, NEW s \in Seq(S), NEW y \in S, NEW p, p = Append(s, y)
    PROVE  /\ p \in Seq(S) /\ p # <<>> /\ Len(p) = Len(s) + 1 /\ p[Len(s) + 1] = y
           /\ \A k \in 1 .. Len(s) : p[k] = s[k]
  BY AppendProperties

\* A list that loses its first element and gets a last one.
LEMMA Aged ==
    ASSUME NEW S, NEW s \in Seq(S), s # <<>>, NEW y \in S, NEW p, p = Append(Tail(s), y)
    PROVE  /\ p \in Seq(S) /\ p # <<>> /\ Len(p) = Len(s) /\ p[Len(s)] = y
           /\ \A k \in 1 .. Len(s) - 1 : p[k] = s[k + 1]
  <1> DEFINE t == Tail(s)
  <1>1. t \in Seq(S) /\ Len(t) = Len(s) - 1 /\ \A k \in 1 .. Len(t) : t[k] = s[k + 1]
    BY HeadTailProperties
  <1>2. Len(s) \in Nat /\ p = Append(t, y)
    BY LenProperties
  <1> HIDE DEF t
  <1>3. /\ p \in Seq(S) /\ p # <<>> /\ Len(p) = Len(t) + 1 /\ p[Len(t) + 1] = y
        /\ \A k \in 1 .. Len(t) : p[k] = t[k]
    BY <1>1, <1>2, Appended
  <1> QED BY <1>1, <1>2, <1>3

\* A recursion on the numbers up to n defines a function.
Iterated(g, n, base, h) == g[0] = base /\ \A k \in 1 .. n : g[k] = h[<<g[k - 1], k>>]
LEMMA Iterates ==
    ASSUME NEW n \in Nat, NEW X, NEW base \in X, NEW h, Keeps(h, X, 1 .. n)
    PROVE  \E g \in [0 .. n -> X] : Iterated(g, n, base, h)
  <1> USE DEF Keeps, Iterated
  <1> DEFINE Good(m) == \E g \in [0 .. m -> X] :
                           g[0] = base /\ \A k \in 1 .. m : g[k] = h[<<g[k - 1], k>>]
             T == {m \in 0 .. n : Good(m)}
  <1>1. 0 \in T
    <2> DEFINE g == [i \in 0 .. 0 |-> base]
    <2>1. g \in [0 .. 0 -> X] /\ g[0] = base /\ \A k \in 1 .. 0 : g[k] = h[<<g[k - 1], k>>]
      OBVIOUS
    <2>2. Good(0)
      <3> HIDE DEF g
      <3> QED BY <2>1
    <2> QED BY <2>2
  <1>2. ASSUME NEW m \in 1 .. n, m - 1 \in T PROVE m \in T
    <2>1. PICK g \in [0 .. m - 1 -> X] :
              g[0] = base /\ \A k \in 1 .. m - 1 : g[k] = h[<<g[k - 1], k>>]
      BY <1>2
    <2> DEFINE f == [k \in 0 .. m |-> IF k = m THEN h[<<g[m - 1], m>>] ELSE g[k]]
    <2>2. m - 1 \in 0 .. m - 1 /\ g[m - 1] \in X /\ h[<<g[m - 1], m>>] \in X
      BY <1>2, <2>1
    <2>3. f \in [0 .. m -> X]
      BY <2>1, <2>2
    <2>4. f[0] = base
      BY <1>2, <2>1
    <2>5. ASSUME NEW k \in 1 .. m PROVE f[k] = h[<<f[k - 1], k>>]
      <3>1. k \in 0 .. m /\ k - 1 \in 0 .. m /\ k - 1 # m /\ f[k - 1] = g[k - 1]
        BY <1>2
      <3>2. CASE k = m
        BY <3>1, <3>2
      <3>3. CASE k # m
        <4>1. k \in 1 .. m - 1 /\ f[k] = g[k]
          BY <1>2, <3>1, <3>3
        <4> QED BY <2>1, <3>1, <4>1
      <3> QED BY <3>2, <3>3
    <2> HIDE DEF f
    <2> QED BY <1>2, <2>3, <2>4, <2>5
  <1>3. 0 .. n \subseteq T
    <2> HIDE DEF T
    <2> QED BY <1>1, <1>2, UpTo
  <1> QED BY <1>3

--------------------------------------------------------------------------------
\* The buckets of a queue, one after the other: f[k] is what the first k hold.
Buckets(X, q, f) ==
    /\ f[1] = q[1]
    /\ \A k \in 1 .. Len(q) : f[k] \in Seq(X)
    /\ \A k \in 2 .. Len(q) : f[k] = f[k - 1] \o q[k]

LEMMA Flattened ==
    ASSUME NEW X, NEW q \in Seq(Seq(X)), q # <<>>
    PROVE  \E f : Buckets(X, q, f) /\ FlattenSeq(q) = f[Len(q)]
  <1> DEFINE n == Len(q)
             none == <<>>
             h == [y \in Seq(X) \X (1 .. n) |-> y[1] \o q[y[2]]]
             F == CHOOSE f : f = [i \in 1 .. n |-> IF i = 1 THEN q[i] ELSE f[i - 1] \o q[i]]
  <1>1. n \in Nat /\ n > 0 /\ \A k \in 1 .. n : q[k] \in Seq(X)
    BY LenProperties, EmptySeq, ElementOfSeq
  <1>2. FlattenSeq(q) = F[n]
    BY <1>1 DEF FlattenSeq
  <1>3. none \in Seq(X) /\ none = <<>>
    OBVIOUS
  <1>4. \A x \in Seq(X), k \in 1 .. n : h[<<x, k>>] = x \o q[k] /\ h[<<x, k>>] \in Seq(X)
    <2> TAKE x \in Seq(X), k \in 1 .. n
    <2>1. x \o q[k] \in Seq(X)
      BY <1>1, ConcatProperties
    <2> QED BY <2>1
  <1> HIDE DEF n, h, none
  <1>5. PICK g \in [0 .. n -> Seq(X)] :
            g[0] = none /\ \A k \in 1 .. n : g[k] = h[<<g[k - 1], k>>]
    <2>1. Keeps(h, Seq(X), 1 .. n)
      BY <1>4 DEF Keeps
    <2>2. \E g \in [0 .. n -> Seq(X)] : Iterated(g, n, none, h)
      BY <1>1, <1>3, <2>1, Iterates
    <2> QED BY <2>2 DEF Iterated
  <1>6. \A k \in 1 .. n : g[k] \in Seq(X) /\ g[k] = g[k - 1] \o q[k]
    <2> TAKE k \in 1 .. n
    <2>1. k - 1 \in 0 .. n /\ k \in 0 .. n /\ g[k - 1] \in Seq(X)
      BY <1>1, <1>5
    <2> QED BY <1>4, <1>5, <2>1
  <1>7. g[1] = q[1]
    <2>1. 1 \in 1 .. n /\ 1 - 1 = 0
      BY <1>1
    <2>2. q[1] \in Seq(X) /\ g[1] = <<>> \o q[1]
      BY <1>1, <1>3, <1>5, <1>6, <2>1
    <2> QED BY <2>2, ConcatEmptySeq
  <1> DEFINE f == [i \in 1 .. n |-> g[i]]
  <1>8. f = [i \in 1 .. n |-> IF i = 1 THEN q[i] ELSE f[i - 1] \o q[i]]
    <2>1. ASSUME NEW i \in 1 .. n PROVE f[i] = IF i = 1 THEN q[i] ELSE f[i - 1] \o q[i]
      <3>1. CASE i = 1
        BY <1>7, <3>1
      <3>2. CASE i # 1
        <4>1. i - 1 \in 1 .. n /\ f[i - 1] = g[i - 1]
          BY <1>1, <3>2
        <4> QED BY <1>6, <3>2, <4>1
      <3> QED BY <3>1, <3>2
    <2> QED BY <2>1
  <1>9. F = [i \in 1 .. n |-> IF i = 1 THEN q[i] ELSE F[i - 1] \o q[i]]
    <2> HIDE DEF f
    <2> QED BY <1>8
  <1> HIDE DEF F, f
  <1>10. F[1] = q[1] /\ \A k \in 2 .. n : F[k] = F[k - 1] \o q[k]
    <2>1. 1 \in 1 .. n
      BY <1>1
    <2>2. ASSUME NEW k \in 2 .. n PROVE F[k] = F[k - 1] \o q[k]
      <3>1. k \in 1 .. n /\ k # 1
        BY <1>1
      <3> QED BY <1>9, <3>1
    <2>3. F[1] = q[1]
      BY <1>9, <2>1
    <2> QED BY <2>2, <2>3
  <1>11. \A k \in 1 .. n : F[k] \in Seq(X)
    <2> DEFINE T == {k \in 0 .. n : k > 0 => F[k] \in Seq(X)}
    <2>1. 0 \in T
      BY <1>1
    <2>2. ASSUME NEW k \in 1 .. n, k - 1 \in T PROVE k \in T
      <3>1. CASE k = 1
        BY <1>1, <1>10, <3>1
      <3>2. CASE k # 1
        <4>1. k \in 2 .. n /\ k - 1 > 0 /\ F[k - 1] \in Seq(X) /\ q[k] \in Seq(X)
          BY <1>1, <2>2, <3>2
        <4>2. F[k] = F[k - 1] \o q[k]
          BY <1>10, <4>1
        <4>3. F[k] \in Seq(X)
          BY <4>1, <4>2, ConcatProperties
        <4> QED BY <2>2, <4>3
      <3> QED BY <3>1, <3>2
    <2>3. 0 .. n \subseteq T
      <3> HIDE DEF T
      <3> QED BY <1>1, <2>1, <2>2, UpTo
    <2> QED BY <1>1, <2>3
  <1> QED BY <1>2, <1>10, <1>11 DEF Buckets, n

\* The list of all entries is made of these.
LEMMA FlatIsSeq ==
    ASSUME NEW X, NEW q \in Seq(Seq(X)), q # <<>>
    PROVE  FlattenSeq(q) \in Seq(X)
  <1>1. PICK f : Buckets(X, q, f) /\ FlattenSeq(q) = f[Len(q)]
    BY Flattened
  <1>2. Len(q) \in 1 .. Len(q)
    BY LenProperties, EmptySeq
  <1> QED BY <1>1, <1>2 DEF Buckets

\* Two queues whose buckets hold the same as far as k hold the same in the first k.
AgreeUpto(q, p, m) == \A k \in 1 .. m : q[k] = p[k]
SameFront(X, q, p, f, g, m) ==
    /\ q \in Seq(Seq(X)) /\ p \in Seq(Seq(X)) /\ Buckets(X, q, f) /\ Buckets(X, p, g)
    /\ m \in Nat /\ m <= Len(q) /\ m <= Len(p) /\ AgreeUpto(q, p, m)
LEMMA SameBuckets ==
    ASSUME NEW X, NEW q, NEW p, NEW f, NEW g, NEW m, SameFront(X, q, p, f, g, m)
    PROVE  AgreeUpto(f, g, m)
  <1> USE DEF AgreeUpto, SameFront
  <1> DEFINE T == {k \in 0 .. m : k > 0 => f[k] = g[k]}
  <1>0. Len(q) \in Nat /\ Len(p) \in Nat
    BY LenProperties
  <1>1. 0 \in T
    OBVIOUS
  <1>2. ASSUME NEW k \in 1 .. m, k - 1 \in T PROVE k \in T
    <2>1. CASE k = 1
      BY <1>2, <2>1 DEF Buckets
    <2>2. CASE k # 1
      <3>1. k \in 2 .. Len(q) /\ k \in 2 .. Len(p) /\ f[k - 1] = g[k - 1] /\ q[k] = p[k]
        BY <1>0, <1>2, <2>2
      <3>2. f[k] = f[k - 1] \o q[k] /\ g[k] = g[k - 1] \o p[k]
        BY <3>1 DEF Buckets
      <3>3. f[k] = g[k]
        BY <3>1, <3>2
      <3> QED BY <1>2, <3>3
    <2> QED BY <2>1, <2>2
  <1>3. 0 .. m \subseteq T
    <2> HIDE DEF T
    <2> QED BY <1>1, <1>2, UpTo
  <1> QED BY <1>3
\* An entry is put into the last bucket.
LastGrows(X, q, p, x) ==
    /\ q \in Seq(Seq(X)) /\ q # <<>> /\ x \in X
    /\ p = [q EXCEPT ![Len(q)] = Append(@, x)]
OneLonger(X, q, p, x) == p \in Seq(Seq(X)) /\ p # <<>> /\ FlattenSeq(p) = Append(FlattenSeq(q), x)

LEMMA FlatAppend ==
    ASSUME NEW X, NEW q, NEW x, NEW p, LastGrows(X, q, p, x)
    PROVE  OneLonger(X, q, p, x)
  <1> SUFFICES ASSUME q \in Seq(Seq(X)), q # <<>>, x \in X, p = [q EXCEPT ![Len(q)] = Append(@, x)]
               PROVE  p \in Seq(Seq(X)) /\ p # <<>> /\ FlattenSeq(p) = Append(FlattenSeq(q), x)
    BY DEF LastGrows, OneLonger
  <1> DEFINE n == Len(q)
  <1>1. n \in Nat /\ n > 0 /\ q[n] \in Seq(X) /\ n \in 1 .. n
    BY LenProperties, EmptySeq, ElementOfSeq
  <1>2. Append(q[n], x) \in Seq(X) /\ p[n] = Append(q[n], x)
    BY <1>1
  <1>3. p \in Seq(Seq(X)) /\ Len(p) = n /\ p # <<>> /\ \A k \in 1 .. n - 1 : p[k] = q[k]
    BY <1>1, <1>2
  <1>4. PICK f : Buckets(X, q, f) /\ FlattenSeq(q) = f[n]
    BY Flattened
  <1>5. PICK g : Buckets(X, p, g) /\ FlattenSeq(p) = g[Len(p)]
    BY <1>3, Flattened
  <1>8. FlattenSeq(q) = f[n] /\ FlattenSeq(p) = g[n] /\ f[1] = q[1] /\ g[1] = p[1]
    BY <1>3, <1>4, <1>5 DEF Buckets
  <1>6. CASE n = 1
    <2> HIDE DEF n
    <2> QED BY <1>2, <1>3, <1>6, <1>8
  <1>7. CASE n # 1
    <2> DEFINE m == n - 1
    <2>1. m \in Nat /\ m \in 1 .. m /\ m \in 1 .. n /\ n \in 2 .. n /\ m <= n
      <3>1. n \in Nat /\ n > 0
        BY <1>1
      <3> HIDE DEF n
      <3> QED BY <3>1, <1>7
    <2>2. f[m] = g[m]
      <3>1. AgreeUpto(q, p, m)
        BY <1>3 DEF AgreeUpto
      <3>2. m <= Len(q) /\ m <= Len(p) /\ p \in Seq(Seq(X))
        BY <1>3, <2>1
      <3>3. AgreeUpto(f, g, m)
        <4> HIDE DEF m, n
        <4>1. SameFront(X, q, p, f, g, m)
          BY <1>4, <1>5, <2>1, <3>1, <3>2 DEF SameFront
        <4> QED BY <4>1, SameBuckets
      <3> QED BY <2>1, <3>3 DEF AgreeUpto
    <2>3. f[n] = f[m] \o q[n] /\ g[n] = g[m] \o p[n] /\ f[m] \in Seq(X)
      BY <1>3, <1>4, <1>5, <2>1 DEF Buckets
    <2>4. f[m] \o Append(q[n], x) = Append(f[m] \o q[n], x)
      <3>1. \A u, v \in Seq(X) : u \o Append(v, x) = Append(u \o v, x)
        <4> TAKE u \in Seq(X), v \in Seq(X)
        <4>1. <<x>> \in Seq(X) /\ u \o v \in Seq(X)
          BY ConcatProperties
        <4>2. Append(v, x) = v \o <<x>> /\ Append(u \o v, x) = (u \o v) \o <<x>>
          BY <4>1, AppendIsConcat
        <4>3. (u \o v) \o <<x>> = u \o (v \o <<x>>)
          BY <4>1, ConcatAssociative
        <4> QED BY <4>2, <4>3
      <3> QED BY <1>1, <2>3, <3>1
    <2> HIDE DEF m, n
    <2> QED BY <1>2, <1>3, <1>8, <2>2, <2>3, <2>4
  <1> QED BY <1>3, <1>6, <1>7

\* The head of the first bucket is taken.
LEMMA FlatTail ==
    ASSUME NEW X, NEW q \in Seq(Seq(X)), q # <<>>, q[1] # <<>>,
           NEW p, p = [q EXCEPT ![1] = Tail(@)]
    PROVE  /\ p \in Seq(Seq(X)) /\ p # <<>>
           /\ FlattenSeq(q) # <<>> /\ Head(FlattenSeq(q)) = Head(q[1])
           /\ FlattenSeq(p) = Tail(FlattenSeq(q))
  <1> DEFINE n == Len(q)
  <1>1. n \in Nat /\ n > 0 /\ q[1] \in Seq(X) /\ 1 \in 1 .. n /\ n \in 1 .. n
    BY LenProperties, EmptySeq, ElementOfSeq
  <1>2. Tail(q[1]) \in Seq(X) /\ p[1] = Tail(q[1])
    BY <1>1
  <1>3. p \in Seq(Seq(X)) /\ Len(p) = n /\ p # <<>> /\ \A k \in 2 .. n : p[k] = q[k]
    BY <1>1, <1>2
  <1>4. PICK f : Buckets(X, q, f) /\ FlattenSeq(q) = f[n]
    BY Flattened
  <1>5. PICK g : Buckets(X, p, g) /\ FlattenSeq(p) = g[Len(p)]
    BY <1>3, Flattened
  <1>6. \A u, v \in Seq(X) : u # <<>> =>
            u \o v # <<>> /\ Head(u \o v) = Head(u) /\ Tail(u \o v) = Tail(u) \o v
    OBVIOUS
  <1>7. \A k \in 1 .. n : q[k] \in Seq(X) /\ f[k] \in Seq(X)
    BY <1>4, ElementOfSeq DEF Buckets
  <1> HIDE DEF n
  <1> DEFINE T == {k \in 0 .. n : k > 0 => f[k] # <<>> /\ Head(f[k]) = Head(q[1]) /\ g[k] = Tail(f[k])}
  <1>8. 0 \in T
    BY <1>1
  <1>9. ASSUME NEW k \in 1 .. n, k - 1 \in T PROVE k \in T
    <2>1. f[k] # <<>> /\ Head(f[k]) = Head(q[1]) /\ g[k] = Tail(f[k])
      <3>1. CASE k = 1
        BY <1>2, <1>4, <1>5, <3>1 DEF Buckets
      <3>2. CASE k # 1
        <4>1. k \in 2 .. Len(q) /\ k \in 2 .. Len(p) /\ k \in 2 .. n /\ k - 1 \in 1 .. n /\ k - 1 > 0
          BY <1>1, <1>3, <3>2 DEF n
        <4>2. f[k] = f[k - 1] \o q[k] /\ g[k] = g[k - 1] \o p[k] /\ p[k] = q[k]
          BY <1>3, <1>4, <1>5, <4>1 DEF Buckets
        <4>3. f[k - 1] # <<>> /\ Head(f[k - 1]) = Head(q[1]) /\ g[k - 1] = Tail(f[k - 1])
          BY <1>9, <4>1
        <4>4. f[k - 1] \in Seq(X) /\ q[k] \in Seq(X)
          BY <1>7, <4>1
        <4> DEFINE a == f[k - 1]
                   b == q[k]
        <4>5. a \in Seq(X) /\ b \in Seq(X) /\ a # <<>> /\ Head(a) = Head(q[1]) /\ g[k - 1] = Tail(a)
              /\ f[k] = a \o b /\ g[k] = g[k - 1] \o b
          BY <4>2, <4>3, <4>4
        <4> HIDE DEF a, b
        <4>6. a \o b # <<>> /\ Head(a \o b) = Head(a) /\ Tail(a \o b) = Tail(a) \o b
          BY <1>6, <4>5
        <4> QED BY <4>5, <4>6
      <3> QED BY <3>1, <3>2
    <2> QED BY <1>9, <2>1
  <1>10. 0 .. n \subseteq T
    <2> HIDE DEF T
    <2> QED BY <1>1, <1>8, <1>9, UpTo
  <1>11. f[n] # <<>> /\ Head(f[n]) = Head(q[1]) /\ g[n] = Tail(f[n])
    BY <1>1, <1>10
  <1> QED BY <1>3, <1>4, <1>5, <1>11 DEF n

\* The queue ages: the first bucket, which is empty, becomes the last one.
LEMMA FlatAge ==
    ASSUME NEW X, NEW q \in Seq(Seq(X)), q # <<>>, NEW e \in Seq(X), Len(e) = 0, q[1] = e,
           NEW p, p = Append(Tail(q), e)
    PROVE  p \in Seq(Seq(X)) /\ p # <<>> /\ FlattenSeq(p) = FlattenSeq(q)
  <1> DEFINE n == Len(q)
  <1>1. n \in Nat /\ n > 0 /\ <<>> \in Seq(X)
    BY LenProperties, EmptySeq
  <1>2. p \in Seq(Seq(X)) /\ Len(p) = n /\ p # <<>> /\ p[n] = e /\ \A k \in 1 .. n - 1 : p[k] = q[k + 1]
    <2>1. p \in Seq(Seq(X)) /\ Len(p) = n
      BY Aged
    <2>2. p[n] = e
      BY Aged
    <2>3. \A k \in 1 .. n - 1 : p[k] = q[k + 1]
      BY Aged
    <2>4. p # <<>>
      BY <1>1, <2>1
    <2> QED BY <2>1, <2>2, <2>3, <2>4
  <1>e. e = <<>>
    BY EmptySeq
  <1>3. PICK f : Buckets(X, q, f) /\ FlattenSeq(q) = f[n]
    BY Flattened
  <1>4. PICK g : Buckets(X, p, g) /\ FlattenSeq(p) = g[n]
    BY <1>2, Flattened
  <1>5. \A k \in 1 .. n : q[k] \in Seq(X) /\ f[k] \in Seq(X)
    BY <1>3, ElementOfSeq DEF Buckets
  <1> HIDE DEF n
  <1> DEFINE T == {k \in 0 .. n - 1 : k > 0 => g[k] = f[k + 1]}
  <1>6. 0 \in T
    BY <1>1
  <1>7. ASSUME NEW k \in 1 .. n - 1, k - 1 \in T PROVE k \in T
    <2>1. k + 1 \in 2 .. Len(q) /\ (k + 1) - 1 = k /\ p[k] = q[k + 1] /\ k + 1 \in 1 .. n
      BY <1>1, <1>2 DEF n
    <2>2. f[k + 1] = f[k] \o q[k + 1]
      BY <1>3, <2>1 DEF Buckets
    <2>3. g[k] = f[k + 1]
      <3>1. CASE k = 1
        <4>1. f[1] = <<>> /\ g[1] = p[1] /\ q[k + 1] \in Seq(X)
          BY <1>3, <1>4, <1>5, <1>e, <2>1 DEF Buckets
        <4> QED BY <2>1, <2>2, <3>1, <4>1, ConcatEmptySeq
      <3>2. CASE k # 1
        <4>1. k \in 2 .. Len(p) /\ k - 1 > 0 /\ (k - 1) + 1 = k
          BY <1>1, <1>2, <3>2
        <4>2. g[k] = g[k - 1] \o p[k]
          BY <1>4, <4>1 DEF Buckets
        <4>3. g[k - 1] = f[k]
          BY <1>7, <4>1
        <4> QED BY <2>1, <2>2, <4>2, <4>3
      <3> QED BY <3>1, <3>2
    <2> QED BY <1>7, <2>3
  <1>8. 0 .. n - 1 \subseteq T
    <2> HIDE DEF T
    <2>1. n - 1 \in Nat
      BY <1>1
    <2> QED BY <1>6, <1>7, <2>1, UpTo
  <1>9. g[n] = f[n]
    <2>1. CASE n = 1
      BY <1>2, <1>3, <1>4, <1>e, <2>1 DEF Buckets
    <2>2. CASE n # 1
      <3>1. n \in 2 .. Len(p) /\ n - 1 \in 0 .. n - 1 /\ n - 1 > 0 /\ (n - 1) + 1 = n /\ n \in 1 .. n
        BY <1>1, <1>2, <2>2
      <3>2. g[n] = g[n - 1] \o p[n] /\ f[n] \in Seq(X)
        BY <1>4, <1>5, <3>1 DEF Buckets
      <3>3. g[n - 1] = f[n]
        BY <1>8, <3>1
      <3> QED BY <1>2, <1>e, <3>2, <3>3, ConcatEmptySeq
    <2> QED BY <2>1, <2>2
  <1> QED BY <1>2, <1>3, <1>4, <1>9

\* A queue of empty buckets.
LEMMA FlatEmpty ==
    ASSUME NEW X, NEW q \in Seq(Seq(X)), q # <<>>, \A k \in 1 .. Len(q) : q[k] = <<>>
    PROVE  FlattenSeq(q) = <<>>
  <1> DEFINE n == Len(q)
  <1>1. n \in Nat /\ n > 0 /\ <<>> \in Seq(X)
    BY LenProperties, EmptySeq
  <1>2. PICK f : Buckets(X, q, f) /\ FlattenSeq(q) = f[n]
    BY Flattened
  <1> HIDE DEF n
  <1> DEFINE T == {k \in 0 .. n : k > 0 => f[k] = <<>>}
  <1>3. 0 \in T
    BY <1>1
  <1>4. ASSUME NEW k \in 1 .. n, k - 1 \in T PROVE k \in T
    <2>1. q[k] = <<>>
      BY DEF n
    <2>2. f[k] = <<>>
      <3>1. CASE k = 1
        BY <1>2, <2>1, <3>1 DEF Buckets
      <3>2. CASE k # 1
        <4>1. k \in 2 .. Len(q) /\ k - 1 > 0
          BY <1>1, <3>2 DEF n
        <4>2. f[k] = f[k - 1] \o q[k] /\ f[k - 1] = <<>>
          BY <1>2, <1>4, <4>1 DEF Buckets
        <4> QED BY <1>1, <2>1, <4>2, ConcatEmptySeq
      <3> QED BY <3>1, <3>2
    <2> QED BY <1>4, <2>2
  <1>5. 0 .. n \subseteq T
    <2> HIDE DEF T
    <2> QED BY <1>1, <1>3, <1>4, UpTo
  <1> QED BY <1>1, <1>2, <1>5

--------------------------------------------------------------------------------
\* A circular buffer of m slots: what it holds from the first slot to the last, and
\* the slot of the j-th entry.
Circle(s, f, l, m) == [i \in 1 .. (l - f + m) % m |-> s[(f + i - 1) % m]]
Wrap(a, m) == IF a < m THEN a ELSE a - m
SlotOf(f, j, m) == Wrap(f + j - 1, m)
Gap(f, l, m) == IF f <= l THEN l - f ELSE l - f + m

LEMMA Wraps ==
    ASSUME NEW m \in Nat \ {0}, NEW a \in Nat, a < 2 * m
    PROVE  a % m = Wrap(a, m)
  BY DEF Wrap

LEMMA CircleIs ==
    ASSUME NEW m \in Nat \ {0}, NEW f \in 0 .. m - 1, NEW l \in 0 .. m - 1, NEW s
    PROVE  Circle(s, f, l, m) = [j \in 1 .. Gap(f, l, m) |-> s[SlotOf(f, j, m)]]
  <1>1. (l - f + m) % m = Gap(f, l, m)
    <2> DEFINE a == l - f + m
    <2>1. a \in Nat /\ a < 2 * m
      OBVIOUS
    <2>2. a % m = Wrap(a, m)
      <3> HIDE DEF a
      <3> QED BY <2>1, Wraps
    <2>3. Wrap(a, m) = Gap(f, l, m)
      BY DEF Wrap, Gap
    <2> QED BY <2>2, <2>3
  <1>2. Gap(f, l, m) \in 0 .. m - 1
    BY DEF Gap
  <1>3. ASSUME NEW j \in 1 .. Gap(f, l, m) PROVE (f + j - 1) % m = SlotOf(f, j, m)
    <2> DEFINE a == f + j - 1
    <2>1. a \in Nat /\ a < 2 * m
      BY <1>2
    <2> HIDE DEF a
    <2>2. a % m = Wrap(a, m)
      BY <2>1, Wraps
    <2> QED BY <2>2 DEF SlotOf, a
  <1> QED BY <1>1, <1>3 DEF Circle

\* What a circular buffer of X holds: the list b.
Circular(X, m, s, f, l, b) ==
    /\ m \in Nat \ {0} /\ f \in 0 .. m - 1 /\ l \in 0 .. m - 1 /\ s \in [0 .. m - 1 -> X]
    /\ b = [j \in 1 .. Gap(f, l, m) |-> s[SlotOf(f, j, m)]]

LEMMA RingHolds ==
    ASSUME NEW X, NEW m, NEW s, NEW f, NEW l, NEW b, Circular(X, m, s, f, l, b)
    PROVE  /\ b \in Seq(X) /\ Len(b) = Gap(f, l, m) /\ Len(b) \in 0 .. m - 1
           /\ \A j \in 1 .. Len(b) : b[j] = s[SlotOf(f, j, m)]
           /\ \A j \in 1 .. m : SlotOf(f, j, m) \in 0 .. m - 1
  <1>1. m \in Nat \ {0} /\ f \in 0 .. m - 1 /\ l \in 0 .. m - 1
    BY DEF Circular
  <1>2. Gap(f, l, m) \in 0 .. m - 1
    BY <1>1 DEF Gap
  <1>3. \A j \in 1 .. m : SlotOf(f, j, m) \in 0 .. m - 1
    BY <1>1 DEF SlotOf, Wrap
  <1> DEFINE n == Gap(f, l, m)
             z(j) == SlotOf(f, j, m)
  <1>4. b = [j \in 1 .. n |-> s[z(j)]] /\ \A j \in 1 .. n : s[z(j)] \in X
    <2>1. \A j \in 1 .. n : j \in 1 .. m
      BY <1>1, <1>2
    <2> HIDE DEF n
    <2> QED BY <1>3, <2>1 DEF Circular, n
  <1>5. b \in Seq(X) /\ Len(b) = n
    <2>1. n \in Nat
      BY <1>2
    <2> HIDE DEF n, z
    <2> QED BY <1>4, <2>1
  <1> QED BY <1>2, <1>3, <1>4, <1>5

\* An entry is put into the last slot.
RoomFor(X, m, s, f, l, b, x) == Circular(X, m, s, f, l, b) /\ x \in X /\ Len(b) + 1 < m
PutLast(X, m, s, f, l, b, x) ==
    /\ Circular(X, m, [s EXCEPT ![l] = x], f, Wrap(l + 1, m), Append(b, x))
    /\ l = SlotOf(f, Len(b) + 1, m)
    /\ \A j \in 1 .. Len(b) : SlotOf(f, j, m) # l

LEMMA RingPush ==
    ASSUME NEW X, NEW m, NEW s, NEW f, NEW l, NEW b, NEW x, RoomFor(X, m, s, f, l, b, x)
    PROVE  PutLast(X, m, s, f, l, b, x)
  <1> SUFFICES ASSUME Circular(X, m, s, f, l, b), x \in X, Len(b) + 1 < m
               PROVE  /\ Circular(X, m, [s EXCEPT ![l] = x], f, Wrap(l + 1, m), Append(b, x))
                      /\ l = SlotOf(f, Len(b) + 1, m)
                      /\ \A j \in 1 .. Len(b) : SlotOf(f, j, m) # l
    BY DEF RoomFor, PutLast
  <1> DEFINE n == Len(b)
             e == Wrap(l + 1, m)
             t == [s EXCEPT ![l] = x]
             c == Append(b, x)
  <1>1. m \in Nat \ {0} /\ f \in 0 .. m - 1 /\ l \in 0 .. m - 1 /\ s \in [0 .. m - 1 -> X]
    BY DEF Circular
  <1>2. /\ b \in Seq(X) /\ n = Gap(f, l, m) /\ n \in 0 .. m - 1
        /\ \A j \in 1 .. n : b[j] = s[SlotOf(f, j, m)]
        /\ \A j \in 1 .. m : SlotOf(f, j, m) \in 0 .. m - 1
    BY RingHolds
  <1>3. t \in [0 .. m - 1 -> X] /\ t[l] = x /\ \A k \in 0 .. m - 1 : k # l => t[k] = s[k]
    BY <1>1
  <1>4. c \in Seq(X) /\ Len(c) = n + 1 /\ c[n + 1] = x /\ \A k \in 1 .. n : c[k] = b[k]
    BY <1>2, Appended
  <1>5. n + 1 < m /\ n \in Nat
    BY <1>2
  <1> HIDE DEF n, t, c
  <1>6. /\ e \in 0 .. m - 1 /\ Gap(f, e, m) = n + 1 /\ l = SlotOf(f, n + 1, m)
        /\ \A j \in 1 .. n : SlotOf(f, j, m) # l
    <2>1. n = Gap(f, l, m)
      BY <1>2
    <2> QED BY <1>1, <1>5, <2>1 DEF Gap, SlotOf, Wrap
  <1>7. ASSUME NEW j \in 1 .. n + 1 PROVE c[j] = t[SlotOf(f, j, m)]
    <2>1. CASE j = n + 1
      BY <1>3, <1>4, <1>6, <2>1
    <2>2. CASE j # n + 1
      <3>1. j \in 1 .. n /\ j \in 1 .. m
        BY <1>1, <1>5, <2>2
      <3>2. SlotOf(f, j, m) # l /\ SlotOf(f, j, m) \in 0 .. m - 1
        BY <1>2, <1>6, <3>1
      <3> QED BY <1>2, <1>3, <1>4, <3>1, <3>2
    <2> QED BY <2>1, <2>2
  <1>8. c = [j \in 1 .. n + 1 |-> t[SlotOf(f, j, m)]]
    <2>1. c = [j \in 1 .. Len(c) |-> c[j]]
      BY <1>4
    <2> QED BY <1>4, <1>7, <2>1
  <1>9. Circular(X, m, t, f, e, c)
    <2> HIDE DEF e
    <2> QED BY <1>1, <1>3, <1>6, <1>8 DEF Circular
  <1> QED BY <1>6, <1>9 DEF n, t, c

\* The entry in the first slot is taken: the slots of the others stay.
LEMMA RingPop ==
    ASSUME NEW X, NEW m, NEW s, NEW f, NEW l, NEW b, Circular(X, m, s, f, l, b), b # <<>>
    PROVE  /\ Circular(X, m, s, Wrap(f + 1, m), l, Tail(b))
           /\ Head(b) = s[f] /\ b[1] = s[f] /\ Wrap(f + 1, m) \in 0 .. m - 1
           /\ \A j \in 1 .. Len(b) : SlotOf(Wrap(f + 1, m), j, m) = SlotOf(f, j + 1, m)
  <1> DEFINE n == Len(b)
             e == Wrap(f + 1, m)
             c == Tail(b)
  <1>1. m \in Nat \ {0} /\ f \in 0 .. m - 1 /\ l \in 0 .. m - 1 /\ s \in [0 .. m - 1 -> X]
    BY DEF Circular
  <1>2. /\ b \in Seq(X) /\ n = Gap(f, l, m) /\ n \in 0 .. m - 1
        /\ \A j \in 1 .. n : b[j] = s[SlotOf(f, j, m)]
    BY RingHolds
  <1>3. c \in Seq(X) /\ Len(c) = n - 1 /\ \A k \in 1 .. n - 1 : c[k] = b[k + 1]
    BY <1>2, HeadTailProperties
  <1>4. n > 0 /\ n \in Nat /\ n < m /\ Head(b) = b[1]
    <2>1. b \in Seq(X) /\ Len(b) \in 0 .. m - 1
      BY <1>2
    <2>2. Len(b) \in Nat \ {0} /\ Head(b) = b[1]
      BY <2>1, EmptySeq
    <2> QED BY <1>1, <2>1, <2>2
  <1> HIDE DEF n, c
  <1>5. /\ e \in 0 .. m - 1 /\ Gap(e, l, m) = n - 1 /\ f = SlotOf(f, 1, m)
        /\ \A j \in 1 .. n : SlotOf(e, j, m) = SlotOf(f, j + 1, m)
    <2>1. n = Gap(f, l, m)
      BY <1>2
    <2>2. e \in 0 .. m - 1 /\ Gap(e, l, m) = n - 1 /\ f = SlotOf(f, 1, m)
      BY <1>1, <1>4, <2>1 DEF Gap, SlotOf, Wrap
    <2>3. \A j \in 1 .. n : SlotOf(e, j, m) = SlotOf(f, j + 1, m)
      BY <1>1, <1>4, <2>1 DEF Gap, SlotOf, Wrap
    <2> QED BY <2>2, <2>3
  <1>6. ASSUME NEW j \in 1 .. n - 1 PROVE c[j] = s[SlotOf(e, j, m)]
    <2>1. j \in 1 .. n /\ j + 1 \in 1 .. n
      BY <1>4
    <2> QED BY <1>2, <1>3, <1>5, <2>1
  <1>7. c = [j \in 1 .. n - 1 |-> s[SlotOf(e, j, m)]]
    <2>1. c = [j \in 1 .. Len(c) |-> c[j]]
      BY <1>3
    <2> QED BY <1>3, <1>6, <2>1
  <1>8. Circular(X, m, s, e, l, c)
    <2> HIDE DEF e
    <2> QED BY <1>1, <1>5, <1>7 DEF Circular
  <1>9. b[1] = s[f]
    <2>1. 1 \in 1 .. n
      BY <1>4
    <2> QED BY <1>2, <1>5, <2>1
  <1> QED BY <1>4, <1>5, <1>8, <1>9 DEF n, c

\* Different entries have different slots.
LEMMA SlotsDiffer ==
    ASSUME NEW m \in Nat \ {0}, NEW f \in 0 .. m - 1, NEW j \in 1 .. m, NEW k \in 1 .. m,
           SlotOf(f, j, m) = SlotOf(f, k, m)
    PROVE  j = k
  BY DEF SlotOf, Wrap

--------------------------------------------------------------------------------
\* The other end first.
LEMMA Reversed ==
    ASSUME NEW S, NEW s \in Seq(S), NEW r, r = Reverse(s)
    PROVE  /\ r \in Seq(S)
           /\ \A x : Occurs(x, r) <=> Occurs(x, s)
           /\ OnceEach(s) => OnceEach(r)
  <1> DEFINE n == Len(s)
  <1>1. n \in Nat /\ \A i \in 1 .. n : s[i] \in S
    BY LenProperties, ElementOfSeq
  <1>2. r = [i \in 1 .. n |-> s[(n - i) + 1]]
    BY DEF Reverse
  <1> HIDE DEF n
  <1>3. \A i \in 1 .. n : (n - i) + 1 \in 1 .. n /\ (n - ((n - i) + 1)) + 1 = i
    BY <1>1
  <1>4. r \in Seq(S) /\ Len(r) = n /\ \A i \in 1 .. n : r[i] = s[(n - i) + 1]
    <2>1. \A i \in 1 .. n : s[(n - i) + 1] \in S
      BY <1>1, <1>3
    <2> QED BY <1>1, <1>2, <2>1
  <1>5. \A x : Occurs(x, r) <=> Occurs(x, s)
    <2>1. ASSUME NEW x, Occurs(x, r) PROVE Occurs(x, s)
      <3>1. PICK i \in 1 .. n : r[i] = x
        BY <1>4, <2>1 DEF Occurs
      <3> QED BY <1>3, <1>4, <3>1 DEF Occurs, n
    <2>2. ASSUME NEW x, Occurs(x, s) PROVE Occurs(x, r)
      <3>1. PICK i \in 1 .. n : s[i] = x
        BY <2>2 DEF Occurs, n
      <3>2. (n - i) + 1 \in 1 .. n /\ r[(n - i) + 1] = s[i]
        BY <1>3, <1>4, <3>1
      <3> QED BY <1>4, <3>1, <3>2 DEF Occurs
    <2> QED BY <2>1, <2>2
  <1>6. ASSUME OnceEach(s) PROVE OnceEach(r)
    <2>1. ASSUME NEW i \in 1 .. n, NEW j \in 1 .. n, r[i] = r[j] PROVE i = j
      <3> DEFINE k == (n - i) + 1
                 m == (n - j) + 1
      <3>1. k \in 1 .. n /\ m \in 1 .. n /\ s[k] = s[m]
        BY <1>3, <1>4, <2>1
      <3>2. k = m
        <4> HIDE DEF k, m
        <4> QED BY <1>6, <3>1 DEF OnceEach, n
      <3> QED BY <1>1, <3>2
    <2> QED BY <1>4, <2>1 DEF OnceEach
  <1> QED BY <1>4, <1>5, <1>6

--------------------------------------------------------------------------------
\* Counting: a finite set with one element more or less, or changed elsewhere.
LEMMA CountMore ==
    ASSUME NEW S, IsFiniteSet(S), NEW x, x \notin S, NEW T, \A y : y \in T <=> y \in S \/ y = x
    PROVE  IsFiniteSet(T) /\ Cardinality(T) = Cardinality(S) + 1
  <1>1. T = S \cup {x}
    OBVIOUS
  <1> QED BY <1>1, FS_AddElement

LEMMA CountLess ==
    ASSUME NEW S, IsFiniteSet(S), NEW x \in S, NEW T, \A y : y \in T <=> y \in S /\ y # x
    PROVE  IsFiniteSet(T) /\ Cardinality(T) = Cardinality(S) - 1 /\ Cardinality(T) \in Nat
           /\ Cardinality(S) \in Nat
  <1>1. T = S \ {x}
    OBVIOUS
  <1> QED BY <1>1, FS_RemoveElement, FS_CardinalityType

\* The places in a list without repetitions of elements of a set are as many as the elements.
PlacesOf(X, b, P, J, K) ==
    /\ b \in Seq(X) /\ OnceEach(b) /\ P \in SUBSET X
    /\ J = {i \in 1 .. Len(b) : b[i] \in P} /\ K = {x \in X : Occurs(x, b) /\ x \in P}
LEMMA PlacesCounted ==
    ASSUME NEW X, NEW b, NEW P, NEW J, NEW K, PlacesOf(X, b, P, J, K)
    PROVE  Cardinality(J) = Cardinality(K)
  <1> DEFINE I == {i \in 1 .. Len(b) : b[i] \in P}
             O == {x \in X : Occurs(x, b) /\ x \in P}
             f == [i \in I |-> b[i]]
  <1> USE DEF PlacesOf
  <1>1. Len(b) \in Nat /\ \A i \in 1 .. Len(b) : b[i] \in X
    BY LenProperties, ElementOfSeq
  <1>2. IsFiniteSet(I)
    <2> DEFINE D == 1 .. Len(b)
    <2>1. IsFiniteSet(D)
      BY <1>1, FS_Interval
    <2>2. I \in SUBSET D
      OBVIOUS
    <2> HIDE DEF I, D
    <2> QED BY <2>1, <2>2, FS_Subset
  <1>3. f \in [I -> O]
    BY <1>1 DEF Occurs
  <1>4. IsInjective(f)
    BY DEF IsInjective, OnceEach
  <1>5. \A x \in O : \E i \in I : f[i] = x
    BY DEF Occurs
  <1>6. f \in Bijection(I, O)
    <2> HIDE DEF I, O, f
    <2> QED BY <1>3, <1>4, <1>5 DEF Bijection, Injection, Surjection
  <1>7. ExistsBijection(I, O)
    BY <1>6 DEF ExistsBijection
  <1>8. J = I /\ K = O
    OBVIOUS
  <1> HIDE DEF I, O
  <1> QED BY <1>2, <1>7, <1>8, FS_Bijection

================================================================================
