----------------------------- MODULE CabProofs ------------------------------
(* The cabinets of libmspack are the sets that are promised, for all images, *)
(* orders of calls and failures.                                             *)
EXTENDS CabExtract, SequenceTheorems, FiniteSetTheorems, WellFoundedInduction, TLAPS

-----------------------------------------------------------------------------
(* Induction over the natural numbers, told with sets of numbers instead of *)
(* predicates, and what it says of functions defined by recursion.           *)

\* A set of natural numbers that is not empty has a least element.
LEMMA LeastNumber ==
    ASSUME NEW T, T \subseteq Nat, T # {}
    PROVE  \E n \in T : \A m \in T : n <= m
<1> DEFINE R == OpToRel(<, Nat)
<1>1. PICK n \in T : \A m \in T : ~(<<m, n>> \in R)
  <2>1. IsWellFoundedOn(R, Nat)
    BY NatLessThanWellFounded
  <2> HIDE DEF R
  <2> QED BY <2>1, WFMin
<1>2. \A m, k \in Nat : m < k => <<m, k>> \in R
  BY DEF OpToRel
<1> HIDE DEF R
<1>3. ASSUME NEW m \in T PROVE n <= m
  <2>1. m \in Nat /\ n \in Nat
    OBVIOUS
  <2>2. ~(m < n)
    BY <1>1, <1>2, <2>1
  <2> QED BY <2>1, <2>2
<1> QED BY <1>3

\* Induction from n to n + 1.
LEMMA Induct ==
    ASSUME NEW S, 0 \in S, \A n \in Nat : n \in S => n + 1 \in S
    PROVE  \A n \in Nat : n \in S
<1> SUFFICES ASSUME NEW x \in Nat, x \notin S PROVE FALSE
  OBVIOUS
<1> DEFINE T == {n \in Nat : n \notin S}
<1>1. PICK n \in T : \A m \in T : n <= m
  BY LeastNumber
<1>2. n # 0 /\ n - 1 \in Nat
  OBVIOUS
<1> QED BY <1>1, <1>2

\* The functions whose value at 0 is start and that go on with the nth step to n.
Iterates(A, start, step, N) ==
    {f \in [0 .. N -> A] : f[0] = start /\ \A n \in 1 .. N : f[n] = step[n][f[n - 1]]}

\* What is defined step by step exists.
LEMMA IterateExists ==
    ASSUME NEW A, NEW start \in A, NEW step \in [Nat -> [A -> A]]
    PROVE  \A N \in Nat : Iterates(A, start, step, N) # {}
<1> DEFINE S == {N \in Nat : Iterates(A, start, step, N) # {}}
<1>1. 0 \in S
  <2>1. [n \in 0 .. 0 |-> start] \in Iterates(A, start, step, 0)
    BY DEF Iterates
  <2> QED BY <2>1
<1>2. ASSUME NEW N \in Nat, N \in S PROVE N + 1 \in S
  <2>1. PICK f \in [0 .. N -> A] : f[0] = start /\ \A n \in 1 .. N : f[n] = step[n][f[n - 1]]
    BY <1>2 DEF Iterates
  <2> DEFINE g == [n \in 0 .. N + 1 |-> IF n = N + 1 THEN step[n][f[N]] ELSE f[n]]
  <2>2. g \in [0 .. N + 1 -> A]
    OBVIOUS
  <2>3. g[0] = start
    BY <2>1
  <2>4. ASSUME NEW n \in 1 .. N + 1 PROVE g[n] = step[n][g[n - 1]]
    BY <2>1
  <2> HIDE DEF g
  <2>5. g \in Iterates(A, start, step, N + 1)
    BY <2>2, <2>3, <2>4 DEF Iterates
  <2> QED BY <2>5
<1> HIDE DEF S
<1>3. \A N \in Nat : N \in S
  BY <1>1, <1>2, Induct
<1> QED BY <1>3 DEF S

-----------------------------------------------------------------------------
-----------------------------------------------------------------------------
(* Linked lists.                                                             *)

\* What Nth takes a list to be.
IsNth(next, head, N, nth) ==
    nth = [n \in 0 .. N |->
              IF n = 0 THEN head
              ELSE LET o == nth[n - 1] IN IF o = NULL THEN NULL ELSE next[o]]

\* The steps along a list are defined, and stay among its objects.
LEMMA NthIs ==
    ASSUME NEW D, IsFiniteSet(D), NULL \notin D, NEW next \in [D -> OrNull(D)],
           NEW head \in OrNull(D)
    PROVE  LET nth == Nth(next, head)
               N == Cardinality(D)
           IN  /\ nth \in [0 .. N -> OrNull(D)]
               /\ nth[0] = head
               /\ \A n \in 1 .. N : nth[n] = IF nth[n - 1] = NULL THEN NULL ELSE next[nth[n - 1]]
<1> DEFINE A == OrNull(D)
           follow == [o \in A |-> IF o = NULL THEN NULL ELSE next[o]]
           step == [n \in Nat |-> follow]
           N == Cardinality(D)
<1>1. N \in Nat /\ DOMAIN next = D
  BY FS_CardinalityType
<1>2. step \in [Nat -> [A -> A]] /\ head \in A
  BY DEF OrNull
<1>3. PICK f \in Iterates(A, head, step, N) : TRUE
  <2> HIDE DEF step, A, N
  <2>1. Iterates(A, head, step, N) # {}
    BY <1>1, <1>2, IterateExists
  <2> QED BY <2>1
<1>4. /\ f \in [0 .. N -> A] /\ f[0] = head
      /\ \A n \in 1 .. N : f[n] = step[n][f[n - 1]]
  BY <1>3 DEF Iterates
<1>5. ASSUME NEW n \in 1 .. N
      PROVE  f[n] = IF f[n - 1] = NULL THEN NULL ELSE next[f[n - 1]]
  <2>1. n \in Nat /\ n - 1 \in 0 .. N
    BY <1>1
  <2>2. f[n - 1] \in A /\ f[n] = step[n][f[n - 1]]
    BY <1>4, <2>1
  <2> QED BY <2>1, <2>2
<1> HIDE DEF N, A
<1>6. IsNth(next, head, N, f)
  BY <1>1, <1>4, <1>5 DEF IsNth
<1>7. Nth(next, head) = CHOOSE nth : IsNth(next, head, N, nth)
  BY <1>1 DEF Nth, IsNth, N
<1>8. IsNth(next, head, N, Nth(next, head))
  BY <1>6, <1>7
<1> DEFINE nth == Nth(next, head)
<1> HIDE DEF nth
<1>9. /\ DOMAIN nth = 0 .. N /\ nth[0] = head
      /\ \A n \in 1 .. N : nth[n] = IF nth[n - 1] = NULL THEN NULL ELSE next[nth[n - 1]]
  BY <1>1, <1>8 DEF IsNth, nth
<1>10. \A n \in Nat : n <= N => nth[n] = f[n]
  <2> DEFINE S == {n \in Nat : n <= N => nth[n] = f[n]}
  <2>1. 0 \in S
    BY <1>4, <1>9
  <2>2. ASSUME NEW n \in Nat, n \in S PROVE n + 1 \in S
    <3>1. SUFFICES ASSUME n + 1 <= N PROVE nth[n + 1] = f[n + 1]
      OBVIOUS
    <3>2. n + 1 \in 1 .. N /\ nth[n] = f[n] /\ (n + 1) - 1 = n
      BY <1>1, <2>2, <3>1
    <3> QED BY <1>5, <1>9, <3>2
  <2> HIDE DEF S
  <2>3. \A n \in Nat : n \in S
    BY <2>1, <2>2, Induct
  <2> QED BY <2>3 DEF S
<1>11. ASSUME NEW n \in 0 .. N PROVE nth[n] \in A
  BY <1>1, <1>4, <1>10
<1>12. nth \in [0 .. N -> A]
  <2>1. nth = [n \in 0 .. N |-> nth[n]]
    BY <1>8, <1>9 DEF IsNth, nth
  <2> QED BY <1>11, <2>1
<1> QED BY <1>9, <1>12 DEF nth, N, A

Distinct(s) == \A i, j \in 1 .. Len(s) : s[i] = s[j] => i = j

\* s is the list that begins at head: its objects are linked by next, the last one ends it.
IsList(next, head, s) ==
    /\ s \in Seq(DOMAIN next) /\ Distinct(s)
    /\ head = IF s = <<>> THEN NULL ELSE s[1]
    /\ \A i \in 1 .. Len(s) : next[s[i]] = IF i = Len(s) THEN NULL ELSE s[i + 1]

\* There are no more distinct elements than elements.
LEMMA DistinctLength ==
    ASSUME NEW D, IsFiniteSet(D), NEW s \in Seq(D), Distinct(s)
    PROVE  Len(s) <= Cardinality(D)
<1>1. Len(s) \in Nat /\ s \in [1 .. Len(s) -> D]
  OBVIOUS
<1>2. s \in Injection(1 .. Len(s), D)
  BY <1>1 DEF Distinct, Injection, IsInjective
<1>3. Cardinality(1 .. Len(s)) <= Cardinality(D)
  BY <1>2, FS_Injection
<1>4. Cardinality(1 .. Len(s)) = Len(s)
  BY <1>1, FS_Interval
<1> QED BY <1>3, <1>4

\* A list is what one finds on the way along next.
LEMMA ListIs ==
    ASSUME NEW D, IsFiniteSet(D), NULL \notin D, NEW next \in [D -> OrNull(D)],
           NEW head, NEW s, IsList(next, head, s)
    PROVE  ListOf(next, head) = s
<1> DEFINE N == Cardinality(D)
           nth == Nth(next, head)
<1>1. /\ N \in Nat /\ DOMAIN next = D
      /\ s \in Seq(D) /\ Len(s) \in Nat /\ \A i \in 1 .. Len(s) : s[i] \in D /\ s[i] # NULL
  BY FS_CardinalityType DEF IsList
<1>2. head \in OrNull(D)
  BY <1>1 DEF IsList, OrNull
<1>3. Len(s) <= N
  BY <1>1, DistinctLength DEF IsList
<1>4. /\ nth[0] = head
      /\ \A n \in 1 .. N : nth[n] = IF nth[n - 1] = NULL THEN NULL ELSE next[nth[n - 1]]
  BY <1>2, NthIs
<1> HIDE DEF nth, N
<1>5. \A n \in Nat : n <= N => nth[n] = IF n < Len(s) THEN s[n + 1] ELSE NULL
  <2> DEFINE S == {n \in Nat : n <= N => nth[n] = IF n < Len(s) THEN s[n + 1] ELSE NULL}
  <2>1. 0 \in S
    BY <1>1, <1>4 DEF IsList
  <2>2. ASSUME NEW n \in Nat, n \in S PROVE n + 1 \in S
    <3>1. SUFFICES ASSUME n + 1 <= N
                   PROVE  nth[n + 1] = IF n + 1 < Len(s) THEN s[n + 2] ELSE NULL
      OBVIOUS
    <3>2. n + 1 \in 1 .. N /\ (n + 1) - 1 = n /\ nth[n] = IF n < Len(s) THEN s[n + 1] ELSE NULL
      BY <1>1, <2>2, <3>1
    <3>3. nth[n + 1] = IF nth[n] = NULL THEN NULL ELSE next[nth[n]]
      BY <1>4, <3>2
    <3>4. CASE n < Len(s)
      <4>1. n + 1 \in 1 .. Len(s) /\ (n + 1) + 1 = n + 2
        BY <1>1, <3>4
      <4>2. next[s[n + 1]] = IF n + 1 = Len(s) THEN NULL ELSE s[n + 2]
        BY <4>1 DEF IsList
      <4> QED BY <1>1, <3>2, <3>3, <3>4, <4>1, <4>2
    <3>5. CASE ~(n < Len(s))
      BY <1>1, <3>2, <3>3, <3>5
    <3> QED BY <3>4, <3>5
  <2> HIDE DEF S
  <2>3. \A n \in Nat : n \in S
    BY <2>1, <2>2, Induct
  <2> QED BY <2>3 DEF S
<1>6. \A i \in 1 .. N + 1 : nth[i - 1] = IF i <= Len(s) THEN s[i] ELSE NULL
  <2>1. ASSUME NEW i \in 1 .. N + 1 PROVE nth[i - 1] = IF i <= Len(s) THEN s[i] ELSE NULL
    <3>1. i - 1 \in Nat /\ i - 1 <= N /\ (i - 1) + 1 = i /\ (i - 1 < Len(s) <=> i <= Len(s))
      BY <1>1
    <3> QED BY <1>5, <3>1
  <2> QED BY <2>1
<1>7. {i \in 1 .. N + 1 : nth[i - 1] # NULL} = 1 .. Len(s)
  BY <1>1, <1>3, <1>6
<1>8. ListOf(next, head) = [i \in 1 .. Len(s) |-> nth[i - 1]]
  BY <1>1, <1>7 DEF ListOf, nth, N
<1>9. [i \in 1 .. Len(s) |-> nth[i - 1]] = s
  <2>1. ASSUME NEW i \in 1 .. Len(s) PROVE nth[i - 1] = s[i]
    BY <1>1, <1>3, <1>6
  <2> QED BY <1>1, <2>1
<1> QED BY <1>8, <1>9

\* What is on a list is an object.
LEMMA ListTyped ==
    ASSUME NEW D, IsFiniteSet(D), NULL \notin D, NEW next \in [D -> OrNull(D)],
           NEW head \in OrNull(D)
    PROVE  Elements(ListOf(next, head)) \subseteq D
<1> DEFINE N == Cardinality(D)
           nth == Nth(next, head)
<1>1. N \in Nat /\ DOMAIN next = D
  BY FS_CardinalityType
<1>2. nth \in [0 .. N -> OrNull(D)]
  BY NthIs
<1>3. ListOf(next, head) = [i \in {i \in 1 .. N + 1 : nth[i - 1] # NULL} |-> nth[i - 1]]
  BY <1>1 DEF ListOf
<1> HIDE DEF nth, N
<1>4. ASSUME NEW i \in 1 .. N + 1, nth[i - 1] # NULL PROVE nth[i - 1] \in D
  BY <1>1, <1>2, <1>4 DEF OrNull
<1> QED BY <1>3, <1>4 DEF Elements

-----------------------------------------------------------------------------
(* Sets of cabinets.  o are the open cabinets, k the cabinet objects.        *)

IsCab(r) ==
    r = [next |-> r.next, prevcab |-> r.prevcab, nextcab |-> r.nextcab,
         files |-> r.files, folders |-> r.folders]

\* What is not open points nowhere.
AreCabs(o, k) ==
    /\ o \subseteq Cabs /\ DOMAIN k = Cabs
    /\ \A c \in Cabs : IsCab(k[c]) /\ k[c].next \in OrNull(Cabs)
    /\ \A c \in Cabs \ o : k[c] = NoCab

NextAfter(s, i) == IF i = Len(s) THEN NULL ELSE s[i + 1]
LastBefore(s, i) == IF i = 1 THEN NULL ELSE s[i - 1]

\* S are sequences of cabinets, each open one being in one of them, once, with
\* pointers to its neighbours.
AreSets(S, o, k) ==
    /\ \A s \in S : s \in Seq(Cabs) /\ s # <<>>
    /\ \A s, t \in S : \A i \in 1 .. Len(s), j \in 1 .. Len(t) : s[i] = t[j] => s = t /\ i = j
    /\ o = UNION {Elements(s) : s \in S}
    /\ \A s \in S : \A i \in 1 .. Len(s) :
          k[s[i]].nextcab = NextAfter(s, i) /\ k[s[i]].prevcab = LastBefore(s, i)

\* Each open cabinet has its place in a set.
LEMMA PlaceInSet ==
    ASSUME NEW S, NEW o, NEW k, AreSets(S, o, k)
    PROVE  /\ \A c \in o : \E s \in S : \E i \in 1 .. Len(s) : s[i] = c
           /\ \A s \in S : /\ Len(s) \in Nat \ {0}
                           /\ \A i \in 1 .. Len(s) : s[i] \in o /\ s[i] \in Cabs
<1>1. ASSUME NEW c \in o PROVE \E s \in S : \E i \in 1 .. Len(s) : s[i] = c
  <2>1. PICK s \in S : c \in Elements(s)
    BY DEF AreSets
  <2>2. PICK i \in DOMAIN s : s[i] = c
    BY <2>1 DEF Elements
  <2>3. DOMAIN s = 1 .. Len(s)
    BY DEF AreSets
  <2> QED BY <2>2, <2>3
<1>2. ASSUME NEW s \in S
      PROVE  Len(s) \in Nat \ {0} /\ \A i \in 1 .. Len(s) : s[i] \in o /\ s[i] \in Cabs
  <2>1. s \in Seq(Cabs) /\ s # <<>> /\ Elements(s) \subseteq o
    BY DEF AreSets
  <2>2. Len(s) \in Nat \ {0} /\ DOMAIN s = 1 .. Len(s)
    BY <2>1
  <2>3. \A i \in 1 .. Len(s) : s[i] \in Cabs /\ s[i] \in Elements(s)
    BY <2>1, <2>2 DEF Elements
  <2> QED BY <2>1, <2>2, <2>3
<1> QED BY <1>1, <1>2

NextIn(k) == [c \in Cabs |-> k[c].nextcab]
PrevIn(k) == [c \in Cabs |-> k[c].prevcab]
AfterIn(k, c) == ListOf(NextIn(k), k[c].nextcab)
BeforeIn(k, c) == ListOf(PrevIn(k), k[c].prevcab)

\* The pointers between cabinets lead to open ones.
LEMMA PointersOpen ==
    ASSUME NEW S, NEW o, NEW k, AreCabs(o, k), AreSets(S, o, k)
    PROVE  /\ \A c \in Cabs : k[c].nextcab \in OrNull(o) /\ k[c].prevcab \in OrNull(o)
           /\ NextIn(k) \in [Cabs -> OrNull(Cabs)] /\ PrevIn(k) \in [Cabs -> OrNull(Cabs)]
<1>1. o \subseteq Cabs
  BY DEF AreCabs
<1>2. ASSUME NEW c \in Cabs PROVE k[c].nextcab \in OrNull(o) /\ k[c].prevcab \in OrNull(o)
  <2>1. CASE c \notin o
    BY <2>1 DEF AreCabs, NoCab, OrNull
  <2>2. CASE c \in o
    <3>1. PICK s \in S : \E i \in 1 .. Len(s) : s[i] = c
      BY <2>2, PlaceInSet
    <3>2. PICK i \in 1 .. Len(s) : s[i] = c
      BY <3>1
    <3>3. k[c].nextcab = NextAfter(s, i) /\ k[c].prevcab = LastBefore(s, i)
      BY <3>2 DEF AreSets
    <3>4. Len(s) \in Nat /\ \A n \in 1 .. Len(s) : s[n] \in o
      BY PlaceInSet
    <3> QED BY <3>2, <3>3, <3>4 DEF NextAfter, LastBefore, OrNull
  <2> QED BY <2>1, <2>2
<1> QED BY <1>1, <1>2 DEF NextIn, PrevIn, OrNull

\* The chains of pointers from a cabinet of a set are the rest of the set, both ways.
LEMMA ChainsAre ==
    ASSUME NEW S, NEW o, NEW k, AreCabs(o, k), AreSets(S, o, k),
           NEW s \in S, NEW i \in 1 .. Len(s)
    PROVE  /\ AfterIn(k, s[i]) = [n \in 1 .. Len(s) - i |-> s[i + n]]
           /\ BeforeIn(k, s[i]) = [n \in 1 .. i - 1 |-> s[i - n]]
<1>1. /\ Len(s) \in Nat \ {0} /\ \A n \in 1 .. Len(s) : s[n] \in Cabs
      /\ \A m, n \in 1 .. Len(s) : s[m] = s[n] => m = n
      /\ \A n \in 1 .. Len(s) : k[s[n]].nextcab = NextAfter(s, n) /\ k[s[n]].prevcab = LastBefore(s, n)
  BY PlaceInSet DEF AreSets
<1>2. /\ IsFiniteSet(Cabs) /\ NULL \notin Cabs
      /\ NextIn(k) \in [Cabs -> OrNull(Cabs)] /\ PrevIn(k) \in [Cabs -> OrNull(Cabs)]
  BY PointersOpen, ImageAssumption
<1>3. AfterIn(k, s[i]) = [n \in 1 .. Len(s) - i |-> s[i + n]]
  <2>1. PICK t : t = [n \in 1 .. Len(s) - i |-> s[i + n]]
    OBVIOUS
  <2>2. t \in Seq(Cabs) /\ Len(t) = Len(s) - i /\ \A n \in 1 .. Len(t) : t[n] = s[i + n]
    BY <1>1, <2>1
  <2>3. Distinct(t)
    BY <1>1, <2>2 DEF Distinct
  <2>4. k[s[i]].nextcab = IF t = <<>> THEN NULL ELSE t[1]
    BY <1>1, <2>2 DEF NextAfter
  <2>5. ASSUME NEW n \in 1 .. Len(t)
        PROVE  NextIn(k)[t[n]] = IF n = Len(t) THEN NULL ELSE t[n + 1]
    <3>1. i + n \in 1 .. Len(s) /\ t[n] = s[i + n] /\ (i + n = Len(s) <=> n = Len(t))
      BY <1>1, <2>2
    <3>2. NextIn(k)[t[n]] = NextAfter(s, i + n)
      BY <1>1, <3>1 DEF NextIn
    <3>3. n # Len(t) => t[n + 1] = s[(i + n) + 1]
      BY <1>1, <2>2
    <3> QED BY <3>1, <3>2, <3>3 DEF NextAfter
  <2>6. IsList(NextIn(k), k[s[i]].nextcab, t)
    BY <2>2, <2>3, <2>4, <2>5 DEF IsList, NextIn
  <2> QED BY <1>2, <2>1, <2>6, ListIs DEF AfterIn
<1>4. BeforeIn(k, s[i]) = [n \in 1 .. i - 1 |-> s[i - n]]
  <2>1. PICK t : t = [n \in 1 .. i - 1 |-> s[i - n]]
    OBVIOUS
  <2>2. t \in Seq(Cabs) /\ Len(t) = i - 1 /\ \A n \in 1 .. Len(t) : t[n] = s[i - n]
    BY <1>1, <2>1
  <2>3. Distinct(t)
    <3>1. SUFFICES ASSUME NEW m \in 1 .. Len(t), NEW n \in 1 .. Len(t), t[m] = t[n] PROVE m = n
      BY DEF Distinct
    <3>2. i - m \in 1 .. Len(s) /\ i - n \in 1 .. Len(s) /\ s[i - m] = s[i - n]
      BY <1>1, <2>2, <3>1
    <3>3. i - m = i - n
      BY <1>1, <3>2
    <3> QED BY <2>2, <3>3
  <2>4. k[s[i]].prevcab = IF t = <<>> THEN NULL ELSE t[1]
    BY <1>1, <2>2 DEF LastBefore
  <2>5. ASSUME NEW n \in 1 .. Len(t)
        PROVE  PrevIn(k)[t[n]] = IF n = Len(t) THEN NULL ELSE t[n + 1]
    <3>1. i - n \in 1 .. Len(s) /\ t[n] = s[i - n] /\ (i - n = 1 <=> n = Len(t))
      BY <1>1, <2>2
    <3>2. PrevIn(k)[t[n]] = LastBefore(s, i - n)
      BY <1>1, <3>1 DEF PrevIn
    <3>3. n # Len(t) => t[n + 1] = s[(i - n) - 1]
      <4>1. n # Len(t) => n + 1 \in 1 .. Len(t) /\ i - (n + 1) = (i - n) - 1
        BY <1>1, <2>2
      <4> QED BY <2>2, <4>1
    <3> QED BY <3>1, <3>2, <3>3 DEF LastBefore
  <2>6. IsList(PrevIn(k), k[s[i]].prevcab, t)
    BY <2>2, <2>3, <2>4, <2>5 DEF IsList, PrevIn
  <2> QED BY <1>2, <2>1, <2>6, ListIs DEF BeforeIn
<1> QED BY <1>3, <1>4

\* Nothing comes after the last and before the first one.
LEMMA EndsAre ==
    ASSUME NEW S, NEW o, NEW k, AreCabs(o, k), AreSets(S, o, k), NEW s \in S
    PROVE  Elements(AfterIn(k, s[Len(s)])) = {} /\ Elements(BeforeIn(k, s[1])) = {}
<1>1. Len(s) \in 1 .. Len(s) /\ 1 \in 1 .. Len(s) /\ Len(s) \in Nat
  BY PlaceInSet
<1>2. Elements(AfterIn(k, s[Len(s)])) = {}
  <2>1. PICK i \in 1 .. Len(s) : i = Len(s)
    BY <1>1
  <2>2. /\ AfterIn(k, s[i]) = [n \in 1 .. Len(s) - i |-> s[i + n]]
        /\ BeforeIn(k, s[i]) = [n \in 1 .. i - 1 |-> s[i - n]]
    BY ChainsAre
  <2>3. 1 .. Len(s) - i = {}
    BY <1>1, <2>1
  <2>4. DOMAIN AfterIn(k, s[i]) = {}
    BY <2>2, <2>3
  <2> QED BY <2>1, <2>4 DEF Elements
<1>3. Elements(BeforeIn(k, s[1])) = {}
  <2>1. PICK i \in 1 .. Len(s) : i = 1
    BY <1>1
  <2>2. /\ AfterIn(k, s[i]) = [n \in 1 .. Len(s) - i |-> s[i + n]]
        /\ BeforeIn(k, s[i]) = [n \in 1 .. i - 1 |-> s[i - n]]
    BY ChainsAre
  <2>3. 1 .. i - 1 = {}
    BY <1>1, <2>1
  <2>4. DOMAIN BeforeIn(k, s[i]) = {}
    BY <2>2, <2>3
  <2> QED BY <2>1, <2>4 DEF Elements
<1> QED BY <1>2, <1>3

\* What the pointers of the cabinets say, without those that set them.
SetIn(k, c) == {c} \cup Elements(BeforeIn(k, c)) \cup Elements(AfterIn(k, c))
SetsIn(o, k) == {<<c>> \o AfterIn(k, c) : c \in {c \in o : k[c].prevcab = NULL}}

LEMMA SetInIs ==
    ASSUME NEW S, NEW o, NEW k, AreCabs(o, k), AreSets(S, o, k)
    PROVE  /\ \A s \in S : \A i \in 1 .. Len(s) : SetIn(k, s[i]) = Elements(s)
           /\ \A c \in Cabs \ o : SetIn(k, c) = {c}
<1>1. ASSUME NEW s \in S, NEW i \in 1 .. Len(s) PROVE SetIn(k, s[i]) = Elements(s)
  <2>1. /\ AfterIn(k, s[i]) = [n \in 1 .. Len(s) - i |-> s[i + n]]
        /\ BeforeIn(k, s[i]) = [n \in 1 .. i - 1 |-> s[i - n]]
    BY ChainsAre
  <2>2. Len(s) \in Nat /\ DOMAIN s = 1 .. Len(s)
    BY DEF AreSets
  <2>3. Elements(AfterIn(k, s[i])) = {s[i + n] : n \in 1 .. Len(s) - i}
    <3>1. PICK t : t = AfterIn(k, s[i])
      OBVIOUS
    <3>2. DOMAIN t = 1 .. Len(s) - i /\ \A n \in 1 .. Len(s) - i : t[n] = s[i + n]
      BY <2>1, <3>1
    <3> QED BY <3>1, <3>2 DEF Elements
  <2>4. Elements(BeforeIn(k, s[i])) = {s[i - n] : n \in 1 .. i - 1}
    <3>1. PICK t : t = BeforeIn(k, s[i])
      OBVIOUS
    <3>2. DOMAIN t = 1 .. i - 1 /\ \A n \in 1 .. i - 1 : t[n] = s[i - n]
      BY <2>1, <3>1
    <3> QED BY <3>1, <3>2 DEF Elements
  <2>5. ASSUME NEW c \in Elements(s) PROVE c \in SetIn(k, s[i])
    <3>1. PICK j \in 1 .. Len(s) : s[j] = c
      BY <2>2 DEF Elements
    <3>2. CASE j = i
      BY <3>1, <3>2 DEF SetIn
    <3>3. CASE j > i
      <4>1. j - i \in 1 .. Len(s) - i /\ i + (j - i) = j
        BY <2>2, <3>3
      <4> QED BY <2>3, <3>1, <4>1 DEF SetIn
    <3>4. CASE j < i
      <4>1. i - j \in 1 .. i - 1 /\ i - (i - j) = j
        BY <2>2, <3>4
      <4> QED BY <2>4, <3>1, <4>1 DEF SetIn
    <3> QED BY <2>2, <3>2, <3>3, <3>4
  <2>6. ASSUME NEW c \in SetIn(k, s[i]) PROVE c \in Elements(s)
    <3>1. \A n \in 1 .. Len(s) - i : i + n \in 1 .. Len(s)
      BY <2>2
    <3>2. \A n \in 1 .. i - 1 : i - n \in 1 .. Len(s)
      BY <2>2
    <3> QED BY <2>2, <2>3, <2>4, <3>1, <3>2 DEF SetIn, Elements
  <2> QED BY <2>5, <2>6
<1>2. ASSUME NEW c \in Cabs \ o PROVE SetIn(k, c) = {c}
  <2>1. k[c].nextcab = NULL /\ k[c].prevcab = NULL
    BY DEF AreCabs, NoCab
  <2>2. /\ IsFiniteSet(Cabs) /\ NULL \notin Cabs
        /\ NextIn(k) \in [Cabs -> OrNull(Cabs)] /\ PrevIn(k) \in [Cabs -> OrNull(Cabs)]
    BY PointersOpen, ImageAssumption
  <2>3. IsList(NextIn(k), NULL, <<>>) /\ IsList(PrevIn(k), NULL, <<>>)
    BY DEF IsList, Distinct
  <2>4. AfterIn(k, c) = <<>> /\ BeforeIn(k, c) = <<>>
    BY <2>1, <2>2, <2>3, ListIs DEF AfterIn, BeforeIn
  <2> QED BY <2>4 DEF SetIn, Elements
<1> QED BY <1>1, <1>2

\* The sets that Sets reads from the pointers are those that are there.
LEMMA SetsInIs ==
    ASSUME NEW S, NEW o, NEW k, AreCabs(o, k), AreSets(S, o, k)
    PROVE  SetsIn(o, k) = S
<1>1. ASSUME NEW s \in S
      PROVE  s[1] \in o /\ k[s[1]].prevcab = NULL /\ <<s[1]>> \o AfterIn(k, s[1]) = s
  <2>1. Len(s) \in Nat \ {0} /\ s \in Seq(Cabs) /\ 1 \in 1 .. Len(s) /\ s[1] \in o
    <3>1. Len(s) \in Nat \ {0} /\ \A i \in 1 .. Len(s) : s[i] \in o /\ s[i] \in Cabs
      BY PlaceInSet
    <3>2. s \in Seq(Cabs)
      BY DEF AreSets
    <3>3. 1 \in 1 .. Len(s)
      BY <3>1
    <3> QED BY <3>1, <3>2, <3>3
  <2>2. k[s[1]].prevcab = NULL
    BY <2>1 DEF AreSets, LastBefore
  <2>3. PICK t : t = [n \in 1 .. Len(s) - 1 |-> s[1 + n]]
    OBVIOUS
  <2>4. AfterIn(k, s[1]) = t
    <3>1. PICK i \in 1 .. Len(s) : i = 1
      BY <2>1
    <3>2. /\ AfterIn(k, s[i]) = [n \in 1 .. Len(s) - i |-> s[i + n]]
          /\ BeforeIn(k, s[i]) = [n \in 1 .. i - 1 |-> s[i - n]]
      BY ChainsAre
    <3> QED BY <2>3, <3>1, <3>2
  <2>5. t \in Seq(Cabs) /\ Len(t) = Len(s) - 1 /\ \A n \in 1 .. Len(t) : t[n] = s[1 + n]
    BY <2>1, <2>3
  <2>6. <<s[1]>> \o t = s
    <3>1. s[1] \in Cabs
      BY <2>1
    <3>2. /\ Len(<<s[1]>> \o t) = Len(s)
          /\ \A n \in 1 .. Len(s) : (<<s[1]>> \o t)[n] = IF n = 1 THEN s[1] ELSE t[n - 1]
      BY <2>1, <2>5, <3>1
    <3>3. <<s[1]>> \o t \in Seq(Cabs)
      BY <2>5, <3>1
    <3>4. \A n \in 1 .. Len(s) : (<<s[1]>> \o t)[n] = s[n]
      BY <2>1, <2>5, <3>2
    <3> QED BY <2>1, <3>2, <3>3, <3>4, SeqEqual
  <2> QED BY <2>1, <2>2, <2>4, <2>6
<1>2. ASSUME NEW c \in o, k[c].prevcab = NULL PROVE \E s \in S : s[1] = c
  <2>1. PICK s \in S : \E i \in 1 .. Len(s) : s[i] = c
    BY PlaceInSet
  <2>2. PICK i \in 1 .. Len(s) : s[i] = c
    BY <2>1
  <2>3. LastBefore(s, i) = NULL /\ \A n \in 1 .. Len(s) : s[n] # NULL /\ Len(s) \in Nat
    BY <1>2, <2>2, PlaceInSet, ImageAssumption DEF AreSets
  <2>4. i = 1
    BY <2>3 DEF LastBefore
  <2> QED BY <2>2, <2>4
<1>3. S \subseteq SetsIn(o, k)
  BY <1>1 DEF SetsIn
<1>4. SetsIn(o, k) \subseteq S
  <2>1. ASSUME NEW c \in o, k[c].prevcab = NULL PROVE <<c>> \o AfterIn(k, c) \in S
    <3>1. PICK s \in S : s[1] = c
      BY <1>2, <2>1
    <3> QED BY <1>1, <3>1
  <2> QED BY <2>1 DEF SetsIn
<1> QED BY <1>3, <1>4

-----------------------------------------------------------------------------
(* The cabinet objects make up the sets of CabSet.                           *)

\* What Sets stands for.
LEMMA SetsRead ==
    /\ Sets = SetsIn(opened, cab)
    /\ \A c : SetOf(c) = SetIn(cab, c)
  BY DEF Sets, SetFrom, After, Before, NextCab, PrevCab, SetsIn, SetOf, SetIn, AfterIn, BeforeIn,
         NextIn, PrevIn

\* open and search add a set for each cabinet.
LEMMA ReadHeadersSets ==
    ASSUME NEW S, AreCabs(opened, cab), AreSets(S, opened, cab),
           NEW q \in Seq(Cabs), Elements(q) \cap opened = {}, ReadHeaders(q)
    PROVE  /\ opened' = opened \cup Elements(q) /\ AreCabs(opened', cab')
           /\ AreSets(S \cup {<<c>> : c \in Elements(q)}, opened', cab')
<1>1. /\ opened' = opened \cup Elements(q)
      /\ \A c \in Elements(q) : \E i \in 1 .. Len(q) : q[i] = c
      /\ Elements(q) \subseteq Cabs
  BY DEF ReadHeaders, Elements
<1>2. /\ DOMAIN cab' = Cabs
      /\ \A c \in Cabs \ Elements(q) : cab'[c] = cab[c]
      /\ \A c \in Elements(q) :
            /\ IsCab(cab'[c]) /\ cab'[c].prevcab = NULL /\ cab'[c].nextcab = NULL
            /\ cab'[c].next = LET i == CHOOSE i \in DOMAIN q : q[i] = c
                              IN  IF i = Len(q) THEN NULL ELSE q[i + 1]
  BY <1>1 DEF ReadHeaders, IsCab
<1>3. ASSUME NEW c \in Elements(q) PROVE cab'[c].next \in OrNull(Cabs)
  <2> DEFINE i == CHOOSE i \in DOMAIN q : q[i] = c
  <2>1. i \in 1 .. Len(q) /\ Len(q) \in Nat
    BY DEF Elements
  <2> HIDE DEF i
  <2>2. i # Len(q) => q[i + 1] \in Cabs
    BY <2>1
  <2> QED BY <1>2, <2>2 DEF i, OrNull
<1>4. AreCabs(opened', cab')
  BY <1>1, <1>2, <1>3 DEF AreCabs
<1>5. PICK S2 : S2 = S \cup {<<c>> : c \in Elements(q)}
  OBVIOUS
<1>6. ASSUME NEW s \in S2
      PROVE  \/ s \in S /\ \A i \in 1 .. Len(s) : s[i] \in opened
             \/ \E c \in Elements(q) : s = <<c>> /\ Len(s) = 1 /\ s[1] = c
  BY <1>5, PlaceInSet
<1>7. AreSets(S2, opened', cab')
  <2>1. \A s \in S2 : s \in Seq(Cabs) /\ s # <<>>
    <3>1. \A c \in Elements(q) : <<c>> \in Seq(Cabs) /\ <<c>> # <<>>
      BY <1>1
    <3>2. \A s \in S : s \in Seq(Cabs) /\ s # <<>>
      BY DEF AreSets
    <3> QED BY <1>5, <3>1, <3>2
  <2>2. ASSUME NEW s \in S2, NEW t \in S2, NEW i \in 1 .. Len(s), NEW j \in 1 .. Len(t), s[i] = t[j]
        PROVE  s = t /\ i = j
    <3>1. CASE s \in S /\ t \in S
      BY <2>2, <3>1 DEF AreSets
    <3>2. CASE s \notin S \/ t \notin S
      <4>1. \A c \in Elements(q) : c \notin opened
        OBVIOUS
      <4>2. s \notin S => \E c \in Elements(q) : s = <<c>> /\ Len(s) = 1 /\ s[1] = c
        BY <1>6
      <4>3. t \notin S => \E c \in Elements(q) : t = <<c>> /\ Len(t) = 1 /\ t[1] = c
        BY <1>6
      <4>4. s \in S => s[i] \in opened
        BY PlaceInSet
      <4>5. t \in S => t[j] \in opened
        BY PlaceInSet
      <4>6. s \notin S /\ t \notin S
        BY <2>2, <3>2, <4>1, <4>2, <4>3, <4>4, <4>5
      <4> QED BY <2>2, <4>2, <4>3, <4>6
    <3> QED BY <3>1, <3>2
  <2>3. opened' = UNION {Elements(s) : s \in S2}
    <3>1. \A c \in Elements(q) : <<c>> \in S2 /\ Elements(<<c>>) = {c}
      BY <1>5 DEF Elements
    <3>2. opened = UNION {Elements(s) : s \in S} /\ \A s \in S : s \in S2
      BY <1>5 DEF AreSets
    <3>3. ASSUME NEW s \in S2 PROVE Elements(s) \subseteq opened'
      <4>1. CASE s \in S
        BY <1>1, <3>2, <4>1
      <4>2. CASE s \notin S
        <5>1. PICK c \in Elements(q) : s = <<c>>
          BY <1>6, <4>2
        <5> QED BY <1>1, <3>1, <5>1
      <4> QED BY <4>1, <4>2
    <3>4. ASSUME NEW c \in opened' PROVE \E s \in S2 : c \in Elements(s)
      <4>1. CASE c \in opened
        BY <3>2, <4>1
      <4>2. CASE c \in Elements(q)
        BY <3>1, <4>2
      <4> QED BY <1>1, <4>1, <4>2
    <3> QED BY <3>3, <3>4
  <2>4. ASSUME NEW s \in S2, NEW i \in 1 .. Len(s)
        PROVE  cab'[s[i]].nextcab = NextAfter(s, i) /\ cab'[s[i]].prevcab = LastBefore(s, i)
    <3>1. CASE s \in S
      <4>1. s[i] \in Cabs \ Elements(q)
        BY <3>1, PlaceInSet
      <4> QED BY <1>2, <3>1, <4>1 DEF AreSets
    <3>2. CASE s \notin S
      <4>1. PICK c \in Elements(q) : s = <<c>> /\ Len(s) = 1 /\ s[1] = c
        BY <1>6, <3>2
      <4>2. i = 1 /\ s[i] = c /\ NextAfter(s, i) = NULL /\ LastBefore(s, i) = NULL
        BY <4>1 DEF NextAfter, LastBefore
      <4> QED BY <1>2, <4>2
    <3> QED BY <3>1, <3>2
  <2> QED BY <2>1, <2>2, <2>3, <2>4 DEF AreSets
<1> QED BY <1>1, <1>4, <1>5, <1>7

\* What Attach does to the objects.
LEMMA AttachIs ==
    ASSUME AreCabs(opened, cab), NEW l \in Cabs, NEW r \in Cabs, l # r, NEW head,
           Attach(l, r, head)
    PROVE  /\ DOMAIN cab' = Cabs
           /\ \A c \in Cabs :
                 /\ IsCab(cab'[c])
                 /\ cab'[c].next = cab[c].next
                 /\ cab'[c].nextcab = IF c = l THEN r ELSE cab[c].nextcab
                 /\ cab'[c].prevcab = IF c = r THEN l ELSE cab[c].prevcab
                 /\ LET given == Elements(Before(l)) \cup {r} \cup Elements(After(r))
                    IN  /\ cab'[c].files = IF c = l \/ c \in given THEN head ELSE cab[c].files
                        /\ cab'[c].folders = IF c \in given THEN cab[l].folders ELSE cab[c].folders
<1> DEFINE attached == [cab EXCEPT ![l].nextcab = r, ![r].prevcab = l, ![l].files = head]
           given == Elements(Before(l)) \cup ({r} \cup Elements(After(r)))
<1>1. cab' = [c \in Cabs |-> IF c \in given
                             THEN [attached[c] EXCEPT !.files = head, !.folders = cab[l].folders]
                             ELSE attached[c]]
  BY DEF Attach
<1>2. DOMAIN cab = Cabs /\ \A c \in Cabs : IsCab(cab[c])
  BY DEF AreCabs
<1>3. ASSUME NEW c \in Cabs
      PROVE  attached[c] = [next |-> cab[c].next,
                            prevcab |-> IF c = r THEN l ELSE cab[c].prevcab,
                            nextcab |-> IF c = l THEN r ELSE cab[c].nextcab,
                            files |-> IF c = l THEN head ELSE cab[c].files,
                            folders |-> cab[c].folders]
  <2>1. PICK v : v = cab[c]
    OBVIOUS
  <2>2. v = [next |-> v.next, prevcab |-> v.prevcab, nextcab |-> v.nextcab,
             files |-> v.files, folders |-> v.folders]
    BY <1>2, <2>1 DEF IsCab
  <2>3. CASE c = l
    <3>1. attached[c] = [[v EXCEPT !.nextcab = r] EXCEPT !.files = head]
      BY <1>2, <2>1, <2>3
    <3>2. [[v EXCEPT !.nextcab = r] EXCEPT !.files = head] =
             [next |-> v.next, prevcab |-> v.prevcab, nextcab |-> r,
              files |-> head, folders |-> v.folders]
      <4>1. PICK w : w = [v EXCEPT !.nextcab = r]
        OBVIOUS
      <4>2. w = [next |-> v.next, prevcab |-> v.prevcab, nextcab |-> r,
                 files |-> v.files, folders |-> v.folders]
        BY <2>2, <4>1
      <4>3. [w EXCEPT !.files = head] =
               [next |-> v.next, prevcab |-> v.prevcab, nextcab |-> r,
                files |-> head, folders |-> v.folders]
        BY <4>2
      <4> QED BY <4>1, <4>3
    <3>3. c # r
      BY <2>3
    <3> QED BY <2>1, <2>3, <3>1, <3>2, <3>3
  <2>4. CASE c = r
    <3>1. attached[c] = [v EXCEPT !.prevcab = l]
      BY <1>2, <2>1, <2>4
    <3> QED BY <2>1, <2>2, <2>4, <3>1
  <2>5. CASE c # l /\ c # r
    <3>1. attached[c] = v
      BY <1>2, <2>1, <2>5
    <3> QED BY <2>1, <2>2, <2>5, <3>1
  <2> QED BY <2>3, <2>4, <2>5
<1> HIDE DEF attached, given
<1>4. DOMAIN cab' = Cabs
  BY <1>1
<1>5. given = Elements(Before(l)) \cup {r} \cup Elements(After(r))
  BY DEF given
<1>6. ASSUME NEW c \in Cabs
      PROVE  /\ IsCab(cab'[c])
             /\ cab'[c].next = cab[c].next
             /\ cab'[c].nextcab = IF c = l THEN r ELSE cab[c].nextcab
             /\ cab'[c].prevcab = IF c = r THEN l ELSE cab[c].prevcab
             /\ cab'[c].files = IF c = l \/ c \in given THEN head ELSE cab[c].files
             /\ cab'[c].folders = IF c \in given THEN cab[l].folders ELSE cab[c].folders
  <2>1. PICK prev : prev = IF c = r THEN l ELSE cab[c].prevcab
    OBVIOUS
  <2>2. PICK next : next = IF c = l THEN r ELSE cab[c].nextcab
    OBVIOUS
  <2>3. PICK fs : fs = IF c = l THEN head ELSE cab[c].files
    OBVIOUS
  <2>4. PICK v : v = attached[c]
    OBVIOUS
  <2>5. v = [next |-> cab[c].next, prevcab |-> prev, nextcab |-> next,
             files |-> fs, folders |-> cab[c].folders]
    BY <1>3, <2>1, <2>2, <2>3, <2>4
  <2>6. CASE c \in given
    <3>1. cab'[c] = [[v EXCEPT !.files = head] EXCEPT !.folders = cab[l].folders]
      BY <1>1, <2>4, <2>6
    <3>2. cab'[c] = [next |-> cab[c].next, prevcab |-> prev, nextcab |-> next,
                     files |-> head, folders |-> cab[l].folders]
      BY <2>5, <3>1
    <3>3. /\ IsCab(cab'[c]) /\ cab'[c].next = cab[c].next
          /\ cab'[c].prevcab = prev /\ cab'[c].nextcab = next
          /\ cab'[c].files = head /\ cab'[c].folders = cab[l].folders
      BY <3>2 DEF IsCab
    <3> QED BY <2>1, <2>2, <2>6, <3>3
  <2>7. CASE c \notin given
    <3>1. cab'[c] = v
      BY <1>1, <2>4, <2>7
    <3>2. /\ IsCab(cab'[c]) /\ cab'[c].next = cab[c].next
          /\ cab'[c].prevcab = prev /\ cab'[c].nextcab = next
          /\ cab'[c].files = fs /\ cab'[c].folders = cab[c].folders
      BY <2>5, <3>1 DEF IsCab
    <3> QED BY <2>1, <2>2, <2>3, <2>7, <3>2
  <2> QED BY <2>6, <2>7
<1> QED BY <1>4, <1>5, <1>6

\* append and prepend are given the last cabinet of a set and the first one of another.
LEMMA JoinedEnds ==
    ASSUME NEW S, AreCabs(opened, cab), AreSets(S, opened, cab),
           NEW l \in opened, NEW r \in opened, ~CannotAttach(l, r)
    PROVE  \E s, t \in S :
              /\ s # t /\ s[Len(s)] = l /\ t[1] = r
              /\ Elements(Before(l)) \cup {l} = Elements(s)
              /\ {r} \cup Elements(After(r)) = Elements(t)
<1>1. /\ l # r /\ cab[l].nextcab = NULL /\ cab[r].prevcab = NULL
      /\ r \notin Elements(BeforeIn(cab, l))
  BY DEF CannotAttach, Before, BeforeIn, PrevCab, PrevIn
<1> PICK s \in S : \E i \in 1 .. Len(s) : s[i] = l
  BY PlaceInSet
<1>2. PICK i \in 1 .. Len(s) : s[i] = l
  OBVIOUS
<1> PICK t \in S : \E j \in 1 .. Len(t) : t[j] = r
  BY PlaceInSet
<1>3. PICK j \in 1 .. Len(t) : t[j] = r
  OBVIOUS
<1>4. /\ Len(s) \in Nat \ {0} /\ \A n \in 1 .. Len(s) : s[n] \in Cabs
      /\ Len(t) \in Nat \ {0} /\ \A n \in 1 .. Len(t) : t[n] \in Cabs
      /\ NULL \notin Cabs
  BY PlaceInSet, ImageAssumption
<1>5. i = Len(s)
  <2>1. NextAfter(s, i) = NULL
    BY <1>1, <1>2 DEF AreSets
  <2> QED BY <1>4, <2>1 DEF NextAfter
<1>6. j = 1
  <2>1. LastBefore(t, j) = NULL
    BY <1>1, <1>3 DEF AreSets
  <2> QED BY <1>4, <2>1 DEF LastBefore
<1>7. SetIn(cab, s[i]) = Elements(s) /\ SetIn(cab, t[j]) = Elements(t)
  BY SetInIs
<1>8. Elements(AfterIn(cab, l)) = {} /\ Elements(BeforeIn(cab, r)) = {}
  BY <1>2, <1>3, <1>5, <1>6, EndsAre
<1>9. Elements(BeforeIn(cab, l)) \cup {l} = Elements(s) /\ {r} \cup Elements(AfterIn(cab, r)) = Elements(t)
  BY <1>2, <1>3, <1>7, <1>8 DEF SetIn
<1>10. s # t
  <2>1. r \in Elements(t)
    BY <1>9
  <2> QED BY <1>1, <1>9, <2>1
<1> QED
  BY <1>2, <1>3, <1>5, <1>6, <1>9, <1>10
     DEF Before, BeforeIn, PrevCab, PrevIn, After, AfterIn, NextCab, NextIn

\* They become one set.
LEMMA AttachSets ==
    ASSUME NEW S, AreCabs(opened, cab), AreSets(S, opened, cab),
           NEW s \in S, NEW t \in S, s # t, NEW l, NEW r, s[Len(s)] = l, t[1] = r,
           NEW head, Attach(l, r, head)
    PROVE  AreCabs(opened, cab') /\ AreSets((S \ {s, t}) \cup {s \o t}, opened, cab')
<1>1. /\ Len(s) \in Nat \ {0} /\ Len(t) \in Nat \ {0}
      /\ s \in Seq(Cabs) /\ t \in Seq(Cabs)
      /\ \A i \in 1 .. Len(s) : s[i] \in opened /\ s[i] \in Cabs
      /\ \A i \in 1 .. Len(t) : t[i] \in opened /\ t[i] \in Cabs
  <2>1. s \in Seq(Cabs) /\ t \in Seq(Cabs)
    BY DEF AreSets
  <2> QED BY <2>1, PlaceInSet
<1>2. Len(s) \in 1 .. Len(s) /\ 1 \in 1 .. Len(t) /\ l \in Cabs /\ r \in Cabs
  BY <1>1
<1>3. \A x, y \in S : \A i \in 1 .. Len(x), j \in 1 .. Len(y) : x[i] = y[j] => x = y /\ i = j
  BY DEF AreSets
<1>4. l # r
  BY <1>2, <1>3
<1>5. /\ DOMAIN cab' = Cabs
      /\ \A c \in Cabs :
            /\ IsCab(cab'[c])
            /\ cab'[c].next = cab[c].next
            /\ cab'[c].nextcab = IF c = l THEN r ELSE cab[c].nextcab
            /\ cab'[c].prevcab = IF c = r THEN l ELSE cab[c].prevcab
            /\ c # l /\ c \notin Elements(Before(l)) \cup {r} \cup Elements(After(r))
                  => cab'[c].files = cab[c].files /\ cab'[c].folders = cab[c].folders
  BY <1>2, <1>4, AttachIs
<1>6. PICK u : u = s \o t
  OBVIOUS
<1>7. /\ u \in Seq(Cabs) /\ Len(u) = Len(s) + Len(t) /\ u # <<>>
      /\ \A i \in 1 .. Len(u) : u[i] = IF i <= Len(s) THEN s[i] ELSE t[i - Len(s)]
  BY <1>1, <1>6
<1>8. ASSUME NEW i \in 1 .. Len(u)
      PROVE  \E w \in {s, t} : \E j \in 1 .. Len(w) :
                u[i] = w[j] /\ i = IF w = s THEN j ELSE Len(s) + j
  <2>1. CASE i <= Len(s)
    BY <1>1, <1>7, <2>1
  <2>2. CASE ~(i <= Len(s))
    <3>1. i - Len(s) \in 1 .. Len(t) /\ i = Len(s) + (i - Len(s)) /\ u[i] = t[i - Len(s)]
      BY <1>1, <1>7, <2>2
    <3> QED BY <3>1
  <2> QED BY <2>1, <2>2
<1>9. PICK S2 : S2 = (S \ {s, t}) \cup {u}
  OBVIOUS
<1>10. AreCabs(opened, cab')
  <2>1. \A c \in Cabs \ opened : cab'[c] = cab[c]
    <3>1. SUFFICES ASSUME NEW c \in Cabs \ opened PROVE cab'[c] = cab[c]
      OBVIOUS
    <3>2. c # l /\ c # r
      BY <1>1, <1>2
    <3>3. /\ SetIn(cab, s[Len(s)]) = Elements(s) /\ SetIn(cab, t[1]) = Elements(t)
          /\ Elements(s) \subseteq opened /\ Elements(t) \subseteq opened
      <4>1. SetIn(cab, s[Len(s)]) = Elements(s) /\ SetIn(cab, t[1]) = Elements(t)
        BY <1>2, SetInIs
      <4>2. opened = UNION {Elements(w) : w \in S}
        BY DEF AreSets
      <4> QED BY <4>1, <4>2
    <3>4. Elements(Before(l)) \subseteq opened /\ Elements(After(r)) \subseteq opened
      <4>1. Elements(BeforeIn(cab, l)) \subseteq opened /\ Elements(AfterIn(cab, r)) \subseteq opened
        BY <3>3 DEF SetIn
      <4> QED BY <4>1 DEF Before, BeforeIn, PrevCab, PrevIn, After, AfterIn, NextCab, NextIn
    <3>5. /\ IsCab(cab'[c]) /\ IsCab(cab[c])
          /\ cab'[c].next = cab[c].next /\ cab'[c].nextcab = cab[c].nextcab
          /\ cab'[c].prevcab = cab[c].prevcab
          /\ cab'[c].files = cab[c].files /\ cab'[c].folders = cab[c].folders
      BY <1>5, <3>2, <3>4 DEF AreCabs
    <3> QED BY <3>5 DEF IsCab
  <2> QED BY <1>5, <2>1 DEF AreCabs
<1>11. \A x \in S2 : x \in Seq(Cabs) /\ x # <<>>
  BY <1>7, <1>9 DEF AreSets
<1>12. ASSUME NEW x \in S2, NEW y \in S2, NEW i \in 1 .. Len(x), NEW j \in 1 .. Len(y), x[i] = y[j]
       PROVE  x = y /\ i = j
  <2>1. CASE x # u /\ y # u
    BY <1>3, <1>9, <1>12, <2>1
  <2>2. CASE x = u /\ y # u
    <3> PICK w \in {s, t} : \E m \in 1 .. Len(w) : u[i] = w[m]
      BY <1>8, <2>2
    <3>1. PICK m \in 1 .. Len(w) : u[i] = w[m]
      OBVIOUS
    <3>2. w \in S /\ y \in S /\ y # w
      BY <1>9, <2>2
    <3> QED BY <1>3, <1>12, <2>2, <3>1, <3>2
  <2>3. CASE x # u /\ y = u
    <3> PICK w \in {s, t} : \E m \in 1 .. Len(w) : u[j] = w[m]
      BY <1>8, <2>3
    <3>1. PICK m \in 1 .. Len(w) : u[j] = w[m]
      OBVIOUS
    <3>2. w \in S /\ x \in S /\ x # w
      BY <1>9, <2>3
    <3> QED BY <1>3, <1>12, <2>3, <3>1, <3>2
  <2>4. CASE x = u /\ y = u
    <3> PICK w \in {s, t} : \E m \in 1 .. Len(w) : u[i] = w[m] /\ i = IF w = s THEN m ELSE Len(s) + m
      BY <1>8, <2>4
    <3>1. PICK m \in 1 .. Len(w) : u[i] = w[m] /\ i = IF w = s THEN m ELSE Len(s) + m
      OBVIOUS
    <3> PICK v \in {s, t} : \E n \in 1 .. Len(v) : u[j] = v[n] /\ j = IF v = s THEN n ELSE Len(s) + n
      BY <1>8, <2>4
    <3>2. PICK n \in 1 .. Len(v) : u[j] = v[n] /\ j = IF v = s THEN n ELSE Len(s) + n
      OBVIOUS
    <3>3. w = v /\ m = n
      BY <1>3, <1>12, <2>4, <3>1, <3>2
    <3> QED BY <2>4, <3>1, <3>2, <3>3
  <2> QED BY <2>1, <2>2, <2>3, <2>4
<1>13. Elements(u) = Elements(s) \cup Elements(t)
  <2>1. DOMAIN u = 1 .. Len(u) /\ DOMAIN s = 1 .. Len(s) /\ DOMAIN t = 1 .. Len(t)
    BY <1>1, <1>7
  <2>2. \A i \in 1 .. Len(s) : i \in 1 .. Len(u) /\ u[i] = s[i]
    BY <1>1, <1>7
  <2>3. ASSUME NEW i \in 1 .. Len(t)
        PROVE  Len(s) + i \in 1 .. Len(u) /\ u[Len(s) + i] = t[i]
    <3>1. Len(s) + i \in 1 .. Len(u) /\ ~(Len(s) + i <= Len(s)) /\ (Len(s) + i) - Len(s) = i
      BY <1>1, <1>7
    <3> QED BY <1>7, <3>1
  <2>4. ASSUME NEW i \in 1 .. Len(u) PROVE u[i] \in Elements(s) \cup Elements(t)
    <3> PICK w \in {s, t} : \E m \in 1 .. Len(w) : u[i] = w[m]
      BY <1>8
    <3>1. PICK m \in 1 .. Len(w) : u[i] = w[m]
      OBVIOUS
    <3> QED BY <2>1, <3>1 DEF Elements
  <2> QED BY <2>1, <2>2, <2>3, <2>4 DEF Elements
<1>14. opened = UNION {Elements(x) : x \in S2}
  <2>1. opened = UNION {Elements(x) : x \in S}
    BY DEF AreSets
  <2> QED BY <1>9, <1>13, <2>1
<1>15. ASSUME NEW x \in S2, NEW i \in 1 .. Len(x)
       PROVE  cab'[x[i]].nextcab = NextAfter(x, i) /\ cab'[x[i]].prevcab = LastBefore(x, i)
  <2>1. \A w \in S : \A n \in 1 .. Len(w) :
           /\ w[n] \in Cabs /\ cab[w[n]].nextcab = NextAfter(w, n)
           /\ cab[w[n]].prevcab = LastBefore(w, n)
    BY PlaceInSet DEF AreSets
  <2>2. CASE x # u
    <3>1. x \in S /\ x # s /\ x # t
      BY <1>9, <2>2
    <3>2. x[i] # l /\ x[i] # r
      BY <1>2, <1>3, <3>1
    <3> QED BY <1>5, <2>1, <3>1, <3>2
  <2>3. CASE x = u /\ i <= Len(s)
    <3>1. i \in 1 .. Len(s) /\ x[i] = s[i] /\ s[i] \in Cabs
      BY <1>1, <1>7, <2>3
    <3>2. s[i] # r /\ (s[i] = l <=> i = Len(s))
      BY <1>2, <1>3, <3>1
    <3>3. /\ cab'[x[i]].nextcab = IF i = Len(s) THEN r ELSE NextAfter(s, i)
          /\ cab'[x[i]].prevcab = LastBefore(s, i)
      BY <1>5, <2>1, <3>1, <3>2
    <3>4. i # Len(s) => i + 1 \in 1 .. Len(u) /\ u[i + 1] = s[i + 1]
      BY <1>1, <1>7, <3>1
    <3>5. i = Len(s) => i # Len(u) /\ u[i + 1] = r
      <4>1. i = Len(s) => i + 1 \in 1 .. Len(u) /\ ~(i + 1 <= Len(s)) /\ (i + 1) - Len(s) = 1
        BY <1>1, <1>7
      <4>2. i = Len(s) => i # Len(u)
        BY <1>1, <1>7
      <4> QED BY <1>7, <4>1, <4>2
    <3>6. i # 1 => i - 1 \in 1 .. Len(u) /\ u[i - 1] = s[i - 1]
      <4>1. i # 1 => i - 1 \in 1 .. Len(u) /\ i - 1 <= Len(s)
        BY <1>1, <1>7, <3>1
      <4> QED BY <1>7, <4>1
    <3>7. i # Len(s) => i # Len(u)
      BY <1>1, <1>7, <3>1
    <3> QED BY <2>3, <3>3, <3>4, <3>5, <3>6, <3>7 DEF NextAfter, LastBefore
  <2>4. CASE x = u /\ ~(i <= Len(s))
    <3>1. PICK j \in 1 .. Len(t) : i = Len(s) + j /\ x[i] = t[j] /\ t[j] \in Cabs
      <4>1. i - Len(s) \in 1 .. Len(t) /\ i = Len(s) + (i - Len(s)) /\ x[i] = t[i - Len(s)]
        BY <1>1, <1>7, <2>4
      <4> QED BY <1>1, <4>1
    <3>2. t[j] # l /\ (t[j] = r <=> j = 1)
      <4>1. t[j] = s[Len(s)] => t = s
        BY <1>2, <1>3
      <4>2. t[j] = t[1] => j = 1
        BY <1>2, <1>3
      <4> QED BY <4>1, <4>2
    <3>3. /\ cab'[x[i]].nextcab = NextAfter(t, j)
          /\ cab'[x[i]].prevcab = IF j = 1 THEN l ELSE LastBefore(t, j)
      BY <1>5, <2>1, <3>1, <3>2
    <3>4. (i = Len(u) <=> j = Len(t)) /\ i # 1
      <4>1. Len(u) = Len(s) + Len(t) /\ Len(s) \in Nat \ {0} /\ Len(t) \in Nat /\ i = Len(s) + j
        BY <1>1, <1>7, <3>1
      <4> QED BY <4>1
    <3>5. j # Len(t) => u[i + 1] = t[j + 1]
      <4>1. j # Len(t) => i + 1 \in 1 .. Len(u) /\ ~(i + 1 <= Len(s)) /\ (i + 1) - Len(s) = j + 1
        BY <1>1, <1>7, <3>1
      <4> QED BY <1>7, <4>1
    <3>6. j = 1 => u[i - 1] = l
      <4>1. j = 1 => i - 1 \in 1 .. Len(u) /\ i - 1 = Len(s)
        BY <1>1, <1>7, <3>1
      <4> QED BY <1>1, <1>7, <4>1
    <3>7. j # 1 => u[i - 1] = t[j - 1]
      <4>1. j # 1 => i - 1 \in 1 .. Len(u) /\ ~(i - 1 <= Len(s)) /\ (i - 1) - Len(s) = j - 1
        BY <1>1, <1>7, <3>1
      <4> QED BY <1>7, <4>1
    <3> QED BY <2>4, <3>3, <3>4, <3>5, <3>6, <3>7 DEF NextAfter, LastBefore
  <2> QED BY <2>2, <2>3, <2>4
<1>16. AreSets(S2, opened, cab')
  BY <1>11, <1>12, <1>14, <1>15 DEF AreSets
<1> QED BY <1>6, <1>9, <1>10, <1>16

\* close ends the sets of the cabinets that were found with the one it is given.
Ended(S, c) == {s \in S : Elements(s) \cap ClosedHeads(c) # {}}

LEMMA CloseSets ==
    ASSUME NEW S, AreCabs(opened, cab), AreSets(S, opened, cab), NEW c \in Cabs, CloseCabs(c)
    PROVE  /\ opened' = opened \ UNION {Elements(s) : s \in Ended(S, c)}
           /\ AreCabs(opened', cab') /\ AreSets(S \ Ended(S, c), opened', cab')
<1>1. ClosedHeads(c) \subseteq Cabs
  <2>1. FoundNext \in [Cabs -> OrNull(Cabs)]
    BY DEF FoundNext, AreCabs
  <2>2. IsFiniteSet(Cabs) /\ NULL \notin Cabs /\ c \in OrNull(Cabs)
    BY ImageAssumption DEF OrNull
  <2> QED BY <2>1, <2>2, ListTyped DEF ClosedHeads
<1>2. PICK gone : gone = UNION {SetIn(cab, h) : h \in ClosedHeads(c)}
  OBVIOUS
<1>3. opened' = opened \ gone
  <2>1. opened' = opened \ UNION {SetOf(h) : h \in ClosedHeads(c)}
    BY DEF CloseCabs
  <2> QED BY <1>2, <2>1, SetsRead
<1>4. PICK ended : ended = Ended(S, c)
  OBVIOUS
<1>5. /\ \A s, t \in S : \A x : x \in Elements(s) /\ x \in Elements(t) => s = t
      /\ opened = UNION {Elements(s) : s \in S}
      /\ \A s \in S : DOMAIN s = 1 .. Len(s)
  <2>1. \A s \in S : DOMAIN s = 1 .. Len(s)
    BY DEF AreSets
  <2>2. \A s, t \in S : \A i \in 1 .. Len(s), j \in 1 .. Len(t) : s[i] = t[j] => s = t
    BY DEF AreSets
  <2>3. opened = UNION {Elements(s) : s \in S}
    BY DEF AreSets
  <2> QED BY <2>1, <2>2, <2>3 DEF Elements
<1>6. \A s \in S : \A h \in Elements(s) : SetIn(cab, h) = Elements(s)
  BY <1>5, SetInIs DEF Elements
<1>7. \A h \in Cabs \ opened : SetIn(cab, h) = {h}
  BY SetInIs
<1>8. ASSUME NEW s \in S, NEW x \in Elements(s) PROVE x \in gone <=> s \in ended
  <2>1. ASSUME x \in gone PROVE s \in ended
    <3>1. PICK h \in ClosedHeads(c) : x \in SetIn(cab, h)
      BY <1>2, <2>1
    <3>2. CASE h \in opened
      <4>1. PICK t \in S : h \in Elements(t)
        BY <1>5, <3>2
      <4>2. x \in Elements(t)
        BY <1>6, <3>1, <4>1
      <4> QED BY <1>4, <1>5, <3>1, <4>1, <4>2 DEF Ended
    <3>3. CASE h \notin opened
      BY <1>1, <1>5, <1>7, <3>1, <3>3
    <3> QED BY <3>2, <3>3
  <2>2. ASSUME s \in ended PROVE x \in gone
    <3>1. PICK h \in ClosedHeads(c) : h \in Elements(s)
      BY <1>4, <2>2 DEF Ended
    <3>2. x \in SetIn(cab, h)
      BY <1>6, <3>1
    <3> QED BY <1>2, <3>1, <3>2
  <2> QED BY <2>1, <2>2
<1>9. opened' = UNION {Elements(s) : s \in S \ ended}
  <2>1. ASSUME NEW x \in opened' PROVE \E s \in S \ ended : x \in Elements(s)
    <3>1. x \in opened /\ x \notin gone
      BY <1>3
    <3>2. PICK s \in S : x \in Elements(s)
      BY <1>5, <3>1
    <3> QED BY <1>8, <3>1, <3>2
  <2>2. ASSUME NEW s \in S \ ended, NEW x \in Elements(s) PROVE x \in opened'
    <3>1. x \in opened
      BY <1>5
    <3> QED BY <1>3, <1>8, <3>1
  <2> QED BY <2>1, <2>2
<1>10. opened' = opened \ UNION {Elements(s) : s \in ended}
  <2>1. ended \subseteq S
    BY <1>4 DEF Ended
  <2>2. ASSUME NEW x \in opened
        PROVE  x \in gone <=> \E s \in ended : x \in Elements(s)
    <3>1. PICK s \in S : x \in Elements(s)
      BY <1>5
    <3> QED BY <1>5, <1>8, <2>1, <3>1
  <2> QED BY <1>3, <2>2
<1>11. cab' = [x \in Cabs |-> IF x \in opened' THEN cab[x] ELSE NoCab] /\ opened' \subseteq opened
  BY <1>3 DEF CloseCabs
<1>12. AreCabs(opened', cab')
  <2>1. IsCab(NoCab) /\ NoCab.next \in OrNull(Cabs)
    BY DEF IsCab, NoCab, OrNull
  <2> QED BY <1>11, <2>1 DEF AreCabs
<1>13. AreSets(S \ ended, opened', cab')
  <2>1. ASSUME NEW s \in S \ ended, NEW i \in 1 .. Len(s) PROVE cab'[s[i]] = cab[s[i]]
    <3>1. s[i] \in Elements(s) /\ s[i] \in Cabs
      BY <1>5, PlaceInSet DEF Elements
    <3>2. s[i] \in opened'
      BY <1>9, <3>1
    <3> QED BY <1>11, <3>1, <3>2
  <2> QED BY <1>9, <2>1 DEF AreSets
<1> QED BY <1>4, <1>10, <1>12, <1>13

\* extract touches no cabinet, folder or file.
LEMMA ExtractKeeps ==
    ASSUME NEW fi, Extract(fi)
    PROVE  UNCHANGED <<opened, live, cab, folder, nextFile>>
  BY Zenon DEF Extract, ExtractRefused, ExtractBegin, ExtractCannotOpen, ExtractCannotSeek,
     ExtractCannotDecode, ExtractCannotCreate, CannotBegin

LEMMA StepKeeps ==
    ASSUME Step
    PROVE  call # NULL /\ UNCHANGED <<opened, live, cab, folder, nextFile>>
<1>1. call # NULL
  BY Zenon DEF Step, NoDecoderThere, FailedBefore, Decoded, Write, WriteFails, HasRun, DecodeFrame,
     AskForInput, CopyInput, EndOfFolder, NextBlock, ReadNothing, ReadNoBlock, ReadBadBlock, ReadBlock,
     ReadSplitBlock, AtBlock, Called, Running, Reading
<1>2. UNCHANGED <<opened, live, cab, folder, nextFile>>
  BY Zenon DEF Step, NoDecoderThere, FailedBefore, Decoded, Write, WriteFails, DecodeFrame, AskForInput,
     CopyInput, EndOfFolder, NextBlock, ReadNothing, ReadNoBlock, ReadBadBlock, ReadBlock, ReadSplitBlock,
     Quiet
<1> QED BY <1>1, <1>2

SetsInv == AreCabs(opened, cab) /\ \E S : AreSets(S, opened, cab)

\* Each step is one of CabSet, or none.
LEMMA StepSets ==
    ASSUME SetsInv, [Next]_vars
    PROVE  SetsInv' /\ (Abstract!Next \/ UNCHANGED <<opened, Sets>>)
<1>1. PICK S : AreCabs(opened, cab) /\ AreSets(S, opened, cab)
  BY DEF SetsInv
<1>2. Sets = S
  BY <1>1, SetsInIs, SetsRead
<1>3. ASSUME NEW S2, AreCabs(opened', cab'), AreSets(S2, opened', cab')
      PROVE  SetsInv' /\ Sets' = S2
  <2>1. Sets' = SetsIn(opened', cab')
    BY DEF Sets, SetFrom, After, NextCab, SetsIn, AfterIn, NextIn
  <2>2. SetsIn(opened', cab') = S2
    BY <1>3, SetsInIs
  <2> QED BY <1>3, <2>1, <2>2 DEF SetsInv
<1>4. CASE UNCHANGED <<opened, cab>>
  <2>1. AreCabs(opened', cab') /\ AreSets(S, opened', cab')
    BY <1>1, <1>4
  <2> QED BY <1>2, <1>3, <1>4, <2>1
<1>5. CASE \E c \in Returned \ Elements(Found) : Open(c)
  <2>1. PICK c \in Returned \ Elements(Found) : Open(c)
    BY <1>5
  <2>2. c \in Cabs \ opened /\ ReadHeaders(<<c>>)
    BY <2>1 DEF Returned, Open
  <2>3. PICK q : q = <<c>>
    OBVIOUS
  <2>4. q \in Seq(Cabs) /\ Elements(q) = {c} /\ Elements(q) \cap opened = {} /\ ReadHeaders(q)
    BY <2>2, <2>3 DEF Elements
  <2>5. /\ opened' = opened \cup Elements(q) /\ AreCabs(opened', cab')
        /\ AreSets(S \cup {<<x>> : x \in Elements(q)}, opened', cab')
    BY <1>1, <2>4, ReadHeadersSets
  <2>6. SetsInv' /\ Sets' = S \cup {<<x>> : x \in Elements(q)}
    BY <1>3, <2>5
  <2>7. {<<x>> : x \in Elements(q)} = {<<c>>}
    BY <2>4
  <2>8. Abstract!Open
    BY <1>2, <2>2, <2>4, <2>5, <2>6, <2>7 DEF Abstract!Open
  <2> QED BY <2>6, <2>8 DEF Abstract!Next
<1>6. CASE Search
  <2>1. PICK n \in 0 .. Len(Found) : ReadHeaders(SubSeq(Found, 1, n))
    BY <1>6 DEF Search
  <2>2. PICK q : q = SubSeq(Found, 1, n)
    OBVIOUS
  <2>3. q \in Seq(Cabs) /\ Elements(q) \subseteq Elements(Found)
    <3>1. Found \in Seq(Cabs) /\ Len(Found) \in Nat /\ n \in Nat /\ n <= Len(Found)
      BY FoundAssumption
    <3>2. q \in Seq(Cabs) /\ Len(q) = n /\ \A i \in 1 .. n : q[i] = Found[i] /\ i \in DOMAIN Found
      BY <2>2, <3>1
    <3> QED BY <3>2 DEF Elements
  <2>4. Elements(q) \cap opened = {} /\ ReadHeaders(q)
    BY <1>6, <2>1, <2>2, <2>3 DEF Search
  <2>5. /\ opened' = opened \cup Elements(q) /\ AreCabs(opened', cab')
        /\ AreSets(S \cup {<<x>> : x \in Elements(q)}, opened', cab')
    BY <1>1, <2>3, <2>4, ReadHeadersSets
  <2>6. SetsInv' /\ Sets' = S \cup {<<x>> : x \in Elements(q)}
    BY <1>3, <2>5
  <2>7. Elements(q) \in SUBSET (Cabs \ opened)
    <3>1. Elements(q) \subseteq Cabs
      BY <2>3 DEF Elements
    <3> QED BY <2>4, <3>1
  <2>8. Abstract!Search
    BY <1>2, <2>5, <2>6, <2>7 DEF Abstract!Search
  <2> QED BY <2>6, <2>8 DEF Abstract!Next
<1>7. CASE \E pair \in JoinArgs : Join(pair[1], pair[2])
  <2>1. PICK l, r : Join(l, r)
    BY <1>7
  <2>2. l \in opened /\ r \in opened /\ ~CannotAttach(l, r) /\ opened' = opened
    BY <2>1 DEF Join
  <2>3. PICK head : Attach(l, r, head)
    <3>1. CASE JoinLists(l, r)
      BY <3>1 DEF JoinLists
    <3>2. CASE JoinMerging(l, r)
      BY <3>2 DEF JoinMerging
    <3> QED BY <2>1, <3>1, <3>2 DEF Join
  <2>4. PICK s, t \in S : s # t /\ s[Len(s)] = l /\ t[1] = r
    BY <1>1, <2>2, JoinedEnds
  <2>5. AreCabs(opened, cab') /\ AreSets((S \ {s, t}) \cup {s \o t}, opened, cab')
    BY <1>1, <2>3, <2>4, AttachSets
  <2>6. SetsInv' /\ Sets' = (S \ {s, t}) \cup {s \o t}
    BY <1>3, <2>2, <2>5
  <2>7. Abstract!Join
    BY <1>2, <2>2, <2>4, <2>6 DEF Abstract!Join
  <2> QED BY <2>6, <2>7 DEF Abstract!Next
<1>8. CASE \E c \in Returned : Close(c)
  <2>1. PICK c \in Cabs : CloseCabs(c)
    BY <1>8 DEF Close, Returned
  <2>2. PICK ended : ended = Ended(S, c)
    OBVIOUS
  <2>3. /\ opened' = opened \ UNION {Elements(s) : s \in ended}
        /\ AreCabs(opened', cab') /\ AreSets(S \ ended, opened', cab')
    BY <1>1, <2>1, <2>2, CloseSets
  <2>4. SetsInv' /\ Sets' = S \ ended
    BY <1>3, <2>3
  <2>5. ended \in SUBSET S
    BY <2>2 DEF Ended
  <2>6. \A s : Elements(s) = Abstract!Members(s)
    BY DEF Elements, Abstract!Members
  <2>7. Abstract!Close
    BY <1>2, <2>3, <2>4, <2>5, <2>6 DEF Abstract!Close
  <2> QED BY <2>4, <2>7 DEF Abstract!Next
<1>9. CASE \E fi \in FileIds : Extract(fi)
  BY <1>4, <1>9, ExtractKeeps
<1>10. CASE Step
  <2>1. UNCHANGED <<opened, cab>>
    BY <1>10, StepKeeps
  <2> QED BY <1>4, <2>1
<1>11. CASE (\E c \in Returned \ Elements(Found) : OpenFails(c))
            \/ (\E pair \in JoinArgs : JoinFails(pair[1], pair[2])) \/ UNCHANGED vars
  BY <1>4, <1>11 DEF OpenFails, JoinFails, vars
<1> QED
  BY <1>5, <1>6, <1>7, <1>8, <1>9, <1>10, <1>11 DEF Next

\* The chains of pointers between cabinets are the sets of CabSet, whatever is opened,
\* searched, joined in whatever order, refused, closed or extracted.
THEOREM SetsImplemented == Spec => SetsAreSets
<1>1. Init => SetsInv /\ Abstract!Init
  <2> SUFFICES ASSUME Init PROVE SetsInv /\ Abstract!Init
    OBVIOUS
  <2>1. opened = {} /\ cab = [c \in Cabs |-> NoCab]
    BY DEF Init, InitSets
  <2>2. AreCabs(opened, cab)
    BY <2>1 DEF AreCabs, IsCab, NoCab, OrNull
  <2>3. AreSets({}, opened, cab)
    BY <2>1 DEF AreSets
  <2>4. Sets = {}
    BY <2>2, <2>3, SetsInIs, SetsRead
  <2> QED BY <2>1, <2>2, <2>3, <2>4 DEF SetsInv, Abstract!Init
<1>2. SetsInv /\ [Next]_vars => SetsInv' /\ [Abstract!Next]_<<opened, Sets>>
  BY StepSets
<1> QED BY <1>1, <1>2, PTL DEF Spec, SetsAreSets, Abstract!Spec

-----------------------------------------------------------------------------
(* Folders and files on disk.                                                *)

Folders(c) == Image[c].folders
Files(c) == Image[c].files

LEMMA ImageIs ==
    ASSUME NEW c \in Cabs
    PROVE  /\ Len(Folders(c)) \in Nat \ {0} /\ DOMAIN Folders(c) = 1 .. Len(Folders(c))
           /\ Len(Files(c)) \in Nat \ {0} /\ DOMAIN Files(c) = 1 .. Len(Files(c))
           /\ \A i \in 1 .. Len(Files(c)) : Files(c)[i].index \in
                  {FromPrev, ToNext, PrevAndNext} \cup 1 .. Len(Folders(c))
           /\ Len(Folders(c)) < FromPrev
  BY ImageAssumption DEF IsRow, Folders, Files

\* What a function gives on a finite set is a finite set.
LEMMA ImageFinite ==
    ASSUME NEW A, IsFiniteSet(A), NEW f, DOMAIN f = A
    PROVE  IsFiniteSet({f[x] : x \in A})
<1> DEFINE B == {f[x] : x \in A}
           g == [x \in A |-> f[x]]
<1>1. g \in Surjection(A, B)
  BY DEF Surjection
<1> QED BY <1>1, FS_Surjection

\* The objects of the cabinet c with n names of that kind.
Ids(kind, c, n) == {<<kind, c, i>> : i \in 1 .. n}

LEMMA IdsFinite ==
    ASSUME NEW kind, NEW n \in [Cabs -> Nat]
    PROVE  IsFiniteSet(UNION {Ids(kind, c, n[c]) : c \in Cabs})
<1>1. ASSUME NEW c \in Cabs PROVE IsFiniteSet(Ids(kind, c, n[c]))
  <2> DEFINE f == [i \in 1 .. n[c] |-> <<kind, c, i>>]
  <2>1. IsFiniteSet(1 .. n[c])
    BY FS_Interval
  <2>2. IsFiniteSet({f[i] : i \in 1 .. n[c]})
    <3>1. DOMAIN f = 1 .. n[c]
      OBVIOUS
    <3> HIDE DEF f
    <3> QED BY <2>1, <3>1, ImageFinite
  <2>3. {f[i] : i \in 1 .. n[c]} = Ids(kind, c, n[c])
    BY DEF Ids
  <2> QED BY <2>2, <2>3
<1> DEFINE f == [c \in Cabs |-> Ids(kind, c, n[c])]
<1>2. IsFiniteSet({f[c] : c \in Cabs})
  <2>1. DOMAIN f = Cabs /\ IsFiniteSet(Cabs)
    BY ImageAssumption
  <2> HIDE DEF f
  <2> QED BY <2>1, ImageFinite
<1>3. \A x \in {f[c] : c \in Cabs} : IsFiniteSet(x)
  BY <1>1
<1>4. IsFiniteSet(UNION {f[c] : c \in Cabs})
  BY <1>2, <1>3, FS_UNION
<1>5. {f[c] : c \in Cabs} = {Ids(kind, c, n[c]) : c \in Cabs}
  OBVIOUS
<1> QED BY <1>4, <1>5

LEMMA FolderIdsAre ==
    /\ \A f \in FolderIds : /\ f[2] \in Cabs /\ f[3] \in 1 .. Len(Folders(f[2]))
                            /\ f = <<"folder", f[2], f[3]>>
    /\ \A c \in Cabs : \A i \in 1 .. Len(Folders(c)) : <<"folder", c, i>> \in FolderIds
    /\ IsFiniteSet(FolderIds) /\ NULL \notin FolderIds
<1> DEFINE n == [c \in Cabs |-> Len(Folders(c))]
<1>1. ASSUME NEW c \in Cabs
      PROVE  {<<"folder", c, i>> : i \in DOMAIN Image[c].folders} = Ids("folder", c, n[c])
  BY ImageIs DEF Folders, Ids
<1>2. FolderIds = UNION {Ids("folder", c, n[c]) : c \in Cabs}
  BY <1>1 DEF FolderIds
<1>3. n \in [Cabs -> Nat]
  BY ImageIs
<1>4. IsFiniteSet(FolderIds)
  <2> HIDE DEF n
  <2> QED BY <1>2, <1>3, IdsFinite
<1>5. \A c \in Cabs : \A i \in 1 .. Len(Folders(c)) : <<"folder", c, i>> \in FolderIds
  BY <1>2 DEF Ids
<1>6. ASSUME NEW f \in FolderIds
      PROVE  f[2] \in Cabs /\ f[3] \in 1 .. Len(Folders(f[2])) /\ f = <<"folder", f[2], f[3]>>
  <2>1. PICK c \in Cabs : f \in Ids("folder", c, n[c])
    BY <1>2
  <2>2. PICK i \in 1 .. Len(Folders(c)) : f = <<"folder", c, i>>
    BY <2>1 DEF Ids
  <2> QED BY <2>2
<1>7. NULL \notin FolderIds
  BY ImageAssumption
<1> QED BY <1>4, <1>5, <1>6, <1>7

LEMMA FileIdsAre ==
    /\ \A g \in FileIds : /\ g[2] \in Cabs /\ g[3] \in 1 .. Len(Files(g[2]))
                          /\ g = <<"file", g[2], g[3]>>
    /\ \A c \in Cabs : \A i \in 1 .. Len(Files(c)) : <<"file", c, i>> \in FileIds
    /\ IsFiniteSet(FileIds) /\ NULL \notin FileIds /\ FileIds \cap FolderIds = {}
<1> DEFINE n == [c \in Cabs |-> Len(Files(c))]
<1>1. ASSUME NEW c \in Cabs
      PROVE  {<<"file", c, i>> : i \in DOMAIN Image[c].files} = Ids("file", c, n[c])
  BY ImageIs DEF Files, Ids
<1>2. FileIds = UNION {Ids("file", c, n[c]) : c \in Cabs}
  BY <1>1 DEF FileIds
<1>3. n \in [Cabs -> Nat]
  BY ImageIs
<1>4. IsFiniteSet(FileIds)
  <2> HIDE DEF n
  <2> QED BY <1>2, <1>3, IdsFinite
<1>5. \A c \in Cabs : \A i \in 1 .. Len(Files(c)) : <<"file", c, i>> \in FileIds
  BY <1>2 DEF Ids
<1>6. ASSUME NEW g \in FileIds
      PROVE  g[2] \in Cabs /\ g[3] \in 1 .. Len(Files(g[2])) /\ g = <<"file", g[2], g[3]>>
  <2>1. PICK c \in Cabs : g \in Ids("file", c, n[c])
    BY <1>2
  <2>2. PICK i \in 1 .. Len(Files(c)) : g = <<"file", c, i>>
    BY <2>1 DEF Ids
  <2> QED BY <2>2
<1>7. NULL \notin FileIds
  BY ImageAssumption
<1>8. \A x \in FileIds : x \notin FolderIds
  <2>1. \A x \in FileIds : x[1] = "file"
    BY <1>6
  <2>2. \A x \in FolderIds : x[1] = "folder"
    BY FolderIdsAre
  <2> QED BY <2>1, <2>2
<1> QED BY <1>4, <1>5, <1>6, <1>7, <1>8

\* A file is in a folder of its cabinet: the last one if it goes on, the first
\* one if it came from before.
LEMMA FolderOfIs ==
    ASSUME NEW g \in FileIds
    PROVE  /\ FolderOf(g) \in FolderIds /\ FolderOf(g)[2] = g[2]
           /\ HeaderOf(g).index = ToNext => FolderOf(g) = <<"folder", g[2], Len(Folders(g[2]))>>
           /\ HeaderOf(g).index \in {FromPrev, PrevAndNext} => FolderOf(g) = <<"folder", g[2], 1>>
<1>1. g[2] \in Cabs /\ g[3] \in 1 .. Len(Files(g[2]))
  BY FileIdsAre
<1>2. PICK n : n = Len(Folders(g[2]))
  OBVIOUS
<1>3. n \in Nat \ {0} /\ n < FromPrev /\ n \in 1 .. n /\ 1 \in 1 .. n
  BY <1>1, <1>2, ImageIs
<1>4. \A i \in 1 .. n : <<"folder", g[2], i>> \in FolderIds
  BY <1>1, <1>2, FolderIdsAre
<1>5. PICK x : x = HeaderOf(g).index
  OBVIOUS
<1>6. x \in {FromPrev, ToNext, PrevAndNext} \cup 1 .. n
  BY <1>1, <1>2, <1>5, ImageIs DEF HeaderOf, Files
<1>7. FolderOf(g) = CASE x = ToNext -> <<"folder", g[2], n>>
                      [] x \in {FromPrev, PrevAndNext} -> <<"folder", g[2], 1>>
                      [] OTHER -> <<"folder", g[2], x>>
  BY <1>2, <1>5 DEF FolderOf, Folders
<1>8. CASE x = ToNext
  <2>1. FolderOf(g) = <<"folder", g[2], n>>
    BY <1>7, <1>8 DEF ToNext, FromPrev, PrevAndNext
  <2> QED BY <1>2, <1>3, <1>4, <1>5, <1>8, <2>1 DEF ToNext, FromPrev, PrevAndNext
<1>9. CASE x \in {FromPrev, PrevAndNext}
  <2>1. FolderOf(g) = <<"folder", g[2], 1>>
    BY <1>7, <1>9 DEF ToNext, FromPrev, PrevAndNext
  <2> QED BY <1>3, <1>4, <1>5, <1>9, <2>1 DEF ToNext, FromPrev, PrevAndNext
<1>10. CASE x \notin {FromPrev, ToNext, PrevAndNext}
  <2>1. FolderOf(g) = <<"folder", g[2], x>> /\ x \in 1 .. n
    BY <1>6, <1>7, <1>10
  <2> QED BY <1>4, <1>5, <1>10, <2>1
<1> QED BY <1>8, <1>9, <1>10

LEMMA FirstMarkedIs ==
    ASSUME NEW c \in Cabs, NEW marks
    PROVE  \/ FirstMarked(c, marks) = NULL /\ \A i \in DOMAIN Files(c) : Files(c)[i].index \notin marks
           \/ \E i \in DOMAIN Files(c) :
                 /\ FirstMarked(c, marks) = <<"file", c, i>> /\ FirstMarked(c, marks) \in FileIds
                 /\ Files(c)[i].index \in marks
<1> DEFINE marked == {i \in DOMAIN Files(c) : Files(c)[i].index \in marks}
           Least(i) == i \in marked /\ \A j \in marked : i <= j
<1>1. FirstMarked(c, marks) = IF marked = {} THEN NULL ELSE <<"file", c, CHOOSE i : Least(i)>>
  BY DEF FirstMarked, Files
<1>2. CASE marked = {}
  BY <1>1, <1>2
<1>3. CASE marked # {}
  <2>1. marked \subseteq Nat
    BY ImageIs
  <2>2. \E i \in marked : \A j \in marked : i <= j
    <3> HIDE DEF marked
    <3> QED BY <1>3, <2>1, LeastNumber
  <2>3. \E i : Least(i)
    BY <2>2
  <2> DEFINE i == CHOOSE i : Least(i)
  <2>4. Least(i)
    BY <2>3
  <2> HIDE DEF i
  <2>5. i \in DOMAIN Files(c) /\ Files(c)[i].index \in marks
    BY <2>4
  <2>6. <<"file", c, i>> \in FileIds
    BY <2>5, ImageIs, FileIdsAre
  <2>7. FirstMarked(c, marks) = <<"file", c, i>>
    BY <1>1, <1>3 DEF i
  <2> QED BY <2>5, <2>6, <2>7
<1> QED BY <1>2, <1>3

IsFolder(x) ==
    x = [next |-> x.next, comp |-> x.comp, blocks |-> x.blocks, data |-> x.data,
         mergePrev |-> x.mergePrev, mergeNext |-> x.mergeNext]

\* What is read of a folder.
LEMMA ReadFolderIs ==
    ASSUME NEW f \in FolderIds
    PROVE  LET x == ReadFolder(f[2], f[3])
               n == Len(Folders(f[2]))
           IN  /\ IsFolder(x)
               /\ x.next = IF f[3] = n THEN NULL ELSE <<"folder", f[2], f[3] + 1>>
               /\ x.next \in OrNull(FolderIds)
               /\ x.data = <<f>>
               /\ \A g \in {x.mergePrev, x.mergeNext} :
                     g = NULL \/ (g \in FileIds /\ g[2] = f[2] /\ FolderOf(g) = f)
<1> PICK c, i : c = f[2] /\ i = f[3]
  OBVIOUS
<1>1. c \in Cabs /\ i \in 1 .. Len(Folders(c)) /\ f = <<"folder", c, i>>
  BY FolderIdsAre
<1>2. PICK n : n = Len(Folders(c))
  OBVIOUS
<1>3. n \in Nat \ {0}
  BY <1>1, <1>2, ImageIs
<1>4. PICK x : x = ReadFolder(c, i)
  OBVIOUS
<1>5. x = [next |-> IF i = n THEN NULL ELSE <<"folder", c, i + 1>>,
           comp |-> Image[c].folders[i].comp,
           blocks |-> Len(Image[c].folders[i].blocks),
           data |-> << <<"folder", c, i>> >>,
           mergePrev |-> IF i = 1 THEN FirstMarked(c, {FromPrev, PrevAndNext}) ELSE NULL,
           mergeNext |-> IF i = n THEN FirstMarked(c, {ToNext, PrevAndNext}) ELSE NULL]
  BY <1>2, <1>4 DEF ReadFolder, Folders
<1>6. /\ x.next = IF i = n THEN NULL ELSE <<"folder", c, i + 1>>
      /\ x.data = << <<"folder", c, i>> >>
      /\ x.mergePrev = IF i = 1 THEN FirstMarked(c, {FromPrev, PrevAndNext}) ELSE NULL
      /\ x.mergeNext = IF i = n THEN FirstMarked(c, {ToNext, PrevAndNext}) ELSE NULL
  BY <1>5
<1>7. IsFolder(x)
  BY <1>5 DEF IsFolder
<1>8. x.next \in OrNull(FolderIds)
  <2>1. i # n => i + 1 \in 1 .. n
    BY <1>1, <1>2, <1>3
  <2> QED BY <1>1, <1>2, <1>6, <2>1, FolderIdsAre DEF OrNull
<1>9. ASSUME x.mergePrev # NULL
      PROVE  LET g == x.mergePrev IN g \in FileIds /\ g[2] = c /\ FolderOf(g) = f
  <2>1. i = 1 /\ x.mergePrev = FirstMarked(c, {FromPrev, PrevAndNext})
    BY <1>6, <1>9
  <2>2. PICK j \in DOMAIN Files(c) :
           /\ x.mergePrev = <<"file", c, j>> /\ x.mergePrev \in FileIds
           /\ Files(c)[j].index \in {FromPrev, PrevAndNext}
    BY <1>1, <1>9, <2>1, FirstMarkedIs
  <2>3. PICK g : g = x.mergePrev
    OBVIOUS
  <2>4. g \in FileIds /\ g[2] = c /\ HeaderOf(g).index \in {FromPrev, PrevAndNext}
    BY <2>2, <2>3 DEF HeaderOf, Files
  <2>5. FolderOf(g) = <<"folder", c, 1>>
    BY <2>4, FolderOfIs
  <2> QED BY <1>1, <2>1, <2>3, <2>4, <2>5
<1>10. ASSUME x.mergeNext # NULL
       PROVE  LET g == x.mergeNext IN g \in FileIds /\ g[2] = c /\ FolderOf(g) = f
  <2>1. i = n /\ x.mergeNext = FirstMarked(c, {ToNext, PrevAndNext})
    BY <1>6, <1>10
  <2>2. PICK j \in DOMAIN Files(c) :
           /\ x.mergeNext = <<"file", c, j>> /\ x.mergeNext \in FileIds
           /\ Files(c)[j].index \in {ToNext, PrevAndNext}
    BY <1>1, <1>10, <2>1, FirstMarkedIs
  <2>3. PICK g : g = x.mergeNext
    OBVIOUS
  <2>4. g \in FileIds /\ g[2] = c /\ HeaderOf(g).index = Files(c)[j].index
    BY <2>2, <2>3 DEF HeaderOf, Files
  <2>5. CASE Files(c)[j].index = ToNext
    <3>1. FolderOf(g) = <<"folder", c, n>>
      BY <1>2, <2>4, <2>5, FolderOfIs
    <3> QED BY <1>1, <2>1, <2>3, <2>4, <3>1
  <2>6. CASE Files(c)[j].index = PrevAndNext
    <3>1. n = 1
      BY <1>1, <1>2, <2>6, SplitAssumption DEF Files, Folders
    <3>2. FolderOf(g) = <<"folder", c, 1>>
      BY <2>4, <2>6, FolderOfIs
    <3> QED BY <1>1, <2>1, <2>3, <2>4, <3>1, <3>2
  <2> QED BY <2>2, <2>5, <2>6
<1> QED BY <1>1, <1>2, <1>4, <1>6, <1>7, <1>8, <1>9, <1>10

-----------------------------------------------------------------------------
(* Lists that change.                                                        *)

\* A list depends on its own pointers only.
LEMMA ListStays ==
    ASSUME NEW next, NEW next2, DOMAIN next2 = DOMAIN next, NEW head, NEW s,
           IsList(next, head, s), \A o \in Elements(s) : next2[o] = next[o]
    PROVE  IsList(next2, head, s)
<1>1. \A i \in 1 .. Len(s) : s[i] \in Elements(s)
  BY DEF IsList, Elements
<1> QED BY <1>1 DEF IsList

\* The first element unlinked.
LEMMA TailIsList ==
    ASSUME NEW next, NEW head, NEW s, IsList(next, head, s), s # <<>>, NULL \notin DOMAIN next
    PROVE  /\ IsList(next, next[s[1]], Tail(s))
           /\ Elements(Tail(s)) = Elements(s) \ {s[1]} /\ s[1] \in Elements(s)
<1>0. s \in Seq(DOMAIN next) /\ \A i \in 1 .. Len(s) : s[i] \in DOMAIN next
  BY DEF IsList
<1>1. Len(s) \in Nat /\ Len(s) > 0 /\ DOMAIN s = 1 .. Len(s)
  BY <1>0
<1>a. /\ \A i, j \in 1 .. Len(s) : s[i] = s[j] => i = j
      /\ \A i \in 1 .. Len(s) : next[s[i]] = IF i = Len(s) THEN NULL ELSE s[i + 1]
  BY DEF IsList, Distinct
<1>2. PICK t : t = Tail(s)
  OBVIOUS
<1>3. t \in Seq(DOMAIN next) /\ Len(t) = Len(s) - 1 /\ \A i \in 1 .. Len(t) : t[i] = s[i + 1]
  BY <1>0, <1>2, HeadTailProperties
<1>b. DOMAIN t = 1 .. Len(t) /\ (t = <<>> <=> Len(t) = 0)
  BY <1>3
<1>c. Len(t) = Len(s) - 1 /\ Len(t) \in Nat
  BY <1>1, <1>3
<1>4. \A i \in 1 .. Len(t) : i + 1 \in 1 .. Len(s) /\ (i = Len(t) <=> i + 1 = Len(s))
  BY <1>1, <1>c
<1>5. Distinct(t)
  <2>1. SUFFICES ASSUME NEW i \in 1 .. Len(t), NEW j \in 1 .. Len(t), t[i] = t[j] PROVE i = j
    BY DEF Distinct
  <2>2. s[i + 1] = s[j + 1] /\ i + 1 \in 1 .. Len(s) /\ j + 1 \in 1 .. Len(s)
    BY <1>3, <1>4, <2>1
  <2>3. i + 1 = j + 1
    BY <1>a, <2>2
  <2> QED BY <1>c, <2>3
<1>6. next[s[1]] = IF t = <<>> THEN NULL ELSE t[1]
  <2>0. 1 \in 1 .. Len(s) /\ (t = <<>> <=> 1 = Len(s))
    BY <1>1, <1>b, <1>c
  <2>1. next[s[1]] = IF 1 = Len(s) THEN NULL ELSE s[1 + 1]
    BY <1>a, <2>0
  <2>2. t # <<>> => 1 \in 1 .. Len(t)
    BY <1>b, <1>c
  <2>3. t # <<>> => t[1] = s[1 + 1]
    BY <1>3, <2>2
  <2> QED BY <2>0, <2>1, <2>3
<1>7. ASSUME NEW i \in 1 .. Len(t) PROVE next[t[i]] = IF i = Len(t) THEN NULL ELSE t[i + 1]
  <2>1. next[t[i]] = IF i + 1 = Len(s) THEN NULL ELSE s[(i + 1) + 1]
    BY <1>3, <1>4, <1>a
  <2>2. i # Len(t) => i + 1 \in 1 .. Len(t)
    BY <1>c
  <2>3. i # Len(t) => t[i + 1] = s[(i + 1) + 1]
    BY <1>3, <2>2
  <2> QED BY <1>4, <2>1, <2>3
<1>8. Elements(t) = Elements(s) \ {s[1]}
  <2>1. ASSUME NEW x \in Elements(t) PROVE x \in Elements(s) /\ x # s[1]
    <3>1. PICK i \in 1 .. Len(t) : t[i] = x
      BY <1>b DEF Elements
    <3>2. i + 1 \in 1 .. Len(s) /\ i + 1 # 1 /\ 1 \in 1 .. Len(s)
      BY <1>1, <1>4, <1>c
    <3>3. x = s[i + 1]
      BY <1>3, <3>1
    <3> QED BY <1>1, <1>a, <3>2, <3>3 DEF Elements
  <2>2. ASSUME NEW x \in Elements(s), x # s[1] PROVE x \in Elements(t)
    <3>1. PICK i \in 1 .. Len(s) : s[i] = x
      BY <1>1 DEF Elements
    <3>2. i # 1
      BY <2>2, <3>1
    <3>3. i - 1 \in 1 .. Len(t) /\ (i - 1) + 1 = i
      BY <1>1, <1>c, <3>2
    <3>4. t[i - 1] = x
      BY <1>3, <3>1, <3>3
    <3> QED BY <1>b, <3>3, <3>4 DEF Elements
  <2> QED BY <2>1, <2>2
<1>9. s[1] \in Elements(s)
  <2>1. 1 \in 1 .. Len(s)
    BY <1>1
  <2> QED BY <1>1, <2>1 DEF Elements
<1> QED BY <1>2, <1>3, <1>5, <1>6, <1>7, <1>8, <1>9 DEF IsList

\* What is in two sequences one after the other.
LEMMA ConcatIs ==
    ASSUME NEW D, NEW p \in Seq(D), NEW q \in Seq(D)
    PROVE  /\ p \o q \in Seq(D) /\ Len(p \o q) = Len(p) + Len(q)
           /\ \A i \in 1 .. Len(p) : (p \o q)[i] = p[i]
           /\ \A i \in 1 .. Len(q) : (p \o q)[Len(p) + i] = q[i]
           /\ \A i \in 1 .. Len(p) + Len(q) :
                 i \in 1 .. Len(p) \/ \E j \in 1 .. Len(q) : i = Len(p) + j
           /\ Elements(p \o q) = Elements(p) \cup Elements(q)
<1>1. /\ Len(p) \in Nat /\ Len(q) \in Nat /\ DOMAIN p = 1 .. Len(p) /\ DOMAIN q = 1 .. Len(q)
      /\ p \o q \in Seq(D) /\ Len(p \o q) = Len(p) + Len(q)
      /\ DOMAIN (p \o q) = 1 .. Len(p) + Len(q)
  OBVIOUS
<1>2. \A i \in 1 .. Len(p) : (p \o q)[i] = p[i] /\ i \in 1 .. Len(p) + Len(q)
  BY <1>1
<1>3. ASSUME NEW i \in 1 .. Len(q)
      PROVE  (p \o q)[Len(p) + i] = q[i] /\ Len(p) + i \in 1 .. Len(p) + Len(q)
  <2>1. Len(p) + i \in 1 .. Len(p) + Len(q) /\ ~(Len(p) + i <= Len(p)) /\ (Len(p) + i) - Len(p) = i
    BY <1>1
  <2> QED BY <1>1, <2>1
<1>4. ASSUME NEW i \in 1 .. Len(p) + Len(q)
      PROVE  i \in 1 .. Len(p) \/ \E j \in 1 .. Len(q) : i = Len(p) + j
  <2>1. CASE i <= Len(p)
    BY <1>1, <2>1
  <2>2. CASE ~(i <= Len(p))
    <3>1. i - Len(p) \in 1 .. Len(q) /\ i = Len(p) + (i - Len(p))
      BY <1>1, <2>2
    <3> QED BY <3>1
  <2> QED BY <2>1, <2>2
<1>5. Elements(p \o q) = Elements(p) \cup Elements(q)
  <2>1. ASSUME NEW x \in Elements(p \o q) PROVE x \in Elements(p) \cup Elements(q)
    <3>1. PICK i \in 1 .. Len(p) + Len(q) : (p \o q)[i] = x
      BY <1>1 DEF Elements
    <3> QED BY <1>1, <1>2, <1>3, <1>4, <3>1 DEF Elements
  <2>2. Elements(p) \cup Elements(q) \subseteq Elements(p \o q)
    BY <1>1, <1>2, <1>3 DEF Elements
  <2> QED BY <2>1, <2>2
<1> QED BY <1>1, <1>2, <1>3, <1>4, <1>5

\* A list linked to the end of another one.
LEMMA JoinChains ==
    ASSUME NEW next, NEW next2, DOMAIN next2 = DOMAIN next, NEW a, NEW b,
           NEW p, NEW q, IsList(next, a, p), IsList(next, b, q), p # <<>>,
           Elements(p) \cap Elements(q) = {},
           next2[p[Len(p)]] = b,
           \A o \in (Elements(p) \ {p[Len(p)]}) \cup Elements(q) : next2[o] = next[o]
    PROVE  IsList(next2, a, p \o q)
<1>0. p \in Seq(DOMAIN next) /\ q \in Seq(DOMAIN next)
  BY DEF IsList
<1>1. /\ Len(p) \in Nat /\ Len(p) > 0 /\ Len(q) \in Nat
      /\ DOMAIN p = 1 .. Len(p) /\ DOMAIN q = 1 .. Len(q)
      /\ a = p[1] /\ b = IF q = <<>> THEN NULL ELSE q[1]
  BY DEF IsList
<1>a. Len(p) \in Nat /\ Len(p) > 0 /\ Len(q) \in Nat /\ (q = <<>> <=> Len(q) = 0)
  BY <1>0, <1>1
<1>2. /\ \A i, j \in 1 .. Len(p) : p[i] = p[j] => i = j
      /\ \A i, j \in 1 .. Len(q) : q[i] = q[j] => i = j
      /\ \A i \in 1 .. Len(p) : next[p[i]] = IF i = Len(p) THEN NULL ELSE p[i + 1]
      /\ \A i \in 1 .. Len(q) : next[q[i]] = IF i = Len(q) THEN NULL ELSE q[i + 1]
  BY DEF IsList, Distinct
<1>3. PICK u : u = p \o q
  OBVIOUS
<1>4. /\ u \in Seq(DOMAIN next) /\ Len(u) = Len(p) + Len(q)
      /\ \A i \in 1 .. Len(p) : u[i] = p[i]
      /\ \A i \in 1 .. Len(q) : u[Len(p) + i] = q[i]
      /\ \A i \in 1 .. Len(p) + Len(q) :
            i \in 1 .. Len(p) \/ \E j \in 1 .. Len(q) : i = Len(p) + j
  BY <1>0, <1>3, ConcatIs
<1>b. Len(u) = Len(p) + Len(q) /\ (u = <<>> <=> Len(u) = 0)
  BY <1>4
<1>5. \A i \in 1 .. Len(p), j \in 1 .. Len(q) : p[i] # q[j]
  BY <1>1 DEF Elements
<1>6. Distinct(u)
  <2>1. SUFFICES ASSUME NEW i \in 1 .. Len(u), NEW j \in 1 .. Len(u), u[i] = u[j] PROVE i = j
    BY DEF Distinct
  <2>2. CASE i \in 1 .. Len(p) /\ j \in 1 .. Len(p)
    BY <1>2, <1>4, <2>1, <2>2
  <2>3. CASE i \notin 1 .. Len(p) /\ j \notin 1 .. Len(p)
    <3>1. PICK m \in 1 .. Len(q) : i = Len(p) + m
      BY <1>4, <2>3
    <3>2. PICK n \in 1 .. Len(q) : j = Len(p) + n
      BY <1>4, <2>3
    <3>3. q[m] = q[n]
      BY <1>4, <2>1, <3>1, <3>2
    <3> QED BY <1>2, <3>1, <3>2, <3>3
  <2>4. CASE i \in 1 .. Len(p) /\ j \notin 1 .. Len(p)
    BY <1>4, <1>5, <2>1, <2>4
  <2>5. CASE i \notin 1 .. Len(p) /\ j \in 1 .. Len(p)
    BY <1>4, <1>5, <2>1, <2>5
  <2> QED BY <2>2, <2>3, <2>4, <2>5
<1>7. a = IF u = <<>> THEN NULL ELSE u[1]
  <2>1. u # <<>> /\ 1 \in 1 .. Len(p)
    BY <1>a, <1>b
  <2> QED BY <1>1, <1>4, <2>1
<1>8. ASSUME NEW i \in 1 .. Len(u) PROVE next2[u[i]] = IF i = Len(u) THEN NULL ELSE u[i + 1]
  <2>1. CASE i \in 1 .. Len(p) /\ i # Len(p)
    <3>1. i + 1 \in 1 .. Len(p) /\ i # Len(u) /\ Len(p) \in 1 .. Len(p)
      BY <1>a, <1>b, <2>1
    <3>2. p[i] \in Elements(p)
      BY <1>1, <2>1 DEF Elements
    <3>3. p[i] # p[Len(p)]
      BY <1>2, <2>1, <3>1
    <3>4. next2[p[i]] = p[i + 1]
      BY <1>2, <2>1, <3>2, <3>3
    <3>5. u[i] = p[i] /\ u[i + 1] = p[i + 1]
      BY <1>4, <2>1, <3>1
    <3> QED BY <3>1, <3>4, <3>5
  <2>2. CASE i = Len(p)
    <3>0. i \in 1 .. Len(p)
      BY <1>a, <2>2
    <3>1. next2[u[i]] = b
      BY <1>4, <2>2, <3>0
    <3>2. CASE q = <<>>
      <4>1. i = Len(u)
        BY <1>a, <1>b, <2>2, <3>2
      <4> QED BY <1>1, <3>1, <3>2, <4>1
    <3>3. CASE q # <<>>
      <4>1. 1 \in 1 .. Len(q) /\ i # Len(u) /\ i + 1 = Len(p) + 1
        BY <1>a, <1>b, <2>2, <3>3
      <4>2. u[i + 1] = q[1]
        BY <1>4, <4>1
      <4> QED BY <1>1, <3>1, <3>3, <4>1, <4>2
    <3> QED BY <3>2, <3>3
  <2>3. CASE i \notin 1 .. Len(p)
    <3>1. PICK j \in 1 .. Len(q) : i = Len(p) + j
      BY <1>4, <2>3
    <3>2. u[i] = q[j] /\ q[j] \in Elements(q)
      BY <1>1, <1>4, <3>1 DEF Elements
    <3>3. next2[u[i]] = IF j = Len(q) THEN NULL ELSE q[j + 1]
      BY <1>2, <3>2
    <3>4. i = Len(u) <=> j = Len(q)
      BY <1>a, <1>b, <3>1
    <3>5. j # Len(q) => j + 1 \in 1 .. Len(q) /\ i + 1 = Len(p) + (j + 1)
      BY <1>a, <3>1
    <3>6. j # Len(q) => u[i + 1] = q[j + 1]
      BY <1>4, <3>5
    <3> QED BY <3>3, <3>4, <3>6
  <2> QED BY <2>1, <2>2, <2>3
<1> QED BY <1>3, <1>4, <1>6, <1>7, <1>8 DEF IsList

\* What Without takes the files that stay to be.
LEMMA WithoutIs ==
    ASSUME NEW files \in Seq(FileIds), Distinct(files), NEW f
    PROVE  LET kept == Without(files, f)
           IN  /\ kept \in Seq(FileIds) /\ Distinct(kept)
               /\ Elements(kept) = {g \in Elements(files) : FolderOf(g) # f}
<1> DEFINE N == Len(files)
           A == Seq(FileIds)
           Turn(n, t) == IF FolderOf(files[n]) = f THEN t ELSE Append(t, files[n])
           turns == [n \in Nat |-> [t \in A |-> IF n \in 1 .. N THEN Turn(n, t) ELSE t]]
           IsKept(k) == k = [n \in 0 .. N |->
                               IF n = 0 THEN <<>>
                               ELSE IF FolderOf(files[n]) = f THEN k[n - 1]
                                                              ELSE Append(k[n - 1], files[n])]
           all == CHOOSE k : IsKept(k)
<1>1. /\ N \in Nat /\ DOMAIN files = 1 .. N /\ \A n \in 1 .. N : files[n] \in FileIds
      /\ \A m, n \in 1 .. N : files[m] = files[n] => m = n
  BY DEF Distinct
<1>2. Without(files, f) = all[N]
  BY DEF Without
<1>3. turns \in [Nat -> [A -> A]] /\ <<>> \in A
  <2>1. ASSUME NEW n \in 1 .. N, NEW t \in A PROVE Turn(n, t) \in A
    BY <1>1
  <2> HIDE DEF Turn
  <2> QED BY <2>1
<1>4. PICK k : k \in [0 .. N -> A] /\ k[0] = <<>> /\ \A n \in 1 .. N : k[n] = turns[n][k[n - 1]]
  <2>1. Iterates(A, <<>>, turns, N) # {}
    <3> HIDE DEF A, turns
    <3> QED BY <1>1, <1>3, IterateExists
  <2> QED BY <2>1 DEF Iterates
<1>5. ASSUME NEW n \in 1 .. N PROVE k[n] = Turn(n, k[n - 1]) /\ k[n - 1] \in A
  <2>1. n \in Nat /\ n - 1 \in 0 .. N
    BY <1>1
  <2>2. k[n - 1] \in A
    BY <1>4, <2>1
  <2> HIDE DEF Turn, A
  <2> QED BY <1>4, <2>1, <2>2
<1>6. IsKept(k)
  <2>1. \A n \in 1 .. N : k[n] = IF FolderOf(files[n]) = f THEN k[n - 1]
                                                         ELSE Append(k[n - 1], files[n])
    BY <1>5
  <2> HIDE DEF A
  <2> QED BY <1>1, <1>4, <2>1
<1>7. IsKept(all)
  BY <1>6
<1> HIDE DEF all, turns
<1>8. /\ all[0] = <<>>
      /\ \A n \in 1 .. N : all[n] = IF FolderOf(files[n]) = f THEN all[n - 1]
                                                             ELSE Append(all[n - 1], files[n])
  <2> DEFINE Grown(n) == IF FolderOf(files[n]) = f THEN all[n - 1]
                                                  ELSE Append(all[n - 1], files[n])
  <2>0. 0 \in 0 .. N /\ \A n \in 1 .. N : n \in 0 .. N /\ n # 0
    BY <1>1
  <2>1. all = [n \in 0 .. N |-> IF n = 0 THEN <<>> ELSE Grown(n)]
    BY <1>7
  <2> HIDE DEF Grown
  <2>2. all[0] = <<>> /\ \A n \in 1 .. N : all[n] = Grown(n)
    BY <2>0, <2>1
  <2> QED BY <2>2 DEF Grown
<1> DEFINE Right(n) ==
             /\ all[n] \in Seq(FileIds) /\ Distinct(all[n])
             /\ Elements(all[n]) = {files[i] : i \in {i \in 1 .. n : FolderOf(files[i]) # f}}
           S == {n \in Nat : n <= N => Right(n)}
<1>9. 0 \in S
  <2>1. Distinct(<<>>) /\ Elements(<<>>) = {} /\ <<>> \in Seq(FileIds)
    BY DEF Distinct, Elements
  <2>2. {files[i] : i \in {i \in 1 .. 0 : FolderOf(files[i]) # f}} = {}
    OBVIOUS
  <2>3. Right(0)
    BY <1>8, <2>1, <2>2
  <2> HIDE DEF Right
  <2> QED BY <2>3
<1>10. ASSUME NEW n \in Nat, n \in S PROVE n + 1 \in S
  <2>1. SUFFICES ASSUME n + 1 <= N PROVE Right(n + 1)
    OBVIOUS
  <2>2. n + 1 \in 1 .. N /\ (n + 1) - 1 = n /\ Right(n)
    BY <1>1, <1>10, <2>1
  <2>3. PICK g : g = files[n + 1]
    OBVIOUS
  <2>4. g \in FileIds
    BY <1>1, <2>2, <2>3
  <2>5. all[n + 1] = IF FolderOf(g) = f THEN all[n] ELSE Append(all[n], g)
    BY <1>8, <2>2, <2>3
  <2>6. PICK t : t = all[n]
    OBVIOUS
  <2>7. /\ t \in Seq(FileIds) /\ Distinct(t)
        /\ Elements(t) = {files[i] : i \in {i \in 1 .. n : FolderOf(files[i]) # f}}
    BY <2>2, <2>6
  <2>8. 1 .. n + 1 = 1 .. n \cup {n + 1}
    OBVIOUS
  <2>9. CASE FolderOf(g) = f
    BY <2>3, <2>5, <2>6, <2>7, <2>8, <2>9
  <2>10. CASE FolderOf(g) # f
    <3>1. all[n + 1] = Append(t, g)
      BY <2>5, <2>6, <2>10
    <3>2. g \notin Elements(t)
      <4>1. \A i \in 1 .. n : files[i] # g
        BY <1>1, <2>2, <2>3
      <4> QED BY <2>7, <4>1
    <3>3. PICK u : u = Append(t, g)
      OBVIOUS
    <3>4. /\ u \in Seq(FileIds) /\ Len(u) = Len(t) + 1 /\ Len(t) \in Nat
          /\ DOMAIN u = 1 .. Len(u) /\ DOMAIN t = 1 .. Len(t)
          /\ \A i \in 1 .. Len(t) : u[i] = t[i]
          /\ u[Len(t) + 1] = g
      BY <2>4, <2>7, <3>3
    <3>5. \A i \in 1 .. Len(u) : i \in 1 .. Len(t) \/ i = Len(t) + 1
      BY <3>4
    <3>6. Distinct(u)
      <4>1. \A i \in 1 .. Len(t) : t[i] # g
        BY <3>2, <3>4 DEF Elements
      <4> QED BY <2>7, <3>4, <3>5, <4>1 DEF Distinct
    <3>7. Elements(u) = Elements(t) \cup {g}
      BY <3>4, <3>5 DEF Elements
    <3>8. Elements(u) = {files[i] : i \in {i \in 1 .. n + 1 : FolderOf(files[i]) # f}}
      BY <2>3, <2>7, <2>8, <2>10, <3>7
    <3> QED BY <3>1, <3>3, <3>4, <3>6, <3>8
  <2> QED BY <2>9, <2>10
<1>11. Right(N)
  <2> HIDE DEF Right
  <2>0. N \in Nat /\ N <= N
    BY <1>1
  <2> HIDE DEF S, N
  <2>1. \A n \in Nat : n \in S
    BY <1>9, <1>10, Induct
  <2>2. N \in S
    BY <2>0, <2>1
  <2> QED BY <2>0, <2>2 DEF S
<1>12. {files[i] : i \in {i \in 1 .. N : FolderOf(files[i]) # f}} = {g \in Elements(files) : FolderOf(g) # f}
  BY <1>1 DEF Elements
<1> QED BY <1>2, <1>11, <1>12

\* A sequence of objects is the list that Linked makes of it.
LEMMA LinkedIs ==
    ASSUME NEW D, NULL \notin D, NEW next \in [D -> OrNull(D)],
           NEW s \in Seq(D), Distinct(s), s # <<>>, NEW all
    PROVE  /\ Linked(next, s, all) \in [D -> OrNull(D)]
           /\ IsList(Linked(next, s, all), s[1], s)
           /\ \A o \in D \ (Elements(s) \cup Elements(all)) : Linked(next, s, all)[o] = next[o]
<1>1. Len(s) \in Nat /\ DOMAIN s = 1 .. Len(s) /\ \A i \in 1 .. Len(s) : s[i] \in D
  OBVIOUS
<1>2. PICK next2 : next2 = Linked(next, s, all)
  OBVIOUS
<1>3. next2 = [o \in D |->
        IF o \in Elements(s)
        THEN LET i == CHOOSE i \in DOMAIN s : s[i] = o
             IN  IF i = Len(s) THEN NULL ELSE s[i + 1]
        ELSE IF o \in Elements(all) THEN NULL ELSE next[o]]
  BY <1>2 DEF Linked
<1>4. ASSUME NEW i \in 1 .. Len(s) PROVE next2[s[i]] = IF i = Len(s) THEN NULL ELSE s[i + 1]
  <2> DEFINE Place(o) == CHOOSE j \in DOMAIN s : s[j] = o
             At(o) == IF Place(o) = Len(s) THEN NULL ELSE s[Place(o) + 1]
             Else(o) == IF o \in Elements(all) THEN NULL ELSE next[o]
  <2>1. Place(s[i]) = i
    BY <1>1 DEF Distinct
  <2>2. s[i] \in Elements(s) /\ s[i] \in D
    BY <1>1 DEF Elements
  <2>3. next2 = [o \in D |-> IF o \in Elements(s) THEN At(o) ELSE Else(o)]
    BY <1>3
  <2> HIDE DEF Place
  <2>4. At(s[i]) = IF i = Len(s) THEN NULL ELSE s[i + 1]
    BY <2>1
  <2> HIDE DEF At, Else
  <2> QED BY <2>2, <2>3, <2>4
<1>5. \A o \in D \ Elements(s) : next2[o] = IF o \in Elements(all) THEN NULL ELSE next[o]
  BY <1>3
<1>6. ASSUME NEW o \in D PROVE next2[o] \in OrNull(D)
  <2>1. CASE o \in Elements(s)
    <3>1. PICK i \in 1 .. Len(s) : s[i] = o
      BY <1>1, <2>1 DEF Elements
    <3>2. i # Len(s) => i + 1 \in 1 .. Len(s)
      <4>1. Len(s) \in Nat
        BY <1>1
      <4> QED BY <4>1
    <3>3. i # Len(s) => s[i + 1] \in D
      BY <1>1, <3>2
    <3> QED BY <1>4, <3>1, <3>3 DEF OrNull
  <2>2. CASE o \notin Elements(s)
    BY <1>5, <2>2 DEF OrNull
  <2> QED BY <2>1, <2>2
<1>7. DOMAIN next2 = D /\ next2 \in [D -> OrNull(D)]
  BY <1>3, <1>6
<1>8. IsList(next2, s[1], s)
  BY <1>4, <1>7 DEF IsList
<1> QED BY <1>2, <1>5, <1>7, <1>8

-----------------------------------------------------------------------------
(* The heap: which folders and files there are, and what points to them.  fol *)
(* are the folder objects, nf the next pointers of the files, lv what is live. *)

NextFolderIn(fol) == [f \in FolderIds |-> fol[f].next]

AreFolders(fol) ==
    /\ DOMAIN fol = FolderIds
    /\ \A f \in FolderIds : /\ IsFolder(fol[f]) /\ fol[f].next \in OrNull(FolderIds)
                            /\ fol[f].data \in Seq(FolderIds) /\ fol[f].data # <<>>

AreFiles(nf) == nf \in [FileIds -> OrNull(FileIds)]

\* What there is of the cabinets of a set.
FoldersIn(lv, s) == {f \in lv \cap FolderIds : f[2] \in Elements(s)}
FilesIn(lv, s) == {g \in lv \cap FileIds : g[2] \in Elements(s)}

\* The cabinets of the set s share the list fs of their folders and gs of their files.
ListsOf(s, fs, gs, k, fol, nf, lv) ==
    /\ fs # <<>> /\ gs # <<>>
    /\ Elements(fs) = FoldersIn(lv, s) /\ Elements(gs) = FilesIn(lv, s)
    /\ \A c \in Elements(s) : /\ IsList(NextFolderIn(fol), k[c].folders, fs)
                              /\ IsList(nf, k[c].files, gs)

\* What is live belongs to an open cabinet, is in the lists of its set, and points to
\* what is live.
Heap(S, o, k, fol, nf, lv) ==
    /\ AreFolders(fol) /\ AreFiles(nf)
    /\ lv \subseteq FolderIds \cup FileIds /\ \A x \in lv : x[2] \in o
    /\ \A s \in S : \E fs, gs : ListsOf(s, fs, gs, k, fol, nf, lv)
    /\ \A g \in lv \cap FileIds : FolderOf(g) \in lv
    /\ \A f \in lv \cap FolderIds : \A g \in {fol[f].mergePrev, fol[f].mergeNext} :
          g = NULL \/ (g \in lv /\ g \in FileIds /\ FolderOf(g) = f)
    /\ \A s \in S : \A f \in FoldersIn(lv, s) : \A i \in 1 .. Len(fol[f].data) :
          fol[f].data[i][2] \in Elements(s)

\* Lists of a set that nothing happens to.
LEMMA ListsStay ==
    ASSUME NEW s, NEW fs, NEW gs, NEW k, NEW fol, NEW nf, NEW lv,
           ListsOf(s, fs, gs, k, fol, nf, lv),
           NEW k2, NEW fol2, NEW nf2, NEW lv2, DOMAIN nf2 = DOMAIN nf,
           \A c \in Elements(s) : k2[c].folders = k[c].folders /\ k2[c].files = k[c].files,
           \A f \in FoldersIn(lv, s) : fol2[f].next = fol[f].next,
           \A g \in FilesIn(lv, s) : nf2[g] = nf[g],
           FoldersIn(lv2, s) = FoldersIn(lv, s), FilesIn(lv2, s) = FilesIn(lv, s)
    PROVE  ListsOf(s, fs, gs, k2, fol2, nf2, lv2)
<1>1. /\ fs # <<>> /\ gs # <<>>
      /\ Elements(fs) = FoldersIn(lv, s) /\ Elements(gs) = FilesIn(lv, s)
      /\ \A c \in Elements(s) : /\ IsList(NextFolderIn(fol), k[c].folders, fs)
                                /\ IsList(nf, k[c].files, gs)
  BY DEF ListsOf
<1>2. PICK n : n = NextFolderIn(fol)
  OBVIOUS
<1>3. PICK n2 : n2 = NextFolderIn(fol2)
  OBVIOUS
<1>4. /\ DOMAIN n = FolderIds /\ DOMAIN n2 = FolderIds
      /\ \A f \in FolderIds : n[f] = fol[f].next /\ n2[f] = fol2[f].next
  BY <1>2, <1>3 DEF NextFolderIn
<1>5. \A f \in Elements(fs) : n2[f] = n[f]
  BY <1>1, <1>4 DEF FoldersIn
<1>6. ASSUME NEW c \in Elements(s)
      PROVE  IsList(n2, k2[c].folders, fs) /\ IsList(nf2, k2[c].files, gs)
  <2>1. IsList(n, k2[c].folders, fs) /\ IsList(nf, k2[c].files, gs)
    BY <1>1, <1>2
  <2>2. IsList(n2, k2[c].folders, fs)
    BY <1>4, <1>5, <2>1, ListStays
  <2>3. IsList(nf2, k2[c].files, gs)
    BY <1>1, <2>1, ListStays
  <2> QED BY <2>2, <2>3
<1> QED BY <1>1, <1>3, <1>6 DEF ListsOf

\* The lists that a header gives.
LEMMA RowIsList ==
    ASSUME NEW n \in Nat \ {0}, NEW D, NEW next, DOMAIN next = D, NEW s,
           s \in Seq(D), Len(s) = n, Distinct(s),
           \A i \in 1 .. n : next[s[i]] = IF i = n THEN NULL ELSE s[i + 1]
    PROVE  IsList(next, s[1], s) /\ s # <<>>
<1>1. s # <<>>
  OBVIOUS
<1> QED BY <1>1 DEF IsList

\* open and search: each cabinet gets the lists that are in its headers.
LEMMA ReadHeadersHeap ==
    ASSUME NEW S, AreCabs(opened, cab), AreSets(S, opened, cab),
           Heap(S, opened, cab, folder, nextFile, live),
           NEW q \in Seq(Cabs), Elements(q) \cap opened = {}, ReadHeaders(q)
    PROVE  Heap(S \cup {<<c>> : c \in Elements(q)}, opened', cab', folder', nextFile', live')
<1>1. Elements(q) \subseteq Cabs
  BY DEF Elements
<1>2. opened' = opened \cup Elements(q)
  BY DEF ReadHeaders
<1>3. live' = live \cup {x \in FolderIds \cup FileIds : x[2] \in Elements(q)}
  <2>1. live' = live \cup UNION {IdsOf(c) : c \in Elements(q)}
    BY DEF ReadHeaders
  <2>2. \A c : IdsOf(c) = {x \in FolderIds \cup FileIds : x[2] = c}
    BY DEF IdsOf
  <2> QED BY <2>1, <2>2
<1>4. /\ \A c \in Cabs \ Elements(q) : cab'[c] = cab[c]
      /\ \A c \in Elements(q) : cab'[c].files = <<"file", c, 1>> /\ cab'[c].folders = <<"folder", c, 1>>
  BY <1>1 DEF ReadHeaders
<1>5. DOMAIN folder' = FolderIds /\ \A f \in FolderIds :
         folder'[f] = IF f[2] \in Elements(q) THEN ReadFolder(f[2], f[3]) ELSE folder[f]
  BY DEF ReadHeaders
<1>6. DOMAIN nextFile' = FileIds /\ \A g \in FileIds :
         nextFile'[g] = IF g[2] \notin Elements(q) THEN nextFile[g]
                        ELSE IF g[3] = Len(Files(g[2])) THEN NULL ELSE <<"file", g[2], g[3] + 1>>
  BY DEF ReadHeaders, Files
<1>7. AreFolders(folder) /\ AreFiles(nextFile)
  BY DEF Heap
<1>8. live \subseteq FolderIds \cup FileIds /\ \A x \in live : x[2] \in opened
  BY DEF Heap
<1>9. AreFolders(folder')
  <2>1. ASSUME NEW f \in FolderIds
        PROVE  /\ IsFolder(folder'[f]) /\ folder'[f].next \in OrNull(FolderIds)
               /\ folder'[f].data \in Seq(FolderIds) /\ folder'[f].data # <<>>
    <3>1. CASE f[2] \in Elements(q)
      <4>1. PICK x : x = ReadFolder(f[2], f[3])
        OBVIOUS
      <4>2. IsFolder(x) /\ x.next \in OrNull(FolderIds) /\ x.data = <<f>>
        BY <4>1, ReadFolderIs
      <4>3. <<f>> \in Seq(FolderIds) /\ <<f>> # <<>>
        OBVIOUS
      <4> QED BY <1>5, <3>1, <4>1, <4>2, <4>3
    <3>2. CASE f[2] \notin Elements(q)
      BY <1>5, <1>7, <3>2 DEF AreFolders
    <3> QED BY <3>1, <3>2
  <2> QED BY <1>5, <2>1 DEF AreFolders
<1>10. AreFiles(nextFile')
  <2>1. ASSUME NEW g \in FileIds PROVE nextFile'[g] \in OrNull(FileIds)
    <3>1. CASE g[2] \notin Elements(q)
      BY <1>6, <1>7, <3>1 DEF AreFiles
    <3>2. CASE g[2] \in Elements(q)
      <4>1. CASE g[3] = Len(Files(g[2]))
        BY <1>6, <3>2, <4>1 DEF OrNull
      <4>2. CASE g[3] # Len(Files(g[2]))
        <5>1. g[2] \in Cabs /\ g[3] \in 1 .. Len(Files(g[2]))
          BY FileIdsAre
        <5>2. g[3] + 1 \in 1 .. Len(Files(g[2]))
          <6>1. Len(Files(g[2])) \in Nat
            BY <5>1, ImageIs
          <6> QED BY <4>2, <5>1, <6>1
        <5>3. <<"file", g[2], g[3] + 1>> \in FileIds
          BY <5>1, <5>2, FileIdsAre
        <5> QED BY <1>6, <3>2, <4>2, <5>3 DEF OrNull
      <4> QED BY <4>1, <4>2
    <3> QED BY <3>1, <3>2
  <2>2. nextFile' = [g \in FileIds |-> nextFile'[g]]
    BY DEF ReadHeaders
  <2> QED BY <2>1, <2>2 DEF AreFiles
<1>11. ASSUME NEW s \in S
       PROVE  /\ \E fs, gs : ListsOf(s, fs, gs, cab', folder', nextFile', live')
              /\ FoldersIn(live', s) = FoldersIn(live, s) /\ Elements(s) \cap Elements(q) = {}
  <2>1. Elements(s) \subseteq opened /\ Elements(s) \cap Elements(q) = {}
    BY DEF AreSets
  <2>2. FoldersIn(live', s) = FoldersIn(live, s) /\ FilesIn(live', s) = FilesIn(live, s)
    BY <1>3, <2>1 DEF FoldersIn, FilesIn
  <2>3. PICK fs, gs : ListsOf(s, fs, gs, cab, folder, nextFile, live)
    BY DEF Heap
  <2>4. \A c \in Elements(s) : cab'[c].folders = cab[c].folders /\ cab'[c].files = cab[c].files
    BY <1>4, <2>1 DEF AreCabs
  <2>5. /\ \A f \in FoldersIn(live, s) : folder'[f].next = folder[f].next
        /\ \A g \in FilesIn(live, s) : nextFile'[g] = nextFile[g]
    BY <1>5, <1>6, <2>1 DEF FoldersIn, FilesIn
  <2>6. DOMAIN nextFile' = DOMAIN nextFile
    BY <1>6, <1>7 DEF AreFiles
  <2>7. ListsOf(s, fs, gs, cab', folder', nextFile', live')
    BY <2>2, <2>3, <2>4, <2>5, <2>6, ListsStay
  <2> QED BY <2>1, <2>2, <2>7
<1>12. ASSUME NEW c \in Elements(q)
       PROVE  \E fs, gs : ListsOf(<<c>>, fs, gs, cab', folder', nextFile', live')
  <2>1. PICK n, m : n = Len(Folders(c)) /\ m = Len(Files(c))
    OBVIOUS
  <2>2. c \in Cabs /\ n \in Nat \ {0} /\ m \in Nat \ {0}
    BY <1>1, <2>1, ImageIs
  <2>3. Elements(<<c>>) = {c}
    BY DEF Elements
  <2>4. PICK fs : fs = [i \in 1 .. n |-> <<"folder", c, i>>]
    OBVIOUS
  <2>5. PICK gs : gs = [i \in 1 .. m |-> <<"file", c, i>>]
    OBVIOUS
  <2>6. /\ \A i \in 1 .. n : fs[i] = <<"folder", c, i>> /\ fs[i] \in FolderIds
        /\ \A i \in 1 .. m : gs[i] = <<"file", c, i>> /\ gs[i] \in FileIds
    BY <2>1, <2>2, <2>4, <2>5, FolderIdsAre, FileIdsAre
  <2>7. /\ fs \in Seq(FolderIds) /\ Len(fs) = n /\ DOMAIN fs = 1 .. n
        /\ gs \in Seq(FileIds) /\ Len(gs) = m /\ DOMAIN gs = 1 .. m
    BY <2>2, <2>4, <2>5, <2>6
  <2>8. Distinct(fs) /\ Distinct(gs)
    BY <2>6, <2>7 DEF Distinct
  <2>9. PICK next : next = NextFolderIn(folder')
    OBVIOUS
  <2>10. ASSUME NEW i \in 1 .. n PROVE next[fs[i]] = IF i = n THEN NULL ELSE fs[i + 1]
    <3>1. PICK f : f = fs[i]
      OBVIOUS
    <3>2. f \in FolderIds /\ f[2] = c /\ f[3] = i
      BY <2>6, <3>1
    <3>3. next[f] = ReadFolder(c, i).next
      BY <1>5, <2>9, <3>2 DEF NextFolderIn
    <3>4. next[f] = IF i = n THEN NULL ELSE <<"folder", c, i + 1>>
      BY <2>1, <3>2, <3>3, ReadFolderIs
    <3>5. i # n => i + 1 \in 1 .. n
      BY <2>2
    <3> QED BY <2>6, <3>1, <3>4, <3>5
  <2>11. ASSUME NEW i \in 1 .. m PROVE nextFile'[gs[i]] = IF i = m THEN NULL ELSE gs[i + 1]
    <3>1. PICK g : g = gs[i]
      OBVIOUS
    <3>2. g \in FileIds /\ g[2] = c /\ g[3] = i
      BY <2>6, <3>1
    <3>3. nextFile'[g] = IF i = m THEN NULL ELSE <<"file", c, i + 1>>
      BY <1>6, <2>1, <3>2
    <3>4. i # m => i + 1 \in 1 .. m
      BY <2>2
    <3> QED BY <2>6, <3>1, <3>3, <3>4
  <2>12. IsList(next, fs[1], fs) /\ fs # <<>>
    <3>1. DOMAIN next = FolderIds
      BY <2>9 DEF NextFolderIn
    <3> QED BY <2>2, <2>7, <2>8, <2>10, <3>1, RowIsList
  <2>13. IsList(nextFile', gs[1], gs) /\ gs # <<>>
    BY <1>6, <2>2, <2>7, <2>8, <2>11, RowIsList
  <2>14. cab'[c].folders = fs[1] /\ cab'[c].files = gs[1]
    <3>1. 1 \in 1 .. n /\ 1 \in 1 .. m
      BY <2>2
    <3> QED BY <1>4, <2>6, <3>1
  <2>15. ASSUME NEW x PROVE x \in Elements(fs) <=> x \in FoldersIn(live', <<c>>)
    <3>1. ASSUME x \in Elements(fs) PROVE x \in FoldersIn(live', <<c>>)
      <4>1. x \in FolderIds /\ x[2] = c
        BY <2>6, <2>7, <3>1 DEF Elements
      <4> QED BY <1>3, <2>3, <4>1 DEF FoldersIn
    <3>2. ASSUME x \in FoldersIn(live', <<c>>) PROVE x \in Elements(fs)
      <4>1. x \in FolderIds /\ x[2] = c
        BY <2>3, <3>2 DEF FoldersIn
      <4>2. x[3] \in 1 .. n /\ x = <<"folder", c, x[3]>>
        BY <2>1, <4>1, FolderIdsAre
      <4> QED BY <2>6, <2>7, <4>2 DEF Elements
    <3> QED BY <3>1, <3>2
  <2>16. ASSUME NEW x PROVE x \in Elements(gs) <=> x \in FilesIn(live', <<c>>)
    <3>1. ASSUME x \in Elements(gs) PROVE x \in FilesIn(live', <<c>>)
      <4>1. x \in FileIds /\ x[2] = c
        BY <2>6, <2>7, <3>1 DEF Elements
      <4> QED BY <1>3, <2>3, <4>1 DEF FilesIn
    <3>2. ASSUME x \in FilesIn(live', <<c>>) PROVE x \in Elements(gs)
      <4>1. x \in FileIds /\ x[2] = c
        BY <2>3, <3>2 DEF FilesIn
      <4>2. x[3] \in 1 .. m /\ x = <<"file", c, x[3]>>
        BY <2>1, <4>1, FileIdsAre
      <4> QED BY <2>6, <2>7, <4>2 DEF Elements
    <3> QED BY <3>1, <3>2
  <2>17. ListsOf(<<c>>, fs, gs, cab', folder', nextFile', live')
    <3>1. Elements(fs) = FoldersIn(live', <<c>>) /\ Elements(gs) = FilesIn(live', <<c>>)
      BY <2>15, <2>16
    <3> QED BY <2>3, <2>9, <2>12, <2>13, <2>14, <3>1 DEF ListsOf
  <2> QED BY <2>17
<1>13. ASSUME NEW g \in live' \cap FileIds PROVE FolderOf(g) \in live'
  <2>1. FolderOf(g) \in FolderIds /\ FolderOf(g)[2] = g[2]
    BY FolderOfIs
  <2>2. g \in live => FolderOf(g) \in live
    BY DEF Heap
  <2> QED BY <1>3, <2>1, <2>2
<1>14. ASSUME NEW f \in live' \cap FolderIds, NEW g \in {folder'[f].mergePrev, folder'[f].mergeNext}
       PROVE  g = NULL \/ (g \in live' /\ g \in FileIds /\ FolderOf(g) = f)
  <2>1. CASE f[2] \in Elements(q)
    <3>1. PICK x : x = ReadFolder(f[2], f[3])
      OBVIOUS
    <3>2. \A h \in {x.mergePrev, x.mergeNext} : h = NULL \/ (h \in FileIds /\ h[2] = f[2] /\ FolderOf(h) = f)
      BY <3>1, ReadFolderIs
    <3>3. folder'[f] = x
      BY <1>5, <2>1, <3>1
    <3> QED BY <1>3, <2>1, <3>2, <3>3
  <2>2. CASE f[2] \notin Elements(q)
    <3>1. f \in live /\ folder'[f] = folder[f]
      BY <1>3, <1>5, <2>2
    <3>2. g = NULL \/ (g \in live /\ g \in FileIds /\ FolderOf(g) = f)
      BY <3>1 DEF Heap
    <3> QED BY <1>3, <3>2
  <2> QED BY <2>1, <2>2
<1>15. ASSUME NEW s \in S \cup {<<c>> : c \in Elements(q)}, NEW f \in FoldersIn(live', s),
              NEW i \in 1 .. Len(folder'[f].data)
       PROVE  folder'[f].data[i][2] \in Elements(s)
  <2>1. CASE s \in S
    <3>1. f \in FoldersIn(live, s) /\ f \in FolderIds /\ f[2] \notin Elements(q)
      BY <1>11, <2>1 DEF FoldersIn
    <3>2. folder'[f] = folder[f]
      BY <1>5, <3>1
    <3> QED BY <2>1, <3>1, <3>2 DEF Heap
  <2>2. CASE s \notin S
    <3>1. PICK c \in Elements(q) : s = <<c>>
      BY <2>2
    <3>2. Elements(s) = {c} /\ f \in FolderIds /\ f[2] = c
      BY <3>1 DEF FoldersIn, Elements
    <3>3. folder'[f].data = <<f>>
      BY <1>5, <3>2, ReadFolderIs
    <3>4. i = 1
      BY <3>3
    <3> QED BY <3>2, <3>3, <3>4
  <2> QED BY <2>1, <2>2
<1>16. live' \subseteq FolderIds \cup FileIds /\ \A x \in live' : x[2] \in opened'
  BY <1>2, <1>3, <1>8
<1>17. \A s \in S \cup {<<c>> : c \in Elements(q)} :
          \E fs, gs : ListsOf(s, fs, gs, cab', folder', nextFile', live')
  BY <1>11, <1>12
<1> QED BY <1>9, <1>10, <1>13, <1>14, <1>15, <1>16, <1>17, Zenon DEF Heap

\* The lists that are there are those that FoldersOf and FilesOf read.
LEMMA ListsAre ==
    ASSUME NEW S, Heap(S, opened, cab, folder, nextFile, live), NEW s \in S, NEW c \in Elements(s)
    PROVE  ListsOf(s, FoldersOf(c), FilesOf(c), cab, folder, nextFile, live)
<1>1. PICK fs, gs : ListsOf(s, fs, gs, cab, folder, nextFile, live)
  BY DEF Heap
<1>2. /\ IsFiniteSet(FolderIds) /\ NULL \notin FolderIds
      /\ IsFiniteSet(FileIds) /\ NULL \notin FileIds
  BY FolderIdsAre, FileIdsAre
<1>3. NextFolder = NextFolderIn(folder) /\ NextFolder \in [FolderIds -> OrNull(FolderIds)]
  BY DEF Heap, AreFolders, NextFolder, NextFolderIn
<1>4. nextFile \in [FileIds -> OrNull(FileIds)]
  BY DEF Heap, AreFiles
<1>5. IsList(NextFolder, cab[c].folders, fs) /\ IsList(nextFile, cab[c].files, gs)
  BY <1>1, <1>3 DEF ListsOf
<1>6. FoldersOf(c) = fs
  BY <1>2, <1>3, <1>5, ListIs DEF FoldersOf
<1>7. FilesOf(c) = gs
  BY <1>2, <1>4, <1>5, ListIs DEF FilesOf
<1> QED BY <1>1, <1>6, <1>7

\* The two sets of append and prepend, and their lists.
JoinArgsAre(S, s, t, l, r) ==
    /\ AreCabs(opened, cab) /\ AreSets(S, opened, cab)
    /\ Heap(S, opened, cab, folder, nextFile, live)
    /\ s \in S /\ t \in S /\ s # t /\ s[Len(s)] = l /\ t[1] = r
    /\ Elements(Before(l)) \cup {l} = Elements(s) /\ {r} \cup Elements(After(r)) = Elements(t)

\* The lists after Attach, and what belongs to which set.
LEMMA AttachLists ==
    ASSUME NEW S, NEW s, NEW t, NEW l, NEW r, JoinArgsAre(S, s, t, l, r), NEW head, Attach(l, r, head)
    PROVE  /\ Elements(s \o t) = Elements(s) \cup Elements(t)
           /\ Elements(s) \cap Elements(t) = {}
           /\ Elements(s) \subseteq opened /\ Elements(t) \subseteq opened
           /\ l \in Elements(s) /\ r \in Elements(t)
           /\ \A c \in Elements(s) \cup Elements(t) :
                 cab'[c].files = head /\ cab'[c].folders = cab[l].folders
           /\ \A x \in S \ {s, t} : \A c \in Elements(x) :
                 /\ cab'[c].files = cab[c].files /\ cab'[c].folders = cab[c].folders
                 /\ c \notin Elements(s) \cup Elements(t)
<1>0. /\ AreCabs(opened, cab) /\ AreSets(S, opened, cab) /\ s \in S /\ t \in S /\ s # t
      /\ s[Len(s)] = l /\ t[1] = r
      /\ Elements(Before(l)) \cup {l} = Elements(s) /\ {r} \cup Elements(After(r)) = Elements(t)
  BY DEF JoinArgsAre
<1>1. Elements(s \o t) = Elements(s) \cup Elements(t)
  BY <1>0, ConcatIs DEF AreSets
<1>2. \A x, y \in S : x # y => Elements(x) \cap Elements(y) = {}
  <2>1. \A x, y \in S : \A i \in 1 .. Len(x), j \in 1 .. Len(y) : x[i] = y[j] => x = y
    BY <1>0 DEF AreSets
  <2>2. \A x \in S : DOMAIN x = 1 .. Len(x)
    BY <1>0 DEF AreSets
  <2> QED BY <2>1, <2>2 DEF Elements
<1>3. \A x \in S : Elements(x) \subseteq opened
  BY <1>0 DEF AreSets
<1>4. l \in Elements(s) /\ r \in Elements(t)
  BY <1>0
<1>5. l # r /\ l \in Cabs /\ r \in Cabs
  BY <1>0, <1>2, <1>3, <1>4 DEF AreCabs
<1>6. PICK given : given = Elements(Before(l)) \cup {r} \cup Elements(After(r))
  OBVIOUS
<1>7. \A c \in Cabs :
         /\ cab'[c].files = IF c = l \/ c \in given THEN head ELSE cab[c].files
         /\ cab'[c].folders = IF c \in given THEN cab[l].folders ELSE cab[c].folders
  BY <1>0, <1>5, <1>6, AttachIs
<1>8. given \cup {l} = Elements(s) \cup Elements(t)
  BY <1>0, <1>6
<1>9. opened \subseteq Cabs
  BY <1>0 DEF AreCabs
<1>10. \A c \in Elements(s) \cup Elements(t) :
          cab'[c].files = head /\ cab'[c].folders = cab[l].folders
  BY <1>0, <1>3, <1>7, <1>8, <1>9
<1>11. ASSUME NEW x \in S \ {s, t}, NEW c \in Elements(x)
       PROVE  /\ cab'[c].files = cab[c].files /\ cab'[c].folders = cab[c].folders
              /\ c \notin Elements(s) \cup Elements(t)
  <2>1. c \notin Elements(s) \cup Elements(t) /\ c \in Cabs
    BY <1>0, <1>2, <1>3, <1>9
  <2> QED BY <1>7, <1>8, <2>1
<1> QED BY <1>0, <1>1, <1>2, <1>3, <1>4, <1>10, <1>11

\* What append and prepend must leave for the heap to be one: E are the cabinets of the
\* new set, fs and gs its lists.
JoinLeaves(E, l, head, fs, gs) ==
    /\ AreFolders(folder') /\ AreFiles(nextFile')
    /\ live' \subseteq live /\ \A x \in live \ live' : x[2] \in E
    /\ \A f \in FolderIds : f[2] \notin E => folder'[f] = folder[f]
    /\ \A g \in FileIds : g[2] \notin E => nextFile'[g] = nextFile[g]
    /\ fs # <<>> /\ gs # <<>>
    /\ Elements(fs) = {f \in live' \cap FolderIds : f[2] \in E}
    /\ Elements(gs) = {g \in live' \cap FileIds : g[2] \in E}
    /\ IsList(NextFolderIn(folder'), cab[l].folders, fs) /\ IsList(nextFile', head, gs)
    /\ \A g \in live' \cap FileIds : FolderOf(g) \in live'
    /\ \A f \in live' \cap FolderIds : \A g \in {folder'[f].mergePrev, folder'[f].mergeNext} :
          g = NULL \/ (g \in live' /\ g \in FileIds /\ FolderOf(g) = f)
    /\ \A f \in live' \cap FolderIds : f[2] \in E =>
          \A i \in 1 .. Len(folder'[f].data) : folder'[f].data[i][2] \in E

LEMMA JoinHeap ==
    ASSUME NEW S, NEW s, NEW t, NEW l, NEW r, JoinArgsAre(S, s, t, l, r), NEW head, Attach(l, r, head),
           NEW E, E = Elements(s) \cup Elements(t), NEW fs, NEW gs, JoinLeaves(E, l, head, fs, gs)
    PROVE  Heap((S \ {s, t}) \cup {s \o t}, opened, cab', folder', nextFile', live')
<1>1. /\ Elements(s \o t) = E
      /\ \A c \in E : cab'[c].files = head /\ cab'[c].folders = cab[l].folders
      /\ \A x \in S \ {s, t} : \A c \in Elements(x) :
            /\ cab'[c].files = cab[c].files /\ cab'[c].folders = cab[c].folders
            /\ c \notin E
  <2>1. /\ Elements(s \o t) = Elements(s) \cup Elements(t)
        /\ Elements(s) \cap Elements(t) = {}
        /\ Elements(s) \subseteq opened /\ Elements(t) \subseteq opened
        /\ l \in Elements(s) /\ r \in Elements(t)
        /\ \A c \in Elements(s) \cup Elements(t) :
              cab'[c].files = head /\ cab'[c].folders = cab[l].folders
        /\ \A x \in S \ {s, t} : \A c \in Elements(x) :
              /\ cab'[c].files = cab[c].files /\ cab'[c].folders = cab[c].folders
              /\ c \notin Elements(s) \cup Elements(t)
    BY AttachLists, Zenon
  <2> QED BY <2>1
<1>2. PICK u : u = s \o t
  OBVIOUS
<1>3. ListsOf(u, fs, gs, cab', folder', nextFile', live')
  BY <1>1, <1>2 DEF ListsOf, FoldersIn, FilesIn, JoinLeaves
<1>4. ASSUME NEW x \in S \ {s, t}
      PROVE  /\ \E ds, hs : ListsOf(x, ds, hs, cab', folder', nextFile', live')
             /\ FoldersIn(live', x) = FoldersIn(live, x)
             /\ \A f \in FoldersIn(live, x) : folder'[f] = folder[f]
  <2>1. Elements(x) \cap E = {}
    BY <1>1
  <2>2. FoldersIn(live', x) = FoldersIn(live, x) /\ FilesIn(live', x) = FilesIn(live, x)
    BY <2>1 DEF FoldersIn, FilesIn, JoinLeaves
  <2>3. /\ \A f \in FoldersIn(live, x) : folder'[f] = folder[f]
        /\ \A g \in FilesIn(live, x) : nextFile'[g] = nextFile[g]
    BY <2>1 DEF FoldersIn, FilesIn, JoinLeaves
  <2>4. PICK ds, hs : ListsOf(x, ds, hs, cab, folder, nextFile, live)
    BY DEF Heap, JoinArgsAre
  <2>5. DOMAIN nextFile' = DOMAIN nextFile
    BY DEF AreFiles, Heap, JoinLeaves, JoinArgsAre
  <2>6. \A c \in Elements(x) : cab'[c].folders = cab[c].folders /\ cab'[c].files = cab[c].files
    BY <1>1
  <2>7. ListsOf(x, ds, hs, cab', folder', nextFile', live')
    BY <2>2, <2>3, <2>4, <2>5, <2>6, ListsStay
  <2> QED BY <2>2, <2>3, <2>7
<1>5. \A x \in (S \ {s, t}) \cup {u} : \E ds, hs : ListsOf(x, ds, hs, cab', folder', nextFile', live')
  BY <1>3, <1>4
<1>6. live' \subseteq FolderIds \cup FileIds /\ \A x \in live' : x[2] \in opened
  BY DEF Heap, JoinArgsAre, JoinLeaves
<1>7. ASSUME NEW x \in (S \ {s, t}) \cup {u}, NEW f \in FoldersIn(live', x),
             NEW i \in 1 .. Len(folder'[f].data)
      PROVE  folder'[f].data[i][2] \in Elements(x)
  <2>1. CASE x = u
    BY <1>1, <1>2, <2>1 DEF FoldersIn, JoinLeaves
  <2>2. CASE x # u
    <3>1. x \in S \ {s, t} /\ f \in FoldersIn(live, x) /\ folder'[f] = folder[f]
      BY <1>4, <2>2
    <3> QED BY <3>1 DEF Heap, JoinArgsAre
  <2> QED BY <2>1, <2>2
<1> QED BY <1>2, <1>5, <1>6, <1>7, Zenon DEF Heap, JoinLeaves

\* The last folder and file of a list, and the first.
LEMMA ListsOfBoth ==
    ASSUME NEW S, NEW s, NEW t, NEW l, NEW r, JoinArgsAre(S, s, t, l, r)
    PROVE  \E fs, gs, ds, hs :
              /\ FoldersOf(l) = fs /\ FilesOf(l) = gs /\ FilesOf(r) = hs
              /\ fs # <<>> /\ gs # <<>> /\ ds # <<>> /\ hs # <<>>
              /\ fs \in Seq(FolderIds) /\ ds \in Seq(FolderIds)
              /\ gs \in Seq(FileIds) /\ hs \in Seq(FileIds)
              /\ Elements(fs) = FoldersIn(live, s) /\ Elements(ds) = FoldersIn(live, t)
              /\ Elements(gs) = FilesIn(live, s) /\ Elements(hs) = FilesIn(live, t)
              /\ IsList(NextFolderIn(folder), cab[l].folders, fs)
              /\ IsList(nextFile, cab[l].files, gs)
              /\ IsList(NextFolderIn(folder), cab[r].folders, ds)
              /\ IsList(nextFile, cab[r].files, hs)
              /\ Final(fs) \in Elements(fs) /\ Final(gs) \in Elements(gs)
              /\ cab[r].folders = ds[1] /\ ds[1] \in Elements(ds)
              /\ Elements(s) \cap Elements(t) = {} /\ l \in Elements(s) /\ r \in Elements(t)
<1>1. /\ AreCabs(opened, cab) /\ AreSets(S, opened, cab)
      /\ Heap(S, opened, cab, folder, nextFile, live)
      /\ s \in S /\ t \in S /\ s # t
      /\ l \in Elements(s) /\ r \in Elements(t)
  BY DEF JoinArgsAre
<1>2. Elements(s) \cap Elements(t) = {}
  <2>1. \A x, y \in S : \A i \in 1 .. Len(x), j \in 1 .. Len(y) : x[i] = y[j] => x = y
    BY <1>1 DEF AreSets
  <2>2. \A x \in S : DOMAIN x = 1 .. Len(x)
    BY <1>1 DEF AreSets
  <2> QED BY <1>1, <2>1, <2>2 DEF Elements
<1>3. PICK fs, gs : fs = FoldersOf(l) /\ gs = FilesOf(l)
  OBVIOUS
<1>4. PICK ds, hs : ds = FoldersOf(r) /\ hs = FilesOf(r)
  OBVIOUS
<1>5. /\ ListsOf(s, fs, gs, cab, folder, nextFile, live)
      /\ ListsOf(t, ds, hs, cab, folder, nextFile, live)
  BY <1>1, <1>3, <1>4, ListsAre
<1>6. /\ fs # <<>> /\ gs # <<>> /\ ds # <<>> /\ hs # <<>>
      /\ Elements(fs) = FoldersIn(live, s) /\ Elements(ds) = FoldersIn(live, t)
      /\ Elements(gs) = FilesIn(live, s) /\ Elements(hs) = FilesIn(live, t)
      /\ IsList(NextFolderIn(folder), cab[l].folders, fs)
      /\ IsList(nextFile, cab[l].files, gs)
      /\ IsList(NextFolderIn(folder), cab[r].folders, ds)
      /\ IsList(nextFile, cab[r].files, hs)
  BY <1>1, <1>5 DEF ListsOf
<1>7. /\ fs \in Seq(FolderIds) /\ ds \in Seq(FolderIds)
      /\ gs \in Seq(FileIds) /\ hs \in Seq(FileIds)
      /\ cab[r].folders = ds[1]
  <2>1. DOMAIN NextFolderIn(folder) = FolderIds /\ DOMAIN nextFile = FileIds
    BY <1>1 DEF NextFolderIn, Heap, AreFiles
  <2> QED BY <1>6, <2>1 DEF IsList
<1>8. ASSUME NEW D, NEW q \in Seq(D), q # <<>> PROVE Final(q) \in Elements(q) /\ q[1] \in Elements(q)
  <2>1. Len(q) \in 1 .. Len(q) /\ 1 \in 1 .. Len(q) /\ DOMAIN q = 1 .. Len(q)
    BY <1>8
  <2> QED BY <2>1 DEF Final, Elements
<1>9. Final(fs) \in Elements(fs) /\ Final(gs) \in Elements(gs) /\ ds[1] \in Elements(ds)
  BY <1>6, <1>7, <1>8
<1> QED BY <1>1, <1>2, <1>3, <1>4, <1>6, <1>7, <1>9, Zenon

\* Two sets without a split folder between them.
LEMMA JoinListsHeap ==
    ASSUME NEW S, NEW s, NEW t, NEW l, NEW r, JoinArgsAre(S, s, t, l, r), JoinLists(l, r)
    PROVE  /\ Heap((S \ {s, t}) \cup {s \o t}, opened, cab', folder', nextFile', live')
           /\ live' = live /\ \A f \in FolderIds : folder'[f].data = folder[f].data
                                                 /\ folder'[f].mergePrev = folder[f].mergePrev
<1>1. PICK fs, gs, ds, hs :
         /\ FoldersOf(l) = fs /\ FilesOf(l) = gs /\ FilesOf(r) = hs
         /\ fs # <<>> /\ gs # <<>> /\ ds # <<>> /\ hs # <<>>
         /\ fs \in Seq(FolderIds) /\ ds \in Seq(FolderIds)
         /\ gs \in Seq(FileIds) /\ hs \in Seq(FileIds)
         /\ Elements(fs) = FoldersIn(live, s) /\ Elements(ds) = FoldersIn(live, t)
         /\ Elements(gs) = FilesIn(live, s) /\ Elements(hs) = FilesIn(live, t)
         /\ IsList(NextFolderIn(folder), cab[l].folders, fs)
         /\ IsList(nextFile, cab[l].files, gs)
         /\ IsList(NextFolderIn(folder), cab[r].folders, ds)
         /\ IsList(nextFile, cab[r].files, hs)
         /\ Final(fs) \in Elements(fs) /\ Final(gs) \in Elements(gs)
         /\ cab[r].folders = ds[1] /\ ds[1] \in Elements(ds)
         /\ Elements(s) \cap Elements(t) = {} /\ l \in Elements(s) /\ r \in Elements(t)
  BY ListsOfBoth, Zenon
<1>2. PICK E : E = Elements(s) \cup Elements(t)
  OBVIOUS
<1>3. PICK lfol, last : lfol = Final(fs) /\ last = Final(gs)
  OBVIOUS
<1>4. /\ lfol \in live \cap FolderIds /\ lfol[2] \in E
      /\ last \in live \cap FileIds /\ last[2] \in E
  BY <1>1, <1>2, <1>3 DEF FoldersIn, FilesIn
<1>5. /\ folder' = [folder EXCEPT ![lfol].next = cab[r].folders]
      /\ nextFile' = [nextFile EXCEPT ![last] = cab[r].files]
      /\ Attach(l, r, cab[l].files) /\ live' = live
  BY <1>1, <1>3 DEF JoinLists
<1>6. AreFolders(folder) /\ AreFiles(nextFile)
  BY DEF JoinArgsAre, Heap
<1>7. cab[r].folders \in FolderIds /\ cab[r].files \in OrNull(FileIds)
  <2>1. ds[1] \in FolderIds
    BY <1>1 DEF FoldersIn
  <2>2. 1 \in DOMAIN hs /\ hs[1] \in FileIds
    BY <1>1
  <2>3. cab[r].files = hs[1]
    BY <1>1 DEF IsList
  <2> QED BY <1>1, <2>1, <2>2, <2>3 DEF OrNull
<1>8. ASSUME NEW f \in FolderIds
      PROVE  /\ IsFolder(folder'[f])
             /\ folder'[f].next = IF f = lfol THEN cab[r].folders ELSE folder[f].next
             /\ folder'[f].data = folder[f].data
             /\ folder'[f].mergePrev = folder[f].mergePrev
             /\ folder'[f].mergeNext = folder[f].mergeNext
             /\ f # lfol => folder'[f] = folder[f]
  <2>1. PICK x : x = folder[f]
    OBVIOUS
  <2>2. x = [next |-> x.next, comp |-> x.comp, blocks |-> x.blocks, data |-> x.data,
             mergePrev |-> x.mergePrev, mergeNext |-> x.mergeNext]
    BY <1>6, <2>1 DEF AreFolders, IsFolder
  <2>3. folder'[f] = IF f = lfol THEN [x EXCEPT !.next = cab[r].folders] ELSE x
    BY <1>5, <1>6, <2>1 DEF AreFolders
  <2>4. CASE f = lfol
    <3>1. folder'[f] = [next |-> cab[r].folders, comp |-> x.comp, blocks |-> x.blocks, data |-> x.data,
                        mergePrev |-> x.mergePrev, mergeNext |-> x.mergeNext]
      BY <2>2, <2>3, <2>4
    <3> QED BY <2>1, <2>4, <3>1 DEF IsFolder
  <2>5. CASE f # lfol
    BY <2>1, <2>2, <2>3, <2>5 DEF IsFolder
  <2> QED BY <2>4, <2>5
<1>9. AreFolders(folder')
  <2>1. DOMAIN folder' = FolderIds
    BY <1>5, <1>6 DEF AreFolders
  <2> QED BY <1>6, <1>7, <1>8, <2>1 DEF AreFolders, OrNull
<1>10. AreFiles(nextFile') /\ \A g \in FileIds : nextFile'[g] = IF g = last THEN cab[r].files ELSE nextFile[g]
  BY <1>5, <1>6, <1>7 DEF AreFiles
<1>11. IsList(NextFolderIn(folder'), cab[l].folders, fs \o ds)
  <2>1. PICK n : n = NextFolderIn(folder)
    OBVIOUS
  <2>2. PICK n2 : n2 = NextFolderIn(folder')
    OBVIOUS
  <2>3. /\ DOMAIN n2 = DOMAIN n
        /\ \A f \in FolderIds : n[f] = folder[f].next /\ n2[f] = folder'[f].next
    BY <2>1, <2>2 DEF NextFolderIn
  <2>4. Elements(fs) \cap Elements(ds) = {} /\ Elements(fs) \cup Elements(ds) \subseteq FolderIds
    BY <1>1 DEF FoldersIn
  <2>5. n2[fs[Len(fs)]] = cab[r].folders
    BY <1>3, <1>4, <1>8, <2>3 DEF Final
  <2>6. \A f \in (Elements(fs) \ {fs[Len(fs)]}) \cup Elements(ds) : n2[f] = n[f]
    BY <1>1, <1>3, <1>8, <2>3, <2>4 DEF Final
  <2>7. IsList(n, cab[l].folders, fs) /\ IsList(n, cab[r].folders, ds) /\ fs # <<>>
    BY <1>1, <2>1
  <2>8. IsList(n2, cab[l].folders, fs \o ds)
    BY <2>3, <2>4, <2>5, <2>6, <2>7, JoinChains
  <2> QED BY <2>2, <2>8
<1>12. IsList(nextFile', cab[l].files, gs \o hs)
  <2>1. Elements(gs) \cap Elements(hs) = {} /\ Elements(gs) \cup Elements(hs) \subseteq FileIds
    BY <1>1 DEF FilesIn
  <2>2. nextFile'[gs[Len(gs)]] = cab[r].files
    BY <1>3, <1>4, <1>10 DEF Final
  <2>3. \A g \in (Elements(gs) \ {gs[Len(gs)]}) \cup Elements(hs) : nextFile'[g] = nextFile[g]
    BY <1>1, <1>3, <1>10, <2>1 DEF Final
  <2>4. IsList(nextFile, cab[l].files, gs) /\ IsList(nextFile, cab[r].files, hs) /\ gs # <<>>
    BY <1>1
  <2>5. DOMAIN nextFile' = DOMAIN nextFile
    BY <1>6, <1>10 DEF AreFiles
  <2> QED BY <2>1, <2>2, <2>3, <2>4, <2>5, JoinChains
<1>13. /\ Elements(fs \o ds) = {f \in live' \cap FolderIds : f[2] \in E}
       /\ Elements(gs \o hs) = {g \in live' \cap FileIds : g[2] \in E}
       /\ fs \o ds # <<>> /\ gs \o hs # <<>>
  <2>1. Elements(fs \o ds) = Elements(fs) \cup Elements(ds) /\ Elements(gs \o hs) = Elements(gs) \cup Elements(hs)
    BY <1>1, ConcatIs
  <2>2. fs \o ds # <<>> /\ gs \o hs # <<>>
    <3>1. Elements(fs \o ds) # {} /\ Elements(gs \o hs) # {}
      BY <1>1, <2>1
    <3> QED BY <3>1 DEF Elements
  <2> QED BY <1>1, <1>2, <1>5, <2>1, <2>2 DEF FoldersIn, FilesIn
<1>14. /\ \A f \in FolderIds : f[2] \notin E => folder'[f] = folder[f]
       /\ \A g \in FileIds : g[2] \notin E => nextFile'[g] = nextFile[g]
  BY <1>4, <1>8, <1>10
<1>15. /\ \A g \in live' \cap FileIds : FolderOf(g) \in live'
       /\ \A f \in live' \cap FolderIds : \A g \in {folder'[f].mergePrev, folder'[f].mergeNext} :
             g = NULL \/ (g \in live' /\ g \in FileIds /\ FolderOf(g) = f)
  BY <1>5, <1>8 DEF JoinArgsAre, Heap
<1>16. \A f \in live' \cap FolderIds : f[2] \in E =>
          \A i \in 1 .. Len(folder'[f].data) : folder'[f].data[i][2] \in E
  <2>1. \A x \in {s, t} : \A f \in FoldersIn(live, x) : \A i \in 1 .. Len(folder[f].data) :
           folder[f].data[i][2] \in Elements(x)
    BY DEF JoinArgsAre, Heap
  <2> QED BY <1>2, <1>5, <1>8, <2>1 DEF FoldersIn
<1>17. live' \subseteq live /\ \A x \in live \ live' : x[2] \in E
  BY <1>5
<1>18. JoinLeaves(E, l, cab[l].files, fs \o ds, gs \o hs)
  BY <1>9, <1>10, <1>11, <1>12, <1>13, <1>14, <1>15, <1>16, <1>17, Zenon DEF JoinLeaves
<1>19. Heap((S \ {s, t}) \cup {s \o t}, opened, cab', folder', nextFile', live')
  <2>1. PICK head, us, vs : head = cab[l].files /\ us = fs \o ds /\ vs = gs \o hs
    OBVIOUS
  <2>2. Attach(l, r, head) /\ JoinLeaves(E, l, head, us, vs)
    BY <1>5, <1>18, <2>1
  <2> QED BY <1>2, <2>2, JoinHeap, Zenon
<1> QED BY <1>5, <1>8, <1>19

\* A folder that is merged: rfol becomes a part of lfol and goes with its files.
MergeFolders(lfol, rfol, next, blocks, data, merge) ==
    folder' = [folder EXCEPT
        ![rfol] = ReadFolder(rfol[2], rfol[3]),
        ![lfol].next = next,
        ![lfol].blocks = blocks,
        ![lfol].data = data,
        ![lfol].mergeNext = merge]

LEMMA MergedFolders ==
    ASSUME AreFolders(folder), NEW lfol \in FolderIds, NEW rfol \in FolderIds, lfol # rfol,
           NEW next \in OrNull(FolderIds), NEW blocks, NEW data \in Seq(FolderIds), data # <<>>, NEW merge,
           MergeFolders(lfol, rfol, next, blocks, data, merge)
    PROVE  /\ AreFolders(folder')
           /\ \A f \in FolderIds \ {lfol, rfol} : folder'[f] = folder[f]
           /\ folder'[lfol].next = next /\ folder'[lfol].data = data
           /\ folder'[lfol].mergePrev = folder[lfol].mergePrev
           /\ folder'[lfol].mergeNext = merge
<1>1. PICK x : x = folder[lfol]
  OBVIOUS
<1>2. x = [next |-> x.next, comp |-> x.comp, blocks |-> x.blocks, data |-> x.data,
           mergePrev |-> x.mergePrev, mergeNext |-> x.mergeNext]
  BY <1>1 DEF AreFolders, IsFolder
<1>3. PICK a : a = [x EXCEPT !.next = next]
  OBVIOUS
<1>4. a = [next |-> next, comp |-> x.comp, blocks |-> x.blocks, data |-> x.data,
           mergePrev |-> x.mergePrev, mergeNext |-> x.mergeNext]
  BY <1>2, <1>3
<1>5. PICK b : b = [a EXCEPT !.blocks = blocks]
  OBVIOUS
<1>6. b = [next |-> next, comp |-> x.comp, blocks |-> blocks, data |-> x.data,
           mergePrev |-> x.mergePrev, mergeNext |-> x.mergeNext]
  BY <1>4, <1>5
<1>7. PICK c : c = [b EXCEPT !.data = data]
  OBVIOUS
<1>8. c = [next |-> next, comp |-> x.comp, blocks |-> blocks, data |-> data,
           mergePrev |-> x.mergePrev, mergeNext |-> x.mergeNext]
  BY <1>6, <1>7
<1>9. PICK e : e = [c EXCEPT !.mergeNext = merge]
  OBVIOUS
<1>10. e = [next |-> next, comp |-> x.comp, blocks |-> blocks, data |-> data,
            mergePrev |-> x.mergePrev, mergeNext |-> merge]
  BY <1>8, <1>9
<1>11. DOMAIN folder = FolderIds
  BY DEF AreFolders
<1>12. /\ DOMAIN folder' = FolderIds
       /\ folder'[rfol] = ReadFolder(rfol[2], rfol[3])
       /\ \A f \in FolderIds \ {lfol, rfol} : folder'[f] = folder[f]
  BY <1>11 DEF MergeFolders
<1>13. folder'[lfol] = e
  <2>1. folder'[lfol] = [[[[x EXCEPT !.next = next] EXCEPT !.blocks = blocks]
                             EXCEPT !.data = data] EXCEPT !.mergeNext = merge]
    BY <1>1, <1>11 DEF MergeFolders
  <2> QED BY <1>3, <1>5, <1>7, <1>9, <2>1
<1>14. IsFolder(e) /\ e.next = next /\ e.data = data /\ e.mergePrev = x.mergePrev /\ e.mergeNext = merge
  BY <1>10 DEF IsFolder
<1>15. PICK z : z = ReadFolder(rfol[2], rfol[3])
  OBVIOUS
<1>16. IsFolder(z) /\ z.next \in OrNull(FolderIds) /\ z.data = <<rfol>>
  BY <1>15, ReadFolderIs
<1>17. z.data \in Seq(FolderIds) /\ z.data # <<>>
  BY <1>16
<1>18. ASSUME NEW f \in FolderIds
       PROVE  /\ IsFolder(folder'[f]) /\ folder'[f].next \in OrNull(FolderIds)
              /\ folder'[f].data \in Seq(FolderIds) /\ folder'[f].data # <<>>
  <2>1. CASE f = lfol
    BY <1>13, <1>14, <2>1
  <2>2. CASE f = rfol
    BY <1>12, <1>15, <1>16, <1>17, <2>2
  <2>3. CASE f # lfol /\ f # rfol
    BY <1>12, <2>3 DEF AreFolders
  <2> QED BY <2>1, <2>2, <2>3
<1>19. AreFolders(folder')
  BY <1>12, <1>18 DEF AreFolders
<1> QED BY <1>1, <1>12, <1>13, <1>14, <1>19

\* Two sets with a folder that is split between them.
LEMMA JoinMergingHeap ==
    ASSUME NEW S, NEW s, NEW t, NEW l, NEW r, JoinArgsAre(S, s, t, l, r), JoinMerging(l, r)
    PROVE  /\ Heap((S \ {s, t}) \cup {s \o t}, opened, cab', folder', nextFile', live')
           /\ \A f \in live \cap FolderIds : folder[f].mergePrev = NULL =>
                 /\ f \in live' /\ folder'[f].mergePrev = NULL
                 /\ Len(folder[f].data) <= Len(folder'[f].data)
                 /\ \A i \in 1 .. Len(folder[f].data) : folder'[f].data[i] = folder[f].data[i]
<1>1. PICK fs, gs, ds, hs :
         /\ FoldersOf(l) = fs /\ FilesOf(l) = gs /\ FilesOf(r) = hs
         /\ fs # <<>> /\ gs # <<>> /\ ds # <<>> /\ hs # <<>>
         /\ fs \in Seq(FolderIds) /\ ds \in Seq(FolderIds)
         /\ gs \in Seq(FileIds) /\ hs \in Seq(FileIds)
         /\ Elements(fs) = FoldersIn(live, s) /\ Elements(ds) = FoldersIn(live, t)
         /\ Elements(gs) = FilesIn(live, s) /\ Elements(hs) = FilesIn(live, t)
         /\ IsList(NextFolderIn(folder), cab[l].folders, fs)
         /\ IsList(nextFile, cab[l].files, gs)
         /\ IsList(NextFolderIn(folder), cab[r].folders, ds)
         /\ IsList(nextFile, cab[r].files, hs)
         /\ Final(fs) \in Elements(fs) /\ Final(gs) \in Elements(gs)
         /\ cab[r].folders = ds[1] /\ ds[1] \in Elements(ds)
         /\ Elements(s) \cap Elements(t) = {} /\ l \in Elements(s) /\ r \in Elements(t)
  BY ListsOfBoth, Zenon
<1>2. PICK E : E = Elements(s) \cup Elements(t)
  OBVIOUS
<1>3. PICK lfol, rfol : lfol = Final(fs) /\ rfol = ds[1]
  OBVIOUS
<1>4. /\ lfol \in live \cap FolderIds /\ lfol[2] \in Elements(s)
      /\ rfol \in live \cap FolderIds /\ rfol[2] \in Elements(t) /\ lfol # rfol
  BY <1>1, <1>3 DEF FoldersIn
<1>5. PICK all, kept : all = gs \o hs /\ kept = Without(all, rfol)
  OBVIOUS
<1>6. /\ folder[rfol].mergePrev # NULL
      /\ folder' = [folder EXCEPT
            ![rfol] = ReadFolder(rfol[2], rfol[3]),
            ![lfol].next = folder[rfol].next,
            ![lfol].blocks = @ + folder[rfol].blocks - 1,
            ![lfol].data = @ \o folder[rfol].data,
            ![lfol].mergeNext = MergedNext(lfol, rfol)]
      /\ nextFile' = Linked(nextFile, kept, all)
      /\ live' = live \ ({rfol} \cup (Elements(all) \ Elements(kept)))
      /\ Attach(l, r, kept[1])
  BY <1>1, <1>3, <1>5 DEF JoinMerging, CanMerge
<1>7. /\ AreFolders(folder) /\ AreFiles(nextFile)
      /\ live \subseteq FolderIds \cup FileIds
      /\ \A g \in live \cap FileIds : FolderOf(g) \in live
      /\ \A f \in live \cap FolderIds : \A g \in {folder[f].mergePrev, folder[f].mergeNext} :
            g = NULL \/ (g \in live /\ g \in FileIds /\ FolderOf(g) = f)
      /\ \A x \in {s, t} : \A f \in FoldersIn(live, x) : \A i \in 1 .. Len(folder[f].data) :
            folder[f].data[i][2] \in Elements(x)
  BY DEF JoinArgsAre, Heap
<1>8. /\ folder[lfol].data \in Seq(FolderIds) /\ folder[lfol].data # <<>>
      /\ folder[rfol].data \in Seq(FolderIds) /\ folder[rfol].next \in OrNull(FolderIds)
  BY <1>4, <1>7 DEF AreFolders
<1>9. PICK p, q : p = folder[lfol].data /\ q = folder[rfol].data
  OBVIOUS
<1>10. /\ p \o q \in Seq(FolderIds) /\ Len(p \o q) = Len(p) + Len(q) /\ p \o q # <<>>
       /\ \A i \in 1 .. Len(p) : (p \o q)[i] = p[i]
       /\ \A i \in 1 .. Len(q) : (p \o q)[Len(p) + i] = q[i]
       /\ \A i \in 1 .. Len(p) + Len(q) :
             i \in 1 .. Len(p) \/ \E j \in 1 .. Len(q) : i = Len(p) + j
  <2>1. p \in Seq(FolderIds) /\ q \in Seq(FolderIds) /\ p # <<>>
    BY <1>8, <1>9
  <2>2. /\ p \o q \in Seq(FolderIds) /\ Len(p \o q) = Len(p) + Len(q)
        /\ \A i \in 1 .. Len(p) : (p \o q)[i] = p[i]
        /\ \A i \in 1 .. Len(q) : (p \o q)[Len(p) + i] = q[i]
        /\ \A i \in 1 .. Len(p) + Len(q) :
              i \in 1 .. Len(p) \/ \E j \in 1 .. Len(q) : i = Len(p) + j
        /\ Elements(p \o q) = Elements(p) \cup Elements(q)
    BY <2>1, ConcatIs
  <2>3. p \o q # <<>>
    BY <2>1, <2>2
  <2> QED BY <2>2, <2>3
<1>11. /\ AreFolders(folder')
       /\ \A f \in FolderIds \ {lfol, rfol} : folder'[f] = folder[f]
       /\ folder'[lfol].next = folder[rfol].next /\ folder'[lfol].data = p \o q
       /\ folder'[lfol].mergePrev = folder[lfol].mergePrev
       /\ folder'[lfol].mergeNext = MergedNext(lfol, rfol)
  <2>1. PICK next, blocks, data, merge :
           /\ next = folder[rfol].next /\ blocks = folder[lfol].blocks + folder[rfol].blocks - 1
           /\ data = p \o q /\ merge = MergedNext(lfol, rfol)
    OBVIOUS
  <2>2. MergeFolders(lfol, rfol, next, blocks, data, merge)
    <3>1. DOMAIN folder = FolderIds /\ IsFolder(folder[lfol])
      BY <1>4, <1>7 DEF AreFolders
    <3> QED BY <1>4, <1>6, <1>9, <2>1, <3>1 DEF IsFolder, MergeFolders
  <2>3. /\ lfol \in FolderIds /\ rfol \in FolderIds /\ lfol # rfol /\ next \in OrNull(FolderIds)
        /\ data \in Seq(FolderIds) /\ data # <<>>
    BY <1>4, <1>8, <1>10, <2>1
  <2>4. /\ AreFolders(folder')
        /\ \A f \in FolderIds \ {lfol, rfol} : folder'[f] = folder[f]
        /\ folder'[lfol].next = next /\ folder'[lfol].data = data
        /\ folder'[lfol].mergePrev = folder[lfol].mergePrev
        /\ folder'[lfol].mergeNext = merge
    BY <1>7, <2>2, <2>3, MergedFolders
  <2> QED BY <2>1, <2>4
<1>12. /\ all \in Seq(FileIds) /\ Distinct(all)
       /\ Elements(all) = {g \in live \cap FileIds : g[2] \in E}
  <2>1. Elements(all) = Elements(gs) \cup Elements(hs) /\ all \in Seq(FileIds)
    BY <1>1, <1>5, ConcatIs
  <2>2. Elements(gs) \cap Elements(hs) = {}
    BY <1>1 DEF FilesIn
  <2>3. PICK nf : nf = [g \in FileIds |-> IF g = gs[Len(gs)] THEN cab[r].files ELSE nextFile[g]]
    OBVIOUS
  <2>4. DOMAIN nextFile = FileIds /\ DOMAIN nf = DOMAIN nextFile
    BY <1>7, <2>3 DEF AreFiles
  <2>5. Elements(gs) \cup Elements(hs) \subseteq FileIds /\ gs[Len(gs)] \in Elements(gs)
    BY <1>1 DEF FilesIn, Final
  <2>6. /\ nf[gs[Len(gs)]] = cab[r].files
        /\ \A g \in (Elements(gs) \ {gs[Len(gs)]}) \cup Elements(hs) : nf[g] = nextFile[g]
    BY <2>2, <2>3, <2>5
  <2>7. IsList(nf, cab[l].files, gs \o hs)
    <3>1. IsList(nextFile, cab[l].files, gs) /\ IsList(nextFile, cab[r].files, hs) /\ gs # <<>>
      BY <1>1
    <3> QED BY <2>2, <2>4, <2>6, <3>1, JoinChains
  <2> QED BY <1>1, <1>2, <1>5, <2>1, <2>7 DEF IsList, FilesIn
<1>13. /\ kept \in Seq(FileIds) /\ Distinct(kept)
       /\ Elements(kept) = {g \in Elements(all) : FolderOf(g) # rfol}
  BY <1>5, <1>12, WithoutIs
<1>14. kept # <<>>
  <2>1. Final(gs) \in Elements(all)
    BY <1>1, <1>2, <1>12 DEF FilesIn
  <2>2. FolderOf(Final(gs)) # rfol
    <3>1. Final(gs) \in FileIds /\ Final(gs)[2] \in Elements(s)
      BY <1>1 DEF FilesIn
    <3>2. FolderOf(Final(gs))[2] \in Elements(s)
      BY <3>1, FolderOfIs
    <3> QED BY <1>1, <1>4, <3>2
  <2>3. Elements(kept) # {}
    BY <1>13, <2>1, <2>2
  <2> QED BY <2>3 DEF Elements
<1>15. /\ nextFile' \in [FileIds -> OrNull(FileIds)]
       /\ IsList(nextFile', kept[1], kept)
       /\ \A g \in FileIds \ (Elements(kept) \cup Elements(all)) : nextFile'[g] = nextFile[g]
  <2>1. NULL \notin FileIds /\ nextFile \in [FileIds -> OrNull(FileIds)]
    BY <1>7, FileIdsAre DEF AreFiles
  <2>2. /\ Linked(nextFile, kept, all) \in [FileIds -> OrNull(FileIds)]
        /\ IsList(Linked(nextFile, kept, all), kept[1], kept)
        /\ \A o \in FileIds \ (Elements(kept) \cup Elements(all)) : Linked(nextFile, kept, all)[o] = nextFile[o]
    BY <1>13, <1>14, <2>1, LinkedIs
  <2> QED BY <1>6, <2>2
<1>16. live' = live \ ({rfol} \cup {g \in live \cap FileIds : FolderOf(g) = rfol})
  <2>1. \A g \in live \cap FileIds : FolderOf(g) = rfol => g \in Elements(all)
    <3>1. \A g \in FileIds : FolderOf(g)[2] = g[2]
      BY FolderOfIs
    <3> QED BY <1>2, <1>4, <1>12, <3>1
  <2>2. Elements(all) \ Elements(kept) = {g \in live \cap FileIds : FolderOf(g) = rfol}
    BY <1>12, <1>13, <2>1
  <2> QED BY <1>6, <2>2
<1>17. FileIds \cap FolderIds = {}
  BY FileIdsAre
<1>18. PICK us : us = fs \o Tail(ds)
  OBVIOUS
<1>19. /\ IsList(NextFolderIn(folder'), cab[l].folders, us) /\ us # <<>>
       /\ Elements(us) = {f \in live' \cap FolderIds : f[2] \in E}
  <2>1. PICK n : n = NextFolderIn(folder)
    OBVIOUS
  <2>2. PICK n2 : n2 = NextFolderIn(folder')
    OBVIOUS
  <2>3. /\ DOMAIN n2 = DOMAIN n /\ DOMAIN n = FolderIds
        /\ \A f \in FolderIds : n[f] = folder[f].next /\ n2[f] = folder'[f].next
    BY <2>1, <2>2 DEF NextFolderIn
  <2>4. PICK rest : rest = Tail(ds)
    OBVIOUS
  <2>5. /\ IsList(n, n[ds[1]], rest)
        /\ Elements(rest) = Elements(ds) \ {ds[1]} /\ ds[1] \in Elements(ds)
    <3>1. IsList(n, cab[r].folders, ds) /\ ds # <<>> /\ NULL \notin DOMAIN n
      BY <1>1, <2>1, <2>3, FolderIdsAre
    <3> QED BY <2>4, <3>1, TailIsList
  <2>6. Elements(fs) \cap Elements(rest) = {} /\ Elements(fs) \cup Elements(rest) \subseteq FolderIds
    BY <1>1, <2>5 DEF FoldersIn
  <2>7. n2[fs[Len(fs)]] = n[ds[1]]
    BY <1>3, <1>4, <1>11, <2>3 DEF Final
  <2>8. \A f \in (Elements(fs) \ {fs[Len(fs)]}) \cup Elements(rest) : n2[f] = n[f]
    <3>1. ASSUME NEW f \in (Elements(fs) \ {fs[Len(fs)]}) \cup Elements(rest)
          PROVE  f \in FolderIds \ {lfol, rfol}
      <4>1. lfol = fs[Len(fs)] /\ lfol \in Elements(fs) /\ rfol = ds[1]
        BY <1>1, <1>3 DEF Final
      <4>2. rfol \notin Elements(fs)
        BY <1>1, <1>4 DEF FoldersIn
      <4> QED BY <2>5, <2>6, <4>1, <4>2
    <3> QED BY <1>11, <2>3, <3>1
  <2>9. IsList(n2, cab[l].folders, fs \o rest)
    <3>1. IsList(n, cab[l].folders, fs) /\ fs # <<>> /\ DOMAIN n2 = DOMAIN n
      BY <1>1, <2>1, <2>3
    <3> QED BY <2>5, <2>6, <2>7, <2>8, <3>1, JoinChains
  <2>10. Elements(us) = Elements(fs) \cup Elements(rest)
    <3>1. rest \in Seq(FolderIds)
      BY <2>3, <2>5 DEF IsList
    <3>2. fs \in Seq(FolderIds) /\ us = fs \o rest
      BY <1>1, <1>18, <2>4
    <3>3. Elements(fs \o rest) = Elements(fs) \cup Elements(rest)
      BY <3>1, <3>2, ConcatIs
    <3> QED BY <3>2, <3>3
  <2>11. Elements(us) = {f \in live' \cap FolderIds : f[2] \in E}
    BY <1>1, <1>2, <1>3, <1>16, <1>17, <2>5, <2>10 DEF FoldersIn
  <2>12. us # <<>>
    <3>1. Elements(us) # {}
      BY <1>1, <2>10
    <3> QED BY <3>1 DEF Elements
  <2> QED BY <1>18, <2>2, <2>4, <2>9, <2>11, <2>12
<1>20. Elements(kept) = {g \in live' \cap FileIds : g[2] \in E}
  BY <1>4, <1>12, <1>13, <1>16, <1>17
<1>21. live' \subseteq live /\ \A x \in live \ live' : x[2] \in E
  <2>1. \A g \in FileIds : FolderOf(g)[2] = g[2]
    BY FolderOfIs
  <2> QED BY <1>2, <1>4, <1>16, <2>1
<1>22. /\ \A f \in FolderIds : f[2] \notin E => folder'[f] = folder[f]
       /\ \A g \in FileIds : g[2] \notin E => nextFile'[g] = nextFile[g]
  BY <1>2, <1>4, <1>11, <1>12, <1>13, <1>15
<1>23. \A g \in live' \cap FileIds : FolderOf(g) \in live'
  <2>1. \A g \in FileIds : FolderOf(g) \in FolderIds
    BY FolderOfIs
  <2> QED BY <1>7, <1>16, <1>17, <2>1
<1>24. ASSUME NEW f \in live' \cap FolderIds, NEW g \in {folder'[f].mergePrev, folder'[f].mergeNext}
       PROVE  g = NULL \/ (g \in live' /\ g \in FileIds /\ FolderOf(g) = f)
  <2>1. f \in live /\ f # rfol
    BY <1>16
  <2>2. g = NULL \/ (g \in live /\ g \in FileIds /\ FolderOf(g) = f)
    <3>1. CASE f # lfol
      <4>1. folder'[f] = folder[f]
        BY <1>11, <2>1, <3>1
      <4> QED BY <1>7, <2>1, <4>1
    <3>2. CASE f = lfol
      <4>1. CASE g = folder[lfol].mergePrev \/ g = folder[lfol].mergeNext
        BY <1>4, <1>7, <3>2, <4>1
      <4>2. CASE ~(g = folder[lfol].mergePrev \/ g = folder[lfol].mergeNext)
        <5>1. g = MergedNext(lfol, rfol)
          BY <1>11, <3>2, <4>2
        <5>2. PICK next : next = folder[rfol].mergeNext
          OBVIOUS
        <5>3. next = NULL \/ FolderOf(next) = rfol
          BY <1>4, <1>7, <5>2
        <5>4. g = IF next = NULL \/ FolderOf(next) # rfol THEN next ELSE folder[lfol].mergeNext
          BY <5>1, <5>2 DEF MergedNext
        <5> QED BY <4>2, <5>3, <5>4
      <4> QED BY <4>1, <4>2
    <3> QED BY <3>1, <3>2
  <2> QED BY <1>4, <1>16, <1>17, <2>1, <2>2
<1>25. ASSUME NEW f \in live' \cap FolderIds, f[2] \in E, NEW i \in 1 .. Len(folder'[f].data)
       PROVE  folder'[f].data[i][2] \in E
  <2>1. f \in live /\ f # rfol
    BY <1>16
  <2>2. \A x \in live \cap FolderIds : x[2] \in E =>
           \A j \in 1 .. Len(folder[x].data) : folder[x].data[j][2] \in E
    BY <1>2, <1>7 DEF FoldersIn
  <2>3. CASE f # lfol
    BY <1>11, <1>25, <2>1, <2>2, <2>3
  <2>4. CASE f = lfol
    <3>1. /\ \A j \in 1 .. Len(p) : p[j][2] \in E
          /\ \A j \in 1 .. Len(q) : q[j][2] \in E
      BY <1>2, <1>4, <1>9, <2>2
    <3>2. folder'[f].data = p \o q /\ i \in 1 .. Len(p) + Len(q)
      BY <1>10, <1>11, <2>4
    <3> QED BY <1>10, <3>1, <3>2
  <2> QED BY <2>3, <2>4
<1>26. JoinLeaves(E, l, kept[1], us, kept)
  BY <1>11, <1>14, <1>15, <1>19, <1>20, <1>21, <1>22, <1>23, <1>24, <1>25, Zenon DEF JoinLeaves, AreFiles
<1>27. Heap((S \ {s, t}) \cup {s \o t}, opened, cab', folder', nextFile', live')
  <2>1. PICK head : head = kept[1]
    OBVIOUS
  <2>2. Attach(l, r, head) /\ JoinLeaves(E, l, head, us, kept)
    BY <1>6, <1>26, <2>1
  <2> QED BY <1>2, <2>2, JoinHeap, Zenon
<1>28. ASSUME NEW f \in live \cap FolderIds, folder[f].mergePrev = NULL
       PROVE  /\ f \in live' /\ folder'[f].mergePrev = NULL
              /\ Len(folder[f].data) <= Len(folder'[f].data)
              /\ \A i \in 1 .. Len(folder[f].data) : folder'[f].data[i] = folder[f].data[i]
  <2>1. f # rfol /\ f \in live'
    BY <1>6, <1>16, <1>17, <1>28
  <2>2. CASE f = lfol
    <3>1. Len(p) \in Nat /\ Len(q) \in Nat
      BY <1>8, <1>9
    <3>2. Len(p) <= Len(p \o q)
      BY <1>10, <3>1
    <3> QED BY <1>9, <1>10, <1>11, <1>28, <2>1, <2>2, <3>2
  <2>3. CASE f # lfol
    <3>1. folder'[f] = folder[f]
      BY <1>11, <2>1, <2>3
    <3>2. Len(folder[f].data) \in Nat
      BY <1>7 DEF AreFolders
    <3> QED BY <1>28, <2>1, <3>1, <3>2
  <2> QED BY <2>2, <2>3
<1> QED BY <1>27, <1>28

\* A list without a head is empty.
LEMMA NoList ==
    ASSUME NEW D, IsFiniteSet(D), NULL \notin D, NEW next \in [D -> OrNull(D)]
    PROVE  Elements(ListOf(next, NULL)) = {}
<1>1. IsList(next, NULL, <<>>)
  BY DEF IsList, Distinct
<1>2. ListOf(next, NULL) = <<>>
  BY <1>1, ListIs
<1> QED BY <1>2 DEF Elements

\* close frees what belongs to the cabinets that go.
LEMMA CloseHeap ==
    ASSUME NEW S, AreCabs(opened, cab), AreSets(S, opened, cab),
           Heap(S, opened, cab, folder, nextFile, live), NEW c \in Cabs, CloseCabs(c)
    PROVE  /\ Heap(S \ Ended(S, c), opened', cab', folder', nextFile', live')
           /\ \A f \in live' \cap FolderIds : folder'[f] = folder[f]
           /\ \A f \in live \cap FolderIds :
                 (\A h \in ClosedHeads(c) : f \notin Elements(FoldersOf(h))) => f \in live'
<1>1. PICK left : left = S \ Ended(S, c)
  OBVIOUS
<1>2. /\ opened' = opened \ UNION {Elements(s) : s \in Ended(S, c)}
      /\ AreSets(left, opened', cab')
  BY <1>1, CloseSets
<1>3. ClosedHeads(c) \subseteq Cabs
  <2>1. FoundNext \in [Cabs -> OrNull(Cabs)]
    BY DEF FoundNext, AreCabs
  <2>2. IsFiniteSet(Cabs) /\ NULL \notin Cabs /\ c \in OrNull(Cabs)
    BY ImageAssumption DEF OrNull
  <2> QED BY <2>1, <2>2, ListTyped DEF ClosedHeads
<1>4. /\ AreFolders(folder) /\ AreFiles(nextFile)
      /\ live \subseteq FolderIds \cup FileIds /\ \A x \in live : x[2] \in opened
      /\ \A g \in live \cap FileIds : FolderOf(g) \in live
      /\ \A f \in live \cap FolderIds : \A g \in {folder[f].mergePrev, folder[f].mergeNext} :
            g = NULL \/ (g \in live /\ g \in FileIds /\ FolderOf(g) = f)
      /\ \A s \in S : \A f \in FoldersIn(live, s) : \A i \in 1 .. Len(folder[f].data) :
            folder[f].data[i][2] \in Elements(s)
  BY DEF Heap
<1>5. \A s \in S : \A h \in Elements(s) :
         Elements(FoldersOf(h)) = FoldersIn(live, s) /\ Elements(FilesOf(h)) = FilesIn(live, s)
  BY ListsAre DEF ListsOf
<1>6. ASSUME NEW h \in Cabs \ opened PROVE Elements(FoldersOf(h)) = {} /\ Elements(FilesOf(h)) = {}
  <2>1. cab[h].folders = NULL /\ cab[h].files = NULL
    BY DEF AreCabs, NoCab
  <2>2. NextFolder \in [FolderIds -> OrNull(FolderIds)] /\ nextFile \in [FileIds -> OrNull(FileIds)]
    BY <1>4 DEF AreFolders, AreFiles, NextFolder
  <2> QED BY <2>1, <2>2, NoList, FolderIdsAre, FileIdsAre DEF FoldersOf, FilesOf
<1>7. /\ opened = UNION {Elements(s) : s \in S}
      /\ \A s, t \in S : \A x : x \in Elements(s) /\ x \in Elements(t) => s = t
  <2>1. \A s \in S : DOMAIN s = 1 .. Len(s)
    BY DEF AreSets
  <2>2. \A s, t \in S : \A i \in 1 .. Len(s), j \in 1 .. Len(t) : s[i] = t[j] => s = t
    BY DEF AreSets
  <2>3. opened = UNION {Elements(s) : s \in S}
    BY DEF AreSets
  <2> QED BY <2>1, <2>2, <2>3 DEF Elements
<1>8. PICK freed : freed = UNION {Elements(FilesOf(h)) \cup Elements(FoldersOf(h)) : h \in ClosedHeads(c)}
  OBVIOUS
<1>9. live' = live \ freed
  BY <1>8 DEF CloseCabs
<1>10. ASSUME NEW x \in live PROVE x \in live' <=> x[2] \in opened'
  <2>1. PICK s \in S : x[2] \in Elements(s)
    BY <1>4, <1>7
  <2>2. x \in FoldersIn(live, s) \cup FilesIn(live, s)
    BY <1>4, <2>1 DEF FoldersIn, FilesIn
  <2>3. x[2] \in opened' <=> s \notin Ended(S, c)
    BY <1>2, <1>4, <1>7, <2>1 DEF Ended
  <2>4. ASSUME s \in Ended(S, c) PROVE x \in freed
    <3>1. PICK h \in ClosedHeads(c) : h \in Elements(s)
      BY <2>4 DEF Ended
    <3> QED BY <1>5, <1>8, <2>2, <3>1
  <2>5. ASSUME x \in freed PROVE s \in Ended(S, c)
    <3>1. PICK h \in ClosedHeads(c) : x \in Elements(FilesOf(h)) \cup Elements(FoldersOf(h))
      BY <1>8, <2>5
    <3>2. h \in opened
      BY <1>3, <1>6, <3>1
    <3>3. PICK t \in S : h \in Elements(t)
      BY <1>7, <3>2
    <3>4. x[2] \in Elements(t)
      BY <1>5, <3>1, <3>3 DEF FoldersIn, FilesIn
    <3>5. s = t
      BY <1>7, <2>1, <3>4
    <3> QED BY <3>1, <3>3, <3>5 DEF Ended
  <2> QED BY <1>9, <2>3, <2>4, <2>5
<1>11. live' = {x \in live : x[2] \in opened'}
  BY <1>9, <1>10
<1>12. cab' = [x \in Cabs |-> IF x \in opened' THEN cab[x] ELSE NoCab]
  BY DEF CloseCabs
<1>13. /\ DOMAIN folder' = FolderIds /\ nextFile' = [g \in FileIds |-> nextFile'[g]]
       /\ \A f \in FolderIds : folder'[f] = IF f \in live' THEN folder[f] ELSE ReadFolder(f[2], f[3])
       /\ \A g \in FileIds : nextFile'[g] = IF g \in live' THEN nextFile[g] ELSE NULL
  BY DEF CloseCabs, Forget
<1>14. AreFolders(folder')
  <2>1. ASSUME NEW f \in FolderIds
        PROVE  /\ IsFolder(folder'[f]) /\ folder'[f].next \in OrNull(FolderIds)
               /\ folder'[f].data \in Seq(FolderIds) /\ folder'[f].data # <<>>
    <3>1. PICK x : x = ReadFolder(f[2], f[3])
      OBVIOUS
    <3>2. IsFolder(x) /\ x.next \in OrNull(FolderIds) /\ x.data = <<f>>
      BY <3>1, ReadFolderIs
    <3>3. x.data \in Seq(FolderIds) /\ x.data # <<>>
      BY <3>2
    <3>4. CASE f \in live'
      BY <1>4, <1>13, <3>4 DEF AreFolders
    <3>5. CASE f \notin live'
      BY <1>13, <3>1, <3>2, <3>3, <3>5
    <3> QED BY <3>4, <3>5
  <2> QED BY <1>13, <2>1 DEF AreFolders
<1>15. AreFiles(nextFile')
  <2>1. \A g \in FileIds : nextFile'[g] \in OrNull(FileIds)
    BY <1>4, <1>13 DEF AreFiles, OrNull
  <2> QED BY <1>13, <2>1 DEF AreFiles
<1>16. ASSUME NEW s \in left
       PROVE  /\ \E fs, gs : ListsOf(s, fs, gs, cab', folder', nextFile', live')
              /\ FoldersIn(live', s) = FoldersIn(live, s)
  <2>1. s \in S /\ Elements(s) \subseteq opened' /\ opened' \subseteq Cabs
    <3>1. Elements(s) \subseteq opened' /\ s \in S /\ opened' \subseteq opened
      BY <1>1, <1>2 DEF AreSets
    <3> QED BY <3>1 DEF AreCabs
  <2>2. FoldersIn(live', s) = FoldersIn(live, s) /\ FilesIn(live', s) = FilesIn(live, s)
    BY <1>11, <2>1 DEF FoldersIn, FilesIn
  <2>3. PICK fs, gs : ListsOf(s, fs, gs, cab, folder, nextFile, live)
    BY <2>1 DEF Heap
  <2>4. \A x \in Elements(s) : cab'[x].folders = cab[x].folders /\ cab'[x].files = cab[x].files
    BY <1>12, <2>1
  <2>5. /\ \A f \in FoldersIn(live, s) : folder'[f].next = folder[f].next
        /\ \A g \in FilesIn(live, s) : nextFile'[g] = nextFile[g]
    <3>1. /\ \A f \in FoldersIn(live, s) : f \in live' /\ f \in FolderIds
          /\ \A g \in FilesIn(live, s) : g \in live' /\ g \in FileIds
      BY <2>2 DEF FoldersIn, FilesIn
    <3> QED BY <1>13, <3>1
  <2>6. DOMAIN nextFile' = DOMAIN nextFile
    BY <1>4, <1>15 DEF AreFiles
  <2>7. ListsOf(s, fs, gs, cab', folder', nextFile', live')
    BY <2>2, <2>3, <2>4, <2>5, <2>6, ListsStay
  <2> QED BY <2>2, <2>7
<1>17. \A f \in live' \cap FolderIds : folder'[f] = folder[f]
  BY <1>13
<1>18. \A g \in live' \cap FileIds : FolderOf(g) \in live'
  <2>1. \A g \in FileIds : FolderOf(g)[2] = g[2]
    BY FolderOfIs
  <2> QED BY <1>4, <1>11, <2>1
<1>19. \A f \in live' \cap FolderIds : \A g \in {folder'[f].mergePrev, folder'[f].mergeNext} :
          g = NULL \/ (g \in live' /\ g \in FileIds /\ FolderOf(g) = f)
  <2>1. \A g \in FileIds : FolderOf(g)[2] = g[2]
    BY FolderOfIs
  <2> QED BY <1>4, <1>11, <1>17, <2>1
<1>20. \A s \in left : \A f \in FoldersIn(live', s) : \A i \in 1 .. Len(folder'[f].data) :
          folder'[f].data[i][2] \in Elements(s)
  <2>1. \A s \in left : s \in S /\ \A f \in FoldersIn(live', s) :
           f \in FoldersIn(live, s) /\ folder'[f] = folder[f]
    BY <1>1, <1>16, <1>17 DEF FoldersIn
  <2> QED BY <1>4, <2>1
<1>21. live' \subseteq FolderIds \cup FileIds /\ \A x \in live' : x[2] \in opened'
  BY <1>4, <1>11
<1>22. Heap(left, opened', cab', folder', nextFile', live')
  BY <1>14, <1>15, <1>16, <1>18, <1>19, <1>20, <1>21, Zenon DEF Heap
<1>23. ASSUME NEW f \in live \cap FolderIds, \A h \in ClosedHeads(c) : f \notin Elements(FoldersOf(h))
       PROVE  f \in live'
  <2>1. ASSUME NEW h \in ClosedHeads(c) PROVE f \notin Elements(FilesOf(h))
    <3>1. CASE h \in opened
      <4>1. PICK s \in S : h \in Elements(s)
        BY <1>7, <3>1
      <4>2. Elements(FilesOf(h)) \subseteq FileIds
        BY <1>5, <4>1 DEF FilesIn
      <4> QED BY <4>2, FileIdsAre
    <3>2. CASE h \notin opened
      BY <1>3, <1>6, <3>2
    <3> QED BY <3>1, <3>2
  <2> QED BY <1>8, <1>9, <1>23, <2>1
<1> QED BY <1>1, <1>17, <1>22, <1>23

-----------------------------------------------------------------------------
(* What search has found.                                                    *)

\* The cabinets found that are open are the first n of Found, in their order and alone.
FoundAre(o, k) ==
    \E n \in 0 .. Len(Found) :
        /\ \A i \in 1 .. Len(Found) : Found[i] \in o <=> i <= n
        /\ \A i \in 1 .. n : k[Found[i]].next = IF i = n THEN NULL ELSE Found[i + 1]
        /\ \A i \in 1 .. n : k[Found[i]].prevcab = NULL /\ k[Found[i]].nextcab = NULL
        /\ \A c \in o \ Elements(Found) : k[c].next = NULL

\* Found is a sequence without repetition.
LEMMA FoundIs ==
    /\ Len(Found) \in Nat /\ DOMAIN Found = 1 .. Len(Found) /\ Found \in Seq(Cabs)
    /\ \A i \in 1 .. Len(Found) : Found[i] \in Cabs /\ Found[i] \in Elements(Found)
    /\ \A i, j \in 1 .. Len(Found) : Found[i] = Found[j] => i = j
    /\ \A c \in Elements(Found) : \E i \in 1 .. Len(Found) : Found[i] = c
<1>1. Len(Found) \in Nat /\ DOMAIN Found = 1 .. Len(Found) /\ Found \in Seq(Cabs)
  BY FoundAssumption
<1>2. \A i, j \in 1 .. Len(Found) : Found[i] = Found[j] => i = j
  BY <1>1, FoundAssumption
<1> QED BY <1>1, <1>2 DEF Elements

\* The cabinet objects after the headers of q have been read.
LEMMA ReadHeadersCabs ==
    ASSUME NEW q \in Seq(Cabs), Distinct(q), ReadHeaders(q)
    PROVE  /\ opened' = opened \cup Elements(q)
           /\ \A c \in Cabs \ Elements(q) : cab'[c] = cab[c]
           /\ \A i \in 1 .. Len(q) :
                 /\ cab'[q[i]].next = IF i = Len(q) THEN NULL ELSE q[i + 1]
                 /\ cab'[q[i]].prevcab = NULL /\ cab'[q[i]].nextcab = NULL
<1> DEFINE Place(c) == CHOOSE i \in DOMAIN q : q[i] = c
           Then(c) == IF Place(c) = Len(q) THEN NULL ELSE q[Place(c) + 1]
<1>1. cab' = [c \in Cabs |->
                IF c \in Elements(q)
                THEN [next |-> Then(c), prevcab |-> NULL, nextcab |-> NULL,
                      files |-> <<"file", c, 1>>, folders |-> <<"folder", c, 1>>]
                ELSE cab[c]]
  BY DEF ReadHeaders
<1>2. ASSUME NEW i \in 1 .. Len(q)
      PROVE  q[i] \in Elements(q) /\ q[i] \in Cabs /\ Place(q[i]) = i
  BY DEF Elements, Distinct
<1> HIDE DEF Place
<1>3. \A i \in 1 .. Len(q) : Then(q[i]) = IF i = Len(q) THEN NULL ELSE q[i + 1]
  BY <1>2
<1> HIDE DEF Then
<1>4. ASSUME NEW i \in 1 .. Len(q)
      PROVE  /\ cab'[q[i]].next = IF i = Len(q) THEN NULL ELSE q[i + 1]
             /\ cab'[q[i]].prevcab = NULL /\ cab'[q[i]].nextcab = NULL
  BY <1>1, <1>2, <1>3
<1>5. \A c \in Cabs \ Elements(q) : cab'[c] = cab[c]
  BY <1>1
<1>6. opened' = opened \cup Elements(q)
  BY DEF ReadHeaders
<1> QED BY <1>4, <1>5, <1>6

\* close ends all that was found, or nothing of it.
LEMMA CloseFound ==
    ASSUME NEW S, AreCabs(opened, cab), AreSets(S, opened, cab), FoundAre(opened, cab),
           NEW c \in Returned, c \in opened, CloseCabs(c)
    PROVE  FoundAre(opened', cab')
<1>1. PICK n \in 0 .. Len(Found) :
        /\ \A i \in 1 .. Len(Found) : Found[i] \in opened <=> i <= n
        /\ \A i \in 1 .. n : cab[Found[i]].next = IF i = n THEN NULL ELSE Found[i + 1]
        /\ \A i \in 1 .. n : cab[Found[i]].prevcab = NULL /\ cab[Found[i]].nextcab = NULL
        /\ \A x \in opened \ Elements(Found) : cab[x].next = NULL
  BY DEF FoundAre
<1>2. /\ opened' = opened \ UNION {Elements(s) : s \in Ended(S, c)}
      /\ c \in Cabs /\ Ended(S, c) \subseteq S
  BY CloseSets DEF Returned, Ended
<1>3. /\ \A x \in opened : \E s \in S : \E i \in 1 .. Len(s) : s[i] = x
      /\ \A s \in S : Len(s) \in Nat \ {0} /\ \A i \in 1 .. Len(s) : s[i] \in opened /\ s[i] \in Cabs
      /\ \A s \in S : DOMAIN s = 1 .. Len(s)
  <2>1. \A s \in S : DOMAIN s = 1 .. Len(s)
    BY DEF AreSets
  <2> QED BY <2>1, PlaceInSet
<1>4. /\ IsFiniteSet(Cabs) /\ NULL \notin Cabs /\ c \in OrNull(Cabs)
      /\ FoundNext \in [Cabs -> OrNull(Cabs)]
      /\ \A x \in Cabs : FoundNext[x] = cab[x].next
  BY <1>2, ImageAssumption DEF OrNull, FoundNext, AreCabs
<1>5. \A x \in opened' : cab'[x] = cab[x]
  <2>1. cab' = [x \in Cabs |-> IF x \in opened' THEN cab[x] ELSE NoCab]
    BY DEF CloseCabs
  <2>2. opened' \subseteq Cabs
    BY <1>2 DEF AreCabs
  <2> QED BY <2>1, <2>2
<1>6. n \in Nat /\ n <= Len(Found)
  BY FoundIs
<1>7. CASE c \in Elements(Found)
  <2>1. c = Found[1] /\ 1 \in 1 .. Len(Found) /\ 1 \in 1 .. n
    <3>1. PICK i \in 1 .. Len(Found) : Found[i] = c
      BY <1>7, FoundIs
    <3>2. i \notin 2 .. Len(Found)
      BY <3>1 DEF Returned
    <3>3. i = 1
      BY <3>2, FoundIs
    <3>4. 1 <= n
      BY <1>1, <3>1, <3>3
    <3> QED BY <1>6, <3>1, <3>3, <3>4
  <2>2. PICK q : q = SubSeq(Found, 1, n)
    OBVIOUS
  <2>3. q \in Seq(Cabs) /\ Len(q) = n /\ \A i \in 1 .. n : q[i] = Found[i]
    BY <1>6, <2>2, FoundIs
  <2>4. q # <<>> /\ q[1] = c
    BY <2>1, <2>3
  <2>5. Distinct(q)
    <3>1. \A i \in 1 .. n : i \in 1 .. Len(Found)
      BY <1>6, FoundIs
    <3> QED BY <2>3, <3>1, FoundIs DEF Distinct
  <2>6. ASSUME NEW i \in 1 .. n PROVE FoundNext[q[i]] = IF i = n THEN NULL ELSE q[i + 1]
    <3>1. i # n => i + 1 \in 1 .. n
      BY <1>6
    <3>2. q[i] \in Cabs
      BY <2>3
    <3> QED BY <1>1, <1>4, <2>3, <3>1, <3>2
  <2>7. IsList(FoundNext, c, q)
    <3>1. DOMAIN FoundNext = Cabs
      BY <1>4
    <3> QED BY <2>3, <2>4, <2>5, <2>6, <3>1 DEF IsList
  <2>8. ClosedHeads(c) = Elements(q)
    BY <1>4, <2>7, ListIs DEF ClosedHeads
  <2>9. ASSUME NEW i \in 1 .. Len(Found) PROVE Found[i] \notin opened'
    <3>1. CASE i <= n
      <4>1. i \in 1 .. n /\ Found[i] \in opened
        BY <1>1, <3>1
      <4>2. Found[i] \in ClosedHeads(c)
        BY <2>3, <2>8, <4>1 DEF Elements
      <4>3. PICK s \in S : Found[i] \in Elements(s)
        BY <1>3, <4>1 DEF Elements
      <4>4. s \in Ended(S, c)
        BY <4>2, <4>3 DEF Ended
      <4> QED BY <1>2, <4>3, <4>4
    <3>2. CASE ~(i <= n)
      BY <1>1, <1>2, <3>2
    <3> QED BY <3>1, <3>2
  <2>10. \A x \in opened' \ Elements(Found) : cab'[x].next = NULL
    BY <1>1, <1>2, <1>5
  <2>11. /\ 0 \in 0 .. Len(Found) /\ 1 .. 0 = {}
         /\ \A i \in 1 .. Len(Found) : ~(i <= 0)
    BY FoundIs
  <2> QED BY <2>9, <2>10, <2>11 DEF FoundAre
<1>8. CASE c \notin Elements(Found)
  <2>1. PICK q : q = <<c>>
    OBVIOUS
  <2>2. q \in Seq(Cabs) /\ Len(q) = 1 /\ q[1] = c /\ q # <<>> /\ Elements(q) = {c} /\ Distinct(q)
    BY <1>2, <2>1 DEF Elements, Distinct
  <2>3. FoundNext[c] = NULL
    BY <1>1, <1>2, <1>4, <1>8
  <2>4. IsList(FoundNext, c, q)
    BY <1>4, <2>2, <2>3 DEF IsList
  <2>5. ClosedHeads(c) = {c}
    BY <1>4, <2>2, <2>4, ListIs DEF ClosedHeads
  <2>6. ASSUME NEW i \in 1 .. n PROVE Found[i] \in opened'
    <3>1. i \in 1 .. Len(Found) /\ i <= n
      BY <1>6, FoundIs
    <3>2. Found[i] \in opened /\ Found[i] # c
      BY <1>1, <1>8, <3>1, FoundIs
    <3>3. PICK s \in S : \E j \in 1 .. Len(s) : s[j] = Found[i]
      BY <1>3, <3>2
    <3>4. PICK j \in 1 .. Len(s) : s[j] = Found[i]
      BY <3>3
    <3>5. NextAfter(s, j) = NULL /\ LastBefore(s, j) = NULL
      BY <1>1, <3>4 DEF AreSets
    <3>6. j = Len(s)
      <4>1. j # Len(s) => j + 1 \in 1 .. Len(s)
        BY <1>3
      <4>2. j # Len(s) => s[j + 1] \in Cabs
        BY <1>3, <4>1
      <4> QED BY <1>4, <3>5, <4>2 DEF NextAfter
    <3>7. j = 1
      <4>1. j # 1 => j - 1 \in 1 .. Len(s)
        BY <1>3
      <4>2. j # 1 => s[j - 1] \in Cabs
        BY <1>3, <4>1
      <4> QED BY <1>4, <3>5, <4>2 DEF LastBefore
    <3>8. Elements(s) = {Found[i]}
      <4>1. DOMAIN s = {1}
        <5>1. DOMAIN s = 1 .. Len(s) /\ Len(s) = 1
          BY <1>3, <3>6, <3>7
        <5> QED BY <5>1
      <4> QED BY <3>4, <3>7, <4>1 DEF Elements
    <3>9. ASSUME NEW t \in Ended(S, c), Found[i] \in Elements(t) PROVE FALSE
      <4>1. t \in S /\ c \in Elements(t)
        BY <2>5, <3>9 DEF Ended
      <4>2. \E m \in 1 .. Len(t) : t[m] = Found[i]
        BY <1>3, <3>9, <4>1 DEF Elements
      <4>3. t = s
        BY <3>4, <4>1, <4>2 DEF AreSets
      <4> QED BY <3>2, <3>8, <4>1, <4>3
    <3> QED BY <1>2, <3>2, <3>9
  <2>7. \A i \in 1 .. Len(Found) : Found[i] \in opened' <=> i <= n
    <3>1. \A i \in 1 .. Len(Found) : i <= n => i \in 1 .. n
      BY <1>6
    <3> QED BY <1>1, <1>2, <2>6, <3>1
  <2>8. \A i \in 1 .. n : cab'[Found[i]] = cab[Found[i]]
    BY <1>5, <2>6
  <2>9. \A x \in opened' \ Elements(Found) : cab'[x].next = NULL
    BY <1>1, <1>2, <1>5
  <2> QED BY <1>1, <2>7, <2>8, <2>9 DEF FoundAre
<1> QED BY <1>7, <1>8

\* No other step but search opens what is found.
LEMMA StepFound ==
    ASSUME NEW S, AreCabs(opened, cab), AreSets(S, opened, cab), FoundAre(opened, cab), Next
    PROVE  FoundAre(opened', cab')
<1>1. PICK n \in 0 .. Len(Found) :
        /\ \A i \in 1 .. Len(Found) : Found[i] \in opened <=> i <= n
        /\ \A i \in 1 .. n : cab[Found[i]].next = IF i = n THEN NULL ELSE Found[i + 1]
        /\ \A i \in 1 .. n : cab[Found[i]].prevcab = NULL /\ cab[Found[i]].nextcab = NULL
        /\ \A x \in opened \ Elements(Found) : cab[x].next = NULL
  BY DEF FoundAre
<1>2. opened \subseteq Cabs /\ n \in Nat /\ n <= Len(Found) /\ Len(Found) \in Nat
  BY FoundIs DEF AreCabs
<1>3. \A i \in 1 .. n : i \in 1 .. Len(Found)
  BY <1>2
<1>4. CASE \E c \in Returned \ Elements(Found) : Open(c)
  <2>1. PICK c \in Returned \ Elements(Found) : Open(c)
    BY <1>4
  <2>2. c \in Cabs /\ c \notin opened /\ c \notin Elements(Found) /\ ReadHeaders(<<c>>)
    BY <2>1 DEF Returned, Open
  <2>3. PICK q : q = <<c>>
    OBVIOUS
  <2>4. q \in Seq(Cabs) /\ Len(q) = 1 /\ q[1] = c /\ Elements(q) = {c} /\ Distinct(q) /\ ReadHeaders(q)
    BY <2>2, <2>3 DEF Elements, Distinct
  <2>5. /\ opened' = opened \cup {c}
        /\ \A x \in Cabs \ {c} : cab'[x] = cab[x]
        /\ \A i \in 1 .. Len(q) :
              /\ cab'[q[i]].next = IF i = Len(q) THEN NULL ELSE q[i + 1]
              /\ cab'[q[i]].prevcab = NULL /\ cab'[q[i]].nextcab = NULL
    <3>1. /\ opened' = opened \cup Elements(q)
          /\ \A x \in Cabs \ Elements(q) : cab'[x] = cab[x]
          /\ \A i \in 1 .. Len(q) :
                /\ cab'[q[i]].next = IF i = Len(q) THEN NULL ELSE q[i + 1]
                /\ cab'[q[i]].prevcab = NULL /\ cab'[q[i]].nextcab = NULL
      BY <2>4, ReadHeadersCabs
    <3> QED BY <2>4, <3>1
  <2>6. cab'[c].next = NULL
    <3>1. 1 \in 1 .. Len(q) /\ q[1] = c /\ Len(q) = 1
      BY <2>4
    <3> QED BY <2>5, <3>1
  <2>7. \A i \in 1 .. Len(Found) : Found[i] # c /\ Found[i] \in Cabs
    BY <2>2, FoundIs
  <2>8. \A i \in 1 .. Len(Found) : Found[i] \in opened' <=> i <= n
    BY <1>1, <2>5, <2>7
  <2>9. \A i \in 1 .. n : cab'[Found[i]] = cab[Found[i]]
    BY <1>3, <2>5, <2>7
  <2>10. \A x \in opened' \ Elements(Found) : cab'[x].next = NULL
    BY <1>1, <1>2, <2>5, <2>6
  <2> QED BY <1>1, <2>8, <2>9, <2>10 DEF FoundAre
<1>5. CASE Search
  <2>1. PICK m \in 0 .. Len(Found) : ReadHeaders(SubSeq(Found, 1, m))
    BY <1>5 DEF Search
  <2>2. PICK q : q = SubSeq(Found, 1, m)
    OBVIOUS
  <2>3. m \in Nat /\ m <= Len(Found)
    BY FoundIs
  <2>4. q \in Seq(Cabs) /\ Len(q) = m /\ \A i \in 1 .. m : q[i] = Found[i] /\ i \in 1 .. Len(Found)
    BY <2>2, <2>3, FoundIs
  <2>5. Distinct(q)
    BY <2>4, FoundIs DEF Distinct
  <2>6. /\ opened' = opened \cup Elements(q)
        /\ \A x \in Cabs \ Elements(q) : cab'[x] = cab[x]
        /\ \A i \in 1 .. Len(q) :
              /\ cab'[q[i]].next = IF i = Len(q) THEN NULL ELSE q[i + 1]
              /\ cab'[q[i]].prevcab = NULL /\ cab'[q[i]].nextcab = NULL
    BY <2>1, <2>2, <2>4, <2>5, ReadHeadersCabs
  <2>7. \A i \in 1 .. Len(Found) : Found[i] \notin opened
    BY <1>5, FoundIs DEF Search
  <2>8. Elements(q) \subseteq Elements(Found)
    <3>1. DOMAIN q = 1 .. m
      BY <2>4
    <3> QED BY <2>4, <3>1, FoundIs DEF Elements
  <2>9. ASSUME NEW i \in 1 .. Len(Found) PROVE Found[i] \in opened' <=> i <= m
    <3>1. DOMAIN q = 1 .. m
      BY <2>4
    <3>2. Found[i] \in Elements(q) => i <= m
      <4>1. SUFFICES ASSUME Found[i] \in Elements(q) PROVE i <= m
        OBVIOUS
      <4>2. PICK j \in 1 .. m : q[j] = Found[i]
        BY <3>1, <4>1 DEF Elements
      <4>3. i = j
        BY <2>4, <4>2, FoundIs
      <4> QED BY <2>3, <4>3
    <3>3. i <= m => Found[i] \in Elements(q)
      <4>1. i <= m => i \in 1 .. m
        BY <2>3
      <4> QED BY <2>4, <3>1, <4>1 DEF Elements
    <3> QED BY <2>6, <2>7, <3>2, <3>3
  <2>10. ASSUME NEW i \in 1 .. m
         PROVE  /\ cab'[Found[i]].next = IF i = m THEN NULL ELSE Found[i + 1]
                /\ cab'[Found[i]].prevcab = NULL /\ cab'[Found[i]].nextcab = NULL
    <3>1. i # m => i + 1 \in 1 .. m
      BY <2>3
    <3>2. i \in 1 .. Len(q)
      BY <2>4
    <3> QED BY <2>4, <2>6, <3>1, <3>2
  <2>11. \A x \in opened' \ Elements(Found) : cab'[x].next = NULL
    BY <1>1, <1>2, <2>6, <2>8
  <2> QED BY <2>9, <2>10, <2>11 DEF FoundAre
<1>6. CASE \E pair \in JoinArgs : Join(pair[1], pair[2])
  <2>1. PICK pair \in JoinArgs : Join(pair[1], pair[2])
    BY <1>6
  <2>2. PICK l, r : l = pair[1] /\ r = pair[2]
    OBVIOUS
  <2>3. Join(l, r) /\ l \notin Elements(Found) /\ r \notin Elements(Found)
    BY <2>1, <2>2, JoinAssumption
  <2>4. l \in Cabs /\ r \in Cabs /\ l # r /\ opened' = opened
    BY <1>2, <2>3 DEF Join, CannotAttach
  <2>5. PICK head : Attach(l, r, head)
    <3>1. CASE JoinLists(l, r)
      BY <3>1 DEF JoinLists
    <3>2. CASE JoinMerging(l, r)
      BY <3>2 DEF JoinMerging
    <3> QED BY <2>3, <3>1, <3>2 DEF Join
  <2>6. \A c \in Cabs :
           /\ cab'[c].next = cab[c].next
           /\ cab'[c].nextcab = IF c = l THEN r ELSE cab[c].nextcab
           /\ cab'[c].prevcab = IF c = r THEN l ELSE cab[c].prevcab
    BY <2>4, <2>5, AttachIs
  <2>7. ASSUME NEW i \in 1 .. n
        PROVE  /\ cab'[Found[i]].next = cab[Found[i]].next
               /\ cab'[Found[i]].nextcab = cab[Found[i]].nextcab
               /\ cab'[Found[i]].prevcab = cab[Found[i]].prevcab
    <3>1. Found[i] \in Cabs /\ Found[i] \in Elements(Found)
      BY <1>3, FoundIs
    <3> QED BY <2>3, <2>6, <3>1
  <2>8. \A x \in opened' \ Elements(Found) : cab'[x].next = NULL
    BY <1>1, <1>2, <2>4, <2>6
  <2> QED BY <1>1, <2>4, <2>7, <2>8 DEF FoundAre
<1>7. CASE \E c \in Returned : Close(c)
  <2>1. PICK c \in Returned : c \in opened /\ CloseCabs(c)
    BY <1>7 DEF Close
  <2> QED BY <2>1, CloseFound
<1>8. CASE UNCHANGED <<opened, cab>>
  BY <1>8 DEF FoundAre
<1>9. CASE \E fi \in FileIds : Extract(fi)
  BY <1>8, <1>9, ExtractKeeps
<1>10. CASE Step
  <2>1. UNCHANGED <<opened, cab>>
    BY <1>10, StepKeeps
  <2> QED BY <1>8, <2>1
<1>11. CASE (\E c \in Returned \ Elements(Found) : OpenFails(c))
            \/ (\E pair \in JoinArgs : JoinFails(pair[1], pair[2]))
  BY <1>8, <1>11 DEF OpenFails, JoinFails
<1>12. CASE UNCHANGED vars
  BY <1>8, <1>12 DEF vars
<1> QED
  BY <1>4, <1>5, <1>6, <1>7, <1>9, <1>10, <1>11, <1>12 DEF Next

-----------------------------------------------------------------------------
(* The decompression state.                                                  *)

\* The state x is for a folder fol[x.folder] that is live and complete at its start, and
\* reads the cabinet of a part that it has, if it is not astray.
IsState(x, fol, lv) ==
    /\ DOMAIN x = DOMAIN Fresh
    /\ x.folder # NULL => x.folder \in lv \cap FolderIds /\ fol[x.folder].mergePrev = NULL
    /\ x.infh # NULL /\ ~x.astray => /\ x.folder # NULL
                                      /\ x.seg \in 1 .. Len(fol[x.folder].data)
                                      /\ x.incab = fol[x.folder].data[x.seg][2]

StateInv ==
    /\ d = NULL \/ IsState(d, folder, live)
    /\ call # NULL => IsState(d, folder, live)

\* The folders that can be decoded stay, and their parts where they are.
FoldersStay ==
    \A f \in live \cap FolderIds : folder[f].mergePrev = NULL =>
        /\ f \in live' /\ folder'[f].mergePrev = NULL
        /\ Len(folder[f].data) <= Len(folder'[f].data)
        /\ \A i \in 1 .. Len(folder[f].data) : folder'[f].data[i] = folder[f].data[i]

LEMMA StateStays ==
    ASSUME AreFolders(folder), AreFolders(folder'), FoldersStay, NEW x, IsState(x, folder, live)
    PROVE  IsState(x, folder', live')
<1>1. CASE x.folder = NULL
  BY <1>1 DEF IsState
<1>2. CASE x.folder # NULL
  <2>1. x.folder \in live \cap FolderIds /\ folder[x.folder].mergePrev = NULL
    BY <1>2 DEF IsState
  <2>2. PICK p, q : p = folder[x.folder].data /\ q = folder'[x.folder].data
    OBVIOUS
  <2>3. /\ x.folder \in live' /\ folder'[x.folder].mergePrev = NULL
        /\ Len(p) <= Len(q) /\ \A i \in 1 .. Len(p) : q[i] = p[i]
    BY <2>1, <2>2 DEF FoldersStay
  <2>4. Len(p) \in Nat /\ Len(q) \in Nat
    BY <2>1, <2>2 DEF AreFolders
  <2>5. \A i \in 1 .. Len(p) : i \in 1 .. Len(q)
    BY <2>3, <2>4
  <2>6. x.infh # NULL /\ ~x.astray => x.seg \in 1 .. Len(p) /\ x.incab = p[x.seg][2]
    BY <2>2 DEF IsState
  <2>7. x.infh # NULL /\ ~x.astray => x.seg \in 1 .. Len(q) /\ x.incab = q[x.seg][2]
    BY <2>3, <2>5, <2>6
  <2>8. DOMAIN x = DOMAIN Fresh
    BY DEF IsState
  <2> QED BY <1>2, <2>1, <2>2, <2>3, <2>7, <2>8 DEF IsState
<1> QED BY <1>1, <1>2

\* y is the state x but for how far decoding has come.
Follows(x, y) ==
    /\ DOMAIN y = DOMAIN x /\ y.folder = x.folder /\ y.astray = x.astray
    /\ y.infh # NULL => x.infh # NULL /\ y.seg = x.seg /\ y.incab = x.incab

LEMMA FollowsIsState ==
    ASSUME NEW x, NEW y, NEW fol, NEW lv, IsState(x, fol, lv), Follows(x, y)
    PROVE  IsState(y, fol, lv)
  BY DEF IsState, Follows

LEMMA FreshFields ==
    DOMAIN Fresh = {"folder", "seg", "offset", "block", "incab", "infh", "in", "writing", "method",
                    "dec", "whole", "shifted", "astray"}
  BY DEF Fresh

\* The states that extract makes of x.
LEMMA ChangesFollow ==
    ASSUME NEW x, DOMAIN x = DOMAIN Fresh
    PROVE  /\ Follows(x, x)
           /\ \A v : /\ Follows(x, [x EXCEPT !.offset = v]) /\ Follows(x, [x EXCEPT !.block = v])
                     /\ Follows(x, [x EXCEPT !.in = v]) /\ Follows(x, [x EXCEPT !.writing = v])
                     /\ Follows(x, [x EXCEPT !.dec = v]) /\ Follows(x, [x EXCEPT !.whole = v])
                     /\ Follows(x, [x EXCEPT !.shifted = v])
                     /\ Follows(x, [x EXCEPT !.infh = NULL]) /\ Follows(x, [[x EXCEPT !.infh = NULL] EXCEPT !.seg = v])
                     /\ x.infh # NULL => Follows(x, [x EXCEPT !.infh = v])
  BY FreshFields DEF Follows

LEMMA FollowsOn ==
    ASSUME NEW x, NEW y, NEW z, Follows(x, y), Follows(y, z)
    PROVE  Follows(x, z)
  BY DEF Follows

\* A call that fails leaves the state where it was.
LEMMA FailFollows ==
    ASSUME NEW x, DOMAIN x = DOMAIN Fresh, NEW e, Fail(x, e)
    PROVE  Follows(x, d')
<1>1. PICK v, w : /\ v = (x.shifted \/ e = "read")
                  /\ w = [x.dec EXCEPT !.err = IF Packed THEN e ELSE @]
  OBVIOUS
<1>2. d' = [[[x EXCEPT !.writing = FALSE] EXCEPT !.shifted = v] EXCEPT !.dec = w]
  BY <1>1, FreshFields DEF Fail
<1>3. PICK a : a = [x EXCEPT !.writing = FALSE]
  OBVIOUS
<1>4. Follows(x, a) /\ DOMAIN a = DOMAIN Fresh
  BY <1>3, ChangesFollow DEF Follows
<1>5. PICK b : b = [a EXCEPT !.shifted = v]
  OBVIOUS
<1>6. Follows(a, b) /\ DOMAIN b = DOMAIN Fresh
  BY <1>4, <1>5, ChangesFollow DEF Follows
<1>7. Follows(b, d')
  <2>1. d' = [b EXCEPT !.dec = w]
    BY <1>2, <1>3, <1>5
  <2> QED BY <1>6, <2>1, ChangesFollow
<1> QED BY <1>4, <1>6, <1>7, FollowsOn

\* One step of decoding or reading: d goes on in its folder.
LEMMA StepState ==
    ASSUME StateInv, AreFolders(folder), Step
    PROVE  StateInv' /\ UNCHANGED <<opened, live, cab, folder, nextFile>>
<1>1. call # NULL /\ UNCHANGED <<opened, live, cab, folder, nextFile>>
  BY StepKeeps
<1>2. IsState(d, folder, live) /\ DOMAIN d = DOMAIN Fresh
  BY <1>1 DEF StateInv, IsState
<1>3. SUFFICES IsState(d', folder, live)
  BY <1>1 DEF StateInv
<1>4. ASSUME Follows(d, d') PROVE IsState(d', folder, live)
  BY <1>2, <1>4, FollowsIsState
<1>5. CASE FailedBefore
  BY <1>2, <1>4, <1>5, FailFollows DEF FailedBefore
<1>6. CASE Decoded
  <2>1. PICK v : d' = [d EXCEPT !.writing = v]
    BY <1>6 DEF Decoded
  <2> QED BY <1>2, <1>4, <2>1, ChangesFollow
<1>7. DOMAIN Written = DOMAIN Fresh /\ Follows(d, Written)
  BY <1>2, FreshFields DEF Written, Follows
<1>8. CASE Write
  BY <1>4, <1>7, <1>8 DEF Write
<1>9. CASE WriteFails
  <2>1. PICK x : x = [Written EXCEPT !.whole = FALSE]
    OBVIOUS
  <2>2. Follows(Written, x)
    BY <1>7, <2>1, ChangesFollow
  <2>3. Follows(d, x) /\ DOMAIN x = DOMAIN Fresh
    BY <1>7, <2>2, FollowsOn DEF Follows
  <2>4. Fail(x, "write")
    BY <1>9, <2>1 DEF WriteFails
  <2>5. Follows(x, d')
    BY <2>3, <2>4, FailFollows
  <2> QED BY <1>4, <2>3, <2>5, FollowsOn
<1>10. CASE DecodeFrame
  <2>1. Follows(d, d')
    BY <1>2, <1>10, FreshFields DEF DecodeFrame, Follows
  <2> QED BY <1>4, <2>1
<1>11. CASE AskForInput
  BY <1>2, <1>4, <1>11, ChangesFollow DEF AskForInput
<1>12. ASSUME NEW x, DOMAIN x = DOMAIN Fresh, NEW got
       PROVE  Follows(x, Take(x, got)) /\ DOMAIN Take(x, got) = DOMAIN Fresh
  BY <1>12, FreshFields DEF Take, Follows
<1>13. CASE CopyInput
  <2>1. PICK m : m = AtMost(call.todo, Len(d.in))
    OBVIOUS
  <2>2. PICK got, rest : got = call.got \o Prefix(d.in, m) /\ rest = [d EXCEPT !.in = Suffix(@, m)]
    OBVIOUS
  <2>3. d' = Take(rest, got) \/ d' = rest
    BY <1>13, <2>1, <2>2 DEF CopyInput
  <2>4. Follows(d, rest) /\ DOMAIN rest = DOMAIN Fresh
    BY <1>2, <2>2, FreshFields DEF Follows
  <2>5. Follows(rest, Take(rest, got))
    BY <1>12, <2>4
  <2> QED BY <1>4, <2>3, <2>4, <2>5, FollowsOn
<1>14. CASE EndOfFolder
  <2>1. PICK x : x = [d EXCEPT !.block = AtMost(@ + 1, MaxBlock)]
    OBVIOUS
  <2>2. d' = Take(x, call.got) \/ Fail(x, "read")
    BY <1>14, <2>1 DEF EndOfFolder
  <2>3. Follows(d, x) /\ DOMAIN x = DOMAIN Fresh
    BY <1>2, <2>1, FreshFields DEF Follows
  <2>4. Follows(x, d')
    BY <1>12, <2>2, <2>3, FailFollows
  <2> QED BY <1>4, <2>3, <2>4, FollowsOn
<1>15. CASE NextBlock
  <2>1. PICK v : d' = [d EXCEPT !.block = v]
    BY <1>15 DEF NextBlock
  <2> QED BY <1>2, <1>4, <2>1, ChangesFollow
<1>16. CASE ReadNothing
  BY <1>2, <1>4, <1>16, FailFollows DEF ReadNothing, ReadFails
<1>21. CASE NoDecoderThere
  <2>1. d' = d \/ d' = [d EXCEPT !.writing = FALSE]
    BY <1>21 DEF NoDecoderThere, Crash
  <2>2. Follows(d, d) /\ Follows(d, [d EXCEPT !.writing = FALSE])
    BY <1>2, ChangesFollow
  <2> QED BY <1>4, <2>1, <2>2
<1>22. CASE ReadNoBlock
  <2>1. d' = d \/ Fail(d, "read")
    BY <1>22 DEF ReadNoBlock, Crash, ReadFails
  <2> QED BY <1>2, <1>4, <2>1, FailFollows, ChangesFollow
<1>17. ASSUME d.infh # NULL PROVE Follows(d, PastHeader) /\ DOMAIN PastHeader = DOMAIN Fresh
  BY <1>2, <1>17, FreshFields DEF PastHeader, Follows
<1>18. CASE ReadBadBlock
  <2>1. d.infh # NULL /\ Fail(PastHeader, "read")
    BY <1>18 DEF ReadBadBlock, AtBlock, ReadFails
  <2>2. Follows(PastHeader, d')
    BY <1>17, <2>1, FailFollows
  <2> QED BY <1>4, <1>17, <2>1, <2>2, FollowsOn
<1>19. CASE ReadBlock
  <2>1. d.infh # NULL /\ \E v : d' = [PastHeader EXCEPT !.in = v]
    BY <1>19 DEF ReadBlock, AtBlock
  <2>2. Follows(PastHeader, d')
    BY <1>17, <2>1, ChangesFollow
  <2> QED BY <1>4, <1>17, <2>1, <2>2, FollowsOn
<1>20. CASE ReadSplitBlock
  <2>1. PICK x : x = [d EXCEPT !.in = @ \o BlockBytes, !.infh = NULL]
    OBVIOUS
  <2>2. PICK segs : segs = folder[d.folder].data
    OBVIOUS
  <2>3. /\ d.infh # NULL
        /\ \/ d.seg = Len(segs) /\ Fail([x EXCEPT !.seg = NULL], "read")
           \/ d.seg # Len(segs) /\ d' = NextSegment(x)
           \/ d.seg # Len(segs) /\ Fail([NextSegment(x) EXCEPT !.infh = NULL, !.whole = FALSE], "read")
           \/ d.seg # Len(segs) /\ Fail([NextSegment(x) EXCEPT !.infh.next = 0, !.whole = FALSE], "read")
    BY <1>20, <2>1, <2>2 DEF ReadSplitBlock, AtBlock, ReadFails
  <2>4. d.folder # NULL => d.folder \in live \cap FolderIds /\ folder[d.folder].mergePrev = NULL
    BY <1>2 DEF IsState
  <2>5. /\ DOMAIN x = DOMAIN Fresh /\ x.folder = d.folder /\ x.seg = d.seg /\ x.infh = NULL
        /\ x.astray = d.astray
    BY <1>2, <2>1, FreshFields
  <2>6. ASSUME ~d.astray, d.seg # Len(segs)
        PROVE  d.folder # NULL /\ d.seg + 1 \in 1 .. Len(segs)
    <3>1. d.folder # NULL /\ d.seg \in 1 .. Len(segs)
      BY <1>2, <2>2, <2>3, <2>6 DEF IsState
    <3>2. Len(segs) \in Nat
      BY <2>2, <2>4, <3>1 DEF AreFolders
    <3> QED BY <2>6, <3>1, <3>2
  <2>7. PICK y : y = NextSegment(x)
    OBVIOUS
  <2>8. /\ DOMAIN y = DOMAIN Fresh /\ y.folder = d.folder /\ y.astray = d.astray
        /\ y.seg = d.seg + 1 /\ y.incab = segs[d.seg + 1][2]
    BY <2>2, <2>5, <2>7, FreshFields DEF NextSegment
  <2>9. ASSUME d.seg # Len(segs), NEW z, DOMAIN z = DOMAIN Fresh, z.folder = y.folder,
               z.astray = y.astray, z.seg = y.seg, z.incab = y.incab
        PROVE  IsState(z, folder, live)
    BY <2>2, <2>4, <2>6, <2>8, <2>9 DEF IsState
  <2>10. ASSUME NEW z, DOMAIN z = DOMAIN Fresh, z.folder = d.folder, z.infh = NULL, Fail(z, "read")
         PROVE  IsState(d', folder, live)
    <3>1. IsState(z, folder, live)
      BY <2>4, <2>10 DEF IsState
    <3>2. Follows(z, d')
      BY <2>10, FailFollows
    <3> QED BY <3>1, <3>2, FollowsIsState
  <2>11. CASE d.seg = Len(segs) /\ Fail([x EXCEPT !.seg = NULL], "read")
    <3>1. PICK z : z = [x EXCEPT !.seg = NULL]
      OBVIOUS
    <3>2. DOMAIN z = DOMAIN Fresh /\ z.folder = d.folder /\ z.infh = NULL
      BY <2>5, <3>1, FreshFields
    <3> QED BY <2>10, <2>11, <3>1, <3>2
  <2>12. CASE d.seg # Len(segs) /\ d' = y
    BY <2>8, <2>9, <2>12
  <2>13. CASE d.seg # Len(segs) /\ Fail([y EXCEPT !.infh = NULL, !.whole = FALSE], "read")
    <3>1. PICK z : z = [y EXCEPT !.infh = NULL, !.whole = FALSE]
      OBVIOUS
    <3>2. DOMAIN z = DOMAIN Fresh /\ z.folder = d.folder /\ z.infh = NULL
      BY <2>8, <3>1, FreshFields
    <3> QED BY <2>10, <2>13, <3>1, <3>2
  <2>14. CASE d.seg # Len(segs) /\ Fail([y EXCEPT !.infh.next = 0, !.whole = FALSE], "read")
    <3>1. PICK z : z = [y EXCEPT !.infh.next = 0, !.whole = FALSE]
      OBVIOUS
    <3>2. /\ DOMAIN z = DOMAIN Fresh /\ z.folder = y.folder /\ z.astray = y.astray
          /\ z.seg = y.seg /\ z.incab = y.incab
      BY <2>8, <3>1, FreshFields
    <3>3. IsState(z, folder, live)
      BY <2>9, <2>14, <3>2
    <3>4. Follows(z, d')
      BY <2>14, <3>1, <3>2, FailFollows
    <3> QED BY <3>3, <3>4, FollowsIsState
  <2> QED BY <2>3, <2>7, <2>11, <2>12, <2>13, <2>14
<1> QED
  BY <1>5, <1>6, <1>8, <1>9, <1>10, <1>11, <1>13, <1>14, <1>15, <1>16, <1>18, <1>19, <1>20,
     <1>21, <1>22 DEF Step

\* The state that extract begins with.
LEMMA BeginState ==
    ASSUME NEW S, Heap(S, opened, cab, folder, nextFile, live), StateInv,
           NEW fi \in FileIds, fi \in live, ~Refuses(fi)
    PROVE  /\ IsState(ResetState(fi), folder, live)
           /\ IsState(IF MustReset(fi) THEN ResetState(fi) ELSE d, folder, live)
<1>1. PICK f : f = FolderOf(fi)
  OBVIOUS
<1>2. f \in live \cap FolderIds /\ f # NULL /\ AreFolders(folder)
  BY <1>1, FolderOfIs, FolderIdsAre DEF Heap
<1>3. folder[f].mergePrev = NULL
  BY <1>1 DEF Refuses
<1>4. PICK x : x = ResetState(fi)
  OBVIOUS
<1>5. x.folder = f /\ x.seg = 1 /\ x.incab = folder[f].data[1][2] /\ DOMAIN x = DOMAIN Fresh
  BY <1>1, <1>4 DEF ResetState, Fresh
<1>6. 1 \in 1 .. Len(folder[f].data)
  <2>1. folder[f].data \in Seq(FolderIds) /\ folder[f].data # <<>>
    BY <1>2 DEF AreFolders
  <2> QED BY <2>1
<1>7. IsState(x, folder, live)
  BY <1>2, <1>3, <1>5, <1>6 DEF IsState
<1>8. ~MustReset(fi) => IsState(d, folder, live)
  BY DEF MustReset, StateInv
<1> QED BY <1>4, <1>7, <1>8

\* The start of extract, in each of its ways.
LEMMA ExtractState ==
    ASSUME NEW S, Heap(S, opened, cab, folder, nextFile, live), StateInv, NEW fi \in FileIds, Extract(fi)
    PROVE  StateInv' /\ UNCHANGED <<opened, live, cab, folder, nextFile>>
<1>1. UNCHANGED <<opened, live, cab, folder, nextFile>>
  BY ExtractKeeps
<1>2. CASE ExtractRefused(fi)
  BY <1>1, <1>2 DEF ExtractRefused, StateInv
<1>3. PICK x : x = IF MustReset(fi) THEN ResetState(fi) ELSE d
  OBVIOUS
<1>4. CASE ExtractBegin(fi)
  <2>1. IsState(x, folder, live) /\ DOMAIN x = DOMAIN Fresh
    BY <1>3, <1>4, BeginState DEF ExtractBegin, IsState
  <2>2. d' = x \/ \E v : d' = [x EXCEPT !.writing = v]
    BY <1>3, <1>4 DEF ExtractBegin
  <2>3. Follows(x, d')
    <3>1. CASE d' = x
      BY <2>1, <3>1, ChangesFollow
    <3>2. CASE \E v : d' = [x EXCEPT !.writing = v]
      <4>1. PICK v : d' = [x EXCEPT !.writing = v]
        BY <3>2
      <4> QED BY <2>1, <4>1, ChangesFollow
    <3> QED BY <2>2, <3>1, <3>2
  <2>4. IsState(d', folder, live)
    BY <2>1, <2>3, FollowsIsState
  <2> QED BY <1>1, <2>4 DEF StateInv
<1>5. IsState(Old, folder, live) /\ DOMAIN Old = DOMAIN Fresh
  <2>1. IsState(Fresh, folder, live)
    BY DEF IsState, Fresh
  <2> QED BY <2>1 DEF Old, StateInv, IsState
<1>7. ASSUME NEW state, CannotBegin(fi, state), DOMAIN state = DOMAIN Fresh,
             state.folder = Old.folder,
             \/ state.infh = NULL \/ state.astray
             \/ Kept(fi) /\ state.seg = Old.seg /\ state.incab = Old.incab /\ ~Old.astray
      PROVE  StateInv'
  <2>1. IsState(state, folder, live)
    BY <1>5, <1>7 DEF IsState, Kept
  <2>2. d' = state /\ call' = NULL
    BY <1>7 DEF CannotBegin
  <2> QED BY <1>1, <2>1, <2>2 DEF StateInv
<1>8. CASE ExtractCannotOpen(fi)
  <2>1. PICK y : y = [Old EXCEPT !.incab = FirstPart(fi)[2], !.infh = NULL, !.whole = FALSE]
    OBVIOUS
  <2>2. DOMAIN y = DOMAIN Fresh /\ y.folder = Old.folder /\ y.infh = NULL
    BY <1>5, <2>1, FreshFields
  <2>3. CannotBegin(fi, y)
    BY <1>8, <2>1 DEF ExtractCannotOpen
  <2> QED BY <1>1, <1>7, <2>2, <2>3
<1>9. CASE ExtractCannotSeek(fi)
  <2>1. PICK y : y = IF Kept(fi) THEN Old
                     ELSE [Old EXCEPT !.incab = FirstPart(fi)[2], !.infh = [at |-> FirstPart(fi), next |-> 0],
                                      !.whole = FALSE, !.astray = TRUE]
    OBVIOUS
  <2>2. /\ DOMAIN y = DOMAIN Fresh /\ y.folder = Old.folder
        /\ y.astray \/ (Kept(fi) /\ y.seg = Old.seg /\ y.incab = Old.incab /\ ~Old.astray)
    BY <1>5, <2>1, FreshFields
  <2>3. CannotBegin(fi, y)
    BY <1>9, <2>1 DEF ExtractCannotSeek
  <2> QED BY <1>1, <1>7, <2>2, <2>3
<1>10. CASE ExtractCannotDecode(fi)
  <2>1. PICK m : m = IF Decodable(fi) THEN folder[FolderOf(fi)].comp
                     ELSE IF Old.dec = NULL THEN Old.method ELSE NULL
    OBVIOUS
  <2>2. PICK y : y = [Old EXCEPT !.incab = FirstPart(fi)[2], !.infh = [at |-> FirstPart(fi), next |-> 1],
                                 !.whole = FALSE, !.astray = @ \/ ~Kept(fi), !.dec = NULL, !.method = m]
    OBVIOUS
  <2>3. /\ DOMAIN y = DOMAIN Fresh /\ y.folder = Old.folder /\ y.seg = Old.seg
        /\ y.incab = FirstPart(fi)[2] /\ y.astray = (Old.astray \/ ~Kept(fi))
    BY <1>5, <2>2, FreshFields
  <2>4. y.astray \/ (Kept(fi) /\ y.incab = Old.incab /\ ~Old.astray)
    BY <2>3 DEF Kept
  <2>5. CannotBegin(fi, y)
    BY <1>5, <1>10, <2>1, <2>2, FreshFields DEF ExtractCannotDecode
  <2> QED BY <1>1, <1>7, <2>3, <2>4, <2>5
<1>6. CASE ExtractCannotCreate(fi)
  <2>1. IsState(x, folder, live) /\ d' = x
    BY <1>3, <1>6, BeginState DEF ExtractCannotCreate
  <2> QED BY <1>1, <2>1 DEF StateInv
<1> QED BY <1>1, <1>2, <1>4, <1>6, <1>8, <1>9, <1>10 DEF Extract

-----------------------------------------------------------------------------
(* The heap is sound.                                                        *)

HeapInv ==
    /\ AreCabs(opened, cab) /\ FoundAre(opened, cab)
    /\ \E S : AreSets(S, opened, cab) /\ Heap(S, opened, cab, folder, nextFile, live)
    /\ StateInv

LEMMA InitHeap == ASSUME Init PROVE HeapInv
<1>1. /\ opened = {} /\ live = {} /\ cab = [c \in Cabs |-> NoCab]
      /\ folder = [f \in FolderIds |-> ReadFolder(f[2], f[3])]
      /\ nextFile = [g \in FileIds |-> NULL] /\ d = NULL /\ call = NULL
  BY DEF Init, InitSets
<1>2. AreCabs(opened, cab)
  BY <1>1 DEF AreCabs, IsCab, NoCab, OrNull
<1>3. AreSets({}, opened, cab)
  BY <1>1 DEF AreSets
<1>4. FoundAre(opened, cab)
  <2>1. 0 \in 0 .. Len(Found) /\ 1 .. 0 = {} /\ \A i \in 1 .. Len(Found) : ~(i <= 0)
    BY FoundIs
  <2> QED BY <1>1, <2>1 DEF FoundAre
<1>5. AreFolders(folder)
  <2>1. ASSUME NEW f \in FolderIds
        PROVE  /\ IsFolder(folder[f]) /\ folder[f].next \in OrNull(FolderIds)
               /\ folder[f].data \in Seq(FolderIds) /\ folder[f].data # <<>>
    <3>1. PICK x : x = ReadFolder(f[2], f[3])
      OBVIOUS
    <3>2. IsFolder(x) /\ x.next \in OrNull(FolderIds) /\ x.data = <<f>>
      BY <3>1, ReadFolderIs
    <3>3. x.data \in Seq(FolderIds) /\ x.data # <<>>
      BY <3>2
    <3> QED BY <1>1, <3>1, <3>2, <3>3
  <2> QED BY <1>1, <2>1 DEF AreFolders
<1>6. AreFiles(nextFile)
  BY <1>1 DEF AreFiles, OrNull
<1>7. Heap({}, opened, cab, folder, nextFile, live)
  BY <1>1, <1>5, <1>6 DEF Heap
<1> QED BY <1>1, <1>2, <1>3, <1>4, <1>7 DEF HeapInv, StateInv

\* What is read of new cabinets changes no folder that is live.
LEMMA ReadHeadersStay ==
    ASSUME NEW S, Heap(S, opened, cab, folder, nextFile, live),
           NEW q, Elements(q) \cap opened = {}, ReadHeaders(q)
    PROVE  FoldersStay
<1>1. AreFolders(folder) /\ \A x \in live : x[2] \in opened
  BY DEF Heap
<1>2. ASSUME NEW f \in live \cap FolderIds PROVE folder'[f] = folder[f] /\ f \in live'
  <2>1. f[2] \notin Elements(q)
    BY <1>1
  <2> QED BY <2>1 DEF ReadHeaders
<1>3. \A f \in FolderIds : Len(folder[f].data) \in Nat
  BY <1>1 DEF AreFolders
<1> QED BY <1>2, <1>3 DEF FoldersStay

LEMMA StepHeap == ASSUME HeapInv, [Next]_vars PROVE HeapInv'
<1>1. PICK S : AreSets(S, opened, cab) /\ Heap(S, opened, cab, folder, nextFile, live)
  BY DEF HeapInv
<1>2. AreCabs(opened, cab) /\ FoundAre(opened, cab) /\ StateInv
  BY DEF HeapInv
<1>3. ASSUME Next, NEW S2, AreCabs(opened', cab'), AreSets(S2, opened', cab'),
             Heap(S2, opened', cab', folder', nextFile', live'), StateInv'
      PROVE  HeapInv'
  <2>1. FoundAre(opened', cab')
    BY <1>1, <1>2, <1>3, StepFound
  <2> QED BY <1>3, <2>1 DEF HeapInv
<1>4. ASSUME FoldersStay, AreFolders(folder'), d' = d, call' = call PROVE StateInv'
  <2>1. AreFolders(folder)
    BY <1>1 DEF Heap
  <2>2. IsState(d, folder, live) => IsState(d, folder', live')
    BY <1>4, <2>1, StateStays
  <2> QED BY <1>2, <1>4, <2>2 DEF StateInv
<1>5. ASSUME Next, NEW q \in Seq(Cabs), Elements(q) \cap opened = {}, ReadHeaders(q), NoExtract
      PROVE  HeapInv'
  <2>1. /\ AreCabs(opened', cab')
        /\ AreSets(S \cup {<<c>> : c \in Elements(q)}, opened', cab')
    BY <1>1, <1>2, <1>5, ReadHeadersSets
  <2>2. Heap(S \cup {<<c>> : c \in Elements(q)}, opened', cab', folder', nextFile', live')
    BY <1>1, <1>2, <1>5, ReadHeadersHeap
  <2>3. FoldersStay
    BY <1>1, <1>5, ReadHeadersStay
  <2>4. StateInv'
    BY <1>4, <1>5, <2>2, <2>3 DEF Heap, NoExtract, extractVars
  <2> QED BY <1>3, <1>5, <2>1, <2>2, <2>4
<1>6. CASE Next /\ \E c \in Returned \ Elements(Found) : Open(c) /\ NoExtract
  <2>1. PICK c \in Returned \ Elements(Found) : Open(c) /\ NoExtract
    BY <1>6
  <2>2. c \in Cabs \ opened /\ ReadHeaders(<<c>>)
    BY <2>1 DEF Returned, Open
  <2>3. PICK q : q = <<c>>
    OBVIOUS
  <2>4. q \in Seq(Cabs) /\ Elements(q) \cap opened = {} /\ ReadHeaders(q)
    BY <2>2, <2>3 DEF Elements
  <2> QED BY <1>5, <1>6, <2>1, <2>4
<1>7. CASE Next /\ Search /\ NoExtract
  <2>1. PICK n \in 0 .. Len(Found) : ReadHeaders(SubSeq(Found, 1, n))
    BY <1>7 DEF Search
  <2>2. PICK q : q = SubSeq(Found, 1, n)
    OBVIOUS
  <2>3. q \in Seq(Cabs) /\ Elements(q) \subseteq Elements(Found)
    <3>1. Found \in Seq(Cabs) /\ Len(Found) \in Nat /\ n \in Nat /\ n <= Len(Found)
      BY FoundAssumption
    <3>2. q \in Seq(Cabs) /\ Len(q) = n /\ \A i \in 1 .. n : q[i] = Found[i] /\ i \in DOMAIN Found
      BY <2>2, <3>1
    <3> QED BY <3>2 DEF Elements
  <2>4. Elements(q) \cap opened = {} /\ ReadHeaders(q)
    BY <1>7, <2>1, <2>2, <2>3 DEF Search
  <2> QED BY <1>5, <1>7, <2>3, <2>4
<1>8. CASE Next /\ \E pair \in JoinArgs : Join(pair[1], pair[2]) /\ NoExtract
  <2>1. PICK l, r : Join(l, r) /\ NoExtract
    BY <1>8
  <2>2. l \in opened /\ r \in opened /\ ~CannotAttach(l, r) /\ opened' = opened
    BY <2>1 DEF Join
  <2>3. PICK s, t \in S :
           /\ s # t /\ s[Len(s)] = l /\ t[1] = r
           /\ Elements(Before(l)) \cup {l} = Elements(s)
           /\ {r} \cup Elements(After(r)) = Elements(t)
    BY <1>1, <1>2, <2>2, JoinedEnds
  <2>4. JoinArgsAre(S, s, t, l, r)
    BY <1>1, <1>2, <2>3 DEF JoinArgsAre
  <2>5. PICK S2 : S2 = (S \ {s, t}) \cup {s \o t}
    OBVIOUS
  <2>6. AreCabs(opened', cab') /\ AreSets(S2, opened', cab')
    <3>1. PICK head : Attach(l, r, head)
      <4>1. CASE JoinLists(l, r)
        BY <4>1 DEF JoinLists
      <4>2. CASE JoinMerging(l, r)
        BY <4>2 DEF JoinMerging
      <4> QED BY <2>1, <4>1, <4>2 DEF Join
    <3> QED BY <1>1, <1>2, <2>2, <2>3, <2>5, <3>1, AttachSets
  <2>7. Heap(S2, opened', cab', folder', nextFile', live') /\ FoldersStay
    <3>1. CASE JoinLists(l, r)
      <4>1. /\ Heap((S \ {s, t}) \cup {s \o t}, opened, cab', folder', nextFile', live')
            /\ live' = live /\ \A f \in FolderIds : folder'[f].data = folder[f].data
                                                  /\ folder'[f].mergePrev = folder[f].mergePrev
        BY <2>4, <3>1, JoinListsHeap
      <4>2. \A f \in FolderIds : Len(folder[f].data) \in Nat
        BY <1>1 DEF Heap, AreFolders
      <4>3. FoldersStay
        BY <4>1, <4>2 DEF FoldersStay
      <4> QED BY <2>2, <2>5, <4>1, <4>3
    <3>2. CASE JoinMerging(l, r)
      <4>1. /\ Heap((S \ {s, t}) \cup {s \o t}, opened, cab', folder', nextFile', live')
            /\ \A f \in live \cap FolderIds : folder[f].mergePrev = NULL =>
                  /\ f \in live' /\ folder'[f].mergePrev = NULL
                  /\ Len(folder[f].data) <= Len(folder'[f].data)
                  /\ \A i \in 1 .. Len(folder[f].data) : folder'[f].data[i] = folder[f].data[i]
        BY <2>4, <3>2, JoinMergingHeap
      <4> QED BY <2>2, <2>5, <4>1 DEF FoldersStay
    <3> QED BY <2>1, <3>1, <3>2 DEF Join
  <2>8. StateInv'
    BY <1>4, <2>1, <2>7 DEF Heap, NoExtract, extractVars
  <2> QED BY <1>3, <1>8, <2>6, <2>7, <2>8
<1>9. CASE Next /\ \E c \in Returned : Close(c) /\ call = NULL
  <2>1. PICK c \in Returned : Close(c) /\ call = NULL
    BY <1>9
  <2>2. c \in Cabs /\ CloseCabs(c) /\ CloseDecoder(c) /\ call' = NULL
    BY <2>1 DEF Close, Returned
  <2>3. PICK S2 : S2 = S \ Ended(S, c)
    OBVIOUS
  <2>4. AreCabs(opened', cab') /\ AreSets(S2, opened', cab')
    BY <1>1, <1>2, <2>2, <2>3, CloseSets
  <2>5. /\ Heap(S2, opened', cab', folder', nextFile', live')
        /\ \A f \in live' \cap FolderIds : folder'[f] = folder[f]
        /\ \A f \in live \cap FolderIds :
              (\A h \in ClosedHeads(c) : f \notin Elements(FoldersOf(h))) => f \in live'
    BY <1>1, <1>2, <2>2, <2>3, CloseHeap
  <2>6. ASSUME d' # NULL PROVE IsState(d', folder', live')
    <3>1. /\ d' = d /\ d # NULL
          /\ \A h \in ClosedHeads(c) : d.folder \notin Elements(FoldersOf(h))
      BY <2>2, <2>6 DEF CloseDecoder
    <3>2. IsState(d, folder, live)
      BY <1>2, <3>1 DEF StateInv
    <3>3. d.folder # NULL => d.folder \in live' /\ folder'[d.folder] = folder[d.folder]
      BY <2>5, <3>1, <3>2 DEF IsState
    <3> QED BY <3>1, <3>2, <3>3 DEF IsState
  <2>7. StateInv'
    BY <2>2, <2>6 DEF StateInv
  <2> QED BY <1>3, <1>9, <2>4, <2>5, <2>7
<1>10. ASSUME Next, StateInv', UNCHANGED <<opened, live, cab, folder, nextFile>> PROVE HeapInv'
  BY <1>1, <1>2, <1>3, <1>10
<1>11. CASE Next /\ \E fi \in FileIds : Extract(fi)
  BY <1>1, <1>2, <1>10, <1>11, ExtractState
<1>12. CASE Next /\ Step
  <2>1. AreFolders(folder)
    BY <1>1 DEF Heap
  <2> QED BY <1>2, <1>10, <1>12, <2>1, StepState
<1>13. CASE Next /\ (\/ \E c \in Returned \ Elements(Found) : OpenFails(c) /\ NoExtract
                     \/ \E pair \in JoinArgs : JoinFails(pair[1], pair[2]) /\ NoExtract)
  <2>1. UNCHANGED <<opened, live, cab, folder, nextFile, d, call>>
    BY <1>13 DEF OpenFails, JoinFails, NoExtract, extractVars
  <2> QED BY <1>2, <1>10, <1>13, <2>1 DEF StateInv
<1>14. CASE UNCHANGED vars
  <2>1. UNCHANGED <<opened, live, cab, folder, nextFile, d, call>>
    BY <1>14 DEF vars
  <2>2. StateInv' /\ FoundAre(opened', cab')
    BY <1>2, <2>1 DEF StateInv, FoundAre
  <2> QED BY <1>1, <1>2, <2>1, <2>2 DEF HeapInv
<1> QED
  BY <1>6, <1>7, <1>8, <1>9, <1>11, <1>12, <1>13, <1>14 DEF Next

\* The invariant says what HeapIsSound says.
LEMMA HeapInvIsSound == ASSUME HeapInv PROVE HeapIsSound
<1>1. PICK S : AreSets(S, opened, cab) /\ Heap(S, opened, cab, folder, nextFile, live)
  BY DEF HeapInv
<1>2. AreCabs(opened, cab) /\ FoundAre(opened, cab) /\ StateInv
  BY DEF HeapInv
<1>3. opened = UNION {Elements(s) : s \in S}
  BY <1>1 DEF AreSets
<1>4. /\ live \subseteq FolderIds \cup FileIds /\ \A x \in live : x[2] \in opened
      /\ \A g \in live \cap FileIds : FolderOf(g) \in live
      /\ \A f \in live \cap FolderIds : \A g \in {folder[f].mergePrev, folder[f].mergeNext} :
            g = NULL \/ (g \in live /\ g \in FileIds /\ FolderOf(g) = f)
      /\ \A s \in S : \A f \in FoldersIn(live, s) : \A i \in 1 .. Len(folder[f].data) :
            folder[f].data[i][2] \in Elements(s)
      /\ AreFolders(folder)
  BY <1>1 DEF Heap
<1>5. \A s \in S : \A c \in Elements(s) :
         FileList(c) = FilesIn(live, s) /\ FolderList(c) = FoldersIn(live, s)
  BY <1>1, ListsAre DEF ListsOf, FileList, FolderList
<1>6. live = UNION {FileList(c) \cup FolderList(c) : c \in opened}
  <2>1. ASSUME NEW x \in live PROVE \E c \in opened : x \in FileList(c) \cup FolderList(c)
    <3>1. PICK s \in S : x[2] \in Elements(s)
      BY <1>3, <1>4
    <3>2. x \in FilesIn(live, s) \cup FoldersIn(live, s)
      BY <1>4, <3>1 DEF FilesIn, FoldersIn
    <3> QED BY <1>4, <1>5, <3>1, <3>2
  <2>2. ASSUME NEW c \in opened PROVE FileList(c) \cup FolderList(c) \subseteq live
    <3>1. PICK s \in S : c \in Elements(s)
      BY <1>3
    <3> QED BY <1>5, <3>1 DEF FilesIn, FoldersIn
  <2> QED BY <2>1, <2>2
<1>7. ASSUME NEW c \in opened
      PROVE  {cab[c].next, cab[c].prevcab, cab[c].nextcab} \subseteq OrNull(opened)
  <2>1. c \in Cabs
    BY <1>2 DEF AreCabs
  <2>2. cab[c].nextcab \in OrNull(opened) /\ cab[c].prevcab \in OrNull(opened)
    BY <1>1, <1>2, <2>1, PointersOpen
  <2>3. PICK n \in 0 .. Len(Found) :
          /\ \A i \in 1 .. Len(Found) : Found[i] \in opened <=> i <= n
          /\ \A i \in 1 .. n : cab[Found[i]].next = IF i = n THEN NULL ELSE Found[i + 1]
          /\ \A x \in opened \ Elements(Found) : cab[x].next = NULL
    BY <1>2 DEF FoundAre
  <2>4. cab[c].next \in OrNull(opened)
    <3>1. CASE c \notin Elements(Found)
      BY <2>3, <3>1 DEF OrNull
    <3>2. CASE c \in Elements(Found)
      <4>1. PICK i \in 1 .. Len(Found) : Found[i] = c
        BY <3>2, FoundIs
      <4>2. i <= n
        BY <2>3, <4>1
      <4>3. n \in Nat /\ n <= Len(Found) /\ i \in 1 .. n
        BY <4>2, FoundIs
      <4>4. i # n => i + 1 \in 1 .. Len(Found) /\ i + 1 <= n
        BY <4>3, FoundIs
      <4>5. i # n => Found[i + 1] \in opened
        BY <2>3, <4>4
      <4> QED BY <2>3, <4>1, <4>3, <4>5 DEF OrNull
    <3> QED BY <3>1, <3>2
  <2> QED BY <2>2, <2>4
<1>8. \A f \in live \cap FolderIds : \A i \in DOMAIN folder[f].data : folder[f].data[i][2] \in opened
  <2>1. ASSUME NEW f \in live \cap FolderIds, NEW i \in DOMAIN folder[f].data
        PROVE  folder[f].data[i][2] \in opened
    <3>1. i \in 1 .. Len(folder[f].data)
      BY <1>4 DEF AreFolders
    <3>2. PICK s \in S : f[2] \in Elements(s)
      BY <1>3, <1>4
    <3>3. f \in FoldersIn(live, s)
      BY <3>2 DEF FoldersIn
    <3> QED BY <1>3, <1>4, <3>1, <3>3
  <2> QED BY <2>1
<1>9. ASSUME NEW o \in live
      PROVE  IF o \in FileIds THEN FolderOf(o) \in live
             ELSE /\ {folder[o].mergePrev, folder[o].mergeNext} \subseteq OrNull(live)
                  /\ \A i \in DOMAIN folder[o].data : folder[o].data[i][2] \in opened
  <2>1. CASE o \in FileIds
    BY <1>4, <2>1
  <2>2. CASE o \notin FileIds
    <3>1. o \in live \cap FolderIds
      BY <1>4, <2>2
    <3> QED BY <1>4, <1>8, <2>2, <3>1 DEF OrNull
  <2> QED BY <2>1, <2>2
<1>10. ASSUME d # NULL
       PROVE  d.folder \in OrNull(live) /\ (d.infh # NULL /\ ~d.astray => d.incab \in opened)
  <2>1. IsState(d, folder, live)
    BY <1>2, <1>10 DEF StateInv
  <2>2. d.folder \in OrNull(live)
    BY <2>1 DEF IsState, OrNull
  <2>3. ASSUME d.infh # NULL, ~d.astray PROVE d.incab \in opened
    <3>1. /\ d.folder \in live \cap FolderIds
          /\ d.seg \in 1 .. Len(folder[d.folder].data)
          /\ d.incab = folder[d.folder].data[d.seg][2]
      BY <2>1, <2>3 DEF IsState
    <3>2. d.seg \in DOMAIN folder[d.folder].data
      BY <1>4, <3>1 DEF AreFolders
    <3> QED BY <1>8, <3>1, <3>2
  <2> QED BY <2>2, <2>3
<1> QED BY <1>6, <1>7, <1>9, <1>10 DEF HeapIsSound

\* Whatever is opened, searched, joined, extracted and closed, in whatever order and with
\* whatever failures: nothing points to what has been freed, but for the cabinet of the
\* decompressor's input file after another folder could not be begun, and all that is
\* allocated is in the lists of an open cabinet.
THEOREM HeapSound == Spec => []HeapIsSound
<1>1. Init => HeapInv
  BY InitHeap
<1>2. HeapInv /\ [Next]_vars => HeapInv'
  BY StepHeap
<1>3. HeapInv => HeapIsSound
  BY HeapInvIsSound
<1> QED BY <1>1, <1>2, <1>3, PTL DEF Spec
=============================================================================
