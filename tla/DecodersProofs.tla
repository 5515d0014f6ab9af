--------------------------- MODULE DecodersProofs ---------------------------
(* The decoders write the stream in order, for all windows, frames, streams *)
(* and calls.                                                               *)
EXTENDS Decoders, SequenceTheorems, FiniteSetTheorems, WellFoundedInduction, TLAPS

-----------------------------------------------------------------------------
(* Induction over the natural numbers, told with sets of numbers instead of *)
(* predicates, what it says of functions defined by recursion, and division. *)

\* A set of natural numbers that is not empty has a least element.
LEMMA LeastNumber ==
    ASSUME NEW T, T \subseteq Nat, T # {}
    PROVE  \E n \in T : \A m \in T : n <= m
<1> DEFINE R == OpToRel(<, Nat)
<1>1. PICK n \in T : \A m \in T : ~(<<m, n>> \in R)
  <2>1. IsWellFoundedOn(R, Nat)
    BY NatLessThanWellFounded
  <2> HIDE DEF R
  <2> QED BY <2>1, WFMin
<1>2. \A m, k \in Nat : m < k => <<m, k>> \in R
  BY DEF OpToRel
<1> HIDE DEF R
<1>3. ASSUME NEW m \in T PROVE n <= m
  <2>1. m \in Nat /\ n \in Nat
    OBVIOUS
  <2>2. ~(m < n)
    BY <1>1, <1>2, <2>1
  <2> QED BY <2>1, <2>2
<1> QED BY <1>3

\* Induction from n to n + 1.
LEMMA Induct ==
    ASSUME NEW S, 0 \in S, \A n \in Nat : n \in S => n + 1 \in S
    PROVE  \A n \in Nat : n \in S
<1> SUFFICES ASSUME NEW x \in Nat, x \notin S PROVE FALSE
  OBVIOUS
<1> DEFINE T == {n \in Nat : n \notin S}
<1>1. PICK n \in T : \A m \in T : n <= m
  BY LeastNumber
<1>2. n # 0 /\ n - 1 \in Nat
  OBVIOUS
<1> QED BY <1>1, <1>2

\* The functions whose value at 0 is start and that go on with the nth step to n.
Iterates(A, start, step, N) ==
    {f \in [0 .. N -> A] : f[0] = start /\ \A n \in 1 .. N : f[n] = step[n][f[n - 1]]}

\* What is defined step by step exists.
LEMMA IterateExists ==
    ASSUME NEW A, NEW start \in A, NEW step \in [Nat -> [A -> A]]
    PROVE  \A N \in Nat : Iterates(A, start, step, N) # {}
<1> DEFINE S == {N \in Nat : Iterates(A, start, step, N) # {}}
<1>1. 0 \in S
  <2>1. [n \in 0 .. 0 |-> start] \in Iterates(A, start, step, 0)
    BY DEF Iterates
  <2> QED BY <2>1
<1>2. ASSUME NEW N \in Nat, N \in S PROVE N + 1 \in S
  <2>1. PICK f \in [0 .. N -> A] : f[0] = start /\ \A n \in 1 .. N : f[n] = step[n][f[n - 1]]
    BY <1>2 DEF Iterates
  <2> DEFINE g == [n \in 0 .. N + 1 |-> IF n = N + 1 THEN step[n][f[N]] ELSE f[n]]
  <2>2. g \in [0 .. N + 1 -> A]
    OBVIOUS
  <2>3. g[0] = start
    BY <2>1
  <2>4. ASSUME NEW n \in 1 .. N + 1 PROVE g[n] = step[n][g[n - 1]]
    BY <2>1
  <2> HIDE DEF g
  <2>5. g \in Iterates(A, start, step, N + 1)
    BY <2>2, <2>3, <2>4 DEF Iterates
  <2> QED BY <2>5
<1> HIDE DEF S
<1>3. \A N \in Nat : N \in S
  BY <1>1, <1>2, Induct
<1> QED BY <1>3 DEF S

\* Quotient and remainder.
LEMMA DivMod ==
    ASSUME NEW n \in Nat, NEW d \in Nat \ {0}
    PROVE  /\ n \div d \in Nat /\ n % d \in 0 .. d - 1
           /\ n = d * (n \div d) + (n % d)
  OBVIOUS

\* A quotient lies where the multiples of the divisor say.
LEMMA DivBounds ==
    ASSUME NEW n \in Nat, NEW d \in Nat \ {0}, NEW m \in Nat
    PROVE  /\ n >= d * m => n \div d >= m
           /\ n < d * m => n \div d < m
<1>1. /\ n \div d \in Nat /\ n % d \in 0 .. d - 1
      /\ n = d * (n \div d) + (n % d)
  BY DivMod
<1> DEFINE q == n \div d
<1> HIDE DEF q
<1>2. /\ q \in Nat /\ n % d \in 0 .. d - 1
      /\ n = d * q + (n % d)
  BY <1>1 DEF q
<1>3. ASSUME n >= d * m, q < m PROVE FALSE
  <2>1. d * (q + 1) <= d * m
    BY <1>2, <1>3
  <2>2. d * (q + 1) = d * q + d
    BY <1>2
  <2> QED
    BY <1>2, <1>3, <2>1, <2>2
<1>4. ASSUME n < d * m, q >= m PROVE FALSE
  <2>1. d * q >= d * m
    BY <1>2, <1>4
  <2> QED
    BY <1>2, <1>4, <2>1
<1> QED
  BY <1>2, <1>3, <1>4 DEF q

\* A quotient and a remainder that fit are the ones.
LEMMA DivUnique ==
    ASSUME NEW d \in Nat \ {0}, NEW q \in Nat, NEW r \in 0 .. d - 1
    PROVE  (d * q + r) \div d = q /\ (d * q + r) % d = r
<1> DEFINE p == d * q
<1>1. p \in Nat /\ d * (q + 1) = p + d
  OBVIOUS
<1>2. /\ (p + r) \div d \in Nat /\ (p + r) % d \in 0 .. d - 1
      /\ p + r = d * ((p + r) \div d) + ((p + r) % d)
  <2>1. p + r \in Nat
    BY <1>1
  <2> HIDE DEF p
  <2> QED BY <2>1, DivMod
<1>3. (p + r) \div d >= q
  <2>1. p + r \in Nat /\ p + r >= d * q
    BY <1>1
  <2> HIDE DEF p
  <2> QED BY <2>1, DivBounds
<1>4. (p + r) \div d < q + 1
  <2>1. p + r \in Nat /\ p + r < d * (q + 1) /\ q + 1 \in Nat
    BY <1>1
  <2> HIDE DEF p
  <2> QED BY <2>1, DivBounds
<1>5. (p + r) \div d = q
  BY <1>2, <1>3, <1>4
<1>6. (p + r) % d = r
  <2>1. p + r = d * q + ((p + r) % d)
    BY <1>2, <1>5
  <2> HIDE DEF p
  <2> QED BY <1>1, <1>2, <2>1 DEF p
<1> QED BY <1>5, <1>6

\* From one multiple to the next.
LEMMA Multiples ==
    ASSUME NEW d \in Nat \ {0}, NEW a \in Nat, NEW b \in Nat, a % d = 0
    PROVE  /\ (a + d) % d = 0
           /\ b % d = 0 /\ a < b => a + d <= b
<1> DEFINE q == a \div d
           r == b \div d
<1>1. q \in Nat /\ r \in Nat /\ a = d * q /\ b = d * r + (b % d)
  BY DivMod
<1> HIDE DEF q, r
<1>2. (a + d) % d = 0
  <2>1. a + d = d * (q + 1) + 0 /\ q + 1 \in Nat /\ 0 \in 0 .. d - 1
    BY <1>1
  <2> QED BY <2>1, DivUnique
<1>3. ASSUME b % d = 0, a < b PROVE a + d <= b
  <2>1. b = d * r
    BY <1>1, <1>3
  <2>2. CASE r <= q
    <3>1. d * r <= d * q
      BY <1>1, <2>2
    <3> QED BY <1>1, <1>3, <2>1, <3>1
  <2>3. CASE r >= q + 1
    <3>1. d * r >= d * (q + 1) /\ d * (q + 1) = d * q + d
      BY <1>1, <2>3
    <3> QED BY <1>1, <2>1, <3>1
  <2> QED BY <1>1, <2>2, <2>3
<1> QED BY <1>2, <1>3

\* The remainder of a number that is at most one divisor out of range.
LEMMA ModNear ==
    ASSUME NEW d \in Nat \ {0}, NEW x \in Int, -d <= x, x < 2 * d
    PROVE  x % d = IF x < 0 THEN x + d ELSE IF x < d THEN x ELSE x - d
<1>1. CASE x < 0
  <2>1. x % d \in 0 .. d - 1 /\ x = d * (x \div d) + (x % d) /\ x \div d \in Int
    OBVIOUS
  <2> DEFINE q == x \div d
  <2> HIDE DEF q
  <2>2. q \in Int /\ x = d * q + (x % d)
    BY <2>1 DEF q
  <2>3. ~(q >= 0)
    <3>1. q >= 0 => d * q >= 0
      BY <2>2
    <3> QED BY <1>1, <2>1, <2>2, <3>1
  <2>4. ~(q <= -2)
    <3>1. q <= -2 => d * q <= d * (-2)
      BY <2>2
    <3> QED BY <1>1, <2>1, <2>2, <3>1
  <2>5. q = -1
    BY <2>2, <2>3, <2>4
  <2> QED BY <1>1, <2>1, <2>2, <2>5
<1>2. CASE x >= 0 /\ x < d
  <2>1. x = d * 0 + x /\ x \in 0 .. d - 1
    BY <1>2
  <2>2. (d * 0 + x) % d = x
    BY <2>1, DivUnique
  <2> QED BY <1>2, <2>1, <2>2
<1>3. CASE x >= d
  <2>1. x = d * 1 + (x - d) /\ x - d \in 0 .. d - 1
    BY <1>3
  <2>2. (d * 1 + (x - d)) % d = x - d
    BY <2>1, DivUnique
  <2> QED BY <1>3, <2>1, <2>2
<1> QED BY <1>1, <1>2, <1>3

-----------------------------------------------------------------------------
(* Streams of bytes.                                                        *)

Bytes == Seq(Int)

\* s is the beginning of t: IsPrefix, told byte by byte.
Begins(s, t) == Len(s) <= Len(t) /\ \A i \in 1 .. Len(s) : s[i] = t[i]

\* Of sequences of bytes, Begins is the IsPrefix that Stream is told with.
LEMMA BeginsIsPrefix ==
    ASSUME NEW s \in Bytes, NEW t \in Bytes, Begins(s, t)
    PROVE  IsPrefix(s, t)
<1>1. Len(s) \in Nat /\ Len(t) \in Nat /\ \A i \in 1 .. Len(s) : s[i] \in Int /\ t[i] \in Int
  BY DEF Bytes, Begins
<1>2. /\ SubSeq(s, 1, Len(s)) \in Seq(Int)
      /\ Len(SubSeq(s, 1, Len(s))) = Len(s)
      /\ \A i \in 1 .. Len(s) : SubSeq(s, 1, Len(s))[i] = s[i]
  BY <1>1, SubSeqProperties
<1>3. /\ SubSeq(t, 1, Len(s)) \in Seq(Int)
      /\ Len(SubSeq(t, 1, Len(s))) = Len(s)
      /\ \A i \in 1 .. Len(s) : SubSeq(t, 1, Len(s))[i] = t[i]
  BY <1>1, SubSeqProperties
<1>4. \A i \in 1 .. Len(s) : s[i] = t[i]
  BY DEF Begins
<1>5. SubSeq(s, 1, Len(s)) = SubSeq(t, 1, Len(s))
  BY <1>2, <1>3, <1>4, SeqEqual
<1> QED BY <1>5 DEF IsPrefix, Begins

\* The windows of a size.
Windows(size) == [0 .. size - 1 -> Int]

\* A part of a window is a sequence of its bytes, as many as there are places.
LEMMA SliceIs ==
    ASSUME NEW N \in Nat, NEW w \in Windows(N),
           NEW i \in Nat, NEW j \in Nat, i <= j, j <= N
    PROVE  /\ Slice(w, i, j) \in Bytes
           /\ Len(Slice(w, i, j)) = j - i
           /\ \A k \in 1 .. j - i : Slice(w, i, j)[k] = w[i + k - 1]
<1>1. Slice(w, i, j) \in [1 .. j - i -> Int]
  BY DEF Slice, Windows
<1>2. j - i \in Nat
  OBVIOUS
<1>3. Slice(w, i, j) \in Seq(Int)
  BY <1>1, <1>2, SeqDef
<1> QED BY <1>1, <1>2, <1>3 DEF Bytes, Slice

\* Writing what comes next.
LEMMA WriteNext ==
    ASSUME NEW s \in Bytes, NEW t \in Bytes, NEW u \in Bytes,
           Begins(s, t), Len(s) + Len(u) <= Len(t),
           \A i \in 1 .. Len(u) : u[i] = t[Len(s) + i]
    PROVE  /\ s \o u \in Bytes /\ Len(s \o u) = Len(s) + Len(u)
           /\ Begins(s \o u, t) /\ Begins(s, s \o u)
<1>1. Len(s) \in Nat /\ Len(u) \in Nat /\ Len(t) \in Nat
  BY DEF Bytes
<1>2. /\ s \o u \in Seq(Int)
      /\ Len(s \o u) = Len(s) + Len(u)
      /\ \A i \in 1 .. Len(s) + Len(u) :
            (s \o u)[i] = IF i <= Len(s) THEN s[i] ELSE u[i - Len(s)]
  BY ConcatProperties DEF Bytes
<1>3. ASSUME NEW i \in 1 .. Len(s) + Len(u) PROVE (s \o u)[i] = t[i]
  <2>1. CASE i <= Len(s)
    BY <1>1, <1>2, <2>1 DEF Begins
  <2>2. CASE i > Len(s)
    <3>1. i - Len(s) \in 1 .. Len(u) /\ Len(s) + (i - Len(s)) = i
      BY <1>1, <2>2
    <3> QED BY <1>1, <1>2, <2>2, <3>1
  <2> QED BY <1>1, <2>1, <2>2
<1> QED BY <1>1, <1>2, <1>3 DEF Bytes, Begins

\* The beginning of a beginning is a beginning.
LEMMA BeginsTransitive ==
    ASSUME NEW s \in Bytes, NEW t \in Bytes, NEW u \in Bytes, Begins(s, t), Begins(t, u)
    PROVE  Begins(s, u)
<1>1. Len(s) \in Nat /\ Len(u) \in Nat /\ Len(t) \in Nat
  BY DEF Bytes
<1> QED BY <1>1 DEF Begins

\* A stream that is longer by one byte begins as before and ends with that byte.
LEMMA AppendBegins ==
    ASSUME NEW s \in Bytes, NEW b \in Int
    PROVE  /\ Append(s, b) \in Bytes /\ Begins(s, Append(s, b))
           /\ Len(Append(s, b)) = Len(s) + 1 /\ Append(s, b)[Len(s) + 1] = b
<1>1. Len(s) \in Nat
  BY DEF Bytes
<1>2. /\ Append(s, b) \in Seq(Int)
      /\ Len(Append(s, b)) = Len(s)+1
      /\ \A i \in 1.. Len(s) : Append(s, b)[i] = s[i]
      /\ Append(s, b)[Len(s)+1] = b
  BY AppendProperties DEF Bytes
<1> QED BY <1>1, <1>2 DEF Bytes, Begins

-----------------------------------------------------------------------------
(* Copies, byte by byte.                                                    *)

\* What a match refers to is a byte, be it of the stream, of the data before it, or junk.
LEMMA BackIsByte ==
    ASSUME NEW s \in Bytes, NEW off \in Nat \ {0}, NEW ref \in Nat
    PROVE  Back(s, off, ref) \in Int
<1>1. Len(s) \in Nat
  BY DEF Bytes
<1>2. CASE off <= Len(s)
  <2>1. Len(s) + 1 - off \in 1 .. Len(s)
    BY <1>1, <1>2
  <2> QED BY <1>2, <2>1 DEF Back, Bytes
<1>3. CASE off > Len(s)
  BY <1>1, <1>3 DEF Back, Junk
<1> QED BY <1>1, <1>2, <1>3

\* f is what WithCopy computes, step by step.
StreamCopy(f, s, off, len, ref) ==
    /\ f[0] = s
    /\ \A n \in 1 .. len : f[n] = Append(f[n - 1], Back(f[n - 1], off, ref))
    /\ WithCopy(s, off, len, ref) = f[len]

\* WithCopy is what its steps compute: there is a function that begins with the stream and
\* adds a byte at each of them.
LEMMA WithCopyIs ==
    ASSUME NEW s \in Bytes, NEW off \in Nat \ {0}, NEW len \in Nat, NEW ref \in Nat
    PROVE  \E f : StreamCopy(f, s, off, len, ref)
<1> DEFINE longerByOne(x) == Append(x, Back(x, off, ref))
           step == [n \in Nat |-> [x \in Bytes |-> longerByOne(x)]]
           body(f, n) == IF n = 0 THEN s ELSE longerByOne(f[n - 1])
           longer == CHOOSE f : f = [n \in 0 .. len |-> body(f, n)]
<1>1. step \in [Nat -> [Bytes -> Bytes]]
  BY BackIsByte, AppendBegins
<1>2. Iterates(Bytes, s, step, len) # {}
  <2> HIDE DEF step
  <2> QED BY <1>1, IterateExists
<1>3. \E f : f = [n \in 0 .. len |-> body(f, n)]
  <2>1. PICK f \in [0 .. len -> Bytes] : f[0] = s /\ \A n \in 1 .. len : f[n] = step[n][f[n - 1]]
    BY <1>2 DEF Iterates
  <2>2. \A n \in 0 .. len : f[n] = body(f, n)
    <3> HIDE DEF longerByOne
    <3>1. \A n \in 1 .. len : f[n - 1] \in Bytes /\ n \in Nat
      BY <2>1
    <3>2. \A n \in 1 .. len : f[n] = longerByOne(f[n - 1])
      BY <2>1, <3>1
    <3> HIDE DEF step
    <3> QED BY <2>1, <3>2
  <2> HIDE DEF body
  <2>3. f = [n \in 0 .. len |-> body(f, n)]
    BY <2>2
  <2> QED BY <2>3
<1>4. longer = [n \in 0 .. len |-> body(longer, n)]
  <2> HIDE DEF body
  <2> QED BY <1>3
<1>5. WithCopy(s, off, len, ref) = longer[len]
  BY DEF WithCopy
<1> HIDE DEF longer
<1>6. \A n \in 0 .. len : longer[n] = body(longer, n)
  <2> HIDE DEF body
  <2> QED BY <1>4
<1>7. longer[0] = s /\ \A n \in 1 .. len : longer[n] = longerByOne(longer[n - 1])
  <2> HIDE DEF longerByOne
  <2> QED BY <1>6
<1>8. StreamCopy(longer, s, off, len, ref)
  BY <1>5, <1>7 DEF StreamCopy
<1> QED BY <1>8

\* g is a copy in a window, step by step.
WindowCopy(g, w, size, at, off, len) ==
    /\ g[0] = w
    /\ \A n \in 1 .. len :
          g[n] = [g[n - 1] EXCEPT ![at + n - 1] = g[n - 1][Source(size, at, off, n - 1)]]

\* A copy reads inside the window.
ReadsInside(size, at, off, len) ==
    \A n \in 1 .. len : Source(size, at, off, n - 1) \in 0 .. size - 1

\* CopyMatch, too, is what its steps compute, in a window, when it copies from there.
LEMMA CopyMatchIs ==
    ASSUME NEW size \in Nat, NEW w \in Windows(size), NEW at \in Nat,
           NEW off \in Nat, NEW len \in Nat, at + len <= size,
           ReadsInside(size, at, off, len)
    PROVE  \E g : WindowCopy(g, w, size, at, off, len) /\ CopyMatch(w, size, at, off, len) = g[len]
<1> DEFINE from(n) == Source(size, at, off, n - 1)
           put(x, n) == [x EXCEPT ![at + n - 1] = x[from(n)]]
           step == [n \in Nat |-> [x \in Windows(size) |-> IF n \in 1 .. len THEN put(x, n) ELSE x]]
           body(f, n) == IF n = 0 THEN w ELSE put(f[n - 1], n)
           copied == CHOOSE f : f = [n \in 0 .. len |-> body(f, n)]
<1>1. step \in [Nat -> [Windows(size) -> Windows(size)]]
  <2>1. \A n \in 1 .. len : from(n) \in 0 .. size - 1
    BY DEF ReadsInside
  <2>2. \A n \in 1 .. len, x \in Windows(size) : put(x, n) \in Windows(size)
    <3> HIDE DEF from
    <3> QED BY <2>1 DEF Windows
  <2> HIDE DEF put
  <2> QED BY <2>2
<1>2. Iterates(Windows(size), w, step, len) # {}
  <2> HIDE DEF step
  <2> QED BY <1>1, IterateExists
<1>3. \E f : f = [n \in 0 .. len |-> body(f, n)]
  <2>1. PICK f \in [0 .. len -> Windows(size)] : f[0] = w /\ \A n \in 1 .. len : f[n] = step[n][f[n - 1]]
    BY <1>2 DEF Iterates
  <2>2. \A n \in 1 .. len : f[n - 1] \in Windows(size) /\ n \in Nat
    BY <2>1
  <2>3. \A n \in 0 .. len : f[n] = body(f, n)
    <3> HIDE DEF put
    <3>1. \A n \in 1 .. len : f[n] = put(f[n - 1], n)
      BY <2>1, <2>2
    <3> HIDE DEF step
    <3> QED BY <2>1, <3>1
  <2> HIDE DEF body
  <2>4. f = [n \in 0 .. len |-> body(f, n)]
    BY <2>1, <2>3
  <2> QED BY <2>4
<1>4. copied = [n \in 0 .. len |-> body(copied, n)]
  <2> HIDE DEF body
  <2> QED BY <1>3
<1>5. CopyMatch(w, size, at, off, len) = copied[len]
  BY DEF CopyMatch
<1> HIDE DEF copied
<1>6. \A n \in 0 .. len : copied[n] = body(copied, n)
  <2> HIDE DEF body
  <2> QED BY <1>4
<1>7. copied[0] = w /\ \A n \in 1 .. len : copied[n] = put(copied[n - 1], n)
  <2> HIDE DEF put
  <2> QED BY <1>6
<1>8. WindowCopy(copied, w, size, at, off, len)
  BY <1>7 DEF WindowCopy
<1> QED BY <1>5, <1>8

-----------------------------------------------------------------------------
(* What a window is good for: as far back as it reaches, the byte that a    *)
(* match finds in it is the one that many places back in the stream.        *)

Mirrors(w, size, p, s, ref) ==
    \A off \in 1 .. size : w[Source(size, p, off, 0)] = Back(s, off, ref)

\* The source of a match moves on with the place that is written, inside the window.
LEMMA SourceMoves ==
    ASSUME NEW size \in Nat, NEW off \in 1 .. size, NEW at \in Nat, NEW n \in Nat, at + n < size
    PROVE  /\ Source(size, at, off, n) = Source(size, at + n, off, 0)
           /\ Source(size, at, off, n) \in 0 .. size - 1
BY DEF Source

\* What comes next is put into the window, over what is farthest back.
LEMMA PutMirrors ==
    ASSUME NEW size \in Nat, NEW w \in Windows(size), NEW p \in Nat, p < size,
           NEW s \in Bytes, NEW ref \in Nat, NEW b \in Int, Mirrors(w, size, p, s, ref)
    PROVE  /\ [w EXCEPT ![p] = b] \in Windows(size)
           /\ Mirrors([w EXCEPT ![p] = b], size, p + 1, Append(s, b), ref)
<1> DEFINE v == [w EXCEPT ![p] = b]
           t == Append(s, b)
<1>1. v \in Windows(size)
  BY DEF Windows
<1>2. ASSUME NEW off \in 1 .. size PROVE v[Source(size, p + 1, off, 0)] = Back(t, off, ref)
  <2>1. /\ Len(s) \in Nat /\ Len(t) = Len(s) + 1 /\ t[Len(s) + 1] = b
        /\ \A i \in 1 .. Len(s) : t[i] = s[i]
    BY AppendBegins DEF Bytes, Begins
  <2> HIDE DEF t
  <2>2. CASE off = 1
    <3>1. Source(size, p + 1, 1, 0) = p
      BY DEF Source
    <3>2. Back(t, 1, ref) = b
      BY <2>1 DEF Back
    <3> QED BY <2>2, <3>1, <3>2 DEF Windows
  <2>3. CASE off > 1
    <3>1. off - 1 \in 1 .. size
      BY <2>3
    <3>2. /\ Source(size, p + 1, off, 0) = Source(size, p, off - 1, 0)
          /\ Source(size, p, off - 1, 0) \in 0 .. size - 1
          /\ Source(size, p, off - 1, 0) # p
      BY <2>3 DEF Source
    <3>3. v[Source(size, p + 1, off, 0)] = w[Source(size, p, off - 1, 0)]
      BY <3>2 DEF Windows
    <3>4. Back(t, off, ref) = Back(s, off - 1, ref)
      BY <2>1, <2>3 DEF Back
    <3> QED BY <3>1, <3>3, <3>4 DEF Mirrors
  <2> QED BY <2>2, <2>3
<1> QED BY <1>1, <1>2 DEF Mirrors

\* The window goes round.
LEMMA WrapMirrors ==
    ASSUME NEW size \in Nat, NEW w, NEW s, NEW ref, Mirrors(w, size, size, s, ref)
    PROVE  Mirrors(w, size, 0, s, ref)
<1>1. \A off \in 1 .. size : Source(size, size, off, 0) = Source(size, 0, off, 0)
  BY DEF Source
<1> QED BY <1>1 DEF Mirrors

\* It is the same to begin again and to be at the end.
LEMMA UnwrapMirrors ==
    ASSUME NEW size \in Nat, NEW w, NEW s, NEW ref, Mirrors(w, size, 0, s, ref)
    PROVE  Mirrors(w, size, size, s, ref)
<1>1. \A off \in 1 .. size : Source(size, size, off, 0) = Source(size, 0, off, 0)
  BY DEF Source
<1> QED BY <1>1 DEF Mirrors

\* What was decoded last is in the window before the position.
LEMMA MirrorsBefore ==
    ASSUME NEW size \in Nat, NEW w, NEW p \in Nat, p <= size, NEW s \in Bytes, NEW ref \in Nat,
           Mirrors(w, size, p, s, ref), NEW i \in Nat, i < p, p - i <= Len(s)
    PROVE  w[i] = s[Len(s) + 1 - (p - i)]
<1>1. p - i \in 1 .. size /\ Source(size, p, p - i, 0) = i
  BY DEF Source
<1>2. Back(s, p - i, ref) = s[Len(s) + 1 - (p - i)]
  BY DEF Back
<1> QED BY <1>1, <1>2 DEF Mirrors

\* A copy in the window is a copy in the stream.
LEMMA CopyMirrors ==
    ASSUME NEW size \in Nat, NEW w \in Windows(size), NEW p \in Nat, NEW len \in Nat,
           p + len <= size, NEW off \in 1 .. size, NEW s \in Bytes, NEW ref \in Nat,
           Mirrors(w, size, p, s, ref), NEW g, WindowCopy(g, w, size, p, off, len)
    PROVE  /\ g[len] \in Windows(size)
           /\ WithCopy(s, off, len, ref) \in Bytes
           /\ Len(WithCopy(s, off, len, ref)) = Len(s) + len
           /\ Begins(s, WithCopy(s, off, len, ref))
           /\ Mirrors(g[len], size, p + len, WithCopy(s, off, len, ref), ref)
<1>1. off \in Nat \ {0} /\ Len(s) \in Nat
  BY DEF Bytes
<1>2. PICK f : StreamCopy(f, s, off, len, ref)
  BY <1>1, WithCopyIs
<1> DEFINE Done(n) ==
        /\ g[n] \in Windows(size) /\ f[n] \in Bytes
        /\ Len(f[n]) = Len(s) + n /\ Begins(s, f[n])
        /\ Mirrors(g[n], size, p + n, f[n], ref)
           S == {n \in Nat : n <= len => Done(n)}
<1>4. 0 \in S
  BY <1>1, <1>2 DEF Begins, StreamCopy, WindowCopy
<1>5. ASSUME NEW n \in Nat, n \in S PROVE n + 1 \in S
  <2> SUFFICES ASSUME n + 1 <= len PROVE Done(n + 1)
    OBVIOUS
  <2>1. /\ g[n] \in Windows(size) /\ f[n] \in Bytes
        /\ Len(f[n]) = Len(s) + n /\ Begins(s, f[n])
        /\ Mirrors(g[n], size, p + n, f[n], ref)
    BY <1>5
  <2> HIDE DEF S, Done
  <2>2. n + 1 \in 1 .. len /\ (n + 1) - 1 = n /\ p + (n + 1) - 1 = p + n /\ p + n \in Nat /\ p + n < size
    OBVIOUS
  <2> DEFINE b == Back(f[n], off, ref)
  <2>3. b \in Int
    BY <1>1, <2>1, BackIsByte
  <2>4. g[n][Source(size, p, off, n)] = b
    <3>1. Source(size, p, off, n) = Source(size, p + n, off, 0)
      BY <2>2, SourceMoves
    <3>2. g[n][Source(size, p + n, off, 0)] = b
      BY <2>1 DEF Mirrors
    <3> QED BY <3>1, <3>2
  <2> HIDE DEF b
  <2>5. f[n + 1] = Append(f[n], b)
    BY <1>2, <2>2 DEF StreamCopy, b
  <2>6. g[n + 1] = [g[n] EXCEPT ![p + n] = b]
    BY <2>2, <2>4 DEF WindowCopy
  <2>7. /\ g[n + 1] \in Windows(size)
        /\ Mirrors(g[n + 1], size, (p + n) + 1, f[n + 1], ref)
    <3>1. /\ [g[n] EXCEPT ![p + n] = b] \in Windows(size)
          /\ Mirrors([g[n] EXCEPT ![p + n] = b], size, (p + n) + 1, Append(f[n], b), ref)
      BY <2>1, <2>2, <2>3, PutMirrors
    <3> QED BY <2>5, <2>6, <3>1
  <2>8. f[n + 1] \in Bytes /\ Len(f[n + 1]) = Len(f[n]) + 1 /\ Begins(f[n], f[n + 1])
    <3>1. Append(f[n], b) \in Bytes /\ Len(Append(f[n], b)) = Len(f[n]) + 1 /\ Begins(f[n], Append(f[n], b))
      BY <2>1, <2>3, AppendBegins
    <3> QED BY <2>5, <3>1
  <2>9. Begins(s, f[n + 1])
    BY <2>1, <2>8, BeginsTransitive
  <2>10. Len(f[n + 1]) = Len(s) + (n + 1) /\ p + (n + 1) = (p + n) + 1
    BY <1>1, <2>1, <2>8
  <2> QED BY <2>7, <2>8, <2>9, <2>10 DEF Done
<1>6. \A n \in Nat : n \in S
  <2> HIDE DEF S
  <2> QED BY <1>4, <1>5, Induct
<1>7. Done(len)
  <2> HIDE DEF Done
  <2> QED BY <1>6
<1> QED BY <1>2, <1>7 DEF StreamCopy

\* A match in the window is the same match in the stream, and the window mirrors it after.
LEMMA MatchMirrors ==
    ASSUME NEW size \in Nat, NEW w \in Windows(size), NEW p \in Nat, NEW len \in Nat,
           p + len <= size, NEW off \in 1 .. size, NEW s \in Bytes, NEW ref \in Nat,
           Mirrors(w, size, p, s, ref)
    PROVE  /\ CopyMatch(w, size, p, off, len) \in Windows(size)
           /\ WithCopy(s, off, len, ref) \in Bytes
           /\ Len(WithCopy(s, off, len, ref)) = Len(s) + len
           /\ Begins(s, WithCopy(s, off, len, ref))
           /\ Mirrors(CopyMatch(w, size, p, off, len), size, p + len,
                      WithCopy(s, off, len, ref), ref)
<1>1. off \in Nat /\ ReadsInside(size, p, off, len)
  BY DEF Source, ReadsInside
<1>2. PICK g : WindowCopy(g, w, size, p, off, len) /\ CopyMatch(w, size, p, off, len) = g[len]
  BY <1>1, CopyMatchIs
<1> QED BY <1>2, CopyMirrors

\* A copy can be made in two parts.
LEMMA WithCopyTwice ==
    ASSUME NEW s \in Bytes, NEW off \in Nat \ {0}, NEW m \in Nat, NEW n \in Nat, NEW ref \in Nat,
           WithCopy(s, off, m, ref) \in Bytes
    PROVE  WithCopy(WithCopy(s, off, m, ref), off, n, ref) = WithCopy(s, off, m + n, ref)
<1> DEFINE q == WithCopy(s, off, m, ref)
<1>0. m + n \in Nat
  OBVIOUS
<1>1. PICK f : StreamCopy(f, s, off, m, ref)
  BY WithCopyIs
<1>2. PICK h : StreamCopy(h, s, off, m + n, ref)
  BY <1>0, WithCopyIs
<1> HIDE DEF q
<1>3. PICK g : StreamCopy(g, q, off, n, ref)
  BY WithCopyIs DEF q
<1>4. h[m] = f[m]
  <2> DEFINE S == {k \in Nat : k <= m => h[k] = f[k]}
  <2>1. 0 \in S
    BY <1>1, <1>2 DEF StreamCopy
  <2>2. ASSUME NEW k \in Nat, k \in S PROVE k + 1 \in S
    <3> SUFFICES ASSUME k + 1 <= m PROVE h[k + 1] = f[k + 1]
      OBVIOUS
    <3>1. k + 1 \in 1 .. m /\ k + 1 \in 1 .. m + n /\ (k + 1) - 1 = k /\ h[k] = f[k]
      BY <2>2
    <3> QED BY <1>1, <1>2, <3>1 DEF StreamCopy
  <2>3. \A k \in Nat : k \in S
    <3> HIDE DEF S
    <3> QED BY <2>1, <2>2, Induct
  <2> QED BY <2>3
<1>5. h[m + n] = g[n]
  <2> DEFINE S == {k \in Nat : k <= n => h[m + k] = g[k]}
  <2>1. 0 \in S
    BY <1>1, <1>3, <1>4 DEF StreamCopy, q
  <2>2. ASSUME NEW k \in Nat, k \in S PROVE k + 1 \in S
    <3> SUFFICES ASSUME k + 1 <= n PROVE h[m + (k + 1)] = g[k + 1]
      OBVIOUS
    <3>1. /\ k + 1 \in 1 .. n /\ m + (k + 1) \in 1 .. m + n /\ (k + 1) - 1 = k
          /\ (m + (k + 1)) - 1 = m + k /\ h[m + k] = g[k]
      BY <2>2
    <3> QED BY <1>2, <1>3, <3>1 DEF StreamCopy
  <2>3. \A k \in Nat : k \in S
    <3> HIDE DEF S
    <3> QED BY <2>1, <2>2, Induct
  <2> QED BY <2>3
<1> QED BY <1>2, <1>3, <1>5 DEF StreamCopy, q

\* A copy around the end of the window of Quantum.
LEMMA AroundMirrors ==
    ASSUME NEW w \in Windows(QtmWindow), NEW p \in Nat, NEW n \in Nat, p + n <= QtmWindow,
           NEW off \in 1 .. QtmWindow, NEW s \in Bytes, Mirrors(w, QtmWindow, p, s, 0),
           NEW from \in Int, from = p - off \/ from = p - off + QtmWindow
    PROVE  /\ CopyAround(w, p, from, n) \in Windows(QtmWindow)
           /\ WithCopy(s, off, n, 0) \in Bytes
           /\ Len(WithCopy(s, off, n, 0)) = Len(s) + n
           /\ Begins(s, WithCopy(s, off, n, 0))
           /\ Mirrors(CopyAround(w, p, from, n), QtmWindow, p + n, WithCopy(s, off, n, 0), 0)
<1> DEFINE src(k) == (from + k - 1) % QtmWindow
           put(x, k) == [x EXCEPT ![p + k - 1] = x[src(k)]]
           step == [k \in Nat |->
                      [x \in Windows(QtmWindow) |-> IF k \in 1 .. n THEN put(x, k) ELSE x]]
           body(f, k) == IF k = 0 THEN w ELSE put(f[k - 1], k)
           copied == CHOOSE f : f = [k \in 0 .. n |-> body(f, k)]
<1>0. QtmWindow \in Nat \ {0} /\ QtmWindow \in Nat
  BY QtmAssumption
<1>1. \A k \in 1 .. n : src(k) = Source(QtmWindow, p, off, k - 1) /\ src(k) \in 0 .. QtmWindow - 1
  <2> SUFFICES ASSUME NEW k \in 1 .. n
               PROVE  src(k) = Source(QtmWindow, p, off, k - 1) /\ src(k) \in 0 .. QtmWindow - 1
    OBVIOUS
  <2> DEFINE x == from + k - 1
  <2>1. x \in Int /\ -QtmWindow <= x /\ x < 2 * QtmWindow
    BY <1>0
  <2>2. x % QtmWindow = IF x < 0 THEN x + QtmWindow
                        ELSE IF x < QtmWindow THEN x ELSE x - QtmWindow
    <3> HIDE DEF x
    <3> QED BY <1>0, <2>1, ModNear
  <2>3. \/ x < 0 /\ x % QtmWindow = x + QtmWindow
        \/ x >= 0 /\ x < QtmWindow /\ x % QtmWindow = x
        \/ x >= QtmWindow /\ x % QtmWindow = x - QtmWindow
    <3> HIDE DEF x
    <3> QED BY <1>0, <2>1, <2>2
  <2>4. src(k) = x % QtmWindow
    OBVIOUS
  <2> HIDE DEF src
  <2> DEFINE r == x % QtmWindow
  <2>5. \/ x < 0 /\ r = x + QtmWindow
        \/ x >= 0 /\ x < QtmWindow /\ r = x
        \/ x >= QtmWindow /\ r = x - QtmWindow
    <3> HIDE DEF x
    <3> QED BY <2>3
  <2> HIDE DEF r
  <2>6. r = Source(QtmWindow, p, off, k - 1) /\ r \in 0 .. QtmWindow - 1
    BY <1>0, <2>5 DEF Source
  <2> QED BY <2>4, <2>6 DEF r
<1>2. step \in [Nat -> [Windows(QtmWindow) -> Windows(QtmWindow)]]
  <2> HIDE DEF src
  <2>1. \A k \in 1 .. n, x \in Windows(QtmWindow) : put(x, k) \in Windows(QtmWindow)
    BY <1>0, <1>1 DEF Windows
  <2> HIDE DEF put
  <2> QED BY <2>1
<1> HIDE DEF src
<1>3. Iterates(Windows(QtmWindow), w, step, n) # {}
  <2> HIDE DEF step
  <2> QED BY <1>2, IterateExists
<1>4. \E f : f = [k \in 0 .. n |-> body(f, k)]
  <2>1. PICK f \in [0 .. n -> Windows(QtmWindow)] :
            f[0] = w /\ \A k \in 1 .. n : f[k] = step[k][f[k - 1]]
    BY <1>3 DEF Iterates
  <2>2. \A k \in 1 .. n : f[k - 1] \in Windows(QtmWindow) /\ k \in Nat
    BY <2>1
  <2>3. \A k \in 0 .. n : f[k] = body(f, k)
    <3> HIDE DEF put
    <3>1. \A k \in 1 .. n : f[k] = put(f[k - 1], k)
      BY <2>1, <2>2
    <3> HIDE DEF step
    <3> QED BY <2>1, <3>1
  <2> HIDE DEF body
  <2>4. f = [k \in 0 .. n |-> body(f, k)]
    BY <2>1, <2>3
  <2> QED BY <2>4
<1>5. copied = [k \in 0 .. n |-> body(copied, k)]
  <2> HIDE DEF body
  <2> QED BY <1>4
<1>6. CopyAround(w, p, from, n) = copied[n]
  BY DEF CopyAround, src
<1> HIDE DEF copied
<1>7. \A k \in 0 .. n : copied[k] = body(copied, k)
  <2> HIDE DEF body
  <2> QED BY <1>5
<1>8. copied[0] = w /\ \A k \in 1 .. n : copied[k] = put(copied[k - 1], k)
  <2> HIDE DEF put
  <2> QED BY <1>7
<1>9. WindowCopy(copied, w, QtmWindow, p, off, n)
  BY <1>1, <1>8 DEF WindowCopy
<1> HIDE DEF put, body, step
<1> QED BY <1>0, <1>6, <1>9, CopyMirrors

\* The bytes of a window from i up to j are what comes after s in t.
Follows(w, i, j, s, t) ==
    /\ Len(s) + (j - i) <= Len(t)
    /\ \A k \in 0 .. j - i - 1 : w[i + k] = t[Len(s) + 1 + k]

\* What is decoded and not written yet lies in the window before window_posn.
LEMMA MirrorsFollow ==
    ASSUME NEW size \in Nat, NEW w, NEW p \in Nat, p <= size, NEW s \in Bytes, NEW t \in Bytes,
           NEW ref \in Nat, Mirrors(w, size, p, t, ref), NEW i \in Nat, i <= p,
           Len(t) = Len(s) + (p - i)
    PROVE  Follows(w, i, p, s, t)
<1>1. Len(s) \in Nat /\ Len(t) \in Nat
  BY DEF Bytes
<1>2. ASSUME NEW k \in 0 .. p - i - 1 PROVE w[i + k] = t[Len(s) + 1 + k]
  <2> DEFINE m == i + k
  <2>1. m \in Nat /\ m < p /\ p - m <= Len(t) /\ Len(t) + 1 - (p - m) = Len(s) + 1 + k
    BY <1>1
  <2> HIDE DEF m
  <2>2. w[m] = t[Len(t) + 1 - (p - m)]
    BY <2>1, MirrorsBefore
  <2> QED BY <2>1, <2>2 DEF m
<1> QED BY <1>1, <1>2 DEF Follows

\* A part of it can be taken first.
LEMMA FollowsPart ==
    ASSUME NEW w, NEW i \in Nat, NEW j \in Nat, NEW m \in Nat, i <= m, m <= j,
           NEW s \in Bytes, NEW t \in Bytes, Follows(w, i, j, s, t)
    PROVE  /\ Follows(w, i, m, s, t)
           /\ \A r \in Bytes : Len(r) = Len(s) + (m - i) => Follows(w, m, j, r, t)
<1>1. Len(s) \in Nat /\ Len(t) \in Nat
  BY DEF Bytes
<1>2. Follows(w, i, m, s, t)
  <2>1. /\ Len(s) + (j - i) <= Len(t)
        /\ \A k \in 0 .. j - i - 1 : w[i + k] = t[Len(s) + 1 + k]
    BY DEF Follows
  <2>2. Len(s) + (m - i) <= Len(t)
    BY <1>1, <2>1
  <2>3. \A k \in 0 .. m - i - 1 : k \in 0 .. j - i - 1
    OBVIOUS
  <2> QED BY <2>1, <2>2, <2>3 DEF Follows
<1>3. ASSUME NEW r \in Bytes, Len(r) = Len(s) + (m - i) PROVE Follows(w, m, j, r, t)
  <2>1. ASSUME NEW k \in 0 .. j - m - 1 PROVE w[m + k] = t[Len(r) + 1 + k]
    <3>1. (m - i) + k \in 0 .. j - i - 1 /\ i + ((m - i) + k) = m + k
          /\ Len(s) + 1 + ((m - i) + k) = Len(r) + 1 + k
      BY <1>1, <1>3
    <3> QED BY <3>1 DEF Follows
  <2>2. Len(r) + (j - m) <= Len(t)
    <3>1. Len(s) + (j - i) <= Len(t)
      BY DEF Follows
    <3> QED BY <1>1, <1>3, <3>1
  <2> QED BY <2>1, <2>2 DEF Follows
<1> QED BY <1>2, <1>3

\* Writing a part of a window where the stream goes on.
LEMMA WriteSlice ==
    ASSUME NEW s \in Bytes, NEW t \in Bytes, Begins(s, t),
           NEW size \in Nat, NEW w \in Windows(size),
           NEW i \in Nat, NEW j \in Nat, i <= j, j <= size,
           Follows(w, i, j, s, t)
    PROVE  /\ s \o Slice(w, i, j) \in Bytes
           /\ Len(s \o Slice(w, i, j)) = Len(s) + (j - i)
           /\ Begins(s \o Slice(w, i, j), t)
           /\ Begins(s, s \o Slice(w, i, j))
<1> DEFINE u == Slice(w, i, j)
<1>1. /\ u \in Bytes /\ Len(u) = j - i
      /\ \A k \in 1 .. j - i : u[k] = w[i + k - 1]
  BY SliceIs
<1>2. Len(s) \in Nat
  BY DEF Bytes
<1> HIDE DEF u
<1>3. ASSUME NEW k \in 1 .. Len(u) PROVE u[k] = t[Len(s) + k]
  <2>1. k - 1 \in 0 .. j - i - 1 /\ i + (k - 1) = i + k - 1 /\ Len(s) + 1 + (k - 1) = Len(s) + k
    BY <1>1, <1>2
  <2> QED BY <1>1, <2>1 DEF Follows
<1>4. /\ s \o u \in Bytes /\ Len(s \o u) = Len(s) + Len(u)
      /\ Begins(s \o u, t) /\ Begins(s, s \o u)
  BY <1>1, <1>3, WriteNext DEF Follows
<1> QED BY <1>1, <1>4 DEF u


-----------------------------------------------------------------------------
(* The inductive invariant.                                                 *)

WindowSize ==
    IF method = "lzx" THEN LzxWindow ELSE IF method = "mszip" THEN ZipFrame ELSE QtmWindow

Typed ==
    /\ method \in Methods
    /\ total \in Totals[method]
    /\ want \in Nat /\ asked \in Nat /\ asked <= total + 1
    /\ window \in Windows(WindowSize)
    /\ posn \in Nat /\ posn <= WindowSize
    /\ optr \in Nat /\ oend \in Nat /\ optr <= oend /\ oend <= WindowSize
    /\ err \in {"ok", "read", "write", "decrunch"}
    /\ damaged \in BOOLEAN
    /\ plain \in Bytes /\ written \in Bytes

\* What is asked for is written or wanted; only the repair of MSZIP goes on, to the
\* end of a frame, after an error.
Accounts ==
    /\ Begins(written, plain) /\ Len(written) <= asked
    /\ pc \notin {"idle", "end"} => Len(written) + want = asked
    /\ pc \in {"idle", "end"} /\ err = "ok" => want = 0 /\ Len(written) = asked
    /\ err = "ok" \/ pc = "idle" \/ (method = "mszip" /\ pc \in {"frame", "end"})

\* A call begins or ends.
AtRest == pc \in {"idle", "flush", "start", "end"}

\* Between the frames, what is decoded and not written yet is what is stored.
Kept ==
    AtRest /\ err = "ok" =>
        /\ Len(plain) = Len(written) + (oend - optr)
        /\ Follows(window, optr, oend, written, plain)

-----------------------------------------------------------------------------
(* LZX: frames of full size, the last one excepted, that never go over the  *)
(* window's end.                                                            *)

LzxStates ==
    [frame : Nat, framePosn : Nat, endFrame : Nat, size : Nat, todo : Nat, run : Int,
     remaining : Nat, blockType : {"invalid", "verbatim", "uncompressed"},
     blockLength : Nat, R : Nat \X Nat \X Nat, trueR : Nat \X Nat \X Nat,
     pad : BOOLEAN, zero : BOOLEAN, options : LzxOptions]

\* The bytes of the frames that are decoded.
Framed == Len(written) + (oend - optr)

\* After n frames there are so many bytes of all, and the next frame begins at p.
WholeFrames(n, bytes, p, all) ==
    /\ bytes <= LzxFrame * n /\ bytes <= all
    /\ bytes = LzxFrame * n \/ bytes = all
    /\ p % LzxFrame = 0 \/ bytes = all
    /\ p <= bytes /\ (p = bytes \/ LzxWindow <= bytes)

InFrame == pc \in {"decode", "symbols"}

LzxInv ==
    method = "lzx" =>
        /\ lz \in LzxStates /\ lz.R = lz.trueR
        /\ lz.framePosn <= LzxWindow
        /\ err = "ok" =>
              /\ Mirrors(window, LzxWindow, posn, plain, lz.options.ref)
              /\ WholeFrames(lz.frame, Framed, lz.framePosn, total)
              /\ lz.framePosn < LzxWindow
              /\ ~InFrame => posn = lz.framePosn /\ Len(plain) = Framed
              /\ (InFrame \/ pc = "frame") => lz.endFrame = asked \div LzxFrame + 1
              /\ pc = "start" => optr = oend
              /\ pc = "frame" => /\ optr = oend \/ want = 0
                                 /\ Follows(window, optr, oend, written, plain)

LzxInFrame ==
    method = "lzx" /\ err = "ok" /\ InFrame =>
        /\ optr = oend
        /\ lz.framePosn <= posn /\ Len(plain) = Framed + (posn - lz.framePosn)
        /\ lz.framePosn + lz.size <= LzxWindow
        /\ WholeFrames(lz.frame + 1, Framed + lz.size, lz.framePosn + lz.size, total)
        /\ pc = "decode" /\ lz.todo > 0 => posn + lz.todo = lz.framePosn + lz.size
        /\ pc = "symbols" =>
              /\ posn + lz.run + lz.todo = lz.framePosn + lz.size
              /\ lz.todo > 0 => lz.remaining = 0

-----------------------------------------------------------------------------
(* MSZIP: the window is the frame, and what is not decoded yet of it the    *)
(* end of the frame before.                                                 *)

ZipStates == [bytesOutput : Nat, blocks : Nat, lastBlock : BOOLEAN, huffman : BOOLEAN,
              repair : BOOLEAN]

ZipInv ==
    method = "mszip" =>
        /\ zip \in ZipStates
        /\ pc \in {"block", "bytes"} =>
              /\ zip.bytesOutput \in {0, ZipFrame} /\ posn < ZipFrame
              /\ Len(plain) = Len(written) + zip.bytesOutput + posn
              /\ Mirrors(window, ZipFrame, posn, plain, 0)
        /\ pc = "frame" =>
              /\ zip.bytesOutput <= ZipFrame
              /\ Len(plain) = Len(written) + zip.bytesOutput
              /\ Follows(window, 0, zip.bytesOutput, written, plain)
        /\ (pc = "frame" \/ (AtRest /\ err = "ok")) /\ Len(plain) < total =>
              Mirrors(window, ZipFrame, 0, plain, 0)
        /\ pc = "start" => optr = oend

-----------------------------------------------------------------------------
(* Quantum: the window is all there is.                                     *)

QtmStates == [todo : Int, frameEnd : Int, split : BOOLEAN]

QtmInv ==
    method = "qtm" =>
        /\ qtm \in QtmStates
        /\ err = "ok" =>
              /\ Mirrors(window, QtmWindow, posn, plain, 0)
              /\ optr <= posn /\ Len(plain) = Len(written) + (posn - optr)
              /\ pc \notin {"symbols", "decoded"} => oend = posn
              /\ oend <= posn
              /\ pc = "wrap" => posn = QtmWindow /\ oend - optr < want
              /\ pc = "rest" => oend - optr >= want
              /\ pc = "symbols" =>
                    /\ qtm.frameEnd <= QtmWindow /\ qtm.frameEnd <= want + optr
                    /\ qtm.frameEnd <= posn + qtm.todo
              /\ damaged \/ qtm.todo >= 0

Sound == Typed /\ Accounts /\ Kept /\ LzxInv /\ LzxInFrame /\ ZipInv /\ QtmInv

\* Each of the windows has a size.
LEMMA SizeIsNat == WindowSize \in Nat /\ WindowSize > 0
<1>1. LzxWindow \in Nat /\ LzxWindow > 0
  BY LzxAssumption
<1>2. ZipFrame \in Nat /\ ZipFrame > 0
  BY ZipAssumption
<1>3. QtmWindow \in Nat /\ QtmWindow > 0
  BY QtmAssumption
<1> QED BY <1>1, <1>2, <1>3 DEF WindowSize

\* An error ends the call and says nothing of the window any more.
LEMMA FailureIsSound ==
    ASSUME Sound, err' \in {"read", "write", "decrunch"}, pc' = "idle", damaged' \in BOOLEAN,
           UNCHANGED <<method, total, asked>>,
           want' \in Nat, window' \in Windows(WindowSize), posn' \in Nat, posn' <= WindowSize,
           optr' \in Nat, oend' \in Nat, optr' <= oend', oend' <= WindowSize,
           UNCHANGED <<plain, written>>,
           method = "lzx" => lz' \in LzxStates /\ lz'.R = lz'.trueR /\ lz'.framePosn <= LzxWindow,
           method = "mszip" => zip' \in ZipStates,
           method = "qtm" => qtm' \in QtmStates
    PROVE  Sound'
<1>1. WindowSize' = WindowSize
  BY DEF WindowSize
<1>2. Typed'
  BY <1>1 DEF Sound, Typed
<1>3. Accounts'
  BY DEF Sound, Accounts
<1>4. Kept'
  BY DEF Kept
<1>5. LzxInv' /\ LzxInFrame'
  BY DEF LzxInv, LzxInFrame
<1>6. ZipInv'
  BY DEF ZipInv, AtRest
<1>7. QtmInv'
  BY DEF QtmInv
<1> QED BY <1>2, <1>3, <1>4, <1>5, <1>6, <1>7 DEF Sound

\* The beginning and the end of a call.
LEMMA BeginIsSound == Sound /\ Begin => Sound'
<1> SUFFICES ASSUME Sound, Begin PROVE Sound'
  OBVIOUS
<1>0. UNCHANGED <<method, total, window, posn, oend, plain, lz, zip, qtm>> /\ WindowSize' = WindowSize
  BY DEF Begin, Call, Flush, FlushFails, Returns, WindowSize
<1>1. ASSUME NEW n \in Requests, Call(n) PROVE Sound'
  <2>1. n \in Nat /\ UNCHANGED <<optr, err, written, damaged>>
    BY <1>1, RequestsAssumption DEF Call
  <2>2. Typed'
    BY <1>0, <1>1, <2>1 DEF Sound, Typed, Call
  <2>3. Len(written) \in Nat
    BY DEF Sound, Typed, Bytes
  <2>4. Accounts'
    BY <1>0, <1>1, <2>1, <2>3 DEF Sound, Accounts, Typed, Call, Idle
  <2>5. Kept'
    BY <1>0, <1>1, <2>1 DEF Sound, Kept, Call, Idle, AtRest
  <2>6. LzxInv' /\ LzxInFrame'
    BY <1>0, <1>1, <2>1 DEF Sound, LzxInv, LzxInFrame, WholeFrames, Framed, InFrame, Call, Idle
  <2>7. ZipInv'
    BY <1>0, <1>1, <2>1 DEF Sound, ZipInv, AtRest, Call, Idle
  <2>8. QtmInv'
    BY <1>0, <1>1, <2>1 DEF Sound, QtmInv, Call, Idle
  <2> QED BY <2>2, <2>4, <2>5, <2>6, <2>7, <2>8 DEF Sound
<1>2. CASE Flush
  <2> USE DEF Flush
  <2>0. /\ want \in Nat /\ optr \in Nat /\ oend \in Nat /\ optr <= oend
        /\ Len(written) \in Nat /\ err = "ok"
    BY <1>2 DEF Sound, Typed, Accounts, Bytes
  <2>1. /\ Len(written) \in Nat /\ Pending \in Nat /\ err = "ok"
        /\ Pending <= oend - optr /\ Pending <= want
        /\ Pending = want \/ Pending = oend - optr
    BY <2>0 DEF Pending, AtMost
  <2>10. \/ pc' = "end" /\ Pending = want
         \/ pc' = "start" /\ Pending # want /\ Pending = oend - optr
    <3> HIDE DEF Pending
    <3>1. want' = want - Pending /\ pc' = IF want' = 0 THEN "end" ELSE "start"
      BY <1>2
    <3> QED BY <2>0, <2>1, <3>1
  <2> DEFINE j == optr + Pending
             next == written \o Slice(window, optr, j)
  <2>11. /\ written \in Bytes /\ plain \in Bytes /\ Begins(written, plain)
         /\ WindowSize \in Nat /\ window \in Windows(WindowSize)
         /\ j \in Nat /\ optr <= j /\ j <= WindowSize /\ j - optr = Pending
         /\ Follows(window, optr, oend, written, plain) /\ j <= oend
    BY <1>2, <2>0, <2>1, SizeIsNat DEF Sound, Typed, Accounts, Kept, AtRest
  <2>12. written' = next /\ optr' = j
    BY <1>2
  <2>2. /\ written' \in Bytes /\ Len(written') = Len(written) + Pending
        /\ Begins(written', plain) /\ Begins(written, written')
    <3> HIDE DEF j, Pending
    <3>1. Follows(window, optr, j, written, plain)
      BY <2>0, <2>11, FollowsPart
    <3>2. /\ next \in Bytes /\ Len(next) = Len(written) + (j - optr)
          /\ Begins(next, plain) /\ Begins(written, next)
      BY <2>0, <2>11, <3>1, WriteSlice
    <3> QED BY <2>11, <2>12, <3>2
  <2>3. UNCHANGED <<asked, err, damaged>> /\ optr' = optr + Pending /\ want' = want - Pending
    BY <1>2
  <2>4. Typed'
    BY <1>0, <2>1, <2>2, <2>3 DEF Sound, Typed
  <2>5. Accounts'
    <3>1. Len(written) + want = asked
      BY <1>2 DEF Sound, Accounts
    <3> HIDE DEF Pending
    <3>2. Len(written') + want' = asked /\ Len(written') <= asked
      BY <2>0, <2>1, <2>2, <2>3, <3>1
    <3>3. pc' = "end" => want' = 0
      BY <2>0, <2>1, <2>10, <2>3
    <3>4. UNCHANGED <<asked, err, plain>>
      BY <1>0, <2>3
    <3>5. Len(written') \in Nat /\ want' \in Nat
      BY <2>0, <2>1, <2>2, <2>3
    <3> QED BY <2>0, <2>10, <2>2, <3>2, <3>3, <3>4, <3>5 DEF Accounts
  <2>6. Kept'
    <3> HIDE DEF j, Pending
    <3>1. Len(written') = Len(written) + (j - optr)
      BY <2>2, <2>11
    <3>2. Follows(window, j, oend, written', plain)
      BY <2>0, <2>2, <2>11, <3>1, FollowsPart
    <3>3. Len(plain) = Len(written') + (oend - j)
      <4>1. Len(plain) = Len(written) + (oend - optr)
        BY <1>2, <2>0 DEF Sound, Kept, AtRest
      <4> QED BY <2>0, <2>11, <3>1, <4>1
    <3> QED BY <1>0, <2>12, <3>2, <3>3 DEF Kept
  <2>7. LzxInv' /\ LzxInFrame'
    <3>1. optr \in Nat /\ oend \in Nat /\ Framed' = Framed
      BY <1>0, <2>1, <2>2, <2>3 DEF Sound, Typed, Framed
    <3> QED BY <1>0, <1>2, <2>0, <2>1, <2>10, <2>3, <3>1 DEF Sound, LzxInv, LzxInFrame, WholeFrames, InFrame
  <2>8. ZipInv'
    BY <1>0, <1>2, <2>1, <2>10, <2>3 DEF Sound, Typed, ZipInv, AtRest
  <2>9. QtmInv'
    BY <1>0, <1>2, <2>1, <2>10, <2>2, <2>3 DEF Sound, Typed, QtmInv
  <2> QED BY <2>4, <2>5, <2>6, <2>7, <2>8, <2>9 DEF Sound
<1>3. CASE FlushFails
  <2>1. /\ err' = "write" /\ pc' = "idle" /\ damaged' = TRUE
        /\ UNCHANGED <<asked, want, optr, written>>
    BY <1>3 DEF FlushFails, Fail
  <2> QED BY <1>0, <2>1, FailureIsSound DEF Sound, Typed, LzxInv, ZipInv, QtmInv
<1>4. CASE Returns
  <2>1. UNCHANGED <<want, asked, optr, err, written, damaged>> /\ pc = "end" /\ pc' = "idle"
    BY <1>4 DEF Returns
  <2>2. Typed'
    BY <1>0, <2>1 DEF Sound, Typed
  <2>3. Accounts'
    BY <1>0, <2>1 DEF Sound, Accounts
  <2>4. Kept'
    BY <1>0, <2>1 DEF Sound, Kept, AtRest
  <2>5. LzxInv' /\ LzxInFrame'
    BY <1>0, <2>1 DEF Sound, LzxInv, LzxInFrame, WholeFrames, Framed, InFrame
  <2>6. ZipInv'
    BY <1>0, <2>1 DEF Sound, ZipInv, AtRest
  <2>7. QtmInv'
    BY <1>0, <2>1 DEF Sound, QtmInv
  <2> QED BY <2>2, <2>3, <2>4, <2>5, <2>6, <2>7 DEF Sound
<1> QED BY <1>1, <1>2, <1>3, <1>4 DEF Begin

-----------------------------------------------------------------------------
(* The steps of Quantum.                                                    *)

\* Every step of Quantum keeps the invariant.
LEMMA QtmIsSound == Sound /\ QtmNext /\ UNCHANGED <<lz, zip>> => Sound'
<1> SUFFICES ASSUME Sound, QtmNext, UNCHANGED <<lz, zip>> PROVE Sound'
  OBVIOUS
<1>0. /\ method = "qtm" /\ UNCHANGED <<method, total, asked>>
      /\ WindowSize = QtmWindow /\ WindowSize' = QtmWindow /\ QtmWindow \in Nat /\ QtmWindow > 0
  <2>1. method = "qtm"
    BY DEF QtmNext, QtmDecodeMore, QtmLiteral, QtmMatch, QtmWrappingMatch, QtmRunEnds,
       QtmDecoded, QtmWindowWraps, QtmWritesRest, QtmWriteFails, QtmDamage, QtmInputEnds,
       DecodingQtm, InQtm
  <2>2. UNCHANGED <<method, total, asked>>
    BY DEF QtmNext, QtmDecodeMore, QtmLiteral, QtmMatch, QtmWrappingMatch, QtmRunEnds,
       QtmDecoded, QtmWindowWraps, QtmWritesRest, QtmWriteFails, QtmDamage, QtmInputEnds,
       Damage, InputEnds
  <2>3. QtmWindow \in Nat /\ QtmWindow > 0
    BY QtmAssumption
  <2> QED BY <2>1, <2>2, <2>3 DEF WindowSize
<1>1. /\ want \in Nat /\ asked \in Nat /\ window \in Windows(QtmWindow)
      /\ posn \in Nat /\ posn <= QtmWindow /\ optr \in Nat /\ oend \in Nat
      /\ optr <= oend /\ oend <= QtmWindow
      /\ damaged \in BOOLEAN /\ plain \in Bytes /\ written \in Bytes
      /\ Len(plain) \in Nat /\ Len(written) \in Nat
      /\ Begins(written, plain) /\ Len(written) <= asked
      /\ qtm \in QtmStates
  BY <1>0 DEF Sound, Typed, Accounts, Bytes, QtmInv
<1>2. pc # "idle" /\ pc # "end" /\ err = "ok" /\ Len(written) + want = asked
  <2>1. pc # "idle" /\ pc # "end"
    BY DEF QtmNext, QtmDecodeMore, QtmLiteral, QtmMatch, QtmWrappingMatch, QtmRunEnds,
       QtmDecoded, QtmWindowWraps, QtmWritesRest, QtmWriteFails, QtmDamage, QtmInputEnds,
       DecodingQtm, InQtm
  <2> QED BY <1>0, <2>1 DEF Sound, Accounts
<1>3. /\ Mirrors(window, QtmWindow, posn, plain, 0)
      /\ optr <= posn /\ Len(plain) = Len(written) + (posn - optr) /\ oend <= posn
      /\ pc \notin {"symbols", "decoded"} => oend = posn
      /\ pc = "symbols" => /\ qtm.frameEnd <= QtmWindow /\ qtm.frameEnd <= want + optr
                           /\ qtm.frameEnd <= posn + qtm.todo
      /\ damaged \/ qtm.todo >= 0
  BY <1>0, <1>2 DEF Sound, QtmInv
<1>4. ASSUME err' \in {"read", "write", "decrunch"}, pc' = "idle", damaged' \in BOOLEAN,
             UNCHANGED <<want, window, posn, optr, oend, plain, written>>, qtm' \in QtmStates
      PROVE  Sound'
  BY <1>0, <1>1, <1>4, FailureIsSound
<1>10. ASSUME Typed', Accounts', QtmInv' PROVE Sound'
  <2>1. Kept'
    <3> SUFFICES ASSUME AtRest', err' = "ok"
                 PROVE  /\ Len(plain') = Len(written') + (oend' - optr')
                        /\ Follows(window', optr', oend', written', plain')
      BY DEF Kept
    <3>1. pc' \notin {"symbols", "decoded"}
      BY DEF AtRest
    <3>2. /\ Mirrors(window', QtmWindow, posn', plain', 0) /\ oend' = posn'
          /\ Len(plain') = Len(written') + (posn' - optr')
      BY <1>0, <1>10, <3>1 DEF QtmInv
    <3>3. /\ posn' \in Nat /\ posn' <= QtmWindow /\ optr' \in Nat /\ optr' <= oend'
          /\ plain' \in Bytes /\ written' \in Bytes /\ 0 \in Nat
      BY <1>0, <1>10 DEF Typed
    <3> QED BY <1>0, <3>2, <3>3, MirrorsFollow
  <2>2. LzxInv' /\ LzxInFrame' /\ ZipInv'
    BY <1>0 DEF LzxInv, LzxInFrame, ZipInv
  <2> QED BY <1>10, <2>1, <2>2 DEF Sound
<1>5. CASE QtmDecodeMore
  <2>1. /\ qtm' = [qtm EXCEPT !.frameEnd = FrameEnd] /\ pc = "start" /\ pc' = "symbols"
        /\ UNCHANGED <<want, window, posn, optr, oend, err, plain, written, damaged>>
    BY <1>5 DEF QtmDecodeMore, InQtm
  <2>2. oend = posn /\ qtm.todo \in Int
    BY <1>1, <1>3, <2>1 DEF QtmStates
  <2>3. /\ FrameEnd \in Int /\ FrameEnd <= QtmWindow /\ FrameEnd <= want + optr
        /\ FrameEnd <= posn + qtm.todo
    BY <1>0, <1>1, <2>2 DEF FrameEnd, AtMost, Stored
  <2>4. qtm' \in QtmStates /\ qtm'.frameEnd = FrameEnd /\ qtm'.todo = qtm.todo
    <3> HIDE DEF FrameEnd
    <3> QED BY <1>1, <2>1, <2>3 DEF QtmStates
  <2> HIDE DEF FrameEnd
  <2>5. Typed'
    BY <1>0, <2>1 DEF Sound, Typed
  <2>6. Accounts'
    BY <1>0, <1>1, <1>2, <2>1 DEF Accounts
  <2>7. QtmInv'
    BY <1>0, <1>1, <1>3, <2>1, <2>2, <2>3, <2>4 DEF QtmInv
  <2> QED BY <1>10, <2>5, <2>6, <2>7
<1>6. CASE QtmLiteral
  <2>1. /\ pc = "symbols" /\ posn < qtm.frameEnd
        /\ window' = [window EXCEPT ![posn] = NextLiteral] /\ plain' = Append(plain, NextLiteral)
        /\ posn' = posn + 1 /\ qtm' = [qtm EXCEPT !.todo = @ - 1]
        /\ UNCHANGED <<pc, want, optr, oend, err, written, damaged>>
    BY <1>6 DEF QtmLiteral, DecodingQtm, InQtm
  <2>2. NextLiteral \in Int /\ qtm.frameEnd \in Int /\ qtm.todo \in Int
    BY <1>1 DEF NextLiteral, QtmStates
  <2>3. /\ qtm' \in QtmStates /\ qtm'.frameEnd = qtm.frameEnd /\ qtm'.todo = qtm.todo - 1
        /\ qtm.todo >= 1 /\ posn < QtmWindow
    <3>1. qtm.todo >= 1 /\ posn < QtmWindow
      <4>1. /\ qtm.frameEnd <= QtmWindow /\ qtm.frameEnd <= posn + qtm.todo
            /\ posn < qtm.frameEnd
        BY <1>3, <2>1
      <4>2. posn \in Nat /\ QtmWindow \in Nat /\ qtm.frameEnd \in Int /\ qtm.todo \in Int
        BY <1>0, <1>1, <2>2
      <4> QED BY <4>1, <4>2
    <3> HIDE DEF NextLiteral
    <3> QED BY <1>1, <2>1, <3>1 DEF QtmStates
  <2>4. /\ plain' \in Bytes /\ Len(plain') = Len(plain) + 1 /\ Begins(plain, plain')
    BY <1>1, <2>1, <2>2, AppendBegins
  <2>5. Begins(written, plain')
    BY <1>1, <2>4, BeginsTransitive
  <2>6. window' \in Windows(QtmWindow) /\ Mirrors(window', QtmWindow, posn', plain', 0)
    <3>1. 0 \in Nat
      OBVIOUS
    <3> HIDE DEF NextLiteral
    <3> QED BY <1>0, <1>1, <1>3, <2>1, <2>2, <2>3, <3>1, PutMirrors
  <2>7. Typed'
    BY <1>0, <1>1, <2>1, <2>3, <2>4, <2>6 DEF Sound, Typed
  <2>8. Accounts'
    BY <1>0, <1>1, <1>2, <2>1, <2>5 DEF Accounts
  <2>9. QtmInv'
    <3>1. qtm'.todo >= 0 /\ qtm'.frameEnd <= posn' + qtm'.todo
      <4>1. qtm.frameEnd <= posn + qtm.todo /\ qtm.todo >= 1 /\ posn' = posn + 1
        BY <1>3, <2>1, <2>3
      <4>2. qtm'.frameEnd = qtm.frameEnd /\ qtm'.todo = qtm.todo - 1
        BY <2>3
      <4>3. posn \in Nat /\ qtm.frameEnd \in Int /\ qtm.todo \in Int
        BY <1>1, <2>2
      <4> QED BY <4>1, <4>2, <4>3
    <3>2. optr' <= posn' /\ Len(plain') = Len(written') + (posn' - optr') /\ oend' <= posn'
      BY <1>1, <1>3, <2>1, <2>4
    <3>3. qtm'.frameEnd <= QtmWindow /\ qtm'.frameEnd <= want' + optr'
      BY <1>3, <2>1, <2>3
    <3> QED BY <1>0, <2>1, <2>3, <2>6, <3>1, <3>2, <3>3 DEF QtmInv
  <2> QED BY <1>10, <2>7, <2>8, <2>9
<1>7. ASSUME NEW off \in QtmOffsets, NEW len \in QtmLengths, QtmMatch(off, len) PROVE Sound'
  <2>0. off \in 1 .. QtmWindow /\ len \in Nat /\ len > 0
    BY QtmAssumption
  <2>1. /\ pc = "symbols" /\ posn < qtm.frameEnd /\ posn + len <= QtmWindow
        /\ damaged' = (damaged \/ BadMatch(off, len))
        /\ UNCHANGED <<want, optr, oend, written>>
    BY <1>7 DEF QtmMatch, DecodingQtm, InQtm
  <2>2. damaged' \in BOOLEAN
    BY <2>1
  <2>3. CASE off > posn /\ off - posn > QtmWindow
    BY <1>0, <1>1, <2>0, <2>3
  <2>4. CASE ~(off > posn /\ off - posn > QtmWindow)
    <3>1. /\ window' = CopyMatch(window, QtmWindow, posn, off, len)
          /\ plain' = WithCopy(plain, off, len, 0)
          /\ posn' = posn + len /\ qtm' = [qtm EXCEPT !.todo = @ - len]
          /\ UNCHANGED <<err, pc>>
      BY <1>7, <2>4 DEF QtmMatch
    <3>2. qtm.frameEnd \in Int /\ qtm.todo \in Int
      BY <1>1 DEF QtmStates
    <3>3. qtm' \in QtmStates /\ qtm'.frameEnd = qtm.frameEnd /\ qtm'.todo = qtm.todo - len
      <4> DEFINE todo == qtm.todo - len
      <4>1. todo \in Int /\ qtm' = [qtm EXCEPT !.todo = todo]
        BY <2>0, <3>1, <3>2
      <4> HIDE DEF todo
      <4>2. qtm' \in QtmStates /\ qtm'.frameEnd = qtm.frameEnd /\ qtm'.todo = todo
        BY <1>1, <4>1 DEF QtmStates
      <4> QED BY <4>2 DEF todo
    <3>4. /\ window' \in Windows(QtmWindow) /\ plain' \in Bytes
          /\ Len(plain') = Len(plain) + len /\ Begins(plain, plain')
          /\ Mirrors(window', QtmWindow, posn', plain', 0)
      <4>1. 0 \in Nat
        OBVIOUS
      <4>2. /\ CopyMatch(window, QtmWindow, posn, off, len) \in Windows(QtmWindow)
            /\ WithCopy(plain, off, len, 0) \in Bytes
            /\ Len(WithCopy(plain, off, len, 0)) = Len(plain) + len
            /\ Begins(plain, WithCopy(plain, off, len, 0))
            /\ Mirrors(CopyMatch(window, QtmWindow, posn, off, len), QtmWindow, posn + len,
                       WithCopy(plain, off, len, 0), 0)
        <5>1. /\ QtmWindow \in Nat /\ window \in Windows(QtmWindow) /\ posn \in Nat
              /\ len \in Nat /\ posn + len <= QtmWindow /\ off \in 1 .. QtmWindow
              /\ plain \in Bytes /\ Mirrors(window, QtmWindow, posn, plain, 0)
          BY <1>0, <1>1, <1>3, <2>0, <2>1
        <5> QED BY <4>1, <5>1, MatchMirrors
      <4> QED BY <3>1, <4>2
    <3>5. Begins(written, plain')
      BY <1>1, <3>4, BeginsTransitive
    <3>6. Typed'
      BY <1>0, <1>1, <2>0, <2>1, <2>2, <3>1, <3>4 DEF Sound, Typed
    <3>7. Accounts'
      BY <1>0, <1>1, <1>2, <2>1, <3>1, <3>5 DEF Accounts
    <3>8. QtmInv'
      <4>1. qtm'.frameEnd <= posn' + qtm'.todo
        BY <1>1, <1>3, <2>0, <2>1, <3>1, <3>2, <3>3
      <4>2. optr' <= posn' /\ Len(plain') = Len(written') + (posn' - optr') /\ oend' <= posn'
        BY <1>1, <1>3, <2>0, <2>1, <3>1, <3>4
      <4>3. qtm'.frameEnd <= QtmWindow /\ qtm'.frameEnd <= want' + optr'
        BY <1>3, <2>1, <3>3
      <4>4. damaged' \/ qtm'.todo >= 0
        <5>1. CASE len > qtm.todo
          BY <2>1, <5>1 DEF BadMatch
        <5>2. CASE len <= qtm.todo
          BY <2>0, <3>2, <3>3, <5>2
        <5> QED BY <2>0, <3>2, <5>1, <5>2
      <4> QED BY <1>0, <2>1, <3>1, <3>3, <3>4, <4>1, <4>2, <4>3, <4>4 DEF QtmInv
    <3> QED BY <1>10, <3>6, <3>7, <3>8
  <2> QED BY <2>3, <2>4
<1>8. ASSUME NEW off \in QtmOffsets, NEW len \in QtmLengths, QtmWrappingMatch(off, len) PROVE Sound'
  <2>0. off \in 1 .. QtmWindow /\ len \in Nat /\ len > 0 /\ len <= QtmWindow
    BY QtmAssumption
  <2> DEFINE first == CopyAround(window, posn, posn - off, Room)
             n == QtmWindow - optr
             second == CopyAround(first, 0, SecondPart(off), len - Room)
             half == WithCopy(plain, off, Room, 0)
  <2>1. /\ pc = "symbols" /\ posn + len > QtmWindow
        /\ damaged' = (damaged \/ BadMatch(off, len))
    BY <1>8 DEF QtmWrappingMatch, DecodingQtm, InQtm
  <2>2. damaged' \in BOOLEAN
    BY <2>1
  <2>3. CASE n > want
    <3>1. /\ err' = "decrunch" /\ pc' = "idle" /\ qtm' = [qtm EXCEPT !.split = ~damaged']
          /\ UNCHANGED <<want, window, posn, optr, oend, plain, written>>
      BY <1>8, <2>3 DEF QtmWrappingMatch, Fail
    <3>2. qtm' \in QtmStates
      BY <1>1, <3>1 DEF QtmStates
    <3> QED BY <1>4, <2>2, <3>1, <3>2
  <2>4. CASE n <= want
    <3>1. /\ written' = written \o Slice(first, optr, QtmWindow) /\ want' = want - n
          /\ window' = second /\ plain' = WithCopy(plain, off, len, 0)
          /\ optr' = 0 /\ oend' = 0 /\ posn' = posn + len - QtmWindow
          /\ qtm' = [qtm EXCEPT !.todo = @ - len] /\ pc' = "decoded" /\ UNCHANGED err
      <4>1. ~(n > want)
        BY <1>0, <1>1, <2>4
      <4> QED BY <1>8, <4>1 DEF QtmWrappingMatch
    <3> DEFINE rest == len - Room
               again == SecondPart(off)
               from == posn - off
    <3>2. /\ Room \in Nat /\ posn + Room <= QtmWindow /\ posn + Room = QtmWindow
          /\ rest \in Nat /\ 0 + rest <= QtmWindow /\ Room + rest = len
          /\ n \in Nat /\ 0 \in Nat /\ QtmWindow \in Nat /\ optr <= QtmWindow
      BY <1>0, <1>1, <1>3, <2>0, <2>1 DEF Room
    <3>18. /\ again \in Int /\ (again = 0 - off \/ again = 0 - off + QtmWindow)
           /\ from \in Int /\ (from = posn - off \/ from = posn - off + QtmWindow)
      BY <1>0, <1>1, <2>0 DEF Room, SecondPart
    <3>19. posn' = rest /\ 0 + rest = rest
      BY <1>0, <1>1, <2>0, <3>1 DEF Room
    <3>20. /\ first = CopyAround(window, posn, from, Room) /\ half = WithCopy(plain, off, Room, 0)
           /\ second = CopyAround(first, 0, again, rest)
      OBVIOUS
    <3> HIDE DEF Room, rest, again, from, first, second, half
    <3>3. /\ first \in Windows(QtmWindow) /\ half \in Bytes
          /\ Len(half) = Len(plain) + Room /\ Begins(plain, half)
          /\ Mirrors(first, QtmWindow, posn + Room, half, 0)
      <4>1. /\ window \in Windows(QtmWindow) /\ posn \in Nat /\ off \in 1 .. QtmWindow
            /\ plain \in Bytes /\ Mirrors(window, QtmWindow, posn, plain, 0)
        BY <1>1, <1>3, <2>0
      <4> QED BY <3>2, <3>18, <3>20, <4>1, AroundMirrors
    <3>4. Mirrors(first, QtmWindow, QtmWindow, half, 0) /\ Mirrors(first, QtmWindow, 0, half, 0)
      BY <1>0, <3>2, <3>3, WrapMirrors
    <3>5. /\ second \in Windows(QtmWindow) /\ WithCopy(half, off, rest, 0) \in Bytes
          /\ Len(WithCopy(half, off, rest, 0)) = Len(half) + rest
          /\ Begins(half, WithCopy(half, off, rest, 0))
          /\ Mirrors(second, QtmWindow, 0 + rest, WithCopy(half, off, rest, 0), 0)
      <4>1. /\ first \in Windows(QtmWindow) /\ half \in Bytes /\ off \in 1 .. QtmWindow
            /\ Mirrors(first, QtmWindow, 0, half, 0)
        BY <2>0, <3>3, <3>4
      <4> QED BY <3>2, <3>18, <3>20, <4>1, AroundMirrors
    <3>6. plain' = WithCopy(half, off, rest, 0)
      <4>1. off \in Nat \ {0}
        BY <2>0
      <4>2. WithCopy(half, off, rest, 0) = WithCopy(plain, off, Room + rest, 0)
        BY <1>1, <3>2, <3>3, <3>20, <4>1, WithCopyTwice
      <4> QED BY <3>1, <3>2, <4>2
    <3>7. /\ plain' \in Bytes /\ Len(plain') = Len(half) + rest
          /\ Begins(half, plain') /\ Mirrors(second, QtmWindow, posn', plain', 0)
      BY <3>5, <3>6, <3>19
    <3>8. Begins(written, half)
      BY <1>1, <3>3, BeginsTransitive
    <3>9. /\ Len(half) = Len(written) + (QtmWindow - optr) /\ optr <= QtmWindow
      BY <1>0, <1>1, <1>3, <3>2, <3>3
    <3>10. Follows(first, optr, QtmWindow, written, half)
      BY <1>0, <1>1, <3>2, <3>3, <3>4, <3>9, MirrorsFollow
    <3> DEFINE next == written \o Slice(first, optr, QtmWindow)
    <3>11. /\ written' \in Bytes /\ Len(written') = Len(written) + n /\ Begins(written', half)
      <4>1. /\ next \in Bytes /\ Len(next) = Len(written) + (QtmWindow - optr) /\ Begins(next, half)
        BY <1>1, <3>2, <3>3, <3>8, <3>10, WriteSlice
      <4> HIDE DEF next
      <4>2. written' = next
        BY <3>1 DEF next
      <4> QED BY <4>1, <4>2
    <3>12. Begins(written', plain')
      BY <3>3, <3>7, <3>11, BeginsTransitive
    <3>21. /\ qtm' = [qtm EXCEPT !.todo = @ - len] /\ want' = want - n
           /\ optr' = 0 /\ oend' = 0 /\ pc' = "decoded" /\ UNCHANGED err /\ window' = second
      BY <3>1
    <3> HIDE DEF n, next
    <3>13. Len(written') + want' = asked /\ want' \in Nat /\ Len(written') <= asked
      BY <1>1, <1>2, <2>4, <3>2, <3>11, <3>21
    <3>14. qtm' \in QtmStates /\ qtm.todo \in Int /\ qtm'.todo = qtm.todo - len
      BY <1>1, <2>0, <3>21 DEF QtmStates
    <3>15. Typed'
      BY <1>0, <1>1, <2>2, <3>2, <3>5, <3>7, <3>11, <3>13, <3>19, <3>21 DEF Sound, Typed
    <3>16. Accounts'
      BY <1>0, <1>1, <1>2, <3>12, <3>13, <3>21 DEF Accounts
    <3>17. QtmInv'
      <4>1. optr' <= posn' /\ oend' <= posn'
        BY <3>2, <3>19, <3>21
      <4>2. Len(plain') = Len(written') + (posn' - optr')
        BY <1>1, <3>2, <3>7, <3>9, <3>11, <3>19, <3>21 DEF n
      <4>4. damaged' \/ qtm'.todo >= 0
        <5>1. CASE len > qtm.todo
          BY <2>1, <5>1 DEF BadMatch
        <5>2. CASE len <= qtm.todo
          BY <2>0, <3>14, <5>2
        <5> QED BY <2>0, <3>14, <5>1, <5>2
      <4> QED BY <1>0, <3>7, <3>14, <3>21, <4>1, <4>2, <4>4 DEF QtmInv
    <3> QED BY <1>10, <3>15, <3>16, <3>17
  <2> QED BY <1>0, <1>1, <2>3, <2>4
<1>9. CASE QtmRunEnds
  <2>1. /\ pc = "symbols" /\ pc' = "decoded"
        /\ UNCHANGED <<want, window, posn, optr, oend, err, plain, written, damaged, qtm>>
    BY <1>9 DEF QtmRunEnds, InQtm
  <2>2. Typed'
    BY <1>0, <2>1 DEF Sound, Typed
  <2>3. Accounts'
    BY <1>0, <1>1, <1>2, <2>1 DEF Accounts
  <2>4. QtmInv'
    BY <1>0, <1>1, <1>3, <2>1 DEF QtmInv
  <2> QED BY <1>10, <2>2, <2>3, <2>4
<1>11. CASE QtmDecoded
  <2>1. /\ pc = "decoded" /\ oend' = posn
        /\ UNCHANGED <<want, posn, optr, written, window, plain, damaged>>
    BY <1>11 DEF QtmDecoded, InQtm
  <2>2. CASE Overshot
    <3>1. err' = "decrunch" /\ pc' = "idle" /\ UNCHANGED qtm
      BY <1>11, <2>2 DEF QtmDecoded, Fail
    <3> QED BY <1>0, <1>1, <1>3, <2>1, <3>1, FailureIsSound
  <2>3. CASE ~Overshot
    <3>1. /\ qtm' = [qtm EXCEPT !.todo = IF @ = 0 THEN QtmFrame ELSE @] /\ UNCHANGED err
          /\ pc' = IF posn # QtmWindow THEN "start"
                   ELSE IF FlushAtWrap(posn - optr) THEN "wrap" ELSE "rest"
      BY <1>11, <2>3 DEF QtmDecoded
    <3>2. QtmFrame \in Nat
      BY QtmAssumption
    <3>3. qtm' \in QtmStates /\ qtm.todo \in Int /\ (qtm'.todo = qtm.todo \/ qtm'.todo = QtmFrame)
      BY <1>1, <3>1, <3>2 DEF QtmStates
    <3>4. \/ pc' = "start"
          \/ pc' = "wrap" /\ posn = QtmWindow /\ posn - optr < want
          \/ pc' = "rest" /\ posn - optr >= want
      BY <1>1, <1>3, <3>1 DEF FlushAtWrap
    <3>5. Typed'
      BY <1>0, <1>1, <1>3, <2>1, <3>1 DEF Sound, Typed
    <3>6. Accounts'
      BY <1>0, <1>1, <1>2, <2>1, <3>1, <3>4 DEF Accounts
    <3>7. damaged' \/ qtm'.todo >= 0
      BY <1>3, <2>1, <3>2, <3>3
    <3>8. QtmInv'
      BY <1>0, <1>1, <1>3, <2>1, <3>1, <3>3, <3>4, <3>7 DEF QtmInv
    <3> QED BY <1>10, <3>5, <3>6, <3>8
  <2> QED BY <2>2, <2>3
<1>12. CASE QtmWindowWraps
  <2>1. /\ pc = "wrap" /\ written' = written \o Slice(window, optr, oend)
        /\ want' = want - (oend - optr) /\ optr' = 0 /\ oend' = 0 /\ posn' = 0 /\ pc' = "start"
        /\ UNCHANGED <<window, err, plain, damaged, qtm>>
    BY <1>12 DEF QtmWindowWraps, InQtm, Stored
  <2>2. posn = QtmWindow /\ oend = posn /\ oend - optr < want /\ oend - optr \in Nat
    BY <1>0, <1>1, <1>2, <1>3, <2>1 DEF Sound, QtmInv
  <2>3. Follows(window, optr, posn, written, plain)
    BY <1>0, <1>1, <1>3, MirrorsFollow
  <2>4. /\ written' \in Bytes /\ Len(written') = Len(written) + (oend - optr)
        /\ Begins(written', plain)
    <3> DEFINE next == written \o Slice(window, optr, oend)
    <3>1. /\ next \in Bytes /\ Len(next) = Len(written) + (oend - optr) /\ Begins(next, plain)
      BY <1>0, <1>1, <2>2, <2>3, WriteSlice
    <3> HIDE DEF next
    <3>2. written' = next
      BY <2>1 DEF next
    <3> QED BY <3>1, <3>2
  <2>5. Mirrors(window, QtmWindow, 0, plain, 0)
    BY <1>0, <1>3, <2>2, WrapMirrors
  <2>6. Len(written') + want' = asked /\ want' \in Nat /\ Len(written') <= asked
    BY <1>1, <1>2, <2>1, <2>2, <2>4
  <2>7. Typed'
    BY <1>0, <1>1, <2>1, <2>4, <2>6 DEF Sound, Typed
  <2>8. Accounts'
    BY <1>0, <1>1, <1>2, <2>1, <2>4, <2>6 DEF Accounts
  <2>9. QtmInv'
    <3>1. Len(plain') = Len(written') + (posn' - optr')
      BY <1>1, <1>3, <2>1, <2>2, <2>4
    <3> QED BY <1>0, <1>1, <1>3, <2>1, <2>5, <3>1 DEF QtmInv
  <2> QED BY <1>10, <2>7, <2>8, <2>9
<1>13. CASE QtmWritesRest
  <2>1. /\ pc = "rest" \/ (pc = "start" /\ oend - optr >= want)
        /\ written' = written \o Slice(window, optr, optr + want)
        /\ optr' = optr + want /\ want' = 0 /\ pc' = "end"
        /\ UNCHANGED <<window, posn, oend, err, plain, damaged, qtm>>
    BY <1>13 DEF QtmWritesRest, InQtm, Stored
  <2>2. oend = posn /\ oend - optr >= want
    BY <1>0, <1>2, <1>3, <2>1 DEF Sound, QtmInv
  <2> DEFINE j == optr + want
  <2>3. j \in Nat /\ optr <= j /\ j <= posn /\ j <= QtmWindow /\ j - optr = want
    BY <1>0, <1>1, <2>2
  <2>4. Follows(window, optr, posn, written, plain)
    BY <1>0, <1>1, <1>3, MirrorsFollow
  <2>11. written' = written \o Slice(window, optr, j) /\ optr' = j
    BY <2>1
  <2>12. UNCHANGED <<posn, plain>>
    BY <2>1
  <2> HIDE DEF j
  <2>5. Follows(window, optr, j, written, plain)
    BY <1>1, <2>3, <2>4, FollowsPart
  <2>6. /\ written' \in Bytes /\ Len(written') = Len(written) + (j - optr)
        /\ Begins(written', plain)
    BY <1>0, <1>1, <2>3, <2>5, <2>11, WriteSlice
  <2>7. Len(written') = asked
    BY <1>1, <1>2, <2>3, <2>6
  <2>8. Typed'
    BY <1>0, <1>1, <2>1, <2>2, <2>3, <2>6, <2>11 DEF Sound, Typed
  <2>9. Accounts'
    BY <1>0, <1>1, <1>2, <2>1, <2>6, <2>7 DEF Accounts
  <2>10. QtmInv'
    <3>1. optr' <= posn' /\ Len(plain') = Len(written') + (posn' - optr')
      BY <1>1, <1>3, <2>3, <2>6, <2>11, <2>12
    <3> QED BY <1>0, <1>1, <1>3, <2>1, <2>2, <3>1 DEF QtmInv
  <2> QED BY <1>10, <2>8, <2>9, <2>10
<1>14. CASE QtmWriteFails
  <2>1. /\ err' = "write" /\ pc' = "idle" /\ damaged' = TRUE
        /\ UNCHANGED <<want, window, posn, optr, oend, plain, written, qtm>>
    BY <1>14 DEF QtmWriteFails, Fail
  <2> QED BY <1>1, <1>4, <2>1
<1>15. CASE QtmDamage
  <2>1. /\ err' \in {"read", "decrunch"} /\ pc' = "idle" /\ damaged' = TRUE
        /\ UNCHANGED <<want, window, posn, optr, oend, plain, written, qtm>>
    BY <1>15 DEF QtmDamage, Damage
  <2> QED BY <1>1, <1>4, <2>1
<1>16. CASE QtmInputEnds
  <2>1. /\ err' = "read" /\ pc' = "idle" /\ damaged' = damaged
        /\ UNCHANGED <<want, window, posn, optr, oend, plain, written, qtm>>
    BY <1>16 DEF QtmInputEnds, InputEnds, Fail
  <2> QED BY <1>1, <1>4, <2>1
<1> QED
  BY <1>5, <1>6, <1>7, <1>8, <1>9, <1>11, <1>12, <1>13, <1>14, <1>15, <1>16 DEF QtmNext
-----------------------------------------------------------------------------
(* The steps of MSZIP.                                                      *)

\* What inflate has of a frame: the window, the place of the next byte, what
\* flush_window has counted, and whether it goes on.
Inflations == [w : Windows(ZipFrame), p : Int, out : Int, ok : BOOLEAN]

\* The bytes t are decoded, and the window has as many of them as it can hold.
Inflated(x, t) ==
    /\ x.ok /\ x.p \in Nat /\ x.p < ZipFrame /\ x.out \in {0, ZipFrame}
    /\ t \in Bytes /\ Begins(plain, t) /\ Len(t) = Len(written) + x.out + x.p
    /\ Mirrors(x.w, ZipFrame, x.p, t, 0)

\* A byte is put into the window, and the frame may be full after it.
LEMMA PutInflates ==
    ASSUME NEW x \in Inflations, NEW b \in Int, plain \in Bytes, written \in Bytes
    PROVE  /\ Put(x, b) \in Inflations
           /\ Put(x, b).ok => x.ok
           /\ \A t : Inflated(x, t) /\ Put(x, b).ok =>
                 Inflated(Put(x, b), Append(t, b))
<1> DEFINE v == [x.w EXCEPT ![x.p] = b]
<1>0. ZipFrame \in Nat /\ ZipFrame > 0
  BY ZipAssumption
<1>1. v \in Windows(ZipFrame) /\ x.p \in Int /\ x.out \in Int /\ x.ok \in BOOLEAN
  BY DEF Inflations, Windows
<1> HIDE DEF v
<1>2. Put(x, b) = IF ~x.ok THEN x
                  ELSE [w |-> v,
                        p |-> IF x.p + 1 = ZipFrame /\ x.out = 0 THEN 0 ELSE x.p + 1,
                        out |-> IF x.p + 1 = ZipFrame THEN x.out + ZipFrame ELSE x.out,
                        ok |-> x.p + 1 = ZipFrame => x.out = 0]
  BY DEF Put, v
<1>3. Put(x, b) \in Inflations
  BY <1>0, <1>1, <1>2 DEF Inflations
<1>4. Put(x, b).ok => x.ok
  BY <1>1, <1>2
<1>5. ASSUME NEW t, Inflated(x, t), Put(x, b).ok
      PROVE  Inflated(Put(x, b), Append(t, b))
  <2> DEFINE y == Put(x, b)
             u == Append(t, b)
  <2>1. /\ x.ok /\ x.p \in Nat /\ x.p < ZipFrame /\ x.out \in {0, ZipFrame}
        /\ t \in Bytes /\ Begins(plain, t) /\ Len(t) = Len(written) + x.out + x.p
        /\ Mirrors(x.w, ZipFrame, x.p, t, 0) /\ x.w \in Windows(ZipFrame) /\ 0 \in Nat
    BY <1>5 DEF Inflated, Inflations
  <2>2. /\ y.w = v /\ y.ok
        /\ \/ x.p + 1 # ZipFrame /\ y.p = x.p + 1 /\ y.out = x.out
           \/ x.p + 1 = ZipFrame /\ x.out = 0 /\ y.p = 0 /\ y.out = ZipFrame
    <3> DEFINE full == x.p + 1 = ZipFrame
               next == IF full /\ x.out = 0 THEN 0 ELSE x.p + 1
               out == IF full THEN x.out + ZipFrame ELSE x.out
    <3>1. y = [w |-> v, p |-> next, out |-> out, ok |-> full => x.out = 0]
      BY <1>2, <2>1
    <3>2. next = IF full /\ x.out = 0 THEN 0 ELSE x.p + 1
      OBVIOUS
    <3>3. out = IF full THEN x.out + ZipFrame ELSE x.out
      OBVIOUS
    <3>4. full \in BOOLEAN /\ (full <=> x.p + 1 = ZipFrame)
      OBVIOUS
    <3> HIDE DEF full, next, out, y
    <3>5. y.w = v /\ y.p = next /\ y.out = out /\ y.ok = (full => x.out = 0)
      BY <3>1
    <3>6. y.ok /\ (full => x.out = 0)
      BY <1>5, <3>5 DEF y
    <3>7. CASE full
      BY <1>0, <2>1, <3>2, <3>3, <3>4, <3>5, <3>6, <3>7
    <3>8. CASE ~full
      BY <3>2, <3>3, <3>4, <3>5, <3>6, <3>8
    <3> QED BY <3>7, <3>8
  <2>3. u \in Bytes /\ Begins(t, u) /\ Len(u) = Len(t) + 1
    BY <2>1, AppendBegins
  <2>4. Begins(plain, u)
    BY <1>5, <2>1, <2>3, BeginsTransitive
  <2>5. Mirrors(v, ZipFrame, x.p + 1, u, 0)
    BY <1>0, <2>1, PutMirrors DEF v
  <2> HIDE DEF y, u
  <2>6. Len(written) \in Nat
    BY <1>5 DEF Bytes
  <2>7. CASE x.p + 1 # ZipFrame /\ y.p = x.p + 1 /\ y.out = x.out
    <3>1. /\ y.p \in Nat /\ y.p < ZipFrame /\ y.out \in {0, ZipFrame}
          /\ Len(u) = Len(written) + y.out + y.p
      <4>1. /\ x.p \in Nat /\ x.p < ZipFrame /\ x.out \in {0, ZipFrame}
            /\ Len(t) = Len(written) + x.out + x.p /\ x.out \in Nat
        BY <1>0, <2>1
      <4>2. y.p = x.p + 1 /\ y.p # ZipFrame /\ y.out = x.out /\ Len(u) = Len(t) + 1
        BY <2>3, <2>7
      <4>3. y.p \in Nat /\ y.p < ZipFrame
        BY <1>0, <4>1, <4>2
      <4>4. Len(u) = Len(written) + y.out + y.p
        BY <2>6, <4>1, <4>2
      <4> QED BY <4>1, <4>2, <4>3, <4>4
    <3>2. Mirrors(y.w, ZipFrame, y.p, u, 0)
      BY <2>2, <2>5, <2>7
    <3>3. Inflated(y, u)
      BY <2>2, <2>3, <2>4, <3>1, <3>2 DEF Inflated
    <3> QED BY <3>3 DEF y, u
  <2>8. CASE x.p + 1 = ZipFrame /\ x.out = 0 /\ y.p = 0 /\ y.out = ZipFrame
    <3>1. Mirrors(v, ZipFrame, 0, u, 0)
      BY <1>0, <2>5, <2>8, WrapMirrors
    <3>2. Len(u) = Len(written) + y.out + y.p
      BY <1>0, <2>1, <2>3, <2>6, <2>8
    <3>3. Inflated(y, u)
      BY <1>0, <2>2, <2>3, <2>4, <2>8, <3>1, <3>2 DEF Inflated
    <3> QED BY <3>3 DEF y, u
  <2> QED BY <2>2, <2>7, <2>8
<1> QED BY <1>3, <1>4, <1>5

\* f is what CopyZip computes, step by step.
InflateCopy(f, x, distance, len) ==
    /\ f[0] = x
    /\ \A n \in 1 .. len :
          f[n] = Put(f[n - 1], f[n - 1].w[(MatchPosn(x.p, distance) + n - 1) % ZipFrame])
    /\ \A n \in 0 .. len : f[n] \in Inflations
    /\ CopyZip(x, distance, len) = f[len]

\* CopyZip is well defined.
LEMMA CopyZipIs ==
    ASSUME NEW x \in Inflations, NEW distance \in 1 .. ZipFrame, NEW len \in Nat,
           plain \in Bytes, written \in Bytes
    PROVE  \E f : InflateCopy(f, x, distance, len)
<1> DEFINE from == MatchPosn(x.p, distance)
           src(n) == (from + n - 1) % ZipFrame
           put(s, n) == Put(s, s.w[src(n)])
           step == [n \in Nat |-> [s \in Inflations |-> IF n \in 1 .. len THEN put(s, n) ELSE s]]
           body(f, n) == IF n = 0 THEN x ELSE put(f[n - 1], n)
           copied == CHOOSE f : f = [n \in 0 .. len |-> body(f, n)]
<1>0. ZipFrame \in Nat \ {0}
  BY ZipAssumption
<1>1. from \in Int
  <2>1. x.p \in Int
    BY DEF Inflations
  <2> QED BY <1>0, <2>1 DEF MatchPosn
<1> HIDE DEF from
<1>2. ASSUME NEW n \in 1 .. len, NEW s \in Inflations PROVE put(s, n) \in Inflations
  <2>1. src(n) \in 0 .. ZipFrame - 1
    BY <1>0, <1>1
  <2> HIDE DEF src
  <2>2. s.w[src(n)] \in Int
    BY <2>1 DEF Inflations, Windows
  <2> QED BY <2>2, PutInflates
<1> HIDE DEF put
<1>3. step \in [Nat -> [Inflations -> Inflations]]
  BY <1>2
<1>4. Iterates(Inflations, x, step, len) # {}
  <2> HIDE DEF step
  <2> QED BY <1>3, IterateExists
<1>5. PICK g \in [0 .. len -> Inflations] : g[0] = x /\ \A n \in 1 .. len : g[n] = step[n][g[n - 1]]
  BY <1>4 DEF Iterates
<1>6. g = [n \in 0 .. len |-> body(g, n)]
  <2>1. \A n \in 1 .. len : g[n - 1] \in Inflations /\ n \in Nat
    BY <1>5
  <2>2. \A n \in 1 .. len : g[n] = put(g[n - 1], n)
    BY <1>5, <2>1
  <2>3. \A n \in 0 .. len : g[n] = body(g, n)
    <3> HIDE DEF step
    <3> QED BY <1>5, <2>2
  <2> HIDE DEF body
  <2> QED BY <1>5, <2>3
<1>7. copied = [n \in 0 .. len |-> body(copied, n)]
  <2> HIDE DEF body
  <2> QED BY <1>6
<1>8. CopyZip(x, distance, len) = copied[len]
  BY DEF CopyZip, put, src, from
<1> HIDE DEF copied, step
<1>9. \A n \in 0 .. len : copied[n] = body(copied, n)
  <2> HIDE DEF body
  <2> QED BY <1>7
<1>10. copied[0] = x /\ \A n \in 1 .. len : copied[n] = put(copied[n - 1], n)
  BY <1>9
<1> HIDE DEF body
<1>11. \A n \in 0 .. len : copied[n] \in Inflations
  <2> DEFINE S == {n \in Nat : n <= len => copied[n] \in Inflations}
  <2>1. 0 \in S
    BY <1>10
  <2>2. ASSUME NEW n \in Nat, n \in S PROVE n + 1 \in S
    <3> SUFFICES ASSUME n + 1 <= len PROVE copied[n + 1] \in Inflations
      OBVIOUS
    <3>1. n + 1 \in 1 .. len /\ (n + 1) - 1 = n /\ copied[n] \in Inflations
      BY <2>2
    <3> QED BY <1>2, <1>10, <3>1
  <2>3. \A n \in Nat : n \in S
    <3> HIDE DEF S
    <3> QED BY <2>1, <2>2, Induct
  <2> QED BY <2>3
<1>12. InflateCopy(copied, x, distance, len)
  BY <1>8, <1>10, <1>11 DEF InflateCopy, put, src, from
<1> QED BY <1>12

\* Where the next byte of a copy is taken from, also after the window has gone round.
LEMMA CopySource ==
    ASSUME NEW p \in Nat, NEW q \in Nat, NEW n \in Nat, p < ZipFrame, q < ZipFrame,
           NEW distance \in 1 .. ZipFrame, q = p + n \/ q = p + n - ZipFrame
    PROVE  (MatchPosn(p, distance) + n) % ZipFrame = Source(ZipFrame, q, distance, 0)
<1> DEFINE x == MatchPosn(p, distance) + n
           r == Source(ZipFrame, q, distance, 0)
<1>0. ZipFrame \in Nat \ {0}
  BY ZipAssumption
<1>1. r \in 0 .. ZipFrame - 1 /\ (r = q - distance \/ r = q - distance + ZipFrame)
  BY <1>0 DEF Source
<1>2. x \in Nat /\ (x = r \/ x = ZipFrame + r \/ x = ZipFrame + ZipFrame + r)
  BY <1>0, <1>1 DEF MatchPosn, Source
<1> HIDE DEF x, r
<1>3. /\ 0 \in Nat /\ 1 \in Nat /\ 2 \in Nat
      /\ x = ZipFrame * 0 + r \/ x = ZipFrame * 1 + r \/ x = ZipFrame * 2 + r
  BY <1>0, <1>1, <1>2
<1>4. /\ (ZipFrame * 0 + r) % ZipFrame = r
      /\ (ZipFrame * 1 + r) % ZipFrame = r
      /\ (ZipFrame * 2 + r) % ZipFrame = r
  BY <1>0, <1>1, DivUnique
<1>5. x % ZipFrame = r
  BY <1>3, <1>4
<1> QED BY <1>5 DEF x, r

\* A match of MSZIP in the window is a copy in the stream, if it ends in its frame.
LEMMA CopyInflates ==
    ASSUME plain \in Bytes, written \in Bytes, NEW x \in Inflations, Inflated(x, plain),
           NEW distance \in 1 .. ZipFrame, NEW len \in Nat
    PROVE  /\ CopyZip(x, distance, len) \in Inflations
           /\ CopyZip(x, distance, len).ok =>
                 Inflated(CopyZip(x, distance, len), WithCopy(plain, distance, len, 0))
<1>0. ZipFrame \in Nat \ {0} /\ distance \in Nat \ {0} /\ 0 \in Nat
  BY ZipAssumption
<1>1. PICK f : InflateCopy(f, x, distance, len)
  BY CopyZipIs
<1>2. PICK h : StreamCopy(h, plain, distance, len, 0)
  BY <1>0, WithCopyIs
<1> DEFINE from == MatchPosn(x.p, distance)
           Done(n) == f[n].ok => Inflated(f[n], h[n]) /\ Len(h[n]) = Len(plain) + n
           S == {n \in Nat : n <= len => Done(n)}
<1>3. /\ x.p \in Nat /\ x.p < ZipFrame /\ x.out \in {0, ZipFrame}
      /\ Len(plain) = Len(written) + x.out + x.p /\ Len(written) \in Nat /\ Len(plain) \in Nat
  BY DEF Inflated, Bytes
<1>4. 0 \in S
  BY <1>0, <1>1, <1>2, <1>3 DEF InflateCopy, StreamCopy
<1>5. ASSUME NEW n \in Nat, n \in S PROVE n + 1 \in S
  <2> SUFFICES ASSUME n + 1 <= len, f[n + 1].ok
               PROVE  Inflated(f[n + 1], h[n + 1]) /\ Len(h[n + 1]) = Len(plain) + (n + 1)
    OBVIOUS
  <2>1. n + 1 \in 1 .. len /\ n \in 0 .. len /\ (n + 1) - 1 = n /\ Done(n)
    BY <1>5
  <2> DEFINE src == (from + n) % ZipFrame
             b == f[n].w[src]
  <2>2. f[n + 1] = Put(f[n], b) /\ f[n] \in Inflations
    <3>1. from + (n + 1) - 1 = from + n
      BY <1>0, <1>3 DEF MatchPosn
    <3>2. f[n + 1] = Put(f[n], f[n].w[(from + (n + 1) - 1) % ZipFrame])
      BY <1>1, <2>1 DEF InflateCopy
    <3>3. f[n] \in Inflations
      BY <1>1, <2>1 DEF InflateCopy
    <3> HIDE DEF from
    <3> QED BY <3>1, <3>2, <3>3
  <2> HIDE DEF S
  <2>3. src \in 0 .. ZipFrame - 1
    <3> DEFINE k == from + n
    <3>1. k \in Int
      BY <1>0, <1>3 DEF MatchPosn
    <3> HIDE DEF k
    <3>2. k % ZipFrame \in 0 .. ZipFrame - 1
      BY <1>0, <3>1
    <3> QED BY <3>2 DEF k
  <2> HIDE DEF src
  <2>4. b \in Int
    BY <2>2, <2>3 DEF Inflations, Windows
  <2> HIDE DEF b
  <2>5. f[n].ok
    BY <2>2, <2>4, PutInflates
  <2>6. Inflated(f[n], h[n]) /\ Len(h[n]) = Len(plain) + n
    BY <2>1, <2>5
  <2>7. /\ f[n].p \in Nat /\ f[n].p < ZipFrame /\ f[n].out \in {0, ZipFrame} /\ h[n] \in Bytes
        /\ Len(h[n]) = Len(written) + f[n].out + f[n].p /\ Mirrors(f[n].w, ZipFrame, f[n].p, h[n], 0)
    BY <2>6 DEF Inflated
  <2> DEFINE q == f[n].p
  <2>8. src = Source(ZipFrame, q, distance, 0)
    <3> HIDE DEF Done
    <3>1. q \in Nat /\ q < ZipFrame /\ (q = x.p + n \/ q = x.p + n - ZipFrame)
      <4> DEFINE out == f[n].out
                 start == x.out
                 p == x.p
                 L == Len(written)
      <4>1. /\ p \in Nat /\ p < ZipFrame /\ (start = 0 \/ start = ZipFrame)
            /\ q \in Nat /\ q < ZipFrame /\ (out = 0 \/ out = ZipFrame)
            /\ L \in Nat /\ L + start + p + n = L + out + q
        BY <1>3, <2>6, <2>7
      <4> HIDE DEF out, start, p, q, L
      <4>2. q \in Nat /\ q < ZipFrame /\ (q = p + n \/ q = p + n - ZipFrame)
        BY <1>0, <4>1
      <4> QED BY <4>2 DEF p
    <3> DEFINE p == x.p
    <3>2. p \in Nat /\ p < ZipFrame /\ (q = p + n \/ q = p + n - ZipFrame)
      BY <1>3, <3>1
    <3> HIDE DEF p, q
    <3>3. (MatchPosn(p, distance) + n) % ZipFrame = Source(ZipFrame, q, distance, 0)
      BY <3>1, <3>2, CopySource
    <3> QED BY <3>3 DEF p, src
  <2>9. b = Back(h[n], distance, 0)
    BY <2>7, <2>8 DEF Mirrors, b
  <2>10. h[n + 1] = Append(h[n], b)
    BY <1>2, <2>1, <2>9 DEF StreamCopy
  <2> HIDE DEF Done, q
  <2>11. Inflated(Put(f[n], b), Append(h[n], b))
    BY <2>2, <2>4, <2>6, PutInflates
  <2>12. Len(Append(h[n], b)) = Len(h[n]) + 1
    BY <2>4, <2>7, AppendBegins
  <2>13. Inflated(f[n + 1], h[n + 1])
    BY <2>2, <2>10, <2>11
  <2>14. Len(h[n + 1]) = Len(plain) + (n + 1)
    BY <1>3, <2>6, <2>10, <2>12
  <2> QED BY <2>13, <2>14
<1>6. \A n \in Nat : n \in S
  <2> HIDE DEF S
  <2> QED BY <1>4, <1>5, Induct
<1>7. Done(len) /\ len \in 0 .. len
  <2> HIDE DEF Done
  <2> QED BY <1>6
<1>8. f[len] \in Inflations
  BY <1>1, <1>7 DEF InflateCopy
<1> QED BY <1>1, <1>2, <1>7, <1>8 DEF InflateCopy, StreamCopy

\* The beginning of a stream is found again in it.
LEMMA BeginsAgain ==
    ASSUME NEW s \in Bytes, NEW t \in Bytes, Begins(s, t)
    PROVE  SubSeq(t, 1, Len(s)) = s
<1>1. /\ Len(s) \in Nat /\ Len(t) \in Nat /\ Len(s) <= Len(t)
      /\ \A i \in 1 .. Len(s) : s[i] \in Int /\ t[i] \in Int /\ s[i] = t[i]
  BY DEF Bytes, Begins
<1>2. /\ SubSeq(t, 1, Len(s)) \in Seq(Int)
      /\ Len(SubSeq(t, 1, Len(s))) = Len(s)
      /\ \A i \in 1 .. Len(s) : SubSeq(t, 1, Len(s))[i] = t[i]
  BY <1>1, SubSeqProperties
<1> QED BY <1>1, <1>2, SeqEqual DEF Bytes

\* A whole window that comes after the stream is as far back as a match can reach.
LEMMA WholeMirrors ==
    ASSUME NEW size \in Nat \ {0}, NEW w \in Windows(size), NEW s \in Bytes
    PROVE  /\ s \o Slice(w, 0, size) \in Bytes
           /\ Len(s \o Slice(w, 0, size)) = Len(s) + size
           /\ Begins(s, s \o Slice(w, 0, size))
           /\ Follows(w, 0, size, s, s \o Slice(w, 0, size))
           /\ Mirrors(w, size, 0, s \o Slice(w, 0, size), 0)
<1> DEFINE u == Slice(w, 0, size)
           t == s \o u
<1>0. Len(s) \in Nat /\ 0 \in Nat /\ size \in Nat /\ 0 <= size /\ size <= size /\ size - 0 = size
  BY DEF Bytes
<1>1. /\ u \in Bytes /\ Len(u) = size
      /\ \A k \in 1 .. size : u[k] = w[k - 1]
  <2>1. /\ u \in Bytes /\ Len(u) = size - 0 /\ \A k \in 1 .. size - 0 : u[k] = w[0 + k - 1]
    BY <1>0, SliceIs
  <2> HIDE DEF u
  <2> QED BY <1>0, <2>1
<1> HIDE DEF u
<1>2. /\ t \in Bytes /\ Len(t) = Len(s) + size
      /\ \A i \in 1 .. Len(s) + size : t[i] = IF i <= Len(s) THEN s[i] ELSE u[i - Len(s)]
  BY <1>1, ConcatProperties DEF Bytes
<1> HIDE DEF t
<1>3. Begins(s, t)
  BY <1>0, <1>2 DEF Begins
<1>4. ASSUME NEW i \in 0 .. size - 1 PROVE w[i] = t[Len(s) + 1 + i]
  <2>1. /\ Len(s) + 1 + i \in 1 .. Len(s) + size /\ ~(Len(s) + 1 + i <= Len(s))
        /\ (Len(s) + 1 + i) - Len(s) = i + 1 /\ i + 1 \in 1 .. size /\ (i + 1) - 1 = i
    BY <1>0
  <2> QED BY <1>1, <1>2, <2>1
<1>5. Follows(w, 0, size, s, t)
  BY <1>0, <1>2, <1>4 DEF Follows
<1>6. Mirrors(w, size, 0, t, 0)
  <2> SUFFICES ASSUME NEW off \in 1 .. size PROVE w[Source(size, 0, off, 0)] = Back(t, off, 0)
    BY DEF Mirrors
  <2>1. Source(size, 0, off, 0) = size - off /\ size - off \in 0 .. size - 1
    BY DEF Source
  <2>2. off <= Len(t) /\ Len(t) + 1 - off = Len(s) + 1 + (size - off)
    BY <1>0, <1>2
  <2> QED BY <1>4, <2>1, <2>2 DEF Back
<1> QED BY <1>2, <1>3, <1>5, <1>6 DEF t, u

\* A frame that inflate cannot decode ends the stream, or is filled up.
LEMMA InflateFailsIsSound ==
    ASSUME Sound, method = "mszip", pc \in {"block", "bytes"}, UNCHANGED <<lz, qtm>>,
           NEW e \in {"read", "decrunch"}, NEW x, x.w \in Windows(ZipFrame), InflateFails(e, x)
    PROVE  Sound'
<1> DEFINE have == IF x.out = 0 THEN x.p ELSE x.out
           filled == [i \in 0 .. ZipFrame - 1 |-> IF i >= have THEN Zero ELSE x.w[i]]
<1>0. /\ ZipFrame \in Nat \ {0} /\ WindowSize = ZipFrame /\ WindowSize' = ZipFrame
      /\ UNCHANGED <<method, total, want, posn, optr, oend, written, asked>> /\ damaged' = TRUE
  BY ZipAssumption DEF WindowSize, InflateFails
<1>1. /\ plain \in Bytes /\ written \in Bytes /\ Begins(written, plain) /\ zip \in ZipStates
      /\ Len(written) + want = asked /\ Len(written) <= asked
  BY DEF Sound, Typed, Accounts, ZipInv
<1>2. CASE ~zip.repair
  <2>1. err' = e /\ pc' = "idle" /\ UNCHANGED <<window, plain, zip>>
    BY <1>2 DEF InflateFails
  <2> QED BY <1>0, <1>1, <2>1, FailureIsSound DEF Sound, Typed
<1>3. CASE zip.repair
  <2>1. /\ err' \in {"ok", "read"} /\ pc' = "frame" /\ window' = filled
        /\ plain' = SubSeq(plain, 1, Len(written)) \o Slice(filled, 0, ZipFrame)
        /\ zip' = [zip EXCEPT !.bytesOutput = ZipFrame]
    BY <1>3 DEF InflateFails
  <2>2. filled \in Windows(ZipFrame)
    BY <1>0 DEF Windows, Zero
  <2> HIDE DEF filled
  <2>3. plain' = written \o Slice(filled, 0, ZipFrame)
    BY <1>1, <2>1, BeginsAgain
  <2>4. /\ plain' \in Bytes /\ Len(plain') = Len(written) + ZipFrame /\ Begins(written, plain')
        /\ Follows(window', 0, ZipFrame, written, plain') /\ Mirrors(window', ZipFrame, 0, plain', 0)
    BY <1>0, <1>1, <2>1, <2>2, <2>3, WholeMirrors
  <2>5. zip' \in ZipStates /\ zip'.bytesOutput = ZipFrame
    BY <1>0, <1>1, <2>1 DEF ZipStates
  <2>6. Typed'
    BY <1>0, <2>1, <2>2, <2>4 DEF Sound, Typed
  <2>7. Accounts'
    BY <1>0, <1>1, <2>1, <2>4 DEF Accounts
  <2>8. Kept' /\ LzxInv' /\ LzxInFrame' /\ QtmInv'
    BY <1>0, <2>1 DEF Kept, AtRest, LzxInv, LzxInFrame, QtmInv
  <2>9. ZipInv'
    BY <1>0, <2>1, <2>4, <2>5 DEF ZipInv, AtRest
  <2> QED BY <2>6, <2>7, <2>8, <2>9 DEF Sound
<1> QED BY <1>2, <1>3

\* The bytes of a symbol are put into the window, or are too many.
LEMMA DecodedIsSound ==
    ASSUME Sound, method = "mszip", pc = "bytes", UNCHANGED <<lz, qtm>>,
           NEW x \in Inflations, NEW t, x.ok => Inflated(x, t), Decoded(x, t)
    PROVE  Sound'
<1>0. /\ ZipFrame \in Nat \ {0} /\ WindowSize = ZipFrame
      /\ x.w \in Windows(ZipFrame) /\ x.p \in Int /\ x.out \in Int
  BY ZipAssumption DEF WindowSize, Inflations
<1>1. CASE ~x.ok
  <2>1. InflateFails("decrunch", x)
    BY <1>1 DEF Decoded
  <2> QED BY <1>0, <2>1, InflateFailsIsSound
<1>2. CASE x.ok
  <2>1. /\ window' = x.w /\ posn' = x.p /\ zip' = [zip EXCEPT !.bytesOutput = x.out] /\ plain' = t
        /\ UNCHANGED <<method, total, pc, want, optr, oend, err, written, asked, damaged>>
    BY <1>2 DEF Decoded
  <2>2. /\ x.p \in Nat /\ x.p < ZipFrame /\ x.out \in {0, ZipFrame}
        /\ t \in Bytes /\ Begins(plain, t) /\ Len(t) = Len(written) + x.out + x.p
        /\ Mirrors(x.w, ZipFrame, x.p, t, 0)
    BY <1>2 DEF Inflated
  <2>3. zip \in ZipStates /\ plain \in Bytes /\ written \in Bytes /\ Begins(written, plain)
    BY DEF Sound, Typed, Accounts, ZipInv
  <2>4. zip' \in ZipStates /\ zip'.bytesOutput = x.out
    BY <1>0, <2>1, <2>2, <2>3 DEF ZipStates
  <2>5. Begins(written, t)
    BY <2>2, <2>3, BeginsTransitive
  <2>6. WindowSize' = ZipFrame
    BY <1>0, <2>1 DEF WindowSize
  <2>7. Typed'
    BY <1>0, <2>1, <2>2, <2>6 DEF Sound, Typed
  <2>8. Accounts'
    BY <2>1, <2>5 DEF Sound, Accounts
  <2>9. Kept' /\ LzxInv' /\ LzxInFrame' /\ QtmInv'
    BY <2>1 DEF Kept, AtRest, LzxInv, LzxInFrame, QtmInv
  <2>10. ZipInv'
    BY <1>0, <2>1, <2>2, <2>4 DEF ZipInv, AtRest
  <2> QED BY <2>7, <2>8, <2>9, <2>10 DEF Sound
<1> QED BY <1>1, <1>2

\* Every step of MSZIP keeps the invariant.
LEMMA ZipIsSound == Sound /\ ZipNext /\ UNCHANGED <<lz, qtm>> => Sound'
<1> SUFFICES ASSUME Sound, ZipNext, UNCHANGED <<lz, qtm>> PROVE Sound'
  OBVIOUS
<1>0. /\ method = "mszip" /\ WindowSize = ZipFrame
      /\ ZipFrame \in Nat \ {0} /\ ZipFrame \in Nat /\ 0 \in Nat
  <2>1. method = "mszip"
    BY DEF ZipNext, ZipFrameBegins, ZipBlock, ZipLiteral, ZipMatch, BlockEnds, ZipFrameEnds,
       ZipWriteFails, ZipDamage, ZipInputEnds, InZip
  <2> QED BY <2>1, ZipAssumption DEF WindowSize
<1>1. /\ want \in Nat /\ asked \in Nat /\ window \in Windows(ZipFrame)
      /\ posn \in Nat /\ optr \in Nat /\ oend \in Nat
      /\ posn <= ZipFrame /\ optr <= oend /\ oend <= ZipFrame
      /\ damaged \in BOOLEAN /\ plain \in Bytes /\ written \in Bytes
      /\ Len(plain) \in Nat /\ Len(written) \in Nat
      /\ Begins(written, plain) /\ Len(written) <= asked
      /\ zip \in ZipStates
  BY <1>0 DEF Sound, Typed, Accounts, Bytes, ZipInv
<1>2. pc \in {"block", "bytes"} =>
         /\ zip.bytesOutput \in {0, ZipFrame} /\ posn < ZipFrame
         /\ Len(plain) = Len(written) + zip.bytesOutput + posn
         /\ Mirrors(window, ZipFrame, posn, plain, 0)
  BY <1>0 DEF Sound, ZipInv
<1>3. pc = "bytes" => Here \in Inflations /\ Inflated(Here, plain)
  <2>1. Begins(plain, plain)
    BY <1>1 DEF Begins
  <2>2. Here = [w |-> window, p |-> posn, out |-> zip.bytesOutput, ok |-> TRUE]
    BY DEF Here
  <2>3. zip.bytesOutput \in Int
    BY <1>1 DEF ZipStates
  <2>4. Here \in Inflations
    BY <1>1, <2>2, <2>3 DEF Inflations
  <2>5. /\ Here.w = window /\ Here.p = posn /\ Here.out = zip.bytesOutput /\ Here.ok
    BY <2>2
  <2> QED BY <1>1, <1>2, <2>1, <2>4, <2>5 DEF Inflated
<1>4. ASSUME err' \in {"read", "write", "decrunch"}, pc' = "idle", damaged' \in BOOLEAN,
             UNCHANGED <<method, total, asked, want, window, posn, optr, oend, plain, written, zip>>
      PROVE  Sound'
  BY <1>0, <1>1, <1>4, FailureIsSound
<1>5. CASE ZipFrameBegins
  <2>1. /\ pc = "start" /\ Len(plain) < total /\ pc' = "block" /\ posn' = 0
        /\ zip' = [zip EXCEPT !.bytesOutput = 0, !.blocks = 0]
        /\ UNCHANGED <<method, total, want, window, optr, oend, err, plain, written, asked, damaged>>
    BY <1>5 DEF ZipFrameBegins, InZip
  <2>2. err = "ok"
    BY <2>1 DEF Sound, Accounts
  <2>3. optr = oend /\ Mirrors(window, ZipFrame, 0, plain, 0)
    BY <1>0, <2>1, <2>2 DEF Sound, ZipInv, AtRest
  <2>4. Len(plain) = Len(written)
    BY <1>1, <2>1, <2>2, <2>3 DEF Sound, Kept, AtRest
  <2>5. zip' \in ZipStates /\ zip'.bytesOutput = 0
    BY <1>1, <2>1 DEF ZipStates
  <2>6. WindowSize' = ZipFrame
    BY <1>0, <2>1 DEF WindowSize
  <2>7. Typed'
    BY <1>0, <2>1, <2>6 DEF Sound, Typed
  <2>8. Accounts'
    BY <2>1, <2>2 DEF Sound, Accounts
  <2>9. Kept' /\ LzxInv' /\ LzxInFrame' /\ QtmInv'
    BY <1>0, <2>1 DEF Kept, AtRest, LzxInv, LzxInFrame, QtmInv
  <2>10. ZipInv'
    BY <1>0, <1>1, <2>1, <2>3, <2>4, <2>5 DEF ZipInv, AtRest
  <2> QED BY <2>7, <2>8, <2>9, <2>10 DEF Sound
<1>6. ASSUME NEW last \in BOOLEAN, NEW huffman \in BOOLEAN, ZipBlock(last, huffman) PROVE Sound'
  <2>1. /\ pc = "block" /\ pc' = "bytes"
        /\ zip' = [zip EXCEPT !.lastBlock = last, !.huffman = huffman, !.blocks = @ + 1]
        /\ UNCHANGED <<method, total, want, window, posn, optr, oend, err, plain, written, asked, damaged>>
    BY <1>6 DEF ZipBlock, InZip
  <2>2. zip' \in ZipStates /\ zip'.bytesOutput = zip.bytesOutput
    <3> DEFINE more == zip.blocks + 1
    <3>1. zip.blocks \in Nat
      BY <1>1 DEF ZipStates
    <3>2. more \in Nat
      BY <3>1
    <3>3. zip' = [zip EXCEPT !.lastBlock = last, !.huffman = huffman, !.blocks = more]
      BY <2>1
    <3> HIDE DEF more
    <3> QED BY <1>1, <3>2, <3>3 DEF ZipStates
  <2>3. WindowSize' = ZipFrame
    BY <1>0, <2>1 DEF WindowSize
  <2>4. Typed'
    BY <1>0, <2>1, <2>3 DEF Sound, Typed
  <2>5. Accounts'
    BY <2>1 DEF Sound, Accounts
  <2>6. Kept' /\ LzxInv' /\ LzxInFrame' /\ QtmInv'
    BY <1>0, <2>1 DEF Kept, AtRest, LzxInv, LzxInFrame, QtmInv
  <2>7. ZipInv'
    BY <1>0, <1>2, <2>1, <2>2 DEF ZipInv, AtRest
  <2> QED BY <2>4, <2>5, <2>6, <2>7 DEF Sound
<1>7. CASE ZipLiteral
  <2>1. pc = "bytes" /\ Decoded(Put(Here, NextLiteral), Append(plain, NextLiteral))
    BY <1>7 DEF ZipLiteral, InZip
  <2>2. NextLiteral \in Int
    BY <1>1 DEF NextLiteral
  <2> HIDE DEF NextLiteral
  <2>3. /\ Put(Here, NextLiteral) \in Inflations
        /\ Put(Here, NextLiteral).ok => Inflated(Put(Here, NextLiteral), Append(plain, NextLiteral))
    BY <1>1, <1>3, <2>1, <2>2, PutInflates
  <2> QED BY <1>0, <2>1, <2>3, DecodedIsSound
<1>8. ASSUME NEW distance \in ZipOffsets, NEW len \in ZipLengths, ZipMatch(distance, len) PROVE Sound'
  <2>1. pc = "bytes" /\ Decoded(CopyZip(Here, distance, len), WithCopy(plain, distance, len, 0))
    BY <1>8 DEF ZipMatch, InZip
  <2>2. distance \in 1 .. ZipFrame /\ len \in Nat
    BY ZipAssumption
  <2>3. /\ CopyZip(Here, distance, len) \in Inflations
        /\ CopyZip(Here, distance, len).ok =>
              Inflated(CopyZip(Here, distance, len), WithCopy(plain, distance, len, 0))
    BY <1>1, <1>3, <2>1, <2>2, CopyInflates
  <2> QED BY <1>0, <2>1, <2>3, DecodedIsSound
<1>9. CASE BlockEnds
  <2> DEFINE out == zip.bytesOutput + posn
  <2>1. pc = "bytes"
    BY <1>9 DEF BlockEnds, InZip
  <2>2. zip.bytesOutput \in Nat /\ out \in Nat
    BY <1>1 DEF ZipStates
  <2>3. CASE ~zip.lastBlock
    <3>1. pc' = "block" /\ UNCHANGED <<method, total, want, window, posn, optr, oend, err, plain,
                               written, asked, damaged, zip>>
      BY <1>9, <2>3 DEF BlockEnds
    <3>2. WindowSize' = ZipFrame
      BY <1>0, <3>1 DEF WindowSize
    <3>3. Typed'
      BY <1>0, <3>1, <3>2 DEF Sound, Typed
    <3>4. Accounts'
      BY <2>1, <3>1 DEF Sound, Accounts
    <3>5. Kept' /\ LzxInv' /\ LzxInFrame' /\ QtmInv'
      BY <1>0, <3>1 DEF Kept, AtRest, LzxInv, LzxInFrame, QtmInv
    <3>6. ZipInv'
      BY <1>0, <1>1, <1>2, <2>1, <3>1 DEF ZipInv, AtRest
    <3> QED BY <3>3, <3>4, <3>5, <3>6 DEF Sound
  <2>4. CASE zip.lastBlock /\ out > ZipFrame
    <3>1. InflateFails("decrunch", [Here EXCEPT !.out = out])
      BY <1>9, <2>4 DEF BlockEnds
    <3>2. [Here EXCEPT !.out = out].w = window
      BY DEF Here
    <3> HIDE DEF out
    <3> QED BY <1>0, <1>1, <2>1, <3>1, <3>2, InflateFailsIsSound
  <2>5. CASE zip.lastBlock /\ ~(out > ZipFrame)
    <3>1. /\ out = ZipFrame \/ Len(plain) = total
          /\ pc' = "frame" /\ zip' = [zip EXCEPT !.bytesOutput = out]
          /\ UNCHANGED <<method, total, want, window, posn, optr, oend, err, plain,
                         written, asked, damaged>>
      BY <1>9, <2>5 DEF BlockEnds
    <3>2. out <= ZipFrame
      BY <1>0, <2>2, <2>5
    <3>3. Mirrors(window, ZipFrame, out, plain, 0) /\ Len(plain) = Len(written) + out
      <4>1. CASE zip.bytesOutput = 0
        <5>1. out = posn
          BY <1>1, <4>1
        <5> QED BY <1>1, <1>2, <2>1, <4>1, <5>1
      <4>2. CASE zip.bytesOutput = ZipFrame
        <5>1. posn = 0 /\ out = ZipFrame
          BY <1>0, <1>1, <3>2, <4>2
        <5> QED BY <1>0, <1>1, <1>2, <2>1, <4>2, <5>1, UnwrapMirrors
      <4> QED BY <1>2, <2>1, <4>1, <4>2
    <3>4. zip' \in ZipStates /\ zip'.bytesOutput = out
      <4> HIDE DEF out
      <4> QED BY <1>1, <2>2, <3>1 DEF ZipStates
    <3>5. UNCHANGED <<method, total, want, window, posn, optr, oend, err, plain, written, asked, damaged>>
      BY <3>1
    <3>6. pc' = "frame" /\ (out = ZipFrame \/ Len(plain) = total)
      BY <3>1
    <3> HIDE DEF out
    <3>7. Follows(window, 0, out, written, plain)
      <4>1. Len(plain) = Len(written) + (out - 0) /\ 0 <= out
        BY <1>1, <2>2, <3>3
      <4> QED BY <1>0, <1>1, <2>2, <3>2, <3>3, <4>1, MirrorsFollow
    <3>8. Len(plain) < total => Mirrors(window, ZipFrame, 0, plain, 0)
      <4>1. CASE out = ZipFrame
        BY <1>0, <3>3, <4>1, WrapMirrors
      <4>2. CASE Len(plain) = total
        BY <1>1, <4>2
      <4> QED BY <3>6, <4>1, <4>2
    <3>9. WindowSize' = ZipFrame
      BY <1>0, <3>5 DEF WindowSize
    <3>10. Typed'
      BY <1>0, <3>5, <3>9 DEF Sound, Typed
    <3>11. Accounts'
      BY <2>1, <3>5, <3>6 DEF Sound, Accounts
    <3>12. Kept' /\ LzxInv' /\ LzxInFrame' /\ QtmInv'
      BY <1>0, <3>5, <3>6 DEF Kept, AtRest, LzxInv, LzxInFrame, QtmInv
    <3>13. ZipInv'
      BY <3>2, <3>3, <3>4, <3>5, <3>6, <3>7, <3>8 DEF ZipInv, AtRest
    <3> QED BY <3>10, <3>11, <3>12, <3>13 DEF Sound
  <2> QED BY <2>3, <2>4, <2>5
<1>10. CASE ZipFrameEnds
  <2> DEFINE n == AtMost(want, zip.bytesOutput)
             next == written \o Slice(window, 0, n)
  <2>1. /\ pc = "frame" /\ written' = next /\ oend' = zip.bytesOutput
        /\ UNCHANGED <<method, total, window, posn, err, plain, asked, damaged, zip>>
    BY <1>10 DEF ZipFrameEnds, InZip
  <2>2. IF err = "ok"
        THEN /\ optr' = n /\ want' = want - n
             /\ pc' = IF want' > 0 THEN "start" ELSE "end"
        ELSE /\ optr' = 0 /\ pc' = "end"
             /\ UNCHANGED want
    BY <1>10 DEF ZipFrameEnds
  <2>3. /\ zip.bytesOutput \in Nat /\ zip.bytesOutput <= ZipFrame
        /\ Len(plain) = Len(written) + zip.bytesOutput
        /\ Follows(window, 0, zip.bytesOutput, written, plain)
        /\ Len(plain) < total => Mirrors(window, ZipFrame, 0, plain, 0)
    BY <1>0, <1>1, <2>1 DEF Sound, ZipInv, ZipStates
  <2>4. /\ n \in Nat /\ 0 <= n /\ n <= zip.bytesOutput /\ n <= want /\ n <= ZipFrame /\ n - 0 = n
        /\ n = want \/ n = zip.bytesOutput
    BY <1>0, <1>1, <2>3 DEF AtMost
  <2>5. UNCHANGED <<method, total, window, posn, err, plain, asked, damaged, zip>> /\ pc = "frame"
    BY <2>1
  <2>14. Len(written) + want = asked
    BY <2>1 DEF Sound, Accounts
  <2> HIDE DEF n
  <2>6. Follows(window, 0, n, written, plain)
    BY <1>0, <1>1, <2>3, <2>4, FollowsPart
  <2>7. /\ next \in Bytes /\ Len(next) = Len(written) + (n - 0) /\ Begins(next, plain)
    BY <1>0, <1>1, <2>4, <2>6, WriteSlice
  <2>8. written' = next
    BY <2>1
  <2> HIDE DEF next
  <2>9. /\ written' \in Bytes /\ Len(written') = Len(written) + n /\ Begins(written', plain)
        /\ Len(written') \in Nat
    BY <1>1, <2>4, <2>7, <2>8
  <2>15. oend' = zip.bytesOutput
    BY <2>1
  <2>10. /\ optr' \in Nat /\ optr' <= oend' /\ want' \in Nat
         /\ pc' \in {"start", "end"}
         /\ pc' = "start" => err = "ok" /\ want' # 0 /\ optr' = oend'
         /\ pc' = "end" /\ err = "ok" => want' = 0
         /\ err = "ok" => optr' = n /\ want' = want - n
    <3>1. CASE err = "ok"
      <4>1. optr' = n /\ want' = want - n /\ pc' = IF want' > 0 THEN "start" ELSE "end"
        BY <2>2, <3>1
      <4>2. CASE n = want
        BY <1>1, <2>3, <2>4, <2>15, <3>1, <4>1, <4>2
      <4>3. CASE n # want
        BY <1>1, <2>3, <2>4, <2>15, <3>1, <4>1, <4>3
      <4> QED BY <4>2, <4>3
    <3>2. CASE err # "ok"
      BY <1>1, <2>2, <2>3, <2>15, <3>2
    <3> QED BY <3>1, <3>2
  <2>11. WindowSize' = ZipFrame
    BY <1>0, <2>5 DEF WindowSize
  <2>12. Typed'
    BY <1>0, <1>1, <2>3, <2>5, <2>9, <2>10, <2>11, <2>15 DEF Sound, Typed
  <2>13. Accounts'
    <3>1. Len(written') <= asked /\ (err = "ok" => Len(written') + want' = asked)
      BY <1>1, <2>4, <2>9, <2>10, <2>14
    <3> QED BY <1>0, <1>1, <2>5, <2>9, <2>10, <3>1 DEF Accounts
  <2>16. Kept'
    <3>1. SUFFICES ASSUME err = "ok"
                   PROVE  /\ Len(plain) = Len(written') + (oend' - optr')
                          /\ Follows(window, optr', oend', written', plain)
      BY <2>5 DEF Kept
    <3>2. Len(plain) = Len(written') + (oend' - optr')
      BY <1>1, <2>3, <2>4, <2>9, <2>10, <2>15, <3>1
    <3>3. Follows(window, n, zip.bytesOutput, written', plain)
      <4>1. Len(written') = Len(written) + (n - 0)
        BY <2>4, <2>9
      <4> QED BY <1>0, <1>1, <2>3, <2>4, <2>9, <4>1, FollowsPart
    <3> QED BY <2>10, <2>15, <3>1, <3>2, <3>3
  <2>17. LzxInv' /\ LzxInFrame' /\ QtmInv'
    BY <1>0, <2>5 DEF LzxInv, LzxInFrame, QtmInv
  <2>18. ZipInv'
    BY <1>1, <2>3, <2>5, <2>10 DEF ZipInv, AtRest
  <2> QED BY <2>12, <2>13, <2>16, <2>17, <2>18 DEF Sound
<1>11. CASE ZipWriteFails
  <2>1. /\ err' = "write" /\ pc' = "idle" /\ damaged' = TRUE
        /\ UNCHANGED <<method, total, asked, want, window, posn, optr, oend, plain, written, zip>>
    BY <1>11 DEF ZipWriteFails, Fail
  <2> QED BY <1>4, <2>1
<1>12. CASE ZipDamage
  <2>1. CASE Damage /\ err' = "read" /\ UNCHANGED zip
    <3>1. /\ err' = "read" /\ pc' = "idle" /\ damaged' = TRUE
          /\ UNCHANGED <<method, total, asked, want, window, posn, optr, oend, plain, written, zip>>
      BY <2>1 DEF Damage
    <3> QED BY <1>4, <3>1
  <2>2. ASSUME pc \in {"block", "bytes"}, NEW e \in {"read", "decrunch"}, InflateFails(e, Here) PROVE Sound'
    <3>1. Here.w = window
      BY DEF Here
    <3> QED BY <1>0, <1>1, <2>2, <3>1, InflateFailsIsSound
  <2> QED BY <1>12, <2>1, <2>2 DEF ZipDamage, InZip
<1>13. CASE ZipInputEnds
  <2>1. /\ err' = "read" /\ pc' = "idle" /\ damaged' = damaged
        /\ UNCHANGED <<method, total, asked, want, window, posn, optr, oend, plain, written, zip>>
    BY <1>13 DEF ZipInputEnds, InputEnds, Fail
  <2> QED BY <1>1, <1>4, <2>1
<1> QED
  BY <1>5, <1>6, <1>7, <1>8, <1>9, <1>10, <1>11, <1>12, <1>13 DEF ZipNext

-----------------------------------------------------------------------------
(* The steps of LZX.                                                        *)

\* A frame of LZX that begins has the full size, or is the last one, and ends in the
\* window.
LEMMA FrameFits ==
    ASSUME NEW n \in Nat, NEW bytes \in Nat, NEW p \in Nat, total \in Nat \ {0},
           WholeFrames(n, bytes, p, total), p < LzxWindow, NEW known \in {0, total},
           known = 0 => n < (total - 1) \div LzxFrame,
           NEW size, size = IF known # 0 /\ known - bytes < LzxFrame THEN known - bytes ELSE LzxFrame
    PROVE  size \in Nat /\ p + size <= LzxWindow /\ WholeFrames(n + 1, bytes + size, p + size, total)
<1>0. /\ LzxFrame \in Nat \ {0} /\ LzxWindow \in Nat /\ LzxWindow % LzxFrame = 0
  BY LzxAssumption
<1> DEFINE all == LzxFrame * n
           most == LzxFrame * (n + 1)
<1>1. all \in Nat /\ most \in Nat /\ most = all + LzxFrame
  BY <1>0
<1>2. /\ bytes <= all /\ bytes <= total
      /\ bytes = all \/ bytes = total
      /\ p % LzxFrame = 0 \/ bytes = total
      /\ p <= bytes /\ (p = bytes \/ LzxWindow <= bytes)
  BY DEF WholeFrames
<1>3. known = 0 => most <= total - 1
  <2> SUFFICES ASSUME known = 0 PROVE most <= total - 1
    OBVIOUS
  <2> DEFINE m == total - 1
             q == m \div LzxFrame
  <2>1. m \in Nat /\ n < q
    OBVIOUS
  <2> HIDE DEF m
  <2>2. q \in Nat /\ m % LzxFrame \in 0 .. LzxFrame - 1 /\ m = LzxFrame * q + (m % LzxFrame)
    BY <1>0, <2>1, DivMod
  <2> HIDE DEF q
  <2>3. LzxFrame * (n + 1) <= LzxFrame * q
    BY <1>0, <2>1, <2>2
  <2> QED BY <1>0, <1>1, <2>1, <2>2, <2>3 DEF m
<1> HIDE DEF all, most
<1>4. \/ size = total - bytes /\ size <= LzxFrame
      \/ size = LzxFrame /\ bytes = all /\ bytes + size <= total /\ p % LzxFrame = 0
  <2>1. CASE known = 0
    BY <1>0, <1>1, <1>2, <1>3, <2>1
  <2>2. CASE known = total
    BY <1>0, <1>1, <1>2, <2>2
  <2> QED BY <2>1, <2>2
<1>5. size \in Nat /\ size <= LzxFrame
  BY <1>0, <1>2, <1>4
<1>6. p + size <= LzxWindow
  <2>1. CASE p % LzxFrame = 0
    <3>1. p + LzxFrame <= LzxWindow
      BY <1>0, <2>1, Multiples
    <3> QED BY <1>0, <1>5, <3>1
  <2>2. CASE p % LzxFrame # 0
    <3>1. bytes = total /\ size = total - bytes
      BY <1>2, <1>4, <2>2
    <3> QED BY <1>0, <3>1
  <2> QED BY <2>1, <2>2
<1>7. (p + size) % LzxFrame = 0 \/ bytes + size = total
  <2>1. CASE size = total - bytes
    BY <2>1
  <2>2. CASE size = LzxFrame /\ p % LzxFrame = 0
    BY <1>0, <2>2, Multiples
  <2> QED BY <1>4, <2>1, <2>2
<1>8. /\ bytes + size <= most /\ bytes + size <= total
      /\ bytes + size = most \/ bytes + size = total
      /\ p + size <= bytes + size /\ (p + size = bytes + size \/ LzxWindow <= bytes + size)
  BY <1>0, <1>1, <1>2, <1>4, <1>5
<1>9. WholeFrames(n + 1, bytes + size, p + size, total)
  BY <1>7, <1>8 DEF WholeFrames, most
<1> QED BY <1>5, <1>6, <1>9

\* At the window's end the next frame begins at its start.
LEMMA FramesWrap ==
    ASSUME NEW n, NEW bytes \in Nat, NEW p \in Nat, WholeFrames(n, bytes, p, total), p <= LzxWindow
    PROVE  Wrapped(p) \in Nat /\ Wrapped(p) < LzxWindow /\ WholeFrames(n, bytes, Wrapped(p), total)
<1>0. LzxFrame \in Nat \ {0} /\ LzxWindow \in Nat /\ LzxWindow > 0
  BY LzxAssumption
<1>1. 0 % LzxFrame = 0
  <2>1. LzxFrame * 0 + 0 = 0 /\ 0 \in 0 .. LzxFrame - 1 /\ 0 \in Nat
    BY <1>0
  <2>2. (LzxFrame * 0 + 0) % LzxFrame = 0
    BY <1>0, <2>1, DivUnique
  <2> QED BY <2>1, <2>2
<1>2. CASE p = LzxWindow
  BY <1>0, <1>1, <1>2 DEF Wrapped, WholeFrames
<1>3. CASE p # LzxWindow
  BY <1>0, <1>3 DEF Wrapped
<1> QED BY <1>2, <1>3

Triples == Nat \X Nat \X Nat

\* The code's way to keep the repeated offsets is the format's.
LEMMA RepeatsArePromoted ==
    ASSUME NEW R \in Triples, NEW slot \in 0 .. 3, NEW off \in Nat
    PROVE  /\ UsedRepeat(R, slot, off) = Promoted(R, slot, off)
           /\ UsedRepeat(R, slot, off) \in Triples
           /\ slot < 3 => R[slot + 1] \in Nat
<1>1. R = <<R[1], R[2], R[3]>> /\ R[1] \in Nat /\ R[2] \in Nat /\ R[3] \in Nat
  BY DEF Triples
<1> DEFINE a == R[1]
           b == R[2]
           c == R[3]
<1>2. R = <<a, b, c>> /\ a \in Nat /\ b \in Nat /\ c \in Nat
  BY <1>1
<1> HIDE DEF a, b, c
<1>3. CASE slot = 0
  BY <1>2, <1>3 DEF UsedRepeat, Promoted, Triples
<1>4. CASE slot = 1
  BY <1>2, <1>4 DEF UsedRepeat, Promoted, Triples
<1>5. CASE slot = 2
  BY <1>2, <1>5 DEF UsedRepeat, Promoted, Triples
<1>6. CASE slot = 3
  <2> DEFINE s == SubSeq(R, 1, 2)
             h == <<off>>
             t == h \o s
  <2>1. s \in Seq(Int) /\ Len(s) = 2 /\ s[1] = a /\ s[2] = b
    <3>1. R \in Seq(Int) /\ Len(R) = 3 /\ R[1] = a /\ R[2] = b
      BY <1>2
    <3> DEFINE m == 1
               n == 2
    <3>2. m \in Int /\ n \in Int /\ \A i \in m .. n : R[i] \in Int
      BY <1>2
    <3>3. s = SubSeq(R, m, n) /\ m = 1 /\ n = 2
      OBVIOUS
    <3> HIDE DEF s, m, n
    <3>4. /\ SubSeq(R, m, n) \in Seq(Int)
          /\ Len(SubSeq(R, m, n)) = IF m <= n THEN n - m + 1 ELSE 0
          /\ \A i \in 1 .. n - m + 1 : SubSeq(R, m, n)[i] = R[m + i - 1]
      BY <3>2, SubSeqProperties
    <3> QED BY <3>1, <3>3, <3>4
  <2> HIDE DEF s
  <2>2. t = <<off, a, b>>
    <3>1. h \in Seq(Int) /\ Len(h) = 1 /\ h[1] = off
      OBVIOUS
    <3> HIDE DEF h
    <3>2. /\ t \in Seq(Int) /\ Len(t) = Len(h) + Len(s)
          /\ \A i \in 1 .. Len(h) + Len(s) : t[i] = IF i <= Len(h) THEN h[i] ELSE s[i - Len(h)]
      BY <2>1, <3>1, ConcatProperties
    <3> HIDE DEF t
    <3>3. t[1] = off /\ t[2] = a /\ t[3] = b /\ Len(t) = 3
      BY <2>1, <3>1, <3>2
    <3> DEFINE u == <<off, a, b>>
    <3>4. u \in Seq(Int) /\ Len(u) = 3 /\ u[1] = off /\ u[2] = a /\ u[3] = b
      BY <1>2
    <3> HIDE DEF u
    <3>5. \A i \in 1 .. Len(t) : t[i] = u[i]
      BY <3>3, <3>4
    <3>6. t = u
      BY <3>2, <3>3, <3>4, <3>5, SeqEqual
    <3> QED BY <3>6 DEF u
  <2>3. Promoted(R, slot, off) = <<off, a, b>>
    BY <1>6, <2>2 DEF Promoted, s
  <2>4. UsedRepeat(R, slot, off) = <<off, a, b>>
    BY <1>2, <1>6 DEF UsedRepeat
  <2> QED BY <1>2, <1>6, <2>3, <2>4 DEF Triples
<1> QED BY <1>3, <1>4, <1>5, <1>6

\* How far back a match copies from: an offset in the window is the distance.
LEMMA DistanceIs ==
    ASSUME NEW off \in Nat
    PROVE  /\ Distance(off) \in 1 .. LzxWindow
           /\ off \in 1 .. LzxWindow => Distance(off) = off
           /\ off = 0 => Distance(off) = LzxWindow
           /\ off > LzxWindow /\ off <= 2 * LzxWindow => Distance(off) = off - LzxWindow
<1>1. LzxWindow \in Nat \ {0}
  <2>1. LzxWindow \in Nat /\ LzxWindow > 0
    BY LzxAssumption
  <2> QED BY <2>1
<1> DEFINE x == off - 1
<1>2. x \in Int /\ -LzxWindow <= x /\ Distance(off) = 1 + (x % LzxWindow)
  BY <1>1 DEF Distance
<1>3. x < 2 * LzxWindow => x % LzxWindow = IF x < 0 THEN x + LzxWindow
                                           ELSE IF x < LzxWindow THEN x ELSE x - LzxWindow
  <2> HIDE DEF x
  <2> QED BY <1>1, <1>2, ModNear
<1>4. x % LzxWindow \in 0 .. LzxWindow - 1
  <2> HIDE DEF x
  <2> QED BY <1>1, <1>2
<1> QED BY <1>1, <1>2, <1>3, <1>4

\* Where a match that the decoder lets pass copies from is that distance back, round the
\* window.
LEMMA SameSource ==
    ASSUME NEW off \in Nat, posn \in Nat, ~BeyondStream(off), NEW n \in Nat, posn + n < LzxWindow
    PROVE  Source(LzxWindow, posn, off, n) = Source(LzxWindow, posn, Distance(off), n)
<1>1. LzxWindow \in Nat /\ off <= posn + LzxWindow
  <2>1. LzxWindow \in Nat
    BY LzxAssumption
  <2> QED BY <2>1 DEF BeyondStream
<1>2. off = 0 \/ off \in 1 .. LzxWindow \/ (off > LzxWindow /\ off <= 2 * LzxWindow)
  BY <1>1
<1> DEFINE d == Distance(off)
<1>3. /\ off \in 1 .. LzxWindow => d = off
      /\ off = 0 => d = LzxWindow
      /\ off > LzxWindow /\ off <= 2 * LzxWindow => d = off - LzxWindow
  BY DistanceIs
<1> HIDE DEF d
<1>4. Source(LzxWindow, posn, off, n) = Source(LzxWindow, posn, d, n)
  BY <1>1, <1>2, <1>3 DEF Source
<1> QED BY <1>4 DEF d

\* So the match is the same one in the stream, whatever its offset.
LEMMA RingMatchMirrors ==
    ASSUME NEW len \in Nat, NEW off \in Nat, NEW ref \in Nat, posn \in Nat,
           posn + len <= LzxWindow, ~BeyondStream(off), window \in Windows(LzxWindow),
           plain \in Bytes, Mirrors(window, LzxWindow, posn, plain, ref)
    PROVE  /\ CopyMatch(window, LzxWindow, posn, off, len) \in Windows(LzxWindow)
           /\ WithCopy(plain, Distance(off), len, ref) \in Bytes
           /\ Len(WithCopy(plain, Distance(off), len, ref)) = Len(plain) + len
           /\ Begins(plain, WithCopy(plain, Distance(off), len, ref))
           /\ Mirrors(CopyMatch(window, LzxWindow, posn, off, len), LzxWindow, posn + len,
                      WithCopy(plain, Distance(off), len, ref), ref)
<1> DEFINE d == Distance(off)
<1>1. LzxWindow \in Nat /\ d \in 1 .. LzxWindow
  BY LzxAssumption, DistanceIs
<1>2. ASSUME NEW n \in 1 .. len
      PROVE  Source(LzxWindow, posn, off, n - 1) = Source(LzxWindow, posn, d, n - 1)
  <2>1. n - 1 \in Nat /\ posn + (n - 1) < LzxWindow
    BY <1>1
  <2> QED BY <2>1, SameSource
<1> HIDE DEF d
<1>3. ReadsInside(LzxWindow, posn, off, len)
  <2>1. \A n \in 1 .. len : Source(LzxWindow, posn, d, n - 1) \in 0 .. LzxWindow - 1
    BY <1>1 DEF Source
  <2> QED BY <1>2, <2>1 DEF ReadsInside
<1>4. PICK g : /\ WindowCopy(g, window, LzxWindow, posn, off, len)
               /\ CopyMatch(window, LzxWindow, posn, off, len) = g[len]
  BY <1>1, <1>3, CopyMatchIs
<1>5. WindowCopy(g, window, LzxWindow, posn, d, len)
  BY <1>2, <1>4 DEF WindowCopy
<1>6. /\ g[len] \in Windows(LzxWindow)
      /\ WithCopy(plain, d, len, ref) \in Bytes
      /\ Len(WithCopy(plain, d, len, ref)) = Len(plain) + len
      /\ Begins(plain, WithCopy(plain, d, len, ref))
      /\ Mirrors(g[len], LzxWindow, posn + len, WithCopy(plain, d, len, ref), ref)
  BY <1>1, <1>5, CopyMirrors
<1> QED BY <1>4, <1>6 DEF d

\* Every step of LZX keeps the invariant.
LEMMA LzxIsSound == Sound /\ LzxNext /\ UNCHANGED <<zip, qtm>> => Sound'
<1> SUFFICES ASSUME Sound, LzxNext, UNCHANGED <<zip, qtm>> PROVE Sound'
  OBVIOUS
<1> USE DEF InLzx
<1>0. /\ method = "lzx" /\ UNCHANGED <<method, total, asked>>
      /\ WindowSize = LzxWindow /\ WindowSize' = LzxWindow
      /\ LzxWindow \in Nat /\ LzxWindow > 0 /\ LzxFrame \in Nat \ {0} /\ LzxFrame \in Nat /\ 0 \in Nat
      /\ LzxOffsets \subseteq 1 .. LzxWindow /\ LzxLengths \subseteq Nat \ {0}
  <2>1. method = "lzx"
    BY DEF LzxNext, LzxStart, LzxFrameBegins, LzxReturns, LzxBlock, LzxRun, LzxLiteral, LzxMatch,
       LzxRunEnds, LzxFrameEnds, LzxWriteFails, LzxDamage, Decoding, BlockBegins
  <2>2. UNCHANGED <<method, total, asked>>
    BY DEF LzxNext, LzxStart, LzxFrameBegins, LzxReturns, LzxBlock, LzxRun, LzxLiteral, LzxMatch,
       LzxRunEnds, LzxFrameEnds, LzxWriteFails, LzxDamage, Damage, InputEnds
  <2> QED BY <2>1, <2>2, LzxAssumption DEF WindowSize
<1>1. /\ want \in Nat /\ asked \in Nat /\ window \in Windows(LzxWindow)
      /\ posn \in Nat /\ posn <= LzxWindow /\ optr \in Nat /\ oend \in Nat
      /\ optr <= oend /\ oend <= LzxWindow
      /\ damaged \in BOOLEAN /\ plain \in Bytes /\ written \in Bytes
      /\ Len(plain) \in Nat /\ Len(written) \in Nat
      /\ Begins(written, plain) /\ Len(written) <= asked /\ total \in Nat \ {0}
      /\ lz \in LzxStates /\ lz.R = lz.trueR /\ lz.framePosn <= LzxWindow
  <2>1. total \in Nat \ {0}
    BY RequestsAssumption DEF Sound, Typed
  <2> QED BY <1>0, <2>1 DEF Sound, Typed, Accounts, Bytes, LzxInv
<1>2. pc \notin {"idle", "end", "flush"} /\ err = "ok" /\ Len(written) + want = asked
  <2>1. pc \notin {"idle", "end", "flush"}
    BY DEF LzxNext, LzxStart, LzxFrameBegins, LzxReturns, LzxBlock, LzxRun, LzxLiteral, LzxMatch,
       LzxRunEnds, LzxFrameEnds, LzxWriteFails, LzxDamage, Decoding, BlockBegins
  <2> QED BY <1>0, <2>1 DEF Sound, Accounts
<1>3. /\ Mirrors(window, LzxWindow, posn, plain, lz.options.ref)
      /\ WholeFrames(lz.frame, Framed, lz.framePosn, total)
      /\ lz.framePosn < LzxWindow
      /\ ~InFrame => posn = lz.framePosn /\ Len(plain) = Framed
      /\ (InFrame \/ pc = "frame") => lz.endFrame = asked \div LzxFrame + 1
      /\ pc = "start" => optr = oend
      /\ pc = "frame" => /\ optr = oend \/ want = 0
                         /\ Follows(window, optr, oend, written, plain)
  BY <1>0, <1>2 DEF Sound, LzxInv
<1>4. InFrame =>
        /\ optr = oend
        /\ lz.framePosn <= posn /\ Len(plain) = Framed + (posn - lz.framePosn)
        /\ lz.framePosn + lz.size <= LzxWindow
        /\ WholeFrames(lz.frame + 1, Framed + lz.size, lz.framePosn + lz.size, total)
  BY <1>0, <1>2 DEF Sound, LzxInFrame
<1>20. /\ pc = "decode" /\ lz.todo > 0 => posn + lz.todo = lz.framePosn + lz.size
       /\ pc = "symbols" =>
             /\ posn + lz.run + lz.todo = lz.framePosn + lz.size
             /\ lz.todo > 0 => lz.remaining = 0
  BY <1>0, <1>2 DEF Sound, LzxInFrame, InFrame
<1>5. /\ lz.frame \in Nat /\ lz.framePosn \in Nat /\ lz.endFrame \in Nat /\ lz.size \in Nat
      /\ lz.todo \in Nat /\ lz.run \in Int /\ lz.remaining \in Nat
      /\ lz.R \in Triples /\ lz.options \in LzxOptions
      /\ lz.options.ref \in Nat /\ Framed \in Nat
  <2>1. lz.options \in LzxOptions
    BY <1>1 DEF LzxStates
  <2>2. lz.options \in [interval : Nat, ref : 0 .. LzxWindow, told : {"start", "last block"}]
    BY <2>1, LzxAssumption
  <2>3. lz.options.ref \in 0 .. LzxWindow
    BY <2>2
  <2>4. lz.options.ref \in Nat
    <3> DEFINE ref == lz.options.ref
    <3> HIDE DEF ref
    <3>1. ref \in 0 .. LzxWindow
      BY <2>3 DEF ref
    <3>2. ref \in Nat
      BY <1>0, <3>1
    <3> QED BY <3>2 DEF ref
  <2> QED BY <1>1, <2>1, <2>4 DEF LzxStates, Triples, Framed
<1>6. ASSUME err' \in {"read", "write", "decrunch"}, pc' = "idle", damaged' \in BOOLEAN,
             UNCHANGED <<want, window, posn, optr, oend, plain, written, lz>>
      PROVE  Sound'
  BY <1>0, <1>1, <1>6, FailureIsSound
<1>7. ASSUME Typed', Accounts', LzxInv', LzxInFrame', pc' \notin {"idle", "flush", "start", "end"}
      PROVE  Sound'
  BY <1>0, <1>7 DEF Sound, Kept, AtRest, ZipInv, QtmInv
<1>21. ASSUME InFrame, pc' \in {"decode", "symbols"}, UNCHANGED <<want, optr, oend, err, written>>,
              damaged' \in BOOLEAN, window' \in Windows(LzxWindow), posn' \in Nat, posn' <= LzxWindow,
              plain' \in Bytes, Begins(written, plain'),
              Mirrors(window', LzxWindow, posn', plain', lz.options.ref),
              lz.framePosn <= posn', Len(plain') = Framed + (posn' - lz.framePosn),
              lz' \in LzxStates, lz'.R = lz'.trueR, lz'.frame = lz.frame, lz'.options = lz.options,
              lz'.framePosn = lz.framePosn, lz'.endFrame = lz.endFrame, lz'.size = lz.size,
              pc' = "decode" /\ lz'.todo > 0 => posn' + lz'.todo = lz.framePosn + lz.size,
              pc' = "symbols" => /\ posn' + lz'.run + lz'.todo = lz.framePosn + lz.size
                                 /\ lz'.todo > 0 => lz'.remaining = 0
       PROVE  Sound'
  <2>1. Typed'
    BY <1>0, <1>1, <1>21 DEF Sound, Typed
  <2>2. Accounts'
    BY <1>0, <1>1, <1>2, <1>21 DEF Accounts
  <2>3. Framed' = Framed
    BY <1>21 DEF Framed
  <2>4. LzxInv'
    <3>1. WholeFrames(lz'.frame, Framed', lz'.framePosn, total')
      BY <1>0, <1>3, <1>21, <2>3
    <3>2. InFrame'
      BY <1>21 DEF InFrame
    <3>3. lz'.endFrame = asked' \div LzxFrame + 1
      BY <1>0, <1>3, <1>21
    <3>4. Mirrors(window', LzxWindow, posn', plain', lz'.options.ref)
      BY <1>21
    <3> QED BY <1>1, <1>3, <1>21, <3>1, <3>2, <3>3, <3>4 DEF LzxInv
  <2>5. LzxInFrame'
    <3>1. WholeFrames(lz'.frame + 1, Framed' + lz'.size, lz'.framePosn + lz'.size, total')
      BY <1>0, <1>4, <1>21, <2>3
    <3>2. /\ lz'.framePosn <= posn' /\ Len(plain') = Framed' + (posn' - lz'.framePosn)
          /\ lz'.framePosn + lz'.size <= LzxWindow /\ optr' = oend'
      BY <1>4, <1>21, <2>3
    <3>3. /\ pc' = "decode" /\ lz'.todo > 0 => posn' + lz'.todo = lz'.framePosn + lz'.size
          /\ pc' = "symbols" => /\ posn' + lz'.run + lz'.todo = lz'.framePosn + lz'.size
                                /\ lz'.todo > 0 => lz'.remaining = 0
      BY <1>21
    <3> QED BY <3>1, <3>2, <3>3 DEF LzxInFrame
  <2> QED BY <1>7, <1>21, <2>1, <2>2, <2>4, <2>5
<1>8. CASE LzxStart
  <2>1. /\ pc = "start" /\ pc' = "frame"
        /\ lz' = [lz EXCEPT !.endFrame = (Len(written) + want) \div LzxFrame + 1]
        /\ UNCHANGED <<want, window, posn, optr, oend, err, plain, written, damaged>>
    BY <1>8 DEF LzxStart
  <2> DEFINE end == asked \div LzxFrame + 1
  <2>2. end \in Nat
    <3>1. asked \div LzxFrame \in Nat
      BY <1>0, <1>1, DivMod
    <3> QED BY <3>1
  <2>3. lz' = [lz EXCEPT !.endFrame = end]
    BY <1>2, <2>1
  <2>10. end = asked \div LzxFrame + 1
    OBVIOUS
  <2> HIDE DEF end
  <2>4. /\ lz' \in LzxStates /\ lz'.endFrame = end /\ lz'.R = lz.R /\ lz'.trueR = lz.trueR
        /\ lz'.frame = lz.frame /\ lz'.framePosn = lz.framePosn /\ lz'.options = lz.options
    BY <1>1, <2>2, <2>3 DEF LzxStates
  <2>5. UNCHANGED <<want, window, posn, optr, oend, err, plain, written, damaged>> /\ pc = "start" /\ pc' = "frame"
    BY <2>1
  <2>6. Follows(window, optr, oend, written, plain)
    BY <1>2, <2>1 DEF Sound, Kept, AtRest
  <2>7. Typed'
    BY <1>0, <2>5 DEF Sound, Typed
  <2>8. Accounts'
    BY <1>0, <1>1, <1>2, <2>5 DEF Accounts
  <2>11. Framed' = Framed /\ ~InFrame /\ ~InFrame'
    BY <2>5 DEF Framed, InFrame
  <2>9. LzxInv' /\ LzxInFrame'
    <3>1. WholeFrames(lz'.frame, Framed', lz'.framePosn, total')
      BY <1>0, <1>3, <2>4, <2>11
    <3>2. posn' = lz'.framePosn /\ Len(plain') = Framed' /\ lz'.endFrame = asked' \div LzxFrame + 1
      BY <1>0, <1>3, <2>4, <2>5, <2>10, <2>11
    <3>3. Mirrors(window', LzxWindow, posn', plain', lz'.options.ref)
      BY <1>3, <2>4, <2>5
    <3>4. optr' = oend' /\ Follows(window', optr', oend', written', plain')
      BY <1>3, <2>5, <2>6
    <3> QED BY <1>1, <1>3, <2>4, <2>5, <2>11, <3>1, <3>2, <3>3, <3>4 DEF LzxInv, LzxInFrame
  <2> QED BY <1>7, <2>5, <2>7, <2>8, <2>9
<1>9. CASE LzxFrameBegins
  <2>1. /\ pc = "frame" /\ lz.frame < lz.endFrame
        /\ UNCHANGED <<want, window, posn, optr, oend, plain, written, damaged>>
    BY <1>9 DEF LzxFrameBegins
  <2>2. CASE AtReset /\ lz.remaining # 0
    <3>1. err' = "decrunch" /\ pc' = "idle" /\ UNCHANGED lz
      BY <1>9, <2>2 DEF LzxFrameBegins, Fail
    <3> QED BY <1>1, <1>6, <2>1, <3>1
  <2>3. CASE ~(AtReset /\ lz.remaining # 0)
    <3> DEFINE todo == lz.framePosn + FrameSize - posn
               size == FrameSize
               base == IF AtReset THEN Reset ELSE lz
    <3>1. /\ pc' = "decode" /\ UNCHANGED err
          /\ lz' = [base EXCEPT !.size = size, !.todo = todo]
      BY <1>9, <2>3 DEF LzxFrameBegins
    <3>2. optr = oend
      <4> SUFFICES ASSUME want = 0, optr # oend PROVE FALSE
        BY <1>3, <2>1
      <4> DEFINE q == asked \div LzxFrame
      <4>1. q \in Nat /\ asked % LzxFrame \in 0 .. LzxFrame - 1 /\ asked = LzxFrame * q + (asked % LzxFrame)
        BY <1>0, <1>1, DivMod
      <4>2. lz.endFrame = q + 1
        BY <1>3, <2>1
      <4> HIDE DEF q
      <4>3. lz.frame <= q
        BY <1>5, <2>1, <4>1, <4>2
      <4> DEFINE k == lz.frame
      <4>4. k \in Nat /\ k <= q
        BY <1>5, <4>3
      <4> HIDE DEF k
      <4>5. LzxFrame * k <= LzxFrame * q /\ LzxFrame * k \in Nat /\ LzxFrame * q \in Nat
        BY <1>0, <4>1, <4>4
      <4>6. Framed <= LzxFrame * k
        BY <1>3 DEF WholeFrames, k
      <4>7. Framed > asked
        BY <1>1, <1>2 DEF Framed
      <4> QED BY <1>0, <1>1, <1>5, <4>1, <4>5, <4>6, <4>7
    <3>3. Framed = Len(written) /\ ~InFrame
      BY <1>1, <2>1, <3>2 DEF Framed, InFrame
    <3>4. /\ size \in Nat /\ lz.framePosn + size <= LzxWindow
          /\ WholeFrames(lz.frame + 1, Framed + size, lz.framePosn + size, total)
      <4> DEFINE known == KnownLength
      <4>1. known \in {0, total} /\ (known = 0 => lz.frame < (total - 1) \div LzxFrame)
        <5>1. CASE lz.options.told = "start"
          BY <1>1, <5>1 DEF KnownLength
        <5>2. CASE lz.options.told # "start"
          <6>1. lz.options.told = "last block"
            BY <1>5, <5>2, LzxAssumption
          <6>2. lz.frame >= (total - 1) \div LzxFrame \/ lz.frame < (total - 1) \div LzxFrame
            <7> DEFINE m == total - 1
            <7>1. m \in Nat
              BY <1>1
            <7> HIDE DEF m
            <7>2. m \div LzxFrame \in Nat
              BY <1>0, <7>1, DivMod
            <7>3. lz.frame >= m \div LzxFrame \/ lz.frame < m \div LzxFrame
              BY <1>5, <7>2
            <7> QED BY <7>3 DEF m
          <6> QED BY <1>1, <6>1, <6>2 DEF KnownLength
        <5> QED BY <5>1, <5>2
      <4>2. size = IF known # 0 /\ known - Framed < LzxFrame THEN known - Framed ELSE LzxFrame
        BY <3>3 DEF FrameSize
      <4> DEFINE n == lz.frame
                 p == lz.framePosn
                 bytes == Framed
      <4>3. /\ n \in Nat /\ p \in Nat /\ bytes \in Nat /\ WholeFrames(n, bytes, p, total) /\ p < LzxWindow
            /\ known \in {0, total} /\ (known = 0 => n < (total - 1) \div LzxFrame)
            /\ size = IF known # 0 /\ known - bytes < LzxFrame THEN known - bytes ELSE LzxFrame
        BY <1>3, <1>5, <4>1, <4>2
      <4> HIDE DEF known, n, p, bytes, size
      <4>4. size \in Nat /\ p + size <= LzxWindow /\ WholeFrames(n + 1, bytes + size, p + size, total)
        BY <1>1, <4>3, FrameFits
      <4> QED BY <4>4 DEF n, p, bytes
    <3>5. posn = lz.framePosn
      BY <1>3, <3>3
    <3>6. todo = size
      <4>1. size \in Nat /\ todo = lz.framePosn + size - posn
        BY <3>4
      <4> HIDE DEF size, todo
      <4> QED BY <1>1, <3>5, <4>1
    <3> HIDE DEF todo, size
    <3>7. /\ base \in LzxStates /\ base.R = base.trueR /\ base.frame = lz.frame
          /\ base.framePosn = lz.framePosn /\ base.options = lz.options /\ base.endFrame = lz.endFrame
      <4>1. NoRepeats \in Triples
        BY <1>0 DEF NoRepeats, Triples
      <4>2. CASE AtReset
        BY <1>1, <4>1, <4>2 DEF Reset, LzxStates, Triples
      <4>3. CASE ~AtReset
        BY <1>1, <4>3
      <4> QED BY <4>2, <4>3
    <3> HIDE DEF base
    <3>8. /\ lz' \in LzxStates /\ lz'.R = lz'.trueR /\ lz'.frame = lz.frame
          /\ lz'.framePosn = lz.framePosn /\ lz'.options = lz.options /\ lz'.endFrame = lz.endFrame
          /\ lz'.size = size /\ lz'.todo = size
      BY <3>1, <3>4, <3>6, <3>7 DEF LzxStates
    <3>9. UNCHANGED <<want, window, posn, optr, oend, plain, written, damaged, err>> /\ pc' = "decode"
      BY <2>1, <3>1
    <3>10. Typed'
      BY <1>0, <3>9 DEF Sound, Typed
    <3>11. Accounts'
      BY <1>0, <1>1, <1>2, <3>9 DEF Accounts
    <3>12. Framed' = Framed
      BY <3>9 DEF Framed
    <3>13. LzxInv'
      <4>1. WholeFrames(lz'.frame, Framed', lz'.framePosn, total')
        BY <1>0, <1>3, <3>8, <3>12
      <4>2. InFrame'
        BY <3>9 DEF InFrame
      <4>3. lz'.endFrame = asked' \div LzxFrame + 1
        BY <1>0, <1>3, <2>1, <3>8
      <4>4. Mirrors(window', LzxWindow, posn', plain', lz'.options.ref)
        BY <1>3, <3>8, <3>9
      <4> QED BY <1>1, <1>3, <3>8, <3>9, <4>1, <4>2, <4>3, <4>4 DEF LzxInv
    <3>14. LzxInFrame'
      <4>1. Len(plain) = Framed + (posn - lz.framePosn)
        BY <1>1, <1>3, <1>5, <3>3, <3>5
      <4>2. WholeFrames(lz'.frame + 1, Framed' + lz'.size, lz'.framePosn + lz'.size, total')
        BY <1>0, <3>4, <3>8, <3>12
      <4>3. /\ optr' = oend' /\ lz'.framePosn <= posn' /\ Len(plain') = Framed' + (posn' - lz'.framePosn)
            /\ lz'.framePosn + lz'.size <= LzxWindow /\ posn' + lz'.todo = lz'.framePosn + lz'.size
        BY <1>1, <1>5, <3>2, <3>4, <3>5, <3>8, <3>9, <3>12, <4>1
      <4> QED BY <3>9, <4>2, <4>3 DEF LzxInFrame
    <3> QED BY <1>7, <3>9, <3>10, <3>11, <3>13, <3>14
  <2> QED BY <2>2, <2>3
<1>10. CASE LzxReturns
  <2>1. /\ pc = "frame" /\ UNCHANGED <<want, window, posn, optr, oend, lz, plain, written, damaged>>
    BY <1>10 DEF LzxReturns
  <2>2. CASE want # 0
    <3>1. err' = "decrunch" /\ pc' = "idle"
      BY <1>10, <2>2 DEF LzxReturns, Fail
    <3> QED BY <1>1, <1>6, <2>1, <3>1
  <2>3. CASE want = 0
    <3>1. pc' = "idle" /\ UNCHANGED err
      BY <1>10, <2>3 DEF LzxReturns
    <3>2. Typed'
      BY <1>0, <2>1, <3>1 DEF Sound, Typed
    <3>3. Accounts'
      BY <1>0, <1>1, <1>2, <2>1, <2>3, <3>1 DEF Accounts
    <3>4. ~InFrame /\ Framed = Len(written) + (oend - optr)
      BY <2>1 DEF InFrame, Framed
    <3>5. Kept'
      BY <1>3, <2>1, <3>1, <3>4 DEF Kept
    <3>6. LzxInv' /\ LzxInFrame'
      <4>1. Framed' = Framed /\ ~InFrame'
        BY <2>1, <3>1 DEF Framed, InFrame
      <4> QED BY <1>0, <1>1, <1>3, <2>1, <3>1, <3>4, <4>1 DEF LzxInv, LzxInFrame
    <3> QED BY <1>0, <3>2, <3>3, <3>5, <3>6 DEF Sound, ZipInv, QtmInv
  <2> QED BY <2>2, <2>3
<1>11. ASSUME NEW type \in {"verbatim", "uncompressed"}, NEW length \in 1 .. total,
              NEW repeats \in LzxRepeats, LzxBlock(type, length, repeats)
       PROVE  Sound'
  <2>1. /\ pc = "decode" /\ lz.todo > 0 /\ lz.remaining = 0
        /\ UNCHANGED <<want, window, posn, optr, oend, plain, written, damaged>>
    BY <1>11 DEF LzxBlock
  <2>2. CASE Realigns # lz.pad
    <3>1. err' = "decrunch" /\ pc' = "idle" /\ UNCHANGED lz
      BY <1>11, <2>2 DEF LzxBlock, Fail
    <3> QED BY <1>1, <1>6, <2>1, <3>1
  <2>3. CASE Realigns = lz.pad
    <3> DEFINE R == IF type = "uncompressed" THEN repeats ELSE lz.R
               trueR == IF type = "uncompressed" THEN repeats ELSE lz.trueR
               pad == (type = "uncompressed" /\ length % 2 = 1)
    <3>1. /\ UNCHANGED <<err, pc>>
          /\ lz' = [lz EXCEPT !.blockType = type, !.remaining = length, !.blockLength = length,
                              !.R = R, !.trueR = trueR, !.pad = pad]
      BY <1>11, <2>3 DEF LzxBlock
    <3>2. length \in Nat
      BY <1>1
    <3>3. R \in Triples /\ trueR = R
      <4>1. repeats \in Triples
        BY LzxAssumption DEF Triples
      <4> QED BY <1>1, <1>5, <4>1
    <3>4. pad \in BOOLEAN
      OBVIOUS
    <3> HIDE DEF R, trueR, pad
    <3>5. lz' \in LzxStates
      BY <1>1, <3>1, <3>2, <3>3, <3>4 DEF LzxStates, Triples
    <3>6. /\ lz'.R = R /\ lz'.trueR = trueR /\ lz'.frame = lz.frame /\ lz'.todo = lz.todo
          /\ lz'.framePosn = lz.framePosn /\ lz'.options = lz.options /\ lz'.endFrame = lz.endFrame
          /\ lz'.size = lz.size
      BY <1>1, <3>1 DEF LzxStates
    <3>7. UNCHANGED <<want, window, posn, optr, oend, plain, written, damaged, err, pc>>
      BY <2>1, <3>1
    <3>8. InFrame
      BY <2>1 DEF InFrame
    <3> QED BY <1>1, <1>3, <1>4, <1>20, <1>21, <2>1, <3>3, <3>5, <3>6, <3>7, <3>8
  <2> QED BY <2>2, <2>3
<1>12. CASE LzxRun
  <2> DEFINE run == AtMost(lz.remaining, lz.todo)
             todo == lz.todo - run
             remaining == lz.remaining - run
  <2>1. /\ pc = "decode" /\ lz.todo > 0 /\ lz.remaining > 0 /\ pc' = "symbols"
        /\ lz' = [lz EXCEPT !.run = run, !.todo = todo, !.remaining = remaining]
        /\ UNCHANGED <<want, window, posn, optr, oend, err, plain, written, damaged>>
    BY <1>12 DEF LzxRun
  <2>2. /\ run \in Int /\ todo \in Nat /\ remaining \in Nat /\ run + todo = lz.todo
        /\ todo > 0 => remaining = 0
    BY <1>5 DEF AtMost
  <2> HIDE DEF run, todo, remaining
  <2>3. lz' \in LzxStates
    BY <1>1, <2>1, <2>2 DEF LzxStates
  <2>4. /\ lz'.R = lz.R /\ lz'.trueR = lz.trueR /\ lz'.frame = lz.frame /\ lz'.todo = todo
        /\ lz'.framePosn = lz.framePosn /\ lz'.options = lz.options /\ lz'.endFrame = lz.endFrame
        /\ lz'.size = lz.size /\ lz'.run = run /\ lz'.remaining = remaining
    BY <1>1, <2>1 DEF LzxStates
  <2>5. UNCHANGED <<want, window, posn, optr, oend, err, plain, written, damaged>> /\ pc' = "symbols"
    BY <2>1
  <2>6. InFrame
    BY <2>1 DEF InFrame
  <2>7. posn + run + todo = lz.framePosn + lz.size
    BY <1>1, <1>5, <1>20, <2>1, <2>2
  <2> QED BY <1>1, <1>3, <1>4, <1>21, <2>2, <2>3, <2>4, <2>5, <2>6, <2>7
<1>13. CASE LzxLiteral
  <2> DEFINE run == lz.run - 1
  <2>1. /\ pc = "symbols" /\ lz.run > 0
        /\ window' = [window EXCEPT ![posn] = NextLiteral] /\ plain' = Append(plain, NextLiteral)
        /\ posn' = posn + 1 /\ lz' = [lz EXCEPT !.run = run]
        /\ UNCHANGED <<pc, want, optr, oend, err, written, damaged>>
    BY <1>13 DEF LzxLiteral, Decoding
  <2>2. NextLiteral \in Int /\ run \in Int /\ InFrame
    BY <1>1, <1>5, <2>1 DEF NextLiteral, InFrame
  <2>3. posn < LzxWindow
    <3>1. /\ posn + lz.run + lz.todo = lz.framePosn + lz.size /\ lz.run > 0
          /\ lz.framePosn + lz.size <= LzxWindow
      BY <1>4, <1>20, <2>1, <2>2
    <3>2. /\ posn \in Nat /\ lz.run \in Int /\ lz.todo \in Nat /\ lz.framePosn \in Nat
          /\ lz.size \in Nat /\ LzxWindow \in Nat
      BY <1>0, <1>1, <1>5
    <3> QED BY <3>1, <3>2
  <2> HIDE DEF run, NextLiteral
  <2>4. lz' \in LzxStates
    BY <1>1, <2>1, <2>2 DEF LzxStates
  <2>5. /\ lz'.R = lz.R /\ lz'.trueR = lz.trueR /\ lz'.frame = lz.frame /\ lz'.todo = lz.todo
        /\ lz'.framePosn = lz.framePosn /\ lz'.options = lz.options /\ lz'.endFrame = lz.endFrame
        /\ lz'.size = lz.size /\ lz'.run = run /\ lz'.remaining = lz.remaining
    BY <1>1, <2>1 DEF LzxStates
  <2>6. UNCHANGED <<pc, want, optr, oend, err, written, damaged>> /\ posn' = posn + 1 /\ pc = "symbols"
    BY <2>1
  <2>7. /\ plain' \in Bytes /\ Len(plain') = Len(plain) + 1 /\ Begins(plain, plain')
    BY <1>1, <2>1, <2>2, AppendBegins
  <2>8. Begins(written, plain')
    BY <1>1, <2>7, BeginsTransitive
  <2>9. window' \in Windows(LzxWindow) /\ Mirrors(window', LzxWindow, posn', plain', lz.options.ref)
    BY <1>0, <1>1, <1>3, <1>5, <2>1, <2>2, <2>3, PutMirrors
  <2>10. posn' \in Nat /\ posn' <= LzxWindow
    BY <1>0, <1>1, <2>3, <2>6
  <2>11. lz.framePosn <= posn' /\ Len(plain') = Framed + (posn' - lz.framePosn)
    <3>1. lz.framePosn <= posn /\ Len(plain) = Framed + (posn - lz.framePosn)
      BY <1>4, <2>2
    <3>2. posn' = posn + 1 /\ Len(plain') = Len(plain) + 1
      BY <2>6, <2>7
    <3>3. posn \in Nat /\ lz.framePosn \in Nat /\ Framed \in Nat
      BY <1>1, <1>5
    <3> HIDE DEF Framed
    <3> QED BY <3>1, <3>2, <3>3
  <2>12. posn' + run + lz.todo = lz.framePosn + lz.size /\ (lz.todo > 0 => lz.remaining = 0)
    <3>1. posn + lz.run + lz.todo = lz.framePosn + lz.size /\ (lz.todo > 0 => lz.remaining = 0)
      BY <1>20, <2>6
    <3>2. /\ lz.run \in Int /\ posn \in Nat /\ lz.todo \in Nat /\ run = lz.run - 1
          /\ posn' = posn + 1
      BY <1>1, <1>5, <2>6 DEF run
    <3> QED BY <3>1, <3>2
  <2> QED BY <1>1, <1>21, <2>2, <2>4, <2>5, <2>6, <2>7, <2>8, <2>9, <2>10, <2>11, <2>12
<1>14. ASSUME NEW slot \in 0 .. 3, NEW new \in LzxOffsets, NEW len \in LzxLengths,
              LzxMatch(slot, new, len)
       PROVE  Sound'
  <2> DEFINE off == IF slot < 3 THEN lz.R[slot + 1] ELSE new
             trueOff == IF slot < 3 THEN lz.trueR[slot + 1] ELSE new
             R == UsedRepeat(lz.R, slot, new)
             trueR == Promoted(lz.trueR, slot, new)
             run == lz.run - len
             zero == (lz.zero \/ off = 0)
             ref == lz.options.ref
  <2>1. /\ pc = "symbols" /\ lz.run > 0 /\ UNCHANGED <<want, optr, oend, written>>
        /\ damaged' = (damaged \/ len > lz.run
                          \/ trueOff \notin 1 .. AtMost(Len(plain) + ref, LzxWindow))
    BY <1>14 DEF LzxMatch, Decoding
  <2>2. damaged' \in BOOLEAN
    BY <2>1
  <2>3. CASE posn + len > LzxWindow \/ BeyondStream(off)
    <3>1. err' = "decrunch" /\ pc' = "idle" /\ UNCHANGED <<window, posn, plain, lz>>
      BY <1>14, <2>3 DEF LzxMatch, Fail
    <3>2. UNCHANGED <<want, optr, oend, written>>
      BY <2>1
    <3> QED BY <1>6, <2>2, <3>1, <3>2
  <2>4. CASE ~(posn + len > LzxWindow \/ BeyondStream(off))
    <3>1. /\ window' = CopyMatch(window, LzxWindow, posn, off, len)
          /\ posn' = posn + len
          /\ plain' = WithCopy(plain, Distance(trueOff), len, ref)
          /\ lz' = [lz EXCEPT !.run = run, !.zero = zero, !.R = R, !.trueR = trueR]
          /\ UNCHANGED <<err, pc>>
      BY <1>14, <2>4 DEF LzxMatch
    <3>2. new \in Nat /\ len \in Nat /\ posn + len <= LzxWindow /\ ref \in Nat
      BY <1>0, <1>1, <1>5, <2>4
    <3>3. off \in Nat /\ trueOff = off /\ R \in Triples /\ trueR = R
      BY <1>1, <1>5, <3>2, RepeatsArePromoted
    <3>13. ~BeyondStream(off) /\ zero \in BOOLEAN
      BY <1>1, <2>4 DEF LzxStates
    <3>4. run \in Int /\ InFrame /\ run = lz.run - len
      BY <1>5, <2>1, <3>2 DEF InFrame
    <3> HIDE DEF off, trueOff, R, trueR, run, zero
    <3>5. /\ window' \in Windows(LzxWindow) /\ plain' \in Bytes
          /\ Len(plain') = Len(plain) + len /\ Begins(plain, plain')
          /\ Mirrors(window', LzxWindow, posn', plain', ref)
      <4>1. Mirrors(window, LzxWindow, posn, plain, ref)
        BY <1>3
      <4> HIDE DEF ref
      <4>2. /\ CopyMatch(window, LzxWindow, posn, off, len) \in Windows(LzxWindow)
            /\ WithCopy(plain, Distance(off), len, ref) \in Bytes
            /\ Len(WithCopy(plain, Distance(off), len, ref)) = Len(plain) + len
            /\ Begins(plain, WithCopy(plain, Distance(off), len, ref))
            /\ Mirrors(CopyMatch(window, LzxWindow, posn, off, len), LzxWindow, posn + len,
                       WithCopy(plain, Distance(off), len, ref), ref)
        BY <1>1, <3>2, <3>3, <3>13, <4>1, RingMatchMirrors
      <4> QED BY <3>1, <3>3, <4>2
    <3>6. Begins(written, plain')
      BY <1>1, <3>5, BeginsTransitive
    <3>7. lz' \in LzxStates
      BY <1>1, <3>1, <3>3, <3>4, <3>13 DEF LzxStates, Triples
    <3>8. /\ lz'.R = R /\ lz'.trueR = trueR /\ lz'.frame = lz.frame /\ lz'.todo = lz.todo
          /\ lz'.framePosn = lz.framePosn /\ lz'.options = lz.options /\ lz'.endFrame = lz.endFrame
          /\ lz'.size = lz.size /\ lz'.run = run /\ lz'.remaining = lz.remaining
      BY <1>1, <3>1 DEF LzxStates
    <3>9. UNCHANGED <<pc, want, optr, oend, err, written>> /\ posn' = posn + len /\ pc = "symbols"
      BY <2>1, <3>1
    <3>10. posn' \in Nat /\ posn' <= LzxWindow
      BY <1>1, <3>2, <3>9
    <3>11. lz.framePosn <= posn' /\ Len(plain') = Framed + (posn' - lz.framePosn)
      <4>1. lz.framePosn <= posn /\ Len(plain) = Framed + (posn - lz.framePosn)
        BY <1>4, <3>4
      <4>2. lz.framePosn \in Nat /\ posn \in Nat /\ Framed \in Nat /\ len \in Nat
        BY <1>1, <1>5, <3>2
      <4>3. posn' = posn + len /\ Len(plain') = Len(plain) + len
        BY <3>5, <3>9
      <4> HIDE DEF Framed
      <4> QED BY <4>1, <4>2, <4>3
    <3>12. posn' + run + lz.todo = lz.framePosn + lz.size /\ (lz.todo > 0 => lz.remaining = 0)
      BY <1>1, <1>5, <1>20, <3>2, <3>4, <3>9
    <3> QED BY <1>21, <2>2, <3>3, <3>4, <3>5, <3>6, <3>7, <3>8, <3>9, <3>10, <3>11, <3>12
  <2> QED BY <2>3, <2>4
<1>15. CASE LzxRunEnds
  <2>1. /\ pc = "symbols" /\ lz.run <= 0
        /\ UNCHANGED <<want, window, posn, optr, oend, plain, written, damaged>>
    BY <1>15 DEF LzxRunEnds
  <2>2. CASE -lz.run > lz.remaining
    <3>1. err' = "decrunch" /\ pc' = "idle" /\ UNCHANGED lz
      BY <1>15, <2>2 DEF LzxRunEnds, Fail
    <3> QED BY <1>1, <1>6, <2>1, <3>1
  <2>3. CASE ~(-lz.run > lz.remaining)
    <3> DEFINE remaining == lz.remaining + lz.run
    <3>1. /\ lz' = [lz EXCEPT !.remaining = remaining, !.run = 0] /\ pc' = "decode" /\ UNCHANGED err
      BY <1>15, <2>3 DEF LzxRunEnds
    <3>2. remaining \in Nat
      BY <1>5, <2>3
    <3>12. 0 \in Int
      OBVIOUS
    <3> HIDE DEF remaining
    <3>3. lz' \in LzxStates
      BY <1>1, <3>1, <3>2, <3>12 DEF LzxStates
    <3>4. /\ lz'.R = lz.R /\ lz'.trueR = lz.trueR /\ lz'.frame = lz.frame /\ lz'.todo = lz.todo
          /\ lz'.framePosn = lz.framePosn /\ lz'.options = lz.options /\ lz'.endFrame = lz.endFrame
          /\ lz'.size = lz.size
      BY <1>1, <3>1 DEF LzxStates
    <3>5. UNCHANGED <<want, window, posn, optr, oend, plain, written, damaged, err>> /\ pc' = "decode"
      BY <2>1, <3>1
    <3>6. InFrame
      BY <2>1 DEF InFrame
    <3>7. lz.todo > 0 => posn + lz.todo = lz.framePosn + lz.size
      BY <1>1, <1>5, <1>20, <2>1, <2>3
    <3> QED BY <1>1, <1>3, <1>4, <1>21, <3>3, <3>4, <3>5, <3>6, <3>7
  <2> QED BY <2>2, <2>3
<1>16. CASE LzxFrameEnds
  <2>1. pc = "decode" /\ UNCHANGED <<window, plain, damaged>>
    BY <1>16 DEF LzxFrameEnds
  <2>2. CASE ~FrameChecks
    <3>1. err' = "decrunch" /\ pc' = "idle" /\ UNCHANGED <<want, posn, optr, oend, lz, written>>
      BY <1>16, <2>2 DEF LzxFrameEnds, Fail
    <3> QED BY <1>1, <1>6, <2>1, <3>1
  <2>3. CASE FrameChecks
    <3> DEFINE n == AtMost(want, lz.size)
               p == lz.framePosn
               j == lz.framePosn + n
               m == lz.framePosn + lz.size
               next == written \o Slice(window, p, j)
    <3>1. /\ written' = next /\ want' = want - n /\ optr' = j /\ oend' = m
          /\ posn' = Wrapped(posn) /\ lz' = [lz EXCEPT !.framePosn = Wrapped(m), !.frame = @ + 1]
          /\ pc' = "frame" /\ UNCHANGED err
      BY <1>16, <2>3 DEF LzxFrameEnds
    <3>2. posn = m /\ InFrame /\ optr = oend
      BY <1>1, <1>5, <2>1, <2>3 DEF FrameChecks, InFrame
    <3>3. /\ n \in Nat /\ n <= want /\ n <= lz.size /\ (n = want \/ n = lz.size)
          /\ j \in Nat /\ m \in Nat /\ p \in Nat /\ p <= j /\ j <= m /\ m <= LzxWindow
          /\ j <= LzxWindow /\ j - p = n /\ p <= m /\ m - j = lz.size - n
      <4>1. want \in Nat /\ lz.size \in Nat /\ p \in Nat
        BY <1>1, <1>5
      <4>2. n \in Nat /\ n <= want /\ n <= lz.size /\ (n = want \/ n = lz.size)
        BY <4>1 DEF AtMost
      <4>3. m <= LzxWindow /\ LzxWindow \in Nat
        BY <1>0, <1>1, <3>2
      <4> HIDE DEF n
      <4>4. j \in Nat /\ m \in Nat /\ p <= j /\ j <= m /\ p <= m /\ j - p = n /\ m - j = lz.size - n
        BY <4>1, <4>2
      <4>5. j <= LzxWindow
        <5> HIDE DEF j, m
        <5> QED BY <4>3, <4>4
      <4> QED BY <4>1, <4>2, <4>3, <4>4, <4>5
    <3>4. Framed = Len(written) /\ Len(plain) = Len(written) + (m - p)
      BY <1>1, <1>4, <1>5, <3>2 DEF Framed
    <3>5. m - p = lz.size
      BY <1>5
    <3>6. Wrapped(m) \in Nat /\ Wrapped(m) < LzxWindow /\ WholeFrames(lz.frame + 1, Framed + lz.size, Wrapped(m), total)
      <4>1. Framed + lz.size \in Nat /\ WholeFrames(lz.frame + 1, Framed + lz.size, m, total)
        BY <1>4, <1>5, <3>2
      <4> HIDE DEF m
      <4> QED BY <3>3, <4>1, FramesWrap
    <3>7. lz.frame + 1 \in Nat
      BY <1>5
    <3>8. UNCHANGED <<window, plain, damaged, err>> /\ want' = want - n /\ optr' = j /\ oend' = m
          /\ pc' = "frame" /\ posn' = Wrapped(m)
      BY <2>1, <3>1, <3>2
    <3>9. lz' = [lz EXCEPT !.framePosn = Wrapped(m), !.frame = lz.frame + 1]
      BY <3>1
    <3>10. Mirrors(window, LzxWindow, Wrapped(m), plain, lz.options.ref)
      <4>1. CASE m = LzxWindow
        <5> DEFINE ref == lz.options.ref
        <5>1. Mirrors(window, LzxWindow, LzxWindow, plain, ref) /\ Wrapped(m) = 0
          BY <1>3, <3>2, <4>1 DEF Wrapped
        <5> HIDE DEF ref, m
        <5>2. Mirrors(window, LzxWindow, 0, plain, ref)
          BY <1>0, <5>1, WrapMirrors
        <5> QED BY <5>1, <5>2 DEF ref
      <4>2. CASE m # LzxWindow
        BY <1>3, <3>2, <4>2 DEF Wrapped
      <4> QED BY <4>1, <4>2
    <3>11. Follows(window, p, m, written, plain)
      <4> DEFINE ref == lz.options.ref
      <4>1. Mirrors(window, LzxWindow, m, plain, ref) /\ ref \in Nat
        BY <1>3, <1>5, <3>2
      <4> HIDE DEF p, m, ref
      <4> QED BY <1>0, <1>1, <3>3, <3>4, <4>1, MirrorsFollow
    <3>12. written' = next
      BY <3>1
    <3> HIDE DEF n, p, j, m
    <3>13. /\ Follows(window, p, j, written, plain)
           /\ \A r \in Bytes : Len(r) = Len(written) + (j - p) => Follows(window, j, m, r, plain)
      BY <1>1, <3>3, <3>11, FollowsPart
    <3>14. /\ next \in Bytes /\ Len(next) = Len(written) + (j - p) /\ Begins(next, plain)
      <4>1. /\ written \in Bytes /\ plain \in Bytes /\ Begins(written, plain) /\ LzxWindow \in Nat
            /\ window \in Windows(LzxWindow) /\ p \in Nat /\ j \in Nat /\ p <= j /\ j <= LzxWindow
            /\ Follows(window, p, j, written, plain)
        BY <1>0, <1>1, <3>3, <3>13
      <4> QED BY <4>1, WriteSlice
    <3> HIDE DEF next
    <3>15. /\ written' \in Bytes /\ Len(written') = Len(written) + n /\ Begins(written', plain)
           /\ Follows(window, j, m, written', plain)
      BY <3>3, <3>12, <3>13, <3>14
    <3>16. lz' \in LzxStates
      BY <1>1, <3>6, <3>7, <3>9 DEF LzxStates
    <3>17. /\ lz'.R = lz.R /\ lz'.trueR = lz.trueR /\ lz'.frame = lz.frame + 1
           /\ lz'.framePosn = Wrapped(m) /\ lz'.options = lz.options /\ lz'.endFrame = lz.endFrame
      BY <1>1, <3>9 DEF LzxStates
    <3>18. Len(written') + want' = asked /\ want' \in Nat /\ Len(written') <= asked
      BY <1>1, <1>2, <3>3, <3>8, <3>15
    <3>19. Typed'
      BY <1>0, <1>1, <3>3, <3>6, <3>8, <3>15, <3>18 DEF Sound, Typed
    <3>20. Accounts'
      BY <1>0, <1>1, <1>2, <3>8, <3>15, <3>18 DEF Accounts
    <3>21. Framed' = Framed + lz.size
      <4> DEFINE size == lz.size
      <4>1. Framed' = Len(written') + (oend' - optr') /\ size \in Nat /\ m - j = size - n
        BY <1>5, <3>3 DEF Framed
      <4> HIDE DEF size
      <4>2. Framed' = Framed + size
        BY <1>1, <3>3, <3>4, <3>8, <3>15, <4>1
      <4> QED BY <4>2 DEF size
    <3>22. Len(plain) = Framed + lz.size
      BY <3>4, <3>5
    <3>23. optr' = oend' \/ want' = 0
      BY <1>1, <1>5, <3>3, <3>8
    <3>24. LzxInv'
      <4>1. WholeFrames(lz'.frame, Framed', lz'.framePosn, total')
        BY <1>0, <3>6, <3>17, <3>21
      <4>2. posn' = lz'.framePosn /\ Len(plain') = Framed' /\ lz'.framePosn < LzxWindow
        BY <3>6, <3>8, <3>17, <3>21, <3>22
      <4>3. lz'.endFrame = asked' \div LzxFrame + 1
        BY <1>0, <1>3, <3>2, <3>17
      <4>4. Mirrors(window', LzxWindow, posn', plain', lz'.options.ref)
        BY <3>8, <3>10, <3>17
      <4>5. Follows(window', optr', oend', written', plain')
        BY <3>8, <3>15
      <4>6. lz'.framePosn <= LzxWindow
        BY <1>0, <3>6, <3>17
      <4> QED BY <1>1, <3>8, <3>16, <3>17, <3>23, <4>1, <4>2, <4>3, <4>4, <4>5, <4>6 DEF LzxInv
    <3>25. LzxInFrame'
      BY <3>8 DEF LzxInFrame, InFrame
    <3> QED BY <1>7, <3>8, <3>19, <3>20, <3>24, <3>25
  <2> QED BY <2>2, <2>3
<1>17. CASE LzxWriteFails
  <2>1. /\ err' = "write" /\ pc' = "idle" /\ damaged' = TRUE
        /\ UNCHANGED <<want, window, posn, optr, oend, plain, written, lz>>
    BY <1>17 DEF LzxWriteFails, Fail
  <2> QED BY <1>6, <2>1
<1>18. CASE LzxDamage
  <2>1. /\ err' \in {"read", "decrunch"} /\ pc' = "idle" /\ damaged' = TRUE
        /\ UNCHANGED <<want, window, posn, optr, oend, plain, written, lz>>
    BY <1>18 DEF LzxDamage, Damage
  <2> QED BY <1>6, <2>1
<1> QED
  BY <1>8, <1>9, <1>10, <1>11, <1>12, <1>13, <1>14, <1>15, <1>16, <1>17, <1>18 DEF LzxNext

-----------------------------------------------------------------------------
(* The invariant holds in every reachable state.                            *)

\* A window nothing has been decoded into mirrors the empty stream, with the data that
\* comes before it at its end.
LEMMA NewWindowMirrors ==
    ASSUME NEW size \in Nat, NEW ref \in 0 .. size, NEW w,
           w = [i \in 0 .. size - 1 |-> IF i >= size - ref THEN i - size ELSE Junk]
    PROVE  w \in Windows(size) /\ Mirrors(w, size, 0, <<>>, ref)
<1>1. w \in Windows(size)
  BY DEF Windows, Junk
<1>2. ASSUME NEW off \in 1 .. size PROVE w[Source(size, 0, off, 0)] = Back(<<>>, off, ref)
  <2>1. Source(size, 0, off, 0) = size - off
    BY DEF Source
  <2>2. size - off \in 0 .. size - 1 /\ (size - off >= size - ref <=> off <= ref)
        /\ (size - off) - size = -off
    OBVIOUS
  <2>3. w[size - off] = IF off <= ref THEN -off ELSE Junk
    BY <2>2
  <2>4. Len(<<>>) = 0
    OBVIOUS
  <2>5. Back(<<>>, off, ref) = IF off <= ref THEN -off ELSE Junk
    BY <2>4 DEF Back
  <2> QED BY <2>1, <2>3, <2>5
<1> QED BY <1>1, <1>2 DEF Mirrors

\* The stream of each decoder, as init leaves it, satisfies the invariant.
LEMMA SoundInit == Init => Sound
<1> SUFFICES ASSUME Init PROVE Sound
  OBVIOUS
<1>0. /\ LzxWindow \in Nat /\ LzxWindow > 0 /\ LzxFrame \in Nat \ {0}
      /\ ZipFrame \in Nat /\ QtmWindow \in Nat /\ 0 \in Nat
  BY LzxAssumption, ZipAssumption, QtmAssumption
<1>1. InitDecoder /\ method \in Methods
  BY DEF Init, LzxInit, ZipInit, QtmInit, InitDecoder
<1>2. total \in Totals[method] /\ total \in Nat
  BY <1>1, RequestsAssumption DEF InitDecoder
<1>3. /\ pc = "idle" /\ want = 0 /\ posn = 0 /\ optr = 0 /\ oend = 0 /\ err = "ok"
      /\ plain = <<>> /\ written = <<>> /\ asked = 0 /\ damaged = FALSE
  BY <1>1 DEF InitDecoder
<1>4. <<>> \in Bytes /\ Len(<<>>) = 0 /\ Begins(<<>>, <<>>)
  BY DEF Bytes, Begins
<1>5. ASSUME window \in Windows(WindowSize) PROVE Typed /\ Accounts /\ Kept
  <2>1. WindowSize \in Nat
    BY SizeIsNat
  <2> HIDE DEF WindowSize
  <2>2. Typed
    <3>1. want \in Nat /\ asked \in Nat /\ asked <= total + 1
      <4>1. 0 <= total + 1
        BY <1>2
      <4> QED BY <1>0, <1>3, <4>1
    <3>5. damaged \in BOOLEAN
      BY <1>3
    <3>2. posn \in Nat /\ posn <= WindowSize /\ optr \in Nat /\ oend \in Nat
          /\ optr <= oend /\ oend <= WindowSize
      BY <1>0, <1>3, <2>1
    <3>3. err \in {"ok", "read", "write", "decrunch"} /\ plain \in Bytes /\ written \in Bytes
      BY <1>3, <1>4
    <3>4. method \in Methods /\ total \in Totals[method]
      BY <1>1, <1>2
    <3> QED BY <1>5, <3>1, <3>2, <3>3, <3>4, <3>5, Zenon DEF Typed
  <2>3. Accounts
    BY <1>3, <1>4 DEF Accounts
  <2>4. Follows(window, 0, 0, <<>>, <<>>)
    BY <1>4 DEF Follows
  <2>5. Kept
    BY <1>3, <1>4, <2>4 DEF Kept
  <2> QED BY <2>2, <2>3, <2>5
<1>6. CASE LzxInit
  <2>1. method = "lzx" /\ WindowSize = LzxWindow
    BY <1>6 DEF LzxInit, WindowSize
  <2>2. PICK options \in LzxOptions :
          /\ lz = [frame |-> 0, framePosn |-> 0, endFrame |-> 0, size |-> 0, todo |-> 0,
                   run |-> 0, remaining |-> 0, blockType |-> "invalid", blockLength |-> 0,
                   R |-> NoRepeats, trueR |-> NoRepeats, pad |-> FALSE, zero |-> FALSE,
                   options |-> options]
          /\ window = [i \in 0 .. LzxWindow - 1 |->
                          IF i >= LzxWindow - options.ref THEN i - LzxWindow ELSE Junk]
    BY <1>6 DEF LzxInit
  <2>3. options.ref \in 0 .. LzxWindow
    BY LzxAssumption
  <2> DEFINE ref == options.ref
  <2>4. window = [i \in 0 .. LzxWindow - 1 |-> IF i >= LzxWindow - ref THEN i - LzxWindow ELSE Junk]
    BY <2>2
  <2>5. ref \in 0 .. LzxWindow
    BY <2>3
  <2> HIDE DEF ref
  <2>6. window \in Windows(LzxWindow) /\ Mirrors(window, LzxWindow, 0, <<>>, ref)
    BY <1>0, <2>4, <2>5, NewWindowMirrors
  <2>7. NoRepeats \in Nat \X Nat \X Nat
    BY DEF NoRepeats
  <2>8. /\ lz.frame = 0 /\ lz.framePosn = 0 /\ lz.R = NoRepeats /\ lz.trueR = NoRepeats
        /\ lz.options = options
    BY <2>2
  <2>9. lz \in LzxStates
    <3>1. 0 \in Nat /\ 0 \in Int
      OBVIOUS
    <3> HIDE DEF NoRepeats
    <3> QED BY <2>2, <2>7, <3>1 DEF LzxStates
  <2>10. Typed /\ Accounts /\ Kept
    BY <1>5, <2>1, <2>6
  <2>13. 0 % LzxFrame = 0 /\ LzxFrame * 0 = 0
    <3>1. LzxFrame * 0 = 0 /\ LzxFrame * 0 + 0 = 0 /\ 0 \in 0 .. LzxFrame - 1
      BY <1>0
    <3>2. (LzxFrame * 0 + 0) % LzxFrame = 0
      BY <1>0, <3>1, DivUnique
    <3> QED BY <3>1, <3>2
  <2>14. WholeFrames(0, 0, 0, total)
    BY <1>0, <1>2, <2>13 DEF WholeFrames
  <2>15. Framed = 0
    BY <1>3, <1>4 DEF Framed
  <2>16. LzxInv
    <3>1. Mirrors(window, LzxWindow, posn, plain, lz.options.ref)
      BY <1>3, <2>6, <2>8 DEF ref
    <3>2. WholeFrames(lz.frame, Framed, lz.framePosn, total)
      BY <2>8, <2>14, <2>15
    <3>3. posn = lz.framePosn /\ Len(plain) = Framed /\ lz.framePosn < LzxWindow
      BY <1>0, <1>3, <1>4, <2>8, <2>15
    <3> QED BY <1>0, <1>3, <2>8, <2>9, <3>1, <3>2, <3>3 DEF LzxInv, InFrame
  <2>17. LzxInFrame
    BY <1>3 DEF LzxInFrame, InFrame
  <2> QED BY <2>1, <2>10, <2>16, <2>17 DEF Sound, ZipInv, QtmInv
<1>7. CASE ZipInit
  <2>1. method = "mszip" /\ WindowSize = ZipFrame
    BY <1>7 DEF ZipInit, WindowSize
  <2>2. PICK repair \in BOOLEAN :
          zip = [bytesOutput |-> 0, blocks |-> 0, lastBlock |-> FALSE,
                 huffman |-> FALSE, repair |-> repair]
    BY <1>7 DEF ZipInit
  <2>3. zip \in ZipStates
    BY <2>2 DEF ZipStates
  <2>4. window = [i \in 0 .. ZipFrame - 1 |-> IF i >= ZipFrame - 0 THEN i - ZipFrame ELSE Junk]
    BY <1>0, <1>7 DEF ZipInit
  <2>5. window \in Windows(ZipFrame) /\ Mirrors(window, ZipFrame, 0, <<>>, 0)
    <3>1. 0 \in 0 .. ZipFrame
      BY <1>0
    <3> QED BY <1>0, <2>4, <3>1, NewWindowMirrors
  <2>6. Typed /\ Accounts /\ Kept
    BY <1>5, <2>1, <2>5
  <2>9. ZipInv
    BY <1>3, <2>3, <2>5 DEF ZipInv
  <2> QED BY <2>1, <2>6, <2>9 DEF Sound, LzxInv, LzxInFrame, QtmInv
<1>8. CASE QtmInit
  <2>1. method = "qtm" /\ WindowSize = QtmWindow
    BY <1>8 DEF QtmInit, WindowSize
  <2>2. qtm = [todo |-> QtmFrame, frameEnd |-> 0, split |-> FALSE] /\ QtmFrame \in Nat
    BY <1>8, QtmAssumption DEF QtmInit
  <2>3. qtm \in QtmStates /\ qtm.todo >= 0
    BY <2>2 DEF QtmStates
  <2>4. window = [i \in 0 .. QtmWindow - 1 |-> IF i >= QtmWindow - 0 THEN i - QtmWindow ELSE Junk]
    BY <1>0, <1>8 DEF QtmInit
  <2>5. window \in Windows(QtmWindow) /\ Mirrors(window, QtmWindow, 0, <<>>, 0)
    <3>1. 0 \in 0 .. QtmWindow
      BY <1>0
    <3> QED BY <1>0, <2>4, <3>1, NewWindowMirrors
  <2>6. Typed /\ Accounts /\ Kept
    BY <1>5, <2>1, <2>5
  <2>9. QtmInv
    BY <1>3, <1>4, <2>3, <2>5 DEF QtmInv
  <2> QED BY <2>1, <2>6, <2>9 DEF Sound, LzxInv, LzxInFrame, ZipInv
<1> QED BY <1>6, <1>7, <1>8 DEF Init

\* Every step of a decoder keeps the invariant.
LEMMA SoundNext == Sound /\ [Next]_vars => Sound'
<1> SUFFICES ASSUME Sound, [Next]_vars PROVE Sound'
  OBVIOUS
<1>1. CASE Next
  BY <1>1, BeginIsSound, LzxIsSound, ZipIsSound, QtmIsSound DEF Next
<1>2. CASE UNCHANGED vars
  <2>1. UNCHANGED <<method, total, pc, want, window, posn, optr, oend, err,
                    plain, written, asked, damaged, lz, zip, qtm>>
    BY <1>2 DEF vars, decoderVars
  <2>2. Typed'
    BY <2>1 DEF Sound, Typed, WindowSize
  <2>3. Accounts' /\ Kept'
    BY <2>1 DEF Sound, Accounts, Kept, AtRest
  <2>4. LzxInv' /\ LzxInFrame'
    BY <2>1 DEF Sound, LzxInv, LzxInFrame, InFrame, Framed
  <2>5. ZipInv' /\ QtmInv'
    BY <2>1 DEF Sound, ZipInv, QtmInv, AtRest
  <2> QED BY <2>2, <2>3, <2>4, <2>5 DEF Sound
<1> QED BY <1>1, <1>2

\* The windows mirror the stream, for all decoders, sizes, streams and calls.
THEOREM SoundAlways == Spec => []Sound
BY SoundInit, SoundNext, PTL DEF Spec

\* The positions of each decoder stay in its window.
THEOREM Types == Spec => []TypeOK
<1>1. Sound => TypeOK
  <2> SUFFICES ASSUME Sound PROVE TypeOK
    OBVIOUS
  <2>1. Typed
    BY DEF Sound
  <2>2. DOMAIN window = 0 .. WindowSize - 1
    BY <2>1 DEF Typed, Windows
  <2>3. Cardinality(0 .. WindowSize - 1) = WindowSize
    BY SizeIsNat, FS_Interval
  <2>4. total \in Nat
    BY <2>1, RequestsAssumption DEF Typed
  <2> HIDE DEF WindowSize
  <2> QED BY <2>1, <2>2, <2>3, <2>4, SizeIsNat DEF Typed, TypeOK
<1> QED BY <1>1, SoundAlways, PTL

-----------------------------------------------------------------------------
(* The decoders do what Stream promises.                                    *)

\* What is written is never taken back.
LEMMA SliceExtends ==
    ASSUME NEW s \in Bytes, NEW w, NEW i \in Int, NEW j \in Int
    PROVE  Begins(s, s \o Slice(w, i, j))
<1> DEFINE n == IF j - i < 0 THEN 0 ELSE j - i
           u == Slice(w, i, j)
           Values == Int \cup {w[i + k - 1] : k \in 1 .. j - i}
<1>1. n \in Nat /\ 1 .. n = 1 .. j - i
  OBVIOUS
<1>2. u \in [1 .. n -> Values]
  BY <1>1 DEF Slice
<1> HIDE DEF n, u
<1>3. s \in Seq(Values) /\ u \in Seq(Values)
  <2>1. Len(s) \in Nat /\ s \in [1 .. Len(s) -> Values]
    BY DEF Bytes
  <2> HIDE DEF Values
  <2> QED BY <1>1, <1>2, <2>1, SeqDef
<1> HIDE DEF Values
<1>4. /\ Len(s \o u) = Len(s) + Len(u)
      /\ \A k \in 1 .. Len(s) + Len(u) : (s \o u)[k] = IF k <= Len(s) THEN s[k] ELSE u[k - Len(s)]
  BY <1>3, ConcatProperties
<1>5. Len(s) \in Nat /\ Len(u) \in Nat
  BY <1>3, LenProperties
<1>6. Begins(s, s \o u)
  BY <1>4, <1>5 DEF Begins
<1> QED BY <1>6 DEF u

\* A step of a call writes more of the stream, or nothing, and nothing when it ends the call.
LEMMA CallsWrite ==
    ASSUME Sound, Next, ~Idle
    PROVE  /\ UNCHANGED <<method, total, asked>>
           /\ Begins(written, written')
           /\ Idle' => UNCHANGED <<plain, written>>
<1>0. /\ written \in Bytes /\ optr \in Int /\ oend \in Int /\ want \in Int
      /\ Begins(written, written)
  BY DEF Sound, Typed, Begins, Bytes
<1>1. ASSUME UNCHANGED <<method, total, asked, written>>, Idle' => UNCHANGED plain
      PROVE  /\ UNCHANGED <<method, total, asked>>
             /\ Begins(written, written')
             /\ Idle' => UNCHANGED <<plain, written>>
  BY <1>0, <1>1
<1>2. ASSUME UNCHANGED <<method, total, asked>>, ~Idle', NEW w, NEW i \in Int, NEW j \in Int,
             written' = written \o Slice(w, i, j)
      PROVE  /\ UNCHANGED <<method, total, asked>>
             /\ Begins(written, written')
             /\ Idle' => UNCHANGED <<plain, written>>
  BY <1>0, <1>2, SliceExtends
<1>3. CASE Begin
  <2>1. CASE Flush
    <3>1. Pending \in Int
      BY <1>0 DEF Pending, AtMost
    <3>2. optr + Pending \in Int
      BY <1>0, <3>1
    <3>3. /\ written' = written \o Slice(window, optr, optr + Pending) /\ ~Idle'
          /\ UNCHANGED <<method, total, asked>>
      BY <2>1 DEF Flush, Idle
    <3> QED BY <1>0, <1>2, <3>2, <3>3
  <2>2. CASE FlushFails \/ Returns
    BY <1>1, <2>2 DEF FlushFails, Returns
  <2> QED BY <1>3, <2>1, <2>2 DEF Begin, Call
<1>4. CASE LzxNext
  <2>1. CASE LzxFrameEnds
    <3>1. lz.framePosn \in Int /\ lz.size \in Int
      BY <2>1 DEF Sound, LzxInv, LzxStates, LzxFrameEnds, InLzx
    <3>2. CASE FrameChecks
      <4>1. lz.framePosn + AtMost(want, lz.size) \in Int
        BY <1>0, <3>1 DEF AtMost
      <4>2. /\ written' = written \o Slice(window, lz.framePosn, lz.framePosn + AtMost(want, lz.size))
            /\ pc' = "frame" /\ UNCHANGED <<method, total, asked>>
        BY <2>1, <3>2 DEF LzxFrameEnds
      <4> QED BY <1>2, <3>1, <4>1, <4>2 DEF Idle
    <3>3. CASE ~FrameChecks
      BY <1>1, <2>1, <3>3 DEF LzxFrameEnds
    <3> QED BY <3>2, <3>3
  <2>2. CASE ~LzxFrameEnds
    <3>1. UNCHANGED <<method, total, asked, written>>
      BY <1>4, <2>2 DEF LzxNext, LzxStart, LzxFrameBegins, LzxReturns, LzxBlock, LzxRun, LzxLiteral,
         LzxMatch, LzxRunEnds, LzxWriteFails, LzxDamage, Damage
    <3>2. Idle' => UNCHANGED plain
      BY <1>4, <2>2 DEF LzxNext, LzxStart, LzxFrameBegins, LzxReturns, LzxBlock, LzxRun, LzxLiteral,
         LzxMatch, LzxRunEnds, LzxWriteFails, LzxDamage, Damage, Idle,
         Decoding, InLzx
    <3> QED BY <1>1, <3>1, <3>2
  <2> QED BY <2>1, <2>2
<1>5. CASE ZipNext
  <2>1. CASE ZipFrameEnds
    <3>1. zip.bytesOutput \in Int
      BY <2>1 DEF Sound, ZipInv, ZipStates, ZipFrameEnds, InZip
    <3>2. AtMost(want, zip.bytesOutput) \in Int /\ 0 \in Int
      BY <1>0, <3>1 DEF AtMost
    <3>3. /\ written' = written \o Slice(window, 0, AtMost(want, zip.bytesOutput))
          /\ ~Idle' /\ UNCHANGED <<method, total, asked>>
      BY <2>1 DEF ZipFrameEnds, Idle
    <3> QED BY <1>2, <3>2, <3>3
  <2>2. CASE ~ZipFrameEnds
    <3>1. UNCHANGED <<method, total, asked, written>>
      BY <1>5, <2>2 DEF ZipNext, ZipFrameBegins, ZipBlock, ZipLiteral, ZipMatch, Decoded, InflateFails,
         BlockEnds, ZipWriteFails, ZipDamage, Damage, ZipInputEnds, InputEnds
    <3>2. Idle' => UNCHANGED plain
      <4>1. ASSUME NEW e, NEW x, InflateFails(e, x) PROVE Idle' => UNCHANGED plain
        BY <4>1 DEF InflateFails, Idle
      <4>2. ASSUME NEW x, NEW bytes, InZip("bytes"), Decoded(x, bytes) PROVE Idle' => UNCHANGED plain
        BY <4>1, <4>2 DEF Decoded, Idle, InZip
      <4> QED BY <1>5, <2>2, <4>1, <4>2 DEF ZipNext, ZipFrameBegins, ZipBlock, ZipLiteral, ZipMatch,
              BlockEnds, ZipWriteFails, ZipDamage, Damage, ZipInputEnds, InputEnds, Idle
    <3> QED BY <1>1, <3>1, <3>2
  <2> QED BY <2>1, <2>2
<1>6. CASE QtmNext
  <2>0. QtmWindow \in Int /\ 0 \in Int
    BY QtmAssumption
  <2>1. CASE QtmWindowWraps
    <3>1. written' = written \o Slice(window, optr, oend) /\ ~Idle' /\ UNCHANGED <<method, total, asked>>
      BY <2>1 DEF QtmWindowWraps, Idle
    <3> QED BY <1>0, <1>2, <3>1
  <2>2. CASE QtmWritesRest
    <3>1. /\ written' = written \o Slice(window, optr, optr + want) /\ ~Idle'
          /\ UNCHANGED <<method, total, asked>>
      BY <2>2 DEF QtmWritesRest, Idle
    <3>2. optr + want \in Int
      BY <1>0
    <3> QED BY <1>0, <1>2, <3>1, <3>2
  <2>3. ASSUME NEW off, NEW len, QtmWrappingMatch(off, len)
        PROVE  /\ UNCHANGED <<method, total, asked>>
               /\ Begins(written, written')
               /\ Idle' => UNCHANGED <<plain, written>>
    <3> DEFINE first == CopyAround(window, posn, posn - off, Room)
    <3>1. CASE QtmWindow - optr > want
      BY <1>1, <2>3, <3>1 DEF QtmWrappingMatch
    <3>2. CASE ~(QtmWindow - optr > want)
      <4>1. /\ written' = written \o Slice(first, optr, QtmWindow) /\ pc' = "decoded"
            /\ UNCHANGED <<method, total, asked>>
        BY <2>3, <3>2 DEF QtmWrappingMatch
      <4> HIDE DEF first
      <4> QED BY <1>0, <1>2, <2>0, <4>1 DEF Idle
    <3> QED BY <3>1, <3>2
  <2>4. CASE /\ ~QtmWindowWraps /\ ~QtmWritesRest
             /\ ~\E off \in QtmOffsets, len \in QtmLengths : QtmWrappingMatch(off, len)
    <3>1. UNCHANGED <<method, total, asked, written>>
      BY <1>6, <2>4 DEF QtmNext, QtmDecodeMore, QtmLiteral, QtmMatch, QtmRunEnds, QtmDecoded,
         QtmWriteFails, QtmDamage, Damage, QtmInputEnds, InputEnds
    <3>2. Idle' => UNCHANGED plain
      BY <1>6, <2>4 DEF QtmNext, QtmDecodeMore, QtmLiteral, QtmMatch, QtmRunEnds, QtmDecoded,
         QtmWriteFails, QtmDamage, Damage, QtmInputEnds, InputEnds, DecodingQtm, InQtm, Idle
    <3> QED BY <1>1, <3>1, <3>2
  <2> QED BY <2>1, <2>2, <2>3, <2>4
<1> QED BY <1>3, <1>4, <1>5, <1>6 DEF Next

\* Between the calls there is nothing to do but call.
LEMMA IdleCalls == Next /\ Idle => \E n \in Requests : Call(n) /\ UNCHANGED <<lz, zip, qtm>>
BY DEF Next, Begin, Flush, FlushFails, Returns, Idle,
   LzxNext, LzxStart, LzxFrameBegins, LzxReturns, LzxBlock, LzxRun, LzxLiteral, LzxMatch, LzxRunEnds,
   LzxFrameEnds, LzxWriteFails, LzxDamage, BlockBegins, Decoding, InLzx,
   ZipNext, ZipFrameBegins, ZipBlock, ZipLiteral, ZipMatch, BlockEnds, ZipFrameEnds,
   ZipWriteFails, ZipDamage, ZipInputEnds, InZip,
   QtmNext, QtmDecodeMore, QtmLiteral, QtmMatch, QtmWrappingMatch, QtmRunEnds, QtmDecoded,
   QtmWindowWraps, QtmWritesRest, QtmWriteFails, QtmDamage, QtmInputEnds, DecodingQtm, InQtm

\* Every step is one that Stream allows, or none to it.
LEMMA StepsArePromised == Sound /\ Sound' /\ [Next]_vars => [Promise!Next]_(Promise!vars)
<1> SUFFICES ASSUME Sound, Sound', [Next]_vars PROVE Promise!Next \/ UNCHANGED Promise!vars
  OBVIOUS
<1>1. CASE UNCHANGED vars
  BY <1>1 DEF vars, decoderVars, Promise!vars, Idle
<1>2. CASE Next /\ ~Idle
  <2>1. /\ UNCHANGED <<method, total, asked>> /\ Begins(written, written')
        /\ Idle' => UNCHANGED <<plain, written>>
    BY <1>2, CallsWrite
  <2>2. /\ written \in Bytes /\ written' \in Bytes /\ plain' \in Bytes
        /\ Begins(written', plain') /\ Len(written') <= asked'
        /\ Idle' /\ err' = "ok" => Len(written') = asked'
    BY DEF Sound, Typed, Accounts, Idle
  <2>3. CASE Idle'
    <3>1. (Idle /\ err # "ok")' \/ Len(written) = asked
      BY <2>1, <2>2, <2>3
    <3> QED BY <1>2, <2>1, <2>3, <3>1 DEF Promise!Next, Promise!Return
  <2>4. CASE ~Idle'
    <3>1. IsPrefix(written, written') /\ IsPrefix(written', plain')
      BY <2>1, <2>2, BeginsIsPrefix
    <3>2. Promise!IsPrefix(written, written') /\ Promise!IsPrefix(written', plain')
      BY <3>1 DEF IsPrefix, Promise!IsPrefix
    <3> QED BY <1>2, <2>1, <2>2, <2>4, <3>2 DEF Promise!Next, Promise!Produce
  <2> QED BY <2>3, <2>4
<1>3. CASE Next /\ Idle
  <2>1. PICK n \in Requests : Call(n)
    BY <1>3, IdleCalls
  <2>2. n \in Nat /\ asked \in Nat
    BY RequestsAssumption DEF Sound, Typed
  <2>3. asked' \in {m \in Nat : m >= asked}
    BY <2>1, <2>2 DEF Call
  <2>4. ~Idle' /\ Idle /\ err = "ok" /\ UNCHANGED <<plain, written, err>>
    BY <2>1 DEF Call, Idle
  <2> QED BY <2>3, <2>4 DEF Promise!Next, Promise!Call
<1> QED BY <1>1, <1>2, <1>3

\* Whatever the sizes of windows, frames, streams and calls, and whatever is wrong with
\* the stream, the calls of decompress write the stream in order, each as much as it was
\* asked for, and a failed stream stays failed.
THEOREM InOrder == Spec => DecodesInOrder
<1>1. Init => Promise!Init
  BY DEF Init, LzxInit, ZipInit, QtmInit, InitDecoder, Promise!Init, Idle
<1> QED BY <1>1, StepsArePromised, SoundAlways, PTL DEF Spec, DecodesInOrder, Promise!Spec

-----------------------------------------------------------------------------
(* Streams that an encoder wrote.                                           *)

\* What is left of the block.
BlockLeft == lz.remaining + (IF pc = "symbols" THEN lz.run ELSE 0)

\* How many bytes there are from one reset to the next, or 0 without resets.
Stretch == lz.options.interval * LzxFrame

\* The end of the block.
BlockEnd == Len(plain) + BlockLeft

\* The blocks of an intact stream and the decoder's frames fit: a run of symbols ends
\* where it has to, and a block neither goes on over a reset nor ends at one with a byte
\* to skip.
LzxIntact ==
    method = "lzx" /\ err = "ok" /\ ~damaged =>
        /\ lz.remaining <= lz.blockLength
        /\ pc = "symbols" => lz.run >= 0 /\ lz.remaining < lz.blockLength
        /\ pc = "decode" /\ lz.todo = 0 => posn = lz.framePosn + lz.size
        /\ pc # "symbols" =>
              \/ lz.remaining < lz.blockLength \/ lz.remaining = 0
              \/ pc = "decode" /\ lz.todo > 0
        /\ BlockLeft > 0 => lz.blockLength <= BlockEnd /\ BlockEnd <= total
        /\ lz.pad = Realigns \/ Framed = total
        /\ Stretch # 0 /\ BlockLeft > 0 =>
              (BlockEnd - lz.blockLength) \div Stretch = (BlockEnd - 1) \div Stretch
        /\ Stretch # 0 /\ lz.pad => BlockEnd % Stretch # 0

\* MSZIP goes on with another frame only when more is asked for.
ZipWants == method = "mszip" /\ pc = "start" => want > 0

Intact == IntactIsDecoded /\ LzxIntact /\ ZipWants

\* LZX knows where every byte of the stream comes from.
NoJunkDecoded == method = "lzx" /\ ~lz.zero => \A i \in 1 .. Len(plain) : plain[i] # Junk

\* A copy from a place that is known has no junk in it.
LEMMA CopyHasNoJunk ==
    ASSUME NEW s \in Bytes, NEW off \in Nat \ {0}, NEW len \in Nat, NEW ref \in Nat,
           off <= Len(s) + ref, \A i \in 1 .. Len(s) : s[i] # Junk
    PROVE  \A i \in 1 .. Len(WithCopy(s, off, len, ref)) : WithCopy(s, off, len, ref)[i] # Junk
<1>1. PICK f : StreamCopy(f, s, off, len, ref)
  BY WithCopyIs
<1>2. Len(s) \in Nat
  BY DEF Bytes
<1> DEFINE Done(n) ==
        /\ f[n] \in Bytes /\ Len(f[n]) = Len(s) + n
        /\ \A i \in 1 .. Len(f[n]) : f[n][i] # Junk
           S == {n \in Nat : n <= len => Done(n)}
<1>3. 0 \in S
  BY <1>1, <1>2 DEF StreamCopy
<1>4. ASSUME NEW n \in Nat, n \in S PROVE n + 1 \in S
  <2> SUFFICES ASSUME n + 1 <= len PROVE Done(n + 1)
    OBVIOUS
  <2>1. f[n] \in Bytes /\ Len(f[n]) = Len(s) + n /\ \A i \in 1 .. Len(f[n]) : f[n][i] # Junk
    BY <1>4
  <2> HIDE DEF S, Done
  <2>2. n + 1 \in 1 .. len /\ (n + 1) - 1 = n
    OBVIOUS
  <2> DEFINE t == f[n]
             b == Back(t, off, ref)
  <2>3. f[n + 1] = Append(t, b)
    BY <1>1, <2>2 DEF StreamCopy
  <2>4. t \in Bytes /\ Len(t) = Len(s) + n /\ \A i \in 1 .. Len(t) : t[i] # Junk
    BY <2>1
  <2> HIDE DEF t
  <2>5. b \in Int
    BY <2>4, BackIsByte
  <2>6. b # Junk
    <3>1. CASE off <= Len(t)
      <4>1. Len(t) + 1 - off \in 1 .. Len(t)
        BY <1>2, <2>4, <3>1
      <4> QED BY <2>4, <3>1, <4>1 DEF Back
    <3>2. CASE off > Len(t)
      <4>1. off - Len(t) <= ref /\ off - Len(t) > 0
        BY <1>2, <2>4, <3>2
      <4> QED BY <1>2, <2>4, <3>2, <4>1 DEF Back, Junk
    <3> QED BY <1>2, <2>4, <3>1, <3>2
  <2> HIDE DEF b
  <2>7. /\ Append(t, b) \in Bytes /\ Begins(t, Append(t, b))
        /\ Len(Append(t, b)) = Len(t) + 1 /\ Append(t, b)[Len(t) + 1] = b
    BY <2>4, <2>5, AppendBegins
  <2>8. ASSUME NEW i \in 1 .. Len(Append(t, b)) PROVE Append(t, b)[i] # Junk
    <3>1. CASE i = Len(t) + 1
      BY <2>6, <2>7, <3>1
    <3>2. CASE i # Len(t) + 1
      <4>1. i \in 1 .. Len(t)
        BY <1>2, <2>4, <2>7, <3>2
      <4> QED BY <2>4, <2>7, <4>1 DEF Begins
    <3> QED BY <3>1, <3>2
  <2>9. Len(Append(t, b)) = Len(s) + (n + 1)
    BY <1>2, <2>4, <2>7
  <2> QED BY <2>3, <2>7, <2>8, <2>9 DEF Done
<1>5. \A n \in Nat : n \in S
  <2> HIDE DEF S
  <2> QED BY <1>3, <1>4, Induct
<1>6. Done(len)
  <2> HIDE DEF Done
  <2> QED BY <1>5
<1> QED BY <1>1, <1>6 DEF StreamCopy

\* LZX checks an offset well enough: the frames before the one that is decoded are in the
\* window, or fill it.
LEMMA NoJunkNext == Sound /\ NoJunkDecoded /\ [Next]_vars => NoJunkDecoded'
<1> SUFFICES ASSUME Sound, NoJunkDecoded, [Next]_vars, method' = "lzx", ~lz'.zero
             PROVE  \A i \in 1 .. Len(plain') : plain'[i] # Junk
  BY DEF NoJunkDecoded
<1>1. method = "lzx"
  <2>1. CASE Next /\ ~Idle
    BY <2>1, CallsWrite
  <2>2. CASE Next /\ Idle
    BY <2>2, IdleCalls DEF Call
  <2>3. CASE UNCHANGED vars
    BY <2>3 DEF vars, decoderVars
  <2> QED BY <2>1, <2>2, <2>3
<1>2. ~lz.zero
  <2>1. CASE LzxNext
    <3>1. lz \in LzxStates
      BY <1>1 DEF Sound, LzxInv
    <3>2. CASE \E slot \in 0 .. 3, off \in LzxOffsets, len \in LzxLengths : LzxMatch(slot, off, len)
      BY <3>1, <3>2 DEF LzxMatch, LzxStates
    <3>3. lz'.zero = lz.zero \/ \E slot \in 0 .. 3, off \in LzxOffsets, len \in LzxLengths :
                                  LzxMatch(slot, off, len)
      BY <2>1, <3>1 DEF LzxNext, LzxStart, LzxFrameBegins, LzxReturns, LzxBlock, LzxRun, LzxLiteral,
         LzxRunEnds, LzxFrameEnds, LzxWriteFails, LzxDamage, Reset, LzxStates
    <3> QED BY <3>2, <3>3
  <2>2. Next => LzxNext \/ UNCHANGED lz
    BY <1>1 DEF Next, Begin, ZipNext, QtmNext
  <2>3. UNCHANGED vars => UNCHANGED lz
    BY DEF vars
  <2> QED BY <2>1, <2>2, <2>3
<1>9. \A i \in 1 .. Len(plain) : plain[i] # Junk
  BY <1>1, <1>2 DEF NoJunkDecoded
<1>3. CASE UNCHANGED plain
  BY <1>3, <1>9
<1>4. CASE LzxLiteral
  <2>1. plain' = Append(plain, NextLiteral) /\ NextLiteral = Len(plain) + 1
    BY <1>4 DEF LzxLiteral, NextLiteral
  <2>2. plain \in Bytes /\ Len(plain) \in Nat /\ NextLiteral \in Int /\ NextLiteral # Junk
    BY <2>1 DEF Sound, Typed, Bytes, Junk
  <2>3. /\ Begins(plain, plain') /\ Len(plain') = Len(plain) + 1
        /\ plain'[Len(plain) + 1] = NextLiteral
    BY <2>1, <2>2, AppendBegins
  <2> SUFFICES ASSUME NEW i \in 1 .. Len(plain') PROVE plain'[i] # Junk
    OBVIOUS
  <2>4. CASE i = Len(plain) + 1
    BY <2>2, <2>3, <2>4
  <2>5. CASE i # Len(plain) + 1
    <3>1. i \in 1 .. Len(plain)
      BY <2>2, <2>3, <2>5
    <3> QED BY <1>9, <2>3, <3>1 DEF Begins
  <2> QED BY <2>4, <2>5
<1>5. ASSUME NEW slot \in 0 .. 3, NEW new \in LzxOffsets, NEW len \in LzxLengths,
             LzxMatch(slot, new, len), plain' # plain
      PROVE  \A i \in 1 .. Len(plain') : plain'[i] # Junk
  <2> DEFINE off == IF slot < 3 THEN lz.R[slot + 1] ELSE new
             trueOff == IF slot < 3 THEN lz.trueR[slot + 1] ELSE new
             ref == lz.options.ref
  <2>3. lz \in LzxStates /\ lz.R = lz.trueR
    BY <1>1 DEF Sound, LzxInv
  <2>1. /\ ~BeyondStream(off) /\ plain' = WithCopy(plain, Distance(trueOff), len, ref)
        /\ pc = "symbols" /\ lz'.zero = (lz.zero \/ off = 0)
    BY <1>5, <2>3 DEF LzxMatch, Decoding, InLzx, LzxStates
  <2>2. /\ LzxWindow \in Nat /\ LzxFrame \in Nat \ {0} /\ len \in Nat
        /\ new \in Nat
    <3>1. /\ LzxWindow \in Nat /\ LzxFrame \in Nat \ {0} /\ len \in Nat
          /\ new \in 1 .. LzxWindow
      BY LzxAssumption
    <3> QED BY <3>1
  <2>4. off \in Nat /\ off # 0 /\ trueOff = off
    <3>1. lz.R \in Triples
      BY <2>3 DEF LzxStates, Triples
    <3> QED BY <2>1, <2>2, <2>3, <3>1, RepeatsArePromoted
  <2>5. ref \in Nat
    <3>1. lz.options \in LzxOptions
      BY <2>3 DEF LzxStates
    <3>2. lz.options \in [interval : Nat, ref : 0 .. LzxWindow, told : {"start", "last block"}]
      BY <3>1, LzxAssumption
    <3>3. ref \in 0 .. LzxWindow
      BY <3>2
    <3> HIDE DEF ref
    <3> QED BY <2>2, <3>3
  <2>6. BeyondStream(off) <=> /\ off > posn
                             /\ \/ off > Len(written) /\ off - posn > ref
                                \/ off - posn > LzxWindow
    BY DEF BeyondStream
  <2> HIDE DEF off, trueOff, ref
  <2>7. /\ plain \in Bytes /\ Len(plain) \in Nat /\ Len(written) \in Nat /\ posn \in Nat
        /\ Len(written) <= Len(plain)
    BY DEF Sound, Typed, Accounts, Begins, Bytes
  <2>8. posn <= Len(plain)
    <3>1. err = "ok"
      BY <1>1, <2>1 DEF Sound, Accounts
    <3>2. /\ lz.framePosn \in Nat /\ Framed \in Int
          /\ lz.framePosn <= Framed /\ Len(plain) = Framed + (posn - lz.framePosn)
      <4>1. WholeFrames(lz.frame, Framed, lz.framePosn, total)
        BY <1>1, <3>1 DEF Sound, LzxInv
      <4>2. Len(plain) = Framed + (posn - lz.framePosn)
        BY <1>1, <2>1, <3>1 DEF Sound, LzxInFrame, InFrame
      <4>3. Framed \in Int
        BY DEF Framed, Sound, Typed, Bytes
      <4> QED BY <2>3, <4>1, <4>2, <4>3 DEF WholeFrames, LzxStates
    <3> QED BY <2>7, <3>2
  <2> DEFINE d == Distance(off)
  <2>9. off <= posn \/ off - posn <= LzxWindow
    BY <2>1, <2>2, <2>4, <2>6, <2>7
  <2>10. /\ d \in 1 .. LzxWindow
         /\ off \in 1 .. LzxWindow => d = off
         /\ off > LzxWindow /\ off <= 2 * LzxWindow => d = off - LzxWindow
    BY <2>4, DistanceIs
  <2> HIDE DEF d
  <2>11. d <= Len(plain) + ref
    <3>1. posn <= LzxWindow
      BY <1>1 DEF Sound, Typed, WindowSize
    <3>2. CASE off <= LzxWindow
      <4>1. off <= Len(plain) + ref
        BY <2>1, <2>2, <2>4, <2>5, <2>6, <2>7, <2>8
      <4> QED BY <2>2, <2>4, <2>10, <3>2, <4>1
    <3>3. CASE off > LzxWindow
      <4>1. off <= 2 * LzxWindow /\ off - LzxWindow <= posn
        BY <2>2, <2>4, <2>7, <2>9, <3>1, <3>3
      <4> QED BY <2>2, <2>4, <2>5, <2>7, <2>8, <2>10, <3>3, <4>1
    <3> QED BY <2>2, <2>4, <3>2, <3>3
  <2>12. plain' = WithCopy(plain, d, len, ref) /\ d \in Nat \ {0}
    BY <2>1, <2>2, <2>4, <2>10 DEF d
  <2> QED BY <1>9, <2>2, <2>5, <2>7, <2>11, <2>12, CopyHasNoJunk
<1>6. CASE LzxNext /\ plain' # plain
  <2>1. LzxLiteral \/ \E slot \in 0 .. 3, off \in LzxOffsets, len \in LzxLengths : LzxMatch(slot, off, len)
    BY <1>6 DEF LzxNext, LzxStart, LzxFrameBegins, LzxReturns, LzxBlock, LzxRun, LzxRunEnds,
       LzxFrameEnds, LzxWriteFails, LzxDamage, Damage
  <2> QED BY <1>4, <1>5, <1>6, <2>1
<1>7. Next => LzxNext \/ UNCHANGED plain
  BY <1>1 DEF Next, Begin, Call, Flush, FlushFails, Returns,
     ZipNext, ZipFrameBegins, ZipBlock, ZipLiteral, ZipMatch, BlockEnds, ZipFrameEnds,
     ZipWriteFails, ZipDamage, ZipInputEnds, InZip,
     QtmNext, QtmDecodeMore, QtmLiteral, QtmMatch, QtmWrappingMatch, QtmRunEnds, QtmDecoded,
     QtmWindowWraps, QtmWritesRest, QtmWriteFails, QtmDamage, QtmInputEnds, DecodingQtm, InQtm
<1>8. UNCHANGED vars => UNCHANGED plain
  BY DEF vars, decoderVars
<1> QED BY <1>3, <1>6, <1>7, <1>8

\* Even a damaged LZX stream never writes memory that nothing was decoded into, for all
\* windows, frames, reset intervals, reference data and offsets in the headers of
\* uncompressed blocks, up to the first match of distance 0 such a header allows.
THEOREM LzxWritesNoJunk == Spec => []NoJunk
<1>1. Init => NoJunkDecoded
  BY DEF Init, LzxInit, ZipInit, QtmInit, InitDecoder, NoJunkDecoded
<1>2. Sound /\ NoJunkDecoded => NoJunk
  <2> SUFFICES ASSUME Sound, NoJunkDecoded, method = "lzx", ~lz.zero, NEW i \in DOMAIN written
               PROVE  written[i] # Junk
    BY DEF NoJunk
  <2>1. /\ written \in Seq(Int) /\ Len(written) \in Nat /\ Len(plain) \in Nat
        /\ Len(written) <= Len(plain)
        /\ \A k \in 1 .. Len(written) : written[k] = plain[k]
    BY DEF Sound, Typed, Accounts, Begins, Bytes
  <2>2. i \in 1 .. Len(written) /\ i \in 1 .. Len(plain)
    BY <2>1
  <2> QED BY <2>1, <2>2 DEF NoJunkDecoded
<1> QED BY <1>1, <1>2, NoJunkNext, SoundAlways, PTL DEF Spec

\* A block that is begun before a multiple of d and ends after it goes over it.
LEMMA GoesOver ==
    ASSUME NEW d \in Nat \ {0}, NEW q \in Nat, NEW begin \in Nat, NEW end \in Nat,
           begin < d * q, d * q < end
    PROVE  begin \div d # (end - 1) \div d
<1>1. d * q \in Nat /\ end - 1 \in Nat /\ end - 1 >= d * q
  OBVIOUS
<1>2. begin \div d < q /\ begin \div d \in Int
  BY DivBounds
<1>3. (end - 1) \div d >= q /\ (end - 1) \div d \in Int
  <2> DEFINE last == end - 1
  <2>1. last \in Nat /\ last >= d * q
    BY <1>1
  <2> HIDE DEF last
  <2>2. last \div d >= q /\ last \div d \in Int
    BY <2>1, DivBounds, DivMod
  <2> QED BY <2>2 DEF last
<1> QED BY <1>2, <1>3

\* What is read of the state of LZX in the middle of a call.
LEMMA LzxNumbers ==
    ASSUME Sound, method = "lzx"
    PROVE  /\ lz.frame \in Nat /\ lz.framePosn \in Nat /\ lz.endFrame \in Nat /\ lz.size \in Nat
           /\ lz.todo \in Nat /\ lz.run \in Int /\ lz.remaining \in Nat /\ lz.blockLength \in Nat
           /\ lz.options.interval \in Nat /\ lz.options.ref \in Nat
           /\ Stretch \in Nat /\ Framed \in Int /\ BlockLeft \in Int /\ BlockEnd \in Int
           /\ LzxFrame \in Nat \ {0} /\ LzxWindow \in Nat
           /\ want \in Nat /\ asked \in Nat /\ total \in Nat /\ posn \in Nat
           /\ Len(plain) \in Nat /\ Len(written) \in Nat /\ optr \in Nat /\ oend \in Nat
<1>1. lz \in LzxStates
  BY DEF Sound, LzxInv
<1>2. LzxFrame \in Nat \ {0} /\ LzxWindow \in Nat
  BY LzxAssumption
<1>3. /\ want \in Nat /\ asked \in Nat /\ total \in Nat /\ posn \in Nat
      /\ Len(plain) \in Nat /\ Len(written) \in Nat /\ optr \in Nat /\ oend \in Nat
  BY RequestsAssumption DEF Sound, Typed, Bytes
<1>4. /\ lz.frame \in Nat /\ lz.framePosn \in Nat /\ lz.endFrame \in Nat /\ lz.size \in Nat
      /\ lz.todo \in Nat /\ lz.run \in Int /\ lz.remaining \in Nat /\ lz.blockLength \in Nat
  BY <1>1 DEF LzxStates
<1>5. lz.options.interval \in Nat /\ lz.options.ref \in 0 .. LzxWindow
  <2>1. lz.options \in LzxOptions
    BY <1>1 DEF LzxStates
  <2>2. lz.options \in [interval : Nat, ref : 0 .. LzxWindow, told : {"start", "last block"}]
    BY <2>1, LzxAssumption
  <2> QED BY <2>2
<1>6. lz.options.ref \in Nat
  <2> DEFINE ref == lz.options.ref
  <2>1. ref \in 0 .. LzxWindow
    BY <1>5
  <2> HIDE DEF ref
  <2>2. ref \in Nat
    BY <1>2, <2>1
  <2> QED BY <2>2 DEF ref
<1>7. Stretch \in Nat
  <2> DEFINE interval == lz.options.interval
  <2>1. interval \in Nat
    BY <1>5
  <2> HIDE DEF interval
  <2>2. interval * LzxFrame \in Nat
    BY <1>2, <2>1
  <2> QED BY <2>2 DEF Stretch, interval
<1>8. Framed \in Int
  BY <1>3 DEF Framed
<1>9. BlockLeft \in Int
  <2>1. CASE pc = "symbols"
    BY <1>4, <2>1 DEF BlockLeft
  <2>2. CASE pc # "symbols"
    BY <1>4, <2>2 DEF BlockLeft
  <2> QED BY <2>1, <2>2
<1>10. BlockEnd \in Int
  BY <1>3, <1>9 DEF BlockEnd
<1> QED BY <1>2, <1>3, <1>4, <1>5, <1>6, <1>7, <1>8, <1>9, <1>10

\* The steps that leave the block as it is.
LEMMA SameBlock ==
    ASSUME Sound, Sound', LzxIntact, method = "lzx", method' = "lzx", err = "ok", ~damaged,
           UNCHANGED total, lz'.pad = lz.pad, lz'.blockType = lz.blockType,
           lz'.blockLength = lz.blockLength, lz'.options = lz.options,
           BlockEnd' = BlockEnd, BlockLeft' <= BlockLeft, Framed <= Framed', Framed' <= total,
           lz'.remaining <= lz.blockLength,
           pc' = "symbols" => lz'.run >= 0 /\ lz'.remaining < lz.blockLength,
           pc' = "decode" /\ lz'.todo = 0 => posn' = lz'.framePosn + lz'.size,
           pc' # "symbols" =>
              \/ lz'.remaining < lz.blockLength \/ lz'.remaining = 0
              \/ pc' = "decode" /\ lz'.todo > 0
    PROVE  LzxIntact'
<1>1. /\ BlockLeft > 0 => lz.blockLength <= BlockEnd /\ BlockEnd <= total
      /\ lz.pad = Realigns \/ Framed = total
      /\ Stretch # 0 /\ BlockLeft > 0 =>
            (BlockEnd - lz.blockLength) \div Stretch = (BlockEnd - 1) \div Stretch
      /\ Stretch # 0 /\ lz.pad => BlockEnd % Stretch # 0
  BY DEF LzxIntact
<1>2. Stretch' = Stretch /\ Realigns' = Realigns
  BY DEF Stretch, Realigns
<1>3. BlockLeft' > 0 => BlockLeft > 0
  <2>1. BlockLeft \in Int /\ BlockLeft' \in Int
    <3>1. BlockLeft \in Int
      BY LzxNumbers
    <3>2. lz' \in LzxStates
      BY DEF Sound, LzxInv
    <3>3. lz'.remaining \in Int /\ lz'.run \in Int
      BY <3>2 DEF LzxStates
    <3>4. BlockLeft' \in Int
      <4>1. CASE pc' = "symbols"
        BY <3>3, <4>1 DEF BlockLeft
      <4>2. CASE pc' # "symbols"
        BY <3>3, <4>2 DEF BlockLeft
      <4> QED BY <4>1, <4>2
    <3> QED BY <3>1, <3>4
  <2> HIDE DEF BlockLeft
  <2> QED BY <2>1
<1>4. Framed = total => Framed' = total
  <2>1. total \in Int /\ Framed \in Int
    BY LzxNumbers
  <2>2. Len(written') \in Int /\ oend' \in Int /\ optr' \in Int
    BY DEF Sound, Typed, Bytes
  <2>3. Framed' \in Int
    BY <2>2 DEF Framed
  <2> HIDE DEF Framed
  <2> QED BY <2>1, <2>3
<1>5. /\ BlockLeft' > 0 => lz'.blockLength <= BlockEnd' /\ BlockEnd' <= total'
      /\ lz'.pad = Realigns' \/ Framed' = total'
      /\ Stretch' # 0 /\ BlockLeft' > 0 =>
            (BlockEnd' - lz'.blockLength) \div Stretch' = (BlockEnd' - 1) \div Stretch'
      /\ Stretch' # 0 /\ lz'.pad => BlockEnd' % Stretch' # 0
  <2>1. BlockLeft' > 0 => lz'.blockLength <= BlockEnd' /\ BlockEnd' <= total'
    BY <1>1, <1>3
  <2>2. lz'.pad = Realigns' \/ Framed' = total'
    BY <1>1, <1>2, <1>4
  <2>3. Stretch' # 0 /\ BlockLeft' > 0 =>
            (BlockEnd' - lz'.blockLength) \div Stretch' = (BlockEnd' - 1) \div Stretch'
    BY <1>1, <1>2, <1>3
  <2>4. Stretch' # 0 /\ lz'.pad => BlockEnd' % Stretch' # 0
    BY <1>1, <1>2
  <2> QED BY <2>1, <2>2, <2>3, <2>4
<1> QED BY <1>5 DEF LzxIntact

\* What is intact stays so in every step of LZX: no frame, block or match is refused.
LEMMA LzxIsIntact ==
    Sound /\ Sound' /\ IntactIsDecoded /\ LzxIntact /\ LzxNext => IntactIsDecoded' /\ LzxIntact'
<1> SUFFICES ASSUME Sound, Sound', LzxIntact, LzxNext, ~damaged'
             PROVE  IntactIsDecoded' /\ LzxIntact'
  BY DEF IntactIsDecoded, LzxIntact
<1>1. /\ method = "lzx" /\ UNCHANGED <<method, total, asked>> /\ pc \notin {"idle", "end"}
      /\ ~damaged
  <2>1. method = "lzx" /\ pc \notin {"idle", "end"}
    BY DEF LzxNext, LzxStart, LzxFrameBegins, LzxReturns, LzxBlock, LzxRun, LzxLiteral, LzxMatch,
       LzxRunEnds, LzxFrameEnds, LzxWriteFails, LzxDamage, BlockBegins, Decoding, InLzx
  <2>2. UNCHANGED <<method, total, asked>>
    BY DEF LzxNext, LzxStart, LzxFrameBegins, LzxReturns, LzxBlock, LzxRun, LzxLiteral, LzxMatch,
       LzxRunEnds, LzxFrameEnds, LzxWriteFails, LzxDamage, Damage
  <2>3. ~damaged
    BY DEF LzxNext, LzxStart, LzxFrameBegins, LzxReturns, LzxBlock, LzxRun, LzxLiteral, LzxMatch,
       LzxRunEnds, LzxFrameEnds, LzxWriteFails, LzxDamage, Damage
  <2> QED BY <2>1, <2>2, <2>3
<1>2. err = "ok"
  BY <1>1 DEF Sound, Accounts
<1>3. /\ lz.remaining <= lz.blockLength
      /\ pc = "symbols" => lz.run >= 0 /\ lz.remaining < lz.blockLength
      /\ pc = "decode" /\ lz.todo = 0 => posn = lz.framePosn + lz.size
      /\ pc # "symbols" =>
            \/ lz.remaining < lz.blockLength \/ lz.remaining = 0
            \/ pc = "decode" /\ lz.todo > 0
      /\ BlockLeft > 0 => lz.blockLength <= BlockEnd /\ BlockEnd <= total
      /\ lz.pad = Realigns \/ Framed = total
      /\ Stretch # 0 /\ BlockLeft > 0 =>
            (BlockEnd - lz.blockLength) \div Stretch = (BlockEnd - 1) \div Stretch
      /\ Stretch # 0 /\ lz.pad => BlockEnd % Stretch # 0
  BY <1>1, <1>2 DEF LzxIntact
<1>4. /\ lz.frame \in Nat /\ lz.framePosn \in Nat /\ lz.endFrame \in Nat /\ lz.size \in Nat
      /\ lz.todo \in Nat /\ lz.run \in Int /\ lz.remaining \in Nat /\ lz.blockLength \in Nat
      /\ lz.options.interval \in Nat /\ lz.options.ref \in Nat
      /\ Stretch \in Nat /\ Framed \in Int /\ BlockLeft \in Int /\ BlockEnd \in Int
      /\ LzxFrame \in Nat \ {0} /\ LzxWindow \in Nat
      /\ want \in Nat /\ asked \in Nat /\ total \in Nat /\ posn \in Nat
      /\ Len(plain) \in Nat /\ Len(written) \in Nat /\ optr \in Nat /\ oend \in Nat
  BY <1>1, LzxNumbers
<1>5. lz \in LzxStates /\ lz' \in LzxStates
  BY <1>1 DEF Sound, LzxInv
<1>6. /\ WholeFrames(lz.frame, Framed, lz.framePosn, total)
      /\ ~InFrame => Len(plain) = Framed
      /\ pc = "frame" => /\ optr = oend \/ want = 0
                         /\ lz.endFrame = asked \div LzxFrame + 1
                         /\ posn = lz.framePosn
  BY <1>1, <1>2 DEF Sound, LzxInv, InFrame
<1>7. InFrame =>
        /\ optr = oend
        /\ lz.framePosn <= posn /\ Len(plain) = Framed + (posn - lz.framePosn)
        /\ lz.framePosn + lz.size <= LzxWindow
        /\ WholeFrames(lz.frame + 1, Framed + lz.size, lz.framePosn + lz.size, total)
        /\ pc = "decode" /\ lz.todo > 0 => posn + lz.todo = lz.framePosn + lz.size
        /\ pc = "symbols" => posn + lz.run + lz.todo = lz.framePosn + lz.size
  BY <1>1, <1>2 DEF Sound, LzxInFrame
<1>8. Framed <= total /\ (InFrame => Framed + lz.size <= total)
  BY <1>6, <1>7 DEF WholeFrames
<1>9. ASSUME err' = "ok" PROVE IntactIsDecoded'
  BY <1>9 DEF IntactIsDecoded
<1>10. ASSUME err' # "ok", asked > total PROVE IntactIsDecoded' /\ LzxIntact'
  BY <1>1, <1>10 DEF IntactIsDecoded, LzxIntact
<1>11. BlockEnd = Len(plain) + BlockLeft
  BY DEF BlockEnd
<1>12. ASSUME UNCHANGED <<written, optr, oend>>
       PROVE  Framed' = Framed /\ Framed <= Framed' /\ Framed' <= total
  <2>1. Framed' = Framed
    BY <1>12 DEF Framed
  <2> HIDE DEF Framed
  <2> QED BY <1>4, <1>8, <2>1
<1>13. CASE LzxStart
  <2>1. /\ lz' = [lz EXCEPT !.endFrame = (Len(written) + want) \div LzxFrame + 1]
        /\ pc = "start" /\ pc' = "frame" /\ UNCHANGED <<plain, err, written, optr, oend>>
    BY <1>13 DEF LzxStart, InLzx
  <2>2. /\ lz'.pad = lz.pad /\ lz'.blockType = lz.blockType /\ lz'.blockLength = lz.blockLength
        /\ lz'.options = lz.options /\ lz'.remaining = lz.remaining
    BY <1>5, <2>1 DEF LzxStates
  <2>3. BlockEnd' = BlockEnd /\ BlockLeft' <= BlockLeft
    BY <1>4, <2>1, <2>2 DEF BlockEnd, BlockLeft
  <2> QED BY <1>1, <1>2, <1>3, <1>9, <1>12, <2>1, <2>2, <2>3, SameBlock
<1>14. CASE LzxFrameBegins
  <2>1. /\ pc = "frame" /\ UNCHANGED <<plain, written, optr, oend, posn>>
        /\ ~InFrame
    BY <1>14 DEF LzxFrameBegins, InLzx, InFrame
  <2>2. BlockLeft = lz.remaining /\ Len(plain) = Framed
    BY <1>4, <1>6, <2>1 DEF BlockLeft
  <2> DEFINE size == FrameSize
             todo == lz.framePosn + size - posn
             base == IF AtReset THEN Reset ELSE lz
  <2>3. CASE ~AtReset
    <3>1. lz' = [lz EXCEPT !.size = size, !.todo = todo] /\ pc' = "decode" /\ UNCHANGED err
      BY <1>14, <2>3 DEF LzxFrameBegins
    <3> HIDE DEF size, todo
    <3>2. /\ lz'.pad = lz.pad /\ lz'.blockType = lz.blockType /\ lz'.blockLength = lz.blockLength
          /\ lz'.options = lz.options /\ lz'.remaining = lz.remaining
          /\ lz'.todo = todo /\ lz'.size = size /\ lz'.framePosn = lz.framePosn
      BY <1>5, <3>1 DEF LzxStates
    <3>3. BlockEnd' = BlockEnd /\ BlockLeft' <= BlockLeft
      BY <1>4, <2>1, <3>1, <3>2 DEF BlockEnd, BlockLeft
    <3>4. lz'.todo = 0 => posn' = lz'.framePosn + lz'.size
      <4>1. size \in Nat
        BY <1>5, <3>2 DEF LzxStates
      <4>2. lz'.todo = todo /\ lz'.size = size /\ lz'.framePosn = lz.framePosn /\ posn' = posn
        BY <2>1, <3>2
      <4>3. lz.framePosn \in Nat /\ posn \in Nat
        BY <1>4
      <4>4. todo = 0 => posn = lz.framePosn + size
        BY <4>1, <4>3 DEF todo
      <4> QED BY <4>2, <4>4
    <3>5. lz'.remaining < lz.blockLength \/ lz'.remaining = 0
      BY <1>3, <2>1, <3>2
    <3> QED BY <1>1, <1>2, <1>3, <1>9, <1>12, <2>1, <3>1, <3>2, <3>3, <3>4, <3>5, SameBlock
  <2>4. CASE AtReset
    <3> DEFINE q == lz.frame \div lz.options.interval
    <3>1. Stretch # 0 /\ q \in Nat /\ (Framed # total => Framed = Stretch * q)
      <4> DEFINE i == lz.options.interval
                 n == lz.frame
      <4>1. i \in Nat \ {0} /\ n \in Nat /\ n % i = 0 /\ q = n \div i
        BY <1>4, <2>4 DEF AtReset
      <4> HIDE DEF i, n, q
      <4>2. q \in Nat /\ n = i * q + (n % i)
        BY <4>1, DivMod
      <4>3. n = i * q
        BY <4>1, <4>2
      <4>4. Framed # total => Framed = LzxFrame * n
        BY <1>6 DEF WholeFrames, n
      <4>5. Stretch = i * LzxFrame
        BY DEF Stretch, i
      <4>6. i * LzxFrame # 0
        BY <1>4, <4>1
      <4>7. LzxFrame * (i * q) = (i * LzxFrame) * q
        <5> DEFINE F == LzxFrame
        <5>1. F \in Nat /\ i \in Nat /\ q \in Nat
          BY <1>4, <4>1, <4>2
        <5> HIDE DEF F
        <5>2. F * (i * q) = (i * F) * q
          BY <5>1
        <5> QED BY <5>2 DEF F
      <4> QED BY <4>2, <4>3, <4>4, <4>5, <4>6, <4>7
    <3> HIDE DEF q
    <3>2. lz.remaining = 0
      <4> SUFFICES ASSUME lz.remaining # 0 PROVE FALSE
        OBVIOUS
      <4>1. BlockLeft > 0 /\ BlockLeft < lz.blockLength
        BY <1>3, <1>4, <2>1, <2>2
      <4>2. lz.blockLength <= BlockEnd /\ BlockEnd <= total
        BY <1>3, <4>1
      <4>3. Framed = Stretch * q
        BY <1>4, <1>11, <2>2, <3>1, <4>1, <4>2
      <4> DEFINE begin == BlockEnd - lz.blockLength
      <4>4. begin \in Nat /\ BlockEnd \in Nat
        <5>1. lz.blockLength \in Nat /\ BlockEnd \in Int
          BY <1>4
        <5> HIDE DEF BlockEnd
        <5> QED BY <4>2, <5>1
      <4>5. begin < Stretch * q /\ Stretch * q < BlockEnd
        BY <1>4, <1>11, <2>2, <4>1, <4>3
      <4>6. Stretch \in Nat \ {0}
        BY <1>4, <3>1
      <4>7. begin \div Stretch = (BlockEnd - 1) \div Stretch
        BY <1>3, <3>1, <4>1
      <4> HIDE DEF begin, BlockEnd, Stretch
      <4> QED BY <3>1, <4>4, <4>5, <4>6, <4>7, GoesOver
    <3>3. lz' = [Reset EXCEPT !.size = size, !.todo = todo] /\ pc' = "decode" /\ UNCHANGED err
      BY <1>14, <2>4, <3>2 DEF LzxFrameBegins
    <3> HIDE DEF size, todo
    <3>4. /\ lz'.pad = lz.pad /\ lz'.blockType = "invalid" /\ lz'.blockLength = lz.blockLength
          /\ lz'.options = lz.options /\ lz'.remaining = 0
          /\ lz'.todo = todo /\ lz'.size = size /\ lz'.framePosn = lz.framePosn
      BY <1>5, <3>3 DEF Reset, LzxStates
    <3>5. BlockLeft' = 0 /\ BlockEnd' = BlockEnd /\ BlockEnd = Framed
      <4>1. BlockLeft' = 0
        BY <3>3, <3>4 DEF BlockLeft
      <4>2. BlockEnd' = Len(plain') + BlockLeft'
        BY DEF BlockEnd
      <4>3. BlockLeft = 0 /\ BlockEnd = Len(plain)
        BY <1>4, <1>11, <2>2, <3>2
      <4> QED BY <1>4, <2>1, <2>2, <4>1, <4>2, <4>3
    <3>6. Stretch' = Stretch /\ ~Realigns' /\ Framed' = Framed /\ total' = total
      BY <1>1, <1>12, <2>1, <3>4 DEF Stretch, Realigns
    <3>7. lz.pad => Framed = total
      <4> SUFFICES ASSUME lz.pad, Framed # total PROVE FALSE
        OBVIOUS
      <4>1. BlockEnd % Stretch # 0 /\ BlockEnd = Stretch * q
        BY <1>3, <3>1, <3>5
      <4> DEFINE d == Stretch
      <4>2. d \in Nat \ {0} /\ 0 \in 0 .. d - 1
        BY <1>4, <3>1
      <4> HIDE DEF d
      <4>3. (d * q + 0) % d = 0 /\ d * q + 0 = d * q
        BY <3>1, <4>2, DivUnique
      <4> QED BY <4>1, <4>3 DEF d
    <3>8. lz'.pad = Realigns' \/ Framed' = total'
      <4>1. CASE Framed = total
        BY <3>6, <4>1
      <4>2. CASE Framed # total
        <5>1. lz.pad \in BOOLEAN /\ lz'.pad = lz.pad
          BY <1>5, <3>4 DEF LzxStates
        <5>2. lz'.pad = FALSE
          BY <3>7, <4>2, <5>1
        <5>3. Realigns' = FALSE
          BY <3>6 DEF Realigns
        <5> QED BY <5>2, <5>3
      <4> QED BY <4>1, <4>2
    <3>9. Stretch' # 0 /\ lz'.pad => BlockEnd' % Stretch' # 0
      BY <1>3, <3>4, <3>5, <3>6
    <3>10. lz'.todo = 0 => posn' = lz'.framePosn + lz'.size
      <4>1. size \in Nat
        BY <1>5, <3>4 DEF LzxStates
      <4>2. lz'.todo = todo /\ lz'.size = size /\ lz'.framePosn = lz.framePosn /\ posn' = posn
        BY <2>1, <3>4
      <4>3. lz.framePosn \in Nat /\ posn \in Nat
        BY <1>4
      <4>4. todo = 0 => posn = lz.framePosn + size
        BY <4>1, <4>3 DEF todo
      <4> QED BY <4>2, <4>4
    <3>11. 0 <= lz'.blockLength
      BY <1>4, <3>4
    <3>12. LzxIntact'
      BY <3>3, <3>4, <3>5, <3>8, <3>9, <3>10, <3>11 DEF LzxIntact
    <3> QED BY <1>2, <1>9, <3>3, <3>12
  <2> QED BY <2>3, <2>4
<1>15. CASE LzxReturns
  <2>1. pc = "frame" /\ lz.frame >= lz.endFrame /\ UNCHANGED <<plain, written, optr, oend, posn, lz>>
    BY <1>15 DEF LzxReturns, InLzx
  <2>2. CASE want # 0
    <3>1. err' = "decrunch"
      BY <1>15, <2>2 DEF LzxReturns, Fail
    <3>2. Len(written) + want = asked /\ Framed = Len(written)
      <4>1. Len(written) + want = asked
        BY <1>1 DEF Sound, Accounts
      <4>2. optr = oend
        BY <1>6, <2>1, <2>2
      <4> QED BY <1>4, <4>1, <4>2 DEF Framed
    <3> DEFINE e == asked \div LzxFrame
               n == lz.frame
    <3>3. e \in Nat /\ asked < LzxFrame * (e + 1)
      <4>1. /\ e \in Nat /\ asked % LzxFrame \in 0 .. LzxFrame - 1
            /\ asked = LzxFrame * e + (asked % LzxFrame)
        BY <1>4, DivMod
      <4> HIDE DEF e
      <4>2. LzxFrame * (e + 1) = LzxFrame * e + LzxFrame /\ LzxFrame * e \in Nat
        BY <1>4, <4>1
      <4> QED BY <1>4, <4>1, <4>2
    <3>4. n \in Nat /\ n >= e + 1
      BY <1>4, <1>6, <2>1
    <3>5. Framed = LzxFrame * n \/ Framed = total
      BY <1>6 DEF WholeFrames
    <3> HIDE DEF e, n, Framed
    <3> DEFINE most == LzxFrame * (e + 1)
               all == LzxFrame * n
    <3>6. most \in Nat /\ all \in Nat /\ most <= all
      BY <1>4, <3>3, <3>4
    <3>7. asked < most /\ (Framed = all \/ Framed = total)
      BY <3>3, <3>5
    <3> HIDE DEF most, all
    <3>8. Framed < asked
      BY <1>4, <2>2, <3>2
    <3>9. Framed # all
      BY <1>4, <3>6, <3>7, <3>8
    <3>10. asked > total
      BY <3>7, <3>8, <3>9
    <3> QED BY <1>10, <3>1, <3>10
  <2>3. CASE want = 0
    <3>1. pc' = "idle" /\ UNCHANGED err
      BY <1>15, <2>3 DEF LzxReturns
    <3>2. BlockEnd' = BlockEnd /\ BlockLeft' <= BlockLeft
      BY <1>4, <2>1, <3>1 DEF BlockEnd, BlockLeft
    <3> QED BY <1>1, <1>2, <1>3, <1>9, <1>12, <2>1, <3>1, <3>2, SameBlock
  <2> QED BY <2>2, <2>3
<1>16. ASSUME NEW type \in {"verbatim", "uncompressed"}, NEW length \in 1 .. total,
              NEW repeats \in LzxRepeats, LzxBlock(type, length, repeats)
       PROVE  IntactIsDecoded' /\ LzxIntact'
  <2>1. /\ pc = "decode" /\ InFrame /\ lz.todo > 0 /\ lz.remaining = 0 /\ BlockFits(type, length)
        /\ UNCHANGED <<plain, written, optr, oend, posn>>
    BY <1>16 DEF LzxBlock, InLzx, InFrame
  <2>2. Framed < total
    <3>1. /\ posn + lz.todo = lz.framePosn + lz.size /\ lz.framePosn <= posn /\ lz.todo > 0
          /\ Framed + lz.size <= total
      BY <1>7, <1>8, <2>1
    <3>2. /\ posn \in Nat /\ lz.todo \in Nat /\ lz.framePosn \in Nat /\ lz.size \in Nat
          /\ Framed \in Int /\ total \in Nat
      BY <1>4
    <3> HIDE DEF Framed
    <3> QED BY <3>1, <3>2
  <2>3. lz.pad = Realigns
    BY <1>3, <1>4, <2>2
  <2> DEFINE odd == type = "uncompressed" /\ length % 2 = 1
  <2>4. /\ pc' = "decode" /\ UNCHANGED err
        /\ lz' = [lz EXCEPT
                  !.blockType = type, !.remaining = length, !.blockLength = length,
                  !.R = IF type = "uncompressed" THEN repeats ELSE @,
                  !.trueR = IF type = "uncompressed" THEN repeats ELSE @,
                  !.pad = odd]
    BY <1>16, <2>1, <2>3 DEF LzxBlock
  <2> HIDE DEF odd
  <2>5. /\ lz'.pad = odd /\ lz'.blockType = type /\ lz'.blockLength = length
        /\ lz'.remaining = length /\ lz'.todo = lz.todo /\ lz'.options = lz.options
    BY <1>5, <2>4 DEF LzxStates
  <2>6. length \in Nat /\ length > 0
    BY <1>4
  <2>7. BlockLeft' = length /\ BlockEnd' = Len(plain) + length /\ Stretch' = Stretch
    <3>1. BlockLeft' = length
      BY <2>4, <2>5, <2>6 DEF BlockLeft
    <3>2. BlockEnd' = Len(plain') + BlockLeft'
      BY DEF BlockEnd
    <3> QED BY <2>1, <2>5, <3>1, <3>2 DEF Stretch
  <2>8. (Realigns' <=> odd) /\ odd \in BOOLEAN
    BY <2>5 DEF Realigns, odd
  <2> DEFINE end == Len(plain) + length
  <2>9. /\ end <= total
        /\ Stretch # 0 => /\ Len(plain) \div Stretch = (end - 1) \div Stretch
                          /\ odd => end % Stretch # 0
    <3>1. /\ end <= total
          /\ Stretch # 0 =>
              /\ Len(plain) \div Stretch = (end - 1) \div Stretch
              /\ type = "uncompressed" /\ end % Stretch = 0 => length % 2 = 0
      BY <2>1 DEF BlockFits, Stretch
    <3>2. odd => type = "uncompressed" /\ length % 2 = 1
      BY DEF odd
    <3> HIDE DEF end, odd
    <3>3. odd /\ Stretch # 0 => end % Stretch # 0
      BY <3>1, <3>2
    <3> QED BY <3>1, <3>3
  <2>10. end - length = Len(plain) /\ length <= end
    BY <1>4, <2>6
  <2> HIDE DEF end
  <2>11. lz'.pad = Realigns'
    BY <2>5, <2>8 DEF Realigns
  <2>12. BlockEnd' = end
    BY <2>7 DEF end
  <2>13. /\ BlockLeft' > 0 => lz'.blockLength <= BlockEnd' /\ BlockEnd' <= total'
         /\ Stretch' # 0 /\ BlockLeft' > 0 =>
            (BlockEnd' - lz'.blockLength) \div Stretch' = (BlockEnd' - 1) \div Stretch'
         /\ Stretch' # 0 /\ lz'.pad => BlockEnd' % Stretch' # 0
    <3>1. BlockLeft' > 0 => lz'.blockLength <= BlockEnd' /\ BlockEnd' <= total'
      BY <1>1, <2>5, <2>9, <2>10, <2>12
    <3>2. Stretch' # 0 =>
            (BlockEnd' - lz'.blockLength) \div Stretch' = (BlockEnd' - 1) \div Stretch'
      BY <2>5, <2>7, <2>9, <2>10, <2>12
    <3>3. Stretch' # 0 /\ lz'.pad => BlockEnd' % Stretch' # 0
      BY <2>5, <2>7, <2>9, <2>12
    <3> QED BY <3>1, <3>2, <3>3
  <2>14. lz'.remaining <= lz'.blockLength /\ lz'.todo > 0
    BY <2>1, <2>5, <2>6
  <2>15. LzxIntact'
    <3>1. lz'.todo # 0
      BY <1>4, <2>1, <2>5
    <3> QED BY <2>4, <2>11, <2>13, <2>14, <3>1 DEF LzxIntact
  <2> QED BY <1>2, <1>9, <2>4, <2>15
<1>17. CASE LzxRun
  <2> DEFINE run == AtMost(lz.remaining, lz.todo)
             todo == lz.todo - run
             remaining == lz.remaining - run
  <2>1. /\ pc = "decode" /\ pc' = "symbols" /\ lz.todo > 0 /\ lz.remaining > 0
        /\ lz' = [lz EXCEPT !.run = run, !.todo = todo, !.remaining = remaining]
        /\ UNCHANGED <<plain, err, written, optr, oend>>
    BY <1>17 DEF LzxRun, InLzx
  <2>2. run \in Nat /\ run > 0 /\ remaining \in Nat /\ run + remaining = lz.remaining
    <3>1. lz.remaining \in Nat /\ lz.todo \in Nat /\ lz.todo > 0 /\ lz.remaining > 0
      BY <1>4, <2>1
    <3>2. run \in Nat /\ run > 0 /\ run <= lz.remaining
      BY <3>1 DEF AtMost
    <3> HIDE DEF run
    <3> QED BY <3>1, <3>2
  <2> HIDE DEF run, todo, remaining
  <2>3. /\ lz'.pad = lz.pad /\ lz'.blockType = lz.blockType /\ lz'.blockLength = lz.blockLength
        /\ lz'.options = lz.options /\ lz'.remaining = remaining /\ lz'.run = run
    BY <1>5, <2>1 DEF LzxStates
  <2>4. BlockEnd' = BlockEnd /\ BlockLeft' <= BlockLeft
    <3>1. BlockLeft' = BlockLeft
      BY <1>4, <2>1, <2>2, <2>3 DEF BlockLeft
    <3> HIDE DEF BlockLeft
    <3> QED BY <1>4, <2>1, <3>1 DEF BlockEnd
  <2>5. lz'.run >= 0 /\ lz'.remaining < lz.blockLength /\ lz'.remaining <= lz.blockLength
    BY <1>3, <1>4, <2>2, <2>3
  <2> QED BY <1>1, <1>2, <1>9, <1>12, <2>1, <2>3, <2>4, <2>5, SameBlock
<1>18. CASE LzxLiteral
  <2> DEFINE run == lz.run - 1
  <2>1. /\ pc = "symbols" /\ pc' = "symbols" /\ lz.run > 0
        /\ lz' = [lz EXCEPT !.run = run] /\ plain' = Append(plain, NextLiteral)
        /\ UNCHANGED <<err, written, optr, oend>>
    BY <1>18 DEF LzxLiteral, Decoding, InLzx
  <2>2. run \in Nat /\ run + 1 = lz.run
    <3>1. lz.run \in Int /\ lz.run > 0
      BY <1>4, <2>1
    <3> QED BY <3>1
  <2> HIDE DEF run
  <2>3. /\ lz'.pad = lz.pad /\ lz'.blockType = lz.blockType /\ lz'.blockLength = lz.blockLength
        /\ lz'.options = lz.options /\ lz'.remaining = lz.remaining /\ lz'.run = run
    BY <1>5, <2>1 DEF LzxStates
  <2>4. Len(plain') = Len(plain) + 1
    <3>1. plain \in Bytes /\ NextLiteral \in Int
      BY <1>4 DEF Sound, Typed, NextLiteral
    <3> QED BY <2>1, <3>1, AppendBegins
  <2>5. BlockEnd' = BlockEnd /\ BlockLeft' <= BlockLeft
    <3>1. BlockLeft' = lz.remaining + run /\ BlockLeft = lz.remaining + lz.run
      BY <2>1, <2>3 DEF BlockLeft
    <3>2. lz.remaining \in Nat /\ Len(plain) \in Nat
      BY <1>4
    <3>3. BlockEnd' = Len(plain') + BlockLeft'
      BY DEF BlockEnd
    <3> HIDE DEF BlockLeft, BlockEnd
    <3> QED BY <1>11, <2>2, <2>4, <3>1, <3>2, <3>3
  <2>6. lz'.run >= 0 /\ lz'.remaining < lz.blockLength /\ lz'.remaining <= lz.blockLength
    BY <1>3, <1>4, <2>1, <2>2, <2>3
  <2> QED BY <1>1, <1>2, <1>9, <1>12, <2>1, <2>3, <2>5, <2>6, SameBlock
<1>19. ASSUME NEW slot \in 0 .. 3, NEW new \in LzxOffsets, NEW len \in LzxLengths,
              LzxMatch(slot, new, len)
       PROVE  IntactIsDecoded' /\ LzxIntact'
  <2> DEFINE off == IF slot < 3 THEN lz.R[slot + 1] ELSE new
             trueOff == IF slot < 3 THEN lz.trueR[slot + 1] ELSE new
             ref == lz.options.ref
             run == lz.run - len
             zero == (lz.zero \/ off = 0)
  <2>1. /\ pc = "symbols" /\ InFrame /\ lz.run > 0 /\ UNCHANGED <<written, optr, oend>>
        /\ ~(len > lz.run \/ trueOff \notin 1 .. AtMost(Len(plain) + ref, LzxWindow))
    BY <1>19 DEF LzxMatch, Decoding, InLzx, InFrame
  <2>2. new \in Nat /\ len \in Nat /\ ref \in Nat
    <3>1. new \in 1 .. LzxWindow /\ len \in Nat /\ ref \in Nat
      BY <1>4, LzxAssumption
    <3> QED BY <1>4, <3>1
  <2>15. off \in Nat /\ trueOff = off
    <3>1. lz.R \in Triples /\ lz.R = lz.trueR
      BY <1>1, <1>5 DEF LzxStates, Triples, Sound, LzxInv
    <3> QED BY <2>2, <3>1, RepeatsArePromoted
  <2>3. off \in 1 .. LzxWindow /\ off <= Len(plain) + ref /\ Distance(off) = off
    <3>1. off \in 1 .. LzxWindow /\ off <= Len(plain) + ref
      <4> HIDE DEF off, trueOff, ref
      <4> QED BY <1>4, <2>1, <2>2, <2>15 DEF AtMost
    <3> QED BY <2>15, <3>1, DistanceIs
  <2>4. off \in Nat /\ off <= LzxWindow
    BY <1>4, <2>3
  <2>5. BeyondStream(off) <=> /\ off > posn
                              /\ \/ off > Len(written) /\ off - posn > ref
                                 \/ off - posn > LzxWindow
    BY DEF BeyondStream
  <2>6. ~(posn + len > LzxWindow \/ BeyondStream(off)) =>
           /\ plain' = WithCopy(plain, Distance(trueOff), len, ref)
           /\ lz' = [lz EXCEPT !.run = run, !.zero = zero, !.R = UsedRepeat(lz.R, slot, new),
                               !.trueR = Promoted(lz.trueR, slot, new)]
           /\ pc' = "symbols" /\ UNCHANGED err
    BY <1>19, <2>1 DEF LzxMatch
  <2> HIDE DEF off, trueOff, ref, zero
  <2>7. posn + len <= LzxWindow
    <3>1. len <= lz.run
      BY <1>4, <2>1, <2>2
    <3> QED BY <1>4, <1>7, <2>1, <2>2, <3>1
  <2>8. ~BeyondStream(off)
    <3>1. off <= Len(plain) + ref
      BY <2>3
    <3>2. Framed = Len(written)
      BY <1>4, <1>7, <2>1 DEF Framed
    <3>3. lz.framePosn = Framed \/ LzxWindow <= Framed
      BY <1>6 DEF WholeFrames
    <3>4. Len(plain) = Framed + (posn - lz.framePosn)
      BY <1>7, <2>1
    <3> HIDE DEF Framed
    <3>5. CASE lz.framePosn = Framed
      <4>1. Len(plain) = posn
        BY <1>4, <3>4, <3>5
      <4> QED BY <1>4, <2>2, <2>4, <2>5, <3>1, <4>1
    <3>6. CASE LzxWindow <= Framed
      BY <1>4, <2>2, <2>4, <2>5, <3>2, <3>6
    <3> QED BY <3>3, <3>5, <3>6
  <2>9. /\ plain' = WithCopy(plain, off, len, ref)
        /\ lz' = [lz EXCEPT !.run = run, !.zero = zero, !.R = UsedRepeat(lz.R, slot, new),
                            !.trueR = Promoted(lz.trueR, slot, new)]
        /\ pc' = "symbols" /\ UNCHANGED err
    <3>1. ~(posn + len > LzxWindow)
      BY <1>4, <2>2, <2>7
    <3> QED BY <2>3, <2>6, <2>8, <2>15, <3>1
  <2>10. run \in Nat /\ run + len = lz.run
    <3>1. lz.run \in Int /\ len <= lz.run
      BY <1>4, <2>1, <2>2
    <3> QED BY <2>2, <3>1
  <2> HIDE DEF run
  <2>11. /\ lz'.pad = lz.pad /\ lz'.blockType = lz.blockType /\ lz'.blockLength = lz.blockLength
         /\ lz'.options = lz.options /\ lz'.remaining = lz.remaining /\ lz'.run = run
    BY <1>5, <2>9 DEF LzxStates
  <2>12. Len(plain') = Len(plain) + len
    <3>1. /\ Mirrors(window, LzxWindow, posn, plain, ref) /\ window \in Windows(LzxWindow)
          /\ plain \in Bytes
      BY <1>1, <1>2 DEF Sound, Typed, LzxInv, WindowSize, ref
    <3>2. LzxWindow \in Nat /\ posn \in Nat /\ posn + len <= LzxWindow
      BY <1>4, <2>7
    <3>3. Len(WithCopy(plain, off, len, ref)) = Len(plain) + len
      BY <2>2, <2>3, <3>1, <3>2, MatchMirrors
    <3> QED BY <2>9, <3>3
  <2>13. BlockEnd' = BlockEnd /\ BlockLeft' <= BlockLeft
    <3>1. BlockLeft' = lz.remaining + run /\ BlockLeft = lz.remaining + lz.run
      BY <2>1, <2>9, <2>11 DEF BlockLeft
    <3>2. lz.remaining \in Nat /\ Len(plain) \in Nat
      BY <1>4
    <3>3. BlockEnd' = Len(plain') + BlockLeft'
      BY DEF BlockEnd
    <3> HIDE DEF BlockLeft, BlockEnd
    <3> QED BY <1>11, <2>2, <2>10, <2>12, <3>1, <3>2, <3>3
  <2>14. lz'.run >= 0 /\ lz'.remaining < lz.blockLength /\ lz'.remaining <= lz.blockLength
    BY <1>3, <1>4, <2>1, <2>10, <2>11
  <2> QED BY <1>1, <1>2, <1>9, <1>12, <2>1, <2>9, <2>11, <2>13, <2>14, SameBlock
<1>20. CASE LzxRunEnds
  <2> DEFINE remaining == lz.remaining + lz.run
  <2>1. pc = "symbols" /\ InFrame /\ lz.run <= 0 /\ UNCHANGED <<plain, written, optr, oend, posn>>
    BY <1>20 DEF LzxRunEnds, InLzx, InFrame
  <2>2. lz.run = 0 /\ remaining = lz.remaining /\ ~(-lz.run > lz.remaining)
    BY <1>3, <1>4, <2>1
  <2>3. lz' = [lz EXCEPT !.remaining = remaining, !.run = 0] /\ pc' = "decode" /\ UNCHANGED err
    BY <1>20, <2>2 DEF LzxRunEnds
  <2> HIDE DEF remaining
  <2>4. /\ lz'.pad = lz.pad /\ lz'.blockType = lz.blockType /\ lz'.blockLength = lz.blockLength
        /\ lz'.options = lz.options /\ lz'.remaining = lz.remaining /\ lz'.todo = lz.todo
        /\ lz'.framePosn = lz.framePosn /\ lz'.size = lz.size
    BY <1>5, <2>2, <2>3 DEF LzxStates
  <2>5. BlockEnd' = BlockEnd /\ BlockLeft' <= BlockLeft
    <3>1. BlockLeft' = BlockLeft
      BY <1>4, <2>1, <2>2, <2>3, <2>4 DEF BlockLeft
    <3> HIDE DEF BlockLeft
    <3> QED BY <1>4, <2>1, <3>1 DEF BlockEnd
  <2>6. lz'.remaining < lz.blockLength /\ lz'.remaining <= lz.blockLength
    BY <1>3, <2>1, <2>4
  <2>7. lz'.todo = 0 => posn' = lz'.framePosn + lz'.size
    BY <1>4, <1>7, <2>1, <2>2, <2>4
  <2> QED BY <1>1, <1>2, <1>9, <1>12, <2>1, <2>3, <2>4, <2>5, <2>6, <2>7, SameBlock
<1>21. CASE LzxFrameEnds
  <2>1. pc = "decode" /\ InFrame /\ lz.todo = 0 /\ UNCHANGED plain
    <3>1. pc = "decode" /\ InFrame /\ lz.todo <= 0 /\ UNCHANGED plain
      BY <1>21 DEF LzxFrameEnds, InLzx, InFrame
    <3>2. lz.todo \in Nat
      BY <1>4
    <3> QED BY <3>1, <3>2
  <2>2. FrameChecks
    <3>1. posn = lz.framePosn + lz.size /\ optr = oend
      BY <1>3, <1>7, <2>1
    <3> QED BY <1>4, <3>1 DEF FrameChecks
  <2>3. /\ lz' = [lz EXCEPT !.framePosn = Wrapped(lz.framePosn + lz.size), !.frame = lz.frame + 1]
        /\ pc' = "frame" /\ UNCHANGED err
    BY <1>21, <2>2 DEF LzxFrameEnds
  <2>4. /\ lz'.pad = lz.pad /\ lz'.blockType = lz.blockType /\ lz'.blockLength = lz.blockLength
        /\ lz'.options = lz.options /\ lz'.remaining = lz.remaining
    BY <1>5, <2>3 DEF LzxStates
  <2>5. BlockEnd' = BlockEnd /\ BlockLeft' <= BlockLeft
    <3>1. BlockLeft' = BlockLeft
      BY <1>4, <2>1, <2>3, <2>4 DEF BlockLeft
    <3> HIDE DEF BlockLeft
    <3> QED BY <1>4, <2>1, <3>1 DEF BlockEnd
  <2>6. Framed <= Framed' /\ Framed' <= total
    <3>1. WholeFrames(lz'.frame, Framed', lz'.framePosn, total') /\ Len(plain') = Framed'
      BY <1>1, <1>2, <2>3 DEF Sound, LzxInv, InFrame
    <3>2. Framed' <= total
      BY <1>1, <3>1 DEF WholeFrames
    <3>3. Framed <= Len(plain)
      BY <1>4, <1>7, <2>1
    <3> QED BY <2>1, <3>1, <3>2, <3>3
  <2>7. lz'.remaining < lz.blockLength \/ lz'.remaining = 0
    BY <1>3, <1>4, <2>1, <2>4
  <2> QED BY <1>1, <1>2, <1>3, <1>9, <2>3, <2>4, <2>5, <2>6, <2>7, SameBlock
<1>22. ~LzxWriteFails /\ ~LzxDamage
  BY DEF LzxWriteFails, LzxDamage, Damage
<1> QED
  BY <1>13, <1>14, <1>15, <1>16, <1>17, <1>18, <1>19, <1>20, <1>21, <1>22 DEF LzxNext

\* An error, once found, has been accounted for; and any other step is no error.
LEMMA StaysIntact ==
    ASSUME IntactIsDecoded, UNCHANGED <<method, total>>, asked <= asked', damaged => damaged',
           asked \in Int, asked' \in Int, total \in Int,
           method = "qtm" => qtm'.split = qtm.split,
           err' = err \/ err' = "ok" \/ damaged'
    PROVE  IntactIsDecoded'
<1>1. asked > total => asked' > total'
  OBVIOUS
<1> QED BY <1>1 DEF IntactIsDecoded

\* The beginning and the end of a call leave a stream intact.
LEMMA BeginIsIntact ==
    Sound /\ Sound' /\ IntactIsDecoded /\ LzxIntact /\ Begin => IntactIsDecoded' /\ LzxIntact'
<1> SUFFICES ASSUME Sound, Sound', IntactIsDecoded, LzxIntact, Begin
             PROVE  IntactIsDecoded' /\ LzxIntact'
  OBVIOUS
<1>1. /\ UNCHANGED <<method, total, plain, window, posn, lz, qtm>>
      /\ pc \in {"idle", "flush", "end"} /\ pc' \in {"idle", "flush", "start", "end"}
      /\ damaged => damaged'
      /\ (err' = err /\ damaged' = damaged) \/ damaged'
  BY DEF Begin, Call, Flush, FlushFails, Returns, Idle, Fail
<1>2. asked \in Nat /\ asked' \in Nat /\ total \in Nat
  BY RequestsAssumption DEF Sound, Typed
<1>3. asked <= asked'
  <2>1. ASSUME NEW n \in Requests, Call(n) PROVE asked <= asked'
    BY <1>2, <2>1, RequestsAssumption DEF Call
  <2>2. Flush \/ FlushFails \/ Returns => asked' = asked
    BY DEF Flush, FlushFails, Returns
  <2> QED BY <1>2, <2>1, <2>2 DEF Begin
<1>4. IntactIsDecoded'
  BY <1>1, <1>2, <1>3, StaysIntact
<1>5. LzxIntact'
  <2> SUFFICES ASSUME method = "lzx", err' = "ok", ~damaged' PROVE LzxIntact'
    BY <1>1 DEF LzxIntact
  <2>1. err = "ok" /\ ~damaged
    BY <1>1
  <2>2. /\ lz.remaining <= lz.blockLength
        /\ lz.remaining < lz.blockLength \/ lz.remaining = 0
    BY <1>1, <2>1 DEF LzxIntact
  <2>3. BlockLeft' = BlockLeft /\ BlockLeft \in Int /\ BlockEnd' = BlockEnd
    <3>1. BlockLeft' = BlockLeft
      <4>1. lz.remaining \in Nat
        BY LzxNumbers
      <4> QED BY <1>1, <4>1 DEF BlockLeft
    <3>2. BlockLeft \in Int
      BY LzxNumbers
    <3> HIDE DEF BlockLeft
    <3> QED BY <1>1, <3>1, <3>2 DEF BlockEnd
  <2>4. Framed <= Framed' /\ Framed' <= total
    <3>1. Framed = Len(plain) /\ WholeFrames(lz.frame, Framed, lz.framePosn, total)
      BY <1>1, <2>1 DEF Sound, LzxInv, InFrame
    <3>2. Framed' = Len(plain')
      BY <1>1 DEF Sound, LzxInv, InFrame
    <3>3. Framed \in Int /\ Framed <= total
      BY <3>1, LzxNumbers DEF WholeFrames
    <3> HIDE DEF Framed
    <3> QED BY <1>1, <1>2, <3>1, <3>2, <3>3
  <2>5. BlockLeft' <= BlockLeft
    <3> HIDE DEF BlockLeft
    <3> QED BY <2>3
  <2> QED BY <1>1, <2>1, <2>2, <2>3, <2>4, <2>5, SameBlock
<1> QED BY <1>4, <1>5

\* Every error of MSZIP is a damaged stream, one that is over, or a failed write.
LEMMA ZipIsIntact ==
    Sound /\ Sound' /\ IntactIsDecoded /\ ZipWants /\ ZipNext => IntactIsDecoded' /\ ZipWants'
<1> SUFFICES ASSUME Sound, Sound', IntactIsDecoded, ZipWants, ZipNext
             PROVE  IntactIsDecoded' /\ ZipWants'
  OBVIOUS
<1>1. method = "mszip" /\ UNCHANGED <<method, total, asked>>
  <2>1. method = "mszip"
    BY DEF ZipNext, ZipFrameBegins, ZipBlock, ZipLiteral, ZipMatch, BlockEnds, ZipFrameEnds,
       ZipWriteFails, ZipDamage, ZipInputEnds, InZip
  <2>2. UNCHANGED <<method, total, asked>>
    BY DEF ZipNext, ZipFrameBegins, ZipBlock, ZipLiteral, ZipMatch, Decoded, InflateFails,
       BlockEnds, ZipFrameEnds, ZipWriteFails, ZipDamage, Damage, ZipInputEnds, InputEnds
  <2> QED BY <2>1, <2>2
<1>2. /\ asked \in Nat /\ total \in Nat /\ Len(plain) \in Nat /\ Len(written) \in Nat
      /\ want \in Nat /\ want' \in Nat
  BY RequestsAssumption DEF Sound, Typed, Bytes
<1>3. ASSUME NEW e, NEW x, InflateFails(e, x) PROVE damaged' = TRUE /\ pc' # "start"
  BY <1>3 DEF InflateFails
<1>4. ASSUME NEW x, NEW bytes, Decoded(x, bytes), pc # "start"
      PROVE  pc' # "start" /\ ((err' = err /\ damaged' = damaged) \/ damaged' = TRUE)
  BY <1>3, <1>4 DEF Decoded
<1>5. CASE ZipInputEnds
  <2>1. /\ pc = "start" /\ pc' = "idle" /\ err = "ok" /\ Len(plain) >= total
    BY <1>1, <1>5 DEF ZipInputEnds, InZip, InputEnds, Fail, Sound, Accounts
  <2>2. want > 0 /\ Len(written) + want = asked /\ Len(plain) = Len(written)
    <3>1. optr = oend /\ Len(plain) = Len(written) + (oend - optr)
      BY <1>1, <2>1 DEF Sound, ZipInv, Kept, AtRest
    <3>2. oend - optr = 0
      BY <3>1 DEF Sound, Typed
    <3> QED BY <1>1, <1>2, <2>1, <3>1, <3>2 DEF ZipWants, Sound, Accounts
  <2>3. asked > total
    BY <1>2, <2>1, <2>2
  <2> QED BY <1>1, <2>1, <2>3 DEF IntactIsDecoded, ZipWants
<1>6. CASE ~ZipInputEnds
  <2>1. (err' = err /\ damaged' = damaged) \/ damaged' = TRUE
    <3>1. CASE ZipDamage
      BY <1>3, <3>1 DEF ZipDamage, Damage
    <3>2. CASE BlockEnds
      BY <1>3, <3>2 DEF BlockEnds
    <3>3. CASE ZipLiteral \/ \E distance \in ZipOffsets, len \in ZipLengths : ZipMatch(distance, len)
      BY <1>4, <3>3 DEF ZipLiteral, ZipMatch, InZip
    <3>4. CASE ZipFrameBegins \/ ZipFrameEnds \/ ZipWriteFails
               \/ \E last, huffman \in BOOLEAN : ZipBlock(last, huffman)
      BY <3>4 DEF ZipFrameBegins, ZipFrameEnds, ZipWriteFails, ZipBlock
    <3> QED BY <1>6, <3>1, <3>2, <3>3, <3>4 DEF ZipNext
  <2>2. IntactIsDecoded'
    <3>1. damaged => damaged'
      BY <2>1
    <3> QED BY <1>1, <1>2, <2>1, <3>1, StaysIntact
  <2>3. pc' = "start" => want' > 0
    <3>1. CASE ZipDamage
      BY <1>3, <3>1 DEF ZipDamage, Damage
    <3>2. CASE BlockEnds
      BY <1>3, <3>2 DEF BlockEnds, InZip
    <3>3. CASE ZipLiteral \/ \E distance \in ZipOffsets, len \in ZipLengths : ZipMatch(distance, len)
      BY <1>4, <3>3 DEF ZipLiteral, ZipMatch, InZip
    <3>4. CASE ZipFrameBegins \/ ZipWriteFails
               \/ \E last, huffman \in BOOLEAN : ZipBlock(last, huffman)
      BY <3>4 DEF ZipFrameBegins, ZipWriteFails, ZipBlock, Fail
    <3>5. CASE ZipFrameEnds
      BY <3>5 DEF ZipFrameEnds
    <3> QED BY <1>6, <3>1, <3>2, <3>3, <3>4, <3>5 DEF ZipNext
  <2> QED BY <2>2, <2>3 DEF ZipWants
<1> QED BY <1>5, <1>6

\* Quantum has one more error: the match that it cannot decode.
LEMMA QtmIsIntact == Sound /\ Sound' /\ IntactIsDecoded /\ QtmNext => IntactIsDecoded'
<1> SUFFICES ASSUME Sound, Sound', QtmNext, ~damaged', err' # "ok"
             PROVE  asked' > total' \/ (method' = "qtm" /\ qtm'.split)
  BY DEF IntactIsDecoded
<1>1. method = "qtm" /\ UNCHANGED <<method, total, asked>> /\ pc \notin {"idle", "end"}
  <2>1. method = "qtm" /\ pc \notin {"idle", "end"}
    BY DEF QtmNext, QtmDecodeMore, QtmLiteral, QtmMatch, QtmWrappingMatch, QtmRunEnds,
       QtmDecoded, QtmWindowWraps, QtmWritesRest, QtmWriteFails, QtmDamage, QtmInputEnds,
       DecodingQtm, InQtm
  <2>2. UNCHANGED <<method, total, asked>>
    BY DEF QtmNext, QtmDecodeMore, QtmLiteral, QtmMatch, QtmWrappingMatch, QtmRunEnds,
       QtmDecoded, QtmWindowWraps, QtmWritesRest, QtmWriteFails, QtmDamage, QtmInputEnds,
       Damage, InputEnds
  <2> QED BY <2>1, <2>2
<1>2. err = "ok" /\ Len(written) + want = asked
  BY <1>1 DEF Sound, Accounts
<1>3. /\ asked \in Nat /\ total \in Nat /\ Len(plain) \in Nat /\ Len(written) \in Nat
      /\ want \in Nat /\ posn \in Nat /\ optr \in Nat /\ QtmWindow \in Nat
  BY RequestsAssumption, QtmAssumption DEF Sound, Typed, Bytes
<1>4. qtm \in QtmStates
  BY <1>1 DEF Sound, QtmInv
<1>5. CASE QtmInputEnds
  <2>1. pc = "symbols" /\ posn < qtm.frameEnd /\ Len(plain) >= total
    BY <1>5 DEF QtmInputEnds, DecodingQtm, InQtm, InputEnds
  <2>2. qtm.frameEnd <= want + optr /\ Len(plain) = Len(written) + (posn - optr)
    BY <1>1, <1>2, <2>1 DEF Sound, QtmInv
  <2>3. qtm.frameEnd \in Int
    BY <1>4 DEF QtmStates
  <2>4. asked > total
    BY <1>2, <1>3, <2>1, <2>2, <2>3
  <2> QED BY <1>1, <2>4
<1>6. ASSUME NEW off \in QtmOffsets, NEW len \in QtmLengths, QtmMatch(off, len) PROVE FALSE
  <2>1. off \in 1 .. QtmWindow
    BY QtmAssumption
  <2>2. ~(off > posn /\ off - posn > QtmWindow)
    BY <1>3, <2>1
  <2>3. err' = err
    BY <1>6, <2>2 DEF QtmMatch
  <2> QED BY <1>2, <2>3
<1>7. ASSUME NEW off \in QtmOffsets, NEW len \in QtmLengths, QtmWrappingMatch(off, len)
      PROVE  qtm'.split
  <2>1. QtmWindow - optr > want
    BY <1>2, <1>7 DEF QtmWrappingMatch
  <2>2. qtm' = [qtm EXCEPT !.split = ~damaged']
    BY <1>7, <2>1 DEF QtmWrappingMatch
  <2> QED BY <1>4, <2>2 DEF QtmStates
<1>8. CASE QtmDecoded
  <2>1. Overshot /\ damaged' = damaged
    BY <1>2, <1>8 DEF QtmDecoded
  <2>2. qtm.todo >= 0
    BY <1>1, <1>2, <2>1 DEF Sound, QtmInv
  <2>3. qtm.todo \in Int
    BY <1>4 DEF QtmStates
  <2> QED BY <2>1, <2>2, <2>3 DEF Overshot
<1>9. CASE QtmDecodeMore \/ QtmLiteral \/ QtmRunEnds \/ QtmWindowWraps \/ QtmWritesRest
  BY <1>2, <1>9 DEF QtmDecodeMore, QtmLiteral, QtmRunEnds, QtmWindowWraps, QtmWritesRest
<1>10. CASE QtmWriteFails \/ QtmDamage
  BY <1>10 DEF QtmWriteFails, QtmDamage, Damage
<1> QED BY <1>1, <1>5, <1>6, <1>7, <1>8, <1>9, <1>10 DEF QtmNext

\* No step of a decoder refuses what an encoder wrote.
LEMMA IntactNext == Sound /\ Sound' /\ Intact /\ [Next]_vars => Intact'
<1> SUFFICES ASSUME Sound, Sound', Intact, [Next]_vars PROVE Intact'
  OBVIOUS
<1>1. IntactIsDecoded /\ LzxIntact /\ ZipWants
  BY DEF Intact
<1>2. CASE Begin
  <2>1. ZipWants'
    <3>1. pc' = "start" => want' # 0
      BY <1>2 DEF Begin, Call, Flush, FlushFails, Returns, Fail
    <3>2. want' \in Nat
      BY DEF Sound, Typed
    <3> QED BY <3>1, <3>2 DEF ZipWants
  <2> QED BY <1>1, <1>2, <2>1, BeginIsIntact DEF Intact
<1>3. CASE LzxNext /\ UNCHANGED <<zip, qtm>>
  <2>1. method' = "lzx"
    BY <1>3 DEF LzxNext, LzxStart, LzxFrameBegins, LzxReturns, LzxBlock, LzxRun, LzxLiteral, LzxMatch,
       LzxRunEnds, LzxFrameEnds, LzxWriteFails, LzxDamage, Damage, BlockBegins, Decoding, InLzx
  <2> QED BY <1>1, <1>3, <2>1, LzxIsIntact DEF Intact, ZipWants
<1>4. CASE ZipNext /\ UNCHANGED <<lz, qtm>>
  <2>1. method' = "mszip"
    BY <1>4 DEF ZipNext, ZipFrameBegins, ZipBlock, ZipLiteral, ZipMatch, Decoded, InflateFails,
       BlockEnds, ZipFrameEnds, ZipWriteFails, ZipDamage, Damage, ZipInputEnds, InputEnds, InZip
  <2> QED BY <1>1, <1>4, <2>1, ZipIsIntact DEF Intact, LzxIntact
<1>5. CASE QtmNext /\ UNCHANGED <<lz, zip>>
  <2>1. method' = "qtm"
    BY <1>5 DEF QtmNext, QtmDecodeMore, QtmLiteral, QtmMatch, QtmWrappingMatch, QtmRunEnds,
       QtmDecoded, QtmWindowWraps, QtmWritesRest, QtmWriteFails, QtmDamage, QtmInputEnds,
       Damage, InputEnds, DecodingQtm, InQtm
  <2> QED BY <1>1, <1>5, <2>1, QtmIsIntact DEF Intact, LzxIntact, ZipWants
<1>6. CASE UNCHANGED vars
  <2>1. UNCHANGED <<method, total, pc, want, window, posn, optr, oend, err,
                    plain, written, asked, damaged, lz, zip, qtm>>
    BY <1>6 DEF vars, decoderVars
  <2>2. IntactIsDecoded' /\ ZipWants'
    BY <1>1, <2>1 DEF IntactIsDecoded, ZipWants
  <2>3. LzxIntact'
    BY <1>1, <2>1 DEF LzxIntact, Framed, Stretch, BlockLeft, BlockEnd, Realigns
  <2> QED BY <2>2, <2>3 DEF Intact
<1> QED BY <1>2, <1>3, <1>4, <1>5, <1>6 DEF Next

\* For all sizes of windows and frames, all block lengths and ways to make the calls: a
\* stream as an encoder writes it, asked for no more than it holds, decodes without an
\* error, but for the match that qtmd_decompress cannot do.
THEOREM IntactDecodes == Spec => []IntactIsDecoded
<1>1. Init => Intact
  <2> SUFFICES ASSUME Init PROVE Intact
    OBVIOUS
  <2>1. err = "ok" /\ pc = "idle" /\ plain = <<>> /\ written = <<>> /\ optr = 0 /\ oend = 0
    BY DEF Init, LzxInit, ZipInit, QtmInit, InitDecoder
  <2>2. IntactIsDecoded /\ ZipWants
    BY <2>1 DEF IntactIsDecoded, ZipWants
  <2>3. LzxIntact
    <3> SUFFICES ASSUME method = "lzx" PROVE LzxIntact
      BY DEF LzxIntact
    <3>1. /\ lz.remaining = 0 /\ lz.blockLength = 0 /\ lz.pad = FALSE
          /\ lz.blockType = "invalid"
      BY DEF Init, LzxInit, ZipInit, QtmInit
    <3>2. BlockLeft = 0
      BY <2>1, <3>1 DEF BlockLeft
    <3>3. lz.pad = Realigns
      BY <3>1 DEF Realigns
    <3> QED BY <2>1, <3>1, <3>2, <3>3 DEF LzxIntact
  <2> QED BY <2>2, <2>3 DEF Intact
<1>2. Intact => IntactIsDecoded
  BY DEF Intact
<1> QED BY <1>1, <1>2, IntactNext, SoundAlways, PTL DEF Spec
=============================================================================
