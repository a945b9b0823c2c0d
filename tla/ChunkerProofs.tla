---------------------------- MODULE ChunkerProofs ----------------------------
(***************************************************************************)
(* What holds of the chunker for every document and all limits.            *)
(***************************************************************************)
EXTENDS Chunker, SequenceTheorems, FiniteSetTheorems, WellFoundedInduction, TLAPS

-----------------------------------------------------------------------------
(* Least elements and recursive functions *)

\* Every nonempty set of natural numbers has a least element.
LEMMA LeastNatural ==
  ASSUME NEW S, S \subseteq Nat, S # {}
  PROVE  \E m \in S : \A k \in S : m <= k
<1> DEFINE R == {ss \in Nat \X Nat : ss[1] < ss[2]}
<1>1. IsWellFoundedOn(R, Nat)
  BY NatLessThanWellFounded DEF OpToRel
<1>2. \A x, y \in Nat : <<y, x>> \in R <=> y < x
  OBVIOUS
<1> HIDE DEF R
<1>3. PICK m \in S : \A k \in S : ~ (<<k, m>> \in R)
  BY <1>1, WFMin
<1>4. ASSUME NEW k \in S PROVE m <= k
  <2>1. m \in Nat /\ k \in Nat /\ ~ (k < m)
    BY <1>2, <1>3
  <2> QED
    BY <2>1
<1> QED
  BY <1>4

\* Min is the least element, Max the greatest of a finite set.
LEMMA MinIsLeast ==
  ASSUME NEW S, S \subseteq Nat, S # {}
  PROVE  Min(S) \in S /\ \A k \in S : Min(S) <= k
BY LeastNatural DEF Min

\* Whether f begins with c and goes on with g.
IsRecursive(f, n, V, c, g) ==
  f \in [0 .. n -> V] /\ f[0] = c /\ \A i \in 1 .. n : f[i] = g[i][f[i - 1]]

\* A function that is defined by recursion on a number exists.
LEMMA Recursion ==
  ASSUME NEW V, NEW c \in V, NEW n \in Nat, NEW g \in [1 .. n -> [V -> V]]
  PROVE  \E f : IsRecursive(f, n, V, c, g)
<1> DEFINE Good(m, f) == f \in [0 .. m -> V] /\ f[0] = c /\ \A i \in 1 .. m : f[i] = g[i][f[i - 1]]
           Bad == {m \in 0 .. n : ~ \E f : Good(m, f)}
<1>1. SUFFICES ASSUME Bad # {} PROVE FALSE
  BY DEF Bad, IsRecursive
<1>2. PICK m \in Bad : \A k \in Bad : m <= k
  <2> HIDE DEF Bad
  <2>1. Bad \subseteq Nat
    BY DEF Bad
  <2> QED
    BY <1>1, <2>1, LeastNatural
<1>3. m # 0
  <2>1. Good(0, [i \in 0 .. 0 |-> c])
    OBVIOUS
  <2> QED
    BY <2>1, <1>2
<1>4. m - 1 \in 0 .. n /\ m - 1 \notin Bad /\ m \in 1 .. n
  BY <1>2, <1>3
<1>5. PICK f : Good(m - 1, f)
  BY <1>4
<1>6. g[m][f[m - 1]] \in V
  <2>1. m \in 1 .. n /\ f[m - 1] \in V
    BY <1>4, <1>5
  <2> QED
    BY <2>1
<1> DEFINE h == [i \in 0 .. m |-> IF i = m THEN g[m][f[m - 1]] ELSE f[i]]
<1>7. h \in [0 .. m -> V]
  BY <1>4, <1>5, <1>6
<1>8. h[0] = c
  BY <1>4, <1>5
<1> HIDE DEF Bad
<1>9. ASSUME NEW i \in 1 .. m PROVE h[i] = g[i][h[i - 1]]
  <2>1. h[i - 1] = f[i - 1] /\ h[i] = (IF i = m THEN g[m][f[m - 1]] ELSE f[i])
    BY <1>4
  <2> HIDE DEF h
  <2>2. CASE i = m
    BY <2>1, <2>2
  <2>3. CASE i # m
    <3>1. i \in 1 .. m - 1
      BY <2>3, <1>4
    <3> QED
      BY <2>1, <2>3, <3>1, <1>5
  <2> QED
    BY <2>2, <2>3
<1> HIDE DEF h
<1>10. Good(m, h)
  BY <1>7, <1>8, <1>9
<1> QED
  BY <1>2, <1>10 DEF Bad

\* Induction up to n, over the set of the numbers for which a fact holds.
LEMMA Induction ==
  ASSUME NEW n \in Nat, NEW S, 0 \in S, \A i \in 1 .. n : i - 1 \in S => i \in S
  PROVE  \A i \in 0 .. n : i \in S
<1>1. SUFFICES ASSUME {i \in 0 .. n : i \notin S} # {} PROVE FALSE
  OBVIOUS
<1>2. PICK m \in {i \in 0 .. n : i \notin S} : \A k \in {i \in 0 .. n : i \notin S} : m <= k
  <2>1. {i \in 0 .. n : i \notin S} \subseteq Nat
    OBVIOUS
  <2> QED
    BY <1>1, <2>1, LeastNatural
<1>3. m \in 1 .. n /\ m - 1 \in 0 .. n /\ m - 1 \in S
  BY <1>2
<1> QED
  BY <1>2, <1>3

-----------------------------------------------------------------------------
(* Ascending *)

\* Ascending's function takes one number after the other.
LEMMA AscendingSteps ==
  ASSUME NEW n \in Nat, NEW S
  PROVE  \E f : /\ f[0] = <<>> /\ Ascending(n, S) = f[n]
                /\ \A i \in 1 .. n : f[i] = IF i \in S THEN Append(f[i - 1], i) ELSE f[i - 1]
<1> DEFINE Body(f) == [i \in 0 .. n |-> IF i = 0 THEN <<>>
                         ELSE IF i \in S THEN Append(f[i - 1], i) ELSE f[i - 1]]
           V == Seq(Nat)
           g == [i \in 1 .. n |-> [v \in V |-> IF i \in S THEN Append(v, i) ELSE v]]
           F == CHOOSE f : f = Body(f)
           c == <<>>
<1>1. ASSUME NEW i \in 1 .. n, NEW v \in V
      PROVE  g[i][v] = (IF i \in S THEN Append(v, i) ELSE v) /\ g[i][v] \in V
  OBVIOUS
<1>2. g \in [1 .. n -> [V -> V]]
  OBVIOUS
<1>3. c \in V
  OBVIOUS
<1> HIDE DEF g, V, c
<1>4. PICK f \in [0 .. n -> V] : f[0] = c /\ \A i \in 1 .. n : f[i] = g[i][f[i - 1]]
  <2>1. PICK f : IsRecursive(f, n, V, c, g)
    BY <1>2, <1>3, Recursion
  <2> QED
    BY <2>1 DEF IsRecursive
<1>5. f = Body(f)
  <2>1. ASSUME NEW i \in 1 .. n PROVE f[i] = IF i \in S THEN Append(f[i - 1], i) ELSE f[i - 1]
    <3>1. f[i - 1] \in V
      BY <1>4
    <3> QED
      BY <1>4, <3>1, <1>1
  <2>2. ASSUME NEW i \in 0 .. n PROVE f[i] = Body(f)[i]
    <3>1. Body(f)[i] = IF i = 0 THEN <<>>
                       ELSE IF i \in S THEN Append(f[i - 1], i) ELSE f[i - 1]
      OBVIOUS
    <3> HIDE DEF Body
    <3>2. CASE i = 0
      BY <3>1, <3>2, <1>4 DEF c
    <3>3. CASE i # 0
      <4>1. i \in 1 .. n
        BY <3>3
      <4> QED
        BY <4>1, <3>1, <3>3, <2>1
    <3> QED
      BY <3>2, <3>3
  <2> HIDE DEF Body
  <2>3. Body(f) = [i \in 0 .. n |-> Body(f)[i]]
    BY DEF Body
  <2> QED
    BY <1>4, <2>2, <2>3
<1>6. F = Body(F)
  <2> HIDE DEF Body
  <2> QED
    BY <1>5
<1>7. Ascending(n, S) = F[n]
  BY DEF Ascending
<1> HIDE DEF F
<1>8. F[0] = <<>>
  BY <1>6
<1>9. ASSUME NEW i \in 1 .. n PROVE F[i] = IF i \in S THEN Append(F[i - 1], i) ELSE F[i - 1]
  <2>1. i \in 0 .. n /\ i # 0
    OBVIOUS
  <2> QED
    BY <2>1, <1>6
<1> QED
  BY <1>7, <1>8, <1>9

\* Whether s is the members of S up to n in order.
IsAscending(s, n, S) ==
  /\ s \in Seq(S \cap 1 .. n)
  /\ \A i, j \in 1 .. Len(s) : i < j => s[i] < s[j]
  /\ \A x \in S \cap 1 .. n : \E k \in 1 .. Len(s) : s[k] = x

\* Ascending is the members of the set in order.
LEMMA AscendingIsAscending ==
  ASSUME NEW n \in Nat, NEW S
  PROVE  IsAscending(Ascending(n, S), n, S)
<1>1. PICK f : /\ f[0] = <<>> /\ Ascending(n, S) = f[n]
               /\ \A i \in 1 .. n : f[i] = IF i \in S THEN Append(f[i - 1], i) ELSE f[i - 1]
  BY AscendingSteps
<1> DEFINE G == {i \in 0 .. n : IsAscending(f[i], i, S)}
<1>2. IsAscending(f[0], 0, S)
  <2>1. S \cap 1 .. 0 = {} /\ Len(<<>>) = 0 /\ <<>> \in Seq({}) /\ 1 .. 0 = {}
    OBVIOUS
  <2> QED
    BY <1>1, <2>1 DEF IsAscending
<1>3. ASSUME NEW i \in 1 .. n, i - 1 \in G PROVE IsAscending(f[i], i, S)
  <2> DEFINE s == f[i - 1]
  <2>1. /\ s \in Seq(S \cap 1 .. i - 1)
        /\ \A j, k \in 1 .. Len(s) : j < k => s[j] < s[k]
        /\ \A x \in S \cap 1 .. i - 1 : \E k \in 1 .. Len(s) : s[k] = x
    BY <1>3 DEF IsAscending
  <2>2. f[i] = IF i \in S THEN Append(s, i) ELSE s
    BY <1>1
  <2> HIDE DEF s
  <2>3. s \in Seq(S \cap 1 .. i) /\ Len(s) \in Nat /\ \A k \in 1 .. Len(s) : s[k] \in S \cap 1 .. i - 1
    <3>1. Seq(S \cap 1 .. i - 1) \subseteq Seq(S \cap 1 .. i)
      OBVIOUS
    <3> QED
      BY <2>1, <3>1
  <2>4. CASE i \notin S
    <3>1. S \cap 1 .. i = S \cap 1 .. i - 1
      BY <2>4
    <3> QED
      BY <2>1, <2>2, <2>3, <2>4, <3>1 DEF IsAscending
  <2>5. CASE i \in S
    <3> DEFINE t == Append(s, i)
    <3>1. t \in Seq(S \cap 1 .. i) /\ Len(t) = Len(s) + 1 /\ t[Len(s) + 1] = i
          /\ \A k \in 1 .. Len(s) : t[k] = s[k]
      BY <2>3, <2>5
    <3> HIDE DEF t
    <3>2. \A j, k \in 1 .. Len(t) : j < k => t[j] < t[k]
      <4> TAKE j, k \in 1 .. Len(t)
      <4>1. CASE k <= Len(s)
        <5> HAVE j < k
        <5>1. j \in 1 .. Len(s) /\ k \in 1 .. Len(s)
          BY <4>1, <3>1, <2>3
        <5> QED
          BY <5>1, <3>1, <2>1
      <4>2. CASE k = Len(s) + 1 /\ j <= Len(s)
        <5>1. t[j] \in 1 .. i - 1 /\ t[k] = i
          BY <4>2, <3>1, <2>3
        <5> QED
          BY <5>1
      <4>3. k <= Len(s) \/ (k = Len(s) + 1 /\ (j <= Len(s) \/ ~ (j < k)))
        BY <3>1, <2>3
      <4> QED
        BY <4>1, <4>2, <4>3
    <3>3. ASSUME NEW x \in S \cap 1 .. i PROVE \E k \in 1 .. Len(t) : t[k] = x
      <4>1. CASE x = i
        BY <4>1, <3>1, <2>3
      <4>2. CASE x # i
        <5>1. x \in S \cap 1 .. i - 1
          BY <4>2
        <5>2. PICK k \in 1 .. Len(s) : s[k] = x
          BY <5>1, <2>1
        <5>3. k \in 1 .. Len(t)
          BY <2>3, <3>1
        <5>4. t[k] = x
          BY <5>2, <3>1
        <5> QED
          BY <5>3, <5>4
      <4> QED
        BY <4>1, <4>2
    <3>4. f[i] = t
      BY <2>2, <2>5 DEF t
    <3> QED
      BY <3>1, <3>2, <3>3, <3>4 DEF IsAscending
  <2> QED
    BY <2>4, <2>5
<1>4. 0 \in G /\ \A i \in 1 .. n : i - 1 \in G => i \in G
  BY <1>2, <1>3
<1>5. n \in 0 .. n
  OBVIOUS
<1> HIDE DEF G
<1>6. n \in G
  BY <1>4, <1>5, Induction
<1> QED
  BY <1>1, <1>6 DEF G

\* What the proofs use of it, place by place.
LEMMA AscendingPlaces ==
  ASSUME NEW n \in Nat, NEW S
  PROVE  /\ Ascending(n, S) \in Seq(Nat) /\ Len(Ascending(n, S)) \in Nat
         /\ \A k \in 1 .. Len(Ascending(n, S)) :
              Ascending(n, S)[k] \in S /\ Ascending(n, S)[k] \in 1 .. n
         /\ \A x \in S \cap 1 .. n : Len(Ascending(n, S)) > 0
<1> DEFINE s == Ascending(n, S)
<1>1. /\ s \in Seq(S \cap 1 .. n)
      /\ \A x \in S \cap 1 .. n : \E k \in 1 .. Len(s) : s[k] = x
  BY AscendingIsAscending DEF IsAscending
<1> HIDE DEF s
<1>2. s \in Seq(Nat) /\ Len(s) \in Nat
  <2>1. Seq(S \cap 1 .. n) \subseteq Seq(Nat)
    OBVIOUS
  <2> QED
    BY <1>1, <2>1
<1>3. \A k \in 1 .. Len(s) : s[k] \in S \cap 1 .. n
  BY <1>1
<1>4. ASSUME NEW x \in S \cap 1 .. n PROVE Len(s) > 0
  <2>1. PICK k \in 1 .. Len(s) : s[k] = x
    BY <1>1
  <2> QED
    BY <2>1, <1>2
<1> QED
  BY <1>2, <1>3, <1>4 DEF s

-----------------------------------------------------------------------------
(* FlattenSeq *)

\* FlattenSeq's function appends one sequence after the other.
LEMMA FlattenSteps ==
  ASSUME NEW V, NEW seqs \in Seq(Seq(V)), seqs # <<>>
  PROVE  \E f : /\ f[1] = seqs[1] /\ FlattenSeq(seqs) = f[Len(seqs)]
                /\ \A i \in 2 .. Len(seqs) : f[i] = f[i - 1] \o seqs[i]
<1> DEFINE n == Len(seqs)
           Body(f) == [i \in 1 .. n |-> IF i = 1 THEN seqs[i] ELSE f[i - 1] \o seqs[i]]
           W == Seq(V)
           c == seqs[1]
           g == [i \in 1 .. n - 1 |-> [v \in W |-> v \o seqs[i + 1]]]
           F == CHOOSE f : f = Body(f)
<1>1. n \in Nat /\ n > 0 /\ n - 1 \in Nat /\ c \in W
  OBVIOUS
<1>2. ASSUME NEW i \in 1 .. n - 1, NEW v \in W
      PROVE  g[i][v] = v \o seqs[i + 1] /\ g[i][v] \in W
  <2>1. i + 1 \in 1 .. n
    BY <1>1
  <2> QED
    BY <2>1
<1>3. g \in [1 .. n - 1 -> [W -> W]]
  BY <1>2
<1> HIDE DEF g, W, c
<1>4. PICK f \in [0 .. n - 1 -> W] : f[0] = c /\ \A i \in 1 .. n - 1 : f[i] = g[i][f[i - 1]]
  <2> DEFINE m == n - 1
  <2>1. m \in Nat /\ c \in W /\ g \in [1 .. m -> [W -> W]]
    BY <1>1, <1>3
  <2> HIDE DEF m
  <2>2. PICK f : IsRecursive(f, m, W, c, g)
    BY <2>1, Recursion
  <2> QED
    BY <2>2 DEF m, IsRecursive
<1> DEFINE h == [i \in 1 .. n |-> f[i - 1]]
<1>5. h = Body(h)
  <2>1. ASSUME NEW i \in 1 .. n PROVE h[i] = IF i = 1 THEN seqs[i] ELSE h[i - 1] \o seqs[i]
    <3>1. CASE i = 1
      BY <3>1, <1>4 DEF c
    <3>2. CASE i # 1
      <4>1. i - 1 \in 1 .. n - 1 /\ i - 1 \in 1 .. n /\ i - 2 \in 0 .. n - 1 /\ (i - 1) - 1 = i - 2
            /\ (i - 1) + 1 = i
        BY <3>2, <1>1
      <4>2. h[i] = f[i - 1] /\ h[i - 1] = f[i - 2]
        BY <4>1
      <4>3. f[i - 1] = g[i - 1][f[i - 2]]
        BY <4>1, <1>4
      <4>4. g[i - 1][f[i - 2]] = f[i - 2] \o seqs[i]
        BY <4>1, <1>4, <1>2
      <4> QED
        BY <3>2, <4>2, <4>3, <4>4
    <3> QED
      BY <3>1, <3>2
  <2> QED
    BY <2>1
<1>6. F = Body(F)
  <2> HIDE DEF Body
  <2> QED
    BY <1>5
<1>7. FlattenSeq(seqs) = F[n]
  BY <1>1 DEF FlattenSeq
<1> HIDE DEF F
<1>8. F[1] = seqs[1]
  BY <1>1, <1>6
<1>9. ASSUME NEW i \in 2 .. n PROVE F[i] = F[i - 1] \o seqs[i]
  <2>1. i \in 1 .. n /\ i # 1
    OBVIOUS
  <2> QED
    BY <2>1, <1>6
<1> QED
  BY <1>7, <1>8, <1>9

\* Flattening sequences over V gives a sequence over V, no shorter than the first.
LEMMA FlattenType ==
  ASSUME NEW V, NEW seqs \in Seq(Seq(V))
  PROVE  /\ FlattenSeq(seqs) \in Seq(V)
         /\ seqs # <<>> => Len(FlattenSeq(seqs)) >= Len(seqs[1])
<1>1. CASE seqs = <<>>
  BY <1>1 DEF FlattenSeq
<1>2. CASE seqs # <<>>
  <2> DEFINE n == Len(seqs)
  <2>1. PICK f : /\ f[1] = seqs[1] /\ FlattenSeq(seqs) = f[n]
                 /\ \A i \in 2 .. n : f[i] = f[i - 1] \o seqs[i]
    BY <1>2, FlattenSteps
  <2>2. n \in Nat /\ n > 0
    BY <1>2
  <2> DEFINE G == {i \in 0 .. n : i > 0 => f[i] \in Seq(V) /\ Len(f[i]) >= Len(seqs[1])}
  <2>3. ASSUME NEW i \in 1 .. n, i - 1 \in G PROVE i \in G
    <3>1. CASE i = 1
      BY <3>1, <2>1, <2>2
    <3>2. CASE i # 1
      <4>1. i \in 2 .. n /\ i - 1 > 0
        BY <3>2, <2>2
      <4>2. f[i - 1] \in Seq(V) /\ Len(f[i - 1]) >= Len(seqs[1])
        BY <2>3, <4>1
      <4>3. seqs[i] \in Seq(V) /\ seqs[1] \in Seq(V)
        BY <2>2
      <4>4. f[i] = f[i - 1] \o seqs[i]
        BY <2>1, <4>1
      <4>5. f[i] \in Seq(V) /\ Len(f[i]) = Len(f[i - 1]) + Len(seqs[i])
        BY <4>2, <4>3, <4>4
      <4>6. Len(f[i - 1]) \in Nat /\ Len(seqs[i]) \in Nat /\ Len(seqs[1]) \in Nat
        BY <4>2, <4>3, LenProperties
      <4>7. Len(f[i]) >= Len(seqs[1])
        <5> DEFINE x == Len(f[i - 1])
                   y == Len(seqs[i])
                   z == Len(seqs[1])
        <5>1. x \in Nat /\ y \in Nat /\ z \in Nat /\ x >= z /\ Len(f[i]) = x + y
          BY <4>2, <4>5, <4>6
        <5> HIDE DEF x, y, z
        <5>2. Len(f[i]) >= z
          BY <5>1
        <5> QED
          BY <5>2 DEF z
      <4>8. i \in 0 .. n
        BY <2>2
      <4> QED
        BY <4>5, <4>7, <4>8
    <3> QED
      BY <3>1, <3>2
  <2>4. 0 \in G /\ n \in 0 .. n
    BY <2>2
  <2> HIDE DEF G
  <2>5. n \in G
    BY <2>2, <2>3, <2>4, Induction
  <2> QED
    BY <1>2, <2>1, <2>2, <2>5 DEF G
<1> QED
  BY <1>1, <1>2

-----------------------------------------------------------------------------
(* Tokens: what the functions return *)

Texts == Seq(Seq(Chars))

\* A nonempty set of numbers up to n has a greatest element.
LEMMA GreatestNatural ==
  ASSUME NEW n \in Nat, NEW S, S \subseteq 0 .. n, S # {}
  PROVE  \E m \in S : \A k \in S : k <= m
<1> DEFINE R == {i \in 0 .. n : n - i \in S}
<1>1. R \subseteq Nat
  OBVIOUS
<1>2. R # {}
  <2>1. PICK k \in S : TRUE
    OBVIOUS
  <2>2. n - k \in 0 .. n /\ n - (n - k) = k
    BY <2>1
  <2>3. n - k \in R
    BY <2>1, <2>2
  <2> QED
    BY <2>3
<1> HIDE DEF R
<1>3. PICK i \in R : \A k \in R : i <= k
  BY <1>1, <1>2, LeastNatural
<1>4. i \in 0 .. n /\ n - i \in S
  BY DEF R
<1>5. ASSUME NEW k \in S PROVE k <= n - i
  <2>1. k \in 0 .. n /\ n - k \in 0 .. n /\ n - (n - k) = k
    OBVIOUS
  <2>2. n - k \in R
    BY <2>1 DEF R
  <2>3. i <= n - k
    BY <2>2, <1>3
  <2> QED
    BY <2>1, <2>3, <1>4
<1> QED
  BY <1>4, <1>5

\* A part of a text is a text.
LEMMA SubText ==
  ASSUME NEW V, NEW t \in Seq(V), NEW m \in Nat, NEW n \in Int, m > 0, n <= Len(t)
  PROVE  SubSeq(t, m, n) \in Seq(V) /\ Len(SubSeq(t, m, n)) = IF m <= n THEN n - m + 1 ELSE 0
<1>1. \A i \in m .. n : t[i] \in V
  OBVIOUS
<1> QED
  BY <1>1, SubSeqProperties

\* The last element of a sequence, and what is before it.
LEMMA LastFront ==
  ASSUME NEW V, NEW s \in Seq(V), s # <<>>
  PROVE  Last(s) \in V /\ Front(s) \in Seq(V) /\ Len(Front(s)) = Len(s) - 1
<1>1. Len(s) \in Nat /\ Len(s) > 0
  OBVIOUS
<1>2. Last(s) \in V
  BY <1>1 DEF Last
<1>3. SubSeq(s, 1, Len(s) - 1) \in Seq(V)
      /\ Len(SubSeq(s, 1, Len(s) - 1)) = IF 1 <= Len(s) - 1 THEN Len(s) - 1 - 1 + 1 ELSE 0
  BY <1>1, SubText
<1>4. ASSUME NEW l \in Nat, l > 0 PROVE (IF 1 <= l - 1 THEN l - 1 - 1 + 1 ELSE 0) = l - 1
  BY <1>4
<1>5. Len(Front(s)) = Len(s) - 1
  BY <1>1, <1>3, <1>4 DEF Front
<1> QED
  BY <1>2, <1>3, <1>5 DEF Front

\* Cutting a text gives texts, and at least one where the first character starts
\* one.
LEMMA CutAtType ==
  ASSUME NEW t \in Seq(Chars), NEW starts
  PROVE  CutAt(t, starts) \in Texts /\ (1 \in starts /\ t # <<>> => CutAt(t, starts) # <<>>)
<1> DEFINE s == Ascending(Len(t), starts)
           piece(k) == SubSeq(t, s[k], IF k = Len(s) THEN Len(t) ELSE s[k + 1] - 1)
<1>1. Len(t) \in Nat
  OBVIOUS
<1>2. /\ Len(s) \in Nat
      /\ \A k \in 1 .. Len(s) : s[k] \in 1 .. Len(t)
      /\ 1 \in starts /\ t # <<>> => Len(s) > 0
  <2>1. t # <<>> => 1 \in 1 .. Len(t)
    OBVIOUS
  <2> QED
    BY <1>1, <2>1, AscendingPlaces
<1> HIDE DEF s
<1>3. ASSUME NEW k \in 1 .. Len(s) PROVE piece(k) \in Seq(Chars)
  <2>1. CASE k = Len(s)
    BY <2>1, <1>1, <1>2, SubText
  <2>2. CASE k # Len(s)
    <3>1. k + 1 \in 1 .. Len(s)
      BY <2>2, <1>2
    <3>2. s[k + 1] - 1 \in Int /\ s[k + 1] - 1 <= Len(t) /\ s[k] \in Nat /\ s[k] > 0
      BY <3>1, <1>1, <1>2
    <3> QED
      BY <2>2, <3>2, SubText
  <2> QED
    BY <2>1, <2>2
<1>4. CutAt(t, starts) = [k \in 1 .. Len(s) |-> piece(k)]
  BY DEF CutAt, s
<1> HIDE DEF piece
<1>5. [k \in 1 .. Len(s) |-> piece(k)] \in Texts /\ Len([k \in 1 .. Len(s) |-> piece(k)]) = Len(s)
  BY <1>2, <1>3 DEF Texts
<1> QED
  BY <1>2, <1>4, <1>5

\* The tokens of a run between words are texts.
LEMMA SplitNonWordType ==
  ASSUME NEW run \in Seq(Chars)
  PROVE  SplitNonWord(run) \in Texts /\ (run # <<>> => SplitNonWord(run) # <<>>)
<1> DEFINE starts == {i \in 1 .. Len(run) : i = 1 \/ run[i] # "s" \/ run[i - 1] # "s"}
<1>1. run # <<>> => 1 \in starts
  <2>1. run # <<>> => 1 \in 1 .. Len(run)
    OBVIOUS
  <2> QED
    BY <2>1
<1>2. SplitNonWord(run) = CutAt(run, starts)
  BY DEF SplitNonWord
<1> HIDE DEF starts
<1> QED
  BY <1>1, <1>2, CutAtType

\* A word and the run before it are one token or more.
LEMMA WithWordType ==
  ASSUME NEW run \in Seq(Chars), NEW word \in Seq(Chars)
  PROVE  WithWord(run, word) \in Texts /\ Len(WithWord(run, word)) > 0
<1>1. CASE run = <<>>
  BY <1>1 DEF WithWord, Texts
<1>2. CASE run # <<>>
  <2> DEFINE pieces == SplitNonWord(run)
  <2>1. pieces \in Texts /\ pieces # <<>>
    BY <1>2, SplitNonWordType
  <2>2. WithWord(run, word) = IF Last(pieces)[1] = "s" THEN Front(pieces) \o <<Last(pieces) \o word>>
                                                       ELSE pieces \o <<word>>
    BY <1>2 DEF WithWord
  <2> HIDE DEF pieces
  <2>3. Last(pieces) \in Seq(Chars) /\ Front(pieces) \in Texts
    BY <2>1, LastFront DEF Texts
  <2>4. <<Last(pieces) \o word>> \in Texts /\ <<word>> \in Texts
        /\ Len(<<Last(pieces) \o word>>) = 1 /\ Len(<<word>>) = 1
    BY <2>3 DEF Texts
  <2>5. ASSUME NEW s \in Texts, NEW u \in Texts, Len(u) = 1
        PROVE  s \o u \in Texts /\ Len(s \o u) > 0
    <3>1. s \o u \in Texts /\ Len(s \o u) = Len(s) + Len(u) /\ Len(s) \in Nat
      BY ConcatProperties, LenProperties DEF Texts
    <3> QED
      BY <3>1, <2>5
  <2> QED
    BY <2>1, <2>2, <2>3, <2>4, <2>5
<1> QED
  BY <1>1, <1>2

\* The run behind the last word leaves texts.
LEMMA WithRestType ==
  ASSUME NEW tokens \in Texts, tokens # <<>>, NEW run \in Seq(Chars)
  PROVE  WithRest(tokens, run) \in Texts
<1>1. Last(tokens) \in Seq(Chars) /\ Front(tokens) \in Texts
  BY LastFront DEF Texts
<1>2. Front(tokens) \o <<Last(tokens) \o run>> \in Texts
  BY <1>1 DEF Texts
<1>3. tokens \o SplitNonWord(run) \in Texts
  BY SplitNonWordType DEF Texts
<1> QED
  BY <1>2, <1>3 DEF WithRest

\* A run of word characters has an end at or behind each of its characters.
LEMMA SpanPlaces ==
  ASSUME NEW t \in Seq(Chars)
  PROVE  /\ Len(WordSpans(t)) \in Nat
         /\ \A k \in 1 .. Len(WordSpans(t)) :
              WordSpans(t)[k][1] \in 1 .. Len(t) /\ WordSpans(t)[k][2] \in 1 .. Len(t)
<1> DEFINE words == Indices(t, "w")
           first == Ascending(Len(t), {i \in words : i = 1 \/ t[i - 1] # "w"})
           last == {i \in words : i = Len(t) \/ t[i + 1] # "w"}
           span(k) == <<first[k], Min({i \in last : i >= first[k]})>>
<1>1. Len(t) \in Nat /\ words \subseteq 1 .. Len(t)
  BY DEF Indices
<1>2. /\ Len(first) \in Nat
      /\ \A k \in 1 .. Len(first) : first[k] \in words /\ first[k] \in 1 .. Len(t)
  BY <1>1, AscendingPlaces
<1>3. ASSUME NEW x \in words PROVE {i \in last : i >= x} # {}
  <2>1. x \in {i \in words : i >= x}
    BY <1>1
  <2>2. {i \in words : i >= x} \subseteq 0 .. Len(t) /\ {i \in words : i >= x} # {}
    BY <1>1, <2>1
  <2>3. PICK m \in {i \in words : i >= x} : \A k \in {i \in words : i >= x} : k <= m
    BY <1>1, <2>2, GreatestNatural
  <2>4. m = Len(t) \/ t[m + 1] # "w"
    <3>1. SUFFICES ASSUME m # Len(t), t[m + 1] = "w" PROVE FALSE
      OBVIOUS
    <3>2. m + 1 \in 1 .. Len(t) /\ m + 1 >= x /\ ~ (m + 1 <= m)
      BY <1>1, <2>3, <3>1
    <3>3. m + 1 \in words
      BY <3>1, <3>2 DEF Indices
    <3> QED
      BY <2>3, <3>2, <3>3
  <2>5. m \in {i \in last : i >= x}
    BY <2>3, <2>4
  <2> QED
    BY <2>5
<1>4. ASSUME NEW k \in 1 .. Len(first)
      PROVE  span(k)[1] \in 1 .. Len(t) /\ span(k)[2] \in 1 .. Len(t)
  <2> DEFINE later == {i \in last : i >= first[k]}
  <2>1. later \subseteq 1 .. Len(t) /\ later # {}
    BY <1>1, <1>2, <1>3
  <2> HIDE DEF later
  <2>2. later \subseteq Nat
    BY <2>1, <1>1
  <2>3. Min(later) \in 1 .. Len(t)
    BY <2>1, <2>2, MinIsLeast
  <2> QED
    BY <1>2, <2>3 DEF later
<1>5. WordSpans(t) = [k \in 1 .. Len(first) |-> span(k)]
  BY DEF WordSpans
<1> HIDE DEF first, span
<1> QED
  BY <1>2, <1>4, <1>5

\* Cutting a text into tokens gives texts.
LEMMA SplitType ==
  ASSUME NEW t \in Seq(Chars)
  PROVE  Split(t) \in Texts
<1> DEFINE spans == WordSpans(t)
           end(k) == IF k = 0 THEN 0 ELSE spans[k][2]
           parts == [k \in 1 .. Len(spans) |->
                      WithWord(SubSeq(t, end(k - 1) + 1, spans[k][1] - 1),
                               SubSeq(t, spans[k][1], spans[k][2]))]
           rest == SubSeq(t, end(Len(spans)) + 1, Len(t))
<1>1. CASE t = <<>>
  BY <1>1 DEF Split, Texts
<1>2. CASE t # <<>> /\ spans = <<>>
  <2>1. <<t>> \in Texts
    BY DEF Texts
  <2> QED
    BY <1>2, <2>1 DEF Split
<1>3. CASE t # <<>> /\ spans # <<>>
  <2>1. /\ Len(t) \in Nat /\ Len(spans) \in Nat
        /\ \A k \in 1 .. Len(spans) : spans[k][1] \in 1 .. Len(t) /\ spans[k][2] \in 1 .. Len(t)
    BY SpanPlaces
  <2>2. Len(spans) > 0
    <3>1. \E n \in Nat : \E g : spans = [k \in 1 .. n |-> g[k]]
      <4> DEFINE first == Ascending(Len(t), {i \in Indices(t, "w") : i = 1 \/ t[i - 1] # "w"})
      <4>1. Len(first) \in Nat
        BY <2>1, AscendingPlaces
      <4>2. spans = [k \in 1 .. Len(first) |-> spans[k]]
        BY DEF WordSpans
      <4> QED
        BY <4>1, <4>2
    <3> QED
      BY <1>3, <2>1, <3>1
  <2>3. \A k \in 0 .. Len(spans) : end(k) \in 0 .. Len(t)
    BY <2>1
  <2> HIDE DEF spans
  <2>4. ASSUME NEW k \in 1 .. Len(spans) PROVE parts[k] \in Texts /\ Len(parts[k]) > 0
    <3> DEFINE before == SubSeq(t, end(k - 1) + 1, spans[k][1] - 1)
               word == SubSeq(t, spans[k][1], spans[k][2])
    <3>1. k - 1 \in 0 .. Len(spans)
      BY <2>1
    <3>2. end(k - 1) \in 0 .. Len(t)
      BY <2>3, <3>1
    <3> HIDE DEF end
    <3>3. before \in Seq(Chars)
      <4>1. end(k - 1) + 1 \in Nat /\ end(k - 1) + 1 > 0
            /\ spans[k][1] - 1 \in Int /\ spans[k][1] - 1 <= Len(t)
        <5>1. spans[k][1] \in 1 .. Len(t) /\ Len(t) \in Nat
          BY <2>1
        <5>2. ASSUME NEW l \in Nat, NEW x \in 0 .. l, NEW y \in 1 .. l
              PROVE  x + 1 \in Nat /\ x + 1 > 0 /\ y - 1 \in Int /\ y - 1 <= l
          OBVIOUS
        <5> QED
          BY <3>2, <5>1, <5>2
      <4> QED
        BY <4>1, SubText
    <3>4. word \in Seq(Chars)
      <4>1. spans[k][1] \in Nat /\ spans[k][1] > 0 /\ spans[k][2] \in Int /\ spans[k][2] <= Len(t)
        BY <2>1
      <4> QED
        BY <4>1, SubText
    <3>5. parts[k] = WithWord(before, word)
      OBVIOUS
    <3> HIDE DEF before, word
    <3> QED
      BY <3>3, <3>4, <3>5, WithWordType
  <2>5. parts \in Seq(Texts) /\ Len(parts) = Len(spans)
    <3> DEFINE part(k) == parts[k]
    <3>1. parts = [k \in 1 .. Len(spans) |-> part(k)]
      OBVIOUS
    <3>2. \A k \in 1 .. Len(spans) : part(k) \in Texts
      BY <2>4
    <3> HIDE DEF part, parts
    <3> QED
      BY <2>1, <3>1, <3>2
  <2>6. parts # <<>> /\ Len(parts[1]) > 0
    BY <2>1, <2>2, <2>4, <2>5
  <2> HIDE DEF parts
  <2>7. FlattenSeq(parts) \in Texts /\ FlattenSeq(parts) # <<>>
    <3>1. FlattenSeq(parts) \in Texts /\ Len(FlattenSeq(parts)) >= Len(parts[1])
      BY <2>5, <2>6, FlattenType DEF Texts
    <3>2. Len(FlattenSeq(parts)) \in Nat /\ Len(parts[1]) \in Nat
      BY <3>1, <2>2, <2>4, <2>1, LenProperties DEF Texts
    <3> QED
      BY <3>1, <3>2, <2>6
  <2>8. rest \in Seq(Chars)
    <3>1. end(Len(spans)) \in 0 .. Len(t)
      BY <2>1, <2>3
    <3> HIDE DEF end
    <3>2. end(Len(spans)) + 1 \in Nat /\ end(Len(spans)) + 1 > 0
      BY <2>1, <3>1
    <3> QED
      BY <2>1, <3>2, SubText
  <2>9. Split(t) = WithRest(FlattenSeq(parts), rest)
    BY <1>3 DEF Split, parts, spans
  <2> HIDE DEF rest
  <2> QED
    BY <2>7, <2>8, <2>9, WithRestType
<1> QED
  BY <1>1, <1>2, <1>3

\* Every text has a number of tokens.
LEMMA CountIsNat ==
  ASSUME NEW t \in Seq(Chars)
  PROVE  CountTokens(t) \in Nat
BY SplitType DEF CountTokens, Texts

\* A text is cut into sentences, and each is a text.
LEMMA SentencesType ==
  ASSUME NEW t \in Seq(Chars)
  PROVE  SplitSentences(t) \in Texts
<1> DEFINE ends == {i \in Indices(t, ".") : i < Len(t) /\ t[i + 1] = "s"}
           starts == {j \in 1 .. Len(t) :
             \/ j = 1
             \/ /\ t[j] # "s"
                /\ \E i \in ends : i + 1 < j /\ IsAllWhitespace(SubSeq(t, i + 1, j - 1))}
           first == Ascending(Len(t), starts)
           last(j) == Min({i \in ends \cup {Len(t)} : i >= j})
           sentence(k) == SubSeq(t, first[k], last(first[k]))
<1>1. Len(t) \in Nat /\ ends \subseteq 1 .. Len(t)
  BY DEF Indices
<1>2. Len(first) \in Nat /\ \A k \in 1 .. Len(first) : first[k] \in 1 .. Len(t)
  <2> HIDE DEF starts
  <2> QED
    BY <1>1, AscendingPlaces
<1>3. ASSUME NEW j \in 1 .. Len(t) PROVE last(j) \in 1 .. Len(t)
  <2> DEFINE later == {i \in ends \cup {Len(t)} : i >= j}
  <2>1. later \subseteq 1 .. Len(t) /\ Len(t) \in later
    BY <1>1
  <2> HIDE DEF later
  <2>2. later \subseteq Nat
    BY <1>1, <2>1
  <2>3. Min(later) \in later
    BY <2>1, <2>2, MinIsLeast
  <2> QED
    BY <2>1, <2>3 DEF later
<1>4. ASSUME NEW k \in 1 .. Len(first) PROVE sentence(k) \in Seq(Chars)
  <2>1. first[k] \in 1 .. Len(t) /\ last(first[k]) \in 1 .. Len(t)
    BY <1>2, <1>3
  <2> HIDE DEF first, last
  <2> QED
    BY <1>1, <2>1, SubText
<1>5. SplitSentences(t) = [k \in 1 .. Len(first) |-> sentence(k)]
  BY DEF SplitSentences
<1> HIDE DEF first, sentence
<1> QED
  BY <1>2, <1>4, <1>5 DEF Texts

-----------------------------------------------------------------------------
(* The counts of a document *)

\* What the proofs use of a node.
LEMMA NodeFacts ==
  ASSUME NEW n \in Nodes
  PROVE  /\ n.text \in Seq(Chars) /\ n.level \in Nat
         /\ n.kind = "heading" => n.level > 0
         /\ NodeTokens[n] \in Nat
         /\ NodeSentences[n] \in Texts /\ Len(NodeSentences[n]) \in Nat
<1>1. n.text \in Seq(Chars) /\ n.level \in Nat /\ (n.kind = "heading" => n.level > 0)
  BY ChunkerAssumption
<1>2. NodeTokens[n] = CountTokens(n.text) /\ NodeSentences[n] = SplitSentences(n.text)
  BY DEF NodeTokens, NodeSentences
<1>3. CountTokens(n.text) \in Nat /\ SplitSentences(n.text) \in Texts
  BY <1>1, CountIsNat, SentencesType
<1>4. Len(SplitSentences(n.text)) \in Nat
  BY <1>3 DEF Texts
<1> QED
  BY <1>1, <1>2, <1>3, <1>4

\* The sums of the counts of the first sentences: numbers, one count after the
\* other.
LEMMA SumSteps ==
  ASSUME NEW n \in Nodes
  PROVE  /\ \A k \in 0 .. Len(NodeSentences[n]) : NodeSums[n][k] \in Nat
         /\ \A k \in 1 .. Len(NodeSentences[n]) :
              NodeSums[n][k] = NodeSums[n][k - 1] + CountTokens(NodeSentences[n][k])
<1> DEFINE l == Len(NodeSentences[n])
           count(k) == CountTokens(NodeSentences[n][k])
           Body(f) == [k \in 0 .. l |-> IF k = 0 THEN 0 ELSE f[k - 1] + count(k)]
           c == 0
           V == Nat
           g == [k \in 1 .. l |-> [v \in V |-> v + count(k)]]
           F == CHOOSE f : f = Body(f)
<1>1. l \in Nat /\ \A k \in 1 .. l : count(k) \in Nat
  <2>1. NodeSentences[n] \in Seq(Seq(Chars)) /\ l \in Nat
    BY NodeFacts DEF Texts
  <2>2. \A k \in 1 .. l : NodeSentences[n][k] \in Seq(Chars)
    BY <2>1
  <2> QED
    BY <2>1, <2>2, CountIsNat
<1> HIDE DEF l, count
<1>2. c \in V /\ g \in [1 .. l -> [V -> V]]
  BY <1>1
<1>3. \A k \in 1 .. l, v \in V : g[k][v] = v + count(k)
  OBVIOUS
<1> HIDE DEF c, V, g
<1>4. PICK f : IsRecursive(f, l, V, c, g)
  BY <1>1, <1>2, Recursion
<1>5. f \in [0 .. l -> V] /\ f[0] = 0 /\ \A k \in 1 .. l : f[k] = g[k][f[k - 1]]
  BY <1>4 DEF IsRecursive, c
<1>6. f = Body(f)
  <2>1. ASSUME NEW k \in 0 .. l PROVE f[k] = IF k = 0 THEN 0 ELSE f[k - 1] + count(k)
    <3>1. CASE k = 0
      BY <3>1, <1>5
    <3>2. CASE k # 0
      <4>1. k \in 1 .. l /\ k - 1 \in 0 .. l
        BY <3>2, <1>1
      <4>2. f[k - 1] \in V
        BY <4>1, <1>5
      <4> QED
        BY <3>2, <4>1, <4>2, <1>3, <1>5
    <3> QED
      BY <3>1, <3>2
  <2> QED
    BY <2>1, <1>5
<1>7. F = Body(F)
  <2> HIDE DEF Body
  <2> QED
    BY <1>6
<1>8. NodeSums[n] = F
  BY DEF NodeSums, l, count
<1> HIDE DEF F
<1> DEFINE G == {k \in 0 .. l : F[k] \in Nat}
<1>9. 0 \in G
  BY <1>1, <1>7
<1>10. ASSUME NEW k \in 1 .. l, k - 1 \in G PROVE k \in G
  <2>1. k \in 0 .. l /\ k # 0
    BY <1>1
  <2>2. F[k] = F[k - 1] + count(k)
    BY <2>1, <1>7
  <2> QED
    BY <2>1, <2>2, <1>1, <1>10
<1> HIDE DEF G
<1>11. \A k \in 0 .. l : k \in G
  BY <1>1, <1>9, <1>10, Induction
<1>12. ASSUME NEW k \in 1 .. l PROVE F[k] = F[k - 1] + count(k)
  <2>1. k \in 0 .. l /\ k # 0
    BY <1>1
  <2> QED
    BY <2>1, <1>7
<1> QED
  BY <1>8, <1>11, <1>12 DEF G, l, count

\* The sums are numbers.
LEMMA SumsAreNat ==
  ASSUME NEW n \in Nodes
  PROVE  \A k \in 0 .. Len(NodeSentences[n]) : NodeSums[n][k] \in Nat
BY SumSteps

\* What is not a placeholder is a node.
LEMMA NonzeroPlace == \A n \in Nat : \A x \in 0 .. n : x # 0 => x \in 1 .. n
OBVIOUS

\* The heading context of a section has a number of tokens.
LEMMA ContextIsNat ==
  ASSUME doc \in Seq(Nodes), NEW headings \in Seq(0 .. Len(doc))
  PROVE  ContextTokens(headings) \in Nat
<1> DEFINE path == HeadingPath(headings)
           kept == Ascending(Len(headings), {i \in 1 .. Len(headings) : headings[i] # 0})
<1>1. Len(headings) \in Nat /\ Len(doc) \in Nat
  OBVIOUS
<1>2. /\ Len(kept) \in Nat
      /\ \A k \in 1 .. Len(kept) : kept[k] \in {i \in 1 .. Len(headings) : headings[i] # 0}
  BY <1>1, AscendingPlaces
<1>3. ASSUME NEW k \in 1 .. Len(kept) PROVE headings[kept[k]] \in 1 .. Len(doc)
  <2>1. kept[k] \in 1 .. Len(headings) /\ headings[kept[k]] # 0
    BY <1>2
  <2> HIDE DEF kept
  <2>2. headings[kept[k]] \in 0 .. Len(doc)
    BY <2>1
  <2> QED
    BY <1>1, <2>1, <2>2, NonzeroPlace
<1> DEFINE place(k) == headings[kept[k]]
<1>4. path = [k \in 1 .. Len(kept) |-> place(k)]
  BY DEF HeadingPath
<1>5. Len(path) \in Nat /\ \A k \in 1 .. Len(path) : path[k] \in 1 .. Len(doc)
  <2>1. \A k \in 1 .. Len(kept) : place(k) \in 1 .. Len(doc)
    BY <1>3
  <2> HIDE DEF kept, path, place
  <2> QED
    BY <2>1, <1>2, <1>4
<1> HIDE DEF kept, path, place
<1>6. ASSUME NEW h \in 1 .. Len(doc) PROVE Rendered(h) \in Seq(Chars)
  <2>1. doc[h] \in Nodes
    OBVIOUS
  <2>2. doc[h].level \in Nat /\ Text(h) \in Seq(Chars)
    BY <2>1, NodeFacts DEF Text
  <2>3. [i \in 1 .. doc[h].level |-> "p"] \in Seq(Chars) /\ <<"s">> \in Seq(Chars)
    BY <2>2 DEF Chars
  <2> QED
    BY <2>2, <2>3 DEF Rendered
<1>7. ContextText(headings) \in Seq(Chars)
  <2> DEFINE texts == [i \in 1 .. Len(path) |-> Rendered(path[i])]
             separator == <<"s", "p", "s">>
             seqs == [i \in 1 .. Len(texts) |-> IF i = 1 THEN texts[i] ELSE separator \o texts[i]]
  <2>1. separator \in Seq(Chars)
    BY DEF Chars
  <2>2. Len(texts) = Len(path) /\ \A i \in 1 .. Len(path) : texts[i] \in Seq(Chars)
    BY <1>5, <1>6
  <2> HIDE DEF texts, separator
  <2>3. ASSUME NEW i \in 1 .. Len(texts)
        PROVE  (IF i = 1 THEN texts[i] ELSE separator \o texts[i]) \in Seq(Chars)
    BY <2>1, <2>2
  <2>4. seqs \in Seq(Seq(Chars))
    BY <1>5, <2>2, <2>3
  <2>5. ContextText(headings) = FlattenSeq(seqs)
    BY DEF ContextText, JoinTexts, path, texts, separator
  <2> HIDE DEF seqs
  <2> QED
    BY <2>4, <2>5, FlattenType
<1> QED
  BY <1>7, CountIsNat DEF ContextTokens

-----------------------------------------------------------------------------
(* The heading stack and the merged sections, place by place *)

\* Concatenations and parts of sequences, element by element.
IsConcat(r, V, s, t) ==
  /\ r \in Seq(V) /\ Len(s) \in Nat /\ Len(t) \in Nat /\ Len(r) = Len(s) + Len(t)
  /\ \A i \in 1 .. Len(s) : r[i] = s[i]
  /\ \A i \in 1 .. Len(t) : r[Len(s) + i] = t[i]

IsPart(r, V, s, m, n) ==
  /\ r \in Seq(V) /\ Len(r) = n - m + 1
  /\ \A i \in 1 .. n - m + 1 : r[i] = s[m + i - 1]

\* Where the elements of two sequences are when these are joined.
LEMMA ConcatPlaces ==
  ASSUME NEW V, NEW s \in Seq(V), NEW t \in Seq(V)
  PROVE  IsConcat(s \o t, V, s, t)
<1>1. /\ s \o t \in Seq(V) /\ Len(s) \in Nat /\ Len(t) \in Nat
      /\ Len(s \o t) = Len(s) + Len(t)
      /\ \A i \in 1 .. Len(s) + Len(t) : (s \o t)[i] = IF i <= Len(s) THEN s[i] ELSE t[i - Len(s)]
  BY ConcatProperties, LenProperties
<1>2. \A a, b \in Nat : \A i \in 1 .. a : i \in 1 .. a + b /\ i <= a
  OBVIOUS
<1>3. \A a, b \in Nat : \A i \in 1 .. b : a + i \in 1 .. a + b /\ ~ (a + i <= a) /\ (a + i) - a = i
  OBVIOUS
<1>4. ASSUME NEW i \in 1 .. Len(s) PROVE (s \o t)[i] = s[i]
  BY <1>1, <1>2
<1>5. ASSUME NEW i \in 1 .. Len(t) PROVE (s \o t)[Len(s) + i] = t[i]
  BY <1>1, <1>3
<1> QED
  BY <1>1, <1>4, <1>5 DEF IsConcat

\* Where the elements of a part of a sequence come from.
LEMMA PartPlaces ==
  ASSUME NEW V, NEW s \in Seq(V), NEW m \in Nat, NEW n \in Int, m > 0, n <= Len(s), m <= n + 1
  PROVE  IsPart(SubSeq(s, m, n), V, s, m, n)
<1>1. \A i \in m .. n : s[i] \in V
  OBVIOUS
<1>2. /\ SubSeq(s, m, n) \in Seq(V)
      /\ Len(SubSeq(s, m, n)) = IF m <= n THEN n - m + 1 ELSE 0
      /\ \A i \in 1 .. n - m + 1 : SubSeq(s, m, n)[i] = s[m + i - 1]
  BY <1>1, SubSeqProperties
<1>3. (IF m <= n THEN n - m + 1 ELSE 0) = n - m + 1
  OBVIOUS
<1> QED
  BY <1>2, <1>3 DEF IsPart

\* A new heading of a level: the levels above it stay, skipped ones are 0.
LEMMA PushPlaces ==
  ASSUME NEW n \in Nat, stack \in Seq(0 .. n), NEW h \in Nat, NEW level \in Nat, level > 0, n <= h
  PROVE  /\ PushHeading(h, level) \in Seq(0 .. h) /\ Len(PushHeading(h, level)) = level
         /\ PushHeading(h, level)[level] = h
         /\ \A i \in 1 .. level - 1 :
              PushHeading(h, level)[i] = IF i <= Len(stack) THEN stack[i] ELSE 0
<1> DEFINE least == Min({level - 1, Len(stack)})
           upper == SubSeq(stack, 1, least)
           fill == [i \in 1 .. level - 1 - Len(upper) |-> 0]
           V == 0 .. h
<1>1. Len(stack) \in Nat /\ stack \in Seq(V)
  <2>1. Seq(0 .. n) \subseteq Seq(V)
    <3>1. 0 .. n \subseteq V
      OBVIOUS
    <3> QED
      BY <3>1
  <2> QED
    BY <2>1
<1>2. least \in Nat /\ least = (IF level - 1 <= Len(stack) THEN level - 1 ELSE Len(stack))
  <2>1. {level - 1, Len(stack)} \subseteq Nat
    BY <1>1
  <2>2. least \in {level - 1, Len(stack)} /\ \A k \in {level - 1, Len(stack)} : least <= k
    BY <2>1, MinIsLeast
  <2> QED
    BY <2>1, <2>2
<1>3. least <= Len(stack) /\ least <= level - 1
  <2> DEFINE l == Len(stack)
  <2> HIDE DEF least
  <2>1. l \in Nat /\ least = (IF level - 1 <= l THEN level - 1 ELSE l)
    BY <1>1, <1>2
  <2> HIDE DEF l
  <2>2. least <= l /\ least <= level - 1
    BY <2>1
  <2> QED
    BY <2>2 DEF l
<1> HIDE DEF least
<1>4. upper \in Seq(V) /\ Len(upper) = least /\ \A i \in 1 .. least : upper[i] = stack[i]
  <2> HIDE DEF V
  <2>1. IsPart(upper, V, stack, 1, least)
    <3>1. least \in Int /\ 1 <= least + 1
      BY <1>2
    <3> QED
      BY <3>1, <1>1, <1>3, PartPlaces
  <2> HIDE DEF upper
  <2>2. least - 1 + 1 = least /\ \A i \in 1 .. least : 1 + i - 1 = i
    BY <1>2
  <2> QED
    BY <2>1, <2>2 DEF IsPart
<1> DEFINE m == level - 1 - Len(upper)
<1>5. m \in Nat /\ least + m = level - 1
  BY <1>2, <1>3, <1>4
<1> HIDE DEF upper
<1>6. fill \in Seq(V) /\ Len(fill) = m /\ \A i \in 1 .. m : fill[i] = 0
  BY <1>5
<1> HIDE DEF fill, m
<1>7. <<h>> \in Seq(V) /\ Len(<<h>>) = 1 /\ <<h>>[1] = h
  OBVIOUS
<1> HIDE DEF V
<1> DEFINE front == upper \o fill
<1>8. /\ front \in Seq(V) /\ Len(front) = level - 1
      /\ \A i \in 1 .. least : front[i] = stack[i]
      /\ \A i \in 1 .. m : front[least + i] = 0
  <2>1. IsConcat(front, V, upper, fill)
    BY <1>4, <1>6, ConcatPlaces
  <2> HIDE DEF front
  <2> QED
    BY <2>1, <1>4, <1>5, <1>6 DEF IsConcat
<1> HIDE DEF front
<1>9. ASSUME NEW i \in 1 .. level - 1
      PROVE  front[i] = IF i <= Len(stack) THEN stack[i] ELSE 0
  <2>1. CASE i <= least
    BY <2>1, <1>1, <1>2, <1>3, <1>8
  <2>2. CASE i > least
    <3>1. i - least \in 1 .. m /\ least + (i - least) = i /\ least = Len(stack)
      BY <2>2, <1>1, <1>2, <1>3, <1>5
    <3>2. front[i] = 0
      BY <3>1, <1>8
    <3> QED
      BY <2>2, <3>1, <3>2
  <2> QED
    BY <2>1, <2>2, <1>2
<1>10. PushHeading(h, level) = front \o <<h>>
  BY DEF PushHeading, front, fill, m, upper, least
<1>11. /\ front \o <<h>> \in Seq(V) /\ Len(front \o <<h>>) = level - 1 + 1
       /\ \A i \in 1 .. level - 1 : (front \o <<h>>)[i] = front[i]
       /\ (front \o <<h>>)[level - 1 + 1] = h
  <2> DEFINE one == <<h>>
             all == front \o one
  <2>1. one \in Seq(V) /\ Len(one) = 1 /\ one[1] = h
    BY <1>7
  <2> HIDE DEF one
  <2>2. IsConcat(all, V, front, one)
    BY <1>8, <2>1, ConcatPlaces
  <2>3. 1 \in 1 .. Len(one)
    BY <2>1
  <2> HIDE DEF all
  <2>4. all \in Seq(V) /\ Len(all) = level - 1 + 1 /\ all[level - 1 + 1] = h
    BY <1>8, <2>1, <2>2, <2>3 DEF IsConcat
  <2>5. \A i \in 1 .. level - 1 : all[i] = front[i]
    BY <1>8, <2>2 DEF IsConcat
  <2> QED
    BY <2>4, <2>5 DEF all, one
<1>12. level - 1 + 1 = level
  OBVIOUS
<1> QED
  BY <1>9, <1>10, <1>11, <1>12 DEF V

IsSplice(r, V, s, a, e) ==
  /\ r \in Seq(V) /\ Len(r) = Len(s) - 1 /\ r[a] = e
  /\ \A i \in 1 .. a - 1 : r[i] = s[i]
  /\ \A i \in a + 1 .. Len(s) - 1 : r[i] = s[i + 1]

\* Two neighbours replaced by one element.
LEMMA MergedPlaces ==
  ASSUME NEW V, NEW s \in Seq(V), NEW a \in 1 .. Len(s) - 1, NEW e \in V
  PROVE  IsSplice(SubSeq(s, 1, a - 1) \o <<e>> \o SubSeq(s, a + 2, Len(s)), V, s, a, e)
<1> DEFINE n == Len(s)
           u == SubSeq(s, 1, a - 1)
           w == SubSeq(s, a + 2, n)
           x == u \o <<e>>
<1>1. n \in Nat /\ a \in Nat /\ a > 0 /\ a <= n - 1 /\ \A i \in 1 .. n : s[i] \in V
  BY LenProperties
<1>2. u \in Seq(V) /\ Len(u) = a - 1 /\ \A i \in 1 .. a - 1 : u[i] = s[i]
  <2>1. IsPart(u, V, s, 1, a - 1)
    BY <1>1, PartPlaces
  <2> HIDE DEF u
  <2>2. a - 1 - 1 + 1 = a - 1 /\ \A i \in 1 .. a - 1 : 1 + i - 1 = i
    BY <1>1
  <2> QED
    BY <2>1, <2>2 DEF IsPart
<1>3. w \in Seq(V) /\ Len(w) = n - a - 1 /\ \A i \in 1 .. n - a - 1 : w[i] = s[a + 1 + i]
  <2>1. IsPart(w, V, s, a + 2, n)
    <3>1. a + 2 \in Nat /\ a + 2 > 0 /\ n \in Int /\ n <= Len(s) /\ a + 2 <= n + 1
      BY <1>1
    <3> QED
      BY <3>1, PartPlaces
  <2> HIDE DEF w
  <2>2. n - (a + 2) + 1 = n - a - 1 /\ \A i \in 1 .. n - a - 1 : a + 2 + i - 1 = a + 1 + i
    BY <1>1
  <2> QED
    BY <2>1, <2>2 DEF IsPart
<1> HIDE DEF u, w, n
<1>4. <<e>> \in Seq(V) /\ Len(<<e>>) = 1 /\ <<e>>[1] = e /\ 1 \in 1 .. Len(<<e>>)
  OBVIOUS
<1>5. /\ x \in Seq(V) /\ Len(x) = a - 1 + 1 /\ x[a - 1 + 1] = e
      /\ \A i \in 1 .. a - 1 : x[i] = u[i]
  <2> DEFINE one == <<e>>
             all == u \o one
  <2>1. one \in Seq(V) /\ Len(one) = 1 /\ one[1] = e /\ 1 \in 1 .. Len(one)
    BY <1>4
  <2> HIDE DEF one
  <2>2. IsConcat(all, V, u, one)
    BY <1>2, <2>1, ConcatPlaces
  <2> HIDE DEF all
  <2>3. all \in Seq(V) /\ Len(all) = a - 1 + 1 /\ all[a - 1 + 1] = e
    BY <1>2, <2>1, <2>2 DEF IsConcat
  <2>4. \A i \in 1 .. a - 1 : all[i] = u[i]
    BY <1>2, <2>2 DEF IsConcat
  <2> QED
    BY <2>3, <2>4 DEF all, one
<1>6. a - 1 + 1 = a
  BY <1>1
<1> HIDE DEF x
<1>7. /\ x \o w \in Seq(V) /\ Len(x \o w) = a + (n - a - 1)
      /\ \A i \in 1 .. a : (x \o w)[i] = x[i]
      /\ \A i \in 1 .. n - a - 1 : (x \o w)[a + i] = w[i]
  <2> DEFINE all == x \o w
  <2>1. IsConcat(all, V, x, w)
    BY <1>3, <1>5, ConcatPlaces
  <2> HIDE DEF all
  <2>2. all \in Seq(V) /\ Len(all) = a + (n - a - 1)
    BY <1>3, <1>5, <1>6, <2>1 DEF IsConcat
  <2>3. \A i \in 1 .. a : all[i] = x[i]
    BY <1>5, <1>6, <2>1 DEF IsConcat
  <2>4. \A i \in 1 .. n - a - 1 : all[a + i] = w[i]
    BY <1>3, <1>5, <1>6, <2>1 DEF IsConcat
  <2> QED
    BY <2>2, <2>3, <2>4 DEF all
<1>8. a + (n - a - 1) = n - 1 /\ a \in 1 .. a
  BY <1>1
<1>9. ASSUME NEW i \in 1 .. a - 1 PROVE (x \o w)[i] = s[i]
  <2>1. i \in 1 .. a
    BY <1>1
  <2> QED
    BY <2>1, <1>2, <1>5, <1>7
<1>10. ASSUME NEW i \in a + 1 .. n - 1 PROVE (x \o w)[i] = s[i + 1]
  <2>1. i - a \in 1 .. n - a - 1 /\ a + (i - a) = i /\ a + 1 + (i - a) = i + 1
    BY <1>1
  <2>2. (x \o w)[i] = w[i - a] /\ w[i - a] = s[i + 1]
    BY <2>1, <1>3, <1>7
  <2> QED
    BY <2>2
<1>11. SubSeq(s, 1, a - 1) \o <<e>> \o SubSeq(s, a + 2, Len(s)) = x \o w
  BY DEF x, u, w, n
<1>12. (x \o w)[a] = e
  BY <1>5, <1>6, <1>7, <1>8
<1> QED
  BY <1>7, <1>8, <1>9, <1>10, <1>11, <1>12 DEF n, IsSplice

-----------------------------------------------------------------------------
(* TypeOK *)

\* Nothing is grouped or emitted before the sections are split.
Idle == phase # "split" =>
  pos = 1 /\ start = 0 /\ group = <<>> /\ currentTokens = 0 /\ chunks = <<>>

TypeInv == TypeOK /\ Idle

\* The larger of two numbers, as the budget is.
LEMMA MaxOfTwo ==
  \A x, y \in Int : Max({x, y}) = IF x >= y THEN x ELSE y
<1> SUFFICES ASSUME NEW x \in Int, NEW y \in Int PROVE Max({x, y}) = IF x >= y THEN x ELSE y
  OBVIOUS
<1> DEFINE m == IF x >= y THEN x ELSE y
<1>1. m \in {x, y} /\ \A z \in {x, y} : m >= z
  OBVIOUS
<1>2. \A u \in {x, y} : (\A z \in {x, y} : u >= z) => u = m
  OBVIOUS
<1> HIDE DEF m
<1>3. Max({x, y}) = m
  BY <1>1, <1>2 DEF Max
<1> QED
  BY <1>3 DEF m

\* The fields of sections and chunks.
LEMMA SectionFields ==
  \A s \in Section : /\ s.headings \in Seq(0 .. Len(doc)) /\ s.tokens \in Nat
                     /\ s.blocks \in Seq(1 .. Len(doc)) /\ Len(s.blocks) \in Nat
BY DEF Section

\* The element that splitSection works on.
LEMMA FirstElement ==
  ASSUME NEW V, NEW s \in Seq(V), s # <<>>
  PROVE  s[1] \in V /\ Len(s) \in Nat /\ 1 \in 1 .. Len(s)
OBVIOUS

\* An element of a sequence has the type of its elements.
LEMMA Element ==
  ASSUME NEW V, NEW s \in Seq(V), NEW i \in 1 .. Len(s)
  PROVE  s[i] \in V
OBVIOUS

\* The budget of a section leaves room for its context, but at least one token.
LEMMA BudgetType ==
  ASSUME doc \in Seq(Nodes), NEW rest \in Seq(Section)
  PROVE  /\ BudgetFor(rest) \in 0 .. TargetMax
         /\ rest # <<>> /\ TargetMax - ContextTokens(rest[1].headings) >= 1 =>
              BudgetFor(rest) = TargetMax - ContextTokens(rest[1].headings)
<1>1. TargetMax \in Nat /\ TargetMax > 0
  BY ChunkerAssumption
<1>2. CASE rest = <<>>
  BY <1>1, <1>2 DEF BudgetFor
<1>3. CASE rest # <<>>
  <2> DEFINE c == ContextTokens(rest[1].headings)
  <2>1. rest[1].headings \in Seq(0 .. Len(doc))
    BY <1>3, FirstElement, SectionFields
  <2>2. c \in Nat
    BY <2>1, ContextIsNat
  <2>3. BudgetFor(rest) = Max({1, TargetMax - c})
    BY <1>3 DEF BudgetFor
  <2> HIDE DEF c
  <2>4. BudgetFor(rest) = IF 1 >= TargetMax - c THEN 1 ELSE TargetMax - c
    BY <1>1, <2>2, <2>3, MaxOfTwo
  <2>5. BudgetFor(rest) \in 0 .. TargetMax /\ (TargetMax - c >= 1 => BudgetFor(rest) = TargetMax - c)
    BY <1>1, <2>2, <2>4
  <2> QED
    BY <2>5 DEF c
<1> QED
  BY <1>2, <1>3

\* Flushing a group makes a chunk.
LEMMA FlushedType ==
  ASSUME TypeOK, sections # <<>>, NEW pieces \in Seq(Piece)
  PROVE  Flushed(pieces) \in Seq(Chunk)
<1>1. sections[1].headings \in Seq(0 .. Len(doc)) /\ chunks \in Seq(Chunk)
  <2>1. sections \in Seq(Section) /\ chunks \in Seq(Chunk)
    BY DEF TypeOK
  <2> QED
    BY <2>1, FirstElement, SectionFields
<1>2. [headings |-> sections[1].headings, pieces |-> pieces] \in Chunk
  BY <1>1 DEF Chunk
<1> QED
  BY <1>1, <1>2 DEF Flushed, Headings

\* The block that is next, and what it is made of.
LEMMA NextBlockType ==
  ASSUME TypeOK, AtBlock
  PROVE  /\ sections \in Seq(Section) /\ sections # <<>> /\ sections[1] \in Section
         /\ Len(sections[1].blocks) \in Nat /\ pos \in 1 .. Len(sections[1].blocks)
         /\ NextBlock \in 1 .. Len(doc) /\ doc[NextBlock] \in Nodes
         /\ BlockTokens(NextBlock) \in Nat /\ Len(Sentences(NextBlock)) \in Nat
         /\ \A i \in 0 .. Len(Sentences(NextBlock)) : NodeSums[doc[NextBlock]][i] \in Nat
<1>1. sections \in Seq(Section) /\ sections # <<>> /\ sections[1] \in Section
  <2>1. sections \in Seq(Section) /\ sections # <<>>
    BY DEF TypeOK, AtBlock, Splitting
  <2> QED
    BY <2>1, FirstElement
<1>2. sections[1].blocks \in Seq(1 .. Len(doc)) /\ Len(sections[1].blocks) \in Nat
  BY <1>1, SectionFields
<1>3. pos \in 1 .. Len(sections[1].blocks)
  BY <1>2 DEF TypeOK, AtBlock
<1>4. NextBlock \in 1 .. Len(doc)
  BY <1>2, <1>3, Element DEF NextBlock
<1>5. doc[NextBlock] \in Nodes
  BY <1>4 DEF TypeOK
<1> QED
  BY <1>1, <1>2, <1>3, <1>4, <1>5, NodeFacts, SumsAreNat DEF BlockTokens, Sentences

\* The state before the walk has the types.
LEMMA InitType == Init => TypeInv
<1> SUFFICES ASSUME Init PROVE TypeInv
  OBVIOUS
<1>1. {TargetMax, MaxNodes} \subseteq Nat
  BY ChunkerAssumption
<1> QED
  BY <1>1 DEF Init, TypeInv, TypeOK, Idle

IsReplaced(r, V, s, e) ==
  /\ r \in Seq(V) /\ Len(r) = Len(s) /\ Len(s) \in Nat /\ Len(s) > 0 /\ r[Len(s)] = e
  /\ \A i \in 1 .. Len(s) - 1 : r[i] = s[i]

\* The last element replaced by another.
LEMMA ReplacedPlaces ==
  ASSUME NEW V, NEW s \in Seq(V), s # <<>>, NEW e \in V
  PROVE  IsReplaced(Front(s) \o <<e>>, V, s, e)
<1> DEFINE u == Front(s)
           one == <<e>>
           r == u \o one
           n == Len(s)
<1>1. n \in Nat /\ n > 0
  OBVIOUS
<1>2. IsPart(u, V, s, 1, n - 1)
  <2>1. n - 1 \in Int /\ n - 1 <= Len(s) /\ 1 <= n - 1 + 1
    BY <1>1
  <2>2. IsPart(SubSeq(s, 1, n - 1), V, s, 1, n - 1)
    BY <2>1, PartPlaces
  <2> QED
    BY <2>2 DEF Front
<1> HIDE DEF u
<1>3. n - 1 - 1 + 1 = n - 1 /\ n - 1 + 1 = n /\ \A i \in 1 .. n - 1 : 1 + i - 1 = i
  BY <1>1
<1>4. u \in Seq(V) /\ Len(u) = n - 1 /\ \A i \in 1 .. n - 1 : u[i] = s[i]
  <2> HIDE DEF n
  <2> QED
    BY <1>2, <1>3 DEF IsPart
<1>5. one \in Seq(V) /\ Len(one) = 1 /\ one[1] = e /\ 1 \in 1 .. Len(one)
  OBVIOUS
<1> HIDE DEF one
<1>6. IsConcat(r, V, u, one)
  BY <1>4, <1>5, ConcatPlaces
<1> HIDE DEF r, n
<1>7. r \in Seq(V) /\ Len(r) = n /\ r[n] = e /\ \A i \in 1 .. n - 1 : r[i] = s[i]
  BY <1>3, <1>4, <1>5, <1>6 DEF IsConcat
<1> QED
  BY <1>1, <1>7 DEF IsReplaced, r, n, u, one

\* Where the elements of a sequence are when one is added.
LEMMA AppendedPlaces ==
  ASSUME NEW V, NEW s \in Seq(V), NEW e \in V
  PROVE  /\ Append(s, e) \in Seq(V) /\ Len(Append(s, e)) = Len(s) + 1 /\ Len(s) \in Nat
         /\ Append(s, e) # <<>> /\ Append(s, e)[Len(s) + 1] = e
         /\ \A i \in 1 .. Len(s) : Append(s, e)[i] = s[i]
BY AppendProperties, LenProperties

\* A node that is walked makes the document longer; what named nodes goes on
\* naming them.
LEMMA WalkType ==
  ASSUME TypeInv, NEW n \in Nodes, Walk(n)
  PROVE  TypeInv'
<1> DEFINE d == Len(doc)
<1>1. /\ doc \in Seq(Nodes) /\ d \in Nat /\ d < MaxNodes /\ doc' = Append(doc, n)
      /\ phase = "walk" /\ MaxNodes \in Nat /\ doc' \in Seq(Nodes) /\ Len(doc') = d + 1
  <2>1. MaxNodes \in Nat
    BY ChunkerAssumption
  <2>2. doc \in Seq(Nodes) /\ doc' = Append(doc, n) /\ Len(doc) < MaxNodes /\ phase = "walk"
    BY DEF TypeInv, TypeOK, Walk
  <2> QED
    BY <2>1, <2>2, AppendedPlaces
<1>2. /\ stack \in Seq(0 .. d) /\ sections \in Seq(Section)
      /\ \A i \in 1 .. Len(sections) : sections[i].blocks # <<>>
      /\ pos = 1 /\ start = 0 /\ group = <<>> /\ currentTokens = 0 /\ chunks = <<>>
      /\ budget \in 0 .. TargetMax
  BY <1>1 DEF TypeInv, TypeOK, Idle
<1>3. Seq(0 .. d) \subseteq Seq(0 .. Len(doc')) /\ Seq(1 .. d) \subseteq Seq(1 .. Len(doc'))
  <2> DEFINE A == 0 .. d
             B == 0 .. Len(doc')
             C == 1 .. d
             D == 1 .. Len(doc')
  <2>1. A \subseteq B /\ C \subseteq D
    BY <1>1
  <2> HIDE DEF A, B, C, D
  <2>2. Seq(A) \subseteq Seq(B)
    BY <2>1
  <2>3. Seq(C) \subseteq Seq(D)
    BY <2>1
  <2> QED
    BY <2>2, <2>3 DEF A, B, C, D
<1>4. Section \subseteq Section'
  BY <1>3 DEF Section
<1>5. Seq(Section) \subseteq Seq(Section')
  <2> DEFINE A == Section
             B == Section'
  <2>1. A \subseteq B
    BY <1>4
  <2> HIDE DEF A, B
  <2>2. Seq(A) \subseteq Seq(B)
    BY <2>1
  <2> QED
    BY <2>2 DEF A, B
<1>6. stack' \in Seq(0 .. Len(doc'))
  <2>1. CASE stack' = stack
    BY <2>1, <1>2, <1>3
  <2>2. CASE stack' # stack
    <3>1. n.kind = "heading" /\ stack' = PushHeading(d + 1, n.level)
      BY <2>2 DEF Walk, WalkHeading, WalkBlock
    <3>2. n.level \in Nat /\ n.level > 0 /\ d + 1 \in Nat /\ d <= d + 1
      BY <1>1, <3>1, NodeFacts
    <3> HIDE DEF d
    <3>3. PushHeading(d + 1, n.level) \in Seq(0 .. d + 1)
      BY <1>1, <1>2, <3>2, PushPlaces
    <3> QED
      BY <3>1, <3>3, <1>1
  <2> QED
    BY <2>1, <2>2
<1>7. sections' \in Seq(Section') /\ \A i \in 1 .. Len(sections') : sections'[i].blocks # <<>>
  <2> DEFINE b == d + 1
             new == [headings |-> stack, blocks |-> <<b>>, tokens |-> NodeTokens[n]]
             old == Last(sections)
             grown == [old EXCEPT !.blocks = Append(@, b), !.tokens = @ + NodeTokens[n]]
             V == Section'
  <2>1. b \in 1 .. Len(doc') /\ NodeTokens[n] \in Nat
    BY <1>1, NodeFacts
  <2>2. sections \in Seq(V)
    BY <1>2, <1>5
  <2>3. CASE sections' = sections
    BY <2>2, <2>3, <1>2
  <2>4. CASE sections # <<>> /\ sections' = Front(sections) \o <<grown>>
    <3>1. old \in Section
      BY <2>4, <1>2, LastFront
    <3>2. old.headings \in Seq(0 .. Len(doc')) /\ old.blocks \in Seq(1 .. Len(doc')) /\ old.tokens \in Nat
          /\ old \in V
      <4>1. old.headings \in Seq(0 .. d) /\ old.blocks \in Seq(1 .. d) /\ old.tokens \in Nat
        BY <3>1, SectionFields
      <4> QED
        BY <4>1, <3>1, <1>3, <1>4
    <3>3. grown = [headings |-> old.headings, blocks |-> Append(old.blocks, b),
                   tokens |-> old.tokens + NodeTokens[n]]
      <4> DEFINE x == Append(old.blocks, b)
                 y == old.tokens + NodeTokens[n]
      <4>1. old = [headings |-> old.headings, blocks |-> old.blocks, tokens |-> old.tokens]
        <5> HIDE DEF old
        <5> QED
          BY <3>1 DEF Section
      <4>2. grown = [old EXCEPT !.blocks = x, !.tokens = y]
        OBVIOUS
      <4> HIDE DEF old, b, x, y, grown
      <4> QED
        BY <4>1, <4>2 DEF x, y
    <3> HIDE DEF old, b
    <3>4. Append(old.blocks, b) \in Seq(1 .. Len(doc')) /\ Append(old.blocks, b) # <<>>
      <4> DEFINE D == 1 .. Len(doc')
      <4>1. old.blocks \in Seq(D) /\ b \in D
        BY <2>1, <3>2
      <4> HIDE DEF D
      <4>2. Append(old.blocks, b) \in Seq(D) /\ Append(old.blocks, b) # <<>>
        BY <4>1, AppendedPlaces
      <4> QED
        BY <4>2 DEF D
    <3>5. old.tokens + NodeTokens[n] \in Nat
      <4>1. \A x, y \in Nat : x + y \in Nat
        OBVIOUS
      <4> QED
        BY <2>1, <3>2, <4>1
    <3>6. grown \in V /\ grown.blocks # <<>>
      <4> HIDE DEF b
      <4> QED
        BY <3>2, <3>3, <3>4, <3>5 DEF Section
    <3> HIDE DEF grown, V
    <3>7. IsReplaced(sections', V, sections, grown)
      BY <2>2, <2>4, <3>6, ReplacedPlaces
    <3>8. sections' \in Seq(V)
      BY <3>7 DEF IsReplaced
    <3>9. ASSUME NEW i \in 1 .. Len(sections') PROVE sections'[i].blocks # <<>>
      <4>1. Len(sections') = Len(sections) /\ Len(sections) \in Nat
            /\ sections'[Len(sections)] = grown
            /\ \A k \in 1 .. Len(sections) - 1 : sections'[k] = sections[k]
        BY <3>7 DEF IsReplaced
      <4>2. CASE i = Len(sections)
        BY <4>1, <4>2, <3>6
      <4>3. CASE i # Len(sections)
        <5>1. i \in 1 .. Len(sections) - 1 /\ i \in 1 .. Len(sections)
          BY <4>1, <4>3
        <5> QED
          BY <4>1, <5>1, <1>2
      <4> QED
        BY <4>2, <4>3
    <3> QED
      BY <3>8, <3>9 DEF V
  <2>5. CASE sections' = Append(sections, new)
    <3>1. new \in V /\ new.blocks # <<>>
      <4>1. stack \in Seq(0 .. Len(doc')) /\ <<b>> \in Seq(1 .. Len(doc')) /\ <<b>> # <<>>
        BY <2>1, <1>2, <1>3
      <4> HIDE DEF b
      <4> QED
        BY <4>1, <2>1 DEF Section
    <3> HIDE DEF new, V
    <3>2. /\ sections' \in Seq(V) /\ Len(sections') = Len(sections) + 1 /\ Len(sections) \in Nat
          /\ sections'[Len(sections) + 1] = new
          /\ \A i \in 1 .. Len(sections) : sections'[i] = sections[i]
      BY <2>2, <2>5, <3>1, AppendedPlaces
    <3>3. ASSUME NEW i \in 1 .. Len(sections') PROVE sections'[i].blocks # <<>>
      <4>1. i \in 1 .. Len(sections) \/ i = Len(sections) + 1
        BY <3>2
      <4> QED
        BY <4>1, <3>1, <3>2, <1>2
    <3> QED
      BY <3>2, <3>3 DEF V
  <2>6. \/ sections' = sections
        \/ sections # <<>> /\ sections' = Front(sections) \o <<grown>>
        \/ sections' = Append(sections, new)
    <3>1. WalkHeading(n) \/ WalkBlock(n)
      BY DEF Walk
    <3>2. CASE WalkHeading(n)
      BY <3>2 DEF WalkHeading
    <3>3. CASE WalkBlock(n)
      <4>1. CASE n.text = <<>>
        BY <3>3, <4>1 DEF WalkBlock
      <4>2. CASE n.text # <<>> /\ Open
        BY <3>3, <4>2 DEF WalkBlock, Open
      <4>3. CASE n.text # <<>> /\ ~ Open
        BY <3>3, <4>3 DEF WalkBlock
      <4> QED
        BY <4>1, <4>2, <4>3
    <3> QED
      BY <3>1, <3>2, <3>3
  <2> HIDE DEF grown, new, V, b
  <2> QED
    BY <2>3, <2>4, <2>5, <2>6 DEF V
<1>8. /\ phase' = phase /\ pos' = pos /\ start' = start /\ budget' = budget /\ group' = group
      /\ currentTokens' = currentTokens /\ chunks' = chunks
  BY DEF Walk
<1>9. /\ phase' = "walk" /\ pos' = 1 /\ start' = 0 /\ budget' \in 0 .. TargetMax
      /\ group' = <<>> /\ currentTokens' = 0 /\ chunks' = <<>>
  BY <1>1, <1>2, <1>8
<1>10. doc' \in Seq(Nodes) /\ Len(doc') <= MaxNodes
  BY <1>1
<1>11. group' \in Seq(Piece') /\ chunks' \in Seq(Chunk')
  BY <1>9
<1> QED
  BY <1>6, <1>7, <1>9, <1>10, <1>11 DEF TypeInv, TypeOK, Idle

\* A step that leaves the document alone leaves the sets of values alone.
LEMMA SameValues ==
  ASSUME doc' = doc
  PROVE  Section' = Section /\ Piece' = Piece /\ Chunk' = Chunk
<1>1. Section' = Section
  BY DEF Section
<1>2. Piece' = Piece
  BY DEF Piece
<1> QED
  BY <1>1, <1>2 DEF Chunk

\* The walk ends with well-formed sections.
LEMMA EndOfDocumentType ==
  ASSUME TypeInv, EndOfDocument
  PROVE  TypeInv'
<1>1. UNCHANGED <<doc, stack, sections, pos, start, budget, group, currentTokens, chunks>> /\ phase' = "merge"
      /\ phase = "walk"
  BY DEF EndOfDocument
<1>2. Section' = Section /\ Piece' = Piece /\ Chunk' = Chunk
  BY <1>1, SameValues
<1>3. pos = 1 /\ start = 0 /\ group = <<>> /\ currentTokens = 0 /\ chunks = <<>>
  BY <1>1 DEF TypeInv, Idle
<1> QED
  BY <1>1, <1>2, <1>3 DEF TypeInv, TypeOK, Idle

\* The headings above the last one are headings.
LEMMA ParentPathType ==
  ASSUME NEW V, NEW h \in Seq(V)
  PROVE  ParentPath(h) \in Seq(V) /\ Len(ParentPath(h)) \in Nat
<1>1. CASE Len(h) <= 1
  BY <1>1 DEF ParentPath
<1>2. CASE ~ (Len(h) <= 1)
  <2>1. h # <<>>
    BY <1>2
  <2>2. ParentPath(h) = Front(h)
    BY <1>2 DEF ParentPath
  <2>3. Front(h) \in Seq(V)
    BY <2>1, LastFront
  <2> QED
    BY <2>2, <2>3, LenProperties
<1> QED
  BY <1>1, <1>2

\* Two sections merged into one, and the list of sections afterwards.
LEMMA MergedSection ==
  ASSUME NEW a \in Section, NEW b \in Section, a.blocks # <<>>
  PROVE  /\ MergeInto(a, b) \in Section /\ MergeInto(a, b).blocks # <<>>
         /\ MergeInto(a, b).headings = ParentPath(a.headings)
         /\ MergeInto(a, b).blocks = a.blocks \o b.blocks
         /\ MergeInto(a, b).tokens = a.tokens + b.tokens
         /\ IsConcat(a.blocks \o b.blocks, 1 .. Len(doc), a.blocks, b.blocks)
<1> DEFINE V == 1 .. Len(doc)
           H == 0 .. Len(doc)
<1>1. a.headings \in Seq(H) /\ a.blocks \in Seq(V) /\ b.blocks \in Seq(V)
      /\ a.tokens \in Nat /\ b.tokens \in Nat
  BY SectionFields
<1> HIDE DEF V, H
<1>2. ParentPath(a.headings) \in Seq(H)
  BY <1>1, ParentPathType
<1> DEFINE r == a.blocks \o b.blocks
<1>3. IsConcat(r, V, a.blocks, b.blocks)
  BY <1>1, ConcatPlaces
<1>4. r \in Seq(V) /\ r # <<>>
  <2>1. r \in Seq(V) /\ Len(r) = Len(a.blocks) + Len(b.blocks) /\ Len(a.blocks) \in Nat
        /\ Len(b.blocks) \in Nat
    BY <1>3 DEF IsConcat
  <2>2. Len(a.blocks) # 0
    BY <1>1
  <2> DEFINE x == Len(a.blocks)
             y == Len(b.blocks)
  <2>3. x + y # 0
    <3>1. x \in Nat /\ y \in Nat /\ x # 0
      BY <2>1, <2>2
    <3> HIDE DEF x, y
    <3> QED
      BY <3>1
  <2> QED
    BY <2>1, <2>3
<1>5. a.tokens + b.tokens \in Nat
  <2>1. \A x, y \in Nat : x + y \in Nat
    OBVIOUS
  <2> QED
    BY <1>1, <2>1
<1>6. MergeInto(a, b) = [headings |-> ParentPath(a.headings), blocks |-> r, tokens |-> a.tokens + b.tokens]
  BY DEF MergeInto
<1> HIDE DEF r
<1> DEFINE t == a.tokens + b.tokens
           p == ParentPath(a.headings)
<1> HIDE DEF t, p
<1>7. MergeInto(a, b) = [headings |-> p, blocks |-> r, tokens |-> t] /\ p \in Seq(H) /\ t \in Nat
  BY <1>2, <1>5, <1>6 DEF p, t
<1>8. MergeInto(a, b).headings = p /\ MergeInto(a, b).blocks = r /\ MergeInto(a, b).tokens = t
      /\ MergeInto(a, b) \in Section
  BY <1>4, <1>7 DEF Section, H, V
<1> QED
  BY <1>3, <1>4, <1>8 DEF r, t, p, V

IsMerge(a) ==
  /\ a \in 1 .. Len(sections) - 1 /\ Len(sections) \in Nat
  /\ IsSibling(sections[a], sections[a + 1]) /\ CombinedFits(sections[a], sections[a + 1])
  /\ sections' \in Seq(Section) /\ Len(sections') = Len(sections) - 1
  /\ sections'[a] = MergeInto(sections[a], sections[a + 1])
  /\ \A i \in 1 .. a - 1 : sections'[i] = sections[i]
  /\ \A i \in a + 1 .. Len(sections) - 1 : sections'[i] = sections[i + 1]
  /\ sections[a] \in Section /\ sections[a + 1] \in Section

\* What a merge does, in terms of the places of the sections.
LEMMA MergePlaces ==
  ASSUME TypeOK, Merge
  PROVE  \E a \in 1 .. Len(sections) - 1 : IsMerge(a)
<1>1. PICK i \in 1 .. Len(sections) : CanMerge(i) /\
        \E a \in {IF Mergeable(i) THEN i ELSE i - 1} :
          sections' = SubSeq(sections, 1, a - 1)
                     \o <<MergeInto(sections[a], sections[a + 1])>>
                     \o SubSeq(sections, a + 2, Len(sections))
  BY DEF Merge
<1> DEFINE a == IF Mergeable(i) THEN i ELSE i - 1
<1>2. Mergeable(a)
  BY <1>1 DEF CanMerge
<1>3. sections' = SubSeq(sections, 1, a - 1)
                     \o <<MergeInto(sections[a], sections[a + 1])>>
                     \o SubSeq(sections, a + 2, Len(sections))
  BY <1>1
<1> HIDE DEF a
<1>4. sections \in Seq(Section) /\ \A k \in 1 .. Len(sections) : sections[k].blocks # <<>>
  BY DEF TypeOK
<1>5. /\ a \in 1 .. Len(sections) - 1 /\ Len(sections) \in Nat
      /\ IsSibling(sections[a], sections[a + 1]) /\ CombinedFits(sections[a], sections[a + 1])
  BY <1>2, <1>4 DEF Mergeable
<1>6. a \in 1 .. Len(sections) /\ a + 1 \in 1 .. Len(sections)
  BY <1>5
<1>7. sections[a] \in Section /\ sections[a + 1] \in Section /\ sections[a].blocks # <<>>
  BY <1>4, <1>6, Element
<1>8. MergeInto(sections[a], sections[a + 1]) \in Section
  BY <1>7, MergedSection
<1> DEFINE e == MergeInto(sections[a], sections[a + 1])
           V == Section
<1> HIDE DEF e, V
<1>9. IsSplice(SubSeq(sections, 1, a - 1) \o <<e>> \o SubSeq(sections, a + 2, Len(sections)),
               V, sections, a, e)
  <2>1. e \in V /\ sections \in Seq(V)
    BY <1>4, <1>8 DEF e, V
  <2> QED
    BY <1>5, <2>1, MergedPlaces
<1>10. IsMerge(a)
  <2>1. IsSplice(sections', V, sections, a, e)
    BY <1>3, <1>9 DEF e
  <2> QED
    BY <2>1, <1>5, <1>7 DEF IsMerge, IsSplice, e, V
<1> QED
  BY <1>5, <1>10

\* Two sections merged are a section with blocks.
LEMMA MergeType ==
  ASSUME TypeInv, Merge
  PROVE  TypeInv'
<1>1. UNCHANGED <<doc, stack, phase, pos, start, budget, group, currentTokens, chunks>>
      /\ phase = "merge"
  BY DEF Merge
<1>2. Section' = Section /\ Piece' = Piece /\ Chunk' = Chunk
  BY <1>1, SameValues
<1>3. pos = 1 /\ start = 0 /\ group = <<>> /\ currentTokens = 0 /\ chunks = <<>>
  BY <1>1 DEF TypeInv, Idle
<1>4. PICK a \in 1 .. Len(sections) - 1 : IsMerge(a)
  BY MergePlaces DEF TypeInv
<1>5. \A k \in 1 .. Len(sections) : sections[k].blocks # <<>>
  BY DEF TypeInv, TypeOK
<1>6. ASSUME NEW k \in 1 .. Len(sections') PROVE sections'[k].blocks # <<>>
  <2>1. /\ Len(sections) \in Nat /\ Len(sections') = Len(sections) - 1
        /\ sections'[a] = MergeInto(sections[a], sections[a + 1])
        /\ \A i \in 1 .. a - 1 : sections'[i] = sections[i]
        /\ \A i \in a + 1 .. Len(sections) - 1 : sections'[i] = sections[i + 1]
        /\ sections[a] \in Section /\ sections[a + 1] \in Section
    BY <1>4 DEF IsMerge
  <2>2. a \in 1 .. Len(sections) /\ k \in 1 .. Len(sections) /\ (k > a => k + 1 \in 1 .. Len(sections))
        /\ (k < a => k \in 1 .. a - 1) /\ (k > a => k \in a + 1 .. Len(sections) - 1)
        /\ (k < a \/ k = a \/ k > a)
    <3> DEFINE x == Len(sections)
               y == Len(sections')
    <3>1. x \in Nat /\ y = x - 1 /\ a \in 1 .. x - 1 /\ k \in 1 .. y
      BY <2>1
    <3> HIDE DEF x, y
    <3>2. a \in 1 .. x /\ k \in 1 .. x /\ (k > a => k + 1 \in 1 .. x)
          /\ (k < a => k \in 1 .. a - 1) /\ (k > a => k \in a + 1 .. x - 1)
          /\ (k < a \/ k = a \/ k > a)
      BY <3>1
    <3> QED
      BY <3>2 DEF x
  <2>3. MergeInto(sections[a], sections[a + 1]).blocks # <<>>
    BY <1>5, <2>1, <2>2, MergedSection
  <2> QED
    BY <1>5, <2>1, <2>2, <2>3
<1>7. sections' \in Seq(Section')
  BY <1>2, <1>4 DEF IsMerge
<1> QED
  BY <1>1, <1>2, <1>3, <1>6, <1>7 DEF TypeInv, TypeOK, Idle

\* The split begins at the first block of the first section.
LEMMA AllMergedType ==
  ASSUME TypeInv, AllMerged
  PROVE  TypeInv'
<1>1. UNCHANGED <<doc, stack, sections, pos, start, group, currentTokens, chunks>>
      /\ phase = "merge" /\ phase' = "split" /\ budget' = BudgetFor(sections)
  BY DEF AllMerged
<1>2. Section' = Section /\ Piece' = Piece /\ Chunk' = Chunk
  BY <1>1, SameValues
<1>3. pos = 1 /\ start = 0 /\ group = <<>> /\ currentTokens = 0 /\ chunks = <<>>
  BY <1>1 DEF TypeInv, Idle
<1>4. doc \in Seq(Nodes) /\ sections \in Seq(Section)
  BY DEF TypeInv, TypeOK
<1>5. budget' \in 0 .. TargetMax
  BY <1>1, <1>4, BudgetType
<1>6. sections # <<>> => 1 <= Len(sections[1].blocks) + 1
  <2> SUFFICES ASSUME sections # <<>> PROVE 1 <= Len(sections[1].blocks) + 1
    OBVIOUS
  <2>1. Len(sections[1].blocks) \in Nat
    BY <1>4, FirstElement, SectionFields
  <2> DEFINE l == Len(sections[1].blocks)
  <2> HIDE DEF l
  <2>2. l \in Nat
    BY <2>1 DEF l
  <2>3. 1 <= l + 1
    BY <2>2
  <2> QED
    BY <2>3 DEF l
<1> QED
  BY <1>1, <1>2, <1>3, <1>5, <1>6 DEF TypeInv, TypeOK, Idle

\* The steps within the first section.
LEMMA SplittingType ==
  ASSUME TypeInv, AtBlock, UNCHANGED <<doc, stack, sections, phase, budget>>,
         \/ pos' = pos + 1 /\ start' = 0
         \/ pos' = pos /\ start' \in Nat /\ start' <= Len(Sentences(NextBlock)),
         group' \in Seq(Piece), currentTokens' \in Nat, chunks' \in Seq(Chunk)
  PROVE  TypeInv'
<1>1. Section' = Section /\ Piece' = Piece /\ Chunk' = Chunk
  BY SameValues
<1>2. TypeOK /\ phase = "split" /\ sections # <<>>
  BY DEF TypeInv, AtBlock, Splitting
<1>3. Len(sections[1].blocks) \in Nat /\ pos \in 1 .. Len(sections[1].blocks)
  BY <1>2, NextBlockType
<1>4. pos' \in Nat \ {0} /\ start' \in Nat /\ pos' <= Len(sections[1].blocks) + 1
      /\ (start' > 0 => pos' = pos /\ pos' <= Len(sections[1].blocks) /\ start' <= Len(Sentences(NextBlock)))
  <2> DEFINE l == Len(sections[1].blocks)
             m == Len(Sentences(NextBlock))
  <2>1. l \in Nat /\ pos \in 1 .. l /\ m \in Nat
    BY <1>2, <1>3, NextBlockType
  <2>2. (pos' = pos + 1 /\ start' = 0) \/ (pos' = pos /\ start' \in Nat /\ start' <= m)
    OBVIOUS
  <2> HIDE DEF l, m
  <2>3. pos' \in Nat \ {0} /\ start' \in Nat /\ pos' <= l + 1
        /\ (start' > 0 => pos' = pos /\ pos' <= l /\ start' <= m)
    <3>1. CASE pos' = pos + 1 /\ start' = 0
      BY <2>1, <3>1
    <3>2. CASE pos' = pos /\ start' \in Nat /\ start' <= m
      <4>1. pos \in Nat \ {0} /\ pos <= l /\ pos <= l + 1
        BY <2>1
      <4> QED
        BY <4>1, <3>2
    <3> QED
      BY <2>2, <3>1, <3>2
  <2> QED
    BY <2>3 DEF l, m
<1>5. start' > 0 => start' <= Len(Sentences(sections[1].blocks[pos]))' 
  BY <1>4 DEF NextBlock, Sentences
<1> QED
  BY <1>1, <1>2, <1>4, <1>5 DEF TypeInv, TypeOK, Idle

\* Windows and whole blocks are pieces.
LEMMA PieceType ==
  ASSUME NEW b \in 1 .. Len(doc), NEW i \in Nat, NEW j \in Nat
  PROVE  /\ [block |-> b, first |-> i, last |-> j] \in Piece
         /\ <<[block |-> b, first |-> i, last |-> j]>> \in Seq(Piece)
         /\ WholeBlock(b) \in Piece /\ <<WholeBlock(b)>> \in Seq(Piece)
BY DEF Piece, WholeBlock, Whole

\* A block that is taken leaves the position at most one behind the last.
LEMMA TakeBlockType ==
  ASSUME TypeInv, TakeBlock
  PROVE  TypeInv'
<1>1. /\ AtBlock /\ TypeOK /\ UNCHANGED <<doc, stack, sections, phase, start, budget>>
      /\ start = 0 /\ pos' = pos + 1
      /\ \/ /\ chunks' = Flushed(group)
            /\ group' = <<WholeBlock(NextBlock)>> /\ currentTokens' = BlockTokens(NextBlock)
         \/ /\ group' = Append(group, WholeBlock(NextBlock))
            /\ currentTokens' = currentTokens + BlockTokens(NextBlock)
            /\ chunks' = chunks
  BY DEF TakeBlock, TypeInv
<1>2. NextBlock \in 1 .. Len(doc) /\ BlockTokens(NextBlock) \in Nat /\ sections # <<>>
  BY <1>1, NextBlockType
<1>3. WholeBlock(NextBlock) \in Piece /\ <<WholeBlock(NextBlock)>> \in Seq(Piece)
  BY <1>2, PieceType
<1>4. group \in Seq(Piece) /\ chunks \in Seq(Chunk) /\ currentTokens \in Nat
  BY <1>1 DEF TypeOK
<1>5. Flushed(group) \in Seq(Chunk)
  BY <1>1, <1>2, <1>4, FlushedType
<1>6. Append(group, WholeBlock(NextBlock)) \in Seq(Piece)
  BY <1>3, <1>4, AppendedPlaces
<1>7. currentTokens + BlockTokens(NextBlock) \in Nat
  <2>1. \A x, y \in Nat : x + y \in Nat
    OBVIOUS
  <2> QED
    BY <2>1, <1>2, <1>4
<1>8. group' \in Seq(Piece) /\ currentTokens' \in Nat /\ chunks' \in Seq(Chunk)
  BY <1>1, <1>2, <1>3, <1>4, <1>5, <1>6, <1>7
<1> QED
  BY <1>1, <1>8, SplittingType

\* A chunk of the first section.
LEMMA ChunkType ==
  ASSUME TypeOK, sections # <<>>, NEW pieces \in Seq(Piece), NEW cs \in Seq(Chunk)
  PROVE  Append(cs, [headings |-> Headings, pieces |-> pieces]) \in Seq(Chunk)
<1>1. sections[1].headings \in Seq(0 .. Len(doc))
  <2>1. sections \in Seq(Section)
    BY DEF TypeOK
  <2> QED
    BY <2>1, FirstElement, SectionFields
<1>2. [headings |-> Headings, pieces |-> pieces] \in Chunk
  BY <1>1 DEF Chunk, Headings
<1> QED
  BY <1>2, AppendedPlaces

\* So does an oversized one.
LEMMA TakeOversizedType ==
  ASSUME TypeInv, TakeOversized
  PROVE  TypeInv'
<1>1. /\ AtBlock /\ TypeOK /\ UNCHANGED <<doc, stack, sections, phase, start, budget>>
      /\ start = 0 /\ pos' = pos + 1
      /\ chunks' = Append(Flushed(group),
                      [headings |-> Headings, pieces |-> <<WholeBlock(NextBlock)>>])
      /\ group' = <<>> /\ currentTokens' = 0
  BY DEF TakeOversized, TypeInv
<1>2. NextBlock \in 1 .. Len(doc) /\ sections # <<>>
  BY <1>1, NextBlockType
<1>3. <<WholeBlock(NextBlock)>> \in Seq(Piece)
  BY <1>2, PieceType
<1>4. group \in Seq(Piece)
  BY <1>1 DEF TypeOK
<1>5. Flushed(group) \in Seq(Chunk)
  BY <1>1, <1>2, <1>4, FlushedType
<1>6. chunks' \in Seq(Chunk)
  BY <1>1, <1>2, <1>3, <1>5, ChunkType
<1>7. group' \in Seq(Piece) /\ currentTokens' \in Nat
  BY <1>1
<1> QED
  BY <1>1, <1>6, <1>7, SplittingType

\* Windows begin only in a block with sentences.
LEMMA BeginWindowsType ==
  ASSUME TypeInv, BeginWindows
  PROVE  TypeInv'
<1>1. /\ AtBlock /\ TypeOK /\ UNCHANGED <<doc, stack, sections, phase, pos, budget>>
      /\ start' = 1 /\ chunks' = Flushed(group)
      /\ group' = <<>> /\ currentTokens' = 0 /\ Len(Sentences(NextBlock)) > 1
  BY DEF BeginWindows, TypeInv, Divisible
<1>2. sections # <<>> /\ Len(Sentences(NextBlock)) \in Nat
  BY <1>1, NextBlockType
<1>3. group \in Seq(Piece)
  BY <1>1 DEF TypeOK
<1>4. chunks' \in Seq(Chunk)
  BY <1>1, <1>2, <1>3, FlushedType
<1>5. start' <= Len(Sentences(NextBlock)) /\ start' \in Nat
  <2> DEFINE m == Len(Sentences(NextBlock))
  <2>1. m \in Nat /\ m > 1 /\ start' = 1
    BY <1>1, <1>2
  <2> HIDE DEF m
  <2>2. start' <= m /\ start' \in Nat
    BY <2>1
  <2> QED
    BY <2>2 DEF m
<1>6. group' \in Seq(Piece) /\ currentTokens' \in Nat
  BY <1>1
<1> QED
  BY <1>1, <1>4, <1>5, <1>6, SplittingType

\* The next window begins behind the one before, and not beyond its end.
LEMMA NextStartMoves ==
  ASSUME TypeOK, AtBlock, start > 0, NEW last \in start .. Len(Sentences(NextBlock))
  PROVE  NextStart(NextBlock, last) > start /\ NextStart(NextBlock, last) <= last + 1
         /\ NextStart(NextBlock, last) \in Nat
<1> DEFINE b == NextBlock
           sums == NodeSums[doc[b]]
           S == {k \in start .. last : SentenceTokens(b, k + 1, last) < Overlap}
           next == Min(S)
           m == Len(Sentences(b))
<1>1. m \in Nat /\ \A i \in 0 .. m : sums[i] \in Nat
  BY NextBlockType
<1>2. start \in Nat /\ last \in Nat /\ start <= last /\ last <= m
  <2>1. start \in Nat
    BY DEF TypeOK
  <2>2. last \in start .. m
    OBVIOUS
  <2> HIDE DEF m
  <2> QED
    BY <1>1, <2>1, <2>2
<1>3. last \in S
  <2>1. Overlap > 0 /\ Overlap \in Nat
    BY ChunkerAssumption
  <2>2. SentenceTokens(b, last + 1, last) = sums[last] - sums[last + 1 - 1]
    BY DEF SentenceTokens
  <2> HIDE DEF m
  <2>3. last + 1 - 1 = last /\ last \in 0 .. m /\ last \in start .. last
    BY <1>1, <1>2
  <2>4. sums[last] \in Nat
    BY <1>1, <2>3
  <2> DEFINE x == sums[last]
             y == SentenceTokens(b, last + 1, last)
  <2>5. y = x - x /\ x \in Nat
    BY <2>2, <2>3, <2>4
  <2> HIDE DEF x, y
  <2>6. y < Overlap
    BY <2>1, <2>5
  <2> QED
    BY <2>3, <2>6 DEF y
<1>4. S \subseteq Nat /\ S \subseteq start .. last
  BY <1>2
<1> HIDE DEF S
<1>5. next \in S
  BY <1>3, <1>4, MinIsLeast
<1>6. next \in start .. last
  BY <1>4, <1>5
<1>7. NextStart(b, last) = IF next <= start THEN last + 1 ELSE next
  BY DEF NextStart, S
<1> HIDE DEF next, b, m
<1>8. NextStart(b, last) > start /\ NextStart(b, last) <= last + 1 /\ NextStart(b, last) \in Nat
  BY <1>2, <1>6, <1>7
<1> QED
  BY <1>8 DEF b

\* One window: the piece it emits and what is next.
LEMMA WindowStep ==
  ASSUME TypeOK, Window
  PROVE  \E last \in start .. Len(Sentences(NextBlock)) :
           /\ last \in Nat /\ start \in Nat /\ start <= last /\ last <= Len(Sentences(NextBlock))
           /\ chunks' = Append(chunks, [headings |-> Headings,
                pieces |-> <<[block |-> NextBlock, first |-> start, last |-> last]>>])
           /\ \/ last = Len(Sentences(NextBlock)) /\ start' = 0 /\ pos' = pos + 1
              \/ /\ last < Len(Sentences(NextBlock)) /\ pos' = pos
                 /\ start' \in Nat /\ start' > start /\ start' <= last + 1
                 /\ start' <= Len(Sentences(NextBlock))
<1> DEFINE m == Len(Sentences(NextBlock))
<1>1. PICK last \in start .. m :
        /\ chunks' = Append(chunks, [headings |-> Headings,
                pieces |-> <<[block |-> NextBlock, first |-> start, last |-> last]>>])
        /\ IF last = m THEN start' = 0 /\ pos' = pos + 1
           ELSE start' = NextStart(NextBlock, last) /\ pos' = pos
  BY DEF Window
<1>2. AtBlock /\ start > 0
  BY DEF Window
<1>3. start \in Nat /\ m \in Nat
  BY <1>2, NextBlockType DEF TypeOK
<1>4. NextStart(NextBlock, last) > start /\ NextStart(NextBlock, last) <= last + 1
      /\ NextStart(NextBlock, last) \in Nat
  BY <1>2, NextStartMoves
<1> HIDE DEF m
<1>5. last \in Nat /\ start <= last /\ last <= m
  BY <1>1, <1>3
<1>6. CASE last = m
  BY <1>1, <1>3, <1>5, <1>6 DEF m
<1>7. CASE last # m
  <2>1. start' = NextStart(NextBlock, last) /\ pos' = pos
    BY <1>1, <1>7
  <2>2. last < m /\ start' > start /\ start' <= last + 1 /\ start' <= m /\ start' \in Nat
    BY <1>3, <1>4, <1>5, <1>7, <2>1
  <2> QED
    BY <1>1, <1>3, <1>5, <2>1, <2>2 DEF m
<1> QED
  BY <1>6, <1>7

\* A window ends the block or begins the next window at one of its sentences.
LEMMA WindowType ==
  ASSUME TypeInv, Window
  PROVE  TypeInv'
<1>1. /\ AtBlock /\ TypeOK /\ UNCHANGED <<doc, stack, sections, phase, budget, group, currentTokens>>
  BY DEF Window, TypeInv
<1>2. PICK last \in start .. Len(Sentences(NextBlock)) :
           /\ last \in Nat /\ start \in Nat
           /\ chunks' = Append(chunks, [headings |-> Headings,
                pieces |-> <<[block |-> NextBlock, first |-> start, last |-> last]>>])
           /\ \/ start' = 0 /\ pos' = pos + 1
              \/ pos' = pos /\ start' \in Nat /\ start' <= Len(Sentences(NextBlock))
  BY <1>1, WindowStep
<1>3. NextBlock \in 1 .. Len(doc) /\ sections # <<>>
  BY <1>1, NextBlockType
<1>4. group \in Seq(Piece) /\ chunks \in Seq(Chunk) /\ currentTokens \in Nat
  BY <1>1 DEF TypeOK
<1>5. <<[block |-> NextBlock, first |-> start, last |-> last]>> \in Seq(Piece)
  BY <1>2, <1>3, PieceType
<1>6. chunks' \in Seq(Chunk)
  BY <1>1, <1>2, <1>3, <1>4, <1>5, ChunkType
<1> QED
  BY <1>1, <1>2, <1>4, <1>6, SplittingType

IsTail(r, V, s) ==
  /\ r \in Seq(V) /\ Len(s) \in Nat /\ Len(s) > 0 /\ Len(r) = Len(s) - 1
  /\ \A i \in 1 .. Len(s) - 1 : r[i] = s[i + 1]

\* Where the elements of a sequence are when the first is taken away.
LEMMA TailPlaces ==
  ASSUME NEW V, NEW s \in Seq(V), s # <<>>
  PROVE  IsTail(Tail(s), V, s)
<1>1. Tail(s) \in Seq(V) /\ Len(Tail(s)) = Len(s) - 1 /\ \A i \in 1 .. Len(Tail(s)) : Tail(s)[i] = s[i + 1]
  BY HeadTailProperties
<1>2. Len(s) \in Nat /\ Len(s) > 0
  OBVIOUS
<1> QED
  BY <1>1, <1>2 DEF IsTail

\* The next section has blocks too, and the split begins at its first.
LEMMA EndSectionType ==
  ASSUME TypeInv, EndSection
  PROVE  TypeInv'
<1>1. /\ TypeOK /\ UNCHANGED <<doc, stack, phase, start>> /\ phase = "split" /\ sections # <<>>
      /\ pos > Len(sections[1].blocks)
      /\ chunks' = Flushed(group) /\ group' = <<>> /\ currentTokens' = 0 /\ pos' = 1
      /\ sections' = Tail(sections) /\ budget' = BudgetFor(Tail(sections))
  BY DEF EndSection, TypeInv, Splitting
<1>2. Section' = Section /\ Piece' = Piece /\ Chunk' = Chunk
  BY <1>1, SameValues
<1>3. sections \in Seq(Section) /\ group \in Seq(Piece) /\ doc \in Seq(Nodes)
      /\ \A i \in 1 .. Len(sections) : sections[i].blocks # <<>>
  BY <1>1 DEF TypeOK
<1> DEFINE V == Section
<1>4. IsTail(sections', V, sections)
  <2> HIDE DEF V
  <2>1. sections \in Seq(V)
    BY <1>3 DEF V
  <2> QED
    BY <1>1, <2>1, TailPlaces
<1>5. sections' \in Seq(Section)
  BY <1>4 DEF IsTail
<1>6. ASSUME NEW i \in 1 .. Len(sections') PROVE sections'[i].blocks # <<>>
  <2> HIDE DEF V
  <2> DEFINE x == Len(sections)
             y == Len(sections')
  <2>1. x \in Nat /\ y = x - 1 /\ i \in 1 .. y /\ \A k \in 1 .. x - 1 : sections'[k] = sections[k + 1]
    BY <1>4 DEF IsTail
  <2>2. \A k \in 1 .. x : sections[k].blocks # <<>>
    BY <1>3
  <2> HIDE DEF x, y
  <2>3. i \in 1 .. x - 1 /\ i + 1 \in 1 .. x
    BY <2>1
  <2> QED
    BY <2>1, <2>2, <2>3
<1>7. sections' # <<>> => Len(sections'[1].blocks) \in Nat
  <2> SUFFICES ASSUME sections' # <<>> PROVE Len(sections'[1].blocks) \in Nat
    OBVIOUS
  <2>1. sections'[1] \in Section
    BY <1>5, FirstElement
  <2> QED
    BY <2>1, SectionFields
<1>8. sections' # <<>> => 1 <= Len(sections'[1].blocks) + 1
  <2> DEFINE l == Len(sections'[1].blocks)
  <2>1. l \in Nat => 1 <= l + 1
    <3> HIDE DEF l
    <3> QED
      OBVIOUS
  <2> QED
    BY <1>7, <2>1
<1>9. chunks' \in Seq(Chunk)
  BY <1>1, <1>3, FlushedType
<1>10. budget' \in 0 .. TargetMax
  BY <1>1, <1>3, <1>5, BudgetType
<1>11. start = 0
  <2>1. sections[1] \in Section
    BY <1>1, <1>3, FirstElement
  <2>2. Len(sections[1].blocks) \in Nat
    BY <2>1, SectionFields
  <2> DEFINE l == Len(sections[1].blocks)
  <2>3. l \in Nat /\ pos \in Nat /\ pos > l /\ start \in Nat /\ (start > 0 => pos <= l)
    BY <1>1, <2>2 DEF TypeOK
  <2> HIDE DEF l
  <2> QED
    BY <2>3
<1>12. /\ doc' \in Seq(Nodes) /\ Len(doc') <= MaxNodes /\ stack' \in Seq(0 .. Len(doc'))
       /\ phase' = "split" /\ start' = 0 /\ ~ (start' > 0) /\ start' \in Nat
  BY <1>1, <1>11 DEF TypeOK
<1>13. /\ pos' = 1 /\ pos' \in Nat \ {0} /\ group' \in Seq(Piece') /\ currentTokens' \in Nat
       /\ chunks' \in Seq(Chunk')
  BY <1>1, <1>2, <1>9
<1> QED
  BY <1>2, <1>5, <1>6, <1>8, <1>10, <1>12, <1>13 DEF TypeInv, TypeOK, Idle

\* The invariant of the types is inductive.
LEMMA TypeStep == TypeInv /\ [Next]_vars => TypeInv'
<1> SUFFICES ASSUME TypeInv, [Next]_vars PROVE TypeInv'
  OBVIOUS
<1>1. ASSUME NEW n \in Nodes, Walk(n) PROVE TypeInv'
  BY <1>1, WalkType
<1>2. CASE EndOfDocument
  BY <1>2, EndOfDocumentType
<1>3. CASE Merge
  BY <1>3, MergeType
<1>4. CASE AllMerged
  BY <1>4, AllMergedType
<1>5. CASE TakeBlock
  BY <1>5, TakeBlockType
<1>6. CASE TakeOversized
  BY <1>6, TakeOversizedType
<1>7. CASE BeginWindows
  BY <1>7, BeginWindowsType
<1>8. CASE Window
  BY <1>8, WindowType
<1>9. CASE EndSection
  BY <1>9, EndSectionType
<1>10. CASE UNCHANGED vars
  <2>1. Section' = Section /\ Piece' = Piece /\ Chunk' = Chunk
    BY <1>10, SameValues DEF vars
  <2> QED
    BY <1>10, <2>1 DEF vars, TypeInv, TypeOK, Idle, Sentences
<1> QED
  BY <1>1, <1>2, <1>3, <1>4, <1>5, <1>6, <1>7, <1>8, <1>9, <1>10 DEF Next, Terminated

\* So it always holds.
LEMMA TypeInvHolds == Spec => []TypeInv
<1>1. Init => TypeInv
  BY InitType
<1>2. TypeInv /\ [Next]_vars => TypeInv'
  BY TypeStep
<1> QED
  BY <1>1, <1>2, PTL DEF Spec

\* Every value the chunker holds is of its type: a section's blocks and headings
\* are nodes of the document walked so far, no section is empty, and neither loop
\* runs past its end.  For every document, every text and every limit.
THEOREM TypeCorrect == Spec => []TypeOK
<1>1. TypeInv => TypeOK
  BY DEF TypeInv
<1> QED
  BY <1>1, TypeInvHolds, PTL

-----------------------------------------------------------------------------
(* AlwaysForward *)

Forward ==
  \/ phase = "walk" /\ (Len(doc') > Len(doc) \/ phase' = "merge")
  \/ phase = "merge" /\ (Len(sections') < Len(sections) \/ phase' = "split")
  \/ /\ phase = "split" /\ phase' = "split"
     /\ \/ Len(sections') < Len(sections)
        \/ sections' = sections /\ pos' > pos
        \/ sections' = sections /\ pos' = pos /\ start' > start

\* Every step leaves a section, a block or a sentence behind.
LEMMA ForwardStep ==
  ASSUME TypeInv, Next
  PROVE  [Forward]_vars
<1>1. TypeOK
  BY DEF TypeInv
<1>2. pos \in Nat /\ start \in Nat /\ pos + 1 > pos
  BY <1>1 DEF TypeOK
<1>3. ASSUME NEW n \in Nodes, Walk(n) PROVE Forward
  <2>1. Len(doc') = Len(doc) + 1 /\ Len(doc) \in Nat /\ phase = "walk"
    <3>1. doc \in Seq(Nodes) /\ doc' = Append(doc, n) /\ phase = "walk"
      BY <1>1, <1>3 DEF TypeOK, Walk
    <3> QED
      BY <3>1, AppendedPlaces
  <2> DEFINE x == Len(doc)
             y == Len(doc')
  <2>2. x \in Nat /\ y = x + 1
    BY <2>1
  <2> HIDE DEF x, y
  <2>3. y > x
    BY <2>2
  <2> QED
    BY <2>1, <2>3 DEF x, y, Forward
<1>4. CASE EndOfDocument
  BY <1>4 DEF EndOfDocument, Forward
<1>5. CASE Merge
  <2>1. PICK a \in 1 .. Len(sections) - 1 : IsMerge(a)
    BY <1>1, <1>5, MergePlaces
  <2>2. Len(sections') = Len(sections) - 1 /\ Len(sections) \in Nat /\ phase = "merge"
    BY <1>5, <2>1 DEF IsMerge, Merge
  <2> DEFINE x == Len(sections)
             y == Len(sections')
  <2>3. x \in Nat /\ y = x - 1
    BY <2>2
  <2> HIDE DEF x, y
  <2>4. y < x
    BY <2>3
  <2> QED
    BY <2>2, <2>4 DEF x, y, Forward
<1>6. CASE AllMerged
  BY <1>6 DEF AllMerged, Forward
<1>7. CASE TakeBlock \/ TakeOversized
  <2>1. phase = "split" /\ phase' = "split" /\ sections' = sections /\ pos' = pos + 1
    BY <1>7 DEF TakeBlock, TakeOversized, AtBlock, Splitting
  <2> QED
    BY <1>2, <2>1 DEF Forward
<1>8. CASE BeginWindows
  <2>1. phase = "split" /\ phase' = "split" /\ sections' = sections /\ pos' = pos /\ start = 0 /\ start' = 1
    BY <1>8 DEF BeginWindows, AtBlock, Splitting
  <2> QED
    BY <2>1 DEF Forward
<1>9. CASE Window
  <2>1. phase = "split" /\ phase' = "split" /\ sections' = sections
    BY <1>9 DEF Window, AtBlock, Splitting
  <2>2. (pos' = pos + 1) \/ (pos' = pos /\ start' > start)
    BY <1>1, <1>9, WindowStep
  <2> QED
    BY <1>2, <2>1, <2>2 DEF Forward
<1>10. CASE EndSection
  <2>1. phase = "split" /\ phase' = "split" /\ sections' = Tail(sections) /\ sections # <<>>
        /\ sections \in Seq(Section)
    BY <1>1, <1>10 DEF EndSection, Splitting, TypeOK
  <2> DEFINE V == Section
             x == Len(sections)
             y == Len(sections')
  <2>2. sections \in Seq(V)
    BY <2>1
  <2> HIDE DEF V
  <2>3. IsTail(sections', V, sections)
    BY <2>1, <2>2, TailPlaces
  <2>4. x \in Nat /\ y = x - 1
    BY <2>3 DEF IsTail
  <2> HIDE DEF x, y
  <2>5. y < x
    BY <2>4
  <2> QED
    BY <2>1, <2>5 DEF x, y, Forward
<1>11. CASE Terminated
  BY <1>11 DEF Terminated
<1> QED
  BY <1>3, <1>4, <1>5, <1>6, <1>7, <1>8, <1>9, <1>10, <1>11 DEF Next

\* Every step leaves something behind: in particular the next sentence window
\* begins behind the one before, for every limit, overlap and sentence length.
THEOREM MovesForward == Spec => AlwaysForward
<1>1. TypeInv /\ [Next]_vars => [Forward]_vars
  BY ForwardStep
<1>2. [Forward]_vars <=>
      [\/ phase = "walk" /\ (Len(doc') > Len(doc) \/ phase' = "merge")
       \/ phase = "merge" /\ (Len(sections') < Len(sections) \/ phase' = "split")
       \/ /\ phase = "split" /\ phase' = "split"
          /\ \/ Len(sections') < Len(sections)
             \/ sections' = sections /\ pos' > pos
             \/ sections' = sections /\ pos' = pos /\ start' > start]_vars
  BY DEF Forward
<1> QED
  BY <1>1, <1>2, TypeInvHolds, PTL DEF Spec, AlwaysForward

-----------------------------------------------------------------------------
(* NothingLost *)

\* No block lies between two places.
NextTo(d, a, b) == a < b /\ BlocksOf(d) \cap (a + 1 .. b - 1) = {}

\* No block lies before a place, or behind it.
NoneBefore(d, a) == BlocksOf(d) \cap (1 .. a - 1) = {}

NoneBehind(d, a) == BlocksOf(d) \cap (a + 1 .. Len(d)) = {}

\* The blocks of the sections are the blocks of the document, in order.
Chain(d, ss) ==
  /\ \A i \in 1 .. Len(ss) : \A k \in 1 .. Len(ss[i].blocks) : ss[i].blocks[k] \in BlocksOf(d)
  /\ \A i \in 1 .. Len(ss) : \A k \in 1 .. Len(ss[i].blocks) - 1 :
       NextTo(d, ss[i].blocks[k], ss[i].blocks[k + 1])
  /\ \A i \in 1 .. Len(ss) - 1 : NextTo(d, Last(ss[i].blocks), ss[i + 1].blocks[1])
  /\ ss # <<>> => NoneBehind(d, Last(Last(ss).blocks))

Begin(d, ss) == IF ss = <<>> THEN BlocksOf(d) = {} ELSE NoneBefore(d, ss[1].blocks[1])

\* EndsBlock and Follows, for the document d.
Ends(d, p) == p.first # Whole => p.last = Len(NodeSentences[d[p.block]])

Comes(d, p, q) ==
  \/ NextTo(d, p.block, q.block) /\ q.first \in {Whole, 1} /\ Ends(d, p)
  \/ q.block = p.block /\ q.first > p.first /\ q.first <= p.last + 1

Leads(d, p) == p.first \in {Whole, 1} /\ p.block \in BlocksOf(d) /\ NoneBefore(d, p.block)

Linked(d, s) == \A k \in 1 .. Len(s) - 1 : Comes(d, s[k], s[k + 1])

\* The pieces of the chunks cs and of the group g follow each other.
Emission(d, cs, g) ==
  /\ \A i \in 1 .. Len(cs) : cs[i].pieces # <<>> /\ Linked(d, cs[i].pieces)
  /\ \A i \in 1 .. Len(cs) - 1 : Comes(d, Last(cs[i].pieces), cs[i + 1].pieces[1])
  /\ cs # <<>> => Leads(d, cs[1].pieces[1])
  /\ Linked(d, g)
  /\ g # <<>> => IF cs = <<>> THEN Leads(d, g[1]) ELSE Comes(d, Last(Last(cs).pieces), g[1])

\* The piece q may come next.
May(d, cs, g, q) ==
  IF g # <<>> THEN Comes(d, Last(g), q)
  ELSE IF cs # <<>> THEN Comes(d, Last(Last(cs).pieces), q) ELSE Leads(d, q)

\* The last piece is the end of block b.
Reached(d, cs, g, b) ==
  IF g # <<>> THEN Last(g).block = b /\ Ends(d, Last(g))
  ELSE cs # <<>> /\ Last(Last(cs).pieces).block = b /\ Ends(d, Last(Last(cs).pieces))

Cover ==
  phase = "split" =>
    /\ Emission(doc, chunks, group)
    /\ start > 0 => group = <<>>
    /\ AtBlock => May(doc, chunks, group, [block |-> NextBlock, first |-> start, last |-> start])
    /\ Splitting /\ ~AtBlock => Reached(doc, chunks, group, Last(sections[1].blocks))
    /\ Done => /\ group = <<>>
               /\ chunks = <<>> => BlocksOf(doc) = {}
               /\ chunks # <<>> => \E b \in BlocksOf(doc) :
                    Reached(doc, chunks, <<>>, b) /\ NoneBehind(doc, b)

LossInv == Chain(doc, sections) /\ (phase # "split" => Begin(doc, sections)) /\ Cover

IsGrouped(d, cs, r, q) == Emission(d, cs, r) /\ r # <<>> /\ Last(r) = q

\* A piece added to the group, and what may follow it.
LEMMA GroupPiece ==
  ASSUME NEW d, NEW C, NEW P, NEW cs \in Seq(C), NEW g \in Seq(P), NEW q \in P,
         Emission(d, cs, g), May(d, cs, g, q)
  PROVE  IsGrouped(d, cs, Append(g, q), q)
<1> DEFINE r == Append(g, q)
           n == Len(g)
<1>1. /\ r \in Seq(P) /\ Len(r) = n + 1 /\ n \in Nat /\ r # <<>> /\ r[n + 1] = q
      /\ \A i \in 1 .. n : r[i] = g[i]
  BY AppendedPlaces
<1>2. g # <<>> => n > 0 /\ Last(g) = g[n]
  BY DEF Last
<1>3. g = <<>> => n = 0
  OBVIOUS
<1>4. Last(r) = q
  BY <1>1 DEF Last
<1> HIDE DEF r, n
<1>5. ASSUME NEW k \in 1 .. Len(r) - 1 PROVE Comes(d, r[k], r[k + 1])
  <2>1. k \in 1 .. n /\ r[k] = g[k]
    BY <1>1
  <2>2. CASE k = n
    <3>1. g # <<>> /\ g[n] = Last(g)
      BY <1>2, <1>3, <2>1
    <3>2. Comes(d, Last(g), q)
      BY <3>1 DEF May
    <3> QED
      BY <1>1, <2>1, <2>2, <3>1, <3>2
  <2>3. CASE k # n
    <3>1. k \in 1 .. n - 1 /\ k + 1 \in 1 .. n
      BY <1>1, <2>1, <2>3
    <3>2. Comes(d, g[k], g[k + 1])
      BY <3>1 DEF Emission, Linked, n
    <3> QED
      BY <1>1, <2>1, <3>1, <3>2
  <2> QED
    BY <2>2, <2>3
<1>6. r[1] = IF g = <<>> THEN q ELSE g[1]
  <2>1. CASE g = <<>>
    BY <1>1, <1>3, <2>1
  <2>2. CASE g # <<>>
    <3>1. 1 \in 1 .. n
      BY <1>1, <1>2, <2>2
    <3> QED
      BY <1>1, <2>2, <3>1
  <2> QED
    BY <2>1, <2>2
<1>7. IF cs = <<>> THEN Leads(d, r[1]) ELSE Comes(d, Last(Last(cs).pieces), r[1])
  BY <1>6 DEF Emission, May
<1>8. Emission(d, cs, r)
  BY <1>5, <1>7 DEF Emission, Linked
<1> QED
  BY <1>1, <1>4, <1>8 DEF r, IsGrouped

\* The group g is emitted behind the chunks cs, which makes r of them.
IsEmitted(d, r, cs, g) ==
  /\ Emission(d, r, <<>>)
  /\ \A q : May(d, r, <<>>, q) <=> May(d, cs, g, q)
  /\ \A b : Reached(d, r, <<>>, b) <=> Reached(d, cs, g, b)

\* The last of the chunks r consists of the piece q.
IsEmittedPiece(d, r, q) ==
  /\ Emission(d, r, <<>>)
  /\ \A p : May(d, r, <<>>, p) <=> Comes(d, q, p)
  /\ \A b : Reached(d, r, <<>>, b) <=> q.block = b /\ Ends(d, q)

\* A group emitted as a chunk: the last piece stays the last.
LEMMA EmitGroup ==
  ASSUME NEW d, NEW C, NEW cs \in Seq(C), NEW c \in C, c.pieces # <<>>,
         Emission(d, cs, c.pieces)
  PROVE  IsEmitted(d, Append(cs, c), cs, c.pieces)
<1> DEFINE r == Append(cs, c)
           n == Len(cs)
<1>1. /\ r \in Seq(C) /\ Len(r) = n + 1 /\ n \in Nat /\ r # <<>> /\ r[n + 1] = c
      /\ \A i \in 1 .. n : r[i] = cs[i]
  BY AppendedPlaces
<1>2. cs # <<>> => n > 0 /\ Last(cs) = cs[n]
  BY DEF Last
<1>3. cs = <<>> => n = 0
  OBVIOUS
<1>4. Last(r) = c
  BY <1>1 DEF Last
<1> HIDE DEF r, n
<1>5. ASSUME NEW i \in 1 .. Len(r) PROVE r[i].pieces # <<>> /\ Linked(d, r[i].pieces)
  <2>1. i \in 1 .. n \/ i = n + 1
    BY <1>1
  <2>2. CASE i \in 1 .. n
    BY <1>1, <2>2 DEF Emission, n
  <2>3. CASE i = n + 1
    BY <1>1, <2>3 DEF Emission
  <2> QED
    BY <2>1, <2>2, <2>3
<1>6. ASSUME NEW i \in 1 .. Len(r) - 1 PROVE Comes(d, Last(r[i].pieces), r[i + 1].pieces[1])
  <2>1. i \in 1 .. n /\ r[i] = cs[i]
    BY <1>1
  <2>2. CASE i = n
    <3>1. cs # <<>> /\ cs[n] = Last(cs)
      BY <1>2, <1>3, <2>1
    <3>2. Comes(d, Last(Last(cs).pieces), c.pieces[1])
      BY <3>1 DEF Emission
    <3> QED
      BY <1>1, <2>1, <2>2, <3>1, <3>2
  <2>3. CASE i # n
    <3>1. i \in 1 .. n - 1 /\ i + 1 \in 1 .. n
      BY <1>1, <2>1, <2>3
    <3>2. Comes(d, Last(cs[i].pieces), cs[i + 1].pieces[1])
      BY <3>1 DEF Emission, n
    <3> QED
      BY <1>1, <2>1, <3>1, <3>2
  <2> QED
    BY <2>2, <2>3
<1>7. r[1] = IF cs = <<>> THEN c ELSE cs[1]
  <2>1. CASE cs = <<>>
    BY <1>1, <1>3, <2>1
  <2>2. CASE cs # <<>>
    <3>1. 1 \in 1 .. n
      BY <1>1, <1>2, <2>2
    <3> QED
      BY <1>1, <2>2, <3>1
  <2> QED
    BY <2>1, <2>2
<1>8. Leads(d, r[1].pieces[1])
  BY <1>7 DEF Emission
<1>9. Emission(d, r, <<>>)
  <2>1. Linked(d, <<>>)
    <3>1. Len(<<>>) = 0
      OBVIOUS
    <3>2. \A k \in 1 .. Len(<<>>) - 1 : FALSE
      BY <3>1
    <3> QED
      BY <3>2 DEF Linked
  <2> QED
    BY <1>5, <1>6, <1>8, <2>1 DEF Emission
<1>10. \A q : May(d, r, <<>>, q) <=> May(d, cs, c.pieces, q)
  BY <1>1, <1>4 DEF May
<1>11. \A b : Reached(d, r, <<>>, b) <=> Reached(d, cs, c.pieces, b)
  BY <1>1, <1>4 DEF Reached
<1> QED
  BY <1>9, <1>10, <1>11 DEF r, IsEmitted

\* A chunk of one piece.
LEMMA EmitPiece ==
  ASSUME NEW d, NEW C, NEW P, NEW cs \in Seq(C), NEW c \in C, NEW q \in P, c.pieces = <<q>>,
         Emission(d, cs, <<>>), May(d, cs, <<>>, q)
  PROVE  IsEmittedPiece(d, Append(cs, c), q)
<1> DEFINE none == <<>>
           one == <<q>>
<1>1. Append(none, q) = one /\ none \in Seq(P)
  OBVIOUS
<1>2. c.pieces = one /\ Emission(d, cs, none) /\ May(d, cs, none, q)
  OBVIOUS
<1> HIDE DEF none, one
<1>3. IsGrouped(d, cs, Append(none, q), q)
  BY <1>1, <1>2, GroupPiece
<1>4. Emission(d, cs, c.pieces) /\ Last(one) = q /\ one # <<>> /\ c.pieces # <<>>
  BY <1>1, <1>2, <1>3 DEF IsGrouped
<1>5. IsEmitted(d, Append(cs, c), cs, c.pieces)
  BY <1>4, EmitGroup
<1>6. \A r : May(d, cs, one, r) <=> Comes(d, q, r)
  BY <1>4 DEF May
<1>7. \A b : Reached(d, cs, one, b) <=> q.block = b /\ Ends(d, q)
  BY <1>4 DEF Reached
<1> QED
  BY <1>2, <1>5, <1>6, <1>7 DEF IsEmitted, IsEmittedPiece

\* What is behind the end of a block may follow it, whole or from its beginning.
LEMMA NextMay ==
  ASSUME NEW d, NEW cs, NEW g, NEW b, Reached(d, cs, g, b), NEW q, NextTo(d, b, q.block),
         q.first \in {Whole, 1}
  PROVE  May(d, cs, g, q)
BY DEF Reached, May, Comes

\* Instead of a block, its windows may follow, beginning with the first.
LEMMA BeginMay ==
  ASSUME NEW d, NEW cs, NEW g, NEW p, NEW q, May(d, cs, g, p), p.first = Whole,
         q.block = p.block, q.first \in {Whole, 1},
         g # <<>> => Last(g).first \in Nat, g = <<>> /\ cs # <<>> => Last(Last(cs).pieces).first \in Nat
  PROVE  May(d, cs, g, q)
<1>1. ASSUME NEW x, x.first \in Nat, Comes(d, x, p) PROVE Comes(d, x, q)
  <2>1. ~ (p.first > x.first)
    BY <1>1 DEF Whole
  <2> QED
    BY <1>1, <2>1 DEF Comes
<1>2. Leads(d, p) => Leads(d, q)
  BY DEF Leads
<1> QED
  BY <1>1, <1>2 DEF May

\* The first section's blocks are blocks of the document, one next to the other.
LEMMA ChainPlaces ==
  ASSUME TypeOK, AtBlock, Chain(doc, sections)
  PROVE  /\ NextBlock \in BlocksOf(doc)
         /\ pos + 1 <= Len(sections[1].blocks) => NextTo(doc, NextBlock, sections[1].blocks[pos + 1])
         /\ ~ (pos + 1 <= Len(sections[1].blocks)) => NextBlock = Last(sections[1].blocks)
<1> DEFINE s == sections[1].blocks
           n == Len(s)
<1>1. n \in Nat /\ pos \in 1 .. n /\ sections # <<>> /\ sections \in Seq(Section)
  BY NextBlockType
<1>2. 1 \in 1 .. Len(sections)
  BY <1>1, FirstElement
<1>3. (\A k \in 1 .. n : s[k] \in BlocksOf(doc)) /\ \A k \in 1 .. n - 1 : NextTo(doc, s[k], s[k + 1])
  BY <1>2 DEF Chain
<1>4. NextBlock = s[pos] /\ Last(s) = s[n]
  BY DEF NextBlock, Last
<1> HIDE DEF s, n
<1>5. NextBlock \in BlocksOf(doc)
  BY <1>1, <1>3, <1>4
<1>6. CASE pos + 1 <= n
  <2>1. pos \in 1 .. n - 1
    BY <1>1, <1>6
  <2> QED
    BY <1>3, <1>4, <1>5, <1>6, <2>1 DEF s, n
<1>7. CASE ~ (pos + 1 <= n)
  <2>1. pos = n
    BY <1>1, <1>7
  <2> QED
    BY <1>4, <1>5, <1>7, <2>1 DEF s, n
<1> QED
  BY <1>6, <1>7

\* The end of a block: the next block of the section may follow, if there is one.
LEMMA BlockDone ==
  ASSUME TypeOK, LossInv, AtBlock, UNCHANGED <<doc, sections, phase>>, pos' = pos + 1, start' = 0,
         Emission(doc, chunks', group'), Reached(doc, chunks', group', NextBlock)
  PROVE  LossInv'
<1>1. phase = "split" /\ sections # <<>> /\ Chain(doc, sections)
  BY DEF AtBlock, Splitting, LossInv
<1>2. Chain(doc', sections') /\ phase' = "split" /\ sections' # <<>>
  BY <1>1
<1>3. Emission(doc', chunks', group') /\ ~ (start' > 0)
  OBVIOUS
<1>4. ASSUME pos' <= Len(sections'[1].blocks)
      PROVE  May(doc', chunks', group', [block |-> sections'[1].blocks[pos'], first |-> start', last |-> start'])
  <2> DEFINE q == [block |-> sections[1].blocks[pos + 1], first |-> 0, last |-> 0]
  <2>1. NextTo(doc, NextBlock, sections[1].blocks[pos + 1])
    BY <1>1, <1>4, ChainPlaces
  <2>2. NextTo(doc, NextBlock, q.block) /\ q.first \in {Whole, 1}
    BY <2>1 DEF Whole
  <2> HIDE DEF q
  <2>3. May(doc, chunks', group', q)
    BY <2>2, NextMay
  <2> QED
    BY <2>3 DEF q
<1>5. ASSUME ~ (pos' <= Len(sections'[1].blocks))
      PROVE  Reached(doc', chunks', group', Last(sections'[1].blocks))
  <2>1. NextBlock = Last(sections[1].blocks)
    BY <1>1, <1>5, ChainPlaces
  <2> QED
    BY <2>1
<1> QED
  BY <1>2, <1>3, <1>4, <1>5 DEF LossInv, Cover, AtBlock, Splitting, NextBlock, Done

\* Flushing the group emits it as it is.
LEMMA FlushEmits ==
  ASSUME TypeOK, sections # <<>>, Emission(doc, chunks, group)
  PROVE  IsEmitted(doc, Flushed(group), chunks, group) /\ Flushed(group) \in Seq(Chunk)
<1> DEFINE C == Chunk
           c == [headings |-> Headings, pieces |-> group]
<1>1. chunks \in Seq(C) /\ group \in Seq(Piece)
  BY DEF TypeOK
<1>2. Flushed(group) \in Seq(C)
  BY <1>1, FlushedType
<1>3. CASE group = <<>>
  <2>1. Flushed(group) = chunks
    BY <1>3 DEF Flushed
  <2> QED
    BY <1>2, <1>3, <2>1 DEF IsEmitted
<1>4. CASE group # <<>>
  <2>1. Flushed(group) = Append(chunks, c)
    BY <1>4 DEF Flushed
  <2>2. c \in C /\ c.pieces = group
    <3>1. sections[1].headings \in Seq(0 .. Len(doc))
      <4>1. sections \in Seq(Section)
        BY DEF TypeOK
      <4> QED
        BY <4>1, FirstElement, SectionFields
    <3> QED
      BY <1>1, <3>1 DEF Headings, Chunk
  <2> HIDE DEF c, C
  <2>3. c.pieces # <<>> /\ Emission(doc, chunks, c.pieces)
    BY <1>4, <2>2
  <2>4. IsEmitted(doc, Append(chunks, c), chunks, c.pieces)
    BY <1>1, <2>2, <2>3, EmitGroup
  <2> QED
    BY <1>2, <2>1, <2>2, <2>4 DEF C
<1> QED
  BY <1>3, <1>4

\* What the invariant says while a block is next.
LEMMA CoverAtBlock ==
  ASSUME LossInv, AtBlock
  PROVE  /\ phase = "split" /\ sections # <<>> /\ Chain(doc, sections)
         /\ Emission(doc, chunks, group)
         /\ May(doc, chunks, group, [block |-> NextBlock, first |-> start, last |-> start])
         /\ start > 0 => group = <<>>
BY DEF LossInv, Cover, AtBlock, Splitting

\* A block is added behind the block before it, or behind the chunk just flushed.
LEMMA TakeBlockLoss ==
  ASSUME TypeOK, LossInv, TakeBlock
  PROVE  LossInv'
<1> DEFINE q == WholeBlock(NextBlock)
           none == <<>>
<1>1. /\ AtBlock /\ UNCHANGED <<doc, sections, phase>> /\ start = 0 /\ start' = 0 /\ pos' = pos + 1
      /\ \/ chunks' = Flushed(group) /\ group' = <<q>>
         \/ group' = Append(group, q) /\ chunks' = chunks
  BY DEF TakeBlock
<1>2. Emission(doc, chunks, group) /\ May(doc, chunks, group, q) /\ sections # <<>>
  BY <1>1, CoverAtBlock DEF WholeBlock, Whole
<1>3. NextBlock \in 1 .. Len(doc)
  BY <1>1, NextBlockType
<1>4. q \in Piece /\ group \in Seq(Piece) /\ chunks \in Seq(Chunk) /\ <<>> \in Seq(Piece)
  <2>1. q \in Piece
    BY <1>3, PieceType
  <2>2. group \in Seq(Piece) /\ chunks \in Seq(Chunk)
    BY DEF TypeOK
  <2> QED
    BY <2>1, <2>2
<1>5. q.block = NextBlock /\ Ends(doc, q)
  BY DEF WholeBlock, Ends
<1>6. Append(none, q) = <<q>>
  OBVIOUS
<1> DEFINE C == Chunk
           P == Piece
<1> HIDE DEF q, none, C, P
<1>7. IsGrouped(doc, chunks', group', q)
  <2>1. CASE group' = Append(group, q) /\ chunks' = chunks
    <3>1. q \in P /\ group \in Seq(P) /\ chunks \in Seq(C)
      BY <1>4 DEF P, C
    <3>2. IsGrouped(doc, chunks, Append(group, q), q)
      BY <3>1, <1>2, GroupPiece
    <3> QED
      BY <2>1, <3>2
  <2>2. CASE chunks' = Flushed(group) /\ group' = <<q>>
    <3> DEFINE cs == Flushed(group)
    <3>1. IsEmitted(doc, cs, chunks, group) /\ cs \in Seq(C)
      BY <1>2, FlushEmits DEF C
    <3> HIDE DEF cs
    <3>2. Emission(doc, cs, none) /\ May(doc, cs, none, q)
      BY <1>2, <3>1 DEF IsEmitted, none
    <3>3. q \in P /\ none \in Seq(P)
      BY <1>4 DEF P, none
    <3>4. IsGrouped(doc, cs, Append(none, q), q)
      BY <3>1, <3>2, <3>3, GroupPiece
    <3> QED
      BY <1>6, <2>2, <3>4 DEF cs
  <2> QED
    BY <1>1, <2>1, <2>2
<1>8. Emission(doc, chunks', group') /\ Reached(doc, chunks', group', NextBlock)
  BY <1>5, <1>7 DEF IsGrouped, Reached
<1> QED
  BY <1>1, <1>8, BlockDone

\* A chunk of one piece behind chunks that are complete.
LEMMA PieceEmits ==
  ASSUME TypeOK, sections # <<>>, NEW cs \in Seq(Chunk), NEW q \in Piece,
         Emission(doc, cs, <<>>), May(doc, cs, <<>>, q)
  PROVE  IsEmittedPiece(doc, Append(cs, [headings |-> Headings, pieces |-> <<q>>]), q)
<1> DEFINE C == Chunk
           P == Piece
           c == [headings |-> Headings, pieces |-> <<q>>]
<1>1. c \in C /\ c.pieces = <<q>>
  <2>1. sections[1].headings \in Seq(0 .. Len(doc))
    <3>1. sections \in Seq(Section)
      BY DEF TypeOK
    <3> QED
      BY <3>1, FirstElement, SectionFields
  <2>2. <<q>> \in Seq(Piece)
    OBVIOUS
  <2> QED
    BY <2>1, <2>2 DEF Headings, Chunk
<1>2. cs \in Seq(C) /\ q \in P
  OBVIOUS
<1> HIDE DEF C, P, c
<1>3. IsEmittedPiece(doc, Append(cs, c), q)
  BY <1>1, <1>2, EmitPiece
<1> QED
  BY <1>3 DEF c

\* An oversized block follows what has been flushed before it.
LEMMA TakeOversizedLoss ==
  ASSUME TypeOK, LossInv, TakeOversized
  PROVE  LossInv'
<1> DEFINE q == WholeBlock(NextBlock)
           cs == Flushed(group)
<1>1. /\ AtBlock /\ UNCHANGED <<doc, sections, phase>> /\ start = 0 /\ start' = 0 /\ pos' = pos + 1
      /\ chunks' = Append(cs, [headings |-> Headings, pieces |-> <<q>>]) /\ group' = <<>>
  BY DEF TakeOversized
<1>2. Emission(doc, chunks, group) /\ May(doc, chunks, group, q) /\ sections # <<>>
  BY <1>1, CoverAtBlock DEF WholeBlock, Whole
<1>3. NextBlock \in 1 .. Len(doc)
  BY <1>1, NextBlockType
<1>4. q \in Piece
  BY <1>3, PieceType
<1>5. q.block = NextBlock /\ Ends(doc, q)
  BY DEF WholeBlock, Ends
<1>6. IsEmitted(doc, cs, chunks, group) /\ cs \in Seq(Chunk)
  BY <1>2, FlushEmits
<1> HIDE DEF q, cs
<1>7. Emission(doc, cs, <<>>) /\ May(doc, cs, <<>>, q)
  BY <1>2, <1>6 DEF IsEmitted
<1>8. IsEmittedPiece(doc, chunks', q)
  BY <1>1, <1>2, <1>4, <1>6, <1>7, PieceEmits
<1>9. Emission(doc, chunks', group') /\ Reached(doc, chunks', group', NextBlock)
  BY <1>1, <1>5, <1>8 DEF IsEmittedPiece
<1> QED
  BY <1>1, <1>9, BlockDone

\* A step within a block: more of it may follow.
LEMMA BlockGoesOn ==
  ASSUME LossInv, AtBlock, UNCHANGED <<doc, sections, phase, pos>>, group' = <<>>,
         Emission(doc, chunks', group'),
         May(doc, chunks', group', [block |-> NextBlock, first |-> start', last |-> start'])
  PROVE  LossInv'
<1>1. phase = "split" /\ sections # <<>> /\ Chain(doc, sections) /\ pos <= Len(sections[1].blocks)
  BY DEF AtBlock, Splitting, LossInv
<1>2. Chain(doc', sections') /\ phase' = "split" /\ sections' # <<>>
      /\ pos' <= Len(sections'[1].blocks)
  BY <1>1
<1>3. Emission(doc', chunks', group')
      /\ May(doc', chunks', group', [block |-> sections'[1].blocks[pos'], first |-> start', last |-> start'])
  BY DEF NextBlock
<1> QED
  BY <1>2, <1>3 DEF LossInv, Cover, AtBlock, Splitting, NextBlock, Done

\* The last element of a sequence is its element.
LEMMA LastElement ==
  ASSUME NEW V, NEW s \in Seq(V), s # <<>>
  PROVE  Last(s) \in V /\ Len(s) \in 1 .. Len(s) /\ Last(s) = s[Len(s)]
<1>1. Len(s) \in 1 .. Len(s)
  OBVIOUS
<1> QED
  BY <1>1 DEF Last

\* The group is flushed before the first window.
LEMMA BeginWindowsLoss ==
  ASSUME TypeOK, LossInv, BeginWindows
  PROVE  LossInv'
<1> DEFINE p == WholeBlock(NextBlock)
           q == [block |-> NextBlock, first |-> 1, last |-> 1]
           cs == Flushed(group)
<1>1. /\ AtBlock /\ UNCHANGED <<doc, sections, phase, pos>> /\ start = 0 /\ start' = 1
      /\ chunks' = cs /\ group' = <<>>
  BY DEF BeginWindows
<1>2. Emission(doc, chunks, group) /\ May(doc, chunks, group, p) /\ sections # <<>>
  BY <1>1, CoverAtBlock DEF WholeBlock, Whole
<1>3. group # <<>> => Last(group).first \in Nat
  <2>1. group \in Seq(Piece)
    BY DEF TypeOK
  <2>2. group # <<>> => Last(group) \in Piece
    BY <2>1, LastElement
  <2> QED
    BY <2>2 DEF Piece
<1>4. chunks # <<>> => Last(Last(chunks).pieces).first \in Nat
  <2> SUFFICES ASSUME chunks # <<>> PROVE Last(Last(chunks).pieces).first \in Nat
    OBVIOUS
  <2>1. chunks \in Seq(Chunk)
    BY DEF TypeOK
  <2>2. Last(chunks) \in Chunk /\ Len(chunks) \in 1 .. Len(chunks) /\ Last(chunks) = chunks[Len(chunks)]
    BY <2>1, LastElement
  <2>3. Last(chunks).pieces # <<>>
    BY <1>2, <2>2 DEF Emission
  <2>4. Last(chunks).pieces \in Seq(Piece)
    BY <2>2 DEF Chunk
  <2>5. Last(Last(chunks).pieces) \in Piece
    BY <2>3, <2>4, LastElement
  <2> QED
    BY <2>5 DEF Piece
<1>5. p.first = Whole /\ q.block = p.block /\ q.first \in {Whole, 1}
  BY DEF WholeBlock
<1>6. IsEmitted(doc, cs, chunks, group)
  BY <1>2, FlushEmits
<1>7. [block |-> NextBlock, first |-> start', last |-> start'] = q
  BY <1>1
<1> HIDE DEF p, q, cs
<1>8. May(doc, chunks, group, q)
  BY <1>2, <1>3, <1>4, <1>5, BeginMay
<1>9. Emission(doc, chunks', group') /\ May(doc, chunks', group', q)
  BY <1>1, <1>6, <1>8 DEF IsEmitted
<1> QED
  BY <1>1, <1>7, <1>9, BlockGoesOn

\* A window begins at the sentence that is next, and the next one leaves no gap.
LEMMA WindowLoss ==
  ASSUME TypeOK, LossInv, Window
  PROVE  LossInv'
<1>1. /\ AtBlock /\ UNCHANGED <<doc, sections, phase, group>> /\ start > 0
  BY DEF Window
<1>2. PICK last \in start .. Len(Sentences(NextBlock)) :
           /\ last \in Nat /\ start \in Nat /\ start <= last /\ last <= Len(Sentences(NextBlock))
           /\ chunks' = Append(chunks, [headings |-> Headings,
                pieces |-> <<[block |-> NextBlock, first |-> start, last |-> last]>>])
           /\ \/ last = Len(Sentences(NextBlock)) /\ start' = 0 /\ pos' = pos + 1
              \/ /\ last < Len(Sentences(NextBlock)) /\ pos' = pos
                 /\ start' \in Nat /\ start' > start /\ start' <= last + 1
                 /\ start' <= Len(Sentences(NextBlock))
  BY WindowStep
<1> DEFINE p == [block |-> NextBlock, first |-> start, last |-> start]
           q == [block |-> NextBlock, first |-> start, last |-> last]
           r == [block |-> NextBlock, first |-> start', last |-> start']
<1>3. Emission(doc, chunks, <<>>) /\ May(doc, chunks, <<>>, p) /\ sections # <<>> /\ group' = <<>>
  BY <1>1, CoverAtBlock
<1>4. NextBlock \in 1 .. Len(doc) /\ chunks \in Seq(Chunk)
  BY <1>1, NextBlockType DEF TypeOK
<1>5. q \in Piece
  BY <1>2, <1>4, PieceType
<1>6. q.block = p.block /\ q.first = p.first /\ q.block = NextBlock /\ q.first = start /\ q.last = last
  OBVIOUS
<1>7. r.block = NextBlock /\ r.first = start'
  OBVIOUS
<1>8. chunks' = Append(chunks, [headings |-> Headings, pieces |-> <<q>>])
  BY <1>2
<1> HIDE DEF p, q, r
<1>9. May(doc, chunks, <<>>, q)
  BY <1>3, <1>6 DEF May, Comes, Leads
<1>10. IsEmittedPiece(doc, chunks', q)
  BY <1>3, <1>4, <1>5, <1>8, <1>9, PieceEmits
<1>11. CASE last = Len(Sentences(NextBlock)) /\ start' = 0 /\ pos' = pos + 1
  <2>1. Ends(doc, q)
    BY <1>6, <1>11 DEF Ends, Sentences
  <2>2. Emission(doc, chunks', group') /\ Reached(doc, chunks', group', NextBlock)
    BY <1>3, <1>6, <1>10, <2>1 DEF IsEmittedPiece
  <2> QED
    BY <1>1, <1>11, <2>2, BlockDone
<1>12. CASE pos' = pos /\ start' > start /\ start' <= last + 1
  <2>1. Comes(doc, q, r)
    BY <1>6, <1>7, <1>12 DEF Comes
  <2>2. Emission(doc, chunks', group') /\ May(doc, chunks', group', r)
    BY <1>3, <1>10, <2>1 DEF IsEmittedPiece
  <2> QED
    BY <1>1, <1>3, <1>12, <2>2, BlockGoesOn DEF r
<1> QED
  BY <1>2, <1>11, <1>12

\* The last blocks of a section are flushed before the next section begins.
LEMMA EndSectionLoss ==
  ASSUME TypeOK, LossInv, EndSection
  PROVE  LossInv'
<1> DEFINE cs == Flushed(group)
           b == Last(sections[1].blocks)
           n == Len(sections)
           V == Section
<1>1. /\ phase = "split" /\ sections # <<>> /\ ~ AtBlock /\ UNCHANGED <<doc, phase, start>>
      /\ chunks' = cs /\ group' = <<>> /\ pos' = 1 /\ sections' = Tail(sections)
      /\ pos > Len(sections[1].blocks)
  <2>1. /\ phase = "split" /\ sections # <<>> /\ pos > Len(sections[1].blocks)
        /\ UNCHANGED <<doc, phase, start>>
        /\ chunks' = cs /\ group' = <<>> /\ pos' = 1 /\ sections' = Tail(sections)
    BY DEF EndSection, Splitting
  <2>2. Len(sections[1].blocks) \in Nat /\ pos \in Nat
    <3>1. sections \in Seq(Section) /\ pos \in Nat
      BY DEF TypeOK
    <3> QED
      BY <2>1, <3>1, FirstElement, SectionFields
  <2> DEFINE l == Len(sections[1].blocks)
  <2>3. ~ (pos <= l)
    <3>1. l \in Nat /\ pos \in Nat /\ pos > l
      BY <2>1, <2>2
    <3> HIDE DEF l
    <3> QED
      BY <3>1
  <2> QED
    BY <2>1, <2>3 DEF AtBlock
<1>2. Emission(doc, chunks, group) /\ Reached(doc, chunks, group, b) /\ Chain(doc, sections)
  BY <1>1 DEF LossInv, Cover, Splitting, Done
<1>3. IsEmitted(doc, cs, chunks, group)
  BY <1>1, <1>2, FlushEmits
<1>4. start = 0
  <2>1. start > 0 => pos <= Len(sections[1].blocks)
    BY DEF TypeOK
  <2>2. ~ (pos <= Len(sections[1].blocks))
    BY <1>1 DEF AtBlock, Splitting
  <2>3. start \in Nat
    BY DEF TypeOK
  <2> QED
    BY <2>1, <2>2, <2>3
<1>5. sections \in Seq(V) /\ \A i \in 1 .. n : sections[i].blocks # <<>>
  BY DEF TypeOK
<1> HIDE DEF cs, V
<1>6. IsTail(sections', V, sections)
  BY <1>1, <1>5, TailPlaces
<1>7. /\ Len(sections') = n - 1 /\ n \in Nat /\ n > 0
      /\ \A i \in 1 .. n - 1 : sections'[i] = sections[i + 1]
  BY <1>6 DEF IsTail
<1>8. Emission(doc, chunks', group') /\ Reached(doc, chunks', group', b)
  BY <1>1, <1>2, <1>3 DEF IsEmitted
<1> HIDE DEF n, b
<1>9. \A i \in 1 .. Len(sections') : i \in 1 .. n - 1 /\ i + 1 \in 1 .. n /\ sections'[i] = sections[i + 1]
  BY <1>7
<1>10. CASE n = 1
  <2>1. sections' = <<>>
    <3>1. Len(sections') = 0
      BY <1>7, <1>10
    <3>2. sections' \in Seq(V)
      BY <1>6 DEF IsTail
    <3> QED
      BY <3>1, <3>2
  <2>2. NoneBehind(doc, b)
    <3>1. Last(sections) = sections[1]
      BY <1>10 DEF Last, n
    <3> QED
      BY <1>1, <1>2, <3>1 DEF Chain, b
  <2>3. b \in BlocksOf(doc)
    <3>1. 1 \in 1 .. n
      BY <1>7
    <3>2. sections[1].blocks # <<>> /\ sections[1] \in V
      BY <1>5, <3>1, Element DEF n
    <3>3. sections[1].blocks \in Seq(1 .. Len(doc))
      BY <3>2 DEF V, Section
    <3>4. Len(sections[1].blocks) \in 1 .. Len(sections[1].blocks)
      BY <3>2, <3>3, LastElement
    <3> QED
      BY <1>2, <3>1, <3>4 DEF Chain, b, n, Last
  <2>4. Chain(doc', sections')
    <3>1. Len(sections') = 0 /\ 0 - 1 = -1
      BY <1>7, <1>10
    <3>2. \A i \in 1 .. Len(sections') : FALSE
      BY <3>1
    <3>3. \A i \in 1 .. Len(sections') - 1 : FALSE
      BY <3>1
    <3> QED
      BY <2>1, <3>2, <3>3 DEF Chain
  <2>5. Reached(doc', chunks', <<>>, b) /\ NoneBehind(doc', b) /\ b \in BlocksOf(doc')
    BY <1>1, <1>8, <2>2, <2>3
  <2>6. chunks' # <<>>
    BY <2>5 DEF Reached
  <2>7. \E x \in BlocksOf(doc') : Reached(doc', chunks', <<>>, x) /\ NoneBehind(doc', x)
    BY <2>5
  <2>8. Emission(doc', chunks', group') /\ phase' = "split" /\ group' = <<>>
    BY <1>1, <1>8
  <2>9. Cover'
    BY <2>1, <2>6, <2>7, <2>8 DEF Cover, AtBlock, Splitting, Done
  <2> QED
    BY <2>4, <2>8, <2>9 DEF LossInv
<1>11. CASE n # 1
  <2>1. n - 1 \in 1 .. n - 1 /\ 1 \in 1 .. n - 1 /\ 1 + 1 = 2 /\ n - 1 + 1 = n /\ n - 1 > 0 /\ n - 1 \in Nat
    BY <1>7, <1>11
  <2>2. sections' # <<>> /\ sections'[1] = sections[2] /\ Last(sections') = Last(sections)
    <3>1. sections'[1] = sections[2]
      BY <1>7, <2>1
    <3>2. sections' # <<>>
      BY <1>7, <2>1
    <3>3. Last(sections') = sections'[n - 1] /\ Last(sections) = sections[n]
      BY <1>7 DEF Last, n
    <3> QED
      BY <1>7, <2>1, <3>1, <3>2, <3>3
  <2>3. Chain(doc', sections')
    <3>1. ASSUME NEW i \in 1 .. Len(sections')
          PROVE  /\ \A k \in 1 .. Len(sections'[i].blocks) : sections'[i].blocks[k] \in BlocksOf(doc)
                 /\ \A k \in 1 .. Len(sections'[i].blocks) - 1 :
                      NextTo(doc, sections'[i].blocks[k], sections'[i].blocks[k + 1])
      BY <1>2, <1>9 DEF Chain, n
    <3>2. ASSUME NEW i \in 1 .. Len(sections') - 1
          PROVE  NextTo(doc, Last(sections'[i].blocks), sections'[i + 1].blocks[1])
      <4>1. i \in 1 .. n - 1 /\ i + 1 \in 1 .. n - 1
        BY <1>7
      <4>2. sections'[i] = sections[i + 1] /\ sections'[i + 1] = sections[i + 1 + 1]
        BY <1>7, <4>1
      <4>3. NextTo(doc, Last(sections[i + 1].blocks), sections[i + 1 + 1].blocks[1])
        BY <1>2, <4>1 DEF Chain, n
      <4> QED
        BY <4>2, <4>3
    <3>3. NoneBehind(doc, Last(Last(sections').blocks))
      BY <1>1, <1>2, <2>2 DEF Chain
    <3>4. Chain(doc, sections')
      BY <3>1, <3>2, <3>3 DEF Chain
    <3> QED
      BY <1>1, <3>4
  <2>4. 1 <= Len(sections'[1].blocks)
    <3>1. 2 \in 1 .. n
      BY <1>7, <1>11
    <3>2. sections[2].blocks # <<>> /\ sections[2] \in V
      BY <1>5, <3>1, Element DEF n
    <3>3. sections[2].blocks \in Seq(1 .. Len(doc))
      BY <3>2 DEF V, Section
    <3>4. Len(sections[2].blocks) \in 1 .. Len(sections[2].blocks) /\ Len(sections[2].blocks) \in Nat
      BY <3>2, <3>3, LastElement
    <3> DEFINE l == Len(sections[2].blocks)
    <3>5. l \in 1 .. l /\ l \in Nat
      BY <3>4
    <3> HIDE DEF l
    <3>6. 1 <= l
      BY <3>5
    <3> QED
      BY <2>2, <3>6 DEF l
  <2> DEFINE q == [block |-> sections'[1].blocks[1], first |-> 0, last |-> 0]
  <2>5. NextTo(doc, b, q.block) /\ q.first \in {Whole, 1}
    <3>1. NextTo(doc, Last(sections[1].blocks), sections[1 + 1].blocks[1])
      BY <1>2, <2>1 DEF Chain, n
    <3> QED
      BY <2>1, <2>2, <3>1 DEF b, Whole
  <2> HIDE DEF q
  <2>6. May(doc, chunks', group', q)
    BY <1>8, <2>5, NextMay
  <2>7. May(doc', chunks', group', [block |-> sections'[1].blocks[pos'], first |-> start', last |-> start'])
    BY <1>1, <1>4, <2>6 DEF q
  <2>8. Emission(doc', chunks', group') /\ phase' = "split" /\ group' = <<>>
    BY <1>1, <1>8
  <2>9. Cover'
    BY <1>1, <2>2, <2>4, <2>7, <2>8 DEF Cover, AtBlock, Splitting, Done, NextBlock
  <2> QED
    BY <2>3, <2>8, <2>9 DEF LossInv
<1> QED
  BY <1>10, <1>11

\* No piece follows another in the beginning.
LEMMA NothingEmitted ==
  ASSUME NEW d
  PROVE  Emission(d, <<>>, <<>>)
<1> DEFINE none == <<>>
<1>1. Len(none) = 0 /\ none = <<>>
  OBVIOUS
<1> HIDE DEF none
<1>2. (\A i \in 1 .. Len(none) : FALSE) /\ \A i \in 1 .. Len(none) - 1 : FALSE
  BY <1>1
<1>3. Emission(d, none, none)
  BY <1>1, <1>2 DEF Emission, Linked
<1> QED
  BY <1>1, <1>3

\* The split begins with the first block of the document.
LEMMA AllMergedLoss ==
  ASSUME TypeInv, LossInv, AllMerged
  PROVE  LossInv'
<1>1. /\ UNCHANGED <<doc, sections, pos, start, group, chunks>> /\ phase = "merge" /\ phase' = "split"
  BY DEF AllMerged
<1>2. pos = 1 /\ start = 0 /\ group = <<>> /\ chunks = <<>> /\ TypeOK
  BY <1>1 DEF TypeInv, Idle
<1>3. Chain(doc, sections) /\ Begin(doc, sections)
  BY <1>1 DEF LossInv
<1>4. Emission(doc', chunks', group') /\ Chain(doc', sections') /\ ~ (start' > 0)
  BY <1>1, <1>2, <1>3, NothingEmitted
<1>5. CASE sections = <<>>
  <2>1. BlocksOf(doc') = {}
    BY <1>1, <1>3, <1>5 DEF Begin
  <2>2. sections' = <<>> /\ group' = <<>> /\ chunks' = <<>>
    BY <1>1, <1>2, <1>5
  <2>3. Cover'
    BY <1>4, <2>1, <2>2 DEF Cover, AtBlock, Splitting, Done
  <2> QED
    BY <1>1, <1>4, <2>3 DEF LossInv
<1>6. CASE sections # <<>>
  <2>1. 1 \in 1 .. Len(sections) /\ sections[1] \in Section /\ sections[1].blocks # <<>>
    BY <1>2, <1>6, FirstElement DEF TypeOK
  <2>2. sections[1].blocks \in Seq(1 .. Len(doc)) /\ Len(sections[1].blocks) \in Nat
        /\ 1 \in 1 .. Len(sections[1].blocks)
    BY <2>1, SectionFields, FirstElement
  <2>3. 1 <= Len(sections[1].blocks)
    <3> DEFINE l == Len(sections[1].blocks)
    <3>1. 1 \in 1 .. l /\ l \in Nat
      BY <2>2
    <3> HIDE DEF l
    <3>2. 1 <= l
      BY <3>1
    <3> QED
      BY <3>2 DEF l
  <2>4. sections[1].blocks[1] \in BlocksOf(doc)
    BY <1>3, <2>1, <2>2 DEF Chain
  <2> DEFINE q == [block |-> sections[1].blocks[1], first |-> 0, last |-> 0]
  <2>5. Leads(doc, q)
    BY <1>3, <1>6, <2>4 DEF Leads, Begin, Whole
  <2>6. May(doc, <<>>, <<>>, q)
    BY <2>5 DEF May
  <2> HIDE DEF q
  <2>7. May(doc', chunks', group', [block |-> sections'[1].blocks[pos'], first |-> start', last |-> start'])
    BY <1>1, <1>2, <2>6 DEF q
  <2>8. sections' # <<>> /\ pos' <= Len(sections'[1].blocks)
    BY <1>1, <1>2, <1>6, <2>3
  <2>9. Cover'
    BY <1>4, <2>7, <2>8 DEF Cover, AtBlock, Splitting, Done, NextBlock
  <2> QED
    BY <1>1, <1>4, <2>9 DEF LossInv
<1> QED
  BY <1>5, <1>6

\* Where the elements of a concatenation come from.
IsJoin(r, s, t) ==
  /\ r # <<>> /\ r[1] = s[1] /\ Last(r) = Last(t)
  /\ \A k \in 1 .. Len(r) : (\E i \in 1 .. Len(s) : r[k] = s[i]) \/ (\E i \in 1 .. Len(t) : r[k] = t[i])
  /\ \A k \in 1 .. Len(r) - 1 :
       \/ \E i \in 1 .. Len(s) - 1 : r[k] = s[i] /\ r[k + 1] = s[i + 1]
       \/ r[k] = Last(s) /\ r[k + 1] = t[1]
       \/ \E i \in 1 .. Len(t) - 1 : r[k] = t[i] /\ r[k + 1] = t[i + 1]

\* Two nonempty sequences joined: where the seam is.
LEMMA JoinPlaces ==
  ASSUME NEW V, NEW s \in Seq(V), NEW t \in Seq(V), s # <<>>, t # <<>>, NEW r, IsConcat(r, V, s, t)
  PROVE  IsJoin(r, s, t)
<1> DEFINE m == Len(s)
           n == Len(t)
<1>1. m \in Nat /\ n \in Nat /\ m > 0 /\ n > 0 /\ Last(s) = s[m] /\ Last(t) = t[n]
  BY DEF Last
<1>2. /\ r \in Seq(V) /\ Len(r) = m + n
      /\ \A i \in 1 .. m : r[i] = s[i]
      /\ \A i \in 1 .. n : r[m + i] = t[i]
  BY DEF IsConcat
<1>3. Last(r) = r[m + n]
  BY <1>2 DEF Last
<1> HIDE DEF m, n
<1>4. 1 \in 1 .. m /\ n \in 1 .. n /\ m + n > 0 /\ m \in 1 .. m /\ 1 \in 1 .. n
  BY <1>1
<1>5. r # <<>>
  BY <1>2, <1>4
<1>6. r[1] = s[1] /\ Last(r) = Last(t)
  BY <1>1, <1>2, <1>3, <1>4
<1>7. ASSUME NEW k \in 1 .. Len(r)
      PROVE  (\E i \in 1 .. m : r[k] = s[i]) \/ (\E i \in 1 .. n : r[k] = t[i])
  <2>1. CASE k <= m
    <3>1. k \in 1 .. m
      BY <1>1, <1>2, <2>1
    <3> QED
      BY <1>2, <3>1
  <2>2. CASE k > m
    <3>1. k - m \in 1 .. n /\ m + (k - m) = k
      BY <1>1, <1>2, <2>2
    <3> QED
      BY <1>2, <3>1
  <2> QED
    BY <1>1, <1>2, <2>1, <2>2
<1>8. ASSUME NEW k \in 1 .. Len(r) - 1
      PROVE  \/ \E i \in 1 .. m - 1 : r[k] = s[i] /\ r[k + 1] = s[i + 1]
             \/ r[k] = Last(s) /\ r[k + 1] = t[1]
             \/ \E i \in 1 .. n - 1 : r[k] = t[i] /\ r[k + 1] = t[i + 1]
  <2>1. CASE k < m
    <3>1. k \in 1 .. m - 1 /\ k \in 1 .. m /\ k + 1 \in 1 .. m
      BY <1>1, <1>2, <2>1
    <3> QED
      BY <1>2, <3>1
  <2>2. CASE k = m
    BY <1>1, <1>2, <1>4, <2>2
  <2>3. CASE k > m
    <3>1. k - m \in 1 .. n - 1 /\ k - m \in 1 .. n /\ k - m + 1 \in 1 .. n
          /\ m + (k - m) = k /\ m + (k - m + 1) = k + 1
      BY <1>1, <1>2, <2>3
    <3>2. r[k] = t[k - m] /\ r[k + 1] = t[k - m + 1]
      BY <1>2, <3>1
    <3> QED
      BY <3>1, <3>2
  <2> QED
    BY <1>1, <1>2, <2>1, <2>2, <2>3
<1> QED
  BY <1>5, <1>6, <1>7, <1>8 DEF IsJoin, m, n

\* A merge joins the blocks of neighbours in their order.
LEMMA MergeLoss ==
  ASSUME TypeOK, LossInv, Merge
  PROVE  LossInv'
<1> DEFINE n == Len(sections)
<1>1. PICK a \in 1 .. Len(sections) - 1 : IsMerge(a)
  BY MergePlaces
<1> DEFINE x == sections[a]
           y == sections[a + 1]
           z == sections'[a]
<1>2. UNCHANGED <<doc, phase>> /\ phase = "merge" /\ Chain(doc, sections) /\ Begin(doc, sections)
  BY DEF Merge, LossInv
<1>3. /\ n \in Nat /\ a \in 1 .. n - 1 /\ Len(sections') = n - 1 /\ z = MergeInto(x, y)
      /\ \A i \in 1 .. a - 1 : sections'[i] = sections[i]
      /\ \A i \in a + 1 .. n - 1 : sections'[i] = sections[i + 1]
      /\ x \in Section /\ y \in Section /\ sections' \in Seq(Section)
  BY <1>1 DEF IsMerge
<1>4. \A i \in 1 .. n : sections[i].blocks # <<>>
  BY DEF TypeOK
<1> HIDE DEF n
<1>5. a \in 1 .. n /\ a + 1 \in 1 .. n /\ 1 \in 1 .. n /\ n \in 1 .. n /\ n > 0 /\ a < n
  BY <1>3
<1>6. x.blocks # <<>> /\ y.blocks # <<>>
  BY <1>4, <1>5
<1> DEFINE V == 1 .. Len(doc)
           r == x.blocks \o y.blocks
<1>7. IsJoin(z.blocks, x.blocks, y.blocks)
  <2>1. z.blocks = r /\ IsConcat(r, V, x.blocks, y.blocks)
    <3>1. x \in Section /\ y \in Section /\ x.blocks # <<>> /\ z = MergeInto(x, y)
      BY <1>3, <1>6
    <3> HIDE DEF x, y, z
    <3> QED
      BY <3>1, MergedSection
  <2>2. x.blocks \in Seq(V) /\ y.blocks \in Seq(V)
    BY <1>3, SectionFields
  <2> HIDE DEF V, r, x, y, z
  <2> QED
    BY <1>6, <2>1, <2>2, JoinPlaces
<1>8. ASSUME NEW i \in 1 .. n
      PROVE  /\ \A k \in 1 .. Len(sections[i].blocks) : sections[i].blocks[k] \in BlocksOf(doc)
             /\ \A k \in 1 .. Len(sections[i].blocks) - 1 :
                  NextTo(doc, sections[i].blocks[k], sections[i].blocks[k + 1])
  BY <1>2 DEF Chain, n
<1>9. ASSUME NEW i \in 1 .. n - 1
      PROVE  NextTo(doc, Last(sections[i].blocks), sections[i + 1].blocks[1])
  BY <1>2 DEF Chain, n
<1>10. NextTo(doc, Last(x.blocks), y.blocks[1])
  BY <1>3, <1>9
<1>11. /\ \A k \in 1 .. Len(x.blocks) : x.blocks[k] \in BlocksOf(doc)
       /\ \A k \in 1 .. Len(x.blocks) - 1 : NextTo(doc, x.blocks[k], x.blocks[k + 1])
  BY <1>5, <1>8
<1>12. /\ \A k \in 1 .. Len(y.blocks) : y.blocks[k] \in BlocksOf(doc)
       /\ \A k \in 1 .. Len(y.blocks) - 1 : NextTo(doc, y.blocks[k], y.blocks[k + 1])
  BY <1>5, <1>8
<1>13. /\ \A k \in 1 .. Len(z.blocks) : z.blocks[k] \in BlocksOf(doc)
       /\ \A k \in 1 .. Len(z.blocks) - 1 : NextTo(doc, z.blocks[k], z.blocks[k + 1])
  <2> HIDE DEF x, y, z
  <2>1. ASSUME NEW k \in 1 .. Len(z.blocks) PROVE z.blocks[k] \in BlocksOf(doc)
    BY <1>7, <1>11, <1>12 DEF IsJoin
  <2>2. ASSUME NEW k \in 1 .. Len(z.blocks) - 1 PROVE NextTo(doc, z.blocks[k], z.blocks[k + 1])
    <3>1. \/ \E i \in 1 .. Len(x.blocks) - 1 : z.blocks[k] = x.blocks[i] /\ z.blocks[k + 1] = x.blocks[i + 1]
          \/ z.blocks[k] = Last(x.blocks) /\ z.blocks[k + 1] = y.blocks[1]
          \/ \E i \in 1 .. Len(y.blocks) - 1 : z.blocks[k] = y.blocks[i] /\ z.blocks[k + 1] = y.blocks[i + 1]
      BY <1>7 DEF IsJoin
    <3> QED
      BY <3>1, <1>10, <1>11, <1>12
  <2> QED
    BY <2>1, <2>2
<1>14. z.blocks[1] = x.blocks[1] /\ Last(z.blocks) = Last(y.blocks)
  BY <1>7 DEF IsJoin
\* The ends of the sections afterwards are ends of sections before.
<1>15. ASSUME NEW i \in 1 .. n - 1
       PROVE  /\ i <= a => sections'[i].blocks[1] = sections[i].blocks[1]
              /\ i > a => sections'[i].blocks[1] = sections[i + 1].blocks[1]
              /\ i < a => Last(sections'[i].blocks) = Last(sections[i].blocks)
              /\ i >= a => Last(sections'[i].blocks) = Last(sections[i + 1].blocks)
  <2>1. CASE i < a
    <3>1. i \in 1 .. a - 1 /\ i <= a /\ ~ (i > a) /\ ~ (i >= a)
      BY <1>3, <2>1
    <3>2. sections'[i] = sections[i]
      BY <1>3, <3>1
    <3> QED
      BY <3>1, <3>2
  <2>2. CASE i = a
    <3>1. i <= a /\ ~ (i > a) /\ ~ (i < a) /\ i >= a
      BY <1>3, <2>2
    <3> QED
      BY <1>14, <2>2, <3>1
  <2>3. CASE i > a
    <3>1. i \in a + 1 .. n - 1 /\ ~ (i <= a) /\ ~ (i < a)
      BY <1>3, <2>3
    <3>2. sections'[i] = sections[i + 1]
      BY <1>3, <3>1
    <3> QED
      BY <2>3, <3>1, <3>2
  <2> QED
    BY <1>3, <2>1, <2>2, <2>3
<1>16. ASSUME NEW i \in 1 .. n - 1
       PROVE  /\ \A k \in 1 .. Len(sections'[i].blocks) : sections'[i].blocks[k] \in BlocksOf(doc)
              /\ \A k \in 1 .. Len(sections'[i].blocks) - 1 :
                   NextTo(doc, sections'[i].blocks[k], sections'[i].blocks[k + 1])
  <2>1. CASE i < a
    <3>1. i \in 1 .. a - 1 /\ i \in 1 .. n
      BY <1>3, <2>1
    <3> QED
      BY <1>3, <1>8, <3>1
  <2>2. CASE i = a
    BY <1>13, <2>2
  <2>3. CASE i > a
    <3>1. i \in a + 1 .. n - 1 /\ i + 1 \in 1 .. n
      BY <1>3, <2>3
    <3> QED
      BY <1>3, <1>8, <3>1
  <2> QED
    BY <1>3, <2>1, <2>2, <2>3
<1>17. ASSUME NEW i \in 1 .. n - 1 - 1
       PROVE  NextTo(doc, Last(sections'[i].blocks), sections'[i + 1].blocks[1])
  <2>1. i \in 1 .. n - 1 /\ i + 1 \in 1 .. n - 1
    BY <1>3
  <2>2. CASE i < a
    <3>1. i + 1 <= a
      BY <1>3, <2>2
    <3>2. Last(sections'[i].blocks) = Last(sections[i].blocks)
          /\ sections'[i + 1].blocks[1] = sections[i + 1].blocks[1]
      BY <1>15, <2>1, <2>2, <3>1
    <3> QED
      BY <1>9, <2>1, <3>2
  <2>3. CASE ~ (i < a)
    <3>1. i >= a /\ i + 1 > a
      <4>1. i \in Int /\ a \in Int
        BY <1>3, <2>1
      <4> QED
        BY <2>3, <4>1
    <3>2. Last(sections'[i].blocks) = Last(sections[i + 1].blocks)
          /\ sections'[i + 1].blocks[1] = sections[i + 1 + 1].blocks[1]
      BY <1>15, <2>1, <3>1
    <3> QED
      BY <1>9, <2>1, <3>2
  <2> QED
    BY <2>2, <2>3
<1>18. sections' # <<>> /\ NoneBehind(doc, Last(Last(sections').blocks))
  <2>1. n - 1 \in 1 .. n - 1 /\ n - 1 >= a /\ n - 1 > 0 /\ n - 1 + 1 = n
    BY <1>3
  <2>2. sections' # <<>>
    BY <1>3, <2>1
  <2>3. Last(sections').blocks = sections'[n - 1].blocks /\ Last(sections) = sections[n]
    BY <1>3 DEF Last, n
  <2>4. Last(sections'[n - 1].blocks) = Last(sections[n].blocks)
    BY <1>15, <2>1
  <2>5. NoneBehind(doc, Last(Last(sections).blocks))
    <3>1. sections # <<>>
      BY <1>5 DEF n
    <3> QED
      BY <1>2, <3>1 DEF Chain
  <2> QED
    BY <2>2, <2>3, <2>4, <2>5
<1>19. Chain(doc, sections')
  BY <1>3, <1>16, <1>17, <1>18 DEF Chain
<1>20. Begin(doc, sections')
  <2>1. 1 \in 1 .. n - 1 /\ 1 <= a
    BY <1>3
  <2>2. sections'[1].blocks[1] = sections[1].blocks[1]
    BY <1>15, <2>1
  <2>3. sections # <<>>
    BY <1>5 DEF n
  <2> QED
    BY <1>2, <1>18, <2>2, <2>3 DEF Begin
<1> QED
  BY <1>2, <1>19, <1>20 DEF LossInv, Cover

\* What the walk of a block with text does: the open section grows, or a new
\* one is begun.
Grows(n) ==
  LET k == Len(sections) IN
  /\ n.kind # "heading" /\ n.text # <<>>
  /\ k \in Nat /\ k > 0 /\ sections[k] \in Section /\ Last(sections) = sections[k]
  /\ sections[k].headings = stack
  /\ Len(sections') = k /\ sections' # <<>>
  /\ \A i \in 1 .. k - 1 : sections'[i] = sections[i]
  /\ sections'[k].headings = sections[k].headings
  /\ sections'[k].blocks = Append(sections[k].blocks, Len(doc) + 1)
  /\ sections'[k].tokens = sections[k].tokens + NodeTokens[n]

Begins(n) ==
  LET k == Len(sections) IN
  /\ n.kind # "heading" /\ n.text # <<>>
  /\ k \in Nat
  /\ Len(sections') = k + 1 /\ sections' # <<>>
  /\ \A i \in 1 .. k : sections'[i] = sections[i]
  /\ sections'[k + 1].headings = stack
  /\ sections'[k + 1].blocks = <<Len(doc) + 1>>
  /\ sections'[k + 1].tokens = NodeTokens[n]

\* What a node does to the sections: nothing, one more block, or one more
\* section.
LEMMA WalkPlaces ==
  ASSUME TypeOK, NEW n \in Nodes, Walk(n)
  PROVE  \/ sections' = sections /\ ~ (n.kind # "heading" /\ n.text # <<>>)
         \/ Grows(n) /\ stack' = stack
         \/ Begins(n) /\ stack' = stack
<1>1. WalkHeading(n) \/ WalkBlock(n)
  BY DEF Walk
<1>2. sections \in Seq(Section)
  BY DEF TypeOK
<1>3. CASE WalkHeading(n)
  BY <1>3 DEF WalkHeading
<1>4. CASE WalkBlock(n) /\ n.text = <<>>
  BY <1>4 DEF WalkBlock
<1>5. CASE WalkBlock(n) /\ n.text # <<>> /\ Open
  <2> DEFINE b == Len(doc) + 1
             old == Last(sections)
             x == Append(old.blocks, b)
             y == old.tokens + NodeTokens[n]
             grown == [old EXCEPT !.blocks = Append(@, b), !.tokens = @ + NodeTokens[n]]
             k == Len(sections)
  <2>1. /\ n.kind # "heading" /\ sections # <<>> /\ old.headings = stack /\ stack' = stack
        /\ sections' = Front(sections) \o <<grown>>
    BY <1>5 DEF WalkBlock, Open
  <2>2. k \in 1 .. k /\ k \in Nat /\ old = sections[k] /\ old \in Section /\ k > 0
    <3>1. Last(sections) \in Section /\ k \in 1 .. k /\ Last(sections) = sections[k]
      BY <1>2, <2>1, LastElement
    <3>2. k \in Nat /\ k > 0
      BY <1>2, <3>1
    <3> QED
      BY <3>1, <3>2
  <2>3. grown.headings = old.headings /\ grown.blocks = x /\ grown.tokens = y
    <3>1. old = [headings |-> old.headings, blocks |-> old.blocks, tokens |-> old.tokens]
      <4> HIDE DEF old
      <4> QED
        BY <2>2 DEF Section
    <3>2. grown = [old EXCEPT !.blocks = x, !.tokens = y]
      OBVIOUS
    <3> HIDE DEF old, b, x, y, grown
    <3> QED
      BY <3>1, <3>2
  <2> DEFINE V == Section \cup {grown}
  <2> HIDE DEF grown, x, y, b, old
  <2>4. sections \in Seq(V) /\ grown \in V
    <3> DEFINE S == Section
    <3>1. S \subseteq V /\ sections \in Seq(S)
      BY <1>2
    <3> HIDE DEF S, V
    <3>2. Seq(S) \subseteq Seq(V)
      BY <3>1
    <3>3. sections \in Seq(V)
      BY <3>1, <3>2
    <3> QED
      BY <3>3 DEF V
  <2> HIDE DEF V
  <2>5. IsReplaced(sections', V, sections, grown)
    BY <2>1, <2>4, ReplacedPlaces
  <2>6. Len(sections') = k /\ sections'[k] = grown /\ \A i \in 1 .. k - 1 : sections'[i] = sections[i]
    BY <2>5 DEF IsReplaced
  <2> HIDE DEF k
  <2>7. sections' # <<>>
    <3>1. Len(sections') # 0
      BY <2>2, <2>6
    <3> QED
      BY <3>1
  <2>8. Grows(n)
    BY <1>5, <2>1, <2>2, <2>3, <2>6, <2>7 DEF Grows, k, x, y, b, old
  <2> QED
    BY <2>1, <2>8
<1>6. CASE WalkBlock(n) /\ n.text # <<>> /\ ~ Open
  <2> DEFINE new == [headings |-> stack, blocks |-> <<Len(doc) + 1>>, tokens |-> NodeTokens[n]]
             V == Section \cup {new}
             k == Len(sections)
  <2>1. n.kind # "heading" /\ sections' = Append(sections, new) /\ stack' = stack
    BY <1>6 DEF WalkBlock
  <2>2. new.headings = stack /\ new.blocks = <<Len(doc) + 1>> /\ new.tokens = NodeTokens[n]
    OBVIOUS
  <2> HIDE DEF new
  <2>3. sections \in Seq(V) /\ new \in V
    <3> DEFINE S == Section
    <3>1. S \subseteq V /\ sections \in Seq(S)
      BY <1>2
    <3> HIDE DEF S, V
    <3>2. Seq(S) \subseteq Seq(V)
      BY <3>1
    <3>3. sections \in Seq(V)
      BY <3>1, <3>2
    <3> QED
      BY <3>3 DEF V
  <2> HIDE DEF V
  <2>4. /\ Len(sections') = k + 1 /\ k \in Nat /\ sections' # <<>> /\ sections'[k + 1] = new
        /\ \A i \in 1 .. k : sections'[i] = sections[i]
    BY <2>1, <2>3, AppendedPlaces
  <2>5. Begins(n)
    BY <1>6, <2>1, <2>2, <2>4 DEF Begins
  <2> QED
    BY <2>1, <2>5
<1> QED
  BY <1>1, <1>3, <1>4, <1>5, <1>6

\* The document e has one more node than d, which is a block if isBlock.
IsLonger(e, d, isBlock) ==
  /\ Len(d) \in Nat /\ Len(e) = Len(d) + 1
  /\ BlocksOf(d) \subseteq 1 .. Len(d)
  /\ BlocksOf(e) = IF isBlock THEN BlocksOf(d) \cup {Len(d) + 1} ELSE BlocksOf(d)

\* A document with one node more, seen from its blocks.
LEMMA LongerDocument ==
  ASSUME NEW d \in Seq(Nodes), NEW n \in Nodes
  PROVE  IsLonger(Append(d, n), d, n.kind # "heading" /\ n.text # <<>>)
<1> DEFINE e == Append(d, n)
           m == Len(d)
<1>1. e \in Seq(Nodes) /\ Len(e) = m + 1 /\ m \in Nat /\ e[m + 1] = n /\ \A i \in 1 .. m : e[i] = d[i]
  BY AppendedPlaces
<1>2. BlocksOf(d) = {i \in 1 .. m : d[i].kind # "heading" /\ d[i].text # <<>>}
  BY DEF BlocksOf
<1>3. BlocksOf(e) = {i \in 1 .. Len(e) : e[i].kind # "heading" /\ e[i].text # <<>>}
  BY DEF BlocksOf
<1> HIDE DEF e, m
<1>4. 1 .. Len(e) = 1 .. m \cup {m + 1}
  BY <1>1
<1>5. BlocksOf(e) = IF n.kind # "heading" /\ n.text # <<>> THEN BlocksOf(d) \cup {m + 1} ELSE BlocksOf(d)
  <2>1. ASSUME NEW i PROVE i \in BlocksOf(e) <=>
               i \in BlocksOf(d) \/ (i = m + 1 /\ n.kind # "heading" /\ n.text # <<>>)
    <3>1. CASE i \in 1 .. m
      <4>1. i # m + 1
        BY <1>1, <3>1
      <4> QED
        BY <1>1, <1>2, <1>3, <1>4, <3>1, <4>1
    <3>2. CASE i \notin 1 .. m
      BY <1>1, <1>2, <1>3, <1>4, <3>2
    <3> QED
      BY <3>1, <3>2
  <2> QED
    BY <2>1
<1> QED
  BY <1>1, <1>2, <1>5 DEF IsLonger, e, m

\* Neighbours stay neighbours.
LEMMA LongerNext ==
  ASSUME NEW e, NEW d, NEW isBlock, IsLonger(e, d, isBlock), NEW a \in 1 .. Len(d), NEW b \in 1 .. Len(d),
         NextTo(d, a, b)
  PROVE  NextTo(e, a, b)
<1> DEFINE m == Len(d)
<1>1. m \in Nat /\ BlocksOf(e) \subseteq BlocksOf(d) \cup {m + 1} /\ a \in 1 .. m /\ b \in 1 .. m
  BY DEF IsLonger
<1> HIDE DEF m
<1>2. m + 1 \notin a + 1 .. b - 1
  BY <1>1
<1> QED
  BY <1>1, <1>2 DEF NextTo

\* The first block stays the first.
LEMMA LongerBefore ==
  ASSUME NEW e, NEW d, NEW isBlock, IsLonger(e, d, isBlock), NEW a \in 1 .. Len(d), NoneBefore(d, a)
  PROVE  NoneBefore(e, a)
<1> DEFINE m == Len(d)
<1>1. m \in Nat /\ BlocksOf(e) \subseteq BlocksOf(d) \cup {m + 1} /\ a \in 1 .. m
  BY DEF IsLonger
<1> HIDE DEF m
<1>2. m + 1 \notin 1 .. a - 1
  BY <1>1
<1> QED
  BY <1>1, <1>2 DEF NoneBefore

\* The new block is next to the last one.
LEMMA LongerLast ==
  ASSUME NEW e, NEW d, IsLonger(e, d, TRUE), NEW a \in 1 .. Len(d), NoneBehind(d, a)
  PROVE  NextTo(e, a, Len(d) + 1)
<1> DEFINE m == Len(d)
<1>1. m \in Nat /\ BlocksOf(e) = BlocksOf(d) \cup {m + 1} /\ a \in 1 .. m
      /\ BlocksOf(d) \cap (a + 1 .. m) = {}
  BY DEF IsLonger, NoneBehind
<1> HIDE DEF m
<1>2. m + 1 - 1 = m /\ m + 1 \notin a + 1 .. m /\ a < m + 1
  BY <1>1
<1>3. NextTo(e, a, m + 1)
  BY <1>1, <1>2 DEF NextTo
<1> QED
  BY <1>3 DEF m

\* A new block is the last, and the first where there was none.
LEMMA LongerEnd ==
  ASSUME NEW e, NEW d, IsLonger(e, d, TRUE)
  PROVE  /\ NoneBehind(e, Len(d) + 1) /\ Len(d) + 1 \in BlocksOf(e)
         /\ BlocksOf(d) = {} => NoneBefore(e, Len(d) + 1)
<1> DEFINE m == Len(d)
<1>1. m \in Nat /\ BlocksOf(e) = BlocksOf(d) \cup {m + 1} /\ Len(e) = m + 1
  BY DEF IsLonger
<1> HIDE DEF m
<1>2. m + 1 + 1 .. m + 1 = {} /\ m + 1 \notin 1 .. m + 1 - 1
  BY <1>1
<1>3. NoneBehind(e, m + 1)
  BY <1>1, <1>2 DEF NoneBehind
<1>4. BlocksOf(d) = {} => NoneBefore(e, m + 1)
  BY <1>1, <1>2 DEF NoneBefore
<1> QED
  BY <1>1, <1>3, <1>4 DEF m

\* A heading or an empty block leaves the last block the last.
LEMMA LongerOther ==
  ASSUME NEW e, NEW d, IsLonger(e, d, FALSE), NEW a \in 1 .. Len(d), NoneBehind(d, a)
  PROVE  NoneBehind(e, a)
<1> DEFINE m == Len(d)
<1>1. m \in Nat /\ BlocksOf(e) = BlocksOf(d) /\ Len(e) = m + 1 /\ BlocksOf(d) \subseteq 1 .. m
      /\ a \in 1 .. m /\ BlocksOf(d) \cap (a + 1 .. m) = {}
  BY DEF IsLonger, NoneBehind
<1> HIDE DEF m
<1>2. \A i \in 1 .. m : i \in a + 1 .. m + 1 => i \in a + 1 .. m
  BY <1>1
<1>3. BlocksOf(d) \cap (a + 1 .. m + 1) = {}
  BY <1>1, <1>2
<1> QED
  BY <1>1, <1>3 DEF NoneBehind

\* The places of the sections are places of the document.
LEMMA SectionPlaces ==
  ASSUME TypeOK, NEW i \in 1 .. Len(sections)
  PROVE  /\ sections[i].blocks \in Seq(1 .. Len(doc)) /\ Len(sections[i].blocks) \in Nat
         /\ sections[i].blocks # <<>>
         /\ \A k \in 1 .. Len(sections[i].blocks) : sections[i].blocks[k] \in 1 .. Len(doc)
         /\ sections[i].blocks[1] \in 1 .. Len(doc) /\ Last(sections[i].blocks) \in 1 .. Len(doc)
         /\ Last(sections[i].blocks) = sections[i].blocks[Len(sections[i].blocks)]
<1>1. sections[i] \in Section /\ sections[i].blocks # <<>>
  BY Element DEF TypeOK
<1>2. sections[i].blocks \in Seq(1 .. Len(doc)) /\ Len(sections[i].blocks) \in Nat
  BY <1>1, SectionFields
<1> DEFINE s == sections[i].blocks
           V == 1 .. Len(doc)
<1>3. s \in Seq(V) /\ s # <<>>
  BY <1>1, <1>2
<1> HIDE DEF s, V
<1>4. s[1] \in V /\ Last(s) \in V /\ Last(s) = s[Len(s)] /\ \A k \in 1 .. Len(s) : s[k] \in V
  BY <1>3, FirstElement, LastElement, Element
<1> QED
  BY <1>1, <1>2, <1>4 DEF s, V

\* What the chain says of the sections stays true when the document grows.
LEMMA ChainGrows ==
  ASSUME TypeOK, Chain(doc, sections), NEW e, NEW isBlock, IsLonger(e, doc, isBlock)
  PROVE  /\ \A i \in 1 .. Len(sections) : \A k \in 1 .. Len(sections[i].blocks) :
              sections[i].blocks[k] \in BlocksOf(e)
         /\ \A i \in 1 .. Len(sections) : \A k \in 1 .. Len(sections[i].blocks) - 1 :
              NextTo(e, sections[i].blocks[k], sections[i].blocks[k + 1])
         /\ \A i \in 1 .. Len(sections) - 1 :
              NextTo(e, Last(sections[i].blocks), sections[i + 1].blocks[1])
         /\ sections # <<>> /\ Begin(doc, sections) => NoneBefore(e, sections[1].blocks[1])
<1>1. BlocksOf(doc) \subseteq BlocksOf(e)
  BY DEF IsLonger
<1>2. Len(sections) \in Nat
  <2>1. sections \in Seq(Section)
    BY DEF TypeOK
  <2> QED
    BY <2>1, LenProperties
<1>3. ASSUME NEW i \in 1 .. Len(sections), NEW k \in 1 .. Len(sections[i].blocks)
      PROVE  sections[i].blocks[k] \in BlocksOf(e)
  BY <1>1 DEF Chain
<1>4. ASSUME NEW i \in 1 .. Len(sections), NEW k \in 1 .. Len(sections[i].blocks) - 1
      PROVE  NextTo(e, sections[i].blocks[k], sections[i].blocks[k + 1])
  <2> DEFINE s == sections[i].blocks
             l == Len(s)
  <2>1. l \in Nat /\ (\A j \in 1 .. l : s[j] \in 1 .. Len(doc)) /\ k \in 1 .. l - 1 /\ NextTo(doc, s[k], s[k + 1])
    BY SectionPlaces DEF Chain
  <2> HIDE DEF s, l
  <2>2. k \in 1 .. l /\ k + 1 \in 1 .. l
    BY <2>1
  <2>3. NextTo(e, s[k], s[k + 1])
    BY <2>1, <2>2, LongerNext
  <2> QED
    BY <2>3 DEF s
<1>5. ASSUME NEW i \in 1 .. Len(sections) - 1
      PROVE  NextTo(e, Last(sections[i].blocks), sections[i + 1].blocks[1])
  <2> DEFINE n == Len(sections)
  <2>1. i \in 1 .. n /\ i + 1 \in 1 .. n
    <3>1. n \in Nat /\ i \in 1 .. n - 1
      BY <1>2
    <3> HIDE DEF n
    <3> QED
      BY <3>1
  <2>2. Last(sections[i].blocks) \in 1 .. Len(doc) /\ sections[i + 1].blocks[1] \in 1 .. Len(doc)
    BY <2>1, SectionPlaces
  <2>3. NextTo(doc, Last(sections[i].blocks), sections[i + 1].blocks[1])
    BY DEF Chain
  <2> QED
    BY <2>2, <2>3, LongerNext
<1>6. ASSUME sections # <<>>, Begin(doc, sections) PROVE NoneBefore(e, sections[1].blocks[1])
  <2>1. 1 \in 1 .. Len(sections)
    <3>1. sections \in Seq(Section)
      BY DEF TypeOK
    <3> QED
      BY <1>6, <3>1, FirstElement
  <2>2. sections[1].blocks[1] \in 1 .. Len(doc)
    BY <2>1, SectionPlaces
  <2>3. NoneBefore(doc, sections[1].blocks[1])
    BY <1>6 DEF Begin
  <2> QED
    BY <2>2, <2>3, LongerBefore
<1> QED
  BY <1>3, <1>4, <1>5, <1>6

\* A block that is walked goes behind the last one.
LEMMA WalkLoss ==
  ASSUME TypeOK, LossInv, NEW n \in Nodes, Walk(n)
  PROVE  LossInv'
<1> DEFINE isBlock == n.kind # "heading" /\ n.text # <<>>
           m == Len(doc)
           k == Len(sections)
<1>1. phase = "walk" /\ phase' = "walk" /\ Chain(doc, sections) /\ Begin(doc, sections) /\ doc' = Append(doc, n)
  BY DEF Walk, LossInv
<1>2. IsLonger(doc', doc, isBlock) /\ sections \in Seq(Section) /\ isBlock \in BOOLEAN
  BY <1>1, LongerDocument DEF TypeOK
<1> HIDE DEF isBlock
<1>3. /\ \A i \in 1 .. k : \A j \in 1 .. Len(sections[i].blocks) : sections[i].blocks[j] \in BlocksOf(doc')
      /\ \A i \in 1 .. k : \A j \in 1 .. Len(sections[i].blocks) - 1 :
              NextTo(doc', sections[i].blocks[j], sections[i].blocks[j + 1])
      /\ \A i \in 1 .. k - 1 : NextTo(doc', Last(sections[i].blocks), sections[i + 1].blocks[1])
      /\ sections # <<>> => NoneBefore(doc', sections[1].blocks[1])
  BY <1>1, <1>2, ChainGrows
<1>4. sections # <<>> => /\ Last(sections) = sections[k] /\ k \in 1 .. k /\ 1 \in 1 .. k
                         /\ Last(sections[k].blocks) \in 1 .. m /\ NoneBehind(doc, Last(sections[k].blocks))
  <2> SUFFICES ASSUME sections # <<>>
               PROVE  /\ Last(sections) = sections[k] /\ k \in 1 .. k /\ 1 \in 1 .. k
                      /\ Last(sections[k].blocks) \in 1 .. m /\ NoneBehind(doc, Last(sections[k].blocks))
    OBVIOUS
  <2>1. Last(sections) = sections[k] /\ k \in 1 .. k /\ 1 \in 1 .. k
    BY <1>2, FirstElement, LastElement
  <2> QED
    BY <1>1, <2>1, SectionPlaces DEF Chain
<1>5. m \in Nat /\ k \in Nat
  BY <1>2, LenProperties DEF IsLonger
<1>6. CASE sections' = sections /\ ~ isBlock
  <2>1. IsLonger(doc', doc, FALSE)
    <3>1. isBlock = FALSE
      BY <1>2, <1>6
    <3> QED
      BY <1>2, <3>1
  <2>2. sections # <<>> => NoneBehind(doc', Last(Last(sections).blocks))
    BY <1>4, <2>1, LongerOther
  <2>3. BlocksOf(doc') = BlocksOf(doc)
    BY <2>1 DEF IsLonger
  <2>4. Chain(doc', sections)
    BY <1>3, <2>2 DEF Chain
  <2>5. Begin(doc', sections)
    BY <1>1, <1>3, <2>3 DEF Begin
  <2> QED
    BY <1>1, <1>6, <2>4, <2>5 DEF LossInv, Cover
<1>7. CASE isBlock /\ Grows(n)
  <2> DEFINE old == sections[k].blocks
             s == sections'[k].blocks
             l == Len(old)
  <2>1. /\ k > 0 /\ Len(sections') = k /\ sections' # <<>>
        /\ (\A i \in 1 .. k - 1 : sections'[i] = sections[i])
        /\ s = Append(old, m + 1)
    BY <1>7 DEF Grows
  <2>2. IsLonger(doc', doc, TRUE)
    BY <1>2, <1>7
  <2>3. k \in 1 .. k /\ 1 \in 1 .. k /\ sections # <<>>
    BY <1>5, <2>1
  <2>4. old \in Seq(1 .. m) /\ old # <<>> /\ l \in Nat /\ Last(old) = old[l] /\ Last(old) \in 1 .. m
        /\ \A j \in 1 .. l : old[j] \in 1 .. m
    BY <2>3, SectionPlaces
  <2>5. NextTo(doc', Last(old), m + 1) /\ NoneBehind(doc', m + 1) /\ m + 1 \in BlocksOf(doc')
    BY <1>4, <2>2, <2>3, <2>4, LongerLast, LongerEnd
  <2>6. /\ (\A j \in 1 .. l : old[j] \in BlocksOf(doc'))
        /\ (\A j \in 1 .. l - 1 : NextTo(doc', old[j], old[j + 1]))
    BY <1>3, <2>3
  <2>7. Len(s) = l + 1 /\ s[l + 1] = m + 1 /\ (\A j \in 1 .. l : s[j] = old[j]) /\ s # <<>> /\ l > 0
    <3> DEFINE V == Nat
    <3>1. old \in Seq(V) /\ m + 1 \in V
      <4> DEFINE D == 1 .. m
      <4>1. D \subseteq V /\ old \in Seq(D)
        BY <1>5, <2>4
      <4> HIDE DEF D, V, old
      <4>2. old \in Seq(V)
        BY <4>1
      <4> QED
        BY <4>2, <1>5 DEF V
    <3> HIDE DEF V, old, m
    <3>2. Len(s) = l + 1 /\ s[l + 1] = m + 1 /\ (\A j \in 1 .. l : s[j] = old[j]) /\ s # <<>>
      BY <2>1, <3>1, AppendedPlaces
    <3>3. l > 0
      BY <2>4
    <3> QED
      BY <3>2, <3>3
  <2>8. Last(s) = m + 1
    BY <2>7 DEF Last
  <2> HIDE DEF s, old, l, k, m
  <2>9. s[1] = old[1] /\ 1 \in 1 .. l
    BY <2>4, <2>7
  <2>10. ASSUME NEW j \in 1 .. Len(s) PROVE s[j] \in BlocksOf(doc')
    <3>1. j \in 1 .. l \/ j = l + 1
      BY <2>4, <2>7
    <3> QED
      BY <2>5, <2>6, <2>7, <3>1
  <2>11. ASSUME NEW j \in 1 .. Len(s) - 1 PROVE NextTo(doc', s[j], s[j + 1])
    <3>1. CASE j = l
      <4>1. l \in 1 .. l
        BY <2>4, <2>7
      <4> QED
        BY <2>4, <2>5, <2>7, <3>1, <4>1
    <3>2. CASE j # l
      <4>1. j \in 1 .. l - 1 /\ j \in 1 .. l /\ j + 1 \in 1 .. l
        BY <2>4, <2>7, <3>2
      <4> QED
        BY <2>6, <2>7, <4>1
    <3> QED
      BY <3>1, <3>2
  <2>12. ASSUME NEW i \in 1 .. k
         PROVE  /\ \A j \in 1 .. Len(sections'[i].blocks) : sections'[i].blocks[j] \in BlocksOf(doc')
                /\ \A j \in 1 .. Len(sections'[i].blocks) - 1 :
                     NextTo(doc', sections'[i].blocks[j], sections'[i].blocks[j + 1])
                /\ sections'[i].blocks[1] = sections[i].blocks[1]
                /\ i # k => Last(sections'[i].blocks) = Last(sections[i].blocks)
    <3>1. CASE i = k
      BY <2>9, <2>10, <2>11, <3>1 DEF s, old
    <3>2. CASE i # k
      <4>1. i \in 1 .. k - 1
        BY <1>5, <3>2
      <4> QED
        BY <1>3, <2>1, <4>1
    <3> QED
      BY <3>1, <3>2
  <2>13. ASSUME NEW i \in 1 .. k - 1
         PROVE  NextTo(doc', Last(sections'[i].blocks), sections'[i + 1].blocks[1])
    <3>1. i \in 1 .. k /\ i # k /\ i + 1 \in 1 .. k
      BY <1>5
    <3> QED
      BY <1>3, <2>12, <3>1
  <2>14. Last(sections') = sections'[k]
    BY <2>1 DEF Last
  <2>15. Chain(doc', sections')
    BY <2>1, <2>5, <2>8, <2>12, <2>13, <2>14 DEF Chain, s
  <2>16. Begin(doc', sections')
    BY <1>3, <2>1, <2>3, <2>12 DEF Begin
  <2> QED
    BY <1>1, <2>15, <2>16 DEF LossInv, Cover
<1>8. CASE isBlock /\ Begins(n)
  <2> DEFINE s == sections'[k + 1].blocks
  <2>1. /\ Len(sections') = k + 1 /\ sections' # <<>>
        /\ (\A i \in 1 .. k : sections'[i] = sections[i])
        /\ s = <<m + 1>>
    BY <1>8 DEF Begins
  <2>2. IsLonger(doc', doc, TRUE)
    BY <1>2, <1>8
  <2>3. NoneBehind(doc', m + 1) /\ m + 1 \in BlocksOf(doc')
        /\ (BlocksOf(doc) = {} => NoneBefore(doc', m + 1))
    BY <2>2, LongerEnd
  <2>4. Len(s) = 1 /\ s[1] = m + 1 /\ Last(s) = m + 1
    <3> HIDE DEF s
    <3>1. Len(s) = 1 /\ s[1] = m + 1
      BY <2>1
    <3> QED
      BY <3>1 DEF Last
  <2>5. sections # <<>> => NextTo(doc', Last(sections[k].blocks), m + 1)
    BY <1>4, <2>2, LongerLast
  <2>6. sections = <<>> => k = 0
    OBVIOUS
  <2> HIDE DEF s, k, m
  <2>7. ASSUME NEW i \in 1 .. k + 1
         PROVE  /\ \A j \in 1 .. Len(sections'[i].blocks) : sections'[i].blocks[j] \in BlocksOf(doc')
                /\ \A j \in 1 .. Len(sections'[i].blocks) - 1 :
                     NextTo(doc', sections'[i].blocks[j], sections'[i].blocks[j + 1])
    <3>1. CASE i = k + 1
      <4>1. (\A j \in 1 .. Len(s) : j = 1) /\ \A j \in 1 .. Len(s) - 1 : FALSE
        BY <2>4
      <4> QED
        BY <2>3, <2>4, <3>1, <4>1 DEF s
    <3>2. CASE i # k + 1
      <4>1. i \in 1 .. k
        BY <1>5, <3>2
      <4> QED
        BY <1>3, <2>1, <4>1
    <3> QED
      BY <3>1, <3>2
  <2>8. ASSUME NEW i \in 1 .. k + 1 - 1
        PROVE  NextTo(doc', Last(sections'[i].blocks), sections'[i + 1].blocks[1])
    <3>1. CASE i = k
      <4>1. sections # <<>> /\ k \in 1 .. k
        BY <1>5, <2>6, <3>1
      <4> QED
        BY <2>1, <2>4, <2>5, <3>1, <4>1 DEF s
    <3>2. CASE i # k
      <4>1. i \in 1 .. k - 1 /\ i \in 1 .. k /\ i + 1 \in 1 .. k
        BY <1>5, <3>2
      <4> QED
        BY <1>3, <2>1, <4>1
    <3> QED
      BY <3>1, <3>2
  <2>9. Last(sections') = sections'[k + 1]
    BY <2>1 DEF Last
  <2>10. Chain(doc', sections')
    <3>1. NoneBehind(doc', Last(Last(sections').blocks))
      BY <2>3, <2>4, <2>9 DEF s
    <3>2. Len(sections') = k + 1 /\ sections' # <<>>
      BY <2>1
    <3>3. ASSUME NEW i \in 1 .. Len(sections'), NEW j \in 1 .. Len(sections'[i].blocks)
          PROVE  sections'[i].blocks[j] \in BlocksOf(doc')
      BY <2>7, <3>2
    <3>4. ASSUME NEW i \in 1 .. Len(sections'), NEW j \in 1 .. Len(sections'[i].blocks) - 1
          PROVE  NextTo(doc', sections'[i].blocks[j], sections'[i].blocks[j + 1])
      BY <2>7, <3>2
    <3>5. ASSUME NEW i \in 1 .. Len(sections') - 1
          PROVE  NextTo(doc', Last(sections'[i].blocks), sections'[i + 1].blocks[1])
      <4>1. i \in 1 .. k + 1 - 1
        <5> DEFINE x == Len(sections')
        <5>1. x = k + 1 /\ i \in 1 .. x - 1
          BY <3>2
        <5> HIDE DEF x
        <5> QED
          BY <1>5, <5>1
      <4> QED
        BY <2>8, <4>1
    <3> QED
      BY <3>1, <3>3, <3>4, <3>5 DEF Chain
  <2>11. Begin(doc', sections')
    <3>1. CASE sections = <<>>
      <4>1. BlocksOf(doc) = {} /\ k = 0 /\ 0 + 1 = 1
        BY <1>1, <2>6, <3>1 DEF Begin
      <4> QED
        BY <2>1, <2>3, <2>4, <4>1 DEF Begin, s
    <3>2. CASE sections # <<>>
      <4>1. sections'[1] = sections[1]
        BY <1>4, <2>1, <3>2
      <4> QED
        BY <1>3, <2>1, <3>2, <4>1 DEF Begin
    <3> QED
      BY <3>1, <3>2
  <2> QED
    BY <1>1, <2>10, <2>11 DEF LossInv, Cover
<1>9. \/ sections' = sections /\ ~ isBlock
      \/ Grows(n) \/ Begins(n)
  BY WalkPlaces DEF isBlock
<1>10. Grows(n) \/ Begins(n) => isBlock
  BY DEF Grows, Begins, isBlock
<1> QED
  BY <1>6, <1>7, <1>8, <1>9, <1>10

\* Before the walk nothing has been kept.
LEMMA InitLoss == Init => LossInv
<1> SUFFICES ASSUME Init PROVE LossInv
  OBVIOUS
<1> DEFINE none == <<>>
<1>1. doc = none /\ sections = none /\ phase = "walk"
  BY DEF Init
<1>2. Len(none) = 0 /\ none = <<>>
  OBVIOUS
<1> HIDE DEF none
<1>3. (\A i \in 1 .. Len(none) : FALSE) /\ \A i \in 1 .. Len(none) - 1 : FALSE
  BY <1>2
<1>4. BlocksOf(none) = {}
  BY <1>3 DEF BlocksOf
<1>5. Chain(none, none)
  BY <1>2, <1>3 DEF Chain
<1> QED
  BY <1>1, <1>2, <1>4, <1>5 DEF LossInv, Begin, Cover

\* The invariant of what has been kept is inductive.
LEMMA LossStep == TypeInv /\ LossInv /\ [Next]_vars => LossInv'
<1> SUFFICES ASSUME TypeInv, LossInv, [Next]_vars PROVE LossInv'
  OBVIOUS
<1>1. TypeOK
  BY DEF TypeInv
<1>2. ASSUME NEW n \in Nodes, Walk(n) PROVE LossInv'
  BY <1>1, <1>2, WalkLoss
<1>3. CASE EndOfDocument
  BY <1>3 DEF EndOfDocument, LossInv, Cover
<1>4. CASE Merge
  BY <1>1, <1>4, MergeLoss
<1>5. CASE AllMerged
  BY <1>5, AllMergedLoss
<1>6. CASE TakeBlock
  BY <1>1, <1>6, TakeBlockLoss
<1>7. CASE TakeOversized
  BY <1>1, <1>7, TakeOversizedLoss
<1>8. CASE BeginWindows
  BY <1>1, <1>8, BeginWindowsLoss
<1>9. CASE Window
  BY <1>1, <1>9, WindowLoss
<1>10. CASE EndSection
  BY <1>1, <1>10, EndSectionLoss
<1>11. CASE UNCHANGED vars
  BY <1>11 DEF vars, LossInv, Cover, AtBlock, Splitting, NextBlock, Done
<1> QED
  BY <1>2, <1>3, <1>4, <1>5, <1>6, <1>7, <1>8, <1>9, <1>10, <1>11 DEF Next, Terminated

\* A number of a set than which none is smaller, or none greater.
LEMMA Extremes ==
  ASSUME NEW S, S \subseteq Nat, NEW m \in S
  PROVE  /\ (\A k \in S : m <= k) => Min(S) = m
         /\ (\A k \in S : k <= m) => Max(S) = m
<1>1. ASSUME \A k \in S : m <= k PROVE Min(S) = m
  <2>1. Min(S) \in S /\ Min(S) <= m
    BY MinIsLeast
  <2>2. m <= Min(S) /\ m \in Nat /\ Min(S) \in Nat
    BY <1>1, <2>1
  <2> HIDE <1>1
  <2> QED
    BY <2>1, <2>2
<1>2. ASSUME \A k \in S : k <= m PROVE Max(S) = m
  <2>1. \A x \in S : (\A k \in S : x >= k) => x = m
    BY <1>2
  <2>2. \A k \in S : m >= k
    BY <1>2
  <2> QED
    BY <2>1, <2>2 DEF Max
<1> QED
  BY <1>1, <1>2

\* At the end it says that nothing is lost.
LEMMA NothingIsLost == TypeInv /\ LossInv => NothingLost
<1> SUFFICES ASSUME TypeInv, LossInv, Done, BlocksOf(doc) # {} PROVE NothingLost
  BY DEF NothingLost
<1> DEFINE B == BlocksOf(doc)
<1>1. /\ phase = "split" /\ Emission(doc, chunks, group) /\ group = <<>> /\ chunks # <<>>
      /\ \E b \in B : Reached(doc, chunks, <<>>, b) /\ NoneBehind(doc, b)
  BY DEF LossInv, Cover, Done
<1>2. PICK b \in B : Reached(doc, chunks, <<>>, b) /\ NoneBehind(doc, b)
  BY <1>1
<1>3. doc \in Seq(Nodes) /\ chunks \in Seq(Chunk) /\ Len(doc) \in Nat
  BY LenProperties DEF TypeInv, TypeOK
<1>4. B \subseteq 1 .. Len(doc) /\ B \subseteq Nat
  BY <1>3 DEF BlocksOf
<1>5. \A p, q : Comes(doc, p, q) => Follows(p, q)
  BY DEF Comes, Follows, NextTo, Ends, EndsBlock, Sentences
<1>6. \A i \in 1 .. Len(chunks) :
        /\ chunks[i].pieces # <<>>
        /\ \A k \in 1 .. Len(chunks[i].pieces) - 1 :
             Follows(chunks[i].pieces[k], chunks[i].pieces[k + 1])
  BY <1>1, <1>5 DEF Emission, Linked
<1>7. \A i \in 1 .. Len(chunks) - 1 : Follows(Last(chunks[i].pieces), chunks[i + 1].pieces[1])
  BY <1>1, <1>5 DEF Emission
<1> DEFINE p == chunks[1].pieces[1]
           z == Last(Last(chunks).pieces)
           m == Len(doc)
<1>8. p.first \in {Whole, 1} /\ p.block \in B /\ B \cap (1 .. p.block - 1) = {}
  BY <1>1 DEF Emission, Leads, NoneBefore
<1>9. z.block = b /\ EndsBlock(z)
  BY <1>2 DEF Reached, Ends, EndsBlock, Sentences
<1>10. B \cap (b + 1 .. m) = {} /\ B \subseteq 1 .. m /\ m \in Nat
  BY <1>2, <1>3, <1>4 DEF NoneBehind
<1> HIDE DEF B, m
<1>11. \A k \in B : k <= b
  <2>1. ASSUME NEW k \in B PROVE k <= b
    <3>1. k \in 1 .. m /\ b \in 1 .. m /\ k \notin b + 1 .. m
      BY <1>10
    <3> QED
      BY <3>1, <1>10
  <2> QED
    BY <2>1
<1>12. p.block = Min(B)
  <2> DEFINE a == p.block
  <2>1. a \in B /\ B \cap (1 .. a - 1) = {} /\ a \in 1 .. m
    BY <1>8, <1>10
  <2> HIDE DEF a, p
  <2>2. ASSUME NEW k \in B PROVE a <= k
    <3>1. k \in 1 .. m /\ k \notin 1 .. a - 1
      BY <1>10, <2>1
    <3> QED
      BY <1>10, <2>1, <3>1
  <2>3. Min(B) = a
    BY <1>4, <2>1, <2>2, Extremes
  <2> QED
    BY <2>3 DEF a
<1>13. z.block = Max(B)
  BY <1>4, <1>9, <1>11, Extremes
<1> QED
  BY <1>1, <1>6, <1>7, <1>8, <1>9, <1>12, <1>13 DEF NothingLost, B

\* Merging sections, grouping blocks and cutting blocks into windows that
\* overlap lose nothing, repeat no block and change no order: for every
\* document, limit and overlap, when splitting ends the chunks are the blocks of
\* the document one after the other, each whole or as windows without a gap.
THEOREM NoLoss == Spec => []NothingLost
<1>1. Init => LossInv
  BY InitLoss
<1>2. TypeInv /\ LossInv /\ [Next]_vars => LossInv'
  BY LossStep
<1>3. TypeInv /\ LossInv => NothingLost
  BY NothingIsLost
<1> QED
  BY <1>1, <1>2, <1>3, TypeInvHolds, PTL DEF Spec
-----------------------------------------------------------------------------
(* The headings a block is under *)

IsTitle(d, i) == d[i].kind = "heading" /\ d[i].text # <<>>

\* The headings of d[1 .. b - 1] that none behind them has ended.
InScope(d, b) ==
  {i \in 1 .. b - 1 : /\ IsTitle(d, i)
                      /\ \A k \in i + 1 .. b - 1 : IsTitle(d, k) => d[k].level > d[i].level}

ScopeOf(d, b) == Ascending(b - 1, InScope(d, b))

TitleOf(d, h) == IF h = 0 THEN <<>> ELSE d[h].text

\* Whether the path of headings is, title by title, the upper part of a scope.
IsUpper(d, headings, b) ==
  LET path == HeadingPath(headings)
      scope == ScopeOf(d, b)
  IN  /\ Len(path) <= Len(scope)
      /\ \A k \in 1 .. Len(path) : TitleOf(d, path[k]) = TitleOf(d, scope[k])

\* The heading stack is the scope of the next block, each heading at its level.
Placed(d, st) ==
  /\ \A i \in 1 .. Len(st) : st[i] # 0 => st[i] \in InScope(d, Len(d) + 1) /\ d[st[i]].level = i
  /\ \A x \in InScope(d, Len(d) + 1) : d[x].level \in 1 .. Len(st) /\ st[d[x].level] = x

\* Only a placeholder has an empty title.
Named(d, headings) ==
  \A i \in 1 .. Len(headings) : headings[i] # 0 => d[headings[i]].text # <<>>

\* Every block of a section is under its headings.
Under(d, s) ==
  /\ Named(d, s.headings)
  /\ \A k \in 1 .. Len(s.blocks) : IsUpper(d, s.headings, s.blocks[k])
\* There is one ascending sequence of the members of a set.
LEMMA AscendingAgree ==
  ASSUME NEW n \in Nat, NEW S, NEW s, IsAscending(s, n, S), NEW t, IsAscending(t, n, S)
  PROVE  Len(s) <= Len(t) /\ \A i \in 1 .. Len(s) : s[i] = t[i]
<1> DEFINE Agree == {k \in Nat : k <= Len(s) => k <= Len(t) /\ (k > 0 => s[k] = t[k])}
<1>1. /\ s \in Seq(S \cap 1 .. n) /\ t \in Seq(S \cap 1 .. n)
      /\ Len(s) \in Nat /\ Len(t) \in Nat
  BY DEF IsAscending
<1>2. /\ \A i, j \in 1 .. Len(s) : i < j => s[i] < s[j]
      /\ \A i, j \in 1 .. Len(t) : i < j => t[i] < t[j]
      /\ \A x \in S \cap 1 .. n : \E k \in 1 .. Len(s) : s[k] = x
      /\ \A x \in S \cap 1 .. n : \E k \in 1 .. Len(t) : t[k] = x
  BY DEF IsAscending
<1> DEFINE X == S \cap 1 .. n
<1>a. \A x \in X : x \in Nat
  OBVIOUS
<1>b. s \in Seq(X) /\ t \in Seq(X)
  BY <1>1
<1>c. /\ \A x \in X : \E k \in 1 .. Len(s) : s[k] = x
      /\ \A x \in X : \E k \in 1 .. Len(t) : t[k] = x
  BY <1>2
<1> HIDE DEF X
<1>3. /\ \A i \in 1 .. Len(s) : s[i] \in X /\ s[i] \in Nat
      /\ \A i \in 1 .. Len(t) : t[i] \in X /\ t[i] \in Nat
  <2>1. ASSUME NEW i \in 1 .. Len(s) PROVE s[i] \in X /\ s[i] \in Nat
    BY <1>a, <1>b, Element
  <2>2. ASSUME NEW i \in 1 .. Len(t) PROVE t[i] \in X /\ t[i] \in Nat
    BY <1>a, <1>b, Element
  <2> QED
    BY <2>1, <2>2
<1>4. \A k \in Nat : k \in Agree
  <2>1. SUFFICES ASSUME \E k \in Nat : k \notin Agree
                 PROVE  FALSE
    OBVIOUS
  <2>2. PICK k \in Nat \ Agree : \A i \in Nat \ Agree : k <= i
    <3>1. Nat \ Agree \subseteq Nat /\ Nat \ Agree # {}
      BY <2>1
    <3> QED
      BY <3>1, LeastNatural
  <2>3. k > 0 /\ k <= Len(s) /\ k \in 1 .. Len(s)
    BY <2>2, <1>1
  <2>4. \A i \in 1 .. k - 1 : i <= Len(t) /\ s[i] = t[i]
    <3>1. ASSUME NEW i \in 1 .. k - 1 PROVE i <= Len(t) /\ s[i] = t[i]
      <4>1. i \in Nat /\ i > 0 /\ i < k
        BY <2>2, <3>1
      <4>2. i \in Agree
        BY <4>1, <2>2
      <4> QED
        BY <4>1, <4>2, <2>3, <1>1
    <3> QED
      BY <3>1
  <2>5. PICK j \in 1 .. Len(t) : t[j] = s[k]
    BY <2>3, <1>3, <1>c
  <2>6. j >= k
    <3>1. SUFFICES ASSUME j < k PROVE FALSE
      BY <2>5, <1>1, <2>2
    <3>2. j \in 1 .. k - 1 /\ j \in 1 .. Len(s)
      BY <3>1, <2>5, <2>3, <1>1
    <3>3. s[j] < s[k] /\ s[j] = t[j]
      BY <3>2, <3>1, <2>3, <2>4, <1>2
    <3> QED
      BY <3>3, <2>5, <2>3, <1>3
  <2>7. k <= Len(t) /\ k \in 1 .. Len(t)
    BY <2>6, <2>5, <2>3, <1>1
  <2>8. PICK m \in 1 .. Len(s) : s[m] = t[k]
    BY <2>7, <1>3, <1>c
  <2>9. m >= k
    <3>1. SUFFICES ASSUME m < k PROVE FALSE
      BY <2>8, <1>1, <2>2
    <3>2. m \in 1 .. k - 1 /\ m \in 1 .. Len(t)
      BY <3>1, <2>8, <2>7, <1>1
    <3>3. t[m] < t[k] /\ s[m] = t[m]
      BY <3>2, <3>1, <2>7, <2>4, <1>2
    <3> QED
      BY <3>2, <3>3, <2>8, <2>7, <1>3
  <2>10. s[k] <= s[m]
    <3>1. CASE m = k
      BY <3>1, <2>3, <1>3
    <3>2. CASE m > k
      BY <3>2, <2>3, <2>8, <1>2, <1>3
    <3> QED
      BY <3>1, <3>2, <2>9, <2>8, <2>3, <1>1
  <2>11. t[k] <= t[j]
    <3>1. CASE j = k
      BY <3>1, <2>7, <1>3
    <3>2. CASE j > k
      BY <3>2, <2>7, <2>5, <1>2, <1>3
    <3> QED
      BY <3>1, <3>2, <2>6, <2>5, <2>7, <1>1
  <2>12. s[k] = t[k]
    <3>1. s[k] \in Nat /\ t[k] \in Nat /\ s[k] <= t[k] /\ t[k] <= s[k]
      BY <2>10, <2>11, <2>8, <2>5, <2>3, <2>7, <1>3
    <3>2. \A x, y \in Nat : x <= y /\ y <= x => x = y
      OBVIOUS
    <3> QED
      BY <3>1, <3>2
  <2> QED
    BY <2>12, <2>7, <2>2
<1>5. Len(s) <= Len(t)
  BY <1>4, <1>1
<1>6. ASSUME NEW i \in 1 .. Len(s) PROVE s[i] = t[i]
  BY <1>4, <1>1, <1>6
<1> QED
  BY <1>5, <1>6

\* A set has one ascending list: whatever ascends through it is Ascending.
LEMMA AscendingUnique ==
  ASSUME NEW n \in Nat, NEW S, NEW s, IsAscending(s, n, S)
  PROVE  s = Ascending(n, S)
<1> DEFINE t == Ascending(n, S)
<1>1. IsAscending(t, n, S)
  BY AscendingIsAscending
<1>2. s \in Seq(S \cap 1 .. n) /\ t \in Seq(S \cap 1 .. n)
  BY <1>1 DEF IsAscending
<1> HIDE DEF t
<1>3. Len(s) <= Len(t) /\ \A i \in 1 .. Len(s) : s[i] = t[i]
  BY <1>1, AscendingAgree
<1>4. Len(t) <= Len(s)
  BY <1>1, AscendingAgree
<1>5. Len(s) = Len(t)
  BY <1>2, <1>3, <1>4
<1>6. s = t
  BY <1>2, <1>3, <1>5, SeqEqual
<1> QED
  BY <1>6 DEF t

\* The places in headings that are not placeholders.
Kept(headings) == Ascending(Len(headings), {i \in 1 .. Len(headings) : headings[i] # 0})

IsPath(headings) ==
  LET kept == Kept(headings)  path == HeadingPath(headings) IN
  /\ Len(headings) \in Nat /\ Len(kept) \in Nat /\ Len(path) = Len(kept)
  /\ path = [k \in 1 .. Len(kept) |-> headings[kept[k]]]
  /\ \A k \in 1 .. Len(kept) :
       /\ path[k] = headings[kept[k]] /\ kept[k] \in 1 .. Len(headings) /\ path[k] # 0
  /\ \A i, j \in 1 .. Len(kept) : i < j => kept[i] < kept[j]
  /\ \A i \in 1 .. Len(headings) : headings[i] # 0 => \E k \in 1 .. Len(kept) : kept[k] = i

\* The path of a stack is its ascending list of headings without placeholders.
LEMMA PathPlaces ==
  ASSUME NEW V, NEW headings \in Seq(V)
  PROVE  IsPath(headings)
<1> DEFINE S == {i \in 1 .. Len(headings) : headings[i] # 0}
           kept == Ascending(Len(headings), S)
<1>1. Len(headings) \in Nat
  OBVIOUS
<1>2. IsAscending(kept, Len(headings), S) /\ Len(kept) \in Nat
  BY <1>1, AscendingIsAscending, AscendingPlaces
<1>3. \A k \in 1 .. Len(kept) : kept[k] \in S
  BY <1>1, AscendingPlaces
<1>4. HeadingPath(headings) = [k \in 1 .. Len(kept) |-> headings[kept[k]]]
  BY DEF HeadingPath
<1>5. Kept(headings) = kept
  BY DEF Kept
<1>6. /\ \A i, j \in 1 .. Len(kept) : i < j => kept[i] < kept[j]
      /\ \A x \in S \cap 1 .. Len(headings) : \E k \in 1 .. Len(kept) : kept[k] = x
  BY <1>2 DEF IsAscending
<1>7. \A i \in 1 .. Len(headings) : headings[i] # 0 => i \in S \cap 1 .. Len(headings)
  OBVIOUS
<1>8. \A i \in S : i \in 1 .. Len(headings) /\ headings[i] # 0
  OBVIOUS
<1> HIDE DEF kept, S
<1> QED
  BY <1>1, <1>2, <1>3, <1>4, <1>5, <1>6, <1>7, <1>8 DEF IsPath

\* The ascending sequence of a set up to n, from the one up to n - 1.
LEMMA AscendingLast ==
  ASSUME NEW n \in Nat, n > 0, NEW S, NEW R, \A i \in 1 .. n - 1 : i \in R <=> i \in S
  PROVE  Ascending(n, S) =
           IF n \in S THEN Append(Ascending(n - 1, R), n) ELSE Ascending(n - 1, R)
<1> DEFINE m == n - 1
<1>1. m \in Nat /\ n = m + 1 /\ 0 \in 0 .. m /\ m \in 0 .. m /\ n \in 1 .. n
  OBVIOUS
<1>2. PICK f : /\ f[0] = <<>> /\ Ascending(n, S) = f[n]
               /\ \A i \in 1 .. n : f[i] = IF i \in S THEN Append(f[i - 1], i) ELSE f[i - 1]
  BY AscendingSteps
<1>3. PICK g : /\ g[0] = <<>> /\ Ascending(m, R) = g[m]
               /\ \A i \in 1 .. m : g[i] = IF i \in R THEN Append(g[i - 1], i) ELSE g[i - 1]
  BY <1>1, AscendingSteps
<1> DEFINE Same == {i \in 0 .. m : f[i] = g[i]}
<1>4. \A i \in 0 .. m : i \in Same
  <2>1. 0 \in Same
    BY <1>1, <1>2, <1>3
  <2>2. ASSUME NEW i \in 1 .. m, i - 1 \in Same PROVE i \in Same
    <3>1. i \in 1 .. n /\ i \in 0 .. m /\ (i \in R <=> i \in S)
      BY <1>1
    <3> QED
      BY <3>1, <2>2, <1>2, <1>3
  <2> HIDE DEF Same, m
  <2> QED
    BY <2>1, <2>2, <1>1, Induction
<1>5. f[m] = g[m]
  BY <1>4, <1>1
<1>6. f[n] = IF n \in S THEN Append(f[m], n) ELSE f[m]
  BY <1>2, <1>1
<1> QED
  BY <1>5, <1>6, <1>2, <1>3

\* Two paths of headings agree as far as the first one reaches.
Beginning(p, q) == Len(p) <= Len(q) /\ \A k \in 1 .. Len(p) : p[k] = q[k]

\* The path of the parent is the beginning of the path.
LEMMA ParentPathBegins ==
  ASSUME NEW V, NEW headings \in Seq(V)
  PROVE  Beginning(HeadingPath(ParentPath(headings)), HeadingPath(headings))
<1> DEFINE n == Len(headings)
           g == ParentPath(headings)
           t == Kept(g)
<1>1. n \in Nat /\ g \in Seq(V) /\ Len(g) \in Nat
  BY ParentPathType
<1>2. IsPath(headings) /\ IsPath(g)
  BY <1>1, PathPlaces
<1>3. /\ Len(t) \in Nat /\ Len(HeadingPath(g)) = Len(t)
      /\ \A k \in 1 .. Len(t) : HeadingPath(g)[k] = g[t[k]] /\ t[k] \in 1 .. Len(g)
  BY <1>2 DEF IsPath
<1>4. /\ Len(HeadingPath(headings)) = Len(Kept(headings)) /\ Len(Kept(headings)) \in Nat
      /\ \A k \in 1 .. Len(Kept(headings)) :
           HeadingPath(headings)[k] = headings[Kept(headings)[k]]
  BY <1>2 DEF IsPath
<1> HIDE DEF t
<1>5. CASE n <= 1
  <2>1. Len(g) = 0
    BY <1>5 DEF ParentPath
  <2>2. Len(t) = 0
    <3>1. SUFFICES ASSUME Len(t) > 0 PROVE FALSE
      BY <1>3
    <3>2. 1 \in 1 .. Len(t)
      BY <3>1, <1>3
    <3>3. t[1] \in 1 .. 0
      BY <3>2, <2>1, <1>3
    <3> QED
      BY <3>3
  <2> QED
    BY <2>2, <1>3, <1>4 DEF Beginning
<1>6. CASE n > 1
  <2>1. Len(g) = n - 1 /\ \A i \in 1 .. n - 1 : g[i] = headings[i]
    <3>1. /\ g = SubSeq(headings, 1, n - 1) /\ n - 1 \in Nat /\ n - 1 <= n
          /\ 1 <= n - 1 + 1
      BY <1>6, <1>1 DEF ParentPath, Front
    <3>2. IsPart(g, V, headings, 1, n - 1)
      BY <3>1, <1>1, PartPlaces
    <3> QED
      BY <3>2, <3>1, <1>1 DEF IsPart
  <2> DEFINE S == {i \in 1 .. n : headings[i] # 0}
             R == {i \in 1 .. Len(g) : g[i] # 0}
  <2>2. \A i \in 1 .. n - 1 : i \in R <=> i \in S
    BY <2>1, <1>1
  <2>3. Kept(headings) = Ascending(n, S) /\ t = Ascending(n - 1, R)
    BY <2>1 DEF Kept, t
  <2> HIDE DEF S, R
  <2>4. Kept(headings) = IF n \in S THEN Append(t, n) ELSE t
    BY <2>2, <2>3, <1>1, <1>6, AscendingLast
  <2>5. t \in Seq(Nat)
    BY <2>3, <1>1, <1>6, AscendingPlaces
  <2>6. /\ Len(Append(t, n)) = Len(t) + 1
        /\ \A k \in 1 .. Len(t) : Append(t, n)[k] = t[k]
    BY <2>5, <1>1, AppendedPlaces
  <2>7. /\ Len(t) <= Len(Kept(headings))
        /\ \A k \in 1 .. Len(t) : Kept(headings)[k] = t[k]
    BY <2>4, <2>6, <1>3
  <2>8. ASSUME NEW k \in 1 .. Len(t) PROVE HeadingPath(g)[k] = HeadingPath(headings)[k]
    <3>1. k \in 1 .. Len(Kept(headings))
      BY <2>7, <1>3, <1>4
    <3>2. HeadingPath(g)[k] = g[t[k]] /\ HeadingPath(headings)[k] = headings[t[k]]
          /\ t[k] \in 1 .. n - 1
      BY <3>1, <2>7, <1>3, <1>4, <2>1
    <3> QED
      BY <3>2, <2>1
  <2> QED
    BY <2>7, <2>8, <1>3, <1>4 DEF Beginning
<1> QED
  BY <1>1, <1>5, <1>6

SameTitles(d, g, h) ==
  Len(g) = Len(h) /\ \A i \in 1 .. Len(g) : TitleOf(d, g[i]) = TitleOf(d, h[i])

\* Headings with the same titles have placeholders at the same places.
LEMMA SameTitlesPath ==
  ASSUME NEW d, NEW V, NEW g \in Seq(V), NEW h \in Seq(V), SameTitles(d, g, h), Named(d, g), Named(d, h)
  PROVE  SameTitles(d, HeadingPath(g), HeadingPath(h))
<1> DEFINE S == {i \in 1 .. Len(g) : g[i] # 0}
           R == {i \in 1 .. Len(h) : h[i] # 0}
<1>1. Len(g) = Len(h) /\ \A i \in 1 .. Len(g) : TitleOf(d, g[i]) = TitleOf(d, h[i])
  BY DEF SameTitles
<1>2. \A i \in 1 .. Len(g) : g[i] # 0 <=> TitleOf(d, g[i]) # <<>>
  BY DEF Named, TitleOf
<1>3. \A i \in 1 .. Len(h) : h[i] # 0 <=> TitleOf(d, h[i]) # <<>>
  BY DEF Named, TitleOf
<1>4. S = R
  BY <1>1, <1>2, <1>3
<1>5. Kept(g) = Ascending(Len(g), S) /\ Kept(h) = Ascending(Len(h), R)
  BY DEF Kept
<1>6. Kept(g) = Kept(h)
  BY <1>4, <1>5, <1>1
<1> HIDE DEF S, R
<1>7. IsPath(g) /\ IsPath(h)
  BY PathPlaces
<1>8. Len(HeadingPath(g)) = Len(HeadingPath(h)) /\ Len(HeadingPath(g)) = Len(Kept(g))
  BY <1>6, <1>7 DEF IsPath
<1>9. ASSUME NEW k \in 1 .. Len(HeadingPath(g))
      PROVE  TitleOf(d, HeadingPath(g)[k]) = TitleOf(d, HeadingPath(h)[k])
  <2>1. /\ HeadingPath(g)[k] = g[Kept(g)[k]] /\ HeadingPath(h)[k] = h[Kept(g)[k]]
        /\ Kept(g)[k] \in 1 .. Len(g)
    BY <1>6, <1>7, <1>8, <1>9 DEF IsPath
  <2> QED
    BY <2>1, <1>1
<1> QED
  BY <1>8, <1>9 DEF SameTitles

\* A path is a sequence of nodes.
LEMMA PathLength ==
  ASSUME NEW V, NEW headings \in Seq(V)
  PROVE  HeadingPath(headings) \in Seq(V) /\ Len(HeadingPath(headings)) \in Nat
<1>1. IsPath(headings)
  BY PathPlaces
<1>2. /\ Len(Kept(headings)) \in Nat
      /\ HeadingPath(headings) = [k \in 1 .. Len(Kept(headings)) |-> headings[Kept(headings)[k]]]
      /\ \A k \in 1 .. Len(Kept(headings)) : Kept(headings)[k] \in 1 .. Len(headings)
  BY <1>1 DEF IsPath
<1>3. \A k \in 1 .. Len(Kept(headings)) : headings[Kept(headings)[k]] \in V
  BY <1>2, Element
<1> QED
  BY <1>2, <1>3

\* What is under headings is under the headings above them, and under headings
\* with the same titles.
LEMMA ParentUpper ==
  ASSUME NEW d, NEW V, NEW headings \in Seq(V), NEW b \in Nat, b > 0, IsUpper(d, headings, b)
  PROVE  IsUpper(d, ParentPath(headings), b)
<1> DEFINE p == HeadingPath(ParentPath(headings))
           q == HeadingPath(headings)
           s == ScopeOf(d, b)
<1>1. ParentPath(headings) \in Seq(V)
  BY ParentPathType
<1>2. Len(p) \in Nat /\ Len(q) \in Nat
  BY <1>1, PathLength
<1>3. Len(p) <= Len(q) /\ \A k \in 1 .. Len(p) : p[k] = q[k]
  BY ParentPathBegins DEF Beginning
<1>4. Len(q) <= Len(s) /\ \A k \in 1 .. Len(q) : TitleOf(d, q[k]) = TitleOf(d, s[k])
  BY DEF IsUpper
<1>5. Len(s) \in Nat
  <2>1. b - 1 \in Nat
    OBVIOUS
  <2> QED
    BY <2>1, AscendingPlaces DEF ScopeOf
<1> HIDE DEF p, q, s
<1>6. Len(p) <= Len(s)
  BY <1>2, <1>3, <1>4, <1>5
<1>7. ASSUME NEW k \in 1 .. Len(p) PROVE TitleOf(d, p[k]) = TitleOf(d, s[k])
  <2>1. k \in 1 .. Len(q)
    BY <1>2, <1>3
  <2> QED
    BY <2>1, <1>3, <1>4
<1> QED
  BY <1>6, <1>7 DEF IsUpper, p, s

\* What holds of a path holds of any path with the same titles.
LEMMA SameTitlesUpper ==
  ASSUME NEW d, NEW g, NEW h, NEW b, SameTitles(d, HeadingPath(g), HeadingPath(h)), IsUpper(d, h, b)
  PROVE  IsUpper(d, g, b)
BY DEF SameTitles, IsUpper

\* The heading stack is the scope of the next block.
LEMMA StackIsScope ==
  ASSUME NEW d \in Seq(Nodes), NEW st \in Seq(0 .. Len(d)), Placed(d, st)
  PROVE  HeadingPath(st) = ScopeOf(d, Len(d) + 1)
<1> DEFINE n == Len(d)
           S == InScope(d, n + 1)
           p == HeadingPath(st)
           kept == Kept(st)
<1>1. n \in Nat /\ n + 1 - 1 = n
  OBVIOUS
<1>2. IsPath(st) /\ p \in Seq(0 .. n) /\ Len(p) \in Nat
  BY PathPlaces, PathLength
<1>3. /\ \A i \in 1 .. Len(st) : st[i] # 0 => st[i] \in S /\ d[st[i]].level = i
      /\ \A x \in S : d[x].level \in 1 .. Len(st) /\ st[d[x].level] = x
  BY DEF Placed
<1>4. /\ Len(p) = Len(kept) /\ Len(st) \in Nat
      /\ p = [k \in 1 .. Len(kept) |-> st[kept[k]]]
      /\ \A k \in 1 .. Len(p) : p[k] = st[kept[k]] /\ kept[k] \in 1 .. Len(st) /\ p[k] # 0
      /\ \A i, j \in 1 .. Len(p) : i < j => kept[i] < kept[j]
      /\ \A i \in 1 .. Len(st) : st[i] # 0 => \E k \in 1 .. Len(p) : kept[k] = i
  BY <1>2 DEF IsPath
<1>5. \A x \in S : x \in 1 .. n /\ x # 0 /\ IsTitle(d, x)
                   /\ \A k \in x + 1 .. n : IsTitle(d, k) => d[k].level > d[x].level
  BY <1>1 DEF InScope
<1> HIDE DEF S, p, kept
<1>6. \A k \in 1 .. Len(p) : p[k] \in S /\ d[p[k]].level = kept[k]
  BY <1>3, <1>4
<1> DEFINE X == S \cap 1 .. n
<1>7. (\A x \in S : x \in X) /\ (\A x \in X : x \in S)
  BY <1>5
<1> HIDE DEF X
<1>8. p \in Seq(X)
  <2>1. \A k \in 1 .. Len(kept) : st[kept[k]] \in X
    BY <1>4, <1>6, <1>7
  <2> QED
    BY <2>1, <1>2, <1>4
<1>9. ASSUME NEW i \in 1 .. Len(p), NEW j \in 1 .. Len(p), i < j PROVE p[i] < p[j]
  <2>1. kept[i] < kept[j] /\ kept[i] \in Nat /\ kept[j] \in Nat
    BY <1>4, <1>9
  <2>2. p[i] \in 1 .. n /\ p[j] \in 1 .. n /\ IsTitle(d, p[i])
    BY <1>5, <1>6
  <2>3. \A k \in p[j] + 1 .. n : IsTitle(d, k) => d[k].level > d[p[j]].level
    BY <1>5, <1>6
  <2>4. p[i] \notin p[j] + 1 .. n
    <3>1. SUFFICES ASSUME p[i] \in p[j] + 1 .. n PROVE FALSE
      OBVIOUS
    <3>2. d[p[i]].level > d[p[j]].level
      BY <3>1, <2>2, <2>3
    <3>3. kept[i] > kept[j]
      BY <3>2, <1>6
    <3> QED
      BY <3>3, <2>1
  <2>5. p[i] # p[j]
    <3>1. SUFFICES ASSUME p[i] = p[j] PROVE FALSE
      OBVIOUS
    <3>2. kept[i] = kept[j]
      BY <3>1, <1>6
    <3>3. \A x, y \in Nat : x < y => x # y
      OBVIOUS
    <3> QED
      BY <3>2, <3>3, <2>1
  <2>6. \A x, y \in 1 .. n : x # y /\ x \notin y + 1 .. n => x < y
    BY <1>1
  <2> QED
    BY <2>2, <2>4, <2>5, <2>6
<1>10. ASSUME NEW x \in X PROVE \E k \in 1 .. Len(p) : p[k] = x
  <2>1. d[x].level \in 1 .. Len(st) /\ st[d[x].level] = x /\ x # 0
    BY <1>3, <1>5, <1>7
  <2>2. PICK k \in 1 .. Len(p) : kept[k] = d[x].level
    BY <2>1, <1>4
  <2> QED
    BY <2>1, <2>2, <1>4
<1>11. IsAscending(p, n, S)
  BY <1>8, <1>9, <1>10 DEF IsAscending, X
<1>12. p = Ascending(n, S)
  BY <1>11, <1>1, AscendingUnique
<1> QED
  BY <1>12, <1>1 DEF ScopeOf, S, p

\* The document e is d and one more node.
IsExtended(e, d, n) ==
  /\ Len(d) \in Nat /\ Len(e) = Len(d) + 1 /\ e[Len(d) + 1] = n
  /\ \A i \in 1 .. Len(d) : e[i] = d[i]

\* The nodes behind a block do not change what it is under.
LEMMA ScopeStays ==
  ASSUME NEW d, NEW e, NEW n, IsExtended(e, d, n), NEW b \in 1 .. Len(d) + 1
  PROVE  InScope(e, b) = InScope(d, b) /\ ScopeOf(e, b) = ScopeOf(d, b)
         /\ Len(ScopeOf(d, b)) \in Nat
         /\ \A k \in 1 .. Len(ScopeOf(d, b)) : ScopeOf(d, b)[k] \in 1 .. Len(d)
<1>1. /\ Len(d) \in Nat /\ b \in Nat /\ b - 1 \in Nat
      /\ \A i \in 1 .. b - 1 : i \in 1 .. Len(d) /\ e[i] = d[i]
  BY DEF IsExtended
<1>2. \A i \in 1 .. b - 1 : IsTitle(e, i) <=> IsTitle(d, i)
  BY <1>1 DEF IsTitle
<1>3. ASSUME NEW i \in 1 .. b - 1
      PROVE  (\A k \in i + 1 .. b - 1 : IsTitle(e, k) => e[k].level > e[i].level)
             <=> (\A k \in i + 1 .. b - 1 : IsTitle(d, k) => d[k].level > d[i].level)
  <2>1. \A k \in i + 1 .. b - 1 : k \in 1 .. b - 1
    BY <1>1
  <2> QED
    BY <2>1, <1>1, <1>2
<1>4. InScope(e, b) = InScope(d, b)
  BY <1>2, <1>3 DEF InScope
<1>5. ScopeOf(e, b) = ScopeOf(d, b)
  BY <1>4 DEF ScopeOf
<1>6. Len(ScopeOf(d, b)) \in Nat /\ \A k \in 1 .. Len(ScopeOf(d, b)) : ScopeOf(d, b)[k] \in 1 .. b - 1
  BY <1>1, AscendingPlaces DEF ScopeOf
<1> QED
  BY <1>1, <1>4, <1>5, <1>6

\* A node that is no heading changes nothing about the next block's scope, and
\* a heading ends those of its level and below.
LEMMA NextScope ==
  ASSUME NEW d, NEW e, NEW n, IsExtended(e, d, n)
  PROVE  /\ ~ IsTitle(e, Len(d) + 1) => InScope(e, Len(e) + 1) = InScope(d, Len(d) + 1)
         /\ IsTitle(e, Len(d) + 1) =>
              InScope(e, Len(e) + 1) =
                {i \in InScope(d, Len(d) + 1) : n.level > d[i].level} \cup {Len(d) + 1}
<1> DEFINE m == Len(d)
<1>1. /\ m \in Nat /\ Len(e) + 1 - 1 = m + 1 /\ m + 1 - 1 = m /\ e[m + 1] = n
      /\ \A i \in 1 .. m : e[i] = d[i]
      /\ \A i \in 1 .. m + 1 : i \in 1 .. m \/ i = m + 1
      /\ m + 1 \in 1 .. m + 1 /\ m + 1 \notin 1 .. m
  BY DEF IsExtended
<1>2. \A i \in 1 .. m : IsTitle(e, i) <=> IsTitle(d, i)
  BY <1>1 DEF IsTitle
<1>3. InScope(e, Len(e) + 1) =
        {i \in 1 .. m + 1 : IsTitle(e, i) /\ \A k \in i + 1 .. m + 1 : IsTitle(e, k) => e[k].level > e[i].level}
  BY <1>1 DEF InScope
<1>4. InScope(d, m + 1) =
        {i \in 1 .. m : IsTitle(d, i) /\ \A k \in i + 1 .. m : IsTitle(d, k) => d[k].level > d[i].level}
  BY <1>1 DEF InScope
<1>5. ASSUME NEW i \in 1 .. m
      PROVE  i \in InScope(e, Len(e) + 1) <=>
               i \in InScope(d, m + 1) /\ (IsTitle(e, m + 1) => n.level > d[i].level)
  <2>1. \A k : k \in i + 1 .. m + 1 <=> (k \in i + 1 .. m \/ k = m + 1)
    BY <1>1
  <2>2. \A k \in i + 1 .. m : k \in 1 .. m
    BY <1>1
  <2>3. i \in 1 .. m + 1
    BY <1>1
  <2> HIDE DEF m
  <2> QED
    BY <2>1, <2>2, <2>3, <1>1, <1>2, <1>3, <1>4
<1>6. m + 1 \in InScope(e, Len(e) + 1) <=> IsTitle(e, m + 1)
  <2>1. m + 1 + 1 .. m + 1 = {}
    BY <1>1
  <2> QED
    BY <2>1, <1>1, <1>3
<1>7. \A i \in InScope(e, Len(e) + 1) : i \in 1 .. m \/ i = m + 1
  BY <1>1, <1>3
<1>8. \A i \in InScope(d, m + 1) : i \in 1 .. m
  BY <1>4
<1> HIDE DEF m
<1>9. CASE ~ IsTitle(e, m + 1)
  <2>1. InScope(e, Len(e) + 1) = InScope(d, m + 1)
    BY <1>5, <1>6, <1>7, <1>8, <1>9
  <2> QED
    BY <2>1, <1>9 DEF m
<1>10. CASE IsTitle(e, m + 1)
  <2>1. InScope(e, Len(e) + 1) = {i \in InScope(d, m + 1) : n.level > d[i].level} \cup {m + 1}
    BY <1>5, <1>6, <1>7, <1>8, <1>10
  <2> QED
    BY <2>1, <1>10 DEF m
<1> QED
  BY <1>9, <1>10

\* The walk keeps the heading stack in step with the document.
LEMMA StackStays ==
  ASSUME NEW d, NEW e, NEW n, IsExtended(e, d, n), NEW st, Placed(d, st), ~ IsTitle(e, Len(d) + 1)
  PROVE  Placed(e, st)
<1>1. InScope(e, Len(e) + 1) = InScope(d, Len(d) + 1)
  BY NextScope
<1>2. \A i \in InScope(d, Len(d) + 1) : e[i] = d[i]
  <2>1. Len(d) \in Nat /\ \A i \in 1 .. Len(d) + 1 - 1 : e[i] = d[i]
    BY DEF IsExtended
  <2> QED
    BY <2>1 DEF InScope
<1> QED
  BY <1>1, <1>2 DEF Placed

\* A heading that is pushed replaces those of its level and below, as it ends
\* their scopes.
LEMMA StackPushed ==
  ASSUME NEW d, NEW e, NEW n, IsExtended(e, d, n), NEW st, Placed(d, st), Len(st) \in Nat,
         IsTitle(e, Len(d) + 1), n.level \in Nat, n.level > 0,
         NEW r, Len(r) = n.level, r[n.level] = Len(d) + 1,
         \A i \in 1 .. n.level - 1 : r[i] = IF i <= Len(st) THEN st[i] ELSE 0
  PROVE  Placed(e, r)
<1> DEFINE m == Len(d)
           l == n.level
           S == InScope(d, m + 1)
           T == InScope(e, Len(e) + 1)
<1>1. T = {i \in S : l > d[i].level} \cup {m + 1}
  BY NextScope
<1>2. m \in Nat /\ e[m + 1] = n /\ \A i \in S : e[i] = d[i] /\ i \in 1 .. m
  <2>1. m \in Nat /\ e[m + 1] = n /\ \A i \in 1 .. m + 1 - 1 : e[i] = d[i]
    BY DEF IsExtended
  <2>2. m + 1 - 1 = m
    BY <2>1
  <2> QED
    BY <2>1, <2>2 DEF InScope
<1>3. /\ \A i \in 1 .. Len(st) : st[i] # 0 => st[i] \in S /\ d[st[i]].level = i
      /\ \A x \in S : d[x].level \in 1 .. Len(st) /\ st[d[x].level] = x
  BY DEF Placed
<1> HIDE DEF S, T, m, l
<1>4. ASSUME NEW i \in 1 .. Len(r), r[i] # 0 PROVE r[i] \in T /\ e[r[i]].level = i
  <2>1. CASE i = l
    BY <2>1, <1>1, <1>2 DEF l, m
  <2>2. CASE i # l
    <3>1. i \in 1 .. l - 1 /\ i < l
      BY <2>2, <1>4 DEF l
    <3>2. i \in 1 .. Len(st) /\ r[i] = st[i]
      BY <3>1, <1>4 DEF l
    <3>3. st[i] \in S /\ d[st[i]].level = i
      BY <3>2, <1>3, <1>4
    <3>4. l > d[st[i]].level
      BY <3>1, <3>3 DEF l
    <3> QED
      BY <3>2, <3>3, <3>4, <1>1, <1>2
  <2> QED
    BY <2>1, <2>2
<1>5. ASSUME NEW x \in T PROVE e[x].level \in 1 .. Len(r) /\ r[e[x].level] = x
  <2>1. CASE x = m + 1
    BY <2>1, <1>2 DEF l, m
  <2>2. CASE x \in S /\ l > d[x].level
    <3>1. e[x].level = d[x].level /\ d[x].level \in 1 .. Len(st) /\ st[d[x].level] = x
      BY <2>2, <1>2, <1>3
    <3>2. d[x].level \in 1 .. l - 1 /\ d[x].level <= Len(st)
      BY <3>1, <2>2 DEF l
    <3>3. r[d[x].level] = st[d[x].level] /\ d[x].level \in 1 .. Len(r)
      BY <3>2 DEF l
    <3> QED
      BY <3>1, <3>3
  <2> QED
    BY <2>1, <2>2, <1>1, <1>5
<1> QED
  BY <1>4, <1>5 DEF Placed, T

\* A longer document changes no scope of the blocks that were there.
LEMMA UpperStays ==
  ASSUME NEW d, NEW e, NEW n, IsExtended(e, d, n), NEW headings \in Seq(0 .. Len(d))
  PROVE  /\ Named(d, headings) => Named(e, headings)
         /\ \A b \in 1 .. Len(d) : IsUpper(d, headings, b) => IsUpper(e, headings, b)
<1>1. Len(d) \in Nat /\ \A i \in 1 .. Len(d) : e[i] = d[i]
  BY DEF IsExtended
<1>2. \A h \in 0 .. Len(d) : h # 0 => h \in 1 .. Len(d)
  BY <1>1
<1>3. \A h \in 0 .. Len(d) : TitleOf(e, h) = TitleOf(d, h)
  BY <1>1, <1>2 DEF TitleOf
<1>4. Named(d, headings) => Named(e, headings)
  <2>1. \A i \in 1 .. Len(headings) : headings[i] # 0 => headings[i] \in 1 .. Len(d)
    BY <1>2, Element
  <2> QED
    BY <2>1, <1>1 DEF Named
<1>5. ASSUME NEW b \in 1 .. Len(d), IsUpper(d, headings, b) PROVE IsUpper(e, headings, b)
  <2> DEFINE p == HeadingPath(headings)
             s == ScopeOf(d, b)
  <2>1. b \in 1 .. Len(d) + 1
    BY <1>1
  <2>2. ScopeOf(e, b) = s /\ Len(s) \in Nat /\ \A k \in 1 .. Len(s) : s[k] \in 1 .. Len(d)
    BY <2>1, ScopeStays
  <2>3. p \in Seq(0 .. Len(d)) /\ Len(p) \in Nat
    BY PathLength
  <2>4. Len(p) <= Len(s) /\ \A k \in 1 .. Len(p) : TitleOf(d, p[k]) = TitleOf(d, s[k])
    BY <1>5 DEF IsUpper
  <2> HIDE DEF p, s
  <2>5. ASSUME NEW k \in 1 .. Len(p) PROVE TitleOf(e, p[k]) = TitleOf(e, s[k])
    <3>1. p[k] \in 0 .. Len(d)
      BY <2>3, Element
    <3>2. s[k] \in 0 .. Len(d)
      <4>1. k \in 1 .. Len(s)
        BY <2>2, <2>3, <2>4
      <4>2. s[k] \in 1 .. Len(d)
        BY <4>1, <2>2
      <4> QED
        BY <4>2, <1>1
    <3> QED
      BY <3>1, <3>2, <2>4, <1>3
  <2> QED
    BY <2>2, <2>4, <2>5 DEF IsUpper, p, s
<1> QED
  BY <1>4, <1>5

\* A block that is found below the stack is under the stack.
LEMMA BlockUnderStack ==
  ASSUME NEW d \in Seq(Nodes), NEW e, NEW n, IsExtended(e, d, n), NEW st \in Seq(0 .. Len(d)), Placed(d, st)
  PROVE  /\ HeadingPath(st) = ScopeOf(e, Len(d) + 1)
         /\ IsUpper(e, st, Len(d) + 1) /\ Named(e, st)
<1>1. Len(d) \in Nat /\ Len(d) + 1 \in 1 .. Len(d) + 1
  BY DEF IsExtended
<1>2. HeadingPath(st) = ScopeOf(d, Len(d) + 1) /\ ScopeOf(e, Len(d) + 1) = ScopeOf(d, Len(d) + 1)
      /\ Len(ScopeOf(d, Len(d) + 1)) \in Nat
  BY <1>1, StackIsScope, ScopeStays
<1>3. IsUpper(e, st, Len(d) + 1)
  BY <1>2 DEF IsUpper
<1>4. Named(d, st)
  BY DEF Placed, Named, InScope, IsTitle
<1>5. Named(e, st)
  BY <1>4, UpperStays
<1> QED
  BY <1>2, <1>3, <1>5

\* Every piece of the chunks is under its chunk's headings, or under those.
Told(d, cs) ==
  \A i \in 1 .. Len(cs) : \A k \in 1 .. Len(cs[i].pieces) :
    IsUpper(d, cs[i].headings, cs[i].pieces[k].block)

ToldUnder(d, headings, pieces) ==
  \A k \in 1 .. Len(pieces) : IsUpper(d, headings, pieces[k].block)

\* The inductive invariant of HeadingsInScope.
TitleInv ==
  /\ phase = "walk" => Placed(doc, stack)
  /\ \A i \in 1 .. Len(sections) : Under(doc, sections[i])
  /\ phase = "split" /\ sections # <<>> => ToldUnder(doc, sections[1].headings, group)
  /\ Told(doc, chunks)

\* A node that is walked is added to the document and changes no other.
LEMMA WalkExtends ==
  ASSUME TypeOK, NEW n \in Nodes, Walk(n)
  PROVE  /\ IsExtended(doc', doc, n) /\ doc \in Seq(Nodes) /\ stack \in Seq(0 .. Len(doc))
         /\ phase = "walk" /\ phase' = "walk"
<1>1. doc' = Append(doc, n) /\ doc \in Seq(Nodes) /\ stack \in Seq(0 .. Len(doc))
      /\ phase = "walk" /\ phase' = "walk"
  BY DEF Walk, TypeOK
<1>2. IsExtended(doc', doc, n)
  BY <1>1, AppendedPlaces DEF IsExtended
<1> QED
  BY <1>1, <1>2

\* After every node the stack is the scope of the next block.
LEMMA WalkKeepsStack ==
  ASSUME TypeOK, NEW n \in Nodes, Walk(n), Placed(doc, stack)
  PROVE  Placed(doc', stack')
<1>1. IsExtended(doc', doc, n) /\ doc \in Seq(Nodes) /\ stack \in Seq(0 .. Len(doc))
  BY WalkExtends
<1>2. doc'[Len(doc) + 1] = n
  BY <1>1 DEF IsExtended
<1>3. IsTitle(doc', Len(doc) + 1) <=> n.kind = "heading" /\ n.text # <<>>
  BY <1>2 DEF IsTitle
<1>4. CASE stack' = stack /\ ~ IsTitle(doc', Len(doc) + 1)
  <2>1. Placed(doc', stack)
    BY <1>1, <1>4, StackStays
  <2> QED
    BY <2>1, <1>4
<1>5. CASE n.kind = "heading" /\ n.text # <<>> /\ stack' = PushHeading(Len(doc) + 1, n.level)
  <2>1. n.level \in Nat /\ n.level > 0
    BY <1>5, NodeFacts
  <2>2. Len(doc) \in Nat /\ Len(doc) + 1 \in Nat /\ Len(doc) <= Len(doc) + 1 /\ Len(stack) \in Nat
    BY <1>1, LenProperties
  <2>3. /\ Len(stack') = n.level /\ stack'[n.level] = Len(doc) + 1
        /\ \A i \in 1 .. n.level - 1 : stack'[i] = IF i <= Len(stack) THEN stack[i] ELSE 0
    <3> DEFINE m == Len(doc)
               h == m + 1
               l == n.level
    <3>1. m \in Nat /\ stack \in Seq(0 .. m) /\ h \in Nat /\ l \in Nat /\ l > 0 /\ m <= h
      BY <1>1, <2>1, <2>2
    <3> HIDE DEF m, h, l
    <3>2. /\ Len(PushHeading(h, l)) = l /\ PushHeading(h, l)[l] = h
          /\ \A i \in 1 .. l - 1 : PushHeading(h, l)[i] = IF i <= Len(stack) THEN stack[i] ELSE 0
      BY <3>1, PushPlaces
    <3>3. stack' = PushHeading(h, l)
      BY <1>5 DEF m, h, l
    <3>4. /\ Len(stack') = l /\ stack'[l] = h
          /\ \A i \in 1 .. l - 1 : stack'[i] = IF i <= Len(stack) THEN stack[i] ELSE 0
      BY <3>2, <3>3
    <3> QED
      BY <3>4 DEF m, h, l
  <2> QED
    BY <1>1, <1>3, <1>5, <2>1, <2>2, <2>3, StackPushed
<1> QED
  BY <1>3, <1>4, <1>5 DEF Walk, WalkHeading, WalkBlock

\* Sections stay under their headings when the document grows.
LEMMA UnderStays ==
  ASSUME NEW d, NEW e, NEW n, IsExtended(e, d, n), NEW s, s.headings \in Seq(0 .. Len(d)),
         \A k \in 1 .. Len(s.blocks) : s.blocks[k] \in 1 .. Len(d), Under(d, s)
  PROVE  Under(e, s)
<1>1. /\ Named(d, s.headings) => Named(e, s.headings)
      /\ \A b \in 1 .. Len(d) : IsUpper(d, s.headings, b) => IsUpper(e, s.headings, b)
  BY UpperStays
<1> QED
  BY <1>1 DEF Under

\* The blocks of a section and the next node.
LEMMA LongerBlocks ==
  ASSUME NEW m \in Nat, NEW blocks \in Seq(1 .. m)
  PROVE  /\ Len(blocks) \in Nat /\ Len(Append(blocks, m + 1)) = Len(blocks) + 1
         /\ Append(blocks, m + 1)[Len(blocks) + 1] = m + 1
         /\ \A j \in 1 .. Len(blocks) : Append(blocks, m + 1)[j] = blocks[j]
<1> DEFINE V == 1 .. m + 1
           W == 1 .. m
<1>1. W \subseteq V /\ m + 1 \in V /\ blocks \in Seq(W)
  OBVIOUS
<1> HIDE DEF V, W
<1>2. blocks \in Seq(V)
  BY <1>1
<1> QED
  BY <1>1, <1>2, AppendedPlaces

\* A block goes into a section with the headings of the stack, which are its
\* scope.
LEMMA WalkTitles ==
  ASSUME TypeInv, TitleInv, NEW n \in Nodes, Walk(n)
  PROVE  TitleInv'
<1> DEFINE m == Len(doc)
           k == Len(sections)
<1>1. /\ IsExtended(doc', doc, n) /\ doc \in Seq(Nodes) /\ stack \in Seq(0 .. m)
      /\ phase = "walk" /\ phase' = "walk" /\ Placed(doc, stack)
      /\ m \in Nat /\ m + 1 = Len(doc')
  BY WalkExtends DEF TypeInv, TitleInv, IsExtended
<1>2. Placed(doc', stack')
  BY <1>1, WalkKeepsStack DEF TypeInv
<1>3. chunks = <<>> /\ chunks' = chunks
  BY <1>1 DEF TypeInv, Idle, Walk
<1>4. Told(doc', chunks')
  BY <1>3 DEF Told
<1>5. ASSUME NEW i \in 1 .. k
      PROVE  /\ sections[i].headings \in Seq(0 .. m)
             /\ \A j \in 1 .. Len(sections[i].blocks) : sections[i].blocks[j] \in 1 .. m
             /\ Len(sections[i].blocks) \in Nat /\ sections[i].blocks \in Seq(1 .. m)
  <2>1. TypeOK /\ sections \in Seq(Section)
    BY DEF TypeInv, TypeOK
  <2>2. sections[i] \in Section
    BY <2>1, Element
  <2> QED
    BY <2>1, <2>2, SectionPlaces, SectionFields
<1>6. ASSUME NEW i \in 1 .. k PROVE Under(doc', sections[i])
  <2>1. Under(doc, sections[i])
    BY DEF TitleInv
  <2> QED
    BY <2>1, <1>1, <1>5, UnderStays
<1>7. IsUpper(doc', stack, m + 1) /\ Named(doc', stack)
  BY <1>1, BlockUnderStack
<1>8. \A i \in 1 .. Len(sections') : Under(doc', sections'[i])
  <2>1. CASE sections' = sections
    BY <2>1, <1>6
  <2>2. CASE Grows(n)
    <3> DEFINE old == sections[k].blocks
               s == sections'[k]
    <3>1. /\ k \in Nat /\ k > 0 /\ sections[k].headings = stack /\ Len(sections') = k
          /\ \A i \in 1 .. k - 1 : sections'[i] = sections[i]
          /\ s.headings = stack /\ s.blocks = Append(old, m + 1)
      BY <2>2 DEF Grows
    <3>2. k \in 1 .. k
      BY <3>1
    <3>3. Under(doc', sections[k]) /\ Len(old) \in Nat /\ old \in Seq(1 .. m)
          /\ \A j \in 1 .. Len(old) : old[j] \in 1 .. m
      BY <3>2, <1>5, <1>6
    <3>4. \A j \in 1 .. Len(old) : IsUpper(doc', stack, old[j])
      BY <3>1, <3>3 DEF Under
    <3>5. Len(s.blocks) = Len(old) + 1 /\ s.blocks[Len(old) + 1] = m + 1
          /\ \A j \in 1 .. Len(old) : s.blocks[j] = old[j]
      <4> HIDE DEF old, s, m
      <4> QED
        BY <1>1, <3>1, <3>3, LongerBlocks
    <3> HIDE DEF old, s
    <3>6. ASSUME NEW j \in 1 .. Len(s.blocks) PROVE IsUpper(doc', s.headings, s.blocks[j])
      <4>1. j \in 1 .. Len(old) \/ j = Len(old) + 1
        BY <3>3, <3>5
      <4> QED
        BY <4>1, <3>1, <3>4, <3>5, <1>7
    <3>7. Under(doc', s)
      BY <3>1, <3>6, <1>7 DEF Under
    <3>8. ASSUME NEW i \in 1 .. k PROVE Under(doc', sections'[i])
      <4>1. CASE i = k
        BY <4>1, <3>7 DEF s
      <4>2. CASE i # k
        <5>1. i \in 1 .. k - 1
          BY <4>2, <3>1
        <5> QED
          BY <5>1, <3>1, <1>6
      <4> QED
        BY <4>1, <4>2
    <3> QED
      BY <3>1, <3>8
  <2>3. CASE Begins(n)
    <3> DEFINE s == sections'[k + 1]
    <3>1. /\ k \in Nat /\ Len(sections') = k + 1
          /\ \A i \in 1 .. k : sections'[i] = sections[i]
          /\ s.headings = stack /\ s.blocks = <<m + 1>>
      BY <2>3 DEF Begins
    <3>2. Under(doc', s)
      <4>1. Len(s.blocks) = 1 /\ s.blocks[1] = m + 1
        BY <3>1
      <4>2. \A j \in 1 .. Len(s.blocks) : j = 1
        BY <4>1
      <4> HIDE DEF s
      <4> QED
        BY <4>1, <4>2, <3>1, <1>7 DEF Under
    <3>3. ASSUME NEW i \in 1 .. k + 1 PROVE Under(doc', sections'[i])
      <4>1. CASE i = k + 1
        BY <4>1, <3>2
      <4>2. CASE i # k + 1
        <5>1. i \in 1 .. k
          BY <4>2, <3>1
        <5> QED
          BY <5>1, <3>1, <1>6
      <4> QED
        BY <4>1, <4>2
    <3> QED
      BY <3>1, <3>3
  <2> QED
    BY <2>1, <2>2, <2>3, WalkPlaces DEF TypeInv
<1> QED
  BY <1>1, <1>2, <1>4, <1>8 DEF TitleInv

\* The headings of a parent are the first ones of its child.
LEMMA ParentPlaces ==
  ASSUME NEW V, NEW h \in Seq(V)
  PROVE  /\ Len(ParentPath(h)) = IF Len(h) <= 1 THEN 0 ELSE Len(h) - 1
         /\ \A i \in 1 .. Len(ParentPath(h)) : ParentPath(h)[i] = h[i] /\ i \in 1 .. Len(h)
<1>1. Len(h) \in Nat
  OBVIOUS
<1>2. CASE Len(h) <= 1
  BY <1>2 DEF ParentPath
<1>3. CASE ~ (Len(h) <= 1)
  <2>1. /\ ParentPath(h) = SubSeq(h, 1, Len(h) - 1) /\ Len(h) - 1 \in Nat /\ Len(h) - 1 <= Len(h)
        /\ 1 <= Len(h) - 1 + 1
    BY <1>1, <1>3 DEF ParentPath, Front
  <2>2. IsPart(ParentPath(h), V, h, 1, Len(h) - 1)
    BY <2>1, PartPlaces
  <2>3. Len(ParentPath(h)) = Len(h) - 1 /\ \A i \in 1 .. Len(h) - 1 : ParentPath(h)[i] = h[i]
    BY <2>1, <2>2, <1>1 DEF IsPart
  <2> QED
    BY <2>3, <1>1, <1>3
<1> QED
  BY <1>2, <1>3

\* Siblings have parents of the same titles.
LEMMA SiblingTitles ==
  ASSUME NEW x, NEW y, IsSibling(x, y), NEW V, x.headings \in Seq(V), y.headings \in Seq(V)
  PROVE  SameTitles(doc, ParentPath(x.headings), ParentPath(y.headings))
<1> DEFINE g == ParentPath(x.headings)
           h == ParentPath(y.headings)
<1>1. Len(x.headings) = Len(y.headings) /\ Titles(g) = Titles(h)
  BY DEF IsSibling
<1>2. Len(g) = Len(h)
  BY <1>1, ParentPlaces
<1> HIDE DEF g, h
<1>3. \A i \in 1 .. Len(g) : Titles(g)[i] = TitleOf(doc, g[i]) /\ Titles(h)[i] = TitleOf(doc, h[i])
  BY <1>2 DEF Titles, Title, TitleOf, Text
<1>4. \A i \in 1 .. Len(g) : TitleOf(doc, g[i]) = TitleOf(doc, h[i])
  BY <1>1, <1>3
<1> QED
  BY <1>2, <1>4 DEF SameTitles, g, h

\* Siblings merged are under their parent, both by the titles of its path.
LEMMA MergedUnder ==
  ASSUME NEW x, NEW y, NEW z, IsSibling(x, y), NEW V, x.headings \in Seq(V), y.headings \in Seq(V),
         Under(doc, x), Under(doc, y),
         z.headings = ParentPath(x.headings), IsJoin(z.blocks, x.blocks, y.blocks),
         \A k \in 1 .. Len(x.blocks) : x.blocks[k] \in Nat \ {0},
         \A k \in 1 .. Len(y.blocks) : y.blocks[k] \in Nat \ {0}
  PROVE  Under(doc, z)
<1> DEFINE g == ParentPath(x.headings)
           h == ParentPath(y.headings)
<1>1. SameTitles(doc, g, h)
  BY SiblingTitles
<1>2. Named(doc, g)
  BY ParentPlaces DEF Under, Named
<1>3. Named(doc, h)
  BY ParentPlaces DEF Under, Named
<1>4. g \in Seq(V) /\ h \in Seq(V)
  BY ParentPathType
<1>5. SameTitles(doc, HeadingPath(g), HeadingPath(h))
  BY <1>1, <1>2, <1>3, <1>4, SameTitlesPath
<1>6. ASSUME NEW k \in 1 .. Len(x.blocks) PROVE IsUpper(doc, g, x.blocks[k])
  <2>1. IsUpper(doc, x.headings, x.blocks[k]) /\ x.blocks[k] \in Nat /\ x.blocks[k] > 0
    BY DEF Under
  <2> QED
    BY <2>1, ParentUpper
<1>7. ASSUME NEW k \in 1 .. Len(y.blocks) PROVE IsUpper(doc, g, y.blocks[k])
  <2>1. IsUpper(doc, y.headings, y.blocks[k]) /\ y.blocks[k] \in Nat /\ y.blocks[k] > 0
    BY DEF Under
  <2>2. IsUpper(doc, h, y.blocks[k])
    BY <2>1, ParentUpper
  <2> HIDE DEF g, h
  <2> QED
    BY <2>2, <1>5, SameTitlesUpper
<1> HIDE DEF g, h
<1>8. \A k \in 1 .. Len(z.blocks) :
        (\E i \in 1 .. Len(x.blocks) : z.blocks[k] = x.blocks[i])
        \/ (\E i \in 1 .. Len(y.blocks) : z.blocks[k] = y.blocks[i])
  BY DEF IsJoin
<1>9. \A k \in 1 .. Len(z.blocks) : IsUpper(doc, g, z.blocks[k])
  BY <1>6, <1>7, <1>8
<1> QED
  BY <1>2, <1>9 DEF Under, g

\* A merge puts a joined section in the place of two.
LEMMA MergeJoins ==
  ASSUME TypeOK, NEW a, IsMerge(a)
  PROVE  IsJoin(sections'[a].blocks, sections[a].blocks, sections[a + 1].blocks)
<1> DEFINE x == sections[a]
           y == sections[a + 1]
           z == sections'[a]
           V == 1 .. Len(doc)
           r == x.blocks \o y.blocks
<1>1. /\ a \in 1 .. Len(sections) - 1 /\ Len(sections) \in Nat /\ z = MergeInto(x, y)
      /\ x \in Section /\ y \in Section
  BY DEF IsMerge
<1>2. a \in 1 .. Len(sections) /\ a + 1 \in 1 .. Len(sections)
  BY <1>1
<1>3. x.blocks # <<>> /\ y.blocks # <<>>
  BY <1>2 DEF TypeOK
<1>4. z.blocks = r /\ IsConcat(r, V, x.blocks, y.blocks)
  <2> HIDE DEF x, y, z
  <2> QED
    BY <1>1, <1>3, MergedSection
<1>5. x.blocks \in Seq(V) /\ y.blocks \in Seq(V)
  BY <1>1, SectionFields
<1> HIDE DEF V, r, x, y, z
<1>6. IsJoin(z.blocks, x.blocks, y.blocks)
  BY <1>3, <1>4, <1>5, JoinPlaces
<1> QED
  BY <1>6 DEF x, y, z

\* A merge keeps every block under headings of its scope.
LEMMA MergeTitles ==
  ASSUME TypeOK, TitleInv, Merge
  PROVE  TitleInv'
<1> DEFINE n == Len(sections)
<1>1. PICK a \in 1 .. Len(sections) - 1 : IsMerge(a)
  BY MergePlaces
<1> DEFINE x == sections[a]
           y == sections[a + 1]
           z == sections'[a]
<1>2. phase = "merge" /\ UNCHANGED <<doc, stack, phase, chunks>>
  BY DEF Merge
<1>3. /\ n \in Nat /\ a \in 1 .. n - 1 /\ Len(sections') = n - 1 /\ z = MergeInto(x, y)
      /\ IsSibling(x, y)
      /\ \A i \in 1 .. a - 1 : sections'[i] = sections[i]
      /\ \A i \in a + 1 .. n - 1 : sections'[i] = sections[i + 1]
      /\ x \in Section /\ y \in Section
  BY <1>1 DEF IsMerge
<1>4. \A i \in 1 .. n : Under(doc, sections[i])
  BY DEF TitleInv
<1> HIDE DEF n
<1>5. a \in 1 .. n /\ a + 1 \in 1 .. n
  BY <1>3
<1>6. Under(doc, x) /\ Under(doc, y)
  BY <1>4, <1>5
<1>7. /\ \A k \in 1 .. Len(x.blocks) : x.blocks[k] \in 1 .. Len(doc)
      /\ \A k \in 1 .. Len(y.blocks) : y.blocks[k] \in 1 .. Len(doc)
  BY <1>5, SectionPlaces DEF n
<1>8. x.headings \in Seq(0 .. Len(doc)) /\ y.headings \in Seq(0 .. Len(doc))
      /\ z.headings = ParentPath(x.headings)
  BY <1>3, SectionFields DEF MergeInto
<1>9. IsJoin(z.blocks, x.blocks, y.blocks)
  BY <1>1, MergeJoins
<1>10. \A b \in 1 .. Len(doc) : b \in Nat \ {0}
  OBVIOUS
<1> HIDE DEF x, y, z
<1>11. Under(doc, z)
  BY <1>3, <1>6, <1>7, <1>8, <1>9, <1>10, MergedUnder
<1>12. ASSUME NEW i \in 1 .. n - 1 PROVE Under(doc, sections'[i])
  <2>1. CASE i = a
    BY <2>1, <1>11 DEF z
  <2>2. CASE i < a
    <3>1. i \in 1 .. a - 1 /\ i \in 1 .. n
      BY <2>2, <1>3
    <3> QED
      BY <3>1, <1>3, <1>4
  <2>3. CASE i > a
    <3>1. i \in a + 1 .. n - 1 /\ i + 1 \in 1 .. n
      BY <2>3, <1>3
    <3> QED
      BY <3>1, <1>3, <1>4
  <2> QED
    BY <2>1, <2>2, <2>3, <1>3
<1>13. \A i \in 1 .. Len(sections') : Under(doc', sections'[i])
  BY <1>2, <1>3, <1>12
<1>14. Told(doc', chunks')
  BY <1>2 DEF TitleInv
<1> QED
  BY <1>2, <1>13, <1>14 DEF TitleInv

\* One more chunk under its headings.
LEMMA ToldAppend ==
  ASSUME NEW d, NEW C, NEW cs \in Seq(C), NEW c \in C, Told(d, cs), ToldUnder(d, c.headings, c.pieces)
  PROVE  Told(d, Append(cs, c))
<1> DEFINE r == Append(cs, c)
<1>1. /\ Len(r) = Len(cs) + 1 /\ Len(cs) \in Nat /\ r[Len(cs) + 1] = c
      /\ \A i \in 1 .. Len(cs) : r[i] = cs[i]
  BY AppendedPlaces
<1> HIDE DEF r
<1>2. ASSUME NEW i \in 1 .. Len(r) PROVE ToldUnder(d, r[i].headings, r[i].pieces)
  <2>1. CASE i \in 1 .. Len(cs)
    BY <2>1, <1>1 DEF Told, ToldUnder
  <2>2. CASE i = Len(cs) + 1
    BY <2>2, <1>1
  <2> QED
    BY <2>1, <2>2, <1>1
<1> QED
  BY <1>2 DEF Told, ToldUnder, r

\* One more piece under the headings of the group.
LEMMA UnderAppend ==
  ASSUME NEW d, NEW headings, NEW P, NEW g \in Seq(P), NEW q \in P,
         ToldUnder(d, headings, g), IsUpper(d, headings, q.block)
  PROVE  ToldUnder(d, headings, Append(g, q))
<1> DEFINE r == Append(g, q)
<1>1. /\ Len(r) = Len(g) + 1 /\ Len(g) \in Nat /\ r[Len(g) + 1] = q
      /\ \A i \in 1 .. Len(g) : r[i] = g[i]
  BY AppendedPlaces
<1> HIDE DEF r
<1>2. \A k \in 1 .. Len(r) : k \in 1 .. Len(g) \/ k = Len(g) + 1
  BY <1>1
<1> QED
  BY <1>1, <1>2 DEF ToldUnder, r

\* A group of one piece, and an empty one.
LEMMA UnderOne ==
  ASSUME NEW d, NEW headings, NEW q, IsUpper(d, headings, q.block)
  PROVE  ToldUnder(d, headings, <<q>>) /\ ToldUnder(d, headings, <<>>)
<1>1. Len(<<q>>) = 1 /\ <<q>>[1] = q
  OBVIOUS
<1>2. \A k \in 1 .. Len(<<q>>) : k = 1
  BY <1>1
<1> QED
  BY <1>1, <1>2 DEF ToldUnder

\* A flushed group is a chunk under the headings of its section.
LEMMA FlushTitles ==
  ASSUME TypeOK, TitleInv, phase = "split", sections # <<>>
  PROVE  Told(doc, Flushed(group)) /\ Flushed(group) \in Seq(Chunk)
<1>1. Told(doc, chunks) /\ ToldUnder(doc, Headings, group)
  BY DEF TitleInv, Headings
<1>2. chunks \in Seq(Chunk) /\ group \in Seq(Piece) /\ sections \in Seq(Section)
  BY DEF TypeOK
<1>3. Flushed(group) \in Seq(Chunk)
  BY <1>2, FlushedType
<1> DEFINE c == [headings |-> Headings, pieces |-> group]
<1>4. c \in Chunk
  <2>1. sections[1] \in Section
    BY <1>2, FirstElement
  <2>2. Headings \in Seq(0 .. Len(doc))
    BY <2>1, SectionFields DEF Headings
  <2> QED
    BY <2>2, <1>2 DEF Chunk
<1>5. ToldUnder(doc, c.headings, c.pieces)
  BY <1>1
<1> HIDE DEF c
<1>6. Told(doc, Append(chunks, c))
  BY <1>1, <1>2, <1>4, <1>5, ToldAppend
<1>7. Told(doc, Flushed(group))
  BY <1>1, <1>6 DEF Flushed, c
<1> QED
  BY <1>3, <1>7

\* The next block is under the headings of its section.
LEMMA NextBlockUnder ==
  ASSUME TypeOK, TitleInv, AtBlock
  PROVE  IsUpper(doc, Headings, NextBlock) /\ phase = "split" /\ sections # <<>>
<1>1. phase = "split" /\ sections # <<>> /\ sections \in Seq(Section)
  BY DEF AtBlock, Splitting, TypeOK
<1>2. 1 \in 1 .. Len(sections) /\ pos \in 1 .. Len(sections[1].blocks)
  BY <1>1, FirstElement, NextBlockType
<1>3. Under(doc, sections[1])
  BY <1>2 DEF TitleInv
<1> QED
  BY <1>1, <1>2, <1>3 DEF Under, NextBlock, Headings

\* In a step of the split only chunks and group change.
LEMMA SplitTitles ==
  ASSUME TitleInv, phase = "split", UNCHANGED <<doc, sections, phase>>,
         Told(doc, chunks'), ToldUnder(doc, Headings, group')
  PROVE  TitleInv'
BY DEF TitleInv, Headings

\* A block that is grouped leaves the titles of sections and chunks alone.
LEMMA TakeBlockTitles ==
  ASSUME TypeOK, TitleInv, TakeBlock
  PROVE  TitleInv'
<1> DEFINE w == WholeBlock(NextBlock)
<1>1. AtBlock /\ UNCHANGED <<doc, sections, phase>>
      /\ \/ chunks' = Flushed(group) /\ group' = <<w>>
         \/ chunks' = chunks /\ group' = Append(group, w)
  BY DEF TakeBlock
<1>2. IsUpper(doc, Headings, w.block) /\ phase = "split" /\ sections # <<>>
  BY <1>1, NextBlockUnder DEF WholeBlock
<1>3. w \in Piece /\ group \in Seq(Piece)
  BY <1>1, NextBlockType, PieceType DEF TypeOK
<1>4. Told(doc, Flushed(group)) /\ Told(doc, chunks) /\ ToldUnder(doc, Headings, group)
  BY <1>2, FlushTitles DEF TitleInv, Headings
<1> HIDE DEF w
<1>5. ToldUnder(doc, Headings, <<w>>) /\ ToldUnder(doc, Headings, Append(group, w))
  BY <1>2, <1>3, <1>4, UnderOne, UnderAppend
<1> QED
  BY <1>1, <1>2, <1>4, <1>5, SplitTitles

\* A chunk of one piece of the next block.
LEMMA PieceTitles ==
  ASSUME TypeOK, TitleInv, AtBlock, NEW cs \in Seq(Chunk), Told(doc, cs),
         NEW q \in Piece, q.block = NextBlock
  PROVE  Told(doc, Append(cs, [headings |-> Headings, pieces |-> <<q>>]))
<1> DEFINE c == [headings |-> Headings, pieces |-> <<q>>]
<1>1. IsUpper(doc, Headings, q.block) /\ sections # <<>> /\ sections \in Seq(Section)
  BY NextBlockUnder DEF TypeOK
<1>2. ToldUnder(doc, c.headings, c.pieces)
  BY <1>1, UnderOne
<1>3. c \in Chunk
  <2>1. sections[1] \in Section
    BY <1>1, FirstElement
  <2>2. Headings \in Seq(0 .. Len(doc))
    BY <2>1, SectionFields DEF Headings
  <2>3. <<q>> \in Seq(Piece)
    OBVIOUS
  <2> QED
    BY <2>2, <2>3 DEF Chunk
<1> HIDE DEF c
<1>4. Told(doc, Append(cs, c))
  BY <1>2, <1>3, ToldAppend
<1> QED
  BY <1>4 DEF c

\* A code block or table by itself is a chunk under its section's titles.
LEMMA TakeOversizedTitles ==
  ASSUME TypeOK, TitleInv, TakeOversized
  PROVE  TitleInv'
<1> DEFINE w == WholeBlock(NextBlock)
<1>1. /\ AtBlock /\ UNCHANGED <<doc, sections, phase>> /\ group' = <<>>
      /\ chunks' = Append(Flushed(group), [headings |-> Headings, pieces |-> <<w>>])
  BY DEF TakeOversized
<1>2. IsUpper(doc, Headings, NextBlock) /\ phase = "split" /\ sections # <<>>
  BY <1>1, NextBlockUnder
<1>3. w \in Piece /\ w.block = NextBlock
  BY <1>1, NextBlockType, PieceType DEF WholeBlock
<1>4. Told(doc, Flushed(group)) /\ Flushed(group) \in Seq(Chunk)
  BY <1>2, FlushTitles
<1> HIDE DEF w
<1>5. Told(doc, chunks')
  BY <1>1, <1>3, <1>4, PieceTitles
<1>6. ToldUnder(doc, Headings, group')
  BY <1>1 DEF ToldUnder
<1> QED
  BY <1>1, <1>2, <1>5, <1>6, SplitTitles

\* Before the windows, the open group becomes a chunk of its section.
LEMMA BeginWindowsTitles ==
  ASSUME TypeOK, TitleInv, BeginWindows
  PROVE  TitleInv'
<1>1. AtBlock /\ UNCHANGED <<doc, sections, phase>> /\ group' = <<>> /\ chunks' = Flushed(group)
  BY DEF BeginWindows
<1>2. phase = "split" /\ sections # <<>>
  BY <1>1, NextBlockUnder
<1>3. Told(doc, chunks') /\ ToldUnder(doc, Headings, group')
  BY <1>1, <1>2, FlushTitles DEF ToldUnder
<1> QED
  BY <1>1, <1>2, <1>3, SplitTitles

\* A window is a chunk under its section's titles.
LEMMA WindowTitles ==
  ASSUME TypeOK, TitleInv, Window
  PROVE  TitleInv'
<1>1. AtBlock /\ UNCHANGED <<doc, sections, phase, group>>
  BY DEF Window
<1>2. phase = "split" /\ sections # <<>> /\ NextBlock \in 1 .. Len(doc)
  BY <1>1, NextBlockUnder, NextBlockType
<1>3. PICK last \in start .. Len(Sentences(NextBlock)) :
        /\ last \in Nat /\ start \in Nat
        /\ chunks' = Append(chunks, [headings |-> Headings,
             pieces |-> <<[block |-> NextBlock, first |-> start, last |-> last]>>])
  BY WindowStep
<1> DEFINE q == [block |-> NextBlock, first |-> start, last |-> last]
<1>4. q \in Piece /\ q.block = NextBlock
  BY <1>2, <1>3, PieceType
<1>5. Told(doc, chunks) /\ chunks \in Seq(Chunk) /\ ToldUnder(doc, Headings, group)
  BY <1>2 DEF TitleInv, TypeOK, Headings
<1>6. chunks' = Append(chunks, [headings |-> Headings, pieces |-> <<q>>])
  BY <1>3
<1> HIDE DEF q
<1>7. Told(doc, chunks')
  BY <1>1, <1>4, <1>5, <1>6, PieceTitles
<1> QED
  BY <1>1, <1>2, <1>5, <1>7, SplitTitles

\* What is left of a section becomes a chunk under its titles.
LEMMA EndSectionTitles ==
  ASSUME TypeOK, TitleInv, EndSection
  PROVE  TitleInv'
<1>1. /\ phase = "split" /\ sections # <<>> /\ UNCHANGED <<doc, stack, phase>>
      /\ chunks' = Flushed(group) /\ group' = <<>> /\ sections' = Tail(sections)
  BY DEF EndSection, Splitting
<1>2. Told(doc', chunks') /\ (sections' # <<>> => ToldUnder(doc', sections'[1].headings, group'))
  BY <1>1, FlushTitles DEF ToldUnder
<1>3. sections \in Seq(Section)
  BY DEF TypeOK
<1>4. IsTail(Tail(sections), Section, sections)
  BY <1>1, <1>3, TailPlaces
<1>5. ASSUME NEW i \in 1 .. Len(sections') PROVE Under(doc', sections'[i])
  <2>1. i \in 1 .. Len(sections) - 1 /\ i + 1 \in 1 .. Len(sections)
        /\ sections'[i] = sections[i + 1]
    BY <1>1, <1>4 DEF IsTail
  <2> QED
    BY <2>1, <1>1 DEF TitleInv
<1> QED
  BY <1>1, <1>2, <1>5 DEF TitleInv

\* The walk's last section is under the scope the stack says.
LEMMA EndOfDocumentTitles ==
  ASSUME TypeInv, TitleInv, EndOfDocument
  PROVE  TitleInv'
<1>1. phase' = "merge" /\ UNCHANGED <<doc, stack, sections, chunks>>
  BY DEF EndOfDocument
<1> QED
  BY <1>1 DEF TitleInv

\* The split starts from the merged sections as they are.
LEMMA AllMergedTitles ==
  ASSUME TypeInv, TitleInv, AllMerged
  PROVE  TitleInv'
<1>1. /\ phase = "merge" /\ phase' = "split"
      /\ UNCHANGED <<doc, stack, sections, group, chunks>>
  BY DEF AllMerged
<1>2. group' = <<>>
  BY <1>1 DEF TypeInv, Idle
<1>3. sections' # <<>> => ToldUnder(doc', sections'[1].headings, group')
  BY <1>2 DEF ToldUnder
<1> QED
  BY <1>1, <1>3 DEF TitleInv

\* Before the walk the stack is the empty scope.
LEMMA InitTitles == Init => TitleInv
<1> SUFFICES ASSUME Init PROVE TitleInv
  OBVIOUS
<1>1. doc = <<>> /\ stack = <<>> /\ sections = <<>> /\ phase = "walk" /\ chunks = <<>>
  BY DEF Init
<1>2. Placed(<<>>, <<>>)
  BY DEF Placed, InScope
<1> QED
  BY <1>1, <1>2 DEF TitleInv, Told

\* The invariant of the headings is inductive.
LEMMA TitleStep == TypeInv /\ TitleInv /\ [Next]_vars => TitleInv'
<1> SUFFICES ASSUME TypeInv, TitleInv, [Next]_vars PROVE TitleInv'
  OBVIOUS
<1>1. TypeOK
  BY DEF TypeInv
<1>2. ASSUME NEW n \in Nodes, Walk(n) PROVE TitleInv'
  BY <1>2, WalkTitles
<1>3. CASE EndOfDocument
  BY <1>3, EndOfDocumentTitles
<1>4. CASE Merge
  BY <1>1, <1>4, MergeTitles
<1>5. CASE AllMerged
  BY <1>5, AllMergedTitles
<1>6. CASE TakeBlock
  BY <1>1, <1>6, TakeBlockTitles
<1>7. CASE TakeOversized
  BY <1>1, <1>7, TakeOversizedTitles
<1>8. CASE BeginWindows
  BY <1>1, <1>8, BeginWindowsTitles
<1>9. CASE Window
  BY <1>1, <1>9, WindowTitles
<1>10. CASE EndSection
  BY <1>1, <1>10, EndSectionTitles
<1>11. CASE UNCHANGED vars
  BY <1>11 DEF vars, TitleInv
<1> QED
  BY <1>2, <1>3, <1>4, <1>5, <1>6, <1>7, <1>8, <1>9, <1>10, <1>11 DEF Next, Terminated

\* Scope, with the document as a parameter.
LEMMA ScopeIsScopeOf == \A b : Scope(b) = ScopeOf(doc, b)
BY DEF Scope, ScopeOf, InScope, IsTitle

\* The titles of a path, place by place.
LEMMA TitlesPlaces ==
  ASSUME doc \in Seq(Nodes), NEW p \in Seq(0 .. Len(doc))
  PROVE  /\ Titles(p) \in Texts /\ Len(Titles(p)) = Len(p) /\ Len(p) \in Nat
         /\ \A k \in 1 .. Len(p) : Titles(p)[k] = TitleOf(doc, p[k])
<1>1. ASSUME NEW h \in 0 .. Len(doc) PROVE Title(h) \in Seq(Chars) /\ Title(h) = TitleOf(doc, h)
  <2>1. CASE h = 0
    BY <2>1 DEF Title, TitleOf
  <2>2. CASE h # 0
    <3>1. h \in 1 .. Len(doc)
      BY <1>1, <2>2
    <3>2. doc[h] \in Nodes
      BY <3>1, Element
    <3> QED
      BY <2>2, <3>2, NodeFacts DEF Title, TitleOf, Text
  <2> QED
    BY <2>1, <2>2
<1>2. \A k \in 1 .. Len(p) : p[k] \in 0 .. Len(doc)
  BY Element
<1>3. Titles(p) = [k \in 1 .. Len(p) |-> Title(p[k])] /\ Len(p) \in Nat
  BY DEF Titles
<1> QED
  BY <1>1, <1>2, <1>3 DEF Texts

\* Upper parts are prefixes, title by title.
LEMMA UpperIsPrefix ==
  ASSUME doc \in Seq(Nodes), NEW headings \in Seq(0 .. Len(doc)), NEW b \in 1 .. Len(doc),
         IsUpper(doc, headings, b)
  PROVE  IsPrefix(Titles(HeadingPath(headings)), Titles(Scope(b)))
<1> DEFINE p == HeadingPath(headings)
           q == Scope(b)
           s == Titles(p)
           t == Titles(q)
           V == Seq(Chars)
<1>1. p \in Seq(0 .. Len(doc)) /\ Len(p) \in Nat
  BY PathLength
<1>2. q = ScopeOf(doc, b)
  BY ScopeIsScopeOf
<1>3. q \in Seq(0 .. Len(doc)) /\ Len(q) \in Nat
  <2>1. b - 1 \in Nat /\ b - 1 <= Len(doc) /\ Len(doc) \in Nat
    OBVIOUS
  <2> DEFINE S == InScope(doc, b)
             A == S \cap 1 .. b - 1
             B == 0 .. Len(doc)
  <2>2. q \in Seq(A)
    BY <1>2, <2>1, AscendingIsAscending DEF ScopeOf, IsAscending
  <2>3. A \subseteq B
    BY <2>1
  <2> HIDE DEF A, B, q
  <2>4. q \in Seq(B)
    BY <2>2, <2>3
  <2> QED
    BY <2>4 DEF B
<1>4. Len(p) <= Len(q) /\ \A k \in 1 .. Len(p) : TitleOf(doc, p[k]) = TitleOf(doc, q[k])
  BY <1>2 DEF IsUpper
<1>5. /\ s \in Seq(V) /\ t \in Seq(V) /\ Len(s) = Len(p) /\ Len(t) = Len(q)
      /\ \A k \in 1 .. Len(p) : s[k] = TitleOf(doc, p[k])
      /\ \A k \in 1 .. Len(q) : t[k] = TitleOf(doc, q[k])
  BY <1>1, <1>3, TitlesPlaces DEF Texts
<1> HIDE DEF p, q, s, t, V
<1> DEFINE n == Len(p)
           u == SubSeq(s, 1, n)
           v == SubSeq(t, 1, n)
<1>6. n \in Nat /\ 1 <= n + 1 /\ n <= Len(s) /\ n <= Len(t) /\ n - 1 + 1 = n
      /\ \A i \in 1 .. n : 1 + i - 1 = i
  BY <1>1, <1>3, <1>4, <1>5
<1> HIDE DEF n
<1>7. IsPart(u, V, s, 1, n) /\ IsPart(v, V, t, 1, n)
  BY <1>5, <1>6, PartPlaces
<1>8. /\ u \in Seq(V) /\ v \in Seq(V) /\ Len(u) = n /\ Len(v) = n
      /\ \A i \in 1 .. n : u[i] = s[i] /\ v[i] = t[i]
  BY <1>6, <1>7 DEF IsPart
<1>9. \A i \in 1 .. n : s[i] = t[i]
  <2>1. \A i \in 1 .. n : i \in 1 .. Len(q)
    BY <1>1, <1>3, <1>4 DEF n
  <2> QED
    BY <2>1, <1>4, <1>5 DEF n
<1> HIDE DEF u, v
<1>10. u = v
  BY <1>8, <1>9, SeqEqual
<1>11. Len(s) <= Len(t) /\ Len(s) = n
  BY <1>4, <1>5 DEF n
<1>12. IsPrefix(s, t)
  BY <1>10, <1>11 DEF IsPrefix, u, v
<1> QED
  BY <1>12 DEF s, t, p, q

\* The invariant says what HeadingsInScope says.
LEMMA TitlesAreInScope == TypeInv /\ TitleInv => HeadingsInScope
<1> SUFFICES ASSUME TypeInv, TitleInv PROVE HeadingsInScope
  OBVIOUS
<1>1. TypeOK /\ doc \in Seq(Nodes) /\ sections \in Seq(Section) /\ chunks \in Seq(Chunk)
  BY DEF TypeInv, TypeOK
<1>2. ASSUME NEW i \in 1 .. Len(sections), NEW b \in ToSet(sections[i].blocks)
      PROVE  IsPrefix(Titles(HeadingPath(sections[i].headings)), Titles(Scope(b)))
  <2>1. PICK k \in 1 .. Len(sections[i].blocks) : sections[i].blocks[k] = b
    BY <1>2 DEF ToSet
  <2>2. b \in 1 .. Len(doc)
    BY <1>1, <2>1, SectionPlaces
  <2>3. sections[i] \in Section
    BY <1>1, Element
  <2>4. sections[i].headings \in Seq(0 .. Len(doc))
    BY <2>3, SectionFields
  <2>5. IsUpper(doc, sections[i].headings, b)
    BY <2>1 DEF TitleInv, Under
  <2> QED
    BY <1>1, <2>2, <2>4, <2>5, UpperIsPrefix
<1>3. ASSUME NEW i \in 1 .. Len(chunks), NEW p \in ToSet(chunks[i].pieces)
      PROVE  IsPrefix(Titles(HeadingPath(chunks[i].headings)), Titles(Scope(p.block)))
  <2>1. PICK k \in 1 .. Len(chunks[i].pieces) : chunks[i].pieces[k] = p
    BY <1>3 DEF ToSet
  <2>2. chunks[i] \in Chunk
    BY <1>1, Element
  <2>3. chunks[i].headings \in Seq(0 .. Len(doc)) /\ chunks[i].pieces \in Seq(Piece)
    BY <2>2 DEF Chunk
  <2>4. p \in Piece
    BY <2>1, <2>3, Element
  <2>5. p.block \in 1 .. Len(doc)
    BY <2>4 DEF Piece
  <2>6. IsUpper(doc, chunks[i].headings, p.block)
    BY <2>1 DEF TitleInv, Told
  <2> QED
    BY <1>1, <2>3, <2>5, <2>6, UpperIsPrefix
<1> QED
  BY <1>2, <1>3 DEF HeadingsInScope

\* No section and no chunk is ever put under a heading its blocks are not
\* under, whatever levels the headings of a document skip and whichever
\* siblings are merged (HeadingsInScope; pushHeading, mergeSmallSections).
THEOREM ScopesAreKept == Spec => []HeadingsInScope
<1>1. Init => TitleInv
  BY InitTitles
<1>2. TypeInv /\ TitleInv /\ [Next]_vars => TitleInv'
  BY TitleStep
<1>3. TypeInv /\ TitleInv => HeadingsInScope
  BY TitlesAreInScope
<1>4. Spec => []TypeInv
  BY TypeInvHolds
<1> QED
  BY <1>1, <1>2, <1>3, <1>4, PTL DEF Spec
-----------------------------------------------------------------------------
(* MergedStaysWhole *)

\* The heading context of a document's blocks, as a function of the document.
RenderedIn(d, h) == [i \in 1 .. d[h].level |-> "p"] \o <<"s">> \o d[h].text

ContextIn(d, headings) ==
  LET path == HeadingPath(headings) IN
  CountTokens(JoinTexts([i \in 1 .. Len(path) |-> RenderedIn(d, path[i])], <<"s", "p", "s">>))

\* ContextTokens, with the document as a parameter.
LEMMA ContextIsContextIn == \A headings : ContextTokens(headings) = ContextIn(doc, headings)
BY DEF ContextTokens, ContextText, Rendered, Text, ContextIn, RenderedIn

\* All blocks of a section have the scope that its headings show: no merge
\* went into it.
IsPure(d, s) == \A k \in 1 .. Len(s.blocks) : ScopeOf(d, s.blocks[k]) = HeadingPath(s.headings)

\* All blocks fit into one chunk, with the heading context.
HasRoom(d, s) == s.tokens + ContextIn(d, s.headings) <= TargetMax

\* f adds up the tokens of blocks.
Adds(d, f, blocks) ==
  /\ f[0] = 0
  /\ \A k \in 1 .. Len(blocks) : f[k] = f[k - 1] + NodeTokens[d[blocks[k]]]

SumUpTo(d, blocks, v) == \E f : Adds(d, f, blocks) /\ f[Len(blocks)] = v

IsWeighed(d, s) == SumUpTo(d, s.blocks, s.tokens)

\* The tokens of these blocks, and their sums, are numbers.
AreNumbers(d, g, blocks) ==
  /\ \A i \in 0 .. Len(blocks) : g[i] \in Nat
  /\ \A i \in 1 .. Len(blocks) : NodeTokens[d[blocks[i]]] \in Nat

\* The sequence r is s and t behind it.
IsBoth(r, s, t) ==
  /\ Len(s) \in Nat /\ Len(t) \in Nat /\ Len(r) = Len(s) + Len(t)
  /\ \A i \in 1 .. Len(s) : r[i] = s[i]
  /\ \A i \in 1 .. Len(t) : r[Len(s) + i] = t[i]

\* Not a block of the first section has been flushed, and none has to be.
IsKept ==
  /\ start = 0 /\ Len(group) = pos - 1 /\ sections[1].tokens <= budget
  /\ \E f : /\ Adds(doc, f, sections[1].blocks)
            /\ f[Len(sections[1].blocks)] = sections[1].tokens
            /\ f[pos - 1] = currentTokens

\* The inductive invariant of MergedStaysWhole.
RoomInv ==
  /\ \A i \in 1 .. Len(sections) :
       /\ IsWeighed(doc, sections[i])
       /\ IsPure(doc, sections[i]) \/ (phase # "walk" /\ HasRoom(doc, sections[i]))
  /\ Splitting => IsPure(doc, sections[1]) \/ IsKept

\* The sums are numbers and do not fall.
LEMMA SumsRise ==
  ASSUME NEW d \in Seq(Nodes), NEW blocks \in Seq(1 .. Len(d)), NEW f, Adds(d, f, blocks)
  PROVE  \A k \in 0 .. Len(blocks) : f[k] \in Nat /\ f[k] <= f[Len(blocks)]
<1> DEFINE n == Len(blocks)
           N == {k \in 0 .. n : f[k] \in Nat}
           U == {k \in 0 .. n : f[n - k] <= f[n]}
<1>1. n \in Nat /\ 0 \in 0 .. n /\ n - 0 = n
  OBVIOUS
<1>2. ASSUME NEW k \in 1 .. n PROVE NodeTokens[d[blocks[k]]] \in Nat
  <2>1. blocks[k] \in 1 .. Len(d)
    BY Element
  <2>2. d[blocks[k]] \in Nodes
    BY <2>1, Element
  <2> QED
    BY <2>2, NodeFacts
<1>3. f[0] = 0 /\ \A k \in 1 .. n : f[k] = f[k - 1] + NodeTokens[d[blocks[k]]]
  BY DEF Adds
<1> HIDE DEF n
<1>4. \A k \in 0 .. n : k \in N
  <2>1. 0 \in N
    BY <1>1, <1>3
  <2>2. ASSUME NEW k \in 1 .. n, k - 1 \in N PROVE k \in N
    <3>1. f[k - 1] \in Nat /\ NodeTokens[d[blocks[k]]] \in Nat /\ k \in 0 .. n
      BY <2>2, <1>1, <1>2
    <3>2. f[k] = f[k - 1] + NodeTokens[d[blocks[k]]]
      BY <1>3
    <3>3. \A x, y \in Nat : x + y \in Nat
      OBVIOUS
    <3>4. f[k] \in Nat
      BY <3>1, <3>2, <3>3
    <3> QED
      BY <3>1, <3>4
  <2> HIDE DEF N
  <2> QED
    BY <2>1, <2>2, <1>1, Induction
<1>5. \A k \in 0 .. n : f[k] \in Nat
  BY <1>4
<1>6. \A k \in 0 .. n : k \in U
  <2>1. 0 \in U
    BY <1>1, <1>5
  <2>2. ASSUME NEW k \in 1 .. n, k - 1 \in U PROVE k \in U
    <3> DEFINE j == n - k
    <3>1. j \in 0 .. n /\ j + 1 \in 1 .. n /\ j + 1 - 1 = j /\ n - (k - 1) = j + 1 /\ k \in 0 .. n
          /\ j + 1 \in 0 .. n
      BY <1>1, <2>2
    <3>2. f[j + 1] <= f[n]
      BY <2>2, <3>1
    <3> HIDE DEF j
    <3>3. f[j + 1] = f[j] + NodeTokens[d[blocks[j + 1]]]
      BY <1>3, <3>1
    <3>4. f[j] \in Nat /\ f[j + 1] \in Nat /\ f[n] \in Nat /\ NodeTokens[d[blocks[j + 1]]] \in Nat
      BY <1>1, <1>2, <1>5, <3>1
    <3>5. \A x, y, z, w \in Nat : x <= y /\ x = z + w => z <= y
      OBVIOUS
    <3>6. f[j] <= f[n]
      BY <3>2, <3>3, <3>4, <3>5
    <3> QED
      BY <3>1, <3>6 DEF j
  <2> HIDE DEF U
  <2> QED
    BY <2>1, <2>2, <1>1, Induction
<1>7. ASSUME NEW k \in 0 .. n PROVE f[k] <= f[n]
  <2>1. n - k \in 0 .. n /\ n - (n - k) = k
    BY <1>1, <1>7
  <2>2. n - k \in U
    BY <1>6, <2>1
  <2> QED
    BY <2>1, <2>2
<1> QED
  BY <1>5, <1>7 DEF n

\* A longer document changes neither the sums nor the scopes of a section.
LEMMA WeighedStays ==
  ASSUME NEW d, NEW e, NEW n, IsExtended(e, d, n), NEW s,
         \A k \in 1 .. Len(s.blocks) : s.blocks[k] \in 1 .. Len(d)
  PROVE  /\ IsWeighed(d, s) => IsWeighed(e, s)
         /\ IsPure(d, s) => IsPure(e, s)
<1>1. /\ Len(d) \in Nat /\ \A i \in 1 .. Len(d) : e[i] = d[i] /\ i \in 1 .. Len(d) + 1
  BY DEF IsExtended
<1>2. \A k \in 1 .. Len(s.blocks) : e[s.blocks[k]] = d[s.blocks[k]]
  BY <1>1
<1>3. IsWeighed(d, s) => IsWeighed(e, s)
  BY <1>2 DEF IsWeighed, SumUpTo, Adds
<1>4. \A k \in 1 .. Len(s.blocks) : ScopeOf(e, s.blocks[k]) = ScopeOf(d, s.blocks[k])
  BY <1>1, ScopeStays
<1> QED
  BY <1>3, <1>4 DEF IsPure

\* The sums of a longer sequence, or of two in one.
LEMMA SumsGoOn ==
  ASSUME NEW d, NEW s, NEW t, NEW r, IsBoth(r, s, t),
         NEW f, Adds(d, f, s), NEW v \in Nat, f[Len(s)] = v,
         NEW g, Adds(d, g, t), NEW u, g[Len(t)] = u, AreNumbers(d, g, t)
  PROVE  SumUpTo(d, r, v + u)
<1> DEFINE a == Len(s)
           b == Len(t)
           h == [k \in 0 .. a + b |-> IF k <= a THEN f[k] ELSE f[a] + g[k - a]]
           w(x) == NodeTokens[d[x]]
<1>1. /\ a \in Nat /\ b \in Nat /\ Len(r) = a + b /\ f[a] \in Nat
      /\ \A i \in 0 .. b : g[i] \in Nat
      /\ \A i \in 1 .. b : w(t[i]) \in Nat
      /\ \A i \in 1 .. a : r[i] = s[i]
      /\ \A i \in 1 .. b : r[a + i] = t[i]
  BY DEF IsBoth, AreNumbers
<1>2. /\ f[0] = 0 /\ \A k \in 1 .. a : f[k] = f[k - 1] + w(s[k])
      /\ g[0] = 0 /\ \A k \in 1 .. b : g[k] = g[k - 1] + w(t[k])
  BY DEF Adds
<1> HIDE DEF a, b, w
<1>3. /\ \A k \in 0 .. a : h[k] = f[k]
      /\ \A k \in 0 .. a + b : ~ (k <= a) => h[k] = f[a] + g[k - a]
  <2>1. \A k \in 0 .. a : k \in 0 .. a + b /\ k <= a
    BY <1>1
  <2> QED
    BY <2>1
<1>4. h[a] = f[a]
  BY <1>1, <1>3
<1> HIDE DEF h
<1>5. h[0] = 0
  BY <1>1, <1>2, <1>3
<1>6. ASSUME NEW k \in 1 .. a + b PROVE h[k] = h[k - 1] + w(r[k])
  <2>1. CASE k <= a
    <3>1. k \in 1 .. a /\ k \in 0 .. a /\ k - 1 \in 0 .. a
      BY <1>1, <2>1
    <3> QED
      BY <3>1, <1>1, <1>2, <1>3
  <2>2. CASE k > a
    <3> DEFINE i == k - a
    <3>1. i \in 1 .. b /\ a + i = k /\ i \in 0 .. b /\ i - 1 \in 0 .. b /\ k \in 0 .. a + b /\ ~ (k <= a)
      BY <1>1, <2>2
    <3>2. h[k] = f[a] + g[i]
      BY <3>1, <1>3
    <3>3. h[k - 1] = f[a] + g[i - 1]
      <4>1. CASE i = 1
        <5>1. k - 1 = a /\ i - 1 = 0
          <6>1. \A x, y \in Nat : x - y = 1 => x - 1 = y /\ x - y - 1 = 0
            OBVIOUS
          <6>2. k \in Nat /\ a \in Nat
            BY <3>1, <1>1
          <6> QED
            BY <4>1, <6>1, <6>2
        <5>2. \A x \in Nat : x + 0 = x
          OBVIOUS
        <5> HIDE DEF i
        <5> QED
          BY <5>1, <5>2, <1>1, <1>2, <1>4
      <4>2. CASE i # 1
        <5>1. k - 1 \in 0 .. a + b /\ ~ (k - 1 <= a) /\ k - 1 - a = i - 1
          BY <4>2, <3>1, <1>1
        <5> QED
          BY <5>1, <1>3
      <4> QED
        BY <4>1, <4>2
    <3> HIDE DEF i
    <3>4. g[i] = g[i - 1] + w(t[i]) /\ r[k] = t[i]
      BY <3>1, <1>1, <1>2
    <3>5. f[a] \in Nat /\ g[i - 1] \in Nat /\ w(t[i]) \in Nat
      BY <3>1, <1>1
    <3>6. \A x, y, z \in Nat : x + (y + z) = x + y + z
      OBVIOUS
    <3> QED
      BY <3>2, <3>3, <3>4, <3>5, <3>6
  <2> QED
    BY <2>1, <2>2, <1>1
<1>7. h[a + b] = f[a] + g[b]
  <2>1. CASE b = 0
    <3>1. a + b = a
      BY <2>1, <1>1
    <3>2. \A x \in Nat : x + 0 = x
      OBVIOUS
    <3> QED
      BY <2>1, <3>1, <3>2, <1>1, <1>2, <1>4
  <2>2. CASE b # 0
    <3> DEFINE c == a + b
    <3>1. c \in 0 .. c /\ ~ (c <= a) /\ c - a = b
      BY <2>2, <1>1
    <3>2. \A k \in 0 .. c : ~ (k <= a) => h[k] = f[a] + g[k - a]
      BY <1>3
    <3> HIDE DEF c
    <3>3. h[c] = f[a] + g[c - a]
      BY <3>1, <3>2
    <3>4. h[c] = f[a] + g[b]
      BY <3>1, <3>3
    <3> QED
      BY <3>4 DEF c
  <2> QED
    BY <2>1, <2>2
<1>8. Adds(d, h, r)
  BY <1>1, <1>5, <1>6 DEF Adds, w
<1> QED
  BY <1>1, <1>7, <1>8 DEF SumUpTo, a, b

\* The sum over one block.
LEMMA OneSum ==
  ASSUME NEW d, NEW b, NodeTokens[d[b]] \in Nat
  PROVE  \E g : /\ Adds(d, g, <<b>>) /\ g[1] = NodeTokens[d[b]]
                /\ \A i \in 0 .. 1 : g[i] \in Nat
<1> DEFINE v == NodeTokens[d[b]]
           g == [i \in 0 .. 1 |-> IF i = 0 THEN 0 ELSE v]
<1>1. v \in Nat /\ Len(<<b>>) = 1 /\ <<b>>[1] = b
  OBVIOUS
<1>2. NodeTokens[d[<<b>>[1]]] = v
  BY <1>1
<1> HIDE DEF v
<1>3. g[0] = 0 /\ g[1] = v /\ \A i \in 0 .. 1 : g[i] \in Nat
  BY <1>1
<1> HIDE DEF g
<1>4. g[1] = g[1 - 1] + v
  BY <1>1, <1>3
<1>5. \A k \in 1 .. 1 : k = 1
  OBVIOUS
<1>6. Adds(d, g, <<b>>)
  BY <1>1, <1>2, <1>3, <1>4, <1>5 DEF Adds
<1> QED
  BY <1>3, <1>6 DEF v

\* While the document is walked every section is of one scope.
LEMMA WalkRoom ==
  ASSUME TypeInv, TitleInv, RoomInv, NEW n \in Nodes, Walk(n)
  PROVE  RoomInv'
<1> DEFINE m == Len(doc)
           k == Len(sections)
<1>1. /\ IsExtended(doc', doc, n) /\ doc \in Seq(Nodes) /\ stack \in Seq(0 .. m)
      /\ phase = "walk" /\ phase' = "walk" /\ Placed(doc, stack)
      /\ m \in Nat /\ doc'[m + 1] = n
  BY WalkExtends DEF TypeInv, TitleInv, IsExtended
<1>2. ASSUME NEW i \in 1 .. k
      PROVE  /\ sections[i].tokens \in Nat
             /\ \A j \in 1 .. Len(sections[i].blocks) : sections[i].blocks[j] \in 1 .. m
             /\ Len(sections[i].blocks) \in Nat /\ sections[i].blocks \in Seq(1 .. m)
  <2>1. TypeOK /\ sections \in Seq(Section)
    BY DEF TypeInv, TypeOK
  <2>2. sections[i] \in Section
    BY <2>1, Element
  <2> QED
    BY <2>1, <2>2, SectionPlaces, SectionFields
<1>3. ASSUME NEW i \in 1 .. k PROVE IsWeighed(doc', sections[i]) /\ IsPure(doc', sections[i])
  <2>1. IsWeighed(doc, sections[i]) /\ IsPure(doc, sections[i])
    BY <1>1 DEF RoomInv
  <2> QED
    BY <2>1, <1>1, <1>2, WeighedStays
<1>4. HeadingPath(stack) = ScopeOf(doc', m + 1)
  BY <1>1, BlockUnderStack
<1>5. NodeTokens[doc'[m + 1]] \in Nat
  BY <1>1, NodeFacts
<1>6. PICK g : /\ Adds(doc', g, <<m + 1>>) /\ g[1] = NodeTokens[n]
               /\ \A i \in 0 .. 1 : g[i] \in Nat
  BY <1>1, <1>5, OneSum
<1>7. \A i \in 1 .. Len(sections') : IsWeighed(doc', sections'[i]) /\ IsPure(doc', sections'[i])
  <2>1. CASE sections' = sections
    BY <2>1, <1>3
  <2>2. CASE Grows(n)
    <3> DEFINE old == sections[k].blocks
               s == sections'[k]
    <3>1. /\ k \in Nat /\ k > 0 /\ sections[k].headings = stack /\ Len(sections') = k
          /\ \A i \in 1 .. k - 1 : sections'[i] = sections[i]
          /\ s.headings = stack /\ s.blocks = Append(old, m + 1)
          /\ s.tokens = sections[k].tokens + NodeTokens[n]
      BY <2>2 DEF Grows
    <3>2. k \in 1 .. k
      BY <3>1
    <3>3. /\ IsWeighed(doc', sections[k]) /\ IsPure(doc', sections[k])
          /\ Len(old) \in Nat /\ old \in Seq(1 .. m)
          /\ sections[k].tokens \in Nat
      BY <3>2, <1>2, <1>3
    <3>4. \A j \in 1 .. Len(old) : ScopeOf(doc', old[j]) = HeadingPath(stack)
      BY <3>1, <3>3 DEF IsPure
    <3>5. PICK f : Adds(doc', f, old) /\ f[Len(old)] = sections[k].tokens
      BY <3>3 DEF IsWeighed, SumUpTo
    <3>6. Len(s.blocks) = Len(old) + 1 /\ s.blocks[Len(old) + 1] = m + 1
          /\ \A j \in 1 .. Len(old) : s.blocks[j] = old[j]
      <4> HIDE DEF old, s, m
      <4> QED
        BY <1>1, <3>1, <3>3, LongerBlocks
    <3> HIDE DEF old, s
    <3>7. IsPure(doc', s)
      <4>1. ASSUME NEW j \in 1 .. Len(s.blocks)
            PROVE  ScopeOf(doc', s.blocks[j]) = HeadingPath(s.headings)
        <5>1. j \in 1 .. Len(old) \/ j = Len(old) + 1
          BY <3>3, <3>6
        <5> QED
          BY <5>1, <3>1, <3>4, <3>6, <1>4
      <4> QED
        BY <4>1 DEF IsPure
    <3>8. IsWeighed(doc', s)
      <4> DEFINE t == <<m + 1>>
      <4>1. Len(t) = 1 /\ t[1] = m + 1 /\ \A i \in 1 .. 1 : i = 1
        OBVIOUS
      <4>2. IsBoth(s.blocks, old, t)
        BY <4>1, <3>3, <3>6 DEF IsBoth
      <4>3. AreNumbers(doc', g, t) /\ g[Len(t)] = NodeTokens[n] /\ Adds(doc', g, t)
        BY <4>1, <1>5, <1>6 DEF AreNumbers
      <4> HIDE DEF t
      <4>4. SumUpTo(doc', s.blocks, sections[k].tokens + NodeTokens[n])
        BY <4>2, <4>3, <3>3, <3>5, SumsGoOn
      <4> QED
        BY <4>4, <3>1 DEF IsWeighed
    <3>9. ASSUME NEW i \in 1 .. k PROVE IsWeighed(doc', sections'[i]) /\ IsPure(doc', sections'[i])
      <4>1. CASE i = k
        BY <4>1, <3>7, <3>8 DEF s
      <4>2. CASE i # k
        <5>1. i \in 1 .. k - 1
          BY <4>2, <3>1
        <5> QED
          BY <5>1, <3>1, <1>3
      <4> QED
        BY <4>1, <4>2
    <3> QED
      BY <3>1, <3>9
  <2>3. CASE Begins(n)
    <3> DEFINE s == sections'[k + 1]
    <3>1. /\ k \in Nat /\ Len(sections') = k + 1
          /\ \A i \in 1 .. k : sections'[i] = sections[i]
          /\ s.headings = stack /\ s.blocks = <<m + 1>> /\ s.tokens = NodeTokens[n]
      BY <2>3 DEF Begins
    <3>2. Len(s.blocks) = 1 /\ s.blocks[1] = m + 1
      BY <3>1
    <3> HIDE DEF s
    <3>3. IsPure(doc', s)
      BY <3>1, <3>2, <1>4 DEF IsPure
    <3>4. IsWeighed(doc', s)
      BY <3>1, <3>2, <1>6 DEF IsWeighed, SumUpTo
    <3>5. ASSUME NEW i \in 1 .. k + 1
          PROVE  IsWeighed(doc', sections'[i]) /\ IsPure(doc', sections'[i])
      <4>1. CASE i = k + 1
        BY <4>1, <3>3, <3>4 DEF s
      <4>2. CASE i # k + 1
        <5>1. i \in 1 .. k
          BY <4>2, <3>1
        <5> QED
          BY <5>1, <3>1, <1>3
      <4> QED
        BY <4>1, <4>2
    <3> QED
      BY <3>1, <3>5
  <2> QED
    BY <2>1, <2>2, <2>3, WalkPlaces DEF TypeInv
<1> QED
  BY <1>1, <1>7 DEF RoomInv, Splitting

\* Two sections are merged only where both fit under the parent.
LEMMA MergeRoom ==
  ASSUME TypeOK, RoomInv, Merge
  PROVE  RoomInv'
<1> DEFINE n == Len(sections)
<1>1. PICK a \in 1 .. Len(sections) - 1 : IsMerge(a)
  BY MergePlaces
<1> DEFINE x == sections[a]
           y == sections[a + 1]
           z == sections'[a]
           V == 1 .. Len(doc)
<1>2. phase = "merge" /\ doc' = doc /\ phase' = phase /\ doc \in Seq(Nodes)
  BY DEF Merge, TypeOK
<1>3. /\ n \in Nat /\ a \in 1 .. n - 1 /\ Len(sections') = n - 1 /\ z = MergeInto(x, y)
      /\ CombinedFits(x, y)
      /\ \A i \in 1 .. a - 1 : sections'[i] = sections[i]
      /\ \A i \in a + 1 .. n - 1 : sections'[i] = sections[i + 1]
      /\ x \in Section /\ y \in Section
  BY <1>1 DEF IsMerge
<1>4. \A i \in 1 .. n : /\ IsWeighed(doc, sections[i])
                        /\ IsPure(doc, sections[i]) \/ HasRoom(doc, sections[i])
  BY DEF RoomInv
<1> HIDE DEF n
<1>5. a \in 1 .. n /\ a + 1 \in 1 .. n
  BY <1>3
<1>6. x.blocks # <<>> /\ y.blocks # <<>>
  BY <1>5 DEF TypeOK, n
<1>7. /\ z.headings = ParentPath(x.headings) /\ z.tokens = x.tokens + y.tokens
      /\ IsConcat(z.blocks, V, x.blocks, y.blocks)
  <2> HIDE DEF x, y, z
  <2> QED
    BY <1>3, <1>6, MergedSection
<1>8. HasRoom(doc, z)
  BY <1>3, <1>7, ContextIsContextIn DEF CombinedFits, HasRoom
<1>9. x.blocks \in Seq(V) /\ y.blocks \in Seq(V)
  BY <1>3, SectionFields
<1>10. PICK f : Adds(doc, f, x.blocks) /\ f[Len(x.blocks)] = x.tokens
  BY <1>4, <1>5 DEF IsWeighed, SumUpTo
<1>11. PICK g : Adds(doc, g, y.blocks) /\ g[Len(y.blocks)] = y.tokens
  BY <1>4, <1>5 DEF IsWeighed, SumUpTo
<1> HIDE DEF x, y, z
<1>12. /\ Len(x.blocks) \in Nat /\ Len(y.blocks) \in Nat /\ Len(x.blocks) \in 0 .. Len(x.blocks)
  BY <1>7 DEF IsConcat
<1>13. f[Len(x.blocks)] \in Nat /\ \A i \in 0 .. Len(y.blocks) : g[i] \in Nat
  BY <1>2, <1>9, <1>10, <1>11, <1>12, SumsRise DEF V
<1>14. ASSUME NEW i \in 1 .. Len(y.blocks) PROVE NodeTokens[doc[y.blocks[i]]] \in Nat
  <2>1. y.blocks[i] \in V
    BY <1>9, Element
  <2>2. doc[y.blocks[i]] \in Nodes
    BY <1>2, <2>1, Element DEF V
  <2> QED
    BY <2>2, NodeFacts
<1>15. IsWeighed(doc, z)
  <2>1. IsBoth(z.blocks, x.blocks, y.blocks)
    BY <1>7 DEF IsConcat, IsBoth
  <2>2. AreNumbers(doc, g, y.blocks) /\ x.tokens \in Nat
    BY <1>10, <1>13, <1>14 DEF AreNumbers
  <2>3. SumUpTo(doc, z.blocks, x.tokens + y.tokens)
    BY <2>1, <2>2, <1>10, <1>11, SumsGoOn
  <2> QED
    BY <2>3, <1>7 DEF IsWeighed
<1>16. ASSUME NEW i \in 1 .. n - 1
       PROVE  /\ IsWeighed(doc, sections'[i])
              /\ IsPure(doc, sections'[i]) \/ HasRoom(doc, sections'[i])
  <2>1. CASE i = a
    BY <2>1, <1>8, <1>15 DEF z
  <2>2. CASE i < a
    <3>1. i \in 1 .. a - 1 /\ i \in 1 .. n
      BY <2>2, <1>3
    <3> QED
      BY <3>1, <1>3, <1>4
  <2>3. CASE i > a
    <3>1. i \in a + 1 .. n - 1 /\ i + 1 \in 1 .. n
      BY <2>3, <1>3
    <3> QED
      BY <3>1, <1>3, <1>4
  <2> QED
    BY <2>1, <2>2, <2>3, <1>3
<1>17. \A i \in 1 .. Len(sections') :
         /\ IsWeighed(doc', sections'[i])
         /\ IsPure(doc', sections'[i]) \/ (phase' # "walk" /\ HasRoom(doc', sections'[i]))
  BY <1>2, <1>3, <1>16
<1> QED
  BY <1>2, <1>17 DEF RoomInv, Splitting

\* A section with room is not more than its budget.
LEMMA RoomIsBudget ==
  ASSUME doc \in Seq(Nodes), NEW rest \in Seq(Section), rest # <<>>, HasRoom(doc, rest[1])
  PROVE  rest[1].tokens <= BudgetFor(rest)
<1> DEFINE c == ContextTokens(rest[1].headings)
           v == rest[1].tokens
<1>1. rest[1] \in Section
  BY FirstElement
<1>2. v \in Nat /\ c \in Nat
  BY <1>1, SectionFields, ContextIsNat
<1>3. v + c <= TargetMax
  BY ContextIsContextIn DEF HasRoom
<1>4. BudgetFor(rest) = Max({1, TargetMax - c}) /\ TargetMax \in Nat
  BY ChunkerAssumption DEF BudgetFor
<1> HIDE DEF c, v
<1>5. BudgetFor(rest) = IF 1 >= TargetMax - c THEN 1 ELSE TargetMax - c
  BY <1>2, <1>4, MaxOfTwo
<1>6. v <= BudgetFor(rest)
  BY <1>2, <1>3, <1>4, <1>5
<1> QED
  BY <1>6 DEF v

\* A section begins with nothing flushed.
LEMMA SectionBegins ==
  ASSUME doc \in Seq(Nodes), sections' \in Seq(Section), doc' = doc, budget' = BudgetFor(sections'),
         pos' = 1, start' = 0, group' = <<>>, currentTokens' = 0, phase' = "split",
         \A i \in 1 .. Len(sections') :
           /\ IsWeighed(doc, sections'[i])
           /\ IsPure(doc, sections'[i]) \/ HasRoom(doc, sections'[i])
  PROVE  RoomInv'
<1>1. ASSUME sections' # <<>> PROVE IsPure(doc', sections'[1]) \/ IsKept'
  <2>1. 1 \in 1 .. Len(sections')
    BY <1>1, FirstElement
  <2>2. IsWeighed(doc, sections'[1]) /\ (IsPure(doc, sections'[1]) \/ HasRoom(doc, sections'[1]))
    BY <2>1
  <2>3. CASE IsPure(doc, sections'[1])
    BY <2>3
  <2>4. CASE HasRoom(doc, sections'[1])
    <3>1. sections'[1].tokens <= budget'
      BY <1>1, <2>4, RoomIsBudget
    <3>2. Len(group') = pos' - 1 /\ start' = 0 /\ pos' - 1 = 0 /\ currentTokens' = 0
      OBVIOUS
    <3>3. PICK f : /\ Adds(doc, f, sections'[1].blocks)
                   /\ f[Len(sections'[1].blocks)] = sections'[1].tokens
      BY <2>2 DEF IsWeighed, SumUpTo
    <3>4. f[pos' - 1] = currentTokens'
      BY <3>2, <3>3 DEF Adds
    <3> QED
      BY <3>1, <3>2, <3>3, <3>4 DEF IsKept
  <2> QED
    BY <2>2, <2>3, <2>4
<1>2. \A i \in 1 .. Len(sections') :
        /\ IsWeighed(doc', sections'[i])
        /\ IsPure(doc', sections'[i]) \/ (phase' # "walk" /\ HasRoom(doc', sections'[i]))
  OBVIOUS
<1> QED
  BY <1>1, <1>2 DEF RoomInv, Splitting

\* The first section that is split has its group empty.
LEMMA AllMergedRoom ==
  ASSUME TypeInv, RoomInv, AllMerged
  PROVE  RoomInv'
<1>1. /\ phase = "merge" /\ phase' = "split" /\ UNCHANGED <<doc, sections, pos, start, group, currentTokens>>
      /\ budget' = BudgetFor(sections)
  BY DEF AllMerged
<1>2. pos' = 1 /\ start' = 0 /\ group' = <<>> /\ currentTokens' = 0
  BY <1>1 DEF TypeInv, Idle
<1>3. doc \in Seq(Nodes) /\ sections' \in Seq(Section) /\ budget' = BudgetFor(sections')
  BY <1>1 DEF TypeInv, TypeOK
<1>4. \A i \in 1 .. Len(sections') :
        /\ IsWeighed(doc, sections'[i])
        /\ IsPure(doc, sections'[i]) \/ HasRoom(doc, sections'[i])
  BY <1>1 DEF RoomInv
<1> QED
  BY <1>1, <1>2, <1>3, <1>4, SectionBegins

\* So has the next one.
LEMMA EndSectionRoom ==
  ASSUME TypeOK, RoomInv, EndSection
  PROVE  RoomInv'
<1>1. /\ phase = "split" /\ sections # <<>> /\ UNCHANGED <<doc, stack, phase, start>>
      /\ group' = <<>> /\ currentTokens' = 0 /\ pos' = 1 /\ sections' = Tail(sections)
      /\ budget' = BudgetFor(Tail(sections)) /\ pos > Len(sections[1].blocks)
  BY DEF EndSection, Splitting
<1>2. doc \in Seq(Nodes) /\ sections \in Seq(Section)
  BY DEF TypeOK
<1>3. start' = 0
  <2>1. SUFFICES ASSUME start > 0 PROVE FALSE
    BY <1>1 DEF TypeOK
  <2>2. sections[1].blocks \in Seq(1 .. Len(doc)) /\ pos \in Nat /\ pos <= Len(sections[1].blocks)
    BY <1>1, <1>2, <2>1, FirstElement, SectionFields DEF TypeOK
  <2>3. Len(sections[1].blocks) \in Nat
    BY <2>2
  <2> QED
    BY <1>1, <2>2, <2>3
<1>4. IsTail(sections', Section, sections)
  BY <1>1, <1>2, TailPlaces
<1>5. ASSUME NEW i \in 1 .. Len(sections')
      PROVE  /\ IsWeighed(doc, sections'[i])
             /\ IsPure(doc, sections'[i]) \/ HasRoom(doc, sections'[i])
  <2>1. i + 1 \in 1 .. Len(sections) /\ sections'[i] = sections[i + 1]
    BY <1>4 DEF IsTail
  <2> QED
    BY <2>1, <1>1 DEF RoomInv
<1>6. sections' \in Seq(Section) /\ budget' = BudgetFor(sections')
  BY <1>1, <1>4 DEF IsTail
<1> QED
  BY <1>1, <1>2, <1>3, <1>5, <1>6, SectionBegins

\* A section that is kept has room for its next block.
LEMMA NextFits ==
  ASSUME TypeOK, AtBlock, IsKept
  PROVE  /\ start = 0 /\ Len(group) = pos - 1 /\ sections[1].tokens <= budget
         /\ Fits(NextBlock) /\ currentTokens + BlockTokens(NextBlock) <= budget
         /\ \E f : /\ Adds(doc, f, sections[1].blocks)
                   /\ f[Len(sections[1].blocks)] = sections[1].tokens
                   /\ f[pos] = currentTokens + BlockTokens(NextBlock)
<1> DEFINE bs == sections[1].blocks
           v == sections[1].tokens
           w == BlockTokens(NextBlock)
<1>1. /\ start = 0 /\ Len(group) = pos - 1 /\ v <= budget
      /\ \E f : Adds(doc, f, bs) /\ f[Len(bs)] = v /\ f[pos - 1] = currentTokens
  BY DEF IsKept
<1>2. PICK f : Adds(doc, f, bs) /\ f[Len(bs)] = v /\ f[pos - 1] = currentTokens
  BY <1>1
<1>3. /\ doc \in Seq(Nodes) /\ budget \in 0 .. TargetMax /\ TargetMax \in Nat /\ currentTokens \in Nat
      /\ sections[1] \in Section /\ Len(bs) \in Nat /\ pos \in 1 .. Len(bs) /\ w \in Nat
  BY NextBlockType, ChunkerAssumption DEF TypeOK
<1>4. bs \in Seq(1 .. Len(doc)) /\ v \in Nat
  BY <1>3, SectionFields
<1>5. w = NodeTokens[doc[bs[pos]]]
  BY DEF BlockTokens, NextBlock
<1>6. f[pos] = f[pos - 1] + NodeTokens[doc[bs[pos]]]
  BY <1>2, <1>3 DEF Adds
<1>7. f[pos] = currentTokens + w
  BY <1>2, <1>5, <1>6
<1>8. f[pos] <= v
  <2>1. pos \in 0 .. Len(bs)
    BY <1>3
  <2> HIDE DEF bs, v
  <2> QED
    BY <2>1, <1>2, <1>3, <1>4, SumsRise
<1> HIDE DEF bs, v, w
<1>9. currentTokens + w <= budget /\ w <= budget
  <2>1. currentTokens + w <= v
    BY <1>7, <1>8
  <2> QED
    BY <2>1, <1>1, <1>3, <1>4
<1> QED
  BY <1>1, <1>2, <1>7, <1>9 DEF Fits, bs, v, w

\* In a section that was merged a block that is taken flushes nothing.
LEMMA TakeBlockRoom ==
  ASSUME TypeOK, RoomInv, TakeBlock
  PROVE  RoomInv'
<1> DEFINE w == BlockTokens(NextBlock)
           q == WholeBlock(NextBlock)
<1>1. /\ AtBlock /\ UNCHANGED <<doc, sections, phase, start, budget>> /\ pos' = pos + 1
      /\ ~ (currentTokens > 0 /\ currentTokens + w > budget) =>
            group' = Append(group, q) /\ currentTokens' = currentTokens + w
  BY DEF TakeBlock
<1>2. phase = "split" /\ sections # <<>>
  BY <1>1 DEF AtBlock, Splitting
<1>3. CASE IsPure(doc, sections[1])
  BY <1>1, <1>3 DEF RoomInv, Splitting
<1>4. CASE IsKept
  <2>1. /\ start = 0 /\ Len(group) = pos - 1 /\ sections[1].tokens <= budget
        /\ currentTokens + w <= budget
        /\ \E f : /\ Adds(doc, f, sections[1].blocks)
                  /\ f[Len(sections[1].blocks)] = sections[1].tokens
                  /\ f[pos] = currentTokens + w
    BY <1>1, <1>4, NextFits
  <2>2. PICK f : /\ Adds(doc, f, sections[1].blocks)
                 /\ f[Len(sections[1].blocks)] = sections[1].tokens
                 /\ f[pos] = currentTokens + w
    BY <2>1
  <2>3. /\ pos \in Nat /\ currentTokens \in Nat /\ w \in Nat /\ budget \in Int
        /\ group \in Seq(Piece) /\ q \in Piece
    <3>1. NextBlock \in 1 .. Len(doc) /\ w \in Nat
      BY <1>1, NextBlockType
    <3>2. q \in Piece
      <4>1. 0 \in Nat
        OBVIOUS
      <4> QED
        BY <3>1, <4>1, PieceType
    <3>3. /\ pos \in Nat /\ currentTokens \in Nat /\ group \in Seq(Piece)
          /\ budget \in 0 .. TargetMax
      BY DEF TypeOK
    <3>4. budget \in Int
      BY <3>3
    <3> HIDE DEF w, q
    <3> QED
      BY <3>1, <3>2, <3>3, <3>4
  <2> HIDE DEF w, q
  <2>4. ~ (currentTokens > 0 /\ currentTokens + w > budget)
    BY <2>1, <2>3
  <2>5. group' = Append(group, q) /\ currentTokens' = currentTokens + w
    BY <1>1, <2>4
  <2>6. Len(group') = Len(group) + 1
    BY <2>3, <2>5, AppendedPlaces
  <2>7. pos' - 1 = pos /\ Len(group') = pos' - 1
    BY <1>1, <2>1, <2>3, <2>6
  <2>8. f[pos' - 1] = currentTokens'
    BY <2>2, <2>5, <2>7
  <2>9. IsKept'
    BY <1>1, <2>1, <2>2, <2>7, <2>8 DEF IsKept
  <2> QED
    BY <1>1, <1>2, <2>9 DEF RoomInv, Splitting
<1> QED
  BY <1>2, <1>3, <1>4 DEF RoomInv, Splitting

\* Where a block does not fit or is cut into windows, no merge has been.
LEMMA OtherRoom ==
  ASSUME TypeOK, RoomInv, AtBlock, start > 0 \/ ~ Fits(NextBlock), UNCHANGED <<doc, sections, phase>>
  PROVE  RoomInv'
<1>1. phase = "split" /\ sections # <<>>
  BY DEF AtBlock, Splitting
<1>2. IsPure(doc, sections[1])
  <2>1. SUFFICES ASSUME IsKept PROVE FALSE
    BY <1>1 DEF RoomInv, Splitting
  <2>2. start = 0 /\ Fits(NextBlock)
    BY <2>1, NextFits
  <2> QED
    BY <2>2
<1> QED
  BY <1>1, <1>2 DEF RoomInv, Splitting

\* Before the walk there is no section to have room for.
LEMMA InitRoom == Init => RoomInv
<1> SUFFICES ASSUME Init PROVE RoomInv
  OBVIOUS
<1>1. sections = <<>> /\ phase = "walk"
  BY DEF Init
<1> QED
  BY <1>1 DEF RoomInv, Splitting

\* The invariant of the room is inductive.
LEMMA RoomStep == TypeInv /\ TitleInv /\ RoomInv /\ [Next]_vars => RoomInv'
<1> SUFFICES ASSUME TypeInv, TitleInv, RoomInv, [Next]_vars PROVE RoomInv'
  OBVIOUS
<1>1. TypeOK
  BY DEF TypeInv
<1>2. ASSUME NEW n \in Nodes, Walk(n) PROVE RoomInv'
  BY <1>2, WalkRoom
<1>3. CASE EndOfDocument
  <2>1. phase = "walk" /\ phase' = "merge" /\ UNCHANGED <<doc, sections>>
    BY <1>3 DEF EndOfDocument
  <2> QED
    BY <2>1 DEF RoomInv, Splitting
<1>4. CASE Merge
  BY <1>1, <1>4, MergeRoom
<1>5. CASE AllMerged
  BY <1>5, AllMergedRoom
<1>6. CASE TakeBlock
  BY <1>1, <1>6, TakeBlockRoom
<1>7. CASE TakeOversized
  BY <1>1, <1>7, OtherRoom DEF TakeOversized
<1>8. CASE BeginWindows
  BY <1>1, <1>8, OtherRoom DEF BeginWindows
<1>9. CASE Window
  BY <1>1, <1>9, OtherRoom DEF Window
<1>10. CASE EndSection
  BY <1>1, <1>10, EndSectionRoom
<1>11. CASE UNCHANGED vars
  BY <1>11 DEF vars, RoomInv, Splitting, IsKept
<1> QED
  BY <1>2, <1>3, <1>4, <1>5, <1>6, <1>7, <1>8, <1>9, <1>10, <1>11 DEF Next, Terminated

\* Blocks of different scopes are in a section that was merged, which is kept
\* together.
LEMMA RoomKeepsWhole == RoomInv => MergedStaysWhole
<1> SUFFICES ASSUME RoomInv, Splitting,
                    NEW a \in ToSet(sections[1].blocks), NEW b \in ToSet(sections[1].blocks),
                    Scope(a) # Scope(b)
             PROVE  start = 0 /\ Len(group) = pos - 1
  BY DEF MergedStaysWhole
<1>1. ~ IsPure(doc, sections[1])
  BY ScopeIsScopeOf DEF IsPure, ToSet
<1> QED
  BY <1>1 DEF RoomInv, IsKept

\* What mergeSmallSections has put together because it fits with its context,
\* splitSection never takes apart: merged from blocks of different scopes, a
\* section ends as one chunk (MergedStaysWhole).
THEOREM MergedIsOneChunk == Spec => []MergedStaysWhole
<1>1. Init => TitleInv /\ RoomInv
  BY InitTitles, InitRoom
<1>2. TypeInv /\ TitleInv /\ RoomInv /\ [Next]_vars => (TitleInv /\ RoomInv)'
  BY TitleStep, RoomStep
<1>3. RoomInv => MergedStaysWhole
  BY RoomKeepsWhole
<1>4. Spec => []TypeInv
  BY TypeInvHolds
<1> QED
  BY <1>1, <1>2, <1>3, <1>4, PTL DEF Spec

-----------------------------------------------------------------------------
(* A text cut into pieces *)

\* Where the k-th piece ends when pieces start at s and the last ends at b.
PieceEnd(s, k, b) == IF k = Len(s) THEN b ELSE s[k + 1] - 1

\* Whether x is the part a .. b of t cut at the members of S, which s lists.
IsCutAt(x, t, S, a, b, s) ==
  /\ x \in Texts /\ s \in Seq(Nat) /\ Len(s) \in Nat /\ Len(x) = Len(s)
  /\ \A k \in 1 .. Len(s) :
       s[k] \in S /\ s[k] \in a .. b /\ x[k] = SubSeq(t, s[k], PieceEnd(s, k, b))
  /\ \A i, j \in 1 .. Len(s) : i < j => s[i] < s[j]
  /\ \A i \in a .. b : i \in S => \E k \in 1 .. Len(s) : s[k] = i
  /\ a <= b => Len(s) > 0 /\ s[1] = a

IsCut(x, t, S, a, b) == \E s : IsCutAt(x, t, S, a, b, s)

\* A part in which only the first character is a start is one piece.
LEMMA OnePiece ==
  ASSUME NEW t \in Seq(Chars), NEW S, NEW a \in 1 .. Len(t), NEW b \in a .. Len(t),
         a \in S, \A i \in a + 1 .. b : i \notin S
  PROVE  IsCut(<<SubSeq(t, a, b)>>, t, S, a, b)
<1> DEFINE x == <<SubSeq(t, a, b)>>
           s == <<a>>
<1>1. a \in Nat /\ b \in Nat /\ a > 0 /\ a <= b /\ b <= Len(t) /\ Len(t) \in Nat
  OBVIOUS
<1>2. SubSeq(t, a, b) \in Seq(Chars)
  BY <1>1, SubText
<1>3. x \in Texts /\ s \in Seq(Nat) /\ Len(s) = 1 /\ Len(x) = 1 /\ s[1] = a
      /\ x[1] = SubSeq(t, a, b)
  BY <1>1, <1>2 DEF Texts
<1> HIDE DEF x, s
<1>4. \A k \in 1 .. Len(s) :
        s[k] \in S /\ s[k] \in a .. b /\ x[k] = SubSeq(t, s[k], PieceEnd(s, k, b))
  BY <1>1, <1>3 DEF PieceEnd
<1>5. \A i \in a .. b : i \in S => \E k \in 1 .. Len(s) : s[k] = i
  <2>1. \A i \in a .. b : i = a \/ i \in a + 1 .. b
    BY <1>1
  <2> QED
    BY <1>3, <2>1
<1>6. \A i, j \in 1 .. Len(s) : i < j => s[i] < s[j]
  BY <1>3
<1>7. IsCutAt(x, t, S, a, b, s)
  BY <1>3, <1>4, <1>5, <1>6 DEF IsCutAt
<1> QED
  BY <1>7 DEF IsCut, x

\* Two adjacent parts that are cut are one that is.
LEMMA CutJoin ==
  ASSUME NEW t, NEW S, NEW a \in Nat, NEW m \in Int, NEW b \in Int,
         a <= m + 1, m <= b,
         NEW x, NEW y, IsCut(x, t, S, a, m), IsCut(y, t, S, m + 1, b)
  PROVE  IsCut(x \o y, t, S, a, b)
<1>1. PICK s : IsCutAt(x, t, S, a, m, s)
  BY DEF IsCut
<1>2. PICK u : IsCutAt(y, t, S, m + 1, b, u)
  BY DEF IsCut
<1> DEFINE z == x \o y
           w == s \o u
           p == Len(s)
           q == Len(u)
<1>3. /\ x \in Texts /\ s \in Seq(Nat) /\ p \in Nat /\ Len(x) = p
      /\ \A k \in 1 .. p :
           s[k] \in S /\ s[k] \in a .. m /\ x[k] = SubSeq(t, s[k], PieceEnd(s, k, m))
      /\ \A i, j \in 1 .. p : i < j => s[i] < s[j]
      /\ \A i \in a .. m : i \in S => \E k \in 1 .. p : s[k] = i
      /\ a <= m => p > 0 /\ s[1] = a
  BY <1>1 DEF IsCutAt
<1>4. /\ y \in Texts /\ u \in Seq(Nat) /\ q \in Nat /\ Len(y) = q
      /\ \A k \in 1 .. q :
           u[k] \in S /\ u[k] \in m + 1 .. b /\ y[k] = SubSeq(t, u[k], PieceEnd(u, k, b))
      /\ \A i, j \in 1 .. q : i < j => u[i] < u[j]
      /\ \A i \in m + 1 .. b : i \in S => \E k \in 1 .. q : u[k] = i
      /\ m + 1 <= b => q > 0 /\ u[1] = m + 1
  BY <1>2 DEF IsCutAt
<1>5. IsConcat(z, Seq(Chars), x, y) /\ IsConcat(w, Nat, s, u)
  BY <1>3, <1>4, ConcatPlaces DEF Texts
<1>6. /\ z \in Texts /\ Len(z) = p + q
      /\ \A i \in 1 .. p : z[i] = x[i]
      /\ \A i \in 1 .. q : z[p + i] = y[i]
  BY <1>3, <1>4, <1>5 DEF IsConcat, Texts
<1>7. /\ w \in Seq(Nat) /\ Len(w) = p + q
      /\ \A i \in 1 .. p : w[i] = s[i]
      /\ \A i \in 1 .. q : w[p + i] = u[i]
  BY <1>5 DEF IsConcat
<1> HIDE DEF z, w
<1>8. \A k \in 1 .. p + q : k \in 1 .. p \/ \E i \in 1 .. q : k = p + i
  <2>1. \A g, h \in Nat : \A k \in 1 .. g + h : k \in 1 .. g \/ (k - g \in 1 .. h /\ k = g + (k - g))
    OBVIOUS
  <2>2. p \in Nat /\ q \in Nat
    BY <1>3, <1>4
  <2> HIDE DEF p, q
  <2>3. \A k \in 1 .. p + q : k \in 1 .. p \/ (k - p \in 1 .. q /\ k = p + (k - p))
    BY <2>1, <2>2
  <2> QED
    BY <2>3
<1>9. ASSUME NEW k \in 1 .. p
      PROVE  w[k] \in S /\ w[k] \in a .. b /\ z[k] = SubSeq(t, w[k], PieceEnd(w, k, b))
  <2>1. s[k] \in a .. b
    <3>1. s[k] \in a .. m
      BY <1>3
    <3> QED
      BY <3>1
  <2>2. PieceEnd(s, k, m) = PieceEnd(w, k, b)
    <3>1. CASE k # p
      <4>1. k + 1 \in 1 .. p /\ k # p + q
        BY <3>1, <1>3, <1>4
      <4> QED
        BY <3>1, <4>1, <1>7 DEF PieceEnd, p
    <3>2. CASE k = p /\ q > 0
      <4>1. k # p + q /\ k + 1 = p + 1 /\ 1 \in 1 .. q
        BY <3>2, <1>3, <1>4
      <4>2. w[k + 1] = u[1] /\ u[1] \in m + 1 .. b
        BY <4>1, <1>4, <1>7
      <4>3. m + 1 <= b
        BY <4>2
      <4>4. u[1] = m + 1
        BY <1>4, <4>3
      <4> QED
        BY <3>2, <4>1, <4>2, <4>4, <1>7 DEF PieceEnd, p
    <3>3. CASE k = p /\ q = 0
      <4>1. m = b
        BY <3>3, <1>4
      <4> QED
        BY <3>3, <4>1, <1>3, <1>7 DEF PieceEnd, p
    <3> QED
      BY <3>1, <3>2, <3>3, <1>4
  <2> QED
    BY <2>1, <2>2, <1>3, <1>6, <1>7
<1>10. ASSUME NEW i \in 1 .. q
       PROVE  /\ w[p + i] \in S /\ w[p + i] \in a .. b
              /\ z[p + i] = SubSeq(t, w[p + i], PieceEnd(w, p + i, b))
  <2>1. u[i] \in a .. b
    <3>1. u[i] \in m + 1 .. b
      BY <1>4
    <3> QED
      BY <3>1
  <2>2. PieceEnd(u, i, b) = PieceEnd(w, p + i, b)
    <3>1. CASE i = q
      BY <3>1, <1>7 DEF PieceEnd, q
    <3>2. CASE i # q
      <4>1. i + 1 \in 1 .. q /\ p + i # p + q /\ (p + i) + 1 = p + (i + 1)
        BY <3>2, <1>3, <1>4
      <4>2. w[p + (i + 1)] = u[i + 1]
        BY <4>1, <1>7
      <4>3. w[(p + i) + 1] = u[i + 1]
        BY <4>1, <4>2
      <4> QED
        BY <3>2, <4>1, <4>3, <1>7 DEF PieceEnd, q
    <3> QED
      BY <3>1, <3>2
  <2> QED
    BY <2>1, <2>2, <1>4, <1>6, <1>7
<1>11. \A k \in 1 .. Len(w) :
         w[k] \in S /\ w[k] \in a .. b /\ z[k] = SubSeq(t, w[k], PieceEnd(w, k, b))
  BY <1>7, <1>8, <1>9, <1>10
<1>12. ASSUME NEW i \in 1 .. Len(w), NEW j \in 1 .. Len(w), i < j PROVE w[i] < w[j]
  <2>1. CASE i \in 1 .. p /\ j \in 1 .. p
    BY <2>1, <1>12, <1>3, <1>7
  <2>2. CASE i \in 1 .. p /\ j \notin 1 .. p
    <3>1. PICK l \in 1 .. q : j = p + l
      BY <2>2, <1>7, <1>8
    <3>2. w[i] = s[i] /\ s[i] \in a .. m /\ w[j] = u[l] /\ u[l] \in m + 1 .. b
      BY <2>2, <3>1, <1>3, <1>4, <1>7
    <3>3. \A g \in a .. m, h \in m + 1 .. b : g < h
      OBVIOUS
    <3> QED
      BY <3>2, <3>3
  <2>3. CASE i \notin 1 .. p
    <3>1. PICK k \in 1 .. q : i = p + k
      BY <2>3, <1>7, <1>8
    <3>2. PICK l \in 1 .. q : j = p + l
      <4>1. j \notin 1 .. p
        BY <2>3, <1>12, <1>7, <1>3, <1>4
      <4> QED
        BY <4>1, <1>7, <1>8
    <3>3. k < l
      BY <3>1, <3>2, <1>12, <1>3
    <3> QED
      BY <3>1, <3>2, <3>3, <1>4, <1>7
  <2> QED
    BY <2>1, <2>2, <2>3
<1>13. ASSUME NEW i \in a .. b, i \in S PROVE \E k \in 1 .. Len(w) : w[k] = i
  <2>1. CASE i <= m
    <3>1. i \in a .. m
      BY <2>1
    <3>2. PICK k \in 1 .. p : s[k] = i
      BY <3>1, <1>3, <1>13
    <3>3. k \in 1 .. Len(w)
      BY <1>3, <1>4, <1>7
    <3> QED
      BY <3>2, <3>3, <1>7
  <2>2. CASE ~ (i <= m)
    <3>1. i \in m + 1 .. b
      BY <2>2
    <3>2. PICK k \in 1 .. q : u[k] = i
      BY <3>1, <1>4, <1>13
    <3>3. p + k \in 1 .. Len(w)
      BY <1>3, <1>4, <1>7
    <3> QED
      BY <3>2, <3>3, <1>7
  <2> QED
    BY <2>1, <2>2
<1>14. ASSUME a <= b PROVE Len(w) > 0 /\ w[1] = a
  <2>1. CASE a <= m
    <3>1. p > 0 /\ s[1] = a /\ 1 \in 1 .. p
      BY <2>1, <1>3
    <3> QED
      BY <3>1, <1>3, <1>4, <1>7
  <2>2. CASE ~ (a <= m)
    <3>1. a = m + 1
      BY <2>2
    <3>2. q > 0 /\ u[1] = a /\ 1 \in 1 .. q
      BY <3>1, <1>4, <1>14
    <3>3. p = 0
      <4>1. SUFFICES ASSUME p # 0 PROVE FALSE
        OBVIOUS
      <4>2. 1 \in 1 .. p
        BY <4>1, <1>3
      <4>3. s[1] \in a .. m
        BY <4>2, <1>3
      <4> QED
        BY <4>3, <2>2
    <3>4. w[p + 1] = u[1] /\ p + 1 = 1
      BY <3>2, <3>3, <1>7
    <3> QED
      BY <3>2, <3>3, <3>4, <1>4, <1>7
  <2> QED
    BY <2>1, <2>2
<1>15. IsCutAt(z, t, S, a, b, w)
  BY <1>3, <1>4, <1>6, <1>7, <1>11, <1>12, <1>13, <1>14 DEF IsCutAt
<1> QED
  BY <1>15 DEF IsCut, z

\* Where nothing else starts, the last piece takes what follows.
LEMMA CutExtend ==
  ASSUME NEW t \in Seq(Chars), NEW S, NEW a \in 1 .. Len(t), NEW m \in a .. Len(t),
         NEW b \in m .. Len(t), \A i \in m + 1 .. b : i \notin S,
         NEW x, IsCut(x, t, S, a, m)
  PROVE  IsCut(Front(x) \o <<Last(x) \o SubSeq(t, m + 1, b)>>, t, S, a, b)
<1>1. PICK s : IsCutAt(x, t, S, a, m, s)
  BY DEF IsCut
<1> DEFINE n == Len(s)
           e == Last(x) \o SubSeq(t, m + 1, b)
           z == Front(x) \o <<e>>
<1>2. a \in Nat /\ m \in Nat /\ b \in Nat /\ 0 < a /\ a <= m /\ m <= b /\ b <= Len(t) /\ Len(t) \in Nat
  OBVIOUS
<1>3. /\ x \in Texts /\ s \in Seq(Nat) /\ n \in Nat /\ Len(x) = n /\ n > 0 /\ s[1] = a
      /\ \A k \in 1 .. n :
           s[k] \in S /\ s[k] \in a .. m /\ x[k] = SubSeq(t, s[k], PieceEnd(s, k, m))
      /\ \A i, j \in 1 .. n : i < j => s[i] < s[j]
      /\ \A i \in a .. m : i \in S => \E k \in 1 .. n : s[k] = i
  BY <1>1, <1>2 DEF IsCutAt
<1>4. x # <<>>
  BY <1>3
<1>5. Last(x) \in Seq(Chars) /\ Front(x) \in Texts /\ Len(Front(x)) = n - 1
  BY <1>3, <1>4, LastFront DEF Texts
<1>6. \A k \in 1 .. n - 1 : Front(x)[k] = x[k]
  <2>1. n - 1 \in Int /\ n - 1 <= Len(x) /\ 1 <= (n - 1) + 1
    BY <1>3
  <2>2. IsPart(SubSeq(x, 1, n - 1), Seq(Chars), x, 1, n - 1)
    <3> DEFINE l == n - 1
    <3> HIDE DEF l
    <3>1. IsPart(SubSeq(x, 1, l), Seq(Chars), x, 1, l)
      BY <2>1, <1>3, PartPlaces DEF Texts, l
    <3> QED
      BY <3>1 DEF l
  <2>3. \A i \in 1 .. (n - 1) - 1 + 1 : SubSeq(x, 1, n - 1)[i] = x[1 + i - 1]
    BY <2>2 DEF IsPart
  <2>4. \A k \in 1 .. n - 1 : k \in 1 .. (n - 1) - 1 + 1 /\ 1 + k - 1 = k
    BY <1>3
  <2> QED
    BY <2>3, <2>4, <1>3 DEF Front
<1>7. SubSeq(t, m + 1, b) \in Seq(Chars)
  <2>1. m + 1 \in Nat /\ m + 1 > 0
    BY <1>2
  <2> QED
    BY <2>1, <1>2, SubText
<1>8. e = SubSeq(t, s[n], b)
  <2>1. n \in 1 .. n
    BY <1>3
  <2>2. s[n] \in a .. m /\ x[n] = SubSeq(t, s[n], m)
    BY <2>1, <1>3 DEF PieceEnd
  <2>3. s[n] \in 1 .. Len(t) + 1 /\ m \in s[n] - 1 .. Len(t) /\ b \in m .. Len(t)
    <3>1. \A l \in Nat : \A k \in a .. m : m <= l =>
            k \in 1 .. l + 1 /\ m \in k - 1 .. l
      BY <1>2
    <3>2. m <= Len(t)
      BY <1>2
    <3> QED
      BY <2>2, <1>2, <3>1, <3>2
  <2>4. SubSeq(t, s[n], m) \o SubSeq(t, m + 1, b) = SubSeq(t, s[n], b)
    BY <2>3, ConcatAdjacentSubSeq
  <2> QED
    BY <2>2, <2>4, <1>3 DEF Last
<1>9. e \in Seq(Chars)
  BY <1>5, <1>7
<1> HIDE DEF e
<1>10. <<e>> \in Texts /\ Len(<<e>>) = 1 /\ <<e>>[1] = e
  BY <1>9 DEF Texts
<1>11. IsConcat(z, Seq(Chars), Front(x), <<e>>)
  <2> DEFINE f == Front(x)
             g == <<e>>
  <2>2. f \in Seq(Seq(Chars)) /\ g \in Seq(Seq(Chars))
    BY <1>5, <1>10 DEF Texts
  <2> HIDE DEF f, g
  <2>1. IsConcat(f \o g, Seq(Chars), f, g)
    BY <2>2, ConcatPlaces
  <2> QED
    BY <2>1 DEF f, g
<1>12. /\ z \in Texts /\ Len(z) = n
       /\ \A i \in 1 .. n - 1 : z[i] = x[i]
       /\ z[n] = e
  <2>1. (n - 1) + 1 = n /\ 1 \in 1 .. 1
    BY <1>3
  <2> QED
    <3> DEFINE f == Front(x)
               g == <<e>>
    <3>1. /\ z \in Texts /\ Len(f) = n - 1 /\ Len(g) = 1 /\ g[1] = e /\ Len(z) = Len(f) + Len(g)
          /\ \A i \in 1 .. Len(f) : z[i] = f[i]
          /\ \A i \in 1 .. Len(g) : z[Len(f) + i] = g[i]
          /\ \A i \in 1 .. n - 1 : f[i] = x[i]
      BY <1>5, <1>6, <1>10, <1>11 DEF IsConcat, Texts
    <3> HIDE DEF f, g, z
    <3>2. \A i \in 1 .. n - 1 : z[i] = x[i]
      BY <3>1
    <3>3. z[n] = e
      BY <3>1, <2>1
    <3> QED
      BY <3>1, <3>2, <3>3, <2>1
<1> HIDE DEF z
<1>13. ASSUME NEW k \in 1 .. n
       PROVE  s[k] \in S /\ s[k] \in a .. b /\ z[k] = SubSeq(t, s[k], PieceEnd(s, k, b))
  <2>1. s[k] \in S /\ s[k] \in a .. m
    BY <1>3
  <2>2. s[k] \in a .. b
    BY <2>1, <1>2
  <2>3. CASE k = n
    BY <2>1, <2>2, <2>3, <1>8, <1>12 DEF PieceEnd
  <2>4. CASE k # n
    <3>1. k \in 1 .. n - 1
      BY <2>4, <1>3
    <3> QED
      BY <2>1, <2>2, <2>4, <3>1, <1>3, <1>12 DEF PieceEnd
  <2> QED
    BY <2>3, <2>4
<1>14. \A i \in a .. b : i \in S => \E k \in 1 .. n : s[k] = i
  <2>1. \A i \in a .. b : i \in a .. m \/ i \in m + 1 .. b
    BY <1>2
  <2> QED
    BY <2>1, <1>3
<1>15. IsCutAt(z, t, S, a, b, s)
  BY <1>3, <1>12, <1>13, <1>14 DEF IsCutAt
<1> QED
  BY <1>15 DEF IsCut, z, e

\* A text that is cut is cut in one way only, and its pieces are the text.
LEMMA CutIsCutAt ==
  ASSUME NEW t \in Seq(Chars), NEW S, NEW x, IsCut(x, t, S, 1, Len(t))
  PROVE  x = CutAt(t, S)
<1>1. PICK s : IsCutAt(x, t, S, 1, Len(t), s)
  BY DEF IsCut
<1> DEFINE l == Len(t)
<1>2. l \in Nat
  OBVIOUS
<1>3. /\ x \in Texts /\ s \in Seq(Nat) /\ Len(s) \in Nat /\ Len(x) = Len(s)
      /\ \A k \in 1 .. Len(s) :
           s[k] \in S /\ s[k] \in 1 .. l /\ x[k] = SubSeq(t, s[k], PieceEnd(s, k, l))
      /\ \A i, j \in 1 .. Len(s) : i < j => s[i] < s[j]
      /\ \A i \in 1 .. l : i \in S => \E k \in 1 .. Len(s) : s[k] = i
  BY <1>1 DEF IsCutAt
<1>4. s = Ascending(l, S)
  <2>1. s \in Seq(S \cap 1 .. l)
    <3>1. \A k \in 1 .. Len(s) : s[k] \in S \cap 1 .. l
      BY <1>3
    <3>2. s = [k \in 1 .. Len(s) |-> s[k]]
      BY <1>3
    <3> HIDE DEF l
    <3>3. [k \in 1 .. Len(s) |-> s[k]] \in Seq(S \cap 1 .. l)
      BY <1>3, <3>1
    <3> QED
      BY <3>2, <3>3
  <2>2. \A y \in S \cap 1 .. l : \E k \in 1 .. Len(s) : s[k] = y
    BY <1>3
  <2>3. IsAscending(s, l, S)
    BY <1>3, <2>1, <2>2 DEF IsAscending
  <2> HIDE DEF l
  <2> QED
    BY <1>2, <2>3, AscendingUnique
<1> DEFINE piece(k) == SubSeq(t, s[k], IF k = Len(s) THEN l ELSE s[k + 1] - 1)
<1>5. CutAt(t, S) = [k \in 1 .. Len(s) |-> piece(k)]
  BY <1>4 DEF CutAt
<1>6. \A k \in 1 .. Len(s) : x[k] = piece(k)
  BY <1>3 DEF PieceEnd
<1>7. x = [k \in 1 .. Len(s) |-> x[k]]
  BY <1>3 DEF Texts
<1> HIDE DEF piece
<1>8. [k \in 1 .. Len(s) |-> x[k]] = [k \in 1 .. Len(s) |-> piece(k)]
  BY <1>6
<1> QED
  BY <1>5, <1>7, <1>8

\* The pieces of a text one after the other are the text.
LEMMA CutIsWhole ==
  ASSUME NEW t \in Seq(Chars), t # <<>>, NEW S, NEW x, IsCut(x, t, S, 1, Len(t))
  PROVE  FlattenSeq(x) = t
<1>1. PICK s : IsCutAt(x, t, S, 1, Len(t), s)
  BY DEF IsCut
<1> DEFINE l == Len(t)
           n == Len(s)
<1>2. l \in Nat /\ 1 <= l
  OBVIOUS
<1>3. /\ x \in Seq(Seq(Chars)) /\ s \in Seq(Nat) /\ n \in Nat /\ Len(x) = n
      /\ \A k \in 1 .. n : s[k] \in 1 .. l /\ x[k] = SubSeq(t, s[k], PieceEnd(s, k, l))
      /\ \A i, j \in 1 .. n : i < j => s[i] < s[j]
      /\ n > 0 /\ s[1] = 1
  BY <1>1, <1>2 DEF IsCutAt, Texts
<1>4. x # <<>>
  BY <1>3
<1>5. PICK f : /\ f[1] = x[1] /\ FlattenSeq(x) = f[n]
               /\ \A i \in 2 .. n : f[i] = f[i - 1] \o x[i]
  <2>1. x \in Seq(Seq(Chars)) /\ Len(x) = n
    BY <1>3
  <2> HIDE DEF n
  <2>2. \E f : /\ f[1] = x[1] /\ FlattenSeq(x) = f[Len(x)]
               /\ \A i \in 2 .. Len(x) : f[i] = f[i - 1] \o x[i]
    BY <2>1, <1>4, FlattenSteps
  <2> QED
    BY <2>1, <2>2
<1> HIDE DEF n, l
<1> DEFINE G == {k \in 0 .. n : k > 0 => f[k] = SubSeq(t, 1, PieceEnd(s, k, l))}
<1>6. ASSUME NEW k \in 1 .. n, k - 1 \in G PROVE k \in G
  <2>1. CASE k = 1
    <3>1. f[1] = SubSeq(t, 1, PieceEnd(s, 1, l))
      BY <2>1, <1>3, <1>5
    <3> QED
      BY <2>1, <3>1
  <2>2. CASE k # 1
    <3>1. k \in 2 .. n /\ k - 1 \in 1 .. n /\ k - 1 > 0 /\ k - 1 < k /\ k - 1 # n /\ (k - 1) + 1 = k
      BY <2>2, <1>3
    <3>2. f[k - 1] = SubSeq(t, 1, s[k] - 1)
      <4>1. PieceEnd(s, k - 1, l) = s[k] - 1
        BY <3>1, <1>3 DEF PieceEnd, n
      <4> QED
        BY <3>1, <4>1, <1>6
    <3>3. f[k] = f[k - 1] \o x[k]
      BY <3>1, <1>5
    <3> DEFINE e == PieceEnd(s, k, l)
               p == s[k]
    <3>4. p \in 1 .. l /\ e \in p .. l
      <4>1. CASE k = n
        BY <4>1, <1>3, <1>2 DEF PieceEnd, n
      <4>2. CASE k # n
        <5>1. k + 1 \in 1 .. n /\ k < k + 1
          BY <4>2, <1>3
        <5>2. s[k] < s[k + 1] /\ s[k] \in 1 .. l /\ s[k + 1] \in 1 .. l
          BY <5>1, <1>3
        <5>3. \A g, h \in 1 .. l : g < h => h - 1 \in g .. l
          BY <1>2
        <5> QED
          BY <5>2, <5>3, <4>2 DEF PieceEnd, n
      <4> QED
        BY <4>1, <4>2
    <3>5. x[k] = SubSeq(t, p, e)
      BY <1>3
    <3> HIDE DEF p, e
    <3>6. 1 \in 1 .. l + 1 /\ p - 1 \in 1 - 1 .. l /\ e \in p - 1 .. l /\ (p - 1) + 1 = p
      BY <1>2, <3>4
    <3>7. SubSeq(t, 1, p - 1) \o SubSeq(t, (p - 1) + 1, e) = SubSeq(t, 1, e)
      BY <3>6, ConcatAdjacentSubSeq DEF l
    <3>8. f[k] = SubSeq(t, 1, e)
      BY <3>2, <3>3, <3>5, <3>6, <3>7 DEF p
    <3> QED
      BY <3>8 DEF e
  <2> QED
    BY <2>1, <2>2
<1>7. 0 \in G /\ n \in 0 .. n /\ n > 0
  BY <1>3
<1> HIDE DEF G
<1>8. n \in G
  BY <1>3, <1>6, <1>7, Induction
<1>9. f[n] = SubSeq(t, 1, l)
  BY <1>7, <1>8 DEF G, PieceEnd, n
<1> QED
  BY <1>5, <1>9, SubSeqFull DEF l

\* A run without word characters is cut where a blank follows no blank and at
\* every other character.
LEMMA CutRun ==
  ASSUME NEW t \in Seq(Chars), NEW S, NEW p \in 1 .. Len(t), NEW q \in p .. Len(t),
         \A i \in p .. q : i \in S <=> (i = p \/ t[i] # "s" \/ t[i - 1] # "s")
  PROVE  IsCut(SplitNonWord(SubSeq(t, p, q)), t, S, p, q)
<1> DEFINE run == SubSeq(t, p, q)
           R == {i \in 1 .. Len(run) : i = 1 \/ run[i] # "s" \/ run[i - 1] # "s"}
           l == Len(run)
           r == Ascending(l, R)
           n == Len(r)
           s == [k \in 1 .. n |-> r[k] + p - 1]
           piece(k) == SubSeq(run, r[k], IF k = n THEN l ELSE r[k + 1] - 1)
           x == SplitNonWord(run)
<1>1. p \in Nat /\ q \in Nat /\ 0 < p /\ p <= q /\ q <= Len(t) /\ Len(t) \in Nat
  OBVIOUS
<1>2. IsPart(run, Chars, t, p, q)
  BY <1>1, PartPlaces
<1>3. run \in Seq(Chars) /\ l = q - p + 1 /\ \A i \in 1 .. l : run[i] = t[p + i - 1]
  BY <1>2 DEF IsPart
<1>4. l \in Nat /\ l > 0
  BY <1>1, <1>3
<1>5. \A i \in 1 .. l : i \in R <=> p + i - 1 \in S
  <2> TAKE i \in 1 .. l
  <2>1. p + i - 1 \in p .. q /\ (p + i - 1 = p <=> i = 1)
    BY <1>1, <1>3
  <2>2. i \in R <=> i = 1 \/ run[i] # "s" \/ run[i - 1] # "s"
    OBVIOUS
  <2>3. i # 1 => run[i - 1] = t[(p + i - 1) - 1]
    <3>1. i # 1 => i - 1 \in 1 .. l /\ p + (i - 1) - 1 = (p + i - 1) - 1
      BY <1>1, <1>4
    <3> QED
      BY <3>1, <1>3
  <2>4. run[i] = t[p + i - 1]
    BY <1>3
  <2> HIDE DEF R, run, l
  <2> QED
    BY <2>1, <2>2, <2>3, <2>4
<1>6. x = [k \in 1 .. n |-> piece(k)] /\ x \in Texts
  BY <1>3, SplitNonWordType DEF SplitNonWord, CutAt
<1> HIDE DEF x, R
<1>7. IsAscending(r, l, R)
  <2> HIDE DEF l
  <2> QED
    BY <1>4, AscendingIsAscending
<1>8. /\ n \in Nat /\ \A k \in 1 .. n : r[k] \in R /\ r[k] \in 1 .. l
      /\ \A i, j \in 1 .. n : i < j => r[i] < r[j]
      /\ \A i \in R \cap 1 .. l : \E k \in 1 .. n : r[k] = i
  <2> HIDE DEF r, l
  <2>1. /\ r \in Seq(R \cap 1 .. l)
        /\ \A i, j \in 1 .. n : i < j => r[i] < r[j]
        /\ \A i \in R \cap 1 .. l : \E k \in 1 .. n : r[k] = i
    BY <1>7 DEF IsAscending
  <2>2. n \in Nat /\ \A k \in 1 .. n : r[k] \in R \cap 1 .. l
    BY <2>1
  <2> QED
    BY <2>1, <2>2
<1> HIDE DEF r, l, n
<1>9. \A k \in 1 .. n : s[k] = r[k] + p - 1 /\ s[k] \in p .. q /\ s[k] \in S
  <2> TAKE k \in 1 .. n
  <2>1. s[k] = r[k] + p - 1 /\ r[k] \in R /\ r[k] \in 1 .. l
    BY <1>8
  <2>2. \A i \in 1 .. l : i + p - 1 \in p .. q /\ p + i - 1 = i + p - 1
    BY <1>1, <1>3
  <2> QED
    BY <2>1, <2>2, <1>5
<1>10. s \in Seq(Nat) /\ Len(s) = n
  <2>1. \A k \in 1 .. n : r[k] + p - 1 \in Nat
    BY <1>8, <1>1
  <2> QED
    BY <2>1, <1>8
<1> HIDE DEF s
<1>11. ASSUME NEW k \in 1 .. n PROVE x[k] = SubSeq(t, s[k], PieceEnd(s, k, q))
  <2> DEFINE e == IF k = n THEN l ELSE r[k + 1] - 1
             b == r[k]
  <2>1. b \in 1 .. l /\ e \in 1 .. l /\ p + b - 1 = s[k] /\ p + e - 1 = PieceEnd(s, k, q)
    <3>1. b \in 1 .. l /\ p + b - 1 = s[k]
      BY <1>8, <1>9, <1>1
    <3>2. CASE k = n
      BY <3>1, <3>2, <1>1, <1>3, <1>4, <1>10 DEF PieceEnd
    <3>3. CASE k # n
      <4>1. k + 1 \in 1 .. n /\ k < k + 1
        BY <3>3, <1>8
      <4>2. r[k + 1] \in 1 .. l /\ b < r[k + 1] /\ s[k + 1] = r[k + 1] + p - 1
        BY <4>1, <1>8, <1>9
      <4>3. \A g, h \in 1 .. l : g < h => h - 1 \in 1 .. l /\ p + (h - 1) - 1 = (h + p - 1) - 1
        BY <1>1, <1>4
      <4> QED
        BY <3>1, <3>3, <4>2, <4>3, <1>10 DEF PieceEnd
    <3> QED
      BY <3>2, <3>3
  <2>2. x[k] = SubSeq(run, b, e)
    BY <1>6
  <2> HIDE DEF b, e, run
  <2>3. b \in 1 .. q - p + 1 /\ e \in 1 .. q - p + 1 /\ q \in 1 .. Len(t)
    BY <2>1, <1>1, <1>3
  <2>4. SubSeq(SubSeq(t, p, q), b, e) = SubSeq(t, p + b - 1, p + e - 1)
    BY <2>3, SubSeqOfSubSeq
  <2> QED
    BY <2>1, <2>2, <2>4 DEF run
<1>12. ASSUME NEW i \in p .. q, i \in S PROVE \E k \in 1 .. n : s[k] = i
  <2>1. i - p + 1 \in 1 .. l /\ p + (i - p + 1) - 1 = i /\ (i - p + 1) + p - 1 = i
    BY <1>1, <1>3
  <2>2. i - p + 1 \in R
    BY <2>1, <1>5, <1>12
  <2>3. PICK k \in 1 .. n : r[k] = i - p + 1
    BY <2>1, <2>2, <1>8
  <2> QED
    BY <2>1, <2>3, <1>9
<1>13. \A i, j \in 1 .. n : i < j => s[i] < s[j]
  <2> TAKE i, j \in 1 .. n
  <2>1. r[i] \in Nat /\ r[j] \in Nat /\ (i < j => r[i] < r[j])
    BY <1>8
  <2> QED
    BY <2>1, <1>1, <1>9
<1>14. n > 0 /\ s[1] = p
  <2>1. p \in p .. q /\ p \in S
    BY <1>1
  <2>2. PICK k \in 1 .. n : s[k] = p
    BY <2>1, <1>12
  <2>3. 1 \in 1 .. n /\ n > 0
    BY <2>2, <1>8
  <2>4. s[1] \in p .. q
    BY <2>3, <1>9
  <2>5. CASE k = 1
    BY <2>2, <2>3, <2>5
  <2>6. CASE k # 1
    <3>1. s[1] < s[k]
      BY <2>3, <2>6, <1>13
    <3> QED
      BY <3>1, <2>2, <2>4
  <2> QED
    BY <2>5, <2>6
<1>15. Len(x) = n
  BY <1>6, <1>8
<1>16. IsCutAt(x, t, S, p, q, s)
  BY <1>6, <1>8, <1>9, <1>10, <1>11, <1>12, <1>13, <1>14, <1>15 DEF IsCutAt
<1> QED
  BY <1>16 DEF IsCut, x

-----------------------------------------------------------------------------
(* The words of a text *)

\* Where the k-th word ends.
SpanEnd(sp, k) == IF k = 0 THEN 0 ELSE sp[k][2]

\* What WordSpans is meant to return: each span is word characters only, and
\* what is between two spans, before the first and behind the last has none.
IsSpan(t, sp, k) ==
  /\ sp[k][1] \in 1 .. Len(t) /\ sp[k][2] \in sp[k][1] .. Len(t)
  /\ \A i \in sp[k][1] .. sp[k][2] : t[i] = "w"
  /\ SpanEnd(sp, k - 1) < sp[k][1]
  /\ k > 1 => SpanEnd(sp, k - 1) + 1 < sp[k][1]
  /\ \A i \in SpanEnd(sp, k - 1) + 1 .. sp[k][1] - 1 : t[i] # "w"

AreSpans(t, sp) ==
  /\ Len(sp) \in Nat
  /\ \A k \in 1 .. Len(sp) : IsSpan(t, sp, k)
  /\ \A i \in SpanEnd(sp, Len(sp)) + 1 .. Len(t) : t[i] # "w"

\* WordSpans finds every word, each from its first to its last character.
LEMMA WordsAreSpans ==
  ASSUME NEW t \in Seq(Chars)
  PROVE  AreSpans(t, WordSpans(t))
<1> DEFINE l == Len(t)
           F == {i \in Indices(t, "w") : i = 1 \/ t[i - 1] # "w"}
           L == {i \in Indices(t, "w") : i = l \/ t[i + 1] # "w"}
           first == Ascending(l, F)
           n == Len(first)
           end(k) == Min({i \in L : i >= first[k]})
           sp == WordSpans(t)
<1>1. l \in Nat
  OBVIOUS
<1>2. /\ n \in Nat
      /\ \A k \in 1 .. n : first[k] \in F
      /\ \A i, j \in 1 .. n : i < j => first[i] < first[j]
      /\ \A i \in F : \E k \in 1 .. n : first[k] = i
  <2>1. F \cap 1 .. l = F
    BY DEF Indices
  <2> HIDE DEF F, l
  <2>2. IsAscending(first, l, F)
    BY <1>1, AscendingIsAscending
  <2> HIDE DEF first
  <2>3. first \in Seq(F)
    BY <2>1, <2>2 DEF IsAscending
  <2> QED
    BY <2>1, <2>2, <2>3 DEF IsAscending
<1>3. \A i : i \in F <=> i \in 1 .. l /\ t[i] = "w" /\ (i = 1 \/ t[i - 1] # "w")
  BY DEF Indices
<1>4. \A i : i \in L <=> i \in 1 .. l /\ t[i] = "w" /\ (i = l \/ t[i + 1] # "w")
  BY DEF Indices
<1>5. sp = [k \in 1 .. n |-> <<first[k], end(k)>>]
  BY DEF WordSpans
<1>6. \A k \in 1 .. Len(WordSpans(t)) :
        WordSpans(t)[k][1] \in 1 .. Len(t) /\ WordSpans(t)[k][2] \in 1 .. Len(t)
  BY SpanPlaces
<1> HIDE DEF F, L, first, n, end, sp, l
<1>7. Len(sp) = n /\ \A k \in 1 .. n : sp[k][1] = first[k] /\ sp[k][2] = end(k)
  BY <1>2, <1>5
<1>8. ASSUME NEW k \in 1 .. n
      PROVE  /\ first[k] \in 1 .. l /\ end(k) \in L /\ end(k) >= first[k]
             /\ \A i \in L : i >= first[k] => end(k) <= i
  <2> DEFINE later == {i \in L : i >= first[k]}
  <2>1. first[k] \in 1 .. l
    BY <1>2, <1>3
  <2>2. later \subseteq Nat
    BY <1>4
  <2>3. later # {}
    <3> DEFINE B == {i \in first[k] .. l : t[i] = "w"}
    <3>1. first[k] \in B /\ B \subseteq 0 .. l
      BY <2>1, <1>1, <1>2, <1>3
    <3>2. B # {}
      BY <3>1
    <3> HIDE DEF B
    <3>3. PICK m \in B : \A i \in B : i <= m
      BY <1>1, <3>1, <3>2, GreatestNatural
    <3>4. m \in first[k] .. l /\ t[m] = "w" /\ m \in 1 .. l /\ m >= first[k]
      BY <2>1, <1>1 DEF B
    <3>5. m = l \/ t[m + 1] # "w"
      <4>1. SUFFICES ASSUME m # l, t[m + 1] = "w" PROVE FALSE
        OBVIOUS
      <4>2. m + 1 \in first[k] .. l /\ ~ (m + 1 <= m)
        BY <4>1, <3>4, <2>1, <1>1
      <4>3. m + 1 \in B
        BY <4>1, <4>2 DEF B
      <4> QED
        BY <3>3, <4>2, <4>3
    <3>6. m \in L
      BY <3>4, <3>5, <1>4
    <3> QED
      BY <3>4, <3>6
  <2> HIDE DEF later
  <2>4. Min(later) \in later /\ \A i \in later : Min(later) <= i
    BY <2>2, <2>3, MinIsLeast
  <2> QED
    BY <2>1, <2>4 DEF later, end
<1>9. ASSUME NEW k \in 1 .. n, NEW i \in first[k] .. end(k) PROVE t[i] = "w"
  <2> DEFINE B == {j \in first[k] .. end(k) : t[j] # "w"}
  <2>1. SUFFICES ASSUME t[i] # "w" PROVE FALSE
    OBVIOUS
  <2>2. first[k] \in 1 .. l /\ end(k) \in 1 .. l
    BY <1>4, <1>8
  <2>3. B \subseteq Nat /\ B # {}
    BY <2>1, <2>2
  <2> HIDE DEF B
  <2>4. PICK m \in B : \A j \in B : m <= j
    BY <2>3, LeastNatural
  <2>5. m \in first[k] .. end(k) /\ t[m] # "w"
    BY DEF B
  <2>6. m # first[k]
    BY <2>5, <1>2, <1>3
  <2>7. m - 1 \in first[k] .. end(k) /\ m - 1 \in 1 .. l /\ (m - 1) + 1 = m
        /\ m - 1 >= first[k] /\ ~ (end(k) <= m - 1) /\ ~ (m <= m - 1)
    BY <2>2, <2>5, <2>6, <1>1
  <2>8. t[m - 1] = "w"
    BY <2>4, <2>7 DEF B
  <2>9. m - 1 \in L
    BY <2>5, <2>7, <2>8, <1>4
  <2> QED
    BY <2>7, <2>9, <1>8
<1>10. ASSUME NEW k \in 1 .. n, k > 1
       PROVE  k - 1 \in 1 .. n /\ end(k - 1) + 1 < first[k]
  <2>1. k - 1 \in 1 .. n /\ k - 1 < k
    BY <1>2, <1>10
  <2>2. first[k - 1] < first[k] /\ first[k] \in F
    BY <2>1, <1>2
  <2>3. first[k - 1] \in 1 .. l /\ first[k] \in 1 .. l /\ end(k - 1) \in 1 .. l
    BY <2>1, <1>4, <1>8
  <2>4. t[first[k] - 1] # "w"
    BY <2>2, <2>3, <1>3
  <2>5. first[k] - 1 \notin first[k - 1] .. end(k - 1)
    BY <2>1, <2>4, <1>9
  <2> DEFINE f == first[k]
             g == first[k - 1]
             e == end(k - 1)
  <2> HIDE DEF f, g, e
  <2>6. ASSUME f \in Nat, g \in Nat, e \in Nat, g < f, f - 1 \notin g .. e PROVE e + 1 < f
    BY <2>6
  <2> QED
    BY <2>1, <2>2, <2>3, <2>5, <2>6 DEF f, g, e
<1> DEFINE from(k) == IF k = 0 THEN 0 ELSE end(k)
<1>11. ASSUME NEW k \in 1 .. n + 1, NEW i \in from(k - 1) + 1 .. l, k <= n => i < first[k]
       PROVE  t[i] # "w"
  <2> DEFINE a == from(k - 1)
             B == {j \in a + 1 .. i : t[j] = "w"}
  <2>1. SUFFICES ASSUME t[i] = "w" PROVE FALSE
    OBVIOUS
  <2>2. k - 1 \in 0 .. n /\ a \in 0 .. l
    <3>1. k - 1 \in 0 .. n
      BY <1>2
    <3>2. CASE k - 1 = 0
      BY <3>1, <3>2, <1>1
    <3>3. CASE k - 1 # 0
      <4>1. k - 1 \in 1 .. n
        BY <3>1, <3>3
      <4> QED
        BY <3>1, <3>3, <4>1, <1>4, <1>8
    <3> QED
      BY <3>2, <3>3
  <2>3. B \subseteq Nat /\ i \in B
    BY <2>1, <2>2, <1>1
  <2>4. B # {}
    BY <2>3
  <2> HIDE DEF B
  <2>5. PICK m \in B : \A j \in B : m <= j
    BY <2>3, <2>4, LeastNatural
  <2>6. m \in a + 1 .. i /\ t[m] = "w"
    BY DEF B
  <2>7. m \in 1 .. l
    BY <2>2, <2>6, <1>1
  <2>8. m = 1 \/ t[m - 1] # "w"
    <3>1. CASE m = a + 1
      <4>1. CASE k - 1 = 0
        BY <3>1, <4>1
      <4>2. CASE k - 1 # 0
        <5>1. k - 1 \in 1 .. n
          BY <2>2, <4>2
        <5>2. a \in L /\ a \in 1 .. l /\ a + 1 - 1 = a
          BY <4>2, <5>1, <1>4, <1>8
        <5>3. a # l
          BY <2>7, <3>1, <5>2, <1>1
        <5>4. t[a + 1] # "w"
          BY <5>2, <5>3, <1>4
        <5> QED
          BY <2>6, <3>1, <5>4
      <4> QED
        BY <4>1, <4>2
    <3>2. CASE m # a + 1
      <4>1. m - 1 \in a + 1 .. i /\ ~ (m <= m - 1)
        BY <2>2, <2>6, <3>2
      <4>2. m - 1 \notin B
        BY <2>5, <4>1
      <4> QED
        BY <4>1, <4>2 DEF B
    <3> QED
      BY <3>1, <3>2
  <2>9. m \in F
    BY <2>6, <2>7, <2>8, <1>3
  <2>10. PICK j \in 1 .. n : first[j] = m
    BY <2>9, <1>2
  <2>11. ~ (j >= k)
    <3>1. SUFFICES ASSUME j >= k PROVE FALSE
      OBVIOUS
    <3>2. k \in 1 .. n
      BY <3>1, <1>2
    <3>3. first[k] \in 1 .. l /\ first[k] <= first[j]
      BY <3>1, <3>2, <1>2, <1>8
    <3>4. i < first[k]
      BY <3>2, <1>11
    <3> QED
      BY <2>2, <2>6, <2>10, <3>3, <3>4
  <2>12. k - 1 \in 1 .. n /\ j <= k - 1
    BY <2>2, <2>11
  <2>13. a = end(k - 1) /\ first[k - 1] <= a
    BY <2>12, <1>8
  <2>14. first[j] <= first[k - 1]
    <3>1. first[j] \in 1 .. l /\ first[k - 1] \in 1 .. l
      BY <2>12, <1>8
    <3> QED
      BY <2>12, <3>1, <1>2
  <2>15. first[k - 1] \in 1 .. l
    BY <2>12, <1>8
  <2> QED
    BY <2>2, <2>6, <2>10, <2>13, <2>14, <2>15
<1>12. ASSUME NEW k \in 0 .. n PROVE SpanEnd(sp, k) = from(k)
  <2>1. k # 0 => k \in 1 .. n
    BY <1>2
  <2> QED
    BY <2>1, <1>7 DEF SpanEnd
<1>13. ASSUME NEW k \in 1 .. n PROVE IsSpan(t, sp, k)
  <2>1. k - 1 \in 0 .. n /\ k \in 1 .. n + 1
    BY <1>2
  <2>2. SpanEnd(sp, k - 1) = from(k - 1)
    BY <2>1, <1>12
  <2>3. from(k - 1) < first[k] /\ (k > 1 => from(k - 1) + 1 < first[k])
    <3>1. CASE k > 1
      <4>1. k - 1 \in 1 .. n /\ from(k - 1) = end(k - 1) /\ end(k - 1) + 1 < first[k]
        BY <2>1, <3>1, <1>10
      <4>2. end(k - 1) \in 1 .. l /\ first[k] \in 1 .. l
        BY <4>1, <1>4, <1>8
      <4> HIDE DEF from
      <4> QED
        BY <4>1, <4>2
    <3>2. CASE ~ (k > 1)
      <4>1. k - 1 = 0
        BY <2>1, <3>2
      <4> QED
        BY <3>2, <4>1, <1>8
    <3> QED
      BY <3>1, <3>2
  <2>4. first[k] \in 1 .. l /\ end(k) \in 1 .. l /\ end(k) >= first[k]
    BY <1>4, <1>8
  <2>5. ASSUME NEW i \in from(k - 1) + 1 .. first[k] - 1 PROVE t[i] # "w"
    <3>1. from(k - 1) \in Int
      <4>1. CASE k - 1 = 0
        BY <4>1
      <4>2. CASE k - 1 # 0
        <5>1. k - 1 \in 1 .. n
          BY <2>1, <4>2
        <5>2. end(k - 1) \in 1 .. l
          BY <5>1, <1>4, <1>8
        <5> QED
          BY <4>2, <5>2
      <4> QED
        BY <4>1, <4>2
    <3> HIDE DEF from
    <3>2. i \in from(k - 1) + 1 .. l /\ i < first[k]
      BY <3>1, <2>4, <1>1
    <3> QED
      BY <2>1, <3>2, <1>11
  <2>6. sp[k][1] = first[k] /\ sp[k][2] = end(k)
    BY <1>7
  <2>7. end(k) \in first[k] .. l
    BY <2>4, <1>1
  <2> HIDE DEF from
  <2> QED
    BY <2>2, <2>3, <2>4, <2>5, <2>6, <2>7, <1>9 DEF IsSpan, l
<1>14. ASSUME NEW i \in SpanEnd(sp, n) + 1 .. l PROVE t[i] # "w"
  <2>1. n \in 0 .. n /\ n + 1 \in 1 .. n + 1 /\ (n + 1) - 1 = n /\ ~ (n + 1 <= n)
    BY <1>2
  <2>2. i \in from((n + 1) - 1) + 1 .. l
    BY <2>1, <1>12
  <2> HIDE DEF from
  <2> QED
    BY <2>1, <2>2, <1>11
<1> QED
  BY <1>2, <1>7, <1>13, <1>14 DEF AreSpans, l, sp

-----------------------------------------------------------------------------
(* WordsAreDescribed: the tokens of a text *)

\* Where the tokens of Split begin, for any text: the places of the tokenizer's
\* comment, but that a text without a word is not cut and that blanks at its
\* end begin no token behind a word.
SplitStarts(t) ==
  {i \in 1 .. Len(t) :
    \/ i = 1
    \/ /\ Indices(t, "w") # {}
       /\ CASE t[i] = "w" -> t[i - 1] \in {".", "p"}
            [] t[i] = "s" -> /\ t[i - 1] # "s"
                             /\ ~(t[i - 1] = "w" /\ IsAllWhitespace(SubSeq(t, i, Len(t))))
            [] OTHER -> TRUE}

\* Whether a text ends in blanks from i on.
BlankFrom(t, i) == \A j \in i .. Len(t) : t[j] = "s"

\* "Nothing but blanks follows" (regexp and TrimSpace) says so of the characters.
LEMMA BlankRest ==
  ASSUME NEW t \in Seq(Chars), NEW i \in 1 .. Len(t) + 1
  PROVE  IsAllWhitespace(SubSeq(t, i, Len(t))) <=> BlankFrom(t, i)
<1> DEFINE l == Len(t)
           r == SubSeq(t, i, l)
<1>1. l \in Nat /\ i \in Nat /\ i > 0 /\ i <= l + 1
  OBVIOUS
<1>2. IsPart(r, Chars, t, i, l)
  <2>1. l \in Int /\ l <= Len(t)
    BY <1>1
  <2> QED
    BY <1>1, <2>1, PartPlaces
<1>3. Len(r) = l - i + 1 /\ \A j \in 1 .. l - i + 1 : r[j] = t[i + j - 1]
  BY <1>2 DEF IsPart
<1>4. IsAllWhitespace(r) <=> \A j \in 1 .. Len(r) : r[j] = "s"
  BY DEF IsAllWhitespace, Indices
<1> HIDE DEF r, l
<1>5. ASSUME \A j \in 1 .. l - i + 1 : r[j] = "s" PROVE \A j \in i .. l : t[j] = "s"
  <2> TAKE j \in i .. l
  <2>1. j - i + 1 \in 1 .. l - i + 1 /\ i + (j - i + 1) - 1 = j
    BY <1>1
  <2> QED
    BY <2>1, <1>3, <1>5
<1>6. ASSUME \A j \in i .. l : t[j] = "s" PROVE \A j \in 1 .. l - i + 1 : r[j] = "s"
  <2> TAKE j \in 1 .. l - i + 1
  <2>1. i + j - 1 \in i .. l
    BY <1>1
  <2> QED
    BY <2>1, <1>3, <1>6
<1> QED
  BY <1>3, <1>4, <1>5, <1>6 DEF BlankFrom, r, l

\* SplitStarts, case by case, for a text with a word.
Starts(t, i) ==
  \/ i = 1
  \/ t[i] = "w" /\ t[i - 1] \in {".", "p"}
  \/ t[i] = "s" /\ t[i - 1] # "s" /\ ~ (t[i - 1] = "w" /\ BlankFrom(t, i))
  \/ t[i] \in {".", "p"}

\* It says where a token starts.
LEMMA StartsAreStarts ==
  ASSUME NEW t \in Seq(Chars), NEW w \in 1 .. Len(t), t[w] = "w", NEW i \in 1 .. Len(t)
  PROVE  i \in SplitStarts(t) <=> Starts(t, i)
<1>1. Indices(t, "w") # {}
  BY DEF Indices
<1>2. t[i] \in {"w", "s", ".", "p"}
  BY DEF Chars
<1>3. i \in 1 .. Len(t) + 1
  OBVIOUS
<1>4. IsAllWhitespace(SubSeq(t, i, Len(t))) <=> BlankFrom(t, i)
  BY <1>3, BlankRest
<1>5. i \in SplitStarts(t) <=>
        \/ i = 1
        \/ /\ Indices(t, "w") # {}
           /\ CASE t[i] = "w" -> t[i - 1] \in {".", "p"}
                [] t[i] = "s" -> /\ t[i - 1] # "s"
                                 /\ ~(t[i - 1] = "w" /\ IsAllWhitespace(SubSeq(t, i, Len(t))))
                [] OTHER -> TRUE
  BY DEF SplitStarts
<1>6. CASE t[i] = "w"
  BY <1>1, <1>5, <1>6 DEF Starts
<1>7. CASE t[i] = "s"
  BY <1>1, <1>4, <1>5, <1>7 DEF Starts
<1>8. CASE t[i] \in {".", "p"}
  BY <1>1, <1>5, <1>8 DEF Starts
<1> QED
  BY <1>2, <1>6, <1>7, <1>8

\* A run between words starts tokens where SplitNonWord cuts it.
LEMMA RunStarts ==
  ASSUME NEW t \in Seq(Chars), NEW w \in 1 .. Len(t), t[w] = "w",
         NEW p \in 1 .. Len(t), NEW q \in p .. Len(t), \A i \in p .. q : t[i] # "w",
         p = 1 \/ t[p - 1] = "w", ~ BlankFrom(t, p)
  PROVE  /\ \A i \in p .. q : i \in SplitStarts(t) <=> (i = p \/ t[i] # "s" \/ t[i - 1] # "s")
         /\ IsCut(SplitNonWord(SubSeq(t, p, q)), t, SplitStarts(t), p, q)
<1>1. ASSUME NEW i \in p .. q
      PROVE  i \in SplitStarts(t) <=> (i = p \/ t[i] # "s" \/ t[i - 1] # "s")
  <2>1. i \in 1 .. Len(t)
    OBVIOUS
  <2>2. t[i] \in {"s", ".", "p"}
    BY <2>1 DEF Chars
  <2>3. i \in SplitStarts(t) <=> Starts(t, i)
    BY <2>1, StartsAreStarts
  <2>4. CASE i = p
    BY <2>2, <2>3, <2>4 DEF Starts
  <2>5. CASE i # p
    <3>1. i - 1 \in p .. q /\ i # 1
      BY <2>5
    <3>2. t[i - 1] # "w"
      BY <3>1
    <3> QED
      BY <2>2, <2>3, <2>5, <3>1, <3>2 DEF Starts
  <2> QED
    BY <2>4, <2>5
<1> QED
  BY <1>1, CutRun

\* The last piece of a run is blank just when the last character is.
LEMMA LastPiece ==
  ASSUME NEW t \in Seq(Chars), NEW S, NEW p \in 1 .. Len(t), NEW q \in p .. Len(t),
         \A i \in p .. q : i \in S <=> (i = p \/ t[i] # "s" \/ t[i - 1] # "s"),
         NEW x, IsCut(x, t, S, p, q)
  PROVE  Last(x)[1] = "s" <=> t[q] = "s"
<1>1. PICK s : IsCutAt(x, t, S, p, q, s)
  BY DEF IsCut
<1> DEFINE n == Len(s)
           a == s[n]
<1>2. p \in Nat /\ q \in Nat /\ 0 < p /\ p <= q /\ q <= Len(t) /\ Len(t) \in Nat
  OBVIOUS
<1>3. /\ n \in Nat /\ Len(x) = n /\ n > 0 /\ n \in 1 .. n
      /\ a \in p .. q /\ a \in S /\ x[n] = SubSeq(t, a, q)
      /\ \A i, j \in 1 .. n : i < j => s[i] < s[j]
      /\ \A k \in 1 .. n : s[k] \in p .. q
      /\ \A i \in p .. q : i \in S => \E k \in 1 .. n : s[k] = i
  <2>1. n \in Nat /\ Len(x) = n /\ n > 0
    BY <1>1, <1>2 DEF IsCutAt
  <2>2. n \in 1 .. n
    BY <2>1
  <2> QED
    BY <1>1, <2>1, <2>2 DEF IsCutAt, PieceEnd
<1>4. Last(x)[1] = t[a]
  <2>1. a \in Nat /\ a > 0 /\ q \in Int /\ q <= Len(t) /\ a <= q + 1 /\ 1 \in 1 .. q - a + 1 /\ a + 1 - 1 = a
    <3>1. \A i \in p .. q : i \in Nat /\ i > 0 /\ i <= q + 1 /\ 1 \in 1 .. q - i + 1 /\ i + 1 - 1 = i
      BY <1>2
    <3> QED
      BY <1>2, <1>3, <3>1
  <2> HIDE DEF a
  <2>2. IsPart(SubSeq(t, a, q), Chars, t, a, q)
    BY <2>1, PartPlaces
  <2>3. SubSeq(t, a, q)[1] = t[a]
    BY <2>1, <2>2 DEF IsPart
  <2> QED
    BY <2>3, <1>3 DEF Last
<1> HIDE DEF a, n
<1>5. \A i \in p .. q : i > a => i \notin S
  <2>1. SUFFICES ASSUME NEW i \in p .. q, i > a, i \in S PROVE FALSE
    OBVIOUS
  <2>2. PICK k \in 1 .. n : s[k] = i
    BY <2>1, <1>3
  <2>3. CASE k = n
    BY <2>1, <2>2, <2>3, <1>2, <1>3 DEF a
  <2>4. CASE k # n
    <3>1. k < n /\ s[k] < a
      BY <2>4, <1>3 DEF a
    <3> QED
      BY <2>1, <2>2, <3>1, <1>2, <1>3
  <2> QED
    BY <2>3, <2>4
<1>6. CASE a = q
  BY <1>4, <1>6
<1>7. CASE a # q
  <2>1. q \in p .. q /\ q > a
    BY <1>2, <1>3, <1>7
  <2>2. t[q] = "s"
    BY <2>1, <1>5
  <2>3. a + 1 \in p .. q /\ a + 1 > a /\ (a + 1) - 1 = a
    BY <1>2, <1>3, <1>7
  <2>4. t[a] = "s"
    <3>1. a + 1 \notin S
      BY <2>3, <1>5
    <3> QED
      BY <2>3, <3>1
  <2> QED
    BY <2>2, <2>4, <1>4
<1> QED
  BY <1>6, <1>7

\* A word and the run before it are cut into the tokens that are described.
LEMMA WithWordCuts ==
  ASSUME NEW t \in Seq(Chars), NEW e \in 0 .. Len(t), NEW f \in 1 .. Len(t), NEW g \in f .. Len(t),
         \A i \in f .. g : t[i] = "w", \A i \in e + 1 .. f - 1 : t[i] # "w",
         e < f, e > 0 => t[e] = "w" /\ e + 1 < f
  PROVE  IsCut(WithWord(SubSeq(t, e + 1, f - 1), SubSeq(t, f, g)), t, SplitStarts(t), e + 1, g)
<1> DEFINE S == SplitStarts(t)
           run == SubSeq(t, e + 1, f - 1)
           word == SubSeq(t, f, g)
           l == Len(t)
<1>1. e \in Nat /\ f \in Nat /\ g \in Nat /\ 0 < f /\ f <= g /\ g <= l /\ l \in Nat
  OBVIOUS
<1>2. t[f] = "w" /\ f \in 1 .. Len(t)
  BY <1>1
<1>3. ASSUME NEW i \in f + 1 .. g PROVE i \notin S
  <2>1. i \in 1 .. Len(t) /\ i - 1 \in f .. g /\ i \in f .. g /\ i # 1
    BY <1>1
  <2>2. t[i] = "w" /\ t[i - 1] = "w"
    BY <2>1
  <2> QED
    BY <2>1, <2>2, <1>2, StartsAreStarts DEF Starts
<1>4. f \in S <=> f = 1 \/ t[f - 1] \in {".", "p"}
  BY <1>2, StartsAreStarts DEF Starts
<1>5. CASE f = e + 1
  <2>1. e = 0 /\ f = 1
    BY <1>1, <1>5
  <2>2. run = <<>>
    BY <2>1, SubSeqEmpty
  <2>3. WithWord(run, word) = <<word>>
    BY <2>2 DEF WithWord
  <2>4. 1 \in 1 .. Len(t) /\ g \in 1 .. Len(t) /\ 1 \in S
    BY <2>1, <1>1, <1>4
  <2>5. \A i \in 1 + 1 .. g : i \notin S
    BY <2>1, <1>3
  <2> HIDE DEF S
  <2>6. IsCut(<<SubSeq(t, 1, g)>>, t, S, 1, g)
    BY <2>4, <2>5, OnePiece
  <2> QED
    BY <2>1, <2>3, <2>6 DEF S
<1>6. CASE f # e + 1
  <2> DEFINE p == e + 1
             q == f - 1
             x == SplitNonWord(SubSeq(t, p, q))
  <2>1. p \in 1 .. Len(t) /\ q \in p .. Len(t) /\ q \in Nat /\ q + 1 = f
    BY <1>1, <1>6
  <2>2. p = 1 \/ t[p - 1] = "w"
    BY <1>1
  <2>3. ~ BlankFrom(t, p)
    <3>1. f \in p .. Len(t)
      BY <1>1
    <3> QED
      BY <3>1, <1>2 DEF BlankFrom
  <2>4. \A i \in p .. q : t[i] # "w"
    OBVIOUS
  <2> HIDE DEF p, q
  <2>5. /\ \A i \in p .. q : i \in S <=> (i = p \/ t[i] # "s" \/ t[i - 1] # "s")
        /\ IsCut(x, t, S, p, q)
    BY <2>1, <2>2, <2>3, <2>4, <1>2, RunStarts
  <2>6. run # <<>>
    <3>1. p \in Nat /\ p > 0 /\ q \in Int /\ q <= Len(t) /\ p <= q
      BY <2>1
    <3>2. Len(SubSeq(t, p, q)) = q - p + 1
      BY <3>1, SubText
    <3>3. Len(SubSeq(t, p, q)) # 0
      BY <3>1, <3>2
    <3> QED
      BY <3>3 DEF p, q
  <2>7. WithWord(run, word) = IF Last(x)[1] = "s" THEN Front(x) \o <<Last(x) \o word>>
                                                  ELSE x \o <<word>>
    BY <2>6 DEF WithWord, p, q
  <2> HIDE DEF x, S, run, word
  <2>8. Last(x)[1] = "s" <=> t[q] = "s"
    BY <2>1, <2>5, LastPiece
  <2>9. t[q] \in {"s", ".", "p"} /\ t[f - 1] = t[q] /\ f # 1
    <3>1. q \in p .. q /\ q \in 1 .. Len(t) /\ f - 1 = q /\ f # 1
      BY <2>1, <1>1
    <3>2. t[q] # "w"
      BY <3>1, <2>4
    <3> QED
      BY <3>1, <3>2 DEF Chars
  <2>10. CASE t[q] = "s"
    <3>1. \A i \in q + 1 .. g : i \notin S
      <4> TAKE i \in q + 1 .. g
      <4>1. i = f \/ i \in f + 1 .. g
        BY <2>1, <1>1
      <4> QED
        BY <4>1, <2>9, <2>10, <1>3, <1>4
    <3>2. q \in p .. Len(t) /\ g \in q .. Len(t)
      BY <2>1, <1>1
    <3>3. IsCut(Front(x) \o <<Last(x) \o SubSeq(t, q + 1, g)>>, t, S, p, g)
      BY <2>1, <2>5, <3>1, <3>2, CutExtend
    <3> QED
      BY <2>1, <2>7, <2>8, <2>10, <3>3 DEF p, word, S, run
  <2>11. CASE t[q] # "s"
    <3>1. f \in S
      BY <2>9, <2>11, <1>4
    <3>2. IsCut(<<SubSeq(t, f, g)>>, t, S, f, g)
      BY <3>1, <1>3, OnePiece
    <3>3. p \in Nat /\ q \in Int /\ g \in Int /\ p <= q + 1 /\ q <= g
      BY <2>1, <1>1
    <3>4. IsCut(<<SubSeq(t, f, g)>>, t, S, q + 1, g)
      BY <3>2, <2>1
    <3>5. IsCut(x \o <<SubSeq(t, f, g)>>, t, S, p, g)
      BY <3>3, <3>4, <2>5, CutJoin
    <3> QED
      BY <2>7, <2>8, <2>11, <3>5 DEF p, word, S, run
  <2> QED
    BY <2>10, <2>11
<1> QED
  BY <1>5, <1>6

\* So are the run behind the last word and the tokens before it.
LEMMA WithRestCuts ==
  ASSUME NEW t \in Seq(Chars), NEW m \in 1 .. Len(t), t[m] = "w",
         \A i \in m + 1 .. Len(t) : t[i] # "w",
         NEW x, IsCut(x, t, SplitStarts(t), 1, m)
  PROVE  IsCut(WithRest(x, SubSeq(t, m + 1, Len(t))), t, SplitStarts(t), 1, Len(t))
<1> DEFINE S == SplitStarts(t)
           l == Len(t)
           run == SubSeq(t, m + 1, l)
<1>1. l \in Nat /\ m \in Nat /\ 0 < m /\ m <= l /\ 1 \in 1 .. Len(t) /\ m \in 1 .. Len(t)
  OBVIOUS
<1>2. CASE m = l
  <2>1. run = <<>>
    <3>1. m + 1 \in Int /\ l \in Int /\ l < m + 1
      BY <1>1, <1>2
    <3> QED
      BY <3>1, SubSeqEmpty
  <2> QED
    BY <1>2, <2>1 DEF WithRest
<1>3. CASE m # l
  <2> DEFINE p == m + 1
  <2>1. p \in 1 .. Len(t) /\ l \in p .. Len(t) /\ p - 1 = m /\ p \in 1 .. Len(t) + 1
    BY <1>1, <1>3
  <2>2. run # <<>>
    <3>1. p \in Nat /\ p > 0 /\ l \in Int /\ l <= Len(t) /\ p <= l
      BY <2>1
    <3> HIDE DEF l, p
    <3>2. Len(SubSeq(t, p, l)) = l - p + 1
      BY <3>1, SubText
    <3> DEFINE r == SubSeq(t, p, l)
    <3>3. Len(r) # 0
      BY <3>1, <3>2
    <3> HIDE DEF r
    <3>4. r # <<>>
      BY <3>3
    <3> QED
      BY <3>4 DEF p, l, r
  <2>3. IsAllWhitespace(run) <=> BlankFrom(t, p)
    BY <2>1, BlankRest
  <2>4. CASE BlankFrom(t, p)
    <3>1. \A i \in m + 1 .. l : i \notin S
      <4> TAKE i \in m + 1 .. l
      <4>1. i \in 1 .. Len(t) /\ i \in p .. Len(t) /\ i # 1
        BY <2>1, <1>1
      <4>2. t[i] = "s"
        BY <2>4, <4>1 DEF BlankFrom
      <4>3. i \in S <=> Starts(t, i)
        BY <4>1, StartsAreStarts
      <4>4. CASE i = p
        BY <4>1, <4>2, <4>3, <4>4, <2>1, <2>4 DEF Starts
      <4>5. CASE i # p
        <5>1. i - 1 \in p .. Len(t)
          BY <4>1, <4>5, <1>1
        <5>2. t[i - 1] = "s"
          BY <5>1, <2>4 DEF BlankFrom
        <5> QED
          BY <4>1, <4>2, <4>3, <5>2 DEF Starts
      <4> QED
        BY <4>4, <4>5
    <3>2. l \in m .. Len(t)
      BY <1>1
    <3> HIDE DEF l
    <3>3. IsCut(Front(x) \o <<Last(x) \o SubSeq(t, m + 1, l)>>, t, S, 1, l)
      BY <3>1, <3>2, <1>1, CutExtend
    <3>4. WithRest(x, run) = Front(x) \o <<Last(x) \o run>>
      BY <2>2, <2>3, <2>4 DEF WithRest
    <3> QED
      BY <3>3, <3>4 DEF l
  <2>5. CASE ~ BlankFrom(t, p)
    <3>1. p = 1 \/ t[p - 1] = "w"
      BY <2>1
    <3>2. \A i \in p .. l : t[i] # "w"
      OBVIOUS
    <3> HIDE DEF l, p
    <3>3. IsCut(SplitNonWord(SubSeq(t, p, l)), t, S, p, l)
      BY <2>1, <2>5, <3>1, <3>2, RunStarts
    <3> DEFINE y == SplitNonWord(SubSeq(t, p, l))
    <3> HIDE DEF y
    <3>4. IsCut(y, t, S, m + 1, l)
      BY <3>3 DEF y, p
    <3>5. 1 \in Nat /\ m \in Int /\ l \in Int /\ 1 <= m + 1 /\ m <= l
      BY <1>1
    <3> HIDE DEF S
    <3>6. IsCut(x, t, S, 1, m)
      BY DEF S
    <3>7. IsCut(x \o y, t, S, 1, l)
      BY <3>4, <3>5, <3>6, CutJoin
    <3>8. WithRest(x, run) = x \o y
      BY <2>2, <2>3, <2>5 DEF WithRest, y, p
    <3> QED
      BY <3>7, <3>8 DEF l, S
  <2> QED
    BY <2>4, <2>5
<1> QED
  BY <1>2, <1>3

\* Split cuts every text at SplitStarts.
LEMMA SplitCuts ==
  ASSUME NEW t \in Seq(Chars), t # <<>>
  PROVE  IsCut(Split(t), t, SplitStarts(t), 1, Len(t))
<1> DEFINE S == SplitStarts(t)
           l == Len(t)
           sp == WordSpans(t)
           n == Len(sp)
           end(k) == IF k = 0 THEN 0 ELSE sp[k][2]
           part(k) == WithWord(SubSeq(t, end(k - 1) + 1, sp[k][1] - 1),
                               SubSeq(t, sp[k][1], sp[k][2]))
           parts == [k \in 1 .. n |-> part(k)]
           rest == SubSeq(t, end(n) + 1, Len(t))
<1>1. l \in Nat /\ l > 0 /\ 1 \in 1 .. Len(t)
  <2>1. Len(t) \in Nat /\ Len(t) > 0
    OBVIOUS
  <2> QED
    BY <2>1
<1>2. AreSpans(t, sp)
  BY WordsAreSpans
<1>3. n \in Nat /\ (sp = <<>> <=> n = 0)
  <2>1. \E m \in Nat : \E g : sp = [k \in 1 .. m |-> g[k]]
    <3> DEFINE first == Ascending(Len(t), {i \in Indices(t, "w") : i = 1 \/ t[i - 1] # "w"})
    <3>1. Len(first) \in Nat
      BY <1>1, AscendingPlaces
    <3>2. sp = [k \in 1 .. Len(first) |-> sp[k]]
      BY DEF WordSpans
    <3> QED
      BY <3>1, <3>2
  <2>2. n \in Nat
    BY <1>2 DEF AreSpans
  <2> QED
    BY <2>1, <2>2
<1>4. \A k \in 0 .. n : end(k) = SpanEnd(sp, k)
  BY DEF SpanEnd
<1>5. Split(t) = CASE t = <<>> -> <<>>
                   [] t # <<>> /\ sp = <<>> -> <<t>>
                   [] OTHER -> WithRest(FlattenSeq(parts), rest)
  BY DEF Split
<1> HIDE DEF sp, part
<1>6. CASE n = 0
  <2>1. \A i \in 1 .. l : t[i] # "w"
    <3>1. SpanEnd(sp, n) + 1 = 1
      BY <1>6 DEF SpanEnd
    <3> QED
      BY <1>2, <3>1 DEF AreSpans
  <2>2. Indices(t, "w") = {}
    BY <2>1 DEF Indices
  <2>3. 1 \in S
    BY <1>1 DEF SplitStarts
  <2>4. \A i \in 1 + 1 .. l : i \notin S
    BY <2>2 DEF SplitStarts
  <2>5. l \in 1 .. Len(t)
    BY <1>1
  <2> HIDE DEF S, l
  <2>6. IsCut(<<SubSeq(t, 1, l)>>, t, S, 1, l)
    BY <1>1, <2>3, <2>4, <2>5, OnePiece
  <2>7. SubSeq(t, 1, l) = t
    BY SubSeqFull DEF l
  <2>8. Split(t) = <<t>>
    BY <1>3, <1>5, <1>6
  <2> QED
    BY <2>6, <2>7, <2>8 DEF S, l
<1>7. CASE n # 0
  <2>1. n > 0 /\ n \in 1 .. n /\ 1 \in 1 .. n
    BY <1>3, <1>7
  <2>2. ASSUME NEW k \in 1 .. n
        PROVE  /\ end(k - 1) \in 0 .. Len(t) /\ end(k) \in 1 .. Len(t) /\ t[end(k)] = "w"
               /\ sp[k][1] \in 1 .. Len(t) /\ sp[k][2] \in sp[k][1] .. Len(t)
               /\ end(k - 1) < sp[k][1] /\ sp[k][2] = end(k)
               /\ \A i \in sp[k][1] .. sp[k][2] : t[i] = "w"
               /\ \A i \in end(k - 1) + 1 .. sp[k][1] - 1 : t[i] # "w"
               /\ end(k - 1) > 0 => t[end(k - 1)] = "w" /\ end(k - 1) + 1 < sp[k][1]
               /\ IsCut(part(k), t, S, end(k - 1) + 1, end(k))
    <3>1. \A j \in 1 .. n : sp[j][2] \in 1 .. Len(t) /\ t[sp[j][2]] = "w"
      <4> TAKE j \in 1 .. n
      <4>1. IsSpan(t, sp, j)
        BY <1>2 DEF AreSpans
      <4>2. sp[j][1] \in 1 .. Len(t) /\ sp[j][2] \in sp[j][1] .. Len(t)
            /\ \A i \in sp[j][1] .. sp[j][2] : t[i] = "w"
        BY <4>1 DEF IsSpan
      <4>3. \A a \in 1 .. l : \A b \in a .. l : b \in a .. b /\ b \in 1 .. l
        BY <1>1
      <4> QED
        BY <4>2, <4>3
    <3>2. IsSpan(t, sp, k)
      BY <1>2 DEF AreSpans
    <3>3. k - 1 \in 0 .. n /\ k \in 0 .. n /\ k # 0 /\ (k > 1 <=> k - 1 # 0) /\ (k - 1 # 0 => k - 1 \in 1 .. n)
      BY <1>3
    <3>4. SpanEnd(sp, k - 1) = end(k - 1)
      BY <3>3, <1>4
    <3>5. end(k - 1) \in 0 .. Len(t) /\ (end(k - 1) > 0 => k > 1 /\ t[end(k - 1)] = "w")
      <4>1. CASE k - 1 = 0
        BY <4>1, <1>1
      <4>2. CASE k - 1 # 0
        <5>1. end(k - 1) = sp[k - 1][2] /\ sp[k - 1][2] \in 1 .. Len(t) /\ t[sp[k - 1][2]] = "w"
          BY <4>2, <3>1, <3>3
        <5> QED
          BY <5>1, <3>3, <4>2, <1>1
      <4> QED
        BY <4>1, <4>2
    <3>6. end(k) = sp[k][2] /\ end(k) \in 1 .. Len(t) /\ t[end(k)] = "w"
      BY <3>1, <3>3
    <3> DEFINE e == end(k - 1)
               f == sp[k][1]
               g == sp[k][2]
    <3>7. /\ e \in 0 .. Len(t) /\ f \in 1 .. Len(t) /\ g \in f .. Len(t)
          /\ \A i \in f .. g : t[i] = "w"
          /\ \A i \in e + 1 .. f - 1 : t[i] # "w"
          /\ e < f /\ (e > 0 => t[e] = "w" /\ e + 1 < f)
      BY <3>2, <3>4, <3>5 DEF IsSpan
    <3>8. part(k) = WithWord(SubSeq(t, e + 1, f - 1), SubSeq(t, f, g))
      BY DEF part
    <3> HIDE DEF e, f, g, S
    <3>9. IsCut(part(k), t, SplitStarts(t), e + 1, g)
      BY <3>7, <3>8, WithWordCuts
    <3> QED
      BY <3>6, <3>7, <3>9 DEF e, f, g, S
  <2>3. \A k \in 1 .. n : part(k) \in Texts
    <3> TAKE k \in 1 .. n
    <3>1. \E s : IsCutAt(part(k), t, S, end(k - 1) + 1, end(k), s)
      BY <2>2 DEF IsCut
    <3> QED
      BY <3>1 DEF IsCutAt
  <2>4. parts \in Seq(Texts) /\ Len(parts) = n /\ parts # <<>> /\ \A k \in 1 .. n : parts[k] = part(k)
    BY <1>3, <2>1, <2>3
  <2> DEFINE y == FlattenSeq(parts)
  <2> HIDE DEF end, parts, S, l, n
  <2>5. PICK f : /\ f[1] = parts[1] /\ y = f[n]
                 /\ \A i \in 2 .. n : f[i] = f[i - 1] \o parts[i]
    BY <2>4, FlattenSteps DEF Texts
  <2> HIDE DEF y
  <2> DEFINE G == {k \in 0 .. n : k > 0 => IsCut(f[k], t, S, 1, end(k))}
  <2>6. ASSUME NEW k \in 1 .. n, k - 1 \in G PROVE k \in G
    <3>1. IsCut(part(k), t, S, end(k - 1) + 1, end(k))
      BY <2>2
    <3>2. CASE k = 1
      <4>1. end(k - 1) + 1 = 1
        BY <3>2 DEF end
      <4>2. f[k] = part(k)
        BY <3>2, <2>1, <2>4, <2>5
      <4> QED
        BY <3>1, <4>1, <4>2, <1>3
    <3>3. CASE k # 1
      <4>1. k \in 2 .. n /\ k - 1 \in 1 .. n /\ k - 1 > 0 /\ k \in 0 .. n
        BY <3>3, <1>3
      <4>2. f[k] = f[k - 1] \o part(k)
        BY <4>1, <2>4, <2>5
      <4>3. IsCut(f[k - 1], t, S, 1, end(k - 1))
        BY <4>1, <2>6
      <4> DEFINE m == end(k - 1)
                 b == end(k)
      <4>4. 1 \in Nat /\ m \in Int /\ b \in Int /\ 1 <= m + 1 /\ m <= b
        <5>1. m \in 0 .. Len(t) /\ sp[k][1] \in 1 .. Len(t) /\ b \in sp[k][1] .. Len(t) /\ m < sp[k][1]
          BY <2>2
        <5> HIDE DEF m, b
        <5> QED
          BY <5>1, <1>1
      <4> HIDE DEF m, b
      <4>5. IsCut(f[k - 1] \o part(k), t, S, 1, b)
        BY <3>1, <4>3, <4>4, CutJoin DEF m, b
      <4> QED
        BY <4>1, <4>2, <4>5 DEF b
    <3> QED
      BY <3>2, <3>3
  <2>7. 0 \in G /\ n \in 0 .. n
    BY <1>3
  <2> HIDE DEF G
  <2>8. n \in G
    BY <1>3, <2>6, <2>7, Induction
  <2>9. IsCut(y, t, S, 1, end(n))
    BY <2>1, <2>5, <2>8 DEF G
  <2> DEFINE m == end(n)
  <2>10. m \in 1 .. Len(t) /\ t[m] = "w"
    BY <2>1, <2>2
  <2>11. \A i \in m + 1 .. Len(t) : t[i] # "w"
    <3>1. SpanEnd(sp, n) = m
      BY <2>1, <1>3, <1>4
    <3> QED
      BY <1>2, <3>1 DEF AreSpans, n
  <2> HIDE DEF m
  <2>12. IsCut(WithRest(y, SubSeq(t, m + 1, Len(t))), t, SplitStarts(t), 1, Len(t))
    BY <2>9, <2>10, <2>11, WithRestCuts DEF m, S
  <2>13. Split(t) = WithRest(y, SubSeq(t, m + 1, Len(t)))
    BY <1>3, <1>5, <1>7 DEF y, m
  <2> QED
    BY <2>12, <2>13
<1> QED
  BY <1>6, <1>7

\* Split cuts every text at SplitStarts and loses nothing of it.
LEMMA SplitIsCut ==
  ASSUME NEW t \in Seq(Chars)
  PROVE  /\ Split(t) = IF t = <<>> THEN <<>> ELSE CutAt(t, SplitStarts(t))
         /\ FlattenSeq(Split(t)) = t
<1>1. CASE t = <<>>
  BY <1>1 DEF Split, FlattenSeq
<1>2. CASE t # <<>>
  <2>1. IsCut(Split(t), t, SplitStarts(t), 1, Len(t))
    BY <1>2, SplitCuts
  <2>2. Split(t) = CutAt(t, SplitStarts(t))
    BY <2>1, CutIsCutAt
  <2>3. FlattenSeq(Split(t)) = t
    BY <1>2, <2>1, CutIsWhole
  <2> QED
    BY <1>2, <2>2, <2>3
<1> QED
  BY <1>1, <1>2

\* In a text with a word and without blanks at its end these are the tokens that
\* the tokenizer's comment describes.
LEMMA SplitIsDescribed ==
  ASSUME NEW t \in Seq(Chars), Indices(t, "w") # {}, t[Len(t)] # "s"
  PROVE  Split(t) = TokensAsDescribed(t)
<1>1. PICK w \in 1 .. Len(t) : t[w] = "w"
  BY DEF Indices
<1>2. t # <<>> /\ Len(t) \in Nat /\ Len(t) \in 1 .. Len(t)
  BY <1>1
<1>3. ASSUME NEW i \in 1 .. Len(t) PROVE i \in SplitStarts(t) <=> i \in TokenStarts(t)
  <2>1. i \in SplitStarts(t) <=> Starts(t, i)
    BY <1>1, StartsAreStarts
  <2>2. ~ BlankFrom(t, i)
    <3>1. Len(t) \in i .. Len(t)
      BY <1>2
    <3> QED
      BY <3>1 DEF BlankFrom
  <2>3. i \in TokenStarts(t) <=> /\ i \in 1 .. Len(t)
                                 /\ \/ i = 1
                                    \/ t[i] = "w" /\ t[i - 1] \in {".", "p"}
                                    \/ t[i] = "s" /\ t[i - 1] # "s"
                                    \/ t[i] \in {".", "p"}
    BY DEF TokenStarts
  <2> QED
    BY <2>1, <2>2, <2>3 DEF Starts
<1>4. SplitStarts(t) \subseteq 1 .. Len(t) /\ TokenStarts(t) \subseteq 1 .. Len(t)
  BY DEF SplitStarts, TokenStarts
<1>5. SplitStarts(t) = TokenStarts(t)
  BY <1>3, <1>4
<1>6. Split(t) = CutAt(t, SplitStarts(t))
  BY <1>2, SplitIsCut
<1> QED
  BY <1>2, <1>5, <1>6 DEF TokensAsDescribed

-----------------------------------------------------------------------------
(* How many tokens a joined text has *)

\* Ascending lists a set without repetition: its length is the set's size.
LEMMA AscendingCount ==
  ASSUME NEW n \in Nat, NEW S, S \subseteq 1 .. n
  PROVE  IsFiniteSet(S) /\ Cardinality(S) = Len(Ascending(n, S))
<1> DEFINE s == Ascending(n, S)
           m == Len(s)
<1>1. S \cap 1 .. n = S
  OBVIOUS
<1>2. /\ s \in Seq(S)
      /\ \A i, j \in 1 .. m : i < j => s[i] < s[j]
      /\ \A x \in S : \E k \in 1 .. m : s[k] = x
  <2>1. IsAscending(s, n, S)
    BY AscendingIsAscending
  <2> HIDE DEF s
  <2> QED
    BY <1>1, <2>1 DEF IsAscending
<1> HIDE DEF s
<1>3. m \in Nat /\ s \in [1 .. m -> S]
  BY <1>2
<1> HIDE DEF m
<1>4. ASSUME NEW i \in 1 .. m, NEW j \in 1 .. m, i # j PROVE s[i] # s[j]
  <2>1. s[i] \in Nat /\ s[j] \in Nat
    <3>1. s[i] \in S /\ s[j] \in S
      BY <1>3
    <3>2. \A x \in S : x \in Nat
      OBVIOUS
    <3> QED
      BY <3>1, <3>2
  <2>2. i < j \/ j < i
    BY <1>3, <1>4
  <2> QED
    BY <2>1, <2>2, <1>2
<1>5. s \in Bijection(1 .. m, S)
  <2>1. s \in Surjection(1 .. m, S)
    BY <1>2, <1>3 DEF Surjection, m
  <2>2. s \in Injection(1 .. m, S)
    BY <1>3, <1>4 DEF Injection, IsInjective
  <2> QED
    BY <2>1, <2>2 DEF Bijection
<1>6. ExistsBijection(1 .. m, S)
  BY <1>5 DEF ExistsBijection
<1>7. IsFiniteSet(S)
  BY <1>3, <1>6, FS_NatBijection
<1>8. Cardinality(S) = m
  BY <1>3, <1>6, FS_CountingElements
<1> QED
  BY <1>7, <1>8 DEF m, s

\* CountTokens counts the places where Split starts a token.
LEMMA CountIsStarts ==
  ASSUME NEW t \in Seq(Chars)
  PROVE  IsFiniteSet(SplitStarts(t)) /\ CountTokens(t) = Cardinality(SplitStarts(t))
<1> DEFINE S == SplitStarts(t)
           l == Len(t)
<1>1. l \in Nat
  OBVIOUS
<1>2. S \subseteq 1 .. l
  BY DEF SplitStarts
<1> HIDE DEF S, l
<1>3. IsFiniteSet(S) /\ Cardinality(S) = Len(Ascending(l, S))
  BY <1>1, <1>2, AscendingCount
<1>4. CASE t = <<>>
  <2>1. l = 0 /\ S = {}
    BY <1>2, <1>4 DEF l
  <2>2. CountTokens(t) = 0
    BY <1>4 DEF CountTokens, Split
  <2> QED
    BY <2>1, <2>2, <1>3, FS_EmptySet DEF S
<1>5. CASE t # <<>>
  <2>1. Split(t) = CutAt(t, S)
    BY <1>5, SplitIsCut DEF S
  <2> DEFINE s == Ascending(l, S)
             piece(k) == SubSeq(t, s[k], IF k = Len(s) THEN l ELSE s[k + 1] - 1)
  <2>2. CutAt(t, S) = [k \in 1 .. Len(s) |-> piece(k)]
    BY DEF CutAt, l
  <2>3. Len(s) \in Nat
    BY <1>1, AscendingPlaces
  <2> HIDE DEF s, piece
  <2>4. Len(CutAt(t, S)) = Len(s)
    BY <2>2, <2>3
  <2> QED
    BY <2>1, <2>4, <1>3 DEF CountTokens, S, s
<1> QED
  BY <1>4, <1>5

\* A text that begins with a word and does not end in a blank.
IsProse(t) == t \in Seq(Chars) /\ Len(t) \in Nat /\ Len(t) > 0 /\ t[1] = "w" /\ t[Len(t)] # "s"

\* A text with a word that does not end in a blank.
IsHead(t) == /\ t \in Seq(Chars) /\ Len(t) \in Nat /\ Len(t) > 0 /\ t[Len(t)] # "s"
             /\ \E i \in 1 .. Len(t) : t[i] = "w"

IsBlank(t) == t \in Seq(Chars) /\ Len(t) \in Nat /\ Len(t) > 0 /\ \A i \in 1 .. Len(t) : t[i] = "s"

\* The text r is a, then the blanks s, then b.
IsApart(r, a, s, b) ==
  /\ r \in Seq(Chars) /\ Len(r) = Len(a) + Len(s) + Len(b)
  /\ \A i \in 1 .. Len(a) : r[i] = a[i]
  /\ \A i \in 1 .. Len(s) : r[Len(a) + i] = s[i]
  /\ \A i \in 1 .. Len(b) : r[Len(a) + Len(s) + i] = b[i]

\* The concatenation of three has them one behind the other.
LEMMA ApartPlaces ==
  ASSUME NEW a \in Seq(Chars), NEW s \in Seq(Chars), NEW b \in Seq(Chars)
  PROVE  IsApart(a \o (s \o b), a, s, b)
<1> DEFINE u == s \o b
           r == a \o u
           x == Len(a)
           y == Len(s)
           z == Len(b)
<1>1. IsConcat(u, Chars, s, b)
  BY ConcatPlaces
<1>2. u \in Seq(Chars)
  BY <1>1 DEF IsConcat
<1> HIDE DEF u
<1>3. IsConcat(r, Chars, a, u)
  BY <1>2, ConcatPlaces
<1> HIDE DEF r
<1>4. /\ y \in Nat /\ z \in Nat /\ Len(u) = y + z
      /\ \A i \in 1 .. y : u[i] = s[i]
      /\ \A i \in 1 .. z : u[y + i] = b[i]
  BY <1>1 DEF IsConcat
<1>5. /\ r \in Seq(Chars) /\ x \in Nat /\ Len(r) = x + Len(u)
      /\ \A i \in 1 .. x : r[i] = a[i]
      /\ \A i \in 1 .. Len(u) : r[x + i] = u[i]
  BY <1>3 DEF IsConcat
<1> HIDE DEF x, y, z
<1>6. ASSUME NEW i \in 1 .. y PROVE r[x + i] = s[i]
  <2>1. i \in 1 .. Len(u)
    BY <1>4
  <2> QED
    BY <2>1, <1>4, <1>5
<1>7. ASSUME NEW i \in 1 .. z PROVE r[x + y + i] = b[i]
  <2>1. y + i \in 1 .. Len(u) /\ x + (y + i) = x + y + i
    BY <1>4, <1>5
  <2>2. r[x + (y + i)] = u[y + i]
    BY <2>1, <1>5
  <2> QED
    BY <2>1, <2>2, <1>4
<1>8. Len(r) = x + y + z
  BY <1>4, <1>5
<1> QED
  BY <1>5, <1>6, <1>7, <1>8 DEF IsApart, r, u, x, y, z

\* Where tokens start in two texts with blanks between them: where they start in
\* the first, at the blanks, and behind the first character of the second where
\* they start there.
LEMMA ApartStarts ==
  ASSUME NEW a, IsHead(a), NEW s, IsBlank(s), NEW b, IsProse(b), NEW r, IsApart(r, a, s, b),
         NEW i \in SplitStarts(r)
  PROVE  \/ i \in SplitStarts(a)
         \/ i = Len(a) + 1
         \/ \E j \in SplitStarts(b) : j # 1 /\ i = Len(a) + Len(s) + j
<1> DEFINE x == Len(a)
           y == Len(s)
           z == Len(b)
<1>1. /\ a \in Seq(Chars) /\ s \in Seq(Chars) /\ b \in Seq(Chars) /\ r \in Seq(Chars)
      /\ x \in Nat /\ y \in Nat /\ z \in Nat /\ x > 0 /\ y > 0 /\ z > 0
      /\ a[x] # "s" /\ b[1] = "w" /\ b[z] # "s" /\ \A k \in 1 .. y : s[k] = "s"
      /\ Len(r) = x + y + z
      /\ \A k \in 1 .. x : r[k] = a[k]
      /\ \A k \in 1 .. y : r[x + k] = s[k]
      /\ \A k \in 1 .. z : r[x + y + k] = b[k]
  BY DEF IsHead, IsBlank, IsProse, IsApart
<1>2. PICK w \in 1 .. x : a[w] = "w"
  BY DEF IsHead
<1> HIDE DEF x, y, z
<1>3. i \in 1 .. x + y + z
  BY <1>1 DEF SplitStarts
<1>4. w \in 1 .. Len(r) /\ r[w] = "w"
  BY <1>1, <1>2
<1>5. Starts(r, i)
  BY <1>1, <1>3, <1>4, StartsAreStarts
<1>6. CASE i \in 1 .. x
  <2>1. r[i] = a[i]
    BY <1>1, <1>6
  <2>2. i # 1 => r[i - 1] = a[i - 1]
    <3>1. i # 1 => i - 1 \in 1 .. x
      BY <1>1, <1>6
    <3> QED
      BY <3>1, <1>1
  <2>3. ~ BlankFrom(a, i)
    <3>1. x \in i .. Len(a)
      BY <1>1, <1>6 DEF x
    <3> QED
      BY <3>1, <1>1 DEF BlankFrom
  <2>4. ~ BlankFrom(r, i)
    <3>1. x \in i .. Len(r) /\ x \in 1 .. x
      BY <1>1, <1>6
    <3>2. r[x] # "s"
      BY <3>1, <1>1
    <3> QED
      BY <3>1, <3>2 DEF BlankFrom
  <2>5. Starts(a, i)
    BY <2>1, <2>2, <2>3, <2>4, <1>5 DEF Starts
  <2>6. i \in 1 .. Len(a) /\ w \in 1 .. Len(a)
    BY <1>2, <1>6 DEF x
  <2> QED
    BY <2>5, <2>6, <1>1, <1>2, StartsAreStarts
<1>7. CASE i \in x + 1 .. x + y
  <2>1. SUFFICES ASSUME i # x + 1 PROVE FALSE
    BY DEF x
  <2>2. i - x \in 1 .. y /\ i = x + (i - x) /\ (i - 1) - x \in 1 .. y /\ i - 1 = x + ((i - 1) - x) /\ i # 1
    BY <2>1, <1>1, <1>7
  <2>3. r[i] = "s" /\ r[i - 1] = "s"
    <3>1. r[x + (i - x)] = "s"
      BY <2>2, <1>1
    <3>2. r[x + ((i - 1) - x)] = "s"
      BY <2>2, <1>1
    <3> QED
      BY <2>2, <3>1, <3>2
  <2> QED
    BY <2>2, <2>3, <1>5 DEF Starts
<1>8. CASE i \in x + y + 1 .. x + y + z
  <2> DEFINE j == i - (x + y)
  <2>1. j \in 1 .. z /\ i = x + y + j /\ i # 1
    BY <1>1, <1>8
  <2>2. r[i] = b[j]
    BY <2>1, <1>1
  <2>3. CASE j = 1
    <3>1. i - 1 = x + y /\ y \in 1 .. y
      BY <2>1, <2>3, <1>1
    <3>2. r[i - 1] = "s"
      BY <3>1, <1>1
    <3> QED
      BY <2>1, <2>2, <2>3, <3>2, <1>1, <1>5 DEF Starts
  <2>4. CASE j # 1
    <3>1. j - 1 \in 1 .. z /\ i - 1 = x + y + (j - 1)
      BY <2>1, <2>4, <1>1
    <3> HIDE DEF j
    <3>2. r[i - 1] = b[j - 1]
      BY <3>1, <1>1
    <3>3. ~ BlankFrom(b, j)
      <4>1. z \in j .. Len(b)
        BY <2>1 DEF z
      <4> QED
        BY <4>1, <1>1 DEF BlankFrom
    <3>4. ~ BlankFrom(r, i)
      <4>1. x + y + z \in i .. Len(r) /\ z \in 1 .. z
        BY <2>1, <1>1, <1>3
      <4>2. r[x + y + z] # "s"
        BY <4>1, <1>1
      <4> QED
        BY <4>1, <4>2 DEF BlankFrom
    <3>5. Starts(b, j)
      BY <2>1, <2>2, <3>2, <3>3, <3>4, <1>5 DEF Starts
    <3>6. j \in 1 .. Len(b) /\ 1 \in 1 .. Len(b)
      BY <2>1, <1>1 DEF z
    <3>7. j \in SplitStarts(b)
      BY <3>5, <3>6, <1>1, StartsAreStarts
    <3> QED
      BY <2>1, <2>4, <3>7 DEF x, y
  <2> QED
    BY <2>3, <2>4
<1>9. i \in 1 .. x \/ i \in x + 1 .. x + y \/ i \in x + y + 1 .. x + y + z
  BY <1>1, <1>3
<1> QED
  BY <1>6, <1>7, <1>8, <1>9

\* With a word in the first and at the beginning of the second, two texts with
\* blanks between them have together the tokens they have apart.
LEMMA ApartCount ==
  ASSUME NEW a, IsHead(a), NEW s, IsBlank(s), NEW b, IsProse(b)
  PROVE  CountTokens(a \o (s \o b)) <= CountTokens(a) + CountTokens(b)
<1> DEFINE r == a \o (s \o b)
           A == SplitStarts(a)
           B == SplitStarts(b)
           R == SplitStarts(r)
           p == Len(a) + 1
           q == Len(a) + Len(s)
           Shifted(j) == q + j
           C == B \ {1}
           D == {Shifted(j) : j \in C}
<1>1. a \in Seq(Chars) /\ s \in Seq(Chars) /\ b \in Seq(Chars) /\ Len(b) > 0 /\ Len(b) \in Nat
  BY DEF IsHead, IsBlank, IsProse
<1>2. IsApart(r, a, s, b)
  BY <1>1, ApartPlaces
<1> HIDE DEF r
<1>3. r \in Seq(Chars)
  BY <1>2 DEF IsApart
<1>4. /\ IsFiniteSet(A) /\ CountTokens(a) = Cardinality(A)
      /\ IsFiniteSet(B) /\ CountTokens(b) = Cardinality(B)
      /\ IsFiniteSet(R) /\ CountTokens(r) = Cardinality(R)
  BY <1>1, <1>3, CountIsStarts
<1>5. 1 \in B
  <2>1. 1 \in 1 .. Len(b)
    BY <1>1
  <2> QED
    BY <2>1 DEF SplitStarts
<1>6. R \subseteq (A \cup D) \cup {p}
  <2> HIDE DEF A, C
  <2> SUFFICES ASSUME NEW i \in R PROVE i \in (A \cup D) \cup {p}
    OBVIOUS
  <2>1. i \in A \/ i = p \/ \E j \in B : j # 1 /\ i = Len(a) + Len(s) + j
    BY <1>2, ApartStarts DEF A
  <2> QED
    BY <2>1 DEF C
<1> HIDE DEF A, B, R, p, q
<1>7. IsFiniteSet(C) /\ Cardinality(C) = Cardinality(B) - 1
  BY <1>4, <1>5, FS_RemoveElement
<1> HIDE DEF C
<1>8. IsFiniteSet(D) /\ Cardinality(D) <= Cardinality(C)
  <2> DEFINE f == [j \in C |-> Shifted(j)]
  <2>1. f \in Surjection(C, D)
    BY DEF Surjection
  <2> HIDE DEF f, D
  <2> QED
    BY <1>7, <2>1, FS_Surjection
<1> HIDE DEF D
<1>9. /\ IsFiniteSet(A \cup D)
      /\ Cardinality(A \cup D) = Cardinality(A) + Cardinality(D) - Cardinality(A \cap D)
      /\ IsFiniteSet(A \cap D)
  BY <1>4, <1>8, FS_Union, FS_Intersection
<1> DEFINE E == A \cup D
<1> HIDE DEF E
<1>10. /\ IsFiniteSet(E \cup {p})
       /\ Cardinality(E \cup {p}) = IF p \in E THEN Cardinality(E) ELSE Cardinality(E) + 1
  BY <1>9, FS_AddElement DEF E
<1>11. R \in SUBSET (E \cup {p})
  BY <1>6 DEF E
<1>12. Cardinality(R) <= Cardinality(E \cup {p})
  BY <1>10, <1>11, FS_Subset
<1>13. /\ Cardinality(A) \in Nat /\ Cardinality(B) \in Nat /\ Cardinality(C) \in Nat
       /\ Cardinality(D) \in Nat /\ Cardinality(E) \in Nat /\ Cardinality(R) \in Nat
       /\ Cardinality(E \cup {p}) \in Nat /\ Cardinality(A \cap D) \in Nat
  BY <1>4, <1>7, <1>8, <1>9, <1>10, FS_CardinalityType DEF E
<1>14. \A ca, cb, cc, cd, ce, cr, cf, ci \in Nat :
         cc = cb - 1 /\ cd <= cc /\ ce = ca + cd - ci /\ cf <= ce + 1 /\ cr <= cf => cr <= ca + cb
  OBVIOUS
<1>15. Cardinality(E \cup {p}) <= Cardinality(E) + 1
  BY <1>10, <1>13
<1>16. Cardinality(E) = Cardinality(A) + Cardinality(D) - Cardinality(A \cap D)
  BY <1>9 DEF E
<1>17. Cardinality(R) <= Cardinality(A) + Cardinality(B)
  BY <1>7, <1>8, <1>12, <1>13, <1>14, <1>15, <1>16
<1> QED
  BY <1>4, <1>17 DEF r

\* A joined text, one text after the other: prose again, with at most the sum of
\* the tokens.
LEMMA JoinCount ==
  ASSUME NEW texts \in Texts, NEW n \in Nat, n > 0, Len(texts) = n,
         \A i \in 1 .. n : IsProse(texts[i]),
         NEW separator, IsBlank(separator),
         NEW f, \A i \in 0 .. n : f[i] \in Int,
         \A i \in 1 .. n : f[i - 1] + CountTokens(texts[i]) <= f[i]
  PROVE  /\ IsProse(JoinTexts(texts, separator))
         /\ CountTokens(JoinTexts(texts, separator)) <= f[n] - f[0]
<1> DEFINE part(i) == IF i = 1 THEN texts[i] ELSE separator \o texts[i]
           parts == [i \in 1 .. n |-> part(i)]
           r == JoinTexts(texts, separator)
<1>1. 1 \in 1 .. n /\ separator \in Seq(Chars)
  BY DEF IsBlank
<1>2. r = FlattenSeq(parts)
  BY DEF JoinTexts
<1>3. \A i \in 1 .. n : texts[i] \in Seq(Chars) /\ CountTokens(texts[i]) \in Nat
  BY CountIsNat DEF IsProse
<1>4. \A i \in 1 .. n : part(i) \in Seq(Chars)
  BY <1>1, <1>3
<1> HIDE DEF part, r
<1>5. parts \in Texts /\ Len(parts) = n /\ \A i \in 1 .. n : parts[i] = part(i)
  <2>1. parts \in Seq(Seq(Chars))
    BY <1>4
  <2>2. Len(parts) = n /\ \A i \in 1 .. n : parts[i] = part(i)
    OBVIOUS
  <2> QED
    BY <2>1, <2>2 DEF Texts
<1> HIDE DEF parts
<1>6. PICK g : /\ g[1] = parts[1] /\ FlattenSeq(parts) = g[n]
               /\ \A i \in 2 .. n : g[i] = g[i - 1] \o parts[i]
  <2>1. parts \in Seq(Seq(Chars)) /\ parts # <<>>
    BY <1>5 DEF Texts
  <2>2. \E g : /\ g[1] = parts[1] /\ FlattenSeq(parts) = g[Len(parts)]
               /\ \A i \in 2 .. Len(parts) : g[i] = g[i - 1] \o parts[i]
    BY <2>1, FlattenSteps
  <2> QED
    BY <2>2, <1>5
<1> DEFINE G == {k \in 0 .. n : k > 0 => IsProse(g[k]) /\ CountTokens(g[k]) <= f[k] - f[0]}
<1>7. ASSUME NEW k \in 1 .. n, k - 1 \in G PROVE k \in G
  <2>1. f[k] \in Int /\ f[k - 1] \in Int /\ f[0] \in Int /\ k \in 0 .. n
    <3>1. k \in 0 .. n /\ k - 1 \in 0 .. n /\ 0 \in 0 .. n
      OBVIOUS
    <3> QED
      BY <3>1
  <2>2. CASE k = 1
    <3>1. f[1 - 1] + CountTokens(texts[1]) <= f[1] /\ IsProse(texts[1])
      BY <1>1
    <3>2. CountTokens(texts[1]) \in Nat
      BY <1>1, <1>3
    <3>4. g[k] = texts[1] /\ 1 - 1 = 0
      BY <1>1, <2>2, <1>5, <1>6 DEF part
    <3>3. CountTokens(g[k]) <= f[k] - f[0]
      BY <2>1, <2>2, <3>1, <3>2, <3>4
    <3> QED
      BY <2>1, <3>1, <3>3, <3>4
  <2>3. CASE k # 1
    <3>1. k \in 2 .. n /\ k - 1 \in 1 .. n /\ k - 1 > 0
      BY <2>3
    <3> DEFINE a == g[k - 1]
               b == texts[k]
    <3>2. g[k] = a \o (separator \o b)
      BY <2>3, <3>1, <1>5, <1>6 DEF part
    <3>3. IsProse(a) /\ CountTokens(a) <= f[k - 1] - f[0]
      BY <3>1, <1>7
    <3>4. IsProse(b) /\ f[k - 1] + CountTokens(b) <= f[k] /\ CountTokens(b) \in Nat
      BY <1>3
    <3> HIDE DEF a, b
    <3>5. IsHead(a)
      <4>1. 1 \in 1 .. Len(a)
        BY <3>3 DEF IsProse
      <4> QED
        BY <3>3, <4>1 DEF IsHead, IsProse
    <3>6. CountTokens(a \o (separator \o b)) <= CountTokens(a) + CountTokens(b)
      BY <3>4, <3>5, ApartCount
    <3>7. IsProse(a \o (separator \o b))
      <4> DEFINE u == a \o (separator \o b)
                 x == Len(a)
                 y == Len(separator)
                 z == Len(b)
      <4>1. IsApart(u, a, separator, b)
        BY <3>3, <3>4, ApartPlaces DEF IsProse, IsBlank
      <4> HIDE DEF u, x, y, z
      <4>2. /\ u \in Seq(Chars) /\ Len(u) = x + y + z /\ x \in Nat /\ y \in Nat /\ z \in Nat
            /\ x > 0 /\ z > 0 /\ a[1] = "w" /\ b[z] # "s"
            /\ \A i \in 1 .. x : u[i] = a[i]
            /\ \A i \in 1 .. z : u[x + y + i] = b[i]
        BY <3>3, <3>4, <4>1 DEF IsApart, IsProse, IsBlank, x, y, z
      <4>3. 1 \in 1 .. x /\ z \in 1 .. z
        BY <4>2
      <4>4. u[1] = "w" /\ u[x + y + z] # "s"
        BY <4>2, <4>3
      <4>5. IsProse(u)
        BY <4>2, <4>4 DEF IsProse
      <4> QED
        BY <4>5 DEF u
    <3>8. CountTokens(a) \in Nat /\ CountTokens(g[k]) \in Nat
      BY <3>2, <3>3, <3>7, CountIsNat DEF IsProse
    <3>9. \A ca, cb, cg \in Nat : \A e, m, h \in Int :
            cg <= ca + cb /\ ca <= m - e /\ m + cb <= h => cg <= h - e
      OBVIOUS
    <3>10. CountTokens(g[k]) <= f[k] - f[0]
      BY <2>1, <3>2, <3>3, <3>4, <3>6, <3>8, <3>9
    <3> QED
      BY <2>1, <3>2, <3>7, <3>10
  <2> QED
    BY <2>2, <2>3
<1>8. 0 \in G /\ n \in 0 .. n
  OBVIOUS
<1> HIDE DEF G
<1>9. n \in G
  BY <1>7, <1>8, Induction
<1> QED
  BY <1>2, <1>6, <1>9 DEF G, r

\* The sentences of a prose text begin and end with characters that are no blanks.
LEMMA SentencesAreTrimmed ==
  ASSUME NEW t \in Seq(Chars), t # <<>>, t[1] # "s", Last(t) # "s"
  PROVE  \A k \in 1 .. Len(SplitSentences(t)) :
           LET u == SplitSentences(t)[k] IN
           u \in Seq(Chars) /\ Len(u) \in Nat /\ Len(u) > 0 /\ u[1] # "s" /\ u[Len(u)] # "s"
<1> DEFINE l == Len(t)
           ends == {i \in Indices(t, ".") : i < l /\ t[i + 1] = "s"}
           starts == {j \in 1 .. l :
             \/ j = 1
             \/ /\ t[j] # "s"
                /\ \E i \in ends : i + 1 < j /\ IsAllWhitespace(SubSeq(t, i + 1, j - 1))}
           first == Ascending(l, starts)
           last(j) == Min({i \in ends \cup {l} : i >= j})
           sentence(k) == SubSeq(t, first[k], last(first[k]))
<1>1. l \in Nat /\ \A i \in ends : i \in 1 .. l /\ t[i] = "."
  BY DEF Indices
<1>2. \A j \in starts : j \in 1 .. l /\ t[j] # "s"
  OBVIOUS
<1>3. t[l] # "s"
  BY DEF Last
<1> HIDE DEF starts, ends
<1>4. Len(first) \in Nat /\ \A k \in 1 .. Len(first) : first[k] \in 1 .. l /\ t[first[k]] # "s"
  <2> HIDE DEF l
  <2> QED
    BY <1>1, <1>2, AscendingPlaces
<1>5. ASSUME NEW j \in 1 .. l PROVE last(j) \in j .. l /\ t[last(j)] # "s"
  <2> DEFINE later == {i \in ends \cup {l} : i >= j}
  <2>1. later \subseteq j .. l /\ l \in later
    BY <1>1
  <2>2. \A i \in later : t[i] # "s"
    BY <1>1, <1>3
  <2> HIDE DEF later, l
  <2>3. later \subseteq Nat /\ later # {}
    BY <1>1, <2>1
  <2>4. Min(later) \in later
    BY <2>3, MinIsLeast
  <2> QED
    BY <2>1, <2>2, <2>4 DEF later
<1>6. SplitSentences(t) = [k \in 1 .. Len(first) |-> sentence(k)]
  BY DEF SplitSentences, ends, starts
<1> HIDE DEF first, sentence
<1>7. Len(SplitSentences(t)) = Len(first)
  BY <1>4, <1>6
<1>8. ASSUME NEW k \in 1 .. Len(first)
      PROVE  LET u == SplitSentences(t)[k] IN
             u \in Seq(Chars) /\ Len(u) \in Nat /\ Len(u) > 0 /\ u[1] # "s" /\ u[Len(u)] # "s"
  <2> DEFINE a == first[k]
             b == last(a)
             u == SubSeq(t, a, b)
  <2>1. a \in 1 .. l /\ t[a] # "s"
    BY <1>4
  <2>2. b \in a .. l /\ t[b] # "s"
    BY <2>1, <1>5
  <2>3. SplitSentences(t)[k] = u
    BY <1>6 DEF sentence
  <2> HIDE DEF a, b
  <2>4. a \in Nat /\ a > 0 /\ b \in Int /\ b <= Len(t) /\ a <= b + 1 /\ a <= b
    BY <2>1, <2>2, <1>1
  <2>5. IsPart(u, Chars, t, a, b)
    BY <2>4, PartPlaces
  <2>6. u \in Seq(Chars) /\ Len(u) = b - a + 1 /\ \A i \in 1 .. b - a + 1 : u[i] = t[a + i - 1]
    BY <2>5 DEF IsPart
  <2> HIDE DEF u
  <2>7. 1 \in 1 .. b - a + 1 /\ b - a + 1 \in 1 .. b - a + 1
        /\ a + 1 - 1 = a /\ a + (b - a + 1) - 1 = b /\ b - a + 1 \in Nat /\ b - a + 1 > 0
    BY <2>4
  <2>8. u[1] = t[a]
    BY <2>6, <2>7
  <2>9. u[b - a + 1] = t[b]
    BY <2>6, <2>7
  <2> QED
    BY <2>1, <2>2, <2>3, <2>6, <2>7, <2>8, <2>9
<1> QED
  BY <1>7, <1>8

-----------------------------------------------------------------------------
(* ChunksFit: what the chunks weigh *)

\* The tokens ChunkSections counts for a piece: of the block, or of the window.
PieceTokens(d, p) ==
  IF p.first = Whole THEN NodeTokens[d[p.block]]
  ELSE NodeSums[d[p.block]][p.last] - NodeSums[d[p.block]][p.first - 1]

\* A block of the document, or sentences that it has.
IsPiece(d, p) ==
  /\ p.block \in BlocksOf(d)
  /\ \/ p.first = Whole /\ p.last = Whole
     \/ /\ p.first \in Nat /\ p.last \in Nat /\ 1 <= p.first /\ p.first <= p.last
        /\ p.last <= Len(NodeSentences[d[p.block]])

ArePieces(d, g) == \A k \in 1 .. Len(g) : IsPiece(d, g[k])

\* f adds up the tokens of pieces.
Totals(d, f, g) ==
  /\ f[0] = 0 /\ \A k \in 0 .. Len(g) : f[k] \in Int
  /\ \A k \in 1 .. Len(g) : f[k] = f[k - 1] + PieceTokens(d, g[k])

Weighs(d, g, v) == \E f : Totals(d, f, g) /\ f[Len(g)] = v

BudgetIn(d, headings) == Max({1, TargetMax - ContextIn(d, headings)})

IsSingle(g) == Len(g) = 1 /\ g[1].first = g[1].last

\* A chunk is one block or sentence, or within its section's budget.
IsFit(d, c) ==
  /\ Named(d, c.headings) /\ c.pieces # <<>> /\ ArePieces(d, c.pieces)
  /\ IsSingle(c.pieces) \/ \E v \in Int : Weighs(d, c.pieces, v) /\ v <= BudgetIn(d, c.headings)

AreFit(d, cs) == \A i \in 1 .. Len(cs) : IsFit(d, cs[i])

IsLight(d, g, v, b) == ArePieces(d, g) /\ Weighs(d, g, v) /\ v <= b

\* The inductive invariant of ChunksFit.
FitInv ==
  /\ AreFit(doc, chunks)
  /\ Splitting => /\ budget = BudgetIn(doc, Headings)
                  /\ IsLight(doc, group, currentTokens, budget)

\* Nothing weighs nothing.
LEMMA NothingWeighs == \A d : Weighs(d, <<>>, 0) /\ ArePieces(d, <<>>)
<1> SUFFICES ASSUME NEW d PROVE Weighs(d, <<>>, 0) /\ ArePieces(d, <<>>)
  OBVIOUS
<1> DEFINE f == [k \in 0 .. 0 |-> 0]
           none == <<>>
<1>1. f[0] = 0 /\ Len(none) = 0 /\ (\A k \in 0 .. 0 : f[k] \in Int)
  OBVIOUS
<1> HIDE DEF f, none
<1>2. \A k \in 1 .. Len(none) : FALSE
  BY <1>1
<1>3. Totals(d, f, none) /\ f[Len(none)] = 0 /\ ArePieces(d, none)
  BY <1>1, <1>2 DEF Totals, ArePieces
<1> QED
  BY <1>3 DEF Weighs, none

\* One piece more adds its tokens.
LEMMA OneMoreWeighs ==
  ASSUME NEW d, NEW P, NEW g \in Seq(P), NEW q \in P, NEW v, Weighs(d, g, v), ArePieces(d, g),
         IsPiece(d, q), PieceTokens(d, q) \in Int
  PROVE  Weighs(d, Append(g, q), v + PieceTokens(d, q)) /\ ArePieces(d, Append(g, q))
<1> DEFINE r == Append(g, q)
           n == Len(g)
           w == PieceTokens(d, q)
<1>1. /\ Len(r) = n + 1 /\ n \in Nat /\ r[n + 1] = q
      /\ \A i \in 1 .. n : r[i] = g[i]
  BY AppendedPlaces
<1>2. PICK f : Totals(d, f, g) /\ f[n] = v
  BY DEF Weighs
<1>3. /\ f[0] = 0 /\ \A k \in 0 .. n : f[k] \in Int
      /\ \A k \in 1 .. n : f[k] = f[k - 1] + PieceTokens(d, g[k])
  BY <1>2 DEF Totals
<1> HIDE DEF r, n, w
<1> DEFINE h == [k \in 0 .. n + 1 |-> IF k = n + 1 THEN v + w ELSE f[k]]
<1>4. h[n + 1] = v + w /\ \A k \in 0 .. n : h[k] = f[k]
  BY <1>1
<1> HIDE DEF h
<1>5. v \in Int /\ w \in Int /\ 0 \in 0 .. n /\ n \in 0 .. n
  BY <1>1, <1>2, <1>3 DEF w
<1>6. h[0] = 0
  BY <1>3, <1>4, <1>5
<1>7. ASSUME NEW k \in 0 .. n + 1 PROVE h[k] \in Int
  <2>1. CASE k = n + 1
    BY <2>1, <1>4, <1>5
  <2>2. CASE k # n + 1
    <3>1. k \in 0 .. n
      BY <2>2, <1>1
    <3> QED
      BY <3>1, <1>3, <1>4
  <2> QED
    BY <2>1, <2>2
<1>8. ASSUME NEW k \in 1 .. n + 1 PROVE h[k] = h[k - 1] + PieceTokens(d, r[k]) /\ IsPiece(d, r[k])
  <2>1. CASE k = n + 1
    <3>1. k - 1 = n
      BY <2>1, <1>1
    <3>2. h[k - 1] = v
      BY <3>1, <1>2, <1>4, <1>5
    <3> QED
      BY <2>1, <3>2, <1>1, <1>4 DEF w
  <2>2. CASE k # n + 1
    <3>1. k \in 0 .. n /\ k - 1 \in 0 .. n /\ k \in 1 .. n
      BY <2>2, <1>1
    <3>2. IsPiece(d, g[k])
      BY <3>1 DEF ArePieces, n
    <3> QED
      BY <3>1, <3>2, <1>1, <1>3, <1>4
  <2> QED
    BY <2>1, <2>2
<1>9. Totals(d, h, r) /\ h[Len(r)] = v + w /\ ArePieces(d, r)
  BY <1>1, <1>4, <1>6, <1>7, <1>8 DEF Totals, ArePieces
<1> QED
  BY <1>9 DEF Weighs, r, w

\* One piece weighs what it has.
LEMMA OneWeighs ==
  ASSUME NEW d, NEW q, IsPiece(d, q), PieceTokens(d, q) \in Int
  PROVE  Weighs(d, <<q>>, PieceTokens(d, q)) /\ ArePieces(d, <<q>>)
<1> DEFINE none == <<>>
           P == {q}
           w == PieceTokens(d, q)
<1>1. Append(none, q) = <<q>> /\ none \in Seq(P) /\ q \in P
  OBVIOUS
<1>2. Weighs(d, none, 0) /\ ArePieces(d, none)
  BY NothingWeighs
<1> HIDE DEF none, P
<1>3. Weighs(d, Append(none, q), 0 + w) /\ ArePieces(d, Append(none, q))
  BY <1>1, <1>2, OneMoreWeighs
<1>4. 0 + w = w
  <2>1. w \in Int
    OBVIOUS
  <2> HIDE DEF w
  <2> QED
    BY <2>1
<1> QED
  BY <1>1, <1>3, <1>4

\* The tokens of a piece are a number.
LEMMA PieceHasTokens ==
  ASSUME NEW d \in Seq(Nodes), NEW p, IsPiece(d, p)
  PROVE  PieceTokens(d, p) \in Int /\ d[p.block] \in Nodes /\ p.block \in 1 .. Len(d)
<1> DEFINE n == d[p.block]
           m == Len(NodeSentences[n])
<1>1. p.block \in 1 .. Len(d)
  BY DEF IsPiece, BlocksOf
<1>2. n \in Nodes
  BY <1>1, Element
<1>3. NodeTokens[n] \in Nat /\ m \in Nat /\ \A k \in 0 .. m : NodeSums[n][k] \in Nat
  BY <1>2, NodeFacts, SumsAreNat
<1> DEFINE i == p.first
           j == p.last
<1>4. (i = Whole /\ j = Whole) \/ (i \in Nat /\ j \in Nat /\ 1 <= i /\ i <= j /\ j <= m)
  BY DEF IsPiece
<1>5. PieceTokens(d, p) = IF i = Whole THEN NodeTokens[n] ELSE NodeSums[n][j] - NodeSums[n][i - 1]
  BY DEF PieceTokens
<1> HIDE DEF n, m, i, j
<1>6. PieceTokens(d, p) \in Int
  <2>1. CASE i = Whole
    BY <2>1, <1>3, <1>5
  <2>2. CASE i # Whole
    <3>1. j \in 0 .. m /\ i - 1 \in 0 .. m
      BY <2>2, <1>3, <1>4
    <3>2. NodeSums[n][j] \in Nat /\ NodeSums[n][i - 1] \in Nat
      BY <3>1, <1>3
    <3>3. \A x, y \in Nat : x - y \in Int
      OBVIOUS
    <3> QED
      BY <2>2, <3>2, <3>3, <1>5
  <2> QED
    BY <2>1, <2>2
<1> QED
  BY <1>1, <1>2, <1>6 DEF n

\* One chunk more that fits.
LEMMA FitAppend ==
  ASSUME NEW d, NEW C, NEW cs \in Seq(C), NEW c \in C, AreFit(d, cs), IsFit(d, c)
  PROVE  AreFit(d, Append(cs, c))
<1> DEFINE r == Append(cs, c)
           n == Len(cs)
<1>1. /\ Len(r) = n + 1 /\ n \in Nat /\ r[n + 1] = c /\ \A i \in 1 .. n : r[i] = cs[i]
  BY AppendedPlaces
<1>2. \A i \in 1 .. n : IsFit(d, cs[i])
  BY DEF AreFit
<1> HIDE DEF r, n
<1>3. ASSUME NEW i \in 1 .. n + 1 PROVE IsFit(d, r[i])
  <2>1. i = n + 1 \/ i \in 1 .. n
    BY <1>1
  <2> QED
    BY <2>1, <1>1, <1>2
<1> QED
  BY <1>1, <1>3 DEF AreFit, r

\* The headings of the section that is split.
LEMMA SectionNamed ==
  ASSUME TypeOK, TitleInv, Splitting
  PROVE  /\ Named(doc, Headings) /\ Headings \in Seq(0 .. Len(doc)) /\ sections \in Seq(Section)
         /\ chunks \in Seq(Chunk) /\ group \in Seq(Piece) /\ doc \in Seq(Nodes)
<1>1. sections \in Seq(Section) /\ sections # <<>>
      /\ chunks \in Seq(Chunk) /\ group \in Seq(Piece) /\ doc \in Seq(Nodes)
  BY DEF TypeOK, Splitting
<1>2. 1 \in 1 .. Len(sections) /\ sections[1] \in Section
  BY <1>1, FirstElement
<1>3. Under(doc, sections[1])
  BY <1>2 DEF TitleInv
<1>4. Headings \in Seq(0 .. Len(doc))
  BY <1>2, SectionFields DEF Headings
<1> QED
  BY <1>1, <1>3, <1>4 DEF Under, Headings

\* A flushed group is within the budget.
LEMMA FlushFits ==
  ASSUME TypeOK, TitleInv, FitInv, Splitting
  PROVE  AreFit(doc, Flushed(group)) /\ Flushed(group) \in Seq(Chunk)
<1> DEFINE c == [headings |-> Headings, pieces |-> group]
           C == Chunk
<1>1. /\ Named(doc, Headings) /\ Headings \in Seq(0 .. Len(doc))
      /\ chunks \in Seq(C) /\ group \in Seq(Piece) /\ sections # <<>>
  BY SectionNamed DEF Splitting
<1>2. /\ AreFit(doc, chunks) /\ budget = BudgetIn(doc, Headings)
      /\ ArePieces(doc, group) /\ Weighs(doc, group, currentTokens) /\ currentTokens <= budget
  BY DEF FitInv, IsLight
<1>3. Flushed(group) \in Seq(C)
  BY <1>1, FlushedType
<1>4. CASE group = <<>>
  BY <1>2, <1>3, <1>4 DEF Flushed
<1>5. CASE group # <<>>
  <2>1. c.headings = Headings /\ c.pieces = group /\ c \in C
    BY <1>1 DEF Chunk
  <2>2. currentTokens \in Int
    BY DEF TypeOK
  <2> HIDE DEF c
  <2>3. IsFit(doc, c)
    BY <1>1, <1>2, <1>5, <2>1, <2>2 DEF IsFit
  <2> HIDE DEF C
  <2>4. AreFit(doc, Append(chunks, c))
    BY <1>1, <1>2, <2>1, <2>3, FitAppend
  <2>5. Flushed(group) = Append(chunks, c)
    BY <1>5 DEF Flushed, c
  <2> QED
    BY <1>3, <2>4, <2>5 DEF C
<1> QED
  BY <1>4, <1>5

\* The block that is next is a piece.
LEMMA NextIsPiece ==
  ASSUME TypeOK, LossInv, AtBlock
  PROVE  /\ IsPiece(doc, WholeBlock(NextBlock)) /\ WholeBlock(NextBlock) \in Piece
         /\ PieceTokens(doc, WholeBlock(NextBlock)) = BlockTokens(NextBlock)
         /\ BlockTokens(NextBlock) \in Nat /\ NextBlock \in BlocksOf(doc)
<1>1. Chain(doc, sections)
  BY DEF LossInv
<1>2. NextBlock \in BlocksOf(doc)
  BY <1>1, ChainPlaces
<1>3. BlockTokens(NextBlock) \in Nat /\ NextBlock \in 1 .. Len(doc)
  BY NextBlockType
<1>4. WholeBlock(NextBlock) \in Piece
  BY <1>3, PieceType
<1>5. IsPiece(doc, WholeBlock(NextBlock))
  BY <1>2 DEF IsPiece, WholeBlock
<1>6. PieceTokens(doc, WholeBlock(NextBlock)) = BlockTokens(NextBlock)
  BY DEF PieceTokens, WholeBlock, BlockTokens
<1> QED
  BY <1>2, <1>3, <1>4, <1>5, <1>6

\* A step within the first section.
LEMMA SplitFits ==
  ASSUME FitInv, Splitting, UNCHANGED <<doc, sections, phase, budget>>,
         AreFit(doc, chunks'), IsLight(doc, group', currentTokens', budget)
  PROVE  FitInv'
<1>1. budget' = BudgetIn(doc', Headings')
  <2>1. budget = BudgetIn(doc, Headings) /\ Headings' = Headings
    BY DEF FitInv, Headings
  <2> QED
    BY <2>1
<1>2. AreFit(doc', chunks') /\ IsLight(doc', group', currentTokens', budget')
  OBVIOUS
<1> QED
  BY <1>1, <1>2 DEF FitInv

\* An empty group is within every budget.
LEMMA NoneIsLight ==
  ASSUME TypeOK, NEW d
  PROVE  IsLight(d, <<>>, 0, budget)
<1>1. 0 <= budget
  BY DEF TypeOK
<1>2. Weighs(d, <<>>, 0) /\ ArePieces(d, <<>>)
  BY NothingWeighs
<1> QED
  BY <1>1, <1>2 DEF IsLight

\* A block joins the group only within the budget.
LEMMA TakeBlockFits ==
  ASSUME TypeOK, LossInv, TitleInv, FitInv, TakeBlock
  PROVE  FitInv'
<1> DEFINE q == WholeBlock(NextBlock)
           w == BlockTokens(NextBlock)
           P == Piece
<1>1. /\ AtBlock /\ Splitting /\ UNCHANGED <<doc, sections, phase, budget>> /\ w <= budget
      /\ \/ chunks' = Flushed(group) /\ group' = <<q>> /\ currentTokens' = w
         \/ /\ ~ (currentTokens > 0 /\ currentTokens + w > budget)
            /\ chunks' = chunks /\ group' = Append(group, q) /\ currentTokens' = currentTokens + w
  BY DEF TakeBlock, AtBlock, Fits
<1>2. IsPiece(doc, q) /\ q \in P /\ PieceTokens(doc, q) = w /\ w \in Nat
  BY <1>1, NextIsPiece
<1>3. group \in Seq(P) /\ currentTokens \in Nat /\ budget \in Int
  BY DEF TypeOK
<1>4. AreFit(doc, Flushed(group)) /\ AreFit(doc, chunks)
      /\ ArePieces(doc, group) /\ Weighs(doc, group, currentTokens)
  BY <1>1, FlushFits DEF FitInv, IsLight
<1> HIDE DEF q, w, P
<1>5. PieceTokens(doc, q) \in Int
  BY <1>2
<1>6. Weighs(doc, <<q>>, w) /\ ArePieces(doc, <<q>>)
  <2>1. Weighs(doc, <<q>>, PieceTokens(doc, q)) /\ ArePieces(doc, <<q>>)
    BY <1>2, <1>5, OneWeighs
  <2> QED
    BY <2>1, <1>2
<1>7. Weighs(doc, Append(group, q), currentTokens + w) /\ ArePieces(doc, Append(group, q))
  <2>1. Weighs(doc, Append(group, q), currentTokens + PieceTokens(doc, q))
        /\ ArePieces(doc, Append(group, q))
    BY <1>2, <1>3, <1>4, <1>5, OneMoreWeighs
  <2> QED
    BY <2>1, <1>2
<1>8. ~ (currentTokens > 0 /\ currentTokens + w > budget) => currentTokens + w <= budget
  BY <1>1, <1>2, <1>3
<1>9. AreFit(doc, chunks') /\ IsLight(doc, group', currentTokens', budget)
  BY <1>1, <1>4, <1>6, <1>7, <1>8 DEF IsLight
<1> QED
  BY <1>1, <1>9, SplitFits

\* A chunk of one piece, behind those that fit.
LEMMA PieceFits ==
  ASSUME TypeOK, TitleInv, Splitting, NEW cs \in Seq(Chunk), AreFit(doc, cs),
         NEW q \in Piece, IsPiece(doc, q),
         q.first = q.last \/ PieceTokens(doc, q) <= BudgetIn(doc, Headings)
  PROVE  AreFit(doc, Append(cs, [headings |-> Headings, pieces |-> <<q>>]))
<1> DEFINE c == [headings |-> Headings, pieces |-> <<q>>]
           C == Chunk
           g == <<q>>
<1>1. Named(doc, Headings) /\ Headings \in Seq(0 .. Len(doc)) /\ doc \in Seq(Nodes)
  BY SectionNamed
<1>2. c \in C /\ c.headings = Headings /\ c.pieces = g
  <2>1. g \in Seq(Piece)
    OBVIOUS
  <2> QED
    BY <1>1, <2>1 DEF Chunk
<1>3. PieceTokens(doc, q) \in Int
  BY <1>1, PieceHasTokens
<1>4. Weighs(doc, g, PieceTokens(doc, q)) /\ ArePieces(doc, g)
  BY <1>3, OneWeighs
<1>5. Len(g) = 1 /\ g[1] = q /\ g # <<>>
  OBVIOUS
<1>6. cs \in Seq(C)
  OBVIOUS
<1> HIDE DEF c, C, g
<1>7. IsSingle(g) \/ \E v \in Int : Weighs(doc, g, v) /\ v <= BudgetIn(doc, Headings)
  BY <1>3, <1>4, <1>5 DEF IsSingle
<1>8. IsFit(doc, c)
  BY <1>1, <1>2, <1>4, <1>5, <1>7 DEF IsFit
<1>9. AreFit(doc, Append(cs, c))
  BY <1>2, <1>6, <1>8, FitAppend
<1> QED
  BY <1>9 DEF c, g

\* An oversized block is a chunk by itself.
LEMMA TakeOversizedFits ==
  ASSUME TypeOK, LossInv, TitleInv, FitInv, TakeOversized
  PROVE  FitInv'
<1> DEFINE q == WholeBlock(NextBlock)
<1>1. /\ AtBlock /\ Splitting /\ UNCHANGED <<doc, sections, phase, budget>>
      /\ chunks' = Append(Flushed(group), [headings |-> Headings, pieces |-> <<q>>])
      /\ group' = <<>> /\ currentTokens' = 0
  BY DEF TakeOversized, AtBlock
<1>2. IsPiece(doc, q) /\ q \in Piece /\ q.first = q.last
  BY <1>1, NextIsPiece DEF WholeBlock
<1>3. AreFit(doc, Flushed(group)) /\ Flushed(group) \in Seq(Chunk)
  BY <1>1, FlushFits
<1> HIDE DEF q
<1>4. AreFit(doc, chunks')
  BY <1>1, <1>2, <1>3, PieceFits
<1>5. IsLight(doc, group', currentTokens', budget)
  BY <1>1, NoneIsLight
<1> QED
  BY <1>1, <1>4, <1>5, SplitFits

\* Before the windows the group is flushed.
LEMMA BeginWindowsFits ==
  ASSUME TypeOK, TitleInv, FitInv, BeginWindows
  PROVE  FitInv'
<1>1. /\ Splitting /\ UNCHANGED <<doc, sections, phase, budget>>
      /\ chunks' = Flushed(group) /\ group' = <<>> /\ currentTokens' = 0
  BY DEF BeginWindows, AtBlock
<1>2. AreFit(doc, chunks')
  BY <1>1, FlushFits
<1>3. IsLight(doc, group', currentTokens', budget)
  BY <1>1, NoneIsLight
<1> QED
  BY <1>1, <1>2, <1>3, SplitFits

\* A window of several sentences is within the budget.
LEMMA WindowFits ==
  ASSUME TypeOK, LossInv, TitleInv, FitInv, Window
  PROVE  FitInv'
<1> DEFINE m == Len(Sentences(NextBlock))
<1>1. /\ AtBlock /\ Splitting /\ start > 0
      /\ UNCHANGED <<doc, sections, phase, budget, group, currentTokens>>
  BY DEF Window, AtBlock
<1>2. PICK last \in {l \in start .. m : IsLastIdx(NextBlock, l)} :
        chunks' = Append(chunks, [headings |-> Headings,
          pieces |-> <<[block |-> NextBlock, first |-> start, last |-> last]>>])
  BY DEF Window
<1> DEFINE q == [block |-> NextBlock, first |-> start, last |-> last]
<1>3. m \in Nat /\ NextBlock \in 1 .. Len(doc) /\ start \in Nat
  BY <1>1, NextBlockType DEF TypeOK
<1>4. last \in Nat /\ start <= last /\ last <= m /\ (last > start => SentenceTokens(NextBlock, start, last) <= budget)
  <2>1. last \in start .. m
    BY <1>2
  <2>2. last > start => SentenceTokens(NextBlock, start, last) <= budget
    BY <1>2 DEF IsLastIdx
  <2> HIDE DEF m
  <2>3. last \in Nat /\ start <= last /\ last <= m
    BY <1>3, <2>1
  <2> QED
    BY <2>2, <2>3
<1>5. q \in Piece
  BY <1>3, <1>4, PieceType
<1>6. NextBlock \in BlocksOf(doc)
  BY <1>1, NextIsPiece
<1>7. q.block = NextBlock /\ q.first = start /\ q.last = last /\ 1 <= start
  BY <1>1, <1>3
<1>8. chunks \in Seq(Chunk) /\ AreFit(doc, chunks) /\ budget = BudgetIn(doc, Headings)
      /\ IsLight(doc, group, currentTokens, budget)
  BY <1>1 DEF TypeOK, FitInv
<1>9. chunks' = Append(chunks, [headings |-> Headings, pieces |-> <<q>>])
  BY <1>2
<1> HIDE DEF q
<1>10. IsPiece(doc, q)
  BY <1>3, <1>4, <1>6, <1>7 DEF IsPiece, Sentences
<1>11. PieceTokens(doc, q) = SentenceTokens(NextBlock, start, last)
  BY <1>1, <1>7 DEF PieceTokens, SentenceTokens, Whole
<1>12. q.first = q.last \/ PieceTokens(doc, q) <= BudgetIn(doc, Headings)
  <2>1. start = last \/ last > start
    BY <1>3, <1>4
  <2> QED
    BY <2>1, <1>4, <1>7, <1>8, <1>11
<1>13. AreFit(doc, chunks')
  BY <1>1, <1>5, <1>8, <1>9, <1>10, <1>12, PieceFits
<1>14. IsLight(doc, group', currentTokens', budget)
  BY <1>1, <1>8
<1> QED
  BY <1>1, <1>13, <1>14, SplitFits

\* The budget of a section is what its context leaves.
LEMMA BudgetIsBudgetIn ==
  \A rest : rest # <<>> => BudgetFor(rest) = BudgetIn(doc, rest[1].headings)
BY ContextIsContextIn DEF BudgetFor, BudgetIn

\* A section begins with an empty group and its own budget.
LEMMA SectionFits ==
  ASSUME TypeOK, TypeOK', UNCHANGED doc, AreFit(doc, chunks'), group' = <<>>, currentTokens' = 0,
         budget' = BudgetFor(sections')
  PROVE  FitInv'
<1>1. ASSUME Splitting'
      PROVE  budget' = BudgetIn(doc', Headings') /\ IsLight(doc', group', currentTokens', budget')
  <2>1. sections' # <<>>
    BY <1>1 DEF Splitting
  <2>2. BudgetFor(sections') = BudgetIn(doc, sections'[1].headings)
    BY <2>1, BudgetIsBudgetIn
  <2>3. 0 <= budget'
    BY DEF TypeOK
  <2>4. Weighs(doc, <<>>, 0) /\ ArePieces(doc, <<>>)
    BY NothingWeighs
  <2> QED
    BY <2>2, <2>3, <2>4 DEF IsLight, Headings
<1> QED
  BY <1>1 DEF FitInv

\* Before the walk there is no chunk to fit.
LEMMA InitFit == Init => FitInv
<1> SUFFICES ASSUME Init PROVE FitInv
  OBVIOUS
<1>1. chunks = <<>> /\ phase = "walk"
  BY DEF Init
<1> QED
  BY <1>1 DEF FitInv, AreFit, Splitting

\* While nothing is split there are no chunks.
LEMMA NoChunkYet ==
  ASSUME Idle', phase' # "split"
  PROVE  FitInv'
BY DEF Idle, FitInv, AreFit, Splitting

\* The invariant of the chunks' weight is inductive.
LEMMA FitStep == TypeInv /\ LossInv /\ TitleInv /\ FitInv /\ [Next]_vars => FitInv'
<1> SUFFICES ASSUME TypeInv, LossInv, TitleInv, FitInv, [Next]_vars PROVE FitInv'
  OBVIOUS
<1>1. TypeOK /\ TypeOK' /\ Idle'
  BY TypeStep DEF TypeInv
<1>2. ASSUME NEW n \in Nodes, Walk(n) PROVE FitInv'
  BY <1>1, <1>2, NoChunkYet DEF Walk
<1>3. CASE EndOfDocument
  BY <1>1, <1>3, NoChunkYet DEF EndOfDocument
<1>4. CASE Merge
  BY <1>1, <1>4, NoChunkYet DEF Merge
<1>5. CASE AllMerged
  <2>1. /\ phase # "split" /\ UNCHANGED <<doc, sections, chunks, group, currentTokens>>
        /\ budget' = BudgetFor(sections)
    BY <1>5 DEF AllMerged
  <2>2. group' = <<>> /\ currentTokens' = 0 /\ AreFit(doc, chunks')
    BY <2>1 DEF TypeInv, Idle, FitInv
  <2> QED
    BY <1>1, <2>1, <2>2, SectionFits
<1>6. CASE TakeBlock
  BY <1>1, <1>6, TakeBlockFits
<1>7. CASE TakeOversized
  BY <1>1, <1>7, TakeOversizedFits
<1>8. CASE BeginWindows
  BY <1>1, <1>8, BeginWindowsFits
<1>9. CASE Window
  BY <1>1, <1>9, WindowFits
<1>10. CASE EndSection
  <2>1. /\ Splitting /\ UNCHANGED doc /\ chunks' = Flushed(group) /\ group' = <<>>
        /\ currentTokens' = 0 /\ sections' = Tail(sections) /\ budget' = BudgetFor(Tail(sections))
    BY <1>10 DEF EndSection
  <2>2. AreFit(doc, chunks') /\ budget' = BudgetFor(sections')
    BY <1>1, <2>1, FlushFits
  <2> QED
    BY <1>1, <2>1, <2>2, SectionFits
<1>11. CASE UNCHANGED vars
  BY <1>11 DEF vars, FitInv, Splitting, Headings
<1> QED
  BY <1>2, <1>3, <1>4, <1>5, <1>6, <1>7, <1>8, <1>9, <1>10, <1>11 DEF Next, Terminated

-----------------------------------------------------------------------------
(* ChunksFit: what the texts cost *)

\* A joined text is a text, and ends as the last one does.
LEMMA JoinEnds ==
  ASSUME NEW texts \in Texts, NEW n \in Nat, Len(texts) = n, NEW separator \in Seq(Chars)
  PROVE  /\ JoinTexts(texts, separator) \in Seq(Chars)
         /\ n > 0 /\ Len(texts[n]) > 0 =>
              LET r == JoinTexts(texts, separator) IN
              Len(r) \in Nat /\ Len(r) > 0 /\ r[Len(r)] = texts[n][Len(texts[n])]
<1> DEFINE part(i) == IF i = 1 THEN texts[i] ELSE separator \o texts[i]
           parts == [i \in 1 .. n |-> part(i)]
           r == JoinTexts(texts, separator)
<1>1. r = FlattenSeq(parts)
  BY DEF JoinTexts
<1>2. \A i \in 1 .. n : texts[i] \in Seq(Chars)
  BY DEF Texts
<1>3. \A i \in 1 .. n : part(i) \in Seq(Chars)
  BY <1>2
<1> HIDE DEF part, r
<1>4. parts \in Seq(Seq(Chars))
  BY <1>3
<1>5. Len(parts) = n /\ \A i \in 1 .. n : parts[i] = part(i)
  OBVIOUS
<1> HIDE DEF parts
<1>6. r \in Seq(Chars)
  BY <1>1, <1>4, FlattenType
<1>7. ASSUME n > 0, Len(texts[n]) > 0
      PROVE  Len(r) \in Nat /\ Len(r) > 0 /\ r[Len(r)] = texts[n][Len(texts[n])]
  <2>1. parts # <<>> /\ n \in 1 .. n /\ 1 \in 1 .. n
    BY <1>5, <1>7
  <2>2. PICK g : /\ g[1] = parts[1] /\ FlattenSeq(parts) = g[n]
                 /\ \A i \in 2 .. n : g[i] = g[i - 1] \o parts[i]
    <3>1. \E g : /\ g[1] = parts[1] /\ FlattenSeq(parts) = g[Len(parts)]
                 /\ \A i \in 2 .. Len(parts) : g[i] = g[i - 1] \o parts[i]
      BY <1>4, <2>1, FlattenSteps
    <3> QED
      BY <3>1, <1>5
  <2> DEFINE G == {k \in 0 .. n : k > 0 => g[k] \in Seq(Chars)}
  <2>3. ASSUME NEW k \in 1 .. n, k - 1 \in G PROVE k \in G
    <3>1. CASE k = 1
      BY <3>1, <1>3, <1>5, <2>1, <2>2
    <3>2. CASE k # 1
      <4>1. k \in 2 .. n /\ k - 1 > 0
        BY <3>2
      <4>2. g[k - 1] \in Seq(Chars) /\ parts[k] \in Seq(Chars) /\ g[k] = g[k - 1] \o parts[k]
        BY <4>1, <2>2, <2>3, <1>3, <1>5
      <4>3. g[k] \in Seq(Chars) /\ k \in 0 .. n
        BY <4>2
      <4> QED
        BY <4>3
    <3> QED
      BY <3>1, <3>2
  <2>4. 0 \in G /\ \A k \in 1 .. n : k \in 0 .. n /\ k > 0
    OBVIOUS
  <2> HIDE DEF G
  <2>5. \A k \in 0 .. n : k \in G
    BY <2>3, <2>4, Induction
  <2>6. \A k \in 1 .. n : g[k] \in Seq(Chars)
    BY <2>4, <2>5 DEF G
  <2> DEFINE b == texts[n]
             z == Len(b)
  <2>7. b \in Seq(Chars) /\ z \in Nat /\ z > 0 /\ z \in 1 .. z
    BY <1>2, <1>7, <2>1
  <2>8. CASE n = 1
    <3>1. r = b
      BY <2>8, <1>1, <1>5, <2>1, <2>2 DEF part
    <3> HIDE DEF b
    <3> QED
      BY <3>1, <2>7 DEF b
  <2>9. CASE n # 1
    <3> DEFINE a == g[n - 1]
    <3>1. n \in 2 .. n /\ n - 1 \in 1 .. n
      BY <2>9, <2>1
    <3>2. r = a \o (separator \o b)
      BY <2>9, <3>1, <1>1, <1>5, <2>1, <2>2 DEF part
    <3>3. a \in Seq(Chars)
      BY <3>1, <2>6
    <3> HIDE DEF a, b, z
    <3>4. IsApart(a \o (separator \o b), a, separator, b)
      BY <3>3, <2>7, ApartPlaces
    <3> DEFINE x == Len(a)
               y == Len(separator)
    <3>5. x \in Nat /\ y \in Nat
      BY <3>3
    <3>6. Len(r) = x + y + z /\ \A i \in 1 .. z : r[x + y + i] = b[i]
      BY <3>2, <3>4 DEF IsApart, z
    <3> HIDE DEF x, y
    <3>7. Len(r) \in Nat /\ Len(r) > 0 /\ r[Len(r)] = b[z]
      BY <3>5, <3>6, <2>7
    <3> QED
      BY <3>7 DEF b, z
  <2> QED
    BY <2>8, <2>9
<1> QED
  BY <1>6, <1>7 DEF r

\* The text of a whole block is neither empty nor does it begin or end with a
\* blank, and has the tokens that were counted.
LEMMA WholeText ==
  ASSUME doc \in Seq(Nodes), NEW p, IsPiece(doc, p), p.first = Whole
  PROVE  LET t == PieceText(p) IN
         /\ t \in Seq(Chars) /\ Len(t) \in Nat /\ Len(t) > 0 /\ t[1] # "s" /\ t[Len(t)] # "s"
         /\ CountTokens(t) = PieceTokens(doc, p)
<1> DEFINE n == doc[p.block]
<1>1. n \in Nodes
  BY PieceHasTokens
<1>2. n.text # <<>>
  BY DEF IsPiece, BlocksOf
<1>3. PieceText(p) = n.text /\ PieceTokens(doc, p) = NodeTokens[n]
  BY DEF PieceText, Text, PieceTokens
<1> HIDE DEF n
<1>4. n.text \in Seq(Chars) /\ n.text[1] # "s" /\ Last(n.text) # "s"
  BY <1>1, <1>2, ChunkerAssumption
<1>5. NodeTokens[n] = CountTokens(n.text)
  BY <1>1 DEF NodeTokens
<1>6. Len(n.text) \in Nat /\ Len(n.text) > 0 /\ n.text[Len(n.text)] # "s"
  BY <1>2, <1>4 DEF Last
<1> QED
  BY <1>3, <1>4, <1>5, <1>6

\* The sentences of a window, and how their counts add up.
IsWindow(texts, n, f, p) ==
  /\ texts \in Texts /\ n \in Nat /\ n > 0 /\ Len(texts) = n
  /\ \A k \in 0 .. n : f[k] \in Int
  /\ \A k \in 1 .. n : f[k - 1] + CountTokens(texts[k]) <= f[k]
  /\ f[n] - f[0] = PieceTokens(doc, p)
  /\ PieceText(p) = JoinTexts(texts, <<"s">>)
  /\ ~ CostsMore(p) => \A k \in 1 .. n : IsProse(texts[k])

\* A window is the sentences from its first to its last, joined by blanks.
LEMMA WindowText ==
  ASSUME doc \in Seq(Nodes), NEW p, IsPiece(doc, p), p.first # Whole
  PROVE  \E texts, n, f : IsWindow(texts, n, f, p)
<1> DEFINE node == doc[p.block]
           s == NodeSentences[node]
           m == Len(s)
           sums == NodeSums[node]
           i == p.first
           j == p.last
           n == j - i + 1
           texts == SubSeq(s, i, j)
           f == [k \in 0 .. n |-> sums[i - 1 + k]]
<1>1. node \in Nodes /\ node.text # <<>>
  BY PieceHasTokens DEF IsPiece, BlocksOf
<1>2. i \in Nat /\ j \in Nat /\ 1 <= i /\ i <= j /\ j <= m
  BY DEF IsPiece
<1>3. /\ PieceText(p) = JoinTexts(texts, <<"s">>)
      /\ PieceTokens(doc, p) = sums[j] - sums[i - 1]
      /\ CostsMore(p) <=> \E k \in i .. j : BeginsWithPunctuation(s[k])
  BY DEF PieceText, PieceTokens, CostsMore, Sentences
<1> HIDE DEF node, i, j
<1>4. s \in Seq(Seq(Chars)) /\ m \in Nat
  BY <1>1, NodeFacts DEF Texts
<1>5. /\ \A k \in 0 .. m : sums[k] \in Nat
      /\ \A k \in 1 .. m : sums[k] = sums[k - 1] + CountTokens(s[k])
  BY <1>1, SumSteps
<1>6. \A k \in 1 .. m : s[k] \in Seq(Chars) /\ Len(s[k]) \in Nat /\ Len(s[k]) > 0
                        /\ s[k][1] # "s" /\ s[k][Len(s[k])] # "s"
  <2>1. s = SplitSentences(node.text)
    BY <1>1 DEF NodeSentences
  <2>2. node.text \in Seq(Chars) /\ node.text[1] # "s" /\ Last(node.text) # "s"
    BY <1>1, ChunkerAssumption
  <2>3. \A k \in 1 .. Len(SplitSentences(node.text)) :
           LET u == SplitSentences(node.text)[k] IN
           u \in Seq(Chars) /\ Len(u) \in Nat /\ Len(u) > 0 /\ u[1] # "s" /\ u[Len(u)] # "s"
    BY <1>1, <2>2, SentencesAreTrimmed
  <2> QED
    BY <2>1, <2>3
<1> DEFINE W == Seq(Chars)
<1>7. s \in Seq(W)
  BY <1>4
<1> HIDE DEF s, m, sums, W
<1>8. IsPart(texts, W, s, i, j)
  <2>1. i > 0 /\ j \in Int /\ j <= Len(s) /\ i <= j + 1
    BY <1>2, <1>4 DEF m
  <2> QED
    BY <2>1, <1>2, <1>7, PartPlaces
<1> HIDE DEF texts
<1>9. n \in Nat /\ n > 0 /\ i - 1 + n = j /\ i - 1 + 0 = i - 1 /\ 0 \in 0 .. n /\ n \in 0 .. n
  BY <1>2
<1>10. texts \in Texts /\ Len(texts) = n
  BY <1>8 DEF IsPart, Texts, W
<1>11. ASSUME NEW k \in 1 .. n
       PROVE  /\ i + k - 1 \in i .. j /\ i + k - 1 \in 1 .. m /\ i + k - 1 = i - 1 + k
              /\ texts[k] = s[i - 1 + k] /\ i - 1 + (k - 1) = (i - 1 + k) - 1
              /\ k \in 0 .. n /\ k - 1 \in 0 .. n
  <2>1. /\ i + k - 1 \in i .. j /\ i + k - 1 \in 1 .. m /\ i + k - 1 = i - 1 + k
        /\ i - 1 + (k - 1) = (i - 1 + k) - 1
        /\ k \in 0 .. n /\ k - 1 \in 0 .. n
    BY <1>2, <1>4
  <2>2. texts[k] = s[i + k - 1]
    BY <1>8 DEF IsPart
  <2> QED
    BY <2>1, <2>2
<1>12. \A k \in 0 .. n : f[k] = sums[i - 1 + k] /\ i - 1 + k \in 0 .. m
  BY <1>2, <1>4
<1> HIDE DEF f, n
<1>13. \A k \in 0 .. n : f[k] \in Int
  BY <1>5, <1>12
<1>14. ASSUME NEW k \in 1 .. n PROVE f[k - 1] + CountTokens(texts[k]) <= f[k]
  <2>1. f[k] = sums[i - 1 + k] /\ f[k - 1] = sums[(i - 1 + k) - 1] /\ i - 1 + k \in 1 .. m
    BY <1>11, <1>12
  <2>2. texts[k] = s[i - 1 + k] /\ k \in 0 .. n
    BY <1>11
  <2> DEFINE x == i - 1 + k
  <2>3. f[k] = f[k - 1] + CountTokens(texts[k])
    <3>1. f[k] = sums[x] /\ f[k - 1] = sums[x - 1] /\ x \in 1 .. m /\ texts[k] = s[x]
      BY <2>1, <2>2
    <3> HIDE DEF x
    <3> QED
      BY <3>1, <1>5
  <2>4. f[k] \in Int
    BY <2>2, <1>13
  <2> QED
    BY <2>3, <2>4
<1>15. f[n] = sums[j] /\ f[0] = sums[i - 1]
  BY <1>9, <1>12
<1>16. ASSUME ~ CostsMore(p), NEW k \in 1 .. n PROVE IsProse(texts[k])
  <2> DEFINE u == texts[k]
  <2>1. u \in Seq(Chars) /\ Len(u) \in Nat /\ Len(u) > 0 /\ u[1] # "s" /\ u[Len(u)] # "s"
    BY <1>6, <1>11
  <2>2. ~ BeginsWithPunctuation(u)
    BY <1>3, <1>11, <1>16
  <2> HIDE DEF u
  <2>3. u[1] \in Chars
    BY <2>1
  <2>4. u[1] = "w"
    BY <2>1, <2>2, <2>3 DEF BeginsWithPunctuation, Chars
  <2> QED
    BY <2>1, <2>4 DEF IsProse, u
<1>17. IsWindow(texts, n, f, p)
  BY <1>3, <1>9, <1>10, <1>13, <1>14, <1>15, <1>16 DEF IsWindow
<1> QED
  BY <1>17

\* A window of one sentence is that sentence, and weighs what it does.
LEMMA OneSentence ==
  ASSUME doc \in Seq(Nodes), NEW p, IsPiece(doc, p), p.first # Whole, p.first = p.last
  PROVE  CountTokens(PieceText(p)) = PieceTokens(doc, p)
<1> DEFINE node == doc[p.block]
           s == NodeSentences[node]
           sums == NodeSums[node]
           i == p.first
           texts == SubSeq(s, i, i)
           blank == <<"s">>
           part(k) == IF k = 1 THEN texts[k] ELSE blank \o texts[k]
           parts == [k \in 1 .. Len(texts) |-> part(k)]
<1>1. node \in Nodes
  BY PieceHasTokens DEF IsPiece, BlocksOf
<1>2. i \in Nat /\ 1 <= i /\ i <= Len(s)
  BY DEF IsPiece
<1>3. PieceText(p) = FlattenSeq(parts) /\ PieceTokens(doc, p) = sums[i] - sums[i - 1]
  BY DEF PieceText, PieceTokens, Sentences, JoinTexts
<1> HIDE DEF node, i
<1>4. s \in Seq(Seq(Chars)) /\ Len(s) \in Nat
  BY <1>1, NodeFacts DEF Texts
<1>5. /\ \A k \in 0 .. Len(s) : sums[k] \in Nat
      /\ \A k \in 1 .. Len(s) : sums[k] = sums[k - 1] + CountTokens(s[k])
  BY <1>1, SumSteps
<1>6. i \in 1 .. Len(s) /\ i - 1 \in 0 .. Len(s) /\ i \in 0 .. Len(s) /\ s[i] \in Seq(Chars)
  BY <1>2, <1>4
<1> HIDE DEF s, sums
<1> DEFINE W == Seq(Chars)
<1>7. Len(texts) = 1 /\ texts[1] = s[i] /\ texts \in Seq(Seq(Chars))
  <2>1. s \in Seq(W) /\ i \in Nat /\ i \in Int /\ i > 0 /\ i <= Len(s) /\ i <= i + 1
    BY <1>2, <1>4, <1>6
  <2> HIDE DEF W
  <2>2. IsPart(texts, W, s, i, i)
    BY <2>1, PartPlaces
  <2>3. i - i + 1 = 1 /\ i + 1 - 1 = i /\ 1 \in 1 .. 1
    BY <2>1
  <2> HIDE DEF texts
  <2>4. Len(texts) = 1 /\ texts[1] = s[i] /\ texts \in Seq(W)
    BY <2>2, <2>3 DEF IsPart
  <2> QED
    BY <2>4 DEF W
<1> HIDE DEF texts
<1>8. parts \in Seq(Seq(Chars)) /\ Len(parts) = 1 /\ parts[1] = s[i] /\ parts # <<>>
  BY <1>6, <1>7
<1> HIDE DEF parts
<1>9. FlattenSeq(parts) = s[i]
  <2>1. PICK f : f[1] = parts[1] /\ FlattenSeq(parts) = f[Len(parts)]
    BY <1>8, FlattenSteps
  <2> QED
    BY <2>1, <1>8
<1>10. CountTokens(s[i]) \in Nat
  BY <1>6, CountIsNat
<1>11. sums[i] - sums[i - 1] = CountTokens(s[i])
  <2>1. sums[i] = sums[i - 1] + CountTokens(s[i]) /\ sums[i - 1] \in Nat
    BY <1>5, <1>6
  <2>2. \A x, y, z \in Nat : x = y + z => x - y = z
    OBVIOUS
  <2> QED
    BY <2>1, <2>2, <1>5, <1>6, <1>10
<1> QED
  BY <1>3, <1>9, <1>11

\* The text of a piece is a text.
LEMMA PieceTextType ==
  ASSUME doc \in Seq(Nodes), NEW p, IsPiece(doc, p)
  PROVE  PieceText(p) \in Seq(Chars)
<1>1. CASE p.first = Whole
  BY <1>1, WholeText
<1>2. CASE p.first # Whole
  <2>1. PICK texts, n, f : IsWindow(texts, n, f, p)
    BY <1>2, WindowText
  <2>2. texts \in Texts /\ n \in Nat /\ Len(texts) = n /\ PieceText(p) = JoinTexts(texts, <<"s">>)
    BY <2>1 DEF IsWindow
  <2>3. <<"s">> \in Seq(Chars)
    BY DEF Chars
  <2>4. JoinTexts(texts, <<"s">>) \in Seq(Chars)
    BY <2>2, <2>3, JoinEnds
  <2> QED
    BY <2>2, <2>4
<1> QED
  BY <1>1, <1>2

\* A piece whose text and sentences begin with words costs what was counted.
LEMMA PieceIsProse ==
  ASSUME doc \in Seq(Nodes), NEW p, IsPiece(doc, p), ~ CostsMore(p)
  PROVE  IsProse(PieceText(p)) /\ CountTokens(PieceText(p)) <= PieceTokens(doc, p)
<1>1. PieceTokens(doc, p) \in Int
  BY PieceHasTokens
<1>2. CASE p.first = Whole
  <2> DEFINE t == PieceText(p)
  <2>1. /\ t \in Seq(Chars) /\ Len(t) \in Nat /\ Len(t) > 0 /\ t[1] # "s" /\ t[Len(t)] # "s"
        /\ CountTokens(t) = PieceTokens(doc, p)
    BY <1>2, WholeText
  <2>2. ~ BeginsWithPunctuation(t)
    BY <1>2 DEF CostsMore, PieceText
  <2> HIDE DEF t
  <2>3. t[1] \in Chars
    BY <2>1
  <2>4. t[1] = "w"
    BY <2>1, <2>2, <2>3 DEF BeginsWithPunctuation, Chars
  <2>5. IsProse(t) /\ CountTokens(t) <= PieceTokens(doc, p)
    BY <2>1, <2>4, <1>1 DEF IsProse
  <2> QED
    BY <2>5 DEF t
<1>3. CASE p.first # Whole
  <2>1. PICK texts, n, f : IsWindow(texts, n, f, p)
    BY <1>3, WindowText
  <2> DEFINE blank == <<"s">>
  <2>2. IsBlank(blank)
    BY DEF IsBlank, Chars
  <2>3. PieceText(p) = JoinTexts(texts, blank)
    BY <2>1 DEF IsWindow
  <2> HIDE DEF blank
  <2>4. /\ texts \in Texts /\ n \in Nat /\ n > 0 /\ Len(texts) = n
        /\ \A k \in 0 .. n : f[k] \in Int
        /\ \A k \in 1 .. n : f[k - 1] + CountTokens(texts[k]) <= f[k]
        /\ \A k \in 1 .. n : IsProse(texts[k])
        /\ f[n] - f[0] = PieceTokens(doc, p)
    BY <2>1 DEF IsWindow
  <2>5. IsProse(JoinTexts(texts, blank)) /\ CountTokens(JoinTexts(texts, blank)) <= f[n] - f[0]
    BY <2>2, <2>4, JoinCount
  <2> QED
    BY <2>3, <2>4, <2>5
<1> QED
  BY <1>2, <1>3

\* The text of some pieces is a text; where none of them costs more it has at
\* most the tokens they weigh.
LEMMA BodyCosts ==
  ASSUME doc \in Seq(Nodes), NEW g, Len(g) \in Nat, g # <<>>, Len(g) > 0, ArePieces(doc, g)
  PROVE  /\ JoinBlocks(g) \in Seq(Chars)
         /\ \A v : (\A k \in 1 .. Len(g) : ~ CostsMore(g[k])) /\ Weighs(doc, g, v) =>
              IsProse(JoinBlocks(g)) /\ CountTokens(JoinBlocks(g)) <= v
<1> DEFINE n == Len(g)
           text(i) == PieceText(g[i])
           texts == [i \in 1 .. n |-> text(i)]
           blanks == <<"s", "s">>
<1>1. \A i \in 1 .. n : IsPiece(doc, g[i])
  BY DEF ArePieces
<1>2. ASSUME NEW i \in 1 .. n PROVE text(i) \in Seq(Chars)
  BY <1>1, PieceTextType
<1>3. JoinBlocks(g) = JoinTexts(texts, blanks)
  BY DEF JoinBlocks
<1>4. n \in Nat /\ n > 0
  OBVIOUS
<1>5. IsBlank(blanks)
  <2>1. Len(blanks) = 2 /\ blanks \in Seq(Chars) /\ \A i \in 1 .. 2 : blanks[i] = "s"
    BY DEF Chars
  <2> QED
    BY <2>1 DEF IsBlank
<1>6. ASSUME NEW i \in 1 .. n, ~ CostsMore(g[i])
      PROVE  IsProse(text(i)) /\ CountTokens(text(i)) <= PieceTokens(doc, g[i])
             /\ PieceTokens(doc, g[i]) \in Int
  BY <1>1, <1>6, PieceIsProse, PieceHasTokens
<1> DEFINE w(i) == PieceTokens(doc, g[i])
<1>7. ASSUME NEW v, Weighs(doc, g, v)
      PROVE  \E f : /\ f[0] = 0 /\ f[n] = v /\ \A k \in 0 .. n : f[k] \in Int
                    /\ \A k \in 1 .. n : f[k] = f[k - 1] + w(k)
  BY <1>7 DEF Weighs, Totals
<1> HIDE DEF n, text, w, blanks
<1>8. texts \in Seq(Seq(Chars))
  BY <1>2, <1>4
<1>9. Len(texts) = n /\ \A i \in 1 .. n : texts[i] = text(i)
  BY <1>4
<1> HIDE DEF texts
<1>10. texts \in Texts /\ blanks \in Seq(Chars)
  BY <1>5, <1>8 DEF Texts, IsBlank
<1>11. JoinBlocks(g) \in Seq(Chars)
  BY <1>3, <1>4, <1>9, <1>10, JoinEnds
<1>12. ASSUME \A i \in 1 .. n : ~ CostsMore(g[i]), NEW v, Weighs(doc, g, v)
       PROVE  IsProse(JoinBlocks(g)) /\ CountTokens(JoinBlocks(g)) <= v
  <2>1. PICK f : /\ f[0] = 0 /\ f[n] = v /\ \A k \in 0 .. n : f[k] \in Int
                 /\ \A k \in 1 .. n : f[k] = f[k - 1] + w(k)
    BY <1>7, <1>12
  <2>2. \A i \in 1 .. n : IsProse(texts[i])
    BY <1>6, <1>9, <1>12
  <2>3. ASSUME NEW k \in 1 .. n PROVE f[k - 1] + CountTokens(texts[k]) <= f[k]
    <3>1. CountTokens(texts[k]) <= w(k) /\ w(k) \in Int
      BY <1>6, <1>9, <1>12 DEF w
    <3>2. CountTokens(texts[k]) \in Nat
      BY <2>2, CountIsNat DEF IsProse
    <3>3. k - 1 \in 0 .. n /\ k \in 0 .. n
      BY <1>4
    <3>4. f[k - 1] \in Int /\ f[k] = f[k - 1] + w(k)
      BY <2>1, <3>3
    <3>5. \A x, y, z \in Int : x <= y => z + x <= z + y
      OBVIOUS
    <3> QED
      BY <3>1, <3>2, <3>4, <3>5
  <2>4. \A k \in 0 .. n : f[k] \in Int
    BY <2>1
  <2>5. IsProse(JoinTexts(texts, blanks)) /\ CountTokens(JoinTexts(texts, blanks)) <= f[n] - f[0]
    BY <1>4, <1>5, <1>9, <1>10, <2>2, <2>3, <2>4, JoinCount
  <2>6. f[n] - f[0] = v
    <3>1. n \in 0 .. n
      BY <1>4
    <3>2. v \in Int
      BY <2>1, <3>1
    <3>3. v - 0 = v
      BY <3>2
    <3> QED
      BY <2>1, <3>3
  <2> QED
    BY <1>3, <2>5, <2>6
<1> QED
  BY <1>11, <1>12 DEF n

\* A heading as it is rendered ends as its text does.
LEMMA RenderedEnds ==
  ASSUME doc \in Seq(Nodes), NEW h \in 1 .. Len(doc)
  PROVE  /\ Rendered(h) \in Seq(Chars)
         /\ doc[h].text # <<>> => Len(Rendered(h)) \in Nat /\ Len(Rendered(h)) > 0
                                  /\ Rendered(h)[Len(Rendered(h))] # "s"
<1> DEFINE marks == [i \in 1 .. doc[h].level |-> "p"]
           a == marks \o <<"s">>
           b == Text(h)
           r == Rendered(h)
<1>1. doc[h] \in Nodes
  BY Element
<1>2. doc[h].level \in Nat /\ b \in Seq(Chars)
  BY <1>1, NodeFacts DEF Text
<1>3. a \in Seq(Chars)
  <2>1. marks \in Seq(Chars) /\ <<"s">> \in Seq(Chars)
    BY <1>2 DEF Chars
  <2> HIDE DEF marks
  <2> QED
    BY <2>1
<1>4. r = a \o b
  BY DEF Rendered
<1>5. b # <<>> => b[Len(b)] # "s"
  BY <1>1, ChunkerAssumption DEF Text, Last
<1> HIDE DEF a, r
<1>6. b = doc[h].text
  BY DEF Text
<1> HIDE DEF b
<1>7. IsConcat(r, Chars, a, b)
  BY <1>2, <1>3, <1>4, ConcatPlaces
<1>8. ASSUME b # <<>> PROVE Len(r) \in Nat /\ Len(r) > 0 /\ r[Len(r)] # "s"
  <2> DEFINE x == Len(a)
             z == Len(b)
  <2>1. x \in Nat /\ z \in Nat /\ z > 0 /\ b[z] # "s"
    BY <1>2, <1>3, <1>5, <1>8
  <2>2. Len(r) = x + z /\ \A i \in 1 .. z : r[x + i] = b[i]
    BY <1>7 DEF IsConcat
  <2> HIDE DEF x, z
  <2>3. z \in 1 .. z /\ x + z \in Nat /\ x + z > 0
    BY <2>1
  <2> QED
    BY <2>1, <2>2, <2>3
<1> QED
  BY <1>6, <1>7, <1>8 DEF IsConcat, r

\* The heading context is a text; with a word in it, it is a head.
LEMMA ContextIsHead ==
  ASSUME doc \in Seq(Nodes), NEW headings \in Seq(0 .. Len(doc)), Named(doc, headings)
  PROVE  /\ ContextText(headings) \in Seq(Chars)
         /\ HeadingPath(headings) # <<>> /\ ~ WordlessContext(headings) => IsHead(ContextText(headings))
<1> DEFINE path == HeadingPath(headings)
           kept == Ascending(Len(headings), {i \in 1 .. Len(headings) : headings[i] # 0})
<1>1. Len(headings) \in Nat /\ Len(doc) \in Nat
  OBVIOUS
<1>2. /\ Len(kept) \in Nat
      /\ \A k \in 1 .. Len(kept) : kept[k] \in {i \in 1 .. Len(headings) : headings[i] # 0}
  BY <1>1, AscendingPlaces
<1>3. ASSUME NEW k \in 1 .. Len(kept)
      PROVE  headings[kept[k]] \in 1 .. Len(doc) /\ doc[headings[kept[k]]].text # <<>>
  <2>1. kept[k] \in 1 .. Len(headings) /\ headings[kept[k]] # 0
    BY <1>2
  <2> HIDE DEF kept
  <2>2. headings[kept[k]] \in 0 .. Len(doc)
    BY <2>1
  <2>3. doc[headings[kept[k]]].text # <<>>
    BY <2>1 DEF Named
  <2> QED
    BY <1>1, <2>1, <2>2, <2>3, NonzeroPlace
<1> DEFINE place(k) == headings[kept[k]]
           n == Len(kept)
<1>4. path = [k \in 1 .. n |-> place(k)]
  BY DEF HeadingPath
<1>5. n \in Nat /\ \A k \in 1 .. n : place(k) \in 1 .. Len(doc) /\ doc[place(k)].text # <<>>
  BY <1>2, <1>3
<1> HIDE DEF kept, path, place, n
<1>6. Len(path) = n /\ \A k \in 1 .. n : path[k] = place(k)
  BY <1>4, <1>5
<1> DEFINE text(k) == Rendered(place(k))
           texts == [i \in 1 .. Len(path) |-> Rendered(path[i])]
           separator == <<"s", "p", "s">>
           t == ContextText(headings)
<1>7. t = JoinTexts(texts, separator)
  BY DEF ContextText, path
<1>8. \A k \in 1 .. n : text(k) \in Seq(Chars) /\ Len(text(k)) > 0 /\ text(k)[Len(text(k))] # "s"
  BY <1>5, RenderedEnds
<1>9. texts = [k \in 1 .. n |-> text(k)]
  BY <1>6
<1>10. separator \in Seq(Chars)
  BY DEF Chars
<1> HIDE DEF texts, text, separator, t
<1>11. texts \in Seq(Seq(Chars))
  BY <1>5, <1>8, <1>9
<1>12. Len(texts) = n /\ \A k \in 1 .. n : texts[k] = text(k)
  BY <1>5, <1>9
<1>13. texts \in Texts
  BY <1>11 DEF Texts
<1>14. /\ t \in Seq(Chars)
       /\ n > 0 /\ Len(texts[n]) > 0 =>
            Len(t) \in Nat /\ Len(t) > 0 /\ t[Len(t)] = texts[n][Len(texts[n])]
  BY <1>5, <1>7, <1>10, <1>12, <1>13, JoinEnds
<1>15. ASSUME path # <<>>, ~ WordlessContext(headings) PROVE IsHead(t)
  <2>1. n > 0
    <3>1. SUFFICES ASSUME n = 0 PROVE FALSE
      BY <1>5
    <3>2. path = <<>>
      BY <1>4, <3>1
    <3> QED
      BY <1>15, <3>2
  <2>2. n \in 1 .. n
    BY <1>5, <2>1
  <2>3. Len(texts[n]) > 0 /\ texts[n][Len(texts[n])] # "s"
    BY <1>8, <1>12, <2>2
  <2>4. Len(t) \in Nat /\ Len(t) > 0 /\ t[Len(t)] # "s"
    BY <1>14, <2>1, <2>3
  <2>5. \E i \in 1 .. Len(t) : t[i] = "w"
    <3>1. Indices(t, "w") # {}
      BY <1>15 DEF WordlessContext, path, t
    <3> QED
      BY <3>1 DEF Indices
  <2> QED
    BY <1>14, <2>4, <2>5 DEF IsHead
<1> QED
  BY <1>14, <1>15 DEF path, t

\* What is known of a chunk.
IsChunk(c) ==
  /\ c.headings \in Seq(0 .. Len(doc)) /\ Named(doc, c.headings)
  /\ Len(c.pieces) \in Nat /\ Len(c.pieces) > 0 /\ c.pieces # <<>> /\ ArePieces(doc, c.pieces)
  /\ IsSingle(c.pieces) \/ \E v \in Int : Weighs(doc, c.pieces, v) /\ v <= BudgetIn(doc, c.headings)

\* Every chunk is one, under the invariant.
LEMMA ChunkIsChunk ==
  ASSUME TypeOK, FitInv, NEW i \in 1 .. Len(chunks)
  PROVE  IsChunk(chunks[i])
<1>1. chunks[i] \in Chunk
  <2>1. chunks \in Seq(Chunk)
    BY DEF TypeOK
  <2> QED
    BY <2>1, Element
<1>2. chunks[i].headings \in Seq(0 .. Len(doc)) /\ chunks[i].pieces \in Seq(Piece)
  BY <1>1 DEF Chunk
<1>3. IsFit(doc, chunks[i])
  BY DEF FitInv, AreFit
<1>4. chunks[i].pieces # <<>>
  BY <1>3 DEF IsFit
<1>5. Len(chunks[i].pieces) \in Nat /\ Len(chunks[i].pieces) > 0
  BY <1>2, <1>4
<1> QED
  BY <1>2, <1>3, <1>5 DEF IsFit, IsChunk

\* The content of a chunk is a text: its body, behind its context if it has one.
LEMMA ContentType ==
  ASSUME doc \in Seq(Nodes), NEW c, IsChunk(c)
  PROVE  /\ Content(c) \in Seq(Chars)
         /\ HeadingPath(c.headings) = <<>> => Content(c) = JoinBlocks(c.pieces)
         /\ HeadingPath(c.headings) # <<>> =>
              Content(c) = ContextText(c.headings) \o (<<"s", "s">> \o JoinBlocks(c.pieces))
<1> DEFINE a == ContextText(c.headings)
           s == <<"s", "s">>
           b == JoinBlocks(c.pieces)
<1>1. /\ c.headings \in Seq(0 .. Len(doc)) /\ Named(doc, c.headings)
      /\ Len(c.pieces) \in Nat /\ Len(c.pieces) > 0 /\ c.pieces # <<>> /\ ArePieces(doc, c.pieces)
  BY DEF IsChunk
<1>2. a \in Seq(Chars)
  BY <1>1, ContextIsHead
<1>3. b \in Seq(Chars)
  BY <1>1, BodyCosts
<1>4. s \in Seq(Chars)
  BY DEF Chars
<1>5. Content(c) = IF HeadingPath(c.headings) = <<>> THEN b ELSE (a \o s) \o b
  BY DEF Content, PrependContext
<1> HIDE DEF a, s, b
<1>6. (a \o s) \o b = a \o (s \o b)
  BY <1>2, <1>3, <1>4, ConcatAssociative
<1>7. a \o (s \o b) \in Seq(Chars)
  BY <1>2, <1>3, <1>4
<1> QED
  BY <1>3, <1>5, <1>6, <1>7 DEF a, s, b

\* A chunk that weighs no more than its budget fits with its context.
LEMMA ContentFits ==
  ASSUME doc \in Seq(Nodes), NEW c, IsChunk(c), NEW v \in Int, Weighs(doc, c.pieces, v),
         v <= BudgetIn(doc, c.headings), ~ (ContextTokens(c.headings) >= TargetMax),
         \A k \in 1 .. Len(c.pieces) : ~ CostsMore(c.pieces[k]), ~ WordlessContext(c.headings)
  PROVE  CountTokens(Content(c)) <= TargetMax
<1> DEFINE a == ContextText(c.headings)
           s == <<"s", "s">>
           b == JoinBlocks(c.pieces)
           x == ContextTokens(c.headings)
<1>1. /\ c.headings \in Seq(0 .. Len(doc)) /\ Named(doc, c.headings)
      /\ Len(c.pieces) \in Nat /\ Len(c.pieces) > 0 /\ c.pieces # <<>> /\ ArePieces(doc, c.pieces)
  BY DEF IsChunk
<1>2. x \in Nat /\ x = CountTokens(a) /\ x = ContextIn(doc, c.headings)
  BY <1>1, ContextIsNat, ContextIsContextIn DEF ContextTokens
<1>3. IsProse(b) /\ CountTokens(b) <= v
  BY <1>1, BodyCosts
<1>4. TargetMax \in Nat
  BY ChunkerAssumption
<1>5. BudgetIn(doc, c.headings) = Max({1, TargetMax - x})
  BY <1>2 DEF BudgetIn
<1>6. ~ (x >= TargetMax)
  OBVIOUS
<1>7. IsBlank(s)
  <2>1. Len(s) = 2 /\ s \in Seq(Chars) /\ \A i \in 1 .. 2 : s[i] = "s"
    BY DEF Chars
  <2> QED
    BY <2>1 DEF IsBlank
<1> HIDE DEF x
<1>8. Max({1, TargetMax - x}) = TargetMax - x
  <2>1. TargetMax - x \in Int /\ TargetMax - x >= 1
    BY <1>2, <1>4, <1>6
  <2>2. Max({1, TargetMax - x}) = IF 1 >= TargetMax - x THEN 1 ELSE TargetMax - x
    BY <2>1, MaxOfTwo
  <2> QED
    BY <2>1, <2>2
<1>9. CountTokens(b) \in Nat
  BY <1>3, CountIsNat DEF IsProse
<1> DEFINE y == CountTokens(b)
<1>10. y <= TargetMax - x
  <2> HIDE DEF y
  <2>1. v <= TargetMax - x /\ y <= v /\ y \in Nat
    BY <1>3, <1>5, <1>8, <1>9 DEF y
  <2> QED
    BY <2>1, <1>2, <1>4
<1>11. CASE HeadingPath(c.headings) = <<>>
  <2>1. Content(c) = b
    BY <1>11, ContentType
  <2>2. y <= TargetMax
    <3> HIDE DEF y
    <3> QED
      BY <1>2, <1>4, <1>9, <1>10 DEF y
  <2> QED
    BY <2>1, <2>2
<1>12. CASE HeadingPath(c.headings) # <<>>
  <2>1. Content(c) = a \o (s \o b)
    BY <1>12, ContentType
  <2>2. IsHead(a)
    BY <1>1, <1>12, ContextIsHead
  <2> HIDE DEF a, s, b
  <2>3. CountTokens(a \o (s \o b)) <= CountTokens(a) + CountTokens(b)
    BY <1>3, <1>7, <2>2, ApartCount
  <2>4. Content(c) \in Seq(Chars)
    BY ContentType
  <2>5. CountTokens(Content(c)) \in Nat
    BY <2>4, CountIsNat
  <2>6. \A i, j, k, m \in Nat : i <= j + k /\ k <= m - j => i <= m
    OBVIOUS
  <2> QED
    BY <1>2, <1>4, <1>9, <1>10, <2>1, <2>3, <2>5, <2>6
<1> QED
  BY <1>11, <1>12

\* A chunk that is not too large by itself is within the budget of its section.
LEMMA NotTooLarge ==
  ASSUME doc \in Seq(Nodes), NEW c, IsChunk(c), ~ IsTooLarge(c),
         ~ (ContextTokens(c.headings) >= TargetMax)
  PROVE  \E v \in Int : Weighs(doc, c.pieces, v) /\ v <= BudgetIn(doc, c.headings)
<1>1. CASE ~ IsSingle(c.pieces)
  BY <1>1 DEF IsChunk
<1>2. CASE IsSingle(c.pieces)
  <2> DEFINE p == c.pieces[1]
             x == ContextTokens(c.headings)
             w == PieceTokens(doc, p)
  <2>1. /\ Len(c.pieces) = 1 /\ p.first = p.last /\ 1 \in 1 .. Len(c.pieces)
        /\ c.headings \in Seq(0 .. Len(doc)) /\ Named(doc, c.headings) /\ ArePieces(doc, c.pieces)
    BY <1>2 DEF IsSingle, IsChunk
  <2>2. IsPiece(doc, p)
    BY <2>1 DEF ArePieces
  <2>3. x \in Nat /\ x = ContextIn(doc, c.headings)
    BY <2>1, ContextIsNat, ContextIsContextIn DEF ContextTokens
  <2>4. CountTokens(PieceText(p)) = w
    <3>1. CASE p.first = Whole
      BY <2>2, <3>1, WholeText
    <3>2. CASE p.first # Whole
      BY <2>1, <2>2, <3>2, OneSentence
    <3> QED
      BY <3>1, <3>2
  <2>5. w \in Int
    BY <2>2, PieceHasTokens
  <2>6. ~ (w > TargetMax - x)
    BY <2>1, <2>4 DEF IsTooLarge
  <2>7. TargetMax \in Nat /\ ~ (x >= TargetMax)
    BY ChunkerAssumption
  <2>8. BudgetIn(doc, c.headings) = Max({1, TargetMax - x})
    BY <2>3 DEF BudgetIn
  <2>9. Weighs(doc, c.pieces, w)
    <3> DEFINE f == [k \in 0 .. 1 |-> IF k = 0 THEN 0 ELSE w]
    <3>1. f[0] = 0 /\ f[1] = f[0] + w /\ f[1] = w /\ \A k \in 0 .. 1 : f[k] \in Int
      BY <2>5
    <3>2. \A k \in 1 .. Len(c.pieces) : k = 1 /\ k - 1 = 0
      BY <2>1
    <3> HIDE DEF f
    <3>3. Totals(doc, f, c.pieces)
      BY <3>1, <3>2, <2>1 DEF Totals
    <3> QED
      BY <3>1, <3>3, <2>1 DEF Weighs
  <2> HIDE DEF w, x
  <2>10. w <= Max({1, TargetMax - x})
    <3>1. TargetMax - x \in Int /\ TargetMax - x >= 1 /\ w <= TargetMax - x
      BY <2>3, <2>5, <2>6, <2>7
    <3>2. Max({1, TargetMax - x}) = IF 1 >= TargetMax - x THEN 1 ELSE TargetMax - x
      BY <3>1, MaxOfTwo
    <3> QED
      BY <3>1, <3>2
  <2> QED
    BY <2>5, <2>8, <2>9, <2>10
<1> QED
  BY <1>1, <1>2

\* What the invariant says of the finished chunks.
LEMMA FitIsFit == TypeInv /\ FitInv => ChunksFit
<1> SUFFICES ASSUME TypeInv, FitInv, NEW i \in 1 .. Len(chunks),
                    ~ (\E k \in 1 .. Len(chunks[i].pieces) : CostsMore(chunks[i].pieces[k])),
                    ~ (ContextTokens(chunks[i].headings) >= TargetMax),
                    ~ WordlessContext(chunks[i].headings),
                    ~ IsTooLarge(chunks[i])
             PROVE  CountTokens(Content(chunks[i])) <= TargetMax
  BY DEF ChunksFit
<1> DEFINE c == chunks[i]
<1>1. TypeOK /\ doc \in Seq(Nodes)
  BY DEF TypeInv, TypeOK
<1>2. IsChunk(c)
  BY <1>1, ChunkIsChunk
<1>3. ~ IsTooLarge(c)
  OBVIOUS
<1>4. /\ \A k \in 1 .. Len(c.pieces) : ~ CostsMore(c.pieces[k])
      /\ ~ (ContextTokens(c.headings) >= TargetMax) /\ ~ WordlessContext(c.headings)
  OBVIOUS
<1> HIDE DEF c
<1>5. \E v \in Int : Weighs(doc, c.pieces, v) /\ v <= BudgetIn(doc, c.headings)
  BY <1>1, <1>2, <1>3, <1>4, NotTooLarge
<1>6. PICK v \in Int : Weighs(doc, c.pieces, v) /\ v <= BudgetIn(doc, c.headings)
  BY <1>5
<1>7. CountTokens(Content(c)) <= TargetMax
  BY <1>1, <1>2, <1>4, <1>6, ContentFits
<1> QED
  BY <1>7 DEF c

\* The four invariants together are inductive.
LEMMA FitHolds == Spec => [](TypeInv /\ FitInv)
<1>1. Init => LossInv /\ TitleInv /\ FitInv
  BY InitLoss, InitTitles, InitFit
<1>2. TypeInv /\ LossInv /\ TitleInv /\ FitInv /\ [Next]_vars => (LossInv /\ TitleInv /\ FitInv)'
  BY LossStep, TitleStep, FitStep
<1>3. Spec => []TypeInv
  BY TypeInvHolds
<1> QED
  BY <1>1, <1>2, <1>3, PTL DEF Spec

\* Whatever the document, the limits and the overlap: with its heading context a
\* chunk has at most TargetMax tokens, counted again in the text it has become,
\* but for the four exceptions of ChunksFit.
THEOREM ChunksAreInLimit == Spec => []ChunksFit
<1>1. TypeInv /\ FitInv => ChunksFit
  BY FitIsFit
<1> QED
  BY <1>1, FitHolds, PTL

-----------------------------------------------------------------------------
(* WordsAreDescribed: the texts that are counted *)

\* A text that does not end in a blank.
EndsFull(t) ==
  /\ t \in Seq(Chars)
  /\ t # <<>> => Len(t) \in Nat /\ Len(t) > 0 /\ t[Len(t)] # "s"

\* What WordsAreDescribed says of one text.
HasItsTokens(t) ==
  /\ FlattenSeq(Split(t)) = t
  /\ Indices(t, "w") # {} => Split(t) = TokensAsDescribed(t)

LEMMA FullIsDescribed ==
  ASSUME NEW t, EndsFull(t)
  PROVE  HasItsTokens(t)
<1>1. t \in Seq(Chars)
  BY DEF EndsFull
<1>2. FlattenSeq(Split(t)) = t
  BY <1>1, SplitIsCut
<1>3. ASSUME Indices(t, "w") # {} PROVE Split(t) = TokensAsDescribed(t)
  <2>1. t # <<>>
    BY <1>3 DEF Indices
  <2>2. t[Len(t)] # "s"
    BY <2>1 DEF EndsFull
  <2> QED
    BY <1>1, <1>3, <2>2, SplitIsDescribed
<1> QED
  BY <1>2, <1>3 DEF HasItsTokens

\* Full texts, none of them empty, make a full text.
LEMMA JoinIsFull ==
  ASSUME NEW texts \in Texts, NEW n \in Nat, n > 0, Len(texts) = n,
         NEW separator \in Seq(Chars), texts[n] # <<>>, EndsFull(texts[n])
  PROVE  EndsFull(JoinTexts(texts, separator)) /\ JoinTexts(texts, separator) # <<>>
<1> DEFINE r == JoinTexts(texts, separator)
<1>1. Len(texts[n]) > 0 /\ texts[n][Len(texts[n])] # "s"
  BY DEF EndsFull
<1>2. /\ r \in Seq(Chars)
      /\ n > 0 /\ Len(texts[n]) > 0 =>
           Len(r) \in Nat /\ Len(r) > 0 /\ r[Len(r)] = texts[n][Len(texts[n])]
  BY JoinEnds
<1> HIDE DEF r
<1>3. r \in Seq(Chars) /\ Len(r) \in Nat /\ Len(r) > 0 /\ r[Len(r)] # "s"
  BY <1>1, <1>2
<1>4. EndsFull(r) /\ r # <<>>
  BY <1>3 DEF EndsFull
<1> QED
  BY <1>4 DEF r

\* Blocks and sentences are trimmed.
LEMMA BlockIsFull ==
  ASSUME doc \in Seq(Nodes), NEW b \in BlocksOf(doc)
  PROVE  /\ EndsFull(Text(b)) /\ Text(b) # <<>>
         /\ \A k \in 1 .. Len(Sentences(b)) : EndsFull(Sentences(b)[k]) /\ Sentences(b)[k] # <<>>
         /\ Sentences(b) \in Texts /\ Len(Sentences(b)) \in Nat
<1> DEFINE n == doc[b]
<1>1. b \in 1 .. Len(doc) /\ n.text # <<>>
  BY DEF BlocksOf
<1>2. n \in Nodes
  BY <1>1, Element
<1>3. Text(b) = n.text /\ Sentences(b) = NodeSentences[n]
  BY DEF Text, Sentences
<1> HIDE DEF n
<1>4. n.text \in Seq(Chars) /\ n.text[1] # "s" /\ Last(n.text) # "s"
  BY <1>1, <1>2, ChunkerAssumption
<1>5. EndsFull(n.text)
  BY <1>1, <1>4 DEF EndsFull, Last
<1>6. NodeSentences[n] = SplitSentences(n.text)
  BY <1>2 DEF NodeSentences
<1>7. \A k \in 1 .. Len(SplitSentences(n.text)) :
         LET u == SplitSentences(n.text)[k] IN
         u \in Seq(Chars) /\ Len(u) \in Nat /\ Len(u) > 0 /\ u[1] # "s" /\ u[Len(u)] # "s"
  BY <1>1, <1>4, SentencesAreTrimmed
<1>8. ASSUME NEW k \in 1 .. Len(NodeSentences[n])
      PROVE  EndsFull(NodeSentences[n][k]) /\ NodeSentences[n][k] # <<>>
  <2> DEFINE u == NodeSentences[n][k]
  <2>1. u \in Seq(Chars) /\ Len(u) \in Nat /\ Len(u) > 0 /\ u[Len(u)] # "s"
    BY <1>6, <1>7
  <2> HIDE DEF u
  <2>2. EndsFull(u) /\ u # <<>>
    BY <2>1 DEF EndsFull
  <2> QED
    BY <2>2 DEF u
<1>9. NodeSentences[n] \in Texts /\ Len(NodeSentences[n]) \in Nat
  BY <1>2, NodeFacts
<1> QED
  BY <1>1, <1>3, <1>5, <1>8, <1>9

\* So is a piece: a block, or sentences with blanks between them.
LEMMA PieceIsFull ==
  ASSUME doc \in Seq(Nodes), NEW p, IsPiece(doc, p)
  PROVE  EndsFull(PieceText(p)) /\ PieceText(p) # <<>>
<1>1. p.block \in BlocksOf(doc)
  BY DEF IsPiece
<1>2. CASE p.first = Whole
  BY <1>1, <1>2, BlockIsFull DEF PieceText
<1>3. CASE p.first # Whole
  <2> DEFINE s == Sentences(p.block)
             i == p.first
             j == p.last
             texts == SubSeq(s, i, j)
             W == Seq(Chars)
             n == j - i + 1
  <2>1. PieceText(p) = JoinTexts(texts, <<"s">>)
    BY <1>3 DEF PieceText
  <2>2. i \in Nat /\ j \in Nat /\ 1 <= i /\ i <= j /\ j <= Len(s)
    BY <1>3 DEF IsPiece, Sentences
  <2>3. /\ s \in Seq(W) /\ Len(s) \in Nat
        /\ \A k \in 1 .. Len(s) : EndsFull(s[k]) /\ s[k] # <<>>
    BY <1>1, BlockIsFull DEF Texts
  <2> HIDE DEF s, i, j, W
  <2>4. IsPart(texts, W, s, i, j)
    <3>1. i > 0 /\ j \in Int /\ i <= j + 1
      BY <2>2
    <3> QED
      BY <3>1, <2>2, <2>3, PartPlaces
  <2> HIDE DEF texts
  <2>5. n \in Nat /\ n > 0 /\ n \in 1 .. n /\ i + n - 1 = j /\ j \in 1 .. Len(s)
    BY <2>2, <2>3
  <2>6. texts \in Seq(W) /\ Len(texts) = n /\ texts[n] = s[j]
    BY <2>4, <2>5 DEF IsPart
  <2>7. texts \in Texts /\ EndsFull(texts[n]) /\ texts[n] # <<>>
    BY <2>3, <2>5, <2>6 DEF Texts, W
  <2>8. <<"s">> \in Seq(Chars)
    BY DEF Chars
  <2> HIDE DEF n
  <2>9. EndsFull(JoinTexts(texts, <<"s">>)) /\ JoinTexts(texts, <<"s">>) # <<>>
    BY <2>5, <2>6, <2>7, <2>8, JoinIsFull
  <2> QED
    BY <2>1, <2>9
<1> QED
  BY <1>2, <1>3

\* The path of a section ends as the text of its last heading does.
LEMMA ContextIsFull ==
  ASSUME doc \in Seq(Nodes), NEW headings \in Seq(0 .. Len(doc)), Named(doc, headings)
  PROVE  EndsFull(ContextText(headings))
<1> DEFINE path == HeadingPath(headings)
           kept == Kept(headings)
           n == Len(kept)
           place(k) == headings[kept[k]]
           text(k) == Rendered(place(k))
           texts == [i \in 1 .. Len(path) |-> Rendered(path[i])]
           separator == <<"s", "p", "s">>
           t == ContextText(headings)
<1>1. IsPath(headings)
  BY PathPlaces
<1>2. /\ n \in Nat /\ Len(path) = n
      /\ \A k \in 1 .. n : path[k] = place(k) /\ kept[k] \in 1 .. Len(headings) /\ path[k] # 0
  BY <1>1 DEF IsPath
<1>3. ASSUME NEW k \in 1 .. n
      PROVE  place(k) \in 1 .. Len(doc) /\ doc[place(k)].text # <<>>
  <2>1. kept[k] \in 1 .. Len(headings) /\ place(k) # 0
    BY <1>2
  <2> HIDE DEF kept
  <2>2. headings[kept[k]] \in 0 .. Len(doc)
    BY <2>1
  <2>3. doc[headings[kept[k]]].text # <<>>
    BY <2>1 DEF Named
  <2>4. Len(doc) \in Nat
    OBVIOUS
  <2> QED
    BY <2>1, <2>2, <2>3, <2>4, NonzeroPlace
<1>4. t = JoinTexts(texts, separator)
  BY DEF ContextText
<1> HIDE DEF path, kept, n, place, t
<1>5. \A k \in 1 .. n : text(k) \in Seq(Chars) /\ Len(text(k)) \in Nat /\ Len(text(k)) > 0
                        /\ text(k)[Len(text(k))] # "s"
  BY <1>3, RenderedEnds
<1>6. texts = [k \in 1 .. n |-> text(k)]
  BY <1>2
<1>7. separator \in Seq(Chars)
  BY DEF Chars
<1> HIDE DEF texts, text, separator
<1>8. texts \in Texts /\ Len(texts) = n /\ \A k \in 1 .. n : texts[k] = text(k)
  <2>1. texts \in Seq(Seq(Chars))
    BY <1>2, <1>5, <1>6
  <2> QED
    BY <2>1, <1>2, <1>6 DEF Texts
<1>9. CASE n = 0
  <2>1. texts = <<>>
    BY <1>6, <1>9
  <2>2. JoinTexts(<<>>, separator) = <<>>
    BY DEF JoinTexts, FlattenSeq
  <2>3. t = <<>>
    BY <1>4, <2>1, <2>2
  <2>4. EndsFull(<<>>)
    BY DEF EndsFull
  <2> QED
    BY <2>3, <2>4 DEF t
<1>10. CASE n > 0
  <2>1. n \in 1 .. n
    BY <1>2, <1>10
  <2>2. texts[n] \in Seq(Chars) /\ Len(texts[n]) \in Nat /\ Len(texts[n]) > 0 /\ texts[n][Len(texts[n])] # "s"
    BY <1>5, <1>8, <2>1
  <2>3. EndsFull(texts[n]) /\ texts[n] # <<>>
    <3> DEFINE u == texts[n]
    <3> HIDE DEF u
    <3>1. EndsFull(u) /\ u # <<>>
      BY <2>2 DEF EndsFull, u
    <3> QED
      BY <3>1 DEF u
  <2>4. EndsFull(JoinTexts(texts, separator))
    BY <1>2, <1>7, <1>8, <1>10, <2>3, JoinIsFull
  <2> QED
    BY <1>4, <2>4 DEF t
<1> QED
  BY <1>2, <1>9, <1>10

\* Likewise the path of its parent.
LEMMA ParentIsFull ==
  ASSUME doc \in Seq(Nodes), NEW headings \in Seq(0 .. Len(doc)), Named(doc, headings)
  PROVE  EndsFull(ContextText(ParentPath(headings)))
<1> DEFINE p == ParentPath(headings)
<1>1. p \in Seq(0 .. Len(doc))
  BY ParentPathType
<1>2. \A i \in 1 .. Len(p) : p[i] = headings[i] /\ i \in 1 .. Len(headings)
  BY ParentPlaces
<1> HIDE DEF p
<1>3. Named(doc, p)
  BY <1>2 DEF Named
<1>4. EndsFull(ContextText(p))
  BY <1>1, <1>3, ContextIsFull
<1> QED
  BY <1>4 DEF p

\* The content of a chunk ends as its last piece does.
LEMMA ContentIsFull ==
  ASSUME doc \in Seq(Nodes), NEW c, IsChunk(c)
  PROVE  EndsFull(Content(c))
<1> DEFINE g == c.pieces
           n == Len(g)
           text(i) == PieceText(g[i])
           texts == [i \in 1 .. n |-> text(i)]
           blanks == <<"s", "s">>
           b == JoinBlocks(g)
<1>1. n \in Nat /\ n > 0 /\ ArePieces(doc, g)
  BY DEF IsChunk
<1>2. \A i \in 1 .. n : EndsFull(text(i)) /\ text(i) # <<>>
  BY <1>1, PieceIsFull DEF ArePieces
<1>3. b = JoinTexts(texts, blanks)
  BY DEF JoinBlocks
<1>4. blanks \in Seq(Chars)
  BY DEF Chars
<1> HIDE DEF n, text
<1>5. texts \in Texts /\ Len(texts) = n /\ EndsFull(texts[n]) /\ texts[n] # <<>>
  <2>1. \A i \in 1 .. n : text(i) \in Seq(Chars)
    BY <1>2 DEF EndsFull
  <2>2. texts \in Seq(Seq(Chars)) /\ Len(texts) = n
    BY <1>1, <2>1
  <2>3. n \in 1 .. n
    BY <1>1
  <2> QED
    BY <1>2, <2>2, <2>3 DEF Texts
<1> HIDE DEF texts, blanks, b
<1>6. EndsFull(b) /\ b # <<>>
  BY <1>1, <1>3, <1>4, <1>5, JoinIsFull
<1>7. CASE HeadingPath(c.headings) = <<>>
  <2>1. Content(c) = b
    BY <1>7, ContentType DEF b
  <2> QED
    BY <1>6, <2>1
<1>8. CASE HeadingPath(c.headings) # <<>>
  <2> DEFINE a == ContextText(c.headings)
             s == <<"s", "s">>
             r == Content(c)
             x == Len(a \o s)
             z == Len(b)
  <2>1. r = PrependContext(c.headings, b)
    BY DEF Content, b
  <2>2. r = (a \o s) \o b
    BY <1>8, <2>1 DEF PrependContext
  <2>3. a \in Seq(Chars)
    <3>1. c.headings \in Seq(0 .. Len(doc)) /\ Named(doc, c.headings)
      BY DEF IsChunk
    <3> QED
      BY <3>1, ContextIsHead
  <2>4. s \in Seq(Chars)
    BY DEF Chars
  <2> HIDE DEF a, s, r
  <2>5. a \o s \in Seq(Chars) /\ b \in Seq(Chars) /\ x \in Nat /\ z \in Nat /\ z > 0 /\ b[z] # "s"
    BY <1>6, <2>3, <2>4 DEF EndsFull
  <2>6. IsConcat(r, Chars, a \o s, b)
    BY <2>2, <2>5, ConcatPlaces
  <2>7. r \in Seq(Chars) /\ Len(r) = x + z /\ \A i \in 1 .. z : r[x + i] = b[i]
    BY <2>6 DEF IsConcat
  <2> HIDE DEF x, z
  <2>8. z \in 1 .. z /\ x + z \in Nat /\ x + z > 0
    BY <2>5
  <2>9. Len(r) \in Nat /\ Len(r) > 0 /\ r[Len(r)] # "s"
    BY <2>5, <2>7, <2>8
  <2>10. EndsFull(r)
    BY <2>7, <2>9 DEF EndsFull
  <2> QED
    BY <2>10 DEF r
<1> QED
  BY <1>7, <1>8

\* No text that is counted ends in a blank.
LEMMA CountedIsFull ==
  ASSUME TypeOK, TitleInv, FitInv
  PROVE  \A t \in CountedTexts : EndsFull(t)
<1>1. doc \in Seq(Nodes) /\ sections \in Seq(Section)
  BY DEF TypeOK
<1>2. \A b \in BlocksOf(doc) : EndsFull(Text(b))
  BY <1>1, BlockIsFull
<1>3. ASSUME NEW b \in BlocksOf(doc), NEW t \in ToSet(Sentences(b)) PROVE EndsFull(t)
  <2>1. \A k \in 1 .. Len(Sentences(b)) : EndsFull(Sentences(b)[k])
    BY <1>1, BlockIsFull
  <2>2. Sentences(b) \in Seq(Seq(Chars))
    BY <1>1, BlockIsFull DEF Texts
  <2>3. \E k \in 1 .. Len(Sentences(b)) : t = Sentences(b)[k]
    BY <1>3, <2>2 DEF ToSet
  <2> QED
    BY <2>1, <2>3
<1>4. ASSUME NEW i \in 1 .. Len(sections)
      PROVE  /\ EndsFull(ContextText(sections[i].headings))
             /\ EndsFull(ContextText(ParentPath(sections[i].headings)))
  <2> DEFINE h == sections[i].headings
  <2>1. sections[i] \in Section
    BY <1>1, Element
  <2>2. h \in Seq(0 .. Len(doc))
    BY <2>1, SectionFields
  <2>3. Named(doc, h)
    BY DEF TitleInv, Under
  <2> HIDE DEF h
  <2>4. EndsFull(ContextText(h)) /\ EndsFull(ContextText(ParentPath(h)))
    BY <1>1, <2>2, <2>3, ContextIsFull, ParentIsFull
  <2> QED
    BY <2>4 DEF h
<1>5. ASSUME NEW i \in 1 .. Len(chunks)
      PROVE  /\ EndsFull(Content(chunks[i]))
             /\ \A k \in 1 .. Len(chunks[i].pieces) : EndsFull(PieceText(chunks[i].pieces[k]))
  <2> DEFINE c == chunks[i]
  <2>1. IsChunk(c)
    BY ChunkIsChunk
  <2> HIDE DEF c
  <2>2. EndsFull(Content(c))
    BY <1>1, <2>1, ContentIsFull
  <2>3. \A k \in 1 .. Len(c.pieces) : EndsFull(PieceText(c.pieces[k]))
    BY <1>1, <2>1, PieceIsFull DEF IsChunk, ArePieces
  <2> QED
    BY <2>2, <2>3 DEF c
<1> DEFINE blockTexts(b) == {Text(b)} \cup ToSet(Sentences(b))
           contextTexts(s) == {ContextText(s.headings), ContextText(ParentPath(s.headings))}
           chunkTexts(c) == {Content(c)} \cup {PieceText(c.pieces[k]) : k \in 1 .. Len(c.pieces)}
<1>6. \A b \in BlocksOf(doc) : \A t \in blockTexts(b) : EndsFull(t)
  BY <1>2, <1>3
<1>7. \A i \in 1 .. Len(sections) : \A t \in contextTexts(sections[i]) : EndsFull(t)
  BY <1>4
<1>8. \A i \in 1 .. Len(chunks) : \A t \in chunkTexts(chunks[i]) : EndsFull(t)
  BY <1>5
<1>9. CountedTexts = (UNION {blockTexts(b) : b \in BlocksOf(doc)})
                     \cup (UNION {contextTexts(sections[i]) : i \in 1 .. Len(sections)})
                     \cup (UNION {chunkTexts(chunks[i]) : i \in 1 .. Len(chunks)})
  BY DEF CountedTexts
<1> HIDE DEF blockTexts, contextTexts, chunkTexts
<1> QED
  BY <1>6, <1>7, <1>8, <1>9

\* Whatever the document and the limits: in every text with a word whose tokens
\* are counted Split finds the tokens its comment describes, and it loses no
\* character of any.
THEOREM TokensAreAsDescribed == Spec => []WordsAreDescribed
<1>1. TypeInv /\ TitleInv /\ FitInv => WordsAreDescribed
  <2> SUFFICES ASSUME TypeInv, TitleInv, FitInv PROVE WordsAreDescribed
    OBVIOUS
  <2>1. \A t \in CountedTexts : EndsFull(t)
    BY CountedIsFull DEF TypeInv
  <2>2. \A t \in CountedTexts : HasItsTokens(t)
    BY <2>1, FullIsDescribed
  <2> QED
    BY <2>2 DEF WordsAreDescribed, HasItsTokens
<1>2. Init => LossInv /\ TitleInv /\ FitInv
  BY InitLoss, InitTitles, InitFit
<1>3. TypeInv /\ LossInv /\ TitleInv /\ FitInv /\ [Next]_vars => (LossInv /\ TitleInv /\ FitInv)'
  BY LossStep, TitleStep, FitStep
<1>4. Spec => []TypeInv
  BY TypeInvHolds
<1> QED
  BY <1>1, <1>2, <1>3, <1>4, PTL DEF Spec
=============================================================================
