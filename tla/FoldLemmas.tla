------------------------------ MODULE FoldLemmas ------------------------------
(***************************************************************************)
(* What the folds of the community modules compute, for the proofs about   *)
(* the modules that use them: the concatenation of a sequence of sequences *)
(* and the sum of a function.  Both are recursive functions, and a         *)
(* recursive function is a CHOOSE: that there is one to choose is proved   *)
(* here too, by induction over its domain.                                 *)
(***************************************************************************)
EXTENDS Integers, Selection, FiniteSetTheorems, TLAPS

-----------------------------------------------------------------------------
(***************************************************************************)
(* Induction.  The library's theorems have an operator as a parameter,     *)
(* these a set.                                                            *)
(***************************************************************************)
\* A set of numbers has a least one: else adding 1 would be an injection, but
\* no surjection, of the numbers below it into themselves.
LEMMA LeastElement ==
    ASSUME NEW n \in Nat, NEW T \in SUBSET (0..n), T # {}
    PROVE  \E m \in T : \A k \in T : m <= k
<1>. SUFFICES ASSUME \A m \in T : \E k \in T : k < m
              PROVE  FALSE
  OBVIOUS
<1>. DEFINE U == {k \in 0..n : \A j \in 0..k : j \notin T}
            Successor == [k \in U |-> k + 1]
<1>1. 0 \in U
  OBVIOUS
<1>2. ASSUME NEW k \in U PROVE k + 1 \in U
  <2>1. k # n
    OBVIOUS
  <2>2. k + 1 \notin T
    OBVIOUS
  <2>. QED
    BY <2>1, <2>2
<1>3. Successor \in Injection(U, U)
  BY <1>2 DEF Injection, IsInjective
<1>4. IsFiniteSet(U)
  <2>1. U \subseteq 0..n
    OBVIOUS
  <2>. HIDE DEF U
  <2>. QED
    <3>1. IsFiniteSet(0..n)
      BY FS_Interval
    <3>. QED
      BY <2>1, <3>1, FS_Subset
<1>5. Successor \in Surjection(U, U)
  BY <1>3, <1>4, FS_Injection
<1>6. PICK k \in U : k + 1 = 0
  <2>. HIDE DEF U
  <2>. QED
    BY <1>1, <1>5 DEF Surjection
<1>. QED
  BY <1>6

LEMMA Induction ==
    ASSUME NEW S, 0 \in S, \A n \in Nat : n \in S => n + 1 \in S
    PROVE  Nat \subseteq S
<1>. SUFFICES ASSUME NEW n \in Nat, n \notin S PROVE FALSE
  OBVIOUS
<1>. DEFINE T == {k \in 0..n : k \notin S}
<1>1. PICK m \in T : \A k \in T : m <= k
  <2>1. T \in SUBSET (0..n) /\ n \in T
    OBVIOUS
  <2>. HIDE DEF T
  <2>. QED
    BY <2>1, LeastElement
<1>2. m \in 1..n /\ m - 1 \in 0..n /\ m - 1 \in Nat
  OBVIOUS
<1>3. m - 1 \in S
  <2>1. m - 1 \notin T
    <3>. HIDE DEF T
    <3>. QED
      BY <1>1, <1>2
  <2>. QED
    BY <1>2, <2>1
<1>4. (m - 1) + 1 \in S
  BY <1>2, <1>3
<1>. QED
  BY <1>2, <1>4

-----------------------------------------------------------------------------
(***************************************************************************)
(* FlattenSeq.                                                             *)
(***************************************************************************)
\* Its loop over the first n sequences.
Flat(ss, n, f) ==
    f = [i \in 1..n |-> IF i = 1 THEN ss[i] ELSE f[i - 1] \o ss[i]]

LEMMA FlatAt ==
    ASSUME NEW ss, NEW n \in Nat, NEW f, Flat(ss, n, f), NEW i \in 1..n
    PROVE  f[i] = IF i = 1 THEN ss[i] ELSE f[i - 1] \o ss[i]
  BY DEF Flat

LEMMA FlatExists ==
    ASSUME NEW ss, NEW n \in Nat
    PROVE  \E f : Flat(ss, n, f)
<1>. DEFINE S == {m \in Nat : \E f : Flat(ss, m, f)}
<1>1. 0 \in S
  <2>. DEFINE e == [i \in 1..0 |-> 0]
              d == [i \in 1..0 |-> IF i = 1 THEN ss[i] ELSE e[i - 1] \o ss[i]]
  <2>1. e = d
    OBVIOUS
  <2>2. Flat(ss, 0, e)
    BY <2>1 DEF Flat
  <2>. HIDE DEF e
  <2>. QED
    BY <2>2
<1>2. ASSUME NEW m \in Nat, m \in S PROVE m + 1 \in S
  <2>1. PICK f : Flat(ss, m, f)
    BY <1>2
  <2>. DEFINE last == IF m = 0 THEN ss[1] ELSE f[m] \o ss[m + 1]
              g == [i \in 1 .. m + 1 |-> IF i = m + 1 THEN last ELSE f[i]]
              h == [i \in 1 .. m + 1 |->
                      IF i = 1 THEN ss[i] ELSE g[i - 1] \o ss[i]]
  <2>2. ASSUME NEW i \in 1 .. m + 1 PROVE g[i] = h[i]
    <3>1. CASE i = m + 1 /\ m = 0
      BY <3>1
    <3>2. CASE i = m + 1 /\ m # 0
      <4>1. i - 1 = m /\ i # 1 /\ m \in 1 .. m + 1 /\ m # m + 1
        BY <3>2
      <4>2. g[i - 1] = f[m] /\ g[i] = f[m] \o ss[m + 1]
        BY <3>2, <4>1
      <4>. QED
        BY <3>2, <4>1, <4>2
    <3>3. CASE i # m + 1
      <4>1. i \in 1..m
        BY <3>3
      <4>2. f[i] = IF i = 1 THEN ss[i] ELSE f[i - 1] \o ss[i]
        BY <2>1, <4>1, FlatAt
      <4>3. i # 1 => i - 1 \in 1 .. m + 1 /\ i - 1 # m + 1
        BY <4>1
      <4>4. g[i] = f[i] /\ (i # 1 => g[i - 1] = f[i - 1])
        BY <3>3, <4>1, <4>3
      <4>. QED
        BY <4>2, <4>4
    <3>. QED
      BY <3>1, <3>2, <3>3
  <2>3. g = h
    <3>. HIDE DEF last
    <3>1. /\ g = [i \in 1 .. m + 1 |-> g[i]]
          /\ h = [i \in 1 .. m + 1 |-> h[i]]
      OBVIOUS
    <3>. HIDE DEF g, h
    <3>. QED
      BY <2>2, <3>1
  <2>4. Flat(ss, m + 1, g)
    BY <2>3 DEF Flat
  <2>. HIDE DEF g
  <2>. QED
    BY <2>4
<1>3. Nat \subseteq S
  <2>. HIDE DEF S
  <2>. QED
    BY <1>1, <1>2, Induction
<1>. QED
  BY <1>3

\* The loop looks at no sequence it has not reached.
LEMMA FlatSame ==
    ASSUME NEW ss, NEW rr, NEW n \in Nat, NEW m \in Nat, n <= m,
           NEW f, NEW g, Flat(ss, n, f), Flat(rr, m, g),
           \A i \in 1..n : ss[i] = rr[i]
    PROVE  \A i \in 1..n : f[i] = g[i]
<1>. DEFINE S == {i \in Nat : i \in 1..n => f[i] = g[i]}
<1>1. 0 \in S
  OBVIOUS
<1>2. ASSUME NEW i \in Nat, i \in S PROVE i + 1 \in S
  <2>. SUFFICES ASSUME i + 1 \in 1..n PROVE f[i + 1] = g[i + 1]
    OBVIOUS
  <2>1. i + 1 \in 1..m /\ (i + 1) - 1 = i /\ ss[i + 1] = rr[i + 1]
    OBVIOUS
  <2>2. f[i + 1] = IF i + 1 = 1 THEN ss[i + 1] ELSE f[(i + 1) - 1] \o ss[i + 1]
    BY <2>1, FlatAt
  <2>3. g[i + 1] = IF i + 1 = 1 THEN rr[i + 1] ELSE g[(i + 1) - 1] \o rr[i + 1]
    BY <2>1, FlatAt
  <2>4. i + 1 # 1 => f[i] = g[i]
    BY <1>2
  <2>. QED
    BY <2>1, <2>2, <2>3, <2>4
<1>3. Nat \subseteq S
  <2>. HIDE DEF S
  <2>. QED
    BY <1>1, <1>2, Induction
<1>. QED
  BY <1>3

LEMMA FlatType ==
    ASSUME NEW S, NEW n \in Nat, NEW ss, \A i \in 1..n : ss[i] \in Seq(S),
           NEW f, Flat(ss, n, f)
    PROVE  \A i \in 1..n : f[i] \in Seq(S)
<1>. DEFINE T == {i \in Nat : i \in 1..n => f[i] \in Seq(S)}
<1>1. 0 \in T
  OBVIOUS
<1>2. ASSUME NEW i \in Nat, i \in T PROVE i + 1 \in T
  <2>. SUFFICES ASSUME i + 1 \in 1..n PROVE f[i + 1] \in Seq(S)
    OBVIOUS
  <2>1. (i + 1) - 1 = i /\ ss[i + 1] \in Seq(S)
    OBVIOUS
  <2>2. f[i + 1] = IF i + 1 = 1 THEN ss[i + 1] ELSE f[(i + 1) - 1] \o ss[i + 1]
    BY FlatAt
  <2>3. i + 1 # 1 => f[i] \in Seq(S)
    BY <1>2
  <2>. QED
    BY <2>1, <2>2, <2>3
<1>3. Nat \subseteq T
  <2>. HIDE DEF T
  <2>. QED
    BY <1>1, <1>2, Induction
<1>. QED
  BY <1>3

LEMMA FlattenEmpty == FlattenSeq(<<>>) = <<>>
  BY DEF FlattenSeq

LEMMA FlattenIsFlat ==
    ASSUME NEW ss, Len(ss) \in Nat, Len(ss) # 0
    PROVE  \E f : Flat(ss, Len(ss), f) /\ FlattenSeq(ss) = f[Len(ss)]
<1>. DEFINE f == CHOOSE f : Flat(ss, Len(ss), f)
<1>1. Flat(ss, Len(ss), f)
  BY FlatExists
<1>2. FlattenSeq(ss) = f[Len(ss)]
  BY DEF FlattenSeq, Flat
<1>. HIDE DEF f
<1>. QED
  BY <1>1, <1>2

LEMMA FlattenType ==
    ASSUME NEW S, NEW ss \in Seq(Seq(S))
    PROVE  FlattenSeq(ss) \in Seq(S)
<1>1. CASE Len(ss) = 0
  <2>1. ss = <<>>
    BY <1>1
  <2>2. FlattenSeq(ss) = <<>>
    BY <2>1, FlattenEmpty
  <2>. QED
    BY <2>2
<1>2. CASE Len(ss) # 0
  <2>1. PICK f : Flat(ss, Len(ss), f) /\ FlattenSeq(ss) = f[Len(ss)]
    BY <1>2, FlattenIsFlat
  <2>2. f[Len(ss)] \in Seq(S)
    <3>1. /\ Len(ss) \in Nat /\ Len(ss) \in 1..Len(ss)
          /\ \A i \in 1..Len(ss) : ss[i] \in Seq(S)
      BY <1>2
    <3>. QED
      BY <2>1, <3>1, FlatType
  <2>. QED
    BY <2>1, <2>2
<1>. QED
  BY <1>1, <1>2

LEMMA FlattenAppend ==
    ASSUME NEW S, NEW ss \in Seq(Seq(S)), NEW s \in Seq(S)
    PROVE  FlattenSeq(Append(ss, s)) = FlattenSeq(ss) \o s
<1>. DEFINE n == Len(ss)
            rr == Append(ss, s)
<1>1. /\ n \in Nat /\ Len(rr) = n + 1 /\ Len(rr) # 0 /\ n <= n + 1
      /\ rr[n + 1] = s
      /\ \A i \in 1..n : ss[i] = rr[i]
  OBVIOUS
<1>. HIDE DEF rr
<1>2. PICK g : Flat(rr, n + 1, g) /\ FlattenSeq(rr) = g[n + 1]
  BY <1>1, FlattenIsFlat
<1>3. g[n + 1] = IF n + 1 = 1 THEN rr[n + 1] ELSE g[(n + 1) - 1] \o rr[n + 1]
  <2>1. n + 1 \in 1 .. n + 1 /\ n + 1 \in Nat
    BY <1>1
  <2>. HIDE DEF n
  <2>. QED
    BY <1>2, <2>1, FlatAt, SMTT(30)
<1>4. (n + 1) - 1 = n
  BY <1>1
<1>5. CASE n = 0
  <2>1. ss = <<>>
    BY <1>5
  <2>2. g[n + 1] = s
    BY <1>1, <1>3, <1>5
  <2>. QED
    BY <1>2, <2>1, <2>2, FlattenEmpty DEF rr
<1>6. CASE n # 0
  <2>1. PICK f : Flat(ss, n, f) /\ FlattenSeq(ss) = f[n]
    BY <1>1, <1>6, FlattenIsFlat
  <2>2. f[n] = g[n]
    <3>1. n \in 1..n /\ n + 1 \in Nat
      BY <1>1, <1>6
    <3>. HIDE DEF n
    <3>. QED
      BY <1>1, <1>2, <2>1, <3>1, FlatSame, SMTT(60)
  <2>3. g[n + 1] = g[n] \o s
    BY <1>1, <1>3, <1>4, <1>6
  <2>. QED
    BY <1>2, <2>1, <2>2, <2>3 DEF rr
<1>. QED
  BY <1>5, <1>6

-----------------------------------------------------------------------------
(***************************************************************************)
(* Chosen.                                                                 *)
(***************************************************************************)
LEMMA ChosenEmpty == ASSUME NEW T PROVE Chosen(<<>>, T) = <<>>
<1>1. [i \in 1..Len(<<>>) |-> IF <<>>[i] \in T THEN << <<>>[i] >> ELSE <<>>] = <<>>
  OBVIOUS
<1>. QED
  BY <1>1, FlattenEmpty DEF Chosen

LEMMA ChosenAppend ==
    ASSUME NEW S, NEW s \in Seq(S), NEW e \in S, NEW T
    PROVE  /\ Chosen(s, T) \in Seq(S)
           /\ Chosen(Append(s, e), T) =
                IF e \in T THEN Append(Chosen(s, T), e) ELSE Chosen(s, T)
<1>. DEFINE part(q, i) == IF q[i] \in T THEN <<q[i]>> ELSE <<>>
            parts(q) == [i \in 1..Len(q) |-> part(q, i)]
            last == IF e \in T THEN <<e>> ELSE <<>>
            r == Append(s, e)
<1>1. parts(s) \in Seq(Seq(S))
  <2>1. \A i \in 1..Len(s) : part(s, i) \in Seq(S)
    OBVIOUS
  <2>. HIDE DEF part
  <2>. QED
    BY <2>1
<1>2. last \in Seq(S)
  OBVIOUS
<1>3. parts(r) = Append(parts(s), last)
  <2>1. r \in Seq(S) /\ Len(r) = Len(s) + 1 /\ Len(s) \in Nat
    OBVIOUS
  <2>2. /\ \A i \in 1..Len(s) : r[i] = s[i]
        /\ r[Len(s) + 1] = e
    OBVIOUS
  <2>. HIDE DEF r
  <2>3. /\ \A i \in 1..Len(s) : part(r, i) = part(s, i)
        /\ part(r, Len(s) + 1) = last
    BY <2>2
  <2>. HIDE DEF part, last
  <2>4. /\ Len(parts(s)) = Len(s) /\ parts(s) \in Seq(Seq(S))
        /\ \A i \in 1..Len(s) : parts(s)[i] = part(s, i)
    BY <1>1, <2>1
  <2>5. /\ Len(Append(parts(s), last)) = Len(s) + 1
        /\ Append(parts(s), last)[Len(s) + 1] = last
        /\ \A i \in 1..Len(s) : Append(parts(s), last)[i] = part(s, i)
        /\ Append(parts(s), last) \in Seq(Seq(S))
    <3>. HIDE DEF parts
    <3>. QED
      BY <1>2, <2>1, <2>4
  <2>6. ASSUME NEW i \in 1 .. Len(s) + 1
        PROVE  part(r, i) = Append(parts(s), last)[i]
    <3>1. i \in 1..Len(s) \/ i = Len(s) + 1
      BY <2>1
    <3>. HIDE DEF parts
    <3>. QED
      BY <2>3, <2>5, <3>1
  <2>. DEFINE long == Append(parts(s), last)
  <2>7. long = [i \in 1 .. Len(s) + 1 |-> long[i]]
    <3>. HIDE DEF parts
    <3>. HIDE DEF long
    <3>1. long \in Seq(Seq(S)) /\ Len(long) = Len(s) + 1
      BY <2>5 DEF long
    <3>. QED
      BY <3>1
  <2>. HIDE DEF long
  <2>8. parts(r) = [i \in 1 .. Len(s) + 1 |-> long[i]]
    <3>1. \A i \in 1 .. Len(s) + 1 : part(r, i) = long[i]
      BY <2>6 DEF long
    <3>. QED
      BY <2>1, <3>1
  <2>. QED
    BY <2>7, <2>8 DEF long
<1>4. Chosen(s, T) = FlattenSeq(parts(s)) /\ Chosen(r, T) = FlattenSeq(parts(r))
  BY DEF Chosen
<1>. HIDE DEF parts
<1>5. FlattenSeq(parts(r)) = FlattenSeq(parts(s)) \o last
  BY <1>1, <1>2, <1>3, FlattenAppend
<1>6. FlattenSeq(parts(s)) \in Seq(S)
  BY <1>1, FlattenType
<1>. QED
  BY <1>4, <1>5, <1>6

LEMMA SeqInduction ==
    ASSUME NEW S, NEW P, <<>> \in P,
           \A s \in Seq(S) : \A e \in S : s \in P => Append(s, e) \in P
    PROVE  Seq(S) \subseteq P
<1>. DEFINE N == {n \in Nat : \A s \in Seq(S) : Len(s) = n => s \in P}
<1>1. 0 \in N
  <2>. SUFFICES ASSUME NEW s \in Seq(S), Len(s) = 0 PROVE s \in P
    OBVIOUS
  <2>1. s = <<>>
    OBVIOUS
  <2>. QED
    BY <2>1
<1>2. ASSUME NEW n \in Nat, n \in N PROVE n + 1 \in N
  <2>. SUFFICES ASSUME NEW s \in Seq(S), Len(s) = n + 1 PROVE s \in P
    OBVIOUS
  <2>. DEFINE front == SubSeq(s, 1, n)
              e == s[n + 1]
  <2>1. front \in Seq(S) /\ Len(front) = n /\ e \in S
    OBVIOUS
  <2>2. \A i \in 1..n : front[i] = s[i]
    OBVIOUS
  <2>. HIDE DEF front
  <2>3. s = Append(front, e)
    <3>. DEFINE r == Append(front, e)
    <3>1. r \in Seq(S) /\ Len(r) = n + 1
      BY <2>1
    <3>2. ASSUME NEW i \in 1 .. n + 1 PROVE r[i] = s[i]
      BY <2>1, <2>2
    <3>. HIDE DEF r
    <3>. QED
      BY <3>1, <3>2 DEF r
  <2>4. front \in P
    BY <1>2, <2>1
  <2>. QED
    BY <2>1, <2>3, <2>4
<1>3. Nat \subseteq N
  <2>. HIDE DEF N
  <2>. QED
    BY <1>1, <1>2, Induction
<1>. QED
  BY <1>3

LEMMA ChosenType ==
    ASSUME NEW S, NEW s \in Seq(S), NEW T
    PROVE  Chosen(s, T) \in Seq(S)
<1>. DEFINE P == {r \in Seq(S) : Chosen(r, T) \in Seq(S)}
<1>1. <<>> \in P
  <2>1. Chosen(<<>>, T) = <<>>
    BY ChosenEmpty
  <2>2. <<>> \in Seq(S)
    OBVIOUS
  <2>3. Chosen(<<>>, T) \in Seq(S)
    BY <2>1, <2>2, Zenon
  <2>. QED
    BY <2>2, <2>3
<1>2. ASSUME NEW r \in Seq(S), NEW e \in S, r \in P PROVE Append(r, e) \in P
  <2>. DEFINE c == Chosen(r, T)
              d == Chosen(Append(r, e), T)
  <2>1. c \in Seq(S) /\ d = IF e \in T THEN Append(c, e) ELSE c
    BY ChosenAppend
  <2>. HIDE DEF c, d
  <2>2. d \in Seq(S) /\ Append(r, e) \in Seq(S)
    BY <2>1
  <2>. QED
    BY <2>2 DEF d
<1>3. Seq(S) \subseteq P
  <2>. HIDE DEF P
  <2>. QED
    BY <1>1, <1>2, SeqInduction
<1>. QED
  BY <1>3

\* All of them, and none of them.
LEMMA ChosenAll ==
    ASSUME NEW S, NEW s \in Seq(S), NEW T, \A i \in 1..Len(s) : s[i] \in T
    PROVE  Chosen(s, T) = s
<1>. DEFINE P == {r \in Seq(S) : (\A i \in 1..Len(r) : r[i] \in T) => Chosen(r, T) = r}
<1>1. <<>> \in P
  BY ChosenEmpty
<1>2. ASSUME NEW r \in Seq(S), NEW e \in S, r \in P PROVE Append(r, e) \in P
  <2>. DEFINE q == Append(r, e)
  <2>1. q \in Seq(S) /\ Len(q) = Len(r) + 1 /\ Len(r) \in Nat
    OBVIOUS
  <2>2. q[Len(r) + 1] = e /\ \A i \in 1..Len(r) : q[i] = r[i]
    OBVIOUS
  <2>5. Chosen(q, T) = IF e \in T THEN Append(Chosen(r, T), e) ELSE Chosen(r, T)
    BY ChosenAppend
  <2>. HIDE DEF q
  <2>. SUFFICES ASSUME \A i \in 1..Len(q) : q[i] \in T PROVE Chosen(q, T) = q
    BY <2>1 DEF q
  <2>3. e \in T /\ \A i \in 1..Len(r) : r[i] \in T
    BY <2>1, <2>2
  <2>4. Chosen(r, T) = r
    BY <1>2, <2>3
  <2>. QED
    BY <2>3, <2>4, <2>5 DEF q
<1>3. Seq(S) \subseteq P
  <2>. HIDE DEF P
  <2>. QED
    BY <1>1, <1>2, SeqInduction
<1>. QED
  BY <1>3

LEMMA ChosenNone ==
    ASSUME NEW S, NEW s \in Seq(S), NEW T, \A i \in 1..Len(s) : s[i] \notin T
    PROVE  Chosen(s, T) = <<>>
<1>. DEFINE P == {r \in Seq(S) : (\A i \in 1..Len(r) : r[i] \notin T) => Chosen(r, T) = <<>>}
<1>1. <<>> \in P
  BY ChosenEmpty
<1>2. ASSUME NEW r \in Seq(S), NEW e \in S, r \in P PROVE Append(r, e) \in P
  <2>. DEFINE q == Append(r, e)
  <2>1. q \in Seq(S) /\ Len(q) = Len(r) + 1 /\ Len(r) \in Nat
    OBVIOUS
  <2>2. q[Len(r) + 1] = e /\ \A i \in 1..Len(r) : q[i] = r[i]
    OBVIOUS
  <2>5. Chosen(q, T) = IF e \in T THEN Append(Chosen(r, T), e) ELSE Chosen(r, T)
    BY ChosenAppend
  <2>. HIDE DEF q
  <2>. SUFFICES ASSUME \A i \in 1..Len(q) : q[i] \notin T PROVE Chosen(q, T) = <<>>
    BY <2>1 DEF q
  <2>3. e \notin T /\ \A i \in 1..Len(r) : r[i] \notin T
    BY <2>1, <2>2
  <2>4. Chosen(r, T) = <<>>
    BY <1>2, <2>3
  <2>. QED
    BY <2>3, <2>4, <2>5 DEF q
<1>3. Seq(S) \subseteq P
  <2>. HIDE DEF P
  <2>. QED
    BY <1>1, <1>2, SeqInduction
<1>. QED
  BY <1>3

-----------------------------------------------------------------------------
(***************************************************************************)
(* Sequences without repetition.                                           *)
(***************************************************************************)
LEMMA InjectiveAppend ==
    ASSUME NEW S, NEW s \in Seq(S), NEW e \in S,
           IsInjective(s), \A i \in 1..Len(s) : s[i] # e
    PROVE  IsInjective(Append(s, e))
<1>. DEFINE r == Append(s, e)
<1>1. DOMAIN r = 1 .. Len(s) + 1 /\ DOMAIN s = 1..Len(s) /\ Len(s) \in Nat
  OBVIOUS
<1>2. r[Len(s) + 1] = e /\ \A i \in 1..Len(s) : r[i] = s[i]
  OBVIOUS
<1>. HIDE DEF r
<1>3. ASSUME NEW i \in 1 .. Len(s) + 1, NEW j \in 1 .. Len(s) + 1, r[i] = r[j]
      PROVE  i = j
  <2>1. CASE i \in 1..Len(s) /\ j \in 1..Len(s)
    <3>1. s[i] = s[j]
      BY <1>2, <1>3, <2>1
    <3>. QED
      BY <1>1, <2>1, <3>1 DEF IsInjective
  <2>2. CASE i \in 1..Len(s) /\ j = Len(s) + 1
    BY <1>2, <1>3, <2>2
  <2>3. CASE i = Len(s) + 1 /\ j \in 1..Len(s)
    BY <1>2, <1>3, <2>3
  <2>. QED
    BY <1>1, <2>1, <2>2, <2>3
<1>4. IsInjective(r)
  BY <1>1, <1>3 DEF IsInjective
<1>. QED
  BY <1>4 DEF r

\* ConcatAssociative, for numbers: z3 needs the set.
LEMMA Regrouped ==
    ASSUME NEW p \in Seq(Nat), NEW q \in Seq(Nat), NEW r \in Seq(Nat)
    PROVE  (p \o q) \o r = p \o (q \o r)
  BY SMTT(30)

LEMMA InjectiveConcat ==
    ASSUME NEW S, NEW s \in Seq(S), NEW t \in Seq(S),
           IsInjective(s), IsInjective(t),
           \A i \in 1..Len(s) : \A j \in 1..Len(t) : s[i] # t[j]
    PROVE  IsInjective(s \o t)
<1>. DEFINE r == s \o t
<1>1. /\ DOMAIN r = 1 .. Len(s) + Len(t) /\ DOMAIN s = 1..Len(s)
      /\ DOMAIN t = 1..Len(t) /\ Len(s) \in Nat /\ Len(t) \in Nat
  OBVIOUS
<1>2. /\ \A i \in 1..Len(s) : r[i] = s[i]
      /\ \A i \in Len(s) + 1 .. Len(s) + Len(t) : r[i] = t[i - Len(s)]
  OBVIOUS
<1>. HIDE DEF r
<1>3. ASSUME NEW i \in DOMAIN r, NEW j \in DOMAIN r, r[i] = r[j]
      PROVE  i = j
  <2>1. CASE i \in 1..Len(s) /\ j \in 1..Len(s)
    <3>1. s[i] = s[j]
      BY <1>2, <1>3, <2>1
    <3>. QED
      BY <1>1, <2>1, <3>1 DEF IsInjective
  <2>2. CASE i \in 1..Len(s) /\ j \notin 1..Len(s)
    <3>1. j - Len(s) \in 1..Len(t) /\ j \in Len(s) + 1 .. Len(s) + Len(t)
      BY <1>1, <2>2
    <3>. QED
      BY <1>2, <1>3, <2>2, <3>1
  <2>3. CASE i \notin 1..Len(s) /\ j \in 1..Len(s)
    <3>1. i - Len(s) \in 1..Len(t) /\ i \in Len(s) + 1 .. Len(s) + Len(t)
      BY <1>1, <2>3
    <3>. QED
      BY <1>2, <1>3, <2>3, <3>1
  <2>4. CASE i \notin 1..Len(s) /\ j \notin 1..Len(s)
    <3>1. /\ i - Len(s) \in 1..Len(t) /\ i \in Len(s) + 1 .. Len(s) + Len(t)
          /\ j - Len(s) \in 1..Len(t) /\ j \in Len(s) + 1 .. Len(s) + Len(t)
      BY <1>1, <2>4
    <3>2. t[i - Len(s)] = t[j - Len(s)]
      BY <1>2, <1>3, <3>1
    <3>3. i - Len(s) = j - Len(s)
      BY <1>1, <3>1, <3>2 DEF IsInjective
    <3>. QED
      BY <1>1, <3>1, <3>3
  <2>. QED
    BY <2>1, <2>2, <2>3, <2>4
<1>4. IsInjective(r)
  BY <1>3 DEF IsInjective
<1>. QED
  BY <1>4 DEF r

LEMMA InjectivePrefix ==
    ASSUME NEW S, NEW s \in Seq(S), IsInjective(s), NEW n \in 0..Len(s)
    PROVE  IsInjective(SubSeq(s, 1, n))
<1>1. DOMAIN SubSeq(s, 1, n) = 1..n /\ DOMAIN s = 1..Len(s) /\ n <= Len(s)
  OBVIOUS
<1>2. \A i \in 1..n : SubSeq(s, 1, n)[i] = s[i] /\ i \in 1..Len(s)
  OBVIOUS
<1>. QED
  BY <1>1, <1>2 DEF IsInjective

\* Choosing takes elements of the sequence and repeats none.
LEMMA ChosenInjective ==
    ASSUME NEW S, NEW s \in Seq(S), NEW T, IsInjective(s)
    PROVE  /\ IsInjective(Chosen(s, T))
           /\ \A i \in 1..Len(Chosen(s, T)) :
                  \E j \in 1..Len(s) : Chosen(s, T)[i] = s[j]
<1>. DEFINE From(r) == \A i \in 1..Len(Chosen(r, T)) :
                           \E j \in 1..Len(r) : Chosen(r, T)[i] = r[j]
            P == {r \in Seq(S) : IsInjective(r) => IsInjective(Chosen(r, T)) /\ From(r)}
<1>1. <<>> \in P
  <2>1. Chosen(<<>>, T) = <<>> /\ <<>> \in Seq(S) /\ Len(<<>>) = 0 /\ DOMAIN <<>> = {}
    BY ChosenEmpty
  <2>2. IsInjective(<<>>) /\ From(<<>>)
    BY <2>1 DEF IsInjective
  <2>. QED
    BY <2>1, <2>2
<1>2. ASSUME NEW r \in Seq(S), NEW e \in S, r \in P PROVE Append(r, e) \in P
  <2>. DEFINE q == Append(r, e)
              c == Chosen(r, T)
              d == Chosen(q, T)
  <2>1. q \in Seq(S) /\ Len(q) = Len(r) + 1 /\ Len(r) \in Nat /\ DOMAIN q = 1..Len(q)
    OBVIOUS
  <2>2. q[Len(r) + 1] = e /\ \A i \in 1..Len(r) : q[i] = r[i]
    OBVIOUS
  <2>3. c \in Seq(S) /\ d = IF e \in T THEN Append(c, e) ELSE c
    BY ChosenAppend
  <2>4. From(r) = \A i \in 1..Len(c) : \E j \in 1..Len(r) : c[i] = r[j]
    OBVIOUS
  <2>5. From(q) = \A i \in 1..Len(d) : \E j \in 1..Len(q) : d[i] = q[j]
    OBVIOUS
  <2>. HIDE DEF q, c, d, From
  <2>. SUFFICES ASSUME IsInjective(q) PROVE IsInjective(d) /\ From(q)
    BY <2>1 DEF q, d
  <2>6. IsInjective(r) /\ \A i \in 1..Len(r) : r[i] # e
    <3>1. DOMAIN r = 1..Len(r)
      OBVIOUS
    <3>. QED
      BY <2>1, <2>2, <3>1, SMTT(30) DEF IsInjective
  <2>7. IsInjective(c) /\ From(r)
    BY <1>2, <2>6 DEF c
  <2>8. CASE e \notin T
    <3>1. d = c
      BY <2>3, <2>8
    <3>2. ASSUME NEW i \in 1..Len(d) PROVE \E j \in 1..Len(q) : d[i] = q[j]
      <4>1. PICK j \in 1..Len(r) : c[i] = r[j]
        BY <2>4, <2>7, <3>1
      <4>2. j \in 1..Len(q) /\ d[i] = q[j]
        BY <2>1, <2>2, <3>1, <4>1
      <4>. QED
        BY <4>2
    <3>. QED
      BY <2>5, <2>7, <3>1, <3>2
  <2>9. CASE e \in T
    <3>1. d = Append(c, e)
      BY <2>3, <2>9
    <3>2. \A i \in 1..Len(c) : c[i] # e
      BY <2>4, <2>6, <2>7
    <3>3. IsInjective(d)
      BY <2>3, <2>7, <3>1, <3>2, InjectiveAppend
    <3>4. ASSUME NEW i \in 1..Len(d) PROVE \E j \in 1..Len(q) : d[i] = q[j]
      <4>1. Len(c) \in Nat /\ Len(d) = Len(c) + 1 /\ d[Len(c) + 1] = e
        BY <2>3, <3>1
      <4>2. \A k \in 1..Len(c) : d[k] = c[k]
        BY <2>3, <3>1
      <4>3. CASE i = Len(c) + 1
        BY <2>1, <2>2, <4>1, <4>3
      <4>4. CASE i \in 1..Len(c)
        <5>1. PICK j \in 1..Len(r) : c[i] = r[j]
          BY <2>4, <2>7, <4>4
        <5>2. j \in 1..Len(q) /\ d[i] = q[j]
          BY <2>1, <2>2, <4>2, <4>4, <5>1
        <5>. QED
          BY <5>2
      <4>. QED
        BY <4>1, <4>3, <4>4
    <3>. QED
      BY <2>5, <3>3, <3>4
  <2>. QED
    BY <2>8, <2>9
<1>3. Seq(S) \subseteq P
  <2>. HIDE DEF P
  <2>. QED
    BY <1>1, <1>2, SeqInduction
<1>. QED
  BY <1>3

\* What is chosen is in the set.
LEMMA ChosenIn ==
    ASSUME NEW S, NEW s \in Seq(S), NEW T
    PROVE  Chosen(s, T) \in Seq(S \cap T)
<1>. DEFINE P == {r \in Seq(S) : Chosen(r, T) \in Seq(S \cap T)}
<1>1. <<>> \in P
  <2>1. Chosen(<<>>, T) = <<>>
    BY ChosenEmpty
  <2>2. <<>> \in Seq(S) /\ <<>> \in Seq(S \cap T)
    OBVIOUS
  <2>3. Chosen(<<>>, T) \in Seq(S \cap T)
    BY <2>1, <2>2, Zenon
  <2>. QED
    BY <2>2, <2>3
<1>2. ASSUME NEW r \in Seq(S), NEW e \in S, r \in P PROVE Append(r, e) \in P
  <2>. DEFINE c == Chosen(r, T)
              d == Chosen(Append(r, e), T)
              B == S \cap T
  <2>1. /\ c \in Seq(B)
        /\ d = IF e \in T THEN Append(c, e) ELSE c
    <3>1. c \in Seq(B)
      BY <1>2
    <3>2. d = IF e \in T THEN Append(c, e) ELSE c
      BY ChosenAppend
    <3>. QED
      BY <3>1, <3>2
  <2>2. e \in T => e \in B
    OBVIOUS
  <2>. HIDE DEF c, d, B
  <2>3. d \in Seq(B)
    BY <2>1, <2>2
  <2>4. Append(r, e) \in Seq(S)
    OBVIOUS
  <2>. QED
    BY <2>3, <2>4 DEF d, B
<1>3. Seq(S) \subseteq P
  <2>. HIDE DEF P
  <2>. QED
    BY <1>1, <1>2, SeqInduction
<1>. QED
  BY <1>3

\* The parts of a sequence that repeats nothing.
LEMMA InjectiveFront ==
    ASSUME NEW S, NEW s \in Seq(S), NEW t \in Seq(S), IsInjective(s \o t)
    PROVE  /\ IsInjective(s) /\ IsInjective(t)
           /\ \A i \in 1..Len(s) : \A j \in 1..Len(t) : s[i] # t[j]
<1>. DEFINE q == s \o t
<1>1. Len(s) \in Nat /\ Len(t) \in Nat
  OBVIOUS
<1>2. DOMAIN s = 1..Len(s) /\ DOMAIN t = 1..Len(t) /\ DOMAIN q = 1..Len(s) + Len(t)
  OBVIOUS
<1>3. \A i \in 1..Len(s) : q[i] = s[i]
  OBVIOUS
<1>4. \A j \in 1..Len(t) : q[Len(s) + j] = t[j]
  OBVIOUS
<1>5. \A a, b \in DOMAIN q : q[a] = q[b] => a = b
  BY DEF IsInjective
<1>. HIDE DEF q
<1>6. ASSUME NEW i \in 1..Len(s), NEW j \in 1..Len(s), s[i] = s[j] PROVE i = j
  BY <1>1, <1>2, <1>3, <1>5, <1>6
<1>7. ASSUME NEW i \in 1..Len(t), NEW j \in 1..Len(t), t[i] = t[j] PROVE i = j
  <2>1. Len(s) + i \in DOMAIN q /\ Len(s) + j \in DOMAIN q
    BY <1>1, <1>2
  <2>2. q[Len(s) + i] = q[Len(s) + j]
    BY <1>4, <1>7
  <2>3. Len(s) + i = Len(s) + j
    BY <1>5, <2>1, <2>2
  <2>. QED
    BY <1>1, <2>3
<1>8. ASSUME NEW i \in 1..Len(s), NEW j \in 1..Len(t), s[i] = t[j] PROVE FALSE
  <2>1. i \in DOMAIN q /\ Len(s) + j \in DOMAIN q
    BY <1>1, <1>2
  <2>2. q[i] = q[Len(s) + j]
    BY <1>3, <1>4, <1>8
  <2>3. i = Len(s) + j
    BY <1>5, <2>1, <2>2
  <2>. QED
    BY <1>1, <2>3
<1>9. IsInjective(s)
  BY <1>2, <1>6 DEF IsInjective
<1>10. IsInjective(t)
  BY <1>2, <1>7 DEF IsInjective
<1>. QED
  BY <1>8, <1>9, <1>10

\* No element is in two of the sequences, or twice in one.
Apart(ss) ==
    \A i, j \in 1..Len(ss) : \A a \in 1..Len(ss[i]), b \in 1..Len(ss[j]) :
        ss[i][a] = ss[j][b] => i = j /\ a = b

LEMMA FlattenApart ==
    ASSUME NEW S, NEW ss \in Seq(Seq(S)), IsInjective(FlattenSeq(ss))
    PROVE  Apart(ss)
<1>. DEFINE In(rr) == \A i \in 1..Len(rr) : \A a \in 1..Len(rr[i]) :
                        \E k \in 1..Len(FlattenSeq(rr)) : FlattenSeq(rr)[k] = rr[i][a]
            P == {rr \in Seq(Seq(S)) : IsInjective(FlattenSeq(rr)) => Apart(rr) /\ In(rr)}
<1>1. <<>> \in P
  BY DEF Apart
<1>2. ASSUME NEW rr \in Seq(Seq(S)), NEW e \in Seq(S), rr \in P PROVE Append(rr, e) \in P
  <2>. DEFINE q == Append(rr, e)
              f == FlattenSeq(rr)
              g == FlattenSeq(q)
              n == Len(rr)
  <2>1. f \in Seq(S)
    BY FlattenType
  <2>2. g = f \o e
    BY FlattenAppend
  <2>3. q \in Seq(Seq(S)) /\ n \in Nat /\ Len(q) = n + 1 /\ q[n + 1] = e
    OBVIOUS
  <2>4. \A i \in 1..n : q[i] = rr[i]
    OBVIOUS
  <2>5. In(rr) = \A i \in 1..n : \A a \in 1..Len(rr[i]) : \E k \in 1..Len(f) : f[k] = rr[i][a]
    OBVIOUS
  <2>6. In(q) = \A i \in 1..Len(q) : \A a \in 1..Len(q[i]) : \E k \in 1..Len(g) : g[k] = q[i][a]
    OBVIOUS
  <2>7. IsInjective(f) => Apart(rr) /\ In(rr)
    BY <1>2
  <2>. HIDE DEF q, f, g, n, In
  <2>. SUFFICES ASSUME IsInjective(g) PROVE Apart(q) /\ In(q)
    BY <2>3 DEF g, q
  <2>8. /\ IsInjective(f) /\ IsInjective(e)
        /\ \A i \in 1..Len(f) : \A j \in 1..Len(e) : f[i] # e[j]
    BY <2>1, <2>2, InjectiveFront
  <2>9. Apart(rr) /\ \A i \in 1..n : \A a \in 1..Len(rr[i]) : \E k \in 1..Len(f) : f[k] = rr[i][a]
    BY <2>5, <2>7, <2>8
  <2>10. Len(f) \in Nat /\ Len(e) \in Nat /\ Len(g) = Len(f) + Len(e)
    BY <2>1, <2>2
  <2>11. \A k \in 1..Len(f) : g[k] = f[k] /\ k \in 1..Len(g)
    BY <2>1, <2>2
  <2>12. \A k \in 1..Len(e) : g[Len(f) + k] = e[k] /\ Len(f) + k \in 1..Len(g)
    BY <2>1, <2>2
  <2>13. In(q)
    <3>. SUFFICES ASSUME NEW i \in 1..Len(q), NEW a \in 1..Len(q[i])
                  PROVE  \E k \in 1..Len(g) : g[k] = q[i][a]
      BY <2>6
    <3>1. CASE i \in 1..n
      <4>1. a \in 1..Len(rr[i]) /\ q[i][a] = rr[i][a]
        BY <2>4, <3>1
      <4>2. PICK k \in 1..Len(f) : f[k] = rr[i][a]
        BY <2>9, <3>1, <4>1
      <4>. QED
        BY <2>11, <4>1, <4>2
    <3>2. CASE i = n + 1
      <4>1. a \in 1..Len(e) /\ q[i][a] = e[a]
        BY <2>3, <3>2
      <4>. QED
        BY <2>12, <4>1
    <3>. QED
      BY <2>3, <3>1, <3>2
  <2>14. Apart(q)
    <3>. SUFFICES ASSUME NEW i \in 1..Len(q), NEW j \in 1..Len(q),
                         NEW a \in 1..Len(q[i]), NEW b \in 1..Len(q[j]), q[i][a] = q[j][b]
                  PROVE  i = j /\ a = b
      BY DEF Apart
    <3>1. /\ i \in 1..n \/ i = n + 1
          /\ j \in 1..n \/ j = n + 1
      BY <2>3
    <3>2. CASE i \in 1..n /\ j \in 1..n
      <4>1. a \in 1..Len(rr[i]) /\ b \in 1..Len(rr[j]) /\ rr[i][a] = rr[j][b]
        BY <2>4, <3>2
      <4>2. Apart(rr) /\ i \in 1..Len(rr) /\ j \in 1..Len(rr)
        BY <2>9, <3>2 DEF n
      <4>. QED
        BY ONLY <4>1, <4>2, Zenon DEF Apart
    <3>3. CASE i = n + 1 /\ j = n + 1
      <4>1. a \in 1..Len(e) /\ b \in 1..Len(e) /\ e[a] = e[b] /\ DOMAIN e = 1..Len(e)
        BY <2>3, <3>3
      <4>. QED
        BY <2>8, <3>3, <4>1 DEF IsInjective
    <3>4. CASE i \in 1..n /\ j = n + 1
      <4>1. a \in 1..Len(rr[i]) /\ b \in 1..Len(e) /\ rr[i][a] = e[b]
        BY <2>3, <2>4, <3>4
      <4>2. PICK k \in 1..Len(f) : f[k] = rr[i][a]
        BY <2>9, <3>4, <4>1
      <4>. QED
        BY <2>8, <4>1, <4>2
    <3>5. CASE i = n + 1 /\ j \in 1..n
      <4>1. b \in 1..Len(rr[j]) /\ a \in 1..Len(e) /\ rr[j][b] = e[a]
        BY <2>3, <2>4, <3>5
      <4>2. PICK k \in 1..Len(f) : f[k] = rr[j][b]
        BY <2>9, <3>5, <4>1
      <4>. QED
        BY <2>8, <4>1, <4>2
    <3>. QED
      BY <3>1, <3>2, <3>3, <3>4, <3>5
  <2>. QED
    BY <2>13, <2>14
<1>3. Seq(Seq(S)) \subseteq P
  <2>. HIDE DEF P
  <2>. QED
    BY <1>1, <1>2, SeqInduction
<1>. QED
  BY <1>3

LEMMA ApartInjective ==
    ASSUME NEW S, NEW ss, Apart(ss), NEW i \in 1..Len(ss), NEW s \in Seq(S), s = ss[i]
    PROVE  IsInjective(s)
<1>1. DOMAIN s = 1..Len(s)
  OBVIOUS
<1>2. \A a, b \in 1..Len(s) : s[a] = s[b] => a = b
  BY DEF Apart
<1>. QED
  BY <1>1, <1>2 DEF IsInjective

-----------------------------------------------------------------------------
(***************************************************************************)
(* SumFunctionOnSet.                                                       *)
(***************************************************************************)
Pick(s) == CHOOSE x \in s : TRUE

\* Its recursive function, on the sets of at most n elements and on all.
SumFrom(f, s, g) == IF s = {} THEN 0 ELSE f[Pick(s)] + g[s \ {Pick(s)}]
UpTo(S, n) == {s \in SUBSET S : Cardinality(s) <= n}
SumsUpTo(f, S, n, g) == g = [s \in UpTo(S, n) |-> SumFrom(f, s, g)]
Sums(f, S, g) == g = [s \in SUBSET S |-> SumFrom(f, s, g)]

LEMMA Picked ==
    ASSUME NEW S, IsFiniteSet(S), NEW s \in SUBSET S, s # {}
    PROVE  /\ Pick(s) \in s
           /\ s \ {Pick(s)} \in SUBSET S
           /\ Cardinality(s) \in Nat \ {0}
           /\ Cardinality(s \ {Pick(s)}) = Cardinality(s) - 1
<1>1. Pick(s) \in s
  BY DEF Pick
<1>2. IsFiniteSet(s)
  BY FS_Subset
<1>3. Cardinality(s) \in Nat /\ Cardinality(s) # 0
  BY <1>2, FS_CardinalityType, FS_EmptySet
<1>4. Cardinality(s \ {Pick(s)}) = Cardinality(s) - 1
  BY <1>1, <1>2, FS_RemoveElement
<1>. QED
  BY <1>1, <1>3, <1>4

LEMMA SubsetCard ==
    ASSUME NEW S, IsFiniteSet(S), NEW s \in SUBSET S
    PROVE  /\ Cardinality(s) \in Nat
           /\ Cardinality(s) = 0 <=> s = {}
           /\ Cardinality(s) <= Cardinality(S)
           /\ \A x \in s : Cardinality(s \ {x}) = Cardinality(s) - 1
<1>1. IsFiniteSet(s)
  BY FS_Subset
<1>. QED
  BY <1>1, FS_CardinalityType, FS_EmptySet, FS_Subset, FS_RemoveElement

LEMMA SumsExist ==
    ASSUME NEW f, NEW S, IsFiniteSet(S)
    PROVE  \E g : Sums(f, S, g)
<1>. DEFINE N == {n \in Nat : \E g : SumsUpTo(f, S, n, g)}
<1>1. 0 \in N
  <2>. DEFINE g == [s \in UpTo(S, 0) |-> 0]
              h == [s \in UpTo(S, 0) |-> SumFrom(f, s, g)]
  <2>1. ASSUME NEW s \in UpTo(S, 0) PROVE s = {}
    BY SubsetCard DEF UpTo
  <2>2. g = h
    BY <2>1 DEF SumFrom
  <2>3. SumsUpTo(f, S, 0, g)
    BY <2>2 DEF SumsUpTo
  <2>. HIDE DEF g
  <2>. QED
    BY <2>3
<1>2. ASSUME NEW n \in Nat, n \in N PROVE n + 1 \in N
  <2>1. PICK g : SumsUpTo(f, S, n, g)
    BY <1>2
  <2>. DEFINE h == [s \in UpTo(S, n + 1) |-> SumFrom(f, s, g)]
              k == [s \in UpTo(S, n + 1) |-> SumFrom(f, s, h)]
  <2>2. ASSUME NEW s \in UpTo(S, n + 1) PROVE SumFrom(f, s, g) = SumFrom(f, s, h)
    <3>1. CASE s = {}
      BY <3>1 DEF SumFrom
    <3>2. CASE s # {}
      <4>. DEFINE r == s \ {Pick(s)}
      <4>1. r \in SUBSET S /\ Cardinality(r) = Cardinality(s) - 1
        BY <3>2, Picked DEF UpTo
      <4>2. Cardinality(s) \in Nat /\ Cardinality(s) <= n + 1
        BY SubsetCard DEF UpTo
      <4>3. r \in UpTo(S, n) /\ r \in UpTo(S, n + 1)
        BY <4>1, <4>2 DEF UpTo
      <4>4. g[r] = SumFrom(f, r, g)
        BY <2>1, <4>3 DEF SumsUpTo
      <4>5. h[r] = SumFrom(f, r, g)
        BY <4>3
      <4>. QED
        BY <4>4, <4>5 DEF SumFrom
    <3>. QED
      BY <3>1, <3>2
  <2>3. h = k
    <3>1. \A s \in UpTo(S, n + 1) : h[s] = SumFrom(f, s, g) /\ k[s] = SumFrom(f, s, h)
      OBVIOUS
    <3>2. \A s \in UpTo(S, n + 1) : h[s] = k[s]
      BY <2>2, <3>1
    <3>3. /\ h = [s \in UpTo(S, n + 1) |-> h[s]]
          /\ k = [s \in UpTo(S, n + 1) |-> k[s]]
      OBVIOUS
    <3>. HIDE DEF h, k
    <3>. QED
      BY <3>2, <3>3
  <2>4. SumsUpTo(f, S, n + 1, h)
    BY <2>3 DEF SumsUpTo
  <2>. HIDE DEF h
  <2>. QED
    BY <2>4
<1>3. Nat \subseteq N
  <2>. HIDE DEF N
  <2>. QED
    BY <1>1, <1>2, Induction
<1>4. Cardinality(S) \in N
  BY <1>3, FS_CardinalityType
<1>5. UpTo(S, Cardinality(S)) = SUBSET S
  BY SubsetCard DEF UpTo
<1>. QED
  BY <1>4, <1>5 DEF SumsUpTo, Sums

LEMMA SumsAt ==
    ASSUME NEW f, NEW S, NEW g, Sums(f, S, g), NEW s \in SUBSET S
    PROVE  g[s] = SumFrom(f, s, g)
  BY DEF Sums

\* A finite set shrinks to the empty one: induction over the subsets of a set.
LEMMA SubsetInduction ==
    ASSUME NEW S, IsFiniteSet(S), NEW P \in SUBSET (SUBSET S),
           \A s \in SUBSET S : (\A x \in s : s \ {x} \in P) => s \in P
    PROVE  P = SUBSET S
<1>. DEFINE N == {n \in Nat : \A s \in SUBSET S : Cardinality(s) = n => s \in P}
<1>1. 0 \in N
  BY SubsetCard
<1>2. ASSUME NEW n \in Nat, n \in N PROVE n + 1 \in N
  <2>. SUFFICES ASSUME NEW s \in SUBSET S, Cardinality(s) = n + 1 PROVE s \in P
    OBVIOUS
  <2>1. ASSUME NEW x \in s PROVE s \ {x} \in P
    <3>1. s \ {x} \in SUBSET S /\ Cardinality(s \ {x}) = (n + 1) - 1
      BY SubsetCard
    <3>2. Cardinality(s \ {x}) = n
      BY <3>1
    <3>. QED
      BY <1>2, <3>1, <3>2
  <2>. QED
    BY <2>1
<1>3. Nat \subseteq N
  <2>. HIDE DEF N
  <2>. QED
    BY <1>1, <1>2, Induction
<1>4. ASSUME NEW s \in SUBSET S PROVE s \in P
  <2>1. Cardinality(s) \in N
    BY <1>3, SubsetCard
  <2>. QED
    BY <2>1
<1>. QED
  BY <1>4

\* Two functions on the subsets of a finite set that agree on a set when they
\* do on what is left of it without an element agree on the whole set.
LEMMA SubsetsAgree ==
    ASSUME NEW S, IsFiniteSet(S), NEW k, NEW g,
           \A s \in SUBSET S : (\A x \in s : k[s \ {x}] = g[s \ {x}]) => k[s] = g[s]
    PROVE  k[S] = g[S]
<1>. DEFINE P == {s \in SUBSET S : k[s] = g[s]}
<1>1. P \in SUBSET (SUBSET S)
  OBVIOUS
<1>2. ASSUME NEW s \in SUBSET S, \A x \in s : s \ {x} \in P PROVE s \in P
  BY <1>2
<1>3. P = SUBSET S
  <2>. HIDE DEF P
  <2>. QED
    BY <1>1, <1>2, SubsetInduction
<1>. QED
  BY <1>3

\* The order in which the elements are picked does not matter.
Splits(f, S, g) ==
    \A s \in SUBSET S : /\ g[s] \in Int
                        /\ \A x \in s : g[s] = f[x] + g[s \ {x}]

LEMMA SumsSplit ==
    ASSUME NEW S, IsFiniteSet(S), NEW f \in [S -> Int], NEW g, Sums(f, S, g)
    PROVE  Splits(f, S, g)
<1>. DEFINE P == {s \in SUBSET S : \A r \in SUBSET s :
                    /\ g[r] \in Int
                    /\ \A x \in r : g[r] = f[x] + g[r \ {x}]}
<1>1. ASSUME NEW s \in SUBSET S, \A x \in s : s \ {x} \in P
      PROVE  s \in P
  <2>1. ASSUME NEW r \in SUBSET s, r # s
        PROVE  g[r] \in Int /\ \A x \in r : g[r] = f[x] + g[r \ {x}]
    <3>1. PICK x \in s : x \notin r
      BY <2>1
    <3>2. s \ {x} \in P /\ r \in SUBSET (s \ {x})
      BY <1>1, <3>1
    <3>. QED
      BY <3>2
  <2>2. CASE s = {}
    <3>1. g[s] = 0
      BY <2>2, SumsAt DEF SumFrom
    <3>2. ASSUME NEW r \in SUBSET s
          PROVE  g[r] \in Int /\ \A x \in r : g[r] = f[x] + g[r \ {x}]
      <4>1. r = {}
        BY <2>2
      <4>. QED
        BY <2>2, <3>1, <4>1
    <3>. QED
      BY <3>2
  <2>3. CASE s # {}
    <3>. DEFINE y == Pick(s)
    <3>1. y \in s
      BY <2>3, Picked
    <3>2. g[s] = f[y] + g[s \ {y}]
      BY <2>3, SumsAt DEF SumFrom
    <3>. HIDE DEF y
    <3>3. s \ {y} \in SUBSET s /\ s \ {y} # s /\ f[y] \in Int
      BY <3>1
    <3>4. g[s \ {y}] \in Int /\ \A x \in s \ {y} : g[s \ {y}] = f[x] + g[(s \ {y}) \ {x}]
      BY <2>1, <3>3
    <3>5. ASSUME NEW x \in s PROVE g[s] = f[x] + g[s \ {x}]
      <4>1. CASE x = y
        BY <3>2, <4>1
      <4>2. CASE x # y
        <5>1. s \ {x} \in SUBSET s /\ s \ {x} # s /\ y \in s \ {x}
          BY <3>1, <4>2
        <5>2. g[s \ {x}] = f[y] + g[(s \ {x}) \ {y}]
          BY <2>1, <5>1
        <5>. DEFINE rest == (s \ {x}) \ {y}
        <5>3. (s \ {y}) \ {x} = rest /\ rest \in SUBSET s /\ rest # s
          OBVIOUS
        <5>4. g[rest] \in Int
          BY <2>1, <5>3
        <5>5. g[s \ {y}] = f[x] + g[rest]
          BY <3>4, <4>2, <5>3
        <5>6. f[x] \in Int
          OBVIOUS
        <5>. HIDE DEF rest
        <5>. QED
          BY <3>2, <3>3, <5>2, <5>4, <5>5, <5>6 DEF rest
      <4>. QED
        BY <4>1, <4>2
    <3>6. g[s] \in Int
      BY <3>2, <3>3, <3>4
    <3>. QED
      BY <2>1, <3>5, <3>6
  <2>. QED
    BY <2>2, <2>3
<1>2. P = SUBSET S
  <2>1. P \in SUBSET (SUBSET S)
    OBVIOUS
  <2>. HIDE DEF P
  <2>. QED
    BY <1>1, <2>1, SubsetInduction
<1>. QED
  BY <1>2 DEF Splits

\* A sum looks at no other element.
LEMMA SumsSame ==
    ASSUME NEW S, NEW R, IsFiniteSet(S), NEW f, NEW h, NEW g, NEW k,
           Sums(f, S, g), Sums(h, R, k),
           NEW s \in SUBSET S, s \in SUBSET R, \A x \in s : f[x] = h[x]
    PROVE  g[s] = k[s]
<1>. DEFINE P == {r \in SUBSET s : g[r] = k[r]}
<1>1. IsFiniteSet(s)
  BY FS_Subset
<1>2. ASSUME NEW r \in SUBSET s, \A x \in r : r \ {x} \in P
      PROVE  r \in P
  <2>1. r \in SUBSET S /\ r \in SUBSET R
    OBVIOUS
  <2>2. g[r] = SumFrom(f, r, g) /\ k[r] = SumFrom(h, r, k)
    BY <2>1, SumsAt
  <2>3. CASE r = {}
    BY <2>2, <2>3 DEF SumFrom
  <2>4. CASE r # {}
    <3>1. Pick(r) \in r
      BY <2>4 DEF Pick
    <3>2. g[r \ {Pick(r)}] = k[r \ {Pick(r)}] /\ f[Pick(r)] = h[Pick(r)]
      BY <1>2, <3>1
    <3>. QED
      BY <2>2, <2>4, <3>2 DEF SumFrom
  <2>. QED
    BY <2>3, <2>4
<1>3. P = SUBSET s
  <2>1. P \in SUBSET (SUBSET s)
    OBVIOUS
  <2>. HIDE DEF P
  <2>. QED
    BY <1>1, <1>2, <2>1, SubsetInduction
<1>. QED
  BY <1>3

LEMMA SumIsSums ==
    ASSUME NEW f, NEW S, IsFiniteSet(S)
    PROVE  \E g : Sums(f, S, g) /\ SumFunctionOnSet(f, S) = g[S]
<1>. DEFINE g == CHOOSE g : Sums(f, S, g)
<1>1. Sums(f, S, g)
  BY SumsExist
<1>2. SumFunctionOnSet(f, S) = g[S]
  BY DEF SumFunctionOnSet, FoldFunctionOnSet, MapThenFoldSet, Sums, SumFrom, Pick
<1>. HIDE DEF g
<1>. QED
  BY <1>1, <1>2

\* One element taken out, the rest changed at will outside the sum.
LEMMA SumRemove ==
    ASSUME NEW S, IsFiniteSet(S), NEW f \in [S -> Int], NEW x \in S,
           NEW h, \A y \in S \ {x} : h[y] = f[y]
    PROVE  /\ SumFunctionOnSet(f, S) = f[x] + SumFunctionOnSet(h, S \ {x})
           /\ SumFunctionOnSet(f, S) \in Int
           /\ SumFunctionOnSet(h, S \ {x}) \in Int
<1>1. IsFiniteSet(S \ {x})
  BY FS_Subset
<1>2. PICK g : Sums(f, S, g) /\ SumFunctionOnSet(f, S) = g[S]
  BY SumIsSums
<1>3. PICK k : Sums(h, S \ {x}, k) /\ SumFunctionOnSet(h, S \ {x}) = k[S \ {x}]
  BY <1>1, SumIsSums
<1>4. g[S \ {x}] = k[S \ {x}]
  <2>1. S \ {x} \in SUBSET S /\ S \ {x} \in SUBSET (S \ {x})
    OBVIOUS
  <2>. QED
    BY <1>2, <1>3, <2>1, SumsSame
<1>5. g[S] = f[x] + g[S \ {x}] /\ g[S] \in Int /\ g[S \ {x}] \in Int
  <2>1. Splits(f, S, g)
    BY <1>2, SumsSplit
  <2>2. S \in SUBSET S /\ S \ {x} \in SUBSET S
    OBVIOUS
  <2>. QED
    BY <2>1, <2>2 DEF Splits
<1>. QED
  BY <1>2, <1>3, <1>4, <1>5

LEMMA SumType ==
    ASSUME NEW S, IsFiniteSet(S), NEW f \in [S -> Int]
    PROVE  SumFunctionOnSet(f, S) \in Int
<1>1. PICK g : Sums(f, S, g) /\ SumFunctionOnSet(f, S) = g[S]
  BY SumIsSums
<1>2. g[S] \in Int
  BY <1>1, SumsSplit DEF Splits
<1>. QED
  BY <1>1, <1>2

LEMMA SumChange ==
    ASSUME NEW S, IsFiniteSet(S), NEW f \in [S -> Int], NEW h \in [S -> Int],
           NEW x \in S, \A y \in S \ {x} : h[y] = f[y]
    PROVE  SumFunctionOnSet(h, S) = SumFunctionOnSet(f, S) + h[x] - f[x]
<1>1. /\ SumFunctionOnSet(f, S) = f[x] + SumFunctionOnSet(h, S \ {x})
      /\ SumFunctionOnSet(h, S \ {x}) \in Int
  BY SumRemove
<1>2. SumFunctionOnSet(h, S) = h[x] + SumFunctionOnSet(h, S \ {x})
  BY SumRemove
<1>3. f[x] \in Int /\ h[x] \in Int
  OBVIOUS
<1>. QED
  BY <1>1, <1>2, <1>3

LEMMA SumAtMost ==
    ASSUME NEW S, IsFiniteSet(S), NEW lo \in [S -> Int], NEW hi \in [S -> Int],
           \A x \in S : lo[x] <= hi[x]
    PROVE  SumFunctionOnSet(lo, S) <= SumFunctionOnSet(hi, S)
<1>1. PICK p : Sums(lo, S, p) /\ SumFunctionOnSet(lo, S) = p[S]
  BY SumIsSums
<1>2. PICK q : Sums(hi, S, q) /\ SumFunctionOnSet(hi, S) = q[S]
  BY SumIsSums
<1>3. Splits(lo, S, p)
  BY <1>1, SumsSplit
<1>4. Splits(hi, S, q)
  BY <1>2, SumsSplit
<1>. DEFINE P == {s \in SUBSET S : p[s] <= q[s]}
<1>5. ASSUME NEW s \in SUBSET S, \A x \in s : s \ {x} \in P PROVE s \in P
  <2>1. CASE s = {}
    <3>1. p[s] = 0 /\ q[s] = 0
      BY <1>1, <1>2, <2>1, SumsAt DEF SumFrom
    <3>. QED
      BY <3>1
  <2>2. CASE s # {}
    <3>1. PICK x \in s : TRUE
      BY <2>2
    <3>2. s \ {x} \in SUBSET S /\ s \in SUBSET S
      OBVIOUS
    <3>3. /\ p[s] = lo[x] + p[s \ {x}] /\ p[s \ {x}] \in Int
          /\ q[s] = hi[x] + q[s \ {x}] /\ q[s \ {x}] \in Int
      <4>. HIDE DEF P
      <4>. QED
        BY <1>3, <1>4, <3>2 DEF Splits
    <3>4. p[s \ {x}] <= q[s \ {x}] /\ lo[x] <= hi[x] /\ lo[x] \in Int /\ hi[x] \in Int
      BY <1>5
    <3>5. p[s] <= q[s]
      BY <3>2, <3>3, <3>4
    <3>. QED
      BY <3>5
  <2>. QED
    BY <2>1, <2>2
<1>6. P = SUBSET S
  <2>1. P \in SUBSET (SUBSET S)
    OBVIOUS
  <2>. HIDE DEF P
  <2>. QED
    BY <1>5, <2>1, SubsetInduction
<1>7. p[S] <= q[S]
  BY <1>6
<1>. QED
  BY <1>1, <1>2, <1>7

LEMMA SumZero ==
    ASSUME NEW S, IsFiniteSet(S), NEW f \in [S -> Int], \A x \in S : f[x] = 0
    PROVE  SumFunctionOnSet(f, S) = 0
<1>1. PICK g : Sums(f, S, g) /\ SumFunctionOnSet(f, S) = g[S]
  BY SumIsSums
<1>5. Splits(f, S, g)
  BY <1>1, SumsSplit
<1>. DEFINE P == {s \in SUBSET S : g[s] = 0}
<1>2. ASSUME NEW s \in SUBSET S, \A x \in s : s \ {x} \in P PROVE s \in P
  <2>1. CASE s = {}
    BY <1>1, <2>1, SumsAt DEF SumFrom
  <2>2. CASE s # {}
    <3>1. PICK x \in s : TRUE
      BY <2>2
    <3>2. g[s] = f[x] + g[s \ {x}] /\ g[s \ {x}] = 0
      BY <1>2, <1>5 DEF Splits
    <3>. QED
      BY <3>2
  <2>. QED
    BY <2>1, <2>2
<1>3. P = SUBSET S
  <2>1. P \in SUBSET (SUBSET S)
    OBVIOUS
  <2>. HIDE DEF P
  <2>. QED
    BY <1>2, <2>1, SubsetInduction
<1>4. g[S] = 0
  BY <1>3
<1>. QED
  BY <1>1, <1>4
\* A set of numbers below a bound has a greatest one, which is its Max.
LEMMA MaxOf ==
    ASSUME NEW n \in Nat, NEW s \in SUBSET (1..n), s # {}
    PROVE  Max(s) \in s /\ \A x \in s : x <= Max(s)
<1>. DEFINE T == {n - x : x \in s}
<1>1. T \in SUBSET (0..n) /\ T # {}
  <2>1. \A x \in s : n - x \in 0..n
    OBVIOUS
  <2>2. T \in SUBSET (0..n)
    BY <2>1
  <2>3. PICK x \in s : TRUE
    OBVIOUS
  <2>4. n - x \in T
    BY <2>3
  <2>. QED
    BY <2>2, <2>4
<1>2. PICK m \in T : \A k \in T : m <= k
  <2>. HIDE DEF T
  <2>. QED
    BY <1>1, LeastElement
<1>3. PICK x \in s : m = n - x
  BY <1>2
<1>4. ASSUME NEW y \in s PROVE x >= y
  <2>1. n - y \in T
    OBVIOUS
  <2>2. m <= n - y
    BY <1>2, <2>1
  <2>. QED
    BY <1>3, <2>2
<1>5. \E z \in s : \A y \in s : z >= y
  BY <1>4
<1>6. Max(s) \in s /\ \A y \in s : Max(s) >= y
  BY <1>5 DEF Max
<1>. QED
  BY <1>6
=============================================================================
