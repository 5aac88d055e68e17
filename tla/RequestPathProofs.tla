-------------------------- MODULE RequestPathProofs ---------------------------
(***************************************************************************)
(* Proof that a path which the prefix of a rule accepts is held by that    *)
(* prefix, for every path and prefix, any table of escapes and whatever    *)
(* the server makes of them.                                               *)
(*                                                                         *)
(* Decoding and splitting both go piece by piece: what they make of a path *)
(* is what they make of its parts, put together. A dot segment that any    *)
(* server finds therefore stands in the decoded path between separators,   *)
(* where may_escape_prefix finds it too; and a path without dot segments   *)
(* leads where its segments say, below the place of what it starts with.   *)
(***************************************************************************)
EXTENDS RequestPath, SequenceTheorems, WellFoundedInduction, TLAPS

-----------------------------------------------------------------------------
\* Recursive functions

\* A set of numbers has a least one.
LEMMA Least ==
  ASSUME NEW T \in SUBSET Nat, T # {}
  PROVE  \E x \in T : \A y \in T : x <= y
<1> DEFINE R == OpToRel(<, Nat)
<1>1. PICK x \in T : \A y \in T : ~(<<y, x>> \in R)
  <2>1. IsWellFoundedOn(R, Nat)
    BY NatLessThanWellFounded
  <2> HIDE DEF R
  <2>2. QED
    BY <2>1, WFMin
<1>2. ASSUME NEW y \in T PROVE x <= y
  <2>1. <<y, x>> \in Nat \X Nat /\ <<y, x>>[1] = y /\ <<y, x>>[2] = x
    OBVIOUS
  <2>2. ~(y < x)
    BY <1>1, <2>1 DEF OpToRel
  <2>3. QED
    BY <2>2
<1>3. QED
  BY <1>2

\* A finite set of numbers has a greatest one.
LEMMA Greatest ==
  ASSUME NEW N \in Nat, NEW T \in SUBSET (0 .. N), T # {}
  PROVE  /\ Max(T) \in T
         /\ \A y \in T : y <= Max(T)
<1>1. \E x \in T : \A y \in T : x >= y
  <2> DEFINE U == {n \in Nat : \A y \in T : y <= n}
  <2>1. N \in U
    OBVIOUS
  <2>2. PICK x \in U : \A n \in U : x <= n
    BY <2>1, Least
  <2>3. x \in T
    <3>1. SUFFICES ASSUME x \notin T PROVE FALSE
      OBVIOUS
    <3>2. PICK y \in T : TRUE
      OBVIOUS
    <3>3. x \in Nat /\ y \in Nat /\ y <= x /\ y # x
      BY <2>2, <3>1
    <3>4. x - 1 \in U
      BY <2>2, <3>1, <3>3
    <3>5. QED
      BY <2>2, <3>3, <3>4
  <2>4. QED
    BY <2>2, <2>3
<1>2. QED
  BY <1>1 DEF Max

\* A function may be given by its first value and the step to the next.
Recursive(g, k, N, V, first, step) ==
  /\ g \in [k .. N -> V]
  /\ \A i \in k .. N : g[i] = IF i = k THEN first ELSE step[<<i, g[i - 1]>>]

LEMMA Recursion ==
  ASSUME NEW V, NEW k \in Nat, NEW N \in Nat, NEW first \in V, NEW step \in [Nat \X V -> V]
  PROVE  \E g : Recursive(g, k, N, V, first, step)
<1> DEFINE Is(n, g) == Recursive(g, k, n, V, first, step)
           Bad == {n \in Nat : ~\E g : Is(n, g)}
<1> HIDE DEF Is
<1>1. SUFFICES ASSUME Bad # {} PROVE FALSE
  BY DEF Is
<1> USE DEF Recursive
<1>2. PICK n \in Bad : \A m \in Bad : n <= m
  BY <1>1, Least
<1>3. CASE n < k
  <2>1. Is(n, [i \in k .. n |-> first])
    BY <1>2, <1>3 DEF Is
  <2>2. QED
    BY <1>2, <2>1
<1>4. CASE n = k
  <2>1. Is(n, [i \in k .. n |-> first])
    BY <1>2, <1>4 DEF Is
  <2>2. QED
    BY <1>2, <2>1
<1>5. CASE n > k
  <2>1. n - 1 \in Nat /\ n - 1 \notin Bad
    BY <1>2, <1>5
  <2>2. PICK g : Is(n - 1, g)
    BY <2>1
  <2> DEFINE h == [i \in k .. n |-> IF i = n THEN step[<<n, g[n - 1]>>] ELSE g[i]]
  <2>3. \A i \in k .. n : i # n => i \in k .. n - 1
    BY <1>2
  <2>4. g[n - 1] \in V /\ <<n, g[n - 1]>> \in Nat \X V
    BY <1>2, <1>5, <2>2 DEF Is
  <2>5. step[<<n, g[n - 1]>>] \in V
    BY <2>4
  <2>6. h \in [k .. n -> V]
    BY <2>2, <2>3, <2>5 DEF Is
  <2>7. ASSUME NEW i \in k .. n
        PROVE  h[i] = IF i = k THEN first ELSE step[<<i, h[i - 1]>>]
    <3>1. CASE i = n
      <4>1. n - 1 \in k .. n /\ n - 1 # n /\ n # k
        BY <1>2, <1>5
      <4>2. QED
        BY <3>1, <4>1
    <3>2. CASE i # n
      <4>1. i \in k .. n - 1 /\ h[i] = g[i]
        BY <2>3, <3>2
      <4>2. i # k => i - 1 \in k .. n /\ i - 1 # n /\ h[i - 1] = g[i - 1]
        BY <1>2, <3>2
      <4>3. QED
        BY <2>2, <4>1, <4>2 DEF Is
    <3>3. QED
      BY <3>1, <3>2
  <2>8. Is(n, h)
    BY <2>6, <2>7 DEF Is
  <2>9. QED
    BY <1>2, <2>8
<1>6. QED
  BY <1>1, <1>2, <1>3, <1>4, <1>5

\* And it is the only one.
GoAlike(g, h, k, N) ==
  /\ g[k] = h[k]
  /\ \A i \in k .. N : i # k /\ g[i - 1] = h[i - 1] => g[i] = h[i]

LEMMA OneFunction ==
  ASSUME NEW k \in Nat, NEW N \in Nat, k <= N, NEW g, NEW h, GoAlike(g, h, k, N)
  PROVE  g[N] = h[N]
<1> DEFINE Bad == {n \in k .. N : g[n] # h[n]}
<1>1. SUFFICES ASSUME Bad # {} PROVE FALSE
  OBVIOUS
<1>2. PICK n \in Bad : \A i \in Bad : n <= i
  <2>1. Bad \in SUBSET Nat
    OBVIOUS
  <2> HIDE DEF Bad
  <2>2. QED
    BY <1>1, <2>1, Least
<1>3. n # k /\ n \in k .. N
  BY <1>2 DEF GoAlike
<1>4. n - 1 \in k .. N /\ n - 1 \notin Bad
  BY <1>2, <1>3
<1>5. QED
  BY <1>2, <1>3, <1>4 DEF GoAlike

-----------------------------------------------------------------------------
\* FlattenSeq

LEMMA Appended ==
  ASSUME NEW X, NEW ss \in Seq(X), NEW s \in X
  PROVE  /\ Append(ss, s) \in Seq(X) /\ Append(ss, s) # <<>>
         /\ Len(Append(ss, s)) = Len(ss) + 1 /\ Len(ss) \in Nat
         /\ \A i \in 1 .. Len(ss) : Append(ss, s)[i] = ss[i]
         /\ Append(ss, s)[Len(ss) + 1] = s
  BY AppendProperties, LenProperties

LEMMA AppendInside ==
  ASSUME NEW X, NEW ss \in Seq(X), NEW tt \in Seq(X), NEW s \in X
  PROVE  ss \o Append(tt, s) = Append(ss \o tt, s)
<1>1. /\ Append(tt, s) = tt \o <<s>> /\ <<s>> \in Seq(X) /\ ss \o tt \in Seq(X)
  BY AppendIsConcat, ConcatProperties
<1>2. Append(ss \o tt, s) = (ss \o tt) \o <<s>>
  BY <1>1, AppendIsConcat
<1>3. QED
  BY <1>1, <1>2, ConcatAssociative

LEMMA FlattenNone == FlattenSeq(<<>>) = <<>>
  BY DEF FlattenSeq

\* What comes of it, part after part.
Flattens(g, ss, X) ==
  /\ g \in [1 .. Len(ss) -> Seq(X)]
  /\ g[1] = ss[1]
  /\ \A i \in 2 .. Len(ss) : g[i] = g[i - 1] \o ss[i]
  /\ FlattenSeq(ss) = g[Len(ss)]

LEMMA Flattening ==
  ASSUME NEW X, NEW ss \in Seq(Seq(X)), ss # <<>>
  PROVE  \E g : Flattens(g, ss, X)
<1> DEFINE N == Len(ss)
           V == Seq(X)
           step == [x \in Nat \X V |-> IF x[1] \in 1 .. N THEN x[2] \o ss[x[1]] ELSE x[2]]
           Body(g) == [i \in 1 .. N |-> IF i = 1 THEN ss[i] ELSE g[i - 1] \o ss[i]]
           g == CHOOSE g : g = Body(g)
<1>1. N \in Nat \ {0} /\ \A i \in 1 .. N : ss[i] \in V
  BY EmptySeq, ElementOfSeq
<1>2. \A u, v \in V : u \o v \in V
  BY ConcatProperties
<1>3. FlattenSeq(ss) = g[N]
  BY <1>1 DEF FlattenSeq
<1> HIDE DEF N, V
<1>4. step \in [Nat \X V -> V]
  BY <1>1, <1>2
<1>5. \A i \in 1 .. N, v \in V : step[<<i, v>>] = v \o ss[i]
  <2>1. \A i \in 1 .. N : i \in Nat
    BY <1>1
  <2>2. QED
    BY <2>1
<1>6. PICK h \in [1 .. N -> V] :
        \A i \in 1 .. N : h[i] = IF i = 1 THEN ss[1] ELSE step[<<i, h[i - 1]>>]
  <2>1. ss[1] \in V /\ 1 \in Nat /\ N \in Nat
    BY <1>1
  <2> HIDE DEF step
  <2>2. PICK h : Recursive(h, 1, N, V, ss[1], step)
    BY <1>4, <2>1, Recursion
  <2>3. QED
    BY <2>2 DEF Recursive
<1> HIDE DEF step
<1>7. \A i \in 1 .. N : h[i] = IF i = 1 THEN ss[i] ELSE h[i - 1] \o ss[i]
  <2>1. \A i \in 1 .. N : i # 1 => i - 1 \in 1 .. N
    BY <1>1
  <2>2. QED
    BY <1>5, <1>6, <2>1
<1>8. h = Body(h)
  BY <1>6, <1>7
<1>9. g = Body(g)
  BY <1>8
<1> HIDE DEF g
<1>10. \A i \in 1 .. N : g[i] = IF i = 1 THEN ss[i] ELSE g[i - 1] \o ss[i]
  BY <1>9
<1>11. g[N] = h[N]
  <2>1. 1 \in Nat /\ N \in Nat /\ 1 <= N
    BY <1>1
  <2>2. GoAlike(g, h, 1, N)
    <3>1. 1 \in 1 .. N
      BY <2>1
    <3>2. QED
      BY <1>7, <1>10, <3>1, ZenonT(60) DEF GoAlike
  <2>3. \A k \in Nat, m \in Nat : k <= m /\ GoAlike(g, h, k, m) => g[m] = h[m]
    BY OneFunction
  <2>4. QED
    BY <2>1, <2>2, <2>3
<1>12. h[1] = ss[1] /\ \A i \in 2 .. N : h[i] = h[i - 1] \o ss[i]
  <2>1. 1 \in 1 .. N /\ \A i \in 2 .. N : i \in 1 .. N /\ i # 1
    BY <1>1
  <2>2. QED
    BY <1>7, <2>1
<1>13. QED
  BY <1>3, <1>6, <1>11, <1>12 DEF Flattens, N, V

LEMMA FlattenType ==
  ASSUME NEW X, NEW ss \in Seq(Seq(X))
  PROVE  FlattenSeq(ss) \in Seq(X)
<1>1. CASE ss = <<>>
  BY <1>1, FlattenNone, EmptySeq
<1>2. CASE ss # <<>>
  <2>1. Len(ss) \in 1 .. Len(ss)
    BY <1>2, EmptySeq
  <2>2. PICK g : Flattens(g, ss, X)
    BY <1>2, Flattening
  <2>3. QED
    BY <2>1, <2>2 DEF Flattens
<1>3. QED
  BY <1>1, <1>2

LEMMA FlattenAppend ==
  ASSUME NEW X, NEW ss \in Seq(Seq(X)), NEW s \in Seq(X)
  PROVE  FlattenSeq(Append(ss, s)) = FlattenSeq(ss) \o s
<1> DEFINE tt == Append(ss, s)
           n == Len(ss)
<1>1. /\ tt \in Seq(Seq(X)) /\ tt # <<>> /\ Len(tt) = n + 1 /\ n \in Nat
      /\ \A i \in 1 .. n : tt[i] = ss[i]
      /\ tt[n + 1] = s
  BY Appended
<1> HIDE DEF tt
<1>2. PICK h \in [1 .. n + 1 -> Seq(X)] :
        /\ h[1] = tt[1]
        /\ \A i \in 2 .. n + 1 : h[i] = h[i - 1] \o tt[i]
        /\ FlattenSeq(tt) = h[n + 1]
  <2>1. PICK h : Flattens(h, tt, X)
    BY <1>1, Flattening
  <2>2. QED
    BY <1>1, <2>1 DEF Flattens
<1>3. CASE ss = <<>>
  <2>1. n = 0 /\ FlattenSeq(tt) = s
    BY <1>1, <1>2, <1>3
  <2>2. QED
    BY <1>3, <2>1, FlattenNone, ConcatEmptySeq DEF tt
<1>4. CASE ss # <<>>
  <2>1. PICK g \in [1 .. n -> Seq(X)] :
          /\ g[1] = ss[1]
          /\ \A i \in 2 .. n : g[i] = g[i - 1] \o ss[i]
          /\ FlattenSeq(ss) = g[n]
    BY <1>4, Flattening DEF Flattens
  <2>2. n >= 1
    BY <1>1, <1>4, EmptySeq
  <2>3. g[1] = h[1]
    BY <1>1, <1>2, <2>1, <2>2
  <2>4. ASSUME NEW i \in 1 .. n, i # 1, g[i - 1] = h[i - 1]
        PROVE  g[i] = h[i]
    <3>1. i \in 2 .. n /\ i \in 2 .. n + 1 /\ tt[i] = ss[i]
      BY <1>1, <2>4
    <3>2. QED
      BY <1>2, <2>1, <2>4, <3>1
  <2>5. g[n] = h[n]
    <3>1. 1 \in Nat /\ n \in Nat /\ 1 <= n
      BY <1>1, <2>2
    <3>2. GoAlike(g, h, 1, n)
      BY <2>3, <2>4 DEF GoAlike
    <3>3. QED
      BY <3>1, <3>2, OneFunction
  <2>6. h[n + 1] = h[n] \o s
    <3>1. n + 1 \in 2 .. n + 1 /\ (n + 1) - 1 = n
      BY <1>1, <2>2
    <3>2. QED
      BY <1>1, <1>2, <3>1
  <2>7. QED
    BY <1>2, <2>1, <2>5, <2>6 DEF tt
<1>5. QED
  BY <1>3, <1>4

\* Every number holds what 0 holds and each hands on to the next.
LEMMA Counting ==
  ASSUME NEW N \in Nat, NEW Good \in SUBSET Nat, 0 \in Good,
         \A n \in Good : n < N => n + 1 \in Good
  PROVE  0 .. N \subseteq Good
<1> DEFINE Bad == (0 .. N) \ Good
<1>1. SUFFICES ASSUME Bad # {} PROVE FALSE
  OBVIOUS
<1>2. PICK n \in Bad : \A i \in Bad : n <= i
  <2>1. Bad \in SUBSET Nat
    OBVIOUS
  <2> HIDE DEF Bad
  <2>2. QED
    BY <1>1, <2>1, Least
<1>3. n - 1 \in 0 .. N /\ n - 1 \notin Bad
  BY <1>2
<1>4. QED
  BY <1>2, <1>3

\* Flattening goes part by part.
LEMMA FlattenConcat ==
  ASSUME NEW X, NEW ss \in Seq(Seq(X)), NEW tt \in Seq(Seq(X))
  PROVE  FlattenSeq(ss \o tt) = FlattenSeq(ss) \o FlattenSeq(tt)
<1> DEFINE N == Len(tt)
           T(n) == SubSeq(tt, 1, n)
           Good == {n \in 0 .. N : FlattenSeq(ss \o T(n)) = FlattenSeq(ss) \o FlattenSeq(T(n))}
<1>1. N \in Nat /\ T(N) = tt /\ T(0) = <<>>
  BY LenProperties, SubSeqFull, SubSeqEmpty
<1>2. 0 \in Good
  <2>1. ss \o <<>> = ss /\ FlattenSeq(ss) \o <<>> = FlattenSeq(ss)
    BY ConcatEmptySeq, FlattenType
  <2> HIDE DEF T
  <2>2. FlattenSeq(ss \o T(0)) = FlattenSeq(ss) \o FlattenSeq(T(0))
    BY <1>1, <2>1, FlattenNone
  <2>3. QED
    BY <1>1, <2>2
<1>3. ASSUME NEW n \in Good, n < N
      PROVE  n + 1 \in Good
  <2>1. n \in Nat /\ n + 1 \in 1 .. N /\ n + 1 \in 0 .. N
    BY <1>1, <1>3
  <2>2. tt[n + 1] \in Seq(X)
    BY <2>1, ElementOfSeq
  <2>3. T(n) \in Seq(Seq(X)) /\ T(n + 1) = Append(T(n), tt[n + 1])
    BY <1>1, <2>1
  <2> DEFINE t == tt[n + 1]
             u == T(n)
  <2>4. FlattenSeq(ss \o u) = FlattenSeq(ss) \o FlattenSeq(u)
    BY <1>3
  <2>5. ss \o Append(u, t) = Append(ss \o u, t)
    <3>1. u \in Seq(Seq(X)) /\ t \in Seq(X)
      BY <2>2, <2>3
    <3> HIDE DEF u, t
    <3>2. QED
      BY <3>1, AppendInside
  <2>6. /\ ss \o u \in Seq(Seq(X)) /\ u \in Seq(Seq(X)) /\ t \in Seq(X)
        /\ FlattenSeq(ss) \in Seq(X) /\ FlattenSeq(u) \in Seq(X)
    BY <2>2, <2>3, ConcatProperties, FlattenType
  <2> HIDE DEF t, u
  <2>7. FlattenSeq(Append(ss \o u, t)) = FlattenSeq(ss \o u) \o t
    BY <2>6, FlattenAppend
  <2>8. FlattenSeq(Append(u, t)) = FlattenSeq(u) \o t
    BY <2>6, FlattenAppend
  <2>9. (FlattenSeq(ss) \o FlattenSeq(u)) \o t = FlattenSeq(ss) \o (FlattenSeq(u) \o t)
    BY <2>6, ConcatAssociative, SMTT(60)
  <2>10. QED
    BY <2>1, <2>3, <2>4, <2>5, <2>7, <2>8, <2>9 DEF t, u
<1>4. N \in Good
  <2>1. Good \in SUBSET Nat /\ N \in 0 .. N
    BY <1>1
  <2> HIDE DEF Good
  <2>2. QED
    BY <1>1, <1>2, <1>3, <2>1, Counting
<1>5. QED
  BY <1>1, <1>4

\* What is in the parts is in the whole, and nothing else.
LEMMA FlattenRange ==
  ASSUME NEW X, NEW ss \in Seq(Seq(X)), NEW x
  PROVE  x \in Range(FlattenSeq(ss)) <=> \E i \in 1 .. Len(ss) : x \in Range(ss[i])
<1> DEFINE N == Len(ss)
           S(n) == SubSeq(ss, 1, n)
           Good == {n \in 0 .. N :
                      x \in Range(FlattenSeq(S(n))) <=> \E i \in 1 .. n : x \in Range(ss[i])}
<1>1. N \in Nat /\ S(N) = ss /\ S(0) = <<>>
  BY LenProperties, SubSeqFull, SubSeqEmpty
<1>2. 0 \in Good
  <2>1. x \notin Range(<<>>)
    BY DEF Range
  <2> HIDE DEF S
  <2>2. QED
    BY <1>1, <2>1, FlattenNone
<1>3. ASSUME NEW n \in Good, n < N
      PROVE  n + 1 \in Good
  <2>1. n \in Nat /\ n + 1 \in 1 .. N /\ n + 1 \in 0 .. N
    BY <1>1, <1>3
  <2>2. ss[n + 1] \in Seq(X)
    BY <2>1, ElementOfSeq
  <2>3. S(n) \in Seq(Seq(X)) /\ S(n + 1) = Append(S(n), ss[n + 1])
    BY <1>1, <2>1
  <2> DEFINE u == S(n)
  <2> HIDE DEF u
  <2>4. FlattenSeq(Append(u, ss[n + 1])) = FlattenSeq(u) \o ss[n + 1] /\ FlattenSeq(u) \in Seq(X)
    BY <2>2, <2>3, FlattenAppend, FlattenType DEF u
  <2>5. Range(FlattenSeq(S(n + 1))) = Range(FlattenSeq(S(n))) \cup Range(ss[n + 1])
    <3>1. Range(FlattenSeq(u) \o ss[n + 1]) = Range(FlattenSeq(u)) \cup Range(ss[n + 1])
      BY <2>2, <2>4, RangeConcatenation
    <3> HIDE DEF S
    <3>2. QED
      BY <2>3, <2>4, <3>1 DEF u
  <2>6. \A i \in 1 .. n + 1 : i \in 1 .. n \/ i = n + 1
    BY <2>1
  <2>7. \A i \in 1 .. n : i \in 1 .. n + 1
    BY <2>1
  <2>8. n + 1 \in 1 .. n + 1
    BY <2>1
  <2> HIDE DEF S
  <2>9. QED
    BY <1>3, <2>1, <2>5, <2>6, <2>7, <2>8
<1>4. N \in Good
  <2>1. Good \in SUBSET Nat /\ N \in 0 .. N
    BY <1>1
  <2> HIDE DEF Good
  <2>2. QED
    BY <1>1, <1>2, <1>3, <2>1, Counting
<1>5. QED
  BY <1>1, <1>4

-----------------------------------------------------------------------------
\* Splitting a path

\* A path that has c after a and before b.
Join(a, c, b) == Append(a, c) \o b

IsJoin(q, a, c, b) ==
  /\ Len(a) \in Nat /\ Len(b) \in Nat /\ Len(q) = Len(a) + 1 + Len(b)
  /\ \A i \in 1 .. Len(a) : q[i] = a[i]
  /\ q[Len(a) + 1] = c
  /\ \A i \in 1 .. Len(b) : q[Len(a) + 1 + i] = b[i]

LEMMA Joined ==
  ASSUME NEW X, NEW a \in Seq(X), NEW c \in X, NEW b \in Seq(X)
  PROVE  Join(a, c, b) \in Seq(X) /\ IsJoin(Join(a, c, b), a, c, b)
<1> DEFINE u == Append(a, c)
<1>1. /\ u \in Seq(X) /\ Len(u) = Len(a) + 1 /\ Len(a) \in Nat /\ Len(b) \in Nat
      /\ \A i \in 1 .. Len(a) : u[i] = a[i]
      /\ u[Len(a) + 1] = c
  BY Appended, LenProperties
<1> HIDE DEF u
<1>2. /\ u \o b \in Seq(X) /\ Len(u \o b) = Len(u) + Len(b)
      /\ \A i \in 1 .. Len(u) + Len(b) :
           (u \o b)[i] = IF i <= Len(u) THEN u[i] ELSE b[i - Len(u)]
  BY <1>1, ConcatProperties
<1>3. \A i \in 1 .. Len(a) : i \in 1 .. Len(u) + Len(b) /\ i <= Len(u)
  BY <1>1
<1>4. Len(a) + 1 \in 1 .. Len(u) + Len(b) /\ Len(a) + 1 <= Len(u)
  BY <1>1
<1>5. \A i \in 1 .. Len(b) : /\ Len(a) + 1 + i \in 1 .. Len(u) + Len(b)
                             /\ ~(Len(a) + 1 + i <= Len(u))
                             /\ (Len(a) + 1 + i) - Len(u) = i
  BY <1>1
<1>6. QED
  BY <1>1, <1>2, <1>3, <1>4, <1>5 DEF IsJoin, Join, u

LEMMA JoinedPath ==
  ASSUME NEW a \in Path, NEW c \in STRING, NEW b \in Path
  PROVE  Join(a, c, b) \in Path /\ IsJoin(Join(a, c, b), a, c, b)
  BY Joined DEF Path

\* No separator in it.
Free(s, separators) == \A i \in 1 .. Len(s) : s[i] \notin separators

\* It has ended, or a separator comes first.
Cut(s, separators) == s = <<>> \/ s[1] \in separators

\* The separator before position i of a path, 0 for none, is at m.
CutAt(p, separators, i, m) ==
  /\ m \in 0 .. i - 1
  /\ m = 0 \/ p[m] \in separators
  /\ \A j \in m + 1 .. i - 1 : p[j] \notin separators

LEMMA CutExists ==
  ASSUME NEW p \in Path, NEW S, NEW i \in 1 .. Len(p) + 1
  PROVE  \E m : CutAt(p, S, i, m)
<1> DEFINE T == {0} \cup {j \in 1 .. i - 1 : p[j] \in S}
<1>1. Len(p) \in Nat /\ i \in Nat /\ i - 1 \in Nat
  BY DEF Path
<1>2. T \in SUBSET (0 .. i - 1) /\ T # {}
  BY <1>1
<1>3. Max(T) \in T /\ \A j \in T : j <= Max(T)
  BY <1>1, <1>2, Greatest
<1>4. ASSUME NEW j \in Max(T) + 1 .. i - 1
      PROVE  p[j] \notin S
  <2>1. Max(T) \in 0 .. i - 1
    BY <1>2, <1>3
  <2> DEFINE m == Max(T)
  <2> HIDE DEF m
  <2>2. j \in 1 .. i - 1 /\ ~(j <= m)
    BY <1>1, <1>4, <2>1 DEF m
  <2>3. QED
    BY <1>3, <2>2 DEF m
<1>5. CutAt(p, S, i, Max(T))
  <2>1. Max(T) \in 0 .. i - 1
    BY <1>2, <1>3
  <2>2. Max(T) = 0 \/ p[Max(T)] \in S
    BY <1>3
  <2>3. QED
    BY <1>4, <2>1, <2>2 DEF CutAt
<1>6. QED
  BY <1>5

LEMMA CutIsMax ==
  ASSUME NEW p \in Path, NEW S, NEW i \in 1 .. Len(p) + 1, NEW m, CutAt(p, S, i, m)
  PROVE  SegmentBefore(p, S, i) = SubSeq(p, 1 + m, i - 1)
<1> DEFINE T == {0} \cup {j \in 1 .. i - 1 : p[j] \in S}
<1>1. Len(p) \in Nat /\ i \in Nat /\ i - 1 \in Nat /\ m \in 0 .. i - 1
  BY DEF Path, CutAt
<1>2. T \in SUBSET (0 .. i - 1) /\ T # {}
  BY <1>1
<1>3. Max(T) \in T /\ \A j \in T : j <= Max(T)
  BY <1>1, <1>2, Greatest
<1>4. m \in T
  BY <1>1 DEF CutAt
<1>5. Max(T) = m
  <2> DEFINE x == Max(T)
  <2>1. x \in 0 .. i - 1 /\ m <= x
    BY <1>2, <1>3, <1>4
  <2>2. x = 0 \/ p[x] \in S
    BY <1>3
  <2> HIDE DEF x
  <2>3. x # m => x \in m + 1 .. i - 1 /\ x # 0
    BY <1>1, <2>1
  <2>4. x = m
    BY <2>2, <2>3 DEF CutAt
  <2>5. QED
    BY <2>4 DEF x
<1>6. QED
  BY <1>5 DEF SegmentBefore

\* What lies between two positions of a path.
LEMMA Part ==
  ASSUME NEW p \in Path, NEW m \in Nat, NEW n \in Nat, m <= n, n <= Len(p)
  PROVE  /\ SubSeq(p, 1 + m, n) \in Path
         /\ Len(SubSeq(p, 1 + m, n)) = n - m
         /\ \A k \in 1 .. n - m : SubSeq(p, 1 + m, n)[k] = p[m + k]
<1>1. Len(p) \in Nat
  BY DEF Path
<1>2. 1 + m \in Int /\ n \in Int /\ \A k \in 1 + m .. n : p[k] \in STRING
  BY <1>1, ElementOfSeq DEF Path
<1>3. /\ SubSeq(p, 1 + m, n) \in Seq(STRING)
      /\ Len(SubSeq(p, 1 + m, n)) = IF 1 + m <= n THEN n - (1 + m) + 1 ELSE 0
      /\ \A k \in 1 .. n - (1 + m) + 1 : SubSeq(p, 1 + m, n)[k] = p[1 + m + k - 1]
  BY <1>2, SubSeqProperties
<1>4. n - (1 + m) + 1 = n - m /\ (IF 1 + m <= n THEN n - (1 + m) + 1 ELSE 0) = n - m
      /\ \A k \in 1 .. n - m : 1 + m + k - 1 = m + k
  OBVIOUS
<1>5. QED
  BY <1>3, <1>4 DEF Path

\* The segments are put together from what there is at every position.
Pieces(p, separators) ==
  [i \in 1 .. Len(p) + 1 |->
     IF i = Len(p) + 1 \/ p[i] \in separators THEN << SegmentBefore(p, separators, i) >> ELSE <<>>]

ArePieces(ss, p, separators) ==
  /\ ss \in Seq(Seq(Path)) /\ Len(ss) = Len(p) + 1 /\ Len(p) \in Nat
  /\ \A i \in 1 .. Len(p) + 1 :
       ss[i] = IF i = Len(p) + 1 \/ p[i] \in separators
                 THEN << SegmentBefore(p, separators, i) >> ELSE <<>>
  /\ Segments(p, separators) = FlattenSeq(ss)

LEMMA SegmentType ==
  ASSUME NEW p \in Path, NEW S, NEW i \in 1 .. Len(p) + 1
  PROVE  SegmentBefore(p, S, i) \in Path
<1>1. Len(p) \in Nat
  BY DEF Path
<1>2. PICK m : CutAt(p, S, i, m)
  BY CutExists
<1>3. SegmentBefore(p, S, i) = SubSeq(p, 1 + m, i - 1)
  BY <1>2, CutIsMax
<1>4. m \in Nat /\ i - 1 \in Nat /\ m <= i - 1 /\ i - 1 <= Len(p)
  BY <1>1, <1>2 DEF CutAt
<1>5. QED
  BY <1>3, <1>4, Part

LEMMA PiecesType ==
  ASSUME NEW p \in Path, NEW S
  PROVE  ArePieces(Pieces(p, S), p, S) /\ Segments(p, S) \in Seq(Path)
<1>1. Len(p) \in Nat /\ Len(p) + 1 \in Nat
  BY DEF Path
<1>2. \A i \in 1 .. Len(p) + 1 : SegmentBefore(p, S, i) \in Path
  BY SegmentType
<1>3. \A i \in 1 .. Len(p) + 1 : Pieces(p, S)[i] \in Seq(Path)
  BY <1>2 DEF Pieces
<1>4. Pieces(p, S) \in Seq(Seq(Path)) /\ Len(Pieces(p, S)) = Len(p) + 1
  BY <1>1, <1>3 DEF Pieces
<1>5. Segments(p, S) = FlattenSeq(Pieces(p, S))
  BY DEF Segments, Pieces
<1>6. QED
  <2>1. ArePieces(Pieces(p, S), p, S)
    BY <1>1, <1>4, <1>5 DEF ArePieces, Pieces
  <2>2. QED
    BY <1>4, <1>5, <2>1, FlattenType

\* A separator starts segments anew: before it they are those of what comes
\* before, after it those of what comes after.
SameBefore(q, a, separators) ==
  \A i \in 1 .. Len(a) + 1 : SegmentBefore(q, separators, i) = SegmentBefore(a, separators, i)

SameAfter(q, n, b, separators) ==
  \A i \in 1 .. Len(b) + 1 :
    SegmentBefore(q, separators, n + i) = SegmentBefore(b, separators, i)

LEMMA BeforeSeparator ==
  ASSUME NEW a \in Path, NEW c \in STRING, NEW b \in Path, NEW S, c \in S
  PROVE  SameBefore(Join(a, c, b), a, S)
<1> SUFFICES ASSUME NEW i \in 1 .. Len(a) + 1
             PROVE  SegmentBefore(Join(a, c, b), S, i) = SegmentBefore(a, S, i)
  BY DEF SameBefore
<1>1. PICK q \in Path :
        /\ q = Join(a, c, b)
        /\ Len(a) \in Nat /\ Len(b) \in Nat /\ Len(q) = Len(a) + 1 + Len(b)
        /\ \A j \in 1 .. Len(a) : q[j] = a[j]
  <2>1. PICK q \in Path : q = Join(a, c, b) /\ IsJoin(q, a, c, b)
    BY JoinedPath
  <2>2. QED
    BY <2>1 DEF IsJoin
<1>2. PICK m : CutAt(a, S, i, m)
  BY CutExists
<1>3. /\ i - 1 \in Nat /\ m \in Nat /\ m <= i - 1 /\ i - 1 <= Len(a) /\ i - 1 <= Len(q)
      /\ i \in 1 .. Len(q) + 1
  BY <1>1, <1>2 DEF CutAt
<1>4. CutAt(q, S, i, m)
  <2>1. m \in 0 .. i - 1 /\ (m # 0 => m \in 1 .. Len(a))
    BY <1>1, <1>3
  <2>2. \A j \in m + 1 .. i - 1 : j \in 1 .. Len(a)
    BY <1>1, <1>3
  <2>3. QED
    BY <1>1, <1>2, <2>1, <2>2 DEF CutAt
<1>5. SubSeq(q, 1 + m, i - 1) = SubSeq(a, 1 + m, i - 1)
  <2>1. /\ SubSeq(q, 1 + m, i - 1) \in Path /\ SubSeq(a, 1 + m, i - 1) \in Path
        /\ Len(SubSeq(q, 1 + m, i - 1)) = i - 1 - m /\ Len(SubSeq(a, 1 + m, i - 1)) = i - 1 - m
        /\ \A k \in 1 .. i - 1 - m : SubSeq(q, 1 + m, i - 1)[k] = q[m + k]
        /\ \A k \in 1 .. i - 1 - m : SubSeq(a, 1 + m, i - 1)[k] = a[m + k]
    BY <1>1, <1>3, Part, ZenonT(60)
  <2>2. \A k \in 1 .. i - 1 - m : m + k \in 1 .. Len(a)
    BY <1>1, <1>3
  <2>3. \A k \in 1 .. i - 1 - m : SubSeq(q, 1 + m, i - 1)[k] = SubSeq(a, 1 + m, i - 1)[k]
    BY <1>1, <2>1, <2>2
  <2>4. QED
    BY <2>1, <2>3, SeqEqual DEF Path
<1>6. QED
  <2>1. SegmentBefore(q, S, i) = SubSeq(q, 1 + m, i - 1)
    BY <1>3, <1>4, CutIsMax
  <2>2. SegmentBefore(a, S, i) = SubSeq(a, 1 + m, i - 1)
    BY <1>2, CutIsMax
  <2>3. QED
    BY <1>1, <1>5, <2>1, <2>2

LEMMA AfterSeparator ==
  ASSUME NEW a \in Path, NEW c \in STRING, NEW b \in Path, NEW S, c \in S
  PROVE  SameAfter(Join(a, c, b), Len(a) + 1, b, S)
<1> DEFINE n == Len(a) + 1
<1> SUFFICES ASSUME NEW i \in 1 .. Len(b) + 1
             PROVE  SegmentBefore(Join(a, c, b), S, n + i) = SegmentBefore(b, S, i)
  BY DEF SameAfter
<1>1. PICK q \in Path :
        /\ q = Join(a, c, b)
        /\ Len(a) \in Nat /\ Len(b) \in Nat /\ Len(q) = n + Len(b)
        /\ q[n] = c
        /\ \A j \in 1 .. Len(b) : q[n + j] = b[j]
  <2>1. PICK q \in Path : q = Join(a, c, b) /\ IsJoin(q, a, c, b)
    BY JoinedPath
  <2>2. QED
    BY <2>1 DEF IsJoin
<1>2. n \in Nat
  BY <1>1
<1> HIDE DEF n
<1>3. PICK m : CutAt(b, S, i, m)
  BY CutExists
<1>4. /\ i - 1 \in Nat /\ m \in Nat /\ m <= i - 1 /\ i - 1 <= Len(b)
      /\ n + i \in 1 .. Len(q) + 1
  BY <1>1, <1>2, <1>3 DEF CutAt
<1> DEFINE k == n + i
           x == n + m
<1>5. /\ k \in 1 .. Len(q) + 1 /\ k - 1 \in Nat /\ k - 1 <= Len(q)
      /\ x \in Nat /\ x <= k - 1 /\ x \in 0 .. k - 1
      /\ k - 1 - x = i - 1 - m
      /\ \A j \in x + 1 .. k - 1 : j - n \in m + 1 .. i - 1 /\ j - n \in 1 .. Len(b) /\ n + (j - n) = j
      /\ \A j \in 1 .. i - 1 - m : m + j \in 1 .. Len(b) /\ x + j = n + (m + j)
      /\ m = 0 => x = n
      /\ m # 0 => m \in 1 .. Len(b)
  BY <1>1, <1>2, <1>4
<1>6. q[x] \in S
  <2>1. CASE m = 0
    BY <1>1, <1>5, <2>1
  <2>2. CASE m # 0
    BY <1>1, <1>3, <1>5, <2>2 DEF CutAt
  <2>3. QED
    BY <2>1, <2>2
<1> HIDE DEF k, x
<1>7. CutAt(q, S, k, x)
  <2>1. ASSUME NEW j \in x + 1 .. k - 1
        PROVE  q[j] \notin S
    BY <1>1, <1>3, <1>5 DEF CutAt
  <2>2. QED
    BY <1>5, <1>6, <2>1 DEF CutAt
<1>8. SubSeq(q, 1 + x, k - 1) = SubSeq(b, 1 + m, i - 1)
  <2>1. /\ SubSeq(q, 1 + x, k - 1) \in Path /\ Len(SubSeq(q, 1 + x, k - 1)) = k - 1 - x
        /\ \A j \in 1 .. k - 1 - x : SubSeq(q, 1 + x, k - 1)[j] = q[x + j]
    BY <1>1, <1>5, Part
  <2>2. /\ SubSeq(b, 1 + m, i - 1) \in Path /\ Len(SubSeq(b, 1 + m, i - 1)) = i - 1 - m
        /\ \A j \in 1 .. i - 1 - m : SubSeq(b, 1 + m, i - 1)[j] = b[m + j]
    BY <1>4, Part
  <2>3. ASSUME NEW j \in 1 .. i - 1 - m
        PROVE  q[x + j] = b[m + j]
    BY <1>1, <1>5
  <2> DEFINE s == SubSeq(q, 1 + x, k - 1)
             t == SubSeq(b, 1 + m, i - 1)
             h == i - 1 - m
  <2>4. /\ s \in Path /\ t \in Path /\ Len(s) = h /\ Len(t) = h
        /\ \A j \in 1 .. h : s[j] = q[x + j] /\ t[j] = b[m + j] /\ q[x + j] = b[m + j]
    BY <1>5, <2>1, <2>2, <2>3
  <2> HIDE DEF s, t, h
  <2>5. s = t
    BY <2>4, SeqEqual DEF Path
  <2>6. QED
    BY <2>5 DEF s, t
<1>9. SegmentBefore(q, S, k) = SubSeq(q, 1 + x, k - 1)
  <2>1. k \in 1 .. Len(q) + 1
    BY <1>5
  <2>2. QED
    BY <1>7, <2>1, CutIsMax
<1>10. SegmentBefore(b, S, i) = SubSeq(b, 1 + m, i - 1)
  BY <1>3, CutIsMax
<1>11. QED
  BY <1>1, <1>8, <1>9, <1>10 DEF k, n

SplitAt(a, c, b, separators) ==
  Segments(Join(a, c, b), separators) = Segments(a, separators) \o Segments(b, separators)

LEMMA SegmentsJoin ==
  ASSUME NEW a \in Path, NEW c \in STRING, NEW b \in Path, NEW S, c \in S
  PROVE  SplitAt(a, c, b, S)
<1> DEFINE n == Len(a) + 1
<1>1. PICK q \in Path :
        /\ q = Join(a, c, b)
        /\ Len(a) \in Nat /\ Len(b) \in Nat /\ Len(q) = n + Len(b)
        /\ \A j \in 1 .. Len(a) : q[j] = a[j]
        /\ q[n] = c
        /\ \A j \in 1 .. Len(b) : q[n + j] = b[j]
  <2>1. PICK q \in Path : q = Join(a, c, b) /\ IsJoin(q, a, c, b)
    BY JoinedPath
  <2>2. QED
    BY <2>1 DEF IsJoin
<1>2. /\ \A i \in 1 .. n : SegmentBefore(q, S, i) = SegmentBefore(a, S, i)
      /\ \A i \in 1 .. Len(b) + 1 : SegmentBefore(q, S, n + i) = SegmentBefore(b, S, i)
  <2>1. SameBefore(q, a, S) /\ SameAfter(q, n, b, S)
    BY <1>1, BeforeSeparator, AfterSeparator
  <2>2. QED
    BY <2>1 DEF SameBefore, SameAfter
<1>3. Len(a) + 1 = n /\ n \in Nat
  BY <1>1
<1> HIDE DEF n
<1> DEFINE A == Pieces(a, S)
           B == Pieces(b, S)
           Q == Pieces(q, S)
<1>4. /\ A \in Seq(Seq(Path)) /\ B \in Seq(Seq(Path)) /\ Q \in Seq(Seq(Path))
      /\ Len(A) = n /\ Len(B) = Len(b) + 1 /\ Len(Q) = n + (Len(b) + 1)
      /\ \A i \in 1 .. n :
           A[i] = IF i = n \/ a[i] \in S THEN << SegmentBefore(a, S, i) >> ELSE <<>>
      /\ \A i \in 1 .. Len(b) + 1 :
           B[i] = IF i = Len(b) + 1 \/ b[i] \in S THEN << SegmentBefore(b, S, i) >> ELSE <<>>
      /\ \A i \in 1 .. Len(q) + 1 :
           Q[i] = IF i = Len(q) + 1 \/ q[i] \in S THEN << SegmentBefore(q, S, i) >> ELSE <<>>
      /\ Segments(a, S) = FlattenSeq(A) /\ Segments(b, S) = FlattenSeq(B)
      /\ Segments(q, S) = FlattenSeq(Q)
  <2>1. Len(q) + 1 = n + (Len(b) + 1)
    BY <1>1, <1>3
  <2>2. ArePieces(A, a, S) /\ ArePieces(B, b, S) /\ ArePieces(Q, q, S)
    BY PiecesType
  <2> HIDE DEF A, B, Q
  <2>3. QED
    BY <1>3, <2>1, <2>2 DEF ArePieces
<1> HIDE DEF A, B, Q
<1>5. \A i \in 1 .. n : Q[i] = A[i]
  <2>1. ASSUME NEW i \in 1 .. n PROVE Q[i] = A[i]
    <3>1. i \in 1 .. Len(q) + 1 /\ i # Len(q) + 1
      BY <1>1, <1>3
    <3>2. q[i] \in S <=> i = n \/ a[i] \in S
      <4>1. i # n => i \in 1 .. Len(a)
        BY <1>1, <1>3
      <4>2. QED
        BY <1>1, <4>1
    <3>3. /\ A[i] = IF i = n \/ a[i] \in S THEN << SegmentBefore(a, S, i) >> ELSE <<>>
          /\ Q[i] = IF i = Len(q) + 1 \/ q[i] \in S THEN << SegmentBefore(q, S, i) >> ELSE <<>>
      BY <1>4, <3>1
    <3>4. QED
      BY <1>2, <3>1, <3>2, <3>3
  <2>2. QED
    BY <2>1
<1>6. \A i \in 1 .. Len(b) + 1 : Q[n + i] = B[i]
  <2>1. ASSUME NEW i \in 1 .. Len(b) + 1 PROVE Q[n + i] = B[i]
    <3>1. n + i \in 1 .. Len(q) + 1 /\ (n + i = Len(q) + 1 <=> i = Len(b) + 1)
          /\ (i # Len(b) + 1 => i \in 1 .. Len(b))
      BY <1>1, <1>3
    <3>2. i # Len(b) + 1 => q[n + i] = b[i]
      BY <1>1, <3>1
    <3>3. QED
      BY <1>2, <1>4, <3>1, <3>2
  <2>2. QED
    BY <2>1
<1>7. Q = A \o B
  <2>1. /\ A \o B \in Seq(Seq(Path)) /\ Len(A \o B) = Len(A) + Len(B)
        /\ \A i \in 1 .. Len(A) + Len(B) :
             (A \o B)[i] = IF i <= Len(A) THEN A[i] ELSE B[i - Len(A)]
    <3> DEFINE X == Seq(Path)
    <3>1. A \in Seq(X) /\ B \in Seq(X)
      BY <1>4
    <3> HIDE DEF X
    <3>2. /\ A \o B \in Seq(X) /\ Len(A \o B) = Len(A) + Len(B)
          /\ \A i \in 1 .. Len(A) + Len(B) :
               (A \o B)[i] = IF i <= Len(A) THEN A[i] ELSE B[i - Len(A)]
      BY <3>1, ConcatProperties
    <3>3. QED
      BY <3>2 DEF X
  <2>2. ASSUME NEW i \in 1 .. Len(Q) PROVE Q[i] = (A \o B)[i]
    <3>1. i \in 1 .. Len(A) + Len(B)
      BY <1>4
    <3>2. CASE i <= n
      <4>1. i \in 1 .. n
        BY <1>3, <1>4, <3>2
      <4>2. QED
        BY <1>4, <1>5, <2>1, <3>1, <3>2, <4>1
    <3>3. CASE ~(i <= n)
      <4>1. i - n \in 1 .. Len(b) + 1 /\ n + (i - n) = i
        BY <1>3, <1>4, <3>3
      <4>2. QED
        BY <1>4, <1>6, <2>1, <3>1, <3>3, <4>1
    <3>4. QED
      BY <3>2, <3>3
  <2>3. Len(Q) = Len(A \o B)
    BY <1>4, <2>1
  <2>4. QED
    BY <1>4, <2>1, <2>2, <2>3, SeqEqual
<1>8. QED
  BY <1>1, <1>4, <1>7, FlattenConcat, SMTT(60) DEF SplitAt

LEMMA FlattenEmpty ==
  ASSUME NEW X, NEW ss \in Seq(Seq(X)), \A i \in 1 .. Len(ss) : ss[i] = <<>>
  PROVE  FlattenSeq(ss) = <<>>
<1>1. FlattenSeq(ss) \in Seq(X)
  BY FlattenType
<1>2. \A x : x \notin Range(<<>>)
  BY DEF Range
<1>3. ASSUME NEW x PROVE x \notin Range(FlattenSeq(ss))
  BY <1>2, FlattenRange
<1>4. SUFFICES ASSUME FlattenSeq(ss) # <<>> PROVE FALSE
  OBVIOUS
<1>5. 1 \in DOMAIN FlattenSeq(ss)
  BY <1>1, <1>4, EmptySeq, LenProperties
<1>6. FlattenSeq(ss)[1] \in Range(FlattenSeq(ss))
  BY <1>5 DEF Range
<1>7. QED
  BY <1>3, <1>6

\* Without separators there is one segment.
LEMMA SegmentsFree ==
  ASSUME NEW q \in Path, NEW S, Free(q, S)
  PROVE  Segments(q, S) = << q >>
<1> DEFINE n == Len(q)
           E == [i \in 1 .. n |-> <<>>]
           Q == Pieces(q, S)
<1>1. n \in Nat /\ n + 1 \in 1 .. n + 1
  BY DEF Path
<1>2. SegmentBefore(q, S, n + 1) = q
  <2>1. CutAt(q, S, n + 1, 0)
    <3>1. \A j \in 0 + 1 .. n + 1 - 1 : j \in 1 .. Len(q)
      BY <1>1
    <3>2. QED
      BY <1>1, <3>1 DEF CutAt, Free
  <2>2. SegmentBefore(q, S, n + 1) = SubSeq(q, 1 + 0, n + 1 - 1)
    BY <1>1, <2>1, CutIsMax
  <2>3. 1 + 0 = 1 /\ n + 1 - 1 = Len(q)
    BY <1>1
  <2>4. QED
    BY <2>2, <2>3, SubSeqFull DEF Path
<1>3. ArePieces(Q, q, S)
  BY PiecesType
<1> HIDE DEF Q
<1>4. /\ Q \in Seq(Seq(Path)) /\ Len(Q) = n + 1
      /\ \A i \in 1 .. n + 1 : Q[i] = IF i = n + 1 THEN << q >> ELSE <<>>
      /\ Segments(q, S) = FlattenSeq(Q)
  <2>1. \A i \in 1 .. n + 1 : i = n + 1 \/ q[i] \notin S
    BY <1>1 DEF Free
  <2>2. QED
    BY <1>2, <1>3, <2>1 DEF ArePieces
<1>5. E \in Seq(Seq(Path)) /\ Len(E) = n /\ \A i \in 1 .. n : E[i] = <<>>
  <2>1. <<>> \in Seq(Path)
    BY EmptySeq
  <2>2. QED
    BY <1>1, <2>1
<1>6. FlattenSeq(E) = <<>>
  BY <1>5, FlattenEmpty
<1> HIDE DEF E
<1>7. << q >> \in Seq(Path)
  OBVIOUS
<1>8. Q = Append(E, << q >>)
  <2> DEFINE T == Append(E, << q >>)
             X == Seq(Path)
  <2>1. E \in Seq(X) /\ << q >> \in X /\ Q \in Seq(X)
    BY <1>4, <1>5, <1>7
  <2> HIDE DEF X
  <2>2. /\ T \in Seq(X) /\ Len(T) = n + 1
        /\ \A i \in 1 .. n : T[i] = E[i]
        /\ T[n + 1] = << q >>
    BY <1>5, <2>1, AppendProperties
  <2> HIDE DEF T
  <2>3. ASSUME NEW i \in 1 .. n + 1 PROVE Q[i] = T[i]
    <3>1. i = n + 1 \/ i \in 1 .. n
      BY <1>1
    <3>2. QED
      BY <1>4, <1>5, <2>2, <3>1
  <2>4. QED
    BY <1>4, <2>1, <2>2, <2>3, SeqEqual DEF T
<1>9. FlattenSeq(Q) = FlattenSeq(E) \o << q >>
  BY <1>5, <1>7, <1>8, FlattenAppend
<1>10. QED
  BY <1>4, <1>6, <1>7, <1>9, ConcatEmptySeq

\* Any path goes on until its first separator.
LEMMA Split ==
  ASSUME NEW p \in Path, NEW S
  PROVE  \E s \in Path, d \in Path : p = s \o d /\ Free(s, S) /\ Cut(d, S)
<1>1. Len(p) \in Nat /\ <<>> \in Path
  BY EmptySeq DEF Path
<1>2. CASE Free(p, S)
  <2>1. p = p \o <<>> /\ Cut(<<>>, S)
    BY ConcatEmptySeq DEF Path, Cut
  <2>2. QED
    BY <1>1, <1>2, <2>1
<1>3. CASE ~Free(p, S)
  <2> DEFINE T == {i \in 1 .. Len(p) : p[i] \in S}
  <2>1. T \in SUBSET Nat /\ T # {}
    BY <1>3 DEF Free
  <2>2. PICK k \in T : \A i \in T : k <= i
    BY <2>1, Least
  <2>3. /\ k \in 1 .. Len(p) /\ p[k] \in S /\ k - 1 \in Nat /\ k - 1 <= Len(p)
        /\ \A i \in 1 .. k - 1 : p[i] \notin S
    BY <1>1, <2>2
  <2> HIDE DEF T
  <2> DEFINE s == SubSeq(p, 1, k - 1)
             d == SubSeq(p, k, Len(p))
  <2>4. s \in Path /\ Len(s) = k - 1 /\ \A i \in 1 .. k - 1 : s[i] = p[i]
    <3> DEFINE m == 0
    <3>1. m \in Nat /\ m <= k - 1 /\ 1 + m = 1 /\ k - 1 - m = k - 1
          /\ \A i \in 1 .. k - 1 : m + i = i
      BY <2>3
    <3> HIDE DEF m
    <3>2. /\ SubSeq(p, 1 + m, k - 1) \in Path /\ Len(SubSeq(p, 1 + m, k - 1)) = k - 1 - m
          /\ \A i \in 1 .. k - 1 - m : SubSeq(p, 1 + m, k - 1)[i] = p[m + i]
      BY <2>3, <3>1, Part, ZenonT(60)
    <3>3. QED
      BY <3>1, <3>2
  <2>5. d \in Path /\ d # <<>> /\ d[1] = p[k]
    <3> DEFINE m == k - 1
    <3>1. m \in Nat /\ Len(p) \in Nat /\ m <= Len(p) /\ 1 \in 1 .. Len(p) - m /\ m + 1 = k /\ 1 + m = k
      BY <1>1, <2>3
    <3> HIDE DEF m
    <3>2. /\ SubSeq(p, 1 + m, Len(p)) \in Path /\ Len(SubSeq(p, 1 + m, Len(p))) = Len(p) - m
          /\ \A i \in 1 .. Len(p) - m : SubSeq(p, 1 + m, Len(p))[i] = p[m + i]
      BY <3>1, Part
    <3>3. d = SubSeq(p, 1 + m, Len(p))
      BY <3>1
    <3> HIDE DEF d
    <3>4. d \in Path /\ Len(d) = Len(p) - m /\ d[1] = p[m + 1]
      BY <3>1, <3>2, <3>3
    <3>5. Len(d) # 0
      BY <3>1, <3>4
    <3>6. QED
      BY <3>1, <3>4, <3>5
  <2>6. s \o d = p
    <3> DEFINE j == k - 1
    <3>1. j \in 1 - 1 .. Len(p) /\ Len(p) \in j .. Len(p) /\ 1 \in 1 .. Len(p) + 1 /\ j + 1 = k
      BY <1>1, <2>3
    <3>2. SubSeq(p, 1, j) \o SubSeq(p, j + 1, Len(p)) = SubSeq(p, 1, Len(p))
      <4> HIDE DEF j
      <4>1. QED
        BY <3>1, ConcatAdjacentSubSeq DEF Path
    <3>3. QED
      BY <3>1, <3>2, SubSeqFull DEF Path
  <2> HIDE DEF s, d
  <2>7. Free(s, S) /\ Cut(d, S)
    BY <2>3, <2>4, <2>5 DEF Free, Cut
  <2>8. QED
    BY <2>4, <2>5, <2>6, <2>7
<1>4. QED
  BY <1>2, <1>3

\* What begins with a separator.
JoinedAt(s, d, separators) ==
  \E c \in STRING, e \in Path :
    c \in separators /\ d = <<c>> \o e /\ s \o d = Join(s, c, e)

LEMMA CutJoins ==
  ASSUME NEW s \in Path, NEW d \in Path, NEW S, Cut(d, S), d # <<>>
  PROVE  JoinedAt(s, d, S)
<1> DEFINE c == d[1]
           e == Tail(d)
           X == STRING
<1>1. s \in Seq(X) /\ d \in Seq(X)
  BY DEF Path
<1>2. c \in S
  BY DEF Cut
<1> HIDE DEF X
<1>3. c \in X /\ e \in Seq(X) /\ d = <<c>> \o e
  BY <1>1
<1> HIDE DEF c, e
<1>4. s \o (<<c>> \o e) = (s \o <<c>>) \o e
  BY <1>1, <1>3, ConcatAssociative
<1>5. s \o <<c>> = Append(s, c)
  BY <1>1, <1>3, AppendIsConcat
<1>6. s \o d = Join(s, c, e)
  BY <1>3, <1>4, <1>5 DEF Join
<1>7. QED
  BY <1>2, <1>3, <1>6 DEF Path, X, JoinedAt

-----------------------------------------------------------------------------
\* Decoding a path

Slashes == {"/", "\\"}

\* Characters that are in no escape.
Plain == (STRING \ Pair) \ {"%"}

LEMMA SpecialPlain ==
  ASSUME NEW c \in STRING, c \in {".", "/", "\\", ";"}
  PROVE  c \in Plain
<1>1. c # "%"
  OBVIOUS
<1>2. c \in Special
  BY DEF Special
<1>3. c \notin Pair
  BY <1>2, EscapesAssumption
<1>4. QED
  BY <1>1, <1>3 DEF Plain

LEMMA ShortPath ==
  /\ <<>> \in Path
  /\ \A c \in STRING : <<c>> \in Path
<1> DEFINE X == STRING
<1> HIDE DEF X
<1>1. <<>> \in Seq(X) /\ \A c \in X : <<c>> \in Seq(X)
  BY EmptySeq
<1>2. QED
  BY <1>1 DEF Path, X

\* No escape begins within another.
LEMMA EscapesApart ==
  ASSUME NEW p \in Path, NEW i \in Nat, EscapeAt(p, i)
  PROVE  /\ ~(i > 1 /\ EscapeAt(p, i - 1))
         /\ DecodeAt(p, i) = <<Escapes[p[i + 1]]>>
<1>1. "%" \notin Pair
  BY EscapesAssumption DEF Special
<1>2. (i - 1) + 1 = i
  OBVIOUS
<1>3. ~(i > 1 /\ EscapeAt(p, i - 1))
  BY <1>1, <1>2 DEF EscapeAt
<1>4. QED
  BY <1>3 DEF DecodeAt

\* What becomes of every position.
Decoded(p) == [i \in DOMAIN p |-> DecodeAt(p, i)]

AreDecoded(ss, p) ==
  /\ ss \in Seq(Path) /\ Len(ss) = Len(p) /\ Len(p) \in Nat
  /\ \A i \in 1 .. Len(p) : ss[i] = DecodeAt(p, i)
  /\ Decode(p) = FlattenSeq(ss)

LEMMA DecodedType ==
  ASSUME NEW p \in Path
  PROVE  AreDecoded(Decoded(p), p) /\ Decode(p) \in Path
<1>1. Len(p) \in Nat /\ DOMAIN p = 1 .. Len(p) /\ \A i \in 1 .. Len(p) : p[i] \in STRING
  BY DEF Path
<1>2. ASSUME NEW i \in 1 .. Len(p)
      PROVE  DecodeAt(p, i) \in Path
  <2>1. CASE EscapeAt(p, i)
    <3>1. p[i + 1] \in Pair /\ Escapes[p[i + 1]] \in STRING
      BY <2>1, EscapesAssumption DEF EscapeAt
    <3> DEFINE c == Escapes[p[i + 1]]
    <3>2. DecodeAt(p, i) = <<c>>
      BY <2>1, EscapesApart
    <3>3. c \in STRING
      BY <3>1
    <3> HIDE DEF c
    <3>4. QED
      BY <3>2, <3>3, ShortPath
  <2>2. CASE ~EscapeAt(p, i)
    <3>1. DecodeAt(p, i) = <<>> \/ DecodeAt(p, i) = <<p[i]>>
      BY <2>2 DEF DecodeAt
    <3>2. QED
      BY <1>1, <3>1, ShortPath
  <2>3. QED
    BY <2>1, <2>2
<1>3. Decoded(p) \in Seq(Path) /\ Len(Decoded(p)) = Len(p)
      /\ \A i \in 1 .. Len(p) : Decoded(p)[i] = DecodeAt(p, i)
  BY <1>1, <1>2 DEF Decoded
<1>4. Decode(p) = FlattenSeq(Decoded(p))
  BY DEF Decode, Decoded
<1>5. FlattenSeq(Decoded(p)) \in Path
  BY <1>3, FlattenType DEF Path
<1>6. QED
  BY <1>1, <1>3, <1>4, <1>5 DEF AreDecoded

\* What is in no escape stays where it is.
LEMMA DecodeJoin ==
  ASSUME NEW a \in Path, NEW c \in Plain, NEW b \in Path
  PROVE  Decode(Join(a, c, b)) = Join(Decode(a), c, Decode(b))
<1> DEFINE n == Len(a) + 1
<1>1. c \in STRING /\ c \notin Pair /\ c # "%" /\ <<c>> \in Path
  BY DEF Plain, Path
<1>2. PICK q \in Path :
        /\ q = Join(a, c, b)
        /\ Len(a) \in Nat /\ Len(b) \in Nat /\ Len(q) = n + Len(b) /\ n \in Nat
        /\ \A j \in 1 .. Len(a) : q[j] = a[j]
        /\ q[n] = c
        /\ \A j \in 1 .. Len(b) : q[n + j] = b[j]
  <2>1. PICK q \in Path : q = Join(a, c, b) /\ IsJoin(q, a, c, b)
    BY <1>1, JoinedPath
  <2>2. QED
    BY <2>1 DEF IsJoin
<1>3. n = Len(a) + 1
  OBVIOUS
<1> HIDE DEF n
<1>4. \A i \in 1 .. Len(a) : EscapeAt(q, i) <=> EscapeAt(a, i)
  <2>1. ASSUME NEW i \in 1 .. Len(a) PROVE EscapeAt(q, i) <=> EscapeAt(a, i)
    <3>1. q[i] = a[i] /\ i < Len(q)
      BY <1>2, <1>3
    <3>2. CASE i = Len(a)
      <4>1. i + 1 = n /\ ~(i < Len(a))
        BY <1>2, <1>3, <3>2
      <4>2. q[i + 1] \notin Pair
        BY <1>1, <1>2, <4>1
      <4>3. QED
        BY <4>1, <4>2 DEF EscapeAt
    <3>3. CASE i # Len(a)
      <4>1. i + 1 \in 1 .. Len(a) /\ i < Len(a)
        BY <1>2, <3>3
      <4>2. q[i + 1] = a[i + 1]
        BY <1>2, <4>1
      <4>3. QED
        BY <3>1, <4>1, <4>2 DEF EscapeAt
    <3>4. QED
      BY <3>2, <3>3
  <2>2. QED
    BY <2>1
<1>5. ~EscapeAt(q, n)
  BY <1>1, <1>2 DEF EscapeAt
<1>6. \A i \in 1 .. Len(b) : EscapeAt(q, n + i) <=> EscapeAt(b, i)
  <2>1. ASSUME NEW i \in 1 .. Len(b) PROVE EscapeAt(q, n + i) <=> EscapeAt(b, i)
    <3>1. q[n + i] = b[i] /\ (n + i < Len(q) <=> i < Len(b))
      BY <1>2
    <3>2. ASSUME i < Len(b) PROVE q[(n + i) + 1] = b[i + 1]
      <4>1. i + 1 \in 1 .. Len(b) /\ (n + i) + 1 = n + (i + 1)
        BY <1>2, <3>2
      <4>2. QED
        BY <1>2, <4>1
    <3>3. QED
      BY <3>1, <3>2 DEF EscapeAt
  <2>2. QED
    BY <2>1
<1>7. \A i \in 1 .. Len(a) : DecodeAt(q, i) = DecodeAt(a, i)
  <2>1. ASSUME NEW i \in 1 .. Len(a) PROVE DecodeAt(q, i) = DecodeAt(a, i)
    <3>1. q[i] = a[i] /\ (i > 1 => i - 1 \in 1 .. Len(a)) /\ (EscapeAt(q, i) <=> EscapeAt(a, i))
      BY <1>2, <1>4
    <3>2. i > 1 => (EscapeAt(q, i - 1) <=> EscapeAt(a, i - 1))
      BY <1>4, <3>1
    <3>3. EscapeAt(a, i) => q[i + 1] = a[i + 1]
      <4>1. EscapeAt(a, i) => i + 1 \in 1 .. Len(a)
        BY <1>2 DEF EscapeAt
      <4>2. QED
        BY <1>2, <4>1
    <3>4. QED
      BY <3>1, <3>2, <3>3 DEF DecodeAt
  <2>2. QED
    BY <2>1
<1>8. DecodeAt(q, n) = <<c>>
  <2>1. n > 1 => ~EscapeAt(q, n - 1)
    <3>1. (n - 1) + 1 = n
      BY <1>2
    <3>2. q[(n - 1) + 1] \notin Pair
      BY <1>1, <1>2, <3>1
    <3>3. QED
      BY <3>2 DEF EscapeAt
  <2>2. QED
    BY <1>2, <1>5, <2>1 DEF DecodeAt
<1>9. \A i \in 1 .. Len(b) : DecodeAt(q, n + i) = DecodeAt(b, i)
  <2>1. ASSUME NEW i \in 1 .. Len(b) PROVE DecodeAt(q, n + i) = DecodeAt(b, i)
    <3>1. q[n + i] = b[i] /\ (EscapeAt(q, n + i) <=> EscapeAt(b, i)) /\ n + i > 1
      BY <1>2, <1>3, <1>6
    <3>2. EscapeAt(q, (n + i) - 1) <=> i > 1 /\ EscapeAt(b, i - 1)
      <4>1. CASE i = 1
        <5>1. (n + i) - 1 = n
          BY <1>2, <4>1
        <5>2. QED
          BY <1>5, <4>1, <5>1
      <4>2. CASE i # 1
        <5>1. i - 1 \in 1 .. Len(b) /\ (n + i) - 1 = n + (i - 1) /\ i > 1
          BY <1>2, <4>2
        <5>2. EscapeAt(q, n + (i - 1)) <=> EscapeAt(b, i - 1)
          BY <1>6, <5>1
        <5>3. QED
          BY <5>1, <5>2
      <4>3. QED
        BY <4>1, <4>2
    <3>3. EscapeAt(b, i) => q[(n + i) + 1] = b[i + 1]
      <4>1. EscapeAt(b, i) => i + 1 \in 1 .. Len(b) /\ (n + i) + 1 = n + (i + 1)
        BY <1>2 DEF EscapeAt
      <4>2. QED
        BY <1>2, <4>1
    <3>4. QED
      BY <3>1, <3>2, <3>3 DEF DecodeAt
  <2>2. QED
    BY <2>1
<1> DEFINE A == Decoded(a)
           B == Decoded(b)
           Q == Decoded(q)
<1>10. AreDecoded(A, a) /\ AreDecoded(B, b) /\ AreDecoded(Q, q)
  BY DecodedType
<1> HIDE DEF A, B, Q
<1>11. /\ A \in Seq(Path) /\ B \in Seq(Path) /\ Q \in Seq(Path)
       /\ Len(A) = Len(a) /\ Len(B) = Len(b) /\ Len(Q) = n + Len(b)
       /\ \A i \in 1 .. Len(a) : A[i] = DecodeAt(a, i)
       /\ \A i \in 1 .. Len(b) : B[i] = DecodeAt(b, i)
       /\ \A i \in 1 .. n + Len(b) : Q[i] = DecodeAt(q, i)
       /\ Decode(a) = FlattenSeq(A) /\ Decode(b) = FlattenSeq(B) /\ Decode(q) = FlattenSeq(Q)
  BY <1>2, <1>10 DEF AreDecoded
<1>12. Q = Join(A, <<c>>, B)
  <2> DEFINE T == Join(A, <<c>>, B)
  <2>1. T \in Seq(Path) /\ IsJoin(T, A, <<c>>, B)
    BY <1>1, <1>11, Joined
  <2> HIDE DEF T
  <2>2. /\ Len(T) = Len(Q)
        /\ \A i \in 1 .. Len(a) : T[i] = A[i]
        /\ T[n] = <<c>>
        /\ \A i \in 1 .. Len(b) : T[n + i] = B[i]
    BY <1>2, <1>3, <1>11, <2>1 DEF IsJoin
  <2>3. ASSUME NEW i \in 1 .. Len(Q) PROVE Q[i] = T[i]
    <3>1. i \in 1 .. n + Len(b)
      BY <1>11
    <3>2. CASE i \in 1 .. Len(a)
      BY <1>7, <1>11, <2>2, <3>1, <3>2
    <3>3. CASE i = n
      BY <1>8, <1>11, <2>2, <3>1, <3>3
    <3>4. CASE i - n \in 1 .. Len(b)
      <4>1. n + (i - n) = i
        BY <1>2, <3>1
      <4>2. DecodeAt(q, n + (i - n)) = DecodeAt(b, i - n) /\ T[n + (i - n)] = B[i - n]
            /\ B[i - n] = DecodeAt(b, i - n)
        BY <1>9, <1>11, <2>2, <3>4
      <4>3. QED
        BY <1>11, <3>1, <4>1, <4>2
    <3>5. QED
      BY <1>2, <1>3, <3>1, <3>2, <3>3, <3>4
  <2>4. QED
    BY <1>11, <2>1, <2>2, <2>3, SeqEqual DEF T
<1>13. FlattenSeq(Join(A, <<c>>, B)) = Join(FlattenSeq(A), c, FlattenSeq(B))
  <2> DEFINE X == STRING
             U == Append(A, <<c>>)
  <2>1. A \in Seq(Seq(X)) /\ B \in Seq(Seq(X)) /\ <<c>> \in Seq(X) /\ c \in X
    BY <1>1, <1>11 DEF Path
  <2> HIDE DEF X
  <2>2. U \in Seq(Seq(X)) /\ FlattenSeq(U) = FlattenSeq(A) \o <<c>>
    BY <2>1, Appended, FlattenAppend
  <2> HIDE DEF U
  <2>3. FlattenSeq(U \o B) = FlattenSeq(U) \o FlattenSeq(B)
    BY <2>1, <2>2, FlattenConcat
  <2>4. FlattenSeq(A) \o <<c>> = Append(FlattenSeq(A), c)
    BY <2>1, FlattenType, AppendIsConcat
  <2>5. QED
    BY <2>2, <2>3, <2>4 DEF Join, U
<1>14. QED
  BY <1>2, <1>11, <1>12, <1>13

\* Flattening undoes what makes a sequence of every element.
Singles(ss, s) ==
  Len(ss) = Len(s) /\ \A i \in 1 .. Len(s) : ss[i] = <<s[i]>>

LEMMA FlattenSingles ==
  ASSUME NEW X, NEW s \in Seq(X), NEW ss \in Seq(Seq(X)), Singles(ss, s)
  PROVE  FlattenSeq(ss) = s
<1> DEFINE N == Len(s)
           T(n) == SubSeq(ss, 1, n)
           U(n) == SubSeq(s, 1, n)
           Good == {n \in 0 .. N : FlattenSeq(T(n)) = U(n)}
<1>1. N \in Nat /\ N = Len(ss) /\ T(N) = ss /\ U(N) = s /\ T(0) = <<>> /\ U(0) = <<>>
  BY LenProperties, SubSeqFull, SubSeqEmpty DEF Singles
<1>2. 0 \in Good
  <2> HIDE DEF T, U
  <2>1. QED
    BY <1>1, FlattenNone
<1>3. ASSUME NEW n \in Good, n < N
      PROVE  n + 1 \in Good
  <2>1. n \in Nat /\ n + 1 \in 1 .. N /\ n + 1 \in 0 .. N
    BY <1>1, <1>3
  <2>2. s[n + 1] \in X /\ ss[n + 1] = <<s[n + 1]>> /\ ss[n + 1] \in Seq(X)
    BY <1>1, <2>1, ElementOfSeq DEF Singles
  <2>3. /\ T(n) \in Seq(Seq(X)) /\ T(n + 1) = Append(T(n), ss[n + 1])
        /\ U(n) \in Seq(X) /\ U(n + 1) = Append(U(n), s[n + 1])
    BY <1>1, <2>1
  <2>4. FlattenSeq(T(n)) = U(n)
    BY <1>3
  <2> HIDE DEF T, U
  <2>5. FlattenSeq(T(n + 1)) = FlattenSeq(T(n)) \o ss[n + 1]
    BY <2>2, <2>3, FlattenAppend
  <2>6. Append(U(n), s[n + 1]) = U(n) \o <<s[n + 1]>>
    BY <2>2, <2>3, AppendIsConcat
  <2>7. QED
    BY <2>1, <2>2, <2>3, <2>4, <2>5, <2>6
<1>4. N \in Good
  <2>1. Good \in SUBSET Nat /\ N \in 0 .. N
    BY <1>1
  <2> HIDE DEF Good
  <2>2. QED
    BY <1>1, <1>2, <1>3, <2>1, Counting
<1>5. QED
  BY <1>1, <1>4

\* Without "%" there is nothing to decode.
LEMMA DecodePlain ==
  ASSUME NEW p \in Path, ~Contains(p, "%")
  PROVE  Decode(p) = p
<1>1. AreDecoded(Decoded(p), p)
  BY DecodedType
<1>2. /\ Decoded(p) \in Seq(Path) /\ Len(Decoded(p)) = Len(p) /\ Len(p) \in Nat
      /\ \A i \in 1 .. Len(p) : Decoded(p)[i] = DecodeAt(p, i)
      /\ Decode(p) = FlattenSeq(Decoded(p))
  BY <1>1 DEF AreDecoded
<1>3. ASSUME NEW i \in 1 .. Len(p)
      PROVE  DecodeAt(p, i) = <<p[i]>>
  <2>1. ~EscapeAt(p, i)
    BY DEF EscapeAt, Contains
  <2>2. i > 1 => ~EscapeAt(p, i - 1)
    <3>1. i > 1 => i - 1 \in 1 .. Len(p)
      BY <1>2
    <3>2. QED
      BY <3>1 DEF EscapeAt, Contains
  <2>3. QED
    BY <2>1, <2>2 DEF DecodeAt
<1>4. Singles(Decoded(p), p)
  BY <1>2, <1>3 DEF Singles
<1>5. QED
  BY <1>2, <1>4, FlattenSingles DEF Path

LEMMA DecodeNone == Decode(<<>>) = <<>>
<1>1. ~Contains(<<>>, "%")
  BY DEF Contains
<1>2. QED
  BY <1>1, DecodePlain, ShortPath

-----------------------------------------------------------------------------
\* Segments of a path and their parameters

LEMMA PathConcat ==
  ASSUME NEW a \in Path, NEW b \in Path
  PROVE  a \o b \in Path /\ a \o <<>> = a /\ <<>> \o a = a
  BY ConcatProperties, ConcatEmptySeq DEF Path

LEMMA PathAssociative ==
  ASSUME NEW a \in Path, NEW b \in Path, NEW c \in Path
  PROVE  (a \o b) \o c = a \o (b \o c)
  BY ConcatAssociative DEF Path

\* Segments of what goes on until its first separator.
First(s, p, separators) ==
  \E rest \in Seq(Path) : Segments(p, separators) = <<s>> \o rest

LEMMA FirstSegment ==
  ASSUME NEW s \in Path, NEW d \in Path, NEW S, Free(s, S), Cut(d, S)
  PROVE  First(s, s \o d, S)
<1>1. CASE d = <<>>
  <2>1. s \o d = s
    BY <1>1, PathConcat
  <2>2. <<s>> \in Seq(Path) /\ <<>> \in Seq(Path)
    BY EmptySeq
  <2>3. <<s>> \o <<>> = <<s>>
    BY <2>2, ConcatEmptySeq
  <2>4. QED
    BY <2>1, <2>2, <2>3, SegmentsFree DEF First
<1>2. CASE d # <<>>
  <2>1. PICK c \in STRING, e \in Path :
          c \in S /\ d = <<c>> \o e /\ s \o d = Join(s, c, e)
    <3>1. JoinedAt(s, d, S)
      BY <1>2, CutJoins
    <3>2. QED
      BY <3>1 DEF JoinedAt
  <2>2. Segments(Join(s, c, e), S) = Segments(s, S) \o Segments(e, S)
    <3>1. SplitAt(s, c, e, S)
      BY <2>1, SegmentsJoin
    <3>2. QED
      BY <3>1 DEF SplitAt
  <2>3. Segments(e, S) \in Seq(Path)
    BY PiecesType
  <2>4. QED
    BY <2>1, <2>2, <2>3, SegmentsFree DEF First
<1>3. QED
  BY <1>1, <1>2

LEMMA FirstOfConcat ==
  ASSUME NEW X, NEW x \in X, NEW rest \in Seq(X)
  PROVE  /\ <<x>> \o rest \in Seq(X) /\ <<x>> \o rest # <<>>
         /\ (<<x>> \o rest)[1] = x
         /\ x \in Range(<<x>> \o rest)
<1> DEFINE q == <<x>> \o rest
<1>1. <<x>> \in Seq(X) /\ Len(<<x>>) = 1 /\ <<x>>[1] = x
  OBVIOUS
<1>2. Len(rest) \in Nat /\ 1 \in 1 .. 1 + Len(rest) /\ 1 <= 1
  BY LenProperties
<1>3. q \in Seq(X) /\ Len(q) = 1 + Len(rest) /\ q[1] = x
  BY <1>1, <1>2, ConcatProperties
<1> HIDE DEF q
<1>4. q # <<>> /\ 1 \in DOMAIN q
  BY <1>2, <1>3, LenProperties, EmptySeq
<1>5. q[1] \in Range(q)
  BY <1>4 DEF Range
<1>6. QED
  BY <1>3, <1>4, <1>5 DEF q

\* There is at least one segment.
LEMMA SegmentsSome ==
  ASSUME NEW p \in Path, NEW S
  PROVE  Segments(p, S) \in Seq(Path) /\ Segments(p, S) # <<>>
<1>1. PICK s \in Path, d \in Path : p = s \o d /\ Free(s, S) /\ Cut(d, S)
  BY Split
<1>2. PICK rest \in Seq(Path) : Segments(s \o d, S) = <<s>> \o rest
  <2>1. First(s, s \o d, S)
    BY <1>1, FirstSegment
  <2>2. QED
    BY <2>1 DEF First
<1>3. QED
  BY <1>1, <1>2, FirstOfConcat

\* What is before the first ";".
LEMMA ParamsDropped ==
  ASSUME NEW s \in Path, NEW d \in Path, Free(s, {";"}), Cut(d, {";"})
  PROVE  WithoutParams(s \o d) = s
<1> DEFINE S == {";"}
<1>1. Free(s, S) /\ Cut(d, S)
  OBVIOUS
<1> HIDE DEF S
<1>2. PICK rest \in Seq(Path) : Segments(s \o d, S) = <<s>> \o rest
  <2>1. First(s, s \o d, S)
    BY <1>1, FirstSegment
  <2>2. QED
    BY <2>1 DEF First
<1>3. QED
  BY <1>2, FirstOfConcat DEF WithoutParams, S

LEMMA ParamsSplit ==
  ASSUME NEW p \in Path
  PROVE  /\ WithoutParams(p) \in Path
         /\ \E d \in Path : p = WithoutParams(p) \o d /\ Cut(d, {";"})
<1>1. PICK s \in Path, d \in Path : p = s \o d /\ Free(s, {";"}) /\ Cut(d, {";"})
  BY Split
<1>2. WithoutParams(p) = s
  BY <1>1, ParamsDropped
<1>3. QED
  BY <1>1, <1>2

\* What stands in a path between separators, or up to its parameters.
Opens(o) == o = <<>> \/ \E a \in Path, x \in STRING : x \in Slashes /\ o = Append(a, x)

Closes(c) == Cut(c, Slashes \cup {";"})

Around(p, w) == \E o \in Path, c \in Path : Opens(o) /\ Closes(c) /\ p = o \o (w \o c)

\* Every segment stands so.
LEMMA SegmentAround ==
  ASSUME NEW p \in Path, NEW S, S \subseteq Slashes, NEW s \in Range(Segments(p, S))
  PROVE  s \in Path /\ Around(p, s)
<1>1. ArePieces(Pieces(p, S), p, S)
  BY PiecesType
<1> DEFINE Q == Pieces(p, S)
<1> HIDE DEF Q
<1>2. PICK i \in 1 .. Len(Q) : s \in Range(Q[i])
  BY <1>1, FlattenRange DEF ArePieces, Q
<1>3. /\ i \in 1 .. Len(p) + 1 /\ Len(p) \in Nat
      /\ Q[i] = IF i = Len(p) + 1 \/ p[i] \in S THEN << SegmentBefore(p, S, i) >> ELSE <<>>
  BY <1>1, <1>2 DEF ArePieces, Q
<1>4. Range(<<>>) = {} /\ \A x : Range(<<x>>) = {x}
  BY DEF Range
<1>5. (i = Len(p) + 1 \/ p[i] \in S) /\ s = SegmentBefore(p, S, i)
  BY <1>2, <1>3, <1>4
<1>6. PICK m : CutAt(p, S, i, m)
  BY <1>3, CutExists
<1>7. /\ m \in 0 .. i - 1 /\ i - 1 \in Nat /\ i - 1 <= Len(p) /\ m \in Nat
      /\ m = 0 \/ p[m] \in S
  BY <1>3, <1>6 DEF CutAt
<1> DEFINE o == SubSeq(p, 1, m)
           c == SubSeq(p, i, Len(p))
<1>8. s = SubSeq(p, 1 + m, i - 1) /\ s \in Path
  BY <1>3, <1>5, <1>6, CutIsMax, SegmentType
<1>9. o \in Path /\ c \in Path
  BY <1>3, <1>7 DEF Path
<1>10. p = o \o (s \o c)
  <2> DEFINE j == i - 1
  <2>1. /\ 1 \in 1 .. Len(p) + 1 /\ m \in 1 - 1 .. Len(p) /\ Len(p) \in m .. Len(p)
        /\ m + 1 \in 1 .. Len(p) + 1 /\ j \in m + 1 - 1 .. Len(p) /\ Len(p) \in j .. Len(p)
        /\ j + 1 = i /\ 1 + m = m + 1
    BY <1>3, <1>7
  <2>2. p \in Seq(STRING)
    BY DEF Path
  <2>3. SubSeq(p, 1, m) \o SubSeq(p, m + 1, Len(p)) = SubSeq(p, 1, Len(p))
    BY <2>1, <2>2, ConcatAdjacentSubSeq
  <2>4. SubSeq(p, m + 1, j) \o SubSeq(p, j + 1, Len(p)) = SubSeq(p, m + 1, Len(p))
    <3> DEFINE n == m + 1
               N == Len(p)
    <3> HIDE DEF j
    <3>1. n \in 1 .. Len(p) + 1 /\ j \in n - 1 .. Len(p) /\ N \in j .. Len(p)
      BY <2>1
    <3> HIDE DEF n, N
    <3>2. SubSeq(p, n, j) \o SubSeq(p, j + 1, N) = SubSeq(p, n, N)
      BY <2>2, <3>1, ConcatAdjacentSubSeq
    <3>3. QED
      BY <3>2 DEF n, N
  <2>5. QED
    BY <1>8, <2>1, <2>2, <2>3, <2>4, SubSeqFull
<1>11. Opens(o)
  <2>1. CASE m = 0
    BY <2>1, SubSeqEmpty DEF Opens
  <2>2. CASE m # 0
    <3>1. m \in 1 .. Len(p) /\ 1 \in 1 .. Len(p) /\ m \in 1 .. Len(p)
      BY <1>3, <1>7, <2>2
    <3>2. p[m] \in STRING /\ p[m] \in Slashes /\ SubSeq(p, 1, m - 1) \in Path
      BY <1>7, <2>2, <3>1, ElementOfSeq DEF Path
    <3>3. o = Append(SubSeq(p, 1, m - 1), p[m])
      BY <3>1 DEF Path
    <3>4. QED
      BY <3>2, <3>3 DEF Opens
  <2>3. QED
    BY <2>1, <2>2
<1>12. Closes(c)
  <2>1. CASE i = Len(p) + 1
    BY <1>3, <2>1, SubSeqEmpty DEF Closes, Cut
  <2>2. CASE i # Len(p) + 1
    <3>1. i \in 1 .. Len(p) /\ p[i] \in Slashes
      BY <1>3, <1>5, <2>2
    <3>2. c[1] = p[i]
      BY <3>1 DEF Path
    <3>3. QED
      BY <3>1, <3>2 DEF Closes, Cut
  <2>3. QED
    BY <2>1, <2>2
<1>13. QED
  <2> HIDE DEF o, c
  <2>1. QED
    BY <1>8, <1>9, <1>10, <1>11, <1>12 DEF Around

\* So does a segment without its parameters.
LEMMA ParamsAround ==
  ASSUME NEW p \in Path, NEW s \in Path, Around(p, s)
  PROVE  Around(p, WithoutParams(s))
<1>1. PICK o \in Path, c \in Path : Opens(o) /\ Closes(c) /\ p = o \o (s \o c)
  BY DEF Around
<1>2. PICK d \in Path : s = WithoutParams(s) \o d /\ Cut(d, {";"})
  BY ParamsSplit
<1> DEFINE w == WithoutParams(s)
<1>3. w \in Path
  BY ParamsSplit
<1> HIDE DEF w
<1>4. s \o c = w \o (d \o c) /\ d \o c \in Path
  <2>1. s = w \o d
    BY <1>2 DEF w
  <2>2. (w \o d) \o c = w \o (d \o c)
    BY <1>3, PathAssociative, ZenonT(60)
  <2>3. d \o c \in Path
    BY PathConcat
  <2>4. QED
    BY <2>1, <2>2, <2>3
<1>5. Closes(d \o c)
  <2>1. CASE d = <<>>
    <3>1. d \o c = c
      BY <2>1, PathConcat
    <3>2. QED
      BY <1>1, <3>1
  <2>2. CASE d # <<>>
    <3>1. d \in Seq(STRING) /\ c \in Seq(STRING)
      BY DEF Path
    <3>2. Len(d) \in Nat \ {0} /\ Len(c) \in Nat
      BY <2>2, <3>1, EmptySeq, LenProperties
    <3>3. 1 \in 1 .. Len(d) + Len(c) /\ 1 <= Len(d)
      BY <3>2
    <3>4. (d \o c)[1] = d[1]
      BY <3>1, <3>3, ConcatProperties
    <3>5. QED
      BY <1>2, <2>2, <3>4 DEF Closes, Cut
  <2>3. QED
    BY <2>1, <2>2
<1>6. QED
  BY <1>1, <1>3, <1>4, <1>5 DEF Around, w

-----------------------------------------------------------------------------
\* Dot segments are found

\* Join puts the parts next to each other.
Behind(c, b) == <<c>> \o b

LEMMA JoinConcat ==
  ASSUME NEW a \in Path, NEW c \in STRING, NEW b \in Path
  PROVE  /\ Append(a, c) \in Path /\ Behind(c, b) \in Path
         /\ Join(a, c, b) = a \o Behind(c, b)
         /\ Join(<<>>, c, b) = Behind(c, b)
<1> DEFINE X == STRING
<1>1. a \in Seq(X) /\ b \in Seq(X) /\ c \in X
  BY DEF Path
<1> HIDE DEF X
<1>2. <<c>> \in Seq(X) /\ Append(<<>>, c) = <<c>>
  <2>1. <<>> \in Seq(X) /\ <<c>> \in Seq(X)
    BY ShortPath DEF Path, X
  <2>2. Append(<<>>, c) = <<>> \o <<c>>
    BY <1>1, <2>1, AppendIsConcat
  <2>3. QED
    BY <2>1, <2>2, ConcatEmptySeq
<1>3. <<c>> \o b \in Seq(X)
  BY <1>1, <1>2, ConcatProperties
<1>4. Append(a, c) \in Seq(X) /\ Append(a, c) = a \o <<c>>
  BY <1>1, AppendProperties, AppendIsConcat
<1>5. (a \o <<c>>) \o b = a \o (<<c>> \o b)
  BY <1>1, <1>2, ConcatAssociative
<1>6. QED
  BY <1>2, <1>3, <1>4, <1>5 DEF Join, Path, X, Behind

\* Decoding what stands in a path.
LEMMA DecodeAfter ==
  ASSUME NEW w \in Path, NEW c \in Path, Closes(c)
  PROVE  Decode(w \o c) = Decode(w) \o Decode(c) /\ Closes(Decode(c))
<1>1. CASE c = <<>>
  <2>1. w \o c = w /\ Decode(w) \in Path /\ Decode(w) \o <<>> = Decode(w)
    BY <1>1, PathConcat, DecodedType
  <2>2. QED
    BY <1>1, <2>1, DecodeNone
<1>2. CASE c # <<>>
  <2> DEFINE S == Slashes \cup {";"}
  <2>1. Cut(c, S)
    BY DEF Closes
  <2> HIDE DEF S
  <2>2. JoinedAt(w, c, S)
    BY <1>2, <2>1, CutJoins
  <2>3. PICK x \in STRING, e \in Path :
          x \in S /\ c = Behind(x, e) /\ w \o c = Join(w, x, e)
    BY <2>2 DEF JoinedAt, Behind
  <2>4. x \in Plain
    BY <2>3, SpecialPlain DEF S, Slashes
  <2>5. <<>> \in Path /\ Decode(w) \in Path /\ Decode(e) \in Path
    BY ShortPath, DecodedType
  <2>6. Decode(w \o c) = Join(Decode(w), x, Decode(e))
    <3>1. Decode(Join(w, x, e)) = Join(Decode(w), x, Decode(e))
      BY <2>4, DecodeJoin
    <3>2. QED
      BY <2>3, <3>1
  <2>7. Decode(c) = Behind(x, Decode(e))
    <3>1. c = Join(<<>>, x, e)
      BY <2>3, <2>5, JoinConcat, ZenonT(60)
    <3>2. Decode(Join(<<>>, x, e)) = Join(Decode(<<>>), x, Decode(e))
      BY <2>4, <2>5, DecodeJoin
    <3>3. QED
      BY <2>5, <3>1, <3>2, DecodeNone, JoinConcat
  <2>8. Decode(w \o c) = Decode(w) \o Decode(c)
    <3>1. Join(Decode(w), x, Decode(e)) = Decode(w) \o Behind(x, Decode(e))
      BY <2>5, JoinConcat, ZenonT(60)
    <3>2. QED
      BY <2>6, <2>7, <3>1
  <2>9. Closes(Decode(c))
    <3>1. Decode(e) \in Seq(STRING) /\ x \in STRING
      BY <2>5 DEF Path
    <3> HIDE DEF Slashes
    <3>2. Behind(x, Decode(e))[1] = x
      BY <3>1, FirstOfConcat DEF Behind
    <3>3. QED
      BY <2>3, <2>7, <3>2 DEF Closes, Cut, S
  <2>10. QED
    BY <2>8, <2>9
<1>3. QED
  BY <1>1, <1>2

LEMMA DecodeBefore ==
  ASSUME NEW o \in Path, NEW v \in Path, Opens(o)
  PROVE  Decode(o \o v) = Decode(o) \o Decode(v) /\ Opens(Decode(o))
<1>1. Decode(v) \in Path /\ <<>> \in Path
  BY DecodedType, ShortPath
<1>2. CASE o = <<>>
  <2>1. o \o v = v /\ <<>> \o Decode(v) = Decode(v)
    BY <1>1, <1>2, PathConcat
  <2>2. QED
    BY <1>2, <2>1, DecodeNone DEF Opens
<1>3. CASE o # <<>>
  <2>1. PICK a \in Path, x \in STRING : x \in Slashes /\ o = Append(a, x)
    BY <1>3 DEF Opens
  <2>2. x \in Plain
    BY <2>1, SpecialPlain DEF Slashes
  <2>3. Decode(a) \in Path
    BY DecodedType
  <2>4. Decode(o \o v) = Append(Decode(a), x) \o Decode(v)
    <3>1. o \o v = Join(a, x, v)
      BY <2>1 DEF Join
    <3>2. Decode(Join(a, x, v)) = Join(Decode(a), x, Decode(v))
      BY <2>2, DecodeJoin
    <3>3. QED
      BY <3>1, <3>2 DEF Join
  <2>5. Decode(o) = Append(Decode(a), x)
    <3>1. Join(a, x, <<>>) = o
      <4>1. Append(a, x) \in Path
        BY JoinConcat
      <4>2. QED
        BY <2>1, <4>1, PathConcat DEF Join
    <3>2. Decode(Join(a, x, <<>>)) = Join(Decode(a), x, Decode(<<>>))
      BY <1>1, <2>2, DecodeJoin
    <3>3. Join(Decode(a), x, <<>>) = Append(Decode(a), x)
      <4>1. Append(Decode(a), x) \in Path
        BY <2>3, JoinConcat
      <4>2. QED
        BY <4>1, PathConcat DEF Join
    <3>4. QED
      BY <3>1, <3>2, <3>3, DecodeNone
  <2>6. QED
    BY <2>1, <2>3, <2>4, <2>5 DEF Opens
<1>4. QED
  BY <1>2, <1>3

LEMMA DecodeAround ==
  ASSUME NEW p \in Path, NEW w \in Path, Around(p, w)
  PROVE  Around(Decode(p), Decode(w))
<1>1. PICK o \in Path, c \in Path : Opens(o) /\ Closes(c) /\ p = o \o (w \o c)
  BY DEF Around
<1>2. w \o c \in Path /\ Decode(o) \in Path /\ Decode(c) \in Path
  BY PathConcat, DecodedType
<1>3. Decode(w \o c) = Decode(w) \o Decode(c) /\ Closes(Decode(c))
  BY <1>1, DecodeAfter
<1> DEFINE v == w \o c
<1> HIDE DEF v
<1>4. Decode(o \o v) = Decode(o) \o Decode(v) /\ Opens(Decode(o))
  BY <1>1, <1>2, DecodeBefore DEF v
<1>5. QED
  BY <1>1, <1>2, <1>3, <1>4 DEF Around, v

\* What stands in a path without "%" is itself without.
LEMMA AroundPlain ==
  ASSUME NEW p \in Path, NEW w \in Path, Around(p, w), ~Contains(p, "%")
  PROVE  ~Contains(w, "%")
<1>1. PICK o \in Path, c \in Path : p = o \o (w \o c)
  BY DEF Around
<1> DEFINE v == w \o c
<1>2. /\ Len(o) \in Nat /\ Len(w) \in Nat /\ Len(c) \in Nat
      /\ v \in Path /\ Len(v) = Len(w) + Len(c)
      /\ \A i \in 1 .. Len(w) + Len(c) : v[i] = IF i <= Len(w) THEN w[i] ELSE c[i - Len(w)]
  BY ConcatProperties, LenProperties DEF Path
<1> HIDE DEF v
<1>3. /\ Len(o \o v) = Len(o) + Len(v)
      /\ \A i \in 1 .. Len(o) + Len(v) : (o \o v)[i] = IF i <= Len(o) THEN o[i] ELSE v[i - Len(o)]
  <2>1. o \in Seq(STRING) /\ v \in Seq(STRING)
    BY <1>2 DEF Path
  <2>2. QED
    BY <2>1, ConcatProperties
<1>4. ASSUME NEW i \in 1 .. Len(w)
      PROVE  w[i] # "%"
  <2>1. /\ i \in 1 .. Len(w) + Len(c) /\ i <= Len(w)
        /\ Len(o) + i \in 1 .. Len(o) + Len(v) /\ ~(Len(o) + i <= Len(o))
        /\ (Len(o) + i) - Len(o) = i
    BY <1>2
  <2>2. (o \o v)[Len(o) + i] = w[i]
    BY <1>2, <1>3, <2>1
  <2>3. Len(o) + i \in 1 .. Len(p) /\ p[Len(o) + i] = w[i]
    BY <1>1, <1>3, <2>1, <2>2 DEF v
  <2>4. QED
    BY <2>3 DEF Contains
<1>5. QED
  BY <1>4 DEF Contains

\* may_escape_prefix finds a dot segment that stands between separators.
LEMMA DotFound ==
  ASSUME NEW p \in Path, NEW t \in Path, t \in DotSegment, Around(p, t)
  PROVE  \E s \in Range(Segments(p, Slashes)) : WithoutParams(s) \in DotSegment
<1>1. PICK o \in Path, c \in Path : Opens(o) /\ Closes(c) /\ p = o \o (t \o c)
  BY DEF Around
<1>2. PICK e \in Path, d \in Path : c = e \o d /\ Free(e, Slashes) /\ Cut(d, Slashes)
  BY Split
<1> DEFINE s == t \o e
<1>3. /\ \A i \in 1 .. Len(t) : t[i] = "."
      /\ Free(t, Slashes) /\ Free(t, {";"})
  <2>1. \A i \in 1 .. Len(t) : t[i] = "."
    BY DEF DotSegment
  <2>2. QED
    BY <2>1 DEF Free, Slashes
<1>4. s \in Path /\ t \o c = s \o d
  <2>1. (t \o e) \o d = t \o (e \o d)
    BY PathAssociative, SMTT(60)
  <2>2. QED
    BY <1>2, <2>1, PathConcat
<1>5. Free(s, Slashes)
  <2>1. /\ Len(t) \in Nat /\ Len(e) \in Nat /\ Len(s) = Len(t) + Len(e)
        /\ \A i \in 1 .. Len(t) + Len(e) : s[i] = IF i <= Len(t) THEN t[i] ELSE e[i - Len(t)]
    BY ConcatProperties, LenProperties DEF Path
  <2> HIDE DEF s
  <2>2. ASSUME NEW i \in 1 .. Len(s) PROVE s[i] \notin Slashes
    <3>1. CASE i <= Len(t)
      <4>1. i \in 1 .. Len(t)
        BY <2>1, <3>1
      <4>2. QED
        BY <1>3, <2>1, <3>1, <4>1 DEF Free
    <3>2. CASE ~(i <= Len(t))
      <4>1. i - Len(t) \in 1 .. Len(e)
        BY <2>1, <3>2
      <4>2. QED
        BY <1>2, <2>1, <3>2, <4>1 DEF Free
    <3>3. QED
      BY <3>1, <3>2
  <2>3. QED
    BY <2>2 DEF Free
<1>6. WithoutParams(s) = t
  <2>1. Cut(e, {";"})
    <3>1. CASE e = <<>>
      BY <3>1 DEF Cut
    <3>2. CASE e # <<>>
      <4>1. e \in Seq(STRING) /\ d \in Seq(STRING)
        BY DEF Path
      <4>2. Len(e) \in Nat \ {0} /\ Len(d) \in Nat
        BY <3>2, <4>1, EmptySeq, LenProperties
      <4>3. 1 \in 1 .. Len(e) + Len(d) /\ 1 <= Len(e) /\ 1 \in 1 .. Len(e)
        BY <4>2
      <4>4. c[1] = e[1] /\ Len(c) = Len(e) + Len(d)
        BY <1>2, <4>1, <4>3, ConcatProperties
      <4>5. c # <<>>
        BY <4>2, <4>4, EmptySeq
      <4>6. e[1] \notin Slashes /\ c[1] \in Slashes \cup {";"}
        BY <1>1, <1>2, <4>3, <4>5 DEF Free, Closes, Cut
      <4>7. QED
        BY <4>4, <4>6 DEF Cut
    <3>3. QED
      BY <3>1, <3>2
  <2>2. QED
    BY <1>3, <2>1, ParamsDropped
<1> HIDE DEF s
<1>7. s \in Range(Segments(s \o d, Slashes)) /\ s \o d \in Path
  <2>1. First(s, s \o d, Slashes)
    BY <1>2, <1>4, <1>5, FirstSegment
  <2>2. PICK rest \in Seq(Path) : Segments(s \o d, Slashes) = <<s>> \o rest
    BY <2>1 DEF First
  <2>3. QED
    BY <1>4, <2>2, FirstOfConcat, PathConcat
<1> DEFINE v == s \o d
<1>8. v \in Path /\ p = o \o v /\ s \in Range(Segments(v, Slashes))
  BY <1>1, <1>4, <1>7
<1> HIDE DEF v
<1>9. s \in Range(Segments(p, Slashes))
  <2>1. CASE o = <<>>
    BY <1>8, <2>1, PathConcat
  <2>2. CASE o # <<>>
    <3>1. PICK a \in Path, x \in STRING : x \in Slashes /\ o = Append(a, x)
      BY <1>1, <2>2 DEF Opens
    <3>2. p = Join(a, x, v)
      BY <1>8, <3>1 DEF Join
    <3>3. SplitAt(a, x, v, Slashes)
      BY <1>8, <3>1, SegmentsJoin
    <3>4. /\ Segments(p, Slashes) = Segments(a, Slashes) \o Segments(v, Slashes)
          /\ Segments(a, Slashes) \in Seq(Path) /\ Segments(v, Slashes) \in Seq(Path)
      BY <1>8, <3>2, <3>3, PiecesType DEF SplitAt
    <3>5. QED
      BY <1>8, <3>4, RangeConcatenation
  <2>3. QED
    BY <2>1, <2>2
<1>10. QED
  BY <1>6, <1>9

\* What a server splits into segments, and what it makes of each.
Taken(p, server) ==
  IF server.splitsFirst THEN Segments(p, server.separators)
                        ELSE Segments(DecodeTimes(p, server.decodes), server.separators)

Kept(s, server) == IF server.params THEN WithoutParams(s) ELSE s

Treated(s, server) ==
  IF server.splitsFirst THEN DecodeTimes(Kept(s, server), server.decodes) ELSE Kept(s, server)

LEMMA ServerType ==
  ASSUME NEW server \in Server
  PROVE  /\ server.decodes \in {0, 1, 2} /\ server.splitsFirst \in BOOLEAN
         /\ server.params \in BOOLEAN
         /\ server.separators \subseteq Slashes /\ "/" \in server.separators
  BY DEF Server, Slashes

LEMMA DecodeTimesIs ==
  ASSUME NEW p \in Path
  PROVE  /\ DecodeTimes(p, 0) = p
         /\ DecodeTimes(p, 1) = Decode(p)
         /\ DecodeTimes(p, 2) = Decode(Decode(p))
         /\ \A n \in {0, 1, 2} : DecodeTimes(p, n) \in Path
<1>1. Decode(p) \in Path /\ Decode(Decode(p)) \in Path
  BY DecodedType
<1>2. QED
  BY <1>1 DEF DecodeTimes

LEMMA TakenType ==
  ASSUME NEW p \in Path, NEW server \in Server
  PROVE  Taken(p, server) \in Seq(Path) /\ Taken(p, server) # <<>>
<1>1. DecodeTimes(p, server.decodes) \in Path
  BY ServerType, DecodeTimesIs
<1> DEFINE S == server.separators
           q == DecodeTimes(p, server.decodes)
<1>2. q \in Path
  BY <1>1
<1> HIDE DEF S, q
<1>3. /\ Segments(p, S) \in Seq(Path) /\ Segments(p, S) # <<>>
      /\ Segments(q, S) \in Seq(Path) /\ Segments(q, S) # <<>>
  BY <1>2, SegmentsSome
<1>4. QED
  BY <1>3 DEF Taken, S, q

LEMMA TreatedType ==
  ASSUME NEW s \in Path, NEW server \in Server
  PROVE  Kept(s, server) \in Path /\ Treated(s, server) \in Path
<1>1. Kept(s, server) \in Path
  BY ParamsSplit DEF Kept
<1>2. DecodeTimes(Kept(s, server), server.decodes) \in Path
  BY <1>1, ServerType, DecodeTimesIs
<1>3. QED
  BY <1>1, <1>2 DEF Treated

IsReading(r, p, server) ==
  /\ r \in Seq(Path) /\ r # <<>> /\ Len(r) = Len(Taken(p, server)) /\ Len(r) \in Nat
  /\ \A k \in 1 .. Len(r) : r[k] = Treated(Taken(p, server)[k], server)

LEMMA ReadingType ==
  ASSUME NEW p \in Path, NEW server \in Server
  PROVE  IsReading(ReadSegments(p, server), p, server)
<1> DEFINE t == Taken(p, server)
           r == [k \in DOMAIN t |-> Treated(t[k], server)]
<1>1. ReadSegments(p, server) = r
  BY DEF ReadSegments, Taken, Treated, Kept
<1>2. /\ t \in Seq(Path) /\ Len(t) \in Nat \ {0} /\ DOMAIN t = 1 .. Len(t)
      /\ \A k \in 1 .. Len(t) : t[k] \in Path
  BY TakenType, EmptySeq, LenProperties, ElementOfSeq
<1> HIDE DEF t
<1>3. \A k \in 1 .. Len(t) : Treated(t[k], server) \in Path
  BY <1>2, TreatedType
<1>4. r \in Seq(Path) /\ Len(r) = Len(t)
  BY <1>2, <1>3
<1>5. r # <<>>
  BY <1>2, <1>4, EmptySeq
<1>6. \A k \in 1 .. Len(t) : r[k] = Treated(t[k], server)
  BY <1>2
<1> HIDE DEF r
<1>7. QED
  BY <1>1, <1>2, <1>4, <1>5, <1>6 DEF IsReading, t

LEMMA DotPlain ==
  ASSUME NEW t \in Path, t \in DotSegment
  PROVE  Decode(t) = t
<1>1. \A i \in 1 .. Len(t) : t[i] = "."
  BY DEF DotSegment
<1>2. ~Contains(t, "%")
  BY <1>1 DEF Contains
<1>3. QED
  BY <1>2, DecodePlain

\* A server that finds a dot segment finds it in the decoded path.
LEMMA DotAround ==
  ASSUME NEW p \in Path, NEW server \in Server, ~Contains(Decode(p), "%"),
         NEW t \in Range(ReadSegments(p, server)), t \in DotSegment
  PROVE  t \in Path /\ Around(Decode(p), t)
<1> DEFINE r == ReadSegments(p, server)
           S == server.separators
           n == server.decodes
<1>1. IsReading(r, p, server)
  BY ReadingType
<1> HIDE DEF r
<1>2. PICK k \in 1 .. Len(r) : t = r[k]
  BY <1>1, LenProperties DEF Range, r, IsReading
<1> DEFINE s == Taken(p, server)[k]
           w == Kept(s, server)
<1>3. /\ t \in Path /\ t = Treated(s, server)
      /\ s \in Path /\ s \in Range(Taken(p, server))
  <2>1. t \in Path /\ t = Treated(s, server) /\ k \in 1 .. Len(Taken(p, server))
    BY <1>1, <1>2, ElementOfSeq DEF IsReading
  <2>2. k \in DOMAIN Taken(p, server) /\ s \in Path
    BY <2>1, TakenType, LenProperties, ElementOfSeq
  <2>3. QED
    BY <2>1, <2>2 DEF Range
<1> HIDE DEF s
<1>4. S \subseteq Slashes /\ n \in {0, 1, 2} /\ Decode(p) \in Path
  BY ServerType, DecodedType
<1> HIDE DEF S
<1>5. w \in Path
  BY <1>3, TreatedType
<1>6. ASSUME NEW q \in Path, s \in Range(Segments(q, S))
      PROVE  Around(q, w)
  <2>1. Around(q, s)
    BY <1>4, <1>6, SegmentAround
  <2>2. Around(q, WithoutParams(s))
    BY <1>3, <2>1, ParamsAround
  <2>3. QED
    BY <2>1, <2>2 DEF Kept
<1> HIDE DEF w
<1>7. CASE server.splitsFirst
  <2>1. Around(p, w) /\ t = DecodeTimes(w, n)
    BY <1>3, <1>6, <1>7 DEF Taken, Treated, S, w
  <2>2. Around(Decode(p), Decode(w)) /\ Decode(w) \in Path
    BY <1>5, <2>1, DecodeAround, DecodedType
  <2>3. CASE n = 0
    <3>1. t = w
      BY <1>5, <2>1, <2>3, DecodeTimesIs
    <3>2. QED
      BY <1>3, <2>2, <3>1, DotPlain
  <2>4. CASE n = 1
    BY <1>3, <1>5, <2>1, <2>2, <2>4, DecodeTimesIs
  <2>5. CASE n = 2
    <3>1. t = Decode(Decode(w))
      BY <1>5, <2>1, <2>5, DecodeTimesIs
    <3>2. ~Contains(Decode(w), "%")
      BY <1>4, <2>2, AroundPlain
    <3>3. QED
      BY <1>3, <2>2, <3>1, <3>2, DecodePlain
  <2>6. QED
    BY <1>4, <2>3, <2>4, <2>5
<1>8. CASE ~server.splitsFirst
  <2>1. t = w
    BY <1>3, <1>8 DEF Treated, w
  <2>2. DecodeTimes(p, n) \in Path
    BY <1>4, DecodeTimesIs
  <2>3. Around(DecodeTimes(p, n), t)
    BY <1>3, <1>6, <1>8, <2>1, <2>2 DEF Taken, S
  <2>4. CASE n = 0
    <3>1. Around(p, t)
      BY <2>3, <2>4, DecodeTimesIs
    <3>2. Around(Decode(p), Decode(t))
      BY <1>3, <3>1, DecodeAround
    <3>3. QED
      BY <1>3, <3>2, DotPlain
  <2>5. CASE n = 1
    BY <1>3, <2>3, <2>5, DecodeTimesIs
  <2>6. CASE n = 2
    <3>1. DecodeTimes(p, n) = Decode(p)
      BY <1>4, <2>6, DecodeTimesIs, DecodePlain
    <3>2. QED
      BY <1>3, <2>3, <3>1
  <2>7. QED
    BY <1>4, <2>4, <2>5, <2>6
<1>9. QED
  BY <1>7, <1>8, ServerType

\* What may_escape_prefix lets through has no dot segment for any server.
LEMMA NoDots ==
  ASSUME NEW p \in Path, ~MayEscapePrefix(p), NEW server \in Server,
         NEW t \in Range(ReadSegments(p, server))
  PROVE  t \notin DotSegment
<1>1. SUFFICES ASSUME t \in DotSegment PROVE FALSE
  OBVIOUS
<1>2. ~Contains(Decode(p), "%") /\ Decode(p) \in Path
  BY DecodedType DEF MayEscapePrefix
<1>3. t \in Path /\ Around(Decode(p), t)
  BY <1>1, <1>2, DotAround
<1>4. \E s \in Range(Segments(Decode(p), Slashes)) : WithoutParams(s) \in DotSegment
  BY <1>1, <1>2, <1>3, DotFound
<1>5. QED
  BY <1>4 DEF MayEscapePrefix, Slashes

\* And what it refuses has an escape left, or a dot segment for some server.
LEMMA RefusedFor ==
  ASSUME NEW p \in Path, MayEscapePrefix(p), ~Contains(Decode(p), "%")
  PROVE  \E server \in Server : \E t \in Range(ReadSegments(p, server)) : t \in DotSegment
<1> DEFINE server == [decodes |-> 1, splitsFirst |-> FALSE, separators |-> Slashes, params |-> TRUE]
           r == ReadSegments(p, server)
<1>1. server \in Server /\ ~server.splitsFirst /\ server.params /\ server.decodes = 1
      /\ server.separators = Slashes
  BY DEF Server, Slashes
<1> HIDE DEF server
<1>2. PICK s \in Range(Segments(Decode(p), Slashes)) : WithoutParams(s) \in DotSegment
  BY DEF MayEscapePrefix, Slashes
<1>3. Taken(p, server) = Segments(Decode(p), Slashes)
  BY <1>1, DecodeTimesIs DEF Taken
<1>4. PICK k \in DOMAIN Taken(p, server) : s = Taken(p, server)[k]
  BY <1>2, <1>3 DEF Range
<1>5. IsReading(r, p, server)
  BY <1>1, ReadingType
<1> HIDE DEF r
<1>6. k \in 1 .. Len(r) /\ k \in DOMAIN r
  BY <1>1, <1>4, <1>5, TakenType, LenProperties DEF IsReading
<1>7. r[k] = WithoutParams(s)
  BY <1>1, <1>4, <1>5, <1>6 DEF IsReading, Treated, Kept
<1>8. r[k] \in Range(r) /\ r[k] \in DotSegment
  BY <1>2, <1>6, <1>7 DEF Range
<1>9. QED
  BY <1>1, <1>8 DEF r

-----------------------------------------------------------------------------
\* Where segments lead

LEMMA DecodeTimesJoin ==
  ASSUME NEW a \in Path, NEW c \in STRING, c = "/", NEW b \in Path, NEW n \in {0, 1, 2}
  PROVE  DecodeTimes(Join(a, c, b), n) = Join(DecodeTimes(a, n), c, DecodeTimes(b, n))
<1>1. c \in Plain
  BY SpecialPlain
<1> DEFINE q == Join(a, c, b)
<1>2. q \in Path /\ Decode(a) \in Path /\ Decode(b) \in Path
  BY JoinedPath, DecodedType
<1>3. Decode(q) = Join(Decode(a), c, Decode(b))
  BY <1>1, DecodeJoin
<1>4. Decode(Join(Decode(a), c, Decode(b))) = Join(Decode(Decode(a)), c, Decode(Decode(b)))
  BY <1>1, <1>2, DecodeJoin
<1> HIDE DEF q
<1>5. CASE n = 0
  BY <1>2, <1>5, DecodeTimesIs DEF q
<1>6. CASE n = 1
  BY <1>2, <1>3, <1>6, DecodeTimesIs DEF q
<1>7. CASE n = 2
  <2>1. DecodeTimes(q, 2) = Decode(Decode(q))
    BY <1>2, DecodeTimesIs
  <2>2. DecodeTimes(a, 2) = Decode(Decode(a)) /\ DecodeTimes(b, 2) = Decode(Decode(b))
    BY DecodeTimesIs
  <2>3. QED
    BY <1>3, <1>4, <1>7, <2>1, <2>2 DEF q
<1>8. QED
  BY <1>5, <1>6, <1>7

LEMMA TakenJoin ==
  ASSUME NEW a \in Path, NEW c \in STRING, c = "/", NEW b \in Path, NEW server \in Server
  PROVE  Taken(Join(a, c, b), server) = Taken(a, server) \o Taken(b, server)
<1> DEFINE S == server.separators
           n == server.decodes
           x == DecodeTimes(a, n)
           y == DecodeTimes(b, n)
<1>1. c \in S /\ n \in {0, 1, 2}
  BY ServerType
<1>2. x \in Path /\ y \in Path /\ DecodeTimes(Join(a, c, b), n) = Join(x, c, y)
  BY <1>1, DecodeTimesIs, DecodeTimesJoin
<1> HIDE DEF S, x, y
<1>3. SplitAt(a, c, b, S) /\ SplitAt(x, c, y, S)
  BY <1>1, <1>2, SegmentsJoin
<1>4. /\ Segments(Join(a, c, b), S) = Segments(a, S) \o Segments(b, S)
      /\ Segments(Join(x, c, y), S) = Segments(x, S) \o Segments(y, S)
  BY <1>3 DEF SplitAt
<1>5. QED
  BY <1>2, <1>4 DEF Taken, S, x, y

\* A server reads the two sides of a "/" on their own.
LEMMA ReadJoin ==
  ASSUME NEW a \in Path, NEW c \in STRING, c = "/", NEW b \in Path, NEW server \in Server
  PROVE  ReadSegments(Join(a, c, b), server) = ReadSegments(a, server) \o ReadSegments(b, server)
<1> DEFINE p == Join(a, c, b)
           ta == Taken(a, server)
           tb == Taken(b, server)
           ra == ReadSegments(a, server)
           rb == ReadSegments(b, server)
           r == ReadSegments(p, server)
<1>1. p \in Path
  BY JoinedPath
<1>2. Taken(p, server) = ta \o tb
  BY TakenJoin
<1> HIDE DEF p
<1>3. IsReading(r, p, server) /\ IsReading(ra, a, server) /\ IsReading(rb, b, server)
  BY <1>1, ReadingType
<1>4. ta \in Seq(Path) /\ tb \in Seq(Path)
  BY TakenType
<1> HIDE DEF r, ra, rb
<1>5. /\ r \in Seq(Path) /\ ra \in Seq(Path) /\ rb \in Seq(Path)
      /\ Len(r) = Len(ta \o tb) /\ Len(ra) = Len(ta) /\ Len(rb) = Len(tb)
      /\ Len(ra) \in Nat /\ Len(rb) \in Nat
      /\ \A k \in 1 .. Len(r) : r[k] = Treated((ta \o tb)[k], server)
      /\ \A k \in 1 .. Len(ra) : ra[k] = Treated(ta[k], server)
      /\ \A k \in 1 .. Len(rb) : rb[k] = Treated(tb[k], server)
  BY <1>2, <1>3 DEF IsReading
<1> HIDE DEF ta, tb
<1>6. /\ Len(ta \o tb) = Len(ta) + Len(tb)
      /\ \A k \in 1 .. Len(ta) + Len(tb) :
           (ta \o tb)[k] = IF k <= Len(ta) THEN ta[k] ELSE tb[k - Len(ta)]
  BY <1>4, ConcatProperties
<1>7. /\ ra \o rb \in Seq(Path) /\ Len(ra \o rb) = Len(ra) + Len(rb)
      /\ \A k \in 1 .. Len(ra) + Len(rb) :
           (ra \o rb)[k] = IF k <= Len(ra) THEN ra[k] ELSE rb[k - Len(ra)]
  <2>1. ra \in Seq(Path) /\ rb \in Seq(Path)
    BY <1>5
  <2>2. QED
    BY <2>1, ConcatProperties
<1>8. ASSUME NEW k \in 1 .. Len(r)
      PROVE  r[k] = (ra \o rb)[k]
  <2>1. k \in 1 .. Len(ta) + Len(tb) /\ k \in 1 .. Len(ra) + Len(rb)
    BY <1>5, <1>6
  <2>2. CASE k <= Len(ta)
    <3>1. k \in 1 .. Len(ra) /\ k <= Len(ra)
      BY <1>5, <2>1, <2>2
    <3>2. QED
      BY <1>5, <1>6, <1>7, <2>1, <2>2, <3>1
  <2>3. CASE ~(k <= Len(ta))
    <3>1. k - Len(ta) \in 1 .. Len(rb) /\ ~(k <= Len(ra)) /\ k - Len(ra) = k - Len(ta)
      BY <1>5, <2>1, <2>3
    <3>2. QED
      BY <1>5, <1>6, <1>7, <2>1, <2>3, <3>1
  <2>4. QED
    BY <2>2, <2>3
<1>9. Len(r) = Len(ra \o rb)
  BY <1>5, <1>6, <1>7
<1>10. r = ra \o rb
  BY <1>5, <1>7, <1>8, <1>9, SeqEqual
<1>11. QED
  BY <1>10 DEF r, ra, rb, p

LEMMA ReadNone ==
  ASSUME NEW server \in Server
  PROVE  ReadSegments(<<>>, server) = << <<>> >>
<1> DEFINE e == <<>>
           S == server.separators
           n == server.decodes
           r == ReadSegments(e, server)
<1>1. e \in Path /\ Decode(e) = e /\ \A T : Free(e, T) /\ Cut(e, T)
  BY ShortPath, DecodeNone DEF Free, Cut
<1>2. e \o e = e
  BY <1>1, PathConcat
<1> HIDE DEF e
<1>3. DecodeTimes(e, n) = e
  BY <1>1, ServerType, DecodeTimesIs
<1>4. WithoutParams(e) = e
  BY <1>1, <1>2, ParamsDropped
<1>5. Treated(e, server) = e
  BY <1>3, <1>4 DEF Treated, Kept
<1>6. Segments(e, S) = << e >>
  BY <1>1, SegmentsFree
<1>7. Taken(e, server) = << e >>
  BY <1>3, <1>6 DEF Taken
<1>8. IsReading(r, e, server)
  BY <1>1, ReadingType
<1> HIDE DEF r
<1>9. Len(<< e >>) = 1 /\ << e >>[1] = e /\ << e >> \in Seq(Path)
  BY <1>1
<1>10. r \in Seq(Path) /\ Len(r) = 1 /\ r[1] = e
  BY <1>5, <1>7, <1>8, <1>9 DEF IsReading
<1>11. r = << e >>
  <2> DEFINE u == << e >>
  <2>1. Len(u) = 1 /\ u[1] = e /\ u \in Seq(Path)
    BY <1>9
  <2> HIDE DEF u
  <2>2. r = u
    BY <1>10, <2>1, SeqEqual
  <2>3. QED
    BY <2>2 DEF u
<1>12. QED
  BY <1>11 DEF r, e

\* Without dot segments the place is what the segments after the first say.
LEMMA PlaceDirect ==
  ASSUME NEW segments \in Seq(Path), segments # <<>>,
         \A t \in Range(segments) : t \notin DotSegment
  PROVE  PlaceOf(segments) = Tail(segments)
<1> DEFINE N == Len(segments)
           Body(g) == [n \in 1 .. N |-> IF n = 1 THEN <<>> ELSE Enter(g[n - 1], segments[n])]
           g == CHOOSE g : g = Body(g)
           h == [n \in 1 .. N |-> SubSeq(segments, 2, n)]
<1>1. N \in Nat \ {0} /\ DOMAIN segments = 1 .. N
  BY EmptySeq, LenProperties
<1>2. PlaceOf(segments) = g[N]
  BY DEF PlaceOf
<1>3. \A place, n : n \in 1 .. N => Enter(place, segments[n]) = Append(place, segments[n])
  <2>1. ASSUME NEW n \in 1 .. N, NEW place
        PROVE  Enter(place, segments[n]) = Append(place, segments[n])
    <3>1. segments[n] \notin DotSegment
      BY <1>1 DEF Range
    <3>2. QED
      BY <3>1 DEF Enter, DotSegment
  <2>2. QED
    BY <2>1
<1> HIDE DEF N
<1>4. h[1] = <<>>
  BY <1>1, SubSeqEmpty
<1>5. ASSUME NEW n \in 1 .. N, n # 1
      PROVE  h[n] = Append(h[n - 1], segments[n])
  <2>1. n \in Nat /\ n - 1 \in 1 .. N /\ n \in 2 .. N
    BY <1>1, <1>5
  <2>2. SubSeq(segments, 2, n) = Append(SubSeq(segments, 2, n - 1), segments[n])
    BY <2>1 DEF N
  <2>3. QED
    BY <2>1, <2>2
<1>6. h = Body(h)
  <2>1. \A n \in 1 .. N : n # 1 => h[n] = Enter(h[n - 1], segments[n])
    BY <1>3, <1>5
  <2>2. h = [n \in 1 .. N |-> h[n]]
    OBVIOUS
  <2> HIDE DEF h
  <2>3. QED
    BY <1>4, <2>1, <2>2
<1>7. g = Body(g)
  BY <1>6
<1> HIDE DEF g, h
<1>8. g[N] = h[N]
  <2>1. 1 \in Nat /\ N \in Nat /\ 1 <= N /\ 1 \in 1 .. N
    BY <1>1
  <2>2. GoAlike(g, h, 1, N)
    <3>1. g[1] = h[1]
      BY <1>4, <1>7, <2>1
    <3>2. \A n \in 1 .. N : n # 1 => g[n] = Append(g[n - 1], segments[n])
      BY <1>3, <1>7
    <3>3. QED
      BY <1>5, <3>1, <3>2 DEF GoAlike
  <2>3. QED
    BY <2>1, <2>2, OneFunction
<1>9. h[N] = SubSeq(segments, 2, N)
  BY <1>1 DEF h
<1>10. QED
  BY <1>2, <1>8, <1>9, TailIsSubSeq DEF N

-----------------------------------------------------------------------------
\* The prefix holds the path

LEMMA PrefixOfConcat ==
  ASSUME NEW X, NEW s \in Seq(X), NEW u \in Seq(X)
  PROVE  IsPrefix(s, s \o u)
<1> DEFINE t == s \o u
           n == Len(s)
<1>1. /\ t \in Seq(X) /\ n \in Nat /\ Len(u) \in Nat /\ Len(t) = n + Len(u)
      /\ \A i \in 1 .. n + Len(u) : t[i] = IF i <= n THEN s[i] ELSE u[i - n]
  BY ConcatProperties, LenProperties
<1> HIDE DEF t
<1>2. n <= Len(t) /\ \A i \in 1 .. n : i \in 1 .. n + Len(u) /\ i <= n /\ i \in 1 .. Len(t)
  BY <1>1
<1>3. \A i \in 1 .. n : t[i] = s[i]
  BY <1>1, <1>2
<1>4. SubSeq(t, 1, n) = SubSeq(s, 1, n)
  BY <1>1, <1>2, <1>3
<1>5. QED
  BY <1>2, <1>4 DEF IsPrefix, t

LEMMA PrefixSplit ==
  ASSUME NEW X, NEW s \in Seq(X), NEW t \in Seq(X), IsPrefix(s, t)
  PROVE  \E u \in Seq(X) : t = s \o u /\ Len(t) = Len(s) + Len(u) /\ Len(u) \in Nat
<1> DEFINE n == Len(s)
           N == Len(t)
           u == SubSeq(t, n + 1, N)
<1>1. n \in Nat /\ N \in Nat /\ n <= N /\ SubSeq(t, 1, n) = s
  BY LenProperties, SubSeqFull DEF IsPrefix
<1>2. 1 \in 1 .. N + 1 /\ n \in 1 - 1 .. N /\ N \in n .. N
  BY <1>1
<1>3. SubSeq(t, 1, n) \o SubSeq(t, n + 1, N) = SubSeq(t, 1, N)
  BY <1>2, ConcatAdjacentSubSeq
<1>4. t = s \o u
  BY <1>1, <1>3, SubSeqFull
<1>5. u \in Seq(X)
  BY <1>1
<1> HIDE DEF u
<1>6. QED
  BY <1>4, <1>5, ConcatProperties, LenProperties

\* A prefix without its last element is a prefix.
LEMMA PrefixFront ==
  ASSUME NEW X, NEW s \in Seq(X), NEW t \in Seq(X), IsPrefix(s, t), s # <<>>
  PROVE  IsPrefix(Front(s), t)
<1>1. PICK f \in Seq(X), x \in X : s = Append(f, x)
  BY SequenceEmptyOrAppend
<1>2. /\ Len(s) = Len(f) + 1 /\ Len(f) \in Nat
      /\ \A i \in 1 .. Len(f) : s[i] = f[i]
  BY <1>1, AppendProperties, LenProperties
<1>3. Front(s) = f
  <2>1. Len(s) - 1 = Len(f)
    BY <1>2
  <2>2. Len(f) \in 0 .. Len(s) /\ \A i \in 1 .. Len(f) : i \in 1 .. Len(s)
    BY <1>2
  <2>3. SubSeq(s, 1, Len(f)) = f
    BY <1>2, <2>2
  <2>4. QED
    BY <2>1, <2>3 DEF Front
<1>4. PICK u \in Seq(X) : t = s \o u
  BY PrefixSplit
<1>5. <<x>> \in Seq(X) /\ s = f \o <<x>>
  BY <1>1, AppendIsConcat
<1>6. t = f \o (<<x>> \o u) /\ <<x>> \o u \in Seq(X)
  BY <1>4, <1>5, ConcatAssociative, ConcatProperties, SMTT(60)
<1>7. QED
  BY <1>3, <1>6, PrefixOfConcat

\* What a prefix names is a prefix of what lies below its place.
LEMMA NamedHolds ==
  ASSUME NEW segments, NEW below \in Seq(Path),
         PlaceOf(segments) \in Seq(Path), IsPrefix(PlaceOf(segments), below)
  PROVE  IsPrefix(PlaceNamed(segments), below)
<1>1. CASE PlaceOf(segments) # <<>> /\ Last(PlaceOf(segments)) = <<>>
  BY <1>1, PrefixFront DEF PlaceNamed
<1>2. CASE ~(PlaceOf(segments) # <<>> /\ Last(PlaceOf(segments)) = <<>>)
  BY <1>2 DEF PlaceNamed
<1>3. QED
  BY <1>1, <1>2

\* The parts of a path without dot segments have none.
LEMMA PartsDirect ==
  ASSUME NEW x \in Seq(Path), NEW y \in Seq(Path), x # <<>>,
         \A t \in Range(x \o y) : t \notin DotSegment
  PROVE  /\ PlaceOf(x) = Tail(x) /\ Tail(x) \in Seq(Path)
         /\ PlaceOf(x \o y) = Tail(x) \o y
<1>1. \A t \in Range(x) : t \notin DotSegment
  BY RangeConcatenation
<1>2. PlaceOf(x) = Tail(x) /\ Tail(x) \in Seq(Path)
  BY <1>1, PlaceDirect, HeadTailProperties
<1>3. x \o y \in Seq(Path) /\ x \o y # <<>>
  BY ConcatProperties, ConcatEqualIffEmpty
<1>4. PlaceOf(x \o y) = Tail(x \o y)
  BY <1>3, PlaceDirect
<1>5. Tail(x \o y) = Tail(x) \o y
  <2>1. x = <<Head(x)>> \o Tail(x) /\ Head(x) \in Path /\ <<Head(x)>> \in Seq(Path)
    BY HeadTailProperties
  <2> DEFINE h == Head(x)
             z == Tail(x)
  <2>2. h \in Path /\ z \in Seq(Path) /\ <<h>> \in Seq(Path) /\ x = <<h>> \o z
    BY <1>2, <2>1
  <2> HIDE DEF h, z
  <2>3. x \o y = <<h>> \o (z \o y) /\ z \o y \in Seq(Path)
    BY <2>2, ConcatAssociative, ConcatProperties
  <2>4. Tail(<<h>> \o (z \o y)) = z \o y
    BY <2>2, <2>3
  <2>5. QED
    BY <2>3, <2>4 DEF z
<1>6. QED
  BY <1>2, <1>4, <1>5

\* The characters of a path are strings.
LEMMA SlashAfter ==
  ASSUME NEW p \in Path, NEW prefix \in Path, PathHasPrefix(p, prefix), p # prefix
  PROVE  \E a \in Path, c \in STRING, b \in Path :
           /\ c = "/" /\ p = Join(a, c, b)
           /\ prefix = a \/ prefix = Append(a, c)
<1> DEFINE X == STRING
           n == Len(prefix)
<1>1. prefix \in Seq(X) /\ p \in Seq(X)
  BY DEF Path
<1> HIDE DEF X
<1>2. PICK u \in Seq(X) : p = prefix \o u /\ Len(p) = Len(prefix) + Len(u) /\ Len(u) \in Nat
  BY <1>1, PrefixSplit DEF PathHasPrefix
<1>3. u # <<>> /\ Len(u) \in Nat \ {0} /\ n \in Nat
  BY <1>1, <1>2, ConcatEmptySeq, EmptySeq, LenProperties
<1>4. u = <<Head(u)>> \o Tail(u) /\ Head(u) \in X /\ Tail(u) \in Seq(X) /\ Head(u) = u[1]
  BY <1>3, HeadTailProperties
<1>5. p[n + 1] = Head(u)
  <2>1. n + 1 \in 1 .. n + Len(u) /\ ~(n + 1 <= n) /\ (n + 1) - n = 1
    BY <1>3
  <2>2. p[n + 1] = u[(n + 1) - n]
    BY <1>1, <1>2, <2>1, ConcatProperties
  <2>3. QED
    BY <1>4, <2>1, <2>2
<1>6. CASE p[n + 1] = "/"
  <2>1. <<Head(u)>> \in Seq(X)
    BY <1>4
  <2>2. p = (prefix \o <<Head(u)>>) \o Tail(u)
    BY <1>1, <1>2, <1>4, <2>1, ConcatAssociative, SMTT(60)
  <2>3. p = Join(prefix, Head(u), Tail(u))
    BY <1>1, <1>4, <2>2, AppendIsConcat DEF Join
  <2>4. QED
    BY <1>4, <1>5, <1>6, <2>3 DEF Path, X
<1>7. CASE prefix # <<>> /\ Last(prefix) = "/"
  <2>1. PICK a \in Seq(X), c \in X : prefix = Append(a, c)
    BY <1>1, <1>7, SequenceEmptyOrAppend
  <2>2. c = "/"
    BY <1>7, <2>1, AppendProperties DEF Last
  <2>3. QED
    BY <1>2, <2>1, <2>2 DEF Path, X, Join
<1>8. QED
  BY <1>6, <1>7 DEF PathHasPrefix

\* A path that the prefix of a rule lets through stays under it, whatever the
\* server behind the rule makes of both (rule_matches, handler.rs).
THEOREM PrefixHolds ==
  ASSUME NEW p \in Path, NEW prefix \in Path, PathAllowed(p, prefix)
  PROVE  HeldByPrefix(p, prefix)
<1> SUFFICES ASSUME NEW server \in Server
             PROVE  IsPrefix(PlaceNamed(ReadSegments(prefix, server)),
                             PlaceOf(ReadSegments(p, server)))
  BY DEF HeldByPrefix
<1> DEFINE R(q) == ReadSegments(q, server)
<1>1. /\ \A q \in Path : R(q) \in Seq(Path) /\ R(q) # <<>>
      /\ \A t \in Range(R(p)) : t \notin DotSegment
  <2>1. \A q \in Path : IsReading(R(q), q, server)
    BY ReadingType
  <2>2. QED
    BY <2>1, NoDots DEF IsReading, PathAllowed
<1>2. \A a, b \in Path : \A c \in STRING : c = "/" => R(Join(a, c, b)) = R(a) \o R(b)
  BY ReadJoin
<1>3. R(<<>>) = << <<>> >> /\ <<>> \in Path
  BY ReadNone, ShortPath
<1> HIDE DEF R
<1>4. CASE p = prefix
  <2>1. PlaceOf(R(p)) = Tail(R(p)) /\ Tail(R(p)) \in Seq(Path)
    BY <1>1, PlaceDirect, HeadTailProperties
  <2> DEFINE q == Tail(R(p))
  <2>2. q \in Seq(Path) /\ q \o <<>> = q /\ <<>> \in Seq(Path)
    BY <2>1, ConcatEmptySeq, EmptySeq
  <2> HIDE DEF q
  <2>3. IsPrefix(q, q)
    BY <2>2, PrefixOfConcat
  <2>4. IsPrefix(PlaceNamed(R(p)), PlaceOf(R(p)))
    BY <2>1, <2>3, NamedHolds DEF q
  <2>5. QED
    BY <1>4, <2>4 DEF R
<1>5. CASE p # prefix
  <2>1. PICK a \in Path, c \in STRING, b \in Path :
          c = "/" /\ p = Join(a, c, b) /\ (prefix = a \/ prefix = Append(a, c))
    BY <1>5, SlashAfter DEF PathAllowed
  <2>2. R(p) = R(a) \o R(b)
    BY <1>2, <2>1
  <2> DEFINE x == R(a)
             y == R(b)
             z == Tail(x)
  <2>3. x \in Seq(Path) /\ y \in Seq(Path) /\ x # <<>>
    BY <1>1
  <2>4. /\ PlaceOf(x) = z /\ z \in Seq(Path)
        /\ PlaceOf(R(p)) = z \o y
    <3> HIDE DEF x, y
    <3>1. \A t \in Range(x \o y) : t \notin DotSegment
      BY <1>1, <2>2 DEF x, y
    <3>2. QED
      BY <2>2, <2>3, <3>1, PartsDirect DEF x, y
  <2> HIDE DEF x, y, z
  <2>5. IsPrefix(z, z \o y) /\ z \o y \in Seq(Path)
    BY <2>3, <2>4, PrefixOfConcat, ConcatProperties
  <2>6. CASE prefix = a
    <3>1. IsPrefix(PlaceNamed(x), z \o y)
      BY <2>4, <2>5, NamedHolds
    <3>2. QED
      BY <2>4, <2>6, <3>1 DEF R, x
  <2>7. CASE prefix = Append(a, c)
    <3> DEFINE e == << <<>> >>
    <3>1. prefix = Join(a, c, <<>>)
      BY <2>7, PathConcat DEF Join
    <3>2. R(prefix) = x \o e /\ e \in Seq(Path)
      <4>1. R(Join(a, c, <<>>)) = R(a) \o R(<<>>)
        BY <1>2, <1>3, <2>1
      <4>2. R(<<>>) \in Seq(Path)
        BY <1>1, <1>3
      <4>3. QED
        BY <1>3, <3>1, <4>1, <4>2 DEF x
    <3> HIDE DEF e
    <3>3. PlaceOf(x \o e) = z \o e
      <4>1. \A t \in Range(x) : t \notin DotSegment
        BY <1>1, <2>2, <2>3, RangeConcatenation DEF x, y
      <4>2. \A t \in Range(e) : t = <<>>
        BY DEF Range, e
      <4>3. <<>> \notin DotSegment
        BY DEF DotSegment
      <4>4. Range(x \o e) = Range(x) \cup Range(e)
        BY <2>3, <3>2, RangeConcatenation
      <4>5. \A t \in Range(x \o e) : t \notin DotSegment
        BY <4>1, <4>2, <4>3, <4>4
      <4>6. QED
        BY <2>3, <3>2, <4>5, PartsDirect DEF z
    <3>4. PlaceNamed(x \o e) = z
      <4>1. z \o e = Append(z, <<>>)
        BY <1>3, <2>4, AppendIsConcat DEF e
      <4>2. z \o e # <<>> /\ Last(z \o e) = <<>> /\ Front(z \o e) = z
        BY <1>3, <2>4, <4>1, AppendProperties DEF Last, Front
      <4>3. QED
        BY <3>3, <4>2 DEF PlaceNamed
    <3>5. QED
      BY <2>4, <2>5, <3>2, <3>4 DEF R
  <2>8. QED
    BY <2>1, <2>6, <2>7
<1>6. QED
  BY <1>4, <1>5
=============================================================================
