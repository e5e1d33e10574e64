---------------------------- MODULE SequenceLemmas -----------------------------
(***************************************************************************)
(* Induction over numbers and sequences, and what the recursive definitions  *)
(* of the message builder compute.  The induction theorems of the library    *)
(* take a predicate as a parameter; here the predicate is a set, and the      *)
(* induction rests on the well-foundedness of the natural numbers.           *)
(***************************************************************************)
EXTENDS Integers, SequencesExt, FiniteSetsExt, WellFoundedInduction, SequenceTheorems,
        TLAPS

\* A set of numbers that is not empty has a least element.
LEMMA Least ==
    ASSUME NEW S, S \subseteq Nat, S # {}
    PROVE  \E n \in S : \A m \in S : n <= m
  <1> DEFINE R == {ss \in Nat \X Nat : ss[1] < ss[2]}
  <1>1. IsWellFoundedOn(R, Nat)
    BY NatLessThanWellFounded DEF OpToRel
  <1>2. \E x \in S : \A y \in S : ~(<<y, x>> \in R)
    <2> HIDE DEF R
    <2> QED BY <1>1, WFMin
  <1>3. \A x, y \in S : <<y, x>> \in R <=> y < x
    OBVIOUS
  <1>4. \A x, y \in S : ~(y < x) => x <= y
    OBVIOUS
  <1> QED BY <1>2, <1>3, <1>4

\* Induction over the natural numbers.
LEMMA Induct ==
    ASSUME NEW S, 0 \in S, \A n \in Nat : n \in S => n + 1 \in S
    PROVE  Nat \subseteq S
  <1> SUFFICES ASSUME ~(Nat \subseteq S) PROVE FALSE
    OBVIOUS
  <1> DEFINE C == {n \in Nat : n \notin S}
  <1>1. PICK n \in C : \A m \in C : n <= m
    <2> C \subseteq Nat /\ C # {}
      OBVIOUS
    <2> HIDE DEF C
    <2> QED BY Least
  <1>2. n # 0 /\ n \in Nat
    OBVIOUS
  <1>3. n - 1 \in Nat /\ n - 1 \in S
    BY <1>1, <1>2
  <1> QED BY <1>1, <1>2, <1>3

\* Induction over sequences, built by Append.
LEMMA SeqInduct ==
    ASSUME NEW S, NEW P, <<>> \in P,
           \A s \in Seq(S), x \in S : s \in P => Append(s, x) \in P
    PROVE  Seq(S) \subseteq P
  <1> DEFINE N == {n \in Nat : \A s \in Seq(S) : Len(s) = n => s \in P}
  <1>1. 0 \in N
    OBVIOUS
  <1>2. ASSUME NEW n \in Nat, n \in N PROVE n + 1 \in N
    <2> SUFFICES ASSUME NEW s \in Seq(S), Len(s) = n + 1 PROVE s \in P
      OBVIOUS
    <2>0. s # <<>>
      OBVIOUS
    <2>1. PICK f \in Seq(S), x \in S : s = Append(f, x)
      BY <2>0, SequenceEmptyOrAppend
    <2>2. Len(f) = n
      BY <2>1
    <2> QED BY <1>2, <2>1, <2>2
  <1>3. Nat \subseteq N
    <2> HIDE DEF N
    <2> QED BY <1>1, <1>2, Induct
  <1> QED BY <1>3

\* The least and the greatest element of a set of positions.
LEMMA MinProperty ==
    ASSUME NEW S, S \subseteq Nat, S # {}
    PROVE  Min(S) \in S /\ \A y \in S : Min(S) <= y
  BY Least DEF Min

LEMMA MaxProperty ==
    ASSUME NEW n \in Nat, NEW S, S \subseteq 0 .. n, S # {}
    PROVE  Max(S) \in S /\ \A y \in S : y <= Max(S)
  <1> DEFINE D == {m \in Nat : n - m \in S}
  <1>1. D \subseteq Nat /\ D # {}
    <2> PICK x \in S : TRUE
      OBVIOUS
    <2> x \in Nat /\ n - (n - x) = x /\ n - x \in Nat
      OBVIOUS
    <2> n - x \in D
      OBVIOUS
    <2> QED OBVIOUS
  <1>2. PICK m \in D : \A k \in D : m <= k
    <2> HIDE DEF D
    <2> QED BY <1>1, Least
  <1>3. n - m \in S /\ m \in Nat
    OBVIOUS
  <1>4. ASSUME NEW y \in S PROVE n - m >= y
    <2> y \in Nat /\ n - (n - y) = y /\ n - y \in Nat
      OBVIOUS
    <2> n - y \in D
      OBVIOUS
    <2> m <= n - y
      BY <1>2
    <2> HIDE DEF D
    <2> QED BY <1>3
  <1>5. \E x \in S : \A y \in S : x >= y
    BY <1>3, <1>4
  <1>6. Max(S) \in S /\ \A y \in S : Max(S) >= y
    BY <1>5 DEF Max
  <1> QED BY <1>6

--------------------------------------------------------------------------------
(***************************************************************************)
(* Functions defined by recursion on the number of elements seen so far.     *)
(***************************************************************************)
Rec(f, X, b, G, k) ==
    /\ f \in [0 .. k -> X]
    /\ f[0] = b
    /\ \A n \in 1 .. k : f[n] = G[<<f[n - 1], n>>]

\* There is such a function.
LEMMA RecursionExists ==
    ASSUME NEW X, NEW b \in X, NEW N \in Nat, NEW G,
           \A x \in X, n \in 1 .. N : G[<<x, n>>] \in X
    PROVE  \E f : Rec(f, X, b, G, N)
  <1> DEFINE S == {k \in Nat : k <= N => \E f : Rec(f, X, b, G, k)}
  <1>1. 0 \in S
    <2>1. Rec([n \in 0 .. 0 |-> b], X, b, G, 0)
      BY DEF Rec
    <2> QED BY <2>1
  <1>2. ASSUME NEW k \in Nat, k \in S PROVE k + 1 \in S
    <2> SUFFICES ASSUME k + 1 <= N PROVE \E f : Rec(f, X, b, G, k + 1)
      OBVIOUS
    <2>0. PICK f : Rec(f, X, b, G, k)
      BY <1>2
    <2> DEFINE g == [n \in 0 .. k + 1 |-> IF n <= k THEN f[n] ELSE G[<<f[k], k + 1>>]]
    <2>1. g \in [0 .. k + 1 -> X]
      <3> G[<<f[k], k + 1>>] \in X
        BY <2>0 DEF Rec
      <3> QED BY <2>0 DEF Rec
    <2>2. g[0] = b
      BY <2>0 DEF Rec
    <2>3. ASSUME NEW n \in 1 .. k + 1 PROVE g[n] = G[<<g[n - 1], n>>]
      <3>1. CASE n <= k
        BY <3>1, <2>0 DEF Rec
      <3>2. CASE n = k + 1
        BY <3>2, <2>0 DEF Rec
      <3> QED BY <3>1, <3>2
    <2>4. Rec(g, X, b, G, k + 1)
      <3> HIDE DEF g
      <3> QED BY <2>1, <2>2, <2>3 DEF Rec
    <2> QED BY <2>4
  <1>3. Nat \subseteq S
    <2> HIDE DEF S
    <2> QED BY <1>1, <1>2, Induct
  <1> QED BY <1>3

--------------------------------------------------------------------------------
(***************************************************************************)
(* FlattenSeq.                                                             *)
(***************************************************************************)
Catenation(f, S, seqs) ==
    /\ f \in [0 .. Len(seqs) -> Seq(S)]
    /\ f[0] = <<>>
    /\ \A n \in 1 .. Len(seqs) : f[n] = f[n - 1] \o seqs[n]

LEMMA FlattenUnfold ==
    ASSUME NEW S, NEW seqs \in Seq(Seq(S))
    PROVE  \E f : Catenation(f, S, seqs) /\ FlattenSeq(seqs) = f[Len(seqs)]
  <1> DEFINE N == Len(seqs)
             G == [p \in Seq(S) \X (1 .. N) |-> p[1] \o seqs[p[2]]]
  <1>0. N \in Nat /\ \A n \in 1 .. N : seqs[n] \in Seq(S)
    OBVIOUS
  <1>1. ASSUME NEW x \in Seq(S), NEW n \in 1 .. N
        PROVE  G[<<x, n>>] = x \o seqs[n] /\ G[<<x, n>>] \in Seq(S)
    <2>1. G[<<x, n>>] = x \o seqs[n]
      OBVIOUS
    <2>2. x \o seqs[n] \in Seq(S)
      BY <1>0, ConcatProperties
    <2> HIDE DEF G
    <2> QED BY <2>1, <2>2
  <1>2. PICK f : Rec(f, Seq(S), <<>>, G, N)
    <2> HIDE DEF G, N
    <2> <<>> \in Seq(S)
      OBVIOUS
    <2> QED BY <1>0, <1>1, RecursionExists
  <1>3. Catenation(f, S, seqs)
    <2>1. ASSUME NEW n \in 1 .. N PROVE f[n] = f[n - 1] \o seqs[n]
      <3>1. n - 1 \in 0 .. N
        BY <1>0
      <3>2. f[n - 1] \in Seq(S) /\ f[n] = G[<<f[n - 1], n>>]
        BY <1>2, <3>1 DEF Rec
      <3> QED BY <1>1, <3>2
    <2> QED BY <1>2, <2>1 DEF Rec, Catenation
  <1>4. CASE N = 0
    <2> f[0] = <<>> /\ seqs = <<>>
      BY <1>3, <1>4 DEF Catenation
    <2> QED BY <1>3, <1>4 DEF FlattenSeq
  <1>5. CASE N # 0
    <2> DEFINE E(g) == g = [i \in 1 .. N |-> IF i = 1 THEN seqs[i] ELSE g[i - 1] \o seqs[i]]
               c == CHOOSE g : E(g)
               h == [i \in 1 .. N |-> f[i]]
    <2>1. FlattenSeq(seqs) = c[N]
      BY <1>5 DEF FlattenSeq
    <2>2. E(h)
      <3> SUFFICES ASSUME NEW i \in 1 .. N
                   PROVE  f[i] = IF i = 1 THEN seqs[i] ELSE h[i - 1] \o seqs[i]
        OBVIOUS
      <3>1. f[i] = f[i - 1] \o seqs[i]
        BY <1>3 DEF Catenation
      <3>2. CASE i = 1
        <4> f[0] = <<>> /\ seqs[i] \in Seq(S) /\ i - 1 = 0
          BY <1>0, <1>3, <3>2 DEF Catenation
        <4> QED BY <3>1, <3>2, ConcatEmptySeq
      <3>3. CASE i # 1
        <4> i - 1 \in 1 .. N
          BY <1>0, <3>3
        <4> h[i - 1] = f[i - 1]
          OBVIOUS
        <4> QED BY <3>1, <3>3
      <3> QED BY <3>2, <3>3
    <2>3. E(c)
      <3> HIDE DEF h
      <3> QED BY <2>2
    <2>4. \A n \in 1 .. N : c[n] = f[n]
      <3> DEFINE T == {n \in Nat : n + 1 <= N => c[n + 1] = f[n + 1]}
      <3>1. ASSUME NEW i \in 1 .. N PROVE c[i] = IF i = 1 THEN seqs[i] ELSE c[i - 1] \o seqs[i]
        <4> HIDE DEF c
        <4> QED BY <2>3
      <3>2. ASSUME NEW i \in 1 .. N PROVE f[i] = IF i = 1 THEN seqs[i] ELSE f[i - 1] \o seqs[i]
        <4> HIDE DEF c
        <4>1. h[i] = IF i = 1 THEN seqs[i] ELSE h[i - 1] \o seqs[i]
          BY <2>2
        <4> QED BY <1>0, <4>1
      <3> HIDE DEF c, h
      <3>3. 0 \in T
        BY <1>0, <1>5, <3>1, <3>2
      <3>4. ASSUME NEW n \in Nat, n \in T PROVE n + 1 \in T
        <4> SUFFICES ASSUME n + 1 + 1 <= N PROVE c[n + 1 + 1] = f[n + 1 + 1]
          OBVIOUS
        <4>1. n + 1 + 1 \in 1 .. N /\ n + 1 + 1 # 1 /\ n + 1 + 1 - 1 = n + 1 /\ n + 1 <= N
          BY <1>0
        <4>2. c[n + 1] = f[n + 1]
          BY <3>4, <4>1
        <4> QED BY <3>1, <3>2, <4>1, <4>2
      <3>5. Nat \subseteq T
        <4> HIDE DEF T
        <4> QED BY <3>3, <3>4, Induct
      <3>6. \A n \in 1 .. N : n - 1 \in T /\ n - 1 + 1 = n
        <4> HIDE DEF T
        <4> QED BY <1>0, <3>5
      <3> QED BY <1>0, <3>6
    <2> HIDE DEF c
    <2> QED BY <1>0, <1>3, <1>5, <2>1, <2>4
  <1> QED BY <1>4, <1>5

\* FlattenSeq, element by element.
LEMMA FlattenAppend ==
    ASSUME NEW S, NEW seqs \in Seq(Seq(S)), NEW x \in Seq(S)
    PROVE  FlattenSeq(Append(seqs, x)) = FlattenSeq(seqs) \o x
  <1> DEFINE N == Len(seqs)
             t == Append(seqs, x)
  <1>0. /\ N \in Nat /\ t \in Seq(Seq(S)) /\ Len(t) = N + 1 /\ t[N + 1] = x
        /\ \A n \in 1 .. N : t[n] = seqs[n]
    OBVIOUS
  <1> HIDE DEF t
  <1>1. PICK f : Catenation(f, S, seqs) /\ FlattenSeq(seqs) = f[N]
    BY FlattenUnfold
  <1>2. PICK g : Catenation(g, S, t) /\ FlattenSeq(t) = g[N + 1]
    BY <1>0, FlattenUnfold
  <1>a. ASSUME NEW n \in 1 .. N PROVE f[n] = f[n - 1] \o seqs[n]
    BY <1>1 DEF Catenation
  <1>b. ASSUME NEW n \in 1 .. Len(t) PROVE g[n] = g[n - 1] \o t[n]
    BY <1>2 DEF Catenation
  <1> DEFINE T == {n \in Nat : n <= N => f[n] = g[n]}
  <1>3. 0 \in T
    BY <1>1, <1>2 DEF Catenation
  <1>4. ASSUME NEW n \in Nat, n \in T PROVE n + 1 \in T
    <2> SUFFICES ASSUME n + 1 <= N PROVE f[n + 1] = g[n + 1]
      OBVIOUS
    <2>1. PICK k \in 1 .. N : k = n + 1 /\ k - 1 = n /\ k \in 1 .. Len(t)
      BY <1>0
    <2>2. f[k] = f[k - 1] \o seqs[k]
      BY <1>a
    <2>3. g[k] = g[k - 1] \o t[k]
      BY <1>b, <2>1
    <2>4. f[k - 1] = g[k - 1]
      BY <1>0, <1>4, <2>1
    <2>5. t[k] = seqs[k]
      BY <1>0
    <2>6. f[k] = g[k]
      BY <2>2, <2>3, <2>4, <2>5, Zenon
    <2> QED BY <2>1, <2>6
  <1>5. Nat \subseteq T
    <2> HIDE DEF T
    <2> QED BY <1>3, <1>4, Induct
  <1>6. f[N] = g[N]
    BY <1>0, <1>5
  <1>7. g[N + 1] = g[N] \o x
    <2>1. PICK k \in 1 .. Len(t) : k = N + 1 /\ k - 1 = N
      BY <1>0
    <2> QED BY <1>0, <1>b, <2>1
  <1> QED BY <1>1, <1>2, <1>6, <1>7 DEF t

LEMMA FlattenEmpty == FlattenSeq(<<>>) = <<>>
  BY DEF FlattenSeq

\* y is an element of s; no element of s comes twice.
Occurs(y, s) == \E i \in 1 .. Len(s) : s[i] = y
NoRepeats(s) == \A i, j \in 1 .. Len(s) : s[i] = s[j] => i = j

LEMMA OccursConcat ==
    ASSUME NEW S, NEW s \in Seq(S), NEW t \in Seq(S), NEW y
    PROVE  /\ s \o t \in Seq(S) /\ Len(s \o t) = Len(s) + Len(t)
           /\ \A i \in 1 .. Len(s) : (s \o t)[i] = s[i]
           /\ \A i \in 1 .. Len(t) : (s \o t)[Len(s) + i] = t[i]
           /\ Occurs(y, s \o t) <=> Occurs(y, s) \/ Occurs(y, t)
  <1>1. s \o t \in Seq(S) /\ Len(s \o t) = Len(s) + Len(t) /\ Len(s) \in Nat /\ Len(t) \in Nat
    OBVIOUS
  <1>2. \A i \in 1 .. Len(s) : (s \o t)[i] = s[i]
    OBVIOUS
  <1>3. \A i \in 1 .. Len(t) : (s \o t)[Len(s) + i] = t[i]
    OBVIOUS
  <1>4. ASSUME Occurs(y, s \o t) PROVE Occurs(y, s) \/ Occurs(y, t)
    <2>1. PICK i \in 1 .. Len(s \o t) : (s \o t)[i] = y
      BY <1>4 DEF Occurs
    <2>2. CASE i <= Len(s)
      BY <1>1, <1>2, <2>1, <2>2 DEF Occurs
    <2>3. CASE i > Len(s)
      <3> i - Len(s) \in 1 .. Len(t) /\ Len(s) + (i - Len(s)) = i
        BY <1>1, <2>3
      <3> t[i - Len(s)] = y
        BY <1>3, <2>1
      <3> QED BY DEF Occurs
    <2> QED BY <1>1, <2>2, <2>3
  <1>5. ASSUME Occurs(y, s) PROVE Occurs(y, s \o t)
    <2>1. PICK i \in 1 .. Len(s) : s[i] = y
      BY <1>5 DEF Occurs
    <2> i \in 1 .. Len(s \o t)
      BY <1>1
    <2> QED BY <1>2, <2>1 DEF Occurs
  <1>6. ASSUME Occurs(y, t) PROVE Occurs(y, s \o t)
    <2>1. PICK i \in 1 .. Len(t) : t[i] = y
      BY <1>6 DEF Occurs
    <2> Len(s) + i \in 1 .. Len(s \o t)
      BY <1>1
    <2> QED BY <1>3, <2>1 DEF Occurs
  <1> QED BY <1>1, <1>2, <1>3, <1>4, <1>5, <1>6

LEMMA NoRepeatsConcat ==
    ASSUME NEW S, NEW s \in Seq(S), NEW t \in Seq(S), NoRepeats(s), NoRepeats(t),
           \A y : ~(Occurs(y, s) /\ Occurs(y, t))
    PROVE  NoRepeats(s \o t)
  <1>1. /\ Len(s \o t) = Len(s) + Len(t) /\ Len(s) \in Nat /\ Len(t) \in Nat
        /\ \A i \in 1 .. Len(s) : (s \o t)[i] = s[i]
        /\ \A i \in 1 .. Len(t) : (s \o t)[Len(s) + i] = t[i]
    BY OccursConcat
  <1>2. \A i \in 1 .. Len(s), j \in 1 .. Len(t) : s[i] # t[j]
    BY DEF Occurs
  <1>3. ASSUME NEW i \in 1 .. Len(s \o t), i > Len(s)
        PROVE  i - Len(s) \in 1 .. Len(t) /\ (s \o t)[i] = t[i - Len(s)]
    <2> i - Len(s) \in 1 .. Len(t) /\ Len(s) + (i - Len(s)) = i
      BY <1>1, <1>3
    <2> QED BY <1>1
  <1> SUFFICES ASSUME NEW i \in 1 .. Len(s \o t), NEW j \in 1 .. Len(s \o t),
                      (s \o t)[i] = (s \o t)[j]
               PROVE  i = j
    BY DEF NoRepeats
  <1>4. CASE i <= Len(s) /\ j <= Len(s)
    <2> i \in 1 .. Len(s) /\ j \in 1 .. Len(s)
      BY <1>1, <1>4
    <2> QED BY <1>1 DEF NoRepeats
  <1>5. CASE i > Len(s) /\ j > Len(s)
    <2> i - Len(s) = j - Len(s)
      BY <1>3, <1>5 DEF NoRepeats
    <2> QED BY <1>1
  <1>6. CASE i <= Len(s) /\ j > Len(s)
    <2> i \in 1 .. Len(s)
      BY <1>1, <1>6
    <2> QED BY <1>1, <1>2, <1>3, <1>6
  <1>7. CASE i > Len(s) /\ j <= Len(s)
    <2> j \in 1 .. Len(s)
      BY <1>1, <1>7
    <2> QED BY <1>1, <1>2, <1>3, <1>7
  <1> QED BY <1>1, <1>4, <1>5, <1>6, <1>7

\* The elements of a flattened sequence are those of its parts.
LEMMA FlattenElements ==
    ASSUME NEW S, NEW seqs \in Seq(Seq(S))
    PROVE  /\ FlattenSeq(seqs) \in Seq(S)
           /\ \A y : Occurs(y, FlattenSeq(seqs)) <=> \E i \in 1 .. Len(seqs) : Occurs(y, seqs[i])
  <1> DEFINE Q(s) == /\ FlattenSeq(s) \in Seq(S)
                     /\ \A y : Occurs(y, FlattenSeq(s)) <=> \E i \in 1 .. Len(s) : Occurs(y, s[i])
             P == {s \in Seq(Seq(S)) : Q(s)}
  <1>1. Q(<<>>)
    <2>1. Len(<<>>) = 0 /\ \A y : ~Occurs(y, <<>>) /\ <<>> \in Seq(S)
      BY DEF Occurs
    <2>2. ~ \E i \in 1 .. Len(<<>>) : TRUE
      BY <2>1
    <2> QED BY <2>1, <2>2, FlattenEmpty
  <1>2. ASSUME NEW s \in Seq(Seq(S)), NEW x \in Seq(S), Q(s) PROVE Q(Append(s, x))
    <2>1. FlattenSeq(Append(s, x)) = FlattenSeq(s) \o x
      BY FlattenAppend
    <2>2. FlattenSeq(Append(s, x)) \in Seq(S)
      BY <1>2, <2>1, ConcatProperties
    <2>3. /\ Len(Append(s, x)) = Len(s) + 1 /\ Len(s) \in Nat /\ Append(s, x)[Len(s) + 1] = x
          /\ \A i \in 1 .. Len(s) : Append(s, x)[i] = s[i]
      OBVIOUS
    <2>4. ASSUME NEW y
          PROVE  Occurs(y, FlattenSeq(Append(s, x)))
                 <=> \E i \in 1 .. Len(Append(s, x)) : Occurs(y, Append(s, x)[i])
      <3>1. Occurs(y, FlattenSeq(Append(s, x))) <=> Occurs(y, FlattenSeq(s)) \/ Occurs(y, x)
        BY <1>2, <2>1, OccursConcat
      <3>2. (\E i \in 1 .. Len(Append(s, x)) : Occurs(y, Append(s, x)[i]))
            <=> (\E i \in 1 .. Len(s) : Occurs(y, s[i])) \/ Occurs(y, x)
        <4>1. ASSUME NEW i \in 1 .. Len(Append(s, x)) PROVE i \in 1 .. Len(s) \/ i = Len(s) + 1
          BY <2>3
        <4>2. 1 .. Len(s) \subseteq 1 .. Len(Append(s, x)) /\ Len(s) + 1 \in 1 .. Len(Append(s, x))
          BY <2>3
        <4> QED BY <2>3, <4>1, <4>2, Zenon
      <3> QED BY <1>2, <3>1, <3>2
    <2> QED BY <2>2, <2>4
  <1>3. Seq(Seq(S)) \subseteq P
    <2> HIDE DEF Q
    <2>1. <<>> \in P
      BY <1>1
    <2>2. \A s \in Seq(Seq(S)), x \in Seq(S) : s \in P => Append(s, x) \in P
      BY <1>2
    <2> HIDE DEF P
    <2> QED BY <2>1, <2>2, SeqInduct
  <1> QED BY <1>3

\* If no part repeats an element and no two parts share one, the whole repeats none.
LEMMA FlattenNoRepeats ==
    ASSUME NEW S, NEW seqs \in Seq(Seq(S)),
           \A i \in 1 .. Len(seqs) : NoRepeats(seqs[i]),
           \A i, j \in 1 .. Len(seqs) : \A y :
               Occurs(y, seqs[i]) /\ Occurs(y, seqs[j]) => i = j
    PROVE  NoRepeats(FlattenSeq(seqs))
  <1> DEFINE H(s) == /\ \A i \in 1 .. Len(s) : NoRepeats(s[i])
                     /\ \A i, j \in 1 .. Len(s) : \A y :
                            Occurs(y, s[i]) /\ Occurs(y, s[j]) => i = j
             P == {s \in Seq(Seq(S)) : H(s) => NoRepeats(FlattenSeq(s))}
  <1>1. <<>> \in P
    BY FlattenEmpty DEF NoRepeats
  <1>2. ASSUME NEW s \in Seq(Seq(S)), NEW x \in Seq(S), s \in P PROVE Append(s, x) \in P
    <2> SUFFICES ASSUME H(Append(s, x)) PROVE NoRepeats(FlattenSeq(Append(s, x)))
      <3> HIDE DEF H
      <3> Append(s, x) \in Seq(Seq(S))
        OBVIOUS
      <3> QED OBVIOUS
    <2>1. /\ Len(Append(s, x)) = Len(s) + 1 /\ Len(s) \in Nat /\ Append(s, x)[Len(s) + 1] = x
          /\ \A i \in 1 .. Len(s) : Append(s, x)[i] = s[i]
      OBVIOUS
    <2>2. H(s)
      <3>1. 1 .. Len(s) \subseteq 1 .. Len(Append(s, x))
        BY <2>1
      <3> QED BY <2>1, <3>1, Zenon
    <2>3. NoRepeats(FlattenSeq(s))
      BY <1>2, <2>2
    <2>4. NoRepeats(x)
      BY <2>1, SMTT(20)
    <2>5. ASSUME NEW y, Occurs(y, FlattenSeq(s)), Occurs(y, x) PROVE FALSE
      <3>1. PICK i \in 1 .. Len(s) : Occurs(y, s[i])
        BY <2>5, FlattenElements
      <3>2. i \in 1 .. Len(Append(s, x)) /\ Len(s) + 1 \in 1 .. Len(Append(s, x))
        BY <2>1
      <3>3. i = Len(s) + 1
        BY <2>1, <2>5, <3>1, <3>2
      <3> QED BY <2>1, <3>3
    <2>6. NoRepeats(FlattenSeq(s) \o x)
      <3> FlattenSeq(s) \in Seq(S)
        BY FlattenElements
      <3> QED BY <2>3, <2>4, <2>5, NoRepeatsConcat
    <2> QED BY <2>6, FlattenAppend
  <1>3. Seq(Seq(S)) \subseteq P
    <2> HIDE DEF P
    <2> QED BY <1>1, <1>2, SeqInduct
  <1> QED BY <1>3
================================================================================
