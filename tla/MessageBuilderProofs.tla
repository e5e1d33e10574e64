-------------------------- MODULE MessageBuilderProofs -------------------------
(***************************************************************************)
(* The two builders for every payer, every list of instructions and every    *)
(* list of lookup tables: what is compiled resolves to what was asked for.    *)
(***************************************************************************)
EXTENDS MessageBuilder, SequenceLemmas, FiniteSetTheorems

Ref == [key : Keys, signer : BOOLEAN, writable : BOOLEAN]
Instruction == [program : Programs, metas : Seq(Ref)]
Table == [key : TableKeys, addrs : Seq(Keys)]

(***************************************************************************)
(* Where.                                                                  *)
(***************************************************************************)
Filtering(f, S, s, T) ==
    /\ f \in [0 .. Len(s) -> Seq(S)]
    /\ f[0] = <<>>
    /\ \A n \in 1 .. Len(s) :
          f[n] = IF s[n] \in T THEN Append(f[n - 1], s[n]) ELSE f[n - 1]

LEMMA WhereUnfold ==
    ASSUME NEW S, NEW s \in Seq(S), NEW T
    PROVE  \E f : Filtering(f, S, s, T) /\ Where(s, T) = f[Len(s)]
  <1> DEFINE N == Len(s)
             G == [p \in Seq(S) \X (1 .. N) |-> IF s[p[2]] \in T THEN Append(p[1], s[p[2]]) ELSE p[1]]
             E(f) == f = [n \in 0 .. N |->
                            IF n = 0 THEN <<>>
                            ELSE IF s[n] \in T THEN Append(f[n - 1], s[n]) ELSE f[n - 1]]
             c == CHOOSE f : E(f)
  <1>0. N \in Nat /\ \A n \in 1 .. N : s[n] \in S
    OBVIOUS
  <1>1. ASSUME NEW x \in Seq(S), NEW n \in 1 .. N
        PROVE  /\ G[<<x, n>>] = IF s[n] \in T THEN Append(x, s[n]) ELSE x
               /\ G[<<x, n>>] \in Seq(S)
    <2>1. G[<<x, n>>] = IF s[n] \in T THEN Append(x, s[n]) ELSE x
      OBVIOUS
    <2>2. Append(x, s[n]) \in Seq(S)
      BY <1>0
    <2> HIDE DEF G
    <2> QED BY <2>1, <2>2
  <1>2. PICK f : Rec(f, Seq(S), <<>>, G, N)
    <2> HIDE DEF G, N
    <2> <<>> \in Seq(S)
      OBVIOUS
    <2> QED BY <1>0, <1>1, RecursionExists
  <1>3. f \in [0 .. N -> Seq(S)] /\ f[0] = <<>>
    BY <1>2 DEF Rec
  <1>4. ASSUME NEW n \in 1 .. N
        PROVE  f[n] = IF s[n] \in T THEN Append(f[n - 1], s[n]) ELSE f[n - 1]
    <2>1. n - 1 \in 0 .. N
      BY <1>0
    <2>2. f[n - 1] \in Seq(S) /\ f[n] = G[<<f[n - 1], n>>]
      BY <1>2, <2>1 DEF Rec
    <2> QED BY <1>1, <2>2
  <1>5. E(f)
    <2>1. \A n \in 0 .. N : n = 0 \/ n \in 1 .. N
      BY <1>0
    <2>2. ASSUME NEW n \in 0 .. N
          PROVE  f[n] = IF n = 0 THEN <<>>
                        ELSE IF s[n] \in T THEN Append(f[n - 1], s[n]) ELSE f[n - 1]
      BY <1>3, <1>4, <2>1, Zenon
    <2> QED BY <1>3, <2>2, Zenon
  <1>6. E(c)
    BY <1>5
  <1>7. Where(s, T) = c[N]
    BY DEF Where
  <1> HIDE DEF c
  <1>8. \A n \in 0 .. N : c[n] = f[n]
    <2> DEFINE P == {n \in Nat : n <= N => c[n] = f[n]}
    <2>1. 0 \in P
      BY <1>0, <1>3, <1>6
    <2>2. ASSUME NEW n \in Nat, n \in P PROVE n + 1 \in P
      <3> SUFFICES ASSUME n + 1 <= N PROVE c[n + 1] = f[n + 1]
        OBVIOUS
      <3>1. PICK k \in 1 .. N : k = n + 1 /\ k - 1 = n /\ c[k - 1] = f[k - 1]
        BY <1>0, <2>2
      <3>2. c[k] = IF s[k] \in T THEN Append(c[k - 1], s[k]) ELSE c[k - 1]
        <4>1. k \in 0 .. N /\ k # 0
          BY <1>0
        <4> QED BY <1>6, <4>1, Zenon
      <3> QED BY <1>4, <3>1, <3>2
    <2>3. Nat \subseteq P
      <3> HIDE DEF P
      <3> QED BY <2>1, <2>2, Induct
    <2> QED BY <1>0, <2>3
  <1>9. Where(s, T) = f[N]
    BY <1>0, <1>7, <1>8
  <1> QED BY <1>3, <1>4, <1>9 DEF Filtering

LEMMA WhereEmpty == \A T : Where(<<>>, T) = <<>>
  <1> SUFFICES ASSUME NEW T PROVE Where(<<>>, T) = <<>>
    OBVIOUS
  <1>1. <<>> \in Seq({}) /\ Len(<<>>) = 0
    OBVIOUS
  <1>2. PICK f : Filtering(f, {}, <<>>, T) /\ Where(<<>>, T) = f[Len(<<>>)]
    BY <1>1, WhereUnfold
  <1> QED BY <1>1, <1>2 DEF Filtering

LEMMA WhereAppend ==
    ASSUME NEW S, NEW s \in Seq(S), NEW x \in S, NEW T
    PROVE  /\ Where(s, T) \in Seq(S)
           /\ Where(Append(s, x), T) = IF x \in T THEN Append(Where(s, T), x) ELSE Where(s, T)
  <1> DEFINE N == Len(s)
             t == Append(s, x)
  <1>0. /\ N \in Nat /\ t \in Seq(S) /\ Len(t) = N + 1 /\ t[N + 1] = x
        /\ \A n \in 1 .. N : t[n] = s[n]
    OBVIOUS
  <1> HIDE DEF t
  <1>1. PICK f : Filtering(f, S, s, T) /\ Where(s, T) = f[N]
    BY WhereUnfold
  <1>2. PICK g : Filtering(g, S, t, T) /\ Where(t, T) = g[N + 1]
    BY <1>0, WhereUnfold
  <1>a. ASSUME NEW n \in 1 .. N
        PROVE  f[n] = IF s[n] \in T THEN Append(f[n - 1], s[n]) ELSE f[n - 1]
    BY <1>1 DEF Filtering
  <1>b. ASSUME NEW n \in 1 .. Len(t)
        PROVE  g[n] = IF t[n] \in T THEN Append(g[n - 1], t[n]) ELSE g[n - 1]
    BY <1>2 DEF Filtering
  <1> DEFINE P == {n \in Nat : n <= N => f[n] = g[n]}
  <1>3. 0 \in P
    BY <1>1, <1>2 DEF Filtering
  <1>4. ASSUME NEW n \in Nat, n \in P PROVE n + 1 \in P
    <2> SUFFICES ASSUME n + 1 <= N PROVE f[n + 1] = g[n + 1]
      OBVIOUS
    <2>1. PICK k \in 1 .. N : k = n + 1 /\ k - 1 = n /\ k \in 1 .. Len(t)
      BY <1>0
    <2>2. f[k - 1] = g[k - 1]
      BY <1>0, <1>4, <2>1
    <2>3. t[k] = s[k]
      BY <1>0
    <2>4. f[k] = IF s[k] \in T THEN Append(f[k - 1], s[k]) ELSE f[k - 1]
      BY <1>a
    <2>5. g[k] = IF t[k] \in T THEN Append(g[k - 1], t[k]) ELSE g[k - 1]
      BY <1>b, <2>1
    <2>6. f[k] = g[k]
      BY <2>2, <2>3, <2>4, <2>5
    <2> QED BY <2>1, <2>6
  <1>5. Nat \subseteq P
    <2> HIDE DEF P
    <2> QED BY <1>3, <1>4, Induct
  <1>6. f[N] = g[N]
    BY <1>0, <1>5
  <1>7. g[N + 1] = IF x \in T THEN Append(g[N], x) ELSE g[N]
    <2>1. PICK k \in 1 .. Len(t) : k = N + 1 /\ k - 1 = N
      BY <1>0
    <2> QED BY <1>0, <1>b, <2>1
  <1>8. f[N] \in Seq(S)
    BY <1>0, <1>1 DEF Filtering
  <1> QED BY <1>1, <1>2, <1>6, <1>7, <1>8 DEF t

\* g takes the positions of w to those of s whose element is in T, in order.
Picks(g, w, s, T) ==
    /\ g \in [1 .. Len(w) -> 1 .. Len(s)]
    /\ \A i \in 1 .. Len(w) : w[i] = s[g[i]] /\ w[i] \in T
    /\ \A i, j \in 1 .. Len(w) : i < j => g[i] < g[j]
    /\ \A p \in 1 .. Len(s) : s[p] \in T => \E i \in 1 .. Len(w) : g[i] = p

LEMMA WhereSelects ==
    ASSUME NEW S, NEW s \in Seq(S), NEW T
    PROVE  Where(s, T) \in Seq(S) /\ \E g : Picks(g, Where(s, T), s, T)
  <1> DEFINE Q(q) == Where(q, T) \in Seq(S) /\ \E g : Picks(g, Where(q, T), q, T)
             P == {q \in Seq(S) : Q(q)}
  <1>1. Q(<<>>)
    <2>1. Picks(<<>>, <<>>, <<>>, T)
      BY DEF Picks
    <2>2. <<>> \in Seq(S)
      OBVIOUS
    <2> QED BY <2>1, <2>2, WhereEmpty
  <1>2. ASSUME NEW q \in Seq(S), NEW x \in S, Q(q) PROVE Q(Append(q, x))
    <2> DEFINE t == Append(q, x)
               w == Where(q, T)
    <2>0. /\ t \in Seq(S) /\ Len(t) = Len(q) + 1 /\ Len(q) \in Nat /\ t[Len(q) + 1] = x
          /\ \A n \in 1 .. Len(q) : t[n] = q[n]
      OBVIOUS
    <2> HIDE DEF t
    <2>1. w \in Seq(S) /\ Where(t, T) = IF x \in T THEN Append(w, x) ELSE w
      BY WhereAppend DEF t
    <2>2. PICK g : Picks(g, w, q, T)
      BY <1>2
    <2> HIDE DEF w
    <2>3. CASE x \notin T
      <3>1. Picks(g, w, t, T)
        <4>1. g \in [1 .. Len(w) -> 1 .. Len(t)]
          BY <2>0, <2>2 DEF Picks
        <4>2. \A i \in 1 .. Len(w) : w[i] = t[g[i]] /\ w[i] \in T
          BY <2>0, <2>2 DEF Picks
        <4>3. \A i, j \in 1 .. Len(w) : i < j => g[i] < g[j]
          BY <2>2 DEF Picks
        <4>4. ASSUME NEW p \in 1 .. Len(t), t[p] \in T PROVE \E i \in 1 .. Len(w) : g[i] = p
          <5> p \in 1 .. Len(q) /\ q[p] \in T
            BY <2>0, <2>3, <4>4
          <5> QED BY <2>2 DEF Picks
        <4> QED BY <4>1, <4>2, <4>3, <4>4 DEF Picks
      <3> QED BY <2>1, <2>3, <3>1 DEF t
    <2>4. CASE x \in T
      <3> DEFINE v == Append(w, x)
                 h == [i \in 1 .. Len(w) + 1 |-> IF i <= Len(w) THEN g[i] ELSE Len(q) + 1]
      <3>0. /\ v \in Seq(S) /\ Len(v) = Len(w) + 1 /\ Len(w) \in Nat /\ v[Len(w) + 1] = x
            /\ \A n \in 1 .. Len(w) : v[n] = w[n]
        BY <2>1
      <3>a. ASSUME NEW i \in 1 .. Len(w) PROVE h[i] = g[i] /\ g[i] \in 1 .. Len(q)
        BY <2>2, <3>0 DEF Picks
      <3>b. h[Len(w) + 1] = Len(q) + 1
        BY <3>0
      <3>c. \A i \in 1 .. Len(v) : i \in 1 .. Len(w) \/ i = Len(w) + 1
        BY <3>0
      <3> HIDE DEF v
      <3>1. h \in [1 .. Len(v) -> 1 .. Len(t)]
        <4>1. Len(q) + 1 \in 1 .. Len(t) /\ 1 .. Len(q) \subseteq 1 .. Len(t)
          BY <2>0
        <4>2. ASSUME NEW i \in 1 .. Len(w) + 1 PROVE h[i] \in 1 .. Len(t)
          <5> HIDE DEF h
          <5> QED BY <3>0, <3>a, <3>b, <3>c, <4>1
        <4>3. h = [i \in 1 .. Len(w) + 1 |-> h[i]]
          OBVIOUS
        <4> HIDE DEF h
        <4> QED BY <3>0, <4>2, <4>3
      <3> HIDE DEF h
      <3>2. ASSUME NEW i \in 1 .. Len(v) PROVE v[i] = t[h[i]] /\ v[i] \in T
        <4>1. CASE i \in 1 .. Len(w)
          <5> v[i] = w[i] /\ h[i] = g[i] /\ g[i] \in 1 .. Len(q)
            BY <3>0, <3>a, <4>1
          <5> t[g[i]] = q[g[i]] /\ w[i] = q[g[i]] /\ w[i] \in T
            BY <2>0, <2>2, <4>1 DEF Picks
          <5> QED OBVIOUS
        <4>2. CASE i = Len(w) + 1
          BY <2>0, <2>4, <3>0, <3>b, <4>2
        <4> QED BY <3>c, <4>1, <4>2
      <3>3. ASSUME NEW i \in 1 .. Len(v), NEW j \in 1 .. Len(v), i < j PROVE h[i] < h[j]
        <4>0. i \in 1 .. Len(w)
          BY <3>0, <3>3
        <4>1. CASE j \in 1 .. Len(w)
          BY <2>2, <3>3, <3>a, <4>0, <4>1 DEF Picks
        <4>2. CASE j = Len(w) + 1
          BY <2>0, <3>a, <3>b, <4>0, <4>2
        <4> QED BY <3>c, <4>1, <4>2
      <3>4. ASSUME NEW p \in 1 .. Len(t), t[p] \in T PROVE \E i \in 1 .. Len(v) : h[i] = p
        <4>1. CASE p \in 1 .. Len(q)
          <5>1. q[p] \in T
            BY <2>0, <3>4, <4>1
          <5>2. PICK i \in 1 .. Len(w) : g[i] = p
            BY <2>2, <4>1, <5>1 DEF Picks
          <5>3. i \in 1 .. Len(v)
            BY <3>0
          <5> QED BY <3>a, <5>2, <5>3
        <4>2. CASE p = Len(q) + 1
          <5> Len(w) + 1 \in 1 .. Len(v)
            BY <3>0
          <5> QED BY <3>b, <4>2
        <4> QED BY <2>0, <4>1, <4>2
      <3>5. Picks(h, v, t, T)
        BY <3>1, <3>2, <3>3, <3>4 DEF Picks
      <3> QED BY <2>1, <2>4, <3>0, <3>5 DEF t, v
    <2> QED BY <2>3, <2>4
  <1>3. Seq(S) \subseteq P
    <2> HIDE DEF Q
    <2>1. <<>> \in P
      BY <1>1
    <2>2. \A q \in Seq(S), x \in S : q \in P => Append(q, x) \in P
      BY <1>2
    <2> HIDE DEF P
    <2> QED BY <2>1, <2>2, SeqInduct
  <1> QED BY <1>3

--------------------------------------------------------------------------------
(***************************************************************************)
(* Entries.                                                                *)
(***************************************************************************)

\* AddOrUpdate, entry by entry.
LEMMA AddOrUpdateShape ==
    ASSUME NEW E \in Seq(Ref), NEW r \in Ref
    PROVE  /\ AddOrUpdate(E, r) \in Seq(Ref)
           /\ (\E i \in 1 .. Len(E) : E[i].key = r.key) =>
                 /\ Len(AddOrUpdate(E, r)) = Len(E)
                 /\ \A i \in 1 .. Len(E) :
                       /\ AddOrUpdate(E, r)[i].key = E[i].key
                       /\ AddOrUpdate(E, r)[i].signer
                             <=> E[i].signer \/ (E[i].key = r.key /\ r.signer)
                       /\ AddOrUpdate(E, r)[i].writable
                             <=> E[i].writable \/ (E[i].key = r.key /\ r.writable)
           /\ ~(\E i \in 1 .. Len(E) : E[i].key = r.key) =>
                 AddOrUpdate(E, r) = Append(E, r)
  <1> DEFINE u == [i \in DOMAIN E |->
                     IF E[i].key # r.key THEN E[i]
                     ELSE [key |-> r.key, signer |-> E[i].signer \/ r.signer,
                           writable |-> E[i].writable \/ r.writable]]
  <1>0. /\ DOMAIN E = 1 .. Len(E) /\ Len(E) \in Nat
        /\ \A i \in 1 .. Len(E) : E[i] \in Ref
    OBVIOUS
  <1>1. CASE \E i \in 1 .. Len(E) : E[i].key = r.key
    <2>1. AddOrUpdate(E, r) = u
      BY <1>0, <1>1 DEF AddOrUpdate
    <2>2. ASSUME NEW i \in 1 .. Len(E)
          PROVE  /\ u[i] \in Ref /\ u[i].key = E[i].key
                 /\ u[i].signer <=> E[i].signer \/ (E[i].key = r.key /\ r.signer)
                 /\ u[i].writable <=> E[i].writable \/ (E[i].key = r.key /\ r.writable)
      <3>1. CASE E[i].key # r.key
        BY <1>0, <3>1
      <3>2. CASE E[i].key = r.key
        <4>1. u[i] = [key |-> r.key, signer |-> E[i].signer \/ r.signer,
                      writable |-> E[i].writable \/ r.writable]
          BY <1>0, <3>2
        <4> HIDE DEF u
        <4>2. u[i] \in Ref
          <5> (E[i].signer \/ r.signer) \in BOOLEAN /\ (E[i].writable \/ r.writable) \in BOOLEAN
            OBVIOUS
          <5> r.key \in Keys
            BY DEF Ref
          <5> QED BY <4>1 DEF Ref
        <4>3. /\ u[i].key = r.key /\ u[i].signer = (E[i].signer \/ r.signer)
              /\ u[i].writable = (E[i].writable \/ r.writable)
          BY <4>1
        <4> QED BY <3>2, <4>2, <4>3
      <3> QED BY <3>1, <3>2
    <2>3. u = [i \in 1 .. Len(E) |-> u[i]]
      BY <1>0
    <2> HIDE DEF u
    <2>4. u \in Seq(Ref) /\ Len(u) = Len(E)
      BY <1>0, <2>2, <2>3
    <2> QED BY <1>1, <2>1, <2>2, <2>4
  <1>2. CASE ~ \E i \in 1 .. Len(E) : E[i].key = r.key
    <2> AddOrUpdate(E, r) = Append(E, r)
      BY <1>0, <1>2 DEF AddOrUpdate
    <2> QED BY <1>2
  <1> QED BY <1>1, <1>2

Collecting(f, refs) ==
    /\ f \in [0 .. Len(refs) -> Seq(Ref)]
    /\ f[0] = <<>>
    /\ \A n \in 1 .. Len(refs) : f[n] = AddOrUpdate(f[n - 1], refs[n])

LEMMA EntriesUnfold ==
    ASSUME NEW refs \in Seq(Ref)
    PROVE  \E f : Collecting(f, refs) /\ Entries(refs) = f[Len(refs)]
  <1> DEFINE N == Len(refs)
             G == [p \in Seq(Ref) \X (1 .. N) |-> AddOrUpdate(p[1], refs[p[2]])]
             E(f) == f = [n \in 0 .. N |->
                            IF n = 0 THEN <<>> ELSE AddOrUpdate(f[n - 1], refs[n])]
             c == CHOOSE f : E(f)
  <1>0. N \in Nat /\ \A n \in 1 .. N : refs[n] \in Ref
    OBVIOUS
  <1>1. ASSUME NEW x \in Seq(Ref), NEW n \in 1 .. N
        PROVE  G[<<x, n>>] = AddOrUpdate(x, refs[n]) /\ G[<<x, n>>] \in Seq(Ref)
    <2>1. G[<<x, n>>] = AddOrUpdate(x, refs[n])
      OBVIOUS
    <2>2. AddOrUpdate(x, refs[n]) \in Seq(Ref)
      BY <1>0, AddOrUpdateShape
    <2> HIDE DEF G
    <2> QED BY <2>1, <2>2
  <1>2. PICK f : Rec(f, Seq(Ref), <<>>, G, N)
    <2> HIDE DEF G, N
    <2> <<>> \in Seq(Ref)
      OBVIOUS
    <2> QED BY <1>0, <1>1, RecursionExists
  <1>3. f \in [0 .. N -> Seq(Ref)] /\ f[0] = <<>>
    BY <1>2 DEF Rec
  <1>4. ASSUME NEW n \in 1 .. N PROVE f[n] = AddOrUpdate(f[n - 1], refs[n])
    <2>1. n - 1 \in 0 .. N
      BY <1>0
    <2>2. f[n - 1] \in Seq(Ref) /\ f[n] = G[<<f[n - 1], n>>]
      BY <1>2, <2>1 DEF Rec
    <2> QED BY <1>1, <2>2
  <1>5. E(f)
    <2>1. \A n \in 0 .. N : n = 0 \/ n \in 1 .. N
      BY <1>0
    <2>2. ASSUME NEW n \in 0 .. N
          PROVE  f[n] = IF n = 0 THEN <<>> ELSE AddOrUpdate(f[n - 1], refs[n])
      BY <1>3, <1>4, <2>1, Zenon
    <2> QED BY <1>3, <2>2, Zenon
  <1>6. E(c)
    BY <1>5
  <1>7. Entries(refs) = c[N]
    BY DEF Entries
  <1> HIDE DEF c
  <1>8. \A n \in 0 .. N : c[n] = f[n]
    <2> DEFINE P == {n \in Nat : n <= N => c[n] = f[n]}
    <2>1. 0 \in P
      BY <1>0, <1>3, <1>6
    <2>2. ASSUME NEW n \in Nat, n \in P PROVE n + 1 \in P
      <3> SUFFICES ASSUME n + 1 <= N PROVE c[n + 1] = f[n + 1]
        OBVIOUS
      <3>1. PICK k \in 1 .. N : k = n + 1 /\ k - 1 = n /\ c[k - 1] = f[k - 1]
        BY <1>0, <2>2
      <3>2. c[k] = AddOrUpdate(c[k - 1], refs[k])
        <4>1. k \in 0 .. N /\ k # 0
          BY <1>0
        <4> QED BY <1>6, <4>1, Zenon
      <3> QED BY <1>4, <3>1, <3>2
    <2>3. Nat \subseteq P
      <3> HIDE DEF P
      <3> QED BY <2>1, <2>2, Induct
    <2> QED BY <1>0, <2>3
  <1>9. Entries(refs) = f[N]
    BY <1>0, <1>7, <1>8
  <1> QED BY <1>3, <1>4, <1>9 DEF Collecting

LEMMA EntriesEmpty == Entries(<<>>) = <<>>
  <1>1. <<>> \in Seq(Ref) /\ Len(<<>>) = 0
    OBVIOUS
  <1>2. PICK f : Collecting(f, <<>>) /\ Entries(<<>>) = f[Len(<<>>)]
    BY <1>1, EntriesUnfold
  <1> QED BY <1>1, <1>2 DEF Collecting

LEMMA EntriesAppend ==
    ASSUME NEW refs \in Seq(Ref), NEW r \in Ref
    PROVE  /\ Entries(refs) \in Seq(Ref)
           /\ Entries(Append(refs, r)) = AddOrUpdate(Entries(refs), r)
  <1> DEFINE N == Len(refs)
             t == Append(refs, r)
  <1>0. /\ N \in Nat /\ t \in Seq(Ref) /\ Len(t) = N + 1 /\ t[N + 1] = r
        /\ \A n \in 1 .. N : t[n] = refs[n]
    OBVIOUS
  <1> HIDE DEF t
  <1>1. PICK f : Collecting(f, refs) /\ Entries(refs) = f[N]
    BY EntriesUnfold
  <1>2. PICK g : Collecting(g, t) /\ Entries(t) = g[N + 1]
    BY <1>0, EntriesUnfold
  <1>a. ASSUME NEW n \in 1 .. N PROVE f[n] = AddOrUpdate(f[n - 1], refs[n])
    BY <1>1 DEF Collecting
  <1>b. ASSUME NEW n \in 1 .. Len(t) PROVE g[n] = AddOrUpdate(g[n - 1], t[n])
    BY <1>2 DEF Collecting
  <1> DEFINE P == {n \in Nat : n <= N => f[n] = g[n]}
  <1>3. 0 \in P
    BY <1>1, <1>2 DEF Collecting
  <1>4. ASSUME NEW n \in Nat, n \in P PROVE n + 1 \in P
    <2> SUFFICES ASSUME n + 1 <= N PROVE f[n + 1] = g[n + 1]
      OBVIOUS
    <2>1. PICK k \in 1 .. N : k = n + 1 /\ k - 1 = n /\ k \in 1 .. Len(t)
      BY <1>0
    <2>2. f[k - 1] = g[k - 1] /\ t[k] = refs[k]
      BY <1>0, <1>4, <2>1
    <2>3. f[k] = AddOrUpdate(f[k - 1], refs[k]) /\ g[k] = AddOrUpdate(g[k - 1], t[k])
      BY <1>a, <1>b, <2>1
    <2>4. f[k] = g[k]
      BY <2>2, <2>3, Zenon
    <2> QED BY <2>1, <2>4
  <1>5. Nat \subseteq P
    <2> HIDE DEF P
    <2> QED BY <1>3, <1>4, Induct
  <1>6. f[N] = g[N]
    BY <1>0, <1>5
  <1>7. g[N + 1] = AddOrUpdate(g[N], r)
    <2>1. PICK k \in 1 .. Len(t) : k = N + 1 /\ k - 1 = N
      BY <1>0
    <2> QED BY <1>0, <1>b, <2>1
  <1>8. f[N] \in Seq(Ref)
    BY <1>0, <1>1 DEF Collecting
  <1> QED BY <1>1, <1>2, <1>6, <1>7, <1>8 DEF t

\* What the entries E say about the references they were collected from: one entry for
\* each key, with every role any reference asks for, in the order of first appearance.
Collected(E, refs) ==
    /\ E \in Seq(Ref)
    /\ \A i, j \in 1 .. Len(E) : E[i].key = E[j].key => i = j
    /\ \A n \in 1 .. Len(refs) : \E i \in 1 .. Len(E) : E[i].key = refs[n].key
    /\ \A i \in 1 .. Len(E) : \E n \in 1 .. Len(refs) : refs[n].key = E[i].key
    /\ \A i \in 1 .. Len(E) :
          E[i].signer <=> \E n \in 1 .. Len(refs) : refs[n].key = E[i].key /\ refs[n].signer
    /\ \A i \in 1 .. Len(E) :
          E[i].writable <=> \E n \in 1 .. Len(refs) : refs[n].key = E[i].key /\ refs[n].writable
    /\ \A i, j \in 1 .. Len(E) : \A n \in 1 .. Len(refs) :
          i < j /\ refs[n].key = E[j].key => \E m \in 1 .. n - 1 : refs[m].key = E[i].key

\* A reference to a key that is known already only adds roles.
LEMMA CollectedUpdate ==
    ASSUME NEW refs \in Seq(Ref), NEW r \in Ref, NEW E, Collected(E, refs),
           \E i \in 1 .. Len(E) : E[i].key = r.key
    PROVE  Collected(AddOrUpdate(E, r), Append(refs, r))
  <1> DEFINE t == Append(refs, r)
             u == AddOrUpdate(E, r)
             N == Len(refs)
  <1>0. /\ N \in Nat /\ t \in Seq(Ref) /\ Len(t) = N + 1 /\ t[N + 1] = r
        /\ \A n \in 1 .. N : t[n] = refs[n]
    OBVIOUS
  <1>1. E \in Seq(Ref)
    BY DEF Collected
  <1>2. /\ u \in Seq(Ref) /\ Len(u) = Len(E)
        /\ \A i \in 1 .. Len(E) :
              /\ u[i].key = E[i].key
              /\ u[i].signer <=> E[i].signer \/ (E[i].key = r.key /\ r.signer)
              /\ u[i].writable <=> E[i].writable \/ (E[i].key = r.key /\ r.writable)
    BY <1>1, AddOrUpdateShape
  <1> HIDE DEF t, u
  <1>a. 1 .. N \subseteq 1 .. N + 1 /\ N + 1 \in 1 .. N + 1
        /\ \A n \in 1 .. N + 1 : n \in 1 .. N \/ n = N + 1
    BY <1>0
  <1>d. \A n \in 1 .. N : \E i \in 1 .. Len(E) : E[i].key = refs[n].key
    BY DEF Collected
  <1>e. \A i \in 1 .. Len(E) : \E n \in 1 .. N : refs[n].key = E[i].key
    BY DEF Collected
  <1>f. ASSUME NEW i \in 1 .. Len(E), NEW j \in 1 .. Len(E), NEW n \in 1 .. N,
               i < j, refs[n].key = E[j].key
        PROVE  \E m \in 1 .. n - 1 : refs[m].key = E[i].key
    BY <1>f DEF Collected
  <1>3. \A i, j \in 1 .. Len(u) : u[i].key = u[j].key => i = j
    BY <1>2 DEF Collected
  <1>4. ASSUME NEW n \in 1 .. Len(t) PROVE \E i \in 1 .. Len(u) : u[i].key = t[n].key
    <2>1. PICK i \in 1 .. Len(E) : E[i].key = t[n].key
      BY <1>0, <1>a, <1>d
    <2> QED BY <1>2, <2>1
  <1>5. ASSUME NEW i \in 1 .. Len(u) PROVE \E n \in 1 .. Len(t) : t[n].key = u[i].key
    <2>1. PICK n \in 1 .. N : refs[n].key = E[i].key
      BY <1>2, <1>e
    <2> QED BY <1>0, <1>2, <1>a, <2>1
  <1>6. ASSUME NEW i \in 1 .. Len(u)
        PROVE  u[i].signer <=> \E n \in 1 .. Len(t) : t[n].key = u[i].key /\ t[n].signer
    <2>1. E[i].signer <=> \E n \in 1 .. N : refs[n].key = E[i].key /\ refs[n].signer
      BY <1>2 DEF Collected
    <2>2. (\E n \in 1 .. Len(t) : t[n].key = E[i].key /\ t[n].signer)
          <=> (\E n \in 1 .. N : refs[n].key = E[i].key /\ refs[n].signer)
              \/ (r.key = E[i].key /\ r.signer)
      BY <1>0, <1>a
    <2> QED BY <1>2, <2>1, <2>2
  <1>7. ASSUME NEW i \in 1 .. Len(u)
        PROVE  u[i].writable <=> \E n \in 1 .. Len(t) : t[n].key = u[i].key /\ t[n].writable
    <2>1. E[i].writable <=> \E n \in 1 .. N : refs[n].key = E[i].key /\ refs[n].writable
      BY <1>2 DEF Collected
    <2>2. (\E n \in 1 .. Len(t) : t[n].key = E[i].key /\ t[n].writable)
          <=> (\E n \in 1 .. N : refs[n].key = E[i].key /\ refs[n].writable)
              \/ (r.key = E[i].key /\ r.writable)
      BY <1>0, <1>a
    <2> QED BY <1>2, <2>1, <2>2
  <1>8. ASSUME NEW i \in 1 .. Len(u), NEW j \in 1 .. Len(u), NEW n \in 1 .. Len(t),
               i < j, t[n].key = u[j].key
        PROVE  \E m \in 1 .. n - 1 : t[m].key = u[i].key
    <2>1. CASE n \in 1 .. N
      <3>1. PICK m \in 1 .. n - 1 : refs[m].key = E[i].key
        <4> refs[n].key = E[j].key
          BY <1>0, <1>2, <1>8, <2>1
        <4> QED BY <1>2, <1>8, <1>f, <2>1
      <3>2. m \in 1 .. N
        BY <1>0, <2>1
      <3> QED BY <1>0, <1>2, <3>1, <3>2
    <2>2. CASE n = N + 1
      <3>1. PICK m \in 1 .. N : refs[m].key = E[i].key
        BY <1>2 DEF Collected
      <3>2. m \in 1 .. n - 1
        BY <1>0, <2>2
      <3> QED BY <1>0, <1>2, <3>1, <3>2
    <2> QED BY <1>0, <1>a, <2>1, <2>2
  <1>9. Collected(u, t)
    BY <1>2, <1>3, <1>4, <1>5, <1>6, <1>7, <1>8 DEF Collected
  <1> QED BY <1>9 DEF u, t

\* A reference to a new key is a new entry, after all others.
LEMMA CollectedNew ==
    ASSUME NEW refs \in Seq(Ref), NEW r \in Ref, NEW E, Collected(E, refs),
           ~ \E i \in 1 .. Len(E) : E[i].key = r.key
    PROVE  Collected(AddOrUpdate(E, r), Append(refs, r))
  <1> DEFINE t == Append(refs, r)
             u == AddOrUpdate(E, r)
             N == Len(refs)
             M == Len(E)
  <1>0. /\ N \in Nat /\ t \in Seq(Ref) /\ Len(t) = N + 1 /\ t[N + 1] = r
        /\ \A n \in 1 .. N : t[n] = refs[n]
    OBVIOUS
  <1>1. E \in Seq(Ref)
    BY DEF Collected
  <1>2. u = Append(E, r)
    BY <1>1, AddOrUpdateShape
  <1>3. /\ M \in Nat /\ u \in Seq(Ref) /\ Len(u) = M + 1 /\ u[M + 1] = r
        /\ \A i \in 1 .. M : u[i] = E[i]
    BY <1>1, <1>2
  <1> HIDE DEF t, u
  <1>a. 1 .. N \subseteq 1 .. N + 1 /\ N + 1 \in 1 .. N + 1
        /\ \A n \in 1 .. N + 1 : n \in 1 .. N \/ n = N + 1
    BY <1>0
  <1>b. 1 .. M \subseteq 1 .. M + 1 /\ M + 1 \in 1 .. M + 1
        /\ \A i \in 1 .. M + 1 : i \in 1 .. M \/ i = M + 1
    BY <1>3
  <1>c. \A n \in 1 .. N : refs[n].key # r.key
    BY DEF Collected
  <1>d. \A n \in 1 .. N : \E i \in 1 .. Len(E) : E[i].key = refs[n].key
    BY DEF Collected
  <1>e. \A i \in 1 .. Len(E) : \E n \in 1 .. N : refs[n].key = E[i].key
    BY DEF Collected
  <1>f. ASSUME NEW i \in 1 .. Len(E), NEW j \in 1 .. Len(E), NEW n \in 1 .. N,
               i < j, refs[n].key = E[j].key
        PROVE  \E m \in 1 .. n - 1 : refs[m].key = E[i].key
    BY <1>f DEF Collected
  <1>g. \A i, j \in 1 .. M : E[i].key = E[j].key => i = j
    BY DEF Collected
  <1>4. ASSUME NEW i \in 1 .. Len(u), NEW j \in 1 .. Len(u), u[i].key = u[j].key PROVE i = j
    <2>1. \A k \in 1 .. M : u[k].key = E[k].key /\ E[k].key # r.key
      BY <1>3
    <2> QED BY <1>3, <1>4, <1>b, <1>g, <2>1
  <1>5. ASSUME NEW n \in 1 .. Len(t) PROVE \E i \in 1 .. Len(u) : u[i].key = t[n].key
    <2>1. CASE n \in 1 .. N
      <3>1. PICK i \in 1 .. M : E[i].key = t[n].key
        BY <1>0, <1>d, <2>1
      <3> QED BY <1>3, <1>b, <3>1
    <2>2. CASE n = N + 1
      BY <1>0, <1>3, <1>b, <2>2
    <2> QED BY <1>0, <1>a, <2>1, <2>2
  <1>6. ASSUME NEW i \in 1 .. Len(u) PROVE \E n \in 1 .. Len(t) : t[n].key = u[i].key
    <2>1. CASE i \in 1 .. M
      <3>1. PICK n \in 1 .. N : refs[n].key = E[i].key
        BY <1>e, <2>1
      <3> QED BY <1>0, <1>3, <1>a, <2>1, <3>1
    <2>2. CASE i = M + 1
      BY <1>0, <1>3, <1>a, <2>2
    <2> QED BY <1>3, <1>b, <2>1, <2>2
  <1>7. ASSUME NEW i \in 1 .. Len(u)
        PROVE  /\ u[i].signer <=> \E n \in 1 .. Len(t) : t[n].key = u[i].key /\ t[n].signer
               /\ u[i].writable <=> \E n \in 1 .. Len(t) : t[n].key = u[i].key /\ t[n].writable
    <2>1. CASE i \in 1 .. M
      <3>1. u[i] = E[i] /\ r.key # E[i].key
        BY <1>3, <2>1
      <3>2. /\ E[i].signer <=> \E n \in 1 .. N : refs[n].key = E[i].key /\ refs[n].signer
            /\ E[i].writable <=> \E n \in 1 .. N : refs[n].key = E[i].key /\ refs[n].writable
        BY <2>1 DEF Collected
      <3> QED BY <1>0, <1>a, <3>1, <3>2
    <2>2. CASE i = M + 1
      BY <1>0, <1>3, <1>a, <1>c, <2>2
    <2> QED BY <1>3, <1>b, <2>1, <2>2
  <1>8. ASSUME NEW i \in 1 .. Len(u), NEW j \in 1 .. Len(u), NEW n \in 1 .. Len(t),
               i < j, t[n].key = u[j].key
        PROVE  \E m \in 1 .. n - 1 : t[m].key = u[i].key
    <2>0. i \in 1 .. M /\ u[i] = E[i]
      BY <1>3, <1>8
    <2>1. CASE n \in 1 .. N
      <3>0. j \in 1 .. M /\ u[j] = E[j]
        <4> u[j].key # r.key
          BY <1>0, <1>8, <1>c, <2>1
        <4> QED BY <1>3, <1>b
      <3>1. PICK m \in 1 .. n - 1 : refs[m].key = E[i].key
        <4> refs[n].key = E[j].key
          BY <1>0, <1>8, <2>1, <3>0
        <4> QED BY <1>8, <1>f, <2>0, <2>1, <3>0
      <3>2. m \in 1 .. N
        BY <1>0, <2>1
      <3> QED BY <1>0, <2>0, <3>1, <3>2
    <2>2. CASE n = N + 1
      <3>1. PICK m \in 1 .. N : refs[m].key = E[i].key
        BY <2>0 DEF Collected
      <3>2. m \in 1 .. n - 1
        BY <1>0, <2>2
      <3> QED BY <1>0, <2>0, <3>1, <3>2
    <2> QED BY <1>0, <1>a, <2>1, <2>2
  <1>9. Collected(u, t)
    BY <1>3, <1>4, <1>5, <1>6, <1>7, <1>8 DEF Collected
  <1> QED BY <1>9 DEF u, t

LEMMA EntriesCollected ==
    ASSUME NEW refs \in Seq(Ref)
    PROVE  Collected(Entries(refs), refs)
  <1> DEFINE P == {q \in Seq(Ref) : Collected(Entries(q), q)}
  <1>1. <<>> \in P
    <2> <<>> \in Seq(Ref) /\ Len(<<>>) = 0 /\ 1 .. 0 = {}
      OBVIOUS
    <2> Collected(<<>>, <<>>)
      BY DEF Collected
    <2> QED BY EntriesEmpty
  <1>2. ASSUME NEW q \in Seq(Ref), NEW r \in Ref, q \in P PROVE Append(q, r) \in P
    <2>1. Collected(AddOrUpdate(Entries(q), r), Append(q, r))
      BY <1>2, CollectedUpdate, CollectedNew
    <2>2. Append(q, r) \in Seq(Ref)
      OBVIOUS
    <2> QED BY <2>1, <2>2, EntriesAppend
  <1>3. Seq(Ref) \subseteq P
    <2> HIDE DEF P
    <2> QED BY <1>1, <1>2, SeqInduct
  <1> QED BY <1>3

--------------------------------------------------------------------------------
(***************************************************************************)
(* BucketAndOrder.                                                         *)
(***************************************************************************)
InBucket(E, b) == {e \in ToSet(E) : BucketOf(e) = b}
Bucket(E, b) == Where(E, InBucket(E, b))

\* O is what E holds of T, sorted by bucket and then by position in E.
SortedPart(h, O, E, T) ==
    /\ O \in Seq(Ref)
    /\ h \in [1 .. Len(O) -> 1 .. Len(E)]
    /\ \A i \in 1 .. Len(O) : O[i] = E[h[i]] /\ O[i] \in T
    /\ \A p \in 1 .. Len(E) : E[p] \in T => \E i \in 1 .. Len(O) : h[i] = p
    /\ \A i, j \in 1 .. Len(O) : i < j =>
          \/ BucketOf(O[i]) < BucketOf(O[j])
          \/ BucketOf(O[i]) = BucketOf(O[j]) /\ h[i] < h[j]

LEMMA BucketType ==
    ASSUME NEW e \in Ref
    PROVE  /\ BucketOf(e) \in 0 .. 3
           /\ e.signer <=> BucketOf(e) \in {0, 1}
           /\ e.writable <=> BucketOf(e) \in {0, 2}
  <1> e.signer \in BOOLEAN /\ e.writable \in BOOLEAN
    BY DEF Ref
  <1>1. CASE e.signer /\ e.writable
    BY <1>1 DEF BucketOf
  <1>2. CASE e.signer /\ ~e.writable
    BY <1>2 DEF BucketOf
  <1>3. CASE ~e.signer /\ e.writable
    BY <1>3 DEF BucketOf
  <1>4. CASE ~e.signer /\ ~e.writable
    BY <1>4 DEF BucketOf
  <1> QED BY <1>1, <1>2, <1>3, <1>4

LEMMA BucketSorted ==
    ASSUME NEW E \in Seq(Ref), NEW b \in 0 .. 3
    PROVE  /\ \E h : SortedPart(h, Bucket(E, b), E, InBucket(E, b))
           /\ Bucket(E, b) \in Seq(Ref)
           /\ \A i \in 1 .. Len(Bucket(E, b)) : BucketOf(Bucket(E, b)[i]) = b
  <1> DEFINE T == InBucket(E, b)
             O == Bucket(E, b)
  <1>1. O \in Seq(Ref)
    BY WhereSelects DEF Bucket
  <1>2. PICK h : Picks(h, O, E, T)
    BY WhereSelects DEF Bucket
  <1>3. \A i \in 1 .. Len(O) : BucketOf(O[i]) = b
    BY <1>2 DEF Picks, InBucket
  <1> HIDE DEF O, T
  <1>4. SortedPart(h, O, E, T)
    BY <1>1, <1>2, <1>3 DEF Picks, SortedPart
  <1> QED BY <1>1, <1>3, <1>4 DEF O, T

\* Sorted parts put one after the other, the later one from later buckets.
LEMMA SortedConcat ==
    ASSUME NEW E \in Seq(Ref), NEW T, NEW U, NEW O, NEW R, NEW g, NEW h,
           SortedPart(g, O, E, T), SortedPart(h, R, E, U),
           \A t \in T, u \in U : BucketOf(t) < BucketOf(u)
    PROVE  \E f : SortedPart(f, O \o R, E, T \cup U)
  <1> DEFINE L == Len(O)
             W == O \o R
             f == [i \in 1 .. L + Len(R) |-> IF i <= L THEN g[i] ELSE h[i - L]]
  <1>0. O \in Seq(Ref) /\ R \in Seq(Ref) /\ L \in Nat /\ Len(R) \in Nat
    BY DEF SortedPart
  <1>1. W \in Seq(Ref) /\ Len(W) = L + Len(R)
    BY <1>0
  <1>2. ASSUME NEW i \in 1 .. L
        PROVE  /\ W[i] = O[i] /\ f[i] = g[i] /\ i \in 1 .. Len(W)
               /\ g[i] \in 1 .. Len(E) /\ O[i] = E[g[i]] /\ O[i] \in T
    BY <1>0, <1>1, SMTT(20) DEF SortedPart
  <1>3. ASSUME NEW i \in 1 .. Len(R)
        PROVE  /\ W[L + i] = R[i] /\ f[L + i] = h[i] /\ L + i \in 1 .. Len(W)
               /\ h[i] \in 1 .. Len(E) /\ R[i] = E[h[i]] /\ R[i] \in U
    <2>1. h[i] \in 1 .. Len(E) /\ R[i] = E[h[i]] /\ R[i] \in U
      BY DEF SortedPart
    <2>2. L + i \in 1 .. Len(W) /\ ~(L + i <= L) /\ L + i - L = i /\ L + i \in 1 .. L + Len(R)
      BY <1>0, <1>1
    <2>3. W[L + i] = R[i]
      BY <1>0
    <2>4. f[L + i] = h[i]
      BY <2>2
    <2> QED BY <2>1, <2>2, <2>3, <2>4
  <1>4. ASSUME NEW i \in 1 .. Len(W), i \notin 1 .. L
        PROVE  \E k \in 1 .. Len(R) : i = L + k
    <2> i - L \in 1 .. Len(R) /\ i = L + (i - L)
      BY <1>0, <1>1, <1>4
    <2> QED OBVIOUS
  <1>5. DOMAIN f = 1 .. Len(W) /\ f = [i \in 1 .. Len(W) |-> f[i]]
    BY <1>1
  <1> HIDE DEF W, f
  <1>6. f \in [1 .. Len(W) -> 1 .. Len(E)]
    <2> ASSUME NEW i \in 1 .. Len(W) PROVE f[i] \in 1 .. Len(E)
      BY <1>2, <1>3, <1>4, ZenonT(30)
    <2> QED BY <1>5
  <1>7. ASSUME NEW i \in 1 .. Len(W) PROVE W[i] = E[f[i]] /\ W[i] \in T \cup U
    <2>1. CASE i \in 1 .. L
      BY <1>2, <2>1
    <2>2. CASE i \notin 1 .. L
      <3>1. PICK k \in 1 .. Len(R) : i = L + k
        BY <1>4, <2>2
      <3> QED BY <1>3, <3>1
    <2> QED BY <2>1, <2>2
  <1>8. ASSUME NEW p \in 1 .. Len(E), E[p] \in T \cup U PROVE \E i \in 1 .. Len(W) : f[i] = p
    <2>1. CASE E[p] \in T
      <3>1. PICK i \in 1 .. L : g[i] = p
        BY <2>1 DEF SortedPart
      <3> QED BY <1>2, <3>1
    <2>2. CASE E[p] \in U
      <3>1. PICK i \in 1 .. Len(R) : h[i] = p
        BY <2>2 DEF SortedPart
      <3> QED BY <1>3, <3>1
    <2> QED BY <1>8, <2>1, <2>2
  <1>9. ASSUME NEW i \in 1 .. Len(W), NEW j \in 1 .. Len(W), i < j
        PROVE  \/ BucketOf(W[i]) < BucketOf(W[j])
               \/ BucketOf(W[i]) = BucketOf(W[j]) /\ f[i] < f[j]
    <2>1. CASE i \in 1 .. L /\ j \in 1 .. L
      <3> \/ BucketOf(O[i]) < BucketOf(O[j])
          \/ BucketOf(O[i]) = BucketOf(O[j]) /\ g[i] < g[j]
        BY <1>9, <2>1 DEF SortedPart
      <3> QED BY <1>2, <2>1
    <2>2. CASE i \in 1 .. L /\ j \notin 1 .. L
      <3>1. PICK k \in 1 .. Len(R) : j = L + k
        BY <1>4, <2>2
      <3>2. W[i] \in T /\ W[j] \in U
        BY <1>2, <1>3, <2>2, <3>1
      <3> QED BY <3>2
    <2>3. CASE i \notin 1 .. L
      <3>1. PICK k \in 1 .. Len(R) : i = L + k
        BY <1>4, <2>3
      <3>2. j \notin 1 .. L
        BY <1>0, <1>9, <3>1
      <3>3. PICK m \in 1 .. Len(R) : j = L + m
        BY <1>4, <3>2
      <3>4. k < m
        BY <1>0, <1>9, <3>1, <3>3
      <3>5. \/ BucketOf(R[k]) < BucketOf(R[m])
            \/ BucketOf(R[k]) = BucketOf(R[m]) /\ h[k] < h[m]
        BY <3>4 DEF SortedPart
      <3>6. W[i] = R[k] /\ f[i] = h[k] /\ W[j] = R[m] /\ f[j] = h[m]
        BY <1>3, <3>1, <3>3
      <3> QED BY <3>5, <3>6
    <2> QED BY <2>1, <2>2, <2>3
  <1>10. SortedPart(f, W, E, T \cup U)
    BY <1>1, <1>6, <1>7, <1>8, <1>9 DEF SortedPart
  <1> QED BY <1>10 DEF W

Ordered(E) == Bucket(E, 0) \o Bucket(E, 1) \o Bucket(E, 2) \o Bucket(E, 3)

\* The four buckets together: every entry once, sorted, and the place of an entry tells
\* its roles.
LEMMA OrderedSorted ==
    ASSUME NEW E \in Seq(Ref)
    PROVE  /\ \E h : SortedPart(h, Ordered(E), E, ToSet(E))
           /\ \A b \in 0 .. 3 : Len(Bucket(E, b)) \in Nat
           /\ Len(Ordered(E)) = Len(Bucket(E, 0)) + Len(Bucket(E, 1))
                                + Len(Bucket(E, 2)) + Len(Bucket(E, 3))
           /\ \A i \in 1 .. Len(Ordered(E)) :
                 LET n0 == Len(Bucket(E, 0))
                     n1 == n0 + Len(Bucket(E, 1))
                     n2 == n1 + Len(Bucket(E, 2))
                 IN  BucketOf(Ordered(E)[i]) = IF i <= n0 THEN 0 ELSE IF i <= n1 THEN 1
                                               ELSE IF i <= n2 THEN 2 ELSE 3
  <1> DEFINE B0 == Bucket(E, 0)  B1 == Bucket(E, 1)  B2 == Bucket(E, 2)  B3 == Bucket(E, 3)
             T0 == InBucket(E, 0)  T1 == InBucket(E, 1)  T2 == InBucket(E, 2)  T3 == InBucket(E, 3)
             C1 == B0 \o B1   C2 == C1 \o B2   C3 == C2 \o B3
  <1>0. /\ B0 \in Seq(Ref) /\ B1 \in Seq(Ref) /\ B2 \in Seq(Ref) /\ B3 \in Seq(Ref)
        /\ \A i \in 1 .. Len(B0) : BucketOf(B0[i]) = 0
        /\ \A i \in 1 .. Len(B1) : BucketOf(B1[i]) = 1
        /\ \A i \in 1 .. Len(B2) : BucketOf(B2[i]) = 2
        /\ \A i \in 1 .. Len(B3) : BucketOf(B3[i]) = 3
    BY BucketSorted
  <1>1. PICK h0, h1, h2, h3 : /\ SortedPart(h0, B0, E, T0) /\ SortedPart(h1, B1, E, T1)
                              /\ SortedPart(h2, B2, E, T2) /\ SortedPart(h3, B3, E, T3)
    BY BucketSorted
  <1>2. /\ \A t \in T0 : BucketOf(t) = 0
        /\ \A t \in T1 : BucketOf(t) = 1
        /\ \A t \in T2 : BucketOf(t) = 2
        /\ \A t \in T3 : BucketOf(t) = 3
    BY DEF InBucket
  <1>3. T0 \cup T1 \cup T2 \cup T3 = ToSet(E)
    <2>1. \A e \in ToSet(E) : e \in Ref
      BY DEF ToSet
    <2>2. \A e \in ToSet(E) : BucketOf(e) \in {0, 1, 2, 3}
      BY <2>1, BucketType
    <2> QED BY <2>2 DEF InBucket
  <1> HIDE DEF T0, T1, T2, T3, B0, B1, B2, B3
  <1>4. PICK f1 : SortedPart(f1, C1, E, T0 \cup T1)
    <2> \A t \in T0, u \in T1 : BucketOf(t) < BucketOf(u)
      BY <1>2
    <2> QED BY <1>1, SortedConcat
  <1> HIDE DEF C1
  <1>5. PICK f2 : SortedPart(f2, C2, E, T0 \cup T1 \cup T2)
    <2> \A t \in T0 \cup T1, u \in T2 : BucketOf(t) < BucketOf(u)
      BY <1>2
    <2> QED BY <1>1, <1>4, SortedConcat
  <1> HIDE DEF C2
  <1>6. PICK f3 : SortedPart(f3, C3, E, T0 \cup T1 \cup T2 \cup T3)
    <2> \A t \in T0 \cup T1 \cup T2, u \in T3 : BucketOf(t) < BucketOf(u)
      BY <1>2
    <2> QED BY <1>1, <1>5, SortedConcat
  <1>7. C3 = Ordered(E)
    BY DEF C1, C2, B0, B1, B2, B3, Ordered
  <1> HIDE DEF C3
  <1>8. \E h : SortedPart(h, C3, E, ToSet(E))
    BY <1>3, <1>6
  <1> DEFINE m0 == Len(B0)  m1 == Len(B1)  m2 == Len(B2)  m3 == Len(B3)
  <1>a. m0 \in Nat /\ m1 \in Nat /\ m2 \in Nat /\ m3 \in Nat
    BY <1>0
  <1>b. C1 \in Seq(Ref) /\ Len(C1) = m0 + m1
    BY <1>0 DEF C1
  <1>c. C2 \in Seq(Ref) /\ Len(C2) = m0 + m1 + m2
    <2> C1 \o B2 \in Seq(Ref) /\ Len(C1 \o B2) = Len(C1) + Len(B2)
      BY <1>0, <1>b, ConcatProperties, Zenon
    <2> QED BY <1>b, Zenon DEF C2
  <1>d. C3 \in Seq(Ref) /\ Len(C3) = m0 + m1 + m2 + m3
    <2> C2 \o B3 \in Seq(Ref) /\ Len(C2 \o B3) = Len(C2) + Len(B3)
      BY <1>0, <1>c, ConcatProperties, Zenon
    <2> QED BY <1>c, Zenon DEF C3
  <1>e. ASSUME NEW i \in 1 .. Len(C1) PROVE C1[i] = IF i <= m0 THEN B0[i] ELSE B1[i - m0]
    BY <1>0, <1>a, <1>b DEF C1
  <1>f. ASSUME NEW i \in 1 .. Len(C2) PROVE C2[i] = IF i <= m0 + m1 THEN C1[i] ELSE B2[i - (m0 + m1)]
    BY <1>0, <1>a, <1>b, <1>c DEF C2
  <1>g. ASSUME NEW i \in 1 .. Len(C3)
        PROVE  C3[i] = IF i <= m0 + m1 + m2 THEN C2[i] ELSE B3[i - (m0 + m1 + m2)]
    <2>1. CASE i <= m0 + m1 + m2
      BY <1>0, <1>a, <1>c, <1>d, <2>1, ConcatProperties DEF C3
    <2>2. CASE ~(i <= m0 + m1 + m2)
      <3>1. i \in 1 .. Len(C2) + Len(B3) /\ ~(i <= Len(C2))
        BY <1>a, <1>c, <1>d, <2>2
      <3>2. (C2 \o B3)[i] = B3[i - Len(C2)]
        BY <1>0, <1>c, <3>1, ConcatProperties, SMTT(20)
      <3> QED BY <1>c, <2>2, <3>2 DEF C3
    <2> QED BY <2>1, <2>2
  <1>9. ASSUME NEW i \in 1 .. Len(C3)
        PROVE  BucketOf(C3[i]) = IF i <= m0 THEN 0 ELSE IF i <= m0 + m1 THEN 1
                                 ELSE IF i <= m0 + m1 + m2 THEN 2 ELSE 3
    <2>1. CASE i <= m0
      <3> i \in 1 .. m0 /\ i <= m0 + m1 /\ i <= m0 + m1 + m2 /\ i \in 1 .. Len(C1) /\ i \in 1 .. Len(C2)
        BY <1>a, <1>b, <1>c, <2>1
      <3> C3[i] = B0[i]
        BY <1>e, <1>f, <1>g, <2>1
      <3> QED BY <1>0, <2>1
    <2>2. CASE ~(i <= m0) /\ i <= m0 + m1
      <3> i - m0 \in 1 .. m1 /\ i <= m0 + m1 + m2 /\ i \in 1 .. Len(C1) /\ i \in 1 .. Len(C2)
        BY <1>a, <1>b, <1>c, <2>2
      <3> C3[i] = B1[i - m0]
        BY <1>e, <1>f, <1>g, <2>2
      <3> QED BY <1>0, <2>2
    <2>3. CASE ~(i <= m0 + m1) /\ i <= m0 + m1 + m2
      <3> i - (m0 + m1) \in 1 .. m2 /\ i \in 1 .. Len(C2) /\ ~(i <= m0)
        BY <1>a, <1>c, <2>3
      <3> C3[i] = B2[i - (m0 + m1)]
        BY <1>f, <1>g, <2>3
      <3> QED BY <1>0, <2>3
    <2>4. CASE ~(i <= m0 + m1 + m2)
      <3> i - (m0 + m1 + m2) \in 1 .. m3 /\ ~(i <= m0) /\ ~(i <= m0 + m1)
        BY <1>a, <1>d, <2>4
      <3> C3[i] = B3[i - (m0 + m1 + m2)]
        BY <1>g, <2>4
      <3> QED BY <1>0, <2>4
    <2> QED BY <1>a, <2>1, <2>2, <2>3, <2>4
  <1>10. \A b \in 0 .. 3 : Len(Bucket(E, b)) \in Nat
    BY BucketSorted
  <1> QED BY <1>7, <1>8, <1>9, <1>10, <1>d DEF B0, B1, B2, B3

\* A number that fits is not changed by its conversion to uint8.
LEMMA Uint8Exact ==
    ASSUME NEW n \in Nat, n < MaxAccounts
    PROVE  Uint8(n) = n
  BY WidthAssumption DEF Uint8

\* What the runtime reads from a header for the static account at index i.
StaticSigner(H, i) == i < H.required
StaticWritable(H, i) ==
    IF i < H.required THEN i < H.required - H.readonlySigned
    ELSE i < Len(H.keys) - H.readonlyUnsigned
StaticBucket(H, i) == BucketOf([signer |-> StaticSigner(H, i), writable |-> StaticWritable(H, i)])

\* What a header and its keys say about the references they were made from.
HeaderOK(H, refs) ==
    /\ H.keys \in Seq(Keys) /\ H.keys # <<>> /\ H.keys[1] = refs[1].key
    /\ H.required \in 0 .. Len(H.keys)
    /\ NoRepeats(H.keys)
    /\ \A k : Occurs(k, H.keys) <=> \E n \in 1 .. Len(refs) : refs[n].key = k
    /\ \A i \in 1 .. Len(H.keys) :
          /\ StaticSigner(H, i - 1)
                <=> \E n \in 1 .. Len(refs) : refs[n].key = H.keys[i] /\ refs[n].signer
          /\ StaticWritable(H, i - 1)
                <=> \E n \in 1 .. Len(refs) : refs[n].key = H.keys[i] /\ refs[n].writable
    /\ \A i, j \in 1 .. Len(H.keys) : i < j =>
          \/ StaticBucket(H, i - 1) < StaticBucket(H, j - 1)
          \/ /\ StaticBucket(H, i - 1) = StaticBucket(H, j - 1)
             /\ \A n \in 1 .. Len(refs) : refs[n].key = H.keys[j] =>
                   \E m \in 1 .. n - 1 : refs[m].key = H.keys[i]

LEMMA HeaderFromReferences ==
    ASSUME NEW refs \in Seq(Ref), refs # <<>>, refs[1].signer, refs[1].writable,
           NEW D, IsFiniteSet(D), Cardinality(D) <= MaxSigners,
           \A n \in 1 .. Len(refs) : refs[n].signer => refs[n].key \in D,
           Len(BucketAndOrder(Entries(refs)).keys) <= MaxAccounts
    PROVE  HeaderOK(BucketAndOrder(Entries(refs)), refs)
  <1> DEFINE E == Entries(refs)
             H == BucketAndOrder(E)
             O == Ordered(E)
             N == Len(O)
             n0 == Len(Bucket(E, 0))
             n1 == n0 + Len(Bucket(E, 1))
             n2 == n1 + Len(Bucket(E, 2))
             n3 == Len(Bucket(E, 3))
  <1>1. Collected(E, refs) /\ E \in Seq(Ref)
    BY EntriesCollected DEF Collected
  <1>2. PICK h : SortedPart(h, O, E, ToSet(E))
    BY <1>1, OrderedSorted
  <1>3. O \in Seq(Ref) /\ N \in Nat
    BY <1>2 DEF SortedPart
  <1>4. /\ Len(Bucket(E, 0)) \in Nat /\ Len(Bucket(E, 1)) \in Nat /\ Len(Bucket(E, 2)) \in Nat
        /\ n0 \in Nat /\ n1 \in Nat /\ n2 \in Nat /\ n3 \in Nat /\ n0 <= n1 /\ n1 <= n2
    BY <1>1, OrderedSorted, SMTT(20)
  <1>5. N = n2 + n3
    BY <1>1, OrderedSorted
  <1>6. ASSUME NEW i \in 1 .. N
        PROVE  BucketOf(O[i]) = IF i <= n0 THEN 0 ELSE IF i <= n1 THEN 1 ELSE IF i <= n2 THEN 2 ELSE 3
    BY <1>1, OrderedSorted
  <1>7. /\ H.keys = [i \in DOMAIN O |-> O[i].key]
        /\ H.required = Uint8(n1)
        /\ H.readonlySigned = Uint8(Len(Bucket(E, 1)))
        /\ H.readonlyUnsigned = Uint8(n3)
    BY DEF BucketAndOrder, Ordered, Bucket, InBucket
  <1> HIDE DEF E, H, O, n0, n1, n2, n3
  <1>a. \A i, j \in 1 .. Len(E) : E[i].key = E[j].key => i = j
    BY <1>1 DEF Collected
  <1>b. \A i \in 1 .. Len(E) : \E n \in 1 .. Len(refs) : refs[n].key = E[i].key
    BY <1>1 DEF Collected
  <1>c. ASSUME NEW i \in 1 .. Len(E)
        PROVE  /\ E[i].signer <=> \E n \in 1 .. Len(refs) : refs[n].key = E[i].key /\ refs[n].signer
               /\ E[i].writable <=> \E n \in 1 .. Len(refs) : refs[n].key = E[i].key /\ refs[n].writable
    BY <1>1 DEF Collected
  <1>d. ASSUME NEW i \in 1 .. Len(E), NEW j \in 1 .. Len(E), NEW n \in 1 .. Len(refs),
               i < j, refs[n].key = E[j].key
        PROVE  \E m \in 1 .. n - 1 : refs[m].key = E[i].key
    BY <1>1, <1>d DEF Collected
  <1>8. /\ H.keys \in Seq(Keys) /\ Len(H.keys) = N
        /\ \A i \in 1 .. N : H.keys[i] = O[i].key
    <2>1. \A i \in 1 .. N : O[i] \in Ref
      BY <1>3
    <2>2. \A i \in 1 .. N : O[i].key \in Keys
      BY <2>1 DEF Ref
    <2>3. DOMAIN O = 1 .. N
      BY <1>3
    <2> QED BY <1>3, <1>7, <2>2, <2>3
  <1>9. N <= MaxAccounts
    BY <1>8 DEF H, E
  <1>10. ASSUME NEW i \in 1 .. N
         PROVE  h[i] \in 1 .. Len(E) /\ O[i] = E[h[i]] /\ O[i] \in Ref
    BY <1>2, <1>3, SMTT(20) DEF SortedPart
  \* the payer
  <1>11. 1 \in 1 .. Len(refs)
    OBVIOUS
  <1>12. 1 \in 1 .. Len(E) /\ E[1].key = refs[1].key /\ E[1].signer /\ E[1].writable
    <2>1. PICK i \in 1 .. Len(E) : E[i].key = refs[1].key
      BY <1>1, <1>11 DEF Collected
    <2>2. 1 \in 1 .. Len(E)
      BY <1>1, <2>1
    <2>3. i = 1
      <3> SUFFICES ASSUME 1 < i PROVE FALSE
        BY <2>1
      <3> PICK m \in 1 .. 1 - 1 : refs[m].key = E[1].key
        BY <1>1, <1>11, <2>1, <2>2 DEF Collected
      <3> QED OBVIOUS
    <2> QED BY <1>1, <1>11, <2>1, <2>2, <2>3 DEF Collected
  <1>13. 1 \in 1 .. N /\ h[1] = 1 /\ O[1] = E[1]
    <2>1. E[1] \in Ref /\ E[1] \in ToSet(E) /\ BucketOf(E[1]) = 0
      BY <1>1, <1>12, BucketType DEF ToSet
    <2>2. PICK i \in 1 .. N : h[i] = 1
      BY <1>2, <1>12, <2>1 DEF SortedPart
    <2>3. 1 \in 1 .. N
      BY <1>3, <2>2
    <2>4. i = 1
      <3> SUFFICES ASSUME 1 < i PROVE FALSE
        BY <2>2
      <3>1. O[i] = E[1] /\ BucketOf(O[1]) \in 0 .. 3 /\ h[1] \in 1 .. Len(E)
        BY <1>10, <2>2, <2>3, BucketType
      <3>2. \/ BucketOf(O[1]) < BucketOf(O[i])
            \/ BucketOf(O[1]) = BucketOf(O[i]) /\ h[1] < h[i]
        BY <1>2, <2>2, <2>3 DEF SortedPart
      <3> QED BY <2>1, <2>2, <3>1, <3>2
    <2> QED BY <1>10, <2>2, <2>3, <2>4
  <1>14. n0 >= 1
    <2> BucketOf(O[1]) = 0
      BY <1>1, <1>12, <1>13, BucketType
    <2> SUFFICES ASSUME ~(1 <= n0) PROVE FALSE
      BY <1>4
    <2> QED BY <1>6, <1>13
  <1>15. n1 <= N /\ n3 < MaxAccounts
    BY <1>4, <1>5, <1>9, <1>14, WidthAssumption
  \* no key twice
  <1>16. ASSUME NEW i \in 1 .. N, NEW j \in 1 .. N, O[i].key = O[j].key PROVE i = j
    <2>1. h[i] = h[j]
      <3> h[i] \in 1 .. Len(E) /\ h[j] \in 1 .. Len(E) /\ E[h[i]].key = E[h[j]].key
        BY <1>10, <1>16
      <3> QED BY <1>a, Zenon
    <2>2. O[i] = O[j] /\ h[i] \in Nat /\ BucketOf(O[i]) \in 0 .. 3
      BY <1>10, <2>1, BucketType
    <2>3. ASSUME NEW p \in 1 .. N, NEW q \in 1 .. N, p < q, h[p] = h[q], O[p] = O[q],
                 h[p] \in Nat, BucketOf(O[p]) \in 0 .. 3
          PROVE  FALSE
      <3> \/ BucketOf(O[p]) < BucketOf(O[q])
          \/ BucketOf(O[p]) = BucketOf(O[q]) /\ h[p] < h[q]
        BY <1>2, <2>3 DEF SortedPart
      <3> QED BY <2>3
    <2>4. ~(i < j) /\ ~(j < i)
      BY <2>1, <2>2, <2>3
    <2> QED BY <2>4
  <1>17. NoRepeats(H.keys)
    BY <1>8, <1>16 DEF NoRepeats
  \* roles
  <1>18. ASSUME NEW i \in 1 .. N
         PROVE  /\ O[i].signer <=> \E n \in 1 .. Len(refs) : refs[n].key = O[i].key /\ refs[n].signer
                /\ O[i].writable <=> \E n \in 1 .. Len(refs) : refs[n].key = O[i].key /\ refs[n].writable
    <2> DEFINE p == h[i]
    <2>1. p \in 1 .. Len(E) /\ O[i] = E[p]
      BY <1>10
    <2> HIDE DEF p
    <2>2. /\ E[p].signer <=> \E n \in 1 .. Len(refs) : refs[n].key = E[p].key /\ refs[n].signer
          /\ E[p].writable <=> \E n \in 1 .. Len(refs) : refs[n].key = E[p].key /\ refs[n].writable
      BY <1>c, <2>1, Zenon
    <2> QED BY <2>1, <2>2, Zenon
  <1>19. n1 <= MaxSigners
    <2> SUFFICES ASSUME n1 > MaxSigners PROVE FALSE
      BY <1>4, WidthAssumption
    <2> DEFINE f == [i \in 1 .. n1 |-> O[i].key]
    <2>1. ASSUME NEW i \in 1 .. n1 PROVE f[i] \in D /\ i \in 1 .. N
      <3>1. i \in 1 .. N
        BY <1>4, <1>15, <1>3
      <3>2. BucketOf(O[i]) \in {0, 1}
        BY <1>4, <1>6, <3>1
      <3>3. O[i].signer
        BY <1>10, <3>1, <3>2, BucketType
      <3>4. PICK n \in 1 .. Len(refs) : refs[n].key = O[i].key /\ refs[n].signer
        BY <1>18, <3>1, <3>3
      <3> QED BY <3>1, <3>4
    <2>2. f \in [1 .. n1 -> D]
      BY <2>1
    <2>3. IsFiniteSet(1 .. n1) /\ Cardinality(1 .. n1) = n1
      BY <1>4, FS_Interval
    <2>4. Cardinality(D) \in Nat
      BY FS_CardinalityType
    <2>5. Cardinality(D) < Cardinality(1 .. n1)
      BY <2>3, <2>4, <1>4, WidthAssumption
    <2>6. PICK x \in 1 .. n1, y \in 1 .. n1 : x # y /\ f[x] = f[y]
      <3> HIDE DEF f
      <3> QED BY <2>2, <2>3, <2>5, FS_PigeonHole
    <2> QED BY <1>16, <2>1, <2>6
  <1>20. H.required = n1 /\ H.readonlySigned = n1 - n0 /\ H.readonlyUnsigned = n3
    <2>1. n1 < MaxAccounts
      BY <1>4, <1>19, WidthAssumption
    <2>2. Len(Bucket(E, 1)) = n1 - n0
      BY <1>4 DEF n1
    <2>3. n1 - n0 \in Nat /\ n1 - n0 < MaxAccounts
      BY <1>4, <2>1, WidthAssumption
    <2> QED BY <1>4, <1>7, <1>15, <2>1, <2>2, <2>3, Uint8Exact
  <1>21. ASSUME NEW i \in 1 .. N
         PROVE  /\ StaticSigner(H, i - 1) <=> O[i].signer
                /\ StaticWritable(H, i - 1) <=> O[i].writable
    <2>1. O[i].signer <=> BucketOf(O[i]) \in {0, 1}
      BY <1>10, BucketType
    <2>2. O[i].writable <=> BucketOf(O[i]) \in {0, 2}
      BY <1>10, BucketType
    <2>3. StaticSigner(H, i - 1) <=> i <= n1
      BY <1>4, <1>20 DEF StaticSigner
    <2>4. StaticWritable(H, i - 1) <=> IF i <= n1 THEN i <= n0 ELSE i <= n2
      <3> Len(H.keys) - n3 = n2
        BY <1>3, <1>4, <1>5, <1>8
      <3> QED BY <1>4, <1>20, SMTT(20) DEF StaticWritable
    <2>5. /\ BucketOf(O[i]) \in {0, 1} <=> i <= n1
          /\ BucketOf(O[i]) \in {0, 2} <=> IF i <= n1 THEN i <= n0 ELSE i <= n2
      BY <1>4, <1>6
    <2> QED BY <2>1, <2>2, <2>3, <2>4, <2>5
  <1>22. ASSUME NEW i \in 1 .. N PROVE StaticBucket(H, i - 1) = BucketOf(O[i])
    BY <1>21 DEF StaticBucket, BucketOf
  <1>23. ASSUME NEW k PROVE Occurs(k, H.keys) <=> \E n \in 1 .. Len(refs) : refs[n].key = k
    <2>1. ASSUME Occurs(k, H.keys) PROVE \E n \in 1 .. Len(refs) : refs[n].key = k
      <3>1. PICK i \in 1 .. N : O[i].key = k
        BY <1>8, <2>1 DEF Occurs
      <3>2. h[i] \in 1 .. Len(E) /\ E[h[i]].key = k
        BY <1>10, <3>1
      <3> QED BY <1>b, <3>2
    <2>2. ASSUME NEW n \in 1 .. Len(refs), refs[n].key = k PROVE Occurs(k, H.keys)
      <3>1. PICK p \in 1 .. Len(E) : E[p].key = k
        BY <1>1, <2>2 DEF Collected
      <3>2. E[p] \in ToSet(E)
        BY <1>1 DEF ToSet
      <3>3. PICK i \in 1 .. N : h[i] = p
        BY <1>2, <3>2 DEF SortedPart
      <3>4. O[i].key = k
        BY <1>10, <3>1, <3>3
      <3> QED BY <1>8, <3>4 DEF Occurs
    <2> QED BY <2>1, <2>2
  <1>24. ASSUME NEW i \in 1 .. N, NEW j \in 1 .. N, i < j
         PROVE  \/ StaticBucket(H, i - 1) < StaticBucket(H, j - 1)
                \/ /\ StaticBucket(H, i - 1) = StaticBucket(H, j - 1)
                   /\ \A n \in 1 .. Len(refs) : refs[n].key = H.keys[j] =>
                         \E m \in 1 .. n - 1 : refs[m].key = H.keys[i]
    <2>1. \/ BucketOf(O[i]) < BucketOf(O[j])
          \/ BucketOf(O[i]) = BucketOf(O[j]) /\ h[i] < h[j]
      BY <1>2, <1>24 DEF SortedPart
    <2>2. ASSUME h[i] < h[j], NEW n \in 1 .. Len(refs), refs[n].key = E[h[j]].key
          PROVE  \E m \in 1 .. n - 1 : refs[m].key = E[h[i]].key
      BY <1>10, <1>d, <2>2
    <2>3. H.keys[i] = E[h[i]].key /\ H.keys[j] = E[h[j]].key
      BY <1>8, <1>10
    <2> QED BY <1>22, <2>1, <2>2, <2>3
  <1>25. H.keys # <<>> /\ H.keys[1] = refs[1].key
    BY <1>8, <1>12, <1>13
  <1>26. H.required \in 0 .. Len(H.keys)
    BY <1>3, <1>4, <1>8, <1>15, <1>20
  <1>27. HeaderOK(H, refs)
    BY <1>8, <1>17, <1>18, <1>21, <1>23, <1>24, <1>25, <1>26 DEF HeaderOK
  <1> QED BY <1>27 DEF H, E

--------------------------------------------------------------------------------
(***************************************************************************)
(* References, the signers among them, and the indices of keys.             *)
(***************************************************************************)
LEMMA ToSetOccurs == ASSUME NEW S, NEW s \in Seq(S), NEW y PROVE y \in ToSet(s) <=> Occurs(y, s)
  <1> DOMAIN s = 1 .. Len(s)
    OBVIOUS
  <1> QED BY DEF ToSet, Occurs

\* A sequence of instructions with something appended to each.
LEMMA FlattenWithPrograms ==
    ASSUME NEW ii \in Seq(Instruction), NEW M,
           \A j \in 1 .. Len(ii) : M[j] \in Seq(Ref)
    PROVE  LET s == FlattenSeq([j \in DOMAIN ii |-> Append(M[j], ProgramRef(ii[j]))])
           IN  /\ s \in Seq(Ref)
               /\ \A r : Occurs(r, s) <=> \E j \in 1 .. Len(ii) : Occurs(r, M[j]) \/ r = ProgramRef(ii[j])
  <1> DEFINE q == [j \in DOMAIN ii |-> Append(M[j], ProgramRef(ii[j]))]
  <1>1. DOMAIN ii = 1 .. Len(ii) /\ Len(ii) \in Nat
    OBVIOUS
  <1>2. ASSUME NEW j \in 1 .. Len(ii)
        PROVE  /\ q[j] \in Seq(Ref)
               /\ \A r : Occurs(r, q[j]) <=> Occurs(r, M[j]) \/ r = ProgramRef(ii[j])
    <2>1. ii[j] \in Instruction
      OBVIOUS
    <2>2. ProgramRef(ii[j]) \in Ref
      BY <2>1 DEF ProgramRef, Ref, Instruction, Keys
    <2>3. q[j] = Append(M[j], ProgramRef(ii[j]))
      BY <1>1
    <2> HIDE DEF q
    <2> DEFINE a == M[j]
               x == ProgramRef(ii[j])
    <2>a. a \in Seq(Ref)
      OBVIOUS
    <2> HIDE DEF a, x
    <2>4. /\ Append(a, x) \in Seq(Ref) /\ Len(Append(a, x)) = Len(a) + 1 /\ Len(a) \in Nat
          /\ Append(a, x)[Len(a) + 1] = x /\ \A i \in 1 .. Len(a) : Append(a, x)[i] = a[i]
      BY <2>2, <2>a DEF x
    <2>5. /\ 1 .. Len(a) \subseteq 1 .. Len(a) + 1 /\ Len(a) + 1 \in 1 .. Len(a) + 1
          /\ \A i \in 1 .. Len(a) + 1 : i \in 1 .. Len(a) \/ i = Len(a) + 1
      BY <2>4
    <2>6. \A r : Occurs(r, Append(a, x)) <=> Occurs(r, a) \/ r = x
      BY <2>4, <2>5 DEF Occurs
    <2> QED BY <2>3, <2>4, <2>6 DEF a, x
  <1>3. q = [j \in 1 .. Len(ii) |-> q[j]]
    BY <1>1
  <1> HIDE DEF q
  <1>4. q \in Seq(Seq(Ref)) /\ Len(q) = Len(ii)
    BY <1>1, <1>2, <1>3
  <1>5. FlattenSeq(q) \in Seq(Ref)
    BY <1>4, FlattenElements
  <1>6. ASSUME NEW r
        PROVE  Occurs(r, FlattenSeq(q))
               <=> \E j \in 1 .. Len(ii) : Occurs(r, M[j]) \/ r = ProgramRef(ii[j])
    <2> Occurs(r, FlattenSeq(q)) <=> \E j \in 1 .. Len(ii) : Occurs(r, q[j])
      BY <1>4, FlattenElements
    <2> QED BY <1>2
  <1> QED BY <1>5, <1>6 DEF q

LEMMA InstructionType ==
    ASSUME NEW ii \in Seq(Instruction), NEW j \in 1 .. Len(ii)
    PROVE  ii[j].metas \in Seq(Ref) /\ ii[j].program \in Programs
  <1> DEFINE x == ii[j]
  <1>1. x \in Instruction
    OBVIOUS
  <1> HIDE DEF x
  <1>2. x.metas \in Seq(Ref) /\ x.program \in Programs
    BY <1>1 DEF Instruction
  <1> QED BY <1>2 DEF x

\* The references of instructions are their account references and their programs.
LEMMA ReferencesElements ==
    ASSUME NEW ii \in Seq(Instruction)
    PROVE  /\ References(ii) \in Seq(Ref)
           /\ \A r : Occurs(r, References(ii))
                 <=> \E j \in 1 .. Len(ii) : Occurs(r, ii[j].metas) \/ r = ProgramRef(ii[j])
  <1> DEFINE M == [j \in 1 .. Len(ii) |-> ii[j].metas]
  <1>1. \A j \in 1 .. Len(ii) : M[j] = ii[j].metas /\ M[j] \in Seq(Ref)
    BY InstructionType
  <1>2. DOMAIN ii = 1 .. Len(ii)
    OBVIOUS
  <1>3. References(ii) = FlattenSeq([j \in DOMAIN ii |-> Append(M[j], ProgramRef(ii[j]))])
    BY <1>1, <1>2 DEF References
  <1> HIDE DEF M
  <1> DEFINE s == FlattenSeq([j \in DOMAIN ii |-> Append(M[j], ProgramRef(ii[j]))])
  <1>4. s \in Seq(Ref) /\ \A r : Occurs(r, s)
           <=> \E j \in 1 .. Len(ii) : Occurs(r, M[j]) \/ r = ProgramRef(ii[j])
    BY <1>1, FlattenWithPrograms
  <1> HIDE DEF s
  <1> QED BY <1>1, <1>3, <1>4 DEF s

\* The static references leave out the account references that are routed.
LEMMA StaticReferencesElements ==
    ASSUME NEW ii \in Seq(Instruction), NEW tt, NEW pp
    PROVE  /\ StaticReferences(tt, pp, ii) \in Seq(Ref)
           /\ \A r : Occurs(r, StaticReferences(tt, pp, ii))
                 <=> \E j \in 1 .. Len(ii) :
                        \/ Occurs(r, ii[j].metas) /\ ~Routed(tt, pp, ii, r)
                        \/ r = ProgramRef(ii[j])
  <1> DEFINE T(j) == {r \in ToSet(ii[j].metas) : ~Routed(tt, pp, ii, r)}
             M == [j \in 1 .. Len(ii) |-> Where(ii[j].metas, T(j))]
  <1>1. ASSUME NEW j \in 1 .. Len(ii)
        PROVE  /\ M[j] = Where(ii[j].metas, T(j)) /\ M[j] \in Seq(Ref)
               /\ \A r : Occurs(r, M[j]) <=> Occurs(r, ii[j].metas) /\ ~Routed(tt, pp, ii, r)
    <2>1. ii[j].metas \in Seq(Ref)
      BY InstructionType
    <2>2. M[j] = Where(ii[j].metas, T(j))
      OBVIOUS
    <2> DEFINE a == ii[j].metas
               w == Where(a, T(j))
    <2>3. w \in Seq(Ref)
      BY <2>1, WhereSelects
    <2>4. PICK g : Picks(g, w, a, T(j))
      BY <2>1, WhereSelects
    <2>5. \A r : r \in T(j) <=> Occurs(r, a) /\ ~Routed(tt, pp, ii, r)
      BY <2>1, ToSetOccurs
    <2> HIDE DEF T, a, w
    <2>6. ASSUME NEW r PROVE Occurs(r, w) <=> r \in T(j)
      <3>1. ASSUME Occurs(r, w) PROVE r \in T(j)
        BY <2>4, <3>1 DEF Picks, Occurs
      <3>2. ASSUME r \in T(j) PROVE Occurs(r, w)
        <4>1. PICK p \in 1 .. Len(a) : a[p] = r
          BY <2>5, <3>2 DEF Occurs
        <4>2. PICK i \in 1 .. Len(w) : g[i] = p
          BY <2>4, <3>2, <4>1 DEF Picks
        <4> QED BY <2>4, <4>1, <4>2 DEF Picks, Occurs
      <3> QED BY <3>1, <3>2
    <2> QED BY <2>2, <2>3, <2>5, <2>6 DEF a, w
  <1>2. DOMAIN ii = 1 .. Len(ii)
    OBVIOUS
  <1>3. StaticReferences(tt, pp, ii) = FlattenSeq([j \in DOMAIN ii |-> Append(M[j], ProgramRef(ii[j]))])
    BY <1>2 DEF StaticReferences
  <1> HIDE DEF M, T
  <1> DEFINE s == FlattenSeq([j \in DOMAIN ii |-> Append(M[j], ProgramRef(ii[j]))])
  <1>4. s \in Seq(Ref) /\ \A r : Occurs(r, s)
           <=> \E j \in 1 .. Len(ii) : Occurs(r, M[j]) \/ r = ProgramRef(ii[j])
    BY <1>1, FlattenWithPrograms
  <1> HIDE DEF s
  <1> QED BY <1>1, <1>3, <1>4 DEF s

\* Who signs: the payer, and whoever an instruction asks to.
LEMMA SignerSetElements ==
    ASSUME NEW ii \in Seq(Instruction), NEW pp
    PROVE  /\ IsFiniteSet(SignerSet(pp, ii))
           /\ \A k : k \in SignerSet(pp, ii)
                 <=> k = pp \/ \E j \in 1 .. Len(ii) : \E r : Occurs(r, ii[j].metas) /\ r.signer /\ r.key = k
  <1> DEFINE s == References(ii)
             D == SignerSet(pp, ii)
             K == {s[i].key : i \in 1 .. Len(s)}
             f == [i \in 1 .. Len(s) |-> s[i].key]
  <1>1. s \in Seq(Ref) /\ Len(s) \in Nat
    BY ReferencesElements
  <1>2. \A k : k \in D <=> k = pp \/ \E r : Occurs(r, s) /\ r.signer /\ r.key = k
    BY <1>1, ToSetOccurs DEF SignerSet
  <1>3. IsFiniteSet(D)
    <2>1. f \in Surjection(1 .. Len(s), K)
      BY DEF Surjection
    <2>2. IsFiniteSet(1 .. Len(s))
      BY <1>1, FS_Interval
    <2>3. IsFiniteSet(K)
      <3> HIDE DEF f, K
      <3> QED BY <2>1, <2>2, FS_Surjection
    <2>4. IsFiniteSet(K \cup {pp})
      BY <2>3, FS_AddElement
    <2>5. D \subseteq K \cup {pp}
      <3> HIDE DEF D
      <3> QED BY <1>2 DEF Occurs
    <2> QED BY <2>4, <2>5, FS_Subset
  <1>4. \A j \in 1 .. Len(ii) : ~ProgramRef(ii[j]).signer
    BY DEF ProgramRef
  <1> HIDE DEF D, s
  <1>5. \A r : Occurs(r, s) /\ r.signer
           <=> \E j \in 1 .. Len(ii) : Occurs(r, ii[j].metas) /\ r.signer
    BY <1>4, ReferencesElements DEF s
  <1> QED BY <1>2, <1>3, <1>5 DEF D

\* KeyIndex finds a key that is there, at its last place, and the index fits a uint8.
LEMMA KeyIndexFinds ==
    ASSUME NEW keys \in Seq(Keys), Len(keys) <= MaxAccounts, NEW k, Occurs(k, keys)
    PROVE  /\ KeyIndex(keys, k) \in 0 .. Len(keys) - 1
           /\ Uint8(KeyIndex(keys, k)) = KeyIndex(keys, k)
           /\ keys[KeyIndex(keys, k) + 1] = k
           /\ \A i \in 1 .. Len(keys) : keys[i] = k => i <= KeyIndex(keys, k) + 1
  <1> DEFINE S == {i \in DOMAIN keys : keys[i] = k}
             x == Max(S)
  <1>1. DOMAIN keys = 1 .. Len(keys) /\ Len(keys) \in Nat
    OBVIOUS
  <1>2. S \subseteq 0 .. Len(keys) /\ S # {}
    BY <1>1 DEF Occurs
  <1>3. x \in S /\ \A y \in S : y <= x
    <2> HIDE DEF S
    <2> QED BY <1>1, <1>2, MaxProperty
  <1>4. KeyIndex(keys, k) = x - 1
    BY DEF KeyIndex
  <1> HIDE DEF x
  <1>5. x \in 1 .. Len(keys) /\ keys[x] = k
    BY <1>1, <1>3
  <1>6. x - 1 \in 0 .. Len(keys) - 1 /\ x - 1 + 1 = x /\ x - 1 \in Nat /\ x - 1 < MaxAccounts
    BY <1>1, <1>5, WidthAssumption
  <1>7. Uint8(x - 1) = x - 1
    BY <1>6, Uint8Exact
  <1>8. \A i \in 1 .. Len(keys) : keys[i] = k => i <= x
    BY <1>1, <1>3
  <1> QED BY <1>4, <1>5, <1>6, <1>7, <1>8

--------------------------------------------------------------------------------
(***************************************************************************)
(* Lookup tables.                                                          *)
(***************************************************************************)
LEMMA TablesType ==
    ASSUME NEW tt \in Seq(Table), NEW i \in 1 .. Len(tt)
    PROVE  tt[i].addrs \in Seq(Keys) /\ Len(tt[i].addrs) \in Nat
  <1> DEFINE x == tt[i]
  <1>1. x \in Table
    OBVIOUS
  <1> HIDE DEF x
  <1>2. x.addrs \in Seq(Keys)
    BY <1>1 DEF Table
  <1>3. Len(x.addrs) \in Nat
    BY <1>2
  <1> QED BY <1>2, <1>3 DEF x

\* TableSlot finds a slot that holds the key.
LEMMA TableSlotFinds ==
    ASSUME NEW tt \in Seq(Table), NEW k, InTable(tt, k)
    PROVE  \E ti \in 1 .. Len(tt) : \E s \in 0 .. Len(tt[ti].addrs) - 1 :
              TableSlot(tt, k) = <<ti, s>> /\ tt[ti].addrs[s + 1] = k
  <1> DEFINE I == {i \in 1 .. Len(tt) : k \in ToSet(tt[i].addrs)}
             ti == Min(I)
             a == tt[ti].addrs
             J == {i \in 1 .. Len(a) : a[i] = k}
  <1>0. DOMAIN tt = 1 .. Len(tt)
    OBVIOUS
  <1>1. I # {} /\ I \subseteq Nat
    BY <1>0 DEF InTable
  <1>2. ti \in I
    <2> HIDE DEF I
    <2> QED BY <1>1, MinProperty
  <1>3. SelectInSeq(tt, LAMBDA t : k \in ToSet(t.addrs)) = ti
    BY <1>1 DEF SelectInSeq
  <1>4. ti \in 1 .. Len(tt) /\ k \in ToSet(a)
    BY <1>2
  <1> HIDE DEF ti, I
  <1>5. a \in Seq(Keys) /\ Len(a) \in Nat
    BY <1>4, TablesType
  <1>6. TableSlot(tt, k) = <<ti, SelectInSeq(a, LAMBDA x : x = k) - 1>>
    BY <1>3 DEF TableSlot
  <1> HIDE DEF a
  <1>7. J # {} /\ J \subseteq Nat
    BY <1>4, <1>5, ToSetOccurs DEF Occurs
  <1>8. SelectInSeq(a, LAMBDA x : x = k) = Min(J)
    BY <1>7 DEF SelectInSeq
  <1>9. Min(J) \in J
    <2> HIDE DEF J
    <2> QED BY <1>7, MinProperty
  <1> DEFINE j == Min(J)
  <1>10. j \in 1 .. Len(a) /\ a[j] = k
    BY <1>9
  <1> HIDE DEF J, j
  <1>11. j - 1 \in 0 .. Len(a) - 1 /\ j - 1 + 1 = j
    BY <1>5, <1>10
  <1>12. TableSlot(tt, k) = <<ti, j - 1>> /\ a[j - 1 + 1] = k
    BY <1>6, <1>8, <1>10, <1>11 DEF j
  <1> QED BY <1>4, <1>11, <1>12 DEF a

RoutedRefs(tt, ii) ==
    {r \in UNION {ToSet(ii[j].metas) : j \in DOMAIN ii} : Routed(tt, Payer, ii, r)}
RoutedKeys(tt, ii) == {r.key : r \in RoutedRefs(tt, ii)}
WrittenKeys(tt, ii) == {r.key : r \in {x \in RoutedRefs(tt, ii) : x.writable}}

\* The keys behind the slots q of table ti.
Behind(tt, ti, q) == [i \in DOMAIN q |-> tt[ti].addrs[q[i] + 1]]

\* The slots in use of a table are those of the routed accounts it holds, each once.
LEMMA TableSlotsElements ==
    ASSUME NEW tt \in Seq(Table), NEW ii \in Seq(Instruction), NEW ti \in 1 .. Len(tt),
           NEW wr \in BOOLEAN
    PROVE  LET q == TableSlots(tt, Payer, ii, ti, wr)
           IN  /\ q \in Seq(0 .. Len(tt[ti].addrs) - 1) /\ NoRepeats(q)
               /\ \A s : Occurs(s, q) <=>
                     \E k \in RoutedKeys(tt, ii) :
                        TableSlot(tt, k) = <<ti, s>> /\ (k \in WrittenKeys(tt, ii) <=> wr)
  <1> DEFINE a == tt[ti].addrs
             R == RoutedRefs(tt, ii)
             slots == {s \in 0 .. Len(a) - 1 : \E r \in R : TableSlot(tt, r.key) = <<ti, s>>}
             writes(s) == \E r \in R : r.writable /\ TableSlot(tt, r.key) = <<ti, s>>
             T == {s \in slots : writes(s) = wr}
             n == [i \in 1 .. Len(a) |-> i - 1]
             q == Where(n, T)
             S == 0 .. Len(a) - 1
  <1>1. TableSlots(tt, Payer, ii, ti, wr) = q
    BY DEF TableSlots, RoutedRefs
  <1>2. Len(a) \in Nat
    BY TablesType
  <1>3. n \in Seq(S) /\ Len(n) = Len(a) /\ \A i \in 1 .. Len(a) : n[i] = i - 1
    BY <1>2
  <1> HIDE DEF n, S
  <1>4. q \in Seq(S)
    BY <1>3, WhereSelects
  <1>5. PICK g : Picks(g, q, n, T)
    BY <1>3, WhereSelects
  <1>6. ASSUME NEW s
        PROVE  s \in T <=> \E k \in RoutedKeys(tt, ii) :
                  TableSlot(tt, k) = <<ti, s>> /\ (k \in WrittenKeys(tt, ii) <=> wr)
    <2>1. \A k \in RoutedKeys(tt, ii) : InTable(tt, k)
      BY DEF RoutedKeys, RoutedRefs, Routed
    <2>2. ASSUME NEW k \in RoutedKeys(tt, ii), NEW l \in RoutedKeys(tt, ii),
                 TableSlot(tt, k) = <<ti, s>>, TableSlot(tt, l) = <<ti, s>>
          PROVE  k = l /\ s \in 0 .. Len(a) - 1
      <3>1. PICK t1 \in 1 .. Len(tt) : \E s1 \in 0 .. Len(tt[t1].addrs) - 1 :
                TableSlot(tt, k) = <<t1, s1>> /\ tt[t1].addrs[s1 + 1] = k
        BY <2>1, TableSlotFinds
      <3>2. PICK t2 \in 1 .. Len(tt) : \E s2 \in 0 .. Len(tt[t2].addrs) - 1 :
                TableSlot(tt, l) = <<t2, s2>> /\ tt[t2].addrs[s2 + 1] = l
        BY <2>1, TableSlotFinds
      <3>3. t1 = ti /\ t2 = ti /\ s \in 0 .. Len(a) - 1 /\ a[s + 1] = k /\ a[s + 1] = l
        BY <2>2, <3>1, <3>2
      <3> QED BY <3>3
    <2>3. \A k : k \in RoutedKeys(tt, ii) <=> \E r \in R : r.key = k
      BY DEF RoutedKeys
    <2>4. \A k : k \in WrittenKeys(tt, ii) <=> \E r \in R : r.writable /\ r.key = k
      BY DEF WrittenKeys
    <2>5. writes(s) \in BOOLEAN
      OBVIOUS
    <2>6. s \in T <=> s \in slots /\ (writes(s) <=> wr)
      BY <2>5
    <2> HIDE DEF R, T
    <2>7. s \in slots <=> \E k \in RoutedKeys(tt, ii) : TableSlot(tt, k) = <<ti, s>>
      BY <2>2, <2>3
    <2>8. ASSUME NEW k \in RoutedKeys(tt, ii), TableSlot(tt, k) = <<ti, s>>
          PROVE  writes(s) <=> k \in WrittenKeys(tt, ii)
      <3>1. ASSUME writes(s) PROVE k \in WrittenKeys(tt, ii)
        <4>1. PICK r \in R : r.writable /\ TableSlot(tt, r.key) = <<ti, s>>
          BY <3>1
        <4>2. r.key \in RoutedKeys(tt, ii)
          BY <2>3
        <4>3. r.key = k
          BY <2>2, <2>8, <4>1, <4>2
        <4> QED BY <2>4, <4>1, <4>3
      <3>2. ASSUME k \in WrittenKeys(tt, ii) PROVE writes(s)
        BY <2>4, <2>8, <3>2
      <3> QED BY <3>1, <3>2
    <2> QED BY <2>6, <2>7, <2>8
  <1> HIDE DEF T, q
  <1>7. ASSUME NEW s PROVE Occurs(s, q) <=> s \in T
    <2>1. ASSUME Occurs(s, q) PROVE s \in T
      BY <1>5, <2>1 DEF Picks, Occurs
    <2>2. ASSUME s \in T PROVE Occurs(s, q)
      <3>1. s \in 0 .. Len(a) - 1
        BY <2>2 DEF T
      <3>2. PICK c \in 1 .. Len(a) : c = s + 1
        BY <1>2, <3>1
      <3>3. n[c] = s
        BY <1>2, <1>3, <3>1, <3>2
      <3>4. PICK i \in 1 .. Len(q) : g[i] = c
        BY <1>3, <1>5, <2>2, <3>2, <3>3 DEF Picks
      <3> QED BY <1>5, <3>3, <3>4 DEF Picks, Occurs
    <2> QED BY <2>1, <2>2
  <1>8. NoRepeats(q)
    <2> SUFFICES ASSUME NEW i \in 1 .. Len(q), NEW j \in 1 .. Len(q), q[i] = q[j] PROVE i = j
      BY DEF NoRepeats
    <2>1. g[i] \in 1 .. Len(a) /\ g[j] \in 1 .. Len(a) /\ n[g[i]] = q[i] /\ n[g[j]] = q[j]
      BY <1>3, <1>5 DEF Picks
    <2>2. g[i] = g[j]
      <3> \A x, y \in 1 .. Len(a) : n[x] = n[y] => x = y
        <4> SUFFICES ASSUME NEW x \in 1 .. Len(a), NEW y \in 1 .. Len(a), n[x] = n[y] PROVE x = y
          OBVIOUS
        <4> x - 1 = y - 1
          BY <1>3
        <4> QED BY <1>2
      <3> QED BY <2>1
    <2>3. (i < j => g[i] < g[j]) /\ (j < i => g[j] < g[i])
      BY <1>5 DEF Picks
    <2>4. ~(i < j) /\ ~(j < i)
      BY <2>1, <2>2, <2>3
    <2> QED BY <2>4
  <1> QED BY <1>1, <1>4, <1>6, <1>7, <1>8 DEF S

\* Behind the slots in use of a table are the routed accounts it holds, each once.
LEMMA BehindElements ==
    ASSUME NEW tt \in Seq(Table), NEW ii \in Seq(Instruction), NEW ti \in 1 .. Len(tt),
           NEW wr \in BOOLEAN
    PROVE  LET p == Behind(tt, ti, TableSlots(tt, Payer, ii, ti, wr))
           IN  /\ p \in Seq(Keys) /\ NoRepeats(p)
               /\ \A k : Occurs(k, p) <=>
                     /\ k \in RoutedKeys(tt, ii) /\ TableSlot(tt, k)[1] = ti
                     /\ k \in WrittenKeys(tt, ii) <=> wr
  <1> DEFINE a == tt[ti].addrs
             q == TableSlots(tt, Payer, ii, ti, wr)
             p == Behind(tt, ti, q)
  <1>1. a \in Seq(Keys) /\ Len(a) \in Nat
    BY TablesType
  <1>2. /\ q \in Seq(0 .. Len(a) - 1) /\ NoRepeats(q)
        /\ \A s : Occurs(s, q) <=>
              \E k \in RoutedKeys(tt, ii) :
                 TableSlot(tt, k) = <<ti, s>> /\ (k \in WrittenKeys(tt, ii) <=> wr)
    BY TableSlotsElements
  <1> HIDE DEF q
  <1>3. DOMAIN q = 1 .. Len(q) /\ Len(q) \in Nat /\ \A i \in 1 .. Len(q) : q[i] \in 0 .. Len(a) - 1
    BY <1>2
  <1>4. \A i \in 1 .. Len(q) : q[i] + 1 \in 1 .. Len(a) /\ a[q[i] + 1] \in Keys
    BY <1>1, <1>3
  <1>5. p = [i \in 1 .. Len(q) |-> a[q[i] + 1]]
    BY <1>3 DEF Behind
  <1> HIDE DEF p
  <1>6. p \in Seq(Keys) /\ Len(p) = Len(q) /\ \A i \in 1 .. Len(q) : p[i] = a[q[i] + 1]
    BY <1>3, <1>4, <1>5
  <1>7. ASSUME NEW k \in RoutedKeys(tt, ii), NEW s, TableSlot(tt, k) = <<ti, s>>
        PROVE  a[s + 1] = k
    <2>1. InTable(tt, k)
      BY DEF RoutedKeys, RoutedRefs, Routed
    <2>2. PICK t1 \in 1 .. Len(tt) : \E s1 \in 0 .. Len(tt[t1].addrs) - 1 :
              TableSlot(tt, k) = <<t1, s1>> /\ tt[t1].addrs[s1 + 1] = k
      BY <2>1, TableSlotFinds
    <2> QED BY <1>7, <2>2
  <1>8. ASSUME NEW i \in 1 .. Len(p)
        PROVE  /\ p[i] \in RoutedKeys(tt, ii) /\ TableSlot(tt, p[i]) = <<ti, q[i]>>
               /\ p[i] \in WrittenKeys(tt, ii) <=> wr
    <2>1. Occurs(q[i], q)
      BY <1>6 DEF Occurs
    <2>2. PICK k \in RoutedKeys(tt, ii) :
              TableSlot(tt, k) = <<ti, q[i]>> /\ (k \in WrittenKeys(tt, ii) <=> wr)
      BY <1>2, <2>1
    <2>3. k = p[i]
      BY <1>6, <1>7, <2>2
    <2> QED BY <2>2, <2>3
  <1>9. ASSUME NEW k \in RoutedKeys(tt, ii), TableSlot(tt, k)[1] = ti,
               k \in WrittenKeys(tt, ii) <=> wr
        PROVE  Occurs(k, p)
    <2>1. InTable(tt, k)
      BY DEF RoutedKeys, RoutedRefs, Routed
    <2>2. PICK t1 \in 1 .. Len(tt), s1 \in Int : TableSlot(tt, k) = <<t1, s1>>
      BY <2>1, TableSlotFinds
    <2>3. TableSlot(tt, k) = <<ti, s1>>
      BY <1>9, <2>2
    <2>4. Occurs(s1, q)
      BY <1>2, <1>9, <2>3
    <2>5. PICK i \in 1 .. Len(q) : q[i] = s1
      BY <2>4 DEF Occurs
    <2>6. p[i] = k
      BY <1>6, <1>7, <2>3, <2>5
    <2> QED BY <1>6, <2>6 DEF Occurs
  <1>10. NoRepeats(p)
    <2> SUFFICES ASSUME NEW i \in 1 .. Len(p), NEW j \in 1 .. Len(p), p[i] = p[j] PROVE i = j
      BY DEF NoRepeats
    <2>1. <<ti, q[i]>> = <<ti, q[j]>>
      BY <1>8
    <2>2. q[i] = q[j]
      BY <2>1
    <2> QED BY <1>2, <1>6, <2>2 DEF NoRepeats
  <1>11. ASSUME NEW k, Occurs(k, p)
         PROVE  /\ k \in RoutedKeys(tt, ii) /\ TableSlot(tt, k)[1] = ti
                /\ k \in WrittenKeys(tt, ii) <=> wr
    <2>1. PICK i \in 1 .. Len(p) : p[i] = k
      BY <1>11 DEF Occurs
    <2> QED BY <1>8, <2>1
  <1> QED BY <1>6, <1>9, <1>10, <1>11 DEF p, q

\* Parts that are empty can be left out of a catenation.
LEMMA FlattenSkip ==
    ASSUME NEW S, NEW seqs \in Seq(Seq(S)), NEW T,
           \A i \in 1 .. Len(seqs) : i \notin T => seqs[i] = <<>>
    PROVE  LET idx == Where([i \in 1 .. Len(seqs) |-> i], T)
           IN  /\ idx \in Seq(1 .. Len(seqs))
               /\ FlattenSeq([i \in 1 .. Len(idx) |-> seqs[idx[i]]]) = FlattenSeq(seqs)
  <1> DEFINE Hyp(q) == \A i \in 1 .. Len(q) : i \notin T => q[i] = <<>>
             id(q) == [i \in 1 .. Len(q) |-> i]
             idx(q) == Where(id(q), T)
             kept(q) == [i \in 1 .. Len(idx(q)) |-> q[idx(q)[i]]]
             Concl(q) == idx(q) \in Seq(1 .. Len(q)) /\ FlattenSeq(kept(q)) = FlattenSeq(q)
             P == {q \in Seq(Seq(S)) : Hyp(q) => Concl(q)}
  <1>0. \A q \in Seq(Seq(S)) : id(q) \in Seq(1 .. Len(q)) /\ Len(q) \in Nat
    OBVIOUS
  <1>a. \A q \in Seq(Seq(S)) : idx(q) \in Seq(1 .. Len(q))
    <2> HIDE DEF id
    <2> QED BY <1>0, WhereSelects
  <1>1. <<>> \in P
    <2>1. <<>> \in Seq(Seq(S)) /\ id(<<>>) = <<>> /\ Len(<<>>) = 0
      OBVIOUS
    <2>2. idx(<<>>) = <<>>
      BY <2>1, WhereEmpty
    <2>3. kept(<<>>) = <<>>
      BY <2>2
    <2>4. FlattenSeq(kept(<<>>)) = FlattenSeq(<<>>)
      BY <2>3
    <2>5. Concl(<<>>)
      BY <1>a, <2>1, <2>4
    <2> HIDE DEF Hyp, Concl
    <2> QED BY <2>1, <2>5
  <1>2. ASSUME NEW q \in Seq(Seq(S)), NEW x \in Seq(S), q \in P PROVE Append(q, x) \in P
    <2> DEFINE t == Append(q, x)
               L == Len(q)
    <2>1. /\ t \in Seq(Seq(S)) /\ Len(t) = L + 1 /\ L \in Nat /\ t[L + 1] = x
          /\ \A i \in 1 .. L : t[i] = q[i]
      OBVIOUS
    <2>b. FlattenSeq(t) = FlattenSeq(q) \o x
      BY FlattenAppend
    <2> HIDE DEF t
    <2> SUFFICES ASSUME Hyp(t) PROVE Concl(t)
      <3> HIDE DEF Hyp, Concl
      <3> QED BY <2>1 DEF t
    <2>2. Hyp(q)
      <3> 1 .. L \subseteq 1 .. L + 1
        BY <2>1
      <3> QED BY <2>1, Zenon
    <2>3. Concl(q)
      <3> HIDE DEF Hyp, Concl
      <3> QED BY <1>2, <2>2
    <2>4. id(t) = Append(id(q), L + 1)
      <3>1. id(q) \in Seq(Nat) /\ Len(id(q)) = L /\ \A i \in 1 .. L : id(q)[i] = i
        BY <2>1
      <3>2. id(t) \in Seq(Nat) /\ Len(id(t)) = L + 1 /\ \A i \in 1 .. L + 1 : id(t)[i] = i
        BY <2>1
      <3> HIDE DEF id
      <3>3. /\ Append(id(q), L + 1) \in Seq(Nat) /\ Len(Append(id(q), L + 1)) = L + 1
            /\ \A i \in 1 .. L + 1 : Append(id(q), L + 1)[i] = i
        BY <2>1, <3>1
      <3> QED BY <3>2, <3>3, SeqEqual
    <2>5. idx(t) = IF L + 1 \in T THEN Append(idx(q), L + 1) ELSE idx(q)
      <3> DEFINE Z == Nat
                 u == id(q)
                 y == L + 1
      <3>1. u \in Seq(Z) /\ y \in Z
        BY <2>1
      <3>2. id(t) = Append(u, y) /\ idx(q) = Where(u, T) /\ idx(t) = Where(id(t), T)
        BY <2>4
      <3> HIDE DEF Z, u, y
      <3>3. Where(Append(u, y), T) = IF y \in T THEN Append(Where(u, T), y) ELSE Where(u, T)
        BY <3>1, WhereAppend, SMTT(20)
      <3>4. idx(t) = IF y \in T THEN Append(idx(q), y) ELSE idx(q)
        <4> HIDE DEF id, idx
        <4> QED BY <3>2, <3>3
      <3> HIDE DEF id, idx
      <3> QED BY <3>4 DEF y
    <2>6. idx(q) \in Seq(1 .. L) /\ Len(idx(q)) \in Nat /\ \A i \in 1 .. Len(idx(q)) : idx(q)[i] \in 1 .. L
      <3>1. idx(q) \in Seq(1 .. L)
        BY <1>a
      <3> HIDE DEF idx
      <3> QED BY <3>1
    <2>7. idx(t) \in Seq(1 .. Len(t))
      BY <1>a, <2>1
    <2> HIDE DEF idx
    <2>8. kept(q) \in Seq(Seq(S)) /\ Len(kept(q)) = Len(idx(q))
          /\ \A i \in 1 .. Len(idx(q)) : kept(q)[i] = q[idx(q)[i]]
      BY <2>6
    <2>9. CASE L + 1 \notin T
      <3>1. x = <<>>
        BY <2>1, <2>9
      <3>2. FlattenSeq(t) = FlattenSeq(q)
        BY <2>b, <3>1, ConcatEmptySeq, FlattenElements
      <3>3. kept(t) = kept(q)
        <4>1. idx(t) = idx(q)
          BY <2>5, <2>9
        <4>2. \A i \in 1 .. Len(idx(q)) : t[idx(q)[i]] = q[idx(q)[i]]
          BY <2>1, <2>6
        <4> QED BY <4>1, <4>2
      <3> QED BY <2>3, <2>7, <3>2, <3>3
    <2>10. CASE L + 1 \in T
      <3> DEFINE N == Len(idx(q))
      <3>1. idx(t) = Append(idx(q), L + 1)
        BY <2>5, <2>10
      <3>2. Len(idx(t)) = N + 1 /\ idx(t)[N + 1] = L + 1 /\ \A i \in 1 .. N : idx(t)[i] = idx(q)[i]
        <4> idx(q) \in Seq(Nat) /\ L + 1 \in Nat
          BY <2>1, <2>6
        <4> QED BY <3>1
      <3>3. \A i \in 1 .. N : kept(t)[i] = kept(q)[i] /\ i \in 1 .. N + 1
        BY <2>1, <2>6, <2>8, <3>2
      <3>4. kept(t)[N + 1] = x /\ N \in Nat
        BY <2>1, <2>6, <3>2
      <3>5. kept(t) \in Seq(Seq(S)) /\ Len(kept(t)) = N + 1
        BY <2>1, <2>7, <3>2
      <3> HIDE DEF kept
      <3>6. /\ Append(kept(q), x) \in Seq(Seq(S)) /\ Len(Append(kept(q), x)) = N + 1
            /\ Append(kept(q), x)[N + 1] = x
            /\ \A i \in 1 .. N : Append(kept(q), x)[i] = kept(q)[i]
        BY <2>8
      <3>7. \A i \in 1 .. N + 1 : i \in 1 .. N \/ i = N + 1
        BY <3>4
      <3>8. kept(t) = Append(kept(q), x)
        <4> \A i \in 1 .. N + 1 : kept(t)[i] = Append(kept(q), x)[i]
          BY <3>3, <3>4, <3>6, <3>7
        <4> QED BY <3>5, <3>6, SeqEqual
      <3>9. FlattenSeq(kept(t)) = FlattenSeq(kept(q)) \o x
        BY <2>8, <3>8, FlattenAppend
      <3> QED BY <2>3, <2>7, <2>b, <3>9
    <2> QED BY <2>9, <2>10
  <1>3. Seq(Seq(S)) \subseteq P
    <2> HIDE DEF P
    <2> QED BY <1>1, <1>2, SeqInduct
  <1>4. Concl(seqs)
    <2> HIDE DEF Concl
    <2> QED BY <1>3
  <1> QED BY <1>4

Slots(tt, ii) == [ti \in DOMAIN tt |-> [w |-> TableSlots(tt, Payer, ii, ti, TRUE),
                                        r |-> TableSlots(tt, Payer, ii, ti, FALSE)]]
Parts(tt, ii, wr) == [ti \in 1 .. Len(tt) |-> Behind(tt, ti, TableSlots(tt, Payer, ii, ti, wr))]
Looked(tt, ii, wr) == FlattenSeq(Parts(tt, ii, wr))

\* All tables together: every routed account once, the writable ones apart.
LEMMA LookedElements ==
    ASSUME NEW tt \in Seq(Table), NEW ii \in Seq(Instruction), NEW wr \in BOOLEAN
    PROVE  /\ Parts(tt, ii, wr) \in Seq(Seq(Keys)) /\ Len(Parts(tt, ii, wr)) = Len(tt)
           /\ Looked(tt, ii, wr) \in Seq(Keys) /\ NoRepeats(Looked(tt, ii, wr))
           /\ \A k : Occurs(k, Looked(tt, ii, wr))
                 <=> k \in RoutedKeys(tt, ii) /\ (k \in WrittenKeys(tt, ii) <=> wr)
  <1> DEFINE p == Parts(tt, ii, wr)
             b(ti) == Behind(tt, ti, TableSlots(tt, Payer, ii, ti, wr))
  <1>1. ASSUME NEW ti \in 1 .. Len(tt)
        PROVE  /\ b(ti) \in Seq(Keys) /\ NoRepeats(b(ti))
               /\ \A k : Occurs(k, b(ti)) <=>
                     /\ k \in RoutedKeys(tt, ii) /\ TableSlot(tt, k)[1] = ti
                     /\ k \in WrittenKeys(tt, ii) <=> wr
    BY BehindElements
  <1>2. p = [ti \in 1 .. Len(tt) |-> b(ti)] /\ Len(tt) \in Nat
    BY DEF Parts
  <1> HIDE DEF b, p
  <1>3. p \in Seq(Seq(Keys)) /\ Len(p) = Len(tt) /\ \A ti \in 1 .. Len(tt) : p[ti] = b(ti)
    BY <1>1, <1>2
  <1>4. FlattenSeq(p) \in Seq(Keys)
    BY <1>3, FlattenElements
  <1>5. NoRepeats(FlattenSeq(p))
    <2>1. \A i \in 1 .. Len(p) : NoRepeats(p[i])
      BY <1>1, <1>3
    <2>2. ASSUME NEW i \in 1 .. Len(p), NEW j \in 1 .. Len(p), NEW y, Occurs(y, p[i]), Occurs(y, p[j])
          PROVE  i = j
      <3>1. TableSlot(tt, y)[1] = i
        BY <1>1, <1>3, <2>2
      <3>2. TableSlot(tt, y)[1] = j
        BY <1>1, <1>3, <2>2
      <3> QED BY <3>1, <3>2
    <2> QED BY <1>3, <2>1, <2>2, FlattenNoRepeats
  <1>6. ASSUME NEW k
        PROVE  Occurs(k, FlattenSeq(p))
               <=> k \in RoutedKeys(tt, ii) /\ (k \in WrittenKeys(tt, ii) <=> wr)
    <2>1. Occurs(k, FlattenSeq(p)) <=> \E i \in 1 .. Len(tt) : Occurs(k, p[i])
      BY <1>3, FlattenElements
    <2>2. ASSUME k \in RoutedKeys(tt, ii) PROVE TableSlot(tt, k)[1] \in 1 .. Len(tt)
      <3>1. InTable(tt, k)
        BY <2>2 DEF RoutedKeys, RoutedRefs, Routed
      <3>2. PICK ti \in 1 .. Len(tt), s \in Int : TableSlot(tt, k) = <<ti, s>>
        BY <3>1, TableSlotFinds
      <3> QED BY <3>2
    <2>3. ASSUME NEW i \in 1 .. Len(tt), Occurs(k, p[i])
          PROVE  k \in RoutedKeys(tt, ii) /\ (k \in WrittenKeys(tt, ii) <=> wr)
      <3> Occurs(k, b(i))
        BY <1>3, <2>3
      <3> QED BY <1>1
    <2>4. ASSUME k \in RoutedKeys(tt, ii), k \in WrittenKeys(tt, ii) <=> wr
          PROVE  \E i \in 1 .. Len(tt) : Occurs(k, p[i])
      <3>1. PICK i \in 1 .. Len(tt) : TableSlot(tt, k)[1] = i
        BY <2>2, <2>4
      <3>2. Occurs(k, b(i))
        BY <1>1, <2>4, <3>1
      <3> QED BY <1>3, <3>2
    <2> QED BY <2>1, <2>3, <2>4
  <1> QED BY <1>3, <1>4, <1>5, <1>6 DEF p, Looked

LEMMA LookupKeysSplit ==
    ASSUME NEW tt \in Seq(Table), NEW ii \in Seq(Instruction)
    PROVE  LookupKeys(tt, Slots(tt, ii)) = Looked(tt, ii, TRUE) \o Looked(tt, ii, FALSE)
  <1>1. DOMAIN tt = 1 .. Len(tt)
    OBVIOUS
  <1>2. \A ti \in DOMAIN tt : /\ Slots(tt, ii)[ti].w = TableSlots(tt, Payer, ii, ti, TRUE)
                              /\ Slots(tt, ii)[ti].r = TableSlots(tt, Payer, ii, ti, FALSE)
    BY DEF Slots
  <1>3. [ti \in DOMAIN tt |->
           [i \in DOMAIN Slots(tt, ii)[ti].w |-> tt[ti].addrs[Slots(tt, ii)[ti].w[i] + 1]]]
        = Parts(tt, ii, TRUE)
    BY <1>1, <1>2 DEF Parts, Behind
  <1>4. [ti \in DOMAIN tt |->
           [i \in DOMAIN Slots(tt, ii)[ti].r |-> tt[ti].addrs[Slots(tt, ii)[ti].r[i] + 1]]]
        = Parts(tt, ii, FALSE)
    BY <1>1, <1>2 DEF Parts, Behind
  <1> QED BY <1>3, <1>4, Zenon DEF LookupKeys, Looked

Emit(tt, ii) == Where([ti \in DOMAIN tt |-> ti],
                      {ti \in DOMAIN tt : Slots(tt, ii)[ti].w \o Slots(tt, ii)[ti].r # <<>>})
Lookup(tt, ii, ti) ==
    [key |-> tt[ti].key,
     writable |-> [i \in DOMAIN Slots(tt, ii)[ti].w |-> Uint8(Slots(tt, ii)[ti].w[i])],
     readonly |-> [i \in DOMAIN Slots(tt, ii)[ti].r |-> Uint8(Slots(tt, ii)[ti].r[i])]]
Lookups(tt, ii) == [i \in DOMAIN Emit(tt, ii) |-> Lookup(tt, ii, Emit(tt, ii)[i])]

\* The tables as the assumption on TableSets has them.
LEMMA AddressesFound ==
    ASSUME NEW tt \in TableSets, NEW ti \in 1 .. Len(tt)
    PROVE  /\ tt \in Seq(Table) /\ Addresses(tt, tt[ti].key) = tt[ti].addrs
           /\ Len(tt[ti].addrs) <= MaxAccounts
  <1> DEFINE k == tt[ti].key
             I == {i \in 1 .. Len(tt) : tt[i].key = k}
             j == Min(I)
  <1>1. tt \in Seq(Table) /\ DOMAIN tt = 1 .. Len(tt)
    <2>1. tt \in Seq(Table)
      BY TableAssumption DEF Table
    <2> QED BY <2>1
  <1>2. I # {} /\ I \subseteq Nat
    OBVIOUS
  <1>3. j \in I
    <2> HIDE DEF I
    <2> QED BY <1>2, MinProperty
  <1>4. SelectInSeq(tt, LAMBDA t : t.key = k) = j
    BY <1>2 DEF SelectInSeq
  <1>5. j \in 1 .. Len(tt) /\ tt[j].key = k
    BY <1>3
  <1>6. Addresses(tt, k) = tt[j].addrs
    BY <1>4 DEF Addresses
  <1> HIDE DEF j
  <1>7. Len(tt[ti].addrs) <= MaxAccounts /\ tt[j].addrs = tt[ti].addrs
    BY <1>1, <1>5, TableAssumption
  <1> QED BY <1>1, <1>6, <1>7

\* The slots of a table survive their conversion to uint8.
LEMMA SlotsSurvive ==
    ASSUME NEW tt \in TableSets, NEW ii \in Seq(Instruction), NEW ti \in 1 .. Len(tt),
           NEW wr \in BOOLEAN
    PROVE  LET q == TableSlots(tt, Payer, ii, ti, wr)
           IN  \A n \in DOMAIN q :
                  Addresses(tt, tt[ti].key)[Uint8(q[n]) + 1] = tt[ti].addrs[q[n] + 1]
  <1> DEFINE q == TableSlots(tt, Payer, ii, ti, wr)
  <1>1. /\ tt \in Seq(Table) /\ Addresses(tt, tt[ti].key) = tt[ti].addrs
        /\ Len(tt[ti].addrs) <= MaxAccounts
    BY AddressesFound
  <1>2. q \in Seq(0 .. Len(tt[ti].addrs) - 1) /\ Len(tt[ti].addrs) \in Nat
    BY <1>1, TableSlotsElements, TablesType
  <1> HIDE DEF q
  <1>3. \A i \in DOMAIN q : q[i] \in 0 .. Len(tt[ti].addrs) - 1
    BY <1>2
  <1>4. \A i \in DOMAIN q : q[i] \in Nat /\ q[i] < MaxAccounts
    BY <1>1, <1>2, <1>3, WidthAssumption
  <1>5. \A i \in DOMAIN q : Uint8(q[i]) = q[i]
    BY <1>4, Uint8Exact
  <1> QED BY <1>1, <1>5 DEF q

\* What the lookups of a message resolve to is what the builder put behind the indices.
LEMMA LookedUpAgrees ==
    ASSUME NEW tt \in TableSets, NEW ii \in Seq(Instruction), NEW m, m.lookups = Lookups(tt, ii)
    PROVE  /\ LookedUp(m, tt, "writable") = Looked(tt, ii, TRUE)
           /\ LookedUp(m, tt, "readonly") = Looked(tt, ii, FALSE)
  <1> DEFINE T == {ti \in DOMAIN tt : Slots(tt, ii)[ti].w \o Slots(tt, ii)[ti].r # <<>>}
             e == Emit(tt, ii)
  <1>1. tt \in Seq(Table) /\ DOMAIN tt = 1 .. Len(tt) /\ Len(tt) \in Nat
    <2>1. tt \in Seq(Table)
      BY TableAssumption DEF Table
    <2> QED BY <2>1
  <1>2. ASSUME NEW ti \in 1 .. Len(tt)
        PROVE  /\ Slots(tt, ii)[ti].w = TableSlots(tt, Payer, ii, ti, TRUE)
               /\ Slots(tt, ii)[ti].r = TableSlots(tt, Payer, ii, ti, FALSE)
               /\ Slots(tt, ii)[ti].w \in Seq(Int) /\ Slots(tt, ii)[ti].r \in Seq(Int)
    <2>1. /\ Slots(tt, ii)[ti].w = TableSlots(tt, Payer, ii, ti, TRUE)
          /\ Slots(tt, ii)[ti].r = TableSlots(tt, Payer, ii, ti, FALSE)
      BY <1>1 DEF Slots
    <2>2. ASSUME NEW wr \in BOOLEAN PROVE TableSlots(tt, Payer, ii, ti, wr) \in Seq(Int)
      <3> DEFINE q == TableSlots(tt, Payer, ii, ti, wr)
      <3> q \in Seq(0 .. Len(tt[ti].addrs) - 1)
        BY <1>1, TableSlotsElements
      <3> HIDE DEF q
      <3> q \in Seq(Int)
        OBVIOUS
      <3> QED BY DEF q
    <2> QED BY <2>1, <2>2
  <1>3. ASSUME NEW wr \in BOOLEAN, NEW i \in 1 .. Len(tt), i \notin T
        PROVE  Parts(tt, ii, wr)[i] = <<>>
    <2>1. Slots(tt, ii)[i].w \o Slots(tt, ii)[i].r = <<>>
      BY <1>1, <1>3
    <2>2. Slots(tt, ii)[i].w = <<>> /\ Slots(tt, ii)[i].r = <<>>
      BY <1>2, <2>1, ConcatSimplifications
    <2>3. TableSlots(tt, Payer, ii, i, wr) = <<>>
      BY <1>2, <2>2
    <2>4. Parts(tt, ii, wr)[i] = Behind(tt, i, <<>>)
      BY <2>3 DEF Parts
    <2> QED BY <2>4 DEF Behind
  <1>4. e = Where([i \in 1 .. Len(tt) |-> i], T)
    BY <1>1 DEF Emit
  <1> HIDE DEF T, e
  <1>5. ASSUME NEW wr \in BOOLEAN
        PROVE  /\ e \in Seq(1 .. Len(tt))
               /\ FlattenSeq([i \in 1 .. Len(e) |-> Parts(tt, ii, wr)[e[i]]]) = Looked(tt, ii, wr)
    <2>1. Parts(tt, ii, wr) \in Seq(Seq(Keys)) /\ Len(Parts(tt, ii, wr)) = Len(tt)
      BY <1>1, LookedElements
    <2> DEFINE p == Parts(tt, ii, wr)
    <2>2. \A i \in 1 .. Len(p) : i \notin T => p[i] = <<>>
      BY <1>3, <2>1
    <2>3. e = Where([i \in 1 .. Len(p) |-> i], T)
      BY <1>4, <2>1
    <2> HIDE DEF p
    <2>4. p \in Seq(Seq(Keys))
      BY <2>1 DEF p
    <2>5. e \in Seq(1 .. Len(p)) /\ FlattenSeq([i \in 1 .. Len(e) |-> p[e[i]]]) = FlattenSeq(p)
      BY <2>2, <2>3, <2>4, FlattenSkip
    <2> QED BY <2>1, <2>5 DEF p, Looked
  <1>6. e \in Seq(1 .. Len(tt)) /\ DOMAIN e = 1 .. Len(e) /\ \A i \in 1 .. Len(e) : e[i] \in 1 .. Len(tt)
    <2>1. e \in Seq(1 .. Len(tt))
      BY <1>5
    <2> QED BY <2>1
  <1>7. DOMAIN m.lookups = 1 .. Len(e) /\ \A i \in 1 .. Len(e) : m.lookups[i] = Lookup(tt, ii, e[i])
    BY <1>6 DEF Lookups, e
  <1>8. ASSUME NEW i \in 1 .. Len(e)
        PROVE  /\ m.lookups[i].key = tt[e[i]].key
               /\ m.lookups[i]["writable"] =
                     [n \in DOMAIN TableSlots(tt, Payer, ii, e[i], TRUE) |->
                         Uint8(TableSlots(tt, Payer, ii, e[i], TRUE)[n])]
               /\ m.lookups[i]["readonly"] =
                     [n \in DOMAIN TableSlots(tt, Payer, ii, e[i], FALSE) |->
                         Uint8(TableSlots(tt, Payer, ii, e[i], FALSE)[n])]
    <2> DEFINE ti == e[i]
               x == m.lookups[i]
    <2>1. ti \in 1 .. Len(tt) /\ x = Lookup(tt, ii, ti)
      BY <1>6, <1>7
    <2> HIDE DEF ti, x
    <2>2. /\ x.key = tt[ti].key
          /\ x["writable"] = [n \in DOMAIN Slots(tt, ii)[ti].w |-> Uint8(Slots(tt, ii)[ti].w[n])]
          /\ x["readonly"] = [n \in DOMAIN Slots(tt, ii)[ti].r |-> Uint8(Slots(tt, ii)[ti].r[n])]
      BY <2>1 DEF Lookup
    <2>3. /\ x["writable"] = [n \in DOMAIN TableSlots(tt, Payer, ii, ti, TRUE) |->
                                 Uint8(TableSlots(tt, Payer, ii, ti, TRUE)[n])]
          /\ x["readonly"] = [n \in DOMAIN TableSlots(tt, Payer, ii, ti, FALSE) |->
                                 Uint8(TableSlots(tt, Payer, ii, ti, FALSE)[n])]
      BY <1>2, <2>1, <2>2
    <2> QED BY <2>2, <2>3 DEF ti, x
  <1>9. ASSUME NEW i \in 1 .. Len(e)
        PROVE  /\ [n \in DOMAIN m.lookups[i]["writable"] |->
                     Addresses(tt, m.lookups[i].key)[m.lookups[i]["writable"][n] + 1]]
                  = Parts(tt, ii, TRUE)[e[i]]
               /\ [n \in DOMAIN m.lookups[i]["readonly"] |->
                     Addresses(tt, m.lookups[i].key)[m.lookups[i]["readonly"][n] + 1]]
                  = Parts(tt, ii, FALSE)[e[i]]
    <2>1. e[i] \in 1 .. Len(tt)
      BY <1>6
    <2>2. \A wr \in BOOLEAN : Parts(tt, ii, wr)[e[i]]
                              = Behind(tt, e[i], TableSlots(tt, Payer, ii, e[i], wr))
      BY <2>1 DEF Parts
    <2> DEFINE x == m.lookups[i]["writable"]
               y == m.lookups[i]["readonly"]
               a == m.lookups[i].key
               ti == e[i]
    <2>4. /\ a = tt[ti].key /\ ti \in 1 .. Len(tt)
          /\ x = [n \in DOMAIN TableSlots(tt, Payer, ii, ti, TRUE) |->
                     Uint8(TableSlots(tt, Payer, ii, ti, TRUE)[n])]
          /\ y = [n \in DOMAIN TableSlots(tt, Payer, ii, ti, FALSE) |->
                     Uint8(TableSlots(tt, Payer, ii, ti, FALSE)[n])]
          /\ Parts(tt, ii, TRUE)[ti] = Behind(tt, ti, TableSlots(tt, Payer, ii, ti, TRUE))
          /\ Parts(tt, ii, FALSE)[ti] = Behind(tt, ti, TableSlots(tt, Payer, ii, ti, FALSE))
      BY <1>8, <2>1, <2>2
    <2> HIDE DEF x, y, a, ti
    <2>5. [n \in DOMAIN x |-> Addresses(tt, tt[ti].key)[x[n] + 1]] = Parts(tt, ii, TRUE)[ti]
      <3> DEFINE q == TableSlots(tt, Payer, ii, ti, TRUE)
                 b == Addresses(tt, tt[ti].key)
      <3>1. \A n \in DOMAIN q : b[Uint8(q[n]) + 1] = tt[ti].addrs[q[n] + 1]
        BY <2>4, SlotsSurvive
      <3>2. Parts(tt, ii, TRUE)[ti] = [n \in DOMAIN q |-> tt[ti].addrs[q[n] + 1]]
        BY <2>4 DEF Behind
      <3>3. x = [n \in DOMAIN q |-> Uint8(q[n])]
        BY <2>4
      <3> HIDE DEF q, b
      <3>4. [n \in DOMAIN x |-> b[x[n] + 1]] = [n \in DOMAIN q |-> tt[ti].addrs[q[n] + 1]]
        BY <3>1, <3>3
      <3> QED BY <3>2, <3>4, Zenon DEF b
    <2>6. [n \in DOMAIN y |-> Addresses(tt, tt[ti].key)[y[n] + 1]] = Parts(tt, ii, FALSE)[ti]
      <3> DEFINE q == TableSlots(tt, Payer, ii, ti, FALSE)
                 b == Addresses(tt, tt[ti].key)
      <3>1. \A n \in DOMAIN q : b[Uint8(q[n]) + 1] = tt[ti].addrs[q[n] + 1]
        BY <2>4, SlotsSurvive
      <3>2. Parts(tt, ii, FALSE)[ti] = [n \in DOMAIN q |-> tt[ti].addrs[q[n] + 1]]
        BY <2>4 DEF Behind
      <3>3. y = [n \in DOMAIN q |-> Uint8(q[n])]
        BY <2>4
      <3> HIDE DEF q, b
      <3>4. [n \in DOMAIN y |-> b[y[n] + 1]] = [n \in DOMAIN q |-> tt[ti].addrs[q[n] + 1]]
        BY <3>1, <3>3
      <3> QED BY <3>2, <3>4, Zenon DEF b
    <2>7. /\ [n \in DOMAIN x |-> Addresses(tt, a)[x[n] + 1]] = Parts(tt, ii, TRUE)[ti]
          /\ [n \in DOMAIN y |-> Addresses(tt, a)[y[n] + 1]] = Parts(tt, ii, FALSE)[ti]
      BY <2>4, <2>5, <2>6, Zenon
    <2> QED BY <2>7, Zenon DEF x, y, a, ti
  <1>10. LookedUp(m, tt, "writable") = FlattenSeq([i \in 1 .. Len(e) |-> Parts(tt, ii, TRUE)[e[i]]])
    BY <1>7, <1>9 DEF LookedUp
  <1>11. LookedUp(m, tt, "readonly") = FlattenSeq([i \in 1 .. Len(e) |-> Parts(tt, ii, FALSE)[e[i]]])
    BY <1>7, <1>9 DEF LookedUp
  <1> QED BY <1>5, <1>10, <1>11

--------------------------------------------------------------------------------
(***************************************************************************)
(* The messages of both builders.                                           *)
(***************************************************************************)

\* Some instruction writes to k, or k pays.
Writes(ii, k) == k = Payer \/ \E r \in ToSet(References(ii)) : r.key = k /\ r.writable

LEMMA WritesElements ==
    ASSUME NEW ii \in Seq(Instruction), NEW k
    PROVE  Writes(ii, k) <=> \/ k = Payer
                             \/ \E j \in 1 .. Len(ii) : \E r :
                                   Occurs(r, ii[j].metas) /\ r.key = k /\ r.writable
  <1>1. \A r : r \in ToSet(References(ii))
           <=> \E j \in 1 .. Len(ii) : Occurs(r, ii[j].metas) \/ r = ProgramRef(ii[j])
    BY ReferencesElements, ToSetOccurs
  <1>2. \A j : ~ProgramRef(ii[j]).writable
    BY DEF ProgramRef
  <1> QED BY <1>1, <1>2 DEF Writes

\* The references of the static accounts when the keys of Rt go through tables.
Static(refs, ii, Rt) ==
    /\ refs \in Seq(Ref) /\ refs # <<>> /\ refs[1] = PayerRef(Payer)
    /\ \A n \in 1 .. Len(refs) : refs[n].signer => refs[n].key \in SignerSet(Payer, ii)
    /\ \A n \in 1 .. Len(refs) : refs[n].key \in Rt => refs[n].key \in Programs
    /\ \A k : k \notin Rt =>
          ((\E n \in 1 .. Len(refs) : refs[n].key = k /\ refs[n].signer) <=> k \in SignerSet(Payer, ii))
    /\ \A k : k \notin Rt =>
          ((\E n \in 1 .. Len(refs) : refs[n].key = k /\ refs[n].writable) <=> Writes(ii, k))
    /\ \A j \in 1 .. Len(ii) : \E n \in 1 .. Len(refs) : refs[n].key = ii[j].program
    /\ \A j \in 1 .. Len(ii) : \A r : Occurs(r, ii[j].metas) /\ r.key \notin Rt =>
          \E n \in 1 .. Len(refs) : refs[n].key = r.key

LEMMA StaticPart ==
    ASSUME NEW ii \in Seq(Instruction), NEW Rt, NEW X \in Seq(Ref),
           \A k \in Rt : k \notin SignerSet(Payer, ii),
           \A r : Occurs(r, X) <=> \E j \in 1 .. Len(ii) :
                                      \/ Occurs(r, ii[j].metas) /\ r.key \notin Rt
                                      \/ r = ProgramRef(ii[j])
    PROVE  Static(<<PayerRef(Payer)>> \o X, ii, Rt)
  <1> DEFINE refs == <<PayerRef(Payer)>> \o X
             p == PayerRef(Payer)
  <1>1. p \in Ref /\ p.key = Payer /\ p.signer /\ p.writable
    BY DEF PayerRef, Ref, Keys
  <1> HIDE DEF p
  <1>2. <<p>> \in Seq(Ref) /\ Len(<<p>>) = 1 /\ <<p>>[1] = p
    BY <1>1
  <1>3. refs \in Seq(Ref) /\ Len(refs) = 1 + Len(X) /\ refs[1] = p
        /\ \A r : Occurs(r, refs) <=> Occurs(r, <<p>>) \/ Occurs(r, X)
    <2> DEFINE pp == <<p>>
    <2>1. pp \in Seq(Ref) /\ Len(pp) = 1 /\ pp[1] = p /\ refs = pp \o X
      BY <1>2 DEF p
    <2> HIDE DEF pp, refs
    <2>2. /\ pp \o X \in Seq(Ref) /\ Len(pp \o X) = Len(pp) + Len(X)
          /\ \A i \in 1 .. Len(pp) : (pp \o X)[i] = pp[i]
          /\ \A r : Occurs(r, pp \o X) <=> Occurs(r, pp) \/ Occurs(r, X)
      BY <2>1, OccursConcat, ZenonT(30)
    <2>3. refs \in Seq(Ref) /\ Len(refs) = 1 + Len(X) /\ refs[1] = p
      BY <2>1, <2>2
    <2>4. \A r : Occurs(r, refs) <=> Occurs(r, pp) \/ Occurs(r, X)
      BY <2>1, <2>2, Zenon
    <2> QED BY <2>3, <2>4, Zenon DEF pp
  <1>4. \A r : Occurs(r, <<p>>) <=> r = p
    BY <1>2 DEF Occurs
  <1> HIDE DEF refs
  <1>5. \A r : Occurs(r, refs) <=>
           \/ r = p
           \/ \E j \in 1 .. Len(ii) : \/ Occurs(r, ii[j].metas) /\ r.key \notin Rt
                                      \/ r = ProgramRef(ii[j])
    BY <1>3, <1>4
  <1>6. \A j \in 1 .. Len(ii) : /\ ProgramRef(ii[j]).key = ii[j].program
                                /\ ii[j].program \in Programs
                                /\ ~ProgramRef(ii[j]).signer /\ ~ProgramRef(ii[j]).writable
    BY InstructionType DEF ProgramRef
  <1>7. \A k : k \in SignerSet(Payer, ii)
           <=> k = Payer \/ \E j \in 1 .. Len(ii) : \E r :
                               Occurs(r, ii[j].metas) /\ r.signer /\ r.key = k
    BY SignerSetElements
  <1>8. \A k : Writes(ii, k)
           <=> k = Payer \/ \E j \in 1 .. Len(ii) : \E r :
                               Occurs(r, ii[j].metas) /\ r.key = k /\ r.writable
    BY WritesElements
  <1>9. Payer \notin Rt
    BY <1>7
  <1>10. \A n \in 1 .. Len(refs) : Occurs(refs[n], refs)
    BY DEF Occurs
  <1>11. \A r : Occurs(r, refs) => \E n \in 1 .. Len(refs) : refs[n] = r
    BY DEF Occurs
  <1>12. refs # <<>> /\ Len(refs) \in Nat
    BY <1>3
  <1>a. \A n \in 1 .. Len(refs) : refs[n].signer => refs[n].key \in SignerSet(Payer, ii)
    BY <1>1, <1>5, <1>6, <1>7, <1>10
  <1>b. \A n \in 1 .. Len(refs) : refs[n].key \in Rt => refs[n].key \in Programs
    BY <1>1, <1>5, <1>6, <1>9, <1>10
  <1>c. \A k : k \notin Rt =>
          ((\E n \in 1 .. Len(refs) : refs[n].key = k /\ refs[n].signer) <=> k \in SignerSet(Payer, ii))
    <2> SUFFICES ASSUME NEW k, k \notin Rt
                 PROVE  (\E n \in 1 .. Len(refs) : refs[n].key = k /\ refs[n].signer)
                        <=> k \in SignerSet(Payer, ii)
      OBVIOUS
    <2>1. (\E r : Occurs(r, refs) /\ r.key = k /\ r.signer) <=> k \in SignerSet(Payer, ii)
      BY <1>1, <1>5, <1>6, <1>7
    <2> QED BY <1>10, <1>11, <2>1
  <1>d. \A k : k \notin Rt =>
          ((\E n \in 1 .. Len(refs) : refs[n].key = k /\ refs[n].writable) <=> Writes(ii, k))
    <2> SUFFICES ASSUME NEW k, k \notin Rt
                 PROVE  (\E n \in 1 .. Len(refs) : refs[n].key = k /\ refs[n].writable)
                        <=> Writes(ii, k)
      OBVIOUS
    <2>1. (\E r : Occurs(r, refs) /\ r.key = k /\ r.writable) <=> Writes(ii, k)
      BY <1>1, <1>5, <1>6, <1>8, SMTT(20)
    <2> QED BY <1>10, <1>11, <2>1
  <1>e. \A j \in 1 .. Len(ii) : \E n \in 1 .. Len(refs) : refs[n].key = ii[j].program
    BY <1>5, <1>6, <1>11
  <1>f. \A j \in 1 .. Len(ii) : \A r : Occurs(r, ii[j].metas) /\ r.key \notin Rt =>
          \E n \in 1 .. Len(refs) : refs[n].key = r.key
    BY <1>5, <1>11
  <1>13. Static(refs, ii, Rt)
    BY <1>3, <1>12, <1>a, <1>b, <1>c, <1>d, <1>e, <1>f DEF Static, p
  <1> QED BY <1>13 DEF refs, p

\* What a message is: its static accounts made from refs, its looked up accounts W (writable)
\* and R (read-only), which together are the keys of Rt, and indices over the three.
Compiled(m, ii, tt, refs, W, R, Rt) ==
    /\ Static(refs, ii, Rt)
    /\ HeaderOK(m.header, refs)
    /\ W \in Seq(Keys) /\ R \in Seq(Keys) /\ NoRepeats(W \o R)
    /\ LookedUp(m, tt, "writable") = W /\ LookedUp(m, tt, "readonly") = R
    /\ Len(m.header.keys \o (W \o R)) <= MaxAccounts
    /\ m.ixs = CompileInstructions(ii, m.header.keys \o (W \o R))
    /\ \A k : (Occurs(k, W) \/ Occurs(k, R)) <=> k \in Rt
    /\ \A k \in Rt : k \notin SignerSet(Payer, ii)
    /\ \A k : Occurs(k, W) => Writes(ii, k)
    /\ \A k : Occurs(k, R) => ~Writes(ii, k)

\* The header of a message whose static references are known.
LEMMA StaticHeader ==
    ASSUME NEW ii \in Seq(Instruction), NEW refs, NEW Rt, Static(refs, ii, Rt),
           Cardinality(SignerSet(Payer, ii)) <= MaxSigners,
           Len(BucketAndOrder(Entries(refs)).keys) <= MaxAccounts
    PROVE  HeaderOK(BucketAndOrder(Entries(refs)), refs)
  <1>1. /\ refs \in Seq(Ref) /\ refs # <<>> /\ refs[1] = PayerRef(Payer)
        /\ \A n \in 1 .. Len(refs) : refs[n].signer => refs[n].key \in SignerSet(Payer, ii)
    BY DEF Static
  <1>2. refs[1].signer /\ refs[1].writable
    BY <1>1 DEF PayerRef
  <1>3. IsFiniteSet(SignerSet(Payer, ii))
    BY SignerSetElements
  <1> DEFINE D == SignerSet(Payer, ii)
  <1> HIDE DEF D
  <1>4. /\ IsFiniteSet(D) /\ Cardinality(D) <= MaxSigners
        /\ \A n \in 1 .. Len(refs) : refs[n].signer => refs[n].key \in D
    BY <1>1, <1>3 DEF D
  <1> QED BY <1>1, <1>2, <1>4, HeaderFromReferences

LEMMA HeaderKeysLength ==
    ASSUME NEW refs \in Seq(Ref)
    PROVE  Len(BucketAndOrder(Entries(refs)).keys) \in Nat
  <1> DEFINE o == Ordered(Entries(refs))
             keys == BucketAndOrder(Entries(refs)).keys
  <1>1. keys = [i \in DOMAIN o |-> o[i].key]
    BY DEF BucketAndOrder, Ordered, Bucket, InBucket
  <1>2. Entries(refs) \in Seq(Ref)
    BY EntriesCollected DEF Collected
  <1>3. o \in Seq(Ref)
    BY <1>2, OrderedSorted DEF SortedPart
  <1> HIDE DEF o, keys
  <1>4. keys = [i \in 1 .. Len(o) |-> o[i].key] /\ Len(o) \in Nat
    BY <1>1, <1>3
  <1>5. Len(keys) \in Nat
    BY <1>4
  <1> QED BY <1>5 DEF keys

\* Nothing goes through a table in a legacy message.
LEMMA LegacyCompiled ==
    ASSUME NEW tt, NEW ii \in Seq(Instruction),
           Cardinality(SignerSet(Payer, ii)) <= MaxSigners, NewMessage(Payer, ii).ok
    PROVE  Compiled(NewMessage(Payer, ii), ii, tt, <<PayerRef(Payer)>> \o References(ii),
                    <<>>, <<>>, {})
  <1> DEFINE X == References(ii)
             refs == <<PayerRef(Payer)>> \o X
             H == BucketAndOrder(Entries(refs))
             m == NewMessage(Payer, ii)
  <1>1. Static(refs, ii, {})
    <2>1. X \in Seq(Ref)
      BY ReferencesElements
    <2>2. \A r : Occurs(r, X) <=> \E j \in 1 .. Len(ii) :
                                    \/ Occurs(r, ii[j].metas) /\ r.key \notin {}
                                    \/ r = ProgramRef(ii[j])
      BY ReferencesElements
    <2> HIDE DEF X
    <2>3. Static(<<PayerRef(Payer)>> \o X, ii, {})
      BY <2>1, <2>2, StaticPart
    <2> QED BY <2>3
  <1>2. /\ Len(H.keys) <= MaxAccounts
        /\ m = [ok |-> TRUE, header |-> H, lookups |-> <<>>,
                ixs |-> CompileInstructions(ii, H.keys)]
    <2>1. m = IF ii = <<>> \/ Len(H.keys) > MaxAccounts THEN NoMessage
              ELSE [ok |-> TRUE, header |-> H, lookups |-> <<>>,
                    ixs |-> CompileInstructions(ii, H.keys)]
      BY Zenon DEF NewMessage
    <2>2. m.ok /\ ~NoMessage.ok
      BY DEF NoMessage
    <2> HIDE DEF m
    <2>3. ~(ii = <<>> \/ Len(H.keys) > MaxAccounts)
      BY <2>1, <2>2, Zenon
    <2>4. m = [ok |-> TRUE, header |-> H, lookups |-> <<>>,
                ixs |-> CompileInstructions(ii, H.keys)]
      BY <2>1, <2>3, Zenon
    <2>5. Len(H.keys) \in Nat
      <3> HIDE DEF refs
      <3> QED BY <1>1, HeaderKeysLength DEF Static
    <2> HIDE DEF H
    <2> QED BY <2>3, <2>4, <2>5, WidthAssumption
  <1>3. HeaderOK(H, refs)
    <2> HIDE DEF refs
    <2> QED BY <1>1, <1>2, StaticHeader
  <1> HIDE DEF H, refs, m
  <1>4. /\ m.header = H /\ m.lookups = <<>> /\ m.ixs = CompileInstructions(ii, H.keys)
    BY <1>2
  <1>5. LookedUp(m, tt, "writable") = <<>> /\ LookedUp(m, tt, "readonly") = <<>>
    <2>1. ASSUME NEW f PROVE LookedUp(m, tt, f) = FlattenSeq(<<>>)
      <3>1. DOMAIN m.lookups = {}
        BY <1>4
      <3> QED BY <3>1 DEF LookedUp
    <2> QED BY <2>1, FlattenEmpty
  <1>6. H.keys \in Seq(Keys)
    BY <1>3 DEF HeaderOK
  <1>7. <<>> \in Seq(Keys) /\ <<>> \o <<>> = <<>> /\ H.keys \o (<<>> \o <<>>) = H.keys
    BY <1>6
  <1>8. NoRepeats(<<>>) /\ \A k : ~Occurs(k, <<>>)
    BY DEF NoRepeats, Occurs
  <1>9. Compiled(m, ii, tt, refs, <<>>, <<>>, {})
    BY <1>1, <1>2, <1>3, <1>4, <1>5, <1>7, <1>8 DEF Compiled
  <1> QED BY <1>9 DEF m, refs

\* Whether a reference goes through a table depends on its key alone.
LEMMA RoutedByKey ==
    ASSUME NEW tt, NEW ii \in Seq(Instruction)
    PROVE  /\ \A k \in RoutedKeys(tt, ii) : k \notin SignerSet(Payer, ii)
           /\ \A j \in 1 .. Len(ii) : \A r : Occurs(r, ii[j].metas) =>
                 (Routed(tt, Payer, ii, r) <=> r.key \in RoutedKeys(tt, ii))
           /\ \A k \in RoutedKeys(tt, ii) : k \in WrittenKeys(tt, ii) <=> Writes(ii, k)
  <1>1. \A r : r \in RoutedRefs(tt, ii)
           <=> (\E j \in 1 .. Len(ii) : Occurs(r, ii[j].metas)) /\ Routed(tt, Payer, ii, r)
    <2>1. \A j \in 1 .. Len(ii) : \A r : r \in ToSet(ii[j].metas) <=> Occurs(r, ii[j].metas)
      BY InstructionType, ToSetOccurs
    <2>2. DOMAIN ii = 1 .. Len(ii)
      OBVIOUS
    <2> QED BY <2>1, <2>2 DEF RoutedRefs
  <1>2. \A r : Routed(tt, Payer, ii, r)
           <=> InTable(tt, r.key) /\ r.key \notin SignerSet(Payer, ii)
    BY DEF Routed
  <1>3. \A k : k \in RoutedKeys(tt, ii) <=> \E r \in RoutedRefs(tt, ii) : r.key = k
    BY DEF RoutedKeys
  <1>4. \A k : k \in WrittenKeys(tt, ii) <=> \E r \in RoutedRefs(tt, ii) : r.writable /\ r.key = k
    BY DEF WrittenKeys
  <1>5. \A k \in RoutedKeys(tt, ii) : InTable(tt, k) /\ k \notin SignerSet(Payer, ii)
    BY <1>1, <1>2, <1>3
  <1>6. \A j \in 1 .. Len(ii) : \A r : Occurs(r, ii[j].metas) =>
                 (Routed(tt, Payer, ii, r) <=> r.key \in RoutedKeys(tt, ii))
    BY <1>1, <1>2, <1>3, <1>5
  <1>7. ASSUME NEW k \in RoutedKeys(tt, ii) PROVE k \in WrittenKeys(tt, ii) <=> Writes(ii, k)
    <2>1. k # Payer
      BY <1>5, SignerSetElements
    <2>2. Writes(ii, k) <=> \E j \in 1 .. Len(ii) : \E r :
                               Occurs(r, ii[j].metas) /\ r.key = k /\ r.writable
      BY <2>1, WritesElements
    <2>3. \A j \in 1 .. Len(ii) : \A r : Occurs(r, ii[j].metas) /\ r.key = k => r \in RoutedRefs(tt, ii)
      BY <1>1, <1>6
    <2> QED BY <1>1, <1>4, <2>2, <2>3
  <1> QED BY <1>5, <1>6, <1>7

LEMMA V0Compiled ==
    ASSUME NEW tt \in TableSets, NEW ii \in Seq(Instruction),
           Cardinality(SignerSet(Payer, ii)) <= MaxSigners, NewMessageV0(Payer, ii, tt).ok
    PROVE  Compiled(NewMessageV0(Payer, ii, tt), ii, tt,
                    <<PayerRef(Payer)>> \o StaticReferences(tt, Payer, ii),
                    Looked(tt, ii, TRUE), Looked(tt, ii, FALSE), RoutedKeys(tt, ii))
  <1> DEFINE X == StaticReferences(tt, Payer, ii)
             refs == <<PayerRef(Payer)>> \o X
             H == BucketAndOrder(Entries(refs))
             m == NewMessageV0(Payer, ii, tt)
             W == Looked(tt, ii, TRUE)
             R == Looked(tt, ii, FALSE)
             Rt == RoutedKeys(tt, ii)
             L == LookupKeys(tt, Slots(tt, ii))
  <1>0. tt \in Seq(Table)
    BY TableAssumption DEF Table
  <1>1. Static(refs, ii, Rt)
    <2>1. X \in Seq(Ref)
      BY StaticReferencesElements
    <2>2. \A r : Occurs(r, X) <=> \E j \in 1 .. Len(ii) :
                                    \/ Occurs(r, ii[j].metas) /\ ~Routed(tt, Payer, ii, r)
                                    \/ r = ProgramRef(ii[j])
      BY StaticReferencesElements
    <2> HIDE DEF X, Rt
    <2>3. /\ \A k \in Rt : k \notin SignerSet(Payer, ii)
          /\ \A j \in 1 .. Len(ii) : \A r : Occurs(r, ii[j].metas) =>
                 (Routed(tt, Payer, ii, r) <=> r.key \in Rt)
      BY RoutedByKey DEF Rt
    <2>4. \A r : Occurs(r, X) <=> \E j \in 1 .. Len(ii) :
                                    \/ Occurs(r, ii[j].metas) /\ r.key \notin Rt
                                    \/ r = ProgramRef(ii[j])
      BY <2>2, <2>3
    <2>5. Static(<<PayerRef(Payer)>> \o X, ii, Rt)
      BY <2>1, <2>3, <2>4, StaticPart
    <2> QED BY <2>5
  <1>2. L = W \o R
    BY <1>0, LookupKeysSplit
  <1>3. /\ W \in Seq(Keys) /\ R \in Seq(Keys) /\ NoRepeats(W) /\ NoRepeats(R)
        /\ \A k : Occurs(k, W) <=> k \in Rt /\ k \in WrittenKeys(tt, ii)
        /\ \A k : Occurs(k, R) <=> k \in Rt /\ k \notin WrittenKeys(tt, ii)
    BY <1>0, LookedElements
  <1>4. /\ Len(H.keys) <= MaxAccounts /\ Len(H.keys) + Len(L) <= MaxAccounts
        /\ m.header = H /\ m.lookups = Lookups(tt, ii) /\ m.ixs = CompileInstructions(ii, H.keys \o L)
    <2>1. m = IF ii = <<>> \/ Len(H.keys) > MaxAccounts \/ ~TotalFits(H.keys, L) THEN NoMessage
              ELSE [ok |-> TRUE, header |-> H, lookups |-> Lookups(tt, ii),
                    ixs |-> CompileInstructions(ii, H.keys \o L)]
      BY Zenon DEF NewMessageV0, Lookups, Lookup, Emit, Slots
    <2>2. m.ok /\ ~NoMessage.ok
      BY DEF NoMessage
    <2> HIDE DEF m
    <2>3. ~(ii = <<>> \/ Len(H.keys) > MaxAccounts \/ ~TotalFits(H.keys, L))
      BY <2>1, <2>2, Zenon
    <2>4. m = [ok |-> TRUE, header |-> H, lookups |-> Lookups(tt, ii),
               ixs |-> CompileInstructions(ii, H.keys \o L)]
      BY <2>1, <2>3, Zenon
    <2>5. Len(H.keys) \in Nat
      <3> HIDE DEF refs
      <3> QED BY <1>1, HeaderKeysLength DEF Static
    <2> HIDE DEF H, L
    <2>6. Len(H.keys) <= MaxAccounts
      BY <2>3, <2>5, WidthAssumption
    <2>7. Len(H.keys) + Len(L) <= MaxAccounts
      BY <2>3 DEF TotalFits
    <2> QED BY <2>4, <2>6, <2>7
  <1>5. HeaderOK(H, refs)
    <2> HIDE DEF refs
    <2> QED BY <1>1, <1>4, StaticHeader
  <1>6. LookedUp(m, tt, "writable") = W /\ LookedUp(m, tt, "readonly") = R
    <2> HIDE DEF m
    <2> QED BY <1>4, LookedUpAgrees
  <1>7. /\ \A k \in Rt : k \notin SignerSet(Payer, ii)
        /\ \A k \in Rt : k \in WrittenKeys(tt, ii) <=> Writes(ii, k)
    BY RoutedByKey
  <1> HIDE DEF H, refs, m, W, R, Rt, L
  <1>8. H.keys \in Seq(Keys)
    BY <1>5 DEF HeaderOK
  <1>9. W \o R \in Seq(Keys) /\ NoRepeats(W \o R)
    BY <1>3, NoRepeatsConcat
  <1>10. Len(H.keys \o (W \o R)) <= MaxAccounts
    <2> DEFINE a == H.keys
               b == W \o R
    <2>1. a \in Seq(Keys) /\ b \in Seq(Keys) /\ Len(a) + Len(b) <= MaxAccounts
      BY <1>2, <1>4, <1>8, <1>9
    <2> HIDE DEF a, b
    <2>2. Len(a \o b) <= MaxAccounts
      BY <2>1
    <2> QED BY <2>2 DEF a, b
  <1>11. /\ \A k : (Occurs(k, W) \/ Occurs(k, R)) <=> k \in Rt
         /\ \A k : Occurs(k, W) => Writes(ii, k)
         /\ \A k : Occurs(k, R) => ~Writes(ii, k)
    BY <1>3, <1>7
  <1>12. m.header = H /\ m.ixs = CompileInstructions(ii, H.keys \o (W \o R))
    BY <1>2, <1>4
  <1>13. Compiled(m, ii, tt, refs, W, R, Rt)
    BY <1>1, <1>3, <1>5, <1>6, <1>7, <1>9, <1>10, <1>11, <1>12 DEF Compiled
  <1> QED BY <1>13 DEF m, refs, W, R, Rt

\* keys is H, then W, then R.
Laid(keys, H, W, R) ==
    /\ H \in Seq(Keys) /\ W \in Seq(Keys) /\ R \in Seq(Keys) /\ keys \in Seq(Keys)
    /\ keys = H \o (W \o R) /\ Len(keys) = Len(H) + Len(W) + Len(R)
    /\ \A i \in 1 .. Len(H) : keys[i] = H[i]
    /\ \A i \in 1 .. Len(W) : keys[Len(H) + i] = W[i]
    /\ \A i \in 1 .. Len(R) : keys[Len(H) + Len(W) + i] = R[i]
    /\ \A i \in 1 .. Len(W \o R) : keys[Len(H) + i] = (W \o R)[i]
    /\ \A k : Occurs(k, keys) <=> Occurs(k, H) \/ Occurs(k, W) \/ Occurs(k, R)

\* The resolved accounts: the static ones, the writable and the read-only looked up ones.
LEMMA ResolvedParts ==
    ASSUME NEW m, NEW ii, NEW tt, NEW refs, NEW W, NEW R, NEW Rt,
           Compiled(m, ii, tt, refs, W, R, Rt)
    PROVE  Laid(ResolvedAccountKeys(m, tt), m.header.keys, W, R)
  <1> DEFINE H == m.header.keys
             V == W \o R
             keys == ResolvedAccountKeys(m, tt)
  <1>1. H \in Seq(Keys) /\ W \in Seq(Keys) /\ R \in Seq(Keys)
    BY DEF Compiled, HeaderOK
  <1>2. keys = H \o W \o R
    BY DEF Compiled, ResolvedAccountKeys
  <1>3. /\ V \in Seq(Keys) /\ Len(V) = Len(W) + Len(R)
        /\ \A i \in 1 .. Len(W) : V[i] = W[i]
        /\ \A i \in 1 .. Len(R) : V[Len(W) + i] = R[i]
        /\ \A k : Occurs(k, V) <=> Occurs(k, W) \/ Occurs(k, R)
    BY <1>1, OccursConcat
  <1> HIDE DEF H, keys
  <1>4. keys = H \o V
    BY <1>1, <1>2, SMTT(20)
  <1> HIDE DEF V
  <1>5. /\ keys \in Seq(Keys) /\ Len(keys) = Len(H) + Len(V)
        /\ \A i \in 1 .. Len(H) : keys[i] = H[i]
        /\ \A i \in 1 .. Len(V) : keys[Len(H) + i] = V[i]
        /\ \A k : Occurs(k, keys) <=> Occurs(k, H) \/ Occurs(k, V)
    <2>1. H \in Seq(Keys) /\ V \in Seq(Keys)
      BY <1>1, <1>3
    <2>2. /\ H \o V \in Seq(Keys) /\ Len(H \o V) = Len(H) + Len(V)
          /\ \A i \in 1 .. Len(H) : (H \o V)[i] = H[i]
          /\ \A i \in 1 .. Len(V) : (H \o V)[Len(H) + i] = V[i]
          /\ \A k : Occurs(k, H \o V) <=> Occurs(k, H) \/ Occurs(k, V)
      BY <2>1, OccursConcat
    <2> QED BY <1>4, <2>2
  <1>6. Len(H) \in Nat /\ Len(W) \in Nat /\ Len(R) \in Nat
    BY <1>1
  <1>7. \A i \in 1 .. Len(W) : keys[Len(H) + i] = W[i]
    BY <1>3, <1>5, <1>6
  <1>8. ASSUME NEW i \in 1 .. Len(R) PROVE keys[Len(H) + Len(W) + i] = R[i]
    <2>1. Len(W) + i \in 1 .. Len(V) /\ Len(H) + Len(W) + i = Len(H) + (Len(W) + i)
      BY <1>3, <1>6
    <2> QED BY <1>3, <1>5, <2>1
  <1>9. /\ Len(keys) = Len(H) + Len(W) + Len(R)
        /\ \A k : Occurs(k, keys) <=> Occurs(k, H) \/ Occurs(k, W) \/ Occurs(k, R)
    BY <1>3, <1>5, <1>6
  <1>10. keys = H \o (W \o R) /\ \A i \in 1 .. Len(W \o R) : keys[Len(H) + i] = (W \o R)[i]
    BY <1>4, <1>5 DEF V
  <1>11. Laid(keys, H, W, R)
    BY <1>1, <1>5, <1>7, <1>8, <1>9, <1>10 DEF Laid
  <1> QED BY <1>11 DEF H, keys

\* Every account and program of an instruction has its index.
Indexed(m, ii, keys, j) ==
    /\ Len(keys) <= MaxAccounts /\ Occurs(ii[j].program, keys)
    /\ m.ixs[j].program = Uint8(KeyIndex(keys, ii[j].program))
    /\ DOMAIN m.ixs = 1 .. Len(ii) /\ DOMAIN m.ixs[j].accounts = DOMAIN ii[j].metas
    /\ \A i \in DOMAIN ii[j].metas :
          /\ Occurs(ii[j].metas[i].key, keys)
          /\ m.ixs[j].accounts[i] = Uint8(KeyIndex(keys, ii[j].metas[i].key))

LEMMA AllIndexed ==
    ASSUME NEW m, NEW ii \in Seq(Instruction), NEW tt, NEW refs, NEW W, NEW R, NEW Rt,
           Compiled(m, ii, tt, refs, W, R, Rt), NEW j \in 1 .. Len(ii)
    PROVE  Indexed(m, ii, ResolvedAccountKeys(m, tt), j)
  <1> DEFINE H == m.header.keys
             keys == ResolvedAccountKeys(m, tt)
             x == ii[j]
             y == m.ixs[j]
  <1>1. /\ keys = H \o (W \o R)
        /\ \A k : Occurs(k, keys) <=> Occurs(k, H) \/ Occurs(k, W) \/ Occurs(k, R)
    <2>1. Laid(keys, H, W, R)
      BY ResolvedParts
    <2> HIDE DEF keys, H
    <2> QED BY <2>1 DEF Laid
  <1>2. /\ Len(H \o (W \o R)) <= MaxAccounts /\ m.ixs = CompileInstructions(ii, H \o (W \o R))
        /\ \A k : (Occurs(k, W) \/ Occurs(k, R)) <=> k \in Rt
        /\ Static(refs, ii, Rt) /\ HeaderOK(m.header, refs)
    BY DEF Compiled
  <1>3. \A k : Occurs(k, H) <=> \E n \in 1 .. Len(refs) : refs[n].key = k
    BY <1>2 DEF HeaderOK
  <1>4. x.metas \in Seq(Ref)
    BY InstructionType
  <1>5. /\ \E n \in 1 .. Len(refs) : refs[n].key = x.program
        /\ \A r : Occurs(r, x.metas) /\ r.key \notin Rt => \E n \in 1 .. Len(refs) : refs[n].key = r.key
    BY <1>2 DEF Static
  <1> HIDE DEF keys, H
  <1>6. m.ixs = CompileInstructions(ii, keys) /\ Len(keys) <= MaxAccounts
    BY <1>1, <1>2
  <1>7. DOMAIN ii = 1 .. Len(ii)
    OBVIOUS
  <1>8. DOMAIN m.ixs = 1 .. Len(ii) /\ y.program = Uint8(KeyIndex(keys, x.program))
        /\ y.accounts = [i \in DOMAIN x.metas |-> Uint8(KeyIndex(keys, x.metas[i].key))]
    BY <1>6, <1>7 DEF CompileInstructions
  <1> HIDE DEF x, y
  <1>9. DOMAIN x.metas = 1 .. Len(x.metas)
    BY <1>4
  <1>10. \A i \in DOMAIN x.metas : Occurs(x.metas[i], x.metas)
    BY <1>9 DEF Occurs
  <1>11. \A i \in DOMAIN x.metas : Occurs(x.metas[i].key, keys)
    BY <1>1, <1>2, <1>3, <1>5, <1>10
  <1>12. Occurs(x.program, keys)
    BY <1>1, <1>3, <1>5
  <1> QED BY <1>6, <1>8, <1>11, <1>12 DEF x, y, keys, Indexed

\* Indices resolve to the keys they were made for.
Agrees(m, ii, keys) ==
    \A j \in DOMAIN ii :
        /\ keys[m.ixs[j].program + 1] = ii[j].program
        /\ \A i \in DOMAIN ii[j].metas : keys[m.ixs[j].accounts[i] + 1] = ii[j].metas[i].key

LEMMA ResolvesBack ==
    ASSUME NEW m, NEW ii \in Seq(Instruction), NEW tt, NEW refs, NEW W, NEW R, NEW Rt,
           Compiled(m, ii, tt, refs, W, R, Rt)
    PROVE  Agrees(m, ii, ResolvedAccountKeys(m, tt))
  <1> DEFINE keys == ResolvedAccountKeys(m, tt)
  <1>1. keys \in Seq(Keys)
    BY ResolvedParts DEF Laid
  <1> SUFFICES ASSUME NEW j \in 1 .. Len(ii)
               PROVE  /\ keys[m.ixs[j].program + 1] = ii[j].program
                      /\ \A i \in DOMAIN ii[j].metas :
                            keys[m.ixs[j].accounts[i] + 1] = ii[j].metas[i].key
    BY DEF Agrees
  <1>2. /\ Len(keys) <= MaxAccounts /\ Occurs(ii[j].program, keys)
        /\ m.ixs[j].program = Uint8(KeyIndex(keys, ii[j].program))
        /\ \A i \in DOMAIN ii[j].metas :
              /\ Occurs(ii[j].metas[i].key, keys)
              /\ m.ixs[j].accounts[i] = Uint8(KeyIndex(keys, ii[j].metas[i].key))
    <2>1. Indexed(m, ii, keys, j)
      BY AllIndexed
    <2> HIDE DEF keys
    <2> QED BY <2>1 DEF Indexed
  <1> HIDE DEF keys
  <1>3. ASSUME NEW k, Occurs(k, keys) PROVE keys[Uint8(KeyIndex(keys, k)) + 1] = k
    BY <1>1, <1>2, <1>3, KeyIndexFinds
  <1> QED BY <1>2, <1>3

\* No key but a program's is resolved twice.
LEMMA ResolvedOnce ==
    ASSUME NEW m, NEW ii, NEW tt, NEW refs, NEW W, NEW R, NEW Rt,
           Compiled(m, ii, tt, refs, W, R, Rt)
    PROVE  LET keys == ResolvedAccountKeys(m, tt)
           IN  \A i, j \in DOMAIN keys : keys[i] = keys[j] /\ i # j => keys[i] \in Programs
  <1> DEFINE H == m.header.keys
             V == W \o R
             keys == ResolvedAccountKeys(m, tt)
  <1>1. /\ H \in Seq(Keys) /\ keys \in Seq(Keys) /\ W \in Seq(Keys) /\ R \in Seq(Keys)
        /\ Len(keys) = Len(H) + Len(W) + Len(R)
        /\ \A i \in 1 .. Len(H) : keys[i] = H[i]
        /\ \A i \in 1 .. Len(V) : keys[Len(H) + i] = V[i]
    <2>1. Laid(keys, H, W, R)
      BY ResolvedParts
    <2> HIDE DEF keys, H
    <2> QED BY <2>1 DEF Laid
  <1>2. /\ V \in Seq(Keys) /\ Len(V) = Len(W) + Len(R)
        /\ \A k : Occurs(k, V) <=> Occurs(k, W) \/ Occurs(k, R)
    BY <1>1, OccursConcat
  <1>3. /\ NoRepeats(V) /\ \A k : (Occurs(k, W) \/ Occurs(k, R)) <=> k \in Rt
        /\ Static(refs, ii, Rt) /\ HeaderOK(m.header, refs)
    BY DEF Compiled
  <1>4. /\ NoRepeats(H)
        /\ \A k : Occurs(k, H) <=> \E n \in 1 .. Len(refs) : refs[n].key = k
    BY <1>3 DEF HeaderOK
  <1>5. \A n \in 1 .. Len(refs) : refs[n].key \in Rt => refs[n].key \in Programs
    BY <1>3 DEF Static
  <1>6. \A k : Occurs(k, H) /\ Occurs(k, V) => k \in Programs
    BY <1>2, <1>3, <1>4, <1>5
  <1> HIDE DEF keys, H, V
  <1>7. Len(H) \in Nat /\ Len(V) \in Nat /\ Len(keys) = Len(H) + Len(V) /\ DOMAIN keys = 1 .. Len(keys)
    BY <1>1, <1>2
  <1>8. ASSUME NEW i \in 1 .. Len(keys)
        PROVE  \/ i \in 1 .. Len(H) /\ keys[i] = H[i] /\ Occurs(keys[i], H)
               \/ i - Len(H) \in 1 .. Len(V) /\ keys[i] = V[i - Len(H)] /\ Occurs(keys[i], V)
    <2>1. CASE i <= Len(H)
      <3>1. i \in 1 .. Len(H)
        BY <1>7, <2>1
      <3> QED BY <1>1, <3>1 DEF Occurs
    <2>2. CASE i > Len(H)
      <3>1. i - Len(H) \in 1 .. Len(V) /\ Len(H) + (i - Len(H)) = i
        BY <1>7, <2>2
      <3> QED BY <1>1, <3>1 DEF Occurs
    <2> QED BY <1>7, <2>1, <2>2
  <1>9. ASSUME NEW i \in 1 .. Len(keys), NEW j \in 1 .. Len(keys), keys[i] = keys[j], i # j
        PROVE  keys[i] \in Programs
    <2>1. CASE i \in 1 .. Len(H) /\ j \in 1 .. Len(H)
      BY <1>1, <1>4, <1>9, <2>1 DEF NoRepeats
    <2>2. CASE i - Len(H) \in 1 .. Len(V) /\ j - Len(H) \in 1 .. Len(V)
      <3>1. keys[i] = V[i - Len(H)] /\ keys[j] = V[j - Len(H)]
        <4>1. Len(H) + (i - Len(H)) = i /\ Len(H) + (j - Len(H)) = j
          BY <1>7
        <4> QED BY <1>1, <2>2, <4>1
      <3>2. i - Len(H) = j - Len(H)
        BY <1>3, <1>9, <2>2, <3>1 DEF NoRepeats
      <3> QED BY <1>7, <1>9, <3>2
    <2>3. CASE Occurs(keys[i], H) /\ Occurs(keys[i], V)
      BY <1>6, <2>3
    <2> QED BY <1>8, <1>9, <2>1, <2>2, <2>3
  <1>10. \A i, j \in DOMAIN keys : keys[i] = keys[j] /\ i # j => keys[i] \in Programs
    BY <1>7, <1>9
  <1> QED BY <1>10 DEF keys

\* The role of an index when its key, if static, is not looked up as well.
GrantsWritable(m, tt, i) ==
    IF i < Len(m.header.keys) THEN StaticWritable(m.header, i)
    ELSE i < Len(m.header.keys) + Len(LookedUp(m, tt, "writable"))

LEMMA RolesAt ==
    ASSUME NEW m, NEW ii \in Seq(Instruction), NEW tt, NEW refs, NEW W, NEW R, NEW Rt,
           Compiled(m, ii, tt, refs, W, R, Rt), NEW i \in 0 .. Len(ResolvedAccountKeys(m, tt)) - 1,
           i < Len(m.header.keys) => ResolvedAccountKeys(m, tt)[i + 1] \notin Rt
    PROVE  LET k == ResolvedAccountKeys(m, tt)[i + 1]
           IN  /\ StaticSigner(m.header, i) <=> k \in SignerSet(Payer, ii)
               /\ GrantsWritable(m, tt, i) <=> Writes(ii, k)
  <1> DEFINE G == m.header
             H == m.header.keys
             keys == ResolvedAccountKeys(m, tt)
             k == keys[i + 1]
  <1>1. Laid(keys, H, W, R)
    BY ResolvedParts
  <1>2. /\ \A x : (Occurs(x, W) \/ Occurs(x, R)) <=> x \in Rt
        /\ \A x \in Rt : x \notin SignerSet(Payer, ii)
        /\ \A x : Occurs(x, W) => Writes(ii, x)
        /\ \A x : Occurs(x, R) => ~Writes(ii, x)
        /\ Static(refs, ii, Rt) /\ HeaderOK(G, refs)
        /\ LookedUp(m, tt, "writable") = W
    BY DEF Compiled
  <1>3. GrantsWritable(m, tt, i) <=> IF i < Len(H) THEN StaticWritable(G, i)
                                     ELSE i < Len(H) + Len(W)
    BY <1>2 DEF GrantsWritable
  <1>4. G.required \in 0 .. Len(H) /\ \A n \in 1 .. Len(H) :
           /\ StaticSigner(G, n - 1)
                 <=> \E p \in 1 .. Len(refs) : refs[p].key = H[n] /\ refs[p].signer
           /\ StaticWritable(G, n - 1)
                 <=> \E p \in 1 .. Len(refs) : refs[p].key = H[n] /\ refs[p].writable
    BY <1>2 DEF HeaderOK
  <1>5. /\ \A x : x \notin Rt =>
             ((\E n \in 1 .. Len(refs) : refs[n].key = x /\ refs[n].signer) <=> x \in SignerSet(Payer, ii))
        /\ \A x : x \notin Rt =>
             ((\E n \in 1 .. Len(refs) : refs[n].key = x /\ refs[n].writable) <=> Writes(ii, x))
    BY <1>2 DEF Static
  <1> HIDE DEF H, keys, G
  <1>6. /\ Len(H) \in Nat /\ Len(W) \in Nat /\ Len(R) \in Nat /\ Len(keys) = Len(H) + Len(W) + Len(R)
        /\ \A n \in 1 .. Len(H) : keys[n] = H[n]
        /\ \A n \in 1 .. Len(W) : keys[Len(H) + n] = W[n]
        /\ \A n \in 1 .. Len(R) : keys[Len(H) + Len(W) + n] = R[n]
    BY <1>1 DEF Laid
  <1>7. i \in 0 .. Len(keys) - 1 /\ (i < Len(H) => k \notin Rt)
    BY DEF keys, H
  <1>8. i \in Nat /\ i + 1 - 1 = i
    BY <1>6, <1>7
  <1>9. CASE i < Len(H)
    <2>1. i + 1 \in 1 .. Len(H) /\ k = H[i + 1] /\ k \notin Rt
      BY <1>6, <1>7, <1>8, <1>9
    <2>2. /\ StaticSigner(G, i)
                 <=> \E p \in 1 .. Len(refs) : refs[p].key = k /\ refs[p].signer
          /\ StaticWritable(G, i)
                 <=> \E p \in 1 .. Len(refs) : refs[p].key = k /\ refs[p].writable
      <3>1. PICK n \in 1 .. Len(H) : n = i + 1 /\ n - 1 = i
        BY <1>8, <2>1
      <3>2. k = H[n]
        BY <2>1, <3>1
      <3> QED BY <1>4, <3>1, <3>2
    <2> HIDE DEF k
    <2>3. /\ StaticSigner(G, i) <=> k \in SignerSet(Payer, ii)
          /\ StaticWritable(G, i) <=> Writes(ii, k)
      BY <1>5, <2>1, <2>2
    <2> QED BY <1>3, <1>9, <2>3 DEF k, keys, G
  <1>10. CASE i >= Len(H)
    <2>1. ~StaticSigner(G, i)
      BY <1>4, <1>6, <1>8, <1>10 DEF StaticSigner
    <2>2. \/ i < Len(H) + Len(W) /\ Occurs(k, W)
          \/ ~(i < Len(H) + Len(W)) /\ Occurs(k, R)
      <3>1. CASE i < Len(H) + Len(W)
        <4>1. PICK n \in 1 .. Len(W) : Len(H) + n = i + 1
          <5> i + 1 - Len(H) \in 1 .. Len(W) /\ Len(H) + (i + 1 - Len(H)) = i + 1
            BY <1>6, <1>8, <1>10, <3>1
          <5> QED OBVIOUS
        <4>2. k = W[n]
          BY <1>6, <4>1
        <4> QED BY <3>1, <4>2 DEF Occurs
      <3>2. CASE ~(i < Len(H) + Len(W))
        <4>1. PICK n \in 1 .. Len(R) : Len(H) + Len(W) + n = i + 1
          <5> i + 1 - Len(H) - Len(W) \in 1 .. Len(R)
              /\ Len(H) + Len(W) + (i + 1 - Len(H) - Len(W)) = i + 1
            BY <1>6, <1>7, <1>8, <3>2
          <5> QED OBVIOUS
        <4>2. k = R[n]
          BY <1>6, <4>1
        <4> QED BY <3>2, <4>2 DEF Occurs
      <3> QED BY <3>1, <3>2
    <2> HIDE DEF k
    <2>3. k \notin SignerSet(Payer, ii) /\ (i < Len(H) + Len(W) <=> Writes(ii, k))
      BY <1>2, <2>2
    <2>4. ~(i < Len(H))
      BY <1>6, <1>8, <1>10
    <2> QED BY <1>3, <2>1, <2>3, <2>4 DEF k, keys, G
  <1> QED BY <1>6, <1>8, <1>9, <1>10

\* The indices of instructions, and the payer's, are such.
LEMMA RolesUsed ==
    ASSUME NEW m, NEW ii \in Seq(Instruction), NEW tt, NEW refs, NEW W, NEW R, NEW Rt,
           Compiled(m, ii, tt, refs, W, R, Rt),
           NEW i,
           i # 0 => \E j \in 1 .. Len(ii) : \E a \in DOMAIN ii[j].metas : i = m.ixs[j].accounts[a]
    PROVE  LET k == ResolvedAccountKeys(m, tt)[i + 1]
           IN  /\ StaticSigner(m.header, i) <=> k \in SignerSet(Payer, ii)
               /\ GrantsWritable(m, tt, i) <=> Writes(ii, k)
  <1> DEFINE H == m.header.keys
             keys == ResolvedAccountKeys(m, tt)
  <1>1. Laid(keys, H, W, R)
    BY ResolvedParts
  <1>2. /\ keys \in Seq(Keys) /\ H \in Seq(Keys)
        /\ Len(H) \in Nat /\ Len(W) \in Nat /\ Len(R) \in Nat /\ Len(keys) = Len(H) + Len(W) + Len(R)
        /\ \A n \in 1 .. Len(H) : keys[n] = H[n]
        /\ \A n \in 1 .. Len(W) : keys[Len(H) + n] = W[n]
        /\ \A n \in 1 .. Len(R) : keys[Len(H) + Len(W) + n] = R[n]
    <2> HIDE DEF keys, H
    <2> QED BY <1>1 DEF Laid
  <1>3. /\ \A x : (Occurs(x, W) \/ Occurs(x, R)) <=> x \in Rt
        /\ \A x \in Rt : x \notin SignerSet(Payer, ii)
        /\ Static(refs, ii, Rt) /\ HeaderOK(m.header, refs)
    BY DEF Compiled
  <1>4. H # <<>> /\ H[1] = Payer /\ Payer \notin Rt
    <2>1. H # <<>> /\ H[1] = refs[1].key
      BY <1>3 DEF HeaderOK
    <2>2. refs[1].key = Payer
      BY <1>3 DEF Static, PayerRef
    <2>3. Payer \in SignerSet(Payer, ii)
      BY SignerSetElements
    <2> QED BY <1>3, <2>1, <2>2, <2>3
  <1>5. i \in 0 .. Len(keys) - 1 /\ (i < Len(H) => keys[i + 1] \notin Rt)
    <2>1. CASE i = 0
      <3>1. Len(H) >= 1
        BY <1>2, <1>4
      <3>2. keys[1] = Payer
        BY <1>2, <1>4, <3>1
      <3> HIDE DEF keys, H
      <3>3. 0 \in 0 .. Len(keys) - 1 /\ 0 + 1 = 1
        BY <1>2, <3>1
      <3> QED BY <1>4, <2>1, <3>2, <3>3
    <2>2. CASE i # 0
      <3>1. PICK j \in 1 .. Len(ii) : \E a \in DOMAIN ii[j].metas : i = m.ixs[j].accounts[a]
        BY <2>2
      <3>2. PICK a \in DOMAIN ii[j].metas : i = m.ixs[j].accounts[a]
        BY <3>1
      <3> DEFINE k == ii[j].metas[a].key
      <3>3. Indexed(m, ii, keys, j)
        BY AllIndexed
      <3>5. Len(keys) <= MaxAccounts /\ Occurs(k, keys) /\ i = Uint8(KeyIndex(keys, k))
        <4> HIDE DEF keys
        <4> QED BY <3>2, <3>3 DEF Indexed
      <3> HIDE DEF keys, H, k
      <3>6. /\ i \in 0 .. Len(keys) - 1 /\ keys[i + 1] = k
            /\ \A n \in 1 .. Len(keys) : keys[n] = k => n <= i + 1
        <4> DEFINE x == KeyIndex(keys, k)
        <4>1. /\ x \in 0 .. Len(keys) - 1 /\ Uint8(x) = x /\ keys[x + 1] = k
              /\ \A n \in 1 .. Len(keys) : keys[n] = k => n <= x + 1
          BY <1>2, <3>5, KeyIndexFinds
        <4>2. i = Uint8(x)
          BY <3>5
        <4> HIDE DEF x
        <4>3. i = x
          BY <4>1, <4>2
        <4> QED BY <4>1, <4>3
      <3>7. ASSUME i < Len(H), k \in Rt PROVE FALSE
        <4>1. \E n \in 1 .. Len(keys) : n > Len(H) /\ keys[n] = k
          <5>1. CASE Occurs(k, W)
            <6>1. PICK n \in 1 .. Len(W) : W[n] = k
              BY <5>1 DEF Occurs
            <6>2. keys[Len(H) + n] = k /\ Len(H) + n \in 1 .. Len(keys) /\ Len(H) + n > Len(H)
              BY <1>2, <6>1
            <6> QED BY <6>2
          <5>2. CASE Occurs(k, R)
            <6>1. PICK n \in 1 .. Len(R) : R[n] = k
              BY <5>2 DEF Occurs
            <6>2. /\ keys[Len(H) + Len(W) + n] = k
                  /\ Len(H) + Len(W) + n \in 1 .. Len(keys) /\ Len(H) + Len(W) + n > Len(H)
              BY <1>2, <6>1
            <6> QED BY <6>2
          <5> QED BY <1>3, <3>7, <5>1, <5>2
        <4> QED BY <1>2, <3>6, <3>7, <4>1
      <3> QED BY <3>6, <3>7
    <2> QED BY <2>1, <2>2
  <1> QED BY <1>5, RolesAt

\* Within a bucket the static accounts keep the order of their first references.
FirstRef(refs, k) == SelectInSeq(refs, LAMBDA r : r.key = k)

LEMMA OrderKept ==
    ASSUME NEW m, NEW ii, NEW tt, NEW refs, NEW W, NEW R, NEW Rt,
           Compiled(m, ii, tt, refs, W, R, Rt)
    PROVE  LET H == m.header.keys
           IN  /\ H \in Seq(Keys) /\ H[1] = Payer
               /\ \A i, j \in 1 .. Len(H) : i < j =>
                     \/ StaticBucket(m.header, i - 1) < StaticBucket(m.header, j - 1)
                     \/ /\ StaticBucket(m.header, i - 1) = StaticBucket(m.header, j - 1)
                        /\ FirstRef(refs, H[i]) < FirstRef(refs, H[j])
  <1> DEFINE H == m.header.keys
  <1>1. Static(refs, ii, Rt) /\ HeaderOK(m.header, refs)
    BY DEF Compiled
  <1>2. refs \in Seq(Ref) /\ refs[1].key = Payer /\ Len(refs) \in Nat
    BY <1>1 DEF Static, PayerRef
  <1>3. /\ H \in Seq(Keys) /\ H[1] = refs[1].key
        /\ \A k : Occurs(k, H) <=> \E n \in 1 .. Len(refs) : refs[n].key = k
        /\ \A i, j \in 1 .. Len(H) : i < j =>
              \/ StaticBucket(m.header, i - 1) < StaticBucket(m.header, j - 1)
              \/ /\ StaticBucket(m.header, i - 1) = StaticBucket(m.header, j - 1)
                 /\ \A n \in 1 .. Len(refs) : refs[n].key = H[j] =>
                       \E p \in 1 .. n - 1 : refs[p].key = H[i]
    BY <1>1 DEF HeaderOK
  <1>4. ASSUME NEW k, \E n \in 1 .. Len(refs) : refs[n].key = k
        PROVE  /\ FirstRef(refs, k) \in 1 .. Len(refs) /\ refs[FirstRef(refs, k)].key = k
               /\ \A n \in 1 .. Len(refs) : refs[n].key = k => FirstRef(refs, k) <= n
    <2> DEFINE I == {n \in 1 .. Len(refs) : refs[n].key = k}
    <2>1. I # {} /\ I \subseteq Nat
      BY <1>4
    <2>2. FirstRef(refs, k) = Min(I)
      BY <2>1 DEF FirstRef, SelectInSeq
    <2>3. Min(I) \in I /\ \A n \in I : Min(I) <= n
      <3> HIDE DEF I
      <3> QED BY <2>1, MinProperty
    <2> QED BY <2>2, <2>3
  <1> HIDE DEF H
  <1>5. ASSUME NEW i \in 1 .. Len(H), NEW j \in 1 .. Len(H),
               \A n \in 1 .. Len(refs) : refs[n].key = H[j] =>
                  \E p \in 1 .. n - 1 : refs[p].key = H[i]
        PROVE  FirstRef(refs, H[i]) < FirstRef(refs, H[j])
    <2>1. Occurs(H[j], H)
      BY DEF Occurs
    <2> DEFINE n == FirstRef(refs, H[j])
    <2>2. n \in 1 .. Len(refs) /\ refs[n].key = H[j]
      BY <1>3, <1>4, <2>1
    <2> HIDE DEF n
    <2>3. PICK p \in 1 .. n - 1 : refs[p].key = H[i]
      BY <1>5, <2>2
    <2>4. p \in 1 .. Len(refs) /\ p < n /\ p \in Nat /\ n \in Nat
      BY <1>2, <2>2
    <2>5. FirstRef(refs, H[i]) \in 1 .. Len(refs) /\ FirstRef(refs, H[i]) <= p
      BY <1>4, <2>3, <2>4
    <2>6. FirstRef(refs, H[i]) < n
      BY <1>2, <2>4, <2>5
    <2> QED BY <2>6 DEF n
  <1>6. H[1] = Payer
    BY <1>2, <1>3
  <1>7. \A i, j \in 1 .. Len(H) : i < j =>
           \/ StaticBucket(m.header, i - 1) < StaticBucket(m.header, j - 1)
           \/ /\ StaticBucket(m.header, i - 1) = StaticBucket(m.header, j - 1)
              /\ FirstRef(refs, H[i]) < FirstRef(refs, H[j])
    BY <1>3, <1>5
  <1> QED BY <1>3, <1>6, <1>7 DEF H

--------------------------------------------------------------------------------
(***************************************************************************)
(* The caller: both messages are what the builders make of the instructions. *)
(***************************************************************************)
Built ==
    /\ tables \in TableSets
    /\ ixs \in Seq(Instruction)
    /\ Cardinality(SignerSet(Payer, ixs)) <= MaxSigners
    /\ compiled \in BOOLEAN
    /\ ~compiled => legacy = NoMessage /\ v0 = NoMessage
    /\ compiled => legacy = NewMessage(Payer, ixs) /\ v0 = NewMessageV0(Payer, ixs, tables)

LEMMA BuiltInit == Init => Built
  <1> SUFFICES ASSUME Init PROVE Built
    OBVIOUS
  <1>1. <<>> \in Seq(Instruction)
    OBVIOUS
  <1>2. SignerSet(Payer, <<>>) = {Payer}
    <2>1. \A k : k \in SignerSet(Payer, <<>>) <=> k = Payer
      <3>1. Len(<<>>) = 0 /\ 1 .. 0 = {}
        OBVIOUS
      <3> QED BY <1>1, <3>1, SignerSetElements
    <2> QED BY <2>1
  <1>3. Cardinality({Payer}) = 1
    BY FS_Singleton
  <1>4. Cardinality(SignerSet(Payer, <<>>)) <= MaxSigners
    <2>1. Cardinality(SignerSet(Payer, <<>>)) = 1
      BY <1>2, <1>3, Zenon
    <2>2. 1 <= MaxSigners
      BY WidthAssumption
    <2> QED BY <2>1, <2>2
  <1> QED BY <1>1, <1>4 DEF Init, Built

LEMMA BuiltNext == Built /\ [Next]_vars => Built'
  <1> SUFFICES ASSUME Built, [Next]_vars PROVE Built'
    OBVIOUS
  <1>0. /\ tables \in TableSets /\ ixs \in Seq(Instruction)
        /\ Cardinality(SignerSet(Payer, ixs)) <= MaxSigners /\ compiled \in BOOLEAN
        /\ ~compiled => legacy = NoMessage /\ v0 = NoMessage
        /\ Len(ixs) \in Nat
    BY DEF Built
  <1>1. ASSUME NEW p \in Programs, AddInstruction(p) PROVE Built'
    <2> DEFINE x == [program |-> p, metas |-> <<>>]
    <2>1. x \in Instruction /\ x.metas = <<>>
      BY DEF Instruction
    <2>2. ixs' = Append(ixs, x) /\ ~compiled /\ UNCHANGED <<tables, compiled, legacy, v0>>
      BY <1>1 DEF AddInstruction
    <2> HIDE DEF x
    <2>3. /\ ixs' \in Seq(Instruction) /\ Len(ixs') = Len(ixs) + 1 /\ ixs'[Len(ixs) + 1] = x
          /\ \A j \in 1 .. Len(ixs) : ixs'[j] = ixs[j]
      BY <1>0, <2>1, <2>2
    <2>4. \A r : ~Occurs(r, x.metas)
      BY <2>1 DEF Occurs
    <2>5. ASSUME NEW k PROVE k \in SignerSet(Payer, ixs') <=> k \in SignerSet(Payer, ixs)
      <3>1. (\E j \in 1 .. Len(ixs') : \E r : Occurs(r, ixs'[j].metas) /\ r.signer /\ r.key = k)
            <=> \E j \in 1 .. Len(ixs) : \E r : Occurs(r, ixs[j].metas) /\ r.signer /\ r.key = k
        <4>1. \A j \in 1 .. Len(ixs) : j \in 1 .. Len(ixs')
          BY <1>0, <2>3
        <4>2. \A j \in 1 .. Len(ixs') : j \in 1 .. Len(ixs) \/ ixs'[j] = x
          BY <1>0, <2>3
        <4> QED BY <2>3, <2>4, <4>1, <4>2
      <3> QED BY <1>0, <2>3, <3>1, SignerSetElements
    <2>6. SignerSet(Payer, ixs') = SignerSet(Payer, ixs)
      BY <2>5
    <2> QED BY <1>0, <2>2, <2>3, <2>6 DEF Built
  <1>2. ASSUME NEW ref \in Ref, AddAccount(ref) PROVE Built'
    <2>1. /\ ixs' = [ixs EXCEPT ![Len(ixs)].metas = Append(@, ref)] /\ ixs # <<>>
          /\ Cardinality(SignerSet(Payer, ixs')) <= MaxSigners
          /\ ~compiled /\ UNCHANGED <<tables, compiled, legacy, v0>>
      BY <1>2 DEF AddAccount
    <2> DEFINE n == Len(ixs)
               x == ixs[n]
               y == [x EXCEPT !.metas = Append(@, ref)]
    <2>2. n \in 1 .. Len(ixs) /\ x \in Instruction
      BY <1>0, <2>1
    <2>3. y \in Instruction
      <3>1. x.metas \in Seq(Ref)
        BY <2>2 DEF Instruction
      <3>2. Append(x.metas, ref) \in Seq(Ref)
        BY <3>1
      <3> HIDE DEF x
      <3> QED BY <2>2, <3>2 DEF Instruction
    <2>4. ixs' = [ixs EXCEPT ![n] = y]
      BY <2>1
    <2> HIDE DEF n, y
    <2>5. ixs' \in Seq(Instruction)
      BY <1>0, <2>2, <2>3, <2>4
    <2> QED BY <1>0, <2>1, <2>5 DEF Built
  <1>3. CASE Compile
    BY <1>0, <1>3 DEF Compile, Built
  <1>4. CASE UNCHANGED vars
    BY <1>4 DEF Built, vars
  <1> QED BY <1>1, <1>2, <1>3, <1>4 DEF Next, Ref

THEOREM BuildersCalled == Spec => []Built
  <1>1. Init => Built
    BY BuiltInit
  <1>2. Built /\ [Next]_vars => Built'
    BY BuiltNext
  <1> QED BY <1>1, <1>2, PTL DEF Spec

StaticRefs(m) == <<PayerRef(Payer)>> \o IF m = legacy THEN References(ixs)
                                        ELSE StaticReferences(tables, Payer, ixs)

LEMMA MessagesCompiled ==
    ASSUME Built, NEW m, m \in Messages
    PROVE  \E W, R, Rt : Compiled(m, ixs, tables, StaticRefs(m), W, R, Rt)
  <1>1. m.ok /\ (m = legacy \/ m = v0)
    BY DEF Messages
  <1>2. compiled
    <2>1. ~NoMessage.ok
      BY DEF NoMessage
    <2> QED BY <1>1, <2>1 DEF Built
  <1>3. /\ legacy = NewMessage(Payer, ixs) /\ v0 = NewMessageV0(Payer, ixs, tables)
        /\ tables \in TableSets /\ ixs \in Seq(Instruction)
        /\ Cardinality(SignerSet(Payer, ixs)) <= MaxSigners
    BY <1>2 DEF Built
  <1>4. CASE m = legacy
    <2>1. m = NewMessage(Payer, ixs) /\ NewMessage(Payer, ixs).ok
      BY <1>1, <1>3, <1>4
    <2>2. Compiled(NewMessage(Payer, ixs), ixs, tables, <<PayerRef(Payer)>> \o References(ixs),
                   <<>>, <<>>, {})
      BY <1>3, <2>1, LegacyCompiled
    <2>3. StaticRefs(m) = <<PayerRef(Payer)>> \o References(ixs)
      BY <1>4 DEF StaticRefs
    <2>4. Compiled(m, ixs, tables, StaticRefs(m), <<>>, <<>>, {})
      BY <2>1, <2>2, <2>3
    <2> QED BY <2>4
  <1>5. CASE m # legacy
    <2>1. m = NewMessageV0(Payer, ixs, tables) /\ NewMessageV0(Payer, ixs, tables).ok
      BY <1>1, <1>3, <1>5
    <2>2. Compiled(NewMessageV0(Payer, ixs, tables), ixs, tables,
                   <<PayerRef(Payer)>> \o StaticReferences(tables, Payer, ixs),
                   Looked(tables, ixs, TRUE), Looked(tables, ixs, FALSE), RoutedKeys(tables, ixs))
      BY <1>3, <2>1, V0Compiled
    <2>3. StaticRefs(m) = <<PayerRef(Payer)>> \o StaticReferences(tables, Payer, ixs)
      BY <1>5 DEF StaticRefs
    <2>4. Compiled(m, ixs, tables, StaticRefs(m), Looked(tables, ixs, TRUE),
                   Looked(tables, ixs, FALSE), RoutedKeys(tables, ixs))
      BY <2>1, <2>2, <2>3
    <2> QED BY <2>4
  <1> QED BY <1>4, <1>5

\* What the runtime reads off a message, by the header alone or by the lookups.
LEMMA RuntimeRoles ==
    ASSUME NEW m, NEW i \in Nat, m.header.required \in 0 .. Len(m.header.keys),
           Len(m.header.keys) \in Nat
    PROVE  /\ RuntimeSigner(m, i) <=> StaticSigner(m.header, i)
           /\ RuntimeWritable(m, i) <=> GrantsWritable(m, tables, i)
           /\ i < Len(m.header.keys) => RuntimeWritable(m, i) = StaticWritable(m.header, i)
  <1>1. RuntimeSigner(m, i) <=> StaticSigner(m.header, i)
    BY DEF RuntimeSigner, StaticSigner
  <1>2. CASE i < Len(m.header.keys)
    BY <1>1, <1>2 DEF RuntimeWritable, StaticWritable, GrantsWritable
  <1>3. CASE ~(i < Len(m.header.keys))
    <2>1. ~(i < m.header.required)
      BY <1>3
    <2> QED BY <1>1, <1>3, <2>1 DEF RuntimeWritable, GrantsWritable
  <1> QED BY <1>2, <1>3

\* IndicesResolve, for every list of instructions and every list of tables: whichever
\* builder made a message, each of its uint8 indices leads through ResolvedAccountKeys back
\* to the account or the program its instruction named.
THEOREM EveryIndexResolves == Spec => []IndicesResolve
  <1>1. Built => IndicesResolve
    <2> SUFFICES ASSUME Built, NEW m \in Messages
                 PROVE  Agrees(m, ixs, ResolvedAccountKeys(m, tables))
      BY DEF IndicesResolve, Agrees
    <2>1. PICK W, R, Rt : Compiled(m, ixs, tables, StaticRefs(m), W, R, Rt)
      BY MessagesCompiled
    <2>2. ixs \in Seq(Instruction)
      BY DEF Built
    <2> QED BY <2>1, <2>2, ResolvesBack
  <1> QED BY <1>1, BuildersCalled, PTL

\* LoadedOnce, for every input: what NewMessageV0 routes to a table never stays among the
\* static keys as well, unless it is a program id.
THEOREM NoAccountTwice == Spec => []LoadedOnce
  <1>1. Built => LoadedOnce
    <2> SUFFICES ASSUME Built, NEW m \in Messages
                 PROVE  LET keys == ResolvedAccountKeys(m, tables)
                        IN  \A i, j \in DOMAIN keys :
                               keys[i] = keys[j] /\ i # j => keys[i] \in Programs
      BY DEF LoadedOnce
    <2>1. PICK W, R, Rt : Compiled(m, ixs, tables, StaticRefs(m), W, R, Rt)
      BY MessagesCompiled
    <2> QED BY <2>1, ResolvedOnce
  <1> QED BY <1>1, BuildersCalled, PTL

\* RolesGranted, for every input: the header counts of bucketAndOrder and the two lists of
\* each lookup grant every account exactly the roles the instructions asked for.
THEOREM RolesExact == Spec => []RolesGranted
  <1>1. Built => RolesGranted
    <2> SUFFICES ASSUME Built, NEW m \in Messages,
                        NEW i \in {0} \cup UNION {ToSet(m.ixs[j].accounts) : j \in DOMAIN m.ixs}
                 PROVE  LET keys == ResolvedAccountKeys(m, tables)
                        IN  /\ RuntimeSigner(m, i) <=> WantsSigner(keys[i + 1])
                            /\ RuntimeWritable(m, i) <=> WantsWritable(keys[i + 1])
      BY DEF RolesGranted
    <2>1. PICK W, R, Rt : Compiled(m, ixs, tables, StaticRefs(m), W, R, Rt)
      BY MessagesCompiled
    <2>2. ixs \in Seq(Instruction)
      BY DEF Built
    <2> DEFINE keys == ResolvedAccountKeys(m, tables)
    <2>3. keys \in Seq(Keys)
      BY <2>1, ResolvedParts DEF Laid
    <2>4. \A j \in 1 .. Len(ixs) : Indexed(m, ixs, keys, j)
      BY <2>1, <2>2, AllIndexed
    <2>5. DOMAIN m.ixs = 1 .. Len(ixs)
      <3>1. m.ixs = CompileInstructions(ixs, m.header.keys \o (W \o R))
        BY <2>1 DEF Compiled
      <3>2. DOMAIN ixs = 1 .. Len(ixs)
        BY <2>2
      <3> QED BY <3>1, <3>2 DEF CompileInstructions
    <2> HIDE DEF keys
    <2>6. i # 0 => \E j \in 1 .. Len(ixs) : \E a \in DOMAIN ixs[j].metas : i = m.ixs[j].accounts[a]
      <3> SUFFICES ASSUME i # 0
                   PROVE  \E j \in 1 .. Len(ixs) : \E a \in DOMAIN ixs[j].metas :
                             i = m.ixs[j].accounts[a]
        OBVIOUS
      <3>1. PICK j \in DOMAIN m.ixs : i \in ToSet(m.ixs[j].accounts)
        OBVIOUS
      <3>2. PICK a \in DOMAIN m.ixs[j].accounts : i = m.ixs[j].accounts[a]
        BY <3>1 DEF ToSet
      <3>3. j \in 1 .. Len(ixs) /\ DOMAIN m.ixs[j].accounts = DOMAIN ixs[j].metas
        BY <2>4, <2>5 DEF Indexed
      <3> QED BY <3>2, <3>3
    <2>7. i \in Nat
      <3>1. CASE i = 0
        BY <3>1
      <3>2. CASE i # 0
        <4>1. PICK j \in 1 .. Len(ixs) : \E a \in DOMAIN ixs[j].metas : i = m.ixs[j].accounts[a]
          BY <2>6, <3>2
        <4>2. PICK a \in DOMAIN ixs[j].metas : i = m.ixs[j].accounts[a]
          BY <4>1
        <4> DEFINE k == ixs[j].metas[a].key
        <4>3. Len(keys) <= MaxAccounts /\ Occurs(k, keys) /\ i = Uint8(KeyIndex(keys, k))
          BY <2>4, <4>2 DEF Indexed
        <4> HIDE DEF k
        <4>4. KeyIndex(keys, k) \in 0 .. Len(keys) - 1 /\ Uint8(KeyIndex(keys, k)) = KeyIndex(keys, k)
          BY <2>3, <4>3, KeyIndexFinds
        <4> QED BY <4>3, <4>4
      <3> QED BY <3>1, <3>2
    <2>8. /\ StaticSigner(m.header, i) <=> keys[i + 1] \in SignerSet(Payer, ixs)
          /\ GrantsWritable(m, tables, i) <=> Writes(ixs, keys[i + 1])
      BY <2>1, <2>2, <2>6, RolesUsed DEF keys
    <2>9. m.header.required \in 0 .. Len(m.header.keys) /\ Len(m.header.keys) \in Nat
      BY <2>1 DEF Compiled, HeaderOK
    <2>10. /\ RuntimeSigner(m, i) <=> StaticSigner(m.header, i)
           /\ RuntimeWritable(m, i) <=> GrantsWritable(m, tables, i)
      BY <2>7, <2>9, RuntimeRoles
    <2> QED BY <2>8, <2>10 DEF keys, WantsSigner, WantsWritable, Writes
  <1> QED BY <1>1, BuildersCalled, PTL

\* OrderedByRole, for every input: the payer comes first, then the four buckets, and within a
\* bucket the order is that of first appearance.
THEOREM AccountOrder == Spec => []OrderedByRole
  <1>1. Built => OrderedByRole
    <2> SUFFICES ASSUME Built, NEW m \in Messages
                 PROVE  LET keys == m.header.keys
                            bucket(i) == BucketOf([signer |-> RuntimeSigner(m, i - 1),
                                                   writable |-> RuntimeWritable(m, i - 1)])
                        IN  /\ keys[1] = Payer
                            /\ \A i, j \in DOMAIN keys : i < j =>
                                  \/ bucket(i) < bucket(j)
                                  \/ /\ bucket(i) = bucket(j)
                                     /\ FirstRef(StaticRefs(m), keys[i]) < FirstRef(StaticRefs(m), keys[j])
      BY DEF OrderedByRole, FirstRef, StaticRefs
    <2>1. PICK W, R, Rt : Compiled(m, ixs, tables, StaticRefs(m), W, R, Rt)
      BY MessagesCompiled
    <2> DEFINE H == m.header.keys
               bucket(i) == BucketOf([signer |-> RuntimeSigner(m, i - 1),
                                      writable |-> RuntimeWritable(m, i - 1)])
    <2>2. /\ H \in Seq(Keys) /\ H[1] = Payer
          /\ \A i, j \in 1 .. Len(H) : i < j =>
                \/ StaticBucket(m.header, i - 1) < StaticBucket(m.header, j - 1)
                \/ /\ StaticBucket(m.header, i - 1) = StaticBucket(m.header, j - 1)
                   /\ FirstRef(StaticRefs(m), H[i]) < FirstRef(StaticRefs(m), H[j])
      BY <2>1, OrderKept
    <2>3. m.header.required \in 0 .. Len(H)
      BY <2>1 DEF Compiled, HeaderOK
    <2>4. ASSUME NEW i \in 1 .. Len(H) PROVE bucket(i) = StaticBucket(m.header, i - 1)
      <3>1. i - 1 \in Nat /\ i - 1 < Len(H) /\ Len(H) \in Nat
        BY <2>2
      <3>2. /\ RuntimeSigner(m, i - 1) = StaticSigner(m.header, i - 1)
            /\ RuntimeWritable(m, i - 1) = StaticWritable(m.header, i - 1)
        BY <2>3, <3>1, RuntimeRoles DEF RuntimeSigner, StaticSigner
      <3> QED BY <3>2 DEF StaticBucket
    <2>5. DOMAIN H = 1 .. Len(H)
      BY <2>2
    <2> HIDE DEF bucket
    <2>6. H[1] = Payer /\ \A i, j \in DOMAIN H : i < j =>
             \/ bucket(i) < bucket(j)
             \/ bucket(i) = bucket(j) /\ FirstRef(StaticRefs(m), H[i]) < FirstRef(StaticRefs(m), H[j])
      BY <2>2, <2>4, <2>5
    <2> QED BY <2>6 DEF bucket
  <1> QED BY <1>1, BuildersCalled, PTL
================================================================================
