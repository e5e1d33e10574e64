------------------------------ MODULE TxFlowProofs ------------------------------
(***************************************************************************)
(* What TLAPS proves of TxFlow, for every width of the integers, every size of  *)
(* keys, hashes and signatures, every set of messages and any length of a run.  *)
(*                                                                         *)
(*   1. Forward.  A decoder that stands before the encoding of a value, in a   *)
(*      buffer cut off anywhere, reads that value and stands behind it, or     *)
(*      finds the input too short (lemmas ...Stands).  From bytes to integers,   *)
(*      sequences, instructions, messages, transactions and entries.           *)
(*   2. Sizes.  What SerializedSize adds up is the length of what is written.   *)
(*   3. Backward.  A decoder without an error has read the encoding of the      *)
(*      value it holds (lemmas ...Read).                                     *)
(*   4. The inductive invariants, one lemma per action, and the theorems.       *)
(*                                                                         *)
(* What a reader of a whole sequence does is a recursive function over the       *)
(* positions (Step, Steps); statements about all positions are proved by          *)
(* induction with a set as parameter (SequenceLemmas).                         *)
(***************************************************************************)
EXTENDS TxFlow, SequenceLemmas

LEMMA Sizes ==
    /\ Cont \in Nat /\ Cont >= 4 /\ ByteMod \in Nat /\ ByteMod >= 8
    /\ ByteMod = 2 * Cont /\ MaxU8 = 2 * Cont - 1 /\ MaxU8 \in Nat
    /\ KeySize \in Nat /\ HashSize \in Nat /\ SigSize \in Nat /\ U32Size \in Nat /\ U64Size \in Nat
    /\ KeySize >= 1 /\ HashSize >= 1 /\ SigSize >= 1 /\ U32Size >= 2 /\ U64Size >= 1
  BY SizesAssumption DEF ByteMod, MaxU8

--------------------------------------------------------------------------------
(***************************************************************************)
(* Reading from a buffer b that is cut off after n bytes.  e stands at k: its   *)
(* bytes are those of b after the first k.  A decoder that has read k bytes    *)
(* and then holds v stands at k, or has found the input too short.            *)
(***************************************************************************)
Here(b, k, e) == k + Len(e) <= Len(b) /\ \A i \in 1 .. Len(e) : b[k + i] = e[i]

State(b, n, k, v) == [err |-> "nil", rest |-> SubSeq(b, k + 1, n), val |-> v]
Stands(p, b, n, k, v) == IF k <= n THEN p = State(b, n, k, v) ELSE p.err = "short"

LEMMA RestFacts ==
    ASSUME NEW b \in Seq(Byte), NEW n \in 0 .. Len(b), NEW k \in 0 .. n
    PROVE  /\ SubSeq(b, k + 1, n) \in Seq(Byte)
           /\ Len(SubSeq(b, k + 1, n)) = n - k
           /\ \A i \in 1 .. n - k : SubSeq(b, k + 1, n)[i] = b[k + i]
  <1>1. \A i \in k + 1 .. n : b[i] \in Byte
    OBVIOUS
  <1>2. k + 1 \in Int /\ n \in Int
    OBVIOUS
  <1> QED BY <1>1, <1>2, SubSeqProperties

LEMMA SameSequence ==
    ASSUME NEW S, NEW s \in Seq(S), NEW t \in Seq(S), Len(s) = Len(t),
           \A i \in 1 .. Len(s) : s[i] = t[i]
    PROVE  s = t
  OBVIOUS

LEMMA RestOfRest ==
    ASSUME NEW b \in Seq(Byte), NEW n \in 0 .. Len(b), NEW k \in 0 .. n, NEW c \in 0 .. n - k,
           NEW r, r = SubSeq(b, k + 1, n)
    PROVE  SubSeq(r, c + 1, Len(r)) = SubSeq(b, k + c + 1, n)
  <1>1. r \in Seq(Byte) /\ Len(r) = n - k /\ \A i \in 1 .. n - k : r[i] = b[k + i]
    BY RestFacts
  <1>2. c + 1 \in Int /\ n - k \in Int /\ \A i \in c + 1 .. n - k : r[i] \in Byte
    BY <1>1
  <1>3. /\ SubSeq(r, c + 1, n - k) \in Seq(Byte)
        /\ Len(SubSeq(r, c + 1, n - k)) = n - k - c
        /\ \A i \in 1 .. n - k - c : SubSeq(r, c + 1, n - k)[i] = r[c + i]
    <2> DEFINE m == c + 1
               s == SubSeq(r, m, n - k)
    <2>1. /\ s \in Seq(Byte) /\ Len(s) = IF m <= n - k THEN n - k - m + 1 ELSE 0
          /\ \A i \in 1 .. n - k - m + 1 : s[i] = r[m + i - 1]
      <3> HIDE DEF m
      <3> QED BY <1>2, SubSeqProperties DEF m
    <2> HIDE DEF s
    <2>2. \A i \in 1 .. n - k - c : i \in 1 .. n - k - m + 1 /\ m + i - 1 = c + i
      OBVIOUS
    <2>3. Len(s) = n - k - c
      BY <2>1
    <2> QED BY <2>1, <2>2, <2>3 DEF s
  <1>4. /\ k + c \in 0 .. n
        /\ SubSeq(b, k + c + 1, n) \in Seq(Byte) /\ Len(SubSeq(b, k + c + 1, n)) = n - (k + c)
        /\ \A i \in 1 .. n - (k + c) : SubSeq(b, k + c + 1, n)[i] = b[k + c + i]
    <2> k + c \in 0 .. n
      OBVIOUS
    <2> QED BY RestFacts
  <1>5. ASSUME NEW i \in 1 .. n - k - c
        PROVE  SubSeq(r, c + 1, n - k)[i] = SubSeq(b, k + c + 1, n)[i]
    <2> c + i \in 1 .. n - k /\ k + (c + i) = k + c + i /\ i \in 1 .. n - (k + c)
      BY <1>5
    <2> QED BY <1>1, <1>3, <1>4
  <1>6. n - k - c = n - (k + c)
    OBVIOUS
  <1> QED BY <1>1, <1>3, <1>4, <1>5, <1>6, SameSequence

LEMMA HereInRest ==
    ASSUME NEW b \in Seq(Byte), NEW n \in 0 .. Len(b), NEW k \in 0 .. n,
           NEW e \in Seq(Byte), Here(b, k, e), k + Len(e) <= n
    PROVE  SubSeq(SubSeq(b, k + 1, n), 1, Len(e)) = e
  <1> DEFINE r == SubSeq(b, k + 1, n)
  <1>1. r \in Seq(Byte) /\ Len(r) = n - k /\ \A i \in 1 .. n - k : r[i] = b[k + i]
    BY RestFacts
  <1> HIDE DEF r
  <1>2. Len(e) \in Int /\ 1 \in Int /\ Len(e) \in Nat /\ \A i \in 1 .. Len(e) : r[i] \in Byte
    BY <1>1
  <1>3. /\ SubSeq(r, 1, Len(e)) \in Seq(Byte) /\ Len(SubSeq(r, 1, Len(e))) = Len(e)
        /\ \A i \in 1 .. Len(e) : SubSeq(r, 1, Len(e))[i] = r[i]
    BY <1>2, SubSeqProperties
  <1>4. \A i \in 1 .. Len(e) : r[i] = e[i]
    BY <1>1, <1>2 DEF Here
  <1>5. SubSeq(r, 1, Len(e)) = e
    BY <1>3, <1>4, SameSequence
  <1> QED BY <1>5 DEF r

LEMMA HereConcat ==
    ASSUME NEW b \in Seq(Byte), NEW k \in Nat, NEW d \in Seq(Byte), NEW e \in Seq(Byte),
           Here(b, k, d \o e)
    PROVE  Here(b, k, d) /\ Here(b, k + Len(d), e) /\ Len(d \o e) = Len(d) + Len(e)
           /\ d \o e \in Seq(Byte)
  <1>1. /\ d \o e \in Seq(Byte) /\ Len(d \o e) = Len(d) + Len(e) /\ Len(d) \in Nat /\ Len(e) \in Nat
        /\ \A i \in 1 .. Len(d) : (d \o e)[i] = d[i]
        /\ \A i \in 1 .. Len(e) : (d \o e)[Len(d) + i] = e[i]
    BY OccursConcat
  <1>2. Here(b, k, d)
    BY <1>1 DEF Here
  <1>3. \A i \in 1 .. Len(e) : b[k + Len(d) + i] = e[i]
    <2> TAKE i \in 1 .. Len(e)
    <2> Len(d) + i \in 1 .. Len(d \o e) /\ k + (Len(d) + i) = k + Len(d) + i
      BY <1>1
    <2> QED BY <1>1 DEF Here
  <1>4. k + Len(d) + Len(e) <= Len(b)
    BY <1>1 DEF Here
  <1> QED BY <1>1, <1>2, <1>3, <1>4 DEF Here

\* The operations of the decoder, on such a state.
LEMMA ReadBytesStands ==
    ASSUME NEW b \in Seq(Byte), NEW n \in 0 .. Len(b), NEW k \in Nat, NEW v, NEW p,
           Stands(p, b, n, k, v), NEW e \in Seq(Byte), Here(b, k, e)
    PROVE  Stands(ReadBytes(p, Len(e)), b, n, k + Len(e), e)
  <1>0. Len(e) \in Nat /\ n \in Nat
    OBVIOUS
  <1>1. CASE k > n
    <2>1. p.err = "short"
      BY <1>0, <1>1 DEF Stands
    <2>2. ReadBytes(p, Len(e)) = p
      BY <2>1 DEF ReadBytes
    <2>3. ~(k + Len(e) <= n)
      BY <1>0, <1>1
    <2> QED BY <2>1, <2>2, <2>3 DEF Stands
  <1>2. CASE k <= n
    <2> DEFINE r == SubSeq(b, k + 1, n)
    <2>1. p = [err |-> "nil", rest |-> r, val |-> v]
      BY <1>2 DEF Stands, State
    <2>2. Len(r) = n - k /\ k \in 0 .. n
      BY <1>2, RestFacts
    <2> HIDE DEF r
    <2>3. CASE n - k < Len(e)
      <3>1. ReadBytes(p, Len(e)) = [p EXCEPT !.err = "short"]
        BY <2>1, <2>2, <2>3 DEF ReadBytes, Fail
      <3>2. ReadBytes(p, Len(e)).err = "short"
        BY <2>1, <3>1
      <3>3. ~(k + Len(e) <= n)
        BY <1>0, <2>3
      <3> QED BY <3>2, <3>3 DEF Stands
    <2>4. CASE ~(n - k < Len(e))
      <3>1. ReadBytes(p, Len(e)) =
              [p EXCEPT !.rest = SubSeq(@, Len(e) + 1, Len(@)), !.val = SubSeq(r, 1, Len(e))]
        BY <2>1, <2>2, <2>4 DEF ReadBytes, Take
      <3>2. k + Len(e) <= n /\ Len(e) \in 0 .. n - k
        BY <1>0, <2>4
      <3>3. SubSeq(r, 1, Len(e)) = e
        BY <2>2, <3>2, HereInRest DEF r
      <3>4. SubSeq(r, Len(e) + 1, Len(r)) = SubSeq(b, k + Len(e) + 1, n)
        BY <2>2, <3>2, RestOfRest DEF r
      <3>5. ReadBytes(p, Len(e)) = [err |-> "nil", rest |-> SubSeq(b, k + Len(e) + 1, n), val |-> e]
        BY <2>1, <3>1, <3>3, <3>4
      <3> QED BY <3>2, <3>5 DEF Stands, State
    <2> QED BY <2>3, <2>4
  <1> QED BY <1>0, <1>1, <1>2

LEMMA ValueStands ==
    ASSUME NEW b, NEW n, NEW k, NEW v, NEW p, Stands(p, b, n, k, v), NEW w
    PROVE  Stands(Value(p, w), b, n, k, w)
  <1>1. CASE k <= n
    <2>1. PICK r : p = [err |-> "nil", rest |-> r, val |-> v] /\ r = SubSeq(b, k + 1, n)
      BY <1>1 DEF Stands, State
    <2>2. Value(p, w) = [err |-> "nil", rest |-> r, val |-> w]
      BY <2>1 DEF Value
    <2> QED BY <1>1, <2>1, <2>2 DEF Stands, State
  <1>2. CASE ~(k <= n)
    BY <1>2 DEF Stands, Value
  <1> QED BY <1>1, <1>2

\* A field of a struct is read: the struct stood at j, what was read stands at k.
LEMMA FieldStands ==
    ASSUME NEW b, NEW n \in Nat, NEW j \in Nat, NEW k \in Nat, j <= k, NEW v, NEW p,
           Stands(p, b, n, j, v), NEW q, NEW x, Stands(q, b, n, k, x), NEW f
    PROVE  Stands(Field(p, f, q), b, n, k, [v EXCEPT ![f] = x])
  <1>1. CASE k <= n
    <2>1. p.val = v /\ q.val = x /\ q.err = "nil"
      BY <1>1 DEF Stands, State
    <2>2. Field(p, f, q) = Value(q, [v EXCEPT ![f] = x])
      BY <2>1 DEF Field
    <2> QED BY <2>2, ValueStands
  <1>2. CASE ~(k <= n)
    BY <1>2 DEF Stands, Field, Value
  <1> QED BY <1>1, <1>2

\* An item is added to the sequence of those read so far.
LEMMA PushStands ==
    ASSUME NEW b, NEW n \in Nat, NEW j \in Nat, NEW k \in Nat, j <= k, NEW v, NEW p,
           Stands(p, b, n, j, v), NEW q, NEW x, Stands(q, b, n, k, x)
    PROVE  Stands(Push(p, q), b, n, k, Append(v, x))
  <1>1. CASE k <= n
    <2>1. p.val = v /\ q.val = x /\ q.err = "nil"
      BY <1>1 DEF Stands, State
    <2>2. Push(p, q) = Value(q, Append(v, x))
      BY <2>1 DEF Push
    <2> QED BY <2>2, ValueStands
  <1>2. CASE ~(k <= n)
    BY <1>2 DEF Stands, Push, Value
  <1> QED BY <1>1, <1>2

--------------------------------------------------------------------------------
(***************************************************************************)
(* The recursive functions of Wire.  Which one is the parameter kind of Step,  *)
(* so that their existence is proved once.                                   *)
(***************************************************************************)
Step(kind, a, x, i) ==
    CASE kind = "shift"  -> x \div ByteMod
      [] kind = "little" -> a[Len(a) + 1 - i] + ByteMod * x
      [] kind = "sum"    -> x + a[i]
      [] kind = "key"    -> Push(x, ReadKey(x, i))
      [] kind = "sig"    -> Push(x, ReadSig(x, i))
      [] kind = "u8"     -> Push(x, ReadU8(x, i))
      [] kind = "ix"     -> Push(x, DecodeInstruction(x, i))
      [] kind = "lookup" -> Push(x, DecodeLookup(x, i))
      [] kind = "option" -> Push(x, ReadOption(a, x, i))
      [] kind = "head"   -> Push(x, ReadHead(x, i))
      [] kind = "body"   -> Push(x, ReadBody(a[i], x))
      [] kind = "tx"     -> Push(x, DecodeTransaction(x))
      [] kind = "entry"  -> Push(x, DecodeEntry(x, i))

Steps(f, kind, a, s, c) == f = [i \in 0 .. c |-> IF i = 0 THEN s ELSE Step(kind, a, f[i - 1], i)]

LEMMA StepsExist ==
    ASSUME NEW kind, NEW a, NEW s, NEW c \in Nat
    PROVE  \E f : Steps(f, kind, a, s, c)
  <1> DEFINE S == {m \in Nat : \E f : Steps(f, kind, a, s, m)}
  <1>1. 0 \in S
    <2>1. Steps([i \in 0 .. 0 |-> s], kind, a, s, 0)
      BY DEF Steps
    <2> QED BY <2>1
  <1>2. ASSUME NEW m \in Nat, m \in S PROVE m + 1 \in S
    <2>1. PICK f : f = [i \in 0 .. m |-> IF i = 0 THEN s ELSE Step(kind, a, f[i - 1], i)]
      BY <1>2 DEF Steps
    <2> DEFINE g == [i \in 0 .. m + 1 |-> IF i <= m THEN f[i] ELSE Step(kind, a, f[m], m + 1)]
    <2>2. ASSUME NEW i \in 0 .. m + 1
          PROVE  g[i] = IF i = 0 THEN s ELSE Step(kind, a, g[i - 1], i)
      <3>1. CASE i = 0
        BY <2>1, <3>1
      <3>2. CASE i # 0 /\ i <= m
        <4>1. i \in 0 .. m /\ i - 1 \in 0 .. m /\ i - 1 <= m /\ i - 1 \in 0 .. m + 1
          BY <3>2
        <4>2. g[i] = f[i] /\ g[i - 1] = f[i - 1]
          BY <4>1
        <4>3. f[i] = Step(kind, a, f[i - 1], i)
          BY <2>1, <3>2, <4>1
        <4> HIDE DEF g
        <4> QED BY <3>2, <4>2, <4>3
      <3>3. CASE i = m + 1
        <4>1. g[i] = Step(kind, a, f[m], m + 1) /\ g[i - 1] = f[m]
          BY <3>3
        <4> HIDE DEF g
        <4> QED BY <3>3, <4>1
      <3> QED BY <3>1, <3>2, <3>3
    <2>3. Steps(g, kind, a, s, m + 1)
      <3>1. g = [i \in 0 .. m + 1 |-> g[i]]
        OBVIOUS
      <3> HIDE DEF g
      <3> QED BY <2>2, <3>1 DEF Steps
    <2> QED BY <2>3
  <1>3. Nat \subseteq S
    <2> HIDE DEF S
    <2> QED BY <1>1, <1>2, Induct
  <1> QED BY <1>3

\* Each of them is what its definition says.
LEMMA ShiftedUnfold ==
    ASSUME NEW v, NEW n \in Nat
    PROVE  \E q : /\ q[0] = v /\ Shifted(v, n) = q[n]
                  /\ \A i \in 1 .. n : q[i] = q[i - 1] \div ByteMod
  <1> DEFINE E(f) == f = [i \in 0 .. n |-> IF i = 0 THEN v ELSE f[i - 1] \div ByteMod]
             q == CHOOSE f : E(f)
  <1>1. Shifted(v, n) = q[n]
    BY DEF Shifted
  <1>2. PICK f : Steps(f, "shift", 0, v, n)
    BY StepsExist
  <1>3. \A x, i : Step("shift", 0, x, i) = x \div ByteMod
    BY DEF Step
  <1>4. E(f)
    BY <1>2, <1>3 DEF Steps
  <1>5. E(q)
    BY <1>4
  <1> HIDE DEF q
  <1>6. q[0] = v
    BY <1>5
  <1>7. \A i \in 1 .. n : q[i] = q[i - 1] \div ByteMod
    BY <1>5
  <1> QED BY <1>1, <1>6, <1>7

LEMMA ShiftedZero == ASSUME NEW v PROVE Shifted(v, 0) = v
  BY ShiftedUnfold, 0 \in Nat

LEMMA ShiftedNext ==
    ASSUME NEW v, NEW n \in Nat
    PROVE  Shifted(v, n + 1) = Shifted(v, n) \div ByteMod
  <1>1. PICK q : /\ q[0] = v /\ Shifted(v, n) = q[n]
                 /\ \A i \in 1 .. n : q[i] = q[i - 1] \div ByteMod
    BY ShiftedUnfold
  <1>2. PICK r : /\ r[0] = v /\ Shifted(v, n + 1) = r[n + 1]
                 /\ \A i \in 1 .. n + 1 : r[i] = r[i - 1] \div ByteMod
    BY ShiftedUnfold, n + 1 \in Nat
  <1> DEFINE S == {i \in Nat : i <= n => q[i] = r[i]}
  <1>3. 0 \in S
    BY <1>1, <1>2
  <1>4. ASSUME NEW i \in Nat, i \in S PROVE i + 1 \in S
    <2> SUFFICES ASSUME i + 1 <= n PROVE q[i + 1] = r[i + 1]
      OBVIOUS
    <2>1. i + 1 \in 1 .. n /\ i + 1 \in 1 .. n + 1 /\ i + 1 - 1 = i /\ i <= n
      OBVIOUS
    <2>2. q[i + 1] = q[i] \div ByteMod /\ r[i + 1] = r[i] \div ByteMod
      BY <1>1, <1>2, <2>1
    <2> QED BY <1>4, <2>1, <2>2
  <1>5. Nat \subseteq S
    <2> HIDE DEF S
    <2> QED BY <1>3, <1>4, Induct
  <1>6. q[n] = r[n]
    BY <1>5
  <1>7. n + 1 \in 1 .. n + 1 /\ n + 1 - 1 = n
    OBVIOUS
  <1> QED BY <1>1, <1>2, <1>6, <1>7

LEMMA LittleEndianUnfold ==
    ASSUME NEW s, Len(s) \in Nat
    PROVE  \E q : /\ q[0] = 0 /\ LittleEndian(s) = q[Len(s)]
                  /\ \A i \in 1 .. Len(s) : q[i] = s[Len(s) + 1 - i] + ByteMod * q[i - 1]
  <1> DEFINE n == Len(s)
             E(f) == f = [i \in 0 .. n |->
                            IF i = 0 THEN 0 ELSE s[n + 1 - i] + ByteMod * f[i - 1]]
             q == CHOOSE f : E(f)
  <1>1. LittleEndian(s) = q[n]
    BY DEF LittleEndian
  <1>2. PICK f : Steps(f, "little", s, 0, n)
    BY StepsExist
  <1>3. \A x, i : Step("little", s, x, i) = s[n + 1 - i] + ByteMod * x
    BY DEF Step
  <1>4. E(f)
    BY <1>2, <1>3 DEF Steps
  <1>5. E(q)
    BY <1>4
  <1> HIDE DEF q
  <1>6. q[0] = 0
    BY <1>5
  <1>7. \A i \in 1 .. n : q[i] = s[n + 1 - i] + ByteMod * q[i - 1]
    BY <1>5
  <1> QED BY <1>1, <1>6, <1>7

LEMMA SumOfUnfold ==
    ASSUME NEW s, Len(s) \in Nat
    PROVE  \E q : /\ q[0] = 0 /\ SumOf(s) = q[Len(s)]
                  /\ \A i \in 1 .. Len(s) : q[i] = q[i - 1] + s[i]
  <1> DEFINE n == Len(s)
             E(f) == f = [i \in 0 .. n |-> IF i = 0 THEN 0 ELSE f[i - 1] + s[i]]
             q == CHOOSE f : E(f)
  <1>1. SumOf(s) = q[n]
    BY DEF SumOf
  <1>2. PICK f : Steps(f, "sum", s, 0, n)
    BY StepsExist
  <1>3. \A x, i : Step("sum", s, x, i) = x + s[i]
    BY DEF Step
  <1>4. E(f)
    BY <1>2, <1>3 DEF Steps
  <1>5. E(q)
    BY <1>4
  <1> HIDE DEF q
  <1>6. q[0] = 0
    BY <1>5
  <1>7. \A i \in 1 .. n : q[i] = q[i - 1] + s[i]
    BY <1>5
  <1> QED BY <1>1, <1>6, <1>7

--------------------------------------------------------------------------------
(***************************************************************************)
(* Integers: little-endian, and in groups of seven bits.                     *)
(***************************************************************************)
LEMMA DivMod ==
    ASSUME NEW v \in Nat, NEW m \in Nat, m >= 1
    PROVE  /\ v \div m \in Nat /\ v % m \in 0 .. m - 1
           /\ (v % m) + m * (v \div m) = v
  OBVIOUS

LEMMA SmallDivMod ==
    ASSUME NEW v \in Nat, NEW m \in Nat, v < m
    PROVE  v \div m = 0 /\ v % m = v
  OBVIOUS

LEMMA ByteDivMod ==
    ASSUME NEW v \in Nat
    PROVE  /\ v \div ByteMod \in Nat /\ v % ByteMod \in Byte /\ v % ByteMod \in Nat
           /\ (v % ByteMod) + ByteMod * (v \div ByteMod) = v
  <1>1. ByteMod \in Nat /\ ByteMod >= 1
    BY Sizes
  <1>2. /\ v \div ByteMod \in Nat /\ v % ByteMod \in 0 .. ByteMod - 1
        /\ (v % ByteMod) + ByteMod * (v \div ByteMod) = v
    BY <1>1, DivMod
  <1>3. Byte = 0 .. ByteMod - 1
    BY DEF Byte, MaxU8
  <1> QED BY <1>1, <1>2, <1>3

LEMMA ShiftedNat ==
    ASSUME NEW v \in Nat
    PROVE  \A n \in Nat : Shifted(v, n) \in Nat
  <1> DEFINE S == {n \in Nat : Shifted(v, n) \in Nat}
  <1>1. 0 \in S
    BY ShiftedZero
  <1>2. ASSUME NEW n \in Nat, n \in S PROVE n + 1 \in S
    <2>1. Shifted(v, n + 1) = Shifted(v, n) \div ByteMod
      BY ShiftedNext
    <2>2. Shifted(v, n) \div ByteMod \in Nat
      BY <1>2, ByteDivMod
    <2> QED BY <2>1, <2>2
  <1>3. Nat \subseteq S
    <2> HIDE DEF S
    <2> QED BY <1>1, <1>2, Induct
  <1> QED BY <1>3

LEMMA WriteUintBytes ==
    ASSUME NEW v \in Nat, NEW n \in Nat
    PROVE  /\ WriteUint(v, n) \in Seq(Byte) /\ Len(WriteUint(v, n)) = n
           /\ \A i \in 1 .. n : WriteUint(v, n)[i] = Shifted(v, i - 1) % ByteMod
  <1>1. ASSUME NEW i \in 1 .. n PROVE Shifted(v, i - 1) % ByteMod \in Byte
    <2>1. Shifted(v, i - 1) \in Nat
      BY ShiftedNat, i - 1 \in Nat
    <2> QED BY <2>1, ByteDivMod
  <1> QED BY <1>1 DEF WriteUint

\* v fits n bytes: nothing is left when they are shifted out.
LEMMA LittleEndianInverts ==
    ASSUME NEW v \in Nat, NEW n \in Nat, Shifted(v, n) = 0
    PROVE  LittleEndian(WriteUint(v, n)) = v
  <1> DEFINE w == WriteUint(v, n)
  <1>1. w \in Seq(Byte) /\ Len(w) = n /\ \A i \in 1 .. n : w[i] = Shifted(v, i - 1) % ByteMod
    BY WriteUintBytes
  <1> HIDE DEF w
  <1>2. PICK q : /\ q[0] = 0 /\ LittleEndian(w) = q[n]
                 /\ \A i \in 1 .. n : q[i] = w[n + 1 - i] + ByteMod * q[i - 1]
    <2>1. Len(w) \in Nat
      BY <1>1
    <2>2. \E q : /\ q[0] = 0 /\ LittleEndian(w) = q[Len(w)]
                 /\ \A i \in 1 .. Len(w) : q[i] = w[Len(w) + 1 - i] + ByteMod * q[i - 1]
      BY <2>1, LittleEndianUnfold
    <2> QED BY <1>1, <2>2
  <1> DEFINE S == {i \in Nat : i <= n => q[i] = Shifted(v, n - i)}
  <1>3. 0 \in S
    <2> n - 0 = n
      OBVIOUS
    <2> QED BY <1>2
  <1>4. ASSUME NEW i \in Nat, i \in S PROVE i + 1 \in S
    <2> SUFFICES ASSUME i + 1 <= n PROVE q[i + 1] = Shifted(v, n - (i + 1))
      OBVIOUS
    <2> DEFINE m == n - (i + 1)
    <2>1. /\ m \in Nat /\ n - i = m + 1 /\ i + 1 \in 1 .. n /\ i + 1 - 1 = i
          /\ n + 1 - (i + 1) = m + 1 /\ m + 1 \in 1 .. n /\ m + 1 - 1 = m
      OBVIOUS
    <2> HIDE DEF m
    <2>2. q[i + 1] = w[m + 1] + ByteMod * q[i]
      BY <1>2, <2>1
    <2>3. w[m + 1] = Shifted(v, m) % ByteMod
      BY <1>1, <2>1
    <2>4. q[i] = Shifted(v, m) \div ByteMod
      BY <1>4, <2>1, ShiftedNext
    <2>5. Shifted(v, m) \in Nat
      BY <2>1, ShiftedNat
    <2>6. (Shifted(v, m) % ByteMod) + ByteMod * (Shifted(v, m) \div ByteMod) = Shifted(v, m)
      BY <2>5, ByteDivMod
    <2>7. q[i + 1] = Shifted(v, m)
      BY <2>2, <2>3, <2>4, <2>6
    <2> QED BY <2>7 DEF m
  <1>5. Nat \subseteq S
    <2> HIDE DEF S
    <2> QED BY <1>3, <1>4, Induct
  <1>6. q[n] = Shifted(v, 0)
    <2> n - n = 0
      OBVIOUS
    <2> QED BY <1>5
  <1> QED BY <1>2, <1>6, ShiftedZero DEF w

\* What fits a byte, or two.
LEMMA FitsByte ==
    ASSUME NEW v \in Byte
    PROVE  /\ Shifted(v, 1) = 0 /\ WriteUint(v, 1) = <<v>>
           /\ \A n \in Nat \ {0} : Shifted(v, n) = 0
  <1>0. v \in Nat /\ v < ByteMod
    BY Sizes DEF Byte
  <1>1. v \div ByteMod = 0 /\ v % ByteMod = v
    <2> ByteMod \in Nat
      BY Sizes
    <2> QED BY <1>0, SmallDivMod
  <1>2. Shifted(v, 0 + 1) = Shifted(v, 0) \div ByteMod
    BY ShiftedNext, 0 \in Nat
  <1>3. Shifted(v, 0) = v
    BY ShiftedZero
  <1>4. Shifted(v, 1) = 0
    BY <1>1, <1>2, <1>3
  <1>5. WriteUint(v, 1) = <<v>>
    <2>1. Len(WriteUint(v, 1)) = 1 /\ WriteUint(v, 1) \in Seq(Byte) /\ WriteUint(v, 1)[1] = v
      <3>1. 1 \in 1 .. 1 /\ 1 - 1 = 0 /\ 1 \in Nat
        OBVIOUS
      <3>2. /\ WriteUint(v, 1) \in Seq(Byte) /\ Len(WriteUint(v, 1)) = 1
            /\ \A i \in 1 .. 1 : WriteUint(v, 1)[i] = Shifted(v, i - 1) % ByteMod
        BY <1>0, <3>1, WriteUintBytes
      <3> QED BY <1>1, <1>3, <3>1, <3>2
    <2> QED BY <2>1
  <1>6. \A n \in Nat \ {0} : Shifted(v, n) = 0
    <2> DEFINE S == {n \in Nat : Shifted(v, n + 1) = 0}
    <2>1. 0 \in S
      BY <1>4
    <2>2. ASSUME NEW n \in Nat, n \in S PROVE n + 1 \in S
      <3>1. Shifted(v, n + 1 + 1) = Shifted(v, n + 1) \div ByteMod
        BY ShiftedNext, n + 1 \in Nat
      <3>2. 0 \div ByteMod = 0
        BY Sizes
      <3> QED BY <2>2, <3>1, <3>2
    <2>3. Nat \subseteq S
      <3> HIDE DEF S
      <3> QED BY <2>1, <2>2, Induct
    <2> TAKE n \in Nat \ {0}
    <2> n - 1 \in Nat /\ n - 1 + 1 = n
      OBVIOUS
    <2> QED BY <2>3
  <1> QED BY <1>4, <1>5, <1>6

LEMMA FitsU16 ==
    ASSUME NEW v \in 0 .. MaxU16
    PROVE  v \in Nat /\ Shifted(v, 2) = 0
  <1>0. v \in Nat /\ v < ByteMod * ByteMod
    BY Sizes DEF MaxU16
  <1> DEFINE d == v \div ByteMod
  <1>1. d \in Nat /\ v % ByteMod \in Nat /\ (v % ByteMod) + ByteMod * d = v
    BY <1>0, ByteDivMod
  <1> HIDE DEF d
  <1>2. d < ByteMod
    <2> SUFFICES ASSUME d >= ByteMod PROVE FALSE
      BY <1>1, Sizes
    <2>1. ByteMod * d >= ByteMod * ByteMod
      BY <1>1, Sizes
    <2> QED BY <1>0, <1>1, <2>1, Sizes
  <1>3. d \in Byte
    BY <1>1, <1>2, Sizes DEF Byte
  <1>4. d \div ByteMod = 0
    <2> ByteMod \in Nat
      BY Sizes
    <2> QED BY <1>1, <1>2, SmallDivMod
  <1>5. Shifted(v, 0 + 1) = Shifted(v, 0) \div ByteMod /\ Shifted(v, 1 + 1) = Shifted(v, 1) \div ByteMod
    BY ShiftedNext, 0 \in Nat, 1 \in Nat
  <1> QED BY <1>0, <1>4, <1>5, ShiftedZero DEF d

LEMMA DivUnique ==
    ASSUME NEW m \in Nat, NEW q \in Nat, NEW r \in 0 .. m - 1
    PROVE  (m * q + r) \div m = q /\ (m * q + r) % m = r
  <1> DEFINE v == m * q + r
  <1>0. m * q \in Nat /\ v \in Nat /\ m >= 1
    OBVIOUS
  <1> DEFINE d == v \div m
             s == v % m
  <1>1. d \in Nat /\ s \in 0 .. m - 1 /\ s + m * d = m * q + r
    BY <1>0, DivMod
  <1> HIDE DEF d, s, v
  <1>2. d = q
    <2>1. CASE d < q
      <3>1. m * (q - d) >= m
        BY <1>0, <1>1, <2>1
      <3>2. m * (q - d) = m * q - m * d
        BY <1>1
      <3> QED BY <1>0, <1>1, <3>1, <3>2
    <2>2. CASE d > q
      <3>1. m * (d - q) >= m
        BY <1>0, <1>1, <2>2
      <3>2. m * (d - q) = m * d - m * q
        BY <1>1
      <3> QED BY <1>0, <1>1, <3>1, <3>2
    <2> QED BY <1>1, <2>1, <2>2
  <1>3. s = r
    BY <1>0, <1>1, <1>2
  <1> QED BY <1>2, <1>3 DEF d, s, v

\* The groups of a shortvec.
LEMMA Groups ==
    ASSUME NEW v \in 0 .. MaxU16
    PROVE  /\ Low(v) \in 0 .. Cont - 1 /\ Low(v) + Cont \in Byte /\ Low(Low(v) + Cont) = Low(v)
           /\ v \div Cont \in Nat /\ v = Low(v) + Cont * (v \div Cont)
           /\ v >= Cont => v \div Cont >= 1
           /\ v < Cont * Cont => v \div Cont < Cont
           /\ Low(v \div Cont) \in 0 .. Cont - 1 /\ Low(v \div Cont) + Cont \in Byte
           /\ Low(Low(v \div Cont) + Cont) = Low(v \div Cont)
           /\ v >= Cont * Cont => v \div (Cont * Cont) \in 1 .. 3
           /\ v = Low(v) + Cont * Low(v \div Cont) + Cont * Cont * (v \div (Cont * Cont))
  <1>0. /\ Cont \in Nat /\ Cont >= 4 /\ v \in Nat /\ v < 4 * (Cont * Cont) /\ Cont * Cont \in Nat
        /\ Cont * Cont >= 1 /\ Byte = 0 .. 2 * Cont - 1
    <2>1. MaxU16 = 4 * (Cont * Cont) - 1
      BY Sizes DEF MaxU16, ByteMod
    <2>2. Cont * Cont >= 1 /\ Cont * Cont \in Nat
      BY Sizes
    <2> QED BY <2>1, <2>2, Sizes DEF Byte
  <1>1. ASSUME NEW x \in 0 .. Cont - 1 PROVE x + Cont \in Byte /\ Low(x + Cont) = x
    <2>1. (Cont * 1 + x) % Cont = x
      BY <1>0, DivUnique
    <2>2. Cont * 1 + x = x + Cont
      BY <1>0
    <2> QED BY <1>0, <2>1, <2>2 DEF Low
  <1> DEFINE d == v \div Cont
             l == v % Cont
             h == d \div Cont
             g == d % Cont
  <1>2. d \in Nat /\ l \in 0 .. Cont - 1 /\ l + Cont * d = v
    <2> Cont \in Nat /\ Cont >= 1 /\ v \in Nat
      BY <1>0
    <2> QED BY DivMod
  <1> HIDE DEF d, l
  <1>3. h \in Nat /\ g \in 0 .. Cont - 1 /\ g + Cont * h = d
    <2> Cont \in Nat /\ Cont >= 1 /\ d \in Nat
      BY <1>0, <1>2
    <2> QED BY DivMod
  <1> HIDE DEF h, g
  <1>4. v >= Cont => d >= 1
    BY <1>0, <1>2
  <1>5. v < Cont * Cont => d < Cont
    <2> SUFFICES ASSUME d >= Cont PROVE v >= Cont * Cont
      BY <1>0, <1>2
    <2>1. Cont * d >= Cont * Cont
      BY <1>0, <1>2
    <2> QED BY <1>0, <1>2, <2>1
  <1>6. v = l + Cont * g + Cont * Cont * h
    <2>1. Cont * d = Cont * g + Cont * (Cont * h)
      BY <1>0, <1>2, <1>3
    <2>2. Cont * (Cont * h) = Cont * Cont * h
      BY <1>0, <1>3
    <2>3. Cont * g \in Nat /\ Cont * Cont * h \in Nat
      BY <1>0, <1>3
    <2> QED BY <1>2, <2>1, <2>2, <2>3
  <1>7. v \div (Cont * Cont) = h
    <2> DEFINE m == Cont * Cont
               r == l + Cont * g
    <2>1. r \in 0 .. m - 1
      <3>1. Cont * g <= Cont * (Cont - 1)
        BY <1>0, <1>3
      <3>2. Cont * (Cont - 1) = Cont * Cont - Cont
        BY <1>0
      <3>3. Cont * g \in Nat
        BY <1>0, <1>3
      <3> QED BY <1>0, <1>2, <3>1, <3>2, <3>3
    <2>2. m \in Nat /\ v = m * h + r
      <3>1. m * h \in Nat /\ Cont * g \in Nat
        BY <1>0, <1>3
      <3> QED BY <1>0, <1>2, <1>6, <3>1
    <2> HIDE DEF m, r
    <2>3. v \div m = h
      BY <1>3, <2>1, <2>2, DivUnique
    <2> QED BY <2>3 DEF m
  <1>8. v >= Cont * Cont => h \in 1 .. 3
    <2> DEFINE m == Cont * Cont
               r == l + Cont * g
    <2>1. r \in 0 .. m - 1
      <3>1. Cont * g <= Cont * (Cont - 1)
        BY <1>0, <1>3
      <3>2. Cont * (Cont - 1) = Cont * Cont - Cont
        BY <1>0
      <3>3. Cont * g \in Nat
        BY <1>0, <1>3
      <3> QED BY <1>0, <1>2, <3>1, <3>2, <3>3
    <2>2. m \in Nat /\ m >= 1 /\ v = m * h + r /\ v < 4 * m
      <3>1. m * h \in Nat /\ Cont * g \in Nat
        BY <1>0, <1>3
      <3> QED BY <1>0, <1>2, <1>6, <3>1
    <2> HIDE DEF m, r
    <2>3. h >= 4 => m * h >= 4 * m
      BY <1>3, <2>2
    <2>4. h < 4
      BY <1>3, <2>1, <2>2, <2>3
    <2>5. h = 0 => v < m
      BY <2>1, <2>2
    <2> QED BY <1>3, <2>2, <2>4, <2>5 DEF m
  <1>9. Low(v) = l /\ Low(v \div Cont) = g /\ v \div Cont = d
    BY DEF Low, l, g, d
  <1> QED BY <1>0, <1>1, <1>2, <1>3, <1>4, <1>5, <1>6, <1>7, <1>8, <1>9

\* A value that was read stands for another.
LEMMA ReadAs ==
    ASSUME NEW b, NEW n, NEW k, NEW v, NEW p, Stands(p, b, n, k, v), NEW w, NEW x,
           p.val = v => w = x
    PROVE  Stands(Value(p, w), b, n, k, x)
  <1>1. CASE k <= n
    <2>1. p.val = v
      BY <1>1 DEF Stands, State
    <2> QED BY <2>1, ValueStands
  <1>2. CASE ~(k <= n)
    BY <1>2 DEF Stands, Value
  <1> QED BY <1>1, <1>2

LEMMA ReadUintStands ==
    ASSUME NEW b \in Seq(Byte), NEW n \in 0 .. Len(b), NEW k \in Nat, NEW w, NEW p,
           Stands(p, b, n, k, w), NEW c \in Nat, NEW v \in Nat, Shifted(v, c) = 0,
           Here(b, k, WriteUint(v, c))
    PROVE  Stands(ReadUint(p, c), b, n, k + c, v)
  <1> DEFINE e == WriteUint(v, c)
  <1>1. e \in Seq(Byte) /\ Len(e) = c
    BY WriteUintBytes
  <1>2. Stands(ReadBytes(p, c), b, n, k + c, e)
    <2> HIDE DEF e
    <2>1. Here(b, k, e)
      BY DEF e
    <2>2. Stands(ReadBytes(p, Len(e)), b, n, k + Len(e), e)
      BY <1>1, <2>1, ReadBytesStands
    <2> QED BY <1>1, <2>2
  <1>3. LittleEndian(e) = v
    BY LittleEndianInverts
  <1> HIDE DEF e
  <1> DEFINE q == ReadBytes(p, c)
  <1>4. ReadUint(p, c) = Value(q, LittleEndian(q.val))
    BY DEF ReadUint
  <1>5. Stands(q, b, n, k + c, e)
    BY <1>2
  <1>6. q.val = e => LittleEndian(q.val) = v
    BY <1>3
  <1> HIDE DEF q
  <1> QED BY <1>4, <1>5, <1>6, ReadAs

LEMMA ReadU8Stands ==
    ASSUME NEW b \in Seq(Byte), NEW n \in 0 .. Len(b), NEW k \in Nat, NEW w, NEW p,
           Stands(p, b, n, k, w), NEW v \in Byte, Here(b, k, <<v>>)
    PROVE  Stands(ReadUint(p, 1), b, n, k + 1, v)
  <1>1. v \in Nat /\ Shifted(v, 1) = 0 /\ WriteUint(v, 1) = <<v>> /\ 1 \in Nat
    BY FitsByte DEF Byte
  <1>2. Here(b, k, WriteUint(v, 1))
    BY <1>1
  <1> QED BY <1>1, <1>2, ReadUintStands

LEMMA TakeStands ==
    ASSUME NEW b \in Seq(Byte), NEW n \in 0 .. Len(b), NEW k \in 0 .. n, NEW v, NEW c \in Nat,
           k + c <= n, NEW x
    PROVE  Stands(Take(State(b, n, k, v), c, x), b, n, k + c, x)
  <1> DEFINE r == SubSeq(b, k + 1, n)
             p == [err |-> "nil", rest |-> r, val |-> v]
  <1>1. State(b, n, k, v) = p
    BY DEF State
  <1>2. SubSeq(r, c + 1, Len(r)) = SubSeq(b, k + c + 1, n)
    <2> c \in 0 .. n - k
      OBVIOUS
    <2> QED BY RestOfRest
  <1> HIDE DEF r
  <1>3. Take(p, c, x) = [err |-> "nil", rest |-> SubSeq(r, c + 1, Len(r)), val |-> x]
    <2> p.rest = r
      OBVIOUS
    <2> HIDE DEF p
    <2> Take(p, c, x) = [p EXCEPT !.rest = SubSeq(r, c + 1, Len(r)), !.val = x]
      BY DEF Take
    <2> QED BY DEF p
  <1> QED BY <1>1, <1>2, <1>3 DEF Stands, State

LEMMA ShortvecBytes ==
    ASSUME NEW v \in 0 .. MaxU16
    PROVE  /\ EncodeShortvec(v) \in Seq(Byte) /\ Len(EncodeShortvec(v)) = SvSize(v)
           /\ SvSize(v) \in 1 .. 3
  <1>0. Cont \in Nat /\ v \in Nat /\ Byte = 0 .. 2 * Cont - 1
    BY Sizes DEF Byte, MaxU16
  <1>1. CASE v < Cont
    <2>1. EncodeShortvec(v) = <<v>> /\ SvSize(v) = 1 /\ v \in Byte
      BY <1>0, <1>1 DEF EncodeShortvec, SvSize
    <2> QED BY <2>1
  <1>2. CASE ~(v < Cont) /\ v < Cont * Cont
    <2>1. EncodeShortvec(v) = <<Low(v) + Cont, v \div Cont>> /\ SvSize(v) = 2
      BY <1>2 DEF EncodeShortvec, SvSize
    <2>2. Low(v) + Cont \in Byte /\ v \div Cont \in Byte
      BY <1>0, <1>2, Groups
    <2> QED BY <2>1, <2>2
  <1>3. CASE ~(v < Cont) /\ ~(v < Cont * Cont)
    <2>1. /\ EncodeShortvec(v) = <<Low(v) + Cont, Low(v \div Cont) + Cont, v \div (Cont * Cont)>>
          /\ SvSize(v) = 3
      BY <1>3 DEF EncodeShortvec, SvSize
    <2>0. Cont * Cont \in Nat
      BY <1>0
    <2>2. Low(v) + Cont \in Byte /\ Low(v \div Cont) + Cont \in Byte /\ v \div (Cont * Cont) \in 1 .. 3
      BY <1>0, <2>0, <1>3, Groups
    <2>3. 1 .. 3 \subseteq Byte
      BY <1>0, Sizes
    <2> HIDE DEF Byte
    <2> QED BY <2>1, <2>2, <2>3
  <1> QED BY <1>1, <1>2, <1>3

LEMMA ReadShortvecStands ==
    ASSUME NEW b \in Seq(Byte), NEW n \in 0 .. Len(b), NEW k \in Nat, NEW w, NEW p,
           Stands(p, b, n, k, w), NEW v \in 0 .. MaxU16, Here(b, k, EncodeShortvec(v))
    PROVE  Stands(ReadShortvec(p), b, n, k + SvSize(v), v)
  <1>0. /\ Cont \in Nat /\ Cont >= 4 /\ v \in Nat /\ Byte = 0 .. 2 * Cont - 1 /\ n \in Nat
        /\ Cont * Cont \in Nat
    BY Sizes DEF Byte, MaxU16
  <1>1. SvSize(v) \in 1 .. 3
    BY ShortvecBytes
  <1>2. CASE k > n
    <2>1. p.err = "short" /\ ~(k + SvSize(v) <= n)
      BY <1>0, <1>1, <1>2 DEF Stands
    <2>2. ReadShortvec(p) = p
      BY <2>1 DEF ReadShortvec
    <2> QED BY <2>1, <2>2 DEF Stands
  <1>3. CASE k <= n
    <2> DEFINE r == SubSeq(b, k + 1, n)
    <2>1. /\ p = State(b, n, k, w) /\ p.err = "nil" /\ p.rest = r
      BY <1>3 DEF Stands, State
    <2>2. Len(r) = n - k /\ (\A i \in 1 .. n - k : r[i] = b[k + i]) /\ k \in 0 .. n
      BY <1>3, RestFacts
    <2>3. \A x : Fail(p, x).err = x
      BY <2>1 DEF State, Fail
    <2>4. ASSUME NEW c \in Nat, k + c <= n PROVE Stands(Take(p, c, v), b, n, k + c, v)
      BY <2>1, <2>2, <2>4, TakeStands
    <2> HIDE DEF r
    <2>5. \A i \in 1 .. 3 : k + i <= n => r[i] = b[k + i]
      <3> SUFFICES ASSUME NEW i \in 1 .. 3, k + i <= n PROVE r[i] = b[k + i]
        OBVIOUS
      <3>1. n \in Nat
        BY <1>0
      <3>2. i \in 1 .. n - k
        BY <3>1
      <3> QED BY <2>2, <3>2
    <2>6. CASE v < Cont
      <3>1. SvSize(v) = 1 /\ (k < n => r[1] = v)
        BY <1>0, <1>3, <2>2, <2>6 DEF EncodeShortvec, SvSize, Here
      <3>2. CASE k = n
        <4>1. ReadShortvec(p) = Fail(p, "short")
          BY <2>1, <2>2, <3>2 DEF ReadShortvec
        <4> QED BY <1>0, <2>3, <3>1, <3>2, <4>1 DEF Stands
      <3>3. CASE k < n
        <4>1. ReadShortvec(p) = Take(p, 1, v)
          BY <1>0, <2>1, <2>2, <2>6, <3>1, <3>3 DEF ReadShortvec
        <4> QED BY <1>0, <2>4, <3>1, <3>3, <4>1
      <3> QED BY <1>0, <1>3, <3>2, <3>3
    <2>7. CASE ~(v < Cont) /\ v < Cont * Cont
      <3>0. EncodeShortvec(v) = <<Low(v) + Cont, v \div Cont>>
        BY <2>7 DEF EncodeShortvec
      <3>1. /\ SvSize(v) = 2
            /\ k + 1 <= n => r[1] = Low(v) + Cont
            /\ k + 2 <= n => r[2] = v \div Cont
        BY <1>0, <1>3, <2>2, <2>7, <3>0 DEF SvSize, Here
      <3>2. /\ ~(Low(v) + Cont < Cont) /\ v \div Cont # 0 /\ v \div Cont < Cont
            /\ Low(Low(v) + Cont) + Cont * (v \div Cont) = v
        <4> /\ Low(v) \in 0 .. Cont - 1 /\ Low(Low(v) + Cont) = Low(v)
            /\ v \div Cont \in Nat /\ v = Low(v) + Cont * (v \div Cont)
            /\ v \div Cont >= 1 /\ v \div Cont < Cont
          BY <1>0, <2>7, Groups
        <4> QED BY <1>0
      <3>3. CASE k = n
        <4>1. ReadShortvec(p) = Fail(p, "short")
          BY <2>1, <2>2, <3>3 DEF ReadShortvec
        <4> QED BY <1>0, <2>3, <3>1, <3>3, <4>1 DEF Stands
      <3>4. CASE k + 1 = n
        <4>1. ReadShortvec(p) = Fail(p, "short")
          BY <1>0, <2>1, <2>2, <3>1, <3>2, <3>4 DEF ReadShortvec
        <4> QED BY <1>0, <2>3, <3>1, <3>4, <4>1 DEF Stands
      <3>5. CASE k + 2 <= n
        <4>0. r[1] = Low(v) + Cont /\ r[2] = v \div Cont /\ Len(r) # 0 /\ ~(Len(r) < 2)
          BY <1>0, <2>2, <3>1, <3>5
        <4>1. ReadShortvec(p) = Take(p, 2, v)
          BY <2>1, <3>2, <4>0 DEF ReadShortvec
        <4> QED BY <1>0, <2>4, <3>1, <3>5, <4>1
      <3> QED BY <1>0, <1>3, <3>3, <3>4, <3>5
    <2>8. CASE ~(v < Cont) /\ ~(v < Cont * Cont)
      <3>0. EncodeShortvec(v) = <<Low(v) + Cont, Low(v \div Cont) + Cont, v \div (Cont * Cont)>>
        BY <2>8 DEF EncodeShortvec
      <3>1. /\ SvSize(v) = 3
            /\ k + 1 <= n => r[1] = Low(v) + Cont
            /\ k + 2 <= n => r[2] = Low(v \div Cont) + Cont
            /\ k + 3 <= n => r[3] = v \div (Cont * Cont)
        <4>1. SvSize(v) = 3
          BY <2>8 DEF SvSize
        <4> DEFINE x == Low(v) + Cont
                   y == Low(v \div Cont) + Cont
                   z == v \div (Cont * Cont)
        <4>2. Here(b, k, <<x, y, z>>)
          BY <3>0
        <4> HIDE DEF x, y, z
        <4>3. b[k + 1] = x /\ b[k + 2] = y /\ b[k + 3] = z
          BY <4>2 DEF Here
        <4>4. k + 1 <= n => r[1] = x
          BY <2>5, <4>3
        <4>5. k + 2 <= n => r[2] = y
          BY <2>5, <4>3
        <4>6. k + 3 <= n => r[3] = z
          BY <2>5, <4>3
        <4> QED BY <4>1, <4>4, <4>5, <4>6 DEF x, y, z
      <3>2. /\ ~(Low(v) + Cont < Cont) /\ ~(Low(v \div Cont) + Cont < Cont)
            /\ Low(v \div Cont) + Cont # 0
            /\ v \div (Cont * Cont) # 0 /\ ~(v \div (Cont * Cont) > 3)
            /\ Low(Low(v) + Cont) + Cont * Low(Low(v \div Cont) + Cont)
               + Cont * Cont * (v \div (Cont * Cont)) = v
        <4>1. /\ Low(v) \in 0 .. Cont - 1 /\ Low(Low(v) + Cont) = Low(v)
              /\ Low(v \div Cont) \in 0 .. Cont - 1
              /\ Low(Low(v \div Cont) + Cont) = Low(v \div Cont)
              /\ v = Low(v) + Cont * Low(v \div Cont) + Cont * Cont * (v \div (Cont * Cont))
          BY Groups
        <4>2. v \div (Cont * Cont) \in 1 .. 3
          <5> v >= Cont * Cont
            BY <1>0, <2>8
          <5> QED BY Groups
        <4> DEFINE x == Low(v)
                   y == Low(v \div Cont)
                   z == v \div (Cont * Cont)
        <4>3. /\ x \in 0 .. Cont - 1 /\ Low(x + Cont) = x /\ y \in 0 .. Cont - 1
              /\ Low(y + Cont) = y /\ v = x + Cont * y + Cont * Cont * z /\ z \in 1 .. 3
          BY <4>1, <4>2
        <4> HIDE DEF x, y, z
        <4>4. /\ ~(x + Cont < Cont) /\ ~(y + Cont < Cont) /\ y + Cont # 0 /\ z # 0 /\ ~(z > 3)
          BY <1>0, <4>3
        <4>5. Low(x + Cont) + Cont * Low(y + Cont) + Cont * Cont * z = v
          BY <4>3
        <4> QED BY <4>4, <4>5 DEF x, y, z
      <3>3. CASE k = n
        <4>1. ReadShortvec(p) = Fail(p, "short")
          BY <2>1, <2>2, <3>3 DEF ReadShortvec
        <4> QED BY <1>0, <2>3, <3>1, <3>3, <4>1 DEF Stands
      <3>4. CASE k + 1 = n
        <4>1. ReadShortvec(p) = Fail(p, "short")
          BY <1>0, <2>1, <2>2, <3>1, <3>2, <3>4 DEF ReadShortvec
        <4> QED BY <1>0, <2>3, <3>1, <3>4, <4>1 DEF Stands
      <3>5. CASE k + 2 = n
        <4>0. r[1] = Low(v) + Cont /\ r[2] = Low(v \div Cont) + Cont /\ Len(r) = 2
          BY <1>0, <2>2, <3>1, <3>5
        <4>1. ReadShortvec(p) = Fail(p, "short")
          BY <2>1, <3>2, <4>0 DEF ReadShortvec
        <4> QED BY <1>0, <2>3, <3>1, <3>5, <4>1 DEF Stands
      <3>6. CASE k + 3 <= n
        <4>0. /\ r[1] = Low(v) + Cont /\ r[2] = Low(v \div Cont) + Cont
              /\ r[3] = v \div (Cont * Cont) /\ Len(r) # 0 /\ ~(Len(r) < 2) /\ ~(Len(r) < 3)
          BY <1>0, <2>2, <3>1, <3>6
        <4>1. ReadShortvec(p) = Take(p, 3, v)
          BY <2>1, <3>2, <4>0 DEF ReadShortvec
        <4> QED BY <1>0, <2>4, <3>1, <3>6, <4>1
      <3> QED BY <1>0, <1>3, <3>3, <3>4, <3>5, <3>6
    <2> QED BY <2>6, <2>7, <2>8
  <1> QED BY <1>0, <1>2, <1>3

--------------------------------------------------------------------------------
(***************************************************************************)
(* Sequences of items.                                                      *)
(***************************************************************************)

\* Each part of a flattened sequence stands after the parts before it.
LEMMA FlattenHere ==
    ASSUME NEW b \in Seq(Byte), NEW k \in Nat, NEW seqs \in Seq(Seq(Byte)),
           Here(b, k, FlattenSeq(seqs))
    PROVE  \E o \in [0 .. Len(seqs) -> Nat] :
              /\ o[0] = k /\ o[Len(seqs)] = k + Len(FlattenSeq(seqs))
              /\ \A i \in 1 .. Len(seqs) :
                    o[i] = o[i - 1] + Len(seqs[i]) /\ Here(b, o[i - 1], seqs[i])
  <1> DEFINE N == Len(seqs)
  <1>0. N \in Nat /\ \A i \in 1 .. N : seqs[i] \in Seq(Byte)
    OBVIOUS
  <1>1. PICK f : Catenation(f, Byte, seqs) /\ FlattenSeq(seqs) = f[N]
    BY FlattenUnfold
  <1>2. /\ f[0] = <<>> /\ \A i \in 0 .. N : f[i] \in Seq(Byte)
        /\ \A i \in 1 .. N : f[i] = f[i - 1] \o seqs[i]
    BY <1>0, <1>1 DEF Catenation
  <1> DEFINE S == {j \in Nat : j <= N => Here(b, k, f[N - j])}
  <1>3. 0 \in S
    <2> N - 0 = N
      BY <1>0
    <2> QED BY <1>1
  <1>4. ASSUME NEW j \in Nat, j \in S PROVE j + 1 \in S
    <2> SUFFICES ASSUME j + 1 <= N PROVE Here(b, k, f[N - (j + 1)])
      OBVIOUS
    <2> DEFINE i == N - j
    <2>1. i \in 1 .. N /\ i = N - j /\ i - 1 = N - (j + 1) /\ i - 1 \in 0 .. N
      <3> HIDE DEF N
      <3> QED BY <1>0
    <2> HIDE DEF i
    <2>2. Here(b, k, f[i])
      BY <1>0, <1>4, <2>1
    <2>3. f[i] = f[i - 1] \o seqs[i] /\ f[i - 1] \in Seq(Byte) /\ seqs[i] \in Seq(Byte)
      BY <1>0, <1>2, <2>1
    <2>4. Here(b, k, f[i - 1])
      BY <2>2, <2>3, HereConcat
    <2> QED BY <2>1, <2>4
  <1>5. Nat \subseteq S
    <2> HIDE DEF S
    <2> QED BY <1>3, <1>4, Induct
  <1> DEFINE o == [i \in 0 .. N |-> k + Len(f[i])]
  <1>6. o \in [0 .. N -> Nat] /\ o[0] = k /\ o[N] = k + Len(FlattenSeq(seqs))
    <2> HIDE DEF N
    <2>1. 0 \in 0 .. N /\ N \in 0 .. N
      BY <1>0
    <2>2. \A i \in 0 .. N : Len(f[i]) \in Nat
      BY <1>2
    <2>3. \A i \in 0 .. N : k + Len(f[i]) \in Nat
      BY <2>2
    <2>4. Len(f[0]) = 0 /\ o[0] = k + Len(f[0]) /\ o[N] = k + Len(f[N])
      BY <1>2, <2>1
    <2>5. o \in [0 .. N -> Nat]
      BY <2>3
    <2> HIDE DEF o
    <2> QED BY <1>1, <2>4, <2>5
  <1>7. ASSUME NEW i \in 1 .. N PROVE o[i] = o[i - 1] + Len(seqs[i]) /\ Here(b, o[i - 1], seqs[i])
    <2>1. i \in 0 .. N /\ i - 1 \in 0 .. N /\ N - i \in Nat /\ N - i <= N /\ N - (N - i) = i
      BY <1>0
    <2>2. Here(b, k, f[i])
      <3>1. N - i \in S
        BY <1>5, <2>1
      <3> QED BY <2>1, <3>1
    <2>3. f[i] = f[i - 1] \o seqs[i] /\ f[i - 1] \in Seq(Byte) /\ seqs[i] \in Seq(Byte)
      BY <1>0, <1>2, <2>1
    <2>4. Here(b, k + Len(f[i - 1]), seqs[i]) /\ Len(f[i]) = Len(f[i - 1]) + Len(seqs[i])
      BY <2>2, <2>3, HereConcat
    <2>5. o[i] = k + Len(f[i]) /\ o[i - 1] = k + Len(f[i - 1])
      BY <2>1
    <2>6. Len(f[i - 1]) \in Nat /\ Len(seqs[i]) \in Nat
      BY <2>3
    <2> HIDE DEF o
    <2>7. Here(b, o[i - 1], seqs[i])
      BY <2>4, <2>5
    <2>8. o[i] = o[i - 1] + Len(seqs[i])
      <3> DEFINE x == Len(f[i - 1])
                 y == Len(seqs[i])
      <3>1. Len(f[i]) = x + y /\ x \in Nat /\ y \in Nat /\ o[i - 1] = k + x
        BY <2>4, <2>5, <2>6
      <3> HIDE DEF x, y
      <3>2. k + (x + y) = k + x + y
        BY <3>1
      <3>3. o[i] = o[i - 1] + y
        BY <2>5, <3>1, <3>2, Zenon
      <3> QED BY <3>3 DEF y
    <2> QED BY <2>7, <2>8
  <1> HIDE DEF o
  <1> QED BY <1>6, <1>7

LEMMA PrefixNext ==
    ASSUME NEW V, NEW s \in Seq(V), NEW i \in 0 .. Len(s) - 1
    PROVE  SubSeq(s, 1, i + 1) = Append(SubSeq(s, 1, i), s[i + 1])
  <1> DEFINE t == SubSeq(s, 1, i)
             u == SubSeq(s, 1, i + 1)
  <1>1. t \in Seq(V) /\ Len(t) = i /\ \A j \in 1 .. i : t[j] = s[j]
    OBVIOUS
  <1>2. u \in Seq(V) /\ Len(u) = i + 1 /\ \A j \in 1 .. i + 1 : u[j] = s[j]
    OBVIOUS
  <1>3. s[i + 1] \in V
    OBVIOUS
  <1> HIDE DEF t, u
  <1>4. /\ Append(t, s[i + 1]) \in Seq(V) /\ Len(Append(t, s[i + 1])) = i + 1
        /\ \A j \in 1 .. i : Append(t, s[i + 1])[j] = t[j]
        /\ Append(t, s[i + 1])[i + 1] = s[i + 1]
    BY <1>1, <1>3
  <1>5. ASSUME NEW j \in 1 .. i + 1 PROVE Append(t, s[i + 1])[j] = u[j]
    <2>1. CASE j = i + 1
      BY <1>2, <1>4, <2>1
    <2>2. CASE j # i + 1
      <3> j \in 1 .. i
        BY <2>2
      <3> QED BY <1>1, <1>2, <1>4
    <2> QED BY <2>1, <2>2
  <1>6. u = Append(t, s[i + 1])
    BY <1>2, <1>4, <1>5, SameSequence
  <1> QED BY <1>6 DEF t, u

\* r is the decoder after each item: if each item is read where it stands, all are.
LEMMA ItemsStand ==
    ASSUME NEW b \in Seq(Byte), NEW n \in 0 .. Len(b), NEW k \in Nat,
           NEW seqs \in Seq(Seq(Byte)), Here(b, k, FlattenSeq(seqs)),
           NEW V, NEW vals \in Seq(V), Len(vals) = Len(seqs), NEW r,
           Stands(r[0], b, n, k, <<>>),
           \A i \in 1 .. Len(seqs) : \A j \in Nat : \A v :
              Here(b, j, seqs[i]) /\ Stands(r[i - 1], b, n, j, v)
              => Stands(r[i], b, n, j + Len(seqs[i]), Append(v, vals[i]))
    PROVE  Stands(r[Len(seqs)], b, n, k + Len(FlattenSeq(seqs)), vals)
  <1> DEFINE N == Len(seqs)
  <1>0. N \in Nat
    OBVIOUS
  <1>1. PICK o \in [0 .. N -> Nat] :
              /\ o[0] = k /\ o[N] = k + Len(FlattenSeq(seqs))
              /\ \A i \in 1 .. N : o[i] = o[i - 1] + Len(seqs[i]) /\ Here(b, o[i - 1], seqs[i])
    BY FlattenHere
  <1> DEFINE S == {i \in Nat : i <= N => Stands(r[i], b, n, o[i], SubSeq(vals, 1, i))}
  <1>2. 0 \in S
    <2>1. SubSeq(vals, 1, 0) = <<>>
      OBVIOUS
    <2> QED BY <1>1, <2>1
  <1>3. ASSUME NEW i \in Nat, i \in S PROVE i + 1 \in S
    <2> SUFFICES ASSUME i + 1 <= N PROVE Stands(r[i + 1], b, n, o[i + 1], SubSeq(vals, 1, i + 1))
      OBVIOUS
    <2>1. PICK m \in 1 .. N : m = i + 1 /\ m - 1 = i /\ i <= N /\ i \in 0 .. N /\ i \in 0 .. Len(vals) - 1
      BY <1>0
    <2>2. Stands(r[m - 1], b, n, o[m - 1], SubSeq(vals, 1, i))
      BY <1>3, <2>1
    <2>3. Here(b, o[m - 1], seqs[m]) /\ o[m] = o[m - 1] + Len(seqs[m]) /\ o[m - 1] \in Nat
      BY <1>1, <2>1
    <2>4. Stands(r[m], b, n, o[m - 1] + Len(seqs[m]), Append(SubSeq(vals, 1, i), vals[m]))
      BY <2>2, <2>3
    <2>5. SubSeq(vals, 1, i + 1) = Append(SubSeq(vals, 1, i), vals[i + 1])
      BY <2>1, PrefixNext
    <2> QED BY <2>1, <2>3, <2>4, <2>5
  <1>4. Nat \subseteq S
    <2> HIDE DEF S
    <2> QED BY <1>2, <1>3, Induct
  <1>5. SubSeq(vals, 1, N) = vals
    <2>1. Len(vals) = N
      OBVIOUS
    <2> QED BY <2>1
  <1>6. Stands(r[N], b, n, o[N], SubSeq(vals, 1, N))
    BY <1>0, <1>4
  <1> QED BY <1>1, <1>5, <1>6

\* The decoder after each item, for each kind of item.
KeyItems(p, c) == ReadItems(p, c, ReadKey)
LEMMA KeyUnfold ==
    ASSUME NEW p, p.err = "nil", NEW c \in Nat
    PROVE  \E r : /\ r[0] = Value(p, <<>>) /\ KeyItems(p, c) = r[c]
                  /\ \A i \in 1 .. c : r[i] = Push(r[i - 1], ReadKey(r[i - 1], i))
  <1> DEFINE E(f) == f = [i \in 0 .. c |-> IF i = 0 THEN Value(p, <<>>)
                                         ELSE Push(f[i - 1], ReadKey(f[i - 1], i))]
             r == CHOOSE f : E(f)
  <1>1. KeyItems(p, c) = r[c]
    BY DEF KeyItems, ReadItems
  <1>2. PICK f : Steps(f, "key", 0, Value(p, <<>>), c)
    BY StepsExist
  <1>3. \A x, i : Step("key", 0, x, i) = Push(x, ReadKey(x, i))
    BY DEF Step
  <1>4. E(f)
    BY <1>2, <1>3 DEF Steps
  <1>5. E(r)
    BY <1>4
  <1> HIDE DEF r
  <1>6. r[0] = Value(p, <<>>)
    BY <1>5
  <1>7. \A i \in 1 .. c : r[i] = Push(r[i - 1], ReadKey(r[i - 1], i))
    BY <1>5
  <1> QED BY <1>1, <1>6, <1>7

SigItems(p, c) == ReadItems(p, c, ReadSig)
LEMMA SigUnfold ==
    ASSUME NEW p, p.err = "nil", NEW c \in Nat
    PROVE  \E r : /\ r[0] = Value(p, <<>>) /\ SigItems(p, c) = r[c]
                  /\ \A i \in 1 .. c : r[i] = Push(r[i - 1], ReadSig(r[i - 1], i))
  <1> DEFINE E(f) == f = [i \in 0 .. c |-> IF i = 0 THEN Value(p, <<>>)
                                         ELSE Push(f[i - 1], ReadSig(f[i - 1], i))]
             r == CHOOSE f : E(f)
  <1>1. SigItems(p, c) = r[c]
    BY DEF SigItems, ReadItems
  <1>2. PICK f : Steps(f, "sig", 0, Value(p, <<>>), c)
    BY StepsExist
  <1>3. \A x, i : Step("sig", 0, x, i) = Push(x, ReadSig(x, i))
    BY DEF Step
  <1>4. E(f)
    BY <1>2, <1>3 DEF Steps
  <1>5. E(r)
    BY <1>4
  <1> HIDE DEF r
  <1>6. r[0] = Value(p, <<>>)
    BY <1>5
  <1>7. \A i \in 1 .. c : r[i] = Push(r[i - 1], ReadSig(r[i - 1], i))
    BY <1>5
  <1> QED BY <1>1, <1>6, <1>7

U8Items(p, c) == ReadItems(p, c, ReadU8)
LEMMA U8Unfold ==
    ASSUME NEW p, p.err = "nil", NEW c \in Nat
    PROVE  \E r : /\ r[0] = Value(p, <<>>) /\ U8Items(p, c) = r[c]
                  /\ \A i \in 1 .. c : r[i] = Push(r[i - 1], ReadU8(r[i - 1], i))
  <1> DEFINE E(f) == f = [i \in 0 .. c |-> IF i = 0 THEN Value(p, <<>>)
                                         ELSE Push(f[i - 1], ReadU8(f[i - 1], i))]
             r == CHOOSE f : E(f)
  <1>1. U8Items(p, c) = r[c]
    BY DEF U8Items, ReadItems
  <1>2. PICK f : Steps(f, "u8", 0, Value(p, <<>>), c)
    BY StepsExist
  <1>3. \A x, i : Step("u8", 0, x, i) = Push(x, ReadU8(x, i))
    BY DEF Step
  <1>4. E(f)
    BY <1>2, <1>3 DEF Steps
  <1>5. E(r)
    BY <1>4
  <1> HIDE DEF r
  <1>6. r[0] = Value(p, <<>>)
    BY <1>5
  <1>7. \A i \in 1 .. c : r[i] = Push(r[i - 1], ReadU8(r[i - 1], i))
    BY <1>5
  <1> QED BY <1>1, <1>6, <1>7

InstructionItems(p, c) == ReadItems(p, c, DecodeInstruction)
LEMMA InstructionUnfold ==
    ASSUME NEW p, p.err = "nil", NEW c \in Nat
    PROVE  \E r : /\ r[0] = Value(p, <<>>) /\ InstructionItems(p, c) = r[c]
                  /\ \A i \in 1 .. c : r[i] = Push(r[i - 1], DecodeInstruction(r[i - 1], i))
  <1> DEFINE E(f) == f = [i \in 0 .. c |-> IF i = 0 THEN Value(p, <<>>)
                                         ELSE Push(f[i - 1], DecodeInstruction(f[i - 1], i))]
             r == CHOOSE f : E(f)
  <1>1. InstructionItems(p, c) = r[c]
    BY DEF InstructionItems, ReadItems
  <1>2. PICK f : Steps(f, "ix", 0, Value(p, <<>>), c)
    BY StepsExist
  <1>3. \A x, i : Step("ix", 0, x, i) = Push(x, DecodeInstruction(x, i))
    BY DEF Step
  <1>4. E(f)
    BY <1>2, <1>3 DEF Steps
  <1>5. E(r)
    BY <1>4
  <1> HIDE DEF r
  <1>6. r[0] = Value(p, <<>>)
    BY <1>5
  <1>7. \A i \in 1 .. c : r[i] = Push(r[i - 1], DecodeInstruction(r[i - 1], i))
    BY <1>5
  <1> QED BY <1>1, <1>6, <1>7

LookupItems(p, c) == ReadItems(p, c, DecodeLookup)
LEMMA LookupUnfold ==
    ASSUME NEW p, p.err = "nil", NEW c \in Nat
    PROVE  \E r : /\ r[0] = Value(p, <<>>) /\ LookupItems(p, c) = r[c]
                  /\ \A i \in 1 .. c : r[i] = Push(r[i - 1], DecodeLookup(r[i - 1], i))
  <1> DEFINE E(f) == f = [i \in 0 .. c |-> IF i = 0 THEN Value(p, <<>>)
                                         ELSE Push(f[i - 1], DecodeLookup(f[i - 1], i))]
             r == CHOOSE f : E(f)
  <1>1. LookupItems(p, c) = r[c]
    BY DEF LookupItems, ReadItems
  <1>2. PICK f : Steps(f, "lookup", 0, Value(p, <<>>), c)
    BY StepsExist
  <1>3. \A x, i : Step("lookup", 0, x, i) = Push(x, DecodeLookup(x, i))
    BY DEF Step
  <1>4. E(f)
    BY <1>2, <1>3 DEF Steps
  <1>5. E(r)
    BY <1>4
  <1> HIDE DEF r
  <1>6. r[0] = Value(p, <<>>)
    BY <1>5
  <1>7. \A i \in 1 .. c : r[i] = Push(r[i - 1], DecodeLookup(r[i - 1], i))
    BY <1>5
  <1> QED BY <1>1, <1>6, <1>7

OptionItems(p, c, a) == ReadItems(p, c, LAMBDA q, f : ReadOption(a, q, f))
LEMMA OptionUnfold ==
    ASSUME NEW p, p.err = "nil", NEW c \in Nat, NEW a
    PROVE  \E r : /\ r[0] = Value(p, <<>>) /\ OptionItems(p, c, a) = r[c]
                  /\ \A i \in 1 .. c : r[i] = Push(r[i - 1], ReadOption(a, r[i - 1], i))
  <1> DEFINE E(f) == f = [i \in 0 .. c |-> IF i = 0 THEN Value(p, <<>>)
                                         ELSE Push(f[i - 1], ReadOption(a, f[i - 1], i))]
             r == CHOOSE f : E(f)
  <1>1. OptionItems(p, c, a) = r[c]
    BY DEF OptionItems, ReadItems
  <1>2. PICK f : Steps(f, "option", a, Value(p, <<>>), c)
    BY StepsExist
  <1>3. \A x, i : Step("option", a, x, i) = Push(x, ReadOption(a, x, i))
    BY DEF Step
  <1>4. E(f)
    BY <1>2, <1>3 DEF Steps
  <1>5. E(r)
    BY <1>4
  <1> HIDE DEF r
  <1>6. r[0] = Value(p, <<>>)
    BY <1>5
  <1>7. \A i \in 1 .. c : r[i] = Push(r[i - 1], ReadOption(a, r[i - 1], i))
    BY <1>5
  <1> QED BY <1>1, <1>6, <1>7

HeadItems(p, c) == ReadItems(p, c, ReadHead)
LEMMA HeadUnfold ==
    ASSUME NEW p, p.err = "nil", NEW c \in Nat
    PROVE  \E r : /\ r[0] = Value(p, <<>>) /\ HeadItems(p, c) = r[c]
                  /\ \A i \in 1 .. c : r[i] = Push(r[i - 1], ReadHead(r[i - 1], i))
  <1> DEFINE E(f) == f = [i \in 0 .. c |-> IF i = 0 THEN Value(p, <<>>)
                                         ELSE Push(f[i - 1], ReadHead(f[i - 1], i))]
             r == CHOOSE f : E(f)
  <1>1. HeadItems(p, c) = r[c]
    BY DEF HeadItems, ReadItems
  <1>2. PICK f : Steps(f, "head", 0, Value(p, <<>>), c)
    BY StepsExist
  <1>3. \A x, i : Step("head", 0, x, i) = Push(x, ReadHead(x, i))
    BY DEF Step
  <1>4. E(f)
    BY <1>2, <1>3 DEF Steps
  <1>5. E(r)
    BY <1>4
  <1> HIDE DEF r
  <1>6. r[0] = Value(p, <<>>)
    BY <1>5
  <1>7. \A i \in 1 .. c : r[i] = Push(r[i - 1], ReadHead(r[i - 1], i))
    BY <1>5
  <1> QED BY <1>1, <1>6, <1>7

BodyItems(p, c, a) == ReadItems(p, c, LAMBDA q, i : ReadBody(a[i], q))
BodySteps(r, p, c, a) ==
    /\ r[0] = Value(p, <<>>) /\ BodyItems(p, c, a) = r[c]
    /\ \A i \in 1 .. c : r[i] = Push(r[i - 1], ReadBody(a[i], r[i - 1]))
LEMMA BodyUnfold ==
    ASSUME NEW p, p.err = "nil", NEW c \in Nat, NEW a
    PROVE  \E r : BodySteps(r, p, c, a)
  <1> DEFINE E(f) == f = [i \in 0 .. c |-> IF i = 0 THEN Value(p, <<>>)
                                         ELSE Push(f[i - 1], ReadBody(a[i], f[i - 1]))]
             r == CHOOSE f : E(f)
  <1>1. BodyItems(p, c, a) = r[c]
    BY DEF BodyItems, ReadItems
  <1>2. PICK f : Steps(f, "body", a, Value(p, <<>>), c)
    BY StepsExist
  <1>3. \A x, i : Step("body", a, x, i) = Push(x, ReadBody(a[i], x))
    BY DEF Step
  <1>4. E(f)
    BY <1>2, <1>3 DEF Steps
  <1>5. E(r)
    BY <1>4
  <1> HIDE DEF r
  <1>6. r[0] = Value(p, <<>>)
    BY <1>5
  <1>7. \A i \in 1 .. c : r[i] = Push(r[i - 1], ReadBody(a[i], r[i - 1]))
    BY <1>5
  <1>8. BodySteps(r, p, c, a)
    BY <1>1, <1>6, <1>7 DEF BodySteps
  <1> QED BY <1>8

TxItems(p, c) == ReadItems(p, c, LAMBDA q, j : DecodeTransaction(q))
LEMMA TxUnfold ==
    ASSUME NEW p, p.err = "nil", NEW c \in Nat
    PROVE  \E r : /\ r[0] = Value(p, <<>>) /\ TxItems(p, c) = r[c]
                  /\ \A i \in 1 .. c : r[i] = Push(r[i - 1], DecodeTransaction(r[i - 1]))
  <1> DEFINE E(f) == f = [i \in 0 .. c |-> IF i = 0 THEN Value(p, <<>>)
                                         ELSE Push(f[i - 1], DecodeTransaction(f[i - 1]))]
             r == CHOOSE f : E(f)
  <1>1. TxItems(p, c) = r[c]
    BY DEF TxItems, ReadItems
  <1>2. PICK f : Steps(f, "tx", 0, Value(p, <<>>), c)
    BY StepsExist
  <1>3. \A x, i : Step("tx", 0, x, i) = Push(x, DecodeTransaction(x))
    BY DEF Step
  <1>4. E(f)
    BY <1>2, <1>3 DEF Steps
  <1>5. E(r)
    BY <1>4
  <1> HIDE DEF r
  <1>6. r[0] = Value(p, <<>>)
    BY <1>5
  <1>7. \A i \in 1 .. c : r[i] = Push(r[i - 1], DecodeTransaction(r[i - 1]))
    BY <1>5
  <1> QED BY <1>1, <1>6, <1>7

EntryItems(p, c) == ReadItems(p, c, DecodeEntry)
LEMMA EntryUnfold ==
    ASSUME NEW p, p.err = "nil", NEW c \in Nat
    PROVE  \E r : /\ r[0] = Value(p, <<>>) /\ EntryItems(p, c) = r[c]
                  /\ \A i \in 1 .. c : r[i] = Push(r[i - 1], DecodeEntry(r[i - 1], i))
  <1> DEFINE E(f) == f = [i \in 0 .. c |-> IF i = 0 THEN Value(p, <<>>)
                                         ELSE Push(f[i - 1], DecodeEntry(f[i - 1], i))]
             r == CHOOSE f : E(f)
  <1>1. EntryItems(p, c) = r[c]
    BY DEF EntryItems, ReadItems
  <1>2. PICK f : Steps(f, "entry", 0, Value(p, <<>>), c)
    BY StepsExist
  <1>3. \A x, i : Step("entry", 0, x, i) = Push(x, DecodeEntry(x, i))
    BY DEF Step
  <1>4. E(f)
    BY <1>2, <1>3 DEF Steps
  <1>5. E(r)
    BY <1>4
  <1> HIDE DEF r
  <1>6. r[0] = Value(p, <<>>)
    BY <1>5
  <1>7. \A i \in 1 .. c : r[i] = Push(r[i - 1], DecodeEntry(r[i - 1], i))
    BY <1>5
  <1> QED BY <1>1, <1>6, <1>7


\* res is the result of reading the items from p.
LEMMA AllItemsStand ==
    ASSUME NEW b \in Seq(Byte), NEW n \in 0 .. Len(b), NEW k \in Nat, NEW w, NEW p,
           Stands(p, b, n, k, w),
           NEW seqs \in Seq(Seq(Byte)), Here(b, k, FlattenSeq(seqs)),
           NEW V, NEW vals \in Seq(V), Len(vals) = Len(seqs), NEW res,
           p.err # "nil" => res = p,
           p.err = "nil" => \E r :
              /\ r[0] = Value(p, <<>>) /\ res = r[Len(seqs)]
              /\ \A i \in 1 .. Len(seqs) : \A j \in Nat : \A v :
                    Here(b, j, seqs[i]) /\ Stands(r[i - 1], b, n, j, v)
                    => \E q : /\ r[i] = Push(r[i - 1], q)
                              /\ Stands(q, b, n, j + Len(seqs[i]), vals[i])
    PROVE  Stands(res, b, n, k + Len(FlattenSeq(seqs)), vals)
  <1>0. FlattenSeq(seqs) \in Seq(Byte) /\ Len(FlattenSeq(seqs)) \in Nat /\ n \in Nat
    BY FlattenElements
  <1>1. CASE k > n
    <2>1. p.err = "short"
      BY <1>0, <1>1 DEF Stands
    <2>2. res = p /\ ~(k + Len(FlattenSeq(seqs)) <= n)
      BY <1>0, <1>1, <2>1
    <2> QED BY <2>1, <2>2 DEF Stands
  <1>2. CASE k <= n
    <2>1. p.err = "nil"
      BY <1>2 DEF Stands, State
    <2>2. PICK r : /\ r[0] = Value(p, <<>>) /\ res = r[Len(seqs)]
                   /\ \A i \in 1 .. Len(seqs) : \A j \in Nat : \A v :
                         Here(b, j, seqs[i]) /\ Stands(r[i - 1], b, n, j, v)
                         => \E q : /\ r[i] = Push(r[i - 1], q)
                                   /\ Stands(q, b, n, j + Len(seqs[i]), vals[i])
      BY <2>1
    <2>3. Stands(r[0], b, n, k, <<>>)
      BY <2>2, ValueStands
    <2>4. ASSUME NEW i \in 1 .. Len(seqs), NEW j \in Nat, NEW v,
                 Here(b, j, seqs[i]), Stands(r[i - 1], b, n, j, v)
          PROVE  Stands(r[i], b, n, j + Len(seqs[i]), Append(v, vals[i]))
      <3>1. PICK q : r[i] = Push(r[i - 1], q) /\ Stands(q, b, n, j + Len(seqs[i]), vals[i])
        BY <2>2, <2>4
      <3>2. seqs[i] \in Seq(Byte)
        OBVIOUS
      <3>3. Len(seqs[i]) \in Nat
        BY <3>2
      <3>4. j + Len(seqs[i]) \in Nat /\ j <= j + Len(seqs[i])
        BY <3>3
      <3>5. Stands(Push(r[i - 1], q), b, n, j + Len(seqs[i]), Append(v, vals[i]))
        BY <1>0, <2>4, <3>1, <3>4, PushStands
      <3> QED BY <3>1, <3>5
    <2>5. Stands(r[Len(seqs)], b, n, k + Len(FlattenSeq(seqs)), vals)
      BY <2>3, <2>4, ItemsStand
    <2> QED BY <2>2, <2>5
  <1> QED BY <1>0, <1>1, <1>2

LEMMA FixedBytes ==
    ASSUME NEW c \in Nat, NEW e \in OfSize(c)
    PROVE  e \in Seq(Byte) /\ Len(e) = c
  BY DEF OfSize

LEMMA KeyItemsStand ==
    ASSUME NEW b \in Seq(Byte), NEW n \in 0 .. Len(b), NEW k \in Nat, NEW w, NEW p,
           Stands(p, b, n, k, w), NEW keys \in Seq(OfSize(KeySize)),
           Here(b, k, FlattenSeq(keys))
    PROVE  Stands(KeyItems(p, Len(keys)), b, n, k + Len(FlattenSeq(keys)), keys)
  <1>0. Len(keys) \in Nat /\ KeySize \in Nat
    BY Sizes
  <1>1. \A i \in 1 .. Len(keys) : keys[i] \in Seq(Byte) /\ Len(keys[i]) = KeySize
    BY <1>0, FixedBytes
  <1>2. keys \in Seq(Seq(Byte))
    BY <1>1
  <1>3. p.err # "nil" => KeyItems(p, Len(keys)) = p
    BY DEF KeyItems, ReadItems
  <1>4. ASSUME p.err = "nil"
        PROVE  \E r :
              /\ r[0] = Value(p, <<>>) /\ KeyItems(p, Len(keys)) = r[Len(keys)]
              /\ \A i \in 1 .. Len(keys) : \A j \in Nat : \A v :
                    Here(b, j, keys[i]) /\ Stands(r[i - 1], b, n, j, v)
                    => \E q : /\ r[i] = Push(r[i - 1], q)
                              /\ Stands(q, b, n, j + Len(keys[i]), keys[i])
    <2>1. PICK r : /\ r[0] = Value(p, <<>>) /\ KeyItems(p, Len(keys)) = r[Len(keys)]
                   /\ \A i \in 1 .. Len(keys) : r[i] = Push(r[i - 1], ReadKey(r[i - 1], i))
      BY <1>0, <1>4, KeyUnfold
    <2>2. ASSUME NEW i \in 1 .. Len(keys), NEW j \in Nat, NEW v, Here(b, j, keys[i]),
                 Stands(r[i - 1], b, n, j, v)
          PROVE  Stands(ReadKey(r[i - 1], i), b, n, j + Len(keys[i]), keys[i])
      <3>1. Stands(ReadBytes(r[i - 1], Len(keys[i])), b, n, j + Len(keys[i]), keys[i])
        BY <1>1, <2>2, ReadBytesStands
      <3> QED BY <1>1, <3>1 DEF ReadKey
    <2> QED BY <2>1, <2>2
  <1> QED BY <1>2, <1>3, <1>4, AllItemsStand

LEMMA SigItemsStand ==
    ASSUME NEW b \in Seq(Byte), NEW n \in 0 .. Len(b), NEW k \in Nat, NEW w, NEW p,
           Stands(p, b, n, k, w), NEW sigs \in Seq(OfSize(SigSize)),
           Here(b, k, FlattenSeq(sigs))
    PROVE  Stands(SigItems(p, Len(sigs)), b, n, k + Len(FlattenSeq(sigs)), sigs)
  <1>0. Len(sigs) \in Nat /\ SigSize \in Nat
    BY Sizes
  <1>1. \A i \in 1 .. Len(sigs) : sigs[i] \in Seq(Byte) /\ Len(sigs[i]) = SigSize
    BY <1>0, FixedBytes
  <1>2. sigs \in Seq(Seq(Byte))
    BY <1>1
  <1>3. p.err # "nil" => SigItems(p, Len(sigs)) = p
    BY DEF SigItems, ReadItems
  <1>4. ASSUME p.err = "nil"
        PROVE  \E r :
              /\ r[0] = Value(p, <<>>) /\ SigItems(p, Len(sigs)) = r[Len(sigs)]
              /\ \A i \in 1 .. Len(sigs) : \A j \in Nat : \A v :
                    Here(b, j, sigs[i]) /\ Stands(r[i - 1], b, n, j, v)
                    => \E q : /\ r[i] = Push(r[i - 1], q)
                              /\ Stands(q, b, n, j + Len(sigs[i]), sigs[i])
    <2>1. PICK r : /\ r[0] = Value(p, <<>>) /\ SigItems(p, Len(sigs)) = r[Len(sigs)]
                   /\ \A i \in 1 .. Len(sigs) : r[i] = Push(r[i - 1], ReadSig(r[i - 1], i))
      BY <1>0, <1>4, SigUnfold
    <2>2. ASSUME NEW i \in 1 .. Len(sigs), NEW j \in Nat, NEW v, Here(b, j, sigs[i]),
                 Stands(r[i - 1], b, n, j, v)
          PROVE  Stands(ReadSig(r[i - 1], i), b, n, j + Len(sigs[i]), sigs[i])
      <3>1. Stands(ReadBytes(r[i - 1], Len(sigs[i])), b, n, j + Len(sigs[i]), sigs[i])
        BY <1>1, <2>2, ReadBytesStands
      <3> QED BY <1>1, <3>1 DEF ReadSig
    <2> QED BY <2>1, <2>2
  <1> QED BY <1>2, <1>3, <1>4, AllItemsStand

\* Single bytes, as the items of a sequence of bytes.
LEMMA FlattenBytes ==
    ASSUME NEW s \in Seq(Byte)
    PROVE  /\ [i \in 1 .. Len(s) |-> <<s[i]>>] \in Seq(Seq(Byte))
           /\ Len([i \in 1 .. Len(s) |-> <<s[i]>>]) = Len(s)
           /\ FlattenSeq([i \in 1 .. Len(s) |-> <<s[i]>>]) = s
  <1> DEFINE One(t) == [i \in 1 .. Len(t) |-> <<t[i]>>]
             P == {t \in Seq(Byte) : FlattenSeq(One(t)) = t}
  <1>0. ASSUME NEW t \in Seq(Byte)
        PROVE  One(t) \in Seq(Seq(Byte)) /\ Len(One(t)) = Len(t)
    <2>1. \A i \in 1 .. Len(t) : <<t[i]>> \in Seq(Byte)
      OBVIOUS
    <2>2. Len(t) \in Nat
      OBVIOUS
    <2> QED BY <2>1, <2>2
  <1>1. <<>> \in P
    <2>1. One(<<>>) = <<>>
      OBVIOUS
    <2> HIDE DEF One
    <2> QED BY <2>1, FlattenEmpty
  <1>2. ASSUME NEW t \in Seq(Byte), NEW x \in Byte, t \in P PROVE Append(t, x) \in P
    <2> DEFINE u == Append(t, x)
    <2>1. u \in Seq(Byte) /\ Len(u) = Len(t) + 1 /\ Len(t) \in Nat
          /\ (\A i \in 1 .. Len(t) : u[i] = t[i]) /\ u[Len(t) + 1] = x
      OBVIOUS
    <2>2. One(u) \in Seq(Seq(Byte)) /\ Len(One(u)) = Len(t) + 1
      BY <1>0, <2>1
    <2>3. One(t) \in Seq(Seq(Byte)) /\ Len(One(t)) = Len(t) /\ <<x>> \in Seq(Byte)
      BY <1>0
    <2>4. /\ Append(One(t), <<x>>) \in Seq(Seq(Byte)) /\ Len(Append(One(t), <<x>>)) = Len(t) + 1
          /\ \A i \in 1 .. Len(t) : Append(One(t), <<x>>)[i] = One(t)[i]
          /\ Append(One(t), <<x>>)[Len(t) + 1] = <<x>>
      <3> HIDE DEF One
      <3> QED BY <2>1, <2>3
    <2>5. ASSUME NEW i \in 1 .. Len(t) + 1 PROVE Append(One(t), <<x>>)[i] = One(u)[i]
      <3>0. One(u)[i] = <<u[i]>>
        <4> i \in 1 .. Len(u)
          BY <2>1
        <4> HIDE DEF u
        <4> QED OBVIOUS
      <3>1. CASE i = Len(t) + 1
        BY <2>1, <2>4, <3>0, <3>1
      <3>2. CASE i # Len(t) + 1
        <4>1. i \in 1 .. Len(t)
          BY <2>1, <3>2
        <4>2. One(t)[i] = <<t[i]>>
          BY <4>1
        <4> QED BY <2>1, <2>4, <3>0, <4>1, <4>2
      <3> QED BY <3>1, <3>2
    <2>6. One(u) = Append(One(t), <<x>>)
      <3> HIDE DEF One, u
      <3> QED BY <2>2, <2>4, <2>5, SameSequence
    <2>7. FlattenSeq(One(u)) = FlattenSeq(One(t)) \o <<x>>
      <3> HIDE DEF One, u
      <3> QED BY <2>3, <2>6, FlattenAppend
    <2>8. t \o <<x>> = u
      OBVIOUS
    <2> HIDE DEF One
    <2> QED BY <1>2, <2>1, <2>7, <2>8
  <1>3. Seq(Byte) \subseteq P
    <2> HIDE DEF P
    <2> QED BY <1>1, <1>2, SeqInduct
  <1>4. FlattenSeq(One(s)) = s
    <2> HIDE DEF One
    <2> QED BY <1>3
  <1> QED BY <1>0, <1>4

LEMMA U8ItemsStand ==
    ASSUME NEW b \in Seq(Byte), NEW n \in 0 .. Len(b), NEW k \in Nat, NEW w, NEW p,
           Stands(p, b, n, k, w), NEW s \in Seq(Byte), Here(b, k, s)
    PROVE  Stands(U8Items(p, Len(s)), b, n, k + Len(s), s)
  <1> DEFINE seqs == [i \in 1 .. Len(s) |-> <<s[i]>>]
  <1>0. Len(s) \in Nat
    OBVIOUS
  <1>1. seqs \in Seq(Seq(Byte)) /\ Len(seqs) = Len(s) /\ FlattenSeq(seqs) = s
    BY FlattenBytes
  <1>2. \A i \in 1 .. Len(s) : seqs[i] = <<s[i]>> /\ Len(seqs[i]) = 1 /\ s[i] \in Byte
    OBVIOUS
  <1> HIDE DEF seqs
  <1>3. p.err # "nil" => U8Items(p, Len(s)) = p
    BY DEF U8Items, ReadItems
  <1>4. ASSUME p.err = "nil"
        PROVE  \E r :
              /\ r[0] = Value(p, <<>>) /\ U8Items(p, Len(s)) = r[Len(s)]
              /\ \A i \in 1 .. Len(s) : \A j \in Nat : \A v :
                    Here(b, j, seqs[i]) /\ Stands(r[i - 1], b, n, j, v)
                    => \E q : /\ r[i] = Push(r[i - 1], q)
                              /\ Stands(q, b, n, j + Len(seqs[i]), s[i])
    <2>1. PICK r : /\ r[0] = Value(p, <<>>) /\ U8Items(p, Len(s)) = r[Len(s)]
                   /\ \A i \in 1 .. Len(s) : r[i] = Push(r[i - 1], ReadU8(r[i - 1], i))
      <3>1. PICK c \in Nat : c = Len(s)
        BY <1>0
      <3>2. \E r : /\ r[0] = Value(p, <<>>) /\ U8Items(p, c) = r[c]
                   /\ \A i \in 1 .. c : r[i] = Push(r[i - 1], ReadU8(r[i - 1], i))
        BY <1>4, U8Unfold
      <3> QED BY <3>1, <3>2
    <2>2. ASSUME NEW i \in 1 .. Len(s), NEW j \in Nat, NEW v, Here(b, j, seqs[i]),
                 Stands(r[i - 1], b, n, j, v)
          PROVE  Stands(ReadU8(r[i - 1], i), b, n, j + Len(seqs[i]), s[i])
      <3>1. Here(b, j, <<s[i]>>) /\ s[i] \in Byte
        BY <1>2, <2>2
      <3>2. Stands(ReadUint(r[i - 1], 1), b, n, j + 1, s[i])
        BY <2>2, <3>1, ReadU8Stands
      <3> QED BY <1>2, <3>2 DEF ReadU8
    <2> QED BY <2>1, <2>2
  <1>5. Here(b, k, FlattenSeq(seqs))
    BY <1>1
  <1>6. Stands(U8Items(p, Len(s)), b, n, k + Len(FlattenSeq(seqs)), s)
    <2>1. p.err = "nil" => \E r :
              /\ r[0] = Value(p, <<>>) /\ U8Items(p, Len(s)) = r[Len(seqs)]
              /\ \A i \in 1 .. Len(seqs) : \A j \in Nat : \A v :
                    Here(b, j, seqs[i]) /\ Stands(r[i - 1], b, n, j, v)
                    => \E q : /\ r[i] = Push(r[i - 1], q)
                              /\ Stands(q, b, n, j + Len(seqs[i]), s[i])
      BY <1>1, <1>4
    <2> QED BY <1>1, <1>3, <1>5, <2>1, AllItemsStand
  <1> QED BY <1>1, <1>6

\* A length and as many bytes.
LEMMA PrefixedBytes ==
    ASSUME NEW e \in Seq(Byte), Len(e) <= MaxU16
    PROVE  /\ Len(e) \in 0 .. MaxU16 /\ EncodeShortvec(Len(e)) \in Seq(Byte)
           /\ Len(EncodeShortvec(Len(e))) = SvSize(Len(e)) /\ SvSize(Len(e)) \in 1 .. 3
           /\ Prefixed(e) \in Seq(Byte) /\ Len(Prefixed(e)) = SvSize(Len(e)) + Len(e)
           /\ Prefixed(e) = EncodeShortvec(Len(e)) \o e
  <1>1. Len(e) \in 0 .. MaxU16
    BY Sizes DEF MaxU16
  <1>2. /\ EncodeShortvec(Len(e)) \in Seq(Byte)
        /\ Len(EncodeShortvec(Len(e))) = SvSize(Len(e)) /\ SvSize(Len(e)) \in 1 .. 3
    BY <1>1, ShortvecBytes
  <1>3. Prefixed(e) = EncodeShortvec(Len(e)) \o e
    BY DEF Prefixed
  <1>4. Prefixed(e) \in Seq(Byte) /\ Len(Prefixed(e)) = SvSize(Len(e)) + Len(e)
    BY <1>2, <1>3, ConcatProperties
  <1> QED BY <1>1, <1>2, <1>3, <1>4

LEMMA ReadPrefixedStands ==
    ASSUME NEW b \in Seq(Byte), NEW n \in 0 .. Len(b), NEW k \in Nat, NEW w, NEW p,
           Stands(p, b, n, k, w), NEW e \in Seq(Byte), Len(e) <= MaxU16, Here(b, k, Prefixed(e))
    PROVE  Stands(ReadPrefixed(p), b, n, k + Len(Prefixed(e)), e)
  <1> DEFINE s == EncodeShortvec(Len(e))
             l == SvSize(Len(e))
             c == ReadShortvec(p)
  <1>1. /\ Len(e) \in 0 .. MaxU16 /\ s \in Seq(Byte) /\ Len(s) = l /\ l \in Nat
        /\ Len(Prefixed(e)) = l + Len(e) /\ Prefixed(e) = s \o e /\ Len(e) \in Nat
    BY PrefixedBytes
  <1>2. Here(b, k, s) /\ Here(b, k + l, e)
    <2> HIDE DEF s, l
    <2>1. Here(b, k, s \o e)
      BY <1>1
    <2> QED BY <1>1, <2>1, HereConcat
  <1>3. Stands(c, b, n, k + l, Len(e))
    BY <1>1, <1>2, ReadShortvecStands
  <1>4. ReadPrefixed(p) = ReadBytes(c, c.val)
    BY DEF ReadPrefixed
  <1> HIDE DEF s, l, c
  <1>5. c.err # "nil" \/ c.val = Len(e)
    BY <1>3 DEF Stands, State
  <1>6. ReadBytes(c, c.val) = ReadBytes(c, Len(e))
    BY <1>5 DEF ReadBytes
  <1>7. Stands(ReadBytes(c, Len(e)), b, n, k + l + Len(e), e)
    BY <1>1, <1>2, <1>3, ReadBytesStands
  <1>8. k + l + Len(e) = k + Len(Prefixed(e))
    BY <1>1
  <1> QED BY <1>4, <1>6, <1>7, <1>8

--------------------------------------------------------------------------------
(***************************************************************************)
(* Instructions and lookups.                                                *)
(***************************************************************************)
LEMMA ConcatBytes ==
    ASSUME NEW d \in Seq(Byte), NEW e \in Seq(Byte)
    PROVE  d \o e \in Seq(Byte) /\ Len(d \o e) = Len(d) + Len(e) /\ Len(d) \in Nat /\ Len(e) \in Nat
  BY ConcatProperties

LEMMA DecodeInstructionStands ==
    ASSUME NEW b \in Seq(Byte), NEW n \in 0 .. Len(b), NEW k \in Nat, NEW w, NEW p,
           Stands(p, b, n, k, w), NEW ix \in Instruction,
           Len(ix.accounts) <= MaxU16, Len(ix.data) <= MaxU16,
           Here(b, k, MarshalInstruction(ix)), NEW i
    PROVE  Stands(DecodeInstruction(p, i), b, n, k + Len(MarshalInstruction(ix)), ix)
  <1> DEFINE e == <<ix.program>>
             d == Prefixed(ix.accounts)
             f == Prefixed(ix.data)
             k1 == k + 1
             k2 == k1 + Len(d)
             k3 == k2 + Len(f)
  <1>0. /\ ix.program \in Byte /\ ix.accounts \in Seq(Byte) /\ ix.data \in Seq(Byte)
        /\ ix = [program |-> ix.program, accounts |-> ix.accounts, data |-> ix.data]
    BY DEF Instruction
  <1>1. e \in Seq(Byte) /\ Len(e) = 1 /\ d \in Seq(Byte) /\ f \in Seq(Byte)
    BY <1>0, PrefixedBytes
  <1>2. Here(b, k, (e \o d) \o f)
    BY DEF MarshalInstruction
  <1>3. MarshalInstruction(ix) = (e \o d) \o f
    BY DEF MarshalInstruction
  <1> HIDE DEF e, d, f
  <1>4. /\ Here(b, k, e) /\ Here(b, k1, d) /\ Here(b, k2, f)
        /\ k1 \in Nat /\ k2 \in Nat /\ k3 \in Nat /\ k <= k1 /\ k1 <= k2 /\ k2 <= k3
        /\ k + Len(MarshalInstruction(ix)) = k3
    <2>1. /\ e \o d \in Seq(Byte) /\ Len(e \o d) = 1 + Len(d) /\ Len(d) \in Nat
          /\ Len((e \o d) \o f) = 1 + Len(d) + Len(f) /\ Len(f) \in Nat
      <3>0. e \o d \in Seq(Byte) /\ Len(e \o d) = Len(e) + Len(d) /\ Len(d) \in Nat
        BY <1>1, ConcatBytes
      <3>1. e \o d \in Seq(Byte) /\ Len(e \o d) = 1 + Len(d) /\ Len(d) \in Nat
        BY <1>1, <3>0
      <3>2. Len((e \o d) \o f) = Len(e \o d) + Len(f) /\ Len(f) \in Nat
        BY <1>1, <3>1, ConcatBytes
      <3> QED BY <3>1, <3>2
    <2>2. Here(b, k, e \o d) /\ Here(b, k + Len(e \o d), f)
      BY <1>1, <1>2, <2>1, HereConcat
    <2>3. Here(b, k, e) /\ Here(b, k + Len(e), d)
      BY <1>1, <2>2, HereConcat
    <2>4. k + Len(e \o d) = k2 /\ k + Len(e) = k1 /\ k + Len(MarshalInstruction(ix)) = k3
      BY <1>1, <1>3, <2>1
    <2> QED BY <2>1, <2>2, <2>3, <2>4
  <1> DEFINE v0 == [program |-> 0, accounts |-> <<>>, data |-> <<>>]
             v1 == [v0 EXCEPT !["program"] = ix.program]
             v2 == [v1 EXCEPT !["accounts"] = ix.accounts]
             v3 == [v2 EXCEPT !["data"] = ix.data]
             p0 == Value(p, v0)
             p1 == UintField(p0, "program", 1)
             p2 == PrefixedField(p1, "accounts")
             p3 == PrefixedField(p2, "data")
  <1>5. DecodeInstruction(p, i) = p3
    BY DEF DecodeInstruction
  <1>6. v3 = ix
    BY <1>0
  <1> HIDE DEF k1, k2, k3
  <1>7. Stands(p0, b, n, k, v0)
    BY ValueStands
  <1> HIDE DEF v0, p0
  <1>n. n \in Nat
    OBVIOUS
  <1>8. Stands(p1, b, n, k1, v1)
    <2>1. Stands(ReadUint(p0, 1), b, n, k1, ix.program)
      BY <1>0, <1>4, <1>7, ReadU8Stands DEF e, k1
    <2> QED BY <1>n, <1>4, <1>7, <2>1, FieldStands DEF UintField
  <1> HIDE DEF v1, p1
  <1>9. Stands(p2, b, n, k2, v2)
    <2>1. Stands(ReadPrefixed(p1), b, n, k2, ix.accounts)
      BY <1>0, <1>4, <1>8, ReadPrefixedStands DEF d, k2
    <2> QED BY <1>n, <1>4, <1>8, <2>1, FieldStands DEF PrefixedField
  <1> HIDE DEF v2, p2
  <1>10. Stands(p3, b, n, k3, v3)
    <2>1. Stands(ReadPrefixed(p2), b, n, k3, ix.data)
      BY <1>0, <1>4, <1>9, ReadPrefixedStands DEF f, k3
    <2> QED BY <1>n, <1>4, <1>9, <2>1, FieldStands DEF PrefixedField
  <1> HIDE DEF v3, p3
  <1> QED BY <1>4, <1>5, <1>6, <1>10

LEMMA DecodeLookupStands ==
    ASSUME NEW b \in Seq(Byte), NEW n \in 0 .. Len(b), NEW k \in Nat, NEW w, NEW p,
           Stands(p, b, n, k, w), NEW lk \in AddressTableLookup,
           Len(lk.writable) <= MaxU16, Len(lk.readonly) <= MaxU16,
           Here(b, k, MarshalLookup(lk)), NEW i
    PROVE  Stands(DecodeLookup(p, i), b, n, k + Len(MarshalLookup(lk)), lk)
  <1> DEFINE e == lk.key
             d == Prefixed(lk.writable)
             f == Prefixed(lk.readonly)
             k1 == k + KeySize
             k2 == k1 + Len(d)
             k3 == k2 + Len(f)
  <1>0. /\ lk.key \in OfSize(KeySize) /\ lk.writable \in Seq(Byte) /\ lk.readonly \in Seq(Byte)
        /\ lk = [key |-> lk.key, writable |-> lk.writable, readonly |-> lk.readonly]
    BY DEF AddressTableLookup
  <1>1. e \in Seq(Byte) /\ Len(e) = KeySize /\ KeySize \in Nat /\ d \in Seq(Byte) /\ f \in Seq(Byte)
    <2>1. KeySize \in Nat
      BY Sizes
    <2>2. e \in Seq(Byte) /\ Len(e) = KeySize
      BY <1>0, <2>1, FixedBytes
    <2> QED BY <1>0, <2>1, <2>2, PrefixedBytes
  <1>2. Here(b, k, (e \o d) \o f)
    BY DEF MarshalLookup
  <1>3. MarshalLookup(lk) = (e \o d) \o f
    BY DEF MarshalLookup
  <1> HIDE DEF e, d, f
  <1>4. /\ Here(b, k, e) /\ Here(b, k1, d) /\ Here(b, k2, f)
        /\ k1 \in Nat /\ k2 \in Nat /\ k3 \in Nat /\ k <= k1 /\ k1 <= k2 /\ k2 <= k3
        /\ k + Len(MarshalLookup(lk)) = k3
    <2>1. /\ e \o d \in Seq(Byte) /\ Len(e \o d) = KeySize + Len(d) /\ Len(d) \in Nat
          /\ Len((e \o d) \o f) = KeySize + Len(d) + Len(f) /\ Len(f) \in Nat
      <3>1. e \o d \in Seq(Byte) /\ Len(e \o d) = KeySize + Len(d) /\ Len(d) \in Nat
        BY <1>1, ConcatBytes
      <3>2. Len((e \o d) \o f) = Len(e \o d) + Len(f) /\ Len(f) \in Nat
        BY <1>1, <3>1, ConcatBytes
      <3> QED BY <3>1, <3>2
    <2>2. Here(b, k, e \o d) /\ Here(b, k + Len(e \o d), f)
      BY <1>1, <1>2, <2>1, HereConcat
    <2>3. Here(b, k, e) /\ Here(b, k + Len(e), d)
      BY <1>1, <2>2, HereConcat
    <2>4. k + Len(e \o d) = k2 /\ k + Len(e) = k1 /\ k + Len(MarshalLookup(lk)) = k3
      BY <1>1, <1>3, <2>1
    <2> QED BY <1>1, <2>1, <2>2, <2>3, <2>4
  <1> DEFINE v0 == [key |-> <<>>, writable |-> <<>>, readonly |-> <<>>]
             v1 == [v0 EXCEPT !["key"] = lk.key]
             v2 == [v1 EXCEPT !["writable"] = lk.writable]
             v3 == [v2 EXCEPT !["readonly"] = lk.readonly]
             p0 == Value(p, v0)
             p1 == BytesField(p0, "key", KeySize)
             p2 == PrefixedField(p1, "writable")
             p3 == PrefixedField(p2, "readonly")
  <1>5. DecodeLookup(p, i) = p3
    BY DEF DecodeLookup
  <1>6. v3 = lk
    BY <1>0
  <1> HIDE DEF k1, k2, k3
  <1>7. Stands(p0, b, n, k, v0)
    BY ValueStands
  <1> HIDE DEF v0, p0
  <1>n. n \in Nat
    OBVIOUS
  <1>8. Stands(p1, b, n, k1, v1)
    <2>1. Stands(ReadBytes(p0, Len(e)), b, n, k + Len(e), e)
      BY <1>1, <1>4, <1>7, ReadBytesStands
    <2>2. Stands(ReadBytes(p0, KeySize), b, n, k1, lk.key)
      BY <1>1, <2>1 DEF e, k1
    <2> QED BY <1>n, <1>4, <1>7, <2>2, FieldStands DEF BytesField
  <1> HIDE DEF v1, p1
  <1>9. Stands(p2, b, n, k2, v2)
    <2>1. Stands(ReadPrefixed(p1), b, n, k2, lk.writable)
      BY <1>0, <1>4, <1>8, ReadPrefixedStands DEF d, k2
    <2> QED BY <1>n, <1>4, <1>8, <2>1, FieldStands DEF PrefixedField
  <1> HIDE DEF v2, p2
  <1>10. Stands(p3, b, n, k3, v3)
    <2>1. Stands(ReadPrefixed(p2), b, n, k3, lk.readonly)
      BY <1>0, <1>4, <1>9, ReadPrefixedStands DEF f, k3
    <2> QED BY <1>n, <1>4, <1>9, <2>1, FieldStands DEF PrefixedField
  <1> HIDE DEF v3, p3
  <1> QED BY <1>4, <1>5, <1>6, <1>10

\* All the instructions, or lookups, of a message.
LEMMA MarshalInstructionBytes ==
    ASSUME NEW ix \in Instruction, Len(ix.accounts) <= MaxU16, Len(ix.data) <= MaxU16
    PROVE  /\ MarshalInstruction(ix) \in Seq(Byte)
           /\ Len(MarshalInstruction(ix)) = 1 + SizeOf(ix.accounts) + SizeOf(ix.data)
  <1> DEFINE e == <<ix.program>>
             d == Prefixed(ix.accounts)
             f == Prefixed(ix.data)
  <1>0. ix.program \in Byte /\ ix.accounts \in Seq(Byte) /\ ix.data \in Seq(Byte)
    BY DEF Instruction
  <1>1. /\ e \in Seq(Byte) /\ Len(e) = 1 /\ d \in Seq(Byte) /\ f \in Seq(Byte)
        /\ Len(d) = SizeOf(ix.accounts) /\ Len(f) = SizeOf(ix.data)
    BY <1>0, PrefixedBytes DEF SizeOf
  <1>2. MarshalInstruction(ix) = (e \o d) \o f
    BY DEF MarshalInstruction
  <1> HIDE DEF e, d, f
  <1>3. e \o d \in Seq(Byte) /\ Len(e \o d) = 1 + Len(d) /\ Len(d) \in Nat
    BY <1>1, ConcatBytes
  <1>4. (e \o d) \o f \in Seq(Byte) /\ Len((e \o d) \o f) = Len(e \o d) + Len(f) /\ Len(f) \in Nat
    BY <1>1, <1>3, ConcatBytes
  <1> QED BY <1>1, <1>2, <1>3, <1>4

LEMMA MarshalLookupBytes ==
    ASSUME NEW lk \in AddressTableLookup, Len(lk.writable) <= MaxU16, Len(lk.readonly) <= MaxU16
    PROVE  /\ MarshalLookup(lk) \in Seq(Byte)
           /\ Len(MarshalLookup(lk)) = KeySize + SizeOf(lk.writable) + SizeOf(lk.readonly)
  <1> DEFINE e == lk.key
             d == Prefixed(lk.writable)
             f == Prefixed(lk.readonly)
  <1>0. lk.key \in OfSize(KeySize) /\ lk.writable \in Seq(Byte) /\ lk.readonly \in Seq(Byte)
        /\ KeySize \in Nat
    BY Sizes DEF AddressTableLookup
  <1>1. /\ e \in Seq(Byte) /\ Len(e) = KeySize /\ d \in Seq(Byte) /\ f \in Seq(Byte)
        /\ Len(d) = SizeOf(lk.writable) /\ Len(f) = SizeOf(lk.readonly)
    BY <1>0, PrefixedBytes, FixedBytes DEF SizeOf
  <1>2. MarshalLookup(lk) = (e \o d) \o f
    BY DEF MarshalLookup
  <1> HIDE DEF e, d, f
  <1>3. e \o d \in Seq(Byte) /\ Len(e \o d) = KeySize + Len(d) /\ Len(d) \in Nat
    BY <1>1, ConcatBytes
  <1>4. (e \o d) \o f \in Seq(Byte) /\ Len((e \o d) \o f) = Len(e \o d) + Len(f) /\ Len(f) \in Nat
    BY <1>1, <1>3, ConcatBytes
  <1> QED BY <1>1, <1>2, <1>3, <1>4


LEMMA InstructionEncodings ==
    ASSUME NEW ixs \in Seq(Instruction),
           \A i \in 1 .. Len(ixs) :
              Len(ixs[i].accounts) <= MaxU16 /\ Len(ixs[i].data) <= MaxU16
    PROVE  /\ [i \in DOMAIN ixs |-> MarshalInstruction(ixs[i])] \in Seq(Seq(Byte))
           /\ Len([i \in DOMAIN ixs |-> MarshalInstruction(ixs[i])]) = Len(ixs)
           /\ \A i \in 1 .. Len(ixs) :
                 [j \in DOMAIN ixs |-> MarshalInstruction(ixs[j])][i] = MarshalInstruction(ixs[i])
  <1>1. DOMAIN ixs = 1 .. Len(ixs) /\ Len(ixs) \in Nat
    OBVIOUS
  <1>2. \A i \in 1 .. Len(ixs) : MarshalInstruction(ixs[i]) \in Seq(Byte)
    <2> TAKE i \in 1 .. Len(ixs)
    <2> ixs[i] \in Instruction
      OBVIOUS
    <2> QED BY MarshalInstructionBytes
  <1> QED BY <1>1, <1>2

LEMMA InstructionItemsStand ==
    ASSUME NEW b \in Seq(Byte), NEW n \in 0 .. Len(b), NEW k \in Nat, NEW w, NEW p,
           Stands(p, b, n, k, w), NEW ixs \in Seq(Instruction),
           \A i \in 1 .. Len(ixs) :
              Len(ixs[i].accounts) <= MaxU16 /\ Len(ixs[i].data) <= MaxU16,
           NEW seqs, seqs = [i \in DOMAIN ixs |-> MarshalInstruction(ixs[i])],
           Here(b, k, FlattenSeq(seqs))
    PROVE  Stands(InstructionItems(p, Len(ixs)), b, n, k + Len(FlattenSeq(seqs)), ixs)
  <1>0. Len(ixs) \in Nat
    OBVIOUS
  <1>1. /\ seqs \in Seq(Seq(Byte)) /\ Len(seqs) = Len(ixs)
        /\ \A i \in 1 .. Len(ixs) : seqs[i] = MarshalInstruction(ixs[i])
    BY InstructionEncodings
  <1>3. p.err # "nil" => InstructionItems(p, Len(ixs)) = p
    BY DEF InstructionItems, ReadItems
  <1>4. ASSUME p.err = "nil"
        PROVE  \E r :
              /\ r[0] = Value(p, <<>>) /\ InstructionItems(p, Len(ixs)) = r[Len(seqs)]
              /\ \A i \in 1 .. Len(seqs) : \A j \in Nat : \A v :
                    Here(b, j, seqs[i]) /\ Stands(r[i - 1], b, n, j, v)
                    => \E q : /\ r[i] = Push(r[i - 1], q)
                              /\ Stands(q, b, n, j + Len(seqs[i]), ixs[i])
    <2>1. PICK r : /\ r[0] = Value(p, <<>>) /\ InstructionItems(p, Len(ixs)) = r[Len(ixs)]
                   /\ \A i \in 1 .. Len(ixs) :
                         r[i] = Push(r[i - 1], DecodeInstruction(r[i - 1], i))
      <3>1. PICK c \in Nat : c = Len(ixs)
        BY <1>0
      <3>2. \E r : /\ r[0] = Value(p, <<>>) /\ InstructionItems(p, c) = r[c]
                   /\ \A i \in 1 .. c : r[i] = Push(r[i - 1], DecodeInstruction(r[i - 1], i))
        BY <1>4, InstructionUnfold
      <3> QED BY <3>1, <3>2
    <2>2. ASSUME NEW i \in 1 .. Len(ixs), NEW j \in Nat, NEW v, Here(b, j, seqs[i]),
                 Stands(r[i - 1], b, n, j, v)
          PROVE  Stands(DecodeInstruction(r[i - 1], i), b, n, j + Len(seqs[i]), ixs[i])
      <3>1. /\ ixs[i] \in Instruction /\ Len(ixs[i].accounts) <= MaxU16
            /\ Len(ixs[i].data) <= MaxU16
        OBVIOUS
      <3>2. Here(b, j, MarshalInstruction(ixs[i])) /\ seqs[i] = MarshalInstruction(ixs[i])
        BY <1>1, <2>2
      <3> DEFINE x == ixs[i]
                 q == r[i - 1]
      <3>3. x \in Instruction /\ Len(x.accounts) <= MaxU16 /\ Len(x.data) <= MaxU16
            /\ Here(b, j, MarshalInstruction(x)) /\ Stands(q, b, n, j, v)
        BY <2>2, <3>1, <3>2
      <3> HIDE DEF x, q
      <3>4. Stands(DecodeInstruction(q, i), b, n, j + Len(MarshalInstruction(x)), x)
        BY <3>3, DecodeInstructionStands
      <3> QED BY <3>2, <3>4 DEF x, q
    <2> QED BY <1>1, <2>1, <2>2
  <1> QED BY <1>1, <1>3, <1>4, AllItemsStand

LEMMA LookupEncodings ==
    ASSUME NEW lks \in Seq(AddressTableLookup),
           \A i \in 1 .. Len(lks) :
              Len(lks[i].writable) <= MaxU16 /\ Len(lks[i].readonly) <= MaxU16
    PROVE  /\ [i \in DOMAIN lks |-> MarshalLookup(lks[i])] \in Seq(Seq(Byte))
           /\ Len([i \in DOMAIN lks |-> MarshalLookup(lks[i])]) = Len(lks)
           /\ \A i \in 1 .. Len(lks) :
                 [j \in DOMAIN lks |-> MarshalLookup(lks[j])][i] = MarshalLookup(lks[i])
  <1>1. DOMAIN lks = 1 .. Len(lks) /\ Len(lks) \in Nat
    OBVIOUS
  <1>2. \A i \in 1 .. Len(lks) : MarshalLookup(lks[i]) \in Seq(Byte)
    <2> TAKE i \in 1 .. Len(lks)
    <2> lks[i] \in AddressTableLookup
      OBVIOUS
    <2> QED BY MarshalLookupBytes
  <1> QED BY <1>1, <1>2

LEMMA LookupItemsStand ==
    ASSUME NEW b \in Seq(Byte), NEW n \in 0 .. Len(b), NEW k \in Nat, NEW w, NEW p,
           Stands(p, b, n, k, w), NEW lks \in Seq(AddressTableLookup),
           \A i \in 1 .. Len(lks) :
              Len(lks[i].writable) <= MaxU16 /\ Len(lks[i].readonly) <= MaxU16,
           NEW seqs, seqs = [i \in DOMAIN lks |-> MarshalLookup(lks[i])],
           Here(b, k, FlattenSeq(seqs))
    PROVE  Stands(LookupItems(p, Len(lks)), b, n, k + Len(FlattenSeq(seqs)), lks)
  <1>0. Len(lks) \in Nat
    OBVIOUS
  <1>1. /\ seqs \in Seq(Seq(Byte)) /\ Len(seqs) = Len(lks)
        /\ \A i \in 1 .. Len(lks) : seqs[i] = MarshalLookup(lks[i])
    BY LookupEncodings
  <1>3. p.err # "nil" => LookupItems(p, Len(lks)) = p
    BY DEF LookupItems, ReadItems
  <1>4. ASSUME p.err = "nil"
        PROVE  \E r :
              /\ r[0] = Value(p, <<>>) /\ LookupItems(p, Len(lks)) = r[Len(seqs)]
              /\ \A i \in 1 .. Len(seqs) : \A j \in Nat : \A v :
                    Here(b, j, seqs[i]) /\ Stands(r[i - 1], b, n, j, v)
                    => \E q : /\ r[i] = Push(r[i - 1], q)
                              /\ Stands(q, b, n, j + Len(seqs[i]), lks[i])
    <2>1. PICK r : /\ r[0] = Value(p, <<>>) /\ LookupItems(p, Len(lks)) = r[Len(lks)]
                   /\ \A i \in 1 .. Len(lks) :
                         r[i] = Push(r[i - 1], DecodeLookup(r[i - 1], i))
      <3>1. PICK c \in Nat : c = Len(lks)
        BY <1>0
      <3>2. \E r : /\ r[0] = Value(p, <<>>) /\ LookupItems(p, c) = r[c]
                   /\ \A i \in 1 .. c : r[i] = Push(r[i - 1], DecodeLookup(r[i - 1], i))
        BY <1>4, LookupUnfold
      <3> QED BY <3>1, <3>2
    <2>2. ASSUME NEW i \in 1 .. Len(lks), NEW j \in Nat, NEW v, Here(b, j, seqs[i]),
                 Stands(r[i - 1], b, n, j, v)
          PROVE  Stands(DecodeLookup(r[i - 1], i), b, n, j + Len(seqs[i]), lks[i])
      <3>1. /\ lks[i] \in AddressTableLookup /\ Len(lks[i].writable) <= MaxU16
            /\ Len(lks[i].readonly) <= MaxU16
        OBVIOUS
      <3>2. Here(b, j, MarshalLookup(lks[i])) /\ seqs[i] = MarshalLookup(lks[i])
        BY <1>1, <2>2
      <3> DEFINE x == lks[i]
                 q == r[i - 1]
      <3>3. x \in AddressTableLookup /\ Len(x.writable) <= MaxU16 /\ Len(x.readonly) <= MaxU16
            /\ Here(b, j, MarshalLookup(x)) /\ Stands(q, b, n, j, v)
        BY <2>2, <3>1, <3>2
      <3> HIDE DEF x, q
      <3>4. Stands(DecodeLookup(q, i), b, n, j + Len(MarshalLookup(x)), x)
        BY <3>3, DecodeLookupStands
      <3> QED BY <3>2, <3>4 DEF x, q
    <2> QED BY <1>1, <2>1, <2>2
  <1> QED BY <1>1, <1>3, <1>4, AllItemsStand

LEMMA KeyVecStands ==
    ASSUME NEW b \in Seq(Byte), NEW n \in 0 .. Len(b), NEW k \in Nat, NEW w, NEW p,
           Stands(p, b, n, k, w), NEW xs \in Seq(OfSize(KeySize)), Len(xs) <= MaxU16,
           NEW seqs, seqs = xs, Here(b, k, PrefixedItems(seqs)), NEW f
    PROVE  /\ Stands(KeyItems(ReadShortvec(p), ReadShortvec(p).val), b, n,
                     k + Len(PrefixedItems(seqs)), xs)
           /\ VecField(p, f, ReadKey) = Field(p, f, KeyItems(ReadShortvec(p), ReadShortvec(p).val))
           /\ Len(PrefixedItems(seqs)) \in Nat
  <1> DEFINE s == EncodeShortvec(Len(xs))
             l == SvSize(Len(xs))
             c == ReadShortvec(p)
             e == FlattenSeq(seqs)
  <1>0. Len(xs) \in 0 .. MaxU16 /\ Len(xs) \in Nat
    BY Sizes DEF MaxU16
  <1>1. seqs \in Seq(Seq(Byte)) /\ Len(seqs) = Len(xs)
    <2>1. KeySize \in Nat
      BY Sizes
    <2>2. \A i \in 1 .. Len(xs) : xs[i] \in Seq(Byte)
      BY <2>1, FixedBytes
    <2> QED BY <2>2
  <1>2. s \in Seq(Byte) /\ Len(s) = l /\ l \in Nat /\ e \in Seq(Byte) /\ Len(e) \in Nat
    <2>1. s \in Seq(Byte) /\ Len(s) = l /\ l \in 1 .. 3
      BY <1>0, ShortvecBytes
    <2>2. e \in Seq(Byte)
      BY <1>1, FlattenElements
    <2> HIDE DEF s, e, l
    <2> QED BY <2>1, <2>2
  <1>3. PrefixedItems(seqs) = s \o e
    BY <1>1 DEF PrefixedItems
  <1> HIDE DEF s, e, l
  <1>4. Here(b, k, s) /\ Here(b, k + l, e) /\ Len(PrefixedItems(seqs)) = l + Len(e)
    <2>1. Here(b, k, s \o e)
      BY <1>3
    <2>2. Here(b, k, s) /\ Here(b, k + Len(s), e) /\ Len(s \o e) = Len(s) + Len(e)
      <3>1. s \in Seq(Byte) /\ e \in Seq(Byte) /\ k \in Nat
        BY <1>2
      <3> QED BY <2>1, <3>1, HereConcat
    <2> QED BY <1>2, <1>3, <2>2
  <1>5. Stands(c, b, n, k + l, Len(xs))
    BY <1>0, <1>4, ReadShortvecStands DEF s, l
  <1>6. VecField(p, f, ReadKey) = Field(p, f, KeyItems(c, c.val))
    BY DEF VecField, ReadVec, KeyItems
  <1> HIDE DEF c
  <1>7. c.err # "nil" \/ c.val = Len(xs)
    BY <1>5 DEF Stands, State
  <1>8. KeyItems(c, c.val) = KeyItems(c, Len(xs))
    <2>1. CASE c.val = Len(xs)
      BY <2>1
    <2>2. CASE c.err # "nil"
      BY <2>2 DEF KeyItems, ReadItems
    <2> QED BY <1>7, <2>1, <2>2
  <1>9. Stands(KeyItems(c, Len(xs)), b, n, k + l + Len(e), xs)
    <2> k + l \in Nat
      BY <1>2
    <2> Here(b, k + l, FlattenSeq(seqs))
      BY <1>4 DEF e
    <2> QED BY <1>5, KeyItemsStand DEF e
  <1>10. k + l + Len(e) = k + Len(PrefixedItems(seqs)) /\ Len(PrefixedItems(seqs)) \in Nat
    <2> DEFINE x == Len(e)
               y == Len(PrefixedItems(seqs))
    <2>1. x \in Nat /\ l \in Nat /\ y = l + x
      BY <1>2, <1>4
    <2> HIDE DEF x, y
    <2>2. k + l + x = k + y /\ y \in Nat
      BY <2>1
    <2> QED BY <2>2 DEF x, y
  <1> QED BY <1>6, <1>8, <1>9, <1>10 DEF c

LEMMA SigVecStands ==
    ASSUME NEW b \in Seq(Byte), NEW n \in 0 .. Len(b), NEW k \in Nat, NEW w, NEW p,
           Stands(p, b, n, k, w), NEW xs \in Seq(OfSize(SigSize)), Len(xs) <= MaxU16,
           NEW seqs, seqs = xs, Here(b, k, PrefixedItems(seqs)), NEW f
    PROVE  /\ Stands(SigItems(ReadShortvec(p), ReadShortvec(p).val), b, n,
                     k + Len(PrefixedItems(seqs)), xs)
           /\ VecField(p, f, ReadSig) = Field(p, f, SigItems(ReadShortvec(p), ReadShortvec(p).val))
           /\ Len(PrefixedItems(seqs)) \in Nat
  <1> DEFINE s == EncodeShortvec(Len(xs))
             l == SvSize(Len(xs))
             c == ReadShortvec(p)
             e == FlattenSeq(seqs)
  <1>0. Len(xs) \in 0 .. MaxU16 /\ Len(xs) \in Nat
    BY Sizes DEF MaxU16
  <1>1. seqs \in Seq(Seq(Byte)) /\ Len(seqs) = Len(xs)
    <2>1. SigSize \in Nat
      BY Sizes
    <2>2. \A i \in 1 .. Len(xs) : xs[i] \in Seq(Byte)
      BY <2>1, FixedBytes
    <2> QED BY <2>2
  <1>2. s \in Seq(Byte) /\ Len(s) = l /\ l \in Nat /\ e \in Seq(Byte) /\ Len(e) \in Nat
    <2>1. s \in Seq(Byte) /\ Len(s) = l /\ l \in 1 .. 3
      BY <1>0, ShortvecBytes
    <2>2. e \in Seq(Byte)
      BY <1>1, FlattenElements
    <2> HIDE DEF s, e, l
    <2> QED BY <2>1, <2>2
  <1>3. PrefixedItems(seqs) = s \o e
    BY <1>1 DEF PrefixedItems
  <1> HIDE DEF s, e, l
  <1>4. Here(b, k, s) /\ Here(b, k + l, e) /\ Len(PrefixedItems(seqs)) = l + Len(e)
    <2>1. Here(b, k, s \o e)
      BY <1>3
    <2>2. Here(b, k, s) /\ Here(b, k + Len(s), e) /\ Len(s \o e) = Len(s) + Len(e)
      <3>1. s \in Seq(Byte) /\ e \in Seq(Byte) /\ k \in Nat
        BY <1>2
      <3> QED BY <2>1, <3>1, HereConcat
    <2> QED BY <1>2, <1>3, <2>2
  <1>5. Stands(c, b, n, k + l, Len(xs))
    BY <1>0, <1>4, ReadShortvecStands DEF s, l
  <1>6. VecField(p, f, ReadSig) = Field(p, f, SigItems(c, c.val))
    BY DEF VecField, ReadVec, SigItems
  <1> HIDE DEF c
  <1>7. c.err # "nil" \/ c.val = Len(xs)
    BY <1>5 DEF Stands, State
  <1>8. SigItems(c, c.val) = SigItems(c, Len(xs))
    <2>1. CASE c.val = Len(xs)
      BY <2>1
    <2>2. CASE c.err # "nil"
      BY <2>2 DEF SigItems, ReadItems
    <2> QED BY <1>7, <2>1, <2>2
  <1>9. Stands(SigItems(c, Len(xs)), b, n, k + l + Len(e), xs)
    <2> k + l \in Nat
      BY <1>2
    <2> Here(b, k + l, FlattenSeq(seqs))
      BY <1>4 DEF e
    <2> QED BY <1>5, SigItemsStand DEF e
  <1>10. k + l + Len(e) = k + Len(PrefixedItems(seqs)) /\ Len(PrefixedItems(seqs)) \in Nat
    <2> DEFINE x == Len(e)
               y == Len(PrefixedItems(seqs))
    <2>1. x \in Nat /\ l \in Nat /\ y = l + x
      BY <1>2, <1>4
    <2> HIDE DEF x, y
    <2>2. k + l + x = k + y /\ y \in Nat
      BY <2>1
    <2> QED BY <2>2 DEF x, y
  <1> QED BY <1>6, <1>8, <1>9, <1>10 DEF c

InstructionsFit(xs) ==
    \A i \in 1 .. Len(xs) : Len(xs[i].accounts) <= MaxU16 /\ Len(xs[i].data) <= MaxU16
InstructionsEncoded(seqs, xs) ==
    /\ seqs \in Seq(Seq(Byte)) /\ Len(seqs) = Len(xs)
    /\ \A i \in 1 .. Len(xs) : seqs[i] = MarshalInstruction(xs[i])

LEMMA InstructionVecStands ==
    ASSUME NEW b \in Seq(Byte), NEW n \in 0 .. Len(b), NEW k \in Nat, NEW w, NEW p,
           Stands(p, b, n, k, w), NEW xs \in Seq(Instruction), Len(xs) <= MaxU16,
           InstructionsFit(xs), NEW seqs, InstructionsEncoded(seqs, xs), Here(b, k, PrefixedItems(seqs)), NEW f
    PROVE  /\ Stands(InstructionItems(ReadShortvec(p), ReadShortvec(p).val), b, n,
                     k + Len(PrefixedItems(seqs)), xs)
           /\ VecField(p, f, DecodeInstruction) = Field(p, f, InstructionItems(ReadShortvec(p), ReadShortvec(p).val))
           /\ Len(PrefixedItems(seqs)) \in Nat
  <1> DEFINE s == EncodeShortvec(Len(xs))
             l == SvSize(Len(xs))
             c == ReadShortvec(p)
             e == FlattenSeq(seqs)
  <1>0. Len(xs) \in 0 .. MaxU16 /\ Len(xs) \in Nat
    BY Sizes DEF MaxU16
  <1>1. /\ seqs \in Seq(Seq(Byte)) /\ Len(seqs) = Len(xs)
        /\ seqs = [i \in DOMAIN xs |-> MarshalInstruction(xs[i])]
    BY DEF InstructionsEncoded
  <1>a. \A i \in 1 .. Len(xs) : Len(xs[i].accounts) <= MaxU16 /\ Len(xs[i].data) <= MaxU16
    BY DEF InstructionsFit
  <1>2. s \in Seq(Byte) /\ Len(s) = l /\ l \in Nat /\ e \in Seq(Byte) /\ Len(e) \in Nat
    <2>1. s \in Seq(Byte) /\ Len(s) = l /\ l \in 1 .. 3
      BY <1>0, ShortvecBytes
    <2>2. e \in Seq(Byte)
      BY <1>1, FlattenElements
    <2> HIDE DEF s, e, l
    <2> QED BY <2>1, <2>2
  <1>3. PrefixedItems(seqs) = s \o e
    BY <1>1 DEF PrefixedItems
  <1> HIDE DEF s, e, l
  <1>4. Here(b, k, s) /\ Here(b, k + l, e) /\ Len(PrefixedItems(seqs)) = l + Len(e)
    <2>1. Here(b, k, s \o e)
      BY <1>3
    <2>2. Here(b, k, s) /\ Here(b, k + Len(s), e) /\ Len(s \o e) = Len(s) + Len(e)
      <3>1. s \in Seq(Byte) /\ e \in Seq(Byte) /\ k \in Nat
        BY <1>2
      <3> QED BY <2>1, <3>1, HereConcat
    <2> QED BY <1>2, <1>3, <2>2
  <1>5. Stands(c, b, n, k + l, Len(xs))
    BY <1>0, <1>4, ReadShortvecStands DEF s, l
  <1>6. VecField(p, f, DecodeInstruction) = Field(p, f, InstructionItems(c, c.val))
    BY DEF VecField, ReadVec, InstructionItems
  <1> HIDE DEF c
  <1>7. c.err # "nil" \/ c.val = Len(xs)
    BY <1>5 DEF Stands, State
  <1>8. InstructionItems(c, c.val) = InstructionItems(c, Len(xs))
    <2>1. CASE c.val = Len(xs)
      BY <2>1
    <2>2. CASE c.err # "nil"
      BY <2>2 DEF InstructionItems, ReadItems
    <2> QED BY <1>7, <2>1, <2>2
  <1>9. Stands(InstructionItems(c, Len(xs)), b, n, k + l + Len(e), xs)
    <2> k + l \in Nat
      BY <1>2
    <2> Here(b, k + l, FlattenSeq(seqs))
      BY <1>4 DEF e
    <2> QED BY <1>1, <1>5, <1>a, InstructionItemsStand DEF e
  <1>10. k + l + Len(e) = k + Len(PrefixedItems(seqs)) /\ Len(PrefixedItems(seqs)) \in Nat
    <2> DEFINE x == Len(e)
               y == Len(PrefixedItems(seqs))
    <2>1. x \in Nat /\ l \in Nat /\ y = l + x
      BY <1>2, <1>4
    <2> HIDE DEF x, y
    <2>2. k + l + x = k + y /\ y \in Nat
      BY <2>1
    <2> QED BY <2>2 DEF x, y
  <1> QED BY <1>6, <1>8, <1>9, <1>10 DEF c

LookupsFit(xs) ==
    \A i \in 1 .. Len(xs) : Len(xs[i].writable) <= MaxU16 /\ Len(xs[i].readonly) <= MaxU16
LookupsEncoded(seqs, xs) ==
    /\ seqs \in Seq(Seq(Byte)) /\ Len(seqs) = Len(xs)
    /\ \A i \in 1 .. Len(xs) : seqs[i] = MarshalLookup(xs[i])

LEMMA LookupVecStands ==
    ASSUME NEW b \in Seq(Byte), NEW n \in 0 .. Len(b), NEW k \in Nat, NEW w, NEW p,
           Stands(p, b, n, k, w), NEW xs \in Seq(AddressTableLookup), Len(xs) <= MaxU16,
           LookupsFit(xs), NEW seqs, LookupsEncoded(seqs, xs), Here(b, k, PrefixedItems(seqs)), NEW f
    PROVE  /\ Stands(LookupItems(ReadShortvec(p), ReadShortvec(p).val), b, n,
                     k + Len(PrefixedItems(seqs)), xs)
           /\ VecField(p, f, DecodeLookup) = Field(p, f, LookupItems(ReadShortvec(p), ReadShortvec(p).val))
           /\ Len(PrefixedItems(seqs)) \in Nat
  <1> DEFINE s == EncodeShortvec(Len(xs))
             l == SvSize(Len(xs))
             c == ReadShortvec(p)
             e == FlattenSeq(seqs)
  <1>0. Len(xs) \in 0 .. MaxU16 /\ Len(xs) \in Nat
    BY Sizes DEF MaxU16
  <1>1. /\ seqs \in Seq(Seq(Byte)) /\ Len(seqs) = Len(xs)
        /\ seqs = [i \in DOMAIN xs |-> MarshalLookup(xs[i])]
    BY DEF LookupsEncoded
  <1>a. \A i \in 1 .. Len(xs) : Len(xs[i].writable) <= MaxU16 /\ Len(xs[i].readonly) <= MaxU16
    BY DEF LookupsFit
  <1>2. s \in Seq(Byte) /\ Len(s) = l /\ l \in Nat /\ e \in Seq(Byte) /\ Len(e) \in Nat
    <2>1. s \in Seq(Byte) /\ Len(s) = l /\ l \in 1 .. 3
      BY <1>0, ShortvecBytes
    <2>2. e \in Seq(Byte)
      BY <1>1, FlattenElements
    <2> HIDE DEF s, e, l
    <2> QED BY <2>1, <2>2
  <1>3. PrefixedItems(seqs) = s \o e
    BY <1>1 DEF PrefixedItems
  <1> HIDE DEF s, e, l
  <1>4. Here(b, k, s) /\ Here(b, k + l, e) /\ Len(PrefixedItems(seqs)) = l + Len(e)
    <2>1. Here(b, k, s \o e)
      BY <1>3
    <2>2. Here(b, k, s) /\ Here(b, k + Len(s), e) /\ Len(s \o e) = Len(s) + Len(e)
      <3>1. s \in Seq(Byte) /\ e \in Seq(Byte) /\ k \in Nat
        BY <1>2
      <3> QED BY <2>1, <3>1, HereConcat
    <2> QED BY <1>2, <1>3, <2>2
  <1>5. Stands(c, b, n, k + l, Len(xs))
    BY <1>0, <1>4, ReadShortvecStands DEF s, l
  <1>6. VecField(p, f, DecodeLookup) = Field(p, f, LookupItems(c, c.val))
    BY DEF VecField, ReadVec, LookupItems
  <1> HIDE DEF c
  <1>7. c.err # "nil" \/ c.val = Len(xs)
    BY <1>5 DEF Stands, State
  <1>8. LookupItems(c, c.val) = LookupItems(c, Len(xs))
    <2>1. CASE c.val = Len(xs)
      BY <2>1
    <2>2. CASE c.err # "nil"
      BY <2>2 DEF LookupItems, ReadItems
    <2> QED BY <1>7, <2>1, <2>2
  <1>9. Stands(LookupItems(c, Len(xs)), b, n, k + l + Len(e), xs)
    <2> k + l \in Nat
      BY <1>2
    <2> Here(b, k + l, FlattenSeq(seqs))
      BY <1>4 DEF e
    <2> QED BY <1>1, <1>5, <1>a, LookupItemsStand DEF e
  <1>10. k + l + Len(e) = k + Len(PrefixedItems(seqs)) /\ Len(PrefixedItems(seqs)) \in Nat
    <2> DEFINE x == Len(e)
               y == Len(PrefixedItems(seqs))
    <2>1. x \in Nat /\ l \in Nat /\ y = l + x
      BY <1>2, <1>4
    <2> HIDE DEF x, y
    <2>2. k + l + x = k + y /\ y \in Nat
      BY <2>1
    <2> QED BY <2>2 DEF x, y
  <1> QED BY <1>6, <1>8, <1>9, <1>10 DEF c

--------------------------------------------------------------------------------
(***************************************************************************)
(* Messages.                                                               *)
(***************************************************************************)

\* a stands after x.
LEMMA NextPart ==
    ASSUME NEW b \in Seq(Byte), NEW k \in Nat, NEW x \in Seq(Byte), NEW a \in Seq(Byte),
           Here(b, k, x \o a)
    PROVE  /\ Here(b, k, x) /\ Here(b, k + Len(x), a)
           /\ k + Len(x \o a) = k + Len(x) + Len(a)
           /\ k + Len(x) \in Nat /\ k + Len(x \o a) \in Nat /\ k + Len(x) <= k + Len(x \o a)
           /\ k <= k + Len(x)
  <1>1. Here(b, k, x) /\ Here(b, k + Len(x), a) /\ Len(x \o a) = Len(x) + Len(a)
    BY HereConcat
  <1>2. Len(x) \in Nat /\ Len(a) \in Nat
    OBVIOUS
  <1> QED BY <1>1, <1>2

\* The versions are different, and Marshal of a valid message is what MarshalInto writes.
LEMMA Versions == Legacy \in Byte /\ Legacy # V0 /\ Legacy # V1 /\ V0 # V1 /\ Legacy >= 7
  BY Sizes DEF Legacy, V0, V1, Byte

LEMMA MessageParts ==
    ASSUME NEW m \in Message
    PROVE  /\ m.version \in Byte /\ m.header \in OfSize(3) /\ m.keys \in Seq(OfSize(KeySize))
           /\ m.hash \in OfSize(HashSize) /\ m.ixs \in Seq(Instruction)
           /\ m.lookups \in Seq(AddressTableLookup) /\ m.config \in Seq(Seq(Nat))
           /\ m = [version |-> m.version, header |-> m.header, keys |-> m.keys, hash |-> m.hash,
                   ixs |-> m.ixs, lookups |-> m.lookups, config |-> m.config]
  BY DEF Message

LEMMA MarshalledV0 ==
    ASSUME NEW m \in Message, m.version # V1, Marshal(m) # Refused
    PROVE  /\ m.version \in {Legacy, V0}
           /\ m.version # V0 => m.lookups = <<>>
           /\ Marshal(m) = MarshalV0(m) /\ CountsFit(m)
  <1>1. Validate(m) /\ Marshal(m) = MarshalInto(m)
    BY DEF Marshal
  <1>2. MarshalInto(m) = MarshalV0(m)
    BY DEF MarshalInto
  <1>3. CountsFit(m)
    BY <1>1, <1>2 DEF MarshalV0
  <1> QED BY <1>1, <1>2, <1>3 DEF Validate

LEMMA CountsFitFacts ==
    ASSUME NEW m \in Message, CountsFit(m)
    PROVE  /\ Len(m.keys) <= MaxU16 /\ Len(m.ixs) <= MaxU16
           /\ \A i \in 1 .. Len(m.ixs) :
                 Len(m.ixs[i].accounts) <= MaxU16 /\ Len(m.ixs[i].data) <= MaxU16
           /\ m.version = V0 =>
                 /\ Len(m.lookups) <= MaxU16
                 /\ \A i \in 1 .. Len(m.lookups) :
                       Len(m.lookups[i].writable) <= MaxU16 /\ Len(m.lookups[i].readonly) <= MaxU16
  <1>1. m.ixs \in Seq(Instruction) /\ m.lookups \in Seq(AddressTableLookup)
    BY MessageParts
  <1>2. \A i \in 1 .. Len(m.ixs) : m.ixs[i] \in ToSet(m.ixs)
    BY <1>1 DEF ToSet
  <1>3. \A i \in 1 .. Len(m.lookups) : m.lookups[i] \in ToSet(m.lookups)
    BY <1>1 DEF ToSet
  <1> QED BY <1>2, <1>3 DEF CountsFit

\* The parts of a legacy or v0 message.
PrefixOf(m) == IF m.version = Legacy THEN <<>> ELSE <<Cont + m.version>>
InstructionsOf(m) == [i \in DOMAIN m.ixs |-> MarshalInstruction(m.ixs[i])]
LookupsOf(m) == [i \in DOMAIN m.lookups |-> MarshalLookup(m.lookups[i])]
TableOf(m) == IF m.version = V0 THEN PrefixedItems(LookupsOf(m)) ELSE <<>>

LEMMA PrefixedItemsBytes ==
    ASSUME NEW seqs \in Seq(Seq(Byte)), Len(seqs) <= MaxU16
    PROVE  /\ PrefixedItems(seqs) \in Seq(Byte)
           /\ Len(PrefixedItems(seqs)) = SvSize(Len(seqs)) + Len(FlattenSeq(seqs))
           /\ SvSize(Len(seqs)) \in 1 .. 3 /\ Len(FlattenSeq(seqs)) \in Nat
  <1> DEFINE s == EncodeShortvec(Len(seqs))
             e == FlattenSeq(seqs)
  <1>0. Len(seqs) \in 0 .. MaxU16
    BY Sizes DEF MaxU16
  <1>1. s \in Seq(Byte) /\ Len(s) = SvSize(Len(seqs)) /\ SvSize(Len(seqs)) \in 1 .. 3
    BY <1>0, ShortvecBytes
  <1>2. e \in Seq(Byte)
    BY FlattenElements
  <1>3. PrefixedItems(seqs) = s \o e
    BY DEF PrefixedItems
  <1> HIDE DEF s, e
  <1>4. s \o e \in Seq(Byte) /\ Len(s \o e) = Len(s) + Len(e) /\ Len(e) \in Nat
    BY <1>1, <1>2, ConcatBytes
  <1> QED BY <1>1, <1>3, <1>4 DEF e

LEMMA PartsV0 ==
    ASSUME NEW m \in Message, m.version \in {Legacy, V0}, CountsFit(m)
    PROVE  /\ PrefixOf(m) \in Seq(Byte) /\ m.header \in Seq(Byte) /\ Len(m.header) = 3
           /\ m.keys \in Seq(Seq(Byte)) /\ PrefixedItems(m.keys) \in Seq(Byte)
           /\ m.hash \in Seq(Byte) /\ Len(m.hash) = HashSize
           /\ InstructionsOf(m) \in Seq(Seq(Byte)) /\ Len(InstructionsOf(m)) = Len(m.ixs)
           /\ PrefixedItems(InstructionsOf(m)) \in Seq(Byte)
           /\ m.version = V0 => /\ LookupsOf(m) \in Seq(Seq(Byte))
                                /\ Len(LookupsOf(m)) = Len(m.lookups)
           /\ TableOf(m) \in Seq(Byte)
  <1>1. PrefixOf(m) \in Seq(Byte)
    <2>1. Cont + V0 \in Byte
      BY Sizes DEF V0, Byte
    <2> QED BY <2>1, Versions DEF PrefixOf
  <1>2. m.header \in Seq(Byte) /\ Len(m.header) = 3
    BY MessageParts, FixedBytes, 3 \in Nat
  <1>3. m.hash \in Seq(Byte) /\ Len(m.hash) = HashSize
    BY MessageParts, FixedBytes, Sizes
  <1>4. m.keys \in Seq(Seq(Byte))
    <2>1. KeySize \in Nat /\ m.keys \in Seq(OfSize(KeySize))
      BY MessageParts, Sizes
    <2>2. \A i \in 1 .. Len(m.keys) : m.keys[i] \in Seq(Byte)
      BY <2>1, FixedBytes
    <2> QED BY <2>1, <2>2
  <1>5. Len(m.keys) <= MaxU16 /\ Len(m.ixs) <= MaxU16
    BY CountsFitFacts
  <1>6. InstructionsOf(m) \in Seq(Seq(Byte)) /\ Len(InstructionsOf(m)) = Len(m.ixs)
    <2> DEFINE ixs == m.ixs
    <2>1. ixs \in Seq(Instruction) /\ \A i \in 1 .. Len(ixs) :
                 Len(ixs[i].accounts) <= MaxU16 /\ Len(ixs[i].data) <= MaxU16
      BY MessageParts, CountsFitFacts
    <2>2. InstructionsOf(m) = [i \in DOMAIN ixs |-> MarshalInstruction(ixs[i])]
      BY DEF InstructionsOf
    <2> HIDE DEF ixs
    <2>3. InstructionsOf(m) \in Seq(Seq(Byte)) /\ Len(InstructionsOf(m)) = Len(ixs)
      BY <2>1, <2>2, InstructionEncodings
    <2> QED BY <2>3 DEF ixs
  <1>7. ASSUME m.version = V0
        PROVE  /\ LookupsOf(m) \in Seq(Seq(Byte)) /\ Len(LookupsOf(m)) = Len(m.lookups)
               /\ Len(m.lookups) <= MaxU16
    <2> DEFINE lks == m.lookups
    <2>1. lks \in Seq(AddressTableLookup) /\ \A i \in 1 .. Len(lks) :
                 Len(lks[i].writable) <= MaxU16 /\ Len(lks[i].readonly) <= MaxU16
      BY <1>7, MessageParts, CountsFitFacts
    <2>0. Len(m.lookups) <= MaxU16
      BY <1>7, CountsFitFacts
    <2>2. LookupsOf(m) = [i \in DOMAIN lks |-> MarshalLookup(lks[i])]
      BY DEF LookupsOf
    <2> HIDE DEF lks
    <2>3. LookupsOf(m) \in Seq(Seq(Byte)) /\ Len(LookupsOf(m)) = Len(lks)
      BY <2>1, <2>2, LookupEncodings
    <2> QED BY <2>0, <2>3 DEF lks
  <1>8. PrefixedItems(m.keys) \in Seq(Byte) /\ PrefixedItems(InstructionsOf(m)) \in Seq(Byte)
    BY <1>4, <1>5, <1>6, PrefixedItemsBytes
  <1>9. TableOf(m) \in Seq(Byte)
    <2>1. CASE m.version = V0
      BY <1>7, <2>1, PrefixedItemsBytes DEF TableOf
    <2>2. CASE m.version # V0
      BY <2>2 DEF TableOf
    <2> QED BY <2>1, <2>2
  <1> QED BY <1>1, <1>2, <1>3, <1>4, <1>6, <1>7, <1>8, <1>9

LEMMA MarshalV0Parts ==
    ASSUME NEW m \in Message, m.version \in {Legacy, V0}, CountsFit(m)
    PROVE  MarshalV0(m) = ((((PrefixOf(m) \o m.header) \o PrefixedItems(m.keys)) \o m.hash)
                           \o PrefixedItems(InstructionsOf(m))) \o TableOf(m)
  BY DEF MarshalV0, PrefixOf, InstructionsOf, TableOf, LookupsOf


\* Decoding a legacy or v0 message, once its prefix is read.
BodyV0(p) ==
    LookupsField(VecField(BytesField(VecField(ItemsField(p, "header", 3, ReadU8), "keys", ReadKey),
                                     "hash", HashSize), "ixs", DecodeInstruction))

LEMMA LookupsFieldStands ==
    ASSUME NEW b \in Seq(Byte), NEW n \in 0 .. Len(b), NEW k \in Nat, NEW v, NEW p,
           Stands(p, b, n, k, v), NEW m \in Message, m.version \in {Legacy, V0}, CountsFit(m),
           Here(b, k, TableOf(m)), v.version = m.version
    PROVE  Stands(LookupsField(p), b, n, k + Len(TableOf(m)),
                  IF m.version = V0 THEN [v EXCEPT !["lookups"] = m.lookups] ELSE v)
  <1>0. TableOf(m) \in Seq(Byte) /\ Len(TableOf(m)) \in Nat
    BY PartsV0
  <1>1. CASE m.version # V0
    <2>1. TableOf(m) = <<>> /\ Len(TableOf(m)) = 0 /\ k + 0 = k
      BY <1>1 DEF TableOf
    <2>2. LookupsField(p) = p
      <3>1. CASE k <= n
        BY <3>1, <1>1 DEF Stands, State, LookupsField
      <3>2. CASE ~(k <= n)
        BY <3>2 DEF Stands, LookupsField
      <3> QED BY <3>1, <3>2
    <2> QED BY <1>1, <2>1, <2>2
  <1>2. CASE m.version = V0
    <2> DEFINE t == PrefixedItems(LookupsOf(m))
               lks == m.lookups
               j == k + Len(TableOf(m))
    <2>1. TableOf(m) = t
      BY <1>2 DEF TableOf
    <2>2. lks \in Seq(AddressTableLookup) /\ Len(lks) <= MaxU16 /\ LookupsFit(lks)
      BY <1>2, MessageParts, CountsFitFacts DEF LookupsFit
    <2>3. LookupsOf(m) = [i \in DOMAIN lks |-> MarshalLookup(lks[i])]
      BY DEF LookupsOf
    <2>4. Here(b, k, PrefixedItems(LookupsOf(m)))
      BY <2>1
    <2>5. j \in Nat /\ k <= j /\ j = k + Len(PrefixedItems(LookupsOf(m)))
      BY <1>0, <2>1
    <2> HIDE DEF lks, t, j
    <2>6. /\ Stands(LookupItems(ReadShortvec(p), ReadShortvec(p).val), b, n, j, lks)
          /\ VecField(p, "lookups", DecodeLookup)
               = Field(p, "lookups", LookupItems(ReadShortvec(p), ReadShortvec(p).val))
      <3> DEFINE seqs == LookupsOf(m)
      <3>1. LookupsEncoded(seqs, lks) /\ Here(b, k, PrefixedItems(seqs))
        <4>1. seqs \in Seq(Seq(Byte)) /\ Len(seqs) = Len(lks)
          BY <1>2, PartsV0 DEF lks
        <4>2. \A i \in 1 .. Len(lks) : seqs[i] = MarshalLookup(lks[i])
          BY <2>2, <2>3
        <4> QED BY <2>4, <4>1, <4>2 DEF LookupsEncoded
      <3>2. j = k + Len(PrefixedItems(seqs))
        BY <2>5
      <3> HIDE DEF seqs
      <3>3. /\ Stands(LookupItems(ReadShortvec(p), ReadShortvec(p).val), b, n,
                      k + Len(PrefixedItems(seqs)), lks)
            /\ VecField(p, "lookups", DecodeLookup)
                 = Field(p, "lookups", LookupItems(ReadShortvec(p), ReadShortvec(p).val))
        BY <2>2, <3>1, LookupVecStands
      <3> QED BY <3>2, <3>3
    <2>7. Stands(VecField(p, "lookups", DecodeLookup), b, n, j, [v EXCEPT !["lookups"] = lks])
      <3>1. n \in Nat
        OBVIOUS
      <3> QED BY <3>1, <2>5, <2>6, FieldStands
    <2>8. CASE k <= n
      <3>1. p.err = "nil" /\ p.val.version = V0
        BY <2>8, <1>2 DEF Stands, State
      <3>2. LookupsField(p) = VecField(p, "lookups", DecodeLookup)
        BY <3>1 DEF LookupsField
      <3> QED BY <1>2, <2>7, <3>2 DEF lks, j
    <2>9. CASE ~(k <= n)
      <3>1. LookupsField(p) = p /\ p.err = "short"
        BY <2>9 DEF Stands, LookupsField
      <3>2. ~(j <= n)
        BY <2>5, <2>9
      <3> QED BY <3>1, <3>2 DEF Stands, j
    <2> QED BY <2>8, <2>9
  <1> QED BY <1>1, <1>2

LEMMA BodyV0Stands ==
    ASSUME NEW b \in Seq(Byte), NEW n \in 0 .. Len(b), NEW k \in Nat, NEW p,
           NEW m \in Message, m.version \in {Legacy, V0}, CountsFit(m),
           m.version # V0 => m.lookups = <<>>, m.config = <<>>, Here(b, k, MarshalV0(m)),
           Stands(p, b, n, k + Len(PrefixOf(m)), EmptyMessage(m.version))
    PROVE  Stands(BodyV0(p), b, n, k + Len(MarshalV0(m)), m)
  <1> DEFINE x1 == PrefixOf(m)
             x2 == x1 \o m.header
             a3 == PrefixedItems(m.keys)
             x3 == x2 \o a3
             x4 == x3 \o m.hash
             a5 == PrefixedItems(InstructionsOf(m))
             x5 == x4 \o a5
             a6 == TableOf(m)
             x6 == x5 \o a6
             v1 == EmptyMessage(m.version)
             v2 == [v1 EXCEPT !["header"] = m.header]
             v3 == [v2 EXCEPT !["keys"] = m.keys]
             v4 == [v3 EXCEPT !["hash"] = m.hash]
             v5 == [v4 EXCEPT !["ixs"] = m.ixs]
             v6 == IF m.version = V0 THEN [v5 EXCEPT !["lookups"] = m.lookups] ELSE v5
             p2 == ItemsField(p, "header", 3, ReadU8)
             p3 == VecField(p2, "keys", ReadKey)
             p4 == BytesField(p3, "hash", HashSize)
             p5 == VecField(p4, "ixs", DecodeInstruction)
  <1>1. /\ x1 \in Seq(Byte) /\ m.header \in Seq(Byte) /\ Len(m.header) = 3 /\ a3 \in Seq(Byte)
        /\ m.hash \in Seq(Byte) /\ Len(m.hash) = HashSize /\ a5 \in Seq(Byte) /\ a6 \in Seq(Byte)
    BY PartsV0
  <1>2. MarshalV0(m) = x6
    BY MarshalV0Parts
  <1>3. v6 = m /\ v5.version = m.version
    <2>1. v5 = [version |-> m.version, header |-> m.header, keys |-> m.keys, hash |-> m.hash,
                ixs |-> m.ixs, lookups |-> <<>>, config |-> <<>>]
      BY DEF EmptyMessage
    <2>2. CASE m.version = V0
      BY <2>1, <2>2, MessageParts
    <2>3. CASE m.version # V0
      BY <2>1, <2>3, MessageParts
    <2> QED BY <2>1, <2>2, <2>3
  <1>4. BodyV0(p) = LookupsField(p5)
    BY DEF BodyV0
  <1>5. Stands(p, b, n, k + Len(x1), v1)
    OBVIOUS
  <1>a. n \in Nat
    OBVIOUS
  <1> HIDE DEF x1, v1, v6
  <1>6. x2 \in Seq(Byte) /\ x3 \in Seq(Byte) /\ x4 \in Seq(Byte) /\ x5 \in Seq(Byte)
    BY <1>1
  <1> HIDE DEF x2, x3, x4, x5, x6, a3, a5, a6, v2, v3, v4, v5, p2, p3, p4, p5
  <1>7. Here(b, k, x5) /\ Here(b, k + Len(x5), a6) /\ k + Len(x6) = k + Len(x5) + Len(a6)
        /\ k + Len(x5) \in Nat
    <2>1. Here(b, k, x5 \o a6)
      BY <1>2 DEF x6
    <2>2. x5 \in Seq(Byte) /\ a6 \in Seq(Byte)
      BY <1>1, <1>6
    <2>3. /\ Here(b, k, x5) /\ Here(b, k + Len(x5), a6)
          /\ k + Len(x5 \o a6) = k + Len(x5) + Len(a6)
          /\ k + Len(x5) \in Nat /\ k + Len(x5) <= k + Len(x5 \o a6)
      BY <2>1, <2>2, NextPart
    <2> QED BY <2>3 DEF x6
  <1>8. Here(b, k, x4) /\ Here(b, k + Len(x4), a5) /\ k + Len(x5) = k + Len(x4) + Len(a5)
        /\ k + Len(x4) \in Nat /\ k + Len(x4) <= k + Len(x5)
    <2>1. Here(b, k, x4 \o a5)
      BY <1>7 DEF x5
    <2>2. x4 \in Seq(Byte) /\ a5 \in Seq(Byte)
      BY <1>1, <1>6
    <2>3. /\ Here(b, k, x4) /\ Here(b, k + Len(x4), a5)
          /\ k + Len(x4 \o a5) = k + Len(x4) + Len(a5)
          /\ k + Len(x4) \in Nat /\ k + Len(x4) <= k + Len(x4 \o a5)
      BY <2>1, <2>2, NextPart
    <2> QED BY <2>3 DEF x5
  <1>9. Here(b, k, x3) /\ Here(b, k + Len(x3), m.hash) /\ k + Len(x4) = k + Len(x3) + Len(m.hash)
        /\ k + Len(x3) \in Nat /\ k + Len(x3) <= k + Len(x4)
    <2>1. Here(b, k, x3 \o m.hash)
      BY <1>8 DEF x4
    <2> DEFINE a4 == m.hash
    <2>2. x3 \in Seq(Byte) /\ a4 \in Seq(Byte) /\ Here(b, k, x3 \o a4)
      BY <1>1, <1>6, <2>1
    <2> HIDE DEF a4
    <2>3. /\ Here(b, k, x3) /\ Here(b, k + Len(x3), a4)
          /\ k + Len(x3 \o a4) = k + Len(x3) + Len(a4)
          /\ k + Len(x3) \in Nat /\ k + Len(x3) <= k + Len(x3 \o a4)
      BY <2>2, NextPart
    <2> QED BY <2>3 DEF a4, x4
  <1>10. Here(b, k, x2) /\ Here(b, k + Len(x2), a3) /\ k + Len(x3) = k + Len(x2) + Len(a3)
        /\ k + Len(x2) \in Nat /\ k + Len(x2) <= k + Len(x3)
    <2>1. Here(b, k, x2 \o a3)
      BY <1>9 DEF x3
    <2>2. x2 \in Seq(Byte) /\ a3 \in Seq(Byte)
      BY <1>1, <1>6
    <2>3. /\ Here(b, k, x2) /\ Here(b, k + Len(x2), a3)
          /\ k + Len(x2 \o a3) = k + Len(x2) + Len(a3)
          /\ k + Len(x2) \in Nat /\ k + Len(x2) <= k + Len(x2 \o a3)
      BY <2>1, <2>2, NextPart
    <2> QED BY <2>3 DEF x3
  <1>11. Here(b, k + Len(x1), m.header) /\ k + Len(x2) = k + Len(x1) + Len(m.header)
        /\ k + Len(x1) \in Nat /\ k + Len(x1) <= k + Len(x2)
    <2>1. Here(b, k, x1 \o m.header)
      BY <1>10 DEF x2
    <2> DEFINE a2 == m.header
    <2>2. x1 \in Seq(Byte) /\ a2 \in Seq(Byte) /\ Here(b, k, x1 \o a2)
      BY <1>1, <1>6, <2>1
    <2> HIDE DEF a2
    <2>3. /\ Here(b, k, x1) /\ Here(b, k + Len(x1), a2)
          /\ k + Len(x1 \o a2) = k + Len(x1) + Len(a2)
          /\ k + Len(x1) \in Nat /\ k + Len(x1) <= k + Len(x1 \o a2)
      BY <2>2, NextPart
    <2> QED BY <2>3 DEF a2, x2
  <1>12. Stands(p2, b, n, k + Len(x2), v2)
    <2>1. Stands(U8Items(p, Len(m.header)), b, n, k + Len(x2), m.header)
      BY <1>1, <1>5, <1>11, U8ItemsStand
    <2>2. p2 = Field(p, "header", U8Items(p, Len(m.header)))
      BY <1>1 DEF p2, ItemsField, U8Items
    <2> QED BY <1>a, <1>5, <1>10, <1>11, <2>1, <2>2, FieldStands DEF v2
  <1>13. Stands(p3, b, n, k + Len(x3), v3)
    <2> DEFINE q == KeyItems(ReadShortvec(p2), ReadShortvec(p2).val)
    <2>0. m.keys \in Seq(OfSize(KeySize)) /\ Len(m.keys) <= MaxU16
      BY MessageParts, CountsFitFacts
    <2>1. Here(b, k + Len(x2), PrefixedItems(m.keys)) /\ k + Len(x3) = k + Len(x2) + Len(PrefixedItems(m.keys))
      BY <1>10 DEF a3
    <2>2. /\ Stands(q, b, n, k + Len(x2) + Len(PrefixedItems(m.keys)), m.keys)
          /\ VecField(p2, "keys", ReadKey) = Field(p2, "keys", q)
      BY <1>10, <1>12, <2>0, <2>1, KeyVecStands
    <2>3. Stands(q, b, n, k + Len(x3), m.keys) /\ p3 = Field(p2, "keys", q)
      BY <2>1, <2>2 DEF p3
    <2> HIDE DEF q
    <2> QED BY <1>a, <1>9, <1>10, <1>12, <2>3, FieldStands DEF v3
  <1>14. Stands(p4, b, n, k + Len(x4), v4)
    <2>1. Stands(ReadBytes(p3, Len(m.hash)), b, n, k + Len(x4), m.hash)
      BY <1>1, <1>9, <1>13, ReadBytesStands
    <2>2. p4 = Field(p3, "hash", ReadBytes(p3, Len(m.hash)))
      BY <1>1 DEF p4, BytesField
    <2> QED BY <1>a, <1>8, <1>9, <1>13, <2>1, <2>2, FieldStands DEF v4
  <1>15. Stands(p5, b, n, k + Len(x5), v5)
    <2> DEFINE q == InstructionItems(ReadShortvec(p4), ReadShortvec(p4).val)
               ixs == m.ixs
               seqs == InstructionsOf(m)
    <2>0. ixs \in Seq(Instruction) /\ Len(ixs) <= MaxU16 /\ InstructionsFit(ixs)
      BY MessageParts, CountsFitFacts DEF InstructionsFit
    <2>1. Here(b, k + Len(x4), PrefixedItems(seqs)) /\ k + Len(x5) = k + Len(x4) + Len(PrefixedItems(seqs))
      BY <1>8 DEF a5
    <2>a. InstructionsEncoded(seqs, ixs)
      <3>1. seqs \in Seq(Seq(Byte)) /\ Len(seqs) = Len(ixs)
        BY PartsV0
      <3>2. \A i \in 1 .. Len(ixs) : seqs[i] = MarshalInstruction(ixs[i])
        BY <2>0 DEF InstructionsOf
      <3> QED BY <3>1, <3>2 DEF InstructionsEncoded
    <2> HIDE DEF ixs, seqs
    <2>2. /\ Stands(q, b, n, k + Len(x4) + Len(PrefixedItems(seqs)), ixs)
          /\ VecField(p4, "ixs", DecodeInstruction) = Field(p4, "ixs", q)
      <3> DEFINE j == k + Len(x4)
      <3>1. j \in Nat /\ Stands(p4, b, n, j, v4) /\ Here(b, j, PrefixedItems(seqs))
        BY <1>8, <1>14, <2>1
      <3> HIDE DEF j
      <3>2. /\ Stands(InstructionItems(ReadShortvec(p4), ReadShortvec(p4).val), b, n,
                      j + Len(PrefixedItems(seqs)), ixs)
            /\ VecField(p4, "ixs", DecodeInstruction)
                 = Field(p4, "ixs", InstructionItems(ReadShortvec(p4), ReadShortvec(p4).val))
        BY <2>0, <2>a, <3>1, InstructionVecStands
      <3> QED BY <3>2 DEF j
    <2>3. Stands(q, b, n, k + Len(x5), ixs) /\ p5 = Field(p4, "ixs", q)
      BY <2>1, <2>2 DEF p5
    <2> HIDE DEF q
    <2> QED BY <1>a, <1>7, <1>8, <1>14, <2>3, FieldStands DEF v5, ixs
  <1>16. Stands(LookupsField(p5), b, n, k + Len(x5) + Len(a6), v6)
    <2>1. Here(b, k + Len(x5), TableOf(m))
      BY <1>7 DEF a6
    <2>2. v5.version = m.version
      BY <1>3
    <2> QED BY <1>7, <1>15, <2>1, <2>2, LookupsFieldStands DEF v6, a6
  <1> QED BY <1>2, <1>3, <1>4, <1>7, <1>16


\* What the decoder sees of e, which stands where it is: an error, nothing, or its first byte.
LEMMA FirstByte ==
    ASSUME NEW b \in Seq(Byte), NEW n \in 0 .. Len(b), NEW k \in Nat, NEW w, NEW p,
           Stands(p, b, n, k, w), NEW e \in Seq(Byte), Here(b, k, e), Len(e) >= 1
    PROVE  \/ p.err = "short" /\ ~(k + Len(e) <= n) /\ ~(k <= n)
           \/ p = State(b, n, k, w) /\ p.rest = <<>> /\ p.err = "nil" /\ ~(k + Len(e) <= n)
           \/ p = State(b, n, k, w) /\ p.rest # <<>> /\ p.err = "nil" /\ p.rest[1] = e[1]
  <1>1. CASE ~(k <= n)
    BY <1>1 DEF Stands
  <1>2. CASE k <= n
    <2>1. p = State(b, n, k, w) /\ p.err = "nil" /\ p.rest = SubSeq(b, k + 1, n)
      BY <1>2 DEF Stands, State
    <2>2. Len(p.rest) = n - k /\ p.rest \in Seq(Byte) /\ \A i \in 1 .. n - k : p.rest[i] = b[k + i]
      <3>1. k \in 0 .. n
        BY <1>2
      <3> QED BY <2>1, <3>1, RestFacts
    <2>3. CASE k = n
      <3>1. Len(p.rest) = 0
        BY <2>2, <2>3
      <3> QED BY <2>1, <2>2, <2>3, <3>1
    <2>4. CASE k # n
      <3>1. 1 \in 1 .. n - k
        BY <1>2, <2>4
      <3>2. p.rest[1] = b[k + 1] /\ b[k + 1] = e[1]
        BY <2>2, <3>1 DEF Here
      <3>3. p.rest # <<>>
        BY <2>2, <3>1
      <3> QED BY <2>1, <3>2, <3>3
    <2> QED BY <2>3, <2>4
  <1> QED BY <1>1, <1>2

LEMMA ConcatFirst ==
    ASSUME NEW d \in Seq(Byte), NEW e \in Seq(Byte), Len(d) >= 1
    PROVE  (d \o e)[1] = d[1] /\ Len(d \o e) >= 1
  OBVIOUS

\* The first byte of a legacy message is its first count, that of a v0 message the version bit.
LEMMA FirstByteV0 ==
    ASSUME NEW m \in Message, m.version \in {Legacy, V0}, CountsFit(m)
    PROVE  /\ MarshalV0(m) \in Seq(Byte) /\ Len(MarshalV0(m)) >= 1
           /\ m.version = Legacy => MarshalV0(m)[1] = m.header[1]
           /\ m.version = V0 => MarshalV0(m)[1] = Cont
  <1> DEFINE x1 == PrefixOf(m)
             a2 == m.header
             x2 == x1 \o a2
             a3 == PrefixedItems(m.keys)
             x3 == x2 \o a3
             a4 == m.hash
             x4 == x3 \o a4
             a5 == PrefixedItems(InstructionsOf(m))
             x5 == x4 \o a5
             a6 == TableOf(m)
             x6 == x5 \o a6
             first == IF m.version = Legacy THEN m.header[1] ELSE Cont
  <1>1. /\ x1 \in Seq(Byte) /\ a2 \in Seq(Byte) /\ Len(a2) = 3 /\ a3 \in Seq(Byte)
        /\ a4 \in Seq(Byte) /\ a5 \in Seq(Byte) /\ a6 \in Seq(Byte)
    BY PartsV0
  <1>2. MarshalV0(m) = x6
    BY MarshalV0Parts
  <1>3. x2 \in Seq(Byte) /\ x2[1] = first /\ Len(x2) >= 1
    <2>1. CASE m.version = Legacy
      <3>1. x1 = <<>>
        BY <2>1 DEF PrefixOf
      <3>2. x2 = a2
        BY <1>1, <3>1
      <3>3. a2[1] = first
        BY <2>1
      <3>4. a2 \in Seq(Byte) /\ Len(a2) >= 1
        BY <1>1
      <3> QED BY <3>2, <3>3, <3>4
    <2>2. CASE m.version # Legacy
      <3>1. x1 = <<Cont>>
        BY <2>2, Sizes DEF PrefixOf, V0
      <3>2. Len(x1) = 1 /\ x1[1] = first
        BY <2>2, <3>1
      <3>3. x2 = x1 \o a2 /\ x1 \in Seq(Byte) /\ a2 \in Seq(Byte) /\ Len(x1) >= 1
        BY <1>1, <3>2
      <3> HIDE DEF x1, x2, a2, first
      <3>4. (x1 \o a2)[1] = x1[1] /\ Len(x1 \o a2) >= 1 /\ x1 \o a2 \in Seq(Byte)
        BY <3>3, ConcatFirst, ConcatBytes
      <3> QED BY <3>2, <3>3, <3>4
    <2> QED BY <2>1, <2>2
  <1> HIDE DEF x2, a3, a4, a5, a6, first
  <1>4. x3 \in Seq(Byte) /\ x3[1] = first /\ Len(x3) >= 1
    BY <1>1, <1>3, ConcatFirst
  <1> HIDE DEF x3
  <1>5. x4 \in Seq(Byte) /\ x4[1] = first /\ Len(x4) >= 1
    BY <1>1, <1>4, ConcatFirst
  <1> HIDE DEF x4
  <1>6. x5 \in Seq(Byte) /\ x5[1] = first /\ Len(x5) >= 1
    BY <1>1, <1>5, ConcatFirst
  <1> HIDE DEF x5
  <1>7. x6 \in Seq(Byte) /\ x6[1] = first /\ Len(x6) >= 1
    BY <1>1, <1>6, ConcatFirst
  <1> QED BY <1>2, <1>7, Versions DEF first

LEMMA DecodeMessageV0Stands ==
    ASSUME NEW b \in Seq(Byte), NEW n \in 0 .. Len(b), NEW k \in Nat, NEW w, NEW p,
           Stands(p, b, n, k, w), NEW m \in Message, m.version # V1, ConfigFits(m),
           Marshal(m) # Refused, m.version = Legacy => m.header[1] < Cont, Here(b, k, Marshal(m))
    PROVE  Stands(DecodeMessage(p), b, n, k + Len(Marshal(m)), m)
  <1> DEFINE e == Marshal(m)
             q == IF p.rest[1] < Cont THEN Value(p, EmptyMessage(Legacy))
                  ELSE Value(ReadUint(p, 1), EmptyMessage(V0))
  <1>1. /\ m.version \in {Legacy, V0}
        /\ m.version # V0 => m.lookups = <<>>
        /\ e = MarshalV0(m) /\ CountsFit(m)
    BY MarshalledV0
  <1>2. m.config = <<>>
    BY DEF ConfigFits
  <1>3. /\ e \in Seq(Byte) /\ Len(e) >= 1
        /\ m.version = Legacy => e[1] = m.header[1] /\ e[1] < Cont
        /\ m.version = V0 => e[1] = Cont
    BY <1>1, FirstByteV0
  <1>4. Here(b, k, e)
    OBVIOUS
  <1> HIDE DEF e
  <1>5. CASE p.err = "short" /\ ~(k + Len(e) <= n) /\ ~(k <= n)
    <2>1. DecodeMessage(p) = p
      BY <1>5 DEF DecodeMessage
    <2> QED BY <1>5, <2>1 DEF Stands, e
  <1>6. CASE p = State(b, n, k, w) /\ p.rest = <<>> /\ p.err = "nil" /\ ~(k + Len(e) <= n)
    <2>1. DecodeMessage(p) = Fail(p, "short")
      BY <1>6 DEF DecodeMessage
    <2>2. Fail(p, "short").err = "short"
      BY <1>6 DEF Fail, State
    <2> QED BY <1>6, <2>1, <2>2 DEF Stands, e
  <1>7. CASE p = State(b, n, k, w) /\ p.rest # <<>> /\ p.err = "nil" /\ p.rest[1] = e[1]
    <2>1. p.rest[1] # Cont + V1 /\ ~(p.rest[1] > Cont + V1)
      <3>1. e[1] \in Nat
        <4>1. Len(e) \in Nat /\ 1 \in 1 .. Len(e)
          BY <1>3
        <4>2. e[1] \in Byte
          BY <1>3, <4>1
        <4> QED BY <4>2 DEF Byte
      <3> QED BY <1>1, <1>3, <1>7, <3>1, Sizes, Versions DEF V1, V0
    <2>2. DecodeMessage(p) = BodyV0(q)
      BY <1>7, <2>1 DEF DecodeMessage, BodyV0
    <2>3. Stands(q, b, n, k + Len(PrefixOf(m)), EmptyMessage(m.version))
      <3>1. CASE m.version = Legacy
        <4>1. q = Value(p, EmptyMessage(Legacy))
          BY <1>3, <1>7, <3>1
        <4>2. Len(PrefixOf(m)) = 0 /\ k + 0 = k
          BY <3>1 DEF PrefixOf
        <4> QED BY <3>1, <4>1, <4>2, ValueStands
      <3>2. CASE m.version = V0
        <4>1. q = Value(ReadUint(p, 1), EmptyMessage(V0))
          BY <1>3, <1>7, <3>2, Sizes
        <4>2. PrefixOf(m) = <<Cont>> /\ Len(PrefixOf(m)) = 1
          BY <3>2, Sizes, Versions DEF PrefixOf, V0
        <4>3. Here(b, k, <<Cont>>)
          <5>1. Len(e) \in Nat /\ b[k + 1] = e[1] /\ k + Len(e) <= Len(b)
            BY <1>3, <1>4 DEF Here
          <5> QED BY <1>3, <3>2, <5>1 DEF Here
        <4>4. Cont \in Byte
          BY Sizes DEF Byte
        <4>5. Stands(ReadUint(p, 1), b, n, k + 1, Cont)
          BY <4>3, <4>4, ReadU8Stands
        <4> QED BY <3>2, <4>1, <4>2, <4>5, ValueStands
      <3> QED BY <1>1, <3>1, <3>2
    <2> HIDE DEF q
    <2>4. Here(b, k, MarshalV0(m))
      BY <1>1, <1>4
    <2>5. Stands(BodyV0(q), b, n, k + Len(MarshalV0(m)), m)
      BY <1>1, <1>2, <2>3, <2>4, BodyV0Stands
    <2> QED BY <1>1, <2>2, <2>5 DEF e
  <1> QED BY <1>3, <1>4, <1>5, <1>6, <1>7, FirstByte


--------------------------------------------------------------------------------
(***************************************************************************)
(* The parts of a v1 message: config options, heads and bodies.             *)
(***************************************************************************)
OptionBytes(c, f) == IF c[f] = <<>> THEN <<>> ELSE WriteUint(c[f][1], FieldSize[f])
FullConfig(c) ==
    /\ c \in Seq(Seq(Nat)) /\ Len(c) = 4
    /\ \A f \in 1 .. 4 : c[f] # <<>> => Len(c[f]) = 1 /\ Shifted(c[f][1], FieldSize[f]) = 0
HeadOf(ix) == <<ix.program, Len(ix.accounts), Len(ix.data)>>
HeadBytes(ix) == <<ix.program, Len(ix.accounts)>> \o WriteUint(Len(ix.data), 2)
BodyBytes(ix) == ix.accounts \o ix.data

LEMMA FieldSizes == \A f \in 1 .. 4 : FieldSize[f] \in Nat
  <1>1. FieldSize[1] \in Nat /\ FieldSize[2] \in Nat /\ FieldSize[3] \in Nat /\ FieldSize[4] \in Nat
    BY Sizes DEF FieldSize
  <1>2. \A f \in 1 .. 4 : f = 1 \/ f = 2 \/ f = 3 \/ f = 4
    OBVIOUS
  <1> QED BY <1>1, <1>2

LEMMA OptionValue ==
    ASSUME NEW c, FullConfig(c), NEW f \in 1 .. 4
    PROVE  \/ c[f] = <<>> /\ OptionBytes(c, f) = <<>>
           \/ /\ c[f] # <<>> /\ c[f] = <<c[f][1]>> /\ c[f][1] \in Nat
              /\ Shifted(c[f][1], FieldSize[f]) = 0
              /\ OptionBytes(c, f) = WriteUint(c[f][1], FieldSize[f])
  <1> DEFINE x == c[f]
  <1>1. x \in Seq(Nat) /\ (x # <<>> => Len(x) = 1 /\ Shifted(x[1], FieldSize[f]) = 0)
    <2>1. c \in Seq(Seq(Nat)) /\ Len(c) = 4
      BY DEF FullConfig
    <2>2. x \in Seq(Nat)
      <3>1. f \in 1 .. Len(c)
        BY <2>1
      <3>2. ASSUME NEW S, c \in Seq(S) PROVE c[f] \in S
        BY <3>1, <3>2
      <3> QED BY <2>1, <3>2
    <2>3. x # <<>> => Len(x) = 1 /\ Shifted(x[1], FieldSize[f]) = 0
      BY Zenon DEF FullConfig
    <2> QED BY <2>2, <2>3
  <1>2. OptionBytes(c, f) = IF x = <<>> THEN <<>> ELSE WriteUint(x[1], FieldSize[f])
    BY DEF OptionBytes
  <1> HIDE DEF x
  <1>3. x # <<>> => x = <<x[1]>> /\ x[1] \in Nat
    BY <1>1
  <1>4. CASE x = <<>>
    BY <1>2, <1>4 DEF x
  <1>5. CASE x # <<>>
    BY <1>1, <1>2, <1>3, <1>5 DEF x
  <1> QED BY <1>4, <1>5

LEMMA OptionBytesFact ==
    ASSUME NEW c, FullConfig(c), NEW f \in 1 .. 4
    PROVE  /\ OptionBytes(c, f) \in Seq(Byte)
           /\ Len(OptionBytes(c, f)) = IF c[f] = <<>> THEN 0 ELSE FieldSize[f]
  <1>1. CASE c[f] = <<>>
    <2>1. OptionBytes(c, f) = <<>>
      BY <1>1 DEF OptionBytes
    <2> QED BY <1>1, <2>1
  <1>2. CASE c[f] # <<>>
    <2>1. c[f][1] \in Nat /\ OptionBytes(c, f) = WriteUint(c[f][1], FieldSize[f])
      BY <1>2, OptionValue
    <2>2. FieldSize[f] \in Nat
      BY FieldSizes
    <2> QED BY <1>2, <2>1, <2>2, WriteUintBytes
  <1> QED BY <1>1, <1>2

LEMMA ReadOptionStands ==
    ASSUME NEW b \in Seq(Byte), NEW n \in 0 .. Len(b), NEW k \in Nat, NEW w, NEW p,
           Stands(p, b, n, k, w), NEW c, FullConfig(c), NEW f \in 1 .. 4, NEW mask,
           MaskHas(mask, f) <=> c[f] # <<>>, Here(b, k, OptionBytes(c, f))
    PROVE  Stands(ReadOption(mask, p, f), b, n, k + Len(OptionBytes(c, f)), c[f])
  <1>1. CASE c[f] = <<>>
    <2>1. OptionBytes(c, f) = <<>> /\ k + Len(OptionBytes(c, f)) = k
      <3>1. OptionBytes(c, f) = <<>>
        BY <1>1 DEF OptionBytes
      <3> QED BY <3>1
    <2>2. ReadOption(mask, p, f) = Value(p, <<>>)
      BY <1>1 DEF ReadOption
    <2> QED BY <1>1, <2>1, <2>2, ValueStands
  <1>2. CASE c[f] # <<>>
    <2> DEFINE v == c[f][1]
               l == FieldSize[f]
               q == ReadUint(p, l)
    <2>1. /\ v \in Nat /\ Shifted(v, l) = 0 /\ OptionBytes(c, f) = WriteUint(v, l) /\ c[f] = <<v>>
          /\ l \in Nat
      BY <1>2, OptionValue, FieldSizes
    <2>2. ReadOption(mask, p, f) = Value(q, <<q.val>>)
      BY <1>2 DEF ReadOption
    <2>3. Here(b, k, WriteUint(v, l)) /\ Len(OptionBytes(c, f)) = l
      BY <2>1, WriteUintBytes
    <2> HIDE DEF v, l
    <2>4. Stands(q, b, n, k + l, v)
      BY <2>1, <2>3, ReadUintStands
    <2> HIDE DEF q
    <2>5. q.val = v => <<q.val>> = <<v>>
      OBVIOUS
    <2>6. Stands(Value(q, <<q.val>>), b, n, k + l, <<v>>)
      BY <2>4, <2>5, ReadAs
    <2> QED BY <2>1, <2>2, <2>3, <2>6
  <1> QED BY <1>1, <1>2

LEMMA HeadBytesFact ==
    ASSUME NEW ix \in Instruction, Len(ix.accounts) <= MaxU8, Len(ix.data) <= MaxU16
    PROVE  /\ HeadBytes(ix) \in Seq(Byte) /\ Len(HeadBytes(ix)) = 4
           /\ <<ix.program, Len(ix.accounts)>> \in Seq(Byte)
           /\ WriteUint(Len(ix.data), 2) \in Seq(Byte) /\ Len(WriteUint(Len(ix.data), 2)) = 2
           /\ Len(ix.data) \in 0 .. MaxU16 /\ Len(ix.data) \in Nat
           /\ Len(ix.accounts) \in Byte
  <1>1. ix.program \in Byte /\ ix.accounts \in Seq(Byte) /\ ix.data \in Seq(Byte)
    BY DEF Instruction
  <1>2. Len(ix.accounts) \in Nat /\ Len(ix.data) \in Nat
    BY <1>1
  <1>3. Len(ix.accounts) \in Byte /\ Len(ix.data) \in 0 .. MaxU16
    BY <1>2, Sizes DEF Byte, MaxU16
  <1>4. WriteUint(Len(ix.data), 2) \in Seq(Byte) /\ Len(WriteUint(Len(ix.data), 2)) = 2
    BY <1>2, 2 \in Nat, WriteUintBytes
  <1>5. <<ix.program, Len(ix.accounts)>> \in Seq(Byte) /\ Len(<<ix.program, Len(ix.accounts)>>) = 2
    BY <1>1, <1>3
  <1>6. HeadBytes(ix) \in Seq(Byte) /\ Len(HeadBytes(ix)) = 2 + 2
    BY <1>4, <1>5, ConcatBytes DEF HeadBytes
  <1> QED BY <1>2, <1>3, <1>4, <1>5, <1>6

LEMMA ReadHeadStands ==
    ASSUME NEW b \in Seq(Byte), NEW n \in 0 .. Len(b), NEW k \in Nat, NEW w, NEW p,
           Stands(p, b, n, k, w), NEW ix \in Instruction,
           Len(ix.accounts) <= MaxU8, Len(ix.data) <= MaxU16, Here(b, k, HeadBytes(ix)), NEW i
    PROVE  Stands(ReadHead(p, i), b, n, k + Len(HeadBytes(ix)), HeadOf(ix))
  <1> DEFINE s == <<ix.program, Len(ix.accounts)>>
             d == Len(ix.data)
             e == WriteUint(d, 2)
             h == U8Items(p, 2)
  <1>1. /\ s \in Seq(Byte) /\ Len(s) = 2 /\ e \in Seq(Byte) /\ Len(e) = 2 /\ d \in 0 .. MaxU16
        /\ HeadBytes(ix) = s \o e /\ Len(HeadBytes(ix)) = 4 /\ d \in Nat
    BY HeadBytesFact DEF HeadBytes
  <1>2. HeadOf(ix) = Append(s, d)
    BY DEF HeadOf
  <1>3. ReadHead(p, i) = Push(h, ReadUint(h, 2))
    BY DEF ReadHead, U8Items
  <1> HIDE DEF s, e, d, h
  <1>4. Here(b, k, s) /\ Here(b, k + Len(s), e)
    BY <1>1, NextPart
  <1>5. Stands(h, b, n, k + 2, s)
    BY <1>1, <1>4, U8ItemsStand DEF h
  <1>6. k + 2 \in Nat /\ k + 2 + 2 = k + 4 /\ n \in Nat /\ k + 4 \in Nat /\ k + 2 <= k + 4
    OBVIOUS
  <1>7. Here(b, k + 2, WriteUint(d, 2)) /\ Shifted(d, 2) = 0
    BY <1>1, <1>4, FitsU16 DEF e
  <1>8. Stands(ReadUint(h, 2), b, n, k + 2 + 2, d)
    <2>1. 2 \in Nat
      OBVIOUS
    <2> QED BY <1>1, <1>5, <1>6, <1>7, <2>1, ReadUintStands
  <1>9. Stands(Push(h, ReadUint(h, 2)), b, n, k + 4, Append(s, d))
    BY <1>5, <1>6, <1>8, PushStands
  <1> QED BY <1>1, <1>2, <1>3, <1>9

LEMMA ReadBodyStands ==
    ASSUME NEW b \in Seq(Byte), NEW n \in 0 .. Len(b), NEW k \in Nat, NEW w, NEW p,
           Stands(p, b, n, k, w), NEW ix \in Instruction, Here(b, k, BodyBytes(ix))
    PROVE  Stands(ReadBody(HeadOf(ix), p), b, n, k + Len(BodyBytes(ix)), ix)
  <1> DEFINE d == ix.accounts
             e == ix.data
             v0 == [program |-> ix.program, accounts |-> <<>>, data |-> <<>>]
             v1 == [v0 EXCEPT !["accounts"] = d]
             v2 == [v1 EXCEPT !["data"] = e]
             p0 == Value(p, v0)
             p1 == BytesField(p0, "accounts", Len(d))
             p2 == BytesField(p1, "data", Len(e))
             k1 == k + Len(d)
             k2 == k1 + Len(e)
  <1>1. /\ d \in Seq(Byte) /\ e \in Seq(Byte) /\ BodyBytes(ix) = d \o e
        /\ ix = [program |-> ix.program, accounts |-> d, data |-> e]
    BY DEF Instruction, BodyBytes
  <1>2. v2 = ix
    BY <1>1
  <1>3. HeadOf(ix)[1] = ix.program /\ HeadOf(ix)[2] = Len(d) /\ HeadOf(ix)[3] = Len(e)
    BY DEF HeadOf
  <1>4. ReadBody(HeadOf(ix), p) = p2
    BY <1>3 DEF ReadBody
  <1>5. Stands(p0, b, n, k, v0)
    BY ValueStands
  <1> HIDE DEF d, e, v0, p0
  <1>6. /\ Here(b, k, d) /\ Here(b, k1, e) /\ k + Len(BodyBytes(ix)) = k2 /\ k1 \in Nat
        /\ k <= k1 /\ k2 \in Nat /\ k1 <= k2 /\ n \in Nat
    BY <1>1, NextPart
  <1>7. Stands(ReadBytes(p0, Len(d)), b, n, k1, d)
    BY <1>1, <1>5, <1>6, ReadBytesStands
  <1> HIDE DEF k1
  <1>8. Stands(p1, b, n, k1, v1)
    BY <1>5, <1>6, <1>7, FieldStands DEF BytesField
  <1> HIDE DEF v1, p1
  <1>9. Stands(ReadBytes(p1, Len(e)), b, n, k2, e)
    BY <1>1, <1>6, <1>8, ReadBytesStands
  <1> HIDE DEF k2
  <1>10. Stands(p2, b, n, k2, v2)
    BY <1>6, <1>8, <1>9, FieldStands DEF BytesField
  <1> QED BY <1>2, <1>4, <1>6, <1>10


LEMMA OptionItemsStand ==
    ASSUME NEW b \in Seq(Byte), NEW n \in 0 .. Len(b), NEW k \in Nat, NEW w, NEW p,
           Stands(p, b, n, k, w), NEW c, FullConfig(c), NEW mask,
           \A f \in 1 .. 4 : MaskHas(mask, f) <=> c[f] # <<>>,
           NEW seqs \in Seq(Seq(Byte)), Len(seqs) = 4,
           \A f \in 1 .. 4 : seqs[f] = OptionBytes(c, f), Here(b, k, FlattenSeq(seqs))
    PROVE  Stands(OptionItems(p, 4, mask), b, n, k + Len(FlattenSeq(seqs)), c)
  <1>0. c \in Seq(Seq(Nat)) /\ Len(c) = Len(seqs)
    BY DEF FullConfig
  <1>3. p.err # "nil" => OptionItems(p, 4, mask) = p
    BY DEF OptionItems, ReadItems
  <1>4. ASSUME p.err = "nil"
        PROVE  \E r :
              /\ r[0] = Value(p, <<>>) /\ OptionItems(p, 4, mask) = r[Len(seqs)]
              /\ \A i \in 1 .. Len(seqs) : \A j \in Nat : \A v :
                    Here(b, j, seqs[i]) /\ Stands(r[i - 1], b, n, j, v)
                    => \E q : /\ r[i] = Push(r[i - 1], q)
                              /\ Stands(q, b, n, j + Len(seqs[i]), c[i])
    <2>1. PICK r : /\ r[0] = Value(p, <<>>) /\ OptionItems(p, 4, mask) = r[4]
                   /\ \A i \in 1 .. 4 : r[i] = Push(r[i - 1], ReadOption(mask, r[i - 1], i))
      <3>1. PICK l \in Nat : l = 4
        OBVIOUS
      <3>2. \E r : /\ r[0] = Value(p, <<>>) /\ OptionItems(p, l, mask) = r[l]
                   /\ \A i \in 1 .. l : r[i] = Push(r[i - 1], ReadOption(mask, r[i - 1], i))
        BY <1>4, OptionUnfold
      <3> QED BY <3>1, <3>2
    <2>2. ASSUME NEW i \in 1 .. 4, NEW j \in Nat, NEW v, Here(b, j, seqs[i]),
                 Stands(r[i - 1], b, n, j, v)
          PROVE  Stands(ReadOption(mask, r[i - 1], i), b, n, j + Len(seqs[i]), c[i])
      <3> DEFINE q == r[i - 1]
      <3>1. Here(b, j, OptionBytes(c, i)) /\ seqs[i] = OptionBytes(c, i)
            /\ (MaskHas(mask, i) <=> c[i] # <<>>) /\ Stands(q, b, n, j, v)
        BY <2>2
      <3> HIDE DEF q
      <3>2. Stands(ReadOption(mask, q, i), b, n, j + Len(OptionBytes(c, i)), c[i])
        BY <3>1, ReadOptionStands
      <3> QED BY <3>1, <3>2 DEF q
    <2> QED BY <2>1, <2>2
  <1> QED BY <1>0, <1>3, <1>4, AllItemsStand

\* The heads, or the bodies, of all instructions.
InstructionsFitV1(xs) ==
    \A i \in 1 .. Len(xs) : Len(xs[i].accounts) <= MaxU8 /\ Len(xs[i].data) <= MaxU16
HeadsEncoded(seqs, xs) ==
    /\ seqs \in Seq(Seq(Byte)) /\ Len(seqs) = Len(xs)
    /\ \A i \in 1 .. Len(xs) : seqs[i] = HeadBytes(xs[i])
BodiesEncoded(seqs, xs) ==
    /\ seqs \in Seq(Seq(Byte)) /\ Len(seqs) = Len(xs)
    /\ \A i \in 1 .. Len(xs) : seqs[i] = BodyBytes(xs[i])
HeadsOf(xs) == [i \in 1 .. Len(xs) |-> HeadOf(xs[i])]

LEMMA HeadsFact ==
    ASSUME NEW ixs \in Seq(Instruction)
    PROVE  /\ HeadsOf(ixs) \in Seq(Seq(Nat)) /\ Len(HeadsOf(ixs)) = Len(ixs)
           /\ \A i \in 1 .. Len(ixs) : HeadsOf(ixs)[i] = HeadOf(ixs[i])
  <1>1. Len(ixs) \in Nat
    OBVIOUS
  <1>2. \A i \in 1 .. Len(ixs) : HeadOf(ixs[i]) \in Seq(Nat)
    <2> TAKE i \in 1 .. Len(ixs)
    <2> DEFINE x == ixs[i]
    <2>1. x \in Instruction
      OBVIOUS
    <2> HIDE DEF x
    <2>2. x.program \in Byte /\ x.accounts \in Seq(Byte) /\ x.data \in Seq(Byte)
      BY <2>1 DEF Instruction
    <2>3. x.program \in Nat /\ Len(x.accounts) \in Nat /\ Len(x.data) \in Nat
      BY <2>2, Sizes DEF Byte
    <2>4. HeadOf(x) \in Seq(Nat)
      BY <2>3 DEF HeadOf
    <2> QED BY <2>4 DEF x
  <1> QED BY <1>1, <1>2 DEF HeadsOf

LEMMA HeadItemsStand ==
    ASSUME NEW b \in Seq(Byte), NEW n \in 0 .. Len(b), NEW k \in Nat, NEW w, NEW p,
           Stands(p, b, n, k, w), NEW ixs \in Seq(Instruction), InstructionsFitV1(ixs),
           NEW seqs, HeadsEncoded(seqs, ixs), Here(b, k, FlattenSeq(seqs))
    PROVE  Stands(HeadItems(p, Len(ixs)), b, n, k + Len(FlattenSeq(seqs)), HeadsOf(ixs))
  <1>0. Len(ixs) \in Nat
    OBVIOUS
  <1>1. /\ seqs \in Seq(Seq(Byte)) /\ Len(seqs) = Len(ixs)
        /\ \A i \in 1 .. Len(ixs) : seqs[i] = HeadBytes(ixs[i])
    BY DEF HeadsEncoded
  <1>2. /\ HeadsOf(ixs) \in Seq(Seq(Nat)) /\ Len(HeadsOf(ixs)) = Len(seqs)
        /\ \A i \in 1 .. Len(ixs) : HeadsOf(ixs)[i] = HeadOf(ixs[i])
    BY <1>1, HeadsFact
  <1>3. p.err # "nil" => HeadItems(p, Len(ixs)) = p
    BY DEF HeadItems, ReadItems
  <1>4. ASSUME p.err = "nil"
        PROVE  \E r :
              /\ r[0] = Value(p, <<>>) /\ HeadItems(p, Len(ixs)) = r[Len(seqs)]
              /\ \A i \in 1 .. Len(seqs) : \A j \in Nat : \A v :
                    Here(b, j, seqs[i]) /\ Stands(r[i - 1], b, n, j, v)
                    => \E q : /\ r[i] = Push(r[i - 1], q)
                              /\ Stands(q, b, n, j + Len(seqs[i]), HeadsOf(ixs)[i])
    <2>1. PICK r : /\ r[0] = Value(p, <<>>) /\ HeadItems(p, Len(ixs)) = r[Len(ixs)]
                   /\ \A i \in 1 .. Len(ixs) : r[i] = Push(r[i - 1], ReadHead(r[i - 1], i))
      <3>1. PICK c \in Nat : c = Len(ixs)
        BY <1>0
      <3>2. \E r : /\ r[0] = Value(p, <<>>) /\ HeadItems(p, c) = r[c]
                   /\ \A i \in 1 .. c : r[i] = Push(r[i - 1], ReadHead(r[i - 1], i))
        BY <1>4, HeadUnfold
      <3> QED BY <3>1, <3>2
    <2>2. ASSUME NEW i \in 1 .. Len(ixs), NEW j \in Nat, NEW v, Here(b, j, seqs[i]),
                 Stands(r[i - 1], b, n, j, v)
          PROVE  Stands(ReadHead(r[i - 1], i), b, n, j + Len(seqs[i]), HeadsOf(ixs)[i])
      <3>1. ixs[i] \in Instruction /\ Len(ixs[i].accounts) <= MaxU8 /\ Len(ixs[i].data) <= MaxU16
        <4>1. ixs[i] \in Instruction
          OBVIOUS
        <4> QED BY <4>1 DEF InstructionsFitV1
      <3> DEFINE x == ixs[i]
                 q == r[i - 1]
      <3>2. seqs[i] = HeadBytes(x) /\ HeadsOf(ixs)[i] = HeadOf(x)
        BY <1>1, <1>2
      <3>3. x \in Instruction /\ Len(x.accounts) <= MaxU8 /\ Len(x.data) <= MaxU16
            /\ Here(b, j, HeadBytes(x)) /\ Stands(q, b, n, j, v)
        BY <2>2, <3>1, <3>2
      <3> HIDE DEF x, q
      <3>4. Stands(ReadHead(q, i), b, n, j + Len(HeadBytes(x)), HeadOf(x))
        BY <3>3, ReadHeadStands
      <3> QED BY <3>2, <3>4 DEF q
    <2> QED BY <1>1, <2>1, <2>2
  <1> QED BY <1>1, <1>2, <1>3, <1>4, AllItemsStand

LEMMA BodyItemsStand ==
    ASSUME NEW b \in Seq(Byte), NEW n \in 0 .. Len(b), NEW k \in Nat, NEW w, NEW p,
           Stands(p, b, n, k, w), NEW ixs \in Seq(Instruction),
           NEW seqs, BodiesEncoded(seqs, ixs), Here(b, k, FlattenSeq(seqs))
    PROVE  Stands(BodyItems(p, Len(ixs), HeadsOf(ixs)), b, n, k + Len(FlattenSeq(seqs)), ixs)
  <1> DEFINE a == HeadsOf(ixs)
  <1>0. Len(ixs) \in Nat
    OBVIOUS
  <1>1. /\ seqs \in Seq(Seq(Byte)) /\ Len(seqs) = Len(ixs)
        /\ \A i \in 1 .. Len(ixs) : seqs[i] = BodyBytes(ixs[i])
    BY DEF BodiesEncoded
  <1>2. \A i \in 1 .. Len(ixs) : a[i] = HeadOf(ixs[i])
    BY HeadsFact
  <1>3. p.err # "nil" => BodyItems(p, Len(ixs), a) = p
    BY DEF BodyItems, ReadItems
  <1> HIDE DEF a
  <1>4. ASSUME p.err = "nil"
        PROVE  \E r :
              /\ r[0] = Value(p, <<>>) /\ BodyItems(p, Len(ixs), a) = r[Len(seqs)]
              /\ \A i \in 1 .. Len(seqs) : \A j \in Nat : \A v :
                    Here(b, j, seqs[i]) /\ Stands(r[i - 1], b, n, j, v)
                    => \E q : /\ r[i] = Push(r[i - 1], q)
                              /\ Stands(q, b, n, j + Len(seqs[i]), ixs[i])
    <2>1. PICK r : /\ r[0] = Value(p, <<>>) /\ BodyItems(p, Len(ixs), a) = r[Len(ixs)]
                   /\ \A i \in 1 .. Len(ixs) : r[i] = Push(r[i - 1], ReadBody(a[i], r[i - 1]))
      <3>1. PICK c \in Nat : c = Len(ixs)
        BY <1>0
      <3>2. PICK r : BodySteps(r, p, c, a)
        BY <1>4, BodyUnfold
      <3> QED BY <3>1, <3>2 DEF BodySteps
    <2>2. ASSUME NEW i \in 1 .. Len(ixs), NEW j \in Nat, NEW v, Here(b, j, seqs[i]),
                 Stands(r[i - 1], b, n, j, v)
          PROVE  Stands(ReadBody(a[i], r[i - 1]), b, n, j + Len(seqs[i]), ixs[i])
      <3> DEFINE x == ixs[i]
                 q == r[i - 1]
      <3>1. x \in Instruction
        OBVIOUS
      <3>2. seqs[i] = BodyBytes(x) /\ a[i] = HeadOf(x)
        BY <1>1, <1>2
      <3>3. Here(b, j, BodyBytes(x)) /\ Stands(q, b, n, j, v)
        BY <2>2, <3>2
      <3> HIDE DEF x, q
      <3>4. Stands(ReadBody(HeadOf(x), q), b, n, j + Len(BodyBytes(x)), x)
        BY <3>1, <3>3, ReadBodyStands
      <3> QED BY <3>2, <3>4 DEF x, q
    <2> QED BY <1>1, <2>1, <2>2
  <1> QED BY <1>1, <1>3, <1>4, AllItemsStand DEF a


\* The bits of a mask.
LEMMA MaskBits ==
    ASSUME NEW b1 \in {0, 3}, NEW b2 \in {0, 4}, NEW b3 \in {0, 8}, NEW b4 \in {0, 16},
           NEW s, s = b1 + b2 + b3 + b4
    PROVE  /\ s \in 0 .. 31 /\ s % 4 \notin {1, 2}
           /\ s % 4 # 0 <=> b1 # 0
           /\ (s \div 4) % 2 = 1 <=> b2 # 0
           /\ (s \div 8) % 2 = 1 <=> b3 # 0
           /\ (s \div 16) % 2 = 1 <=> b4 # 0
  OBVIOUS

LEMMA MaskFacts ==
    ASSUME NEW c, FullConfig(c)
    PROVE  /\ Mask(c) \in 0 .. 31 /\ MaskValid(Mask(c))
           /\ \A f \in 1 .. 4 : MaskHas(Mask(c), f) <=> c[f] # <<>>
  <1> DEFINE b(f) == IF c # <<>> /\ c[f] # <<>> THEN FieldMask[f] ELSE 0
             s == Mask(c)
  <1>0. c # <<>>
    BY DEF FullConfig
  <1>1. FieldMask[1] = 3 /\ FieldMask[2] = 4 /\ FieldMask[3] = 8 /\ FieldMask[4] = 16
    BY DEF FieldMask
  <1>2. \A f \in 1 .. 4 : b(f) \in {0, FieldMask[f]} /\ (b(f) # 0 <=> c[f] # <<>>)
    <2> TAKE f \in 1 .. 4
    <2> FieldMask[f] # 0
      <3> f = 1 \/ f = 2 \/ f = 3 \/ f = 4
        OBVIOUS
      <3> QED BY <1>1
    <2> QED BY <1>0
  <1>3. s = b(1) + b(2) + b(3) + b(4)
    BY DEF Mask
  <1> HIDE DEF b, s
  <1>4. /\ b(1) \in {0, 3} /\ b(2) \in {0, 4} /\ b(3) \in {0, 8} /\ b(4) \in {0, 16}
    BY <1>1, <1>2
  <1>5. /\ s \in 0 .. 31 /\ s % 4 \notin {1, 2}
        /\ s % 4 # 0 <=> b(1) # 0
        /\ (s \div 4) % 2 = 1 <=> b(2) # 0
        /\ (s \div 8) % 2 = 1 <=> b(3) # 0
        /\ (s \div 16) % 2 = 1 <=> b(4) # 0
    BY <1>3, <1>4, MaskBits
  <1>6. \A f \in 1 .. 4 : MaskHas(s, f) <=> b(f) # 0
    <2> SUFFICES ASSUME NEW f \in 1 .. 4 PROVE MaskHas(s, f) <=> b(f) # 0
      OBVIOUS
    <2>1. f = 1 \/ f = 2 \/ f = 3 \/ f = 4
      OBVIOUS
    <2> QED BY <1>1, <1>5, <2>1 DEF MaskHas
  <1>7. MaskValid(s)
    BY <1>5 DEF MaskValid
  <1> QED BY <1>2, <1>5, <1>6, <1>7 DEF s

\* The struct being decoded, with its locals.
Locals(mask, counts, heads, m) ==
    [mask |-> mask, counts |-> counts, heads |-> heads, version |-> m.version,
     header |-> m.header, keys |-> m.keys, hash |-> m.hash, ixs |-> m.ixs,
     lookups |-> m.lookups, config |-> m.config]

LEMMA EmptyLocals == EmptyWithLocals = Locals(0, <<>>, <<>>, EmptyMessage(V1))
  BY DEF Locals, EmptyMessage, EmptyWithLocals

Stripped(v) == [f \in DOMAIN EmptyMessage(V1) |-> v[f]]

LEMMA DropLocals ==
    ASSUME NEW mask, NEW counts, NEW heads, NEW m \in Message
    PROVE  Stripped(Locals(mask, counts, heads, m)) = m
  BY MessageParts DEF Locals, EmptyMessage, Stripped


LEMMA MarshalledV1 ==
    ASSUME NEW m \in Message, m.version = V1, Marshal(m) # Refused
    PROVE  /\ m.lookups = <<>> /\ Marshal(m) = MarshalV1(m)
           /\ Len(m.keys) <= MaxU8 /\ Len(m.ixs) <= MaxU8 /\ InstructionsFitV1(m.ixs)
           /\ Len(m.keys) \in Byte /\ Len(m.ixs) \in Byte
  <1>0. /\ m.keys \in Seq(OfSize(KeySize)) /\ m.ixs \in Seq(Instruction)
        /\ Len(m.keys) \in Nat /\ Len(m.ixs) \in Nat
    BY MessageParts
  <1>1. Validate(m) /\ Marshal(m) = MarshalInto(m)
    BY DEF Marshal
  <1>2. MarshalInto(m) = MarshalV1(m)
    BY DEF MarshalInto
  <1>3. m.lookups = <<>>
    BY <1>1, Versions DEF Validate
  <1>4. /\ ~(Len(m.keys) > MaxU8) /\ ~(Len(m.ixs) > MaxU8)
        /\ \A ix \in ToSet(m.ixs) : ~(Len(ix.accounts) > MaxU8) /\ ~(Len(ix.data) > MaxU16)
    BY <1>1, <1>2 DEF MarshalV1
  <1>5. Len(m.keys) <= MaxU8 /\ Len(m.ixs) <= MaxU8
    BY <1>0, <1>4, Sizes
  <1>6. InstructionsFitV1(m.ixs)
    <2> SUFFICES ASSUME NEW i \in 1 .. Len(m.ixs)
                 PROVE  Len(m.ixs[i].accounts) <= MaxU8 /\ Len(m.ixs[i].data) <= MaxU16
      BY DEF InstructionsFitV1
    <2> DEFINE x == m.ixs[i]
    <2>1. x \in Instruction /\ x \in ToSet(m.ixs)
      BY <1>0 DEF ToSet
    <2> HIDE DEF x
    <2>2. x.accounts \in Seq(Byte) /\ x.data \in Seq(Byte)
      BY <2>1 DEF Instruction
    <2>3. Len(x.accounts) \in Nat /\ Len(x.data) \in Nat
      BY <2>2
    <2>4. ~(Len(x.accounts) > MaxU8) /\ ~(Len(x.data) > MaxU16)
      BY <1>4, <2>1
    <2>5. Len(x.accounts) <= MaxU8 /\ Len(x.data) <= MaxU16
      BY <2>3, <2>4, Sizes DEF MaxU16
    <2> QED BY <2>5 DEF x
  <1> QED BY <1>0, <1>1, <1>2, <1>3, <1>5, <1>6, Sizes DEF Byte

\* The config of the decoded message: its options, their bytes and its mask.
OptionsOf(c) == [f \in 1 .. 4 |-> OptionBytes(c, f)]

LEMMA OptionsFact ==
    ASSUME NEW c, FullConfig(c)
    PROVE  /\ OptionsOf(c) \in Seq(Seq(Byte)) /\ Len(OptionsOf(c)) = 4
           /\ \A f \in 1 .. 4 : OptionsOf(c)[f] = OptionBytes(c, f)
           /\ FlattenSeq(OptionsOf(c)) = MarshalConfig(c)
  <1>1. \A f \in 1 .. 4 : OptionBytes(c, f) \in Seq(Byte)
    BY OptionBytesFact
  <1>2. OptionsOf(c) \in Seq(Seq(Byte)) /\ Len(OptionsOf(c)) = 4
    BY <1>1 DEF OptionsOf
  <1>3. DOMAIN c = 1 .. 4
    BY DEF FullConfig
  <1>4. MarshalConfig(c) = FlattenSeq(OptionsOf(c))
    BY <1>3 DEF MarshalConfig, OptionsOf, OptionBytes
  <1> QED BY <1>2, <1>4 DEF OptionsOf

LEMMA DecodedConfig ==
    ASSUME NEW m \in Message, m.version = V1, ConfigFits(m)
    PROVE  /\ FullConfig(Decoded(m).config)
           /\ MarshalConfig(m.config) = MarshalConfig(Decoded(m).config)
           /\ Mask(m.config) = Mask(Decoded(m).config)
           /\ Decoded(m) \in Message
           /\ Decoded(m) = [version |-> V1, header |-> m.header, keys |-> m.keys, hash |-> m.hash,
                            ixs |-> m.ixs, lookups |-> m.lookups, config |-> Decoded(m).config]
  <1>1. CASE m.config # <<>>
    <2>1. Decoded(m) = m
      BY <1>1 DEF Decoded
    <2>2. FullConfig(m.config)
      BY <1>1, MessageParts DEF ConfigFits, FullConfig
    <2> QED BY <2>1, <2>2, MessageParts
  <1>2. CASE m.config = <<>>
    <2> DEFINE c == <<<<>>, <<>>, <<>>, <<>>>>
    <2>1. /\ Decoded(m) = [m EXCEPT !.config = c] /\ Decoded(m).config = c
          /\ Decoded(m) = [version |-> V1, header |-> m.header, keys |-> m.keys, hash |-> m.hash,
                           ixs |-> m.ixs, lookups |-> m.lookups, config |-> c]
      <3>1. Decoded(m) = [m EXCEPT !.config = c]
        BY <1>2 DEF Decoded
      <3>2. m = [version |-> V1, header |-> m.header, keys |-> m.keys, hash |-> m.hash,
                 ixs |-> m.ixs, lookups |-> m.lookups, config |-> m.config]
        BY MessageParts
      <3> HIDE DEF c
      <3> QED BY <3>1, <3>2
    <2>2. c \in Seq(Seq(Nat)) /\ Len(c) = 4 /\ \A f \in 1 .. 4 : c[f] = <<>>
      <3>1. <<>> \in Seq(Nat)
        OBVIOUS
      <3>2. \A f \in 1 .. 4 : f = 1 \/ f = 2 \/ f = 3 \/ f = 4
        OBVIOUS
      <3> QED BY <3>1, <3>2
    <2> HIDE DEF c
    <2>3. FullConfig(c)
      BY <2>2 DEF FullConfig
    <2>4. Decoded(m) \in Message
      BY <2>1, <2>2, MessageParts DEF Message
    <2>5. MarshalConfig(c) = <<>>
      <3> DEFINE e == FlattenSeq(OptionsOf(c))
      <3>1. OptionsOf(c) \in Seq(Seq(Byte)) /\ Len(OptionsOf(c)) = 4 /\ e = MarshalConfig(c)
        BY <2>3, OptionsFact
      <3>2. \A f \in 1 .. 4 : OptionsOf(c)[f] = <<>>
        BY <2>2, <2>3, OptionsFact DEF OptionBytes
      <3>3. e \in Seq(Byte) /\ \A y : Occurs(y, e) <=> \E i \in 1 .. 4 : Occurs(y, OptionsOf(c)[i])
        BY <3>1, FlattenElements
      <3>4. \A y : ~Occurs(y, e)
        <4>1. \A y : ~Occurs(y, <<>>)
          BY DEF Occurs
        <4> QED BY <3>2, <3>3, <4>1
      <3> HIDE DEF e
      <3>5. Len(e) = 0
        <4>1. Len(e) \in Nat
          BY <3>3
        <4>2. CASE Len(e) # 0
          <5>1. 1 \in 1 .. Len(e)
            BY <4>1, <4>2
          <5>2. Occurs(e[1], e)
            BY <5>1 DEF Occurs
          <5> QED BY <3>4, <5>2
        <4> QED BY <4>2
      <3> QED BY <3>1, <3>3, <3>5
    <2>6. MarshalConfig(m.config) = <<>>
      <3>1. [f \in DOMAIN m.config |->
               IF m.config[f] = <<>> THEN <<>> ELSE WriteUint(m.config[f][1], FieldSize[f])] = <<>>
        BY <1>2
      <3> QED BY <3>1, FlattenEmpty DEF MarshalConfig
    <2>7. Mask(m.config) = 0
      BY <1>2 DEF Mask
    <2>8. Mask(c) = 0
      <3>1. c[1] = <<>> /\ c[2] = <<>> /\ c[3] = <<>> /\ c[4] = <<>>
        BY <2>2
      <3> QED BY <3>1 DEF Mask
    <2> QED BY <2>1, <2>3, <2>4, <2>5, <2>6, <2>7, <2>8
  <1> QED BY <1>1, <1>2

\* Heads and bodies of a message.
HeadBytesOf(m) == [i \in DOMAIN m.ixs |-> HeadBytes(m.ixs[i])]
BodyBytesOf(m) == [i \in DOMAIN m.ixs |-> BodyBytes(m.ixs[i])]

LEMMA HeadsAndBodies ==
    ASSUME NEW m \in Message, InstructionsFitV1(m.ixs)
    PROVE  HeadsEncoded(HeadBytesOf(m), m.ixs) /\ BodiesEncoded(BodyBytesOf(m), m.ixs)
  <1>1. m.ixs \in Seq(Instruction) /\ DOMAIN m.ixs = 1 .. Len(m.ixs) /\ Len(m.ixs) \in Nat
    BY MessageParts
  <1>2. ASSUME NEW i \in 1 .. Len(m.ixs)
        PROVE  HeadBytes(m.ixs[i]) \in Seq(Byte) /\ BodyBytes(m.ixs[i]) \in Seq(Byte)
    <2> DEFINE x == m.ixs[i]
    <2>1. x \in Instruction
      BY <1>1
    <2>2. Len(x.accounts) <= MaxU8 /\ Len(x.data) <= MaxU16
      BY DEF InstructionsFitV1
    <2> HIDE DEF x
    <2>3. HeadBytes(x) \in Seq(Byte)
      BY <2>1, <2>2, HeadBytesFact
    <2>4. x.accounts \in Seq(Byte) /\ x.data \in Seq(Byte)
      BY <2>1 DEF Instruction
    <2>5. BodyBytes(x) \in Seq(Byte)
      BY <2>4, ConcatBytes DEF BodyBytes
    <2> QED BY <2>3, <2>5 DEF x
  <1>3. /\ HeadBytesOf(m) \in Seq(Seq(Byte)) /\ Len(HeadBytesOf(m)) = Len(m.ixs)
        /\ \A i \in 1 .. Len(m.ixs) : HeadBytesOf(m)[i] = HeadBytes(m.ixs[i])
    BY <1>1, <1>2 DEF HeadBytesOf
  <1>4. /\ BodyBytesOf(m) \in Seq(Seq(Byte)) /\ Len(BodyBytesOf(m)) = Len(m.ixs)
        /\ \A i \in 1 .. Len(m.ixs) : BodyBytesOf(m)[i] = BodyBytes(m.ixs[i])
    BY <1>1, <1>2 DEF BodyBytesOf
  <1> QED BY <1>3, <1>4 DEF HeadsEncoded, BodiesEncoded

LEMMA MaskBytes ==
    ASSUME NEW m \in Message, m.version = V1, ConfigFits(m)
    PROVE  /\ Mask(m.config) \in Nat /\ Shifted(Mask(m.config), U32Size) = 0
           /\ WriteUint(Mask(m.config), U32Size) \in Seq(Byte)
           /\ Len(WriteUint(Mask(m.config), U32Size)) = U32Size
           /\ MaskValid(Mask(m.config))
           /\ \A f \in 1 .. 4 : MaskHas(Mask(m.config), f) <=> Decoded(m).config[f] # <<>>
  <1> DEFINE v == Mask(m.config)
  <1>1. v \in 0 .. 31 /\ MaskValid(v)
        /\ \A f \in 1 .. 4 : MaskHas(v, f) <=> Decoded(m).config[f] # <<>>
    BY DecodedConfig, MaskFacts
  <1> HIDE DEF v
  <1>2. v \in 0 .. MaxU16 /\ v \in Nat
    <2>1. ByteMod * ByteMod >= 8 * 8 /\ ByteMod * ByteMod \in Nat
      BY Sizes
    <2>2. MaxU16 \in Nat /\ MaxU16 >= 63
      BY <2>1, Sizes DEF MaxU16
    <2>3. v \in 0 .. 31
      BY <1>1
    <2> QED BY <2>2, <2>3
  <1>3. Shifted(v, 2) = 0
    BY <1>2, FitsU16
  <1>4. \A i \in Nat : Shifted(v, i + 2) = 0
    <2> DEFINE S == {i \in Nat : Shifted(v, i + 2) = 0}
    <2>1. 0 \in S
      BY <1>3
    <2>2. ASSUME NEW i \in Nat, i \in S PROVE i + 1 \in S
      <3>1. Shifted(v, i + 2 + 1) = Shifted(v, i + 2) \div ByteMod
        BY ShiftedNext, i + 2 \in Nat
      <3>2. 0 \div ByteMod = 0 /\ i + 2 + 1 = i + 1 + 2
        BY Sizes
      <3> QED BY <2>2, <3>1, <3>2
    <2>3. Nat \subseteq S
      <3> HIDE DEF S
      <3> QED BY <2>1, <2>2, Induct
    <2> QED BY <2>3
  <1>5. U32Size - 2 \in Nat /\ U32Size - 2 + 2 = U32Size /\ U32Size \in Nat
    BY Sizes
  <1>6. Shifted(v, U32Size) = 0
    BY <1>4, <1>5
  <1>7. WriteUint(v, U32Size) \in Seq(Byte) /\ Len(WriteUint(v, U32Size)) = U32Size
    BY <1>2, <1>5, WriteUintBytes
  <1> QED BY <1>1, <1>2, <1>6, <1>7 DEF v


\* The parts of a v1 message.
CountsOf(m) == <<Len(m.ixs), Len(m.keys)>>
MaskOf(m) == WriteUint(Mask(m.config), U32Size)

LEMMA PartsV1 ==
    ASSUME NEW m \in Message, m.version = V1, ConfigFits(m), Marshal(m) # Refused
    PROVE  /\ <<Cont + V1>> \in Seq(Byte) /\ Cont + V1 \in Byte
           /\ m.header \in Seq(Byte) /\ Len(m.header) = 3
           /\ MaskOf(m) \in Seq(Byte) /\ Len(MaskOf(m)) = U32Size
           /\ m.hash \in Seq(Byte) /\ Len(m.hash) = HashSize
           /\ CountsOf(m) \in Seq(Byte) /\ Len(CountsOf(m)) = 2
           /\ FlattenSeq(m.keys) \in Seq(Byte) /\ MarshalConfig(m.config) \in Seq(Byte)
           /\ FlattenSeq(HeadBytesOf(m)) \in Seq(Byte) /\ FlattenSeq(BodyBytesOf(m)) \in Seq(Byte)
  <1>1. Cont + V1 \in Byte
    BY Sizes DEF V1, Byte
  <1>2. m.header \in Seq(Byte) /\ Len(m.header) = 3
    BY MessageParts, FixedBytes, 3 \in Nat
  <1>3. m.hash \in Seq(Byte) /\ Len(m.hash) = HashSize
    BY MessageParts, FixedBytes, Sizes
  <1>4. FlattenSeq(m.keys) \in Seq(Byte)
    <2>1. KeySize \in Nat /\ m.keys \in Seq(OfSize(KeySize))
      BY MessageParts, Sizes
    <2>2. \A i \in 1 .. Len(m.keys) : m.keys[i] \in Seq(Byte)
      BY <2>1, FixedBytes
    <2>3. m.keys \in Seq(Seq(Byte))
      BY <2>1, <2>2
    <2> QED BY <2>3, FlattenElements
  <1>5. MaskOf(m) \in Seq(Byte) /\ Len(MaskOf(m)) = U32Size
    BY MaskBytes DEF MaskOf
  <1>6. CountsOf(m) \in Seq(Byte) /\ Len(CountsOf(m)) = 2
    BY MarshalledV1 DEF CountsOf
  <1>7. MarshalConfig(m.config) \in Seq(Byte)
    <2> DEFINE c == Decoded(m).config
    <2>1. FullConfig(c) /\ MarshalConfig(m.config) = MarshalConfig(c)
      BY DecodedConfig
    <2> HIDE DEF c
    <2>2. OptionsOf(c) \in Seq(Seq(Byte)) /\ FlattenSeq(OptionsOf(c)) = MarshalConfig(c)
      BY <2>1, OptionsFact
    <2>3. FlattenSeq(OptionsOf(c)) \in Seq(Byte)
      BY <2>2, FlattenElements
    <2> QED BY <2>1, <2>2, <2>3
  <1>8. HeadBytesOf(m) \in Seq(Seq(Byte)) /\ BodyBytesOf(m) \in Seq(Seq(Byte))
    BY MarshalledV1, HeadsAndBodies DEF HeadsEncoded, BodiesEncoded
  <1>9. FlattenSeq(HeadBytesOf(m)) \in Seq(Byte) /\ FlattenSeq(BodyBytesOf(m)) \in Seq(Byte)
    BY <1>8, FlattenElements
  <1> QED BY <1>1, <1>2, <1>3, <1>4, <1>5, <1>6, <1>7, <1>9

LEMMA MarshalV1Parts ==
    ASSUME NEW m \in Message, m.version = V1, Marshal(m) # Refused
    PROVE  Marshal(m) = (((((((<<Cont + V1>> \o m.header) \o MaskOf(m)) \o m.hash) \o CountsOf(m))
                            \o FlattenSeq(m.keys)) \o MarshalConfig(m.config))
                          \o FlattenSeq(HeadBytesOf(m))) \o FlattenSeq(BodyBytesOf(m))
  <1>1. Marshal(m) = MarshalV1(m) /\ MarshalV1(m) # Refused
    BY MarshalledV1
  <1>2. [i \in DOMAIN m.ixs |-> <<m.ixs[i].program, Len(m.ixs[i].accounts)>>
                                \o WriteUint(Len(m.ixs[i].data), 2)] = HeadBytesOf(m)
    BY DEF HeadBytesOf, HeadBytes
  <1>3. [i \in DOMAIN m.ixs |-> m.ixs[i].accounts \o m.ixs[i].data] = BodyBytesOf(m)
    BY DEF BodyBytesOf, BodyBytes
  <1>4. MarshalV1(m) = (((((((<<Cont + V1>> \o m.header) \o MaskOf(m)) \o m.hash) \o CountsOf(m))
                            \o FlattenSeq(m.keys)) \o MarshalConfig(m.config))
              \o FlattenSeq([i \in DOMAIN m.ixs |-> <<m.ixs[i].program, Len(m.ixs[i].accounts)>>
                                \o WriteUint(Len(m.ixs[i].data), 2)]))
              \o FlattenSeq([i \in DOMAIN m.ixs |-> m.ixs[i].accounts \o m.ixs[i].data])
    BY <1>1 DEF MarshalV1, MaskOf, CountsOf
  <1> QED BY <1>1, <1>2, <1>3, <1>4


\* Decoding a v1 message, once its prefix is read.
BodyV1(p) ==
    WithoutLocals(BodiesField(HeadsField(ConfigField(KeysField(CountsField(
        BytesField(MaskField(ItemsField(p, "header", 3, ReadU8)), "hash", HashSize)))))))

LEMMA BodyV1Stands ==
    ASSUME NEW b \in Seq(Byte), NEW n \in 0 .. Len(b), NEW k \in Nat, NEW p,
           NEW m \in Message, m.version = V1, ConfigFits(m), Marshal(m) # Refused,
           Here(b, k, Marshal(m)), Stands(p, b, n, k + 1, EmptyWithLocals)
    PROVE  Stands(BodyV1(p), b, n, k + Len(Marshal(m)), Decoded(m))
  <1> DEFINE a1 == <<Cont + V1>>
             x1 == a1
             k1 == k + Len(x1)
             a2 == m.header
             x2 == x1 \o a2
             k2 == k + Len(x2)
             a3 == MaskOf(m)
             x3 == x2 \o a3
             k3 == k + Len(x3)
             a4 == m.hash
             x4 == x3 \o a4
             k4 == k + Len(x4)
             a5 == CountsOf(m)
             x5 == x4 \o a5
             k5 == k + Len(x5)
             a6 == FlattenSeq(m.keys)
             x6 == x5 \o a6
             k6 == k + Len(x6)
             a7 == MarshalConfig(m.config)
             x7 == x6 \o a7
             k7 == k + Len(x7)
             a8 == FlattenSeq(HeadBytesOf(m))
             x8 == x7 \o a8
             k8 == k + Len(x8)
             a9 == FlattenSeq(BodyBytesOf(m))
             x9 == x8 \o a9
             k9 == k + Len(x9)
             v1 == EmptyWithLocals
             u2 == m.header
             v2 == [v1 EXCEPT !["header"] = u2]
             u3 == Mask(m.config)
             v3 == [v2 EXCEPT !["mask"] = u3]
             u4 == m.hash
             v4 == [v3 EXCEPT !["hash"] = u4]
             u5 == CountsOf(m)
             v5 == [v4 EXCEPT !["counts"] = u5]
             u6 == m.keys
             v6 == [v5 EXCEPT !["keys"] = u6]
             u7 == Decoded(m).config
             v7 == [v6 EXCEPT !["config"] = u7]
             u8 == HeadsOf(m.ixs)
             v8 == [v7 EXCEPT !["heads"] = u8]
             u9 == m.ixs
             v9 == [v8 EXCEPT !["ixs"] = u9]
             p2 == ItemsField(p, "header", 3, ReadU8)
             p3 == MaskField(p2)
             p4 == BytesField(p3, "hash", HashSize)
             p5 == CountsField(p4)
             p6 == KeysField(p5)
             p7 == ConfigField(p6)
             p8 == HeadsField(p7)
             p9 == BodiesField(p8)
  <1>1. /\ a1 \in Seq(Byte) /\ a2 \in Seq(Byte) /\ a3 \in Seq(Byte) /\ a4 \in Seq(Byte) /\ a5 \in Seq(Byte)
        /\ a6 \in Seq(Byte) /\ a7 \in Seq(Byte) /\ a8 \in Seq(Byte) /\ a9 \in Seq(Byte)
        /\ Len(a1) = 1 /\ Len(a2) = 3 /\ Len(a3) = U32Size /\ Len(a4) = HashSize /\ Len(a5) = 2
    BY PartsV1
  <1>2. Marshal(m) = x9
    BY MarshalV1Parts
  <1>3. BodyV1(p) = WithoutLocals(p9)
    BY DEF BodyV1
  <1>4. v9 = Locals(u3, u5, u8, Decoded(m))
    <2>1. m.lookups = <<>>
      BY MarshalledV1
    <2>2. Decoded(m) = [version |-> V1, header |-> m.header, keys |-> m.keys, hash |-> m.hash,
                        ixs |-> m.ixs, lookups |-> <<>>, config |-> u7]
      BY <2>1, DecodedConfig
    <2>3. v9 = [mask |-> u3, counts |-> u5, heads |-> u8, version |-> V1, header |-> u2,
                keys |-> u6, hash |-> u4, ixs |-> u9, lookups |-> <<>>, config |-> u7]
      <3> HIDE DEF u2, u3, u4, u5, u6, u7, u8, u9
      <3> QED BY DEF EmptyWithLocals
    <2>4. Locals(u3, u5, u8, Decoded(m))
            = [mask |-> u3, counts |-> u5, heads |-> u8, version |-> V1, header |-> u2,
               keys |-> u6, hash |-> u4, ixs |-> u9, lookups |-> <<>>, config |-> u7]
      <3> HIDE DEF u3, u5, u7, u8
      <3> QED BY <2>2 DEF Locals
    <2> QED BY <2>3, <2>4
  <1>5. /\ u2 = a2 /\ a3 = WriteUint(u3, U32Size) /\ u4 = a4 /\ u5 = a5 /\ u3 \in Nat
        /\ U32Size \in Nat /\ Shifted(u3, U32Size) = 0 /\ MaskValid(u3) /\ n \in Nat
        /\ \A f \in 1 .. 4 : MaskHas(u3, f) <=> u7[f] # <<>>
        /\ u5[1] = Len(m.ixs) /\ u5[2] = Len(m.keys) /\ FullConfig(u7)
        /\ a7 = FlattenSeq(OptionsOf(u7))
        /\ m.keys \in Seq(OfSize(KeySize)) /\ m.ixs \in Seq(Instruction)
        /\ InstructionsFitV1(m.ixs)
        /\ HeadsEncoded(HeadBytesOf(m), m.ixs) /\ BodiesEncoded(BodyBytesOf(m), m.ixs)
    <2>1. /\ u2 = a2 /\ a3 = WriteUint(u3, U32Size) /\ u4 = a4 /\ u5 = a5 /\ n \in Nat
          /\ u5[1] = Len(m.ixs) /\ u5[2] = Len(m.keys)
      BY DEF MaskOf, CountsOf
    <2>2. /\ u3 \in Nat /\ U32Size \in Nat /\ Shifted(u3, U32Size) = 0 /\ MaskValid(u3)
          /\ \A f \in 1 .. 4 : MaskHas(u3, f) <=> u7[f] # <<>>
      BY MaskBytes, Sizes
    <2>3. FullConfig(u7) /\ a7 = FlattenSeq(OptionsOf(u7))
      BY DecodedConfig, OptionsFact
    <2>4. /\ m.keys \in Seq(OfSize(KeySize)) /\ m.ixs \in Seq(Instruction)
          /\ InstructionsFitV1(m.ixs)
      BY MessageParts, MarshalledV1
    <2>5. HeadsEncoded(HeadBytesOf(m), m.ixs) /\ BodiesEncoded(BodyBytesOf(m), m.ixs)
      BY <2>4, HeadsAndBodies
    <2> QED BY <2>1, <2>2, <2>3, <2>4, <2>5
  <1>6. /\ k1 = k + 1 /\ Stands(p, b, n, k1, v1)
        /\ v2.mask = 0 /\ v3.mask = u3 /\ v5.counts = u5 /\ v6.mask = u3
        /\ v7.counts = u5 /\ v8.counts = u5 /\ v8.heads = u8
    <2> HIDE DEF u2, u3, u4, u5, u6, u7, u8
    <2>1. Len(a1) = 1
      BY <1>1
    <2>2. /\ v2.mask = 0 /\ v3.mask = u3 /\ v5.counts = u5 /\ v6.mask = u3
          /\ v7.counts = u5 /\ v8.counts = u5 /\ v8.heads = u8
      BY DEF EmptyWithLocals
    <2> QED BY <2>1, <2>2
  <1> HIDE DEF a1, a2, a3, a4, a5, a6, a7, a8, a9, u2, u3, u4, u5, u6, u7, u8, u9
  <1> HIDE DEF v1, v2, v3, v4, v5, v6, v7, v8, v9, p2, p3, p4, p5, p6, p7, p8, p9
  <1>7. x1 \in Seq(Byte) /\ x2 \in Seq(Byte) /\ x3 \in Seq(Byte) /\ x4 \in Seq(Byte)
        /\ x5 \in Seq(Byte) /\ x6 \in Seq(Byte) /\ x7 \in Seq(Byte) /\ x8 \in Seq(Byte)
    <2>1. x1 \in Seq(Byte)
      BY <1>1
    <2> HIDE DEF x1
    <2>2. x2 \in Seq(Byte)
      BY <1>1, <2>1, ConcatBytes
    <2> HIDE DEF x2
    <2>3. x3 \in Seq(Byte)
      BY <1>1, <2>2, ConcatBytes
    <2> HIDE DEF x3
    <2>4. x4 \in Seq(Byte)
      BY <1>1, <2>3, ConcatBytes
    <2> HIDE DEF x4
    <2>5. x5 \in Seq(Byte)
      BY <1>1, <2>4, ConcatBytes
    <2> HIDE DEF x5
    <2>6. x6 \in Seq(Byte)
      BY <1>1, <2>5, ConcatBytes
    <2> HIDE DEF x6
    <2>7. x7 \in Seq(Byte)
      BY <1>1, <2>6, ConcatBytes
    <2> HIDE DEF x7
    <2>8. x8 \in Seq(Byte)
      BY <1>1, <2>7, ConcatBytes
    <2> HIDE DEF x8
    <2> QED BY <2>1, <2>2, <2>3, <2>4, <2>5, <2>6, <2>7, <2>8
  <1>h. Here(b, k, x9)
    BY <1>2
  <1> HIDE DEF x1, x2, x3, x4, x5, x6, x7, x8, x9
  <1>h9. /\ Here(b, k, x8) /\ Here(b, k8, a9) /\ k9 = k8 + Len(a9)
        /\ k8 \in Nat /\ k9 \in Nat /\ k8 <= k9
    <2>1. Here(b, k, x8 \o a9) /\ x8 \in Seq(Byte) /\ a9 \in Seq(Byte)
      BY <1>1, <1>7, <1>h DEF x9
    <2>2. /\ Here(b, k, x8) /\ Here(b, k + Len(x8), a9)
          /\ k + Len(x8 \o a9) = k + Len(x8) + Len(a9)
          /\ k + Len(x8) \in Nat /\ k + Len(x8 \o a9) \in Nat
          /\ k + Len(x8) <= k + Len(x8 \o a9)
      BY <2>1, NextPart
    <2> QED BY <2>2 DEF x9
  <1>h8. /\ Here(b, k, x7) /\ Here(b, k7, a8) /\ k8 = k7 + Len(a8)
        /\ k7 \in Nat /\ k8 \in Nat /\ k7 <= k8
    <2>1. Here(b, k, x7 \o a8) /\ x7 \in Seq(Byte) /\ a8 \in Seq(Byte)
      BY <1>1, <1>7, <1>h9 DEF x8
    <2>2. /\ Here(b, k, x7) /\ Here(b, k + Len(x7), a8)
          /\ k + Len(x7 \o a8) = k + Len(x7) + Len(a8)
          /\ k + Len(x7) \in Nat /\ k + Len(x7 \o a8) \in Nat
          /\ k + Len(x7) <= k + Len(x7 \o a8)
      BY <2>1, NextPart
    <2> QED BY <2>2 DEF x8
  <1>h7. /\ Here(b, k, x6) /\ Here(b, k6, a7) /\ k7 = k6 + Len(a7)
        /\ k6 \in Nat /\ k7 \in Nat /\ k6 <= k7
    <2>1. Here(b, k, x6 \o a7) /\ x6 \in Seq(Byte) /\ a7 \in Seq(Byte)
      BY <1>1, <1>7, <1>h8 DEF x7
    <2>2. /\ Here(b, k, x6) /\ Here(b, k + Len(x6), a7)
          /\ k + Len(x6 \o a7) = k + Len(x6) + Len(a7)
          /\ k + Len(x6) \in Nat /\ k + Len(x6 \o a7) \in Nat
          /\ k + Len(x6) <= k + Len(x6 \o a7)
      BY <2>1, NextPart
    <2> QED BY <2>2 DEF x7
  <1>h6. /\ Here(b, k, x5) /\ Here(b, k5, a6) /\ k6 = k5 + Len(a6)
        /\ k5 \in Nat /\ k6 \in Nat /\ k5 <= k6
    <2>1. Here(b, k, x5 \o a6) /\ x5 \in Seq(Byte) /\ a6 \in Seq(Byte)
      BY <1>1, <1>7, <1>h7 DEF x6
    <2>2. /\ Here(b, k, x5) /\ Here(b, k + Len(x5), a6)
          /\ k + Len(x5 \o a6) = k + Len(x5) + Len(a6)
          /\ k + Len(x5) \in Nat /\ k + Len(x5 \o a6) \in Nat
          /\ k + Len(x5) <= k + Len(x5 \o a6)
      BY <2>1, NextPart
    <2> QED BY <2>2 DEF x6
  <1>h5. /\ Here(b, k, x4) /\ Here(b, k4, a5) /\ k5 = k4 + Len(a5)
        /\ k4 \in Nat /\ k5 \in Nat /\ k4 <= k5
    <2>1. Here(b, k, x4 \o a5) /\ x4 \in Seq(Byte) /\ a5 \in Seq(Byte)
      BY <1>1, <1>7, <1>h6 DEF x5
    <2>2. /\ Here(b, k, x4) /\ Here(b, k + Len(x4), a5)
          /\ k + Len(x4 \o a5) = k + Len(x4) + Len(a5)
          /\ k + Len(x4) \in Nat /\ k + Len(x4 \o a5) \in Nat
          /\ k + Len(x4) <= k + Len(x4 \o a5)
      BY <2>1, NextPart
    <2> QED BY <2>2 DEF x5
  <1>h4. /\ Here(b, k, x3) /\ Here(b, k3, a4) /\ k4 = k3 + Len(a4)
        /\ k3 \in Nat /\ k4 \in Nat /\ k3 <= k4
    <2>1. Here(b, k, x3 \o a4) /\ x3 \in Seq(Byte) /\ a4 \in Seq(Byte)
      BY <1>1, <1>7, <1>h5 DEF x4
    <2>2. /\ Here(b, k, x3) /\ Here(b, k + Len(x3), a4)
          /\ k + Len(x3 \o a4) = k + Len(x3) + Len(a4)
          /\ k + Len(x3) \in Nat /\ k + Len(x3 \o a4) \in Nat
          /\ k + Len(x3) <= k + Len(x3 \o a4)
      BY <2>1, NextPart
    <2> QED BY <2>2 DEF x4
  <1>h3. /\ Here(b, k, x2) /\ Here(b, k2, a3) /\ k3 = k2 + Len(a3)
        /\ k2 \in Nat /\ k3 \in Nat /\ k2 <= k3
    <2>1. Here(b, k, x2 \o a3) /\ x2 \in Seq(Byte) /\ a3 \in Seq(Byte)
      BY <1>1, <1>7, <1>h4 DEF x3
    <2>2. /\ Here(b, k, x2) /\ Here(b, k + Len(x2), a3)
          /\ k + Len(x2 \o a3) = k + Len(x2) + Len(a3)
          /\ k + Len(x2) \in Nat /\ k + Len(x2 \o a3) \in Nat
          /\ k + Len(x2) <= k + Len(x2 \o a3)
      BY <2>1, NextPart
    <2> QED BY <2>2 DEF x3
  <1>h2. /\ Here(b, k, x1) /\ Here(b, k1, a2) /\ k2 = k1 + Len(a2)
        /\ k1 \in Nat /\ k2 \in Nat /\ k1 <= k2
    <2>1. Here(b, k, x1 \o a2) /\ x1 \in Seq(Byte) /\ a2 \in Seq(Byte)
      BY <1>1, <1>7, <1>h3 DEF x2
    <2>2. /\ Here(b, k, x1) /\ Here(b, k + Len(x1), a2)
          /\ k + Len(x1 \o a2) = k + Len(x1) + Len(a2)
          /\ k + Len(x1) \in Nat /\ k + Len(x1 \o a2) \in Nat
          /\ k + Len(x1) <= k + Len(x1 \o a2)
      BY <2>1, NextPart
    <2> QED BY <2>2 DEF x2
  <1>k. k + Len(Marshal(m)) = k9
    BY <1>2
  <1> HIDE DEF k1, k2, k3, k4, k5, k6, k7, k8, k9
  <1>s2. Stands(p2, b, n, k2, v2)
    <2>1. Stands(U8Items(p, Len(a2)), b, n, k2, u2)
      BY <1>1, <1>5, <1>6, <1>h2, U8ItemsStand
    <2>2. p2 = Field(p, "header", U8Items(p, Len(a2)))
      BY <1>1 DEF p2, ItemsField, U8Items
    <2> QED BY <1>5, <1>6, <1>h2, <2>1, <2>2, FieldStands DEF v2
  <1>s3. Stands(p3, b, n, k3, v3)
    <2> DEFINE q == UintField(p2, "mask", U32Size)
    <2>1. Stands(ReadUint(p2, U32Size), b, n, k3, u3)
      <3>1. Here(b, k2, WriteUint(u3, U32Size)) /\ k3 = k2 + U32Size
        BY <1>1, <1>5, <1>h3
      <3> QED BY <1>5, <1>h3, <1>s2, <3>1, ReadUintStands
    <2>2. Stands(q, b, n, k3, v3)
      BY <1>5, <1>h3, <1>s2, <2>1, FieldStands DEF v3, UintField
    <2>3. p3 = IF q.err = "nil" /\ ~MaskValid(q.val.mask) THEN Fail(q, "invalid") ELSE q
      BY DEF p3, MaskField
    <2> HIDE DEF q
    <2>4. q.err = "nil" => q.val = v3
      BY <2>2 DEF Stands, State
    <2>5. p3 = q
      BY <1>5, <1>6, <2>3, <2>4
    <2> QED BY <2>2, <2>5
  <1>s4. Stands(p4, b, n, k4, v4)
    <2>1. Stands(ReadBytes(p3, Len(a4)), b, n, k4, u4)
      BY <1>1, <1>5, <1>h4, <1>s3, ReadBytesStands
    <2>2. p4 = Field(p3, "hash", ReadBytes(p3, Len(a4)))
      BY <1>1 DEF p4, BytesField
    <2> QED BY <1>5, <1>h4, <1>s3, <2>1, <2>2, FieldStands DEF v4
  <1>s5. Stands(p5, b, n, k5, v5)
    <2>1. Stands(U8Items(p4, Len(a5)), b, n, k5, u5)
      BY <1>1, <1>5, <1>h5, <1>s4, U8ItemsStand
    <2>2. p5 = Field(p4, "counts", U8Items(p4, Len(a5)))
      BY <1>1 DEF p5, CountsField, ItemsField, U8Items
    <2> QED BY <1>5, <1>h5, <1>s4, <2>1, <2>2, FieldStands DEF v5
  <1>s6. Stands(p6, b, n, k6, v6)
    <2> DEFINE c == p5.val.counts[2]
    <2>1. p5.err # "nil" \/ c = Len(m.keys)
      <3>1. p5.err = "nil" => p5.val = v5
        BY <1>s5 DEF Stands, State
      <3> QED BY <1>5, <1>6, <3>1
    <2>2. p6 = Field(p5, "keys", KeyItems(p5, c))
      BY DEF p6, KeysField, ItemsField, KeyItems
    <2> HIDE DEF c
    <2>3. KeyItems(p5, c) = KeyItems(p5, Len(m.keys))
      <3>1. CASE c = Len(m.keys)
        BY <3>1
      <3>2. CASE p5.err # "nil"
        BY <3>2 DEF KeyItems, ReadItems
      <3> QED BY <2>1, <3>1, <3>2
    <2>4. Stands(KeyItems(p5, Len(m.keys)), b, n, k6, u6)
      <3>1. Here(b, k5, FlattenSeq(m.keys)) /\ k6 = k5 + Len(FlattenSeq(m.keys)) /\ u6 = m.keys
        BY <1>h6 DEF a6, u6
      <3> QED BY <1>5, <1>h6, <1>s5, <3>1, KeyItemsStand
    <2> QED BY <1>5, <1>h6, <1>s5, <2>2, <2>3, <2>4, FieldStands DEF v6
  <1>s7. Stands(p7, b, n, k7, v7)
    <2> DEFINE c == p6.val.mask
               seqs == OptionsOf(u7)
    <2>1. p6.err # "nil" \/ c = u3
      <3>1. p6.err = "nil" => p6.val = v6
        BY <1>s6 DEF Stands, State
      <3> QED BY <1>6, <3>1
    <2>2. p7 = Field(p6, "config", OptionItems(p6, 4, c))
      BY DEF p7, ConfigField, ItemsField, OptionItems
    <2> HIDE DEF c
    <2>3. OptionItems(p6, 4, c) = OptionItems(p6, 4, u3)
      <3>1. CASE c = u3
        BY <3>1
      <3>2. CASE p6.err # "nil"
        BY <3>2 DEF OptionItems, ReadItems
      <3> QED BY <2>1, <3>1, <3>2
    <2>4. /\ seqs \in Seq(Seq(Byte)) /\ Len(seqs) = 4
          /\ \A f \in 1 .. 4 : seqs[f] = OptionBytes(u7, f)
      BY <1>5, OptionsFact
    <2>5. Here(b, k6, FlattenSeq(seqs)) /\ k7 = k6 + Len(FlattenSeq(seqs))
      BY <1>5, <1>h7
    <2> HIDE DEF seqs
    <2>6. Stands(OptionItems(p6, 4, u3), b, n, k7, u7)
      BY <1>5, <1>h7, <1>s6, <2>4, <2>5, OptionItemsStand
    <2> QED BY <1>5, <1>h7, <1>s6, <2>2, <2>3, <2>6, FieldStands DEF v7
  <1>s8. Stands(p8, b, n, k8, v8)
    <2> DEFINE c == p7.val.counts[1]
               ixs == m.ixs
               seqs == HeadBytesOf(m)
    <2>1. p7.err # "nil" \/ (c = Len(ixs))
      <3>1. p7.err = "nil" => p7.val = v7
        BY <1>s7 DEF Stands, State
      <3> QED BY <1>5, <1>6, <3>1
    <2>2. p8 = Field(p7, "heads", HeadItems(p7, c))
      BY DEF p8, HeadsField, ItemsField, HeadItems
    <2> HIDE DEF c
    <2>3. HeadItems(p7, c) = HeadItems(p7, Len(ixs))
      <3>1. CASE c = Len(ixs)
        BY <3>1
      <3>2. CASE p7.err # "nil"
        BY <3>2 DEF HeadItems, ReadItems
      <3> QED BY <2>1, <3>1, <3>2
    <2>4. /\ Here(b, k7, FlattenSeq(seqs)) /\ k8 = k7 + Len(FlattenSeq(seqs))
          /\ ixs \in Seq(Instruction) /\ InstructionsFitV1(ixs) /\ HeadsEncoded(seqs, ixs)
          /\ u8 = HeadsOf(ixs)
      BY <1>5, <1>h8 DEF a8, u8, u8
    <2> HIDE DEF ixs, seqs
    <2>5. Stands(HeadItems(p7, Len(ixs)), b, n, k8, u8)
      BY <1>h8, <1>s7, <2>4, HeadItemsStand
    <2> QED BY <1>5, <1>h8, <1>s7, <2>2, <2>3, <2>5, FieldStands DEF v8
  <1>s9. Stands(p9, b, n, k9, v9)
    <2> DEFINE c == p8.val.counts[1]
               ixs == m.ixs
               seqs == BodyBytesOf(m)
               g == p8.val.heads
    <2>1. p8.err # "nil" \/ (c = Len(ixs) /\ g = u8)
      <3>1. p8.err = "nil" => p8.val = v8
        BY <1>s8 DEF Stands, State
      <3> QED BY <1>5, <1>6, <3>1
    <2>2. p9 = Field(p8, "ixs", BodyItems(p8, c, g))
      BY DEF p9, BodiesField, ItemsField, BodyItems
    <2> HIDE DEF c, g
    <2>3. BodyItems(p8, c, g) = BodyItems(p8, Len(ixs), u8)
      <3>1. CASE c = Len(ixs) /\ g = u8
        BY <3>1
      <3>2. CASE p8.err # "nil"
        BY <3>2 DEF BodyItems, ReadItems
      <3> QED BY <2>1, <3>1, <3>2
    <2>4. /\ Here(b, k8, FlattenSeq(seqs)) /\ k9 = k8 + Len(FlattenSeq(seqs))
          /\ ixs \in Seq(Instruction) /\ BodiesEncoded(seqs, ixs)
          /\ u9 = ixs /\ u8 = HeadsOf(ixs)
      BY <1>5, <1>h9 DEF a9, u8, u9
    <2> HIDE DEF ixs, seqs
    <2>5. Stands(BodyItems(p8, Len(ixs), u8), b, n, k9, u9)
      BY <1>h9, <1>s8, <2>4, BodyItemsStand
    <2> QED BY <1>5, <1>h9, <1>s8, <2>2, <2>3, <2>5, FieldStands DEF v9
  <1>8. Stands(WithoutLocals(p9), b, n, k9, Decoded(m))
    <2> DEFINE x == Stripped(p9.val)
    <2>1. p9.val = v9 => x = Decoded(m)
      <3>1. Decoded(m) \in Message
        BY DecodedConfig
      <3>2. Stripped(Locals(u3, u5, u8, Decoded(m))) = Decoded(m)
        BY <3>1, DropLocals
      <3> QED BY <1>4, <3>2
    <2>2. WithoutLocals(p9) = Value(p9, x)
      BY DEF WithoutLocals, Stripped
    <2> HIDE DEF x
    <2> QED BY <1>s9, <2>1, <2>2, ReadAs
  <1> QED BY <1>3, <1>k, <1>8


LEMMA FirstByteV1 ==
    ASSUME NEW m \in Message, m.version = V1, ConfigFits(m), Marshal(m) # Refused
    PROVE  Marshal(m) \in Seq(Byte) /\ Len(Marshal(m)) >= 1 /\ Marshal(m)[1] = Cont + V1
  <1> DEFINE a1 == <<Cont + V1>>
             x1 == a1
             a2 == m.header
             x2 == x1 \o a2
             a3 == MaskOf(m)
             x3 == x2 \o a3
             a4 == m.hash
             x4 == x3 \o a4
             a5 == CountsOf(m)
             x5 == x4 \o a5
             a6 == FlattenSeq(m.keys)
             x6 == x5 \o a6
             a7 == MarshalConfig(m.config)
             x7 == x6 \o a7
             a8 == FlattenSeq(HeadBytesOf(m))
             x8 == x7 \o a8
             a9 == FlattenSeq(BodyBytesOf(m))
             x9 == x8 \o a9
             first == Cont + V1
  <1>a. /\ a1 \in Seq(Byte) /\ a2 \in Seq(Byte) /\ a3 \in Seq(Byte) /\ a4 \in Seq(Byte) /\ a5 \in Seq(Byte)
        /\ a6 \in Seq(Byte) /\ a7 \in Seq(Byte) /\ a8 \in Seq(Byte) /\ a9 \in Seq(Byte)
    BY PartsV1
  <1>m. Marshal(m) = x9
    BY MarshalV1Parts
  <1>1. x1 \in Seq(Byte) /\ x1[1] = first /\ Len(x1) >= 1
    BY <1>a
  <1> HIDE DEF a1, a2, a3, a4, a5, a6, a7, a8, a9, x1, first
  <1>2. x2 \in Seq(Byte) /\ x2[1] = first /\ Len(x2) >= 1
    BY <1>a, <1>1, ConcatFirst, ConcatBytes
  <1> HIDE DEF x2
  <1>3. x3 \in Seq(Byte) /\ x3[1] = first /\ Len(x3) >= 1
    BY <1>a, <1>2, ConcatFirst, ConcatBytes
  <1> HIDE DEF x3
  <1>4. x4 \in Seq(Byte) /\ x4[1] = first /\ Len(x4) >= 1
    BY <1>a, <1>3, ConcatFirst, ConcatBytes
  <1> HIDE DEF x4
  <1>5. x5 \in Seq(Byte) /\ x5[1] = first /\ Len(x5) >= 1
    BY <1>a, <1>4, ConcatFirst, ConcatBytes
  <1> HIDE DEF x5
  <1>6. x6 \in Seq(Byte) /\ x6[1] = first /\ Len(x6) >= 1
    BY <1>a, <1>5, ConcatFirst, ConcatBytes
  <1> HIDE DEF x6
  <1>7. x7 \in Seq(Byte) /\ x7[1] = first /\ Len(x7) >= 1
    BY <1>a, <1>6, ConcatFirst, ConcatBytes
  <1> HIDE DEF x7
  <1>8. x8 \in Seq(Byte) /\ x8[1] = first /\ Len(x8) >= 1
    BY <1>a, <1>7, ConcatFirst, ConcatBytes
  <1> HIDE DEF x8
  <1>9. x9 \in Seq(Byte) /\ x9[1] = first /\ Len(x9) >= 1
    BY <1>a, <1>8, ConcatFirst, ConcatBytes
  <1> HIDE DEF x9
  <1> QED BY <1>m, <1>9 DEF first

\* What Marshal writes, and the byte the decoder tells the version by.
LEMMA MarshalBytes ==
    ASSUME NEW m \in Message, ConfigFits(m), Marshal(m) # Refused
    PROVE  /\ m.version \in {Legacy, V0, V1}
           /\ Marshal(m) \in Seq(Byte) /\ Len(Marshal(m)) >= 1
           /\ m.version = Legacy => Marshal(m)[1] = m.header[1]
           /\ m.version = V0 => Marshal(m)[1] = Cont
           /\ m.version = V1 => Marshal(m)[1] = Cont + V1
  <1>1. CASE m.version = V1
    BY <1>1, FirstByteV1, Versions
  <1>2. CASE m.version # V1
    <2>1. m.version \in {Legacy, V0} /\ Marshal(m) = MarshalV0(m) /\ CountsFit(m)
      BY <1>2, MarshalledV0
    <2> QED BY <1>2, <2>1, FirstByteV0
  <1> QED BY <1>1, <1>2

LEMMA DecodeMessageV1Stands ==
    ASSUME NEW b \in Seq(Byte), NEW n \in 0 .. Len(b), NEW k \in Nat, NEW w, NEW p,
           Stands(p, b, n, k, w), NEW m \in Message, m.version = V1, ConfigFits(m),
           Marshal(m) # Refused, Here(b, k, Marshal(m))
    PROVE  Stands(DecodeMessage(p), b, n, k + Len(Marshal(m)), Decoded(m))
  <1> DEFINE e == Marshal(m)
             q == Value(ReadUint(p, 1), EmptyWithLocals)
  <1>1. e \in Seq(Byte) /\ Len(e) >= 1 /\ e[1] = Cont + V1
    BY MarshalBytes
  <1>2. Here(b, k, e)
    OBVIOUS
  <1> HIDE DEF e
  <1>3. CASE p.err = "short" /\ ~(k + Len(e) <= n) /\ ~(k <= n)
    <2>1. DecodeMessage(p) = p
      BY <1>3 DEF DecodeMessage
    <2> QED BY <1>3, <2>1 DEF Stands, e
  <1>4. CASE p = State(b, n, k, w) /\ p.rest = <<>> /\ p.err = "nil" /\ ~(k + Len(e) <= n)
    <2>1. DecodeMessage(p) = Fail(p, "short")
      BY <1>4 DEF DecodeMessage
    <2>2. Fail(p, "short").err = "short"
      BY <1>4 DEF Fail, State
    <2> QED BY <1>4, <2>1, <2>2 DEF Stands, e
  <1>5. CASE p = State(b, n, k, w) /\ p.rest # <<>> /\ p.err = "nil" /\ p.rest[1] = e[1]
    <2>1. DecodeMessage(p) = DecodeMessageV1(p)
      BY <1>1, <1>5 DEF DecodeMessage
    <2>2. DecodeMessageV1(p) = BodyV1(q)
      BY DEF DecodeMessageV1, BodyV1
    <2>3. Stands(q, b, n, k + 1, EmptyWithLocals)
      <3>1. Here(b, k, <<Cont + V1>>)
        <4>1. Len(e) \in Nat /\ b[k + 1] = e[1] /\ k + Len(e) <= Len(b)
          BY <1>1, <1>2 DEF Here
        <4> QED BY <1>1, <4>1 DEF Here
      <3>2. Cont + V1 \in Byte
        BY Sizes DEF V1, Byte
      <3>3. Stands(ReadUint(p, 1), b, n, k + 1, Cont + V1)
        BY <3>1, <3>2, ReadU8Stands
      <3> QED BY <3>3, ValueStands
    <2> HIDE DEF q
    <2>4. Stands(BodyV1(q), b, n, k + Len(Marshal(m)), Decoded(m))
      BY <2>3, BodyV1Stands
    <2> QED BY <2>1, <2>2, <2>4
  <1> QED BY <1>1, <1>2, <1>3, <1>4, <1>5, FirstByte

\* Decoding what Marshal wrote, in any of the three formats.
LEMMA DecodeMessageStands ==
    ASSUME NEW b \in Seq(Byte), NEW n \in 0 .. Len(b), NEW k \in Nat, NEW w, NEW p,
           Stands(p, b, n, k, w), NEW m \in Message, ConfigFits(m),
           Marshal(m) # Refused, m.version = Legacy => m.header[1] < Cont, Here(b, k, Marshal(m))
    PROVE  Stands(DecodeMessage(p), b, n, k + Len(Marshal(m)), Decoded(m))
  <1>1. CASE m.version = V1
    BY <1>1, DecodeMessageV1Stands
  <1>2. CASE m.version # V1
    <2>1. Decoded(m) = m
      BY <1>2 DEF Decoded
    <2> QED BY <1>2, <2>1, DecodeMessageV0Stands
  <1> QED BY <1>1, <1>2

--------------------------------------------------------------------------------
(***************************************************************************)
(* Transactions.                                                           *)
(***************************************************************************)

\* A transaction that Marshal takes: its slots and its message are well-formed.
TxOK(t) ==
    /\ t = [sigs |-> t.sigs, msg |-> t.msg]
    /\ t.sigs \in Seq(OfSize(SigSize)) /\ t.msg \in Message /\ ConfigFits(t.msg)
DecodedTx(t) == [t EXCEPT !.msg = Decoded(@)]

LEMMA MarshalledTx ==
    ASSUME NEW t, TxOK(t), MarshalTx(t) # Refused
    PROVE  /\ Marshal(t.msg) # Refused /\ Len(t.sigs) = t.msg.header[1] /\ Len(t.sigs) <= MaxU16
           /\ MarshalTx(t) = IF t.msg.version = V1 THEN Marshal(t.msg) \o FlattenSeq(t.sigs)
                             ELSE PrefixedItems(t.sigs) \o Marshal(t.msg)
           /\ t.sigs \in Seq(Seq(Byte)) /\ FlattenSeq(t.sigs) \in Seq(Byte)
           /\ PrefixedItems(t.sigs) \in Seq(Byte) /\ Len(t.sigs) \in Nat
  <1>1. /\ ~(Len(t.sigs) > MaxU16) /\ Validate(t.msg) /\ Len(t.sigs) = t.msg.header[1]
        /\ MarshalInto(t.msg) # Refused
    BY DEF MarshalTx
  <1>2. Marshal(t.msg) = MarshalInto(t.msg)
    BY <1>1 DEF Marshal
  <1>3. t.sigs \in Seq(OfSize(SigSize)) /\ Len(t.sigs) \in Nat
    BY DEF TxOK
  <1>4. t.sigs \in Seq(Seq(Byte))
    <2>1. SigSize \in Nat
      BY Sizes
    <2>2. \A i \in 1 .. Len(t.sigs) : t.sigs[i] \in Seq(Byte)
      BY <1>3, <2>1, FixedBytes
    <2> QED BY <1>3, <2>2
  <1>5. Len(t.sigs) <= MaxU16
    BY <1>1, <1>3, Sizes DEF MaxU16
  <1>6. FlattenSeq(t.sigs) \in Seq(Byte) /\ PrefixedItems(t.sigs) \in Seq(Byte)
    BY <1>4, <1>5, FlattenElements, PrefixedItemsBytes
  <1>7. MarshalTx(t) = IF t.msg.version = V1 THEN Marshal(t.msg) \o FlattenSeq(t.sigs)
                       ELSE PrefixedItems(t.sigs) \o Marshal(t.msg)
    BY <1>1, <1>2 DEF MarshalTx, PrefixedItems
  <1> QED BY <1>1, <1>2, <1>3, <1>4, <1>5, <1>6, <1>7


LEMMA MarshalTxBytes ==
    ASSUME NEW t, TxOK(t), MarshalTx(t) # Refused, t.msg.header[1] < Cont
    PROVE  /\ MarshalTx(t) \in Seq(Byte) /\ Len(MarshalTx(t)) >= 1
           /\ MarshalTx(t)[1] = Cont + V1 <=> t.msg.version = V1
           /\ Len(MarshalTx(t)) = IF t.msg.version = V1
                                    THEN Len(Marshal(t.msg)) + Len(FlattenSeq(t.sigs))
                                    ELSE Len(PrefixedItems(t.sigs)) + Len(Marshal(t.msg))
  <1> DEFINE m == t.msg
             body == Marshal(m)
             sigs == FlattenSeq(t.sigs)
             vec == PrefixedItems(t.sigs)
             c == Len(t.sigs)
  <1>1. /\ body # Refused /\ c = m.header[1] /\ sigs \in Seq(Byte) /\ vec \in Seq(Byte) /\ c \in Nat
        /\ MarshalTx(t) = IF m.version = V1 THEN body \o sigs ELSE vec \o body
    BY MarshalledTx
  <1>2. m \in Message /\ ConfigFits(m)
    BY DEF TxOK
  <1>3. m.version = V1 => body[1] = Cont + V1
    BY <1>1, <1>2, MarshalBytes
  <1>3a. body \in Seq(Byte) /\ Len(body) >= 1
    BY <1>1, <1>2, MarshalBytes
  <1>4. vec[1] = c /\ Len(vec) >= 1
    <2>1. EncodeShortvec(c) = <<c>>
      BY <1>1 DEF EncodeShortvec
    <2>2. vec = <<c>> \o sigs
      BY <2>1 DEF PrefixedItems
    <2> HIDE DEF vec, sigs, c
    <2> QED BY <1>1, <2>2
  <1> HIDE DEF vec, sigs, body, m
  <1>5. CASE m.version = V1
    <2>1. MarshalTx(t) = body \o sigs
      BY <1>1, <1>5
    <2>2. (body \o sigs)[1] = body[1] /\ Len(body \o sigs) >= 1 /\ body \o sigs \in Seq(Byte)
          /\ Len(body \o sigs) = Len(body) + Len(sigs)
      BY <1>1, <1>3a, ConcatFirst, ConcatBytes
    <2> QED BY <1>3, <1>3a, <1>5, <2>1, <2>2 DEF m, body, sigs
  <1>6. CASE m.version # V1
    <2>1. MarshalTx(t) = vec \o body
      BY <1>1, <1>6
    <2>2. (vec \o body)[1] = vec[1] /\ Len(vec \o body) >= 1 /\ vec \o body \in Seq(Byte)
          /\ Len(vec \o body) = Len(vec) + Len(body)
      BY <1>1, <1>3a, <1>4, ConcatFirst, ConcatBytes
    <2>3. vec[1] # Cont + V1
      <3>1. c < Cont
        BY <1>1 DEF m
      <3> QED BY <1>1, <1>4, <3>1, Sizes DEF V1
    <2> QED BY <1>6, <2>1, <2>2, <2>3 DEF m, body, vec
  <1> QED BY <1>5, <1>6

LEMMA SigsThenMessage ==
    ASSUME NEW b \in Seq(Byte), NEW n \in 0 .. Len(b), NEW k \in Nat, NEW w, NEW p,
           Stands(p, b, n, k, w), NEW t, TxOK(t), MarshalTx(t) # Refused, t.msg.header[1] < Cont,
           t.msg.version # V1, Here(b, k, MarshalTx(t))
    PROVE  Stands(MessageField(VecField(Value(p, [sigs |-> <<>>, msg |-> <<>>]), "sigs", ReadSig)),
                  b, n, k + Len(MarshalTx(t)), DecodedTx(t))
  <1> DEFINE m == t.msg
             xs == t.sigs
             vec == PrefixedItems(xs)
             body == Marshal(m)
             v0 == [sigs |-> <<>>, msg |-> <<>>]
             v1 == [v0 EXCEPT !["sigs"] = xs]
             v2 == [v1 EXCEPT !["msg"] = Decoded(m)]
             p0 == Value(p, v0)
             p1 == VecField(p0, "sigs", ReadSig)
             q == SigItems(ReadShortvec(p0), ReadShortvec(p0).val)
             k1 == k + Len(vec)
             k2 == k1 + Len(body)
  <1>1. /\ xs \in Seq(OfSize(SigSize)) /\ m \in Message /\ ConfigFits(m)
        /\ t = [sigs |-> xs, msg |-> m]
    BY DEF TxOK
  <1>2. /\ body # Refused /\ Len(xs) <= MaxU16 /\ vec \in Seq(Byte) /\ MarshalTx(t) = vec \o body
    BY MarshalledTx
  <1>3. v2 = DecodedTx(t)
    BY <1>1 DEF DecodedTx
  <1>4. body \in Seq(Byte)
    BY <1>1, <1>2, MarshalBytes
  <1>5. m.header[1] < Cont
    OBVIOUS
  <1>6. Here(b, k, vec \o body) /\ k + Len(MarshalTx(t)) = k + Len(vec \o body)
    BY <1>2
  <1>7. Stands(p0, b, n, k, v0)
    BY ValueStands
  <1> HIDE DEF m, xs, vec, body, v0, p0, v2
  <1>8. /\ Here(b, k, vec) /\ Here(b, k1, body) /\ k + Len(MarshalTx(t)) = k2 /\ k1 \in Nat
        /\ k <= k1 /\ k2 \in Nat /\ k1 <= k2 /\ n \in Nat
    <2>1. /\ Here(b, k, vec) /\ Here(b, k + Len(vec), body)
          /\ k + Len(vec \o body) = k + Len(vec) + Len(body)
          /\ k + Len(vec) \in Nat /\ k + Len(vec \o body) \in Nat
          /\ k + Len(vec) <= k + Len(vec \o body) /\ k <= k + Len(vec)
      BY <1>2, <1>4, <1>6, NextPart
    <2> QED BY <1>6, <2>1
  <1>9. Stands(q, b, n, k1, xs) /\ p1 = Field(p0, "sigs", q)
    <2>1. Here(b, k, PrefixedItems(xs))
      BY <1>8 DEF vec
    <2>2. Stands(q, b, n, k + Len(PrefixedItems(xs)), xs) /\ p1 = Field(p0, "sigs", q)
      BY <1>1, <1>2, <1>7, <2>1, SigVecStands
    <2> QED BY <2>2 DEF vec
  <1> HIDE DEF q, k1
  <1>10. Stands(p1, b, n, k1, v1)
    BY <1>7, <1>8, <1>9, FieldStands
  <1> HIDE DEF p1, v1
  <1>11. Stands(DecodeMessage(p1), b, n, k2, Decoded(m))
    <2>1. Here(b, k1, Marshal(m)) /\ Marshal(m) # Refused
      BY <1>2, <1>8 DEF body
    <2>2. Stands(DecodeMessage(p1), b, n, k1 + Len(Marshal(m)), Decoded(m))
      BY <1>1, <1>5, <1>8, <1>10, <2>1, DecodeMessageStands
    <2> QED BY <2>2 DEF body
  <1> HIDE DEF k2
  <1>12. Stands(MessageField(p1), b, n, k2, v2)
    BY <1>8, <1>10, <1>11, FieldStands DEF MessageField, v2
  <1> QED BY <1>3, <1>8, <1>12 DEF p1, p0, v0

LEMMA MessageThenSigs ==
    ASSUME NEW b \in Seq(Byte), NEW n \in 0 .. Len(b), NEW k \in Nat, NEW w, NEW p,
           Stands(p, b, n, k, w), NEW t, TxOK(t), MarshalTx(t) # Refused, t.msg.header[1] < Cont,
           t.msg.version = V1, Here(b, k, MarshalTx(t))
    PROVE  Stands(HeaderSigs(MessageField(Value(p, [sigs |-> <<>>, msg |-> <<>>]))),
                  b, n, k + Len(MarshalTx(t)), DecodedTx(t))
  <1> DEFINE m == t.msg
             d == Decoded(m)
             xs == t.sigs
             sigs == FlattenSeq(xs)
             body == Marshal(m)
             v0 == [sigs |-> <<>>, msg |-> <<>>]
             v1 == [v0 EXCEPT !["msg"] = d]
             v2 == [v1 EXCEPT !["sigs"] = xs]
             p0 == Value(p, v0)
             p1 == MessageField(p0)
             k1 == k + Len(body)
             k2 == k1 + Len(sigs)
             c == p1.val.msg.header[1]
  <1>1. /\ xs \in Seq(OfSize(SigSize)) /\ m \in Message /\ ConfigFits(m)
        /\ t = [sigs |-> xs, msg |-> m]
    BY DEF TxOK
  <1>2. /\ body # Refused /\ sigs \in Seq(Byte) /\ MarshalTx(t) = body \o sigs
        /\ Len(xs) = m.header[1]
    BY MarshalledTx
  <1>3. v2 = DecodedTx(t)
    BY <1>1 DEF DecodedTx
  <1>4. body \in Seq(Byte) /\ d.header = m.header
    <2>1. d.header = m.header
      BY <1>1, DecodedConfig
    <2> QED BY <1>1, <1>2, <2>1, MarshalBytes
  <1>5. m.header[1] < Cont
    OBVIOUS
  <1>6. Here(b, k, body \o sigs) /\ k + Len(MarshalTx(t)) = k + Len(body \o sigs)
    BY <1>2
  <1>7. Stands(p0, b, n, k, v0) /\ v1.msg = d
    BY ValueStands
  <1> HIDE DEF m, d, xs, sigs, body, v0, p0, v2
  <1>8. /\ Here(b, k, body) /\ Here(b, k1, sigs) /\ k + Len(MarshalTx(t)) = k2 /\ k1 \in Nat
        /\ k <= k1 /\ k2 \in Nat /\ k1 <= k2 /\ n \in Nat
    BY <1>2, <1>4, <1>6, NextPart
  <1>9. Stands(DecodeMessage(p0), b, n, k1, d)
    <2>1. Here(b, k, Marshal(m)) /\ Marshal(m) # Refused
      BY <1>2, <1>8 DEF body
    <2>2. Stands(DecodeMessage(p0), b, n, k + Len(Marshal(m)), Decoded(m))
      BY <1>1, <1>5, <1>7, <2>1, DecodeMessageStands
    <2> QED BY <2>2 DEF body, d
  <1> HIDE DEF k1
  <1>10. Stands(p1, b, n, k1, v1)
    BY <1>7, <1>8, <1>9, FieldStands DEF MessageField
  <1>11. p1.err # "nil" \/ c = Len(xs)
    <2>1. p1.err = "nil" => p1.val = v1
      <3> HIDE DEF p1, v1
      <3> QED BY <1>10 DEF Stands, State
    <2> HIDE DEF p1, v1
    <2> QED BY <1>2, <1>4, <1>7, <2>1
  <1>12. HeaderSigs(p1) = Field(p1, "sigs", SigItems(p1, c))
    BY DEF HeaderSigs, ItemsField, SigItems
  <1> HIDE DEF p1, v1, c
  <1>13. SigItems(p1, c) = SigItems(p1, Len(xs))
    <2>1. CASE c = Len(xs)
      BY <2>1
    <2>2. CASE p1.err # "nil"
      BY <2>2 DEF SigItems, ReadItems
    <2> QED BY <1>11, <2>1, <2>2
  <1>14. Stands(SigItems(p1, Len(xs)), b, n, k2, xs)
    <2>1. Here(b, k1, FlattenSeq(xs))
      BY <1>8 DEF sigs
    <2>2. Stands(SigItems(p1, Len(xs)), b, n, k1 + Len(FlattenSeq(xs)), xs)
      BY <1>1, <1>8, <1>10, <2>1, SigItemsStand
    <2> QED BY <2>2 DEF sigs
  <1> HIDE DEF k2
  <1>15. Stands(HeaderSigs(p1), b, n, k2, v2)
    BY <1>8, <1>10, <1>12, <1>13, <1>14, FieldStands DEF v2
  <1> QED BY <1>3, <1>8, <1>15 DEF p1, p0, v0

\* Decoding what Transaction.Marshal wrote, in any of the three formats.
LEMMA DecodeTransactionStands ==
    ASSUME NEW b \in Seq(Byte), NEW n \in 0 .. Len(b), NEW k \in Nat, NEW w, NEW p,
           Stands(p, b, n, k, w), NEW t, TxOK(t), MarshalTx(t) # Refused, t.msg.header[1] < Cont,
           Here(b, k, MarshalTx(t))
    PROVE  Stands(DecodeTransaction(p), b, n, k + Len(MarshalTx(t)), DecodedTx(t))
  <1> DEFINE e == MarshalTx(t)
  <1>1. e \in Seq(Byte) /\ Len(e) >= 1
    BY MarshalTxBytes
  <1>2. e[1] = Cont + V1 <=> t.msg.version = V1
    BY MarshalTxBytes
  <1>3. Here(b, k, e)
    OBVIOUS
  <1> HIDE DEF e
  <1>4. CASE p.err = "short" /\ ~(k + Len(e) <= n) /\ ~(k <= n)
    <2>1. DecodeTransaction(p) = p
      BY <1>4 DEF DecodeTransaction
    <2> QED BY <1>4, <2>1 DEF Stands, e
  <1>5. CASE p = State(b, n, k, w) /\ p.rest = <<>> /\ p.err = "nil" /\ ~(k + Len(e) <= n)
    <2>1. DecodeTransaction(p) = Fail(p, "short")
      BY <1>5 DEF DecodeTransaction
    <2>2. Fail(p, "short").err = "short"
      BY <1>5 DEF Fail, State
    <2> QED BY <1>5, <2>1, <2>2 DEF Stands, e
  <1>6. CASE p = State(b, n, k, w) /\ p.rest # <<>> /\ p.err = "nil" /\ p.rest[1] = e[1]
    <2>1. CASE t.msg.version = V1
      <3>1. DecodeTransaction(p) = HeaderSigs(MessageField(Value(p, [sigs |-> <<>>, msg |-> <<>>])))
        BY <1>2, <1>6, <2>1 DEF DecodeTransaction
      <3> QED BY <2>1, <3>1, MessageThenSigs
    <2>2. CASE t.msg.version # V1
      <3>1. DecodeTransaction(p)
              = MessageField(VecField(Value(p, [sigs |-> <<>>, msg |-> <<>>]), "sigs", ReadSig))
        BY <1>2, <1>6, <2>2 DEF DecodeTransaction
      <3> QED BY <2>2, <3>1, SigsThenMessage
    <2> QED BY <2>1, <2>2
  <1> QED BY <1>1, <1>3, <1>4, <1>5, <1>6, FirstByte

\* A transaction alone: all of it decodes, and no proper prefix does.
LEMMA UnmarshalMarshalled ==
    ASSUME NEW t, TxOK(t), MarshalTx(t) # Refused, t.msg.header[1] < Cont
    PROVE  /\ UnmarshalTx(MarshalTx(t)).err = "nil"
           /\ UnmarshalTx(MarshalTx(t)).val = DecodedTx(t)
           /\ \A n \in 0 .. Len(MarshalTx(t)) - 1 :
                 UnmarshalTx(SubSeq(MarshalTx(t), 1, n)).err = "short"
  <1> DEFINE b == MarshalTx(t)
  <1>1. b \in Seq(Byte) /\ Len(b) \in Nat
    BY MarshalTxBytes
  <1>2. Here(b, 0, b) /\ 0 + Len(b) = Len(b)
    BY <1>1 DEF Here
  <1> HIDE DEF b
  <1>3. \A n \in 0 .. Len(b) : Stands(NewDecoder(SubSeq(b, 1, n)), b, n, 0, <<>>)
    BY DEF Stands, State, NewDecoder
  <1>4. ASSUME NEW n \in 0 .. Len(b)
        PROVE  Stands(DecodeTransaction(NewDecoder(SubSeq(b, 1, n))), b, n, Len(b), DecodedTx(t))
    <2> DEFINE p == NewDecoder(SubSeq(b, 1, n))
    <2>1. Stands(p, b, n, 0, <<>>) /\ 0 \in Nat /\ Here(b, 0, MarshalTx(t))
      BY <1>2, <1>3 DEF b
    <2> HIDE DEF p
    <2>2. Stands(DecodeTransaction(p), b, n, 0 + Len(MarshalTx(t)), DecodedTx(t))
      BY <1>1, <2>1, DecodeTransactionStands
    <2>3. 0 + Len(MarshalTx(t)) = Len(b)
      BY <1>2 DEF b
    <2> QED BY <2>2, <2>3 DEF p
  <1>5. SubSeq(b, 1, Len(b)) = b
    BY <1>1
  <1>6. DecodeTransaction(NewDecoder(b)) = State(b, Len(b), Len(b), DecodedTx(t))
    <2>1. Len(b) \in 0 .. Len(b) /\ Len(b) <= Len(b)
      BY <1>1
    <2>2. Stands(DecodeTransaction(NewDecoder(b)), b, Len(b), Len(b), DecodedTx(t))
      BY <1>4, <1>5, <2>1
    <2> QED BY <2>1, <2>2 DEF Stands
  <1>7. SubSeq(b, Len(b) + 1, Len(b)) = <<>>
    BY <1>1
  <1>8. UnmarshalTx(b).err = "nil" /\ UnmarshalTx(b).val = DecodedTx(t)
    BY <1>6, <1>7 DEF UnmarshalTx, NoTrailing, State
  <1>9. ASSUME NEW n \in 0 .. Len(b) - 1
        PROVE  UnmarshalTx(SubSeq(b, 1, n)).err = "short"
    <2>1. n \in 0 .. Len(b) /\ ~(Len(b) <= n)
      BY <1>1
    <2>2. DecodeTransaction(NewDecoder(SubSeq(b, 1, n))).err = "short"
      BY <1>4, <2>1 DEF Stands
    <2> QED BY <2>2 DEF UnmarshalTx, NoTrailing
  <1> QED BY <1>8, <1>9 DEF b


--------------------------------------------------------------------------------
(***************************************************************************)
(* Sizes.                                                                  *)
(***************************************************************************)

\* Where the parts of a flattened sequence end.
LEMMA FlattenEnds ==
    ASSUME NEW seqs \in Seq(Seq(Byte))
    PROVE  \E o \in [0 .. Len(seqs) -> Nat] :
              /\ o[0] = 0 /\ o[Len(seqs)] = Len(FlattenSeq(seqs))
              /\ \A i \in 1 .. Len(seqs) : o[i] = o[i - 1] + Len(seqs[i])
  <1> DEFINE b == FlattenSeq(seqs)
  <1>1. b \in Seq(Byte) /\ Len(b) \in Nat
    BY FlattenElements
  <1>2. Here(b, 0, b) /\ 0 + Len(b) = Len(b)
    BY <1>1 DEF Here
  <1>3. b = FlattenSeq(seqs)
    OBVIOUS
  <1> HIDE DEF b
  <1>4. Here(b, 0, FlattenSeq(seqs)) /\ 0 \in Nat
    BY <1>2, <1>3
  <1>5. \E o \in [0 .. Len(seqs) -> Nat] :
              /\ o[0] = 0 /\ o[Len(seqs)] = 0 + Len(FlattenSeq(seqs))
              /\ \A i \in 1 .. Len(seqs) :
                    o[i] = o[i - 1] + Len(seqs[i]) /\ Here(b, o[i - 1], seqs[i])
    BY <1>1, <1>4, FlattenHere
  <1> QED BY <1>2, <1>3, <1>5

LEMMA FlattenLength ==
    ASSUME NEW seqs \in Seq(Seq(Byte)), NEW sizes, Len(sizes) = Len(seqs),
           \A i \in 1 .. Len(seqs) : sizes[i] = Len(seqs[i])
    PROVE  Len(FlattenSeq(seqs)) = SumOf(sizes)
  <1> DEFINE N == Len(seqs)
  <1>0. N \in Nat /\ Len(sizes) = N
    OBVIOUS
  <1>1. PICK o \in [0 .. N -> Nat] :
              /\ o[0] = 0 /\ o[N] = Len(FlattenSeq(seqs))
              /\ \A i \in 1 .. N : o[i] = o[i - 1] + Len(seqs[i])
    BY FlattenEnds
  <1>2. PICK q : /\ q[0] = 0 /\ SumOf(sizes) = q[N]
                 /\ \A i \in 1 .. N : q[i] = q[i - 1] + sizes[i]
    <2>1. Len(sizes) \in Nat
      BY <1>0
    <2>2. \E q : /\ q[0] = 0 /\ SumOf(sizes) = q[Len(sizes)]
                 /\ \A i \in 1 .. Len(sizes) : q[i] = q[i - 1] + sizes[i]
      BY <2>1, SumOfUnfold
    <2> QED BY <1>0, <2>2
  <1>3. \A i \in 1 .. N : sizes[i] = Len(seqs[i])
    OBVIOUS
  <1> HIDE DEF N
  <1> DEFINE S == {i \in Nat : i <= N => o[i] = q[i]}
  <1>4. 0 \in S
    BY <1>1, <1>2
  <1>5. ASSUME NEW i \in Nat, i \in S PROVE i + 1 \in S
    <2> SUFFICES ASSUME i + 1 <= N PROVE o[i + 1] = q[i + 1]
      OBVIOUS
    <2>1. i + 1 \in 1 .. N /\ i <= N /\ i + 1 - 1 = i
      BY <1>0
    <2>2. o[i + 1] = o[i] + Len(seqs[i + 1]) /\ q[i + 1] = q[i] + sizes[i + 1]
      BY <1>1, <1>2, <2>1
    <2>3. o[i] = q[i] /\ sizes[i + 1] = Len(seqs[i + 1])
      BY <1>3, <1>5, <2>1
    <2> QED BY <2>2, <2>3
  <1>6. Nat \subseteq S
    <2> HIDE DEF S
    <2> QED BY <1>4, <1>5, Induct
  <1>7. o[N] = q[N]
    BY <1>0, <1>6
  <1> QED BY <1>1, <1>2, <1>7

LEMMA FlattenFixed ==
    ASSUME NEW seqs \in Seq(Seq(Byte)), NEW c \in Nat, \A i \in 1 .. Len(seqs) : Len(seqs[i]) = c
    PROVE  Len(FlattenSeq(seqs)) = Len(seqs) * c
  <1> DEFINE N == Len(seqs)
  <1>0. N \in Nat
    OBVIOUS
  <1>1. PICK o \in [0 .. N -> Nat] :
              /\ o[0] = 0 /\ o[N] = Len(FlattenSeq(seqs))
              /\ \A i \in 1 .. N : o[i] = o[i - 1] + Len(seqs[i])
    BY FlattenEnds
  <1>3. \A i \in 1 .. N : Len(seqs[i]) = c
    OBVIOUS
  <1> HIDE DEF N
  <1> DEFINE S == {i \in Nat : i <= N => o[i] = i * c}
  <1>4. 0 \in S
    BY <1>1
  <1>5. ASSUME NEW i \in Nat, i \in S PROVE i + 1 \in S
    <2> SUFFICES ASSUME i + 1 <= N PROVE o[i + 1] = (i + 1) * c
      OBVIOUS
    <2>1. i + 1 \in 1 .. N /\ i <= N /\ i + 1 - 1 = i
      BY <1>0
    <2>2. o[i + 1] = o[i] + c
      BY <1>1, <1>3, <2>1
    <2>3. o[i] = i * c
      BY <1>5, <2>1
    <2>4. (i + 1) * c = i * c + c
      OBVIOUS
    <2> QED BY <2>2, <2>3, <2>4
  <1>6. Nat \subseteq S
    <2> HIDE DEF S
    <2> QED BY <1>4, <1>5, Induct
  <1>7. o[N] = N * c
    BY <1>0, <1>6
  <1> QED BY <1>1, <1>7 DEF N

LEMMA SumOfSums ==
    ASSUME NEW N \in Nat, NEW d, NEW e, NEW s, Len(d) = N, Len(e) = N, Len(s) = N,
           \A i \in 1 .. N : d[i] \in Nat /\ e[i] \in Nat /\ s[i] = d[i] + e[i]
    PROVE  SumOf(s) = SumOf(d) + SumOf(e)
  <1>1. PICK x : x[0] = 0 /\ SumOf(d) = x[N] /\ \A i \in 1 .. N : x[i] = x[i - 1] + d[i]
    <2>1. \E q : /\ q[0] = 0 /\ SumOf(d) = q[Len(d)]
                 /\ \A i \in 1 .. Len(d) : q[i] = q[i - 1] + d[i]
      <3>1. Len(d) \in Nat
        OBVIOUS
      <3> QED BY <3>1, SumOfUnfold
    <2>2. Len(d) = N
      OBVIOUS
    <2> QED BY <2>1, <2>2
  <1>2. PICK y : y[0] = 0 /\ SumOf(e) = y[N] /\ \A i \in 1 .. N : y[i] = y[i - 1] + e[i]
    <2>1. \E q : /\ q[0] = 0 /\ SumOf(e) = q[Len(e)]
                 /\ \A i \in 1 .. Len(e) : q[i] = q[i - 1] + e[i]
      <3>1. Len(e) \in Nat
        OBVIOUS
      <3> QED BY <3>1, SumOfUnfold
    <2>2. Len(e) = N
      OBVIOUS
    <2> QED BY <2>1, <2>2
  <1>3. PICK z : z[0] = 0 /\ SumOf(s) = z[N] /\ \A i \in 1 .. N : z[i] = z[i - 1] + s[i]
    <2>1. \E q : /\ q[0] = 0 /\ SumOf(s) = q[Len(s)]
                 /\ \A i \in 1 .. Len(s) : q[i] = q[i - 1] + s[i]
      <3>1. Len(s) \in Nat
        OBVIOUS
      <3> QED BY <3>1, SumOfUnfold
    <2>2. Len(s) = N
      OBVIOUS
    <2> QED BY <2>1, <2>2
  <1> DEFINE S == {i \in Nat : i <= N => x[i] \in Nat /\ y[i] \in Nat /\ z[i] = x[i] + y[i]}
  <1>4. 0 \in S
    BY <1>1, <1>2, <1>3
  <1>5. ASSUME NEW i \in Nat, i \in S PROVE i + 1 \in S
    <2> SUFFICES ASSUME i + 1 <= N
                 PROVE  x[i + 1] \in Nat /\ y[i + 1] \in Nat /\ z[i + 1] = x[i + 1] + y[i + 1]
      OBVIOUS
    <2>1. i + 1 \in 1 .. N /\ i <= N /\ i + 1 - 1 = i
      OBVIOUS
    <2>2. x[i + 1] = x[i] + d[i + 1] /\ y[i + 1] = y[i] + e[i + 1] /\ z[i + 1] = z[i] + s[i + 1]
      BY <1>1, <1>2, <1>3, <2>1
    <2>3. x[i] \in Nat /\ y[i] \in Nat /\ z[i] = x[i] + y[i]
      BY <1>5, <2>1
    <2>4. d[i + 1] \in Nat /\ e[i + 1] \in Nat /\ s[i + 1] = d[i + 1] + e[i + 1]
      BY <2>1
    <2> DEFINE x1 == x[i]
               y1 == y[i]
               d1 == d[i + 1]
               e1 == e[i + 1]
    <2>5. /\ x1 \in Nat /\ y1 \in Nat /\ d1 \in Nat /\ e1 \in Nat
          /\ x[i + 1] = x1 + d1 /\ y[i + 1] = y1 + e1 /\ z[i + 1] = (x1 + y1) + (d1 + e1)
      BY <2>2, <2>3, <2>4
    <2> HIDE DEF x1, y1, d1, e1
    <2>6. x1 + d1 \in Nat /\ y1 + e1 \in Nat /\ (x1 + y1) + (d1 + e1) = (x1 + d1) + (y1 + e1)
      BY <2>5
    <2> QED BY <2>5, <2>6
  <1>6. Nat \subseteq S
    <2> HIDE DEF S
    <2> QED BY <1>4, <1>5, Induct
  <1>7. z[N] = x[N] + y[N]
    BY <1>6
  <1> QED BY <1>1, <1>2, <1>3, <1>7


LEMMA KeysLength ==
    ASSUME NEW m \in Message
    PROVE  /\ m.keys \in Seq(Seq(Byte)) /\ Len(FlattenSeq(m.keys)) = Len(m.keys) * KeySize
           /\ Len(m.keys) * KeySize \in Nat
  <1>1. KeySize \in Nat /\ m.keys \in Seq(OfSize(KeySize)) /\ Len(m.keys) \in Nat
    BY MessageParts, Sizes
  <1>2. \A i \in 1 .. Len(m.keys) : m.keys[i] \in Seq(Byte) /\ Len(m.keys[i]) = KeySize
    BY <1>1, FixedBytes
  <1>3. m.keys \in Seq(Seq(Byte))
    BY <1>1, <1>2
  <1>4. Len(FlattenSeq(m.keys)) = Len(m.keys) * KeySize
    BY <1>1, <1>2, <1>3, FlattenFixed
  <1> QED BY <1>1, <1>3, <1>4

LEMMA InstructionsLength ==
    ASSUME NEW m \in Message, m.version \in {Legacy, V0}, CountsFit(m)
    PROVE  /\ Len(PrefixedItems(InstructionsOf(m))) = SvSize(Len(m.ixs)) + SumOf(InstructionSizes(m))
           /\ SumOf(InstructionSizes(m)) \in Nat /\ SvSize(Len(m.ixs)) \in Nat
  <1> DEFINE seqs == InstructionsOf(m)
             sizes == InstructionSizes(m)
             ixs == m.ixs
  <1>1. seqs \in Seq(Seq(Byte)) /\ Len(seqs) = Len(ixs) /\ Len(ixs) <= MaxU16
    BY PartsV0, CountsFitFacts
  <1>2. ixs \in Seq(Instruction) /\ Len(ixs) \in Nat /\ DOMAIN ixs = 1 .. Len(ixs)
    BY MessageParts
  <1>3. \A i \in 1 .. Len(ixs) : /\ seqs[i] = MarshalInstruction(ixs[i])
                                 /\ sizes[i] = 1 + SizeOf(ixs[i].accounts) + SizeOf(ixs[i].data)
    BY <1>2 DEF InstructionsOf, InstructionSizes
  <1>4. Len(sizes) = Len(ixs)
    BY <1>2 DEF InstructionSizes
  <1>5. InstructionsFit(ixs)
    BY CountsFitFacts DEF InstructionsFit
  <1> HIDE DEF seqs, sizes, ixs
  <1>6. ASSUME NEW i \in 1 .. Len(seqs) PROVE sizes[i] = Len(seqs[i])
    <2> DEFINE x == ixs[i]
    <2>1. x \in Instruction /\ Len(x.accounts) <= MaxU16 /\ Len(x.data) <= MaxU16
      <3>1. x \in Instruction
        BY <1>1, <1>2
      <3> QED BY <1>1, <1>5, <3>1 DEF InstructionsFit
    <2>2. seqs[i] = MarshalInstruction(x) /\ sizes[i] = 1 + SizeOf(x.accounts) + SizeOf(x.data)
      BY <1>1, <1>3
    <2> HIDE DEF x
    <2> QED BY <2>1, <2>2, MarshalInstructionBytes
  <1>7. Len(FlattenSeq(seqs)) = SumOf(sizes)
    BY <1>1, <1>4, <1>6, FlattenLength
  <1>8. /\ Len(PrefixedItems(seqs)) = SvSize(Len(seqs)) + Len(FlattenSeq(seqs))
        /\ SvSize(Len(seqs)) \in 1 .. 3 /\ Len(FlattenSeq(seqs)) \in Nat
    BY <1>1, PrefixedItemsBytes
  <1> QED BY <1>1, <1>7, <1>8 DEF seqs, sizes, ixs

LEMMA LookupsLength ==
    ASSUME NEW m \in Message, m.version = V0, CountsFit(m)
    PROVE  /\ Len(PrefixedItems(LookupsOf(m))) = SvSize(Len(m.lookups)) + SumOf(LookupSizes(m))
           /\ SumOf(LookupSizes(m)) \in Nat /\ SvSize(Len(m.lookups)) \in Nat
  <1> DEFINE seqs == LookupsOf(m)
             sizes == LookupSizes(m)
             lks == m.lookups
  <1>1. seqs \in Seq(Seq(Byte)) /\ Len(seqs) = Len(lks) /\ Len(lks) <= MaxU16
    BY PartsV0, CountsFitFacts
  <1>2. lks \in Seq(AddressTableLookup) /\ Len(lks) \in Nat /\ DOMAIN lks = 1 .. Len(lks)
    BY MessageParts
  <1>3. \A i \in 1 .. Len(lks) :
            /\ seqs[i] = MarshalLookup(lks[i])
            /\ sizes[i] = KeySize + SizeOf(lks[i].writable) + SizeOf(lks[i].readonly)
    BY <1>2 DEF LookupsOf, LookupSizes
  <1>4. Len(sizes) = Len(lks)
    BY <1>2 DEF LookupSizes
  <1>5. LookupsFit(lks)
    BY CountsFitFacts DEF LookupsFit
  <1> HIDE DEF seqs, sizes, lks
  <1>6. ASSUME NEW i \in 1 .. Len(seqs) PROVE sizes[i] = Len(seqs[i])
    <2> DEFINE x == lks[i]
    <2>1. x \in AddressTableLookup /\ Len(x.writable) <= MaxU16 /\ Len(x.readonly) <= MaxU16
      <3>1. x \in AddressTableLookup
        BY <1>1, <1>2
      <3> QED BY <1>1, <1>5, <3>1 DEF LookupsFit
    <2>2. seqs[i] = MarshalLookup(x) /\ sizes[i] = KeySize + SizeOf(x.writable) + SizeOf(x.readonly)
      BY <1>1, <1>3
    <2> HIDE DEF x
    <2> QED BY <2>1, <2>2, MarshalLookupBytes
  <1>7. Len(FlattenSeq(seqs)) = SumOf(sizes)
    BY <1>1, <1>4, <1>6, FlattenLength
  <1>8. /\ Len(PrefixedItems(seqs)) = SvSize(Len(seqs)) + Len(FlattenSeq(seqs))
        /\ SvSize(Len(seqs)) \in 1 .. 3 /\ Len(FlattenSeq(seqs)) \in Nat
    BY <1>1, PrefixedItemsBytes
  <1> QED BY <1>1, <1>7, <1>8 DEF seqs, sizes, lks

LEMMA SizeV0 ==
    ASSUME NEW m \in Message, m.version # V1, Marshal(m) # Refused
    PROVE  Len(Marshal(m)) = SerializedSize(m)
  <1> DEFINE x1 == PrefixOf(m)
             a2 == m.header
             x2 == x1 \o a2
             a3 == PrefixedItems(m.keys)
             x3 == x2 \o a3
             a4 == m.hash
             x4 == x3 \o a4
             a5 == PrefixedItems(InstructionsOf(m))
             x5 == x4 \o a5
             a6 == TableOf(m)
             x6 == x5 \o a6
             n1 == IF m.version = Legacy THEN 0 ELSE 1
             n3 == SvSize(Len(m.keys))
             n4 == Len(m.keys) * KeySize
             n5 == SvSize(Len(m.ixs))
             n6 == SumOf(InstructionSizes(m))
             n7 == IF m.version # V0 THEN 0 ELSE SvSize(Len(m.lookups)) + SumOf(LookupSizes(m))
  <1>0. m.version \in {Legacy, V0} /\ Marshal(m) = MarshalV0(m) /\ CountsFit(m)
    BY MarshalledV0
  <1>1. /\ x1 \in Seq(Byte) /\ a2 \in Seq(Byte) /\ Len(a2) = 3 /\ a3 \in Seq(Byte)
        /\ a4 \in Seq(Byte) /\ Len(a4) = HashSize /\ a5 \in Seq(Byte) /\ a6 \in Seq(Byte)
    BY <1>0, PartsV0
  <1>2. Marshal(m) = x6
    BY <1>0, MarshalV0Parts
  <1>3. Len(x1) = n1 /\ n1 \in Nat
    <2>1. CASE m.version = Legacy
      <3>1. x1 = <<>> /\ n1 = 0
        BY <2>1 DEF PrefixOf
      <3> QED BY <3>1
    <2>2. CASE m.version # Legacy
      <3>1. x1 = <<Cont + m.version>> /\ n1 = 1
        BY <2>2 DEF PrefixOf
      <3> QED BY <3>1
    <2> QED BY <2>1, <2>2
  <1>4. Len(a3) = n3 + n4 /\ n3 \in Nat /\ n4 \in Nat
    <2>1. m.keys \in Seq(Seq(Byte)) /\ Len(FlattenSeq(m.keys)) = n4 /\ n4 \in Nat
      BY KeysLength
    <2>2. Len(m.keys) <= MaxU16
      BY <1>0, CountsFitFacts
    <2>3. Len(a3) = n3 + Len(FlattenSeq(m.keys)) /\ n3 \in 1 .. 3
      BY <2>1, <2>2, PrefixedItemsBytes
    <2> HIDE DEF n3, n4, a3
    <2> QED BY <2>1, <2>3
  <1>5. Len(a5) = n5 + n6 /\ n5 \in Nat /\ n6 \in Nat
    BY <1>0, InstructionsLength
  <1>6. Len(a6) = n7 /\ n7 \in Nat
    <2>1. CASE m.version = V0
      <3>1. a6 = PrefixedItems(LookupsOf(m)) /\ n7 = SvSize(Len(m.lookups)) + SumOf(LookupSizes(m))
        BY <2>1 DEF TableOf
      <3>2. /\ Len(PrefixedItems(LookupsOf(m))) = SvSize(Len(m.lookups)) + SumOf(LookupSizes(m))
            /\ SumOf(LookupSizes(m)) \in Nat /\ SvSize(Len(m.lookups)) \in Nat
        BY <1>0, <2>1, LookupsLength
      <3> QED BY <3>1, <3>2
    <2>2. CASE m.version # V0
      <3>1. a6 = <<>> /\ n7 = 0
        BY <2>2 DEF TableOf
      <3> QED BY <3>1
    <2> QED BY <2>1, <2>2
  <1>7. SerializedSize(m) = 3 + n1 + n3 + n4 + HashSize + n5 + n6 + n7
    BY DEF SerializedSize
  <1> HIDE DEF x1, a2, a3, a4, a5, a6, n1, n3, n4, n5, n6, n7
  <1>8. x2 \in Seq(Byte) /\ Len(x2) = Len(x1) + Len(a2)
    BY <1>1, ConcatBytes
  <1> HIDE DEF x2
  <1>9. x3 \in Seq(Byte) /\ Len(x3) = Len(x2) + Len(a3)
    BY <1>1, <1>8, ConcatBytes
  <1> HIDE DEF x3
  <1>10. x4 \in Seq(Byte) /\ Len(x4) = Len(x3) + Len(a4)
    BY <1>1, <1>9, ConcatBytes
  <1> HIDE DEF x4
  <1>11. x5 \in Seq(Byte) /\ Len(x5) = Len(x4) + Len(a5)
    BY <1>1, <1>10, ConcatBytes
  <1> HIDE DEF x5
  <1>12. Len(x6) = Len(x5) + Len(a6)
    BY <1>1, <1>11, ConcatBytes
  <1> HIDE DEF x6
  <1>13. Len(x6) = (((n1 + 3) + (n3 + n4)) + HashSize) + (n5 + n6) + n7
    BY <1>1, <1>3, <1>4, <1>5, <1>6, <1>8, <1>9, <1>10, <1>11, <1>12
  <1>14. HashSize \in Nat
    BY Sizes
  <1>15. (((n1 + 3) + (n3 + n4)) + HashSize) + (n5 + n6) + n7
           = 3 + n1 + n3 + n4 + HashSize + n5 + n6 + n7
    BY <1>3, <1>4, <1>5, <1>6, <1>14
  <1> QED BY <1>2, <1>7, <1>13, <1>15


ConfigSizes(m) == [f \in DOMAIN m.config |-> IF m.config[f] = <<>> THEN 0 ELSE FieldSize[f]]
ContentSizes(m) == [i \in DOMAIN m.ixs |-> 4 + Len(m.ixs[i].accounts) + Len(m.ixs[i].data)]

LEMMA ConfigLength ==
    ASSUME NEW m \in Message, m.version = V1, ConfigFits(m)
    PROVE  Len(MarshalConfig(m.config)) = SumOf(ConfigSizes(m))
  <1>1. CASE m.config # <<>>
    <2> DEFINE c == m.config
               seqs == OptionsOf(c)
               sizes == ConfigSizes(m)
    <2>1. FullConfig(c)
      BY <1>1, MessageParts DEF ConfigFits, FullConfig
    <2>2. DOMAIN c = 1 .. 4
      BY <2>1 DEF FullConfig
    <2>3. sizes = [f \in 1 .. 4 |-> IF c[f] = <<>> THEN 0 ELSE FieldSize[f]]
      BY <2>2 DEF ConfigSizes
    <2>4. /\ seqs \in Seq(Seq(Byte)) /\ Len(seqs) = 4 /\ FlattenSeq(seqs) = MarshalConfig(c)
          /\ \A f \in 1 .. 4 : seqs[f] = OptionBytes(c, f)
      BY <2>1, OptionsFact
    <2>5. \A f \in 1 .. 4 : Len(OptionBytes(c, f)) = IF c[f] = <<>> THEN 0 ELSE FieldSize[f]
      BY <2>1, OptionBytesFact
    <2> HIDE DEF c, seqs, sizes
    <2>6. Len(sizes) = Len(seqs) /\ \A i \in 1 .. Len(seqs) : sizes[i] = Len(seqs[i])
      BY <2>3, <2>4, <2>5
    <2>7. Len(FlattenSeq(seqs)) = SumOf(sizes)
      BY <2>4, <2>6, FlattenLength
    <2> QED BY <2>4, <2>7 DEF c, sizes
  <1>2. CASE m.config = <<>>
    <2>1. MarshalConfig(m.config) = <<>>
      <3>1. [f \in DOMAIN m.config |->
               IF m.config[f] = <<>> THEN <<>> ELSE WriteUint(m.config[f][1], FieldSize[f])] = <<>>
        BY <1>2
      <3> QED BY <3>1, FlattenEmpty DEF MarshalConfig
    <2>2. ConfigSizes(m) = <<>>
      BY <1>2 DEF ConfigSizes
    <2>3. SumOf(<<>>) = 0
      <3>1. Len(<<>>) = 0
        OBVIOUS
      <3>2. \E q : /\ q[0] = 0 /\ SumOf(<<>>) = q[Len(<<>>)]
                   /\ \A i \in 1 .. Len(<<>>) : q[i] = q[i - 1] + <<>>[i]
        BY <3>1, SumOfUnfold
      <3> QED BY <3>1, <3>2
    <2> QED BY <2>1, <2>2, <2>3
  <1> QED BY <1>1, <1>2

LEMMA ContentsLength ==
    ASSUME NEW m \in Message, InstructionsFitV1(m.ixs)
    PROVE  Len(FlattenSeq(HeadBytesOf(m))) + Len(FlattenSeq(BodyBytesOf(m))) = SumOf(ContentSizes(m))
  <1> DEFINE ixs == m.ixs
             N == Len(ixs)
             heads == HeadBytesOf(m)
             bodies == BodyBytesOf(m)
             d == [i \in 1 .. N |-> 4]
             e == [i \in 1 .. N |-> Len(ixs[i].accounts) + Len(ixs[i].data)]
             s == ContentSizes(m)
  <1>1. ixs \in Seq(Instruction) /\ N \in Nat /\ DOMAIN ixs = 1 .. N
    BY MessageParts
  <1>2. HeadsEncoded(heads, ixs) /\ BodiesEncoded(bodies, ixs) /\ InstructionsFitV1(ixs)
    BY HeadsAndBodies
  <1>3. Len(d) = N /\ Len(e) = N /\ Len(s) = N
    BY <1>1 DEF ContentSizes
  <1>4. \A i \in 1 .. N : /\ d[i] = 4 /\ e[i] = Len(ixs[i].accounts) + Len(ixs[i].data)
                          /\ s[i] = 4 + Len(ixs[i].accounts) + Len(ixs[i].data)
    BY <1>1 DEF ContentSizes
  <1> HIDE DEF ixs, N, heads, bodies, d, e, s
  <1>5. ASSUME NEW i \in 1 .. N
        PROVE  /\ Len(heads[i]) = 4 /\ Len(bodies[i]) = e[i] /\ e[i] \in Nat /\ s[i] = d[i] + e[i]
    <2> DEFINE x == ixs[i]
    <2>1. x \in Instruction /\ Len(x.accounts) <= MaxU8 /\ Len(x.data) <= MaxU16
      <3>1. x \in Instruction
        BY <1>1 DEF N
      <3> QED BY <1>2, <3>1 DEF InstructionsFitV1, N
    <2>2. heads[i] = HeadBytes(x) /\ bodies[i] = BodyBytes(x)
      BY <1>2 DEF HeadsEncoded, BodiesEncoded, N
    <2>3. d[i] = 4 /\ e[i] = Len(x.accounts) + Len(x.data) /\ s[i] = 4 + Len(x.accounts) + Len(x.data)
      BY <1>4
    <2> HIDE DEF x
    <2>4. Len(HeadBytes(x)) = 4
      BY <2>1, HeadBytesFact
    <2>5. x.accounts \in Seq(Byte) /\ x.data \in Seq(Byte)
      BY <2>1 DEF Instruction
    <2>6. /\ Len(BodyBytes(x)) = Len(x.accounts) + Len(x.data)
          /\ Len(x.accounts) \in Nat /\ Len(x.data) \in Nat
      BY <2>5, ConcatBytes DEF BodyBytes
    <2> DEFINE y == Len(x.accounts)
               z == Len(x.data)
    <2>7. y \in Nat /\ z \in Nat /\ e[i] = y + z /\ s[i] = 4 + y + z /\ Len(BodyBytes(x)) = y + z
      BY <2>3, <2>6
    <2> HIDE DEF y, z
    <2>8. 4 + y + z = 4 + (y + z) /\ y + z \in Nat
      BY <2>7
    <2>9. e[i] \in Nat /\ s[i] = 4 + e[i]
      BY <2>7, <2>8
    <2>10. Len(heads[i]) = 4 /\ Len(bodies[i]) = e[i] /\ d[i] = 4
      BY <2>2, <2>3, <2>4, <2>7
    <2> QED BY <2>9, <2>10
  <1>6. /\ heads \in Seq(Seq(Byte)) /\ Len(heads) = N /\ bodies \in Seq(Seq(Byte)) /\ Len(bodies) = N
    BY <1>2 DEF HeadsEncoded, BodiesEncoded, N
  <1>7. Len(FlattenSeq(heads)) = SumOf(d)
    <2>1. \A i \in 1 .. Len(heads) : d[i] = Len(heads[i])
      BY <1>4, <1>5, <1>6
    <2> QED BY <1>3, <1>6, <2>1, FlattenLength
  <1>8. Len(FlattenSeq(bodies)) = SumOf(e)
    <2>1. \A i \in 1 .. Len(bodies) : e[i] = Len(bodies[i])
      BY <1>5, <1>6
    <2> QED BY <1>3, <1>6, <2>1, FlattenLength
  <1>9. SumOf(s) = SumOf(d) + SumOf(e)
    <2>0. \A i \in 1 .. N : d[i] = 4
      BY <1>4
    <2>1. \A i \in 1 .. N : d[i] \in Nat /\ e[i] \in Nat /\ s[i] = d[i] + e[i]
      BY <1>5, <2>0
    <2> QED BY <1>1, <1>3, <2>1, SumOfSums
  <1> QED BY <1>7, <1>8, <1>9 DEF heads, bodies, s

LEMMA SizeV1 ==
    ASSUME NEW m \in Message, m.version = V1, ConfigFits(m), Marshal(m) # Refused
    PROVE  Len(Marshal(m)) = SerializedSize(m)
  <1> DEFINE a1 == <<Cont + V1>>
             x1 == a1
             a2 == m.header
             x2 == x1 \o a2
             a3 == MaskOf(m)
             x3 == x2 \o a3
             a4 == m.hash
             x4 == x3 \o a4
             a5 == CountsOf(m)
             x5 == x4 \o a5
             a6 == FlattenSeq(m.keys)
             x6 == x5 \o a6
             a7 == MarshalConfig(m.config)
             x7 == x6 \o a7
             a8 == FlattenSeq(HeadBytesOf(m))
             x8 == x7 \o a8
             a9 == FlattenSeq(BodyBytesOf(m))
             x9 == x8 \o a9
             n6 == Len(m.keys) * KeySize
             n7 == SumOf(ConfigSizes(m))
             n8 == SumOf(ContentSizes(m))
  <1>a. /\ a1 \in Seq(Byte) /\ a2 \in Seq(Byte) /\ a3 \in Seq(Byte) /\ a4 \in Seq(Byte) /\ a5 \in Seq(Byte)
        /\ a6 \in Seq(Byte) /\ a7 \in Seq(Byte) /\ a8 \in Seq(Byte) /\ a9 \in Seq(Byte)
        /\ Len(a1) = 1 /\ Len(a2) = 3 /\ Len(a3) = U32Size /\ Len(a4) = HashSize /\ Len(a5) = 2
    BY PartsV1
  <1>m. Marshal(m) = x9
    BY MarshalV1Parts
  <1>n. Len(a6) = n6 /\ Len(a7) = n7 /\ Len(a8) + Len(a9) = n8
    BY KeysLength, ConfigLength, MarshalledV1, ContentsLength
  <1>s. SerializedSize(m) = 1 + 3 + U32Size + HashSize + 1 + 1 + n6 + n7 + n8
    BY DEF SerializedSize, SerializedSizeV1, ConfigSizes, ContentSizes
  <1>z. U32Size \in Nat /\ HashSize \in Nat
    BY Sizes
  <1>1. x1 \in Seq(Byte) /\ Len(x1) = 1
    BY <1>a
  <1>l. Len(a6) \in Nat /\ Len(a7) \in Nat /\ Len(a8) \in Nat /\ Len(a9) \in Nat
    BY <1>a
  <1> HIDE DEF a1, a2, a3, a4, a5, a6, a7, a8, a9, x1, n6, n7, n8
  <1>2. x2 \in Seq(Byte) /\ Len(x2) = Len(x1) + Len(a2)
    BY <1>a, <1>1, ConcatBytes
  <1> HIDE DEF x2
  <1>3. x3 \in Seq(Byte) /\ Len(x3) = Len(x2) + Len(a3)
    BY <1>a, <1>2, ConcatBytes
  <1> HIDE DEF x3
  <1>4. x4 \in Seq(Byte) /\ Len(x4) = Len(x3) + Len(a4)
    BY <1>a, <1>3, ConcatBytes
  <1> HIDE DEF x4
  <1>5. x5 \in Seq(Byte) /\ Len(x5) = Len(x4) + Len(a5)
    BY <1>a, <1>4, ConcatBytes
  <1> HIDE DEF x5
  <1>6. x6 \in Seq(Byte) /\ Len(x6) = Len(x5) + Len(a6)
    BY <1>a, <1>5, ConcatBytes
  <1> HIDE DEF x6
  <1>7. x7 \in Seq(Byte) /\ Len(x7) = Len(x6) + Len(a7)
    BY <1>a, <1>6, ConcatBytes
  <1> HIDE DEF x7
  <1>8. x8 \in Seq(Byte) /\ Len(x8) = Len(x7) + Len(a8)
    BY <1>a, <1>7, ConcatBytes
  <1> HIDE DEF x8
  <1>9. x9 \in Seq(Byte) /\ Len(x9) = Len(x8) + Len(a9)
    BY <1>a, <1>8, ConcatBytes
  <1> HIDE DEF x9
  <1>10. Len(x9) = 1 + 3 + U32Size + HashSize + 2 + Len(a6) + Len(a7) + Len(a8) + Len(a9)
    BY <1>a, <1>1, <1>2, <1>3, <1>4, <1>5, <1>6, <1>7, <1>8, <1>9
  <1>11. ASSUME NEW r \in Nat, NEW s \in Nat, NEW t \in Nat, NEW u \in Nat
         PROVE  1 + 3 + U32Size + HashSize + 2 + r + s + t + u
                  = 1 + 3 + U32Size + HashSize + 1 + 1 + r + s + (t + u)
    BY <1>z
  <1>12. Len(x9) = 1 + 3 + U32Size + HashSize + 1 + 1 + Len(a6) + Len(a7) + (Len(a8) + Len(a9))
    BY <1>l, <1>10, <1>11
  <1> QED BY <1>m, <1>n, <1>s, <1>12

LEMMA MessageSize ==
    ASSUME NEW m \in Message, ConfigFits(m), Marshal(m) # Refused
    PROVE  Len(Marshal(m)) = SerializedSize(m)
  BY SizeV0, SizeV1

LEMMA TransactionSize ==
    ASSUME NEW t, TxOK(t), MarshalTx(t) # Refused
    PROVE  Len(MarshalTx(t)) = SerializedSizeTx(t)
  <1> DEFINE m == t.msg
             xs == t.sigs
             body == Marshal(m)
             c == Len(xs)
             l == SerializedSize(m)
  <1>1. /\ body # Refused /\ c = m.header[1] /\ c <= MaxU16 /\ c \in Nat
        /\ MarshalTx(t) = IF m.version = V1 THEN body \o FlattenSeq(xs) ELSE PrefixedItems(xs) \o body
        /\ xs \in Seq(Seq(Byte)) /\ FlattenSeq(xs) \in Seq(Byte) /\ PrefixedItems(xs) \in Seq(Byte)
    BY MarshalledTx
  <1>2. m \in Message /\ ConfigFits(m) /\ xs \in Seq(OfSize(SigSize)) /\ SigSize \in Nat
    BY Sizes DEF TxOK
  <1>3. body \in Seq(Byte) /\ Len(body) = l /\ l \in Nat
    <2>1. body \in Seq(Byte) /\ Len(body) = l
      BY <1>1, <1>2, MarshalBytes, MessageSize
    <2> QED BY <2>1
  <1>4. Len(FlattenSeq(xs)) = c * SigSize /\ c * SigSize \in Nat
    <2>1. \A i \in 1 .. Len(xs) : Len(xs[i]) = SigSize
      BY <1>2, FixedBytes
    <2>2. Len(FlattenSeq(xs)) = Len(xs) * SigSize
      BY <1>1, <1>2, <2>1, FlattenFixed
    <2> QED BY <1>1, <1>2, <2>2
  <1>5. SerializedSizeTx(t) = l + c * SigSize
                              + (IF m.version = V1 THEN 0 ELSE IF c >= Cont THEN 2 ELSE 1)
    BY DEF SerializedSizeTx
  <1>6. c < 2 * Cont
    <2>1. m.header[1] \in Byte
      BY <1>2, MessageParts DEF OfSize
    <2> QED BY <1>1, <2>1, Sizes DEF Byte
  <1>7. SvSize(c) = IF c >= Cont THEN 2 ELSE 1
    <2>1. 2 * Cont <= Cont * Cont
      BY Sizes
    <2>2. c < Cont * Cont
      <3>1. Cont * Cont \in Nat /\ 2 * Cont \in Nat
        BY Sizes
      <3> HIDE DEF c
      <3> QED BY <1>1, <1>6, <2>1, <3>1
    <2> HIDE DEF c
    <2> QED BY <1>1, <2>2, Sizes DEF SvSize
  <1>8. Len(PrefixedItems(xs)) = SvSize(c) + c * SigSize
    BY <1>1, <1>4, PrefixedItemsBytes
  <1> DEFINE sigs == FlattenSeq(xs)
             vec == PrefixedItems(xs)
  <1>9. sigs \in Seq(Byte) /\ vec \in Seq(Byte) /\ Len(sigs) = c * SigSize
        /\ Len(vec) = SvSize(c) + c * SigSize
    BY <1>1, <1>4, <1>8
  <1>10. MarshalTx(t) = IF m.version = V1 THEN body \o sigs ELSE vec \o body
    BY <1>1
  <1> HIDE DEF m, xs, body, c, l, sigs, vec
  <1>11. Len(body \o sigs) = l + c * SigSize /\ Len(vec \o body) = SvSize(c) + c * SigSize + l
    BY <1>3, <1>9, ConcatBytes
  <1>12. CASE m.version = V1
    BY <1>3, <1>4, <1>5, <1>10, <1>11, <1>12
  <1>13. CASE m.version # V1
    <2>1. SvSize(c) \in Nat
      BY <1>7
    <2>2. SvSize(c) + c * SigSize + l = l + c * SigSize + SvSize(c)
      BY <1>3, <1>4, <2>1
    <2> QED BY <1>5, <1>7, <1>10, <1>11, <1>13, <2>2
  <1> QED BY <1>12, <1>13


--------------------------------------------------------------------------------
(***************************************************************************)
(* Entries: a stream of transactions.                                       *)
(***************************************************************************)
TxsOK(txs) ==
    \A i \in 1 .. Len(txs) :
        TxOK(txs[i]) /\ MarshalTx(txs[i]) # Refused /\ txs[i].msg.header[1] < Cont
TxsEncoded(seqs, txs) ==
    /\ seqs \in Seq(Seq(Byte)) /\ Len(seqs) = Len(txs)
    /\ \A i \in 1 .. Len(txs) : seqs[i] = MarshalTx(txs[i])
TxsDecoded(vals, txs) ==
    Len(vals) = Len(txs) /\ \A i \in 1 .. Len(txs) : vals[i] = DecodedTx(txs[i])

LEMMA TxItemsStand ==
    ASSUME NEW b \in Seq(Byte), NEW n \in 0 .. Len(b), NEW k \in Nat, NEW w, NEW p,
           Stands(p, b, n, k, w), NEW txs, Len(txs) \in Nat, TxsOK(txs),
           NEW seqs, TxsEncoded(seqs, txs), NEW V, NEW vals \in Seq(V), TxsDecoded(vals, txs),
           Here(b, k, FlattenSeq(seqs))
    PROVE  Stands(TxItems(p, Len(txs)), b, n, k + Len(FlattenSeq(seqs)), vals)
  <1>1. /\ seqs \in Seq(Seq(Byte)) /\ Len(seqs) = Len(txs) /\ Len(vals) = Len(seqs)
        /\ \A i \in 1 .. Len(seqs) :
              /\ seqs[i] = MarshalTx(txs[i]) /\ vals[i] = DecodedTx(txs[i])
              /\ TxOK(txs[i]) /\ MarshalTx(txs[i]) # Refused /\ txs[i].msg.header[1] < Cont
    BY DEF TxsEncoded, TxsDecoded, TxsOK
  <1>2. p.err # "nil" => TxItems(p, Len(txs)) = p
    BY DEF TxItems, ReadItems
  <1>3. ASSUME p.err = "nil"
        PROVE  \E r :
              /\ r[0] = Value(p, <<>>) /\ TxItems(p, Len(txs)) = r[Len(seqs)]
              /\ \A i \in 1 .. Len(seqs) : \A j \in Nat : \A v :
                    Here(b, j, seqs[i]) /\ Stands(r[i - 1], b, n, j, v)
                    => \E q : /\ r[i] = Push(r[i - 1], q)
                              /\ Stands(q, b, n, j + Len(seqs[i]), vals[i])
    <2>1. PICK r : /\ r[0] = Value(p, <<>>) /\ TxItems(p, Len(txs)) = r[Len(txs)]
                   /\ \A i \in 1 .. Len(txs) : r[i] = Push(r[i - 1], DecodeTransaction(r[i - 1]))
      BY <1>3, TxUnfold
    <2>2. ASSUME NEW i \in 1 .. Len(seqs), NEW j \in Nat, NEW v, Here(b, j, seqs[i]),
                 Stands(r[i - 1], b, n, j, v)
          PROVE  Stands(DecodeTransaction(r[i - 1]), b, n, j + Len(seqs[i]), vals[i])
      <3>1. Here(b, j, MarshalTx(txs[i]))
        BY <1>1, <2>2
      <3>2. Stands(DecodeTransaction(r[i - 1]), b, n, j + Len(MarshalTx(txs[i])), DecodedTx(txs[i]))
        BY <1>1, <2>2, <3>1, DecodeTransactionStands
      <3> QED BY <1>1, <3>2
    <2>3. \A i \in 1 .. Len(seqs) : r[i] = Push(r[i - 1], DecodeTransaction(r[i - 1]))
      BY <1>1, <2>1
    <2>4. r[0] = Value(p, <<>>) /\ TxItems(p, Len(txs)) = r[Len(seqs)]
      BY <1>1, <2>1
    <2> QED BY <2>2, <2>3, <2>4
  <1> QED BY <1>1, <1>2, <1>3, AllItemsStand

Ones == [i \in 1 .. HashSize |-> 1]
EntryVal(c, vals) == [hashes |-> 2, hash |-> Ones, count |-> c, txs |-> vals]
EntryBytes(c, bytes) ==
    ((WriteUint(2, U64Size) \o Ones) \o WriteUint(c, U64Size)) \o bytes

LEMMA EntryParts ==
    ASSUME NEW c \in Byte
    PROVE  /\ Ones \in Seq(Byte) /\ Len(Ones) = HashSize
           /\ \A v \in {1, 2, c} : /\ v \in Nat /\ Shifted(v, U64Size) = 0
                                   /\ WriteUint(v, U64Size) \in Seq(Byte)
                                   /\ Len(WriteUint(v, U64Size)) = U64Size
  <1>1. Ones \in OfSize(HashSize) /\ HashSize \in Nat
    BY Sizes DEF Ones, OfSize, Byte
  <1>2. ASSUME NEW v \in {1, 2, c}
        PROVE  /\ v \in Nat /\ Shifted(v, U64Size) = 0
               /\ WriteUint(v, U64Size) \in Seq(Byte) /\ Len(WriteUint(v, U64Size)) = U64Size
    <2>1. v \in Byte /\ v \in Nat /\ U64Size \in Nat \ {0}
      BY Sizes DEF Byte
    <2> QED BY <2>1, FitsByte, WriteUintBytes
  <1> QED BY <1>1, <1>2, FixedBytes

\* One entry of c transactions, whatever comes before and after.
LEMMA DecodeEntryStands ==
    ASSUME NEW b \in Seq(Byte), NEW n \in 0 .. Len(b), NEW k \in Nat, NEW w, NEW p,
           Stands(p, b, n, k, w), NEW txs, Len(txs) \in Byte, MaxTxPerEntry \in Nat,
           Len(txs) <= MaxTxPerEntry, TxsOK(txs),
           NEW seqs, TxsEncoded(seqs, txs), NEW V, NEW vals \in Seq(V), TxsDecoded(vals, txs),
           Here(b, k, EntryBytes(Len(txs), FlattenSeq(seqs))), NEW i
    PROVE  /\ Stands(DecodeEntry(p, i), b, n,
                     k + Len(EntryBytes(Len(txs), FlattenSeq(seqs))), EntryVal(Len(txs), vals))
           /\ Len(EntryBytes(Len(txs), FlattenSeq(seqs))) \in Nat
  <1> DEFINE c == Len(txs)
             flat == FlattenSeq(seqs)
             e1 == WriteUint(2, U64Size)
             e3 == WriteUint(c, U64Size)
             v0 == [hashes |-> 0, hash |-> <<>>, count |-> 0, txs |-> <<>>]
             v1 == [v0 EXCEPT !["hashes"] = 2]
             v2 == [v1 EXCEPT !["hash"] = Ones]
             v3 == [v2 EXCEPT !["count"] = c]
             v4 == [v3 EXCEPT !["txs"] = vals]
             p0 == Value(p, v0)
             p1 == UintField(p0, "hashes", U64Size)
             p2 == BytesField(p1, "hash", HashSize)
             p3 == UintField(p2, "count", U64Size)
             k1 == k + Len(e1)
             k2 == k1 + Len(Ones)
             k3 == k2 + Len(e3)
             k4 == k3 + Len(flat)
  <1>1. c \in Nat /\ c \in Byte /\ U64Size \in Nat /\ n \in Nat
    BY Sizes DEF Byte
  <1>2. /\ e1 \in Seq(Byte) /\ Len(e1) = U64Size /\ e3 \in Seq(Byte) /\ Len(e3) = U64Size
        /\ Ones \in Seq(Byte) /\ Len(Ones) = HashSize
        /\ Shifted(2, U64Size) = 0 /\ Shifted(c, U64Size) = 0 /\ 2 \in Nat
    BY <1>1, EntryParts
  <1>3. flat \in Seq(Byte)
    BY FlattenElements DEF TxsEncoded
  <1>4. v4 = EntryVal(c, vals) /\ v3.count = c
    BY DEF EntryVal
  <1>5. DecodeEntry(p, i) = TxsField(p3)
    BY DEF DecodeEntry
  <1>6. Here(b, k, ((e1 \o Ones) \o e3) \o flat)
    BY DEF EntryBytes
  <1>7. EntryBytes(Len(txs), FlattenSeq(seqs)) = ((e1 \o Ones) \o e3) \o flat
    BY DEF EntryBytes
  <1>8. Stands(p0, b, n, k, v0)
    BY ValueStands
  <1> HIDE DEF c, flat, e1, e3, v0, p0
  <1>9. /\ Here(b, k, e1) /\ Here(b, k1, Ones) /\ Here(b, k2, e3) /\ Here(b, k3, flat)
        /\ k1 \in Nat /\ k2 \in Nat /\ k3 \in Nat /\ k4 \in Nat
        /\ k <= k1 /\ k1 <= k2 /\ k2 <= k3 /\ k3 <= k4
        /\ k + Len(((e1 \o Ones) \o e3) \o flat) = k4 /\ Len(((e1 \o Ones) \o e3) \o flat) \in Nat
    <2> DEFINE d2 == e1 \o Ones
               d3 == d2 \o e3
    <2>0. ((e1 \o Ones) \o e3) \o flat = d3 \o flat
      OBVIOUS
    <2>1. d2 \in Seq(Byte) /\ Len(d2) = Len(e1) + Len(Ones) /\ Len(e1) \in Nat /\ Len(Ones) \in Nat
      BY <1>2, ConcatBytes
    <2>2. d2 = e1 \o Ones
      OBVIOUS
    <2> HIDE DEF d2
    <2>3. d3 \in Seq(Byte) /\ Len(d3) = Len(d2) + Len(e3) /\ Len(e3) \in Nat
      BY <1>2, <2>1, ConcatBytes
    <2>4. d3 = d2 \o e3
      OBVIOUS
    <2> HIDE DEF d3
    <2>5. d3 \o flat \in Seq(Byte) /\ Len(d3 \o flat) = Len(d3) + Len(flat) /\ Len(flat) \in Nat
      BY <1>3, <2>3, ConcatBytes
    <2>6. Here(b, k, d3) /\ Here(b, k + Len(d3), flat)
      BY <1>3, <1>6, <2>0, <2>3, HereConcat
    <2>7. Here(b, k, d2) /\ Here(b, k + Len(d2), e3)
      BY <1>2, <2>1, <2>4, <2>6, HereConcat
    <2>8. Here(b, k, e1) /\ Here(b, k + Len(e1), Ones)
      BY <1>2, <2>2, <2>7, HereConcat
    <2>9. k + Len(d2) = k2 /\ k + Len(d3) = k3 /\ k + Len(d3 \o flat) = k4 /\ Len(d3 \o flat) \in Nat
      BY <2>1, <2>3, <2>5
    <2>10. /\ k1 \in Nat /\ k2 \in Nat /\ k3 \in Nat /\ k4 \in Nat
           /\ k <= k1 /\ k1 <= k2 /\ k2 <= k3 /\ k3 <= k4
      BY <2>1, <2>3, <2>5
    <2> QED BY <2>0, <2>6, <2>7, <2>8, <2>9, <2>10
  <1>10. Stands(p1, b, n, k1, v1)
    <2>1. Stands(ReadUint(p0, U64Size), b, n, k + U64Size, 2)
      BY <1>1, <1>2, <1>8, <1>9, ReadUintStands DEF e1
    <2>2. Stands(ReadUint(p0, U64Size), b, n, k1, 2)
      BY <1>2, <2>1
    <2> HIDE DEF k1
    <2> QED BY <1>1, <1>8, <1>9, <2>2, FieldStands DEF UintField
  <1> HIDE DEF p1, v1
  <1>11. Stands(p2, b, n, k2, v2)
    <2>1. Stands(ReadBytes(p1, Len(Ones)), b, n, k2, Ones)
      BY <1>2, <1>9, <1>10, ReadBytesStands
    <2>2. Stands(ReadBytes(p1, HashSize), b, n, k2, Ones)
      BY <1>2, <2>1
    <2> HIDE DEF k2, k1
    <2> QED BY <1>1, <1>9, <1>10, <2>2, FieldStands DEF BytesField
  <1> HIDE DEF p2, v2
  <1>12. Stands(p3, b, n, k3, v3)
    <2>1. Stands(ReadUint(p2, U64Size), b, n, k2 + U64Size, c)
      BY <1>1, <1>2, <1>9, <1>11, ReadUintStands DEF e3
    <2>2. Stands(ReadUint(p2, U64Size), b, n, k3, c)
      BY <1>2, <2>1
    <2> HIDE DEF k3, k2
    <2> QED BY <1>1, <1>9, <1>11, <2>2, FieldStands DEF UintField
  <1> HIDE DEF p3, v3, k3
  <1>13. p3.err = "nil" => p3.val.count = c
    BY <1>4, <1>12 DEF Stands, State
  <1>14. Stands(TxItems(p3, c), b, n, k4, vals)
    <2>1. Here(b, k3, FlattenSeq(seqs)) /\ Len(txs) \in Nat
      BY <1>1, <1>9 DEF flat, c
    <2>2. Stands(TxItems(p3, Len(txs)), b, n, k3 + Len(FlattenSeq(seqs)), vals)
      BY <1>9, <1>12, <2>1, TxItemsStand
    <2> QED BY <2>2 DEF c, flat
  <1>15. TxsField(p3) = Field(p3, "txs", TxItems(p3, c))
    <2>1. CASE p3.err = "nil"
      <3>1. p3.val.count = c /\ ~(c > MaxTxPerEntry)
        BY <1>1, <1>13, <2>1 DEF c
      <3> QED BY <3>1 DEF TxsField, ItemsField, TxItems
    <2>2. CASE p3.err # "nil"
      BY <2>2 DEF TxsField, ItemsField, TxItems, ReadItems
    <2> QED BY <2>1, <2>2
  <1> HIDE DEF k4
  <1>16. Stands(TxsField(p3), b, n, k4, v4)
    <2>1. k3 \in Nat /\ k4 \in Nat /\ k3 <= k4
      BY <1>9
    <2>2. Stands(Field(p3, "txs", TxItems(p3, c)), b, n, k4, [v3 EXCEPT !["txs"] = vals])
      BY <1>1, <1>12, <1>14, <2>1, FieldStands
    <2> QED BY <1>15, <2>2
  <1> QED BY <1>4, <1>5, <1>7, <1>9, <1>16 DEF c


LEMMA EntryOfBytes ==
    ASSUME NEW txs, Len(txs) \in Byte, DOMAIN txs = 1 .. Len(txs), TxsOK(txs)
    PROVE  LET seqs == [i \in DOMAIN txs |-> MarshalTx(txs[i])]
               entry == EntryBytes(Len(txs), FlattenSeq(seqs))
           IN  /\ TxsEncoded(seqs, txs) /\ EntryOf(txs) = WriteUint(1, U64Size) \o entry
               /\ entry \in Seq(Byte)
  <1> DEFINE c == Len(txs)
             seqs == [i \in DOMAIN txs |-> MarshalTx(txs[i])]
             flat == FlattenSeq(seqs)
             e0 == WriteUint(1, U64Size)
             e1 == WriteUint(2, U64Size)
             e3 == WriteUint(c, U64Size)
  <1>1. c \in Nat
    BY Sizes DEF Byte
  <1>2. \A i \in 1 .. c : MarshalTx(txs[i]) \in Seq(Byte)
    BY MarshalTxBytes DEF TxsOK
  <1>3. seqs = [i \in 1 .. c |-> MarshalTx(txs[i])] /\ \A i \in 1 .. c : seqs[i] = MarshalTx(txs[i])
    OBVIOUS
  <1> HIDE DEF c
  <1>4. seqs \in [1 .. c -> Seq(Byte)]
    BY <1>2, <1>3
  <1> HIDE DEF seqs
  <1>5. seqs \in Seq(Seq(Byte)) /\ Len(seqs) = c
    BY <1>1, <1>4
  <1>6. TxsEncoded(seqs, txs)
    BY <1>3, <1>5 DEF TxsEncoded, c
  <1>7. flat \in Seq(Byte)
    BY <1>5, FlattenElements
  <1>8. /\ e0 \in Seq(Byte) /\ e1 \in Seq(Byte) /\ e3 \in Seq(Byte) /\ Ones \in Seq(Byte)
    BY EntryParts DEF c
  <1>9. EntryOf(txs) = (((e0 \o e1) \o Ones) \o e3) \o flat
    BY DEF EntryOf, Ones, flat, seqs, c
  <1>10. EntryBytes(c, flat) = ((e1 \o Ones) \o e3) \o flat
    BY DEF EntryBytes
  <1> HIDE DEF flat, e0, e1, e3
  <1> DEFINE d1 == e1 \o Ones
             d2 == d1 \o e3
  <1>11. d1 \in Seq(Byte) /\ (e0 \o e1) \o Ones = e0 \o d1
    BY <1>8
  <1>12. d2 = d1 \o e3 /\ d1 = e1 \o Ones
    OBVIOUS
  <1> HIDE DEF d1
  <1>13. d2 \in Seq(Byte) /\ (e0 \o d1) \o e3 = e0 \o d2
    BY <1>8, <1>11
  <1> HIDE DEF d2
  <1>14. d2 \o flat \in Seq(Byte) /\ (e0 \o d2) \o flat = e0 \o (d2 \o flat)
    BY <1>7, <1>8, <1>13
  <1>15. EntryBytes(c, flat) = d2 \o flat
    BY <1>10, <1>12
  <1>16. EntryOf(txs) = e0 \o EntryBytes(c, flat)
    BY <1>9, <1>11, <1>13, <1>14, <1>15
  <1> QED BY <1>6, <1>14, <1>15, <1>16 DEF flat, c, seqs, e0

\* An entry of transactions decodes to these transactions.
LEMMA DecodeEntriesStands ==
    ASSUME NEW txs, Len(txs) \in Byte, DOMAIN txs = 1 .. Len(txs), TxsOK(txs),
           MaxEntriesPerDecode \in Nat \ {0}, MaxTxPerEntry \in Nat, Len(txs) <= MaxTxPerEntry
    PROVE  /\ DecodeEntries(EntryOf(txs)).err = "nil"
           /\ DecodeEntries(EntryOf(txs)).val[1].txs = [i \in 1 .. Len(txs) |-> DecodedTx(txs[i])]
  <1> DEFINE c == Len(txs)
             seqs == [i \in DOMAIN txs |-> MarshalTx(txs[i])]
             entry == EntryBytes(c, FlattenSeq(seqs))
             e0 == WriteUint(1, U64Size)
             b == EntryOf(txs)
             n == Len(b)
             vals == [i \in 1 .. c |-> DecodedTx(txs[i])]
             V == {DecodedTx(txs[i]) : i \in 1 .. c}
             val == EntryVal(c, vals)
             p0 == NewDecoder(b)
             p1 == ReadUint(p0, U64Size)
  <1>1. c \in Nat /\ U64Size \in Nat
    BY Sizes DEF Byte
  <1>2. TxsEncoded(seqs, txs) /\ b = e0 \o entry /\ entry \in Seq(Byte)
    BY EntryOfBytes
  <1>3. vals \in Seq(V) /\ TxsDecoded(vals, txs)
    <2>1. vals \in [1 .. c -> V]
      OBVIOUS
    <2> HIDE DEF V
    <2>2. \A i \in 1 .. c : vals[i] = DecodedTx(txs[i])
      OBVIOUS
    <2> HIDE DEF vals
    <2>3. vals \in Seq(V) /\ Len(vals) = c
      BY <1>1, <2>1
    <2> QED BY <2>2, <2>3 DEF TxsDecoded
  <1>4. e0 \in Seq(Byte) /\ Len(e0) = U64Size /\ Shifted(1, U64Size) = 0
    BY EntryParts
  <1>5. val.txs = vals
    BY DEF EntryVal
  <1> HIDE DEF c, seqs, entry, vals, V, val, b, e0
  <1>6. /\ b \in Seq(Byte) /\ n \in Nat /\ n = U64Size + Len(entry) /\ Len(entry) \in Nat
        /\ n \in 0 .. Len(b)
    <2>1. /\ e0 \o entry \in Seq(Byte) /\ Len(e0 \o entry) = Len(e0) + Len(entry)
          /\ Len(e0) \in Nat /\ Len(entry) \in Nat
      BY <1>2, <1>4, ConcatBytes
    <2>2. b \in Seq(Byte) /\ Len(b) = U64Size + Len(entry)
      BY <1>2, <1>4, <2>1
    <2> QED BY <1>1, <2>1, <2>2
  <1>7. Here(b, 0, b) /\ 0 \in Nat /\ SubSeq(b, 1, n) = b
    BY <1>6 DEF Here
  <1>8. Here(b, 0, e0) /\ Here(b, U64Size, entry)
    <2>1. Here(b, 0, e0 \o entry)
      BY <1>2, <1>7
    <2>2. Here(b, 0, e0) /\ Here(b, 0 + Len(e0), entry)
      BY <1>2, <1>4, <1>6, <1>7, <2>1, HereConcat
    <2> QED BY <1>1, <1>4, <2>2
  <1>9. Stands(p0, b, n, 0, <<>>)
    BY <1>6, <1>7 DEF Stands, State, NewDecoder
  <1> HIDE DEF p0
  <1>10. Stands(p1, b, n, U64Size, 1)
    <2>1. Here(b, 0, WriteUint(1, U64Size)) /\ 1 \in Nat
      BY <1>8 DEF e0
    <2>2. Stands(p1, b, n, 0 + U64Size, 1)
      BY <1>1, <1>4, <1>6, <1>7, <1>9, <2>1, ReadUintStands
    <2> QED BY <1>1, <2>2
  <1> HIDE DEF p1, n
  <1>11. p1 = State(b, n, U64Size, 1) /\ p1.err = "nil" /\ p1.val = 1
    BY <1>1, <1>6, <1>10 DEF Stands, State
  <1>12. PICK r : /\ r[0] = Value(p1, <<>>) /\ EntryItems(p1, 1) = r[1]
                  /\ \A i \in 1 .. 1 : r[i] = Push(r[i - 1], DecodeEntry(r[i - 1], i))
    <2>1. p1.err = "nil" /\ 1 \in Nat
      BY <1>11
    <2> QED BY <2>1, EntryUnfold
  <1>13. r[1] = Push(r[0], DecodeEntry(r[0], 1))
    BY <1>12
  <1>14. Stands(r[0], b, n, U64Size, <<>>)
    BY <1>10, <1>12, ValueStands
  <1>15. Stands(DecodeEntry(r[0], 1), b, n, n, val)
    <2>1. Here(b, U64Size, EntryBytes(Len(txs), FlattenSeq(seqs)))
      BY <1>8 DEF entry, c
    <2>2. n \in 0 .. Len(b) /\ Len(txs) <= MaxTxPerEntry
      BY <1>6 DEF n
    <2>3. Stands(DecodeEntry(r[0], 1), b, n,
                 U64Size + Len(EntryBytes(Len(txs), FlattenSeq(seqs))), EntryVal(Len(txs), vals))
      BY <1>1, <1>2, <1>3, <1>6, <1>14, <2>1, <2>2, DecodeEntryStands
    <2> QED BY <1>6, <2>3 DEF entry, val, c
  <1>16. Stands(r[1], b, n, n, Append(<<>>, val))
    <2>1. n \in Nat /\ U64Size <= n /\ U64Size \in Nat
      BY <1>1, <1>6
    <2>2. Stands(Push(r[0], DecodeEntry(r[0], 1)), b, n, n, Append(<<>>, val))
      BY <1>14, <1>15, <2>1, PushStands
    <2> QED BY <1>13, <2>2
  <1>17. SubSeq(b, n + 1, n) = <<>> /\ n <= n
    BY <1>6
  <1>18. r[1].err = "nil" /\ r[1].val = <<val>> /\ r[1].rest = <<>>
    <2>1. r[1] = [err |-> "nil", rest |-> <<>>, val |-> Append(<<>>, val)]
      BY <1>16, <1>17 DEF Stands, State
    <2>2. Append(<<>>, val) = <<val>>
      OBVIOUS
    <2> QED BY <2>1, <2>2
  <1>19. DecodeEntries(b) = NoTrailing(EntryItems(p1, 1))
    <2>1. ~(1 > MaxEntriesPerDecode)
      OBVIOUS
    <2> QED BY <1>11, <2>1 DEF DecodeEntries, EntryItems, p1, p0
  <1>20. DecodeEntries(b) = r[1]
    BY <1>12, <1>18, <1>19 DEF NoTrailing
  <1>21. DecodeEntries(b).val[1].txs = vals
    BY <1>5, <1>18, <1>20
  <1> QED BY <1>18, <1>20, <1>21 DEF b, vals, c

--------------------------------------------------------------------------------
(***************************************************************************)
(* The other direction: what a decoder that has found no error has read.      *)
(* Read(p, q, e): on the way from p to q the bytes e were consumed.           *)
(***************************************************************************)
Ready(p) == p = [err |-> "nil", rest |-> p.rest, val |-> p.val] /\ p.rest \in Seq(Byte)
OK(p) == p.err = "nil" => Ready(p)
Read(p, q, e) == Ready(p) /\ Ready(q) /\ e \in Seq(Byte) /\ p.rest = e \o q.rest

LEMMA ReadNothing ==
    ASSUME NEW p, Ready(p)
    PROVE  Read(p, p, <<>>)
  BY DEF Read, Ready

LEMMA ConcatAssociates ==
    ASSUME NEW d \in Seq(Byte), NEW e \in Seq(Byte), NEW f \in Seq(Byte)
    PROVE  d \o (e \o f) = (d \o e) \o f /\ d \o e \in Seq(Byte)
  OBVIOUS

LEMMA ReadThenRead ==
    ASSUME NEW p, NEW q, NEW r, NEW d, NEW e, Read(p, q, d), Read(q, r, e)
    PROVE  Read(p, r, d \o e)
  <1>1. d \in Seq(Byte) /\ e \in Seq(Byte) /\ r.rest \in Seq(Byte)
    BY DEF Read, Ready
  <1>2. d \o (e \o r.rest) = (d \o e) \o r.rest /\ d \o e \in Seq(Byte)
    BY <1>1, ConcatAssociates
  <1> QED BY <1>2 DEF Read

LEMMA ReadValue ==
    ASSUME NEW p, NEW q, NEW e, Read(p, q, e), NEW v
    PROVE  Read(p, Value(q, v), e) /\ Value(q, v).val = v
  <1>1. q = [err |-> "nil", rest |-> q.rest, val |-> q.val] /\ q.rest \in Seq(Byte)
    BY DEF Read, Ready
  <1>2. Value(q, v) = [err |-> "nil", rest |-> q.rest, val |-> v]
    BY <1>1 DEF Value
  <1> QED BY <1>1, <1>2 DEF Read, Ready

LEMMA ReadyValue ==
    ASSUME NEW p, OK(p), NEW v
    PROVE  /\ Value(p, v).err = p.err /\ OK(Value(p, v))
           /\ p.err = "nil" => /\ Value(p, v).val = v /\ Value(p, v).rest = p.rest
                               /\ Ready(p) /\ Ready(Value(p, v)) /\ Read(p, Value(p, v), <<>>)
  <1>1. CASE p.err # "nil"
    BY <1>1 DEF Value
  <1>2. CASE p.err = "nil"
    <2>1. p = [err |-> "nil", rest |-> p.rest, val |-> p.val] /\ p.rest \in Seq(Byte)
      BY <1>2 DEF OK, Ready
    <2>2. Value(p, v) = [err |-> "nil", rest |-> p.rest, val |-> v]
      BY <2>1 DEF Value
    <2>3. Ready(p) /\ Ready(Value(p, v)) /\ Value(p, v).val = v /\ Value(p, v).rest = p.rest
      BY <2>1, <2>2 DEF Ready
    <2>4. Read(p, Value(p, v), <<>>)
      BY <2>1, <2>3 DEF Read
    <2> QED BY <1>2, <2>2, <2>3, <2>4 DEF OK
  <1> QED BY <1>1, <1>2

LEMMA ReadOK ==
    ASSUME NEW p, NEW q, NEW e, Read(p, q, e)
    PROVE  OK(q) /\ OK(p) /\ p.err = "nil" /\ q.err = "nil" /\ Ready(q) /\ Ready(p) /\ e \in Seq(Byte)
  BY DEF Read, Ready, OK

LEMMA TakeRead ==
    ASSUME NEW p, Ready(p), NEW c \in Nat, c <= Len(p.rest), NEW v
    PROVE  /\ Read(p, Take(p, c, v), SubSeq(p.rest, 1, c)) /\ Take(p, c, v).val = v
           /\ SubSeq(p.rest, 1, c) \in OfSize(c)
  <1> DEFINE s == p.rest
             e == SubSeq(s, 1, c)
             r == SubSeq(s, c + 1, Len(s))
  <1>1. s \in Seq(Byte) /\ p = [err |-> "nil", rest |-> s, val |-> p.val]
    BY DEF Ready
  <1>2. Take(p, c, v) = [err |-> "nil", rest |-> r, val |-> v]
    <2>1. Take(p, c, v) = [p EXCEPT !.rest = r, !.val = v]
      BY DEF Take
    <2>2. PICK a, w : p = [err |-> "nil", rest |-> a, val |-> w]
      BY <1>1
    <2> HIDE DEF r
    <2> QED BY <2>1, <2>2
  <1>3. c <= Len(s) /\ Len(s) \in Nat
    BY <1>1
  <1> HIDE DEF s
  <1>4. e \in Seq(Byte) /\ Len(e) = c /\ \A i \in 1 .. c : e[i] = s[i]
    <2>1. 1 \in Int /\ c \in Int /\ \A i \in 1 .. c : s[i] \in Byte
      BY <1>1, <1>3
    <2> QED BY <2>1, SubSeqProperties
  <1>5. r \in Seq(Byte) /\ Len(r) = Len(s) - c /\ \A i \in 1 .. Len(s) - c : r[i] = s[c + i]
    <2> DEFINE n == Len(s)
    <2>1. n \in 0 .. Len(s) /\ c \in 0 .. n
      BY <1>3
    <2> HIDE DEF n
    <2>2. /\ SubSeq(s, c + 1, n) \in Seq(Byte) /\ Len(SubSeq(s, c + 1, n)) = n - c
          /\ \A i \in 1 .. n - c : SubSeq(s, c + 1, n)[i] = s[c + i]
      BY <1>1, <2>1, RestFacts
    <2> QED BY <2>2 DEF n
  <1> HIDE DEF e, r
  <1>6. s = e \o r
    <2>1. /\ e \o r \in Seq(Byte) /\ Len(e \o r) = Len(e) + Len(r)
          /\ \A i \in 1 .. Len(e) : (e \o r)[i] = e[i]
          /\ \A i \in 1 .. Len(r) : (e \o r)[Len(e) + i] = r[i]
      BY <1>4, <1>5, OccursConcat
    <2>2. Len(e \o r) = Len(s)
      BY <1>3, <1>4, <1>5, <2>1
    <2>3. ASSUME NEW i \in 1 .. Len(s) PROVE (e \o r)[i] = s[i]
      <3>1. CASE i <= c
        BY <1>4, <2>1, <3>1
      <3>2. CASE i > c
        <4>1. PICK j \in 1 .. Len(s) - c : i = c + j
          <5> i - c \in 1 .. Len(s) - c /\ i = c + (i - c)
            BY <1>3, <3>2
          <5> QED OBVIOUS
        <4>2. r[j] = s[c + j] /\ j \in 1 .. Len(r)
          BY <1>5, <4>1
        <4>3. (e \o r)[Len(e) + j] = r[j]
          BY <2>1, <4>2
        <4>4. Len(e) + j = i /\ c + j = i
          BY <1>4, <4>1
        <4> QED BY <4>2, <4>3, <4>4
      <3>3. i <= c \/ i > c
        BY <1>3
      <3> QED BY <3>1, <3>2, <3>3
    <2> QED BY <1>1, <2>1, <2>2, <2>3, SameSequence
  <1>7. e \in OfSize(c)
    BY <1>4 DEF OfSize
  <1>8. Ready(Take(p, c, v)) /\ Take(p, c, v).val = v /\ Take(p, c, v).rest = r
    BY <1>2, <1>5 DEF Ready
  <1>9. Read(p, Take(p, c, v), e)
    BY <1>4, <1>6, <1>8 DEF Read, s
  <1> QED BY <1>7, <1>8, <1>9 DEF e, s

LEMMA ReadBytesRead ==
    ASSUME NEW p, OK(p), NEW c \in Nat, NEW q, q = ReadBytes(p, c), q.err = "nil"
    PROVE  p.err = "nil" /\ Read(p, q, q.val) /\ q.val \in OfSize(c)
  <1>1. p.err = "nil"
    BY DEF ReadBytes
  <1>2. Ready(p)
    BY <1>1 DEF OK
  <1>3. p = [err |-> "nil", rest |-> p.rest, val |-> p.val] /\ Len(p.rest) \in Nat
    BY <1>2 DEF Ready
  <1>4. ~(Len(p.rest) < c)
    <2> SUFFICES ASSUME Len(p.rest) < c PROVE FALSE
      OBVIOUS
    <2>1. q = [p EXCEPT !.err = "short"]
      BY <1>1 DEF ReadBytes, Fail
    <2> QED BY <1>3, <2>1
  <1>5. q = Take(p, c, SubSeq(p.rest, 1, c))
    BY <1>1, <1>4 DEF ReadBytes
  <1>6. c <= Len(p.rest)
    BY <1>3, <1>4
  <1> QED BY <1>1, <1>2, <1>5, <1>6, TakeRead

\* Bytes, read as an integer and written again.
LEMMA WriteUintInverts ==
    ASSUME NEW s \in Seq(Byte)
    PROVE  /\ LittleEndian(s) \in Nat /\ Shifted(LittleEndian(s), Len(s)) = 0
           /\ WriteUint(LittleEndian(s), Len(s)) = s
  <1> DEFINE n == Len(s)
             v == LittleEndian(s)
  <1>0. n \in Nat /\ ByteMod \in Nat /\ Byte = 0 .. ByteMod - 1 /\ \A i \in 1 .. n : s[i] \in Byte
    BY Sizes DEF Byte, MaxU8
  <1>1. PICK q : /\ q[0] = 0 /\ v = q[n]
                 /\ \A i \in 1 .. n : q[i] = s[n + 1 - i] + ByteMod * q[i - 1]
    BY <1>0, LittleEndianUnfold
  <1> HIDE DEF n, v
  <1> DEFINE S == {i \in Nat : i <= n => q[i] \in Nat}
  <1>2. 0 \in S
    BY <1>1
  <1>3. ASSUME NEW i \in Nat, i \in S PROVE i + 1 \in S
    <2> SUFFICES ASSUME i + 1 <= n PROVE q[i + 1] \in Nat
      OBVIOUS
    <2>1. i + 1 \in 1 .. n /\ i + 1 - 1 = i /\ n + 1 - (i + 1) \in 1 .. n /\ i <= n
      BY <1>0
    <2>2. q[i + 1] = s[n + 1 - (i + 1)] + ByteMod * q[i] /\ q[i] \in Nat
      BY <1>1, <1>3, <2>1
    <2>3. s[n + 1 - (i + 1)] \in Nat
      BY <1>0, <2>1
    <2>4. ByteMod * q[i] \in Nat
      BY <1>0, <2>2
    <2> QED BY <2>2, <2>3, <2>4
  <1>4. \A i \in 0 .. n : q[i] \in Nat
    <2>1. Nat \subseteq S
      <3> HIDE DEF S
      <3> QED BY <1>2, <1>3, Induct
    <2> QED BY <2>1
  <1>5. ASSUME NEW j \in 0 .. n - 1
        PROVE  q[n - j] \div ByteMod = q[n - (j + 1)] /\ q[n - j] % ByteMod = s[j + 1]
    <2> DEFINE i == n - j
               x == q[i - 1]
               y == s[j + 1]
    <2>1. i \in 1 .. n /\ n + 1 - i = j + 1 /\ i - 1 = n - (j + 1) /\ i - 1 \in 0 .. n /\ j + 1 \in 1 .. n
      BY <1>0
    <2> HIDE DEF i
    <2>2. q[i] = y + ByteMod * x /\ x \in Nat /\ y \in 0 .. ByteMod - 1
      BY <1>0, <1>1, <1>4, <2>1
    <2>3. q[n - j] = q[i] /\ q[n - (j + 1)] = x
      BY <2>1 DEF i
    <2> HIDE DEF x, y
    <2>4. y + ByteMod * x = ByteMod * x + y
      BY <1>0, <2>2
    <2>5. (ByteMod * x + y) \div ByteMod = x /\ (ByteMod * x + y) % ByteMod = y
      BY <1>0, <2>2, DivUnique
    <2> QED BY <2>2, <2>3, <2>4, <2>5 DEF y
  <1> DEFINE T == {j \in Nat : j <= n => Shifted(v, j) = q[n - j]}
  <1>6. 0 \in T
    <2> n - 0 = n
      BY <1>0
    <2> QED BY <1>1, ShiftedZero
  <1>7. ASSUME NEW j \in Nat, j \in T PROVE j + 1 \in T
    <2> SUFFICES ASSUME j + 1 <= n PROVE Shifted(v, j + 1) = q[n - (j + 1)]
      OBVIOUS
    <2>1. j \in 0 .. n - 1 /\ j <= n
      BY <1>0
    <2>2. Shifted(v, j + 1) = Shifted(v, j) \div ByteMod
      BY ShiftedNext
    <2>3. Shifted(v, j) = q[n - j]
      BY <1>7, <2>1
    <2> QED BY <1>5, <2>1, <2>2, <2>3
  <1>8. \A j \in 0 .. n : Shifted(v, j) = q[n - j]
    <2>1. Nat \subseteq T
      <3> HIDE DEF T
      <3> QED BY <1>6, <1>7, Induct
    <2> QED BY <2>1
  <1>9. v \in Nat /\ Shifted(v, n) = 0
    <2> n \in 0 .. n /\ n - n = 0
      BY <1>0
    <2> QED BY <1>1, <1>4, <1>8
  <1>10. WriteUint(v, n) = s
    <2>1. /\ WriteUint(v, n) \in Seq(Byte) /\ Len(WriteUint(v, n)) = n
          /\ \A i \in 1 .. n : WriteUint(v, n)[i] = Shifted(v, i - 1) % ByteMod
      BY <1>0, <1>9, WriteUintBytes
    <2>2. ASSUME NEW i \in 1 .. n PROVE WriteUint(v, n)[i] = s[i]
      <3>1. i - 1 \in 0 .. n - 1 /\ i - 1 + 1 = i /\ i - 1 \in 0 .. n
        BY <1>0
      <3>2. Shifted(v, i - 1) = q[n - (i - 1)]
        BY <1>8, <3>1
      <3>3. q[n - (i - 1)] % ByteMod = s[i - 1 + 1]
        BY <1>5, <3>1
      <3> QED BY <2>1, <3>1, <3>2, <3>3
    <2> QED BY <2>1, <2>2, SameSequence DEF n
  <1> QED BY <1>9, <1>10 DEF n, v

LEMMA ReadUintRead ==
    ASSUME NEW p, OK(p), NEW c \in Nat, NEW q, q = ReadUint(p, c), q.err = "nil"
    PROVE  /\ p.err = "nil" /\ Read(p, q, WriteUint(q.val, c))
           /\ q.val \in Nat /\ Shifted(q.val, c) = 0
  <1> DEFINE r == ReadBytes(p, c)
             v == LittleEndian(r.val)
  <1>1. q = Value(r, v)
    BY DEF ReadUint
  <1> HIDE DEF v
  <1>2. r.err = "nil"
    <2> SUFFICES ASSUME r.err # "nil" PROVE FALSE
      OBVIOUS
    <2>1. q = r
      BY <1>1 DEF Value
    <2> QED BY <2>1
  <1>3. p.err = "nil" /\ Read(p, r, r.val) /\ r.val \in OfSize(c)
    BY <1>2, ReadBytesRead
  <1> HIDE DEF r
  <1>4. r.val \in Seq(Byte) /\ Len(r.val) = c
    BY <1>3, FixedBytes
  <1>5. v \in Nat /\ Shifted(v, c) = 0 /\ WriteUint(v, c) = r.val
    BY <1>4, WriteUintInverts DEF v
  <1>6. Read(p, q, r.val) /\ q.val = v
    BY <1>1, <1>3, ReadValue
  <1> QED BY <1>3, <1>5, <1>6


\* The bytes of a shortvec, from its groups.
LEMMA LowOfByte ==
    ASSUME NEW x \in Byte, ~(x < Cont)
    PROVE  Low(x) \in 0 .. Cont - 1 /\ Low(x) + Cont = x
  <1>1. Cont \in Nat /\ Cont >= 4 /\ x \in 0 .. 2 * Cont - 1
    BY Sizes DEF Byte
  <1> DEFINE y == x - Cont
  <1>2. y \in 0 .. Cont - 1 /\ Cont * 1 + y = x /\ 1 \in Nat
    BY <1>1
  <1> HIDE DEF y
  <1>3. (Cont * 1 + y) % Cont = y
    BY <1>1, <1>2, DivUnique
  <1>4. Low(x) = y
    BY <1>2, <1>3 DEF Low
  <1> QED BY <1>1, <1>2, <1>4

LEMMA TwoGroups ==
    ASSUME NEW x \in Byte, ~(x < Cont), NEW y \in Byte, y # 0, y < Cont
    PROVE  /\ Low(x) + Cont * y \in 0 .. MaxU16
           /\ EncodeShortvec(Low(x) + Cont * y) = <<x, y>>
  <1> DEFINE l == Low(x)
             v == l + Cont * y
  <1>0. /\ Cont \in Nat /\ Cont >= 4 /\ y \in 1 .. Cont - 1 /\ l \in 0 .. Cont - 1 /\ l + Cont = x
        /\ MaxU16 = 4 * (Cont * Cont) - 1 /\ Cont * Cont \in Nat
    <2>1. MaxU16 = 4 * (Cont * Cont) - 1
      BY Sizes DEF MaxU16, ByteMod
    <2>2. Cont * Cont \in Nat
      BY Sizes
    <2> QED BY <2>1, <2>2, LowOfByte, Sizes DEF Byte
  <1> HIDE DEF l
  <1>1. v = Cont * y + l /\ Cont * y \in Nat /\ v \in Nat
    BY <1>0
  <1>2. (Cont * y + l) \div Cont = y /\ (Cont * y + l) % Cont = l
    BY <1>0, DivUnique
  <1>3. v >= Cont
    <2>1. Cont * y >= Cont
      BY <1>0
    <2> QED BY <1>0, <1>1, <2>1
  <1>4. v < Cont * Cont
    <2>1. Cont * y <= Cont * (Cont - 1)
      BY <1>0
    <2>2. Cont * (Cont - 1) = Cont * Cont - Cont
      BY <1>0
    <2> QED BY <1>0, <1>1, <2>1, <2>2
  <1> HIDE DEF v
  <1>5. v \div Cont = y /\ Low(v) = l
    BY <1>1, <1>2 DEF Low
  <1>6. ~(v < Cont)
    BY <1>0, <1>1, <1>3
  <1>7. EncodeShortvec(v) = <<l + Cont, y>>
    BY <1>4, <1>5, <1>6 DEF EncodeShortvec
  <1>8. v \in 0 .. MaxU16
    BY <1>0, <1>1, <1>4
  <1> QED BY <1>0, <1>7, <1>8 DEF v, l

LEMMA ThreeGroups ==
    ASSUME NEW x \in Byte, ~(x < Cont), NEW y \in Byte, ~(y < Cont), NEW z \in 1 .. 3
    PROVE  /\ Low(x) + Cont * Low(y) + Cont * Cont * z \in 0 .. MaxU16
           /\ EncodeShortvec(Low(x) + Cont * Low(y) + Cont * Cont * z) = <<x, y, z>>
  <1> DEFINE l == Low(x)
             h == Low(y)
             C == Cont * Cont
             v == l + Cont * h + Cont * Cont * z
  <1>0. /\ Cont \in Nat /\ Cont >= 4 /\ l \in 0 .. Cont - 1 /\ l + Cont = x
        /\ h \in 0 .. Cont - 1 /\ h + Cont = y /\ z \in Nat /\ z >= 1 /\ z <= 3
        /\ MaxU16 = 4 * C - 1 /\ C \in Nat
    <2>1. MaxU16 = 4 * (Cont * Cont) - 1
      BY Sizes DEF MaxU16, ByteMod
    <2>2. Cont * Cont \in Nat
      BY Sizes
    <2> QED BY <2>1, <2>2, LowOfByte, Sizes
  <1> HIDE DEF l, h
  <1> DEFINE w == Cont * z + h
             u == Cont * h + l
  <1>1. w \in Nat /\ (Cont * z + h) \div Cont = z /\ (Cont * z + h) % Cont = h
    BY <1>0, DivUnique
  <1>2. v = Cont * w + l
    <2>1. Cont * (Cont * z + h) = Cont * Cont * z + Cont * h
      BY <1>0
    <2>2. Cont * h \in Nat /\ Cont * Cont * z \in Nat
      BY <1>0
    <2> QED BY <1>0, <2>1, <2>2
  <1>3. u \in 0 .. C - 1
    <2>1. Cont * h <= Cont * (Cont - 1) /\ Cont * h \in Nat
      BY <1>0
    <2>2. Cont * (Cont - 1) = Cont * Cont - Cont
      BY <1>0
    <2> QED BY <1>0, <2>1, <2>2
  <1>4. v = C * z + u
    <2>1. Cont * h \in Nat /\ Cont * Cont * z \in Nat
      BY <1>0
    <2> QED BY <1>0, <2>1
  <1>5. C = Cont * Cont
    OBVIOUS
  <1> HIDE DEF v, w, u, C
  <1>6. (Cont * w + l) \div Cont = w /\ (Cont * w + l) % Cont = l
    BY <1>0, <1>1, DivUnique
  <1>7. (C * z + u) \div C = z
    BY <1>0, <1>3, DivUnique
  <1>8. Low(v) = l /\ v \div Cont = w /\ Low(v \div Cont) = h /\ v \div (Cont * Cont) = z
    BY <1>1, <1>2, <1>4, <1>5, <1>6, <1>7 DEF Low, w
  <1>9. v \in Nat /\ v >= C /\ v < 4 * C
    <2>1. z = 1 \/ z = 2 \/ z = 3
      BY <1>0
    <2> QED BY <1>0, <1>3, <1>4, <2>1
  <1>10. C >= Cont
    BY <1>0, <1>5
  <1>11. ~(v < Cont) /\ ~(v < Cont * Cont)
    BY <1>0, <1>5, <1>9, <1>10
  <1>12. EncodeShortvec(v) = <<l + Cont, h + Cont, z>>
    BY <1>8, <1>11 DEF EncodeShortvec
  <1>13. v \in 0 .. MaxU16
    BY <1>0, <1>9
  <1> QED BY <1>0, <1>12, <1>13 DEF v, l, h

LEMMA FirstBytes ==
    ASSUME NEW s \in Seq(Byte), NEW c \in 1 .. 3, c <= Len(s)
    PROVE  /\ c = 1 => SubSeq(s, 1, c) = <<s[1]>>
           /\ c = 2 => SubSeq(s, 1, c) = <<s[1], s[2]>>
           /\ c = 3 => SubSeq(s, 1, c) = <<s[1], s[2], s[3]>>
           /\ \A i \in 1 .. c : s[i] \in Byte
  <1>1. 1 \in Int /\ c \in Int /\ \A i \in 1 .. c : s[i] \in Byte
    OBVIOUS
  <1>2. /\ SubSeq(s, 1, c) \in Seq(Byte) /\ Len(SubSeq(s, 1, c)) = c
        /\ \A i \in 1 .. c : SubSeq(s, 1, c)[i] = s[i]
    BY <1>1, SubSeqProperties
  <1> DEFINE t == SubSeq(s, 1, c)
  <1> HIDE DEF t
  <1>3. t \in Seq(Byte) /\ Len(t) = c /\ \A i \in 1 .. c : t[i] = s[i]
    BY <1>2 DEF t
  <1>4. c = 1 => t = <<s[1]>>
    BY <1>1, <1>3
  <1>5. c = 2 => t = <<s[1], s[2]>>
    BY <1>1, <1>3
  <1>6. c = 3 => t = <<s[1], s[2], s[3]>>
    BY <1>1, <1>3
  <1> QED BY <1>1, <1>4, <1>5, <1>6 DEF t

LEMMA ReadShortvecRead ==
    ASSUME NEW p, OK(p), NEW q, q = ReadShortvec(p), q.err = "nil"
    PROVE  /\ p.err = "nil" /\ Read(p, q, EncodeShortvec(q.val)) /\ q.val \in 0 .. MaxU16
  <1> DEFINE b == p.rest
  <1>1. p.err = "nil"
    BY DEF ReadShortvec
  <1>2. Ready(p) /\ b \in Seq(Byte) /\ Len(b) \in Nat
    BY <1>1 DEF OK, Ready
  <1>3. \A x : x # "nil" => Fail(p, x).err # "nil"
    <2>1. PICK a, w : p = [err |-> "nil", rest |-> a, val |-> w]
      BY <1>2 DEF Ready
    <2> QED BY <2>1 DEF Fail
  <1>4. Cont \in Nat /\ Byte = 0 .. 2 * Cont - 1 /\ Cont >= 4
    BY Sizes DEF Byte
  <1>5. "short" # "nil" /\ "invalid" # "nil"
    OBVIOUS
  <1>6. Len(b) # 0
    BY <1>1, <1>3, <1>5 DEF ReadShortvec
  <1>7. CASE b[1] < Cont
    <2>1. q = Take(p, 1, b[1])
      BY <1>1, <1>6, <1>7 DEF ReadShortvec
    <2>2. 1 \in 1 .. 3 /\ 1 <= Len(b) /\ 1 \in Nat /\ 1 \in 1 .. 1
      BY <1>2, <1>6
    <2>3. SubSeq(b, 1, 1) = <<b[1]>> /\ b[1] \in Byte
      BY <1>2, <2>2, FirstBytes
    <2>4. Read(p, q, <<b[1]>>) /\ q.val = b[1]
      <3>1. /\ Read(p, Take(p, 1, b[1]), SubSeq(p.rest, 1, 1))
          /\ Take(p, 1, b[1]).val = b[1]
        BY <1>2, <2>2, TakeRead
      <3> QED BY <3>1, <2>1, <2>3
    <2>5. EncodeShortvec(b[1]) = <<b[1]>>
      BY <1>7 DEF EncodeShortvec
    <2>6. b[1] \in 0 .. MaxU16
      <3>1. MaxU16 >= MaxU8 /\ MaxU16 \in Nat
        <4>1. MaxU16 = 4 * (Cont * Cont) - 1 /\ MaxU8 = 2 * Cont - 1
          BY Sizes DEF MaxU16, ByteMod
        <4>2. Cont * Cont >= Cont /\ Cont * Cont \in Nat
          BY <1>4
        <4> QED BY <1>4, <4>1, <4>2
      <3> QED BY <2>3, <3>1, Sizes DEF Byte
    <2> QED BY <1>1, <2>4, <2>5, <2>6
  <1>8. CASE ~(b[1] < Cont)
    <2>1. ~(Len(b) < 2)
      BY <1>1, <1>3, <1>5, <1>6, <1>8 DEF ReadShortvec
    <2>2. b[2] # 0
      BY <1>1, <1>3, <1>5, <1>6, <1>8, <2>1 DEF ReadShortvec
    <2>3. CASE b[2] < Cont
      <3>1. q = Take(p, 2, Low(b[1]) + Cont * b[2])
        BY <1>1, <1>6, <1>8, <2>1, <2>2, <2>3 DEF ReadShortvec
      <3>2. 2 \in 1 .. 3 /\ 2 <= Len(b) /\ 2 \in Nat /\ 1 \in 1 .. 2 /\ 2 \in 1 .. 2
        BY <1>2, <2>1
      <3>3. SubSeq(b, 1, 2) = <<b[1], b[2]>> /\ b[1] \in Byte /\ b[2] \in Byte
        BY <1>2, <3>2, FirstBytes
      <3>4. Read(p, q, <<b[1], b[2]>>) /\ q.val = Low(b[1]) + Cont * b[2]
        <4>1. /\ Read(p, Take(p, 2, Low(b[1]) + Cont * b[2]), SubSeq(p.rest, 1, 2))
            /\ Take(p, 2, Low(b[1]) + Cont * b[2]).val = Low(b[1]) + Cont * b[2]
          BY <1>2, <3>2, TakeRead
        <4> QED BY <4>1, <3>1, <3>3
      <3>5. /\ Low(b[1]) + Cont * b[2] \in 0 .. MaxU16
            /\ EncodeShortvec(Low(b[1]) + Cont * b[2]) = <<b[1], b[2]>>
        BY <1>8, <2>2, <2>3, <3>3, TwoGroups
      <3> QED BY <1>1, <3>4, <3>5
    <2>4. CASE ~(b[2] < Cont)
      <3> DEFINE v == Low(b[1]) + Cont * Low(b[2]) + Cont * Cont * b[3]
      <3>1. ~(Len(b) < 3)
        BY <1>1, <1>3, <1>5, <1>6, <1>8, <2>1, <2>2, <2>4 DEF ReadShortvec
      <3>2. b[3] # 0 /\ ~(b[3] > 3)
        BY <1>1, <1>3, <1>5, <1>6, <1>8, <2>1, <2>2, <2>4, <3>1 DEF ReadShortvec
      <3>3. q = Take(p, 3, v)
        BY <1>1, <1>6, <1>8, <2>1, <2>2, <2>4, <3>1, <3>2 DEF ReadShortvec
      <3>4. 3 \in 1 .. 3 /\ 3 <= Len(b) /\ 3 \in Nat /\ 1 \in 1 .. 3 /\ 2 \in 1 .. 3
        BY <1>2, <3>1
      <3>5. SubSeq(b, 1, 3) = <<b[1], b[2], b[3]>> /\ b[1] \in Byte /\ b[2] \in Byte /\ b[3] \in Byte
        BY <1>2, <3>4, FirstBytes
      <3>6. b[3] \in 1 .. 3
        BY <1>4, <3>2, <3>5
      <3>7. v \in 0 .. MaxU16 /\ EncodeShortvec(v) = <<b[1], b[2], b[3]>>
        BY <1>8, <2>4, <3>5, <3>6, ThreeGroups
      <3> HIDE DEF v
      <3>8. Read(p, q, <<b[1], b[2], b[3]>>) /\ q.val = v
        <4>1. /\ Read(p, Take(p, 3, v), SubSeq(p.rest, 1, 3))
            /\ Take(p, 3, v).val = v
          BY <1>2, <3>4, TakeRead
        <4> QED BY <4>1, <3>3, <3>5
      <3> QED BY <1>1, <3>7, <3>8
    <2> QED BY <2>3, <2>4
  <1> QED BY <1>7, <1>8


\* The first i items read from p: their values, and es their bytes.  An element
\* <<i, v, e>> of R says that e is the encoding of v as the i-th item.
ItemsUpTo(p, q, i, V, R, es) ==
    /\ es \in Seq(Seq(Byte)) /\ Len(es) = i /\ q.val \in Seq(V) /\ Len(q.val) = i
    /\ \A j \in 1 .. i : <<j, q.val[j], es[j]>> \in R
    /\ Read(p, q, FlattenSeq(es))
ItemStep(p, q, i, R) ==
    OK(p) => \E x : /\ q = Push(p, x)
                    /\ x.err = "nil" => \E e : Read(p, x, e) /\ <<i, x.val, e>> \in R

LEMMA ItemsRead ==
    ASSUME NEW p, Ready(p), NEW c \in Nat, NEW V, NEW R, R \subseteq Nat \X V \X Seq(Byte), NEW r,
           r[0] = Value(p, <<>>), \A i \in 1 .. c : ItemStep(r[i - 1], r[i], i, R),
           r[c].err = "nil"
    PROVE  \E es : ItemsUpTo(p, r[c], c, V, R, es)
  <1> DEFINE P(i) == r[i].err = "nil" => \E es : ItemsUpTo(p, r[i], i, V, R, es)
             S == {i \in Nat : i <= c => P(i)}
  <1>1. 0 \in S
    <2>1. OK(p) /\ p.err = "nil"
      BY DEF OK, Ready
    <2>2. Read(p, r[0], <<>>) /\ r[0].val = <<>>
      BY <2>1, ReadyValue
    <2>3. <<>> \in Seq(Seq(Byte)) /\ <<>> \in Seq(V) /\ Len(<<>>) = 0
      OBVIOUS
    <2>4. Read(p, r[0], FlattenSeq(<<>>)) /\ r[0].val \in Seq(V) /\ Len(r[0].val) = 0
      BY <2>2, <2>3, FlattenEmpty
    <2>5. \A j \in 1 .. 0 : <<j, r[0].val[j], <<>>[j]>> \in R
      OBVIOUS
    <2>6. ItemsUpTo(p, r[0], 0, V, R, <<>>)
      BY <2>3, <2>4, <2>5 DEF ItemsUpTo
    <2> QED BY <2>6
  <1>2. ASSUME NEW i \in Nat, i \in S PROVE i + 1 \in S
    <2> SUFFICES ASSUME i + 1 <= c, r[i + 1].err = "nil"
                 PROVE  \E es : ItemsUpTo(p, r[i + 1], i + 1, V, R, es)
      OBVIOUS
    <2>1. i + 1 \in 1 .. c /\ i + 1 - 1 = i /\ i <= c
      OBVIOUS
    <2>2. ItemStep(r[i], r[i + 1], i + 1, R)
      BY <2>1
    <2>3. OK(r[i])
      <3>1. r[i].err = "nil" => \E es : ItemsUpTo(p, r[i], i, V, R, es)
        BY <1>2, <2>1
      <3> QED BY <3>1, ReadOK DEF OK, ItemsUpTo
    <2>4. PICK x : /\ r[i + 1] = Push(r[i], x)
                   /\ x.err = "nil" => \E e : Read(r[i], x, e) /\ <<i + 1, x.val, e>> \in R
      BY <2>2, <2>3 DEF ItemStep
    <2>5. x.err = "nil"
      <3> SUFFICES ASSUME x.err # "nil" PROVE FALSE
        OBVIOUS
      <3>1. r[i + 1] = x
        BY <2>4 DEF Push, Value
      <3> QED BY <3>1
    <2>6. PICK e : Read(r[i], x, e) /\ <<i + 1, x.val, e>> \in R
      BY <2>4, <2>5
    <2>7. r[i].err = "nil" /\ e \in Seq(Byte)
      BY <2>6, ReadOK
    <2>8. PICK es : ItemsUpTo(p, r[i], i, V, R, es)
      BY <1>2, <2>1, <2>7
    <2> DEFINE vals == r[i].val
               w == Append(vals, x.val)
               fs == Append(es, e)
    <2>9. /\ es \in Seq(Seq(Byte)) /\ Len(es) = i /\ vals \in Seq(V) /\ Len(vals) = i
          /\ \A j \in 1 .. i : <<j, vals[j], es[j]>> \in R
          /\ Read(p, r[i], FlattenSeq(es))
      BY <2>8 DEF ItemsUpTo
    <2>10. r[i + 1] = Value(x, w)
      BY <2>4 DEF Push
    <2> HIDE DEF vals
    <2>11. x.val \in V
      BY <2>6
    <2>12. w \in Seq(V) /\ Len(w) = i + 1 /\ w[i + 1] = x.val /\ \A j \in 1 .. i : w[j] = vals[j]
      BY <2>9, <2>11
    <2>13. fs \in Seq(Seq(Byte)) /\ Len(fs) = i + 1 /\ fs[i + 1] = e /\ \A j \in 1 .. i : fs[j] = es[j]
      BY <2>7, <2>9
    <2>14. FlattenSeq(fs) = FlattenSeq(es) \o e
      BY <2>7, <2>9, FlattenAppend
    <2> HIDE DEF w, fs
    <2>15. Read(r[i], r[i + 1], e) /\ r[i + 1].val = w
      BY <2>6, <2>10, ReadValue
    <2>16. Read(p, r[i + 1], FlattenSeq(fs))
      BY <2>9, <2>14, <2>15, ReadThenRead
    <2>17. ASSUME NEW j \in 1 .. i + 1 PROVE <<j, w[j], fs[j]>> \in R
      <3>1. j \in 1 .. i \/ j = i + 1
        OBVIOUS
      <3>2. CASE j \in 1 .. i
        BY <2>9, <2>12, <2>13, <3>2
      <3>3. CASE j = i + 1
        BY <2>6, <2>12, <2>13, <3>3
      <3> QED BY <3>1, <3>2, <3>3
    <2>18. ItemsUpTo(p, r[i + 1], i + 1, V, R, fs)
      BY <2>12, <2>13, <2>15, <2>16, <2>17 DEF ItemsUpTo
    <2> QED BY <2>18
  <1>3. Nat \subseteq S
    <2> HIDE DEF S
    <2> QED BY <1>1, <1>2, Induct
  <1>4. c \in S /\ c <= c
    BY <1>3
  <1> QED BY <1>4

\* Items of a fixed number of bytes, which are their own encoding.
Plain(c, V) == {t \in Nat \X V \X Seq(Byte) : t[1] \in 1 .. c /\ t[3] = t[2]}

LEMMA PlainItems ==
    ASSUME NEW p, NEW q, NEW c \in Nat, NEW V, V \subseteq Seq(Byte), NEW es,
           ItemsUpTo(p, q, c, V, Plain(c, V), es)
    PROVE  Read(p, q, FlattenSeq(q.val)) /\ q.val \in Seq(V) /\ Len(q.val) = c
  <1>1. /\ es \in Seq(Seq(Byte)) /\ Len(es) = c /\ q.val \in Seq(V) /\ Len(q.val) = c
        /\ \A j \in 1 .. c : <<j, q.val[j], es[j]>> \in Plain(c, V)
        /\ Read(p, q, FlattenSeq(es))
    BY DEF ItemsUpTo
  <1> DEFINE vals == q.val
  <1>2. \A j \in 1 .. c : es[j] = vals[j]
    BY <1>1 DEF Plain
  <1> HIDE DEF vals
  <1>3. vals \in Seq(V) /\ Len(vals) = c
    BY <1>1 DEF vals
  <1>4. vals \in Seq(Seq(Byte))
    BY <1>3
  <1>5. es = vals
    BY <1>1, <1>2, <1>3, <1>4
  <1> QED BY <1>1, <1>5 DEF vals

LEMMA KeyItemsRead ==
    ASSUME NEW p, OK(p), NEW c \in Nat, NEW q, q = KeyItems(p, c), q.err = "nil"
    PROVE  /\ p.err = "nil" /\ Read(p, q, FlattenSeq(q.val))
           /\ q.val \in Seq(OfSize(KeySize)) /\ Len(q.val) = c
  <1> DEFINE V == OfSize(KeySize)
             R == Plain(c, V)
  <1>1. p.err = "nil"
    BY DEF KeyItems, ReadItems
  <1>2. Ready(p)
    BY <1>1 DEF OK
  <1>3. PICK r : /\ r[0] = Value(p, <<>>) /\ KeyItems(p, c) = r[c]
                 /\ \A i \in 1 .. c : r[i] = Push(r[i - 1], ReadKey(r[i - 1], i))
    BY <1>1, KeyUnfold
  <1>4. KeySize \in Nat /\ V \subseteq Seq(Byte)
    BY FixedBytes, Sizes
  <1>5. ASSUME NEW i \in 1 .. c PROVE ItemStep(r[i - 1], r[i], i, R)
    <2> DEFINE y == r[i - 1]
               x == ReadKey(y, i)
    <2>1. r[i] = Push(y, x)
      BY <1>3
    <2> HIDE DEF y
    <2>2. ASSUME OK(y), x.err = "nil" PROVE Read(y, x, x.val) /\ <<i, x.val, x.val>> \in R
      <3>1. Read(y, x, x.val) /\ x.val \in V
        BY <1>4, <2>2, ReadBytesRead DEF ReadKey
      <3> HIDE DEF x, V
      <3>2. x.val \in Seq(Byte) /\ i \in Nat
        BY <1>4, <3>1
      <3> QED BY <3>1, <3>2 DEF Plain
    <2> HIDE DEF x, R
    <2> QED BY <2>1, <2>2 DEF ItemStep, y
  <1>6. R \subseteq Nat \X V \X Seq(Byte)
    BY DEF Plain
  <1> HIDE DEF R, V
  <1>7. PICK es : ItemsUpTo(p, r[c], c, V, R, es)
    BY <1>2, <1>3, <1>5, <1>6, ItemsRead
  <1> QED BY <1>1, <1>3, <1>4, <1>7, PlainItems DEF R, V

LEMMA SigItemsRead ==
    ASSUME NEW p, OK(p), NEW c \in Nat, NEW q, q = SigItems(p, c), q.err = "nil"
    PROVE  /\ p.err = "nil" /\ Read(p, q, FlattenSeq(q.val))
           /\ q.val \in Seq(OfSize(SigSize)) /\ Len(q.val) = c
  <1> DEFINE V == OfSize(SigSize)
             R == Plain(c, V)
  <1>1. p.err = "nil"
    BY DEF SigItems, ReadItems
  <1>2. Ready(p)
    BY <1>1 DEF OK
  <1>3. PICK r : /\ r[0] = Value(p, <<>>) /\ SigItems(p, c) = r[c]
                 /\ \A i \in 1 .. c : r[i] = Push(r[i - 1], ReadSig(r[i - 1], i))
    BY <1>1, SigUnfold
  <1>4. SigSize \in Nat /\ V \subseteq Seq(Byte)
    BY FixedBytes, Sizes
  <1>5. ASSUME NEW i \in 1 .. c PROVE ItemStep(r[i - 1], r[i], i, R)
    <2> DEFINE y == r[i - 1]
               x == ReadSig(y, i)
    <2>1. r[i] = Push(y, x)
      BY <1>3
    <2> HIDE DEF y
    <2>2. ASSUME OK(y), x.err = "nil" PROVE Read(y, x, x.val) /\ <<i, x.val, x.val>> \in R
      <3>1. Read(y, x, x.val) /\ x.val \in V
        BY <1>4, <2>2, ReadBytesRead DEF ReadSig
      <3> HIDE DEF x, V
      <3>2. x.val \in Seq(Byte) /\ i \in Nat
        BY <1>4, <3>1
      <3> QED BY <3>1, <3>2 DEF Plain
    <2> HIDE DEF x, R
    <2> QED BY <2>1, <2>2 DEF ItemStep, y
  <1>6. R \subseteq Nat \X V \X Seq(Byte)
    BY DEF Plain
  <1> HIDE DEF R, V
  <1>7. PICK es : ItemsUpTo(p, r[c], c, V, R, es)
    BY <1>2, <1>3, <1>5, <1>6, ItemsRead
  <1> QED BY <1>1, <1>3, <1>4, <1>7, PlainItems DEF R, V


Bytes(c) == {t \in Nat \X Byte \X Seq(Byte) : t[1] \in 1 .. c /\ t[3] = <<t[2]>>}

LEMMA U8Read ==
    ASSUME NEW p, OK(p), NEW q, q = ReadUint(p, 1), q.err = "nil"
    PROVE  p.err = "nil" /\ Read(p, q, <<q.val>>) /\ q.val \in Byte
  <1>1. 1 \in Nat
    OBVIOUS
  <1>2. /\ p.err = "nil" /\ Read(p, q, WriteUint(q.val, 1)) /\ q.val \in Nat /\ Shifted(q.val, 1) = 0
    BY <1>1, ReadUintRead
  <1>3. q.val \in Byte
    <2>1. Shifted(q.val, 0 + 1) = Shifted(q.val, 0) \div ByteMod /\ Shifted(q.val, 0) = q.val
      BY ShiftedNext, ShiftedZero, 0 \in Nat
    <2>2. q.val \div ByteMod = 0
      BY <1>2, <2>1
    <2>3. (q.val % ByteMod) + ByteMod * (q.val \div ByteMod) = q.val /\ q.val % ByteMod \in Byte
      BY <1>2, ByteDivMod
    <2>4. ByteMod * 0 = 0 /\ q.val % ByteMod \in Nat
      BY <2>3, Sizes DEF Byte
    <2> QED BY <2>2, <2>3, <2>4
  <1>4. WriteUint(q.val, 1) = <<q.val>>
    BY <1>3, FitsByte
  <1> QED BY <1>2, <1>3, <1>4

LEMMA U8ItemsRead ==
    ASSUME NEW p, OK(p), NEW c \in Nat, NEW q, q = U8Items(p, c), q.err = "nil"
    PROVE  p.err = "nil" /\ Read(p, q, q.val) /\ q.val \in Seq(Byte) /\ Len(q.val) = c
  <1> DEFINE R == Bytes(c)
  <1>1. p.err = "nil"
    BY DEF U8Items, ReadItems
  <1>2. Ready(p)
    BY <1>1 DEF OK
  <1>3. PICK r : /\ r[0] = Value(p, <<>>) /\ U8Items(p, c) = r[c]
                 /\ \A i \in 1 .. c : r[i] = Push(r[i - 1], ReadU8(r[i - 1], i))
    BY <1>1, U8Unfold
  <1>4. ASSUME NEW i \in 1 .. c PROVE ItemStep(r[i - 1], r[i], i, R)
    <2> DEFINE y == r[i - 1]
               x == ReadU8(y, i)
    <2>1. r[i] = Push(y, x)
      BY <1>3
    <2> HIDE DEF y
    <2>2. ASSUME OK(y), x.err = "nil" PROVE Read(y, x, <<x.val>>) /\ <<i, x.val, <<x.val>>>> \in R
      <3>1. Read(y, x, <<x.val>>) /\ x.val \in Byte
        BY <2>2, U8Read DEF ReadU8
      <3> HIDE DEF x
      <3>2. <<x.val>> \in Seq(Byte) /\ i \in Nat
        BY <3>1
      <3> QED BY <3>1, <3>2 DEF Bytes
    <2> HIDE DEF x, R
    <2> QED BY <2>1, <2>2 DEF ItemStep, y
  <1>5. R \subseteq Nat \X Byte \X Seq(Byte)
    BY DEF Bytes
  <1> HIDE DEF R
  <1>6. PICK es : ItemsUpTo(p, r[c], c, Byte, R, es)
    BY <1>2, <1>3, <1>4, <1>5, ItemsRead
  <1> DEFINE vals == q.val
  <1>7. /\ es \in Seq(Seq(Byte)) /\ Len(es) = c /\ vals \in Seq(Byte) /\ Len(vals) = c
        /\ \A j \in 1 .. c : <<j, vals[j], es[j]>> \in R
        /\ Read(p, q, FlattenSeq(es))
    BY <1>3, <1>6 DEF ItemsUpTo
  <1> HIDE DEF vals
  <1> DEFINE bs == [i \in 1 .. Len(vals) |-> <<vals[i]>>]
  <1>8. bs \in Seq(Seq(Byte)) /\ Len(bs) = c /\ FlattenSeq(bs) = vals
    BY <1>7, FlattenBytes
  <1>9. \A j \in 1 .. c : es[j] = <<vals[j]>> /\ bs[j] = <<vals[j]>>
    BY <1>7 DEF R, Bytes
  <1> HIDE DEF bs
  <1>10. es = bs
    <2>1. Len(es) = Len(bs) /\ \A j \in 1 .. Len(es) : es[j] = bs[j]
      BY <1>7, <1>8, <1>9
    <2> QED BY <1>7, <1>8, <2>1, SameSequence
  <1> QED BY <1>1, <1>7, <1>8, <1>10 DEF vals

\* A field of a struct is read.
With(v, f, x) == [v EXCEPT ![f] = x]

LEMMA FieldRead ==
    ASSUME NEW p, NEW q, NEW f, NEW e, NEW r, r = Field(p, f, q), Read(p, q, e)
    PROVE  Read(p, r, e) /\ r.val = With(p.val, f, q.val) /\ r.err = "nil"
  <1> DEFINE v == With(p.val, f, q.val)
  <1>1. r = Value(q, v)
    BY DEF Field, With
  <1> HIDE DEF v
  <1>2. Read(p, r, e) /\ r.val = v
    BY <1>1, ReadValue
  <1> QED BY <1>2, ReadOK DEF v

LEMMA FieldErr ==
    ASSUME NEW p, NEW f, NEW q, Field(p, f, q).err = "nil"
    PROVE  q.err = "nil"
  <1> SUFFICES ASSUME q.err # "nil" PROVE FALSE
    OBVIOUS
  <1>1. Field(p, f, q) = q
    BY DEF Field, Value
  <1> QED BY <1>1

LEMMA ReadPrefixedRead ==
    ASSUME NEW p, OK(p), NEW q, q = ReadPrefixed(p), q.err = "nil"
    PROVE  p.err = "nil" /\ Read(p, q, Prefixed(q.val)) /\ q.val \in Seq(Byte) /\ Len(q.val) <= MaxU16
  <1> DEFINE s == ReadShortvec(p)
             c == s.val
  <1>1. q = ReadBytes(s, c)
    BY DEF ReadPrefixed
  <1>2. s.err = "nil"
    BY <1>1 DEF ReadBytes
  <1>3. p.err = "nil" /\ Read(p, s, EncodeShortvec(c)) /\ c \in 0 .. MaxU16
    BY <1>2, ReadShortvecRead
  <1> HIDE DEF s
  <1>4. c \in Nat /\ OK(s)
    BY <1>3, ReadOK
  <1> HIDE DEF c
  <1>5. Read(s, q, q.val) /\ q.val \in OfSize(c)
    BY <1>1, <1>4, ReadBytesRead
  <1>6. q.val \in Seq(Byte) /\ Len(q.val) = c
    BY <1>4, <1>5, FixedBytes
  <1>7. Read(p, q, EncodeShortvec(c) \o q.val)
    BY <1>3, <1>5, ReadThenRead
  <1> QED BY <1>3, <1>6, <1>7 DEF Prefixed


\* Field by field: p with no error is passed on, and so is the first error.
LEMMA PrefixedFieldRead ==
    ASSUME NEW p, OK(p), NEW f, NEW q, q = PrefixedField(p, f)
    PROVE  /\ OK(q)
           /\ q.err = "nil" => /\ p.err = "nil"
                               /\ \E v \in Seq(Byte) : /\ Len(v) <= MaxU16 /\ Read(p, q, Prefixed(v))
                                                       /\ q.val = With(p.val, f, v)
  <1>1. ASSUME q.err = "nil"
        PROVE  /\ p.err = "nil" /\ OK(q)
               /\ \E v \in Seq(Byte) : /\ Len(v) <= MaxU16 /\ Read(p, q, Prefixed(v))
                                       /\ q.val = With(p.val, f, v)
    <2> DEFINE x == ReadPrefixed(p)
    <2>1. q = Field(p, f, x)
      BY DEF PrefixedField
    <2>2. x.err = "nil"
      BY <1>1, <2>1, FieldErr
    <2>3. p.err = "nil" /\ Read(p, x, Prefixed(x.val)) /\ x.val \in Seq(Byte) /\ Len(x.val) <= MaxU16
      BY <2>2, ReadPrefixedRead
    <2> HIDE DEF x
    <2>4. Read(p, q, Prefixed(x.val)) /\ q.val = With(p.val, f, x.val)
      BY <2>1, <2>3, FieldRead
    <2> QED BY <2>3, <2>4, ReadOK
  <1> QED BY <1>1 DEF OK

LEMMA UintFieldRead ==
    ASSUME NEW p, OK(p), NEW f, NEW c \in Nat, NEW q, q = UintField(p, f, c)
    PROVE  /\ OK(q)
           /\ q.err = "nil" => /\ p.err = "nil"
                               /\ \E v \in Nat : /\ Shifted(v, c) = 0 /\ Read(p, q, WriteUint(v, c))
                                                 /\ q.val = With(p.val, f, v)
  <1>1. ASSUME q.err = "nil"
        PROVE  /\ p.err = "nil" /\ OK(q)
               /\ \E v \in Nat : /\ Shifted(v, c) = 0 /\ Read(p, q, WriteUint(v, c))
                                 /\ q.val = With(p.val, f, v)
    <2> DEFINE x == ReadUint(p, c)
    <2>1. q = Field(p, f, x)
      BY DEF UintField
    <2>2. x.err = "nil"
      BY <1>1, <2>1, FieldErr
    <2>3. p.err = "nil" /\ Read(p, x, WriteUint(x.val, c)) /\ x.val \in Nat /\ Shifted(x.val, c) = 0
      BY <2>2, ReadUintRead
    <2> HIDE DEF x
    <2>4. Read(p, q, WriteUint(x.val, c)) /\ q.val = With(p.val, f, x.val)
      BY <2>1, <2>3, FieldRead
    <2> QED BY <2>3, <2>4, ReadOK
  <1> QED BY <1>1 DEF OK

LEMMA U8FieldRead ==
    ASSUME NEW p, OK(p), NEW f, NEW q, q = UintField(p, f, 1)
    PROVE  /\ OK(q)
           /\ q.err = "nil" => /\ p.err = "nil"
                               /\ \E v \in Byte : /\ Read(p, q, <<v>>)
                                                  /\ q.val = With(p.val, f, v)
  <1>1. ASSUME q.err = "nil"
        PROVE  /\ p.err = "nil" /\ OK(q)
               /\ \E v \in Byte : Read(p, q, <<v>>) /\ q.val = With(p.val, f, v)
    <2> DEFINE x == ReadUint(p, 1)
    <2>1. q = Field(p, f, x)
      BY DEF UintField
    <2>2. x.err = "nil"
      BY <1>1, <2>1, FieldErr
    <2>3. p.err = "nil" /\ Read(p, x, <<x.val>>) /\ x.val \in Byte
      BY <2>2, U8Read
    <2> HIDE DEF x
    <2>4. Read(p, q, <<x.val>>) /\ q.val = With(p.val, f, x.val)
      BY <2>1, <2>3, FieldRead
    <2> QED BY <2>3, <2>4, ReadOK
  <1> QED BY <1>1 DEF OK

LEMMA BytesFieldRead ==
    ASSUME NEW p, OK(p), NEW f, NEW c \in Nat, NEW q, q = BytesField(p, f, c)
    PROVE  /\ OK(q)
           /\ q.err = "nil" => /\ p.err = "nil"
                               /\ \E v \in OfSize(c) : /\ Read(p, q, v)
                                                       /\ q.val = With(p.val, f, v)
  <1>1. ASSUME q.err = "nil"
        PROVE  /\ p.err = "nil" /\ OK(q)
               /\ \E v \in OfSize(c) : Read(p, q, v) /\ q.val = With(p.val, f, v)
    <2> DEFINE x == ReadBytes(p, c)
    <2>1. q = Field(p, f, x)
      BY DEF BytesField
    <2>2. x.err = "nil"
      BY <1>1, <2>1, FieldErr
    <2>3. p.err = "nil" /\ Read(p, x, x.val) /\ x.val \in OfSize(c)
      BY <2>2, ReadBytesRead
    <2> HIDE DEF x
    <2>4. Read(p, q, x.val) /\ q.val = With(p.val, f, x.val)
      BY <2>1, <2>3, FieldRead
    <2> QED BY <2>3, <2>4, ReadOK
  <1> QED BY <1>1 DEF OK

LEMMA DecodeInstructionRead ==
    ASSUME NEW p, OK(p), NEW i, NEW q, q = DecodeInstruction(p, i), q.err = "nil"
    PROVE  /\ p.err = "nil" /\ Read(p, q, MarshalInstruction(q.val)) /\ q.val \in Instruction
           /\ Len(q.val.accounts) <= MaxU16 /\ Len(q.val.data) <= MaxU16
  <1> DEFINE v0 == [program |-> 0, accounts |-> <<>>, data |-> <<>>]
             p0 == Value(p, v0)
             p1 == UintField(p0, "program", 1)
             p2 == PrefixedField(p1, "accounts")
  <1>1. q = PrefixedField(p2, "data")
    BY DEF DecodeInstruction
  <1>2. OK(p0) /\ p0.err = p.err /\ (p.err = "nil" => p0.val = v0 /\ Read(p, p0, <<>>))
    BY ReadyValue
  <1> HIDE DEF p0
  <1>3. /\ OK(p1)
        /\ p1.err = "nil" => /\ p0.err = "nil"
                             /\ \E v \in Byte : Read(p0, p1, <<v>>) /\ p1.val = With(p0.val, "program", v)
    BY <1>2, U8FieldRead
  <1> HIDE DEF p1
  <1>4. /\ OK(p2)
        /\ p2.err = "nil" => /\ p1.err = "nil"
                             /\ \E v \in Seq(Byte) : /\ Len(v) <= MaxU16 /\ Read(p1, p2, Prefixed(v))
                                                     /\ p2.val = With(p1.val, "accounts", v)
    BY <1>3, PrefixedFieldRead
  <1> HIDE DEF p2
  <1>5. /\ p2.err = "nil"
        /\ \E v \in Seq(Byte) : /\ Len(v) <= MaxU16 /\ Read(p2, q, Prefixed(v))
                                /\ q.val = With(p2.val, "data", v)
    BY <1>1, <1>4, PrefixedFieldRead
  <1>6. p.err = "nil" /\ p0.val = v0 /\ Read(p, p0, <<>>)
    BY <1>2, <1>3, <1>4, <1>5
  <1>7. PICK x \in Byte : Read(p0, p1, <<x>>) /\ p1.val = With(p0.val, "program", x)
    BY <1>3, <1>4, <1>5
  <1>8. PICK a \in Seq(Byte) : /\ Len(a) <= MaxU16 /\ Read(p1, p2, Prefixed(a))
                               /\ p2.val = With(p1.val, "accounts", a)
    BY <1>4, <1>5
  <1>9. PICK d \in Seq(Byte) : /\ Len(d) <= MaxU16 /\ Read(p2, q, Prefixed(d))
                               /\ q.val = With(p2.val, "data", d)
    BY <1>5
  <1>10. q.val = [program |-> x, accounts |-> a, data |-> d]
    <2>1. p1.val = [program |-> x, accounts |-> <<>>, data |-> <<>>]
      BY <1>6, <1>7 DEF With
    <2>2. p2.val = [program |-> x, accounts |-> a, data |-> <<>>]
      BY <1>8, <2>1 DEF With
    <2> QED BY <1>9, <2>2 DEF With
  <1>11. Read(p, p1, <<x>>)
    <2>1. Read(p, p1, <<>> \o <<x>>)
      BY <1>6, <1>7, ReadThenRead
    <2>2. <<>> \o <<x>> = <<x>>
      OBVIOUS
    <2> QED BY <2>1, <2>2
  <1>12. Read(p, q, (<<x>> \o Prefixed(a)) \o Prefixed(d))
    BY <1>8, <1>9, <1>11, ReadThenRead
  <1>13. q.val \in Instruction /\ q.val.accounts = a /\ q.val.data = d /\ q.val.program = x
    BY <1>10 DEF Instruction
  <1>14. MarshalInstruction(q.val) = (<<x>> \o Prefixed(a)) \o Prefixed(d)
    BY <1>13 DEF MarshalInstruction
  <1> QED BY <1>6, <1>8, <1>9, <1>12, <1>13, <1>14

LEMMA DecodeLookupRead ==
    ASSUME NEW p, OK(p), NEW i, NEW q, q = DecodeLookup(p, i), q.err = "nil"
    PROVE  /\ p.err = "nil" /\ Read(p, q, MarshalLookup(q.val)) /\ q.val \in AddressTableLookup
           /\ Len(q.val.writable) <= MaxU16 /\ Len(q.val.readonly) <= MaxU16
  <1> DEFINE v0 == [key |-> <<>>, writable |-> <<>>, readonly |-> <<>>]
             p0 == Value(p, v0)
             p1 == BytesField(p0, "key", KeySize)
             p2 == PrefixedField(p1, "writable")
  <1>1. q = PrefixedField(p2, "readonly")
    BY DEF DecodeLookup
  <1>2. OK(p0) /\ p0.err = p.err /\ (p.err = "nil" => p0.val = v0 /\ Read(p, p0, <<>>))
    BY ReadyValue
  <1> HIDE DEF p0
  <1>3. /\ OK(p1)
        /\ p1.err = "nil" => /\ p0.err = "nil"
                             /\ \E v \in OfSize(KeySize) : /\ Read(p0, p1, v)
                                                           /\ p1.val = With(p0.val, "key", v)
    BY <1>2, BytesFieldRead, Sizes
  <1> HIDE DEF p1
  <1>4. /\ OK(p2)
        /\ p2.err = "nil" => /\ p1.err = "nil"
                             /\ \E v \in Seq(Byte) : /\ Len(v) <= MaxU16 /\ Read(p1, p2, Prefixed(v))
                                                     /\ p2.val = With(p1.val, "writable", v)
    BY <1>3, PrefixedFieldRead
  <1> HIDE DEF p2
  <1>5. /\ p2.err = "nil"
        /\ \E v \in Seq(Byte) : /\ Len(v) <= MaxU16 /\ Read(p2, q, Prefixed(v))
                                /\ q.val = With(p2.val, "readonly", v)
    BY <1>1, <1>4, PrefixedFieldRead
  <1>6. p.err = "nil" /\ p0.val = v0 /\ Read(p, p0, <<>>)
    BY <1>2, <1>3, <1>4, <1>5
  <1>7. PICK x \in OfSize(KeySize) : Read(p0, p1, x) /\ p1.val = With(p0.val, "key", x)
    BY <1>3, <1>4, <1>5
  <1>8. PICK a \in Seq(Byte) : /\ Len(a) <= MaxU16 /\ Read(p1, p2, Prefixed(a))
                               /\ p2.val = With(p1.val, "writable", a)
    BY <1>4, <1>5
  <1>9. PICK d \in Seq(Byte) : /\ Len(d) <= MaxU16 /\ Read(p2, q, Prefixed(d))
                               /\ q.val = With(p2.val, "readonly", d)
    BY <1>5
  <1>10. q.val = [key |-> x, writable |-> a, readonly |-> d]
    <2>1. p1.val = [key |-> x, writable |-> <<>>, readonly |-> <<>>]
      BY <1>6, <1>7 DEF With
    <2>2. p2.val = [key |-> x, writable |-> a, readonly |-> <<>>]
      BY <1>8, <2>1 DEF With
    <2> QED BY <1>9, <2>2 DEF With
  <1>11. Read(p, p1, x)
    <2>1. Read(p, p1, <<>> \o x)
      BY <1>6, <1>7, ReadThenRead
    <2>2. x \in Seq(Byte)
      BY FixedBytes, Sizes
    <2>3. <<>> \o x = x
      BY <2>2
    <2> QED BY <2>1, <2>3
  <1>12. Read(p, q, (x \o Prefixed(a)) \o Prefixed(d))
    BY <1>8, <1>9, <1>11, ReadThenRead
  <1>13. q.val \in AddressTableLookup /\ q.val.writable = a /\ q.val.readonly = d /\ q.val.key = x
    BY <1>10 DEF AddressTableLookup
  <1>14. MarshalLookup(q.val) = (x \o Prefixed(a)) \o Prefixed(d)
    BY <1>13 DEF MarshalLookup
  <1> QED BY <1>6, <1>8, <1>9, <1>12, <1>13, <1>14


\* Vectors: a count and its items.

EncodedInstructions(c) ==
    {t \in Nat \X Instruction \X Seq(Byte) :
        /\ t[1] \in 1 .. c /\ t[3] = MarshalInstruction(t[2])
        /\ Len(t[2].accounts) <= MaxU16 /\ Len(t[2].data) <= MaxU16}

LEMMA InstructionItemsRead ==
    ASSUME NEW p, OK(p), NEW c \in Nat, NEW q, q = InstructionItems(p, c), q.err = "nil"
    PROVE  /\ p.err = "nil" /\ q.val \in Seq(Instruction) /\ Len(q.val) = c /\ InstructionsFit(q.val)
           /\ \E es : InstructionsEncoded(es, q.val) /\ Read(p, q, FlattenSeq(es))
  <1> DEFINE R == EncodedInstructions(c)
  <1>1. p.err = "nil"
    BY DEF InstructionItems, ReadItems
  <1>2. Ready(p)
    BY <1>1 DEF OK
  <1>3. PICK r : /\ r[0] = Value(p, <<>>) /\ InstructionItems(p, c) = r[c]
                 /\ \A i \in 1 .. c : r[i] = Push(r[i - 1], DecodeInstruction(r[i - 1], i))
    BY <1>1, InstructionUnfold
  <1>4. ASSUME NEW i \in 1 .. c PROVE ItemStep(r[i - 1], r[i], i, R)
    <2> DEFINE y == r[i - 1]
               x == DecodeInstruction(y, i)
               e == MarshalInstruction(x.val)
    <2>1. r[i] = Push(y, x)
      BY <1>3
    <2> HIDE DEF y
    <2>2. ASSUME OK(y), x.err = "nil" PROVE Read(y, x, e) /\ <<i, x.val, e>> \in R
      <3>1. /\ Read(y, x, e) /\ x.val \in Instruction
            /\ Len(x.val.accounts) <= MaxU16 /\ Len(x.val.data) <= MaxU16
        BY <2>2, DecodeInstructionRead
      <3>2. e = MarshalInstruction(x.val)
        OBVIOUS
      <3> HIDE DEF x, e
      <3>3. e \in Seq(Byte) /\ i \in Nat
        BY <3>1, ReadOK
      <3> QED BY <3>1, <3>2, <3>3 DEF EncodedInstructions
    <2> HIDE DEF x, e, R
    <2> QED BY <2>1, <2>2 DEF ItemStep, y
  <1>5. R \subseteq Nat \X Instruction \X Seq(Byte)
    BY DEF EncodedInstructions
  <1> HIDE DEF R
  <1>6. PICK es : ItemsUpTo(p, r[c], c, Instruction, R, es)
    BY <1>2, <1>3, <1>4, <1>5, ItemsRead
  <1> DEFINE vals == q.val
  <1>7. /\ es \in Seq(Seq(Byte)) /\ Len(es) = c /\ vals \in Seq(Instruction) /\ Len(vals) = c
        /\ \A j \in 1 .. c : <<j, vals[j], es[j]>> \in R
        /\ Read(p, q, FlattenSeq(es))
    BY <1>3, <1>6 DEF ItemsUpTo
  <1> HIDE DEF vals
  <1>8. ASSUME NEW j \in 1 .. c
        PROVE  /\ es[j] = MarshalInstruction(vals[j])
               /\ Len(vals[j].accounts) <= MaxU16 /\ Len(vals[j].data) <= MaxU16
    <2>1. <<j, vals[j], es[j]>> \in R
      BY <1>7
    <2> QED BY <2>1 DEF R, EncodedInstructions
  <1>9. InstructionsFit(vals) /\ InstructionsEncoded(es, vals)
    BY <1>7, <1>8 DEF InstructionsFit, InstructionsEncoded
  <1> QED BY <1>1, <1>7, <1>9 DEF vals

EncodedLookups(c) ==
    {t \in Nat \X AddressTableLookup \X Seq(Byte) :
        /\ t[1] \in 1 .. c /\ t[3] = MarshalLookup(t[2])
        /\ Len(t[2].writable) <= MaxU16 /\ Len(t[2].readonly) <= MaxU16}

LEMMA LookupItemsRead ==
    ASSUME NEW p, OK(p), NEW c \in Nat, NEW q, q = LookupItems(p, c), q.err = "nil"
    PROVE  /\ p.err = "nil" /\ q.val \in Seq(AddressTableLookup) /\ Len(q.val) = c /\ LookupsFit(q.val)
           /\ \E es : LookupsEncoded(es, q.val) /\ Read(p, q, FlattenSeq(es))
  <1> DEFINE R == EncodedLookups(c)
  <1>1. p.err = "nil"
    BY DEF LookupItems, ReadItems
  <1>2. Ready(p)
    BY <1>1 DEF OK
  <1>3. PICK r : /\ r[0] = Value(p, <<>>) /\ LookupItems(p, c) = r[c]
                 /\ \A i \in 1 .. c : r[i] = Push(r[i - 1], DecodeLookup(r[i - 1], i))
    BY <1>1, LookupUnfold
  <1>4. ASSUME NEW i \in 1 .. c PROVE ItemStep(r[i - 1], r[i], i, R)
    <2> DEFINE y == r[i - 1]
               x == DecodeLookup(y, i)
               e == MarshalLookup(x.val)
    <2>1. r[i] = Push(y, x)
      BY <1>3
    <2> HIDE DEF y
    <2>2. ASSUME OK(y), x.err = "nil" PROVE Read(y, x, e) /\ <<i, x.val, e>> \in R
      <3>1. /\ Read(y, x, e) /\ x.val \in AddressTableLookup
            /\ Len(x.val.writable) <= MaxU16 /\ Len(x.val.readonly) <= MaxU16
        BY <2>2, DecodeLookupRead
      <3>2. e = MarshalLookup(x.val)
        OBVIOUS
      <3> HIDE DEF x, e
      <3>3. e \in Seq(Byte) /\ i \in Nat
        BY <3>1, ReadOK
      <3> QED BY <3>1, <3>2, <3>3 DEF EncodedLookups
    <2> HIDE DEF x, e, R
    <2> QED BY <2>1, <2>2 DEF ItemStep, y
  <1>5. R \subseteq Nat \X AddressTableLookup \X Seq(Byte)
    BY DEF EncodedLookups
  <1> HIDE DEF R
  <1>6. PICK es : ItemsUpTo(p, r[c], c, AddressTableLookup, R, es)
    BY <1>2, <1>3, <1>4, <1>5, ItemsRead
  <1> DEFINE vals == q.val
  <1>7. /\ es \in Seq(Seq(Byte)) /\ Len(es) = c /\ vals \in Seq(AddressTableLookup) /\ Len(vals) = c
        /\ \A j \in 1 .. c : <<j, vals[j], es[j]>> \in R
        /\ Read(p, q, FlattenSeq(es))
    BY <1>3, <1>6 DEF ItemsUpTo
  <1> HIDE DEF vals
  <1>8. ASSUME NEW j \in 1 .. c
        PROVE  /\ es[j] = MarshalLookup(vals[j])
               /\ Len(vals[j].writable) <= MaxU16 /\ Len(vals[j].readonly) <= MaxU16
    <2>1. <<j, vals[j], es[j]>> \in R
      BY <1>7
    <2> QED BY <2>1 DEF R, EncodedLookups
  <1>9. LookupsFit(vals) /\ LookupsEncoded(es, vals)
    BY <1>7, <1>8 DEF LookupsFit, LookupsEncoded
  <1> QED BY <1>1, <1>7, <1>9 DEF vals

LEMMA KeyVecRead ==
    ASSUME NEW p, OK(p), NEW f, NEW q, q = VecField(p, f, ReadKey)
    PROVE  /\ OK(q)
           /\ q.err = "nil" => /\ p.err = "nil"
                               /\ \E v \in Seq(OfSize(KeySize)) :
                                     /\ Len(v) <= MaxU16 /\ Read(p, q, PrefixedItems(v))
                                     /\ q.val = With(p.val, f, v)
  <1>1. ASSUME q.err = "nil"
        PROVE  /\ p.err = "nil" /\ OK(q)
               /\ \E v \in Seq(OfSize(KeySize)) :
                     Len(v) <= MaxU16 /\ Read(p, q, PrefixedItems(v)) /\ q.val = With(p.val, f, v)
    <2> DEFINE s == ReadShortvec(p)
               c == s.val
               x == KeyItems(s, c)
    <2>1. q = Field(p, f, x)
      BY DEF VecField, ReadVec, KeyItems
    <2>2. x.err = "nil"
      BY <1>1, <2>1, FieldErr
    <2>3. s.err = "nil"
      BY <2>2 DEF KeyItems, ReadItems
    <2>4. p.err = "nil" /\ Read(p, s, EncodeShortvec(c)) /\ c \in 0 .. MaxU16
      BY <2>3, ReadShortvecRead
    <2>5. c \in Nat /\ OK(s)
      BY <2>4, ReadOK
    <2> HIDE DEF s, c
    <2>6. Read(s, x, FlattenSeq(x.val)) /\ x.val \in Seq(OfSize(KeySize)) /\ Len(x.val) = c
      BY <2>2, <2>5, KeyItemsRead
    <2> HIDE DEF x
    <2>7. Read(p, x, EncodeShortvec(c) \o FlattenSeq(x.val))
      BY <2>4, <2>6, ReadThenRead
    <2>8. Read(p, x, PrefixedItems(x.val))
      BY <2>6, <2>7 DEF PrefixedItems
    <2>9. Read(p, q, PrefixedItems(x.val)) /\ q.val = With(p.val, f, x.val)
      BY <2>1, <2>8, FieldRead
    <2>10. Len(x.val) <= MaxU16
      BY <2>4, <2>6
    <2> QED BY <2>4, <2>6, <2>9, <2>10, ReadOK
  <1> QED BY <1>1 DEF OK

LEMMA SigVecRead ==
    ASSUME NEW p, OK(p), NEW f, NEW q, q = VecField(p, f, ReadSig)
    PROVE  /\ OK(q)
           /\ q.err = "nil" => /\ p.err = "nil"
                               /\ \E v \in Seq(OfSize(SigSize)) :
                                     /\ Len(v) <= MaxU16 /\ Read(p, q, PrefixedItems(v))
                                     /\ q.val = With(p.val, f, v)
  <1>1. ASSUME q.err = "nil"
        PROVE  /\ p.err = "nil" /\ OK(q)
               /\ \E v \in Seq(OfSize(SigSize)) :
                     Len(v) <= MaxU16 /\ Read(p, q, PrefixedItems(v)) /\ q.val = With(p.val, f, v)
    <2> DEFINE s == ReadShortvec(p)
               c == s.val
               x == SigItems(s, c)
    <2>1. q = Field(p, f, x)
      BY DEF VecField, ReadVec, SigItems
    <2>2. x.err = "nil"
      BY <1>1, <2>1, FieldErr
    <2>3. s.err = "nil"
      BY <2>2 DEF SigItems, ReadItems
    <2>4. p.err = "nil" /\ Read(p, s, EncodeShortvec(c)) /\ c \in 0 .. MaxU16
      BY <2>3, ReadShortvecRead
    <2>5. c \in Nat /\ OK(s)
      BY <2>4, ReadOK
    <2> HIDE DEF s, c
    <2>6. Read(s, x, FlattenSeq(x.val)) /\ x.val \in Seq(OfSize(SigSize)) /\ Len(x.val) = c
      BY <2>2, <2>5, SigItemsRead
    <2> HIDE DEF x
    <2>7. Read(p, x, EncodeShortvec(c) \o FlattenSeq(x.val))
      BY <2>4, <2>6, ReadThenRead
    <2>8. Read(p, x, PrefixedItems(x.val))
      BY <2>6, <2>7 DEF PrefixedItems
    <2>9. Read(p, q, PrefixedItems(x.val)) /\ q.val = With(p.val, f, x.val)
      BY <2>1, <2>8, FieldRead
    <2>10. Len(x.val) <= MaxU16
      BY <2>4, <2>6
    <2> QED BY <2>4, <2>6, <2>9, <2>10, ReadOK
  <1> QED BY <1>1 DEF OK

LEMMA InstructionVecRead ==
    ASSUME NEW p, OK(p), NEW f, NEW q, q = VecField(p, f, DecodeInstruction)
    PROVE  /\ OK(q)
           /\ q.err = "nil" => /\ p.err = "nil"
                               /\ \E v \in Seq(Instruction) : \E es :
                                     /\ Len(v) <= MaxU16 /\ InstructionsFit(v) /\ InstructionsEncoded(es, v)
                                     /\ Read(p, q, PrefixedItems(es)) /\ q.val = With(p.val, f, v)
  <1>1. ASSUME q.err = "nil"
        PROVE  /\ p.err = "nil" /\ OK(q)
               /\ \E v \in Seq(Instruction) : \E es :
                     /\ Len(v) <= MaxU16 /\ InstructionsFit(v) /\ InstructionsEncoded(es, v)
                     /\ Read(p, q, PrefixedItems(es)) /\ q.val = With(p.val, f, v)
    <2> DEFINE s == ReadShortvec(p)
               c == s.val
               x == InstructionItems(s, c)
    <2>1. q = Field(p, f, x)
      BY DEF VecField, ReadVec, InstructionItems
    <2>2. x.err = "nil"
      BY <1>1, <2>1, FieldErr
    <2>3. s.err = "nil"
      BY <2>2 DEF InstructionItems, ReadItems
    <2>4. p.err = "nil" /\ Read(p, s, EncodeShortvec(c)) /\ c \in 0 .. MaxU16
      BY <2>3, ReadShortvecRead
    <2>5. c \in Nat /\ OK(s)
      BY <2>4, ReadOK
    <2> HIDE DEF s, c
    <2>6. /\ x.val \in Seq(Instruction) /\ Len(x.val) = c /\ InstructionsFit(x.val)
          /\ \E es : InstructionsEncoded(es, x.val) /\ Read(s, x, FlattenSeq(es))
      BY <2>2, <2>5, InstructionItemsRead
    <2> HIDE DEF x
    <2>7. PICK es : InstructionsEncoded(es, x.val) /\ Read(s, x, FlattenSeq(es))
      BY <2>6
    <2>8. Read(p, x, EncodeShortvec(c) \o FlattenSeq(es))
      BY <2>4, <2>7, ReadThenRead
    <2>9. Read(p, x, PrefixedItems(es))
      BY <2>6, <2>7, <2>8 DEF PrefixedItems, InstructionsEncoded
    <2>10. Read(p, q, PrefixedItems(es)) /\ q.val = With(p.val, f, x.val)
      BY <2>1, <2>9, FieldRead
    <2>11. Len(x.val) <= MaxU16
      BY <2>4, <2>6
    <2> QED BY <2>4, <2>6, <2>7, <2>10, <2>11, ReadOK
  <1> QED BY <1>1 DEF OK

LEMMA LookupVecRead ==
    ASSUME NEW p, OK(p), NEW f, NEW q, q = VecField(p, f, DecodeLookup)
    PROVE  /\ OK(q)
           /\ q.err = "nil" => /\ p.err = "nil"
                               /\ \E v \in Seq(AddressTableLookup) : \E es :
                                     /\ Len(v) <= MaxU16 /\ LookupsFit(v) /\ LookupsEncoded(es, v)
                                     /\ Read(p, q, PrefixedItems(es)) /\ q.val = With(p.val, f, v)
  <1>1. ASSUME q.err = "nil"
        PROVE  /\ p.err = "nil" /\ OK(q)
               /\ \E v \in Seq(AddressTableLookup) : \E es :
                     /\ Len(v) <= MaxU16 /\ LookupsFit(v) /\ LookupsEncoded(es, v)
                     /\ Read(p, q, PrefixedItems(es)) /\ q.val = With(p.val, f, v)
    <2> DEFINE s == ReadShortvec(p)
               c == s.val
               x == LookupItems(s, c)
    <2>1. q = Field(p, f, x)
      BY DEF VecField, ReadVec, LookupItems
    <2>2. x.err = "nil"
      BY <1>1, <2>1, FieldErr
    <2>3. s.err = "nil"
      BY <2>2 DEF LookupItems, ReadItems
    <2>4. p.err = "nil" /\ Read(p, s, EncodeShortvec(c)) /\ c \in 0 .. MaxU16
      BY <2>3, ReadShortvecRead
    <2>5. c \in Nat /\ OK(s)
      BY <2>4, ReadOK
    <2> HIDE DEF s, c
    <2>6. /\ x.val \in Seq(AddressTableLookup) /\ Len(x.val) = c /\ LookupsFit(x.val)
          /\ \E es : LookupsEncoded(es, x.val) /\ Read(s, x, FlattenSeq(es))
      BY <2>2, <2>5, LookupItemsRead
    <2> HIDE DEF x
    <2>7. PICK es : LookupsEncoded(es, x.val) /\ Read(s, x, FlattenSeq(es))
      BY <2>6
    <2>8. Read(p, x, EncodeShortvec(c) \o FlattenSeq(es))
      BY <2>4, <2>7, ReadThenRead
    <2>9. Read(p, x, PrefixedItems(es))
      BY <2>6, <2>7, <2>8 DEF PrefixedItems, LookupsEncoded
    <2>10. Read(p, q, PrefixedItems(es)) /\ q.val = With(p.val, f, x.val)
      BY <2>1, <2>9, FieldRead
    <2>11. Len(x.val) <= MaxU16
      BY <2>4, <2>6
    <2> QED BY <2>4, <2>6, <2>7, <2>10, <2>11, ReadOK
  <1> QED BY <1>1 DEF OK


\* The parts of a message.
LEMMA U8ItemsFieldRead ==
    ASSUME NEW p, OK(p), NEW f, NEW c \in Nat, NEW q, q = ItemsField(p, f, c, ReadU8)
    PROVE  /\ OK(q)
           /\ q.err = "nil" => /\ p.err = "nil"
                               /\ \E v \in Seq(Byte) : /\ Len(v) = c /\ Read(p, q, v)
                                                       /\ q.val = With(p.val, f, v)
  <1>1. ASSUME q.err = "nil"
        PROVE  /\ p.err = "nil" /\ OK(q)
               /\ \E v \in Seq(Byte) : Len(v) = c /\ Read(p, q, v) /\ q.val = With(p.val, f, v)
    <2> DEFINE x == U8Items(p, c)
    <2>1. q = Field(p, f, x)
      BY DEF ItemsField, U8Items
    <2>2. x.err = "nil"
      BY <1>1, <2>1, FieldErr
    <2>3. p.err = "nil" /\ Read(p, x, x.val) /\ x.val \in Seq(Byte) /\ Len(x.val) = c
      BY <2>2, U8ItemsRead
    <2> HIDE DEF x
    <2>4. Read(p, q, x.val) /\ q.val = With(p.val, f, x.val)
      BY <2>1, <2>3, FieldRead
    <2> QED BY <2>3, <2>4, ReadOK
  <1> QED BY <1>1 DEF OK

LEMMA LookupsFieldRead ==
    ASSUME NEW p, OK(p), NEW q, q = LookupsField(p), q.err = "nil"
    PROVE  /\ p.err = "nil"
           /\ p.val.version # V0 => q = p
           /\ p.val.version = V0 =>
                 \E v \in Seq(AddressTableLookup) : \E es :
                    /\ Len(v) <= MaxU16 /\ LookupsFit(v) /\ LookupsEncoded(es, v)
                    /\ Read(p, q, PrefixedItems(es)) /\ q.val = With(p.val, "lookups", v)
  <1>1. CASE p.err # "nil"
    BY <1>1 DEF LookupsField
  <1>2. CASE p.err = "nil" /\ p.val.version # V0
    BY <1>2 DEF LookupsField
  <1>3. CASE p.err = "nil" /\ p.val.version = V0
    <2>1. q = VecField(p, "lookups", DecodeLookup)
      BY <1>3 DEF LookupsField
    <2> QED BY <1>3, <2>1, LookupVecRead
  <1> QED BY <1>1, <1>2, <1>3

LEMMA SameInstructions ==
    ASSUME NEW m \in Message, NEW es, InstructionsFit(m.ixs), InstructionsEncoded(es, m.ixs)
    PROVE  es = InstructionsOf(m)
  <1> DEFINE ixs == m.ixs
             is == InstructionsOf(m)
  <1>1. ixs \in Seq(Instruction)
    BY MessageParts
  <1>2. is = [i \in DOMAIN ixs |-> MarshalInstruction(ixs[i])]
    BY DEF InstructionsOf
  <1>3. es \in Seq(Seq(Byte)) /\ Len(es) = Len(ixs)
        /\ \A i \in 1 .. Len(ixs) : es[i] = MarshalInstruction(ixs[i])
    BY DEF InstructionsEncoded
  <1>4. \A i \in 1 .. Len(ixs) : Len(ixs[i].accounts) <= MaxU16 /\ Len(ixs[i].data) <= MaxU16
    BY DEF InstructionsFit
  <1> HIDE DEF ixs, is
  <1>5. is \in Seq(Seq(Byte)) /\ Len(is) = Len(ixs)
    BY <1>1, <1>2, <1>4, InstructionEncodings
  <1>6. \A i \in 1 .. Len(ixs) : is[i] = MarshalInstruction(ixs[i])
    BY <1>1, <1>2
  <1>7. \A i \in 1 .. Len(es) : es[i] = is[i]
    BY <1>3, <1>6
  <1> QED BY <1>3, <1>5, <1>7, SameSequence DEF is

LEMMA SameLookups ==
    ASSUME NEW m \in Message, NEW es, LookupsFit(m.lookups), LookupsEncoded(es, m.lookups)
    PROVE  es = LookupsOf(m)
  <1> DEFINE lks == m.lookups
             is == LookupsOf(m)
  <1>1. lks \in Seq(AddressTableLookup)
    BY MessageParts
  <1>2. is = [i \in DOMAIN lks |-> MarshalLookup(lks[i])]
    BY DEF LookupsOf
  <1>3. es \in Seq(Seq(Byte)) /\ Len(es) = Len(lks)
        /\ \A i \in 1 .. Len(lks) : es[i] = MarshalLookup(lks[i])
    BY DEF LookupsEncoded
  <1>4. \A i \in 1 .. Len(lks) : Len(lks[i].writable) <= MaxU16 /\ Len(lks[i].readonly) <= MaxU16
    BY DEF LookupsFit
  <1> HIDE DEF lks, is
  <1>5. is \in Seq(Seq(Byte)) /\ Len(is) = Len(lks)
    BY <1>1, <1>2, <1>4, LookupEncodings
  <1>6. \A i \in 1 .. Len(lks) : is[i] = MarshalLookup(lks[i])
    BY <1>1, <1>2
  <1>7. \A i \in 1 .. Len(es) : es[i] = is[i]
    BY <1>3, <1>6
  <1> QED BY <1>3, <1>5, <1>7, SameSequence DEF is

LEMMA CountsFitOf ==
    ASSUME NEW m \in Message, Len(m.keys) <= MaxU16, Len(m.ixs) <= MaxU16, InstructionsFit(m.ixs),
           m.version = V0 => Len(m.lookups) <= MaxU16 /\ LookupsFit(m.lookups)
    PROVE  CountsFit(m)
  <1>1. m.ixs \in Seq(Instruction) /\ m.lookups \in Seq(AddressTableLookup)
    BY MessageParts
  <1>2. \A x \in ToSet(m.ixs) : \E i \in 1 .. Len(m.ixs) : x = m.ixs[i]
    BY <1>1 DEF ToSet
  <1>3. \A x \in ToSet(m.lookups) : \E i \in 1 .. Len(m.lookups) : x = m.lookups[i]
    BY <1>1 DEF ToSet
  <1>4. \A ix \in ToSet(m.ixs) : Len(ix.accounts) <= MaxU16 /\ Len(ix.data) <= MaxU16
    BY <1>2 DEF InstructionsFit
  <1>5. m.version = V0 => \A lk \in ToSet(m.lookups) :
                             Len(lk.writable) <= MaxU16 /\ Len(lk.readonly) <= MaxU16
    BY <1>3 DEF LookupsFit
  <1> QED BY <1>4, <1>5 DEF CountsFit


\* The message that is filled field by field, with none for a field not yet read.
Fields(version, header, keys, hash, ixs, lookups, config) ==
    [version |-> version, header |-> header, keys |-> keys, hash |-> hash, ixs |-> ixs,
     lookups |-> lookups, config |-> config]

LEMMA FieldsWith ==
    ASSUME NEW version, NEW header, NEW keys, NEW hash, NEW ixs, NEW lookups, NEW config,
           NEW v, NEW s, s = Fields(version, header, keys, hash, ixs, lookups, config)
    PROVE  /\ With(s, "header", v) = Fields(version, v, keys, hash, ixs, lookups, config)
           /\ With(s, "keys", v) = Fields(version, header, v, hash, ixs, lookups, config)
           /\ With(s, "hash", v) = Fields(version, header, keys, v, ixs, lookups, config)
           /\ With(s, "ixs", v) = Fields(version, header, keys, hash, v, lookups, config)
           /\ With(s, "lookups", v) = Fields(version, header, keys, hash, ixs, v, config)
  <1>1. With(s, "header", v) = Fields(version, v, keys, hash, ixs, lookups, config)
    BY DEF With, Fields
  <1>2. With(s, "keys", v) = Fields(version, header, v, hash, ixs, lookups, config)
    BY DEF With, Fields
  <1>3. With(s, "hash", v) = Fields(version, header, keys, v, ixs, lookups, config)
    BY DEF With, Fields
  <1>4. With(s, "ixs", v) = Fields(version, header, keys, hash, v, lookups, config)
    BY DEF With, Fields
  <1>5. With(s, "lookups", v) = Fields(version, header, keys, hash, ixs, v, config)
    BY DEF With, Fields
  <1> QED BY <1>1, <1>2, <1>3, <1>4, <1>5

LEMMA BodyV0Read ==
    ASSUME NEW o, NEW p, OK(p), NEW version \in {Legacy, V0},
           p.err = "nil" => /\ p.val = EmptyMessage(version)
                            /\ Read(o, p, IF version = Legacy THEN <<>> ELSE <<Cont + version>>),
           NEW q, q = BodyV0(p), q.err = "nil"
    PROVE  /\ q.val \in Message /\ q.val.version = version /\ q.val.config = <<>>
           /\ version # V0 => q.val.lookups = <<>>
           /\ CountsFit(q.val) /\ Read(o, q, MarshalV0(q.val))
  <1> DEFINE pre == IF version = Legacy THEN <<>> ELSE <<Cont + version>>
             p2 == ItemsField(p, "header", 3, ReadU8)
             p3 == VecField(p2, "keys", ReadKey)
             p4 == BytesField(p3, "hash", HashSize)
             p5 == VecField(p4, "ixs", DecodeInstruction)
  <1>1. q = LookupsField(p5)
    BY DEF BodyV0
  <1>2. p.err = "nil" => Read(o, p, pre)
    OBVIOUS
  <1> HIDE DEF pre
  <1>3. /\ OK(p2)
        /\ p2.err = "nil" => /\ p.err = "nil"
                             /\ \E v \in Seq(Byte) : /\ Len(v) = 3 /\ Read(p, p2, v)
                                                     /\ p2.val = With(p.val, "header", v)
    <2> DEFINE c == 3
    <2>1. c \in Nat /\ p2 = ItemsField(p, "header", c, ReadU8)
      OBVIOUS
    <2> HIDE DEF c, p2
    <2>2. /\ OK(p2)
          /\ p2.err = "nil" => /\ p.err = "nil"
                               /\ \E v \in Seq(Byte) : /\ Len(v) = c /\ Read(p, p2, v)
                                                       /\ p2.val = With(p.val, "header", v)
      BY <2>1, U8ItemsFieldRead
    <2> QED BY <2>2 DEF c
  <1> HIDE DEF p2
  <1>4. /\ OK(p3)
        /\ p3.err = "nil" => /\ p2.err = "nil"
                             /\ \E v \in Seq(OfSize(KeySize)) :
                                   /\ Len(v) <= MaxU16 /\ Read(p2, p3, PrefixedItems(v))
                                   /\ p3.val = With(p2.val, "keys", v)
    BY <1>3, KeyVecRead
  <1> HIDE DEF p3
  <1>5. /\ OK(p4)
        /\ p4.err = "nil" => /\ p3.err = "nil"
                             /\ \E v \in OfSize(HashSize) : /\ Read(p3, p4, v)
                                                            /\ p4.val = With(p3.val, "hash", v)
    BY <1>4, BytesFieldRead, Sizes
  <1> HIDE DEF p4
  <1>6. /\ OK(p5)
        /\ p5.err = "nil" => /\ p4.err = "nil"
                             /\ \E v \in Seq(Instruction) : \E es :
                                   /\ Len(v) <= MaxU16 /\ InstructionsFit(v) /\ InstructionsEncoded(es, v)
                                   /\ Read(p4, p5, PrefixedItems(es)) /\ p5.val = With(p4.val, "ixs", v)
    BY <1>5, InstructionVecRead
  <1> HIDE DEF p5
  <1>7. /\ p5.err = "nil"
        /\ p5.val.version # V0 => q = p5
        /\ p5.val.version = V0 =>
              \E v \in Seq(AddressTableLookup) : \E es :
                 /\ Len(v) <= MaxU16 /\ LookupsFit(v) /\ LookupsEncoded(es, v)
                 /\ Read(p5, q, PrefixedItems(es)) /\ q.val = With(p5.val, "lookups", v)
    BY <1>1, <1>6, LookupsFieldRead
  <1>8. p.err = "nil" /\ p2.err = "nil" /\ p3.err = "nil" /\ p4.err = "nil" /\ p5.err = "nil"
    BY <1>3, <1>4, <1>5, <1>6, <1>7
  <1>9. PICK header \in Seq(Byte) : /\ Len(header) = 3 /\ Read(p, p2, header)
                                    /\ p2.val = With(p.val, "header", header)
    BY <1>3, <1>8
  <1>10. PICK keys \in Seq(OfSize(KeySize)) : /\ Len(keys) <= MaxU16 /\ Read(p2, p3, PrefixedItems(keys))
                                              /\ p3.val = With(p2.val, "keys", keys)
    BY <1>4, <1>8
  <1>11. PICK hash \in OfSize(HashSize) : Read(p3, p4, hash) /\ p4.val = With(p3.val, "hash", hash)
    BY <1>5, <1>8
  <1>12a. PICK ixs \in Seq(Instruction) : \E es :
            /\ Len(ixs) <= MaxU16 /\ InstructionsFit(ixs) /\ InstructionsEncoded(es, ixs)
            /\ Read(p4, p5, PrefixedItems(es)) /\ p5.val = With(p4.val, "ixs", ixs)
    BY <1>6, <1>8
  <1>12. PICK es :
            /\ Len(ixs) <= MaxU16 /\ InstructionsFit(ixs) /\ InstructionsEncoded(es, ixs)
            /\ Read(p4, p5, PrefixedItems(es)) /\ p5.val = With(p4.val, "ixs", ixs)
    BY <1>12a
  <1> DEFINE none == <<>>
  <1> HIDE DEF none
  <1>13a. p5.val = Fields(version, header, keys, hash, ixs, none, none)
    <2>1. p.val = Fields(version, none, none, none, none, none, none)
      BY <1>8 DEF EmptyMessage, Fields, none
    <2>2. p2.val = Fields(version, header, none, none, none, none, none)
      BY <1>9, <2>1, FieldsWith
    <2>3. p3.val = Fields(version, header, keys, none, none, none, none)
      BY <1>10, <2>2, FieldsWith
    <2>4. p4.val = Fields(version, header, keys, hash, none, none, none)
      BY <1>11, <2>3, FieldsWith
    <2> QED BY <1>12, <2>4, FieldsWith
  <1>13. p5.val = [version |-> version, header |-> header, keys |-> keys, hash |-> hash, ixs |-> ixs,
                   lookups |-> <<>>, config |-> <<>>]
    BY <1>13a DEF Fields, none
  <1>14. Read(o, p5, (((pre \o header) \o PrefixedItems(keys)) \o hash) \o PrefixedItems(es))
    <2>1. Read(o, p2, pre \o header)
      BY <1>2, <1>8, <1>9, ReadThenRead
    <2>2. Read(o, p3, (pre \o header) \o PrefixedItems(keys))
      BY <1>10, <2>1, ReadThenRead
    <2>3. Read(o, p4, ((pre \o header) \o PrefixedItems(keys)) \o hash)
      BY <1>11, <2>2, ReadThenRead
    <2> QED BY <1>12, <2>3, ReadThenRead
  <1>15. header \in OfSize(3) /\ version \in Byte /\ <<>> \in Seq(AddressTableLookup)
         /\ <<>> \in Seq(Seq(Nat))
    <2>0. header \in [1 .. Len(header) -> Byte]
      OBVIOUS
    <2>1. header \in OfSize(3)
      BY <1>9, <2>0 DEF OfSize
    <2>2. V0 \in Byte
      BY Sizes DEF V0, Byte
    <2> QED BY <2>1, <2>2, Versions
  <1>16. CASE version # V0
    <2> DEFINE m == q.val
    <2>1. q = p5
      BY <1>7, <1>13, <1>16
    <2>2. m = [version |-> version, header |-> header, keys |-> keys, hash |-> hash, ixs |-> ixs,
               lookups |-> <<>>, config |-> <<>>]
      BY <1>13, <2>1
    <2> HIDE DEF m
    <2>3. m \in Message
      BY <1>15, <2>2 DEF Message
    <2>4. /\ m.version = version /\ m.header = header /\ m.keys = keys /\ m.hash = hash
          /\ m.ixs = ixs /\ m.lookups = <<>> /\ m.config = <<>>
      BY <2>2
    <2>5. CountsFit(m)
      BY <1>10, <1>12, <1>16, <2>3, <2>4, CountsFitOf
    <2>6. es = InstructionsOf(m)
      BY <1>12, <2>3, <2>4, SameInstructions
    <2>7. TableOf(m) = <<>> /\ PrefixOf(m) = pre
      BY <1>16, <2>4 DEF TableOf, PrefixOf, pre
    <2>8. MarshalV0(m) = ((((PrefixOf(m) \o m.header) \o PrefixedItems(m.keys)) \o m.hash)
                          \o PrefixedItems(InstructionsOf(m))) \o TableOf(m)
      BY <2>3, <2>4, <2>5, MarshalV0Parts
    <2> DEFINE x == (((pre \o header) \o PrefixedItems(keys)) \o hash) \o PrefixedItems(es)
    <2>9. MarshalV0(m) = x \o <<>>
      BY <2>4, <2>6, <2>7, <2>8
    <2>10. Read(o, q, x)
      BY <1>14, <2>1
    <2> HIDE DEF x
    <2>11. x \in Seq(Byte)
      BY <2>10, ReadOK
    <2>12. Read(o, q, MarshalV0(m))
      BY <2>9, <2>10, <2>11
    <2> QED BY <2>3, <2>4, <2>5, <2>12 DEF m
  <1>17. CASE version = V0
    <2> DEFINE m == q.val
    <2>1a. PICK lks \in Seq(AddressTableLookup) : \E ls :
             /\ Len(lks) <= MaxU16 /\ LookupsFit(lks) /\ LookupsEncoded(ls, lks)
             /\ Read(p5, q, PrefixedItems(ls)) /\ q.val = With(p5.val, "lookups", lks)
      BY <1>7, <1>13, <1>17
    <2>1. PICK ls :
             /\ Len(lks) <= MaxU16 /\ LookupsFit(lks) /\ LookupsEncoded(ls, lks)
             /\ Read(p5, q, PrefixedItems(ls)) /\ q.val = With(p5.val, "lookups", lks)
      BY <2>1a
    <2>2. m = [version |-> version, header |-> header, keys |-> keys, hash |-> hash, ixs |-> ixs,
               lookups |-> lks, config |-> <<>>]
      <3>1. m = Fields(version, header, keys, hash, ixs, lks, none)
        BY <1>13a, <2>1, FieldsWith
      <3> QED BY <3>1 DEF Fields, none
    <2> HIDE DEF m
    <2>3. m \in Message
      BY <1>15, <2>2 DEF Message
    <2>4. /\ m.version = version /\ m.header = header /\ m.keys = keys /\ m.hash = hash
          /\ m.ixs = ixs /\ m.lookups = lks /\ m.config = <<>>
      BY <2>2
    <2>5. CountsFit(m)
      BY <1>10, <1>12, <2>1, <2>3, <2>4, CountsFitOf
    <2>6. es = InstructionsOf(m)
      BY <1>12, <2>3, <2>4, SameInstructions
    <2>7. ls = LookupsOf(m)
      BY <2>1, <2>3, <2>4, SameLookups
    <2>8. TableOf(m) = PrefixedItems(ls) /\ PrefixOf(m) = pre
      BY <1>17, <2>4, <2>7 DEF TableOf, PrefixOf, pre
    <2>9. MarshalV0(m) = ((((PrefixOf(m) \o m.header) \o PrefixedItems(m.keys)) \o m.hash)
                          \o PrefixedItems(InstructionsOf(m))) \o TableOf(m)
      BY <2>3, <2>4, <2>5, MarshalV0Parts
    <2> DEFINE x == (((pre \o header) \o PrefixedItems(keys)) \o hash) \o PrefixedItems(es)
    <2>10. MarshalV0(m) = x \o PrefixedItems(ls)
      BY <2>4, <2>6, <2>8, <2>9
    <2>11. Read(o, p5, x)
      BY <1>14
    <2> HIDE DEF x
    <2>12. Read(o, q, x \o PrefixedItems(ls))
      BY <2>1, <2>11, ReadThenRead
    <2>13. Read(o, q, MarshalV0(m))
      BY <2>10, <2>12
    <2> QED BY <1>17, <2>3, <2>4, <2>5, <2>13 DEF m
  <1> QED BY <1>16, <1>17


\* What a decoded message is: of its type, and the bytes it came from are its encoding.
MessageRead(p, q) ==
    /\ q.val \in Message /\ ConfigFits(q.val) /\ Validate(q.val)
    /\ Read(p, q, Marshal(q.val)) /\ Marshal(q.val) # Refused

LEMMA DecodeMessageErr ==
    ASSUME NEW p, OK(p), NEW q, q = DecodeMessage(p), q.err = "nil"
    PROVE  /\ p.err = "nil" /\ Ready(p) /\ p.rest # <<>> /\ p.rest[1] \in Byte
           /\ p.rest[1] <= Cont + V1 /\ (p.rest[1] = Cont + V1 => q = DecodeMessageV1(p))
           /\ p.rest[1] # Cont + V1 =>
                 q = BodyV0(IF p.rest[1] < Cont THEN Value(p, EmptyMessage(Legacy))
                            ELSE Value(ReadUint(p, 1), EmptyMessage(V0)))
  <1>1. p.err = "nil"
    BY DEF DecodeMessage
  <1>2. Ready(p) /\ p.rest \in Seq(Byte)
    BY <1>1 DEF OK, Ready
  <1>3. \A x : x # "nil" => Fail(p, x).err # "nil"
    <2>1. PICK a, w : p = [err |-> "nil", rest |-> a, val |-> w]
      BY <1>2 DEF Ready
    <2> QED BY <2>1 DEF Fail
  <1>4. "short" # "nil" /\ "invalid" # "nil"
    OBVIOUS
  <1>5. p.rest # <<>>
    BY <1>1, <1>3, <1>4 DEF DecodeMessage
  <1>6. p.rest[1] \in Byte
    BY <1>2, <1>5
  <1>7. Cont \in Nat /\ V1 = 1 /\ Byte = 0 .. 2 * Cont - 1
    BY Sizes DEF V1, Byte
  <1>8. p.rest[1] # Cont + V1 => ~(p.rest[1] > Cont + V1)
    BY <1>1, <1>3, <1>4, <1>5 DEF DecodeMessage
  <1>9. p.rest[1] <= Cont + V1
    BY <1>6, <1>7, <1>8
  <1>10. p.rest[1] = Cont + V1 => q = DecodeMessageV1(p)
    BY <1>1, <1>5 DEF DecodeMessage
  <1>11. p.rest[1] # Cont + V1 =>
                 q = BodyV0(IF p.rest[1] < Cont THEN Value(p, EmptyMessage(Legacy))
                            ELSE Value(ReadUint(p, 1), EmptyMessage(V0)))
    BY <1>1, <1>5, <1>8 DEF DecodeMessage, BodyV0
  <1> QED BY <1>1, <1>2, <1>5, <1>6, <1>9, <1>10, <1>11

\* The byte read first is the one the decoder looked at.
LEMMA FirstRead ==
    ASSUME NEW p, OK(p), NEW q, q = ReadUint(p, 1)
    PROVE  /\ OK(q)
           /\ q.err = "nil" => Read(p, q, <<p.rest[1]>>)
  <1>1. ASSUME q.err = "nil" PROVE OK(q) /\ Read(p, q, <<p.rest[1]>>)
    <2> DEFINE v == q.val
    <2>1. Read(p, q, <<v>>) /\ v \in Byte
      BY <1>1, U8Read
    <2> HIDE DEF v
    <2>2. p.rest = <<v>> \o q.rest /\ q.rest \in Seq(Byte)
      BY <2>1 DEF Read, Ready
    <2>3. p.rest[1] = v
      BY <2>1, <2>2
    <2> QED BY <2>1, <2>3, ReadOK
  <1> QED BY <1>1 DEF OK

LEMMA DecodeMessageV0Read ==
    ASSUME NEW p, OK(p), NEW q, q = DecodeMessage(p), q.err = "nil", p.rest[1] # Cont + V1
    PROVE  MessageRead(p, q) /\ q.val.version # V1
  <1> DEFINE m == IF p.rest[1] < Cont THEN Value(p, EmptyMessage(Legacy))
                  ELSE Value(ReadUint(p, 1), EmptyMessage(V0))
             version == IF p.rest[1] < Cont THEN Legacy ELSE V0
             v == q.val
  <1>1. /\ p.err = "nil" /\ Ready(p) /\ p.rest # <<>> /\ p.rest[1] \in Byte
        /\ p.rest[1] <= Cont + V1 /\ q = BodyV0(m)
    BY DecodeMessageErr
  <1>2. version \in {Legacy, V0} /\ (version # Legacy => version = V0)
    OBVIOUS
  <1>3. /\ OK(m)
        /\ m.err = "nil" => /\ m.val = EmptyMessage(version)
                            /\ Read(p, m, IF version = Legacy THEN <<>> ELSE <<Cont + version>>)
    <2>1. CASE p.rest[1] < Cont
      <3>1. m = Value(p, EmptyMessage(Legacy)) /\ version = Legacy
        BY <2>1
      <3> HIDE DEF m, version
      <3> QED BY <1>1, <3>1, ReadyValue
    <2>2. CASE ~(p.rest[1] < Cont)
      <3> DEFINE r == ReadUint(p, 1)
      <3>1. m = Value(r, EmptyMessage(V0)) /\ version = V0
        BY <2>2
      <3>2. OK(r) /\ (r.err = "nil" => Read(p, r, <<p.rest[1]>>))
        BY FirstRead
      <3>3. p.rest[1] = Cont + V0
        BY <1>1, <2>2, Sizes DEF V0, V1, Byte
      <3> HIDE DEF m, version, r
      <3>4. OK(m) /\ m.err = r.err
        BY <3>1, <3>2, ReadyValue
      <3>5. m.err = "nil" => Read(p, m, <<Cont + V0>>) /\ m.val = EmptyMessage(V0)
        BY <3>1, <3>2, <3>3, <3>4, ReadValue
      <3> QED BY <3>1, <3>4, <3>5, Versions
    <2> QED BY <2>1, <2>2
  <1> HIDE DEF m, version
  <1>4. /\ v \in Message /\ v.version = version /\ v.config = <<>>
        /\ version # V0 => v.lookups = <<>>
        /\ CountsFit(v) /\ Read(p, q, MarshalV0(v))
    BY <1>1, <1>2, <1>3, BodyV0Read
  <1> HIDE DEF v
  <1>5. Validate(v) /\ v.version # V1
    BY <1>2, <1>4, Versions DEF Validate
  <1>6. Marshal(v) = MarshalV0(v)
    BY <1>5 DEF Marshal, MarshalInto
  <1>7. ConfigFits(v)
    BY <1>4 DEF ConfigFits
  <1>8. MarshalV0(v) # Refused
    <2>1. Len(MarshalV0(v)) >= 1
      BY <1>2, <1>4, FirstByteV0
    <2> HIDE DEF v
    <2> QED BY <2>1 DEF Refused
  <1> QED BY <1>4, <1>5, <1>6, <1>7, <1>8 DEF MessageRead, v


LEMMA MaskFieldRead ==
    ASSUME NEW p, OK(p), NEW q, q = MaskField(p)
    PROVE  /\ OK(q)
           /\ q.err = "nil" => /\ p.err = "nil" /\ MaskValid(q.val.mask)
                               /\ \E v \in Nat : /\ Read(p, q, WriteUint(v, U32Size))
                                                 /\ q.val = With(p.val, "mask", v)
  <1>1. ASSUME q.err = "nil"
        PROVE  /\ p.err = "nil" /\ MaskValid(q.val.mask) /\ OK(q)
               /\ \E v \in Nat : Read(p, q, WriteUint(v, U32Size)) /\ q.val = With(p.val, "mask", v)
    <2> DEFINE r == UintField(p, "mask", U32Size)
    <2>1. /\ OK(r)
          /\ r.err = "nil" => /\ p.err = "nil"
                              /\ \E v \in Nat : /\ Shifted(v, U32Size) = 0 /\ Read(p, r, WriteUint(v, U32Size))
                                                /\ r.val = With(p.val, "mask", v)
      <3> U32Size \in Nat
        BY Sizes
      <3> QED BY UintFieldRead
    <2>2. q = IF r.err = "nil" /\ ~MaskValid(r.val.mask) THEN Fail(r, "invalid") ELSE r
      BY DEF MaskField
    <2> HIDE DEF r
    <2>3. CASE r.err = "nil" /\ ~MaskValid(r.val.mask)
      <3>1. PICK a, w : r = [err |-> "nil", rest |-> a, val |-> w]
        BY <2>1, <2>3 DEF OK, Ready
      <3>2. q = Fail(r, "invalid") /\ "invalid" # "nil"
        BY <2>2, <2>3
      <3>3. Fail(r, "invalid").err = "invalid"
        BY <3>1 DEF Fail
      <3> QED BY <1>1, <3>2, <3>3
    <2>4. CASE ~(r.err = "nil" /\ ~MaskValid(r.val.mask))
      <3>1. q = r
        BY <2>2, <2>4
      <3>2. r.err = "nil" /\ MaskValid(r.val.mask)
        BY <1>1, <2>4, <3>1
      <3> QED BY <2>1, <3>1, <3>2
    <2> QED BY <2>3, <2>4
  <1> QED BY <1>1 DEF OK

LEMMA KeyItemsFieldRead ==
    ASSUME NEW p, OK(p), NEW f, NEW c \in Nat, NEW q, q = Field(p, f, KeyItems(p, c))
    PROVE  /\ OK(q)
           /\ q.err = "nil" => /\ p.err = "nil"
                               /\ \E v \in Seq(OfSize(KeySize)) :
                                     /\ Len(v) = c /\ Read(p, q, FlattenSeq(v))
                                     /\ q.val = With(p.val, f, v)
  <1>1. ASSUME q.err = "nil"
        PROVE  /\ p.err = "nil" /\ OK(q)
               /\ \E v \in Seq(OfSize(KeySize)) :
                     Len(v) = c /\ Read(p, q, FlattenSeq(v)) /\ q.val = With(p.val, f, v)
    <2> DEFINE x == KeyItems(p, c)
    <2>1. q = Field(p, f, x)
      OBVIOUS
    <2>2. x.err = "nil"
      BY <1>1, <2>1, FieldErr
    <2>3. p.err = "nil" /\ Read(p, x, FlattenSeq(x.val)) /\ x.val \in Seq(OfSize(KeySize)) /\ Len(x.val) = c
      BY <2>2, KeyItemsRead
    <2> HIDE DEF x
    <2>4. Read(p, q, FlattenSeq(x.val)) /\ q.val = With(p.val, f, x.val)
      BY <2>1, <2>3, FieldRead
    <2> QED BY <2>3, <2>4, ReadOK
  <1> QED BY <1>1 DEF OK

\* An option of the config is there when its bit is set.
OptionFits(mask, v, f) ==
    /\ MaskHas(mask, f) <=> v # <<>>
    /\ v # <<>> => Len(v) = 1 /\ Shifted(v[1], FieldSize[f]) = 0
OptionEncoded(v, f) == IF v = <<>> THEN <<>> ELSE WriteUint(v[1], FieldSize[f])
Options(mask) ==
    {t \in Nat \X Seq(Nat) \X Seq(Byte) :
        t[1] \in 1 .. 4 /\ OptionFits(mask, t[2], t[1]) /\ t[3] = OptionEncoded(t[2], t[1])}

LEMMA ReadOptionRead ==
    ASSUME NEW p, OK(p), NEW mask, NEW f \in 1 .. 4, NEW q, q = ReadOption(mask, p, f), q.err = "nil"
    PROVE  /\ Read(p, q, OptionEncoded(q.val, f)) /\ q.val \in Seq(Nat) /\ OptionFits(mask, q.val, f)
  <1>1. CASE ~MaskHas(mask, f)
    <2>1. q = Value(p, <<>>)
      BY <1>1 DEF ReadOption
    <2>2. p.err = "nil" /\ q.val = <<>> /\ Read(p, q, <<>>)
      BY <2>1, ReadyValue
    <2>3. OptionEncoded(<<>>, f) = <<>> /\ OptionFits(mask, <<>>, f) /\ <<>> \in Seq(Nat)
      BY <1>1 DEF OptionEncoded, OptionFits
    <2> QED BY <2>2, <2>3
  <1>2. CASE MaskHas(mask, f)
    <2> DEFINE l == FieldSize[f]
               r == ReadUint(p, l)
               v == r.val
    <2>1. l \in Nat
      BY FieldSizes
    <2>2. q = Value(r, <<r.val>>)
      BY <1>2 DEF ReadOption
    <2>3. r.err = "nil"
      <3> SUFFICES ASSUME r.err # "nil" PROVE FALSE
        OBVIOUS
      <3>1. q = r
        BY <2>2 DEF Value
      <3> QED BY <3>1
    <2> HIDE DEF l
    <2>4. Read(p, r, WriteUint(v, l)) /\ v \in Nat /\ Shifted(v, l) = 0
      BY <2>1, <2>3, ReadUintRead
    <2> HIDE DEF r
    <2>5. Read(p, q, WriteUint(v, l)) /\ q.val = <<v>>
      BY <2>2, <2>4, ReadValue
    <2> HIDE DEF v
    <2>6. OptionEncoded(<<v>>, f) = WriteUint(v, l)
      BY DEF OptionEncoded, l
    <2>7. OptionFits(mask, <<v>>, f) /\ <<v>> \in Seq(Nat)
      BY <1>2, <2>4 DEF OptionFits, l
    <2> QED BY <2>5, <2>6, <2>7
  <1> QED BY <1>1, <1>2

LEMMA OptionItemsRead ==
    ASSUME NEW p, OK(p), NEW mask, NEW q, q = OptionItems(p, 4, mask), q.err = "nil"
    PROVE  /\ p.err = "nil" /\ FullConfig(q.val)
           /\ \A f \in 1 .. 4 : MaskHas(mask, f) <=> q.val[f] # <<>>
           /\ Read(p, q, MarshalConfig(q.val))
  <1> DEFINE R == Options(mask)
             c == 4
  <1>1. p.err = "nil"
    BY DEF OptionItems, ReadItems
  <1>2. Ready(p) /\ c \in Nat
    BY <1>1 DEF OK
  <1>3. PICK r : /\ r[0] = Value(p, <<>>) /\ OptionItems(p, c, mask) = r[c]
                 /\ \A i \in 1 .. c : r[i] = Push(r[i - 1], ReadOption(mask, r[i - 1], i))
    <2> HIDE DEF c
    <2> QED BY <1>1, <1>2, OptionUnfold
  <1>4. ASSUME NEW i \in 1 .. c PROVE ItemStep(r[i - 1], r[i], i, R)
    <2> DEFINE y == r[i - 1]
               x == ReadOption(mask, y, i)
               e == OptionEncoded(x.val, i)
    <2>1. r[i] = Push(y, x)
      BY <1>3
    <2> HIDE DEF y
    <2>2. ASSUME OK(y), x.err = "nil" PROVE Read(y, x, e) /\ <<i, x.val, e>> \in R
      <3>1. Read(y, x, e) /\ x.val \in Seq(Nat) /\ OptionFits(mask, x.val, i)
        BY <2>2, ReadOptionRead
      <3>2. e = OptionEncoded(x.val, i)
        OBVIOUS
      <3> HIDE DEF x, e
      <3>3. e \in Seq(Byte) /\ i \in Nat
        BY <3>1, ReadOK
      <3> QED BY <3>1, <3>2, <3>3 DEF Options
    <2> HIDE DEF x, e, R
    <2> QED BY <2>1, <2>2 DEF ItemStep, y
  <1>5. R \subseteq Nat \X Seq(Nat) \X Seq(Byte)
    BY DEF Options
  <1> HIDE DEF R
  <1>6. PICK es : ItemsUpTo(p, r[c], c, Seq(Nat), R, es)
    <2>1. r[c].err = "nil"
      BY <1>3
    <2> HIDE DEF c
    <2> QED BY <1>2, <1>3, <1>4, <1>5, <2>1, ItemsRead
  <1> DEFINE v == q.val
  <1>7. /\ es \in Seq(Seq(Byte)) /\ Len(es) = 4 /\ v \in Seq(Seq(Nat)) /\ Len(v) = 4
        /\ \A j \in 1 .. 4 : <<j, v[j], es[j]>> \in R
        /\ Read(p, q, FlattenSeq(es))
    BY <1>3, <1>6 DEF ItemsUpTo
  <1> HIDE DEF v
  <1>8. ASSUME NEW j \in 1 .. 4
        PROVE  es[j] = OptionEncoded(v[j], j) /\ OptionFits(mask, v[j], j)
    <2>1. <<j, v[j], es[j]>> \in R
      BY <1>7
    <2> QED BY <2>1 DEF R, Options
  <1>9. FullConfig(v) /\ \A f \in 1 .. 4 : MaskHas(mask, f) <=> v[f] # <<>>
    BY <1>7, <1>8 DEF FullConfig, OptionFits
  <1>10. /\ OptionsOf(v) \in Seq(Seq(Byte)) /\ Len(OptionsOf(v)) = 4
         /\ \A f \in 1 .. 4 : OptionsOf(v)[f] = OptionBytes(v, f)
         /\ FlattenSeq(OptionsOf(v)) = MarshalConfig(v)
    BY <1>9, OptionsFact
  <1>11. \A j \in 1 .. 4 : es[j] = OptionsOf(v)[j]
    BY <1>8, <1>10 DEF OptionBytes, OptionEncoded
  <1>12. es = OptionsOf(v)
    BY <1>7, <1>10, <1>11, SameSequence
  <1> QED BY <1>1, <1>7, <1>9, <1>10, <1>12 DEF v

\* The mask is the one of the config that was read by it.
LEMMA MaskOfBits ==
    ASSUME NEW b1 \in {0, 3}, NEW b2 \in {0, 4}, NEW b3 \in {0, 8}, NEW b4 \in {0, 16},
           NEW s \in 0 .. 31, s % 4 \notin {1, 2},
           s % 4 # 0 <=> b1 # 0, (s \div 4) % 2 = 1 <=> b2 # 0,
           (s \div 8) % 2 = 1 <=> b3 # 0, (s \div 16) % 2 = 1 <=> b4 # 0
    PROVE  s = b1 + b2 + b3 + b4
  OBVIOUS

LEMMA MaskOfConfig ==
    ASSUME NEW c, FullConfig(c), NEW s \in Nat, MaskValid(s),
           \A f \in 1 .. 4 : MaskHas(s, f) <=> c[f] # <<>>
    PROVE  Mask(c) = s
  <1> DEFINE b(f) == IF c # <<>> /\ c[f] # <<>> THEN FieldMask[f] ELSE 0
  <1>0. c # <<>>
    <2>1. Len(c) = 4
      BY Zenon DEF FullConfig
    <2> QED BY <2>1
  <1>1. FieldMask[1] = 3 /\ FieldMask[2] = 4 /\ FieldMask[3] = 8 /\ FieldMask[4] = 16
    BY DEF FieldMask
  <1>2. \A f \in 1 .. 4 : b(f) \in {0, FieldMask[f]} /\ (b(f) # 0 <=> c[f] # <<>>)
    <2> TAKE f \in 1 .. 4
    <2> FieldMask[f] # 0
      <3> f = 1 \/ f = 2 \/ f = 3 \/ f = 4
        OBVIOUS
      <3> QED BY <1>1
    <2> QED BY <1>0
  <1>3. Mask(c) = b(1) + b(2) + b(3) + b(4)
    BY DEF Mask
  <1> HIDE DEF b
  <1>4. /\ b(1) \in {0, 3} /\ b(2) \in {0, 4} /\ b(3) \in {0, 8} /\ b(4) \in {0, 16}
    BY <1>1, <1>2
  <1>5. s \in 0 .. 31 /\ s % 4 \notin {1, 2}
    <2>1. s < 32 /\ s % 4 \notin {1, 2}
      BY Zenon DEF MaskValid
    <2> QED BY <2>1
  <1>6. \A f \in 1 .. 4 : MaskHas(s, f) <=> b(f) # 0
    BY <1>2
  <1>7. MaskHas(s, 1) <=> s % 4 # 0
    BY DEF MaskHas
  <1>8. MaskHas(s, 2) <=> (s \div 4) % 2 = 1
    BY <1>1 DEF MaskHas
  <1>9. MaskHas(s, 3) <=> (s \div 8) % 2 = 1
    BY <1>1 DEF MaskHas
  <1>10. MaskHas(s, 4) <=> (s \div 16) % 2 = 1
    BY <1>1 DEF MaskHas
  <1>11. /\ s % 4 # 0 <=> b(1) # 0
         /\ (s \div 4) % 2 = 1 <=> b(2) # 0
         /\ (s \div 8) % 2 = 1 <=> b(3) # 0
         /\ (s \div 16) % 2 = 1 <=> b(4) # 0
    BY <1>6, <1>7, <1>8, <1>9, <1>10
  <1>12. s = b(1) + b(2) + b(3) + b(4)
    <2> DEFINE b1 == b(1)
               b2 == b(2)
               b3 == b(3)
               b4 == b(4)
    <2>1. /\ b1 \in {0, 3} /\ b2 \in {0, 4} /\ b3 \in {0, 8} /\ b4 \in {0, 16}
          /\ s % 4 # 0 <=> b1 # 0
          /\ (s \div 4) % 2 = 1 <=> b2 # 0
          /\ (s \div 8) % 2 = 1 <=> b3 # 0
          /\ (s \div 16) % 2 = 1 <=> b4 # 0
      BY Zenon, <1>4, <1>11
    <2> HIDE DEF b1, b2, b3, b4
    <2>2. s = b1 + b2 + b3 + b4
      BY <1>5, <2>1, MaskOfBits
    <2> QED BY <2>2 DEF b1, b2, b3, b4
  <1> QED BY <1>3, <1>12


\* The head of a v1 instruction: program, number of accounts, length of the data.
Heads == {h \in Seq(Nat) : Len(h) = 3 /\ h[1] \in Byte /\ h[2] \in Byte /\ h[3] \in 0 .. MaxU16}
HeadEncoded(h) == <<h[1], h[2]>> \o WriteUint(h[3], 2)
EncodedHeads(c) ==
    {t \in Nat \X Heads \X Seq(Byte) : t[1] \in 1 .. c /\ t[3] = HeadEncoded(t[2])}

LEMMA U16Fits ==
    ASSUME NEW v \in Nat, Shifted(v, 2) = 0
    PROVE  v \in 0 .. MaxU16
  <1> DEFINE d == v \div ByteMod
             e == d \div ByteMod
  <1>1. Shifted(v, 0 + 1) = Shifted(v, 0) \div ByteMod /\ Shifted(v, 1 + 1) = Shifted(v, 1) \div ByteMod
    BY ShiftedNext, 0 \in Nat, 1 \in Nat
  <1>2. e = 0
    BY <1>1, ShiftedZero
  <1>3. d \in Nat /\ v % ByteMod \in Byte /\ (v % ByteMod) + ByteMod * d = v
    BY ByteDivMod
  <1> HIDE DEF d
  <1>4. d % ByteMod \in Byte /\ (d % ByteMod) + ByteMod * e = d
    BY <1>3, ByteDivMod
  <1> HIDE DEF e
  <1>5. ByteMod \in Nat /\ ByteMod * 0 = 0 /\ Byte = 0 .. ByteMod - 1 /\ ByteMod >= 1
    BY Sizes DEF Byte
  <1>6. d \in Byte
    BY <1>2, <1>4, <1>5
  <1> DEFINE x == v % ByteMod
             B == ByteMod
  <1>7. x \in 0 .. B - 1 /\ d \in 0 .. B - 1 /\ x + B * d = v /\ B \in Nat
    BY <1>3, <1>5, <1>6
  <1>8. MaxU16 = B * B - 1
    BY DEF MaxU16
  <1> HIDE DEF x, B
  <1>9. B * d <= B * (B - 1)
    BY <1>7
  <1>10. B * (B - 1) = B * B - B /\ B * B \in Nat /\ B * d \in Nat
    BY <1>7
  <1>11. v <= B * B - 1
    BY <1>7, <1>9, <1>10
  <1> QED BY <1>8, <1>10, <1>11

LEMMA AppendFacts ==
    ASSUME NEW t \in Seq(Nat), NEW d \in Nat
    PROVE  /\ Append(t, d) \in Seq(Nat) /\ Len(Append(t, d)) = Len(t) + 1
           /\ Append(t, d)[Len(t) + 1] = d /\ \A i \in 1 .. Len(t) : Append(t, d)[i] = t[i]
  <1>1. Append(t, d) \in Seq(Nat)
    OBVIOUS
  <1>2. Len(Append(t, d)) = Len(t) + 1
    OBVIOUS
  <1>3. Append(t, d)[Len(t) + 1] = d
    OBVIOUS
  <1>4. \A i \in 1 .. Len(t) : Append(t, d)[i] = t[i]
    OBVIOUS
  <1> QED BY <1>1, <1>2, <1>3, <1>4

LEMMA BytesAreNat ==
    ASSUME NEW s \in Seq(Byte)
    PROVE  s \in Seq(Nat)
  <1>1. \A x \in Byte : x \in Nat
    BY Sizes DEF Byte
  <1>2. \A i \in 1 .. Len(s) : s[i] \in Nat
    BY <1>1
  <1> QED BY <1>2

LEMMA AppendTwo ==
    ASSUME NEW t \in Seq(Nat), Len(t) = 2, NEW d \in Nat
    PROVE  LET a == Append(t, d)
           IN  a \in Seq(Nat) /\ Len(a) = 3 /\ a[1] = t[1] /\ a[2] = t[2] /\ a[3] = d
  <1> DEFINE a == Append(t, d)
  <1>1. /\ a \in Seq(Nat) /\ Len(a) = Len(t) + 1 /\ a[Len(t) + 1] = d
        /\ \A i \in 1 .. Len(t) : a[i] = t[i]
    BY AppendFacts
  <1> HIDE DEF a
  <1>2. a \in Seq(Nat) /\ Len(a) = 3 /\ a[1] = t[1] /\ a[2] = t[2] /\ a[3] = d
    BY <1>1
  <1> QED BY <1>2 DEF a

LEMMA ReadHeadRead ==
    ASSUME NEW p, OK(p), NEW i, NEW q, q = ReadHead(p, i), q.err = "nil"
    PROVE  Read(p, q, HeadEncoded(q.val)) /\ q.val \in Heads
  <1> DEFINE h == U8Items(p, 2)
             u == ReadUint(h, 2)
             s == h.val
             d == u.val
  <1>1. q = Value(u, Append(s, d))
    BY DEF ReadHead, U8Items, Push
  <1>2. u.err = "nil"
    <2> SUFFICES ASSUME u.err # "nil" PROVE FALSE
      OBVIOUS
    <2>1. q = u
      BY <1>1 DEF Value
    <2> QED BY <2>1
  <1>3. h.err = "nil"
    <2>1. ASSUME h.err # "nil" PROVE FALSE
      <3>1. ReadBytes(h, 2) = h
        BY <2>1 DEF ReadBytes
      <3>2. u = h
        BY <2>1, <3>1 DEF ReadUint, Value
      <3> QED BY <1>2, <2>1, <3>2
    <2> QED BY <2>1
  <1>4. 2 \in Nat
    OBVIOUS
  <1>5. Read(p, h, s) /\ s \in Seq(Byte) /\ Len(s) = 2
    BY <1>3, <1>4, U8ItemsRead
  <1>6. OK(h)
    BY <1>5, ReadOK
  <1> HIDE DEF h
  <1>7. Read(h, u, WriteUint(d, 2)) /\ d \in Nat /\ Shifted(d, 2) = 0
    BY <1>2, <1>4, <1>6, ReadUintRead
  <1> HIDE DEF u
  <1>8. Read(p, u, s \o WriteUint(d, 2))
    BY <1>5, <1>7, ReadThenRead
  <1> HIDE DEF s, d
  <1> DEFINE v == Append(s, d)
             e == s \o WriteUint(d, 2)
  <1>9. Read(p, q, e) /\ q.val = v
    <2> HIDE DEF v, e
    <2>1. q = Value(u, v) /\ Read(p, u, e)
      BY <1>1, <1>8 DEF v, e
    <2> QED BY <2>1, ReadValue
  <1>10. d \in 0 .. MaxU16
    BY <1>7, U16Fits
  <1>11. s = <<s[1], s[2]>> /\ s[1] \in Byte /\ s[2] \in Byte /\ s \in Seq(Nat)
    <2>1. s \in Seq(Nat)
      BY <1>5, BytesAreNat
    <2>2. s = <<s[1], s[2]>> /\ s[1] \in Byte /\ s[2] \in Byte
      BY <1>5
    <2> QED BY <2>1, <2>2
  <1>13. v \in Seq(Nat) /\ Len(v) = 3 /\ v[1] = s[1] /\ v[2] = s[2] /\ v[3] = d
    BY <1>5, <1>7, <1>11, AppendTwo
  <1> HIDE DEF v
  <1>14. v \in Heads
    BY <1>10, <1>11, <1>13 DEF Heads
  <1>15. HeadEncoded(v) = e
    BY <1>11, <1>13 DEF HeadEncoded
  <1> QED BY <1>9, <1>14, <1>15

LEMMA HeadItemsRead ==
    ASSUME NEW p, OK(p), NEW c \in Nat, NEW q, q = HeadItems(p, c), q.err = "nil"
    PROVE  /\ p.err = "nil" /\ q.val \in Seq(Heads) /\ Len(q.val) = c
           /\ \E es \in Seq(Seq(Byte)) : /\ Len(es) = c /\ \A j \in 1 .. c : es[j] = HeadEncoded(q.val[j])
                                         /\ Read(p, q, FlattenSeq(es))
  <1> DEFINE R == EncodedHeads(c)
  <1>1. p.err = "nil"
    BY DEF HeadItems, ReadItems
  <1>2. Ready(p)
    BY <1>1 DEF OK
  <1>3. PICK r : /\ r[0] = Value(p, <<>>) /\ HeadItems(p, c) = r[c]
                 /\ \A i \in 1 .. c : r[i] = Push(r[i - 1], ReadHead(r[i - 1], i))
    BY <1>1, HeadUnfold
  <1>4. ASSUME NEW i \in 1 .. c PROVE ItemStep(r[i - 1], r[i], i, R)
    <2> DEFINE y == r[i - 1]
               x == ReadHead(y, i)
               e == HeadEncoded(x.val)
    <2>1. r[i] = Push(y, x)
      BY <1>3
    <2> HIDE DEF y
    <2>2. ASSUME OK(y), x.err = "nil" PROVE Read(y, x, e) /\ <<i, x.val, e>> \in R
      <3>1. Read(y, x, e) /\ x.val \in Heads
        BY <2>2, ReadHeadRead
      <3>2. e = HeadEncoded(x.val)
        OBVIOUS
      <3> HIDE DEF x, e
      <3>3. e \in Seq(Byte) /\ i \in Nat
        BY <3>1, ReadOK
      <3> QED BY <3>1, <3>2, <3>3 DEF EncodedHeads
    <2> HIDE DEF x, e, R
    <2> QED BY <2>1, <2>2 DEF ItemStep, y
  <1>5. R \subseteq Nat \X Heads \X Seq(Byte)
    BY DEF EncodedHeads
  <1> HIDE DEF R
  <1>6. PICK es : ItemsUpTo(p, r[c], c, Heads, R, es)
    BY <1>2, <1>3, <1>4, <1>5, ItemsRead
  <1> DEFINE vals == q.val
  <1>7. /\ es \in Seq(Seq(Byte)) /\ Len(es) = c /\ vals \in Seq(Heads) /\ Len(vals) = c
        /\ \A j \in 1 .. c : <<j, vals[j], es[j]>> \in R
        /\ Read(p, q, FlattenSeq(es))
    BY <1>3, <1>6 DEF ItemsUpTo
  <1> HIDE DEF vals
  <1>8. ASSUME NEW j \in 1 .. c PROVE es[j] = HeadEncoded(vals[j])
    <2>1. <<j, vals[j], es[j]>> \in R
      BY <1>7
    <2> QED BY <2>1 DEF R, EncodedHeads
  <1> QED BY <1>1, <1>7, <1>8 DEF vals

\* The body of an instruction is as long as its head says.
HasHead(ix, h) == ix.program = h[1] /\ Len(ix.accounts) = h[2] /\ Len(ix.data) = h[3]

LEMMA ReadBodyRead ==
    ASSUME NEW p, OK(p), NEW h \in Heads, NEW q, q = ReadBody(h, p), q.err = "nil"
    PROVE  Read(p, q, BodyBytes(q.val)) /\ q.val \in Instruction /\ HasHead(q.val, h)
  <1> DEFINE v0 == [program |-> h[1], accounts |-> <<>>, data |-> <<>>]
             p0 == Value(p, v0)
             p1 == BytesField(p0, "accounts", h[2])
  <1>0. h[1] \in Byte /\ h[2] \in Nat /\ h[3] \in Nat
    BY Sizes DEF Heads, Byte, MaxU16
  <1>1. q = BytesField(p1, "data", h[3])
    BY DEF ReadBody
  <1>2. OK(p0) /\ p0.err = p.err /\ (p.err = "nil" => p0.val = v0 /\ Read(p, p0, <<>>))
    BY ReadyValue
  <1> HIDE DEF p0
  <1>3. /\ OK(p1)
        /\ p1.err = "nil" => /\ p0.err = "nil"
                             /\ \E v \in OfSize(h[2]) : /\ Read(p0, p1, v)
                                                        /\ p1.val = With(p0.val, "accounts", v)
    BY <1>0, <1>2, BytesFieldRead
  <1> HIDE DEF p1
  <1>4. /\ p1.err = "nil"
        /\ \E v \in OfSize(h[3]) : Read(p1, q, v) /\ q.val = With(p1.val, "data", v)
    BY <1>0, <1>1, <1>3, BytesFieldRead
  <1>5. p.err = "nil" /\ p0.val = v0 /\ Read(p, p0, <<>>)
    BY <1>2, <1>3, <1>4
  <1>6. PICK a \in OfSize(h[2]) : Read(p0, p1, a) /\ p1.val = With(p0.val, "accounts", a)
    BY <1>3, <1>4
  <1>7. PICK d \in OfSize(h[3]) : Read(p1, q, d) /\ q.val = With(p1.val, "data", d)
    BY <1>4
  <1>8. a \in Seq(Byte) /\ Len(a) = h[2] /\ d \in Seq(Byte) /\ Len(d) = h[3]
    BY <1>0, FixedBytes
  <1>9. q.val = [program |-> h[1], accounts |-> a, data |-> d]
    <2>1. p1.val = [program |-> h[1], accounts |-> a, data |-> <<>>]
      BY <1>5, <1>6 DEF With
    <2> QED BY <1>7, <2>1 DEF With
  <1>10. Read(p, q, (<<>> \o a) \o d)
    <2>1. Read(p, p1, <<>> \o a)
      BY <1>5, <1>6, ReadThenRead
    <2> QED BY <1>7, <2>1, ReadThenRead
  <1>11. <<>> \o a = a
    BY <1>8
  <1>12. q.val \in Instruction /\ q.val.accounts = a /\ q.val.data = d /\ q.val.program = h[1]
    BY <1>0, <1>8, <1>9 DEF Instruction
  <1>13. BodyBytes(q.val) = a \o d /\ HasHead(q.val, h)
    BY <1>8, <1>12 DEF BodyBytes, HasHead
  <1> QED BY <1>10, <1>11, <1>12, <1>13

EncodedBodies(c, a) ==
    {t \in Nat \X Instruction \X Seq(Byte) :
        t[1] \in 1 .. c /\ t[3] = BodyBytes(t[2]) /\ HasHead(t[2], a[t[1]])}

LEMMA BodyItemsRead ==
    ASSUME NEW p, OK(p), NEW c \in Nat, NEW a \in Seq(Heads), Len(a) = c,
           NEW q, q = BodyItems(p, c, a), q.err = "nil"
    PROVE  /\ p.err = "nil" /\ q.val \in Seq(Instruction) /\ Len(q.val) = c
           /\ \A j \in 1 .. c : HasHead(q.val[j], a[j])
           /\ \E es \in Seq(Seq(Byte)) : /\ Len(es) = c /\ \A j \in 1 .. c : es[j] = BodyBytes(q.val[j])
                                         /\ Read(p, q, FlattenSeq(es))
  <1> DEFINE R == EncodedBodies(c, a)
  <1>1. p.err = "nil"
    BY DEF BodyItems, ReadItems
  <1>2. Ready(p)
    BY <1>1 DEF OK
  <1>3. PICK r : BodySteps(r, p, c, a)
    BY <1>1, BodyUnfold
  <1>3a. /\ r[0] = Value(p, <<>>) /\ BodyItems(p, c, a) = r[c]
         /\ \A i \in 1 .. c : r[i] = Push(r[i - 1], ReadBody(a[i], r[i - 1]))
    BY <1>3 DEF BodySteps
  <1>4. ASSUME NEW i \in 1 .. c PROVE ItemStep(r[i - 1], r[i], i, R)
    <2> DEFINE y == r[i - 1]
               h == a[i]
               x == ReadBody(h, y)
               e == BodyBytes(x.val)
    <2>0. h \in Heads
      OBVIOUS
    <2>1. r[i] = Push(y, x)
      BY <1>3a
    <2> HIDE DEF y
    <2>2. ASSUME OK(y), x.err = "nil" PROVE Read(y, x, e) /\ <<i, x.val, e>> \in R
      <3>1. Read(y, x, e) /\ x.val \in Instruction /\ HasHead(x.val, h)
        <4> HIDE DEF h
        <4> QED BY <2>0, <2>2, ReadBodyRead
      <3>2. e = BodyBytes(x.val)
        OBVIOUS
      <3> HIDE DEF x, e
      <3>3. e \in Seq(Byte) /\ i \in Nat
        BY <3>1, ReadOK
      <3> QED BY <3>1, <3>2, <3>3 DEF EncodedBodies
    <2> HIDE DEF x, e, R
    <2> QED BY <2>1, <2>2 DEF ItemStep, y
  <1>5. R \subseteq Nat \X Instruction \X Seq(Byte)
    BY DEF EncodedBodies
  <1> HIDE DEF R
  <1>6. PICK es : ItemsUpTo(p, r[c], c, Instruction, R, es)
    BY <1>2, <1>3a, <1>4, <1>5, ItemsRead
  <1> DEFINE vals == q.val
  <1>7. /\ es \in Seq(Seq(Byte)) /\ Len(es) = c /\ vals \in Seq(Instruction) /\ Len(vals) = c
        /\ \A j \in 1 .. c : <<j, vals[j], es[j]>> \in R
        /\ Read(p, q, FlattenSeq(es))
    BY <1>3a, <1>6 DEF ItemsUpTo
  <1> HIDE DEF vals
  <1>8. ASSUME NEW j \in 1 .. c PROVE es[j] = BodyBytes(vals[j]) /\ HasHead(vals[j], a[j])
    <2>1. <<j, vals[j], es[j]>> \in R
      BY <1>7
    <2> QED BY <2>1 DEF R, EncodedBodies
  <1> QED BY <1>1, <1>7, <1>8 DEF vals


\* A v1 message whose counts fit is not refused.
LEMMA MarshalledParts ==
    ASSUME NEW m \in Message, m.version = V1, m.lookups = <<>>, Len(m.keys) <= MaxU8,
           Len(m.ixs) <= MaxU8, InstructionsFitV1(m.ixs)
    PROVE  Marshal(m) = (((((((<<Cont + V1>> \o m.header) \o MaskOf(m)) \o m.hash) \o CountsOf(m))
                            \o FlattenSeq(m.keys)) \o MarshalConfig(m.config))
                          \o FlattenSeq(HeadBytesOf(m))) \o FlattenSeq(BodyBytesOf(m))
  <1>1. /\ m.keys \in Seq(OfSize(KeySize)) /\ m.ixs \in Seq(Instruction)
        /\ Len(m.keys) \in Nat /\ Len(m.ixs) \in Nat /\ MaxU8 \in Nat /\ MaxU16 \in Int
    <2>1. m.keys \in Seq(OfSize(KeySize)) /\ m.ixs \in Seq(Instruction)
      BY MessageParts
    <2>2. MaxU8 \in Nat /\ MaxU16 \in Int
      BY Sizes DEF MaxU16
    <2> QED BY <2>1, <2>2
  <1>2. ~(Len(m.keys) > MaxU8) /\ ~(Len(m.ixs) > MaxU8)
    BY <1>1
  <1>3. ASSUME NEW x \in ToSet(m.ixs) PROVE ~(Len(x.accounts) > MaxU8 \/ Len(x.data) > MaxU16)
    <2>1. PICK i \in 1 .. Len(m.ixs) : x = m.ixs[i]
      BY <1>1 DEF ToSet
    <2>2. x \in Instruction /\ Len(x.accounts) <= MaxU8 /\ Len(x.data) <= MaxU16
      BY <1>1, <2>1 DEF InstructionsFitV1
    <2>3. x.accounts \in Seq(Byte) /\ x.data \in Seq(Byte)
      BY <2>2 DEF Instruction
    <2>4. Len(x.accounts) \in Nat /\ Len(x.data) \in Nat
      BY <2>3
    <2> QED BY <1>1, <2>2, <2>4
  <1>4. Validate(m)
    BY DEF Validate
  <1>5. Marshal(m) = MarshalV1(m)
    BY <1>4 DEF Marshal, MarshalInto
  <1>6. ~(\/ Len(m.keys) > MaxU8 \/ Len(m.ixs) > MaxU8
          \/ \E ix \in ToSet(m.ixs) : Len(ix.accounts) > MaxU8 \/ Len(ix.data) > MaxU16)
    BY <1>2, <1>3
  <1>7. [i \in DOMAIN m.ixs |-> <<m.ixs[i].program, Len(m.ixs[i].accounts)>>
                                \o WriteUint(Len(m.ixs[i].data), 2)] = HeadBytesOf(m)
    BY DEF HeadBytesOf, HeadBytes
  <1>8. [i \in DOMAIN m.ixs |-> m.ixs[i].accounts \o m.ixs[i].data] = BodyBytesOf(m)
    BY DEF BodyBytesOf, BodyBytes
  <1>9. MarshalV1(m) = (((((((<<Cont + V1>> \o m.header) \o MaskOf(m)) \o m.hash) \o CountsOf(m))
                            \o FlattenSeq(m.keys)) \o MarshalConfig(m.config))
              \o FlattenSeq([i \in DOMAIN m.ixs |-> <<m.ixs[i].program, Len(m.ixs[i].accounts)>>
                                \o WriteUint(Len(m.ixs[i].data), 2)]))
              \o FlattenSeq([i \in DOMAIN m.ixs |-> m.ixs[i].accounts \o m.ixs[i].data])
    BY <1>6 DEF MarshalV1, MaskOf, CountsOf
  <1> QED BY <1>5, <1>7, <1>8, <1>9

\* Heads and bodies that were read are those of the instructions.
LEMMA HeadsRead ==
    ASSUME NEW ixs \in Seq(Instruction), NEW heads \in Seq(Heads), Len(heads) = Len(ixs),
           \A j \in 1 .. Len(ixs) : HasHead(ixs[j], heads[j])
    PROVE  /\ InstructionsFitV1(ixs)
           /\ \A j \in 1 .. Len(ixs) : HeadEncoded(heads[j]) = HeadBytes(ixs[j])
  <1>1. ASSUME NEW j \in 1 .. Len(ixs)
        PROVE  /\ Len(ixs[j].accounts) <= MaxU8 /\ Len(ixs[j].data) <= MaxU16
               /\ HeadEncoded(heads[j]) = HeadBytes(ixs[j])
    <2> DEFINE x == ixs[j]
               h == heads[j]
    <2>1. h \in Heads /\ HasHead(x, h)
      BY <1>1
    <2> HIDE DEF x, h
    <2>2. h[2] \in Byte /\ h[3] \in 0 .. MaxU16
      BY <2>1 DEF Heads
    <2>3. h[2] <= MaxU8 /\ h[3] <= MaxU16
      BY <2>2 DEF Byte
    <2>4. Len(x.accounts) = h[2] /\ Len(x.data) = h[3] /\ x.program = h[1]
      BY <2>1 DEF HasHead
    <2>5. HeadEncoded(h) = HeadBytes(x)
      BY <2>4 DEF HeadEncoded, HeadBytes
    <2> QED BY <2>3, <2>4, <2>5 DEF x, h
  <1> QED BY <1>1 DEF InstructionsFitV1

ReadV1(header, mask, hash, counts, keys, config, hs, bs) ==
    (((((((<<Cont + V1>> \o header) \o WriteUint(mask, U32Size)) \o hash) \o counts)
         \o FlattenSeq(keys)) \o MarshalConfig(config)) \o FlattenSeq(hs)) \o FlattenSeq(bs)

LEMMA PairOfBytes ==
    ASSUME NEW s \in Seq(Byte), Len(s) = 2
    PROVE  s = <<s[1], s[2]>> /\ s[1] \in Byte /\ s[2] \in Byte
  <1>1. \A i \in 1 .. Len(s) : s[i] \in Byte
    OBVIOUS
  <1>2. s[1] \in Byte /\ s[2] \in Byte
    BY <1>1
  <1>3. s = <<s[1], s[2]>>
    OBVIOUS
  <1> QED BY <1>2, <1>3

\* What was read of a v1 message belongs together.
PartsRead(header, mask, hash, counts, keys, config, heads, ixs, hs, bs) ==
    /\ header \in OfSize(3) /\ hash \in OfSize(HashSize) /\ counts \in Seq(Byte) /\ Len(counts) = 2
    /\ keys \in Seq(OfSize(KeySize)) /\ counts[2] = Len(keys)
    /\ FullConfig(config) /\ Mask(config) = mask
    /\ ixs \in Seq(Instruction) /\ counts[1] = Len(ixs)
    /\ heads \in Seq(Heads) /\ Len(heads) = Len(ixs)
    /\ \A j \in 1 .. Len(ixs) : HasHead(ixs[j], heads[j])
    /\ hs \in Seq(Seq(Byte)) /\ Len(hs) = Len(ixs)
    /\ \A j \in 1 .. Len(ixs) : hs[j] = HeadEncoded(heads[j])
    /\ bs \in Seq(Seq(Byte)) /\ Len(bs) = Len(ixs)
    /\ \A j \in 1 .. Len(ixs) : bs[j] = BodyBytes(ixs[j])

LEMMA EncodedV1 ==
    ASSUME NEW header, NEW mask, NEW hash, NEW counts, NEW keys, NEW config, NEW heads, NEW ixs,
           NEW hs, NEW bs, PartsRead(header, mask, hash, counts, keys, config, heads, ixs, hs, bs),
           NEW m, m = [version |-> V1, header |-> header, keys |-> keys, hash |-> hash, ixs |-> ixs,
                       lookups |-> <<>>, config |-> config]
    PROVE  /\ m \in Message /\ ConfigFits(m) /\ Validate(m)
           /\ Marshal(m) = ReadV1(header, mask, hash, counts, keys, config, hs, bs)
  <1>0. /\ header \in OfSize(3) /\ hash \in OfSize(HashSize) /\ counts \in Seq(Byte) /\ Len(counts) = 2
        /\ keys \in Seq(OfSize(KeySize)) /\ counts[2] = Len(keys)
        /\ FullConfig(config) /\ Mask(config) = mask
        /\ ixs \in Seq(Instruction) /\ counts[1] = Len(ixs)
        /\ heads \in Seq(Heads) /\ Len(heads) = Len(ixs)
        /\ \A j \in 1 .. Len(ixs) : HasHead(ixs[j], heads[j])
        /\ hs \in Seq(Seq(Byte)) /\ Len(hs) = Len(ixs)
        /\ \A j \in 1 .. Len(ixs) : hs[j] = HeadEncoded(heads[j])
        /\ bs \in Seq(Seq(Byte)) /\ Len(bs) = Len(ixs)
        /\ \A j \in 1 .. Len(ixs) : bs[j] = BodyBytes(ixs[j])
    BY DEF PartsRead
  <1>1. config \in Seq(Seq(Nat)) /\ V1 \in Byte /\ <<>> \in Seq(AddressTableLookup)
    BY <1>0, Sizes DEF FullConfig, V1, Byte
  <1>2. m \in Message
    BY <1>0, <1>1 DEF Message
  <1>3. /\ m.version = V1 /\ m.header = header /\ m.keys = keys /\ m.hash = hash /\ m.ixs = ixs
        /\ m.lookups = <<>> /\ m.config = config
    OBVIOUS
  <1>4. ConfigFits(m)
    BY <1>0, <1>3 DEF ConfigFits, FullConfig
  <1>5. Validate(m)
    BY <1>3 DEF Validate
  <1>6. InstructionsFitV1(ixs) /\ \A j \in 1 .. Len(ixs) : HeadEncoded(heads[j]) = HeadBytes(ixs[j])
    BY <1>0, HeadsRead
  <1>7. counts = CountsOf(m) /\ Len(keys) <= MaxU8 /\ Len(ixs) <= MaxU8
    <2>1. counts = <<counts[1], counts[2]>> /\ counts[1] \in Byte /\ counts[2] \in Byte
      BY <1>0, PairOfBytes
    <2>2. CountsOf(m) = <<Len(ixs), Len(keys)>>
      BY <1>3 DEF CountsOf
    <2>3. \A x \in Byte : x <= MaxU8
      BY DEF Byte
    <2> QED BY <1>0, <2>1, <2>2, <2>3
  <1>8. HeadsEncoded(HeadBytesOf(m), ixs) /\ BodiesEncoded(BodyBytesOf(m), ixs)
    BY <1>2, <1>3, <1>6, HeadsAndBodies
  <1>9. hs = HeadBytesOf(m)
    <2> DEFINE t == HeadBytesOf(m)
    <2>1. t \in Seq(Seq(Byte)) /\ Len(t) = Len(ixs) /\ \A i \in 1 .. Len(ixs) : t[i] = HeadBytes(ixs[i])
      BY <1>8 DEF HeadsEncoded
    <2> HIDE DEF t
    <2>2. \A i \in 1 .. Len(hs) : hs[i] = t[i]
      BY <1>0, <1>6, <2>1
    <2>3. hs = t
      BY <1>0, <2>1, <2>2, SameSequence
    <2> QED BY <2>3 DEF t
  <1>10. bs = BodyBytesOf(m)
    <2> DEFINE t == BodyBytesOf(m)
    <2>1. t \in Seq(Seq(Byte)) /\ Len(t) = Len(ixs) /\ \A i \in 1 .. Len(ixs) : t[i] = BodyBytes(ixs[i])
      BY <1>8 DEF BodiesEncoded
    <2> HIDE DEF t
    <2>2. \A i \in 1 .. Len(bs) : bs[i] = t[i]
      BY <1>0, <2>1
    <2>3. bs = t
      BY <1>0, <2>1, <2>2, SameSequence
    <2> QED BY <2>3 DEF t
  <1>11. MaskOf(m) = WriteUint(mask, U32Size)
    BY <1>0, <1>3 DEF MaskOf
  <1>12. Marshal(m) = (((((((<<Cont + V1>> \o m.header) \o MaskOf(m)) \o m.hash) \o CountsOf(m))
                            \o FlattenSeq(m.keys)) \o MarshalConfig(m.config))
                          \o FlattenSeq(HeadBytesOf(m))) \o FlattenSeq(BodyBytesOf(m))
    BY <1>2, <1>3, <1>6, <1>7, MarshalledParts
  <1>13. Marshal(m) = ReadV1(header, mask, hash, counts, keys, config, hs, bs)
    BY Zenon, <1>3, <1>7, <1>9, <1>10, <1>11, <1>12 DEF ReadV1
  <1> QED BY <1>2, <1>4, <1>5, <1>13


\* The struct with its locals, field by field.
Struct(mask, counts, heads, header, keys, hash, ixs, config) ==
    [mask |-> mask, counts |-> counts, heads |-> heads, version |-> V1, header |-> header,
     keys |-> keys, hash |-> hash, ixs |-> ixs, lookups |-> <<>>, config |-> config]

LEMMA StructWith ==
    ASSUME NEW mask, NEW counts, NEW heads, NEW header, NEW keys, NEW hash, NEW ixs, NEW config,
           NEW v, NEW s, s = Struct(mask, counts, heads, header, keys, hash, ixs, config)
    PROVE  /\ With(s, "mask", v) = Struct(v, counts, heads, header, keys, hash, ixs, config)
           /\ With(s, "counts", v) = Struct(mask, v, heads, header, keys, hash, ixs, config)
           /\ With(s, "heads", v) = Struct(mask, counts, v, header, keys, hash, ixs, config)
           /\ With(s, "header", v) = Struct(mask, counts, heads, v, keys, hash, ixs, config)
           /\ With(s, "keys", v) = Struct(mask, counts, heads, header, v, hash, ixs, config)
           /\ With(s, "hash", v) = Struct(mask, counts, heads, header, keys, v, ixs, config)
           /\ With(s, "ixs", v) = Struct(mask, counts, heads, header, keys, hash, v, config)
           /\ With(s, "config", v) = Struct(mask, counts, heads, header, keys, hash, ixs, v)
  <1>1. With(s, "mask", v) = Struct(v, counts, heads, header, keys, hash, ixs, config)
    BY DEF With, Struct
  <1>2. With(s, "counts", v) = Struct(mask, v, heads, header, keys, hash, ixs, config)
    BY DEF With, Struct
  <1>3. With(s, "heads", v) = Struct(mask, counts, v, header, keys, hash, ixs, config)
    BY DEF With, Struct
  <1>4. With(s, "header", v) = Struct(mask, counts, heads, v, keys, hash, ixs, config)
    BY DEF With, Struct
  <1>5. With(s, "keys", v) = Struct(mask, counts, heads, header, v, hash, ixs, config)
    BY DEF With, Struct
  <1>6. With(s, "hash", v) = Struct(mask, counts, heads, header, keys, v, ixs, config)
    BY DEF With, Struct
  <1>7. With(s, "ixs", v) = Struct(mask, counts, heads, header, keys, hash, v, config)
    BY DEF With, Struct
  <1>8. With(s, "config", v) = Struct(mask, counts, heads, header, keys, hash, ixs, v)
    BY DEF With, Struct
  <1> QED BY <1>1, <1>2, <1>3, <1>4, <1>5, <1>6, <1>7, <1>8

LEMMA StructFields ==
    ASSUME NEW mask, NEW counts, NEW heads, NEW header, NEW keys, NEW hash, NEW ixs, NEW config,
           NEW s, s = Struct(mask, counts, heads, header, keys, hash, ixs, config)
    PROVE  /\ s.mask = mask /\ s.counts = counts /\ s.heads = heads
           /\ Stripped(s) = [version |-> V1, header |-> header, keys |-> keys, hash |-> hash,
                             ixs |-> ixs, lookups |-> <<>>, config |-> config]
  <1>1. s.mask = mask /\ s.counts = counts /\ s.heads = heads
    BY DEF Struct
  <1>2. Stripped(s) = [version |-> V1, header |-> header, keys |-> keys, hash |-> hash,
                       ixs |-> ixs, lookups |-> <<>>, config |-> config]
    BY DEF Struct, Stripped, EmptyMessage
  <1> QED BY <1>1, <1>2

\* An error in an earlier field is an error in every later one.
LEMMA LaterErr ==
    ASSUME NEW p
    PROVE  /\ KeysField(p).err = "nil" => p.err = "nil"
           /\ ConfigField(p).err = "nil" => p.err = "nil"
           /\ HeadsField(p).err = "nil" => p.err = "nil"
           /\ BodiesField(p).err = "nil" => p.err = "nil"
           /\ WithoutLocals(p).err = "nil" => p.err = "nil"
  <1>1. ASSUME NEW c, NEW f PROVE Field(p, f, KeyItems(p, c)).err = "nil" => p.err = "nil"
    BY DEF Field, Value, KeyItems, ReadItems
  <1>2. ASSUME NEW c, NEW f, NEW a PROVE Field(p, f, OptionItems(p, c, a)).err = "nil" => p.err = "nil"
    BY DEF Field, Value, OptionItems, ReadItems
  <1>3. ASSUME NEW c, NEW f PROVE Field(p, f, HeadItems(p, c)).err = "nil" => p.err = "nil"
    BY DEF Field, Value, HeadItems, ReadItems
  <1>4. ASSUME NEW c, NEW f, NEW a PROVE Field(p, f, BodyItems(p, c, a)).err = "nil" => p.err = "nil"
    BY DEF Field, Value, BodyItems, ReadItems
  <1>5. KeysField(p) = Field(p, "keys", KeyItems(p, p.val.counts[2]))
    BY DEF KeysField, ItemsField, KeyItems
  <1>6. ConfigField(p) = Field(p, "config", OptionItems(p, 4, p.val.mask))
    BY DEF ConfigField, ItemsField, OptionItems
  <1>7. HeadsField(p) = Field(p, "heads", HeadItems(p, p.val.counts[1]))
    BY DEF HeadsField, ItemsField, HeadItems
  <1>8. BodiesField(p) = Field(p, "ixs", BodyItems(p, p.val.counts[1], p.val.heads))
    BY DEF BodiesField, ItemsField, BodyItems
  <1>9. WithoutLocals(p).err = "nil" => p.err = "nil"
    BY DEF WithoutLocals, Value
  <1> QED BY <1>1, <1>2, <1>3, <1>4, <1>5, <1>6, <1>7, <1>8, <1>9

\* Read by the counts, the mask and the heads that were read before.
LEMMA KeysFieldRead ==
    ASSUME NEW p, Ready(p), NEW q, q = KeysField(p), q.err = "nil", p.val.counts[2] \in Nat
    PROVE  \E v \in Seq(OfSize(KeySize)) : /\ Len(v) = p.val.counts[2] /\ Read(p, q, FlattenSeq(v))
                                           /\ q.val = With(p.val, "keys", v)
  <1> DEFINE c == p.val.counts[2]
  <1>1. q = Field(p, "keys", KeyItems(p, c)) /\ c \in Nat
    BY DEF KeysField, ItemsField, KeyItems
  <1>2. OK(p)
    BY DEF OK
  <1> HIDE DEF c
  <1>3. \E v \in Seq(OfSize(KeySize)) : /\ Len(v) = c /\ Read(p, q, FlattenSeq(v))
                                        /\ q.val = With(p.val, "keys", v)
    BY <1>1, <1>2, KeyItemsFieldRead
  <1> QED BY <1>3 DEF c

LEMMA ConfigFieldRead ==
    ASSUME NEW p, Ready(p), NEW q, q = ConfigField(p), q.err = "nil"
    PROVE  \E v : /\ FullConfig(v) /\ \A f \in 1 .. 4 : MaskHas(p.val.mask, f) <=> v[f] # <<>>
                  /\ Read(p, q, MarshalConfig(v)) /\ q.val = With(p.val, "config", v)
  <1> DEFINE mask == p.val.mask
             x == OptionItems(p, 4, mask)
             v == x.val
  <1>1. q = Field(p, "config", x)
    BY DEF ConfigField, ItemsField, OptionItems
  <1>2. OK(p)
    BY DEF OK
  <1>3. x.err = "nil"
    BY <1>1, FieldErr
  <1> HIDE DEF mask
  <1>4. /\ FullConfig(v) /\ \A f \in 1 .. 4 : MaskHas(mask, f) <=> v[f] # <<>>
        /\ Read(p, x, MarshalConfig(v))
    BY <1>2, <1>3, OptionItemsRead
  <1> HIDE DEF x
  <1>5. Read(p, q, MarshalConfig(v)) /\ q.val = With(p.val, "config", v)
    BY <1>1, <1>4, FieldRead
  <1> HIDE DEF v
  <1> QED BY <1>4, <1>5 DEF mask

LEMMA HeadsFieldRead ==
    ASSUME NEW p, Ready(p), NEW q, q = HeadsField(p), q.err = "nil", p.val.counts[1] \in Nat
    PROVE  \E v \in Seq(Heads), es \in Seq(Seq(Byte)) :
              /\ Len(v) = p.val.counts[1] /\ Len(es) = Len(v)
              /\ \A j \in 1 .. Len(v) : es[j] = HeadEncoded(v[j])
              /\ Read(p, q, FlattenSeq(es)) /\ q.val = With(p.val, "heads", v)
  <1> DEFINE c == p.val.counts[1]
             x == HeadItems(p, c)
             v == x.val
  <1>1. q = Field(p, "heads", x) /\ c \in Nat
    BY DEF HeadsField, ItemsField, HeadItems
  <1>2. OK(p)
    BY DEF OK
  <1>3. x.err = "nil"
    BY <1>1, FieldErr
  <1> HIDE DEF c
  <1>4. /\ v \in Seq(Heads) /\ Len(v) = c
        /\ \E es \in Seq(Seq(Byte)) : /\ Len(es) = c /\ \A j \in 1 .. c : es[j] = HeadEncoded(v[j])
                                      /\ Read(p, x, FlattenSeq(es))
    BY <1>1, <1>2, <1>3, HeadItemsRead
  <1> HIDE DEF x, v
  <1>5. PICK es \in Seq(Seq(Byte)) : /\ Len(es) = c /\ \A j \in 1 .. c : es[j] = HeadEncoded(v[j])
                                     /\ Read(p, x, FlattenSeq(es))
    BY <1>4
  <1>6. Read(p, q, FlattenSeq(es)) /\ q.val = With(p.val, "heads", v)
    <2>1. Read(p, q, FlattenSeq(es)) /\ q.val = With(p.val, "heads", x.val)
      BY <1>1, <1>5, FieldRead
    <2> QED BY <2>1 DEF v
  <1> QED BY <1>4, <1>5, <1>6 DEF c

InstructionsRead(p, q, heads, v, es) ==
    /\ v \in Seq(Instruction) /\ es \in Seq(Seq(Byte))
    /\ Len(v) = Len(heads) /\ Len(es) = Len(v)
    /\ \A j \in 1 .. Len(v) : HasHead(v[j], heads[j])
    /\ \A j \in 1 .. Len(v) : es[j] = BodyBytes(v[j])
    /\ Read(p, q, FlattenSeq(es)) /\ q.val = With(p.val, "ixs", v)

LEMMA BodiesFieldRead ==
    ASSUME NEW p, Ready(p), NEW q, q = BodiesField(p), q.err = "nil", NEW heads \in Seq(Heads),
           p.val.heads = heads, p.val.counts[1] = Len(heads)
    PROVE  \E v, es : InstructionsRead(p, q, heads, v, es)
  <1> DEFINE c == p.val.counts[1]
             a == p.val.heads
             x == BodyItems(p, c, a)
             v == x.val
  <1>1. q = Field(p, "ixs", x) /\ c \in Nat /\ a \in Seq(Heads) /\ Len(a) = c
    <2>1. q = Field(p, "ixs", x)
      BY DEF BodiesField, ItemsField, BodyItems
    <2>2. c \in Nat /\ a \in Seq(Heads) /\ Len(a) = c
      OBVIOUS
    <2> QED BY <2>1, <2>2
  <1>2. OK(p)
    BY DEF OK
  <1>3. x.err = "nil"
    BY <1>1, FieldErr
  <1> HIDE DEF c, a
  <1>4. /\ v \in Seq(Instruction) /\ Len(v) = c /\ \A j \in 1 .. c : HasHead(v[j], a[j])
        /\ \E es \in Seq(Seq(Byte)) : /\ Len(es) = c /\ \A j \in 1 .. c : es[j] = BodyBytes(v[j])
                                      /\ Read(p, x, FlattenSeq(es))
    BY <1>1, <1>2, <1>3, BodyItemsRead
  <1> HIDE DEF x, v
  <1>5. PICK es \in Seq(Seq(Byte)) : /\ Len(es) = c /\ \A j \in 1 .. c : es[j] = BodyBytes(v[j])
                                     /\ Read(p, x, FlattenSeq(es))
    BY <1>4
  <1>6. Read(p, q, FlattenSeq(es)) /\ q.val = With(p.val, "ixs", v)
    <2>1. Read(p, q, FlattenSeq(es)) /\ q.val = With(p.val, "ixs", x.val)
      <3> DEFINE e == FlattenSeq(es)
      <3>1. q = Field(p, "ixs", x) /\ Read(p, x, e)
        BY Zenon, <1>1, <1>5
      <3> HIDE DEF e
      <3>2. Read(p, q, e) /\ q.val = With(p.val, "ixs", x.val)
        BY <3>1, FieldRead
      <3> QED BY <3>2 DEF e
    <2> QED BY <2>1 DEF v
  <1>7. a = heads /\ c = Len(heads)
    BY DEF a, c
  <1> QED BY <1>4, <1>5, <1>6, <1>7 DEF InstructionsRead


LEMMA ReadMore ==
    ASSUME NEW o, NEW p, NEW q, NEW x, NEW e, Read(o, p, x), Read(p, q, e), Len(x) >= 1
    PROVE  Read(o, q, x \o e) /\ Len(x \o e) >= 1
  <1>1. x \in Seq(Byte) /\ e \in Seq(Byte)
    BY DEF Read
  <1>2. Len(x \o e) >= 1
    BY <1>1
  <1> QED BY <1>2, ReadThenRead

LEMMA BodyV1Read ==
    ASSUME NEW o, NEW p, OK(p),
           p.err = "nil" => p.val = EmptyWithLocals /\ Read(o, p, <<Cont + V1>>),
           NEW q, q = BodyV1(p), q.err = "nil"
    PROVE  MessageRead(o, q) /\ q.val.version = V1
  <1> DEFINE p2 == ItemsField(p, "header", 3, ReadU8)
             p3 == MaskField(p2)
             p4 == BytesField(p3, "hash", HashSize)
             p5 == CountsField(p4)
             p6 == KeysField(p5)
             p7 == ConfigField(p6)
             p8 == HeadsField(p7)
             p9 == BodiesField(p8)
             none == <<>>
  <1>1. q = WithoutLocals(p9)
    BY DEF BodyV1
  <1>2. p9.err = "nil" /\ p8.err = "nil" /\ p7.err = "nil" /\ p6.err = "nil" /\ p5.err = "nil"
    BY <1>1, LaterErr
  <1>3. p6 = KeysField(p5) /\ p7 = ConfigField(p6) /\ p8 = HeadsField(p7) /\ p9 = BodiesField(p8)
    OBVIOUS
  <1> HIDE DEF p6, p7, p8, p9
  <1>4. /\ OK(p2)
        /\ p2.err = "nil" => /\ p.err = "nil"
                             /\ \E v \in Seq(Byte) : /\ Len(v) = 3 /\ Read(p, p2, v)
                                                     /\ p2.val = With(p.val, "header", v)
    <2> DEFINE c == 3
    <2>1. c \in Nat /\ p2 = ItemsField(p, "header", c, ReadU8)
      OBVIOUS
    <2> HIDE DEF c, p2
    <2>2. /\ OK(p2)
          /\ p2.err = "nil" => /\ p.err = "nil"
                               /\ \E v \in Seq(Byte) : /\ Len(v) = c /\ Read(p, p2, v)
                                                       /\ p2.val = With(p.val, "header", v)
      BY <2>1, U8ItemsFieldRead
    <2> QED BY <2>2 DEF c
  <1> HIDE DEF p2
  <1>5. /\ OK(p3)
        /\ p3.err = "nil" => /\ p2.err = "nil" /\ MaskValid(p3.val.mask)
                             /\ \E v \in Nat : /\ Read(p2, p3, WriteUint(v, U32Size))
                                               /\ p3.val = With(p2.val, "mask", v)
    BY <1>4, MaskFieldRead
  <1> HIDE DEF p3
  <1>6. /\ OK(p4)
        /\ p4.err = "nil" => /\ p3.err = "nil"
                             /\ \E v \in OfSize(HashSize) : /\ Read(p3, p4, v)
                                                            /\ p4.val = With(p3.val, "hash", v)
    BY <1>5, BytesFieldRead, Sizes
  <1> HIDE DEF p4
  <1>7. /\ OK(p5)
        /\ p5.err = "nil" => /\ p4.err = "nil"
                             /\ \E v \in Seq(Byte) : /\ Len(v) = 2 /\ Read(p4, p5, v)
                                                     /\ p5.val = With(p4.val, "counts", v)
    <2> DEFINE c == 2
    <2>1. c \in Nat /\ p5 = ItemsField(p4, "counts", c, ReadU8)
      BY DEF CountsField
    <2> HIDE DEF c, p5
    <2>2. /\ OK(p5)
          /\ p5.err = "nil" => /\ p4.err = "nil"
                               /\ \E v \in Seq(Byte) : /\ Len(v) = c /\ Read(p4, p5, v)
                                                       /\ p5.val = With(p4.val, "counts", v)
      BY <1>6, <2>1, U8ItemsFieldRead
    <2> QED BY <2>2 DEF c
  <1> HIDE DEF p5
  <1>8. p.err = "nil" /\ p2.err = "nil" /\ p3.err = "nil" /\ p4.err = "nil"
    BY <1>2, <1>4, <1>5, <1>6, <1>7
  <1>9. PICK header \in Seq(Byte) : /\ Len(header) = 3 /\ Read(p, p2, header)
                                    /\ p2.val = With(p.val, "header", header)
    BY <1>4, <1>8
  <1>10. PICK mask \in Nat : Read(p2, p3, WriteUint(mask, U32Size)) /\ p3.val = With(p2.val, "mask", mask)
    BY <1>5, <1>8
  <1>11. PICK hash \in OfSize(HashSize) : Read(p3, p4, hash) /\ p4.val = With(p3.val, "hash", hash)
    BY <1>6, <1>8
  <1>12. PICK counts \in Seq(Byte) : /\ Len(counts) = 2 /\ Read(p4, p5, counts)
                                     /\ p5.val = With(p4.val, "counts", counts)
    BY <1>2, <1>7
  <1>13. counts[1] \in Nat /\ counts[2] \in Nat
    <2>1. counts[1] \in Byte /\ counts[2] \in Byte
      BY <1>12, PairOfBytes
    <2> QED BY <2>1, Sizes DEF Byte
  <1> HIDE DEF none
  <1>14. p.val = Struct(0, none, none, none, none, none, none, none)
    BY <1>8 DEF EmptyWithLocals, Struct, none
  <1>15. p2.val = Struct(0, none, none, header, none, none, none, none)
    BY <1>9, <1>14, StructWith
  <1>16. p3.val = Struct(mask, none, none, header, none, none, none, none)
    BY <1>10, <1>15, StructWith
  <1>17. MaskValid(mask)
    <2>1. p3.val.mask = mask
      BY <1>16, StructFields
    <2> QED BY <1>5, <1>8, <2>1
  <1>18. p4.val = Struct(mask, none, none, header, none, hash, none, none)
    BY <1>11, <1>16, StructWith
  <1>19. p5.val = Struct(mask, counts, none, header, none, hash, none, none)
    BY <1>12, <1>18, StructWith
  <1>20. PICK keys \in Seq(OfSize(KeySize)) : /\ Len(keys) = counts[2] /\ Read(p5, p6, FlattenSeq(keys))
                                              /\ p6.val = With(p5.val, "keys", keys)
    <2>1. p5.val.counts = counts
      BY <1>19, StructFields
    <2>2. p5.val.counts[2] = counts[2] /\ p5.val.counts[2] \in Nat
      BY <1>13, <2>1
    <2>3. Ready(p5)
      BY <1>12, ReadOK
    <2>4. \E v \in Seq(OfSize(KeySize)) : /\ Len(v) = p5.val.counts[2] /\ Read(p5, p6, FlattenSeq(v))
                                          /\ p6.val = With(p5.val, "keys", v)
      BY <1>2, <1>3, <2>2, <2>3, KeysFieldRead
    <2> QED BY <2>2, <2>4
  <1>21. p6.val = Struct(mask, counts, none, header, keys, hash, none, none)
    BY <1>19, <1>20, StructWith
  <1>22. PICK config : /\ FullConfig(config) /\ \A f \in 1 .. 4 : MaskHas(mask, f) <=> config[f] # <<>>
                       /\ Read(p6, p7, MarshalConfig(config)) /\ p7.val = With(p6.val, "config", config)
    <2>1. p6.val.mask = mask
      BY <1>21, StructFields
    <2>2. Ready(p6)
      BY <1>20, ReadOK
    <2>3. \E v : /\ FullConfig(v) /\ \A f \in 1 .. 4 : MaskHas(p6.val.mask, f) <=> v[f] # <<>>
                 /\ Read(p6, p7, MarshalConfig(v)) /\ p7.val = With(p6.val, "config", v)
      BY <1>2, <1>3, <2>2, ConfigFieldRead
    <2> QED BY <2>1, <2>3
  <1>23. p7.val = Struct(mask, counts, none, header, keys, hash, none, config)
    BY <1>21, <1>22, StructWith
  <1>24. PICK heads \in Seq(Heads), hs \in Seq(Seq(Byte)) :
            /\ Len(heads) = counts[1] /\ Len(hs) = Len(heads)
            /\ \A j \in 1 .. Len(heads) : hs[j] = HeadEncoded(heads[j])
            /\ Read(p7, p8, FlattenSeq(hs)) /\ p8.val = With(p7.val, "heads", heads)
    <2>1. p7.val.counts = counts
      BY <1>23, StructFields
    <2>2. p7.val.counts[1] = counts[1] /\ p7.val.counts[1] \in Nat
      BY <1>13, <2>1
    <2>3. Ready(p7)
      BY <1>22, ReadOK
    <2>4. \E v \in Seq(Heads), es \in Seq(Seq(Byte)) :
              /\ Len(v) = p7.val.counts[1] /\ Len(es) = Len(v)
              /\ \A j \in 1 .. Len(v) : es[j] = HeadEncoded(v[j])
              /\ Read(p7, p8, FlattenSeq(es)) /\ p8.val = With(p7.val, "heads", v)
      BY <1>2, <1>3, <2>2, <2>3, HeadsFieldRead
    <2> QED BY <2>2, <2>4
  <1>25. p8.val = Struct(mask, counts, heads, header, keys, hash, none, config)
    BY <1>23, <1>24, StructWith
  <1>26. PICK ixs, bs : InstructionsRead(p8, p9, heads, ixs, bs)
    <2>1. p8.val.counts = counts /\ p8.val.heads = heads
      BY <1>25, StructFields
    <2>2. p8.val.counts[1] = Len(heads)
      BY <1>24, <2>1
    <2>3. Ready(p8)
      BY <1>24, ReadOK
    <2> QED BY <1>2, <1>3, <2>1, <2>2, <2>3, BodiesFieldRead
  <1>26a. /\ ixs \in Seq(Instruction) /\ bs \in Seq(Seq(Byte))
          /\ Len(ixs) = counts[1] /\ Len(bs) = Len(ixs) /\ Len(heads) = Len(ixs)
          /\ \A j \in 1 .. Len(ixs) : HasHead(ixs[j], heads[j])
          /\ \A j \in 1 .. Len(ixs) : bs[j] = BodyBytes(ixs[j])
          /\ Read(p8, p9, FlattenSeq(bs)) /\ p9.val = With(p8.val, "ixs", ixs)
    BY <1>24, <1>26 DEF InstructionsRead
  <1>27. p9.val = Struct(mask, counts, heads, header, keys, hash, ixs, config)
    BY <1>25, <1>26a, StructWith
  <1> DEFINE e == ReadV1(header, mask, hash, counts, keys, config, hs, bs)
             m == q.val
  <1>28. Read(o, p9, e) /\ e # Refused
    <2> DEFINE w == WriteUint(mask, U32Size)
               x1 == <<Cont + V1>>
               x2 == x1 \o header
               x3 == x2 \o w
               x4 == x3 \o hash
               x5 == x4 \o counts
               x6 == x5 \o FlattenSeq(keys)
               x7 == x6 \o MarshalConfig(config)
               x8 == x7 \o FlattenSeq(hs)
               x9 == x8 \o FlattenSeq(bs)
    <2>0. e = x9
      BY DEF ReadV1
    <2>1. Read(o, p, x1) /\ Len(x1) >= 1
      BY <1>8
    <2> HIDE DEF x1, w, e
    <2>2. Read(o, p2, x2) /\ Len(x2) >= 1
      BY <1>9, <2>1, ReadMore
    <2> HIDE DEF x2
    <2>3. Read(o, p3, x3) /\ Len(x3) >= 1
      BY <1>10, <2>2, ReadMore DEF w
    <2> HIDE DEF x3
    <2>4. Read(o, p4, x4) /\ Len(x4) >= 1
      BY <1>11, <2>3, ReadMore
    <2> HIDE DEF x4
    <2>5. Read(o, p5, x5) /\ Len(x5) >= 1
      BY <1>12, <2>4, ReadMore
    <2> HIDE DEF x5
    <2>6. Read(o, p6, x6) /\ Len(x6) >= 1
      BY <1>20, <2>5, ReadMore
    <2> HIDE DEF x6
    <2>7. Read(o, p7, x7) /\ Len(x7) >= 1
      BY <1>22, <2>6, ReadMore
    <2> HIDE DEF x7
    <2>8. Read(o, p8, x8) /\ Len(x8) >= 1
      BY <1>24, <2>7, ReadMore
    <2> HIDE DEF x8
    <2>9. Read(o, p9, x9) /\ Len(x9) >= 1
      BY <1>26a, <2>8, ReadMore
    <2> HIDE DEF x9
    <2>10. x9 # Refused
      BY <2>9 DEF Refused
    <2> QED BY <2>0, <2>9, <2>10
  <1> HIDE DEF e
  <1>29. Read(o, q, e) /\ m = Stripped(p9.val)
    <2> DEFINE v == Stripped(p9.val)
    <2>1. q = Value(p9, v)
      BY <1>1 DEF WithoutLocals, Stripped
    <2> HIDE DEF v
    <2>2. Read(o, q, e) /\ q.val = v
      BY <1>28, <2>1, ReadValue
    <2> QED BY <2>2 DEF v
  <1>30. m = [version |-> V1, header |-> header, keys |-> keys, hash |-> hash, ixs |-> ixs,
              lookups |-> <<>>, config |-> config]
    BY <1>27, <1>29, StructFields
  <1> HIDE DEF m
  <1>31. header \in OfSize(3)
    <2>1. header \in [1 .. Len(header) -> Byte]
      OBVIOUS
    <2> QED BY <1>9, <2>1 DEF OfSize
  <1>32. Mask(config) = mask
    BY <1>17, <1>22, MaskOfConfig
  <1>33. m \in Message /\ ConfigFits(m) /\ Validate(m) /\ Marshal(m) = e
    <2>1. PartsRead(header, mask, hash, counts, keys, config, heads, ixs, hs, bs)
      BY <1>12, <1>20, <1>22, <1>24, <1>26a, <1>31, <1>32 DEF PartsRead
    <2> QED BY <1>30, <2>1, EncodedV1 DEF e
  <1>34. m.version = V1
    BY <1>30
  <1> QED BY <1>28, <1>29, <1>33, <1>34 DEF MessageRead, m

LEMMA DecodeMessageV1Read ==
    ASSUME NEW p, OK(p), NEW q, q = DecodeMessage(p), q.err = "nil", p.rest[1] = Cont + V1
    PROVE  MessageRead(p, q) /\ q.val.version = V1
  <1> DEFINE r == ReadUint(p, 1)
             m == Value(r, EmptyWithLocals)
  <1>1. q = DecodeMessageV1(p)
    BY DecodeMessageErr
  <1>2. q = BodyV1(m)
    BY <1>1 DEF DecodeMessageV1, BodyV1
  <1>3. OK(r) /\ (r.err = "nil" => Read(p, r, <<Cont + V1>>))
    BY FirstRead
  <1> HIDE DEF r
  <1>4. OK(m) /\ m.err = r.err
    BY <1>3, ReadyValue
  <1>5. m.err = "nil" => m.val = EmptyWithLocals /\ Read(p, m, <<Cont + V1>>)
    BY <1>3, <1>4, ReadValue
  <1> HIDE DEF m
  <1> QED BY <1>2, <1>4, <1>5, BodyV1Read

\* A decoded message is of its type, and what was read is what Marshal writes.
LEMMA DecodeMessageRead ==
    ASSUME NEW p, OK(p), NEW q, q = DecodeMessage(p), q.err = "nil"
    PROVE  /\ MessageRead(p, q) /\ p.err = "nil"
           /\ q.val.version = V1 <=> p.rest[1] = Cont + V1
  BY DecodeMessageErr, DecodeMessageV0Read, DecodeMessageV1Read


\* NoTrailing lets through what has nothing left, and changes nothing.
LEMMA NothingLeft ==
    ASSUME NEW r, OK(r), NEW q, q = NoTrailing(r), q.err = "nil"
    PROVE  r.err = "nil" /\ r.rest = <<>> /\ q = r
  <1>1. q = IF r.err = "nil" /\ r.rest # <<>> THEN Fail(r, "trailing") ELSE r
    BY DEF NoTrailing
  <1>2. CASE r.err = "nil" /\ r.rest # <<>>
    <2>1. PICK a, w : r = [err |-> "nil", rest |-> a, val |-> w]
      BY <1>2 DEF OK, Ready
    <2>2. Fail(r, "trailing").err = "trailing"
      BY <2>1 DEF Fail
    <2>3. q = Fail(r, "trailing") /\ "trailing" # "nil"
      BY <1>1, <1>2
    <2> QED BY <2>2, <2>3
  <1>3. CASE ~(r.err = "nil" /\ r.rest # <<>>)
    BY <1>1, <1>3
  <1> QED BY <1>2, <1>3

\* What UnmarshalBinary accepts, it has read to the last byte.
LEMMA UnmarshalMessageRead ==
    ASSUME NEW b \in Seq(Byte), NEW q, q = UnmarshalMessage(b), q.err = "nil"
    PROVE  q.val \in Message /\ ConfigFits(q.val) /\ Marshal(q.val) = b
  <1> DEFINE p == NewDecoder(b)
             r == DecodeMessage(p)
  <1>1. Ready(p) /\ OK(p) /\ p.rest = b
    BY DEF NewDecoder, Ready, OK
  <1>2. q = NoTrailing(r)
    BY DEF UnmarshalMessage
  <1> HIDE DEF p
  <1>3. ASSUME r.err = "nil" PROVE MessageRead(p, r)
    BY <1>1, <1>3, DecodeMessageRead
  <1> HIDE DEF r
  <1>4. r.err = "nil" /\ r.rest = <<>> /\ q = r
    <2>1. OK(r)
      BY <1>3 DEF MessageRead, Read, OK
    <2> QED BY <1>2, <2>1, NothingLeft
  <1> DEFINE e == Marshal(r.val)
  <1>5. r.val \in Message /\ ConfigFits(r.val) /\ Read(p, r, e)
    BY <1>3, <1>4 DEF MessageRead
  <1> HIDE DEF e
  <1>6. p.rest = e \o <<>> /\ e \in Seq(Byte)
    BY <1>4, <1>5 DEF Read
  <1>7. e = b
    BY <1>1, <1>6
  <1> QED BY <1>4, <1>5, <1>7 DEF e

\* A decoded transaction, and the two ways it can have been laid out.
TxRead(p, q) ==
    /\ TxOK(q.val) /\ Marshal(q.val.msg) # Refused
    /\ \/ /\ p.rest[1] = Cont + V1
          /\ q.val.msg.version = V1 /\ Len(q.val.sigs) = NumReq(q.val)
          /\ Read(p, q, Marshal(q.val.msg) \o FlattenSeq(q.val.sigs))
       \/ /\ p.rest[1] # Cont + V1 /\ Len(q.val.sigs) <= MaxU16
          /\ Read(p, q, PrefixedItems(q.val.sigs) \o Marshal(q.val.msg))

LEMMA MessageFieldRead ==
    ASSUME NEW p, OK(p), NEW q, q = MessageField(p), q.err = "nil"
    PROVE  /\ p.err = "nil"
           /\ \E m \in Message : /\ ConfigFits(m) /\ Validate(m) /\ Read(p, q, Marshal(m))
                                 /\ q.val = With(p.val, "msg", m) /\ Marshal(m) # Refused
                                 /\ m.version = V1 <=> p.rest[1] = Cont + V1
  <1> DEFINE r == DecodeMessage(p)
             m == r.val
  <1>1. q = Field(p, "msg", r)
    BY DEF MessageField
  <1>2. r.err = "nil"
    BY <1>1, FieldErr
  <1>3. p.err = "nil" /\ MessageRead(p, r) /\ (m.version = V1 <=> p.rest[1] = Cont + V1)
    BY <1>2, DecodeMessageRead
  <1> HIDE DEF r
  <1>4. /\ m \in Message /\ ConfigFits(m) /\ Validate(m) /\ Read(p, r, Marshal(m))
        /\ Marshal(m) # Refused
    BY <1>3 DEF MessageRead
  <1>5. Read(p, q, Marshal(m)) /\ q.val = With(p.val, "msg", m)
    BY <1>1, <1>4, FieldRead
  <1> HIDE DEF m
  <1> QED BY <1>3, <1>4, <1>5

LEMMA TxParts ==
    ASSUME NEW v, NEW sigs \in Seq(OfSize(SigSize)), NEW m \in Message, ConfigFits(m),
           v = [sigs |-> sigs, msg |-> m]
    PROVE  TxOK(v) /\ v.sigs = sigs /\ v.msg = m
  BY DEF TxOK

LEMMA WithSigs ==
    ASSUME NEW none, NEW m, NEW sigs, NEW u, u = [sigs |-> none, msg |-> m]
    PROVE  With(u, "sigs", sigs) = [sigs |-> sigs, msg |-> m]
  BY DEF With

LEMMA WithMsg ==
    ASSUME NEW none, NEW m, NEW sigs, NEW u, u = [sigs |-> sigs, msg |-> none]
    PROVE  With(u, "msg", m) = [sigs |-> sigs, msg |-> m]
  BY DEF With

LEMMA DecodeTransactionRead ==
    ASSUME NEW p, OK(p), NEW q, q = DecodeTransaction(p), q.err = "nil"
    PROVE  TxRead(p, q) /\ p.err = "nil"
  <1> DEFINE t0 == [sigs |-> <<>>, msg |-> <<>>]
             t == Value(p, t0)
             v == q.val
  <1>1. p.err = "nil" /\ Ready(p)
    BY DEF DecodeTransaction, OK
  <1>2. OK(t) /\ t.err = "nil" /\ t.val = t0 /\ t.rest = p.rest /\ Read(p, t, <<>>)
    BY <1>1, ReadyValue
  <1>3. p.rest # <<>>
    <2> SUFFICES ASSUME p.rest = <<>> PROVE FALSE
      OBVIOUS
    <2>1. q = Fail(p, "short")
      BY <1>1 DEF DecodeTransaction
    <2>2. PICK a, w : p = [err |-> "nil", rest |-> a, val |-> w]
      BY <1>1 DEF Ready
    <2>3. q.err = "short"
      BY <2>1, <2>2 DEF Fail
    <2> QED BY <2>3
  <1>4. /\ p.rest[1] = Cont + V1 => q = HeaderSigs(MessageField(t))
        /\ p.rest[1] # Cont + V1 => q = MessageField(VecField(t, "sigs", ReadSig))
    BY <1>1, <1>3 DEF DecodeTransaction
  <1> HIDE DEF t
  <1>5. CASE p.rest[1] = Cont + V1
    <2> DEFINE r == MessageField(t)
               c == r.val.msg.header[1]
               x == SigItems(r, c)
    <2>1. q = Field(r, "sigs", x)
      BY <1>4, <1>5 DEF HeaderSigs, ItemsField, SigItems
    <2>2. x.err = "nil"
      BY <2>1, FieldErr
    <2>3. r.err = "nil"
      BY <2>2 DEF SigItems, ReadItems
    <2>4. PICK m \in Message : /\ ConfigFits(m) /\ Validate(m) /\ Read(t, r, Marshal(m))
                               /\ r.val = With(t.val, "msg", m) /\ Marshal(m) # Refused
                               /\ m.version = V1 <=> t.rest[1] = Cont + V1
      BY <1>2, <2>3, MessageFieldRead
    <2> HIDE DEF r
    <2>5. r.val = [sigs |-> <<>>, msg |-> m] /\ m.version = V1
      BY <1>2, <1>5, <2>4 DEF With
    <2>6. c = m.header[1] /\ c \in Nat
      <3>1. m.header \in OfSize(3)
        BY MessageParts
      <3>2. m.header[1] \in Byte
        BY <3>1 DEF OfSize
      <3>3. c = m.header[1]
        BY <2>5
      <3> QED BY <3>2, <3>3, Sizes DEF Byte
    <2>7. OK(r)
      BY <2>4, ReadOK
    <2> HIDE DEF c
    <2>8. Read(r, x, FlattenSeq(x.val)) /\ x.val \in Seq(OfSize(SigSize)) /\ Len(x.val) = c
      BY <2>2, <2>6, <2>7, SigItemsRead
    <2> HIDE DEF x
    <2> DEFINE sigs == x.val
               e == FlattenSeq(sigs)
    <2>9. Read(r, q, e) /\ v = With(r.val, "sigs", sigs)
      BY <2>1, <2>8, FieldRead
    <2> HIDE DEF sigs, v, e
    <2>10. v = [sigs |-> sigs, msg |-> m]
      BY <2>5, <2>9, WithSigs
    <2>11. sigs \in Seq(OfSize(SigSize)) /\ Len(sigs) = m.header[1]
      BY <2>6, <2>8 DEF sigs
    <2>12. TxOK(v) /\ v.sigs = sigs /\ v.msg = m
      BY <2>4, <2>10, <2>11, TxParts
    <2>13. Read(p, q, (<<>> \o Marshal(m)) \o e)
      BY <1>2, <2>4, <2>9, ReadThenRead
    <2>14. Marshal(m) \in Seq(Byte)
      BY <2>4, ReadOK
    <2>15. <<>> \o Marshal(m) = Marshal(m)
      BY <2>14
    <2>16. Read(p, q, Marshal(v.msg) \o FlattenSeq(v.sigs)) /\ Len(v.sigs) = NumReq(v)
      BY <2>11, <2>12, <2>13, <2>15 DEF e, NumReq
    <2> QED BY <1>1, <1>5, <2>4, <2>5, <2>12, <2>16 DEF TxRead, v
  <1>6. CASE p.rest[1] # Cont + V1
    <2> DEFINE r == VecField(t, "sigs", ReadSig)
    <2>1. q = MessageField(r)
      BY <1>4, <1>6
    <2>2. /\ OK(r)
          /\ r.err = "nil" => \E w \in Seq(OfSize(SigSize)) :
                                 /\ Len(w) <= MaxU16 /\ Read(t, r, PrefixedItems(w))
                                 /\ r.val = With(t.val, "sigs", w)
      BY <1>2, SigVecRead
    <2> HIDE DEF r
    <2>3. /\ r.err = "nil"
          /\ \E m \in Message : /\ ConfigFits(m) /\ Validate(m) /\ Read(r, q, Marshal(m))
                                /\ q.val = With(r.val, "msg", m) /\ Marshal(m) # Refused
                                /\ m.version = V1 <=> r.rest[1] = Cont + V1
      BY <2>1, <2>2, MessageFieldRead
    <2>4. PICK sigs \in Seq(OfSize(SigSize)) : /\ Len(sigs) <= MaxU16 /\ Read(t, r, PrefixedItems(sigs))
                                               /\ r.val = With(t.val, "sigs", sigs)
      BY <2>2, <2>3
    <2>5. PICK m \in Message : /\ ConfigFits(m) /\ Validate(m) /\ Read(r, q, Marshal(m))
                               /\ v = With(r.val, "msg", m) /\ Marshal(m) # Refused
      BY <2>3
    <2> HIDE DEF v
    <2>6. v = [sigs |-> sigs, msg |-> m]
      <3>1. r.val = [sigs |-> sigs, msg |-> <<>>]
        BY <1>2, <2>4 DEF With
      <3> QED BY <2>5, <3>1, WithMsg
    <2>7. TxOK(v) /\ v.sigs = sigs /\ v.msg = m
      BY <2>5, <2>6, TxParts
    <2> DEFINE e == PrefixedItems(sigs)
    <2> HIDE DEF e
    <2>8. Read(t, r, e)
      BY <2>4 DEF e
    <2>9. Read(p, q, (<<>> \o e) \o Marshal(m))
      BY <1>2, <2>5, <2>8, ReadThenRead
    <2>10. e \in Seq(Byte)
      BY <2>8, ReadOK
    <2>11. <<>> \o e = e
      BY <2>10
    <2>12. Read(p, q, PrefixedItems(v.sigs) \o Marshal(v.msg))
      BY <2>7, <2>9, <2>11 DEF e
    <2> QED BY <1>1, <1>6, <2>4, <2>5, <2>7, <2>12 DEF TxRead, v
  <1> QED BY <1>5, <1>6

LEMMA TxFacts ==
    ASSUME NEW t, TxOK(t)
    PROVE  /\ t = [sigs |-> t.sigs, msg |-> t.msg]
           /\ t.sigs \in Seq(OfSize(SigSize)) /\ Len(t.sigs) \in Nat /\ DOMAIN t.sigs = 1 .. Len(t.sigs)
           /\ t.msg \in Message /\ ConfigFits(t.msg) /\ NumReq(t) \in Nat
           /\ t.msg.keys \in Seq(OfSize(KeySize))
  <1>1. /\ t = [sigs |-> t.sigs, msg |-> t.msg] /\ t.sigs \in Seq(OfSize(SigSize))
        /\ t.msg \in Message /\ ConfigFits(t.msg)
    BY DEF TxOK
  <1>2. t.msg.keys \in Seq(OfSize(KeySize)) /\ t.msg.header \in OfSize(3)
    BY <1>1, MessageParts
  <1>3. t.msg.header[1] \in Byte
    BY <1>2 DEF OfSize
  <1>4. NumReq(t) \in Nat
    BY <1>3, Sizes DEF NumReq, Byte
  <1> QED BY <1>1, <1>2, <1>4

LEMMA UnmarshalTxRead ==
    ASSUME NEW b \in Seq(Byte), NEW q, q = UnmarshalTx(b), q.err = "nil"
    PROVE  /\ TxOK(q.val) /\ Marshal(q.val.msg) # Refused
           /\ \/ /\ b[1] = Cont + V1 /\ q.val.msg.version = V1 /\ Len(q.val.sigs) = NumReq(q.val)
                 /\ b = Marshal(q.val.msg) \o FlattenSeq(q.val.sigs)
              \/ /\ b[1] # Cont + V1 /\ Len(q.val.sigs) <= MaxU16
                 /\ b = PrefixedItems(q.val.sigs) \o Marshal(q.val.msg)
  <1> DEFINE p == NewDecoder(b)
             r == DecodeTransaction(p)
  <1>1. Ready(p) /\ OK(p) /\ p.rest = b
    BY DEF NewDecoder, Ready, OK
  <1>2. q = NoTrailing(r)
    BY DEF UnmarshalTx
  <1> HIDE DEF p
  <1>3. ASSUME r.err = "nil" PROVE TxRead(p, r)
    BY <1>1, <1>3, DecodeTransactionRead
  <1> HIDE DEF r
  <1>4. OK(r)
    BY <1>3 DEF TxRead, Read, OK
  <1>5. r.err = "nil" /\ r.rest = <<>> /\ q = r
    BY <1>2, <1>4, NothingLeft
  <1>6. TxRead(p, q)
    BY <1>3, <1>5
  <1>7. ASSUME NEW e, Read(p, q, e) PROVE b = e
    <2>1. p.rest = e \o <<>> /\ e \in Seq(Byte)
      BY <1>5, <1>7 DEF Read
    <2> QED BY <1>1, <2>1
  <1> QED BY <1>1, <1>6, <1>7 DEF TxRead

--------------------------------------------------------------------------------
(***************************************************************************)
(* Two inductive invariants.  WInv holds whatever the messages are: there is   *)
(* no transaction or a well-formed one, the running Sign has paired signers    *)
(* with slots of their keys, and bytes are on the wire.  It needs that every   *)
(* transaction the decoder accepts is well-formed (UnmarshalTxRead).  IInv says  *)
(* what is signed: a slot counts as signed only where the message can be       *)
(* marshalled and has a key for every slot, and what is on the wire was          *)
(* marshalled from a transaction whose signed slots are the ones in sent.  It   *)
(* needs that the decoder gives that transaction back (UnmarshalMarshalled),    *)
(* so it needs messages the decoder cannot take for one of another version.    *)
(***************************************************************************)

\* A signature is an array of SigSize bytes, whoever signs what.
SignaturesFit == \A key, bytes : EdSign(key, bytes) \in OfSize(SigSize)

\* "numRequiredSignatures ... is strictly less than 0x80 in any valid transaction".
MessagesUnambiguous == \A m \in Messages : m.header[1] < Cont

Signable(t) ==
    Len(t.sigs) >= NumReq(t) /\ Len(t.msg.keys) >= NumReq(t) /\ Marshal(t.msg) # Refused
SlotSigned(t, i) == t.sigs[i] = EdSign(t.msg.keys[i], Marshal(t.msg))
Signed(t, slots) ==
    /\ slots \subseteq 1 .. NumReq(t)
    /\ slots # {} => Signable(t)
    /\ \A i \in slots : SlotSigned(t, i)
TodoOK(t) ==
    /\ todo \in Seq(UNION {{key} \X (1 .. NumReq(t)) : key \in Signers})
    /\ \A j \in 1 .. Len(todo) : t.msg.keys[todo[j][2]] = todo[j][1]
    /\ todo # <<>> => Signable(t)
WInv ==
    /\ tx # NoTx \/ todo # <<>> => TxOK(tx) /\ TodoOK(tx)
    /\ wire \in Seq(Byte)
SentBy(t) ==
    /\ TxOK(t) /\ Unambiguous(t) /\ MarshalTx(t) # Refused
    /\ wire = MarshalTx(t) /\ Signed(t, sent)
Idle == tx = NoTx /\ todo = <<>> /\ wire = Refused /\ fresh = {} /\ sent = {}
Held ==
    /\ TxOK(tx) /\ Unambiguous(tx) /\ Signed(tx, fresh) /\ TodoOK(tx)
    /\ wire # Refused => \E t : SentBy(t)
IInv == Idle \/ Held

\* Two transactions with the same slots, keys and bytes to sign are signed alike.
LEMMA SameSigned ==
    ASSUME NEW t, NEW u, NEW slots, Signed(t, slots), u.sigs = t.sigs,
           u.msg.header = t.msg.header, u.msg.keys = t.msg.keys, Marshal(u.msg) = Marshal(t.msg)
    PROVE  Signed(u, slots)
  BY DEF Signed, Signable, SlotSigned, NumReq

LEMMA ZeroFits == Zero \in OfSize(SigSize)
  BY Sizes DEF Zero, OfSize, Byte

\* Other signatures, of the right size.
LEMMA OtherSigs ==
    ASSUME NEW t, TxOK(t), NEW sigs \in Seq(OfSize(SigSize)), NEW u, u = [t EXCEPT !.sigs = sigs]
    PROVE  TxOK(u) /\ u.sigs = sigs /\ u.msg = t.msg
  <1>1. t = [sigs |-> t.sigs, msg |-> t.msg] /\ t.msg \in Message /\ ConfigFits(t.msg)
    BY TxFacts
  <1>2. u = [sigs |-> sigs, msg |-> t.msg]
    BY <1>1
  <1> QED BY <1>1, <1>2 DEF TxOK

\* What a decoded transaction has in common with the one that was marshalled.
LEMMA DecodedMarshal ==
    ASSUME NEW m \in Message, ConfigFits(m), Marshal(m) # Refused
    PROVE  /\ Decoded(m) \in Message /\ ConfigFits(Decoded(m)) /\ Decoded(m).header = m.header
           /\ Decoded(m).keys = m.keys /\ Marshal(Decoded(m)) = Marshal(m)
  <1>1. CASE Decoded(m) = m
    BY <1>1
  <1>2. CASE Decoded(m) # m
    <2> DEFINE d == Decoded(m)
    <2>1. m.version = V1
      BY <1>2 DEF Decoded
    <2>2. /\ FullConfig(d.config) /\ MarshalConfig(m.config) = MarshalConfig(d.config)
          /\ Mask(m.config) = Mask(d.config) /\ d \in Message
          /\ d = [version |-> V1, header |-> m.header, keys |-> m.keys, hash |-> m.hash,
                  ixs |-> m.ixs, lookups |-> m.lookups, config |-> d.config]
      BY <2>1, DecodedConfig
    <2> HIDE DEF d
    <2>3. /\ d.version = V1 /\ d.header = m.header /\ d.keys = m.keys /\ d.hash = m.hash
          /\ d.ixs = m.ixs /\ d.lookups = m.lookups
      BY <2>2
    <2>4. ConfigFits(d)
      BY <2>2, <2>3 DEF FullConfig, ConfigFits
    <2>5. Validate(d) <=> Validate(m)
      BY <2>1, <2>3 DEF Validate
    <2>6. MarshalInto(d) = MarshalV1(d) /\ MarshalInto(m) = MarshalV1(m)
      BY <2>1, <2>3 DEF MarshalInto
    <2>7. MarshalV1(d) = MarshalV1(m)
      BY <2>2, <2>3 DEF MarshalV1
    <2>8. Marshal(d) = Marshal(m)
      BY <2>5, <2>6, <2>7 DEF Marshal
    <2> QED BY <2>2, <2>3, <2>4, <2>8 DEF d
  <1> QED BY <1>1, <1>2

LEMMA DecodedFacts ==
    ASSUME NEW t, TxOK(t), Unambiguous(t), Marshal(t.msg) # Refused, NEW slots, Signed(t, slots)
    PROVE  TxOK(DecodedTx(t)) /\ Unambiguous(DecodedTx(t)) /\ Signed(DecodedTx(t), slots)
  <1> DEFINE u == DecodedTx(t)
             d == Decoded(t.msg)
  <1>1. /\ t = [sigs |-> t.sigs, msg |-> t.msg] /\ t.sigs \in Seq(OfSize(SigSize))
        /\ t.msg \in Message /\ ConfigFits(t.msg)
    BY TxFacts
  <1>2. /\ d \in Message /\ ConfigFits(d) /\ d.header = t.msg.header /\ d.keys = t.msg.keys
        /\ Marshal(d) = Marshal(t.msg)
    BY <1>1, DecodedMarshal
  <1>3. u = [sigs |-> t.sigs, msg |-> d]
    BY <1>1 DEF DecodedTx
  <1> HIDE DEF u, d
  <1>4. u.sigs = t.sigs /\ u.msg = d
    BY <1>3
  <1>5. TxOK(u)
    BY <1>1, <1>2, <1>3, <1>4 DEF TxOK
  <1>6. Unambiguous(u)
    BY <1>2, <1>4 DEF Unambiguous, NumReq
  <1>7. Signed(u, slots)
    BY <1>2, <1>4, SameSigned
  <1> QED BY <1>5, <1>6, <1>7 DEF u

\* The transactions there can be at first.
LEMMA InitTx ==
    ASSUME SignaturesFit, Init
    PROVE  tx = NoTx \/ (TxOK(tx) /\ tx.msg \in Messages)
  <1> DEFINE Good == TxOK(tx) /\ tx.msg \in Messages
  <1>1. ASSUME NEW m \in Messages, NEW c \in Nat, NEW sigs \in [1 .. c -> OfSize(SigSize)],
               tx = [sigs |-> sigs, msg |-> m]
        PROVE  Good
    <2>1. m \in Message /\ ConfigFits(m)
      BY MessagesAssumption
    <2>2. tx.sigs = sigs /\ tx.msg = m /\ sigs \in Seq(OfSize(SigSize))
      BY <1>1
    <2> QED BY <1>1, <2>1, <2>2 DEF TxOK
  <1> HIDE DEF Good
  <1>2. ASSUME NEW m \in Messages, tx = NewTransaction(m) PROVE Good
    <2>1. m \in Message
      BY MessagesAssumption
    <2>2. m.header[1] \in Nat
      <3>1. m.header \in OfSize(3)
        BY <2>1, MessageParts
      <3>2. m.header[1] \in Byte
        BY <3>1 DEF OfSize
      <3> QED BY <3>2, Sizes DEF Byte
    <2>3. [i \in 1 .. m.header[1] |-> Zero] \in [1 .. m.header[1] -> OfSize(SigSize)]
      BY ZeroFits
    <2> QED BY <1>1, <1>2, <2>2, <2>3 DEF NewTransaction
  <1>3. ASSUME NEW m \in Messages, NEW c \in 0 .. m.header[1], NEW signed \in BOOLEAN,
               tx = Given(m, c, signed)
        PROVE  Good
    <2> DEFINE sigs == [i \in 1 .. c |-> IF i = 1 /\ signed /\ Marshal(m) # Refused
                                           THEN EdSign(m.keys[1], Marshal(m)) ELSE Zero]
    <2>1. c \in Nat
      OBVIOUS
    <2>2. sigs \in [1 .. c -> OfSize(SigSize)]
      BY ZeroFits DEF SignaturesFit
    <2>3. tx = [sigs |-> sigs, msg |-> m]
      BY <1>3 DEF Given
    <2> HIDE DEF sigs
    <2> QED BY <1>1, <2>1, <2>2, <2>3
  <1>4. \/ tx = NoTx \/ \E m \in Messages : tx = NewTransaction(m)
        \/ \E m \in Messages : \E c \in 0 .. m.header[1], signed \in BOOLEAN : tx = Given(m, c, signed)
    BY DEF Init
  <1> QED BY <1>2, <1>3, <1>4 DEF Good

LEMMA NoTodo ==
    ASSUME todo' = <<>>
    PROVE  TodoOK(tx)'
  BY DEF TodoOK

LEMMA InvInit ==
    ASSUME SignaturesFit, Init
    PROVE  WInv /\ (MessagesUnambiguous => IInv)
  <1>1. todo = <<>> /\ wire = Refused /\ fresh = {} /\ sent = {}
    BY DEF Init
  <1>2. CASE tx = NoTx
    BY <1>1, <1>2 DEF WInv, IInv, Idle, Refused
  <1>3. CASE TxOK(tx) /\ tx.msg \in Messages
    <2>1. TodoOK(tx) /\ Signed(tx, fresh)
      BY <1>1 DEF TodoOK, Signed
    <2>2. WInv
      BY <1>1, <1>3, <2>1 DEF WInv, Refused
    <2>3. MessagesUnambiguous => Unambiguous(tx)
      BY <1>3 DEF MessagesUnambiguous, Unambiguous, NumReq
    <2> QED BY <1>1, <1>3, <2>1, <2>2, <2>3 DEF IInv, Held
  <1> QED BY <1>2, <1>3, InitTx


--------------------------------------------------------------------------------
(***************************************************************************)
(* Every action keeps the invariant.                                        *)
(***************************************************************************)

\* The wire's part, where neither it nor its history changes.
LEMMA WireKept ==
    ASSUME wire # Refused => \E t : SentBy(t), UNCHANGED <<wire, sent>>
    PROVE  wire' # Refused => \E t : SentBy(t)'
  BY DEF SentBy, Signed, Signable, SlotSigned, NumReq, Unambiguous, TxOK

LEMMA HeldNext ==
    ASSUME TxOK(tx'), Unambiguous(tx'), Signed(tx', fresh'), TodoOK(tx)',
           wire # Refused => \E t : SentBy(t), UNCHANGED <<wire, sent>>
    PROVE  IInv'
  <1>1. wire' # Refused => \E t : SentBy(t)'
    BY WireKept
  <1> QED BY <1>1 DEF IInv, Held

LEMMA UnchangedKeeps ==
    ASSUME IInv, UNCHANGED <<tx, todo, wire, fresh, sent>>
    PROVE  IInv'
  <1>1. CASE Idle
    BY <1>1 DEF IInv, Idle
  <1>2. CASE Held
    <2>1. TxOK(tx') /\ Unambiguous(tx') /\ Signed(tx', fresh')
      BY <1>2 DEF Held
    <2>2. TodoOK(tx)'
      BY <1>2 DEF Held, TodoOK
    <2> QED BY <1>2, <2>1, <2>2, HeldNext DEF Held
  <1> QED BY <1>1, <1>2 DEF IInv

LEMMA FailKeeps ==
    ASSUME IInv, SignerFails
    PROVE  IInv'
  <1>1. Held
    BY DEF IInv, Idle, SignerFails
  <1>2. TxOK(tx') /\ Unambiguous(tx') /\ Signed(tx', fresh')
    BY <1>1 DEF Held, SignerFails
  <1>3. TodoOK(tx)'
    BY NoTodo DEF SignerFails
  <1> QED BY <1>1, <1>2, <1>3, HeldNext DEF Held, SignerFails

LEMMA PublishKeeps ==
    ASSUME IInv, Publish
    PROVE  IInv'
  <1>1. Held
    BY DEF IInv, Idle, Publish
  <1>2. TxOK(tx') /\ Unambiguous(tx') /\ Signed(tx', fresh') /\ Signed(tx', sent')
    BY <1>1 DEF Held, Publish
  <1>3. TodoOK(tx)'
    BY NoTodo DEF Publish
  <1>4. SentBy(tx)'
    BY <1>2 DEF SentBy, Publish
  <1>5. \E t : SentBy(t)'
    BY <1>4
  <1> QED BY <1>2, <1>3, <1>5 DEF IInv, Held

LEMMA ReceiveKeeps ==
    ASSUME IInv, Receive
    PROVE  IInv'
  <1>1. Held
    BY DEF IInv, Idle, Receive
  <1>2. PICK t : SentBy(t)
    BY <1>1 DEF Held, Receive
  <1>3. /\ TxOK(t) /\ Unambiguous(t) /\ MarshalTx(t) # Refused /\ Signed(t, sent)
        /\ wire = MarshalTx(t)
    BY <1>2 DEF SentBy
  <1>4. t.msg.header[1] < Cont
    BY <1>3 DEF Unambiguous, NumReq
  <1>5. UnmarshalTx(wire).val = DecodedTx(t)
    BY <1>3, <1>4, UnmarshalMarshalled
  <1>6. tx' = DecodedTx(t) /\ fresh' = sent
    BY <1>5 DEF Receive
  <1>7. Marshal(t.msg) # Refused
    BY <1>3 DEF MarshalTx, Marshal
  <1>8. TxOK(tx') /\ Unambiguous(tx') /\ Signed(tx', fresh')
    BY <1>3, <1>6, <1>7, DecodedFacts
  <1>9. TodoOK(tx)'
    BY NoTodo DEF Receive
  <1> QED BY <1>1, <1>8, <1>9, HeldNext DEF Held, Receive

\* ReplaceBlockhash leaves a well-formed transaction with the same slots.
LEMMA ReplaceTx ==
    ASSUME TxOK(tx), NEW h \in Hashes, ReplaceBlockhash(h)
    PROVE  TxOK(tx') /\ NumReq(tx') = NumReq(tx)
  <1>1. /\ tx = [sigs |-> tx.sigs, msg |-> tx.msg] /\ tx.sigs \in Seq(OfSize(SigSize))
        /\ tx.msg \in Message /\ ConfigFits(tx.msg)
    BY TxFacts
  <1> DEFINE m == [tx.msg EXCEPT !.hash = h]
  <1>2. h \in OfSize(HashSize)
    BY MessagesAssumption
  <1>3. m \in Message /\ m.header = tx.msg.header /\ m.config = tx.msg.config /\ m.version = tx.msg.version
    BY <1>1, <1>2 DEF Message
  <1>4. tx' = [sigs |-> tx.sigs, msg |-> m]
    BY <1>1 DEF ReplaceBlockhash
  <1> HIDE DEF m
  <1>5. ConfigFits(m)
    BY <1>1, <1>3 DEF ConfigFits
  <1>6. tx'.sigs = tx.sigs /\ tx'.msg = m
    BY <1>4
  <1>7. TxOK(tx')
    BY <1>1, <1>3, <1>4, <1>5, <1>6 DEF TxOK
  <1> QED BY <1>3, <1>6, <1>7 DEF NumReq

LEMMA ReplaceKeeps ==
    ASSUME IInv, NEW h \in Hashes, ReplaceBlockhash(h)
    PROVE  IInv'
  <1>1. Held
    BY DEF IInv, Idle, ReplaceBlockhash
  <1>2. TxOK(tx') /\ Unambiguous(tx')
    BY <1>1, ReplaceTx DEF Held, Unambiguous
  <1>3. Signed(tx', fresh')
    BY DEF Signed, ReplaceBlockhash
  <1>4. TodoOK(tx)'
    BY NoTodo DEF ReplaceBlockhash
  <1> QED BY <1>1, <1>2, <1>3, <1>4, HeldNext DEF Held, ReplaceBlockhash

\* Sign pairs every signer with a slot of its key.
LEMMA SlotsPaired ==
    ASSUME NEW t, NumReq(t) \in Nat, NEW signers \in Seq(Signers),
           \A k \in ToSet(signers) : Slots(t, k) # {}
    PROVE  LET z == Zip(signers, SlotsOf(t, signers))
           IN  /\ z \in Seq(UNION {{key} \X (1 .. NumReq(t)) : key \in Signers})
               /\ \A j \in 1 .. Len(z) : t.msg.keys[z[j][2]] = z[j][1]
  <1> DEFINE s == SlotsOf(t, signers)
             z == Zip(signers, s)
             P == UNION {{key} \X (1 .. NumReq(t)) : key \in Signers}
  <1>1. PICK c \in Nat : c = Len(signers) /\ DOMAIN signers = 1 .. c
    OBVIOUS
  <1>2. ASSUME NEW i \in 1 .. c
        PROVE  s[i] \in 1 .. NumReq(t) /\ t.msg.keys[s[i]] = signers[i] /\ signers[i] \in Signers
    <2>1. signers[i] \in ToSet(signers) /\ signers[i] \in Signers
      BY <1>1 DEF ToSet
    <2>2. Slots(t, signers[i]) # {} /\ Slots(t, signers[i]) \subseteq 0 .. NumReq(t)
      BY <2>1 DEF Slots
    <2>3. Max(Slots(t, signers[i])) \in Slots(t, signers[i])
      BY <2>2, MaxProperty
    <2>4. s[i] = Max(Slots(t, signers[i]))
      BY <1>1 DEF SlotsOf
    <2> QED BY <2>1, <2>3, <2>4 DEF Slots
  <1>3. s = [i \in 1 .. c |-> s[i]] /\ s \in Seq(1 .. NumReq(t)) /\ Len(s) = c
    <2>1. s = [i \in 1 .. c |-> s[i]]
      BY <1>1 DEF SlotsOf
    <2> HIDE DEF s
    <2>2. s \in [1 .. c -> 1 .. NumReq(t)]
      BY <1>2, <2>1
    <2> QED BY <2>1, <2>2
  <1> HIDE DEF s
  <1>4. z = [i \in 1 .. c |-> <<signers[i], s[i]>>]
    BY <1>1, <1>3 DEF Zip
  <1> HIDE DEF z
  <1>5. \A i \in 1 .. c : z[i] = <<signers[i], s[i]>> /\ z[i] \in P
    <2> SUFFICES ASSUME NEW i \in 1 .. c PROVE z[i] = <<signers[i], s[i]>> /\ z[i] \in P
      OBVIOUS
    <2>1. z[i] = <<signers[i], s[i]>>
      BY <1>4
    <2>2. <<signers[i], s[i]>> \in {signers[i]} \X (1 .. NumReq(t)) /\ signers[i] \in Signers
      BY <1>2
    <2> QED BY <2>1, <2>2
  <1> HIDE DEF P
  <1>6. z \in [1 .. c -> P]
    BY <1>4, <1>5
  <1>7. z \in Seq(P) /\ Len(z) = c
    BY <1>6
  <1>8. \A j \in 1 .. c : z[j][2] = s[j] /\ z[j][1] = signers[j]
    BY <1>5
  <1> QED BY <1>2, <1>7, <1>8 DEF z, s, P

LEMMA GrownFacts ==
    ASSUME NEW sigs \in Seq(OfSize(SigSize)), NEW n \in Nat
    PROVE  /\ Grown(sigs, n) \in Seq(OfSize(SigSize)) /\ Len(Grown(sigs, n)) >= n
           /\ Len(Grown(sigs, n)) \in Nat /\ Len(Grown(sigs, n)) >= Len(sigs)
           /\ \A i \in 1 .. Len(sigs) : Grown(sigs, n)[i] = sigs[i]
  <1>1. PICK c \in Nat : c = Len(sigs) /\ sigs \in [1 .. c -> OfSize(SigSize)]
    OBVIOUS
  <1>2. CASE c >= n
    BY <1>1, <1>2 DEF Grown
  <1>3. CASE ~(c >= n)
    <2> DEFINE g == [i \in 1 .. n |-> IF i <= c THEN sigs[i] ELSE Zero]
    <2>1. Grown(sigs, n) = g
      BY <1>1, <1>3 DEF Grown
    <2>2. g \in [1 .. n -> OfSize(SigSize)]
      <3> SUFFICES ASSUME NEW i \in 1 .. n
                   PROVE (IF i <= c THEN sigs[i] ELSE Zero) \in OfSize(SigSize)
        OBVIOUS
      <3>1. CASE i <= c
        BY <1>1, <3>1
      <3>2. CASE ~(i <= c)
        BY <3>2, ZeroFits
      <3> QED BY <3>1, <3>2
    <2>3. \A i \in 1 .. c : g[i] = sigs[i]
      BY <1>3
    <2> HIDE DEF g
    <2>4. g \in Seq(OfSize(SigSize)) /\ Len(g) = n
      BY <2>2
    <2> QED BY <1>1, <1>3, <2>1, <2>3, <2>4
  <1> QED BY <1>2, <1>3

\* Sign grows the slots, and leaves signers to ask only where all can sign.
LEMMA SignTx ==
    ASSUME TxOK(tx), NEW n \in 1 .. MaxSigners, NEW signers \in [1 .. n -> Signers], Sign(signers)
    PROVE  /\ TxOK(tx') /\ tx'.sigs = Grown(tx.sigs, NumReq(tx)) /\ tx'.msg = tx.msg
           /\ NumReq(tx') = NumReq(tx) /\ TodoOK(tx)'
  <1>1. tx.sigs \in Seq(OfSize(SigSize)) /\ NumReq(tx) \in Nat
    BY TxFacts
  <1> DEFINE g == Grown(tx.sigs, NumReq(tx))
  <1>2. g \in Seq(OfSize(SigSize)) /\ Len(g) >= NumReq(tx)
    BY <1>1, GrownFacts
  <1>3. tx' = [tx EXCEPT !.sigs = g]
    BY DEF Sign
  <1> HIDE DEF g
  <1>4. TxOK(tx') /\ tx'.sigs = g /\ tx'.msg = tx.msg
    BY <1>2, <1>3, OtherSigs
  <1>5. NumReq(tx') = NumReq(tx)
    BY <1>4 DEF NumReq
  <1>6. TodoOK(tx)'
    <2>1. CASE todo' = <<>>
      BY <2>1, NoTodo
    <2>2. CASE todo' # <<>>
      <3>1. /\ todo' = Zip(signers, SlotsOf(tx, signers)) /\ Marshal(tx.msg) # Refused
            /\ \A k \in ToSet(signers) : Slots(tx, k) # {}
            /\ Len(tx.msg.keys) >= NumReq(tx)
        BY <2>2 DEF Sign
      <3>2. signers \in Seq(Signers)
        OBVIOUS
      <3>3. /\ todo' \in Seq(UNION {{key} \X (1 .. NumReq(tx)) : key \in Signers})
            /\ \A j \in 1 .. Len(todo') : tx.msg.keys[todo'[j][2]] = todo'[j][1]
        BY <1>1, <3>1, <3>2, SlotsPaired
      <3>4. Signable(tx')
        BY <1>2, <1>4, <1>5, <3>1 DEF Signable
      <3> QED BY <1>4, <1>5, <3>3, <3>4 DEF TodoOK
    <2> QED BY <2>1, <2>2
  <1> QED BY <1>4, <1>5, <1>6 DEF g

LEMMA SignKeeps ==
    ASSUME IInv, NEW n \in 1 .. MaxSigners, NEW signers \in [1 .. n -> Signers], Sign(signers)
    PROVE  IInv'
  <1>1. Held
    BY DEF IInv, Idle, Sign
  <1>2. TxOK(tx) /\ Unambiguous(tx) /\ Signed(tx, fresh)
    BY <1>1 DEF Held
  <1>3. /\ TxOK(tx') /\ tx'.sigs = Grown(tx.sigs, NumReq(tx)) /\ tx'.msg = tx.msg
        /\ NumReq(tx') = NumReq(tx) /\ TodoOK(tx)'
    BY <1>2, SignTx
  <1>4. Unambiguous(tx')
    BY <1>2, <1>3 DEF Unambiguous
  <1>5. Signed(tx', fresh')
    <2>1. fresh' = fresh
      BY DEF Sign
    <2>2. CASE fresh = {}
      BY <2>1, <2>2 DEF Signed
    <2>3. CASE fresh # {}
      <3>1. Len(tx.sigs) >= NumReq(tx)
        BY <1>2, <2>3 DEF Signed, Signable
      <3>2. tx'.sigs = tx.sigs
        BY <1>3, <3>1 DEF Grown
      <3> QED BY <1>2, <1>3, <2>1, <3>2, SameSigned
    <2> QED BY <2>2, <2>3
  <1> QED BY <1>1, <1>3, <1>4, <1>5, HeldNext DEF Held, Sign

\* SignerSigns fills one slot, with a signature of the slot's key over the message.
LEMMA SignsTx ==
    ASSUME SignaturesFit, TxOK(tx), TodoOK(tx), SignerSigns
    PROVE  /\ TxOK(tx') /\ tx'.msg = tx.msg /\ NumReq(tx') = NumReq(tx)
           /\ Signable(tx') /\ TodoOK(tx)'
           /\ \E slot \in 1 .. NumReq(tx) :
                 /\ fresh' = fresh \cup {slot} /\ SlotSigned(tx', slot)
                 /\ \A i : i # slot => tx'.sigs[i] = tx.sigs[i]
  <1>1. /\ tx = [sigs |-> tx.sigs, msg |-> tx.msg] /\ tx.sigs \in Seq(OfSize(SigSize))
        /\ NumReq(tx) \in Nat /\ Len(tx.sigs) \in Nat
    BY TxFacts
  <1> DEFINE P == UNION {{key} \X (1 .. NumReq(tx)) : key \in Signers}
             key == Head(todo)[1]
             slot == Head(todo)[2]
             sig == EdSign(key, Marshal(tx.msg))
             g == [tx.sigs EXCEPT ![slot] = sig]
  <1>2. /\ todo \in Seq(P) /\ todo # <<>> /\ Signable(tx)
        /\ \A j \in 1 .. Len(todo) : tx.msg.keys[todo[j][2]] = todo[j][1]
    BY DEF TodoOK, SignerSigns
  <1>3. slot \in 1 .. NumReq(tx) /\ tx.msg.keys[slot] = key
    <2>1. Head(todo) = todo[1] /\ todo[1] \in P /\ 1 \in 1 .. Len(todo)
      <3> HIDE DEF P
      <3> QED BY <1>2
    <2>2. PICK k \in Signers : Head(todo) \in {k} \X (1 .. NumReq(tx))
      BY <2>1
    <2>3. tx.msg.keys[todo[1][2]] = todo[1][1]
      BY <1>2, <2>1
    <2> QED BY <2>1, <2>2, <2>3
  <1>4. tx' = [tx EXCEPT !.sigs = g]
    BY DEF SignerSigns
  <1>5. sig \in OfSize(SigSize)
    BY DEF SignaturesFit
  <1>6. todo' = Tail(todo) /\ fresh' = fresh \cup {slot}
    BY DEF SignerSigns
  <1> HIDE DEF key, slot, sig
  <1>7. g \in Seq(OfSize(SigSize)) /\ Len(g) = Len(tx.sigs)
    <2>1. PICK c \in Nat : c = Len(tx.sigs) /\ tx.sigs \in [1 .. c -> OfSize(SigSize)]
      BY <1>1
    <2>2. g \in [1 .. c -> OfSize(SigSize)]
      BY <1>5, <2>1
    <2> HIDE DEF g
    <2> QED BY <2>1, <2>2
  <1>8. slot \in DOMAIN tx.sigs
    BY <1>1, <1>2, <1>3 DEF Signable
  <1>9. g[slot] = sig /\ \A i : i # slot => g[i] = tx.sigs[i]
    BY <1>8
  <1> HIDE DEF g
  <1>10. TxOK(tx') /\ tx'.sigs = g /\ tx'.msg = tx.msg
    BY <1>4, <1>7, OtherSigs
  <1>11. NumReq(tx') = NumReq(tx)
    BY <1>10 DEF NumReq
  <1>12. Signable(tx')
    BY <1>2, <1>7, <1>10, <1>11 DEF Signable
  <1>13. SlotSigned(tx', slot)
    BY <1>3, <1>9, <1>10 DEF SlotSigned, sig
  <1>14. \A i : i # slot => tx'.sigs[i] = tx.sigs[i]
    BY <1>9, <1>10
  <1>15. TodoOK(tx)'
    <2> HIDE DEF P
    <2>1. /\ Tail(todo) \in Seq(P) /\ Len(Tail(todo)) = Len(todo) - 1
          /\ \A j \in 1 .. Len(Tail(todo)) : Tail(todo)[j] = todo[j + 1] /\ j + 1 \in 1 .. Len(todo)
      BY <1>2
    <2>2. /\ todo' \in Seq(P)
          /\ \A j \in 1 .. Len(todo') : tx.msg.keys[todo'[j][2]] = todo'[j][1]
      BY <1>2, <1>6, <2>1
    <2> QED BY <1>10, <1>11, <1>12, <2>2 DEF TodoOK, P
  <1> QED BY <1>3, <1>6, <1>10, <1>11, <1>12, <1>13, <1>14, <1>15

LEMMA SignsKeeps ==
    ASSUME SignaturesFit, IInv, SignerSigns
    PROVE  IInv'
  <1>1. Held
    BY DEF IInv, Idle, SignerSigns
  <1>2. TxOK(tx) /\ Unambiguous(tx) /\ Signed(tx, fresh) /\ TodoOK(tx)
    BY <1>1 DEF Held
  <1>3. /\ TxOK(tx') /\ tx'.msg = tx.msg /\ NumReq(tx') = NumReq(tx)
        /\ Signable(tx') /\ TodoOK(tx)'
    BY <1>2, SignsTx
  <1>4. PICK slot \in 1 .. NumReq(tx) :
                 /\ fresh' = fresh \cup {slot} /\ SlotSigned(tx', slot)
                 /\ \A i : i # slot => tx'.sigs[i] = tx.sigs[i]
    BY <1>2, SignsTx
  <1>5. Unambiguous(tx')
    BY <1>2, <1>3 DEF Unambiguous
  <1>6. Signed(tx', fresh')
    <2>1. fresh' \subseteq 1 .. NumReq(tx')
      BY <1>2, <1>3, <1>4 DEF Signed
    <2>2. ASSUME NEW i \in fresh' PROVE SlotSigned(tx', i)
      <3>1. CASE i = slot
        BY <1>4, <3>1
      <3>2. CASE i # slot
        <4>1. SlotSigned(tx, i)
          BY <1>2, <1>4, <3>2 DEF Signed
        <4> QED BY <1>3, <1>4, <3>2, <4>1 DEF SlotSigned
      <3> QED BY <3>1, <3>2
    <2> QED BY <1>3, <2>1, <2>2 DEF Signed
  <1> QED BY <1>1, <1>3, <1>5, <1>6, HeldNext DEF Held, SignerSigns


LEMMA NextKeeps ==
    ASSUME SignaturesFit, IInv, [Next]_vars
    PROVE  IInv'
  <1>1. CASE UNCHANGED vars
    BY <1>1, UnchangedKeeps DEF vars
  <1>2. ASSUME NEW signers \in UNION {[1 .. n -> Signers] : n \in 1 .. MaxSigners}, Sign(signers)
        PROVE  IInv'
    <2>1. PICK n \in 1 .. MaxSigners : signers \in [1 .. n -> Signers]
      OBVIOUS
    <2> QED BY <1>2, <2>1, SignKeeps
  <1>3. CASE SignerSigns
    BY <1>3, SignsKeeps
  <1>4. CASE SignerFails
    BY <1>4, FailKeeps
  <1>5. CASE Publish
    BY <1>5, PublishKeeps
  <1>6. CASE Receive
    BY <1>6, ReceiveKeeps
  <1>7. ASSUME NEW h \in Hashes, ReplaceBlockhash(h) PROVE IInv'
    BY <1>7, ReplaceKeeps
  <1>8. ASSUME NEW b \in Alphabet(input), ReadByte(b) PROVE IInv'
    BY <1>8, UnchangedKeeps DEF ReadByte
  <1> QED BY <1>1, <1>2, <1>3, <1>4, <1>5, <1>6, <1>7, <1>8 DEF Next

\* The weaker invariant: every operation leaves a well-formed transaction, and so
\* does the decoder, whatever it was given.
LEMMA WNextKeeps ==
    ASSUME SignaturesFit, WInv, [Next]_vars
    PROVE  WInv'
  <1>1. tx # NoTx \/ todo # <<>> => TxOK(tx) /\ TodoOK(tx)
    BY DEF WInv
  <1>2. wire \in Seq(Byte)
    BY DEF WInv
  <1>3. CASE UNCHANGED <<tx, todo, wire>>
    <2>1. TodoOK(tx) => TodoOK(tx)'
      BY <1>3 DEF TodoOK
    <2> QED BY <1>1, <1>2, <1>3, <2>1 DEF WInv
  <1>4. ASSUME TxOK(tx'), TodoOK(tx)', wire' = wire PROVE WInv'
    BY <1>2, <1>4 DEF WInv
  <1>5. ASSUME NEW signers \in UNION {[1 .. n -> Signers] : n \in 1 .. MaxSigners}, Sign(signers)
        PROVE  WInv'
    <2>1. PICK n \in 1 .. MaxSigners : signers \in [1 .. n -> Signers]
      OBVIOUS
    <2>2. tx # NoTx /\ wire' = wire
      BY <1>5 DEF Sign
    <2> QED BY <1>1, <1>4, <1>5, <2>1, <2>2, SignTx
  <1>6. CASE SignerSigns
    <2>1. todo # <<>> /\ wire' = wire
      BY <1>6 DEF SignerSigns
    <2> QED BY <1>1, <1>4, <1>6, <2>1, SignsTx
  <1>7. CASE SignerFails
    <2>1. todo # <<>> /\ wire' = wire /\ tx' = tx /\ todo' = <<>>
      BY <1>7 DEF SignerFails
    <2> QED BY <1>1, <1>4, <2>1, NoTodo
  <1>8. CASE Publish
    <2>1. tx # NoTx /\ MarshalTx(tx) # Refused /\ wire' = MarshalTx(tx) /\ tx' = tx /\ todo' = todo
      BY <1>8 DEF Publish
    <2>2. TodoOK(tx)'
      BY <1>1, <2>1 DEF TodoOK
    <2>3. wire' \in Seq(Byte)
      <3>1. tx.msg \in Message /\ ConfigFits(tx.msg)
        BY <1>1, <2>1, TxFacts
      <3>2. /\ Marshal(tx.msg) # Refused /\ FlattenSeq(tx.sigs) \in Seq(Byte)
            /\ PrefixedItems(tx.sigs) \in Seq(Byte)
            /\ MarshalTx(tx) = IF tx.msg.version = V1 THEN Marshal(tx.msg) \o FlattenSeq(tx.sigs)
                               ELSE PrefixedItems(tx.sigs) \o Marshal(tx.msg)
        BY <1>1, <2>1, MarshalledTx
      <3>3. Marshal(tx.msg) \in Seq(Byte)
        BY <3>1, <3>2, MarshalBytes
      <3> QED BY <2>1, <3>2, <3>3, ConcatBytes
    <2> QED BY <1>1, <2>1, <2>2, <2>3 DEF WInv
  <1>9. CASE Receive
    <2>1. UnmarshalTx(wire).err = "nil" /\ tx' = UnmarshalTx(wire).val /\ wire' = wire /\ todo' = <<>>
      BY <1>9 DEF Receive
    <2>2. TxOK(tx')
      BY <1>2, <2>1, UnmarshalTxRead
    <2> QED BY <1>4, <2>1, <2>2, NoTodo
  <1>10. ASSUME NEW h \in Hashes, ReplaceBlockhash(h) PROVE WInv'
    <2>1. tx # NoTx /\ wire' = wire /\ todo' = <<>>
      BY <1>10 DEF ReplaceBlockhash
    <2> QED BY <1>1, <1>4, <1>10, <2>1, ReplaceTx, NoTodo
  <1>11. ASSUME NEW b \in Alphabet(input), ReadByte(b) PROVE WInv'
    BY <1>3, <1>11 DEF ReadByte
  <1> QED BY <1>3, <1>5, <1>6, <1>7, <1>8, <1>9, <1>10, <1>11 DEF Next, vars

--------------------------------------------------------------------------------
(***************************************************************************)
(* The theorems.  They hold for any sizes, messages, signers and hashes, and   *)
(* any length of the run, provided signatures have their size.  Only those     *)
(* about what is signed also need messages that require fewer than Cont         *)
(* signatures: the decoder takes a legacy message with more for a versioned one. *)
(***************************************************************************)

\* Whatever was signed, sent, altered and received, the transaction at hand has the parts
\* its Go types allow: signatures of SigSize bytes, a message with a config only in v1 and
\* every value in its width; and each signer the running Sign has yet to ask is paired with
\* a slot of its own key (Transaction.Sign, ReplaceBlockhash, Marshal, UnmarshalBinary).
THEOREM WellFormed ==
    ASSUME SignaturesFit
    PROVE  Spec => []WInv
  <1>1. Init => WInv
    BY InvInit
  <1>2. WInv /\ [Next]_vars => WInv'
    BY WNextKeeps
  <1> QED BY <1>1, <1>2, PTL DEF Spec

\* In every state there is no transaction at all, or one of well-formed parts whose
\* fresh slots hold signatures over its message; the running Sign pairs each signer
\* with a slot of its key; and what is on the wire is the encoding of a transaction
\* whose slots in sent are signed (Transaction.Sign, Marshal, UnmarshalBinary).
THEOREM Invariant ==
    ASSUME SignaturesFit, MessagesUnambiguous
    PROVE  Spec => []IInv
  <1>1. Init => IInv
    BY InvInit
  <1>2. IInv /\ [Next]_vars => IInv'
    BY NextKeeps
  <1> QED BY <1>1, <1>2, PTL DEF Spec

\* A slot that Sign filled since the message last changed verifies, whichever calls
\* failed half-way, whoever signed in between and however often the transaction
\* was marshalled and decoded; with all slots filled VerifySignatures accepts it.
THEOREM SignaturesVerify ==
    ASSUME SignaturesFit, MessagesUnambiguous
    PROVE  Spec => []SignedVerifies
  <1>1. IInv => SignedVerifies
    <2>1. ASSUME Idle PROVE SignedVerifies
      BY <2>1 DEF Idle, SignedVerifies
    <2>2. ASSUME Held PROVE SignedVerifies
      <3>1. Signed(tx, fresh)
        BY <2>2 DEF Held
      <3>2. \A i \in fresh : tx.sigs[i] = EdSign(tx.msg.keys[i], Marshal(tx.msg))
        BY <3>1 DEF Signed, SlotSigned
      <3>3. ASSUME fresh # {}, fresh = 1 .. NumReq(tx) PROVE VerifySignatures(tx)
        BY <3>1, <3>2, <3>3 DEF Signed, Signable, VerifySignatures
      <3> QED BY <3>2, <3>3 DEF SignedVerifies
    <2> QED BY <2>1, <2>2 DEF IInv
  <1> QED BY <1>1, Invariant, PTL

\* What Transaction.Marshal writes, UnmarshalBinary reads back as the same
\* transaction, in the legacy, v0 and v1 formats; and every proper prefix of it is
\* an error, so a truncated transaction never passes for a shorter one.
THEOREM TransactionRoundTrip ==
    ASSUME SignaturesFit
    PROVE  Spec => []RoundTrip
  <1>1. WInv => RoundTrip
    <2> SUFFICES ASSUME WInv, tx # NoTx, MarshalTx(tx) # Refused, Unambiguous(tx)
                 PROVE  /\ UnmarshalTx(MarshalTx(tx)).err = "nil"
                        /\ UnmarshalTx(MarshalTx(tx)).val = [tx EXCEPT !.msg = Decoded(@)]
                        /\ \A n \in 0 .. Len(MarshalTx(tx)) - 1 :
                              UnmarshalTx(SubSeq(MarshalTx(tx), 1, n)).err = "short"
      BY DEF RoundTrip
    <2>1. TxOK(tx)
      BY DEF WInv
    <2>2. tx.msg.header[1] < Cont
      BY DEF Unambiguous, NumReq
    <2>3. DecodedTx(tx) = [tx EXCEPT !.msg = Decoded(@)]
      BY <2>1, TxFacts DEF DecodedTx
    <2> QED BY <2>1, <2>2, <2>3, UnmarshalMarshalled
  <1> QED BY <1>1, WellFormed, PTL

\* SerializedSize of a transaction, and of its message, is the length of what
\* Marshal writes, in all three formats.
THEOREM SizesExact ==
    ASSUME SignaturesFit
    PROVE  Spec => []SizeExact
  <1>1. WInv => SizeExact
    <2> SUFFICES ASSUME WInv, tx # NoTx PROVE SizeExact
      BY DEF SizeExact
    <2>1. TxOK(tx)
      BY DEF WInv
    <2>2. tx.msg \in Message /\ ConfigFits(tx.msg)
      BY <2>1, TxFacts
    <2>3. Marshal(tx.msg) # Refused => Len(Marshal(tx.msg)) = SerializedSize(tx.msg)
      BY <2>2, MessageSize
    <2>4. MarshalTx(tx) # Refused => Len(MarshalTx(tx)) = SerializedSizeTx(tx)
      BY <2>1, TransactionSize
    <2> QED BY <2>3, <2>4 DEF SizeExact
  <1> QED BY <1>1, WellFormed, PTL

\* A step changes a signature only by the running Sign filling the slot with a
\* signature of the slot's own key over the message as it is (or by taking a
\* transaction from the wire): no call of Sign, complete or failed, loses one.
THEOREM SignaturesSurvive ==
    ASSUME SignaturesFit
    PROVE  Spec => SignaturesKept
  <1> DEFINE K == tx # NoTx => \A i \in DOMAIN tx.sigs :
                     (tx'.sigs[i] # tx.sigs[i] /\ ~Receive) =>
                         todo # <<>> /\ tx'.sigs[i] = EdSign(tx.msg.keys[i], Marshal(tx.msg))
  <1>1. WInv /\ [Next]_vars => [K]_vars
    <2> SUFFICES ASSUME WInv, Next, tx # NoTx, NEW i \in DOMAIN tx.sigs,
                        tx'.sigs[i] # tx.sigs[i], ~Receive
                 PROVE  todo # <<>> /\ tx'.sigs[i] = EdSign(tx.msg.keys[i], Marshal(tx.msg))
      OBVIOUS
    <2>2. TxOK(tx) /\ TodoOK(tx)
      BY DEF WInv
    <2>3. /\ tx = [sigs |-> tx.sigs, msg |-> tx.msg] /\ tx.sigs \in Seq(OfSize(SigSize))
          /\ DOMAIN tx.sigs = 1 .. Len(tx.sigs) /\ NumReq(tx) \in Nat
      BY <2>2, TxFacts
    <2>4. ASSUME NEW signers, Sign(signers) PROVE FALSE
      <3>1. tx' = [tx EXCEPT !.sigs = Grown(tx.sigs, NumReq(tx))]
        BY <2>4 DEF Sign
      <3>2. tx'.sigs = Grown(tx.sigs, NumReq(tx))
        BY <2>3, <3>1
      <3>3. Grown(tx.sigs, NumReq(tx))[i] = tx.sigs[i]
        BY <2>3, GrownFacts
      <3> QED BY <3>2, <3>3
    <2>5. ASSUME NEW h, ReplaceBlockhash(h) PROVE FALSE
      BY <2>3, <2>5 DEF ReplaceBlockhash
    <2>6. ~SignerFails /\ ~Publish
      BY DEF SignerFails, Publish
    <2>7. ASSUME NEW b, ReadByte(b) PROVE FALSE
      BY <2>7 DEF ReadByte
    <2>8. SignerSigns
      BY <2>4, <2>5, <2>6, <2>7 DEF Next
    <2> DEFINE key == Head(todo)[1]
               slot == Head(todo)[2]
    <2>9. todo # <<>> /\ tx' = [tx EXCEPT !.sigs[slot] = EdSign(key, Marshal(tx.msg))]
      BY <2>8 DEF SignerSigns
    <2>10. tx.msg.keys[slot] = key
      <3>1. Head(todo) = todo[1] /\ 1 \in 1 .. Len(todo)
        BY <2>2, <2>9 DEF TodoOK
      <3> QED BY <2>2, <3>1 DEF TodoOK
    <2> HIDE DEF key, slot
    <2>11. tx'.sigs = [tx.sigs EXCEPT ![slot] = EdSign(key, Marshal(tx.msg))]
      BY <2>3, <2>9
    <2>12. i = slot /\ tx'.sigs[i] = EdSign(key, Marshal(tx.msg))
      BY <2>11
    <2> QED BY <2>9, <2>10, <2>12
  <1> QED BY <1>1, WellFormed, PTL DEF Spec, SignaturesKept

\* DecodeEntries gives back the transactions an entry was made of, each of them
\* cut at its own end whatever the formats of its neighbours, as long as the
\* entry is within the decoder's limits.
THEOREM StreamOfTransactions ==
    ASSUME SignaturesFit,
           MaxEntriesPerDecode \in Nat \ {0}, MaxTxPerEntry \in Nat, MaxTxPerEntry >= 3
    PROVE  Spec => []StreamDecodes
  <1>1. WInv => StreamDecodes
    <2> SUFFICES ASSUME WInv, tx # NoTx, MarshalTx(tx) # Refused, Unambiguous(tx),
                        NEW m \in Messages, MarshalTx(NewTransaction(m)) # Refused,
                        Unambiguous(NewTransaction(m))
                 PROVE  LET other == NewTransaction(m)
                            txs == <<other, tx, other>>
                            p == DecodeEntries(EntryOf(txs))
                        IN  /\ p.err = "nil"
                            /\ p.val[1].txs = [i \in 1 .. 3 |-> [txs[i] EXCEPT !.msg = Decoded(@)]]
      BY DEF StreamDecodes
    <2> DEFINE other == NewTransaction(m)
               txs == <<other, tx, other>>
    <2>1. TxOK(tx) /\ tx.msg.header[1] < Cont
      BY DEF WInv, Unambiguous, NumReq
    <2>2. TxOK(other) /\ other.msg.header[1] < Cont /\ MarshalTx(other) # Refused
      <3>1. m \in Message /\ ConfigFits(m)
        BY MessagesAssumption
      <3>2. m.header \in OfSize(3)
        BY <3>1, MessageParts
      <3>3. m.header[1] \in Byte
        BY <3>2 DEF OfSize
      <3>4. m.header[1] \in Nat
        BY <3>3, Sizes DEF Byte
      <3>5. [i \in 1 .. m.header[1] |-> Zero] \in [1 .. m.header[1] -> OfSize(SigSize)]
        BY ZeroFits
      <3>6. [i \in 1 .. m.header[1] |-> Zero] \in Seq(OfSize(SigSize))
        BY <3>4, <3>5
      <3>7. /\ other.sigs = [i \in 1 .. m.header[1] |-> Zero] /\ other.msg = m
            /\ other = [sigs |-> other.sigs, msg |-> other.msg]
        BY DEF NewTransaction
      <3>8. TxOK(other)
        BY <3>1, <3>6, <3>7 DEF TxOK
      <3> QED BY <3>8 DEF Unambiguous, NumReq
    <2> HIDE DEF other
    <2>3. /\ Len(txs) = 3 /\ DOMAIN txs = 1 .. 3 /\ 3 \in Byte
          /\ txs[1] = other /\ txs[2] = tx /\ txs[3] = other
      BY Sizes DEF Byte
    <2> HIDE DEF txs
    <2>4. TxsOK(txs)
      <3>1. \A i \in 1 .. 3 : i = 1 \/ i = 2 \/ i = 3
        OBVIOUS
      <3> QED BY <2>1, <2>2, <2>3, <3>1 DEF TxsOK
    <2>5. /\ DecodeEntries(EntryOf(txs)).err = "nil"
          /\ DecodeEntries(EntryOf(txs)).val[1].txs = [i \in 1 .. 3 |-> DecodedTx(txs[i])]
      BY <2>3, <2>4, DecodeEntriesStands
    <2>6. [i \in 1 .. 3 |-> DecodedTx(txs[i])] = [i \in 1 .. 3 |-> [txs[i] EXCEPT !.msg = Decoded(@)]]
      BY DEF DecodedTx
    <2> QED BY <2>5, <2>6 DEF txs, other
  <1> QED BY <1>1, WellFormed, PTL

\* The reader is fed bytes.
AlphabetFits == \A s \in Seq(Byte) : Alphabet(s) \subseteq Byte

\* Whatever bytes UnmarshalBinary of a message accepts, of any length and in any of the
\* three formats, Marshal writes the same bytes for the message it returned: there is
\* one encoding of a message.  By induction on the bytes the reader got, and from
\* DecodeMessageRead: what each reader of the decoder consumed is what the writer of
\* that part writes for the value it returned.
THEOREM OneEncoding == ASSUME AlphabetFits PROVE Spec => []Canonical
  <1> DEFINE I == input \in Seq(Byte)
  <1>1. Init => I
    BY DEF Init
  <1>2. I /\ [Next]_vars => I'
    <2> SUFFICES ASSUME I, [Next]_vars PROVE I'
      OBVIOUS
    <2>1. ASSUME NEW b \in Alphabet(input), ReadByte(b) PROVE I'
      <3>1. b \in Byte /\ input' = Append(input, b)
        BY <2>1 DEF ReadByte, AlphabetFits
      <3> QED BY <3>1
    <2>2. CASE input' = input
      BY <2>2
    <2>3. \/ input' = input \/ \E b \in Alphabet(input) : ReadByte(b)
      BY DEF Next, vars, Sign, SignerSigns, SignerFails, Publish, Receive, ReplaceBlockhash
    <2> QED BY <2>1, <2>2, <2>3
  <1>3. I => Canonical
    BY UnmarshalMessageRead DEF Canonical
  <1> HIDE DEF I
  <1> QED BY <1>1, <1>2, <1>3, PTL DEF Spec

\* Bytes that UnmarshalBinary of a transaction accepts are the bytes Marshal writes for the
\* transaction it returned, whatever they are, in all but two cases the code lets through:
\* fewer or more signatures than the header asks for, and a v1 message that follows a vector
\* of signatures instead of preceding them (src/transaction.go:259).
THEOREM OneTransactionEncoding ==
    ASSUME NEW b \in Seq(Byte), NEW t, t = UnmarshalTx(b).val, UnmarshalTx(b).err = "nil",
           Len(t.sigs) = NumReq(t), t.msg.version = V1 => b[1] = Cont + V1
    PROVE  MarshalTx(t) = b
  <1>1. /\ TxOK(t) /\ Marshal(t.msg) # Refused
        /\ \/ /\ t.msg.version = V1 /\ b = Marshal(t.msg) \o FlattenSeq(t.sigs)
           \/ /\ b[1] # Cont + V1 /\ b = PrefixedItems(t.sigs) \o Marshal(t.msg)
    BY UnmarshalTxRead
  <1>2. Validate(t.msg) /\ Marshal(t.msg) = MarshalInto(t.msg)
    BY <1>1 DEF Marshal
  <1>3. t.msg.header \in OfSize(3) /\ Len(t.sigs) \in Nat /\ t.sigs \in Seq(OfSize(SigSize))
    BY <1>1, TxFacts, MessageParts
  <1>4. Len(t.sigs) <= MaxU8
    BY <1>3 DEF NumReq, OfSize, Byte
  <1>5. MaxU8 <= MaxU16
    BY Sizes DEF MaxU16
  <1>6. ~(Len(t.sigs) > MaxU16) /\ Len(t.sigs) = t.msg.header[1]
    BY <1>3, <1>4, <1>5, Sizes DEF NumReq, MaxU16
  <1>7. MarshalTx(t) = IF t.msg.version = V1 THEN Marshal(t.msg) \o FlattenSeq(t.sigs)
                       ELSE PrefixedItems(t.sigs) \o Marshal(t.msg)
    BY <1>1, <1>2, <1>6 DEF MarshalTx, PrefixedItems
  <1> QED BY <1>1, <1>7

================================================================================
