-------------------------------- MODULE WideInts --------------------------------
(***************************************************************************)
(* The 128- and 256-bit integers: U128 and U256 of encoding/u128.go, byte        *)
(* arrays, and Uint128, Int128, Uint256 and Int256 of large_int.go, pairs of      *)
(* halves.  math/big is external: a big.Int is an integer, big.Int.Bytes its      *)
(* digits in base ByteMod, most significant first and without leading zeros.      *)
(***************************************************************************)
EXTENDS Wire

CONSTANT WordSize      \* bytes of a uint64, in this module

Size128 == 2 * WordSize
Size256 == 4 * WordSize
Zeros(n) == [i \in 1 .. n |-> 0]
BitLenFits(x, n) == x < ByteMod ^ n

\* big.Int.Bytes and big.Int.SetBytes.
Bytes(x) ==
    LET d[v \in 0 .. x] == IF v = 0 THEN <<>> ELSE Append(d[v \div ByteMod], v % ByteMod)
    IN  d[x]
SetBytes(be) == FoldLeft(LAMBDA v, b : v * ByteMod + b, 0, be)
Abs(x) == IF x < 0 THEN -x ELSE x

(***************************************************************************)
(* encoding.U128 and encoding.U256: u[1] is the least significant byte.         *)
(***************************************************************************)
Word(u, i) == LittleEndian(SubSeq(u, i * WordSize + 1, (i + 1) * WordSize))
Lo(u) == Word(u, 0)
Hi(u) == Word(u, 1)
SetUint64(v) == WriteUint(v, WordSize) \o Zeros(WordSize)
SetLoHi(lo, hi) == WriteUint(lo, WordSize) \o WriteUint(hi, WordSize)
SetWord(u, i, v) ==
    SubSeq(u, 1, i * WordSize) \o WriteUint(v, WordSize)
    \o SubSeq(u, (i + 1) * WordSize + 1, Len(u))
BigInt(u) == SetBytes(Reverse(u))
IsZero(u) == \A i \in 0 .. (Len(u) \div WordSize) - 1 : Word(u, i) = 0

\* SetBigInt of x into u: [err, u].
FromBytes(be, n) == Reverse(be) \o Zeros(n - Len(be))
SetBigInt(u, x) ==
    IF x < 0 THEN [err |-> "negative", u |-> u]
    ELSE IF ~BitLenFits(x, Len(u)) THEN [err |-> "overflow", u |-> u]
    ELSE [err |-> "nil", u |-> FromBytes(Bytes(x), Len(u))]

(***************************************************************************)
(* Decimal text: String, MarshalText and MarshalJSON, UnmarshalText and           *)
(* UnmarshalJSON.  A text is a sequence of characters: digits 0..9, Minus, Plus,  *)
(* Quote and others.                                                          *)
(***************************************************************************)
Minus == 10
Plus  == 11
Quote == 12
Decimal(x) ==
    LET d[v \in 0 .. x] == IF v < 10 THEN <<v>> ELSE Append(d[v \div 10], v % 10)
    IN  d[x]
\* One word is formatted on its own.
String(u) ==
    IF \A i \in 1 .. (Len(u) \div WordSize) - 1 : Word(u, i) = 0 THEN Decimal(Word(u, 0))
    ELSE Decimal(BigInt(u))
MarshalJSON(u) == <<Quote>> \o String(u) \o <<Quote>>

\* big.Int.SetString in base 10, a sign in front is allowed.
Digits(s) == s # <<>> /\ \A i \in DOMAIN s : s[i] \in 0 .. 9
Number(s) == FoldLeft(LAMBDA v, c : v * 10 + c, 0, s)
UnmarshalText(u, s) ==
    IF Digits(s) THEN SetBigInt(u, Number(s))
    ELSE IF s # <<>> /\ Head(s) \in {Minus, Plus} /\ Digits(Tail(s))
      THEN SetBigInt(u, IF Head(s) = Minus THEN -Number(Tail(s)) ELSE Number(Tail(s)))
    ELSE [err |-> "invalid", u |-> u]
UnmarshalJSON(u, s) ==
    IF Len(s) >= 2 /\ s[1] = Quote /\ s[Len(s)] = Quote
      THEN UnmarshalText(u, SubSeq(s, 2, Len(s) - 1))
      ELSE UnmarshalText(u, s)

(***************************************************************************)
(* Uint128 and its relatives: lo and hi words, and for 256 bits two pairs.        *)
(***************************************************************************)
Read128(p) == ReadBytes(p, Size128)                  \* ReadU128
Uint128(raw) == [lo |-> Lo(raw), hi |-> Hi(raw)]
Int128(raw) == [lo |-> Lo(raw), hi |-> AsInt(Hi(raw), WordSize)]

\* UnmarshalFromDecoder.
UnmarshalUint128(p) == LET q == Read128(p) IN Value(q, Uint128(q.val))
UnmarshalInt128(p)  == LET q == Read128(p) IN Value(q, Int128(q.val))
HalvesOf(lo, hi)    == Value(hi, [lo |-> lo.val, hi |-> hi.val])
UnmarshalUint256(p) == LET lo == UnmarshalUint128(p) IN HalvesOf(lo, UnmarshalUint128(lo))
UnmarshalInt256(p)  == LET lo == UnmarshalUint128(p) IN HalvesOf(lo, UnmarshalInt128(lo))

\* MarshalToEncoder and Bytes, of the signed types as well.
Bytes128(v) == WriteUint(v.lo, WordSize) \o WriteUint(AsUint(v.hi, WordSize), WordSize)
Bytes256(v) == Bytes128(v.lo) \o Bytes128(v.hi)

\* BigInt, which for Int256 is what String prints.
NoSign(v, top, n) == v             \* mutant: the sign of the high word is lost
TopSigned(v, top, n) == IF top < 0 THEN v - ByteMod ^ n ELSE v
BigInt128(v) == TopSigned(SetBytes(Reverse(Bytes128(v))), v.hi, Size128)
BigInt256(v) == TopSigned(SetBytes(Reverse(Bytes256(v))), v.hi.hi, Size256)

\* Uint128FromBigInt keeps the low bytes of the magnitude.
Uint128FromBigInt(x) ==
    LET b == Bytes(Abs(x))
        cut == IF Len(b) > Size128 THEN SubSeq(b, Len(b) - Size128 + 1, Len(b)) ELSE b
    IN  Uint128(FromBytes(cut, Size128))
================================================================================
