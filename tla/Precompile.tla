------------------------------- MODULE Precompile -------------------------------
(***************************************************************************)
(* The instruction data of the signature precompiles                             *)
(* (programs/ed25519/instructions.go, programs/secp256k1/instructions.go): a      *)
(* count, descriptors of offsets into the data, and what the offsets point at.    *)
(* The fields of a descriptor are named alike in both; key is the public key or   *)
(* the Ethereum address.                                                         *)
(***************************************************************************)
EXTENDS Wire

CONSTANT EthSize       \* bytes of an Ethereum address, 20

U16Size == 2
PutU8(v) == WriteUint(v, 1)
PutU16(v) == WriteUint(v, U16Size)

Data(bytes) == [err |-> "nil", data |-> bytes]
TooLong == [err |-> "length", data |-> <<>>]

Ed25519SignatureOffsets(o) ==
    PutU16(o.sig) \o PutU16(o.sigIx) \o PutU16(o.key) \o PutU16(o.keyIx)
    \o PutU16(o.msg) \o PutU16(o.size) \o PutU16(o.msgIx)
Secp256k1SignatureOffsets(o) ==
    PutU16(o.sig) \o PutU8(o.sigIx) \o PutU16(o.key) \o PutU8(o.keyIx)
    \o PutU16(o.msg) \o PutU16(o.size) \o PutU8(o.msgIx)

\* One descriptor for the whole instruction; self is the index of this instruction.
Inline(sig, key, msg, size, self) ==
    [sig |-> sig, sigIx |-> self, key |-> key, keyIx |-> self,
     msg |-> msg, size |-> size % (MaxU16 + 1), msgIx |-> self]

EdData(publicKey, signature, message) ==
    LET pubkeyOffset == 2 + 7 * U16Size
        sigOffset    == pubkeyOffset + KeySize
        msgOffset    == sigOffset + SigSize
        offsets      == Inline(sigOffset, pubkeyOffset, msgOffset, Len(message), MaxU16)
    IN  Data(<<1, 0>> \o Ed25519SignatureOffsets(offsets)
             \o publicKey \o signature \o message)
Unlimited(publicKey, signature, message) ==       \* mutant: the length is not checked
    EdData(publicKey, signature, message)
NewVerifySignature(publicKey, signature, message) ==
    IF Len(message) > MaxU16 THEN TooLong ELSE EdData(publicKey, signature, message)

NewVerifyEthSignature(ethAddress, signature, recoveryID, message) ==
    LET sigOffset == 1 + 4 * U16Size + 3
        ethOffset == sigOffset + SigSize + 1
        msgOffset == ethOffset + EthSize
        offsets   == Inline(sigOffset, ethOffset, msgOffset, Len(message), MaxU8)
    IN  IF Len(message) > MaxU16 THEN TooLong
        ELSE Data(<<1>> \o Secp256k1SignatureOffsets(offsets)
                  \o signature \o <<recoveryID>> \o ethAddress \o message)

\* NewSignatureVerifyInstruction of either package.
EdSignatureVerify(descriptors) ==
    IF Len(descriptors) > MaxU8 THEN TooLong
    ELSE Data(<<Len(descriptors), 0>> \o FlattenSeq(
                  [i \in DOMAIN descriptors |-> Ed25519SignatureOffsets(descriptors[i])]))
SecpSignatureVerify(descriptors) ==
    IF Len(descriptors) > MaxU8 THEN TooLong
    ELSE Data(<<Len(descriptors)>> \o FlattenSeq(
                  [i \in DOMAIN descriptors |-> Secp256k1SignatureOffsets(descriptors[i])]))

(***************************************************************************)
(* Reference, external: the precompile reads the descriptors and what they       *)
(* point at.  widths are those of the seven fields of a descriptor.              *)
(***************************************************************************)
EdWidths == <<2, 2, 2, 2, 2, 2, 2>>
SecpWidths == <<2, 1, 2, 1, 2, 2, 1>>
Slice(data, off, n) == SubSeq(data, off + 1, off + n)
Descriptor(data, start, widths) ==
    LET field(k) == LittleEndian(Slice(data, start + SumOf(SubSeq(widths, 1, k - 1)), widths[k]))
    IN  [sig |-> field(1), sigIx |-> field(2), key |-> field(3), keyIx |-> field(4),
         msg |-> field(5), size |-> field(6), msgIx |-> field(7)]
Descriptors(data, start, widths) ==
    [i \in 1 .. data[1] |-> Descriptor(data, start + (i - 1) * SumOf(widths), widths)]
================================================================================
