---------------------------------- MODULE Pda ----------------------------------
(***************************************************************************)
(* Program derived addresses (pda.go), and those of associated token accounts *)
(* and lookup tables.  SHA-256 is external: an address is the bytes that are *)
(* hashed, and the addresses that lie on the curve are an input.           *)
(***************************************************************************)
EXTENDS Wire

CONSTANTS
    MaxPDASeeds, MaxPDASeedLength,   \* 16, 32
    MaxBump                          \* 255

Bumps == 0 .. MaxBump
NoAddress == <<>>

\* h.Write of every seed, the program and the marker.
Hashed(seeds, program) == FlattenSeq(seeds) \o program

CreateAnywhere(seeds, program, onCurve) ==    \* mutant: isOnCurve is not asked
    IF Len(seeds) > MaxPDASeeds THEN [err |-> "seeds", pk |-> NoAddress]
    ELSE IF \E i \in DOMAIN seeds : Len(seeds[i]) > MaxPDASeedLength
      THEN [err |-> "length", pk |-> NoAddress]
    ELSE [err |-> "nil", pk |-> Hashed(seeds, program)]
CreateProgramAddress(seeds, program, onCurve) ==
    LET pk == Hashed(seeds, program)
    IN  IF Len(seeds) > MaxPDASeeds THEN [err |-> "seeds", pk |-> NoAddress]
        ELSE IF \E i \in DOMAIN seeds : Len(seeds[i]) > MaxPDASeedLength
          THEN [err |-> "length", pk |-> NoAddress]
        ELSE IF pk \in onCurve THEN [err |-> "curve", pk |-> NoAddress]
        ELSE [err |-> "nil", pk |-> pk]

\* The loop from MaxBump down, which tries again after every error.
FindProgramAddress(seeds, program, onCurve) ==
    LET try[bump \in -1 .. MaxBump] ==
            IF bump < 0 THEN [err |-> "none", pk |-> NoAddress, bump |-> 0]
            ELSE LET r == CreateProgramAddress(Append(seeds, <<bump>>), program, onCurve)
                 IN  IF r.err = "nil" THEN [err |-> "nil", pk |-> r.pk, bump |-> bump]
                     ELSE try[bump - 1]
    IN  IF Len(seeds) >= MaxPDASeeds THEN [err |-> "seeds", pk |-> NoAddress, bump |-> 0]
        ELSE try[MaxBump]

FindAssociatedTokenAddress(wallet, mint, tokenProgram, program, onCurve) ==
    FindProgramAddress(<<wallet, tokenProgram, mint>>, program, onCurve)
DeriveLookupTableAddress(authority, recentSlot, program, onCurve) ==
    FindProgramAddress(<<authority, WriteUint(recentSlot, U64Size)>>, program, onCurve)
================================================================================
