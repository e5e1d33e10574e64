-------------------------------- MODULE MCTxFlow --------------------------------
(***************************************************************************)
(* Small instances of TxFlow: bytes of three bits, keys, hashes and            *)
(* signatures of one byte.                                                   *)
(***************************************************************************)
EXTENDS TxFlow

MCSigners == {<<0>>, <<1>>, <<2>>}
MCHashes == {<<0>>, <<1>>}

\* Different for the three signers and, since the blockhash is all that changes in
\* a behaviour, for the versions of a message; never zero.
MCEdSign(key, bytes) == <<1 + 2 * (key[1] % 3) + (SumOf(bytes) % 2)>>

Ix(program, accounts, data) ==
    [program |-> program, accounts |-> accounts, data |-> data]
Msg(version, header, keys, ixs, lookups, config) ==
    [version |-> version, header |-> header, hash |-> <<0>>, ixs |-> ixs,
     keys |-> [i \in 1 .. keys |-> <<(i - 1) % ByteMod>>],
     lookups |-> lookups, config |-> config]
Lookup == [key |-> <<6>>, writable |-> <<1, 0>>, readonly |-> <<3>>]

\* Every format, with and without its optional parts; counts below, at and above
\* one shortvec group and a byte; a legacy message with lookups, which is invalid;
\* as many signatures as make the count look like the v1 prefix; no signature.
MCMessages == {
    Msg(Legacy, <<2, 1, 0>>, 3, <<Ix(2, <<0, 1>>, <<7, 4, 5, 4, 0>>)>>, <<>>, <<>>),
    Msg(Legacy, <<1, 0, 1>>, 20, <<Ix(1, <<>>, <<>>), Ix(2, <<5, 4, 3, 2>>, <<1>>)>>,
        <<>>, <<>>),
    Msg(Legacy, <<1, 0, 0>>, 2, <<>>, <<Lookup>>, <<>>),
    [Msg(Legacy, <<5, 0, 0>>, 5, <<>>, <<>>, <<>>)
        EXCEPT !.keys = <<<<6>>, <<5>>, <<4>>, <<3>>, <<0>>>>],
    Msg(Legacy, <<0, 0, 0>>, 1, <<>>, <<>>, <<>>),
    Msg(Legacy, <<3, 0, 0>>, 2, <<>>, <<>>, <<>>),
    Msg(V0, <<2, 0, 1>>, 4, <<Ix(3, <<0, 5>>, <<1, 2>>)>>, <<Lookup, Lookup>>, <<>>),
    Msg(V0, <<1, 0, 0>>, 64, <<>>, <<>>, <<>>),
    Msg(V1, <<2, 0, 1>>, 3, <<Ix(2, <<1, 0>>, <<4>>), Ix(2, <<>>, <<5, 5>>)>>, <<>>,
        <<<<9>>, <<>>, <<17>>, <<1>>>>),
    Msg(V1, <<1, 0, 0>>, 2, <<>>, <<>>, <<>>),
    Msg(V1, <<1, 0, 0>>, 8, <<>>, <<>>, <<<<>>, <<3>>, <<>>, <<>>>>) }

\* Counts, versions and masks vary, header counts do not; a v1 message gets every
\* kind of mask, a valid one or not, and the longer inputs its config and its
\* instructions need.
MCAlphabet(s) ==
    LET n == Len(s) + 1
    IN  IF n = 1 THEN {0, 4, 5, 6}
        ELSE IF n \in 2 .. 3 THEN {0}
        ELSE IF s[1] # 5 THEN IF n <= 8 THEN {0, 1, 4, 5}
                              ELSE IF n <= 11 THEN {0, 1, 4} ELSE {}
        ELSE IF n = 4 THEN {0}
        ELSE IF n = 5 THEN {0, 1, 3, 4, 7}
        ELSE IF n <= 8 THEN {0, 1, 4}
        ELSE {0, 1}
================================================================================
