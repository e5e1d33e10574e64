--------------------------- MODULE MCMessageBuilder ----------------------------
(***************************************************************************)
(* Small instances of MessageBuilder: a payer, a program, three other        *)
(* accounts, and the ways lookup tables can overlap with them.               *)
(***************************************************************************)
EXTENDS MessageBuilder

CONSTANTS P, X, A, B, C, T1, T2

Table(k, addrs) == [key |-> k, addrs |-> addrs]

\* No table; one that holds the program; an address in both tables; a repeated
\* address, and the payer.
MCTableSets ==
    { <<>>,
      <<Table(T1, <<X, A>>)>>,
      <<Table(T1, <<C, A>>), Table(T2, <<B, A>>)>>,
      <<Table(T1, <<P, B, B>>), Table(T2, <<A>>)>> }
================================================================================
