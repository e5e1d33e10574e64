------------------------------ MODULE MCWsClient ------------------------------
(***************************************************************************)
(* Small instances of WsClient for TLC.                                    *)
(***************************************************************************)
EXTENDS WsClient, TLC

Symmetry == Permutations(Callers) \cup Permutations(SubIDs)
===============================================================================
