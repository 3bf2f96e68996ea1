------------------------------ MODULE MCExchange ------------------------------
(***************************************************************************)
(* Exchange on a small instance: three clients, enough for two traders to  *)
(* match under the eyes of a subscriber or for the third to take over the  *)
(* descriptor, and perhaps the name, of one that left; two orders that     *)
(* match in whole or in part; and a quantity that does not fit an int of   *)
(* five bits.                                                              *)
(***************************************************************************)
EXTENDS Exchange, TLC

CONSTANTS n1, n2

MCNames == {n1, n2}
MCFds == {1, 2, 3}
OneListing == {<<"JNST", 10>>}
TooLarge == 2^IntWidth + 2
MCAmounts == {0, 1, TooLarge}
MCQuantities == {1, 2}
NameSymmetry == Permutations(MCNames)
=============================================================================
