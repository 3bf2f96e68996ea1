----------------------------- MODULE MCOrderBook -----------------------------
(***************************************************************************)
(* OrderBook on small instances.  Descriptors are interchangeable: the     *)
(* code only compares them.  Two prices of one instrument and one of the   *)
(* other show matches, other prices and other instruments; a quantity of   *)
(* three sweeps three resting orders, which grows the fill array twice     *)
(* from a capacity of one.                                                 *)
(***************************************************************************)
EXTENDS OrderBook

CONSTANTS fd1, fd2

MCFds == {fd1, fd2}
TwoPrices == {<<"JNST", 10>>, <<"JNST", 11>>}
TwoInstruments == TwoPrices \cup {<<"IMCT", 10>>}
MCQuantities == {1, 3}
FdSymmetry == Permutations(MCFds)
=============================================================================
