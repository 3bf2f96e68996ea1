----------------------------- MODULE MCEventLoop -----------------------------
(***************************************************************************)
(* EventLoop on small instances: more clients than descriptors, so that    *)
(* descriptors are reused and run out, and a table that has to grow.       *)
(***************************************************************************)
EXTENDS EventLoop

CONSTANTS c1, c2, c3

TwoClients == {c1, c2}
ThreeClients == {c1, c2, c3}

(* A table of 2 doubles twice to take either, and 7 is then its last slot. *)
OneFd == {7}
TwoFds == {6, 7}

(* One client talks and the others only come and go. *)
Silent == [c \in Clients |-> 0]
OneLine == [c \in Clients |-> IF c = c1 THEN 1 ELSE 0]
TwoLines == [c \in Clients |-> IF c = c1 THEN 2 ELSE 0]
Nobody == {}
OneEndless == {c1}
OneLineEach == [c \in Clients |-> 1]
SilentSymmetry == Permutations(Clients \ {c1})
=============================================================================
