----------------------------- MODULE MCServices -----------------------------
(***************************************************************************)
(* The instance TLC checks: one booking of two seats, one ride of the      *)
(* driver, two requests in flight, one client; distances of 10.05 km, whose*)
(* cap is not a whole number of cents, and of 60 km.                       *)
(***************************************************************************)
EXTENDS Services, TLC

TwoEach == [b \in Passengers |-> 2]

Symmetries == Permutations(Handlers)
=============================================================================
