--------------------------- MODULE MCRideRequests ---------------------------
(***************************************************************************)
(* The instances TLC checks: one or two ride requests, one or two drivers, *)
(* one or two HTTP requests in flight.                                     *)
(***************************************************************************)
EXTENDS RideRequestsClaims, RideRequestsCustody, TLC

CONSTANTS q1, q2, d1, d2, h1, h2

\* ModeOf
AllJit    == [q \in RideReqs |-> "JIT"]
FirstJit  == [q \in RideReqs |-> IF q = q1 THEN "JIT" ELSE "OFFER"]

\* SeatsNeeded
OneSeat   == [q \in RideReqs |-> 1]
FirstTwo  == [q \in RideReqs |-> IF q = q1 THEN 2 ELSE 1]

\* EditSeats and OfferSeats
NoneNamed == [q \in RideReqs |-> {}]
SecondTwo == [q \in RideReqs |-> IF q = q2 THEN {2} ELSE {}]

\* Capacity
OneLeft   == [d \in Drivers |-> 1]
TwoAndOne == [d \in Drivers |-> IF d = d1 THEN 2 ELSE 1]

HandlerSymmetry == Permutations(Handlers)
=============================================================================
