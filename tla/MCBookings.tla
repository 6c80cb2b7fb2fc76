----------------------------- MODULE MCBookings -----------------------------
(***************************************************************************)
(* The instances TLC checks: one ride, one or two bookings, one or two     *)
(* requests in flight.                                                     *)
(***************************************************************************)
EXTENDS BookingsClaims, BookingsCustody, TLC

CONSTANTS r1, b1, b2, b3, h1, h2

OneRide == [b \in Bookings |-> r1]

\* One seat for the first booking; the second takes what may not be left.
OneSeatEach == [b \in Bookings |-> 1]
TwoForSecond == [b \in Bookings |-> IF b = b1 THEN 1 ELSE 2]

\* The driver's app sends 2 or 3; PATCH /rides/:id takes -1 as well.
AnyTotals == {2, 3, -1}

HandlerSymmetry == Permutations(Handlers)
=============================================================================
