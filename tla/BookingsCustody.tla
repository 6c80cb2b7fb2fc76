-------------------------- MODULE BookingsCustody ---------------------------
(***************************************************************************)
(* Bookings implements Custody: the refinement mapping.                    *)
(***************************************************************************)
EXTENDS Bookings

\* The money of a booking is where Stripe's intent says.
MoneyOf(b) ==
  CASE intent[b] = "succeeded" -> "held"
    [] intent[b] = "refunded"  -> "returned"
    [] OTHER                   -> "none"

\* Booking.paymentStatus and the Payment row of the booking.
BooksOf(b) ==
  {w \in {"paid", "refunded"} :
     \/ booking[b].pay = w
     \/ payment[b] = IF w = "paid" THEN "succeeded" ELSE w}

C == INSTANCE Custody WITH
       Fares  <- Bookings,
       money  <- [b \in Bookings |-> MoneyOf(b)],
       served <- {b \in Bookings : booking[b].status \in {"CONFIRMED", "completed"}},
       books  <- [b \in Bookings |-> BooksOf(b)]

\* The rides, bookings, payments and webhooks together keep the promise about
\* money, however requests overlap, fail and repeat: every step takes the money
\* of one booking, returns it, or records no more than what has happened to it.
KeepsCustody == C!Spec
=============================================================================
