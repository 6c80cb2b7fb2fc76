--------------------------- MODULE BookingsClaims ---------------------------
(***************************************************************************)
(* What the README or an error message of the repository says of rides,    *)
(* bookings and payments, and the code does not keep.  Each is refuted by  *)
(* a run of its own.                                                       *)
(***************************************************************************)
EXTENDS BookingsSerial

\* "Not enough seats available to confirm this booking"
\* (booking.controller.ts:767): a step that keeps seatsTotal does not make the
\* accepted bookings take more seats than the ride has.
ConfirmNeverOversells ==
  [][\A r \in Rides :
       ride'[r].total = ride[r].total /\ Taken(r) <= ride[r].total
         => Taken(r)' <= ride[r].total]_vars

\* "If payment was already completed, initiates Stripe refund automatically."
\* (README.md:799): a passenger's cancellation does not keep the money of a
\* payment that had succeeded.
CompletedPaymentRefunded ==
  [][\A b \in Bookings :
       booking[b].status # "cancelled_by_passenger"
         /\ booking'[b].status = "cancelled_by_passenger"
         => intent[b] # "succeeded"]_vars
=============================================================================
