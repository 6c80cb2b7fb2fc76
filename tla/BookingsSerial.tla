--------------------------- MODULE BookingsSerial ---------------------------
(***************************************************************************)
(* What rides and bookings owe their users when requests do not overlap    *)
(* (Handlers has one element), although handlers may still fail halfway    *)
(* and Stripe's events arrive late, repeatedly and in any order.  Several  *)
(* of these are false as soon as two requests overlap: BookingsClaims.     *)
(***************************************************************************)
EXTENDS Bookings, Functions

\* The seats of the ride taken by the bookings the driver has accepted.
TakenBy(r) ==
  {b \in BookingsOf(r) : booking[b].status \in Holding \cup {"completed"}}

Taken(r) == SumFunctionOnSet(SeatsOf, TakenBy(r))

\* The seat account of a ride balances: seatsAvailable and the seats taken
\* make up seatsTotal.  POST /rides/:id/cancel drops the account as it is.
Balanced(r) ==
  ride[r].status = "cancelled" \/ ride[r].avail + Taken(r) = ride[r].total

\* No operation unbalances a balanced account - confirming, cancelling by
\* either party at any stage of payment, a webhook that moves the booking, a
\* new seatsTotal - unless it shrinks the ride below the seats already taken.
SeatsStayBalanced ==
  [][\A r \in Rides :
       Balanced(r) /\ Taken(r)' <= ride'[r].total => Balanced(r)']_vars

\* A ride goes from open to ongoing to completed, is cancelled only before it
\* completes, and never comes back: not even through the status that
\* PUT /bookings/:id/confirm writes along with the seats.
RideLifecycle ==
  [][\A r \in Rides :
       LET now == ride[r].status
           next == ride'[r].status IN
       next # now =>
         CASE next = "open"      -> now = "none"
           [] next = "ongoing"   -> now = "open"
           [] next = "completed" -> now = "ongoing"
           [] next = "cancelled" -> now \in {"open", "ongoing"}
           [] next = "deleted"   -> BookingsOf(r) = {}]_vars

\* A cancelled or completed booking stays so: a late webhook, a new payment
\* intent or a confirmation does not revive it.
TerminalStays ==
  [][\A b \in Bookings :
       booking[b].status \in Terminal => booking'[b].status = booking[b].status]_vars

\* A booking the database knows as paid is confirmed, or over: every place
\* that looks for money to refund by looking at CONFIRMED bookings finds it
\* (POST /rides/:id/cancel looks nowhere else).
PaidIsConfirmed ==
  \A b \in Bookings :
    booking[b].pay = "paid" => booking[b].status \in {"CONFIRMED"} \cup Terminal

\* No cancellation, of the booking or of its ride, by either party, keeps the
\* money: when it commits on a paid booking Stripe has already refunded it, a
\* failure on the way or a retry notwithstanding.
RefundBeforeCancel ==
  [][\A b \in Bookings :
       booking[b].pay = "paid" /\ booking[b].status \in Active
         /\ booking'[b].status \in CancelledBy
       => intent[b] = "refunded"]_vars

\* A ride starts, and completes, only when each of its bookings that is neither
\* still pending nor over is paid and confirmed, never accepted or awaiting its
\* payment; and completing takes all of those along: a ride is never completed
\* under a booking left CONFIRMED.
RidesRunPaid ==
  [][\A r \in Rides :
       ride'[r].status # ride[r].status /\ ride'[r].status \in {"ongoing", "completed"}
       => \A b \in BookingsOf(r) :
            \/ booking[b].status \in {"pending"} \cup Terminal
            \/ /\ booking[b].status = "CONFIRMED" /\ booking[b].pay = "paid"
               /\ ride'[r].status = "completed" => booking'[b].status = "completed"]_vars
=============================================================================
