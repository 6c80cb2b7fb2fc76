------------------------ MODULE RideRequestsCustody -------------------------
(***************************************************************************)
(* RideRequests implements Custody: the refinement mapping.                *)
(***************************************************************************)
EXTENDS RideRequests

MoneyOf(q) ==
  CASE intent[q] = "succeeded" -> "held"
    [] intent[q] = "refunded"  -> "returned"
    [] OTHER                   -> "none"

\* The Payment row of the request, and Booking.paymentStatus of its trips.
BooksOf(q) ==
  {w \in {"paid", "refunded"} :
     \/ payment[q].status = IF w = "paid" THEN "succeeded" ELSE w
     \/ \E i \in DOMAIN trips[q] : trips[q][i].pay = w}

\* The service a just-in-time request pays for is the search for a driver.
C == INSTANCE Custody WITH
       Fares  <- RideReqs,
       money  <- [q \in RideReqs |-> MoneyOf(q)],
       served <- {q \in RideReqs : ModeOf[q] = "JIT" /\ request[q].status # "none"},
       books  <- [q \in RideReqs |-> BooksOf(q)]

\* Ride requests, the dispatcher's callbacks, offers and webhooks together keep
\* the promise about money: an intent is captured once and refunded once, no
\* driver is sought before, and no row says more than what has happened.
KeepsCustody == C!Spec
=============================================================================
