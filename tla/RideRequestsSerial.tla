------------------------- MODULE RideRequestsSerial -------------------------
(***************************************************************************)
(* What ride requests owe passengers and drivers when HTTP requests do not *)
(* overlap (Handlers has one element), although handlers may fail halfway  *)
(* and callbacks and events arrive late and repeatedly.                    *)
(***************************************************************************)
EXTENDS RideRequests, Functions

\* A request is booked at most once and for the driver it names: whichever of
\* the two ways of accepting comes first, a callback sent twice or for another
\* driver, and an offer accepted after it, book nothing more.
BookedOnce ==
  \A q \in RideReqs :
    trips[q] # << >> =>
      /\ Len(trips[q]) = 1
      /\ request[q] = [status |-> "ACCEPTED", driver |-> trips[q][1].driver]

\* The request and its offers tell the same story: the accepted offer is the
\* one of the request's driver, there is none before that, and after that no
\* other driver is left with an offer the passenger could still accept.
OffersAgree ==
  \A q \in RideReqs, d \in Drivers :
    /\ offer[q][d] = "ACCEPTED" <=>
         request[q].status = "ACCEPTED" /\ request[q].driver = d
    /\ offer[q][d] = "SENT" => request[q].status # "ACCEPTED"

\* An accepted request stays accepted, by the same driver, and a cancelled one
\* cancelled: not even the second write of POST /ride-requests reopens it.
ClosedStaysClosed ==
  [][\A q \in RideReqs :
       request[q].status \in {"ACCEPTED", "CANCELLED"}
         => request'[q] = request[q]]_vars

\* The bookings made for requests, each by its request and its place there, the
\* seats each has, and those made by accepting an offer of d.
AllTrips == UNION {{<<q, i>> : i \in DOMAIN trips[q]} : q \in RideReqs}
TripSeats == [b \in AllTrips |-> trips[b[1]][b[2]].seats]
TakenTrips(d) ==
  {b \in AllTrips : /\ trips[b[1]][b[2]].driver = d
                    /\ trips[b[1]][b[2]].status = "ACCEPTED"}

\* The ride a driver offers to several passengers is left with the seats that
\* no accepted offer took: no acceptance is forgotten, none is counted twice, and
\* neither an offer of more seats than are needed nor an edit of seatsNeeded,
\* between the offer and its acceptance or after it, makes the ride give other
\* seats than the booking has.
SeatsAccounted ==
  \A d \in Drivers :
    avail[d] + SumFunctionOnSet(TripSeats, TakenTrips(d)) = Capacity[d]

\* A passenger who has paid for a JIT request gets one: the webhook that failed
\* is delivered again until the request is inserted, and the event is never
\* acknowledged on the way.  This is promised only for what can be inserted: the
\* handler of the intent accepts, and Stripe charges for, bodies that the webhook
\* rejects at every delivery (Unstorable), and their passengers get no request.
PaidRequestAppears ==
  \A q \in RideReqs \ Unstorable : intent[q] = "succeeded" ~> request[q].status # "none"
=============================================================================
