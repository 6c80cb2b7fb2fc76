---------------------------- MODULE RideRequests ----------------------------
(***************************************************************************)
(* Ride requests of the HelpRide API: rideRequest.controller.ts,           *)
(* rideRequestOffer.controller.ts, lib/realtime.ts, the refund of a        *)
(* request in lib/refunds.ts, and the just-in-time (JIT) branch of         *)
(* stripe.controller.ts.                                                   *)
(*                                                                         *)
(* A passenger posts a request; drivers are found for it by the realtime   *)
(* dispatcher, a service of its own that calls POST .../accept back, or    *)
(* make offers the passenger accepts.  A JIT request is paid first: the    *)
(* webhook of its PaymentIntent creates it.                                *)
(*                                                                         *)
(* As in Bookings, a handler in flight is an element of Handlers, req[h]   *)
(* is what it remembers of the rows it read, and only its last write is    *)
(* atomic.                                                                 *)
(*                                                                         *)
(* Out of the model: fares, places and dates; the status "EXPIRED" of a    *)
(* request, which no handler writes, and the lower-case legacy ones.       *)
(* The ride a driver offers stays open here, and a trip, once booked, is a *)
(* booking that the operations of Bookings take over.                      *)
(***************************************************************************)
EXTENDS Integers, Sequences

CONSTANTS
  RideReqs,       \* ids of RideRequest rows
  Drivers,        \* drivers, each with one open ride to offer
  NoDriver,       \* driverId = null
  Handlers,       \* slots for HTTP requests in flight
  ModeOf,         \* "OFFER" or "JIT"
  SeatsNeeded,    \* seatsNeeded of the body that creates the request
  EditSeats,      \* those of the bodies of PUT /ride-requests/:id
  OfferSeats,     \* seatsOffered of the bodies that offer or accept and name it
  Unstorable,     \* JIT requests whose bodies the webhook cannot insert
  Capacity        \* seatsAvailable of the driver's ride at the start

ASSUME ParamsAssumption ==
  /\ NoDriver \notin Drivers
  /\ ModeOf \in [RideReqs -> {"OFFER", "JIT"}]
  /\ SeatsNeeded \in [RideReqs -> Nat \ {0}]
  /\ EditSeats \in [RideReqs -> SUBSET (Nat \ {0})]
  /\ OfferSeats \in [RideReqs -> SUBSET (Nat \ {0})]
  /\ Unstorable \subseteq {q \in RideReqs : ModeOf[q] = "JIT"}
  /\ Capacity \in [Drivers -> Nat]

VARIABLES
  request,    \* RideRequest rows: status and driverId
  needed,     \* and seatsNeeded, of the row or of the body that will create it
  offer,      \* status of the RideRequestOffer row, unique for (request, driver)
  offered,    \* and its seatsOffered
  avail,      \* seatsAvailable of the ride each driver offers
  trips,      \* the bookings made for a request, each with its driver
  payment,    \* the Payment row of a JIT intent, and the trip it points to
  intent,     \* Stripe's PaymentIntent of a JIT request
  events,     \* events Stripe has emitted about it
  acked,      \* those the webhook has answered 200, which Stripe need not resend
  live,       \* requests the dispatcher is offering to drivers
  callbacks,  \* accept callbacks the dispatcher has sent
  req         \* the handler running in each slot

seats    == <<needed, offered>>
rows     == <<request, needed, offer, offered, avail, trips, payment>>
stripe   == <<intent, events, acked>>
realtime == <<live, callbacks>>
vars     == <<request, needed, offer, offered, avail, trips, payment, intent, events,
              acked, live, callbacks, req>>

-----------------------------------------------------------------------------
RequestStatus == {"none", "PENDING", "OFFERING", "ACCEPTED", "CANCELLED"}
RequestRow    == [status : RequestStatus, driver : Drivers \cup {NoDriver}]

\* ACTIVE_REQUEST_STATUSES, OPEN_REQUEST_STATUSES and the webhook's
\* DISPATCHABLE_RIDE_REQUEST_STATUSES are the same set.
Open == {"PENDING", "OFFERING"}

OfferStatus == {"none", "SENT", "ACCEPTED", "REJECTED", "EXPIRED"}

\* REOPENABLE_OFFER_STATUSES
Reopenable == {"REJECTED", "EXPIRED"}

Trip == [driver : Drivers, status : {"ACCEPTED", "CONFIRMED"},
         pay : {"unpaid", "paid", "refunded"}, seats : Nat]

PaymentRow == [status : {"none", "succeeded", "refunded"}, trip : Nat]

Events == [kind : {"succeeded", "refunded"}, q : RideReqs]

Callbacks == [q : RideReqs, d : Drivers]

-----------------------------------------------------------------------------
(* A handler in flight.  ack is the event it will have acknowledged when   *)
(* it returns, if it is a webhook.                                         *)

Idle == [pc |-> "idle"]

RequestTask == [pc : {"offering", "refund", "cancel", "undispatch"}, q : RideReqs]
CreateTask  == [pc : {"jitCreate", "dispatch"}, q : RideReqs, ack : SUBSET Events]
HookTask    == [pc : {"hook"}, q : RideReqs, was : PaymentRow,
                wasPay : {"unpaid", "paid", "refunded"}, ack : SUBSET Events]
DriverTask  == [pc : {"offer", "insertOffer", "reopenOffer"},
                q : RideReqs, d : Drivers, seats : Nat]
AcceptTask  == [pc : {"accept"}, q : RideReqs, d : Drivers, gives : Nat, seats : Nat]
BookTask    == [pc : {"acceptOffer"}, q : RideReqs, d : Drivers, seen : Nat, seats : Nat]
CloseTask   == [pc : {"closeOffer"}, q : RideReqs, d : Drivers, to : Reopenable]
EditTask    == [pc : {"edit"}, q : RideReqs, to : Nat]

Tasks == {Idle} \cup RequestTask \cup CreateTask \cup HookTask \cup DriverTask
           \cup AcceptTask \cup BookTask \cup CloseTask \cup EditTask

Begin(h, task)  == req[h] = Idle /\ req' = [req EXCEPT ![h] = task]
At(h, pc)       == req[h].pc = pc
Become(h, task) == req' = [req EXCEPT ![h] = task]
Return(h)       == req' = [req EXCEPT ![h] = Idle]

TypeOK ==
  /\ request \in [RideReqs -> RequestRow]
  /\ needed \in [RideReqs -> Nat]
  /\ offer \in [RideReqs -> [Drivers -> OfferStatus]]
  /\ offered \in [RideReqs -> [Drivers -> Nat]]
  /\ avail \in [Drivers -> Nat]
  /\ trips \in [RideReqs -> Seq(Trip)]
  /\ payment \in [RideReqs -> PaymentRow]
  /\ intent \in [RideReqs -> {"none", "open", "succeeded", "refunded"}]
  /\ events \subseteq Events /\ acked \subseteq Events
  /\ live \subseteq RideReqs
  /\ callbacks \subseteq Callbacks
  /\ req \in [Handlers -> Tasks]

Init ==
  /\ request = [q \in RideReqs |-> [status |-> "none", driver |-> NoDriver]]
  /\ needed = SeatsNeeded
  /\ offer = [q \in RideReqs |-> [d \in Drivers |-> "none"]]
  /\ offered = [q \in RideReqs |-> [d \in Drivers |-> 0]]
  /\ avail = Capacity
  /\ trips = [q \in RideReqs |-> << >>]
  /\ payment = [q \in RideReqs |-> [status |-> "none", trip |-> 0]]
  /\ intent = [q \in RideReqs |-> "none"]
  /\ events = {} /\ acked = {}
  /\ live = {}
  /\ callbacks = {}
  /\ req = [h \in Handlers |-> Idle]

-----------------------------------------------------------------------------
(* POST /ride-requests: the row is inserted PENDING, updated to OFFERING   *)
(* whatever it has become, and dispatched.                                 *)

CreateRequest(h, q) ==
  /\ ModeOf[q] = "OFFER" /\ request[q].status = "none"
  /\ request' = [request EXCEPT ![q].status = "PENDING"]
  /\ Begin(h, [pc |-> "offering", q |-> q])
  /\ UNCHANGED <<seats, offer, avail, trips, payment, stripe, realtime>>

MarkOffering(h) ==
  LET q == req[h].q IN
  /\ At(h, "offering")
  /\ request' = [request EXCEPT ![q].status = "OFFERING"]
  /\ Become(h, [pc |-> "dispatch", q |-> q, ack |-> {}])
  /\ UNCHANGED <<seats, offer, avail, trips, payment, stripe, realtime>>

\* dispatchRideRequest; its failure is logged and the handler goes on.
Dispatch(h) ==
  /\ At(h, "dispatch")
  /\ live' \in {live, live \cup {req[h].q}}
  /\ acked' = acked \cup req[h].ack
  /\ Return(h)
  /\ UNCHANGED <<rows, intent, events, callbacks>>

\* PUT /ride-requests/:id, in whatever status the request is, paid or accepted
\* too.  A body without seatsNeeded writes back what was read.
UpdateRequest(h, q) ==
  /\ request[q].status # "none"
  /\ \E n \in EditSeats[q] \cup {needed[q]} : Begin(h, [pc |-> "edit", q |-> q, to |-> n])
  /\ UNCHANGED <<rows, stripe, realtime>>

CommitUpdateRequest(h) ==
  /\ At(h, "edit")
  /\ needed' = [needed EXCEPT ![req[h].q] = req[h].to]
  /\ Return(h)
  /\ UNCHANGED <<request, offer, offered, avail, trips, payment, stripe, realtime>>

-----------------------------------------------------------------------------
(* JIT requests.  POST /ride-requests/jit/intent writes no row; the same   *)
(* request again has the same idempotency key and the same intent.         *)

\* Mutant: the request is created before it is paid.
CreateIntentAndRequest(q) ==
  /\ ModeOf[q] = "JIT" /\ intent[q] = "none"
  /\ intent' = [intent EXCEPT ![q] = "open"]
  /\ request' = [request EXCEPT ![q].status = "OFFERING"]
  /\ UNCHANGED <<seats, offer, avail, trips, payment, events, acked, realtime, req>>

\* Mutant: without an idempotency key each call creates an intent.
CreateIntentEachTime(q) ==
  /\ ModeOf[q] = "JIT"
  /\ intent' = [intent EXCEPT ![q] = "open"]
  /\ UNCHANGED <<rows, events, acked, realtime, req>>

CreateJitIntent(q) ==
  /\ ModeOf[q] = "JIT" /\ intent[q] = "none"
  /\ intent' = [intent EXCEPT ![q] = "open"]
  /\ UNCHANGED <<rows, events, acked, realtime, req>>

\* The passenger's app pays.  A failed attempt is ignored by the webhook.
PayJitIntent(q) ==
  /\ intent[q] = "open"
  /\ intent' = [intent EXCEPT ![q] = "succeeded"]
  /\ events' = events \cup {[kind |-> "succeeded", q |-> q]}
  /\ UNCHANGED <<rows, acked, realtime, req>>

\* canRedispatchRideRequest
Redispatchable(q) == request[q].status \in Open /\ request[q].driver = NoDriver

\* handleJitRideRequestIntentSucceeded: no request yet, so create it; or it
\* exists and is dispatched again.
ReceiveSucceeded(h, e) ==
  /\ e \in events /\ e.kind = "succeeded"
  /\ \/ /\ request[e.q].status = "none"
        /\ Begin(h, [pc |-> "jitCreate", q |-> e.q, ack |-> {e}])
     \/ /\ Redispatchable(e.q)
        /\ Begin(h, [pc |-> "dispatch", q |-> e.q, ack |-> {e}])
  /\ UNCHANGED <<rows, stripe, realtime>>

\* jitPaymentIntentId is unique: a second insert fails, and so the handler.  What
\* the intent's handler lets pass, a seatsNeeded that is not whole or a blank city
\* or type, fails here each time: requireMetadataString, or the Int column, throws.
CommitJitRequest(h) ==
  LET q == req[h].q IN
  /\ At(h, "jitCreate") /\ request[q].status = "none" /\ q \notin Unstorable
  /\ request' = [request EXCEPT ![q].status = "OFFERING"]
  /\ Become(h, [pc |-> "dispatch", q |-> q, ack |-> req[h].ack])
  /\ UNCHANGED <<seats, offer, avail, trips, payment, stripe, realtime>>

\* charge.refunded is for handlePaymentIntentUpdate whatever the intent's flow;
\* it knows the Payment row, and the booking that row points to.
PayOfTrip(q) == trips[q][payment[q].trip].pay

RefundedIsNews(q) ==
  /\ payment[q].status # "none"
  /\ payment[q].status # "refunded" \/ PayOfTrip(q) # "refunded"

ReceiveRefunded(h, e) ==
  /\ e \in events /\ e.kind = "refunded" /\ RefundedIsNews(e.q)
  /\ Begin(h, [pc |-> "hook", q |-> e.q, was |-> payment[e.q],
               wasPay |-> PayOfTrip(e.q), ack |-> {e}])
  /\ UNCHANGED <<rows, stripe, realtime>>

ApplyRefunded(h) ==
  LET q == req[h].q
      was == req[h].was IN
  /\ At(h, "hook")
  /\ payment' = IF was.status # "refunded"
                THEN [payment EXCEPT ![q].status = "refunded"] ELSE payment
  /\ trips' = IF req[h].wasPay # "refunded"
              THEN [trips EXCEPT ![q][was.trip].pay = "refunded"] ELSE trips
  /\ acked' = acked \cup req[h].ack
  /\ Return(h)
  /\ UNCHANGED <<request, seats, offer, avail, intent, events, realtime>>

\* Mutant: JIT intents too go to handlePaymentIntentUpdate.
NothingToDoWithoutFlow(e) == payment[e.q].status = "none"

\* The request exists and is not for dispatch; the refund is known already, or
\* there is no Payment row.
NothingToDo(e) ==
  IF e.kind = "succeeded"
  THEN request[e.q].status # "none" /\ ~Redispatchable(e.q)
  ELSE ~RefundedIsNews(e.q)

AckEvent(e) ==
  /\ e \in events /\ NothingToDo(e)
  /\ acked' = acked \cup {e}
  /\ UNCHANGED <<rows, intent, events, realtime, req>>

-----------------------------------------------------------------------------
(* POST /ride-requests/:id/cancel                                          *)

\* Mutant: nothing is refunded while no payment is recorded.
RefundsFirstRecorded(q) == payment[q].status = "succeeded"

RefundsFirst(q) == ModeOf[q] = "JIT"

\* Mutant: only a cancelled request is refused.
CancellableAccepted(status) == status \notin {"none", "CANCELLED"}

Cancellable(status) == status \in Open

CancelRequest(h, q) ==
  /\ Cancellable(request[q].status)
  /\ Begin(h, [pc |-> IF RefundsFirst(q) THEN "refund" ELSE "cancel", q |-> q])
  /\ UNCHANGED <<rows, stripe, realtime>>

\* initiateRideRequestRefund; Stripe refunds an intent once and the error of
\* a second refund is taken as success.
RefundRequest(h) ==
  LET q == req[h].q IN
  /\ At(h, "refund")
  /\ \/ /\ payment[q].status = "refunded"     \* existingPayment: Stripe not called
        /\ UNCHANGED <<intent, events>>
     \/ /\ payment[q].status # "refunded" /\ intent[q] \in {"succeeded", "refunded"}
        /\ intent' = [intent EXCEPT ![q] = "refunded"]
        /\ events' = events \cup {[kind |-> "refunded", q |-> q]}
  /\ Become(h, [pc |-> "cancel", q |-> q])
  /\ UNCHANGED <<rows, acked, realtime>>

CommitCancelRequest(h) ==
  LET q == req[h].q IN
  /\ At(h, "cancel")
  /\ request' = [request EXCEPT ![q].status = "CANCELLED"]
  /\ Become(h, [pc |-> "undispatch", q |-> q])
  /\ UNCHANGED <<seats, offer, avail, trips, payment, stripe, realtime>>

\* dispatchRideRequestCancel; its failure too is only logged.
CancelDispatch(h) ==
  /\ At(h, "undispatch")
  /\ live' \in {live, live \ {req[h].q}}
  /\ Return(h)
  /\ UNCHANGED <<rows, stripe, callbacks>>

-----------------------------------------------------------------------------
(* POST /ride-requests/:id/accept, the dispatcher's callback.  The         *)
(* dispatcher calls for a driver who took a request it offers; a call may  *)
(* be late, and is repeated when its answer is lost.                       *)

DriverTakes(q, d) ==
  /\ q \in live
  /\ callbacks' = callbacks \cup {[q |-> q, d |-> d]}
  /\ UNCHANGED <<rows, stripe, live, req>>

\* Mutant: an accepted request is not recognised as such.
AcceptableAgain(status) == status \notin {"none", "CANCELLED"}

\* Neither accepted, which is answered 200, nor closed, which is answered 409.
Acceptable(status) == status \in Open

\* Mutant: whatever the dispatcher books is taken as paid.
PaidUpfrontAlways(q) == TRUE

\* Only a JIT request gets a ride, a booking and a Payment row here.
PaidUpfront(q) == ModeOf[q] = "JIT"

\* seatsOffered is the body's, or by default seatsNeeded.
SeatsNamed(q) == OfferSeats[q] \cup {needed[q]}

AcceptRequest(h, c) ==
  /\ c \in callbacks /\ Acceptable(request[c.q].status)
  /\ \E n \in SeatsNamed(c.q) :
       /\ PaidUpfront(c.q) => n >= needed[c.q]
       /\ Begin(h, [pc |-> "accept", q |-> c.q, d |-> c.d, gives |-> n, seats |-> needed[c.q]])
  /\ UNCHANGED <<rows, stripe, realtime>>

\* Mutant: the offers of the other drivers stay open.
AcceptAlone(q, d) == [offer EXCEPT ![q][d] = "ACCEPTED"]

\* The offer of d is accepted, those of the others still SENT are rejected.
AcceptOfferOf(q, d) ==
  [offer EXCEPT ![q] = [e \in Drivers |->
     IF e = d THEN "ACCEPTED" ELSE IF @[e] = "SENT" THEN "REJECTED" ELSE @[e]]]

\* The Payment row is upserted by intent: it points to the last booking made.
CommitAccept(h) ==
  LET q == req[h].q
      d == req[h].d IN
  /\ At(h, "accept")
  /\ request' = [request EXCEPT ![q] = [status |-> "ACCEPTED", driver |-> d]]
  /\ offer' = AcceptOfferOf(q, d)
  /\ offered' = [offered EXCEPT ![q][d] = req[h].gives]
  /\ IF PaidUpfront(q)
     THEN /\ trips' = [trips EXCEPT ![q] =
                         Append(@, [driver |-> d, status |-> "CONFIRMED", pay |-> "paid",
                                    seats |-> req[h].seats])]
          /\ payment' = [payment EXCEPT ![q] =
                           [status |-> "succeeded", trip |-> Len(trips[q]) + 1]]
     ELSE UNCHANGED <<trips, payment>>
  /\ Return(h)
  /\ UNCHANGED <<needed, avail, stripe, realtime>>

-----------------------------------------------------------------------------
(* Offers of drivers.                                                      *)

\* Mutant: seats are not checked again when the offer is accepted.
AnySeats(q, d) == TRUE

SeatsLeft(q, d) == avail[d] >= offered[q][d]

\* Mutant: the ride gives what the request needs now, the booking what was offered.
SeatsAfterNow(task) == task.seen - needed[task.q]

\* seatsAvailable is written from the ride and the offer read before.
SeatsAfter(task) == task.seen - task.seats

\* POST /ride-requests/:id/offers: request and ride are read, then the
\* driver's offer, which is inserted, or reopened when it was closed.
CreateOffer(h, q, d) ==
  /\ request[q].status \in Open
  /\ \E n \in SeatsNamed(q) :
       /\ n >= needed[q] /\ avail[d] >= n
       /\ Begin(h, [pc |-> "offer", q |-> q, d |-> d, seats |-> n])
  /\ UNCHANGED <<rows, stripe, realtime>>

FindOffer(h) ==
  LET status == offer[req[h].q][req[h].d] IN
  /\ At(h, "offer")
  /\ \/ status = "none" /\ Become(h, [req[h] EXCEPT !.pc = "insertOffer"])
     \/ status \in Reopenable /\ Become(h, [req[h] EXCEPT !.pc = "reopenOffer"])
  /\ UNCHANGED <<rows, stripe, realtime>>

\* The insert meets the unique key of request and driver; the update meets none.
CommitOffer(h) ==
  LET q == req[h].q
      d == req[h].d IN
  /\ \/ At(h, "insertOffer") /\ offer[q][d] = "none"
     \/ At(h, "reopenOffer")
  /\ offer' = [offer EXCEPT ![q][d] = "SENT"]
  /\ offered' = [offered EXCEPT ![q][d] = req[h].seats]
  /\ Return(h)
  /\ UNCHANGED <<request, needed, avail, trips, payment, stripe, realtime>>

\* PUT .../offers/:offerId/accept
AcceptOffer(h, q, d) ==
  /\ offer[q][d] = "SENT" /\ request[q].status \in Open /\ SeatsLeft(q, d)
  /\ Begin(h, [pc |-> "acceptOffer", q |-> q, d |-> d, seen |-> avail[d],
               seats |-> offered[q][d]])
  /\ UNCHANGED <<rows, stripe, realtime>>

\* One transaction.
CommitAcceptOffer(h) ==
  LET q == req[h].q
      d == req[h].d IN
  /\ At(h, "acceptOffer")
  /\ offer' = AcceptOfferOf(q, d)
  /\ request' = [request EXCEPT ![q] = [status |-> "ACCEPTED", driver |-> d]]
  /\ trips' = [trips EXCEPT ![q] =
                 Append(@, [driver |-> d, status |-> "ACCEPTED", pay |-> "unpaid",
                            seats |-> req[h].seats])]
  /\ avail' = [avail EXCEPT ![d] = SeatsAfter(req[h])]
  /\ Return(h)
  /\ UNCHANGED <<seats, payment, stripe, realtime>>

\* PUT .../offers/:offerId/reject by the passenger writes REJECTED, .../cancel
\* by the driver EXPIRED.
CloseOffer(h, q, d, to) ==
  /\ offer[q][d] = "SENT"
  /\ Begin(h, [pc |-> "closeOffer", q |-> q, d |-> d, to |-> to])
  /\ UNCHANGED <<rows, stripe, realtime>>

CommitCloseOffer(h) ==
  /\ At(h, "closeOffer")
  /\ offer' = [offer EXCEPT ![req[h].q][req[h].d] = req[h].to]
  /\ Return(h)
  /\ UNCHANGED <<request, seats, avail, trips, payment, stripe, realtime>>

-----------------------------------------------------------------------------
\* A handler may stop anywhere; a webhook that does is not acknowledged.
Fail(h) ==
  /\ req[h] # Idle
  /\ Return(h)
  /\ UNCHANGED <<rows, stripe, realtime>>

Receive(h, e) == ReceiveSucceeded(h, e) \/ ReceiveRefunded(h, e)

Arrive(h) ==
  \/ \E q \in RideReqs : CreateRequest(h, q)
  \/ \E q \in RideReqs : UpdateRequest(h, q) \/ CancelRequest(h, q)
  \/ \E c \in Callbacks : AcceptRequest(h, c)
  \/ \E q \in RideReqs, d \in Drivers : CreateOffer(h, q, d)
  \/ \E q \in RideReqs, d \in Drivers : AcceptOffer(h, q, d)
  \/ \E q \in RideReqs, d \in Drivers, to \in Reopenable : CloseOffer(h, q, d, to)
  \/ \E e \in Events : Receive(h, e)

Proceed(h) ==
  \/ MarkOffering(h) \/ Dispatch(h) \/ CommitUpdateRequest(h)
  \/ CommitJitRequest(h) \/ ApplyRefunded(h)
  \/ RefundRequest(h) \/ CommitCancelRequest(h) \/ CancelDispatch(h)
  \/ CommitAccept(h)
  \/ FindOffer(h) \/ CommitOffer(h) \/ CommitAcceptOffer(h) \/ CommitCloseOffer(h)

Next ==
  \/ \E h \in Handlers : Arrive(h) \/ Proceed(h) \/ Fail(h)
  \/ \E q \in RideReqs : CreateJitIntent(q) \/ PayJitIntent(q)
  \/ \E e \in Events : AckEvent(e)
  \/ \E q \in RideReqs, d \in Drivers : DriverTakes(q, d)

Spec == Init /\ [][Next]_vars

\* The insert of the request of q in slot h, if it is that request's turn there.
InsertJitRequest(h, q) ==
  At(h, "jitCreate") /\ req[h].q = q /\ CommitJitRequest(h)

\* Stripe resends an event until it is acknowledged; a handler that has begun
\* goes on or fails; and an insert tried for ever does not fail for ever, unless
\* it cannot succeed: of the Unstorable nothing is assumed.
Fairness ==
  /\ \A h \in Handlers : WF_vars(Proceed(h) \/ Fail(h))
  /\ \A h \in Handlers, q \in RideReqs : SF_vars(InsertJitRequest(h, q))
  /\ \A e \in Events :
       SF_vars(e \notin acked /\ (AckEvent(e) \/ \E h \in Handlers : Receive(h, e)))

FairSpec == Spec /\ Fairness

-----------------------------------------------------------------------------
(* What holds however requests overlap, fail, and events arrive.           *)

Captured(q) == intent[q] \in {"succeeded", "refunded"}

\* A JIT request exists only once its passenger has paid: drivers are never
\* sent for an unpaid one.  And it exists before Stripe is answered: whatever the
\* webhook races with, the event of a captured intent is acknowledged, and so not
\* delivered again, only when the request is there.
PaidBeforeRequest ==
  /\ \A q \in RideReqs :
       ModeOf[q] = "JIT" /\ request[q].status # "none" => Captured(q)
  /\ \A e \in acked : e.kind = "succeeded" => request[e.q].status # "none"

\* Nobody pays for a cancelled JIT request: whatever overtakes the handler of
\* POST /ride-requests/:id/cancel, and however often it is tried, the request
\* reads CANCELLED only when Stripe has refunded its intent.
CancelledIsRefunded ==
  \A q \in RideReqs :
    ModeOf[q] = "JIT" /\ request[q].status = "CANCELLED" => intent[q] = "refunded"

\* A booking made for a request is marked paid, and its Payment row succeeded,
\* only when the money was captured; refunded only when it was given back; and
\* the Payment row points to a booking that was paid with it, not to one made
\* by accepting an offer.
TripsFollowStripe ==
  \A q \in RideReqs :
    /\ \A i \in DOMAIN trips[q] :
         /\ trips[q][i].pay = "paid" => Captured(q)
         /\ trips[q][i].pay = "refunded" => intent[q] = "refunded"
    /\ payment[q].status # "none" =>
         /\ Captured(q)
         /\ payment[q].trip \in DOMAIN trips[q]
         /\ trips[q][payment[q].trip].status = "CONFIRMED"
    /\ payment[q].status = "refunded" => intent[q] = "refunded"
=============================================================================
