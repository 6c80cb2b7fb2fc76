------------------------------ MODULE Bookings ------------------------------
(***************************************************************************)
(* Rides, bookings, payments and refunds of the HelpRide API:              *)
(* ride.controller.ts, booking.controller.ts, payment.controller.ts,       *)
(* lib/refunds.ts and the booking half of stripe.controller.ts.            *)
(*                                                                         *)
(* Every HTTP handler is an async function that reads rows, checks them,   *)
(* perhaps calls Stripe, and then writes with one Prisma call or one       *)
(* $transaction of writes.  Only that last write is atomic: what the       *)
(* handler read may be stale by the time it commits.  A handler in flight  *)
(* is an element h of Handlers, and req[h] is what its local variables     *)
(* still hold.  With one element in Handlers requests are served one at a  *)
(* time; with two, any two of them interleave between an await and the     *)
(* next.                                                                   *)
(*                                                                         *)
(* Out of the model: authentication and ownership checks (every caller is  *)
(* the party the handler expects), prices and amounts, notifications (sent *)
(* after the commit, their errors swallowed), the JIT branch of the        *)
(* webhook and ride requests, and the lower-case legacy status             *)
(* "confirmed", which no handler writes and which every handler treats as  *)
(* "CONFIRMED".                                                            *)
(***************************************************************************)
EXTENDS Integers

CONSTANTS
  Rides,          \* ids of Ride rows
  Bookings,       \* ids of Booking rows, and of their one PaymentIntent
  Handlers,       \* slots for requests in flight: the concurrency of the run
  RideOf,         \* the rideId a booking is created with, never updated
  SeatsOf,        \* the seatsBooked it is created with, never updated
  SeatTotals,     \* seatsTotal values offered to POST /rides
  UpdateTotals    \* those of PATCH /rides/:id, which checks none of them

ASSUME ParamsAssumption ==
  /\ RideOf \in [Bookings -> Rides]
  /\ SeatsOf \in [Bookings -> Nat \ {0}]
  /\ SeatTotals \subseteq Nat \ {0}
  /\ UpdateTotals \subseteq Int

VARIABLES
  ride,      \* Ride rows: status, seatsTotal, seatsAvailable
  booking,   \* Booking rows: status, paymentStatus, stripePaymentIntentId set?
  payment,   \* status of the Payment row of the booking's intent, or "none"
  intent,    \* Stripe's PaymentIntent of the booking
  secret,    \* bookings whose client_secret has been sent to the passenger
  events,    \* events Stripe has emitted; each may arrive late and repeatedly
  req        \* the handler running in each slot

vars == <<ride, booking, payment, intent, secret, events, req>>

-----------------------------------------------------------------------------
(* Rows and statuses.  "none" is a row not created yet, "deleted" a Ride   *)
(* row removed by DELETE /rides/:id (ids are uuids, never reused).         *)

RideStatus == {"none", "open", "ongoing", "completed", "cancelled", "deleted"}

BookingStatus ==
  {"none", "pending", "ACCEPTED", "PAYMENT_PENDING", "CONFIRMED", "completed",
   "cancelled_by_passenger", "cancelled_by_driver"}

\* Booking.paymentStatus and Payment.status share the enum PaymentStatus.
PaymentStatus == {"unpaid", "pending", "succeeded", "paid", "failed", "refunded"}

IntentStatus == {"none", "open", "succeeded", "canceled", "refunded"}

\* A driver who patches a negative seatsTotal leaves a ride of negative seats,
\* and the cancellation of a booking then writes a negative seatsAvailable;
\* nothing else may make either of them negative.
SeatCount == IF UpdateTotals \subseteq Nat THEN Nat ELSE Int

RideRow    == [status : RideStatus, total : SeatCount, avail : SeatCount]
BookingRow == [status : BookingStatus, pay : PaymentStatus, intent : BOOLEAN]

EventKinds == {"succeeded", "failed", "refunded"}
Events     == [kind : EventKinds, b : Bookings]

\* The statuses of the bookings that a cancellation may still cancel.
Active == {"pending", "ACCEPTED", "PAYMENT_PENDING", "CONFIRMED"}

\* shouldRestoreSeats: the statuses of the bookings that hold seats.
Holding == {"ACCEPTED", "PAYMENT_PENDING", "CONFIRMED"}

\* terminalBookingStatuses of the webhook.
Terminal == {"cancelled_by_passenger", "cancelled_by_driver", "completed"}

CancelledBy == {"cancelled_by_passenger", "cancelled_by_driver"}

AlreadyPaid == {"paid", "succeeded"}

MinOf(x, y) == IF x <= y THEN x ELSE y
MaxOf(x, y) == IF x >= y THEN x ELSE y

-----------------------------------------------------------------------------
(* A handler in flight: its stage pc and what it still remembers.          *)

Idle == [pc |-> "idle"]

BookingRequest ==
  [pc : {"book", "reject", "retrieve", "createIntent", "record"}, b : Bookings]
ConfirmRequest == [pc : {"confirm"}, b : Bookings, seen : RideRow]
CancelRequest ==
  [pc : {"refund", "cancel"}, b : Bookings, by : CancelledBy, restore : BOOLEAN,
   seen : RideRow]
ReuseRequest == [pc : {"reuse"}, b : Bookings, stripe : PaymentStatus]
HookRequest ==
  [pc : {"hook"}, b : Bookings, kind : EventKinds, wasPayment : PaymentStatus,
   was : BookingRow]
RideRequest ==
  [pc : {"startCheck", "start", "completeCheck", "complete", "cancelRead"}, r : Rides]
UpdateRequest == [pc : {"update"}, r : Rides, total : UpdateTotals, seen : RideRow]
RefundsRequest == [pc : {"rideRefunds"}, r : Rides, todo : SUBSET Bookings]

Requests ==
  {Idle} \cup BookingRequest \cup ConfirmRequest \cup CancelRequest \cup ReuseRequest
    \cup HookRequest \cup RideRequest \cup UpdateRequest \cup RefundsRequest

Begin(h, q) == req[h] = Idle /\ req' = [req EXCEPT ![h] = q]
At(h, pc)   == req[h].pc = pc
Go(h, pc)   == req' = [req EXCEPT ![h].pc = pc]
Return(h)   == req' = [req EXCEPT ![h] = Idle]

Exists(r)   == ride[r].status \notin {"none", "deleted"}
BookingsOf(r) == {b \in Bookings : RideOf[b] = r /\ booking[b].status # "none"}

TypeOK ==
  /\ ride \in [Rides -> RideRow]
  /\ booking \in [Bookings -> BookingRow]
  /\ payment \in [Bookings -> PaymentStatus \cup {"none"}]
  /\ intent \in [Bookings -> IntentStatus]
  /\ secret \subseteq Bookings
  /\ events \subseteq Events
  /\ req \in [Handlers -> Requests]

Init ==
  /\ ride = [r \in Rides |-> [status |-> "none", total |-> 0, avail |-> 0]]
  /\ booking = [b \in Bookings |->
                  [status |-> "none", pay |-> "unpaid", intent |-> FALSE]]
  /\ payment = [b \in Bookings |-> "none"]
  /\ intent = [b \in Bookings |-> "none"]
  /\ secret = {}
  /\ events = {}
  /\ req = [h \in Handlers |-> Idle]

-----------------------------------------------------------------------------
(* Driver operations on a ride.                                            *)

\* POST /rides: one insert.
CreateRide(r, n) ==
  /\ ride[r].status = "none"
  /\ ride' = [ride EXCEPT ![r] = [status |-> "open", total |-> n, avail |-> n]]
  /\ UNCHANGED <<booking, payment, intent, secret, events, req>>

\* PATCH /rides/:id with a new seatsTotal, in any status of the ride.
UpdateRide(h, r, n) ==
  /\ Exists(r)
  /\ Begin(h, [pc |-> "update", r |-> r, total |-> n, seen |-> ride[r]])
  /\ UNCHANGED <<ride, booking, payment, intent, secret, events>>

\* Mutant: the lower clamp is forgotten.
NewAvailNoFloor(seen, n) == MinOf(seen.avail + (n - seen.total), n)

\* Mutant: a new seatsTotal leaves seatsAvailable alone.
NewAvailUnchanged(seen, n) == seen.avail

\* seatsAvailable moves with seatsTotal, clamped between 0 and the new total.
NewAvail(seen, n) == MaxOf(0, MinOf(seen.avail + (n - seen.total), n))

CommitUpdateRide(h) ==
  LET q == req[h] IN
  /\ At(h, "update") /\ Exists(q.r)
  /\ ride' = [ride EXCEPT ![q.r].total = q.total,
                          ![q.r].avail = NewAvail(q.seen, q.total)]
  /\ Return(h)
  /\ UNCHANGED <<booking, payment, intent, secret, events>>

\* DELETE /rides/:id is a hard delete that Booking_rideId_fkey (ON DELETE
\* RESTRICT) refuses for a ride with bookings.
DeleteRide(r) ==
  /\ Exists(r) /\ BookingsOf(r) = {}
  /\ ride' = [ride EXCEPT ![r].status = "deleted"]
  /\ UNCHANGED <<booking, payment, intent, secret, events, req>>

\* Mutant: a booking whose payment is pending is not counted as unpaid.
UnpaidAccepted(r) == {b \in BookingsOf(r) : booking[b].status = "ACCEPTED"}

\* getUnpaidBlockingBookings
UnpaidBlocking(r) ==
  {b \in BookingsOf(r) :
     \/ booking[b].status \in {"ACCEPTED", "PAYMENT_PENDING"}
     \/ booking[b].status = "CONFIRMED" /\ booking[b].pay \notin AlreadyPaid}

\* POST /rides/:id/start: the ride, then its unpaid bookings, are read, and
\* the status is then written whatever it has become.
StartRide(h, r) ==
  /\ ride[r].status = "open"
  /\ Begin(h, [pc |-> "startCheck", r |-> r])
  /\ UNCHANGED <<ride, booking, payment, intent, secret, events>>

CheckPaidToStart(h) ==
  /\ At(h, "startCheck") /\ UnpaidBlocking(req[h].r) = {}
  /\ Go(h, "start")
  /\ UNCHANGED <<ride, booking, payment, intent, secret, events>>

CommitStartRide(h) ==
  /\ At(h, "start") /\ Exists(req[h].r)
  /\ ride' = [ride EXCEPT ![req[h].r].status = "ongoing"]
  /\ Return(h)
  /\ UNCHANGED <<booking, payment, intent, secret, events>>

\* POST /rides/:id/complete
CompleteRide(h, r) ==
  /\ ride[r].status = "ongoing"
  /\ Begin(h, [pc |-> "completeCheck", r |-> r])
  /\ UNCHANGED <<ride, booking, payment, intent, secret, events>>

CheckPaidToComplete(h) ==
  /\ At(h, "completeCheck") /\ UnpaidBlocking(req[h].r) = {}
  /\ Go(h, "complete")
  /\ UNCHANGED <<ride, booking, payment, intent, secret, events>>

\* The status filter of updateMany is evaluated by the commit itself.
CommitCompleteRide(h) ==
  LET r == req[h].r IN
  /\ At(h, "complete") /\ Exists(r)
  /\ ride' = [ride EXCEPT ![r].status = "completed"]
  /\ booking' = [b \in Bookings |->
       IF RideOf[b] = r /\ booking[b].status = "CONFIRMED"
       THEN [booking[b] EXCEPT !.status = "completed"] ELSE booking[b]]
  /\ Return(h)
  /\ UNCHANGED <<payment, intent, secret, events>>

-----------------------------------------------------------------------------
(* Refunds.  Stripe refunds a captured intent once: a second request, with *)
(* the same idempotency key or another, leaves it refunded and is taken as *)
(* success.  charge.refunded is emitted when the refund is made.           *)

RefundAtStripe(b) ==
  \/ /\ payment[b] = "refunded"               \* existingPayment: Stripe not called
     /\ UNCHANGED <<intent, events>>
  \/ /\ payment[b] # "refunded"
     /\ intent[b] \in {"succeeded", "refunded"}
     /\ intent' = [intent EXCEPT ![b] = "refunded"]
     /\ events' = events \cup {[kind |-> "refunded", b |-> b]}

\* Mutant: the Payment row's word for paid is looked for in the Booking row.
NeedsRefundSucceeded(row) == row.pay = "succeeded"

\* initiateBookingRefundIfPaid has something to refund for this row; it
\* throws, and the handler answers 502, when the row has no intent.
NeedsRefund(row)  == row.pay \in AlreadyPaid
RefundThrows(row) == NeedsRefund(row) /\ ~row.intent

\* Mutant: only a cancelled ride cannot be cancelled again.
CancelAnyRide(h, r) ==
  /\ Exists(r) /\ ride[r].status # "cancelled"
  /\ Begin(h, [pc |-> "cancelRead", r |-> r])
  /\ UNCHANGED <<ride, booking, payment, intent, secret, events>>

\* POST /rides/:id/cancel: the ride is read, then its active bookings; the
\* paid ones among the CONFIRMED are refunded, concurrently and so in any
\* order.  When a refund fails the others still run but the handler answers
\* 502: the failed one stays in todo and the handler can only Fail.
CancelRide(h, r) ==
  /\ ride[r].status \in {"open", "ongoing"}
  /\ Begin(h, [pc |-> "cancelRead", r |-> r])
  /\ UNCHANGED <<ride, booking, payment, intent, secret, events>>

ToRefund(r) ==
  {b \in BookingsOf(r) : booking[b].status = "CONFIRMED" /\ NeedsRefund(booking[b])}

ReadBookingsToRefund(h) ==
  LET r == req[h].r IN
  /\ At(h, "cancelRead")
  /\ req' = [req EXCEPT ![h] = [pc |-> "rideRefunds", r |-> r, todo |-> ToRefund(r)]]
  /\ UNCHANGED <<ride, booking, payment, intent, secret, events>>

RefundOne(h, b) ==
  /\ At(h, "rideRefunds") /\ b \in req[h].todo /\ booking[b].intent
  /\ RefundAtStripe(b)
  /\ req' = [req EXCEPT ![h].todo = @ \ {b}]
  /\ UNCHANGED <<ride, booking, payment, secret>>

CommitCancelRide(h) ==
  LET r == req[h].r IN
  /\ At(h, "rideRefunds") /\ req[h].todo = {} /\ Exists(r)
  /\ ride' = [ride EXCEPT ![r].status = "cancelled"]
  /\ booking' = [b \in Bookings |->
       IF RideOf[b] = r /\ booking[b].status \in Active
       THEN [booking[b] EXCEPT !.status = "cancelled_by_driver"] ELSE booking[b]]
  /\ Return(h)
  /\ UNCHANGED <<payment, intent, secret, events>>

-----------------------------------------------------------------------------
(* Operations on a booking.                                                *)

HasSeats(seen, b) == seen.avail >= SeatsOf[b]

\* POST /bookings/:rideId: seatsAvailable is checked but not decremented.
CreateBooking(h, b) ==
  /\ booking[b].status = "none"
  /\ ride[RideOf[b]].status = "open" /\ HasSeats(ride[RideOf[b]], b)
  /\ Begin(h, [pc |-> "book", b |-> b])
  /\ UNCHANGED <<ride, booking, payment, intent, secret, events>>

\* The foreign key refuses a booking of a ride deleted since.
CommitCreateBooking(h) ==
  LET b == req[h].b IN
  /\ At(h, "book") /\ booking[b].status = "none" /\ Exists(RideOf[b])
  /\ booking' = [booking EXCEPT ![b].status = "pending"]
  /\ Return(h)
  /\ UNCHANGED <<ride, payment, intent, secret, events>>

\* PUT /bookings/:id/confirm
ConfirmBooking(h, b) ==
  /\ booking[b].status = "pending"
  /\ ride[RideOf[b]].status = "open" /\ HasSeats(ride[RideOf[b]], b)
  /\ Begin(h, [pc |-> "confirm", b |-> b, seen |-> ride[RideOf[b]]])
  /\ UNCHANGED <<ride, booking, payment, intent, secret, events>>

\* Both columns of the ride are written from the row read before: the status
\* is "open" when the ride is now full and the one read otherwise.
CommitConfirmBooking(h) ==
  LET b == req[h].b
      seen == req[h].seen
      left == seen.avail - SeatsOf[b] IN
  /\ At(h, "confirm")
  /\ booking' = [booking EXCEPT ![b].status = "ACCEPTED"]
  /\ ride' = [ride EXCEPT ![RideOf[b]].avail = left,
                ![RideOf[b]].status = IF left <= 0 THEN "open" ELSE seen.status]
  /\ Return(h)
  /\ UNCHANGED <<payment, intent, secret, events>>

\* PUT /bookings/:id/reject
RejectBooking(h, b) ==
  /\ booking[b].status = "pending"
  /\ Begin(h, [pc |-> "reject", b |-> b])
  /\ UNCHANGED <<ride, booking, payment, intent, secret, events>>

CommitRejectBooking(h) ==
  /\ At(h, "reject")
  /\ booking' = [booking EXCEPT ![req[h].b].status = "cancelled_by_driver"]
  /\ Return(h)
  /\ UNCHANGED <<ride, payment, intent, secret, events>>

\* POST /bookings/:id/cancel and /driver-cancel differ in the status written.
\* Whether to refund and whether to restore seats is decided by the row read.
CancelBooking(h, b, by) ==
  LET row == booking[b] IN
  /\ row.status \in Active /\ ~RefundThrows(row)
  /\ Begin(h, [pc |-> IF NeedsRefund(row) THEN "refund" ELSE "cancel",
               b |-> b, by |-> by, restore |-> row.status \in Holding,
               seen |-> ride[RideOf[b]]])
  /\ UNCHANGED <<ride, booking, payment, intent, secret, events>>

RefundBooking(h) ==
  /\ At(h, "refund")
  /\ RefundAtStripe(req[h].b)
  /\ Go(h, "cancel")
  /\ UNCHANGED <<ride, booking, payment, secret>>

CommitCancelBooking(h) ==
  LET q == req[h] IN
  /\ At(h, "cancel")
  /\ booking' = [booking EXCEPT ![q.b].status = q.by]
  /\ ride' = IF q.restore
             THEN [ride EXCEPT ![RideOf[q.b]].avail =
                     MinOf(q.seen.total, q.seen.avail + SeatsOf[q.b])]
             ELSE ride
  /\ Return(h)
  /\ UNCHANGED <<payment, intent, secret, events>>

-----------------------------------------------------------------------------
(* POST /payments/intent.  The idempotency key booking:<id>:intent gives a *)
(* booking one PaymentIntent: creating it again replays the first answer,  *)
(* an intent not yet paid.  (Stripe keeps a key for a day; the model keeps *)
(* it for ever.)                                                           *)

\* Mutant: an intent that is not canceled is taken as paid.
PaymentStatusNotCanceled(i) == IF i = "canceled" THEN "failed" ELSE "succeeded"

\* mapIntentStatusToPaymentStatus; an intent stays "succeeded" when refunded.
PaymentStatusOf(i) ==
  CASE i \in {"succeeded", "refunded"} -> "succeeded"
    [] i = "canceled"                  -> "failed"
    [] OTHER                           -> "pending"

Payable == {"ACCEPTED", "PAYMENT_PENDING"}

CreatePaymentIntent(h, b) ==
  /\ booking[b].status \in Payable /\ booking[b].pay \notin AlreadyPaid
  /\ Begin(h, [pc |-> IF booking[b].intent THEN "retrieve" ELSE "createIntent",
               b |-> b])
  /\ UNCHANGED <<ride, booking, payment, intent, secret, events>>

\* A canceled intent, and an error of the call, lead on to paymentIntents.create.
RetrieveIntent(h) ==
  LET b == req[h].b IN
  /\ At(h, "retrieve")
  /\ \/ /\ intent[b] \notin {"none", "canceled"}
        /\ req' = [req EXCEPT ![h] =
                     [pc |-> "reuse", b |-> b, stripe |-> PaymentStatusOf(intent[b])]]
     \/ Go(h, "createIntent")
  /\ UNCHANGED <<ride, booking, payment, intent, secret, events>>

\* Mutant: the booking is confirmed when its intent is created.
ConfirmAtIntent(b) ==
  booking' = [booking EXCEPT ![b] =
                [status |-> "CONFIRMED", pay |-> "pending", intent |-> TRUE]]

AwaitPayment(b) ==
  booking' = [booking EXCEPT ![b] =
                [status |-> "PAYMENT_PENDING", pay |-> "pending", intent |-> TRUE]]

\* The client_secret is answered after the transaction.
ReuseIntent(h) ==
  LET b == req[h].b IN
  /\ At(h, "reuse")
  /\ payment' = [payment EXCEPT ![b] = req[h].stripe]
  /\ IF req[h].stripe = "succeeded" THEN UNCHANGED booking ELSE AwaitPayment(b)
  /\ secret' = secret \cup {b}
  /\ Return(h)
  /\ UNCHANGED <<ride, intent, events>>

\* The transaction of the reuse is inside the try: its failure leads on too.
ReuseIntentFails(h) ==
  /\ At(h, "reuse")
  /\ req' = [req EXCEPT ![h] = [pc |-> "createIntent", b |-> req[h].b]]
  /\ UNCHANGED <<ride, booking, payment, intent, secret, events>>

\* Mutant: the client_secret is answered before the transaction.
AnswerBeforeRecording(h) ==
  LET b == req[h].b IN
  /\ At(h, "createIntent")
  /\ intent' = [intent EXCEPT ![b] = IF @ = "none" THEN "open" ELSE @]
  /\ secret' = secret \cup {b}
  /\ Go(h, "record")
  /\ UNCHANGED <<ride, booking, payment, events>>

\* Mutant: without an idempotency key each call creates an intent.
CreateAnotherIntent(h) ==
  /\ At(h, "createIntent")
  /\ intent' = [intent EXCEPT ![req[h].b] = "open"]
  /\ Go(h, "record")
  /\ UNCHANGED <<ride, booking, payment, secret, events>>

CreateIntentAtStripe(h) ==
  LET b == req[h].b IN
  /\ At(h, "createIntent")
  /\ intent' = [intent EXCEPT ![b] = IF @ = "none" THEN "open" ELSE @]
  /\ Go(h, "record")
  /\ UNCHANGED <<ride, booking, payment, secret, events>>

RecordIntent(h) ==
  LET b == req[h].b IN
  /\ At(h, "record")
  /\ payment' = [payment EXCEPT ![b] = PaymentStatusOf("open")]
  /\ AwaitPayment(b)
  /\ secret' = secret \cup {b}
  /\ Return(h)
  /\ UNCHANGED <<ride, intent, events>>

-----------------------------------------------------------------------------
(* Stripe and the passenger's app, which pays with the client_secret.      *)

StripePaymentSucceeds(b) ==
  /\ b \in secret /\ intent[b] = "open"
  /\ intent' = [intent EXCEPT ![b] = "succeeded"]
  /\ events' = events \cup {[kind |-> "succeeded", b |-> b]}
  /\ UNCHANGED <<ride, booking, payment, secret, req>>

\* A declined attempt leaves the intent open for another.
StripePaymentFails(b) ==
  /\ b \in secret /\ intent[b] = "open"
  /\ events' = events \cup {[kind |-> "failed", b |-> b]}
  /\ UNCHANGED <<ride, booking, payment, intent, secret, req>>

\* Nothing in the API cancels an intent; the Stripe dashboard may.
StripeIntentCanceled(b) ==
  /\ intent[b] = "open"
  /\ intent' = [intent EXCEPT ![b] = "canceled"]
  /\ UNCHANGED <<ride, booking, payment, secret, events, req>>

-----------------------------------------------------------------------------
(* POST /webhooks/stripe, handlePaymentIntentUpdate.  Stripe delivers at   *)
(* least once and in no order: any emitted event may be delivered at any   *)
(* time, again too.                                                        *)

BookingPayOf(kind) ==
  CASE kind = "succeeded" -> "paid" [] kind = "failed" -> "failed"
    [] kind = "refunded" -> "refunded"

\* charge.refunded requests no booking status.
BookingStatusOf(kind) ==
  CASE kind = "succeeded" -> "CONFIRMED" [] kind = "failed" -> "ACCEPTED"
    [] kind = "refunded" -> "none"

\* shouldUpdatePayment, shouldUpdateBookingPayment, hasBookingStatusUpdate.
NewPayment(kind, wasPayment) == wasPayment # kind
NewPay(kind, was)    == was.pay # BookingPayOf(kind)
NewStatus(kind, was) == kind # "refunded" /\ was.status # BookingStatusOf(kind)

\* Mutant: terminal bookings are not excepted.
CanSetTerminal(kind, was) == kind # "refunded"

\* Mutant: only a booking still awaiting its payment is moved.
CanSetWhilePending(kind, was) == kind # "refunded" /\ was.status = "PAYMENT_PENDING"

\* canUpdateBookingStatus
CanSetStatus(kind, was) == kind # "refunded" /\ was.status \notin Terminal

\* An event without a Payment row, or that changes nothing, is acknowledged.
ReceiveEvent(h, e) ==
  /\ e \in events /\ payment[e.b] # "none"
  /\ \/ NewPayment(e.kind, payment[e.b])
     \/ NewPay(e.kind, booking[e.b])
     \/ NewStatus(e.kind, booking[e.b])
  /\ Begin(h, [pc |-> "hook", b |-> e.b, kind |-> e.kind,
               wasPayment |-> payment[e.b], was |-> booking[e.b]])
  /\ UNCHANGED <<ride, booking, payment, intent, secret, events>>

ApplyEvent(h) ==
  LET b == req[h].b
      kind == req[h].kind
      was == req[h].was
      canSet == CanSetStatus(kind, was)
      persistBooking == NewPay(kind, was) \/ (NewStatus(kind, was) /\ canSet) IN
  /\ At(h, "hook")
  /\ payment' = IF NewPayment(kind, req[h].wasPayment)
                THEN [payment EXCEPT ![b] = kind] ELSE payment
  /\ booking' = IF persistBooking
                THEN [booking EXCEPT
                        ![b].pay = BookingPayOf(kind),
                        ![b].status = IF canSet THEN BookingStatusOf(kind) ELSE @]
                ELSE booking
  /\ Return(h)
  /\ UNCHANGED <<ride, intent, secret, events>>

-----------------------------------------------------------------------------
\* A handler may stop anywhere: a failed query, an error of Stripe answered
\* 502, a check that no longer passes, a crash.  What it did so far remains.
Fail(h) ==
  /\ req[h] # Idle
  /\ Return(h)
  /\ UNCHANGED <<ride, booking, payment, intent, secret, events>>

RideSteps(h) ==
  \/ \E r \in Rides, n \in UpdateTotals : UpdateRide(h, r, n)
  \/ \E r \in Rides : StartRide(h, r)
  \/ \E r \in Rides : CompleteRide(h, r)
  \/ \E r \in Rides : CancelRide(h, r)
  \/ CommitUpdateRide(h)
  \/ CheckPaidToStart(h) \/ CommitStartRide(h)
  \/ CheckPaidToComplete(h) \/ CommitCompleteRide(h)
  \/ ReadBookingsToRefund(h) \/ CommitCancelRide(h)
  \/ \E b \in Bookings : RefundOne(h, b)

BookingSteps(h) ==
  \/ \E b \in Bookings : CreateBooking(h, b)
  \/ \E b \in Bookings : ConfirmBooking(h, b)
  \/ \E b \in Bookings : RejectBooking(h, b)
  \/ \E b \in Bookings, by \in CancelledBy : CancelBooking(h, b, by)
  \/ CommitCreateBooking(h) \/ CommitConfirmBooking(h) \/ CommitRejectBooking(h)
  \/ RefundBooking(h) \/ CommitCancelBooking(h)

PaymentSteps(h) ==
  \/ \E b \in Bookings : CreatePaymentIntent(h, b)
  \/ RetrieveIntent(h) \/ ReuseIntent(h) \/ ReuseIntentFails(h)
  \/ CreateIntentAtStripe(h) \/ RecordIntent(h)
  \/ \E e \in Events : ReceiveEvent(h, e)
  \/ ApplyEvent(h)

HandlerStep(h) ==
  RideSteps(h) \/ BookingSteps(h) \/ PaymentSteps(h) \/ Fail(h)

StripeStep(b) ==
  StripePaymentSucceeds(b) \/ StripePaymentFails(b) \/ StripeIntentCanceled(b)

Next ==
  \/ \E r \in Rides, n \in SeatTotals : CreateRide(r, n)
  \/ \E r \in Rides : DeleteRide(r)
  \/ \E h \in Handlers : HandlerStep(h)
  \/ \E b \in Bookings : StripeStep(b)

Spec == Init /\ [][Next]_vars

-----------------------------------------------------------------------------
(* What holds however requests overlap, fail, and events arrive.           *)

Captured(b) == intent[b] \in {"succeeded", "refunded"}

\* The database never claims money Stripe does not have: a row is marked paid
\* (booking) or succeeded (payment) only when the intent was captured, and
\* refunded only when Stripe has refunded it, whatever order webhooks arrive
\* in, whoever overwrites the rows meanwhile, and whichever handler dies.
BooksFollowStripe ==
  \A b \in Bookings :
    /\ booking[b].pay = "paid" \/ payment[b] = "succeeded" => Captured(b)
    /\ booking[b].pay = "refunded" \/ payment[b] = "refunded"
         => intent[b] = "refunded"

\* Nobody travels without having paid: a booking is CONFIRMED, and later
\* completed by POST /rides/:id/complete, only once its intent was captured.
\* Racing confirmations, cancellations and retried intents cannot confirm it.
NoFreeRide ==
  \A b \in Bookings :
    booking[b].status \in {"CONFIRMED", "completed"} => Captured(b)

\* No payment is lost to the webhook: an intent the passenger can pay has its
\* Payment row, and its booking names the intent, so that the event that says
\* it was paid is not dropped as "Payment not found" and the refund of the
\* cancellation does not throw.  POST /payments/intent answers the secret only
\* after the transaction; a crash in between leaves an intent nobody can pay.
NoOrphanPayment ==
  \A b \in Bookings :
    (b \in secret \/ Captured(b)) => payment[b] # "none" /\ booking[b].intent
=============================================================================
