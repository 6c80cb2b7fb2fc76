--------------------------- MODULE BookingsProofs ---------------------------
(***************************************************************************)
(* Proofs, for any set of rides, bookings and concurrent handlers, of the  *)
(* properties of Bookings.tla that hold however requests overlap, and, for *)
(* one handler, of those of BookingsSerial.tla.                            *)
(***************************************************************************)
EXTENDS BookingsSerial, BookingsCustody, SumProofs, TLAPS

-----------------------------------------------------------------------------
(* What a handler's stage says of the data it holds.                       *)

LEMMA RequestKinds ==
  ASSUME NEW q \in Requests
  PROVE  /\ q.pc \in {"book", "reject", "retrieve", "createIntent", "record"}
              => q \in BookingRequest
         /\ q.pc = "confirm" => q \in ConfirmRequest
         /\ q.pc \in {"refund", "cancel"} => q \in CancelRequest
         /\ q.pc = "reuse" => q \in ReuseRequest
         /\ q.pc = "hook" => q \in HookRequest
         /\ q.pc \in {"startCheck", "start", "completeCheck", "complete", "cancelRead"}
              => q \in RideRequest
         /\ q.pc = "update" => q \in UpdateRequest
         /\ q.pc = "rideRefunds" => q \in RefundsRequest
         /\ q.pc = "idle" => q = Idle
BY DEF Requests, Idle, BookingRequest, ConfirmRequest, CancelRequest, ReuseRequest,
       HookRequest, RideRequest, UpdateRequest, RefundsRequest

-----------------------------------------------------------------------------
(* Type correctness.  That seatsAvailable stays a natural number, when no  *)
(* driver patches a negative seatsTotal, needs the check of                *)
(* PUT /bookings/:id/confirm, made on the very row its commit subtracts    *)
(* from.                                                                   *)

\* A seat count is an integer; and a natural number, unless the driver of some
\* ride may patch it otherwise.
LEMMA SeatCountKinds ==
  /\ SeatCount \subseteq Int /\ Nat \subseteq SeatCount
  /\ UpdateTotals \subseteq SeatCount /\ SeatTotals \subseteq SeatCount
  /\ \A seen \in RideRow, n \in SeatCount : NewAvail(seen, n) \in SeatCount
  /\ \A seen \in RideRow, n \in Nat : MinOf(seen.total, seen.avail + n) \in SeatCount
<1>1. CASE UpdateTotals \subseteq Nat
  <2>1. SeatCount = Nat
    BY <1>1 DEF SeatCount
  <2> QED BY <1>1, <2>1, ParamsAssumption DEF RideRow, NewAvail, MinOf, MaxOf
<1>2. CASE ~(UpdateTotals \subseteq Nat)
  <2>1. SeatCount = Int
    BY <1>2 DEF SeatCount
  <2> QED BY <2>1, ParamsAssumption DEF RideRow, NewAvail, MinOf, MaxOf
<1> QED BY <1>1, <1>2

ConfirmFits ==
  \A h \in Handlers : At(h, "confirm") => HasSeats(req[h].seen, req[h].b)

TypeInv == TypeOK /\ ConfirmFits

\* Starting a request leaves the types right when the request is well typed
\* and, if it is a confirmation, fits.
LEMMA BeginTyped ==
  ASSUME TypeInv, NEW h \in Handlers, NEW q \in Requests, Begin(h, q),
         q.pc = "confirm" => HasSeats(q.seen, q.b),
         UNCHANGED <<ride, booking, payment, intent, secret, events>>
  PROVE  TypeInv'
BY DEF TypeInv, TypeOK, ConfirmFits, Begin, At, HasSeats

\* So does a handler that moves on to a stage other than "confirm".
LEMMA RequestTyped ==
  ASSUME TypeInv, NEW h \in Handlers, NEW q \in Requests, q.pc # "confirm",
         req' = [req EXCEPT ![h] = q]
  PROVE  req' \in [Handlers -> Requests] /\ ConfirmFits'
BY DEF TypeInv, TypeOK, ConfirmFits, At, HasSeats

LEMMA ReturnTyped ==
  ASSUME TypeInv, NEW h \in Handlers, Return(h)
  PROVE  req' \in [Handlers -> Requests] /\ ConfirmFits'
<1>1. Idle \in Requests /\ Idle.pc # "confirm"
  BY DEF Requests, Idle
<1> QED BY <1>1, RequestTyped DEF Return

LEMMA RideStepsTyped ==
  ASSUME TypeInv, NEW h \in Handlers, RideSteps(h)
  PROVE  TypeInv'
<1> USE ParamsAssumption
<1>q. req[h] \in Requests
  BY DEF TypeInv, TypeOK
<1>1. ASSUME NEW r \in Rides, NEW n \in UpdateTotals, UpdateRide(h, r, n)
      PROVE  TypeInv'
  <2> DEFINE q == [pc |-> "update", r |-> r, total |-> n, seen |-> ride[r]]
  <2>1. q \in Requests
    BY DEF TypeInv, TypeOK, Requests, UpdateRequest
  <2> QED BY <1>1, <2>1, BeginTyped DEF UpdateRide
<1>2. ASSUME NEW r \in Rides, StartRide(h, r)
      PROVE  TypeInv'
  <2>1. [pc |-> "startCheck", r |-> r] \in Requests
    BY DEF Requests, RideRequest
  <2> QED BY <1>2, <2>1, BeginTyped DEF StartRide
<1>3. ASSUME NEW r \in Rides, CompleteRide(h, r)
      PROVE  TypeInv'
  <2>1. [pc |-> "completeCheck", r |-> r] \in Requests
    BY DEF Requests, RideRequest
  <2> QED BY <1>3, <2>1, BeginTyped DEF CompleteRide
<1>4. ASSUME NEW r \in Rides, CancelRide(h, r)
      PROVE  TypeInv'
  <2>1. [pc |-> "cancelRead", r |-> r] \in Requests
    BY DEF Requests, RideRequest
  <2> QED BY <1>4, <2>1, BeginTyped DEF CancelRide
<1>5. CASE CommitUpdateRide(h)
  <2>1. req[h] \in UpdateRequest
    BY <1>5, <1>q, RequestKinds DEF CommitUpdateRide, At
  <2>2. NewAvail(req[h].seen, req[h].total) \in SeatCount /\ req[h].total \in SeatCount
    BY <2>1, SeatCountKinds DEF UpdateRequest
  <2>3. ride' \in [Rides -> RideRow]
    BY <1>5, <2>1, <2>2 DEF CommitUpdateRide, TypeInv, TypeOK, RideRow, UpdateRequest
  <2> QED BY <1>5, <2>3, ReturnTyped DEF CommitUpdateRide, TypeInv, TypeOK
<1>6. CASE CheckPaidToStart(h) \/ CheckPaidToComplete(h)
  <2>1. req[h] \in RideRequest
    BY <1>6, <1>q, RequestKinds DEF CheckPaidToStart, CheckPaidToComplete, At
  <2>2. PICK pc \in {"start", "complete"} : req' = [req EXCEPT ![h].pc = pc]
    BY <1>6 DEF CheckPaidToStart, CheckPaidToComplete, Go
  <2>3. [req[h] EXCEPT !.pc = pc] \in Requests
    BY <2>1, <2>2 DEF Requests, RideRequest
  <2>4. req' = [req EXCEPT ![h] = [req[h] EXCEPT !.pc = pc]]
           /\ [req[h] EXCEPT !.pc = pc].pc # "confirm"
    BY <2>1, <2>2 DEF RideRequest
  <2>5. req' \in [Handlers -> Requests] /\ ConfirmFits'
    BY <2>3, <2>4, RequestTyped
  <2> QED BY <1>6, <2>5 DEF CheckPaidToStart, CheckPaidToComplete, TypeInv, TypeOK
<1>7. CASE CommitStartRide(h)
  <2>1. req[h] \in RideRequest
    BY <1>7, <1>q, RequestKinds DEF CommitStartRide, At
  <2>2. ride' \in [Rides -> RideRow]
    BY <1>7, <2>1 DEF CommitStartRide, TypeInv, TypeOK, RideRow, RideStatus, RideRequest
  <2> QED BY <1>7, <2>2, ReturnTyped DEF CommitStartRide, TypeInv, TypeOK
<1>8. CASE CommitCompleteRide(h)
  <2>1. req[h] \in RideRequest
    BY <1>8, <1>q, RequestKinds DEF CommitCompleteRide, At
  <2>2. ride' \in [Rides -> RideRow]
    BY <1>8, <2>1 DEF CommitCompleteRide, TypeInv, TypeOK, RideRow, RideStatus, RideRequest
  <2>3. booking' \in [Bookings -> BookingRow]
    BY <1>8 DEF CommitCompleteRide, TypeInv, TypeOK, BookingRow, BookingStatus
  <2> QED BY <1>8, <2>2, <2>3, ReturnTyped DEF CommitCompleteRide, TypeInv, TypeOK
<1>9. CASE ReadBookingsToRefund(h)
  <2>1. req[h] \in RideRequest
    BY <1>9, <1>q, RequestKinds DEF ReadBookingsToRefund, At
  <2> DEFINE q == [pc |-> "rideRefunds", r |-> req[h].r, todo |-> ToRefund(req[h].r)]
  <2>2. q \in Requests
    BY <2>1 DEF Requests, RefundsRequest, RideRequest, ToRefund, BookingsOf
  <2>3. req' \in [Handlers -> Requests] /\ ConfirmFits'
    BY <1>9, <2>2, RequestTyped DEF ReadBookingsToRefund
  <2> QED BY <1>9, <2>3 DEF ReadBookingsToRefund, TypeInv, TypeOK
<1>10. ASSUME NEW b \in Bookings, RefundOne(h, b)
       PROVE  TypeInv'
  <2>1. req[h] \in RefundsRequest
    BY <1>10, <1>q, RequestKinds DEF RefundOne, At
  <2>2. [req[h] EXCEPT !.todo = @ \ {b}] \in Requests
    BY <2>1 DEF Requests, RefundsRequest
  <2>3. req' = [req EXCEPT ![h] = [req[h] EXCEPT !.todo = @ \ {b}]]
           /\ [req[h] EXCEPT !.todo = @ \ {b}].pc # "confirm"
    BY <1>10, <2>1 DEF RefundOne, RefundsRequest
  <2>4. req' \in [Handlers -> Requests] /\ ConfirmFits'
    BY <2>2, <2>3, RequestTyped
  <2>5. intent' \in [Bookings -> IntentStatus] /\ events' \subseteq Events
    BY <1>10 DEF RefundOne, RefundAtStripe, TypeInv, TypeOK, IntentStatus, Events, EventKinds
  <2> QED BY <1>10, <2>4, <2>5 DEF RefundOne, TypeInv, TypeOK
<1>11. CASE CommitCancelRide(h)
  <2>1. req[h] \in RefundsRequest
    BY <1>11, <1>q, RequestKinds DEF CommitCancelRide, At
  <2>2. ride' \in [Rides -> RideRow]
    BY <1>11, <2>1 DEF CommitCancelRide, TypeInv, TypeOK, RideRow, RideStatus, RefundsRequest
  <2>3. booking' \in [Bookings -> BookingRow]
    BY <1>11 DEF CommitCancelRide, TypeInv, TypeOK, BookingRow, BookingStatus
  <2> QED BY <1>11, <2>2, <2>3, ReturnTyped DEF CommitCancelRide, TypeInv, TypeOK
<1> QED BY <1>1, <1>2, <1>3, <1>4, <1>5, <1>6, <1>7, <1>8, <1>9, <1>10, <1>11 DEF RideSteps

LEMMA BookingStepsTyped ==
  ASSUME TypeInv, NEW h \in Handlers, BookingSteps(h)
  PROVE  TypeInv'
<1> USE ParamsAssumption
<1>q. req[h] \in Requests
  BY DEF TypeInv, TypeOK
<1>1. ASSUME NEW b \in Bookings, CreateBooking(h, b)
      PROVE  TypeInv'
  <2>1. [pc |-> "book", b |-> b] \in Requests
    BY DEF Requests, BookingRequest
  <2> QED BY <1>1, <2>1, BeginTyped DEF CreateBooking
<1>2. ASSUME NEW b \in Bookings, ConfirmBooking(h, b)
      PROVE  TypeInv'
  <2> DEFINE q == [pc |-> "confirm", b |-> b, seen |-> ride[RideOf[b]]]
  <2>1. q \in Requests
    BY DEF TypeInv, TypeOK, Requests, ConfirmRequest
  <2>2. HasSeats(q.seen, q.b)
    BY <1>2 DEF ConfirmBooking
  <2> QED BY <1>2, <2>1, <2>2, BeginTyped DEF ConfirmBooking
<1>3. ASSUME NEW b \in Bookings, RejectBooking(h, b)
      PROVE  TypeInv'
  <2>1. [pc |-> "reject", b |-> b] \in Requests
    BY DEF Requests, BookingRequest
  <2> QED BY <1>3, <2>1, BeginTyped DEF RejectBooking
<1>4. ASSUME NEW b \in Bookings, NEW by \in CancelledBy, CancelBooking(h, b, by)
      PROVE  TypeInv'
  <2> DEFINE q == [pc |-> IF NeedsRefund(booking[b]) THEN "refund" ELSE "cancel",
                   b |-> b, by |-> by, restore |-> booking[b].status \in Holding,
                   seen |-> ride[RideOf[b]]]
  <2>1. q \in Requests /\ q.pc # "confirm"
    BY DEF TypeInv, TypeOK, Requests, CancelRequest
  <2> QED BY <1>4, <2>1, BeginTyped DEF CancelBooking
<1>5. CASE CommitCreateBooking(h)
  <2>1. req[h] \in BookingRequest
    BY <1>5, <1>q, RequestKinds DEF CommitCreateBooking, At
  <2>2. booking' = [booking EXCEPT ![req[h].b].status = "pending"]
    BY <1>5 DEF CommitCreateBooking
  <2>3. booking' \in [Bookings -> BookingRow]
    BY <2>1, <2>2 DEF TypeInv, TypeOK, BookingRow, BookingStatus, BookingRequest
  <2> QED BY <1>5, <2>3, ReturnTyped DEF CommitCreateBooking, TypeInv, TypeOK
<1>6. CASE CommitConfirmBooking(h)
  <2>1. req[h] \in ConfirmRequest /\ HasSeats(req[h].seen, req[h].b)
    BY <1>6, <1>q, RequestKinds DEF CommitConfirmBooking, At, TypeInv, ConfirmFits
  <2>2. /\ req[h].b \in Bookings /\ req[h].seen.status \in RideStatus
        /\ req[h].seen.avail \in Int /\ SeatsOf[req[h].b] \in Nat
        /\ RideOf[req[h].b] \in Rides
    BY <2>1, SeatCountKinds DEF ConfirmRequest, RideRow
  <2>3. req[h].seen.avail - SeatsOf[req[h].b] \in SeatCount
    <3>1. req[h].seen.avail - SeatsOf[req[h].b] \in Nat
      BY <2>1, <2>2 DEF HasSeats
    <3> QED BY <3>1, SeatCountKinds
  <2>4. ride' \in [Rides -> RideRow]
    BY <1>6, <2>2, <2>3 DEF CommitConfirmBooking, TypeInv, TypeOK, RideRow, RideStatus
  <2>5. booking' \in [Bookings -> BookingRow]
    BY <1>6, <2>2 DEF CommitConfirmBooking, TypeInv, TypeOK, BookingRow, BookingStatus
  <2> QED BY <1>6, <2>4, <2>5, ReturnTyped DEF CommitConfirmBooking, TypeInv, TypeOK
<1>7. CASE CommitRejectBooking(h)
  <2>1. booking' \in [Bookings -> BookingRow]
    BY <1>7 DEF CommitRejectBooking, TypeInv, TypeOK, BookingRow, BookingStatus
  <2> QED BY <1>7, <2>1, ReturnTyped DEF CommitRejectBooking, TypeInv, TypeOK
<1>8. CASE RefundBooking(h)
  <2>1. req[h] \in CancelRequest
    BY <1>8, <1>q, RequestKinds DEF RefundBooking, At
  <2>2. [req[h] EXCEPT !.pc = "cancel"] \in Requests
           /\ [req[h] EXCEPT !.pc = "cancel"].pc # "confirm"
    BY <2>1 DEF Requests, CancelRequest
  <2>3. req' \in [Handlers -> Requests] /\ ConfirmFits'
    BY <1>8, <2>2, RequestTyped DEF RefundBooking, Go
  <2>4. intent' \in [Bookings -> IntentStatus] /\ events' \subseteq Events
    BY <1>8, <2>1 DEF RefundBooking, RefundAtStripe, TypeInv, TypeOK, IntentStatus,
       Events, EventKinds, CancelRequest
  <2> QED BY <1>8, <2>3, <2>4 DEF RefundBooking, TypeInv, TypeOK
<1>9. CASE CommitCancelBooking(h)
  <2>1. req[h] \in CancelRequest
    BY <1>9, <1>q, RequestKinds DEF CommitCancelBooking, At
  <2>2. /\ req[h].b \in Bookings /\ req[h].by \in BookingStatus
        /\ req[h].seen \in RideRow
        /\ SeatsOf[req[h].b] \in Nat /\ RideOf[req[h].b] \in Rides
    BY <2>1 DEF CancelRequest, CancelledBy, BookingStatus
  <2>3. MinOf(req[h].seen.total, req[h].seen.avail + SeatsOf[req[h].b]) \in SeatCount
    BY <2>2, SeatCountKinds
  <2>4. ride' \in [Rides -> RideRow]
    BY <1>9, <2>2, <2>3 DEF CommitCancelBooking, TypeInv, TypeOK, RideRow
  <2>5. booking' \in [Bookings -> BookingRow]
    BY <1>9, <2>2 DEF CommitCancelBooking, TypeInv, TypeOK, BookingRow
  <2> QED BY <1>9, <2>4, <2>5, ReturnTyped DEF CommitCancelBooking, TypeInv, TypeOK
<1> QED BY <1>1, <1>2, <1>3, <1>4, <1>5, <1>6, <1>7, <1>8, <1>9 DEF BookingSteps

LEMMA AwaitPaymentTyped ==
  ASSUME TypeInv, NEW b \in Bookings, AwaitPayment(b)
  PROVE  booking' \in [Bookings -> BookingRow]
BY DEF AwaitPayment, TypeInv, TypeOK, BookingRow, BookingStatus, PaymentStatus

LEMMA PaymentStepsTyped ==
  ASSUME TypeInv, NEW h \in Handlers, PaymentSteps(h)
  PROVE  TypeInv'
<1>q. req[h] \in Requests
  BY DEF TypeInv, TypeOK
<1>1. ASSUME NEW b \in Bookings, CreatePaymentIntent(h, b)
      PROVE  TypeInv'
  <2> DEFINE q == [pc |-> IF booking[b].intent THEN "retrieve" ELSE "createIntent",
                   b |-> b]
  <2>1. q \in Requests /\ q.pc # "confirm"
    BY DEF Requests, BookingRequest
  <2> QED BY <1>1, <2>1, BeginTyped DEF CreatePaymentIntent
<1>2. CASE RetrieveIntent(h)
  <2>1. req[h] \in BookingRequest
    BY <1>2, <1>q, RequestKinds DEF RetrieveIntent, At
  <2> DEFINE reuse == [pc |-> "reuse", b |-> req[h].b,
                       stripe |-> PaymentStatusOf(intent[req[h].b])]
             create == [req[h] EXCEPT !.pc = "createIntent"]
  <2>2. reuse \in Requests /\ reuse.pc # "confirm"
    BY <2>1 DEF Requests, ReuseRequest, BookingRequest, PaymentStatusOf, PaymentStatus
  <2>3. create \in Requests /\ create.pc # "confirm"
    BY <2>1 DEF Requests, BookingRequest
  <2>4. req' = [req EXCEPT ![h] = reuse] \/ req' = [req EXCEPT ![h] = create]
    BY <1>2 DEF RetrieveIntent, Go
  <2>5. req' \in [Handlers -> Requests] /\ ConfirmFits'
    <3> HIDE DEF reuse, create
    <3> QED BY <2>2, <2>3, <2>4, RequestTyped
  <2> QED BY <1>2, <2>5 DEF RetrieveIntent, TypeInv, TypeOK
<1>3. CASE ReuseIntent(h)
  <2>1. req[h] \in ReuseRequest
    BY <1>3, <1>q, RequestKinds DEF ReuseIntent, At
  <2>2. payment' \in [Bookings -> PaymentStatus \cup {"none"}] /\ secret' \subseteq Bookings
    BY <1>3, <2>1 DEF ReuseIntent, ReuseRequest, TypeInv, TypeOK
  <2>3. booking' = booking \/ AwaitPayment(req[h].b)
    BY <1>3 DEF ReuseIntent
  <2>4. booking' \in [Bookings -> BookingRow]
    <3>1. req[h].b \in Bookings
      BY <2>1 DEF ReuseRequest
    <3> QED BY <2>3, <3>1, AwaitPaymentTyped DEF TypeInv, TypeOK
  <2> QED BY <1>3, <2>2, <2>4, ReturnTyped DEF ReuseIntent, TypeInv, TypeOK
<1>4. CASE ReuseIntentFails(h)
  <2>1. req[h] \in ReuseRequest
    BY <1>4, <1>q, RequestKinds DEF ReuseIntentFails, At
  <2>2. [pc |-> "createIntent", b |-> req[h].b] \in Requests
    BY <2>1 DEF Requests, ReuseRequest, BookingRequest
  <2>3. req' \in [Handlers -> Requests] /\ ConfirmFits'
    BY <1>4, <2>2, RequestTyped DEF ReuseIntentFails
  <2> QED BY <1>4, <2>3 DEF ReuseIntentFails, TypeInv, TypeOK
<1>5. CASE CreateIntentAtStripe(h)
  <2>1. req[h] \in BookingRequest
    BY <1>5, <1>q, RequestKinds DEF CreateIntentAtStripe, At
  <2>2. [req[h] EXCEPT !.pc = "record"] \in Requests
           /\ [req[h] EXCEPT !.pc = "record"].pc # "confirm"
    BY <2>1 DEF Requests, BookingRequest
  <2>3. req' \in [Handlers -> Requests] /\ ConfirmFits'
    BY <1>5, <2>2, RequestTyped DEF CreateIntentAtStripe, Go
  <2>4. intent' \in [Bookings -> IntentStatus]
    BY <1>5 DEF CreateIntentAtStripe, TypeInv, TypeOK, IntentStatus
  <2> QED BY <1>5, <2>3, <2>4 DEF CreateIntentAtStripe, TypeInv, TypeOK
<1>6. CASE RecordIntent(h)
  <2>1. req[h] \in BookingRequest
    BY <1>6, <1>q, RequestKinds DEF RecordIntent, At
  <2>2. payment' \in [Bookings -> PaymentStatus \cup {"none"}] /\ secret' \subseteq Bookings
    BY <1>6, <2>1 DEF RecordIntent, BookingRequest, PaymentStatusOf, PaymentStatus,
       TypeInv, TypeOK
  <2>3. booking' \in [Bookings -> BookingRow]
    BY <1>6 DEF RecordIntent, AwaitPayment, TypeInv, TypeOK, BookingRow, BookingStatus,
       PaymentStatus
  <2> QED BY <1>6, <2>2, <2>3, ReturnTyped DEF RecordIntent, TypeInv, TypeOK
<1>7. ASSUME NEW e \in Events, ReceiveEvent(h, e)
      PROVE  TypeInv'
  <2> DEFINE q == [pc |-> "hook", b |-> e.b, kind |-> e.kind,
                   wasPayment |-> payment[e.b], was |-> booking[e.b]]
  <2>1. q \in Requests
    BY <1>7 DEF ReceiveEvent, TypeInv, TypeOK, Requests, HookRequest, Events
  <2> QED BY <1>7, <2>1, BeginTyped DEF ReceiveEvent
<1>8. CASE ApplyEvent(h)
  <2>1. req[h] \in HookRequest
    BY <1>8, <1>q, RequestKinds DEF ApplyEvent, At
  <2>2. /\ req[h].kind \in EventKinds /\ req[h].b \in Bookings
        /\ req[h].kind \in PaymentStatus
        /\ BookingPayOf(req[h].kind) \in PaymentStatus
        /\ req[h].kind # "refunded" => BookingStatusOf(req[h].kind) \in BookingStatus
    BY <2>1 DEF HookRequest, EventKinds, PaymentStatus, BookingPayOf, BookingStatusOf,
       BookingStatus
  <2>3. payment' \in [Bookings -> PaymentStatus \cup {"none"}]
    BY <1>8, <2>2 DEF ApplyEvent, TypeInv, TypeOK
  <2>4. booking' \in [Bookings -> BookingRow]
    BY <1>8, <2>2 DEF ApplyEvent, CanSetStatus, TypeInv, TypeOK, BookingRow
  <2> QED BY <1>8, <2>3, <2>4, ReturnTyped DEF ApplyEvent, TypeInv, TypeOK
<1> QED BY <1>1, <1>2, <1>3, <1>4, <1>5, <1>6, <1>7, <1>8 DEF PaymentSteps

LEMMA StripeStepsTyped ==
  ASSUME TypeInv, NEW b \in Bookings, StripeStep(b)
  PROVE  TypeInv'
<1>1. intent' \in [Bookings -> IntentStatus] /\ events' \subseteq Events
  BY DEF StripeStep, StripePaymentSucceeds, StripePaymentFails, StripeIntentCanceled,
     TypeInv, TypeOK, IntentStatus, Events, EventKinds
<1> QED BY <1>1 DEF StripeStep, StripePaymentSucceeds, StripePaymentFails,
     StripeIntentCanceled, TypeInv, TypeOK, ConfirmFits, At

LEMMA TypeStep == TypeInv /\ [Next]_vars => TypeInv'
<1> SUFFICES ASSUME TypeInv, [Next]_vars PROVE TypeInv'
  OBVIOUS
<1> USE ParamsAssumption
<1>1. ASSUME NEW r \in Rides, NEW n \in SeatTotals, CreateRide(r, n)
      PROVE  TypeInv'
  BY <1>1, SeatCountKinds
     DEF CreateRide, TypeInv, TypeOK, RideRow, RideStatus, ConfirmFits, At
<1>2. ASSUME NEW r \in Rides, DeleteRide(r)
      PROVE  TypeInv'
  BY <1>2 DEF DeleteRide, TypeInv, TypeOK, RideRow, RideStatus, ConfirmFits, At
<1>3. ASSUME NEW h \in Handlers, HandlerStep(h)
      PROVE  TypeInv'
  <2>1. CASE Fail(h)
    BY <2>1, ReturnTyped DEF Fail, TypeInv, TypeOK
  <2> QED BY <1>3, <2>1, RideStepsTyped, BookingStepsTyped, PaymentStepsTyped
          DEF HandlerStep
<1>4. ASSUME NEW b \in Bookings, StripeStep(b)
      PROVE  TypeInv'
  BY <1>4, StripeStepsTyped
<1>5. CASE UNCHANGED vars
  BY <1>5 DEF vars, TypeInv, TypeOK, ConfirmFits, At
<1> QED BY <1>1, <1>2, <1>3, <1>4, <1>5 DEF Next

LEMMA TypeInit == Init => TypeInv
<1>1. Init => 0 \in SeatCount
  BY SeatCountKinds
<1> QED BY <1>1, ParamsAssumption
        DEF Init, TypeInv, TypeOK, ConfirmFits, At, Idle, Requests, RideRow, RideStatus,
            BookingRow, BookingStatus, PaymentStatus, IntentStatus

\* Types are right in every reachable state, for any number of handlers in
\* flight, whatever integers PATCH /rides/:id is sent for a seatsTotal.
THEOREM TypeCorrect == Spec => []TypeOK
<1>1. TypeInv => TypeOK
  BY DEF TypeInv
<1> QED BY <1>1, TypeInit, TypeStep, PTL DEF Spec

\* As long as no driver patches a negative seatsTotal, no seatsAvailable goes
\* below zero, whatever overlaps, although every commit computes it from a row
\* read earlier.  (With a negative one it does: the cancellation of an accepted
\* booking writes the smaller of seatsTotal and the sum.)
NoSeatsOwed == \A r \in Rides : ride[r].avail >= 0

THEOREM SeatsNeverNegative ==
  ASSUME UpdateTotals \subseteq Nat
  PROVE  Spec => []NoSeatsOwed
<1>1. TypeOK => NoSeatsOwed
  BY DEF TypeOK, RideRow, SeatCount, NoSeatsOwed
<1> QED BY <1>1, TypeCorrect, PTL

-----------------------------------------------------------------------------
(* The books and Stripe.  The three properties are not inductive alone: a  *)
(* webhook in flight, or an event still to come, will mark a booking paid  *)
(* or refunded, and an intent about to be reused may be recorded as paid.  *)
(* EventsTrue and HandlersTrue say that all they claim is true already;    *)
(* since Stripe never takes a capture or a refund back, it stays true.     *)

EventsTrue ==
  \A e \in events :
    /\ e.kind = "succeeded" => Captured(e.b)
    /\ e.kind = "refunded" => intent[e.b] = "refunded"

HandlersTrue ==
  \A h \in Handlers :
    /\ At(h, "hook") /\ req[h].kind = "succeeded" => Captured(req[h].b)
    /\ At(h, "hook") /\ req[h].kind = "refunded" => intent[req[h].b] = "refunded"
    /\ At(h, "reuse") => req[h].stripe # "refunded"
    /\ At(h, "reuse") /\ req[h].stripe = "succeeded" => Captured(req[h].b)
    /\ At(h, "reuse") \/ At(h, "retrieve") => booking[req[h].b].intent

SafeInv ==
  BooksFollowStripe /\ NoFreeRide /\ NoOrphanPayment /\ EventsTrue /\ HandlersTrue

\* The stages that HandlersTrue is about.
Claiming == {"hook", "reuse", "retrieve"}

\* Every handler stays as it is or moves to a stage that claims nothing.
NoNewClaim ==
  \A g \in Handlers : req'[g] = req[g] \/ req'[g].pc \notin Claiming

\* What never is taken back.
Grows ==
  \A b \in Bookings :
    /\ Captured(b) => Captured(b)'
    /\ intent[b] = "refunded" => intent'[b] = "refunded"
    /\ booking[b].intent => booking'[b].intent

LEMMA BeginClaims ==
  ASSUME TypeInv, NEW h \in Handlers, NEW q, Begin(h, q), q.pc \notin Claiming
  PROVE  NoNewClaim
BY DEF NoNewClaim, Begin, TypeInv, TypeOK

LEMMA ReturnClaims ==
  ASSUME TypeInv, NEW h \in Handlers, Return(h)
  PROVE  NoNewClaim
BY DEF NoNewClaim, Return, Idle, Claiming, TypeInv, TypeOK

LEMMA HasStage ==
  ASSUME NEW q \in Requests, NEW pc
  PROVE  [q EXCEPT !.pc = pc].pc = pc
BY DEF Requests, Idle, BookingRequest, ConfirmRequest, CancelRequest, ReuseRequest,
       HookRequest, RideRequest, UpdateRequest, RefundsRequest

LEMMA GoClaims ==
  ASSUME TypeInv, NEW h \in Handlers, NEW pc, Go(h, pc), pc \notin Claiming
  PROVE  NoNewClaim
<1>1. req'[h] = [req[h] EXCEPT !.pc = pc] /\ \A g \in Handlers \ {h} : req'[g] = req[g]
  BY DEF Go, TypeInv, TypeOK
<1>2. req'[h].pc = pc
  BY <1>1, HasStage DEF TypeInv, TypeOK
<1> QED BY <1>1, <1>2 DEF NoNewClaim

LEMMA HandlersStayTrue ==
  ASSUME TypeInv, HandlersTrue, Grows, NoNewClaim
  PROVE  HandlersTrue'
<1> SUFFICES ASSUME NEW h \in Handlers, At(h, "hook")' \/ At(h, "reuse")' \/ At(h, "retrieve")'
             PROVE  /\ req'[h] = req[h]
                    /\ req[h].b \in Bookings
  BY DEF HandlersTrue, At, Grows
<1>1. req'[h] = req[h]
  BY DEF NoNewClaim, Claiming, At
<1>2. req[h] \in BookingRequest \cup ReuseRequest \cup HookRequest
  BY <1>1, RequestKinds DEF TypeInv, TypeOK, At
<1> QED BY <1>1, <1>2 DEF BookingRequest, ReuseRequest, HookRequest

\* A step that leaves Stripe and the Payment rows alone, and moves no booking
\* to a confirmed status, or writes no Booking row at all, is harmless.
LEMMA StatusStep ==
  ASSUME TypeInv, SafeInv, NoNewClaim, UNCHANGED <<payment, intent, secret, events>>,
         \A b \in Bookings :
           /\ booking'[b].pay = booking[b].pay
           /\ booking'[b].intent = booking[b].intent
           /\ booking'[b].status \in {"CONFIRMED", "completed"}
                => booking[b].status \in {"CONFIRMED", "completed"}
  PROVE  SafeInv'
<1>1. Grows
  BY DEF Grows, Captured
<1>2. HandlersTrue'
  BY <1>1, HandlersStayTrue DEF SafeInv
<1>3. EventsTrue'
  BY DEF SafeInv, EventsTrue, Captured
<1>4. BooksFollowStripe' /\ NoFreeRide' /\ NoOrphanPayment'
  BY DEF SafeInv, BooksFollowStripe, NoFreeRide, NoOrphanPayment, Captured
<1> QED BY <1>2, <1>3, <1>4 DEF SafeInv

LEMMA RefundStep ==
  ASSUME TypeInv, SafeInv, NoNewClaim, UNCHANGED <<booking, payment, secret>>,
         NEW b \in Bookings, RefundAtStripe(b)
  PROVE  SafeInv'
<1>1. \/ UNCHANGED <<intent, events>>
      \/ /\ Captured(b) /\ intent' = [intent EXCEPT ![b] = "refunded"]
         /\ events' = events \cup {[kind |-> "refunded", b |-> b]}
  BY DEF RefundAtStripe, Captured
<1>2. Grows
  BY <1>1 DEF Grows, Captured, TypeInv, TypeOK
<1>3. HandlersTrue'
  BY <1>2, HandlersStayTrue DEF SafeInv
<1>4. EventsTrue'
  <2>1. \A e \in events : e.b \in Bookings
    BY DEF TypeInv, TypeOK, Events
  <2>2. intent'[b] = "refunded" \/ events' = events
    BY <1>1 DEF TypeInv, TypeOK
  <2> QED BY <1>1, <1>2, <2>1, <2>2 DEF SafeInv, EventsTrue, Grows
<1>5. BooksFollowStripe' /\ NoFreeRide'
  BY <1>2 DEF SafeInv, BooksFollowStripe, NoFreeRide, Grows
<1>6. NoOrphanPayment'
  BY <1>1 DEF SafeInv, NoOrphanPayment, Captured, TypeInv, TypeOK
<1> QED BY <1>3, <1>4, <1>5, <1>6 DEF SafeInv

LEMMA SetStatus ==
  ASSUME NEW row \in BookingRow, NEW s
  PROVE  /\ [row EXCEPT !.status = s].status = s
         /\ [row EXCEPT !.status = s].pay = row.pay
         /\ [row EXCEPT !.status = s].intent = row.intent
BY DEF BookingRow

LEMMA RideStepsSafe ==
  ASSUME TypeInv, SafeInv, NEW h \in Handlers, RideSteps(h)
  PROVE  SafeInv'
<1>q. req[h] \in Requests
  BY DEF TypeInv, TypeOK
<1>1. ASSUME NEW r \in Rides, NEW n \in UpdateTotals, UpdateRide(h, r, n)
      PROVE  SafeInv'
  <2>1. NoNewClaim
    BY <1>1, BeginClaims DEF UpdateRide, Claiming
  <2> QED BY <1>1, <2>1, StatusStep DEF UpdateRide
<1>2. ASSUME NEW r \in Rides, StartRide(h, r) \/ CompleteRide(h, r) \/ CancelRide(h, r)
      PROVE  SafeInv'
  <2>1. NoNewClaim
    BY <1>2, BeginClaims DEF StartRide, CompleteRide, CancelRide, Claiming
  <2> QED BY <1>2, <2>1, StatusStep DEF StartRide, CompleteRide, CancelRide
<1>3. CASE CommitUpdateRide(h) \/ CommitStartRide(h)
  <2>1. NoNewClaim
    BY <1>3, ReturnClaims DEF CommitUpdateRide, CommitStartRide
  <2> QED BY <1>3, <2>1, StatusStep DEF CommitUpdateRide, CommitStartRide
<1>4. CASE CheckPaidToStart(h) \/ CheckPaidToComplete(h)
  <2>1. NoNewClaim
    BY <1>4, GoClaims DEF CheckPaidToStart, CheckPaidToComplete, Claiming
  <2> QED BY <1>4, <2>1, StatusStep DEF CheckPaidToStart, CheckPaidToComplete
<1>5. CASE CommitCompleteRide(h) \/ CommitCancelRide(h)
  <2>1. NoNewClaim
    BY <1>5, ReturnClaims DEF CommitCompleteRide, CommitCancelRide
  <2>2. \A b \in Bookings :
          \/ booking'[b] = booking[b]
          \/ /\ booking[b].status = "CONFIRMED"
             /\ booking'[b] = [booking[b] EXCEPT !.status = "completed"]
          \/ booking'[b] = [booking[b] EXCEPT !.status = "cancelled_by_driver"]
    BY <1>5 DEF CommitCompleteRide, CommitCancelRide
  <2>3. \A b \in Bookings :
          /\ booking'[b].pay = booking[b].pay
          /\ booking'[b].intent = booking[b].intent
          /\ booking'[b].status \in {"CONFIRMED", "completed"}
               => booking[b].status \in {"CONFIRMED", "completed"}
    <3> SUFFICES ASSUME NEW b \in Bookings
                 PROVE  /\ booking'[b].pay = booking[b].pay
                        /\ booking'[b].intent = booking[b].intent
                        /\ booking'[b].status \in {"CONFIRMED", "completed"}
                             => booking[b].status \in {"CONFIRMED", "completed"}
      OBVIOUS
    <3>1. booking[b] \in BookingRow
      BY DEF TypeInv, TypeOK
    <3>2. CASE /\ booking[b].status = "CONFIRMED"
               /\ booking'[b] = [booking[b] EXCEPT !.status = "completed"]
      BY <3>1, <3>2, SetStatus
    <3>3. CASE booking'[b] = [booking[b] EXCEPT !.status = "cancelled_by_driver"]
      BY <3>1, <3>3, SetStatus
    <3> QED BY <2>2, <3>2, <3>3
  <2> QED BY <1>5, <2>1, <2>3, StatusStep DEF CommitCompleteRide, CommitCancelRide
<1>6. CASE ReadBookingsToRefund(h)
  <2>1. NoNewClaim
    BY <1>6 DEF ReadBookingsToRefund, NoNewClaim, Claiming, TypeInv, TypeOK
  <2> QED BY <1>6, <2>1, StatusStep DEF ReadBookingsToRefund
<1>7. ASSUME NEW b \in Bookings, RefundOne(h, b)
      PROVE  SafeInv'
  <2>1. req[h] \in RefundsRequest
    BY <1>7, <1>q, RequestKinds DEF RefundOne, At
  <2>2. req'[h].pc = "rideRefunds" /\ \A g \in Handlers \ {h} : req'[g] = req[g]
    BY <1>7, <2>1 DEF RefundOne, RefundsRequest, TypeInv, TypeOK
  <2>3. NoNewClaim
    BY <2>2 DEF NoNewClaim, Claiming
  <2> QED BY <1>7, <2>3, RefundStep DEF RefundOne
<1> QED BY <1>1, <1>2, <1>3, <1>4, <1>5, <1>6, <1>7 DEF RideSteps

LEMMA BookingStepsSafe ==
  ASSUME TypeInv, SafeInv, NEW h \in Handlers, BookingSteps(h)
  PROVE  SafeInv'
<1>q. req[h] \in Requests
  BY DEF TypeInv, TypeOK
<1>1. ASSUME NEW b \in Bookings,
             CreateBooking(h, b) \/ ConfirmBooking(h, b) \/ RejectBooking(h, b)
      PROVE  SafeInv'
  <2>1. NoNewClaim
    BY <1>1, BeginClaims DEF CreateBooking, ConfirmBooking, RejectBooking, Claiming
  <2> QED BY <1>1, <2>1, StatusStep DEF CreateBooking, ConfirmBooking, RejectBooking
<1>2. ASSUME NEW b \in Bookings, NEW by \in CancelledBy, CancelBooking(h, b, by)
      PROVE  SafeInv'
  <2>1. NoNewClaim
    BY <1>2, BeginClaims DEF CancelBooking, Claiming
  <2> QED BY <1>2, <2>1, StatusStep DEF CancelBooking
<1>3. CASE \/ CommitCreateBooking(h) \/ CommitConfirmBooking(h)
           \/ CommitRejectBooking(h) \/ CommitCancelBooking(h)
  <2>1. NoNewClaim
    BY <1>3, ReturnClaims DEF CommitCreateBooking, CommitConfirmBooking,
       CommitRejectBooking, CommitCancelBooking
  <2>2. PICK s \in {"pending", "ACCEPTED", "cancelled_by_driver", "cancelled_by_passenger"} :
          booking' = [booking EXCEPT ![req[h].b].status = s]
    <3>1. CASE CommitCancelBooking(h)
      <4>1. req[h] \in CancelRequest
        BY <3>1, <1>q, RequestKinds DEF CommitCancelBooking, At
      <4> QED BY <3>1, <4>1 DEF CommitCancelBooking, CancelRequest, CancelledBy
    <3> QED BY <1>3, <3>1 DEF CommitCreateBooking, CommitConfirmBooking,
            CommitRejectBooking
  <2>3. \A b \in Bookings :
          booking'[b] = booking[b] \/ booking'[b] = [booking[b] EXCEPT !.status = s]
    BY <2>2 DEF TypeInv, TypeOK
  <2>4. \A b \in Bookings :
          /\ booking'[b].pay = booking[b].pay
          /\ booking'[b].intent = booking[b].intent
          /\ booking'[b].status \in {"CONFIRMED", "completed"}
               => booking[b].status \in {"CONFIRMED", "completed"}
    <3> SUFFICES ASSUME NEW b \in Bookings
                 PROVE  /\ booking'[b].pay = booking[b].pay
                        /\ booking'[b].intent = booking[b].intent
                        /\ booking'[b].status \in {"CONFIRMED", "completed"}
                             => booking[b].status \in {"CONFIRMED", "completed"}
      OBVIOUS
    <3>1. booking[b] \in BookingRow
      BY DEF TypeInv, TypeOK
    <3>2. CASE booking'[b] = [booking[b] EXCEPT !.status = s]
      BY <3>1, <3>2, SetStatus
    <3> QED BY <2>3, <3>2
  <2> QED BY <1>3, <2>1, <2>4, StatusStep DEF CommitCreateBooking, CommitConfirmBooking,
          CommitRejectBooking, CommitCancelBooking
<1>4. CASE RefundBooking(h)
  <2>1. req[h] \in CancelRequest
    BY <1>4, <1>q, RequestKinds DEF RefundBooking, At
  <2>2. req[h].b \in Bookings
    BY <2>1 DEF CancelRequest
  <2>3. NoNewClaim
    BY <1>4, GoClaims DEF RefundBooking, Claiming
  <2> QED BY <1>4, <2>2, <2>3, RefundStep DEF RefundBooking
<1> QED BY <1>1, <1>2, <1>3, <1>4 DEF BookingSteps

\* POST /payments/intent asks Stripe for an intent, and records it, under the
\* booking it read; the Payment row and the intent id are written together.
LEMMA IntentStepsSafe ==
  ASSUME TypeInv, SafeInv, NEW h \in Handlers,
         \/ \E b \in Bookings : CreatePaymentIntent(h, b)
         \/ RetrieveIntent(h) \/ ReuseIntent(h) \/ ReuseIntentFails(h)
         \/ CreateIntentAtStripe(h) \/ RecordIntent(h)
  PROVE  SafeInv'
<1>q. req[h] \in Requests
  BY DEF TypeInv, TypeOK
<1>1. ASSUME NEW b \in Bookings, CreatePaymentIntent(h, b)
      PROVE  SafeInv'
  <2>1. HandlersTrue'
    <3>1. /\ req'[h].pc = "createIntent" \/ (req'[h].pc = "retrieve" /\ booking[b].intent)
          /\ req'[h].b = b
          /\ \A g \in Handlers \ {h} : req'[g] = req[g]
      BY <1>1 DEF CreatePaymentIntent, Begin, TypeInv, TypeOK
    <3> QED BY <1>1, <3>1 DEF CreatePaymentIntent, SafeInv, HandlersTrue, At, Captured
  <2>2. EventsTrue' /\ BooksFollowStripe' /\ NoFreeRide' /\ NoOrphanPayment'
    BY <1>1 DEF CreatePaymentIntent, SafeInv, EventsTrue, BooksFollowStripe, NoFreeRide,
       NoOrphanPayment, Captured
  <2> QED BY <2>1, <2>2 DEF SafeInv
<1>2. CASE RetrieveIntent(h)
  <2>1. req[h] \in BookingRequest
    BY <1>2, <1>q, RequestKinds DEF RetrieveIntent, At
  <2>2. CASE Go(h, "createIntent")
    <3>1. NoNewClaim
      BY <2>2, GoClaims DEF Claiming
    <3> QED BY <1>2, <3>1, StatusStep DEF RetrieveIntent
  <2>3. CASE ~Go(h, "createIntent")
    <3>1. /\ req'[h].pc = "reuse" /\ req'[h].b = req[h].b
          /\ req'[h].stripe = PaymentStatusOf(intent[req[h].b])
          /\ \A g \in Handlers \ {h} : req'[g] = req[g]
      BY <1>2, <2>3 DEF RetrieveIntent, TypeInv, TypeOK
    <3>2. /\ req'[h].stripe # "refunded"
          /\ req'[h].stripe = "succeeded" => Captured(req[h].b)
      BY <3>1 DEF PaymentStatusOf, Captured
    <3>3. booking[req[h].b].intent
      BY <1>2 DEF RetrieveIntent, SafeInv, HandlersTrue
    <3>4. HandlersTrue'
      BY <1>2, <3>1, <3>2, <3>3 DEF RetrieveIntent, SafeInv, HandlersTrue, At, Captured
    <3>5. EventsTrue' /\ BooksFollowStripe' /\ NoFreeRide' /\ NoOrphanPayment'
      BY <1>2 DEF RetrieveIntent, SafeInv, EventsTrue, BooksFollowStripe, NoFreeRide,
         NoOrphanPayment, Captured
    <3> QED BY <3>4, <3>5 DEF SafeInv
  <2> QED BY <2>2, <2>3
<1>3. CASE ReuseIntent(h) \/ RecordIntent(h)
  <2> DEFINE b == req[h].b
  <2>1. b \in Bookings
    BY <1>3, <1>q, RequestKinds DEF ReuseIntent, RecordIntent, At, ReuseRequest,
       BookingRequest
  <2>2. /\ payment'[b] \notin {"none", "refunded"}
        /\ payment'[b] = "succeeded" => Captured(b)
        /\ \A c \in Bookings \ {b} : payment'[c] = payment[c]
    <3>1. CASE ReuseIntent(h)
      <4>1. req[h] \in ReuseRequest
        BY <3>1, <1>q, RequestKinds DEF ReuseIntent, At
      <4>2. payment' = [payment EXCEPT ![b] = req[h].stripe] /\ At(h, "reuse")
        BY <3>1 DEF ReuseIntent
      <4>3. req[h].stripe \notin {"none", "refunded"}
        BY <4>1, <4>2 DEF SafeInv, HandlersTrue, ReuseRequest, PaymentStatus
      <4> QED BY <2>1, <4>2, <4>3 DEF SafeInv, HandlersTrue, TypeInv, TypeOK
    <3>2. CASE RecordIntent(h)
      BY <2>1, <3>2 DEF RecordIntent, PaymentStatusOf, TypeInv, TypeOK
    <3> QED BY <1>3, <3>1, <3>2
  <2>3. /\ booking'[b].intent
        /\ \/ booking'[b] = booking[b]
           \/ booking'[b].status = "PAYMENT_PENDING" /\ booking'[b].pay = "pending"
        /\ \A c \in Bookings \ {b} : booking'[c] = booking[c]
    <3>1. CASE AwaitPayment(b)
      BY <2>1, <3>1 DEF AwaitPayment, TypeInv, TypeOK
    <3>2. CASE ReuseIntent(h) /\ UNCHANGED booking
      BY <3>2 DEF ReuseIntent, SafeInv, HandlersTrue
    <3> QED BY <1>3, <3>1, <3>2 DEF ReuseIntent, RecordIntent
  <2>4. UNCHANGED <<intent, events>> /\ secret' = secret \cup {b} /\ NoNewClaim
    BY <1>3, ReturnClaims DEF ReuseIntent, RecordIntent
  <2>5. Grows
    BY <2>1, <2>3, <2>4 DEF Grows, Captured
  <2>6. HandlersTrue'
    BY <2>4, <2>5, HandlersStayTrue DEF SafeInv
  <2>7. EventsTrue'
    BY <2>4 DEF SafeInv, EventsTrue, Captured
  <2>8. BooksFollowStripe'
    BY <2>1, <2>2, <2>3, <2>4 DEF SafeInv, BooksFollowStripe, Captured
  <2>9. NoFreeRide'
    BY <2>1, <2>3, <2>4 DEF SafeInv, NoFreeRide, Captured
  <2>10. NoOrphanPayment'
    BY <2>1, <2>2, <2>3, <2>4 DEF SafeInv, NoOrphanPayment, Captured
  <2> QED BY <2>6, <2>7, <2>8, <2>9, <2>10 DEF SafeInv
<1>4. CASE ReuseIntentFails(h)
  <2>1. NoNewClaim
    BY <1>4 DEF ReuseIntentFails, NoNewClaim, Claiming, TypeInv, TypeOK
  <2> QED BY <1>4, <2>1, StatusStep DEF ReuseIntentFails
<1>5. CASE CreateIntentAtStripe(h)
  <2>1. NoNewClaim
    BY <1>5, GoClaims DEF CreateIntentAtStripe, Claiming
  <2>2. \A b \in Bookings :
          intent'[b] = intent[b] \/ (intent[b] = "none" /\ intent'[b] = "open")
    BY <1>5 DEF CreateIntentAtStripe, TypeInv, TypeOK
  <2>3. UNCHANGED <<booking, payment, secret, events>>
    BY <1>5 DEF CreateIntentAtStripe
  <2>4. Grows
    BY <2>2, <2>3 DEF Grows, Captured
  <2>5. HandlersTrue'
    BY <2>1, <2>4, HandlersStayTrue DEF SafeInv
  <2>6. EventsTrue'
    <3>1. \A e \in events : e.b \in Bookings
      BY DEF TypeInv, TypeOK, Events
    <3> QED BY <2>3, <2>4, <3>1 DEF SafeInv, EventsTrue, Grows
  <2>7. BooksFollowStripe' /\ NoFreeRide'
    BY <2>3, <2>4 DEF SafeInv, BooksFollowStripe, NoFreeRide, Grows
  <2>8. NoOrphanPayment'
    BY <2>2, <2>3 DEF SafeInv, NoOrphanPayment, Captured
  <2> QED BY <2>5, <2>6, <2>7, <2>8 DEF SafeInv
<1> QED BY <1>1, <1>2, <1>3, <1>4, <1>5

\* POST /webhooks/stripe claims only what an emitted event says.
LEMMA WebhookStepsSafe ==
  ASSUME TypeInv, SafeInv, NEW h \in Handlers,
         (\E e \in Events : ReceiveEvent(h, e)) \/ ApplyEvent(h)
  PROVE  SafeInv'
<1>1. ASSUME NEW e \in Events, ReceiveEvent(h, e)
      PROVE  SafeInv'
  <2>1. /\ req'[h].pc = "hook" /\ req'[h].b = e.b /\ req'[h].kind = e.kind
        /\ \A g \in Handlers \ {h} : req'[g] = req[g]
        /\ e \in events
    BY <1>1 DEF ReceiveEvent, Begin, TypeInv, TypeOK
  <2>2. HandlersTrue'
    BY <1>1, <2>1 DEF ReceiveEvent, SafeInv, HandlersTrue, EventsTrue, At, Captured
  <2>3. EventsTrue' /\ BooksFollowStripe' /\ NoFreeRide' /\ NoOrphanPayment'
    BY <1>1 DEF ReceiveEvent, SafeInv, EventsTrue, BooksFollowStripe, NoFreeRide,
       NoOrphanPayment, Captured
  <2> QED BY <2>2, <2>3 DEF SafeInv
<1>2. CASE ApplyEvent(h)
  <2> DEFINE b == req[h].b
             kind == req[h].kind
  <2>1. req[h] \in HookRequest /\ At(h, "hook")
    BY <1>2, RequestKinds DEF ApplyEvent, At, TypeInv, TypeOK
  <2>2. b \in Bookings /\ kind \in EventKinds
    BY <2>1 DEF HookRequest
  <2>3. /\ kind = "succeeded" => Captured(b)
        /\ kind = "refunded" => intent[b] = "refunded"
    BY <2>1 DEF SafeInv, HandlersTrue
  <2>4. UNCHANGED <<intent, secret, events>> /\ NoNewClaim
    BY <1>2, ReturnClaims DEF ApplyEvent
  <2>5. /\ payment'[b] = payment[b] \/ payment'[b] = kind
        /\ \A c \in Bookings \ {b} : payment'[c] = payment[c]
    BY <1>2, <2>2 DEF ApplyEvent, TypeInv, TypeOK
  <2>6. /\ booking'[b].intent = booking[b].intent
        /\ booking'[b].pay = booking[b].pay \/ booking'[b].pay = BookingPayOf(kind)
        /\ \/ booking'[b].status = booking[b].status
           \/ kind # "refunded" /\ booking'[b].status = BookingStatusOf(kind)
        /\ \A c \in Bookings \ {b} : booking'[c] = booking[c]
    BY <1>2, <2>2 DEF ApplyEvent, CanSetStatus, TypeInv, TypeOK, BookingRow
  <2>7. Grows
    BY <2>2, <2>4, <2>6 DEF Grows, Captured
  <2>8. HandlersTrue'
    BY <2>4, <2>7, HandlersStayTrue DEF SafeInv
  <2>9. EventsTrue'
    BY <2>4 DEF SafeInv, EventsTrue, Captured
  <2>10. BooksFollowStripe'
    <3>1. \A c \in Bookings \ {b} :
            booking'[c] = booking[c] /\ payment'[c] = payment[c] /\ intent'[c] = intent[c]
      BY <2>4, <2>5, <2>6
    <3>2. /\ BookingPayOf(kind) = "paid" => Captured(b)
          /\ BookingPayOf(kind) = "refunded" => intent[b] = "refunded"
      BY <2>2, <2>3 DEF BookingPayOf, EventKinds
    <3> QED BY <2>2, <2>3, <2>4, <2>5, <2>6, <3>1, <3>2
            DEF SafeInv, BooksFollowStripe, Captured
  <2>11. NoFreeRide'
    <3>1. kind # "refunded" /\ BookingStatusOf(kind) \in {"CONFIRMED", "completed"}
            => Captured(b)
      BY <2>2, <2>3 DEF BookingStatusOf, EventKinds
    <3> QED BY <2>2, <2>4, <2>6, <3>1 DEF SafeInv, NoFreeRide, Captured
  <2>12. NoOrphanPayment'
    <3>1. kind # "none"
      BY <2>2 DEF EventKinds
    <3> QED BY <2>2, <2>4, <2>5, <2>6, <3>1 DEF SafeInv, NoOrphanPayment, Captured
  <2> QED BY <2>8, <2>9, <2>10, <2>11, <2>12 DEF SafeInv
<1> QED BY <1>1, <1>2

LEMMA StripeStepsSafe ==
  ASSUME TypeInv, SafeInv, NEW b \in Bookings, StripeStep(b)
  PROVE  SafeInv'
<1>1. UNCHANGED <<booking, payment, secret, req>>
  BY DEF StripeStep, StripePaymentSucceeds, StripePaymentFails, StripeIntentCanceled
<1>2. /\ intent[b] = "open"
      /\ \A c \in Bookings \ {b} : intent'[c] = intent[c]
      /\ \/ intent'[b] \in {"open", "canceled"}
         \/ intent'[b] = "succeeded" /\ b \in secret
  BY DEF StripeStep, StripePaymentSucceeds, StripePaymentFails, StripeIntentCanceled,
     TypeInv, TypeOK
<1>3. Grows
  BY <1>1, <1>2 DEF Grows, Captured
<1>4. NoNewClaim
  BY <1>1 DEF NoNewClaim
<1>5. HandlersTrue'
  BY <1>3, <1>4, HandlersStayTrue DEF SafeInv
<1>6. EventsTrue'
  <2>1. \A e \in events : e.b \in Bookings
    BY DEF TypeInv, TypeOK, Events
  <2>2. \/ events' = events
        \/ events' = events \cup {[kind |-> "failed", b |-> b]}
        \/ events' = events \cup {[kind |-> "succeeded", b |-> b]} /\ Captured(b)'
    BY DEF StripeStep, StripePaymentSucceeds, StripePaymentFails, StripeIntentCanceled,
       Captured, TypeInv, TypeOK
  <2> QED BY <1>3, <2>1, <2>2 DEF SafeInv, EventsTrue, Grows
<1>7. BooksFollowStripe' /\ NoFreeRide'
  BY <1>1, <1>3 DEF SafeInv, BooksFollowStripe, NoFreeRide, Grows
<1>8. NoOrphanPayment'
  BY <1>1, <1>2 DEF SafeInv, NoOrphanPayment, Captured
<1> QED BY <1>5, <1>6, <1>7, <1>8 DEF SafeInv

LEMMA SafeStep == TypeInv /\ SafeInv /\ [Next]_vars => SafeInv'
<1> SUFFICES ASSUME TypeInv, SafeInv, [Next]_vars PROVE SafeInv'
  OBVIOUS
<1>1. ASSUME (\E r \in Rides, n \in SeatTotals : CreateRide(r, n))
             \/ (\E r \in Rides : DeleteRide(r)) \/ UNCHANGED vars
      PROVE  SafeInv'
  <2>1. UNCHANGED <<booking, payment, intent, secret, events, req>>
    BY <1>1 DEF CreateRide, DeleteRide, vars
  <2>2. NoNewClaim
    BY <2>1 DEF NoNewClaim
  <2> QED BY <2>1, <2>2, StatusStep
<1>2. ASSUME NEW h \in Handlers, HandlerStep(h)
      PROVE  SafeInv'
  <2>1. CASE Fail(h)
    <3>1. NoNewClaim
      BY <2>1, ReturnClaims DEF Fail
    <3> QED BY <2>1, <3>1, StatusStep DEF Fail
  <2>2. CASE PaymentSteps(h)
    BY <2>2, IntentStepsSafe, WebhookStepsSafe DEF PaymentSteps
  <2> QED BY <1>2, <2>1, <2>2, RideStepsSafe, BookingStepsSafe DEF HandlerStep
<1>3. ASSUME NEW b \in Bookings, StripeStep(b)
      PROVE  SafeInv'
  BY <1>3, StripeStepsSafe
<1> QED BY <1>1, <1>2, <1>3 DEF Next

LEMMA InvCorrect == Spec => [](TypeInv /\ SafeInv)
<1>2. Init => SafeInv
  BY DEF Init, SafeInv, BooksFollowStripe, NoFreeRide, NoOrphanPayment, EventsTrue,
     HandlersTrue, Captured, At, Idle
<1> QED BY <1>2, TypeInit, TypeStep, SafeStep, PTL DEF Spec

\* Booking and Payment rows say paid, succeeded or refunded only of money that
\* Stripe captured or refunded, for any number of bookings and of overlapping
\* requests, in any order of the webhooks.
THEOREM BooksCorrect == Spec => []BooksFollowStripe
BY InvCorrect, PTL DEF SafeInv

\* No booking is CONFIRMED or completed whose intent was not captured.
THEOREM NoFreeRideCorrect == Spec => []NoFreeRide
BY InvCorrect, PTL DEF SafeInv

\* Every intent that can be or was paid is known to the database, so that its
\* webhooks and its refund find it.
THEOREM NoOrphanCorrect == Spec => []NoOrphanPayment
BY InvCorrect, PTL DEF SafeInv

-----------------------------------------------------------------------------
(* Bookings implements Custody.  A step either moves the money of one      *)
(* booking and writes no row, or leaves all money where it is; then the    *)
(* invariant of the state it leads to says that the rows are backed.       *)

\* What a step does at Stripe.
LEMMA IntentStep ==
  ASSUME TypeInv, [Next]_vars
  PROVE  \/ UNCHANGED intent
         \/ \E b \in Bookings :
              \/ intent[b] = "none" /\ intent' = [intent EXCEPT ![b] = "open"]
              \/ intent[b] = "open" /\ intent' = [intent EXCEPT ![b] = "canceled"]
         \/ \E b \in Bookings :
              /\ UNCHANGED <<booking, payment>>
              /\ \/ intent[b] = "open" /\ intent' = [intent EXCEPT ![b] = "succeeded"]
                 \/ intent[b] = "succeeded" /\ intent' = [intent EXCEPT ![b] = "refunded"]
<1> DEFINE Moved ==
      \/ UNCHANGED intent
      \/ \E b \in Bookings :
           \/ intent[b] = "none" /\ intent' = [intent EXCEPT ![b] = "open"]
           \/ intent[b] = "open" /\ intent' = [intent EXCEPT ![b] = "canceled"]
      \/ \E b \in Bookings :
           /\ UNCHANGED <<booking, payment>>
           /\ \/ intent[b] = "open" /\ intent' = [intent EXCEPT ![b] = "succeeded"]
              \/ intent[b] = "succeeded" /\ intent' = [intent EXCEPT ![b] = "refunded"]
<1>1. ASSUME NEW b \in Bookings, RefundAtStripe(b), UNCHANGED <<booking, payment>>
      PROVE  Moved
  BY <1>1 DEF RefundAtStripe, TypeInv, TypeOK
<1>2. ASSUME NEW h \in Handlers, HandlerStep(h)
      PROVE  Moved
  <2>q. req[h] \in Requests
    BY DEF TypeInv, TypeOK
  <2>1. CASE RideSteps(h)
    <3>1. ASSUME NEW b \in Bookings, RefundOne(h, b) PROVE Moved
      BY <1>1, <3>1 DEF RefundOne
    <3> QED BY <2>1, <3>1 DEF RideSteps, UpdateRide, StartRide, CompleteRide, CancelRide,
            CommitUpdateRide, CheckPaidToStart, CommitStartRide, CheckPaidToComplete,
            CommitCompleteRide, ReadBookingsToRefund, CommitCancelRide
  <2>2. CASE BookingSteps(h)
    <3>1. CASE RefundBooking(h)
      <4>1. req[h].b \in Bookings
        BY <2>q, <3>1, RequestKinds DEF RefundBooking, At, CancelRequest
      <4> QED BY <1>1, <3>1, <4>1 DEF RefundBooking
    <3> QED BY <2>2, <3>1 DEF BookingSteps, CreateBooking, ConfirmBooking, RejectBooking,
            CancelBooking, CommitCreateBooking, CommitConfirmBooking, CommitRejectBooking,
            CommitCancelBooking
  <2>3. CASE PaymentSteps(h)
    <3>1. CASE CreateIntentAtStripe(h)
      <4>1. req[h].b \in Bookings
        BY <2>q, <3>1, RequestKinds DEF CreateIntentAtStripe, At, BookingRequest
      <4> QED BY <3>1, <4>1 DEF CreateIntentAtStripe, TypeInv, TypeOK
    <3> QED BY <2>3, <3>1 DEF PaymentSteps, CreatePaymentIntent, RetrieveIntent, ReuseIntent,
            ReuseIntentFails, RecordIntent, ReceiveEvent, ApplyEvent
  <2>4. CASE Fail(h)
    BY <2>4 DEF Fail
  <2> QED BY <1>2, <2>1, <2>2, <2>3, <2>4 DEF HandlerStep
<1>3. ASSUME NEW b \in Bookings, StripeStep(b)
      PROVE  Moved
  BY <1>3 DEF StripeStep, StripePaymentSucceeds, StripePaymentFails, StripeIntentCanceled
<1> QED BY <1>2, <1>3 DEF Next, CreateRide, DeleteRide, vars

LEMMA CustodyInit == Init => C!Init
BY DEF Init, C!Init, MoneyOf, BooksOf

\* All money stays where it is: whatever was written is backed by it.
LEMMA RecordStep ==
  ASSUME TypeInv', SafeInv', \A b \in Bookings : MoneyOf(b)' = MoneyOf(b)
  PROVE  C!Record
<1>1. ASSUME NEW b \in Bookings
      PROVE  /\ Captured(b)' => MoneyOf(b) # "none"
             /\ intent'[b] = "refunded" => MoneyOf(b) = "returned"
  BY <1>1 DEF MoneyOf, Captured
<1>2. ASSUME NEW b \in Bookings
      PROVE  /\ "paid" \in BooksOf(b)' => MoneyOf(b) # "none"
             /\ "refunded" \in BooksOf(b)' => MoneyOf(b) = "returned"
             /\ BooksOf(b)' \subseteq {"paid", "refunded"}
  BY <1>1 DEF SafeInv, BooksFollowStripe, BooksOf
<1>3. \A b \in Bookings : BooksOf(b)' \subseteq
        (IF MoneyOf(b) = "none" THEN {} ELSE {"paid"})
          \cup (IF MoneyOf(b) = "returned" THEN {"refunded"} ELSE {})
  BY <1>2
<1>4. {b \in Bookings : booking'[b].status \in {"CONFIRMED", "completed"}}
        \subseteq {b \in Bookings : MoneyOf(b) # "none"}
  BY <1>1 DEF SafeInv, NoFreeRide
<1> QED BY <1>2, <1>3, <1>4 DEF C!Record, C!Backed

LEMMA CustodyStep ==
  ASSUME TypeInv, TypeInv', SafeInv', [Next]_vars
  PROVE  [C!Next]_C!custodyVars
<1>1. CASE UNCHANGED intent
  BY <1>1, RecordStep DEF MoneyOf, C!Next
<1>2. ASSUME NEW b \in Bookings,
             \/ intent[b] = "none" /\ intent' = [intent EXCEPT ![b] = "open"]
             \/ intent[b] = "open" /\ intent' = [intent EXCEPT ![b] = "canceled"]
      PROVE  C!Next
  <2>1. \A a \in Bookings : MoneyOf(a)' = MoneyOf(a)
    BY <1>2 DEF MoneyOf, TypeInv, TypeOK
  <2> QED BY <2>1, RecordStep DEF C!Next
<1>3. ASSUME NEW b \in Bookings, UNCHANGED <<booking, payment>>,
             intent[b] = "open", intent' = [intent EXCEPT ![b] = "succeeded"]
      PROVE  C!Next
  <2>1. C!Capture(b)
    BY <1>3 DEF C!Capture, MoneyOf, BooksOf, TypeInv, TypeOK
  <2> QED BY <2>1 DEF C!Next
<1>4. ASSUME NEW b \in Bookings, UNCHANGED <<booking, payment>>,
             intent[b] = "succeeded", intent' = [intent EXCEPT ![b] = "refunded"]
      PROVE  C!Next
  <2>1. C!GiveBack(b)
    BY <1>4 DEF C!GiveBack, MoneyOf, BooksOf, TypeInv, TypeOK
  <2> QED BY <2>1 DEF C!Next
<1> QED BY <1>1, <1>2, <1>3, <1>4, IntentStep

\* For any number of bookings and of overlapping requests, the rides, bookings,
\* payments and webhooks implement Custody: money is taken once, returned once,
\* and the database never says more than what has happened to it.
THEOREM BookingsKeepCustody == Spec => KeepsCustody
<1>1. TypeInv /\ SafeInv /\ TypeInv' /\ SafeInv' /\ [Next]_vars => [C!Next]_C!custodyVars
  BY CustodyStep
<1> QED BY <1>1, CustodyInit, InvCorrect, PTL DEF Spec, KeepsCustody, C!Spec

-----------------------------------------------------------------------------
(* What holds when HTTP requests do not overlap, of lifecycles and money   *)
(* (BookingsSerial.tla).                                                   *)
(*                                                                         *)
(* The argument is that of a single handler: what it has read is still so  *)
(* when it commits (HandlersFit).  Stripe writes no row, and the insert    *)
(* and the delete of a ride, which need no handler here, touch only rides  *)
(* without bookings.                                                       *)

\* At most one handler is in flight.
OneAtATime == \A g, h \in Handlers : g = h

\* The bookings of r the cancellation still had to refund have been, but for todo.
Refunded(r, todo) ==
  \A b \in BookingsOf(r) \ todo :
    booking[b].status = "CONFIRMED" /\ NeedsRefund(booking[b]) => intent[b] = "refunded"

\* What the handler of q still knows of the rows it will write.
Fits(q) ==
  /\ q.pc = "confirm" =>
       /\ booking[q.b].status = "pending"
       /\ ride[RideOf[q.b]].status = "open" /\ q.seen.status = "open"
  /\ q.pc = "reject" => booking[q.b].status = "pending"
  /\ q.pc \in {"refund", "cancel"} => booking[q.b].status \in Active
  /\ q.pc = "cancel" => (booking[q.b].pay = "paid" => intent[q.b] = "refunded")
  /\ q.pc \in {"retrieve", "createIntent", "record", "reuse"} =>
       booking[q.b].status \in Payable
  /\ q.pc = "hook" => q.was = booking[q.b]
  /\ q.pc \in {"startCheck", "start"} => ride[q.r].status \in {"open", "deleted"}
  /\ q.pc \in {"completeCheck", "complete"} => ride[q.r].status \in {"ongoing", "deleted"}
  /\ q.pc \in {"start", "complete"} => UnpaidBlocking(q.r) = {}
  /\ q.pc \in {"cancelRead", "rideRefunds"} =>
       ride[q.r].status \in {"open", "ongoing", "deleted"}
  /\ q.pc = "rideRefunds" => Refunded(q.r, q.todo)

HandlersFit == \A h \in Handlers : Fits(req[h])

\* The webhook's word for paid is the only one written in a Booking row.
NoSucceeded == \A b \in Bookings : booking[b].pay # "succeeded"

LifeInv == PaidIsConfirmed /\ NoSucceeded /\ HandlersFit

\* The steps of TerminalStays, RideLifecycle, RefundBeforeCancel and RidesRunPaid.
TerminalStep ==
  \A b \in Bookings :
    booking[b].status \in Terminal => booking'[b].status = booking[b].status

LifecycleStep ==
  \A r \in Rides :
    LET now == ride[r].status
        next == ride'[r].status IN
    next # now =>
      CASE next = "open"      -> now = "none"
        [] next = "ongoing"   -> now = "open"
        [] next = "completed" -> now = "ongoing"
        [] next = "cancelled" -> now \in {"open", "ongoing"}
        [] next = "deleted"   -> BookingsOf(r) = {}

RefundFirst ==
  \A b \in Bookings :
    booking[b].pay = "paid" /\ booking[b].status \in Active
      /\ booking'[b].status \in CancelledBy
    => intent[b] = "refunded"

PaidRun ==
  \A r \in Rides :
    ride'[r].status # ride[r].status /\ ride'[r].status \in {"ongoing", "completed"}
    => \A b \in BookingsOf(r) :
         \/ booking[b].status \in {"pending"} \cup Terminal
         \/ /\ booking[b].status = "CONFIRMED" /\ booking[b].pay = "paid"
            /\ ride'[r].status = "completed" => booking'[b].status = "completed"

LifeStep == TerminalStep /\ LifecycleStep /\ RefundFirst /\ PaidRun

SameRideStatus == \A r \in Rides : ride'[r].status = ride[r].status

-----------------------------------------------------------------------------
\* The only handler goes on to q, which fits the rows as they are then.
LEMMA TaskFits ==
  ASSUME OneAtATime, TypeInv, NEW h \in Handlers, NEW q, req' = [req EXCEPT ![h] = q], Fits(q)'
  PROVE  HandlersFit'
<1>1. ASSUME NEW g \in Handlers PROVE Fits(req[g])'
  <2>1. req'[g] = q
    BY DEF OneAtATime, TypeInv, TypeOK
  <2> QED BY <2>1 DEF Fits, Refunded
<1> QED BY <1>1 DEF HandlersFit

\* A handler that has returned knows nothing.
LEMMA ReturnFits ==
  ASSUME OneAtATime, TypeInv, NEW h \in Handlers, Return(h)
  PROVE  HandlersFit'
<1>1. Fits(Idle)'
  BY DEF Fits, Idle
<1> QED BY <1>1, TaskFits DEF Return

\* A step that changes neither a booking nor the status of a ride.
LEMMA QuietStep ==
  ASSUME LifeInv, HandlersFit', UNCHANGED booking, SameRideStatus
  PROVE  LifeInv' /\ LifeStep
<1>1. LifeInv'
  BY DEF LifeInv, PaidIsConfirmed, NoSucceeded
<1>2. TerminalStep /\ LifecycleStep /\ RefundFirst /\ PaidRun
  BY DEF TerminalStep, LifecycleStep, RefundFirst, PaidRun, SameRideStatus, Active,
     CancelledBy
<1> QED BY <1>1, <1>2 DEF LifeStep

\* A handler that has read the rows it now knows as q.
LEMMA ReadFits ==
  ASSUME OneAtATime, TypeInv, LifeInv, NEW h \in Handlers, NEW q,
         req' = [req EXCEPT ![h] = q], Fits(q), UNCHANGED <<ride, booking, intent>>
  PROVE  LifeInv' /\ LifeStep
<1>1. Fits(q)'
  BY DEF Fits, Refunded, UnpaidBlocking, BookingsOf, NeedsRefund
<1>2. SameRideStatus
  BY DEF SameRideStatus
<1> QED BY <1>1, <1>2, TaskFits, QuietStep

\* The one row b of bookings is written, and the handler returns.
LEMMA BookingWrite ==
  ASSUME OneAtATime, TypeInv, LifeInv, SameRideStatus, NEW h \in Handlers, Return(h),
         NEW b \in Bookings, \A c \in Bookings \ {b} : booking'[c] = booking[c],
         booking[b].status \in Terminal => booking'[b].status = booking[b].status,
         booking'[b].pay = "paid" => booking'[b].status \in {"CONFIRMED"} \cup Terminal,
         booking'[b].pay # "succeeded",
         booking[b].pay = "paid" /\ booking[b].status \in Active
           /\ booking'[b].status \in CancelledBy => intent[b] = "refunded"
  PROVE  LifeInv' /\ LifeStep
<1>1. HandlersFit'
  BY ReturnFits
<1>2. PaidIsConfirmed' /\ NoSucceeded'
  BY DEF LifeInv, PaidIsConfirmed, NoSucceeded
<1>3. TerminalStep
  BY DEF TerminalStep
<1>4. RefundFirst
  BY DEF RefundFirst, Active, CancelledBy
<1>5. LifecycleStep /\ PaidRun
  BY DEF LifecycleStep, PaidRun, SameRideStatus
<1> QED BY <1>1, <1>2, <1>3, <1>4, <1>5 DEF LifeInv, LifeStep

-----------------------------------------------------------------------------
\* What every step of a handler may use.
LEMMA AtHand ==
  ASSUME TypeInv, LifeInv, NEW h \in Handlers
  PROVE  req[h] \in Requests /\ Fits(req[h])
BY DEF TypeInv, TypeOK, LifeInv, HandlersFit

LEMMA RideReadsLife ==
  ASSUME OneAtATime, TypeInv, LifeInv, NEW h \in Handlers,
         \/ \E r \in Rides, n \in UpdateTotals : UpdateRide(h, r, n)
         \/ \E r \in Rides : StartRide(h, r) \/ CompleteRide(h, r) \/ CancelRide(h, r)
         \/ CheckPaidToStart(h) \/ CheckPaidToComplete(h) \/ ReadBookingsToRefund(h)
  PROVE  LifeInv' /\ LifeStep
<1>1. ASSUME NEW r \in Rides, NEW n \in UpdateTotals, UpdateRide(h, r, n)
      PROVE  LifeInv' /\ LifeStep
  <2> DEFINE q == [pc |-> "update", r |-> r, total |-> n, seen |-> ride[r]]
  <2>1. req' = [req EXCEPT ![h] = q] /\ Fits(q) /\ UNCHANGED <<ride, booking, intent>>
    BY <1>1 DEF UpdateRide, Begin, Fits
  <2> QED BY <2>1, ReadFits
<1>2. ASSUME NEW r \in Rides, StartRide(h, r)
      PROVE  LifeInv' /\ LifeStep
  <2> DEFINE q == [pc |-> "startCheck", r |-> r]
  <2>1. req' = [req EXCEPT ![h] = q] /\ Fits(q) /\ UNCHANGED <<ride, booking, intent>>
    BY <1>2 DEF StartRide, Begin, Fits
  <2> QED BY <2>1, ReadFits
<1>3. ASSUME NEW r \in Rides, CompleteRide(h, r)
      PROVE  LifeInv' /\ LifeStep
  <2> DEFINE q == [pc |-> "completeCheck", r |-> r]
  <2>1. req' = [req EXCEPT ![h] = q] /\ Fits(q) /\ UNCHANGED <<ride, booking, intent>>
    BY <1>3 DEF CompleteRide, Begin, Fits
  <2> QED BY <2>1, ReadFits
<1>4. ASSUME NEW r \in Rides, CancelRide(h, r)
      PROVE  LifeInv' /\ LifeStep
  <2> DEFINE q == [pc |-> "cancelRead", r |-> r]
  <2>1. req' = [req EXCEPT ![h] = q] /\ Fits(q) /\ UNCHANGED <<ride, booking, intent>>
    BY <1>4 DEF CancelRide, Begin, Fits
  <2> QED BY <2>1, ReadFits
<1>5. ASSUME CheckPaidToStart(h) \/ CheckPaidToComplete(h)
      PROVE  LifeInv' /\ LifeStep
  <2>1. req[h] \in RideRequest
    BY <1>5, AtHand, RequestKinds DEF CheckPaidToStart, CheckPaidToComplete, At
  <2>2. PICK pc \in {"start", "complete"} :
          /\ Go(h, pc) /\ UnpaidBlocking(req[h].r) = {}
          /\ pc = "start" => req[h].pc = "startCheck"
          /\ pc = "complete" => req[h].pc = "completeCheck"
    BY <1>5 DEF CheckPaidToStart, CheckPaidToComplete, At
  <2>3. PICK q : q = [req[h] EXCEPT !.pc = pc]
    OBVIOUS
  <2>4. q.pc = pc /\ q.r = req[h].r
    BY <2>1, <2>3 DEF RideRequest
  <2>5. Fits(q)
    BY <2>2, <2>4, AtHand DEF Fits
  <2>6. req' = [req EXCEPT ![h] = q] /\ UNCHANGED <<ride, booking, intent>>
    BY <1>5, <2>2, <2>3 DEF CheckPaidToStart, CheckPaidToComplete, Go
  <2> QED BY <2>5, <2>6, ReadFits
<1>6. ASSUME ReadBookingsToRefund(h)
      PROVE  LifeInv' /\ LifeStep
  <2>1. PICK q : q = [pc |-> "rideRefunds", r |-> req[h].r, todo |-> ToRefund(req[h].r)]
    OBVIOUS
  <2>2. Refunded(q.r, q.todo)
    BY <2>1 DEF Refunded, ToRefund
  <2>3. Fits(q)
    BY <1>6, <2>1, <2>2, AtHand DEF ReadBookingsToRefund, At, Fits
  <2>4. req' = [req EXCEPT ![h] = q] /\ UNCHANGED <<ride, booking, intent>>
    BY <1>6, <2>1 DEF ReadBookingsToRefund
  <2> QED BY <2>3, <2>4, ReadFits
<1> QED BY <1>1, <1>2, <1>3, <1>4, <1>5, <1>6

\* Stripe refunds an intent, or had refunded it: nothing else changes.
LEMMA RefundMade ==
  ASSUME TypeInv, SafeInv, NEW b \in Bookings, RefundAtStripe(b)
  PROVE  /\ intent'[b] = "refunded"
         /\ \A c \in Bookings : intent[c] = "refunded" => intent'[c] = "refunded"
BY DEF RefundAtStripe, SafeInv, BooksFollowStripe, TypeInv, TypeOK

LEMMA RefundsLife ==
  ASSUME OneAtATime, TypeInv, SafeInv, LifeInv, NEW h \in Handlers,
         (\E b \in Bookings : RefundOne(h, b)) \/ RefundBooking(h)
  PROVE  LifeInv' /\ LifeStep
<1>1. ASSUME NEW b \in Bookings, RefundOne(h, b)
      PROVE  LifeInv' /\ LifeStep
  <2>1. req[h] \in RefundsRequest /\ req[h].pc = "rideRefunds"
    BY <1>1, AtHand, RequestKinds DEF RefundOne, At
  <2>2. PICK q : q = [req[h] EXCEPT !.todo = @ \ {b}]
    OBVIOUS
  <2>3. q.pc = "rideRefunds" /\ q.r = req[h].r /\ q.todo = req[h].todo \ {b}
    BY <2>1, <2>2 DEF RefundsRequest
  <2>4. req' = [req EXCEPT ![h] = q] /\ UNCHANGED <<ride, booking>>
    BY <1>1, <2>2 DEF RefundOne
  <2>5. Refunded(q.r, q.todo)'
    <3>1. Refunded(req[h].r, req[h].todo)
      BY <2>1, AtHand DEF Fits
    <3>2. /\ intent'[b] = "refunded"
          /\ \A c \in Bookings : intent[c] = "refunded" => intent'[c] = "refunded"
      BY <1>1, RefundMade DEF RefundOne
    <3> QED BY <2>3, <2>4, <3>1, <3>2 DEF Refunded, BookingsOf, NeedsRefund
  <2>6. Fits(q)'
    BY <2>1, <2>3, <2>4, <2>5, AtHand DEF Fits
  <2> QED BY <2>4, <2>6, TaskFits, QuietStep DEF SameRideStatus
<1>2. ASSUME RefundBooking(h)
      PROVE  LifeInv' /\ LifeStep
  <2>1. req[h] \in CancelRequest /\ req[h].pc = "refund"
    BY <1>2, AtHand, RequestKinds DEF RefundBooking, At
  <2>2. PICK q : q = [req[h] EXCEPT !.pc = "cancel"]
    OBVIOUS
  <2>3. q.pc = "cancel" /\ q.b = req[h].b /\ q.b \in Bookings
    BY <2>1, <2>2 DEF CancelRequest
  <2>4. req' = [req EXCEPT ![h] = q] /\ UNCHANGED <<ride, booking>>
    BY <1>2, <2>2 DEF RefundBooking, Go
  <2>5. intent'[q.b] = "refunded" /\ booking[q.b].status \in Active
    BY <1>2, <2>1, <2>3, RefundMade, AtHand DEF RefundBooking, Fits
  <2>6. Fits(q)'
    BY <2>3, <2>4, <2>5 DEF Fits
  <2> QED BY <2>4, <2>6, TaskFits, QuietStep DEF SameRideStatus
<1> QED BY <1>1, <1>2

\* A ride starts: what the check saw of its bookings is still so.
LEMMA StartLife ==
  ASSUME OneAtATime, TypeInv, LifeInv, NEW h \in Handlers, CommitStartRide(h)
  PROVE  LifeInv' /\ LifeStep
<1>1. req[h] \in RideRequest /\ req[h].pc = "start" /\ req[h].r \in Rides
  BY AtHand, RequestKinds DEF CommitStartRide, At, RideRequest
<1>2. PICK r \in Rides : r = req[h].r
  BY <1>1
<1>3. ride[r].status = "open" /\ UnpaidBlocking(r) = {}
  BY <1>1, <1>2, AtHand DEF Fits, CommitStartRide, Exists
<1>4. /\ ride'[r].status = "ongoing" /\ \A p \in Rides \ {r} : ride'[p] = ride[p]
      /\ UNCHANGED booking /\ Return(h)
  BY <1>2 DEF CommitStartRide, TypeInv, TypeOK, RideRow
<1>5. LifeInv'
  BY <1>4, ReturnFits DEF LifeInv, PaidIsConfirmed, NoSucceeded
<1>6. TerminalStep /\ RefundFirst
  BY <1>4 DEF TerminalStep, RefundFirst, Active, CancelledBy
<1>7. LifecycleStep
  BY <1>3, <1>4 DEF LifecycleStep
<1>8. PaidRun
  <2>1. ASSUME NEW b \in BookingsOf(r)
        PROVE  \/ booking[b].status \in {"pending"} \cup Terminal
               \/ booking[b].status = "CONFIRMED" /\ booking[b].pay = "paid"
    BY <1>3, <2>1 DEF BookingsOf, UnpaidBlocking, LifeInv, NoSucceeded, AlreadyPaid,
       TypeInv, TypeOK, BookingRow, BookingStatus, Terminal
  <2> QED BY <1>4, <2>1 DEF PaidRun
<1> QED BY <1>5, <1>6, <1>7, <1>8 DEF LifeStep

\* A ride completes, and its confirmed and paid bookings with it.
LEMMA CompleteLife ==
  ASSUME OneAtATime, TypeInv, LifeInv, NEW h \in Handlers, CommitCompleteRide(h)
  PROVE  LifeInv' /\ LifeStep
<1>1. req[h] \in RideRequest /\ req[h].pc = "complete" /\ req[h].r \in Rides
  BY AtHand, RequestKinds DEF CommitCompleteRide, At, RideRequest
<1>2. PICK r \in Rides : r = req[h].r
  BY <1>1
<1>3. ride[r].status = "ongoing" /\ UnpaidBlocking(r) = {}
  BY <1>1, <1>2, AtHand DEF Fits, CommitCompleteRide, Exists
<1>4. /\ ride'[r].status = "completed" /\ \A p \in Rides \ {r} : ride'[p] = ride[p]
      /\ Return(h)
  BY <1>2 DEF CommitCompleteRide, TypeInv, TypeOK, RideRow
<1>5. \A b \in Bookings :
        IF RideOf[b] = r /\ booking[b].status = "CONFIRMED"
        THEN booking'[b] = [booking[b] EXCEPT !.status = "completed"]
        ELSE booking'[b] = booking[b]
  BY <1>2 DEF CommitCompleteRide
<1>6. \A b \in Bookings :
        /\ booking'[b].pay = booking[b].pay
        /\ booking'[b].status = IF RideOf[b] = r /\ booking[b].status = "CONFIRMED"
                                THEN "completed" ELSE booking[b].status
  <2> SUFFICES ASSUME NEW b \in Bookings
               PROVE  /\ booking'[b].pay = booking[b].pay
                      /\ booking'[b].status =
                           IF RideOf[b] = r /\ booking[b].status = "CONFIRMED"
                           THEN "completed" ELSE booking[b].status
    OBVIOUS
  <2>1. booking[b] \in BookingRow
    BY DEF TypeInv, TypeOK
  <2>2. CASE RideOf[b] = r /\ booking[b].status = "CONFIRMED"
    <3>1. booking'[b] = [booking[b] EXCEPT !.status = "completed"]
      BY <1>5, <2>2
    <3> QED BY <2>1, <2>2, <3>1, SetStatus
  <2>3. CASE ~(RideOf[b] = r /\ booking[b].status = "CONFIRMED")
    BY <1>5, <2>3
  <2> QED BY <2>2, <2>3
<1>7. LifeInv'
  BY <1>4, <1>6, ReturnFits DEF LifeInv, PaidIsConfirmed, NoSucceeded, Terminal
<1>8. TerminalStep /\ RefundFirst
  BY <1>6 DEF TerminalStep, RefundFirst, Active, CancelledBy, Terminal
<1>9. LifecycleStep
  BY <1>3, <1>4 DEF LifecycleStep
<1>10. PaidRun
  <2>1. ASSUME NEW b \in BookingsOf(r)
        PROVE  \/ booking[b].status \in {"pending"} \cup Terminal
               \/ /\ booking[b].status = "CONFIRMED" /\ booking[b].pay = "paid"
                  /\ booking'[b].status = "completed"
    BY <1>3, <1>6, <2>1 DEF BookingsOf, UnpaidBlocking, LifeInv, NoSucceeded, AlreadyPaid,
       TypeInv, TypeOK, BookingRow, BookingStatus, Terminal
  <2> QED BY <1>4, <2>1 DEF PaidRun
<1> QED BY <1>7, <1>8, <1>9, <1>10 DEF LifeStep

\* A ride is cancelled, and its active bookings with it: the paid ones among
\* them were all CONFIRMED, and have been refunded.
LEMMA CancelRideLife ==
  ASSUME OneAtATime, TypeInv, LifeInv, NEW h \in Handlers, CommitCancelRide(h)
  PROVE  LifeInv' /\ LifeStep
<1>1. req[h] \in RefundsRequest /\ req[h].pc = "rideRefunds" /\ req[h].r \in Rides
  BY AtHand, RequestKinds DEF CommitCancelRide, At, RefundsRequest
<1>2. PICK r \in Rides : r = req[h].r
  BY <1>1
<1>3. ride[r].status \in {"open", "ongoing"} /\ Refunded(r, {})
  BY <1>1, <1>2, AtHand DEF Fits, CommitCancelRide, Exists
<1>4. /\ ride'[r].status = "cancelled" /\ \A p \in Rides \ {r} : ride'[p] = ride[p]
      /\ Return(h)
  BY <1>2 DEF CommitCancelRide, TypeInv, TypeOK, RideRow
<1>5. \A b \in Bookings :
        IF RideOf[b] = r /\ booking[b].status \in Active
        THEN booking'[b] = [booking[b] EXCEPT !.status = "cancelled_by_driver"]
        ELSE booking'[b] = booking[b]
  BY <1>2 DEF CommitCancelRide
<1>6. \A b \in Bookings :
        /\ booking'[b].pay = booking[b].pay
        /\ booking'[b].status = IF RideOf[b] = r /\ booking[b].status \in Active
                                THEN "cancelled_by_driver" ELSE booking[b].status
  <2> SUFFICES ASSUME NEW b \in Bookings
               PROVE  /\ booking'[b].pay = booking[b].pay
                      /\ booking'[b].status =
                           IF RideOf[b] = r /\ booking[b].status \in Active
                           THEN "cancelled_by_driver" ELSE booking[b].status
    OBVIOUS
  <2>1. booking[b] \in BookingRow
    BY DEF TypeInv, TypeOK
  <2>2. CASE RideOf[b] = r /\ booking[b].status \in Active
    <3>1. booking'[b] = [booking[b] EXCEPT !.status = "cancelled_by_driver"]
      BY <1>5, <2>2
    <3> QED BY <2>1, <2>2, <3>1, SetStatus
  <2>3. CASE ~(RideOf[b] = r /\ booking[b].status \in Active)
    BY <1>5, <2>3
  <2> QED BY <2>2, <2>3
<1>7. LifeInv'
  BY <1>4, <1>6, ReturnFits DEF LifeInv, PaidIsConfirmed, NoSucceeded, Terminal
<1>8. TerminalStep
  BY <1>6 DEF TerminalStep, Active, Terminal
<1>9. RefundFirst
  <2>1. ASSUME NEW b \in Bookings, booking[b].pay = "paid", booking[b].status \in Active,
               booking'[b].status \in CancelledBy
        PROVE  intent[b] = "refunded"
    <3>1. RideOf[b] = r
      BY <1>6, <2>1 DEF Active, CancelledBy
    <3>2. booking[b].status = "CONFIRMED"
      BY <2>1 DEF LifeInv, PaidIsConfirmed, Active, Terminal
    <3> QED BY <1>3, <2>1, <3>1, <3>2 DEF Refunded, BookingsOf, NeedsRefund, AlreadyPaid
  <2> QED BY <2>1 DEF RefundFirst
<1>10. LifecycleStep
  BY <1>3, <1>4 DEF LifecycleStep
<1>11. PaidRun
  BY <1>4 DEF PaidRun
<1> QED BY <1>7, <1>8, <1>9, <1>10, <1>11 DEF LifeStep

\* PATCH /rides/:id changes seats, not the status.
LEMMA UpdateLife ==
  ASSUME OneAtATime, TypeInv, LifeInv, NEW h \in Handlers, CommitUpdateRide(h)
  PROVE  LifeInv' /\ LifeStep
<1>1. SameRideStatus
  BY DEF CommitUpdateRide, SameRideStatus, TypeInv, TypeOK, RideRow
<1> QED BY <1>1, ReturnFits, QuietStep DEF CommitUpdateRide

LEMMA RideStepsLife ==
  ASSUME OneAtATime, TypeInv, SafeInv, LifeInv, NEW h \in Handlers, RideSteps(h)
  PROVE  LifeInv' /\ LifeStep
BY RideReadsLife, RefundsLife, StartLife, CompleteLife, CancelRideLife, UpdateLife
   DEF RideSteps

-----------------------------------------------------------------------------
LEMMA BookingReadsLife ==
  ASSUME OneAtATime, TypeInv, LifeInv, NEW h \in Handlers,
         \/ \E b \in Bookings : CreateBooking(h, b) \/ ConfirmBooking(h, b)
                                  \/ RejectBooking(h, b) \/ CreatePaymentIntent(h, b)
         \/ \E b \in Bookings, by \in CancelledBy : CancelBooking(h, b, by)
         \/ \E e \in Events : ReceiveEvent(h, e)
  PROVE  LifeInv' /\ LifeStep
<1>1. ASSUME NEW b \in Bookings, CreateBooking(h, b)
      PROVE  LifeInv' /\ LifeStep
  <2> DEFINE q == [pc |-> "book", b |-> b]
  <2>1. req' = [req EXCEPT ![h] = q] /\ Fits(q) /\ UNCHANGED <<ride, booking, intent>>
    BY <1>1 DEF CreateBooking, Begin, Fits
  <2> QED BY <2>1, ReadFits
<1>2. ASSUME NEW b \in Bookings, ConfirmBooking(h, b)
      PROVE  LifeInv' /\ LifeStep
  <2> DEFINE q == [pc |-> "confirm", b |-> b, seen |-> ride[RideOf[b]]]
  <2>1. req' = [req EXCEPT ![h] = q] /\ Fits(q) /\ UNCHANGED <<ride, booking, intent>>
    BY <1>2 DEF ConfirmBooking, Begin, Fits
  <2> QED BY <2>1, ReadFits
<1>3. ASSUME NEW b \in Bookings, RejectBooking(h, b)
      PROVE  LifeInv' /\ LifeStep
  <2> DEFINE q == [pc |-> "reject", b |-> b]
  <2>1. req' = [req EXCEPT ![h] = q] /\ Fits(q) /\ UNCHANGED <<ride, booking, intent>>
    BY <1>3 DEF RejectBooking, Begin, Fits
  <2> QED BY <2>1, ReadFits
<1>4. ASSUME NEW b \in Bookings, CreatePaymentIntent(h, b)
      PROVE  LifeInv' /\ LifeStep
  <2> DEFINE q == [pc |-> IF booking[b].intent THEN "retrieve" ELSE "createIntent", b |-> b]
  <2>1. req' = [req EXCEPT ![h] = q] /\ Fits(q) /\ UNCHANGED <<ride, booking, intent>>
    BY <1>4 DEF CreatePaymentIntent, Begin, Fits
  <2> QED BY <2>1, ReadFits
<1>5. ASSUME NEW b \in Bookings, NEW by \in CancelledBy, CancelBooking(h, b, by)
      PROVE  LifeInv' /\ LifeStep
  <2> DEFINE q == [pc |-> IF NeedsRefund(booking[b]) THEN "refund" ELSE "cancel",
                   b |-> b, by |-> by, restore |-> booking[b].status \in Holding,
                   seen |-> ride[RideOf[b]]]
  <2>1. req' = [req EXCEPT ![h] = q] /\ Fits(q) /\ UNCHANGED <<ride, booking, intent>>
    BY <1>5 DEF CancelBooking, Begin, Fits, NeedsRefund, AlreadyPaid
  <2> QED BY <2>1, ReadFits
<1>6. ASSUME NEW e \in Events, ReceiveEvent(h, e)
      PROVE  LifeInv' /\ LifeStep
  <2> DEFINE q == [pc |-> "hook", b |-> e.b, kind |-> e.kind,
                   wasPayment |-> payment[e.b], was |-> booking[e.b]]
  <2>1. req' = [req EXCEPT ![h] = q] /\ Fits(q) /\ UNCHANGED <<ride, booking, intent>>
    BY <1>6 DEF ReceiveEvent, Begin, Fits
  <2> QED BY <2>1, ReadFits
<1> QED BY <1>1, <1>2, <1>3, <1>4, <1>5, <1>6

LEMMA BookingCommitsLife ==
  ASSUME OneAtATime, TypeInv, LifeInv, NEW h \in Handlers,
         \/ CommitCreateBooking(h) \/ CommitConfirmBooking(h)
         \/ CommitRejectBooking(h) \/ CommitCancelBooking(h)
  PROVE  LifeInv' /\ LifeStep
<1> DEFINE q == req[h]
<1>q. q \in Requests /\ Fits(q)
  BY AtHand
<1>1. PICK b \in Bookings : b = q.b
  <2>1. q \in BookingRequest \cup ConfirmRequest \cup CancelRequest
    BY <1>q, RequestKinds DEF CommitCreateBooking, CommitConfirmBooking,
       CommitRejectBooking, CommitCancelBooking, At
  <2> QED BY <2>1 DEF BookingRequest, ConfirmRequest, CancelRequest
<1>2. PICK s : /\ booking' = [booking EXCEPT ![b].status = s]
               /\ booking[b].status \notin Terminal
               /\ booking[b].status # "CONFIRMED" \/ s \in CancelledBy
               /\ booking[b].pay = "paid" => intent[b] = "refunded"
  <2>1. CASE CommitCreateBooking(h)
    BY <1>1, <2>1 DEF CommitCreateBooking, Terminal, LifeInv, PaidIsConfirmed
  <2>2. CASE CommitConfirmBooking(h)
    BY <1>1, <1>q, <2>2 DEF CommitConfirmBooking, At, Fits, Terminal, LifeInv, PaidIsConfirmed
  <2>3. CASE CommitRejectBooking(h)
    BY <1>1, <1>q, <2>3 DEF CommitRejectBooking, At, Fits, Terminal, LifeInv, PaidIsConfirmed
  <2>4. CASE CommitCancelBooking(h)
    <3>1. q \in CancelRequest
      BY <1>q, <2>4, RequestKinds DEF CommitCancelBooking, At
    <3> QED BY <1>1, <1>q, <2>4, <3>1
            DEF CommitCancelBooking, At, Fits, Active, Terminal, CancelRequest
  <2> QED BY <2>1, <2>2, <2>3, <2>4
<1>3. /\ booking'[b].status = s /\ booking'[b].pay = booking[b].pay
      /\ \A c \in Bookings \ {b} : booking'[c] = booking[c]
  BY <1>2 DEF TypeInv, TypeOK, BookingRow
<1>4. SameRideStatus
  <2>1. CASE CommitConfirmBooking(h)
    BY <1>q, <2>1 DEF CommitConfirmBooking, At, Fits, SameRideStatus, TypeInv, TypeOK, RideRow
  <2>2. CASE CommitCancelBooking(h)
    BY <2>2 DEF CommitCancelBooking, SameRideStatus, TypeInv, TypeOK, RideRow
  <2> QED BY <2>1, <2>2 DEF CommitCreateBooking, CommitRejectBooking, SameRideStatus
<1>5. Return(h)
  BY DEF CommitCreateBooking, CommitConfirmBooking, CommitRejectBooking, CommitCancelBooking
<1>6. booking[b].pay = "paid" => s \in Terminal
  BY <1>2 DEF LifeInv, PaidIsConfirmed, CancelledBy, Terminal
<1>7. booking[b].pay # "succeeded"
  BY DEF LifeInv, NoSucceeded
<1> QED BY <1>2, <1>3, <1>4, <1>5, <1>6, <1>7, BookingWrite

LEMMA IntentStepsLife ==
  ASSUME OneAtATime, TypeInv, LifeInv, NEW h \in Handlers,
         \/ RetrieveIntent(h) \/ ReuseIntent(h) \/ ReuseIntentFails(h)
         \/ CreateIntentAtStripe(h) \/ RecordIntent(h)
  PROVE  LifeInv' /\ LifeStep
<1> DEFINE q == req[h]
<1>q. /\ q \in BookingRequest \cup ReuseRequest
      /\ q.pc \in {"retrieve", "createIntent", "record", "reuse"} /\ Fits(q)
  BY AtHand, RequestKinds DEF RetrieveIntent, ReuseIntent, ReuseIntentFails,
     CreateIntentAtStripe, RecordIntent, At
<1>1. PICK b \in Bookings : b = q.b
  BY <1>q DEF BookingRequest, ReuseRequest
<1>2. booking[b].status \in Payable
  BY <1>1, <1>q DEF Fits
<1>3. CASE RetrieveIntent(h) \/ ReuseIntentFails(h) \/ CreateIntentAtStripe(h)
  <2>1. PICK t : /\ req' = [req EXCEPT ![h] = t]
                 /\ t.pc \in {"createIntent", "record", "reuse"} /\ t.b = b
    <3>1. CASE \E stripe : req' = [req EXCEPT ![h] = [pc |-> "reuse", b |-> b, stripe |-> stripe]]
      <4>1. PICK stripe : req' = [req EXCEPT ![h] = [pc |-> "reuse", b |-> b, stripe |-> stripe]]
        BY <3>1
      <4> DEFINE t == [pc |-> "reuse", b |-> b, stripe |-> stripe]
      <4>2. t.pc = "reuse" /\ t.b = b
        OBVIOUS
      <4> QED BY <4>1, <4>2
    <3>2. CASE req' = [req EXCEPT ![h] = [pc |-> "createIntent", b |-> b]]
      <4> DEFINE t == [pc |-> "createIntent", b |-> b]
      <4>1. t.pc = "createIntent" /\ t.b = b
        OBVIOUS
      <4> QED BY <3>2, <4>1
    <3>3. CASE \E pc \in {"createIntent", "record"} : q \in BookingRequest /\ Go(h, pc)
      <4>1. PICK pc \in {"createIntent", "record"} : q \in BookingRequest /\ Go(h, pc)
        BY <3>3
      <4> DEFINE t == [q EXCEPT !.pc = pc]
      <4>2. t.pc = pc /\ t.b = b
        BY <1>1, <4>1 DEF BookingRequest
      <4> QED BY <4>1, <4>2 DEF Go
    <3>4. RetrieveIntent(h) \/ CreateIntentAtStripe(h) => q \in BookingRequest
      BY <1>q DEF RetrieveIntent, CreateIntentAtStripe, At, ReuseRequest
    <3> QED BY <1>1, <1>3, <3>1, <3>2, <3>3, <3>4
            DEF RetrieveIntent, ReuseIntentFails, CreateIntentAtStripe
  <2>2. UNCHANGED <<ride, booking>>
    BY <1>3 DEF RetrieveIntent, ReuseIntentFails, CreateIntentAtStripe
  <2>3. Fits(t)'
    BY <1>2, <2>1, <2>2 DEF Fits
  <2> QED BY <2>1, <2>2, <2>3, TaskFits, QuietStep DEF SameRideStatus
<1>4. CASE ReuseIntent(h) \/ RecordIntent(h)
  <2>1. UNCHANGED booking \/ AwaitPayment(b)
    BY <1>1, <1>4 DEF ReuseIntent, RecordIntent
  <2>2. Return(h) /\ SameRideStatus
    BY <1>4 DEF ReuseIntent, RecordIntent, SameRideStatus
  <2>3. CASE UNCHANGED booking
    BY <2>2, <2>3, ReturnFits, QuietStep
  <2>4. CASE AwaitPayment(b)
    <3>1. /\ booking'[b] = [status |-> "PAYMENT_PENDING", pay |-> "pending", intent |-> TRUE]
          /\ \A c \in Bookings \ {b} : booking'[c] = booking[c]
      BY <2>4 DEF AwaitPayment, TypeInv, TypeOK
    <3> QED BY <1>2, <2>2, <3>1, BookingWrite DEF Payable, Terminal, CancelledBy
  <2> QED BY <2>1, <2>3, <2>4
<1> QED BY <1>3, <1>4

\* The webhook moves a booking by the row it read, which is still the row.
LEMMA ApplyEventLife ==
  ASSUME OneAtATime, TypeInv, LifeInv, NEW h \in Handlers, ApplyEvent(h)
  PROVE  LifeInv' /\ LifeStep
<1> DEFINE q == req[h]
<1>q. q \in HookRequest /\ q.pc = "hook" /\ Fits(q)
  BY AtHand, RequestKinds DEF ApplyEvent, At
<1>1. PICK b \in Bookings : b = q.b
  BY <1>q DEF HookRequest
<1>2. PICK kind \in EventKinds : kind = q.kind
  BY <1>q DEF HookRequest
<1>3. q.was = booking[b] /\ booking[b] \in BookingRow
  BY <1>1, <1>q DEF Fits, TypeInv, TypeOK
<1>4. /\ \A c \in Bookings \ {b} : booking'[c] = booking[c]
      /\ Return(h) /\ SameRideStatus
  BY <1>1 DEF ApplyEvent, SameRideStatus, TypeInv, TypeOK
<1>5. \/ booking'[b] = booking[b]
      \/ /\ booking'[b].pay = BookingPayOf(kind)
         /\ booking'[b].status = IF kind # "refunded" /\ booking[b].status \notin Terminal
                                 THEN BookingStatusOf(kind) ELSE booking[b].status
  BY <1>1, <1>2, <1>3 DEF ApplyEvent, CanSetStatus, TypeInv, TypeOK, BookingRow
<1>6. /\ BookingPayOf(kind) # "succeeded"
      /\ BookingPayOf(kind) = "paid" => kind = "succeeded"
      /\ kind # "refunded" => BookingStatusOf(kind) \in {"CONFIRMED", "ACCEPTED"}
      /\ kind = "succeeded" => BookingStatusOf(kind) = "CONFIRMED"
  BY DEF BookingPayOf, BookingStatusOf, EventKinds
<1>7. booking[b].pay # "succeeded"
      /\ (booking[b].pay = "paid" => booking[b].status \in {"CONFIRMED"} \cup Terminal)
  BY DEF LifeInv, NoSucceeded, PaidIsConfirmed
<1>8. booking[b].status \in Terminal => booking'[b].status = booking[b].status
  BY <1>5
<1>9. booking'[b].pay = "paid" => booking'[b].status \in {"CONFIRMED"} \cup Terminal
  BY <1>5, <1>6, <1>7
<1>10. booking'[b].pay # "succeeded"
  BY <1>5, <1>6, <1>7
<1>11. ~(booking[b].status \in Active /\ booking'[b].status \in CancelledBy)
  BY <1>5, <1>6 DEF Active, CancelledBy
<1> QED BY <1>4, <1>8, <1>9, <1>10, <1>11, BookingWrite

-----------------------------------------------------------------------------
\* A ride is created, or deleted while it has no booking.
LEMMA RideRowsLife ==
  ASSUME TypeInv, LifeInv,
         \/ \E r \in Rides, n \in SeatTotals : CreateRide(r, n)
         \/ \E r \in Rides : DeleteRide(r)
  PROVE  LifeInv' /\ LifeStep
<1>1. PICK r \in Rides :
        /\ \A p \in Rides \ {r} : ride'[p] = ride[p]
        /\ \/ ride[r].status = "none" /\ ride'[r].status = "open"
           \/ BookingsOf(r) = {} /\ ride'[r].status = "deleted"
        /\ UNCHANGED <<booking, intent, req>>
  BY DEF CreateRide, DeleteRide, TypeInv, TypeOK, RideRow
<1>2. ASSUME NEW h \in Handlers PROVE Fits(req[h])'
  <2>1. req'[h] = req[h] /\ req[h] \in Requests /\ Fits(req[h])
    BY <1>1, AtHand
  <2>2. req[h].pc = "confirm" => req[h].b \in Bookings
    BY <2>1, RequestKinds DEF ConfirmRequest
  <2>3. \A p \in Rides : p # r \/ ride[p].status = "none" \/ BookingsOf(p) = {}
    BY <1>1
  <2>4. req[h].pc = "confirm" => RideOf[req[h].b] \in Rides \ {r}
    <3> SUFFICES ASSUME req[h].pc = "confirm"
                 PROVE  RideOf[req[h].b] \in Rides \ {r}
      OBVIOUS
    <3>1. /\ booking[req[h].b].status = "pending"
          /\ ride[RideOf[req[h].b]].status = "open"
      BY <2>1 DEF Fits
    <3>2. req[h].b \in BookingsOf(RideOf[req[h].b])
      BY <2>2, <3>1 DEF BookingsOf
    <3> QED BY <1>1, <2>2, <3>1, <3>2, ParamsAssumption
  <2>5. req[h].pc \in {"startCheck", "start", "completeCheck", "complete", "cancelRead",
                       "rideRefunds"} => req[h].r \in Rides
    BY <2>1, RequestKinds DEF RideRequest, RefundsRequest
  <2>6. req[h].pc \in {"startCheck", "start", "completeCheck", "complete", "cancelRead",
                       "rideRefunds"} /\ req[h].r = r => ride'[r].status = "deleted"
    BY <1>1, <2>1 DEF Fits
  <2>7. UnpaidBlocking(req[h].r)' = UnpaidBlocking(req[h].r)
    BY <1>1, <2>1 DEF UnpaidBlocking, BookingsOf
  <2>8. Refunded(req[h].r, req[h].todo) => Refunded(req[h].r, req[h].todo)'
    BY <1>1, <2>1 DEF Refunded, BookingsOf, NeedsRefund
  <2> QED BY <1>1, <2>1, <2>4, <2>5, <2>6, <2>7, <2>8 DEF Fits
<1>3. LifeInv'
  BY <1>1, <1>2 DEF LifeInv, HandlersFit, PaidIsConfirmed, NoSucceeded
<1>4. TerminalStep /\ RefundFirst
  BY <1>1 DEF TerminalStep, RefundFirst, Active, CancelledBy
<1>5. LifecycleStep /\ PaidRun
  BY <1>1 DEF LifecycleStep, PaidRun
<1> QED BY <1>3, <1>4, <1>5 DEF LifeStep

LEMMA LifeInit == Init => LifeInv
BY DEF Init, LifeInv, PaidIsConfirmed, NoSucceeded, HandlersFit, Fits, Idle

LEMMA LifeInvStep ==
  ASSUME OneAtATime, TypeInv, SafeInv, LifeInv, [Next]_vars
  PROVE  LifeInv' /\ LifeStep
<1>1. ASSUME NEW h \in Handlers, HandlerStep(h)
      PROVE  LifeInv' /\ LifeStep
  <2>1. CASE BookingSteps(h)
    BY <2>1, BookingReadsLife, BookingCommitsLife, RefundsLife DEF BookingSteps
  <2>2. CASE PaymentSteps(h)
    BY <2>2, BookingReadsLife, IntentStepsLife, ApplyEventLife DEF PaymentSteps
  <2>3. CASE Fail(h)
    BY <2>3, ReturnFits, QuietStep DEF Fail, SameRideStatus
  <2> QED BY <1>1, <2>1, <2>2, <2>3, RideStepsLife DEF HandlerStep
<1>2. ASSUME (\E b \in Bookings : StripeStep(b)) \/ UNCHANGED vars
      PROVE  LifeInv' /\ LifeStep
  <2>1. /\ UNCHANGED <<ride, booking, req>>
        /\ \A b \in Bookings : intent[b] = "refunded" => intent'[b] = "refunded"
    BY <1>2 DEF StripeStep, StripePaymentSucceeds, StripePaymentFails,
       StripeIntentCanceled, vars, TypeInv, TypeOK
  <2>2. ASSUME NEW h \in Handlers PROVE Fits(req[h])'
    <3>1. req'[h] = req[h] /\ req[h] \in Requests /\ Fits(req[h])
      BY <2>1, AtHand
    <3>2. req[h].pc = "cancel" => req[h].b \in Bookings
      BY <3>1, RequestKinds DEF CancelRequest
    <3>3. UnpaidBlocking(req[h].r)' = UnpaidBlocking(req[h].r)
      BY <2>1, <3>1 DEF UnpaidBlocking, BookingsOf
    <3>4. Refunded(req[h].r, req[h].todo) => Refunded(req[h].r, req[h].todo)'
      BY <2>1, <3>1 DEF Refunded, BookingsOf, NeedsRefund
    <3> QED BY <2>1, <3>1, <3>2, <3>3, <3>4 DEF Fits
  <2> QED BY <2>1, <2>2, QuietStep DEF HandlersFit, SameRideStatus
<1> QED BY <1>1, <1>2, RideRowsLife DEF Next

LEMMA LifeCorrect == ASSUME OneAtATime PROVE Spec => [](TypeInv /\ SafeInv /\ LifeInv)
<1>1. TypeInv /\ SafeInv /\ LifeInv /\ [Next]_vars => LifeInv'
  BY LifeInvStep
<1> QED BY <1>1, InvCorrect, LifeInit, PTL DEF Spec

\* The step formulas hold of every step, when requests do not overlap.
LEMMA StepsCorrect == ASSUME OneAtATime PROVE Spec => [][LifeStep]_vars
<1>1. TypeInv /\ SafeInv /\ LifeInv /\ [Next]_vars => [LifeStep]_vars
  BY LifeInvStep
<1> QED BY <1>1, LifeCorrect, PTL DEF Spec

\* A booking the database knows as paid is confirmed or over, for any number of
\* rides and bookings, when requests do not overlap: every place that looks for
\* money to refund finds it.
THEOREM PaidIsConfirmedCorrect == ASSUME OneAtATime PROVE Spec => []PaidIsConfirmed
<1>1. LifeInv => PaidIsConfirmed
  BY DEF LifeInv
<1> QED BY <1>1, LifeCorrect, PTL

\* A cancelled or completed booking stays so, when requests do not overlap,
\* whatever the webhooks still to come say.
THEOREM TerminalStaysCorrect == ASSUME OneAtATime PROVE Spec => TerminalStays
<1>1. LifeStep => TerminalStep
  BY DEF LifeStep
<1> QED BY <1>1, StepsCorrect, PTL DEF TerminalStays, TerminalStep

\* A ride only goes forward, from open to ongoing to completed or to cancelled,
\* when requests do not overlap.
THEOREM RideLifecycleCorrect == ASSUME OneAtATime PROVE Spec => RideLifecycle
<1>1. LifeStep => LifecycleStep
  BY DEF LifeStep
<1> QED BY <1>1, StepsCorrect, PTL DEF RideLifecycle, LifecycleStep

\* A paid booking is cancelled, alone or with its ride, only after Stripe has
\* refunded it, when requests do not overlap.
THEOREM RefundBeforeCancelCorrect == ASSUME OneAtATime PROVE Spec => RefundBeforeCancel
<1>1. LifeStep => RefundFirst
  BY DEF LifeStep
<1> QED BY <1>1, StepsCorrect, PTL DEF RefundBeforeCancel, RefundFirst

\* A ride starts and completes only with paid and confirmed bookings, and
\* completes all of them, when requests do not overlap.
THEOREM RidesRunPaidCorrect == ASSUME OneAtATime PROVE Spec => RidesRunPaid
<1>1. LifeStep => PaidRun
  BY DEF LifeStep
<1> QED BY <1>1, StepsCorrect, PTL DEF RidesRunPaid, PaidRun

-----------------------------------------------------------------------------
(* The seat accounts (SeatsStayBalanced).  A handler that will write seats *)
(* still knows the very row it computes them from; a webhook, that its     *)
(* booking was accepted before it could be paid.  A ride that nobody ever  *)
(* booked is full of free seats, unless its total is negative, so that     *)
(* deleting it, even cancelled, does not bring back an account that does   *)
(* not balance.                                                            *)

Knows(q) ==
  /\ q.pc \in {"confirm", "refund", "cancel"} => q.seen = ride[RideOf[q.b]]
  /\ q.pc \in {"refund", "cancel"} => (q.restore <=> booking[q.b].status \in Holding)
  /\ q.pc = "update" =>
       /\ ride[q.r].status # "none"
       /\ q.seen.total = ride[q.r].total /\ q.seen.avail = ride[q.r].avail
  /\ q.pc = "hook" => booking[q.b].status \notin {"none", "pending"}

HandlersKnow == \A h \in Handlers : Knows(req[h])

RowsInv ==
  /\ \A b \in Bookings : booking[b].status # "none" => Exists(RideOf[b])
  /\ \A b \in Bookings : payment[b] # "none" => booking[b].status \notin {"none", "pending"}
  /\ \A r \in Rides : BookingsOf(r) = {} => ride[r].avail = MaxOf(0, ride[r].total)

SeatInv == HandlersKnow /\ RowsInv

\* The step of SeatsStayBalanced.
SeatStep ==
  \A r \in Rides : Balanced(r) /\ Taken(r)' <= ride'[r].total => Balanced(r)'

TakenStatus == Holding \cup {"completed"}

LEMMA TakenType ==
  ASSUME IsFiniteSet(Bookings), NEW r \in Rides
  PROVE  IsFiniteSet(TakenBy(r)) /\ Taken(r) \in Nat
<1>1. TakenBy(r) \subseteq Bookings
  BY DEF TakenBy, BookingsOf
<1>2. IsFiniteSet(TakenBy(r))
  BY <1>1, FS_Subset
<1>3. \A b \in TakenBy(r) : SeatsOf[b] \in Nat
  BY <1>1, ParamsAssumption
<1> QED BY <1>2, <1>3, SumType DEF Taken

\* The account of r is not touched, nor is a booking of r that holds seats.
LEMMA AccountUntouched ==
  ASSUME NEW r \in Rides, UNCHANGED <<ride[r].avail, ride[r].total>>,
         ride[r].status = "cancelled" => ride'[r].status = "cancelled",
         \A b \in Bookings : RideOf[b] = r =>
           (booking'[b].status \in TakenStatus <=> booking[b].status \in TakenStatus)
  PROVE  Balanced(r) => Balanced(r)'
<1>1. TakenBy(r)' = TakenBy(r)
  BY DEF TakenBy, BookingsOf, TakenStatus, Holding
<1> QED BY <1>1 DEF Balanced, Taken

\* No booking appears, nor a payment of one that is not accepted.
LEMMA RowsKept ==
  ASSUME RowsInv,
         \A b \in Bookings : booking'[b].status = "none" <=> booking[b].status = "none",
         \A r \in Rides : Exists(r) => Exists(r)',
         \A b \in Bookings : payment'[b] # "none" => booking'[b].status \notin {"none", "pending"},
         \A r \in Rides : BookingsOf(r) = {} => ride'[r].avail = MaxOf(0, ride'[r].total)
  PROVE  RowsInv'
<1>1. \A b \in Bookings : booking'[b].status # "none" => Exists(RideOf[b])'
  BY ParamsAssumption DEF RowsInv
<1>2. \A r \in Rides : BookingsOf(r)' = BookingsOf(r)
  BY DEF BookingsOf
<1> QED BY <1>1, <1>2 DEF RowsInv

\* The only handler goes on to q.
LEMMA TaskKnows ==
  ASSUME OneAtATime, TypeInv, NEW h \in Handlers, NEW q, req' = [req EXCEPT ![h] = q],
         Knows(q)'
  PROVE  HandlersKnow'
<1>1. ASSUME NEW g \in Handlers PROVE Knows(req[g])'
  <2>1. req'[g] = q
    BY DEF OneAtATime, TypeInv, TypeOK
  <2> QED BY <2>1 DEF Knows
<1> QED BY <1>1 DEF HandlersKnow

LEMMA ReturnKnows ==
  ASSUME OneAtATime, TypeInv, NEW h \in Handlers, Return(h)
  PROVE  HandlersKnow'
<1>1. Knows(Idle)'
  BY DEF Knows, Idle
<1> QED BY <1>1, TaskKnows DEF Return

\* A step that writes no row of the database.
LEMMA NoRowWritten ==
  ASSUME SeatInv, HandlersKnow', UNCHANGED <<ride, booking, payment>>
  PROVE  SeatInv' /\ SeatStep
<1>1. RowsInv'
  BY DEF SeatInv, RowsInv, Exists, BookingsOf
<1>2. \A r \in Rides : Balanced(r) => Balanced(r)'
  BY DEF Balanced, Taken, TakenBy, BookingsOf
<1> QED BY <1>1, <1>2 DEF SeatInv, SeatStep

LEMMA ReadKnows ==
  ASSUME OneAtATime, TypeInv, SeatInv, NEW h \in Handlers, NEW q,
         req' = [req EXCEPT ![h] = q], Knows(q), UNCHANGED <<ride, booking, payment>>
  PROVE  SeatInv' /\ SeatStep
<1>1. Knows(q)'
  BY DEF Knows
<1> QED BY <1>1, TaskKnows, NoRowWritten

\* What every step of a handler may use.
LEMMA KnownAtHand ==
  ASSUME TypeInv, SeatInv, NEW h \in Handlers
  PROVE  req[h] \in Requests /\ Knows(req[h])
BY DEF TypeInv, TypeOK, SeatInv, HandlersKnow

\* The stages of which nothing need be known.
Unaware == {"book", "reject", "retrieve", "createIntent", "record", "reuse", "startCheck",
            "start", "completeCheck", "complete", "cancelRead", "rideRefunds"}

LEMMA BeginningsSeats ==
  ASSUME OneAtATime, TypeInv, SeatInv, NEW h \in Handlers,
         \/ \E r \in Rides, n \in UpdateTotals : UpdateRide(h, r, n)
         \/ \E r \in Rides : StartRide(h, r) \/ CompleteRide(h, r) \/ CancelRide(h, r)
         \/ \E b \in Bookings : CreateBooking(h, b) \/ ConfirmBooking(h, b)
                                  \/ RejectBooking(h, b) \/ CreatePaymentIntent(h, b)
         \/ \E b \in Bookings, by \in CancelledBy : CancelBooking(h, b, by)
         \/ \E e \in Events : ReceiveEvent(h, e)
  PROVE  SeatInv' /\ SeatStep
<1>0. UNCHANGED <<ride, booking, payment>>
  BY DEF UpdateRide, StartRide, CompleteRide, CancelRide, CreateBooking, ConfirmBooking,
     RejectBooking, CreatePaymentIntent, CancelBooking, ReceiveEvent
<1>1. PICK q : req' = [req EXCEPT ![h] = q] /\ Knows(q)
  <2>1. ASSUME NEW r \in Rides, NEW n \in UpdateTotals, UpdateRide(h, r, n)
        PROVE  \E q : req' = [req EXCEPT ![h] = q] /\ Knows(q)
    <3> DEFINE q == [pc |-> "update", r |-> r, total |-> n, seen |-> ride[r]]
    <3>1. req' = [req EXCEPT ![h] = q] /\ Knows(q)
      BY <2>1 DEF UpdateRide, Begin, Knows, Exists
    <3> QED BY <3>1
  <2>2. ASSUME NEW r \in Rides, NEW pc \in Unaware, Begin(h, [pc |-> pc, r |-> r])
        PROVE  \E q : req' = [req EXCEPT ![h] = q] /\ Knows(q)
    <3>1. Knows([pc |-> pc, r |-> r])
      BY DEF Knows, Unaware
    <3> QED BY <2>2, <3>1 DEF Begin
  <2>3. ASSUME NEW b \in Bookings, NEW pc \in Unaware, Begin(h, [pc |-> pc, b |-> b])
        PROVE  \E q : req' = [req EXCEPT ![h] = q] /\ Knows(q)
    <3>1. Knows([pc |-> pc, b |-> b])
      BY DEF Knows, Unaware
    <3> QED BY <2>3, <3>1 DEF Begin
  <2>4. ASSUME NEW b \in Bookings, ConfirmBooking(h, b)
        PROVE  \E q : req' = [req EXCEPT ![h] = q] /\ Knows(q)
    <3> DEFINE q == [pc |-> "confirm", b |-> b, seen |-> ride[RideOf[b]]]
    <3>1. req' = [req EXCEPT ![h] = q] /\ Knows(q)
      BY <2>4 DEF ConfirmBooking, Begin, Knows
    <3> QED BY <3>1
  <2>5. ASSUME NEW b \in Bookings, NEW by \in CancelledBy, CancelBooking(h, b, by)
        PROVE  \E q : req' = [req EXCEPT ![h] = q] /\ Knows(q)
    <3> DEFINE q == [pc |-> IF NeedsRefund(booking[b]) THEN "refund" ELSE "cancel",
                     b |-> b, by |-> by, restore |-> booking[b].status \in Holding,
                     seen |-> ride[RideOf[b]]]
    <3>1. req' = [req EXCEPT ![h] = q] /\ Knows(q)
      BY <2>5 DEF CancelBooking, Begin, Knows
    <3> QED BY <3>1
  <2>6. ASSUME NEW e \in Events, ReceiveEvent(h, e)
        PROVE  \E q : req' = [req EXCEPT ![h] = q] /\ Knows(q)
    <3> DEFINE q == [pc |-> "hook", b |-> e.b, kind |-> e.kind,
                     wasPayment |-> payment[e.b], was |-> booking[e.b]]
    <3>1. booking[e.b].status \notin {"none", "pending"}
      BY <2>6 DEF ReceiveEvent, SeatInv, RowsInv, Events
    <3>2. req' = [req EXCEPT ![h] = q] /\ Knows(q)
      BY <2>6, <3>1 DEF ReceiveEvent, Begin, Knows
    <3> QED BY <3>2
  <2>7. ASSUME NEW r \in Rides, StartRide(h, r) \/ CompleteRide(h, r) \/ CancelRide(h, r)
        PROVE  \E pc \in Unaware : Begin(h, [pc |-> pc, r |-> r])
    BY <2>7 DEF StartRide, CompleteRide, CancelRide, Unaware
  <2>8. ASSUME NEW b \in Bookings,
               CreateBooking(h, b) \/ RejectBooking(h, b) \/ CreatePaymentIntent(h, b)
        PROVE  \E pc \in Unaware : Begin(h, [pc |-> pc, b |-> b])
    BY <2>8 DEF CreateBooking, RejectBooking, CreatePaymentIntent, Unaware
  <2> QED BY <2>1, <2>2, <2>3, <2>4, <2>5, <2>6, <2>7, <2>8
<1> QED BY <1>0, <1>1, ReadKnows

\* The steps of a handler in the middle: reads, and calls of Stripe.
LEMMA MiddlesSeats ==
  ASSUME OneAtATime, TypeInv, SeatInv, NEW h \in Handlers,
         \/ CheckPaidToStart(h) \/ CheckPaidToComplete(h) \/ ReadBookingsToRefund(h)
         \/ \E b \in Bookings : RefundOne(h, b)
         \/ RefundBooking(h) \/ RetrieveIntent(h) \/ ReuseIntentFails(h)
         \/ CreateIntentAtStripe(h) \/ Fail(h)
  PROVE  SeatInv' /\ SeatStep
<1>0. UNCHANGED <<ride, booking, payment>>
  BY DEF CheckPaidToStart, CheckPaidToComplete, ReadBookingsToRefund, RefundOne,
     RefundBooking, RetrieveIntent, ReuseIntentFails, CreateIntentAtStripe, Fail
<1>q. req[h] \in Requests /\ Knows(req[h])
  BY KnownAtHand
<1>1. PICK q : req' = [req EXCEPT ![h] = q] /\ Knows(q)
  <2>1. CASE RefundBooking(h)
    <3> DEFINE q == [req[h] EXCEPT !.pc = "cancel"]
    <3>1. req[h] \in CancelRequest /\ req[h].pc = "refund"
      BY <1>q, <2>1, RequestKinds DEF RefundBooking, At
    <3>2. q.pc = "cancel" /\ q.b = req[h].b /\ q.restore = req[h].restore /\ q.seen = req[h].seen
      BY <3>1 DEF CancelRequest
    <3>3. Knows(q)
      <4> HIDE DEF q
      <4> QED BY <1>q, <3>1, <3>2 DEF Knows
    <3> QED BY <2>1, <3>3 DEF RefundBooking, Go
  <2>2. ASSUME NEW pc \in Unaware,
               Go(h, pc), req[h] \in BookingRequest \cup RideRequest
        PROVE  \E q : req' = [req EXCEPT ![h] = q] /\ Knows(q)
    <3> DEFINE q == [req[h] EXCEPT !.pc = pc]
    <3>1. q.pc = pc
      BY <2>2 DEF BookingRequest, RideRequest
    <3>2. Knows(q)
      <4> HIDE DEF q
      <4> QED BY <3>1 DEF Knows, Unaware
    <3> QED BY <2>2, <3>2 DEF Go
  <2>3. CASE CheckPaidToStart(h) \/ CheckPaidToComplete(h) \/ CreateIntentAtStripe(h)
    <3>1. req[h] \in BookingRequest \cup RideRequest
      BY <1>q, <2>3, RequestKinds DEF CheckPaidToStart, CheckPaidToComplete,
         CreateIntentAtStripe, At
    <3>2. \E pc \in Unaware : Go(h, pc)
      BY <2>3 DEF CheckPaidToStart, CheckPaidToComplete, CreateIntentAtStripe, Unaware
    <3> QED BY <2>2, <3>1, <3>2
  <2>4. CASE ReadBookingsToRefund(h)
    <3> DEFINE q == [pc |-> "rideRefunds", r |-> req[h].r, todo |-> ToRefund(req[h].r)]
    <3>1. Knows(q)
      BY DEF Knows
    <3> QED BY <2>4, <3>1 DEF ReadBookingsToRefund
  <2>5. ASSUME NEW b \in Bookings, RefundOne(h, b)
        PROVE  \E q : req' = [req EXCEPT ![h] = q] /\ Knows(q)
    <3> DEFINE q == [req[h] EXCEPT !.todo = @ \ {b}]
    <3>1. req[h] \in RefundsRequest
      BY <1>q, <2>5, RequestKinds DEF RefundOne, At
    <3>2. q.pc = "rideRefunds"
      BY <3>1 DEF RefundsRequest
    <3>3. Knows(q)
      <4> HIDE DEF q
      <4> QED BY <3>2 DEF Knows
    <3> QED BY <2>5, <3>3 DEF RefundOne
  <2>6. ASSUME NEW stripe, req' = [req EXCEPT ![h] = [pc |-> "reuse", b |-> req[h].b, stripe |-> stripe]]
        PROVE  \E q : req' = [req EXCEPT ![h] = q] /\ Knows(q)
    <3> DEFINE q == [pc |-> "reuse", b |-> req[h].b, stripe |-> stripe]
    <3>1. Knows(q)
      BY DEF Knows
    <3> QED BY <2>6, <3>1
  <2>7. CASE RetrieveIntent(h)
    <3>1. req[h] \in BookingRequest
      BY <1>q, <2>7, RequestKinds DEF RetrieveIntent, At
    <3>2. CASE Go(h, "createIntent")
      <4>1. "createIntent" \in Unaware
        BY DEF Unaware
      <4> QED BY <2>2, <3>1, <3>2, <4>1
    <3> QED BY <2>6, <2>7, <3>2 DEF RetrieveIntent
  <2>8. CASE ReuseIntentFails(h)
    <3> DEFINE q == [pc |-> "createIntent", b |-> req[h].b]
    <3>1. Knows(q)
      BY DEF Knows
    <3> QED BY <2>8, <3>1 DEF ReuseIntentFails
  <2>9. CASE Fail(h)
    <3>1. Knows(Idle)
      BY DEF Knows, Idle
    <3> QED BY <2>9, <3>1 DEF Fail, Return
  <2> QED BY <2>1, <2>3, <2>4, <2>5, <2>7, <2>8, <2>9
<1> QED BY <1>0, <1>1, ReadKnows

-----------------------------------------------------------------------------
\* A new seatsTotal leaves the seats taken to the bookings, and the rest free.
LEMMA UpdateRideSeats ==
  ASSUME OneAtATime, TypeInv, SeatInv, IsFiniteSet(Bookings), NEW h \in Handlers,
         CommitUpdateRide(h)
  PROVE  SeatInv' /\ SeatStep
<1> DEFINE q == req[h]
<1>q. q \in UpdateRequest /\ Knows(q) /\ q.pc = "update"
  BY KnownAtHand, RequestKinds DEF CommitUpdateRide, At
<1>1. PICK r \in Rides, n \in Int : r = q.r /\ n = q.total
  BY <1>q, ParamsAssumption DEF UpdateRequest
<1>2. PICK seen \in RideRow : seen = q.seen
  BY <1>q DEF UpdateRequest
<1>3. seen.total = ride[r].total /\ seen.avail = ride[r].avail /\ ride[r] \in RideRow
  BY <1>q, <1>1, <1>2 DEF Knows, TypeInv, TypeOK
<1>4. /\ ride'[r].total = n /\ ride'[r].avail = NewAvail(seen, n)
      /\ ride'[r].status = ride[r].status
      /\ \A p \in Rides \ {r} : ride'[p] = ride[p]
      /\ UNCHANGED <<booking, payment>> /\ Return(h)
  BY <1>1, <1>2 DEF CommitUpdateRide, TypeInv, TypeOK, RideRow
<1>5. /\ ride[r].avail \in Int /\ ride[r].total \in Int
      /\ NewAvail(seen, n) = MaxOf(0, MinOf(ride[r].avail + (n - ride[r].total), n))
  BY <1>3, SeatCountKinds DEF NewAvail, RideRow
<1>6. ASSUME ride[r].avail = MaxOf(0, ride[r].total)
      PROVE  ride'[r].avail = MaxOf(0, ride'[r].total)
  BY <1>4, <1>5, <1>6 DEF MaxOf, MinOf
<1>7. RowsInv'
  BY <1>4, <1>6, RowsKept DEF SeatInv, RowsInv, Exists, BookingsOf
<1>8. \A p \in Rides : Taken(p)' = Taken(p) /\ Taken(p) \in Nat
  BY <1>4, TakenType DEF Taken, TakenBy, BookingsOf
<1>9. ASSUME Balanced(r), Taken(r)' <= ride'[r].total PROVE Balanced(r)'
  BY <1>4, <1>5, <1>8, <1>9 DEF Balanced, MaxOf, MinOf
<1>10. ASSUME NEW p \in Rides \ {r}, Balanced(p) PROVE Balanced(p)'
  BY <1>4, <1>8, <1>10 DEF Balanced
<1>11. SeatStep
  BY <1>9, <1>10 DEF SeatStep
<1> QED BY <1>4, <1>7, <1>11, ReturnKnows DEF SeatInv

\* The status of a ride moves on.
LEMMA RideCommitsSeats ==
  ASSUME OneAtATime, TypeInv, LifeInv, SeatInv, NEW h \in Handlers,
         CommitStartRide(h) \/ CommitCompleteRide(h) \/ CommitCancelRide(h)
  PROVE  SeatInv' /\ SeatStep
<1> DEFINE q == req[h]
<1>q. q \in RideRequest \cup RefundsRequest /\ Fits(q)
  BY KnownAtHand, AtHand, RequestKinds
     DEF CommitStartRide, CommitCompleteRide, CommitCancelRide, At
<1>1. PICK r \in Rides : r = q.r
  BY <1>q DEF RideRequest, RefundsRequest
<1>2. PICK s \in {"ongoing", "completed", "cancelled"} :
        /\ ride' = [ride EXCEPT ![r].status = s] /\ Exists(r)
        /\ s # "cancelled" => ride[r].status # "cancelled"
  BY <1>q, <1>1 DEF CommitStartRide, CommitCompleteRide, CommitCancelRide, At, Fits, Exists
<1>3. /\ ride'[r].status = s
      /\ \A p \in Rides : UNCHANGED <<ride[p].avail, ride[p].total>>
      /\ \A p \in Rides \ {r} : ride'[p] = ride[p]
      /\ \A p \in Rides : Exists(p) => Exists(p)'
  BY <1>2 DEF TypeInv, TypeOK, RideRow, Exists
<1>4. /\ \A b \in Bookings : \/ booking'[b] = booking[b]
                            \/ /\ RideOf[b] = r /\ booking[b].status \in Active
                               /\ booking'[b].status = "cancelled_by_driver" /\ s = "cancelled"
                            \/ /\ booking[b].status = "CONFIRMED"
                               /\ booking'[b].status = "completed"
      /\ UNCHANGED payment /\ Return(h)
  <2>1. CASE CommitStartRide(h)
    BY <2>1 DEF CommitStartRide
  <2>2. CASE CommitCompleteRide(h)
    BY <1>1, <2>2 DEF CommitCompleteRide, TypeInv, TypeOK, BookingRow
  <2>3. CASE CommitCancelRide(h)
    <3>1. s = "cancelled"
      BY <1>1, <1>3, <2>3 DEF CommitCancelRide, TypeInv, TypeOK, RideRow
    <3> QED BY <1>1, <2>3, <3>1 DEF CommitCancelRide, TypeInv, TypeOK, BookingRow
  <2> QED BY <2>1, <2>2, <2>3
<1>5. RowsInv'
  <2>1. \A b \in Bookings :
          /\ booking'[b].status = "none" <=> booking[b].status = "none"
          /\ payment'[b] # "none" => booking'[b].status \notin {"none", "pending"}
    BY <1>4 DEF SeatInv, RowsInv, Active
  <2>2. \A p \in Rides : BookingsOf(p) = {} => ride'[p].avail = MaxOf(0, ride'[p].total)
    BY <1>3 DEF SeatInv, RowsInv
  <2> QED BY <1>3, <2>1, <2>2, RowsKept DEF SeatInv
<1>6. ASSUME NEW p \in Rides, Balanced(p) PROVE Balanced(p)'
  <2>1. CASE p = r /\ s = "cancelled"
    BY <1>3, <2>1 DEF Balanced
  <2>2. CASE p # r \/ s # "cancelled"
    <3>1. \A b \in Bookings : RideOf[b] = p =>
            (booking'[b].status \in TakenStatus <=> booking[b].status \in TakenStatus)
      BY <1>4, <2>2 DEF TakenStatus, Holding
    <3>2. ride[p].status = "cancelled" => ride'[p].status = "cancelled"
      BY <1>2, <1>3, <2>2
    <3> QED BY <1>3, <1>6, <3>1, <3>2, AccountUntouched
  <2> QED BY <2>1, <2>2
<1> QED BY <1>4, <1>5, <1>6, ReturnKnows DEF SeatInv, SeatStep

\* One booking is written, and keeps the seats it holds, or still holds none.
LEMMA BookingCommitSeats ==
  ASSUME OneAtATime, TypeInv, SeatInv, NEW h \in Handlers, Return(h), UNCHANGED ride,
         NEW b \in Bookings, \A c \in Bookings \ {b} : booking'[c] = booking[c],
         booking[b].status # "none" \/ Exists(RideOf[b]),
         booking'[b].status # "none",
         booking'[b].status \in TakenStatus <=> booking[b].status \in TakenStatus,
         payment'[b] # "none" => booking'[b].status \notin {"none", "pending"},
         \A c \in Bookings \ {b} : payment'[c] = payment[c]
  PROVE  SeatInv' /\ SeatStep
<1>1. \A c \in Bookings : booking'[c].status # "none" => Exists(RideOf[c])'
  BY DEF SeatInv, RowsInv, Exists
<1>2. \A c \in Bookings : payment'[c] # "none" => booking'[c].status \notin {"none", "pending"}
  BY DEF SeatInv, RowsInv
<1>3. \A r \in Rides : BookingsOf(r) \subseteq BookingsOf(r)'
  BY DEF BookingsOf
<1>4. RowsInv'
  BY <1>1, <1>2, <1>3 DEF SeatInv, RowsInv
<1>5. ASSUME NEW r \in Rides, Balanced(r) PROVE Balanced(r)'
  BY <1>5, AccountUntouched
<1> QED BY <1>4, <1>5, ReturnKnows DEF SeatInv, SeatStep

LEMMA BookingCommitsSeats ==
  ASSUME OneAtATime, TypeInv, LifeInv, SeatInv, NEW h \in Handlers,
         \/ CommitCreateBooking(h) \/ CommitRejectBooking(h)
         \/ ReuseIntent(h) \/ RecordIntent(h) \/ ApplyEvent(h)
  PROVE  SeatInv' /\ SeatStep
<1> DEFINE q == req[h]
<1>q. /\ q \in BookingRequest \cup ReuseRequest \cup HookRequest
      /\ q.pc = "hook" => q \in HookRequest
      /\ Knows(q) /\ Fits(q)
  BY AtHand, KnownAtHand, RequestKinds
     DEF CommitCreateBooking, CommitRejectBooking, ReuseIntent, RecordIntent, ApplyEvent, At
<1>1. PICK b \in Bookings : b = q.b
  BY <1>q DEF BookingRequest, ReuseRequest, HookRequest
<1>2. /\ Return(h) /\ UNCHANGED ride
      /\ \A c \in Bookings \ {b} : booking'[c] = booking[c]
      /\ \A c \in Bookings \ {b} : payment'[c] = payment[c]
  BY <1>1 DEF CommitCreateBooking, CommitRejectBooking, ReuseIntent, RecordIntent, ApplyEvent,
     AwaitPayment, TypeInv, TypeOK
<1>3. CASE CommitCreateBooking(h)
  <2>1. booking'[b].status = "pending" /\ payment'[b] = payment[b]
        /\ booking[b].status = "none" /\ Exists(RideOf[b])
    BY <1>1, <1>3 DEF CommitCreateBooking, TypeInv, TypeOK, BookingRow
  <2>2. payment[b] = "none"
    BY <2>1 DEF SeatInv, RowsInv
  <2> QED BY <1>2, <2>1, <2>2, BookingCommitSeats DEF TakenStatus, Holding
<1>4. CASE CommitRejectBooking(h)
  <2>1. booking'[b].status = "cancelled_by_driver" /\ booking[b].status = "pending"
    BY <1>1, <1>q, <1>4 DEF CommitRejectBooking, At, Fits, TypeInv, TypeOK, BookingRow
  <2> QED BY <1>2, <2>1, BookingCommitSeats DEF TakenStatus, Holding
<1>5. CASE ReuseIntent(h) \/ RecordIntent(h)
  <2>1. booking[b].status \in Payable
    BY <1>1, <1>q, <1>5 DEF ReuseIntent, RecordIntent, At, Fits
  <2>2. booking'[b] = booking[b] \/ booking'[b].status = "PAYMENT_PENDING"
    BY <1>1, <1>5 DEF ReuseIntent, RecordIntent, AwaitPayment, TypeInv, TypeOK
  <2> QED BY <1>2, <2>1, <2>2, BookingCommitSeats DEF Payable, TakenStatus, Holding
<1>6. CASE ApplyEvent(h)
  <2>1. PICK kind \in EventKinds : kind = q.kind
    BY <1>q, <1>6 DEF ApplyEvent, At, HookRequest
  <2>2. q.was = booking[b] /\ booking[b].status \notin {"none", "pending"}
    BY <1>1, <1>q, <1>6 DEF ApplyEvent, At, Fits, Knows
  <2>3. \/ booking'[b].status = booking[b].status
        \/ /\ booking[b].status \notin Terminal /\ kind # "refunded"
           /\ booking'[b].status = BookingStatusOf(kind)
    BY <1>1, <1>6, <2>1, <2>2 DEF ApplyEvent, CanSetStatus, TypeInv, TypeOK, BookingRow
  <2>4. kind # "refunded" => BookingStatusOf(kind) \in {"CONFIRMED", "ACCEPTED"}
    BY DEF BookingStatusOf, EventKinds
  <2>5. booking[b].status \in BookingStatus
    BY DEF TypeInv, TypeOK, BookingRow
  <2>6. booking[b].status \notin Terminal => booking[b].status \in Holding
    BY <2>2, <2>5 DEF BookingStatus, Terminal, Holding
  <2>7. booking'[b].status \notin {"none", "pending"}
    BY <2>2, <2>3, <2>4
  <2>8. booking'[b].status \in TakenStatus <=> booking[b].status \in TakenStatus
    BY <2>3, <2>4, <2>6 DEF TakenStatus, Holding
  <2> QED BY <1>2, <2>2, <2>7, <2>8, BookingCommitSeats
<1> QED BY <1>3, <1>4, <1>5, <1>6

\* The seats of an accepted booking move from the free ones to the taken ones.
LEMMA ConfirmSeats ==
  ASSUME OneAtATime, TypeInv, LifeInv, SeatInv, IsFiniteSet(Bookings), NEW h \in Handlers,
         CommitConfirmBooking(h)
  PROVE  SeatInv' /\ SeatStep
<1> DEFINE q == req[h]
<1>q. q \in ConfirmRequest /\ Knows(q) /\ Fits(q) /\ q.pc = "confirm"
  BY AtHand, KnownAtHand, RequestKinds DEF CommitConfirmBooking, At
<1>1. PICK b \in Bookings : b = q.b
  BY <1>q DEF ConfirmRequest
<1>2. PICK r \in Rides : r = RideOf[b]
  BY ParamsAssumption
<1>3. q.seen = ride[r] /\ booking[b].status = "pending" /\ ride[r].status = "open"
  BY <1>1, <1>2, <1>q DEF Knows, Fits
<1>4. /\ ride'[r].avail = ride[r].avail - SeatsOf[b] /\ ride'[r].total = ride[r].total
      /\ ride'[r].status = "open" /\ \A p \in Rides \ {r} : ride'[p] = ride[p]
  BY <1>1, <1>2, <1>3 DEF CommitConfirmBooking, TypeInv, TypeOK, RideRow
<1>5. /\ booking'[b].status = "ACCEPTED" /\ \A c \in Bookings \ {b} : booking'[c] = booking[c]
      /\ UNCHANGED payment /\ Return(h)
  BY <1>1 DEF CommitConfirmBooking, TypeInv, TypeOK, BookingRow
<1>6. RowsInv'
  <2>1. \A p \in Rides : Exists(p) => Exists(p)'
    BY <1>4 DEF Exists
  <2>2. b \in BookingsOf(r)
    BY <1>2, <1>3 DEF BookingsOf
  <2>3. \A p \in Rides : BookingsOf(p) = {} => ride'[p].avail = MaxOf(0, ride'[p].total)
    BY <1>4, <2>2 DEF SeatInv, RowsInv
  <2>4. \A c \in Bookings :
          /\ booking'[c].status = "none" <=> booking[c].status = "none"
          /\ payment'[c] # "none" => booking'[c].status \notin {"none", "pending"}
    BY <1>3, <1>5 DEF SeatInv, RowsInv
  <2> QED BY <2>1, <2>3, <2>4, RowsKept DEF SeatInv
<1>7. /\ TakenBy(r)' = TakenBy(r) \cup {b} /\ b \notin TakenBy(r)
      /\ \A c \in TakenBy(r) \cup {b} : SeatsOf[c] \in Nat
  BY <1>2, <1>3, <1>5, ParamsAssumption DEF TakenBy, BookingsOf, Holding
<1>8. Taken(r)' = SeatsOf[b] + Taken(r)
  <2>1. IsFiniteSet(TakenBy(r))
    BY TakenType
  <2> QED BY <1>7, <2>1, SumAdd DEF Taken
<1>9. ASSUME Balanced(r) PROVE Balanced(r)'
  <2>1. Taken(r) \in Nat /\ ride[r].avail \in Int /\ SeatsOf[b] \in Nat
    BY TakenType, ParamsAssumption, SeatCountKinds DEF TypeInv, TypeOK, RideRow
  <2> QED BY <1>3, <1>4, <1>8, <1>9, <2>1 DEF Balanced
<1>10. ASSUME NEW p \in Rides \ {r}, Balanced(p) PROVE Balanced(p)'
  BY <1>2, <1>4, <1>5, <1>10, AccountUntouched
<1> QED BY <1>5, <1>6, <1>9, <1>10, ReturnKnows DEF SeatInv, SeatStep

\* The seats of a cancelled booking, if it held any, are free again.
LEMMA CancelSeats ==
  ASSUME OneAtATime, TypeInv, LifeInv, SeatInv, IsFiniteSet(Bookings), NEW h \in Handlers,
         CommitCancelBooking(h)
  PROVE  SeatInv' /\ SeatStep
<1> DEFINE q == req[h]
<1>q. q \in CancelRequest /\ Knows(q) /\ Fits(q) /\ q.pc = "cancel"
  BY AtHand, KnownAtHand, RequestKinds DEF CommitCancelBooking, At
<1>1. PICK b \in Bookings : b = q.b
  BY <1>q DEF CancelRequest
<1>2. PICK r \in Rides : r = RideOf[b]
  BY ParamsAssumption
<1>3. /\ q.seen = ride[r] /\ booking[b].status \in Active
      /\ q.restore <=> booking[b].status \in Holding
  BY <1>1, <1>2, <1>q DEF Knows, Fits
<1>4. /\ ride'[r].avail = IF q.restore THEN MinOf(ride[r].total, ride[r].avail + SeatsOf[b])
                          ELSE ride[r].avail
      /\ ride'[r].total = ride[r].total /\ ride'[r].status = ride[r].status
      /\ \A p \in Rides \ {r} : ride'[p] = ride[p]
  BY <1>1, <1>2, <1>3 DEF CommitCancelBooking, TypeInv, TypeOK, RideRow
<1>5. /\ booking'[b].status \in CancelledBy /\ \A c \in Bookings \ {b} : booking'[c] = booking[c]
      /\ UNCHANGED payment /\ Return(h)
  BY <1>q, <1>1 DEF CommitCancelBooking, CancelRequest, TypeInv, TypeOK, BookingRow
<1>6. RowsInv'
  <2>1. \A p \in Rides : Exists(p) => Exists(p)'
    BY <1>4 DEF Exists
  <2>2. b \in BookingsOf(r)
    BY <1>2, <1>3 DEF BookingsOf, Active
  <2>3. \A p \in Rides : BookingsOf(p) = {} => ride'[p].avail = MaxOf(0, ride'[p].total)
    BY <1>4, <2>2 DEF SeatInv, RowsInv
  <2>4. \A c \in Bookings :
          /\ booking'[c].status = "none" <=> booking[c].status = "none"
          /\ payment'[c] # "none" => booking'[c].status \notin {"none", "pending"}
    BY <1>3, <1>5 DEF SeatInv, RowsInv, Active, CancelledBy
  <2> QED BY <2>1, <2>3, <2>4, RowsKept DEF SeatInv
<1>7. ASSUME Balanced(r) PROVE Balanced(r)'
  <2>1. CASE ~q.restore
    <3>1. booking[b].status = "pending"
      BY <1>3, <2>1 DEF Active, Holding
    <3> QED BY <1>2, <1>4, <1>5, <1>7, <2>1, <3>1, AccountUntouched
            DEF TakenStatus, Holding, CancelledBy
  <2>2. CASE q.restore
    <3>1. /\ TakenBy(r)' = TakenBy(r) \ {b} /\ b \in TakenBy(r)
          /\ \A c \in TakenBy(r) : SeatsOf[c] \in Nat
      BY <1>2, <1>3, <1>5, <2>2, ParamsAssumption
         DEF TakenBy, BookingsOf, Holding, CancelledBy
    <3>2. Taken(r) = SeatsOf[b] + Taken(r)'
      <4>1. IsFiniteSet(TakenBy(r))
        BY TakenType
      <4> QED BY <3>1, <4>1, SumRemove DEF Taken
    <3>3. Taken(r)' \in Nat
      <4>1. IsFiniteSet(TakenBy(r)')
        BY <3>1, TakenType, FS_Subset
      <4> QED BY <3>1, <4>1, SumType DEF Taken
    <3>4. ride[r].avail \in Int /\ ride[r].total \in Int /\ SeatsOf[b] \in Nat
      BY ParamsAssumption, SeatCountKinds DEF TypeInv, TypeOK, RideRow
    <3> QED BY <1>4, <1>7, <2>2, <3>2, <3>3, <3>4 DEF Balanced, MinOf
  <2> QED BY <2>1, <2>2
<1>8. ASSUME NEW p \in Rides \ {r}, Balanced(p) PROVE Balanced(p)'
  BY <1>2, <1>4, <1>5, <1>8, AccountUntouched
<1> QED BY <1>5, <1>6, <1>7, <1>8, ReturnKnows DEF SeatInv, SeatStep

\* A ride is created with all its seats free, and deleted only if nobody booked it.
LEMMA RideRowsSeats ==
  ASSUME TypeInv, LifeInv, SeatInv,
         \/ \E r \in Rides, n \in SeatTotals : CreateRide(r, n)
         \/ \E r \in Rides : DeleteRide(r)
  PROVE  SeatInv' /\ SeatStep
<1>1. PICK r \in Rides :
        /\ \A p \in Rides \ {r} : ride'[p] = ride[p]
        /\ \/ ride[r].status = "none" /\ ride'[r].avail = MaxOf(0, ride'[r].total)
           \/ UNCHANGED <<ride[r].avail, ride[r].total>> /\ ride[r].status # "none"
              /\ ride'[r].status # "none"
        /\ BookingsOf(r) = {} /\ ride'[r].total \in Int
        /\ UNCHANGED <<booking, payment, req>>
  <2>1. ASSUME NEW r \in Rides, NEW n \in SeatTotals, CreateRide(r, n)
        PROVE  /\ \A p \in Rides \ {r} : ride'[p] = ride[p]
               /\ ride[r].status = "none" /\ ride'[r].avail = n /\ ride'[r].total = n
               /\ BookingsOf(r) = {} /\ n \in Nat
               /\ UNCHANGED <<booking, payment, req>>
    BY <2>1, ParamsAssumption
       DEF CreateRide, TypeInv, TypeOK, SeatInv, RowsInv, BookingsOf, Exists
  <2>2. ASSUME NEW r \in Rides, DeleteRide(r)
        PROVE  /\ \A p \in Rides \ {r} : ride'[p] = ride[p]
               /\ UNCHANGED <<ride[r].avail, ride[r].total>> /\ ride[r].status # "none"
               /\ ride'[r].status # "none" /\ ride'[r].total \in Int
               /\ BookingsOf(r) = {} /\ UNCHANGED <<booking, payment, req>>
    BY <2>2, SeatCountKinds DEF DeleteRide, TypeInv, TypeOK, RideRow, Exists
  <2>3. \A n \in Nat : MaxOf(0, n) = n
    BY DEF MaxOf
  <2> QED BY <2>1, <2>2, <2>3
<1>2. ASSUME NEW h \in Handlers PROVE Knows(req[h])'
  <2>1. req'[h] = req[h] /\ req[h] \in Requests /\ Knows(req[h]) /\ Fits(req[h])
    BY <1>1, AtHand, KnownAtHand
  <2>2. /\ req[h].pc \in {"confirm", "refund", "cancel"} => req[h].b \in Bookings
        /\ req[h].pc = "update" => req[h].r \in Rides
    BY <2>1, RequestKinds DEF ConfirmRequest, CancelRequest, UpdateRequest
  <2>3. ASSUME req[h].pc \in {"confirm", "refund", "cancel"}
        PROVE  RideOf[req[h].b] \in Rides \ {r}
    <3>1. booking[req[h].b].status # "none"
      BY <2>1, <2>3 DEF Fits, Active
    <3> QED BY <1>1, <2>2, <2>3, <3>1, ParamsAssumption DEF BookingsOf
  <2>4. req[h].pc = "update" => Knows(req[h])'
    BY <1>1, <2>1, <2>2 DEF Knows
  <2> QED BY <1>1, <2>1, <2>3, <2>4 DEF Knows
<1>3. ride'[r].avail = MaxOf(0, ride'[r].total)
  BY <1>1 DEF SeatInv, RowsInv
<1>4. \A p \in Rides : BookingsOf(p)' = BookingsOf(p)
  BY <1>1 DEF BookingsOf
<1>5. RowsInv'
  <2>1. \A b \in Bookings : booking[b].status # "none" => RideOf[b] \in Rides \ {r}
    BY <1>1, ParamsAssumption DEF BookingsOf
  <2> QED BY <1>1, <1>3, <1>4, <2>1 DEF SeatInv, RowsInv, Exists
<1>6. ASSUME Taken(r)' <= ride'[r].total PROVE Balanced(r)'
  <2>1. TakenBy(r)' = {}
    BY <1>1, <1>4 DEF TakenBy
  <2>2. Taken(r)' = 0
    BY <2>1, SumEmpty DEF Taken
  <2>3. ride'[r].avail + 0 = ride'[r].total
    BY <1>1, <1>3, <1>6, <2>2 DEF MaxOf
  <2> QED BY <2>2, <2>3 DEF Balanced
<1>7. ASSUME NEW p \in Rides \ {r}, Balanced(p) PROVE Balanced(p)'
  BY <1>1, <1>7, AccountUntouched
<1> QED BY <1>2, <1>5, <1>6, <1>7 DEF SeatInv, HandlersKnow, SeatStep

LEMMA SeatInit == Init => SeatInv
BY ParamsAssumption
   DEF MaxOf, Init, SeatInv, HandlersKnow, Knows, Idle, RowsInv, Exists, BookingsOf

LEMMA SeatInvStep ==
  ASSUME OneAtATime, IsFiniteSet(Bookings), TypeInv, LifeInv, SeatInv, [Next]_vars
  PROVE  SeatInv' /\ SeatStep
<1>1. ASSUME NEW h \in Handlers, HandlerStep(h)
      PROVE  SeatInv' /\ SeatStep
  <2>1. CASE RideSteps(h)
    BY <2>1, BeginningsSeats, MiddlesSeats, UpdateRideSeats, RideCommitsSeats DEF RideSteps
  <2>2. CASE BookingSteps(h)
    BY <2>2, BeginningsSeats, MiddlesSeats, BookingCommitsSeats, ConfirmSeats, CancelSeats
       DEF BookingSteps
  <2>3. CASE PaymentSteps(h)
    BY <2>3, BeginningsSeats, MiddlesSeats, BookingCommitsSeats DEF PaymentSteps
  <2> QED BY <1>1, <2>1, <2>2, <2>3, MiddlesSeats DEF HandlerStep
<1>2. ASSUME (\E b \in Bookings : StripeStep(b)) \/ UNCHANGED vars
      PROVE  SeatInv' /\ SeatStep
  <2>1. UNCHANGED <<ride, booking, payment, req>>
    BY <1>2 DEF StripeStep, StripePaymentSucceeds, StripePaymentFails,
       StripeIntentCanceled, vars
  <2>2. HandlersKnow'
    BY <2>1 DEF SeatInv, HandlersKnow, Knows
  <2> QED BY <2>1, <2>2, NoRowWritten
<1> QED BY <1>1, <1>2, RideRowsSeats DEF Next

\* No operation unbalances a balanced seat account, for any number of rides and
\* bookings, when requests do not overlap: what is free and what the accepted
\* bookings took stay the whole, but for a ride shrunk below the seats taken.
THEOREM SeatsStayBalancedCorrect ==
  ASSUME OneAtATime, IsFiniteSet(Bookings)
  PROVE  Spec => SeatsStayBalanced
<1>1. TypeInv /\ LifeInv /\ SeatInv /\ [Next]_vars => SeatInv'
  BY SeatInvStep
<1>2. TypeInv /\ LifeInv /\ SeatInv /\ [Next]_vars => [SeatStep]_vars
  BY SeatInvStep
<1> QED BY <1>1, <1>2, LifeCorrect, SeatInit, PTL DEF Spec, SeatsStayBalanced, SeatStep
=============================================================================
