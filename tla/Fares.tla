------------------------------- MODULE Fares -------------------------------
(***************************************************************************)
(* What a seat costs and what a passenger is charged: lib/pricing.ts,      *)
(* lib/payments.ts, fixedRoutePrice.controller.ts, the prices in           *)
(* ride.controller.ts and the amounts in payment.controller.ts.            *)
(*                                                                         *)
(* One ride, which its driver creates and edits while an administrator     *)
(* sets fixed prices for its route and passengers ask for PaymentIntents.  *)
(* A handler in flight is an element of Handlers, as in Bookings.          *)
(*                                                                         *)
(* Amounts are cents, distances whole numbers of 1/Units km.  The          *)
(* arithmetic is that of the code on exact numbers; the floating point of  *)
(* JavaScript is left out.  Which bookings may be paid, and what becomes   *)
(* of their intents, is in Bookings.                                       *)
(***************************************************************************)
EXTENDS Integers

CONSTANTS
  Passengers,     \* bookings of the ride, each of one seat or of more
  SeatsBooked,    \* [Passengers -> seats]
  Units,          \* how finely distances are measured
  Kms, SeatsOffered, Bases, FixedPrices,   \* inputs: distances, seats, prices
  BaseFare, PerKm, ServiceFee, TaxBps,     \* PAYMENT_* of the environment
  FeePct,         \* PAYMENT_PLATFORM_FEE_PCT, in percent
  Handlers,
  None

VARIABLES
  fixed,     \* active FixedRoutePrice rows of the route
  ride,      \* the columns of the Ride row that prices depend on
  intent,    \* the PaymentIntent at Stripe for each booking's idempotency key
  payment,   \* the amounts in the Payment row of each booking
  linked,    \* bookings with a stripePaymentIntentId
  req

vars == <<fixed, ride, intent, payment, linked, req>>

-----------------------------------------------------------------------------
(* Pure functions.  Inside SeatPrice, prices are 1/(10 * Units) of a cent. *)

Timings == {"PREBOOKED", "ONTIME", "STANDARD"}

Least(a, b) == IF a <= b THEN a ELSE b
Most(a, b)  == IF a >= b THEN a ELSE b

\* Math.round of a quotient.
Round(a, b) == (2 * a + b) \div (2 * b)

\* The upper cap: distance times $0.30.
Cap(km) == 300 * km

Uplifted(p, timing) == Units * p * (IF timing = "ONTIME" THEN 13 ELSE 10)

AtLeast(p, km, seats) ==
  IF km >= 55 * Units /\ seats <= 2 THEN Most(p, 20000 * Units) ELSE p

\* sameDestination is true or absent in every call.
Ceiling(p, km) == IF km >= 50 * Units THEN Least(p, 15000 * Units) ELSE p

\* The cap is applied before the price is rounded to cents.
SeatPrice(base, km, seats, timing) ==
  Round(Least(Ceiling(AtLeast(Uplifted(base, timing), km, seats), km), Cap(km)),
        10 * Units)

\* calculateBookingFareCents
FareOf(price, km, seats) ==
  LET subtotal == Most(price * seats, BaseFare + Round(km * PerKm, Units)) + ServiceFee IN
  subtotal + Round(subtotal * TaxBps, 10000)

FeeOf(amount) == Round(amount * FeePct, 100)

\* A price in cents that is at most half a cent beyond the cap of a distance: what
\* rounding may add to it.
InCap(price, km) == 10 * Units * price <= Cap(km) + 5 * Units

-----------------------------------------------------------------------------
Ride == [km : Kms, seats : SeatsOffered, price : Nat]

Charge == [amount : Nat, fee : Nat]

\* The parameters of a PaymentIntent that can differ from call to call: its
\* amount, and in its metadata the distance and the price of the seats.
Intent == [amount : Nat, km : Kms, price : Nat]

Idle == [pc |-> "idle"]

\* km, seats and price (None: not in the body) of a PATCH; of a POST all are there.
Edits == [km : Kms \cup {None}, seats : SeatsOffered \cup {None}, price : Nat \cup {None}]

Tasks ==
  {Idle} \cup [pc : {"create", "edit"}, edit : Edits]
         \cup [pc : {"retrieve", "createIntent"}, b : Passengers, params : Intent]
         \cup [pc : {"record"}, b : Passengers, fare : Nat]
         \cup [pc : {"reuse"}, b : Passengers]

TypeOK ==
  /\ fixed \subseteq FixedPrices
  /\ ride \in Ride \cup {None}
  /\ intent \in [Passengers -> Intent \cup {None}]
  /\ payment \in [Passengers -> Charge \cup {None}]
  /\ linked \subseteq Passengers
  /\ req \in [Handlers -> Tasks]

Init ==
  /\ fixed = {}
  /\ ride = None
  /\ intent = [b \in Passengers |-> None]
  /\ payment = [b \in Passengers |-> None]
  /\ linked = {}
  /\ req = [h \in Handlers |-> Idle]

At(h, pc)      == req[h].pc = pc
Begin(h, task) == req[h] = Idle /\ req' = [req EXCEPT ![h] = task]
Go(h, task)    == req' = [req EXCEPT ![h] = task]
Return(h)      == req' = [req EXCEPT ![h] = Idle]

-----------------------------------------------------------------------------
(* Fixed prices: POST, PUT and DELETE /fixed-route-prices.  A route may    *)
(* have several that are active, of which findFirst takes any.             *)

AddFixedPrice(p) ==
  /\ fixed' = fixed \cup {p}
  /\ UNCHANGED <<ride, intent, payment, linked, req>>

DropFixedPrice(p) ==
  /\ p \in fixed
  /\ fixed' = fixed \ {p}
  /\ UNCHANGED <<ride, intent, payment, linked, req>>

Bought(base) == IF fixed = {} THEN {base} ELSE fixed

-----------------------------------------------------------------------------
(* The ride: POST /rides and PATCH /rides/:id.  Between the read of the    *)
(* fixed price and the write, other requests run.                          *)

CreateRide(h, km, seats, base, timing) ==
  /\ ride = None
  /\ \E p \in Bought(base) :
       Begin(h, [pc |-> "create",
                 edit |-> [km |-> km, seats |-> seats,
                           price |-> SeatPrice(p, km, seats, timing)]])
  /\ UNCHANGED <<fixed, ride, intent, payment, linked>>

CommitCreateRide(h) ==
  /\ At(h, "create") /\ ride = None
  /\ ride' = req[h].edit
  /\ Return(h)
  /\ UNCHANGED <<fixed, intent, payment, linked>>

Or(new, old) == IF new = None THEN old ELSE new

\* Mutant: the price is worked out with the distance the ride had.
StoredKm(km) == ride.km

KmAfter(km) == Or(km, ride.km)

\* Only an edit that names a price is priced.
UpdateRide(h, km, seats, base, timing) ==
  /\ ride # None
  /\ \E p \in IF base = None THEN {None} ELSE Bought(base) :
       Begin(h, [pc |-> "edit",
                 edit |-> [km |-> km, seats |-> seats,
                           price |-> IF p = None THEN None
                                     ELSE SeatPrice(p, KmAfter(km), Or(seats, ride.seats),
                                                    timing)]])
  /\ UNCHANGED <<fixed, ride, intent, payment, linked>>

CommitUpdateRide(h) ==
  LET e == req[h].edit IN
  /\ At(h, "edit")
  /\ ride' = [km |-> Or(e.km, ride.km), seats |-> Or(e.seats, ride.seats),
              price |-> Or(e.price, ride.price)]
  /\ Return(h)
  /\ UNCHANGED <<fixed, intent, payment, linked>>

-----------------------------------------------------------------------------
(* POST /payments/intent.  The fare is worked out first, from the ride as  *)
(* it is now.                                                              *)

CreatePaymentIntent(h, b) ==
  LET fare == FareOf(ride.price, ride.km, SeatsBooked[b]) IN
  /\ ride # None /\ fare > 0
  /\ Begin(h, [pc |-> IF b \in linked THEN "retrieve" ELSE "createIntent", b |-> b,
               params |-> [amount |-> fare, km |-> ride.km, price |-> ride.price]])
  /\ UNCHANGED <<fixed, ride, intent, payment, linked>>

\* An error, and a canceled intent, lead on to paymentIntents.create.
RetrieveIntent(h) ==
  /\ At(h, "retrieve")
  /\ \/ Go(h, [pc |-> "reuse", b |-> req[h].b])
     \/ Go(h, [req[h] EXCEPT !.pc = "createIntent"])
  /\ UNCHANGED <<fixed, ride, intent, payment, linked>>

\* Mutant: the booking is recorded with the fare of now.
ChargeNow(amount) == [amount |-> amount, fee |-> FeeOf(FareOf(ride.price, ride.km, 1))]

\* The fee of an intent is worked out from its own amount.
ChargeOf(amount) == [amount |-> amount, fee |-> FeeOf(amount)]

ReuseIntent(h) ==
  LET b == req[h].b IN
  /\ At(h, "reuse")
  /\ payment' = [payment EXCEPT ![b] = ChargeOf(intent[b].amount)]
  /\ Return(h)
  /\ UNCHANGED <<fixed, ride, intent, linked>>

\* Stripe answers the same parameters under the same key with the intent it has
\* and refuses others: the handler then ends with an error (Fail).
CreateIntentAtStripe(h) ==
  LET q == req[h] IN
  /\ At(h, "createIntent")
  /\ intent[q.b] \in {None, q.params}
  /\ intent' = [intent EXCEPT ![q.b] = q.params]
  /\ Go(h, [pc |-> "record", b |-> q.b, fare |-> q.params.amount])
  /\ UNCHANGED <<fixed, ride, payment, linked>>

\* The amount is Stripe's and the fee was worked out from the fare.
RecordIntent(h) ==
  LET q == req[h] IN
  /\ At(h, "record")
  /\ payment' = [payment EXCEPT ![q.b] =
                   [amount |-> intent[q.b].amount, fee |-> FeeOf(q.fare)]]
  /\ linked' = linked \cup {q.b}
  /\ Return(h)
  /\ UNCHANGED <<fixed, ride, intent>>

-----------------------------------------------------------------------------
\* A handler may stop anywhere.
Fail(h) ==
  /\ req[h] # Idle
  /\ Return(h)
  /\ UNCHANGED <<fixed, ride, intent, payment, linked>>

HandlerStep(h) ==
  \/ \E km \in Kms, s \in SeatsOffered, base \in Bases, t \in Timings :
       CreateRide(h, km, s, base, t)
  \/ \E km \in Kms \cup {None}, s \in SeatsOffered \cup {None},
        base \in Bases \cup {None}, t \in Timings : UpdateRide(h, km, s, base, t)
  \/ \E b \in Passengers : CreatePaymentIntent(h, b)
  \/ CommitCreateRide(h) \/ CommitUpdateRide(h)
  \/ RetrieveIntent(h) \/ ReuseIntent(h) \/ CreateIntentAtStripe(h) \/ RecordIntent(h)
  \/ Fail(h)

AdminStep == \E p \in FixedPrices : AddFixedPrice(p) \/ DropFixedPrice(p)

Next ==
  \/ AdminStep
  \/ \E h \in Handlers : HandlerStep(h)

Spec == Init /\ [][Next]_vars

-----------------------------------------------------------------------------
\* What the database says of a charge is what Stripe takes, and the fee is that of
\* this amount, so that fee and driver's earnings add up to it: although the
\* driver edits the ride between two calls, between the calculation and the answer
\* of Stripe, and between a call that failed halfway and its retry.
RecordedAsCharged ==
  \A b \in Passengers : payment[b] # None => payment[b] = [amount |-> intent[b].amount,
                                                           fee |-> FeeOf(intent[b].amount)]
=============================================================================
