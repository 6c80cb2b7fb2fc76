--------------------------- MODULE ServicesProofs ---------------------------
(***************************************************************************)
(* Proofs about fares and drivers' vehicles (Services.tla), for any number *)
(* of bookings and of overlapping requests and for any rates, distances    *)
(* and prices; and, with RateLimitProofs, that all three parts keep their  *)
(* types.                                                                  *)
(*                                                                         *)
(* That the recorded charge is Stripe's is not inductive alone: it needs   *)
(* that a booking with a charge or a link has an intent, and that a        *)
(* handler about to record one knows its amount.                           *)
(***************************************************************************)
EXTENDS Services, RateLimitProofs, TLAPS

-----------------------------------------------------------------------------
(* Prices.                                                                 *)

\* Math.round is exact to one half.
LEMMA RoundType ==
  ASSUME NEW a \in Nat, NEW b \in Nat \ {0}
  PROVE  F!Round(a, b) \in Nat /\ 2 * (b * F!Round(a, b)) <= 2 * a + b
<1>1. PICK n \in Nat, d \in Nat \ {0} : n = 2 * a + b /\ d = 2 * b
  OBVIOUS
<1>2. n \div d \in Nat /\ d * (n \div d) <= n
  OBVIOUS
<1>3. PICK q \in Nat : q = n \div d
  BY <1>2
<1>4. F!Round(a, b) = q
  BY <1>1, <1>3 DEF F!Round
<1>5. d * q = 2 * (b * q)
  BY <1>1
<1> QED BY <1>1, <1>2, <1>3, <1>4, <1>5

LEMMA SeatPriceType ==
  ASSUME NEW base \in Nat, NEW km \in Nat, NEW seats \in Nat, NEW timing
  PROVE  /\ F!SeatPrice(base, km, seats, timing) \in Nat
         /\ F!InCap(F!SeatPrice(base, km, seats, timing), km)
<1> DEFINE p == F!Ceiling(F!AtLeast(F!Uplifted(base, timing), km, seats), km)
           capped == F!Least(p, F!Cap(km))
<1>0. Units \in Nat \ {0}
  BY ServicesAssumption
<1>1. F!AtLeast(F!Uplifted(base, timing), km, seats) \in Nat
  BY <1>0 DEF F!AtLeast, F!Uplifted, F!Most
<1>2. p \in Nat
  BY <1>0, <1>1 DEF F!Ceiling, F!Least
<1>3. capped \in Nat /\ capped <= 300 * km
  BY <1>2 DEF F!Least, F!Cap
<1> HIDE DEF capped
<1>4. PICK price : price = F!Round(capped, 10 * Units)
  OBVIOUS
<1>5. price \in Nat /\ 2 * ((10 * Units) * price) <= 2 * capped + 10 * Units
  BY <1>0, <1>3, <1>4, RoundType
<1>6. F!SeatPrice(base, km, seats, timing) = price
  BY <1>4 DEF F!SeatPrice, capped
<1>7. PICK total \in Nat : total = (10 * Units) * price
  BY <1>0, <1>5
<1>8. 10 * Units * price <= 300 * km + 5 * Units
  BY <1>0, <1>3, <1>5, <1>7
<1> QED BY <1>5, <1>6, <1>8 DEF F!Cap, F!InCap

LEMMA FareType ==
  ASSUME NEW price \in Nat, NEW km \in Kms, NEW seats \in Nat
  PROVE  F!FareOf(price, km, seats) \in Nat
<1>1. /\ km \in Nat /\ BaseFare \in Nat /\ PerKm \in Nat /\ ServiceFee \in Nat /\ TaxBps \in Nat
      /\ Units \in Nat \ {0} /\ km * PerKm \in Nat
  BY ServicesAssumption
<1>2. PICK subtotal \in Nat :
        subtotal = F!Most(price * seats, BaseFare + F!Round(km * PerKm, Units)) + ServiceFee
  <2>1. F!Round(km * PerKm, Units) \in Nat
    BY <1>1, RoundType
  <2> QED BY <1>1, <2>1 DEF F!Most
<1>3. subtotal * TaxBps \in Nat
  BY <1>1
<1>4. F!Round(subtotal * TaxBps, 10000) \in Nat
  BY <1>3, RoundType
<1>5. F!FareOf(price, km, seats) = subtotal + F!Round(subtotal * TaxBps, 10000)
  BY <1>2 DEF F!FareOf
<1> QED BY <1>2, <1>4, <1>5

LEMMA FeeType == ASSUME NEW amount \in Nat PROVE F!FeeOf(amount) \in Nat
<1>1. amount * FeePct \in Nat
  BY ServicesAssumption
<1> QED BY <1>1, RoundType DEF F!FeeOf

-----------------------------------------------------------------------------
(* Charges.  A booking that is paid, or about to be recorded or reused, has *)
(* an intent, which Stripe never changes: an intent of the same key is the  *)
(* same or is refused.                                                      *)

EditTask   == [pc : {"create", "edit"}, edit : F!Edits]
IntentTask == [pc : {"retrieve", "createIntent"}, b : Passengers, params : F!Intent]
RecordTask == [pc : {"record"}, b : Passengers, fare : Nat]
ReuseTask  == [pc : {"reuse"}, b : Passengers]

\* What a handler's stage says of the rows.
FareTaskOK(t) ==
  /\ t.pc = "create" => t.edit \in F!Ride
  /\ t.pc = "edit" => pricedRide # None
  /\ t.pc \in {"retrieve", "reuse"} => intent[t.b] # None
  /\ t.pc = "record" => intent[t.b] # None /\ intent[t.b].amount = t.fare

FaresInv ==
  /\ F!TypeOK
  /\ \A h \in Handlers : FareTaskOK(fareReq[h])
  /\ \A b \in Passengers : b \in linked \/ payment[b] # None => intent[b] # None
  /\ RecordedAsCharged

LEMMA FareTaskKinds ==
  ASSUME NEW t \in F!Tasks
  PROVE  /\ t.pc \in {"create", "edit"} => t \in EditTask
         /\ t.pc \in {"retrieve", "createIntent"} => t \in IntentTask
         /\ t.pc = "record" => t \in RecordTask
         /\ t.pc = "reuse" => t \in ReuseTask
BY DEF F!Tasks, F!Idle, EditTask, IntentTask, RecordTask, ReuseTask

\* The handler in h goes on to t; rides are not removed, nor intents changed.
LEMMA FareTasksKept ==
  ASSUME FaresInv, NEW h \in Handlers, NEW t \in F!Tasks,
         fareReq' = [fareReq EXCEPT ![h] = t], FareTaskOK(t)',
         pricedRide # None => pricedRide' # None,
         \A b \in Passengers : intent[b] # None => intent'[b] = intent[b]
  PROVE  /\ fareReq' \in [Handlers -> F!Tasks]
         /\ \A g \in Handlers : FareTaskOK(fareReq[g])'
<1>1. fareReq' \in [Handlers -> F!Tasks] /\ fareReq'[h] = t
  BY DEF FaresInv, F!TypeOK
<1>2. ASSUME NEW g \in Handlers \ {h}
      PROVE  FareTaskOK(fareReq[g])'
  <2>1. fareReq'[g] = fareReq[g] /\ fareReq[g] \in F!Tasks /\ FareTaskOK(fareReq[g])
    BY DEF FaresInv, F!TypeOK
  <2>2. fareReq[g].pc \in {"retrieve", "record", "reuse"} => fareReq[g].b \in Passengers
    BY <2>1, FareTaskKinds DEF IntentTask, RecordTask, ReuseTask
  <2> QED BY <2>1, <2>2 DEF FareTaskOK
<1>3. FareTaskOK(fareReq[h])'
  BY <1>1 DEF FareTaskOK
<1> QED BY <1>1, <1>2, <1>3

LEMMA IdleFare == F!Idle \in F!Tasks /\ FareTaskOK(F!Idle)'
BY DEF F!Tasks, F!Idle, FareTaskOK

\* A step that leaves intents, charges and links alone.
LEMMA FareRowsKept ==
  ASSUME FaresInv, UNCHANGED <<intent, payment, linked>>,
         fixed' \subseteq FixedPrices, pricedRide' \in F!Ride \cup {None},
         fareReq' \in [Handlers -> F!Tasks],
         \A g \in Handlers : FareTaskOK(fareReq[g])'
  PROVE  FaresInv'
<1>1. F!TypeOK'
  BY DEF FaresInv, F!TypeOK
<1>2. RecordedAsCharged'
  BY DEF FaresInv, RecordedAsCharged, F!RecordedAsCharged
<1> QED BY <1>1, <1>2 DEF FaresInv

LEMMA RideSteps ==
  ASSUME FaresInv, NEW h \in Handlers,
         \/ \E km \in Kms, s \in SeatsOffered, base \in Bases, t \in F!Timings :
              F!CreateRide(h, km, s, base, t)
         \/ \E km \in Kms \cup {None}, s \in SeatsOffered \cup {None},
               base \in Bases \cup {None}, t \in F!Timings : F!UpdateRide(h, km, s, base, t)
         \/ F!CommitCreateRide(h) \/ F!CommitUpdateRide(h)
  PROVE  FaresInv'
<1>0. /\ fareReq[h] \in F!Tasks /\ FareTaskOK(fareReq[h])
      /\ pricedRide \in F!Ride \cup {None} /\ fixed \subseteq FixedPrices
  BY DEF FaresInv, F!TypeOK
<1>1. ASSUME NEW base \in Bases, NEW p \in F!Bought(base), NEW km \in Kms,
             NEW s \in SeatsOffered, NEW timing
      PROVE  F!SeatPrice(p, km, s, timing) \in Nat
  <2>1. p \in Nat /\ km \in Nat /\ s \in Nat
    BY <1>0, <1>1, ServicesAssumption DEF F!Bought
  <2> QED BY <2>1, SeatPriceType
<1>2. ASSUME NEW km \in Kms, NEW s \in SeatsOffered, NEW base \in Bases,
             NEW timing \in F!Timings, F!CreateRide(h, km, s, base, timing)
      PROVE  FaresInv'
  <2>1. PICK p \in F!Bought(base) :
          F!Begin(h, [pc |-> "create",
                      edit |-> [km |-> km, seats |-> s,
                                price |-> F!SeatPrice(p, km, s, timing)]])
    BY <1>2 DEF F!CreateRide
  <2>2. PICK price \in Nat : price = F!SeatPrice(p, km, s, timing)
    BY <1>1
  <2>3. PICK t : t = [pc |-> "create", edit |-> [km |-> km, seats |-> s, price |-> price]]
    OBVIOUS
  <2>4. t \in F!Tasks /\ FareTaskOK(t)'
    BY <2>3 DEF F!Tasks, F!Edits, F!Ride, FareTaskOK
  <2>5. fareReq' = [fareReq EXCEPT ![h] = t]
    BY <2>1, <2>2, <2>3 DEF F!Begin
  <2>6. UNCHANGED <<fixed, pricedRide, intent, payment, linked>>
    BY <1>2 DEF F!CreateRide
  <2>7. /\ fareReq' \in [Handlers -> F!Tasks]
        /\ \A g \in Handlers : FareTaskOK(fareReq[g])'
    BY <2>4, <2>5, <2>6, FareTasksKept
  <2> QED BY <1>0, <2>6, <2>7, FareRowsKept
<1>3. ASSUME NEW km \in Kms \cup {None}, NEW s \in SeatsOffered \cup {None},
             NEW base \in Bases \cup {None}, NEW timing \in F!Timings,
             F!UpdateRide(h, km, s, base, timing)
      PROVE  FaresInv'
  <2>0. pricedRide # None /\ pricedRide \in F!Ride
    BY <1>0, <1>3 DEF F!UpdateRide
  <2>1. PICK p \in IF base = None THEN {None} ELSE F!Bought(base) :
          F!Begin(h, [pc |-> "edit",
                      edit |-> [km |-> km, seats |-> s,
                                price |-> IF p = None THEN None
                                          ELSE F!SeatPrice(p, F!KmAfter(km),
                                                 F!Or(s, pricedRide.seats), timing)]])
    BY <1>3 DEF F!UpdateRide
  <2>2. PICK price \in Nat \cup {None} :
          price = IF p = None THEN None
                  ELSE F!SeatPrice(p, F!KmAfter(km), F!Or(s, pricedRide.seats), timing)
    <3>1. F!KmAfter(km) \in Kms /\ F!Or(s, pricedRide.seats) \in SeatsOffered
      BY <2>0 DEF F!KmAfter, F!Or, F!Ride
    <3>2. CASE p = None
      BY <3>2
    <3>3. CASE p # None
      <4>1. base \in Bases /\ p \in F!Bought(base)
        BY <2>1, <3>3
      <4>2. F!SeatPrice(p, F!KmAfter(km), F!Or(s, pricedRide.seats), timing) \in Nat
        BY <1>1, <3>1, <4>1
      <4> QED BY <3>3, <4>2
    <3> QED BY <3>2, <3>3
  <2>3. PICK t : t = [pc |-> "edit", edit |-> [km |-> km, seats |-> s, price |-> price]]
    OBVIOUS
  <2>6. UNCHANGED <<fixed, pricedRide, intent, payment, linked>>
    BY <1>3 DEF F!UpdateRide
  <2>4. t \in F!Tasks /\ FareTaskOK(t)'
    BY <2>0, <2>3, <2>6 DEF F!Tasks, F!Edits, FareTaskOK
  <2>5. fareReq' = [fareReq EXCEPT ![h] = t]
    BY <2>1, <2>2, <2>3 DEF F!Begin
  <2>7. /\ fareReq' \in [Handlers -> F!Tasks]
        /\ \A g \in Handlers : FareTaskOK(fareReq[g])'
    BY <2>4, <2>5, <2>6, FareTasksKept
  <2> QED BY <1>0, <2>6, <2>7, FareRowsKept
<1>4. ASSUME F!CommitCreateRide(h) \/ F!CommitUpdateRide(h)
      PROVE  FaresInv'
  <2>1. fareReq' = [fareReq EXCEPT ![h] = F!Idle] /\ UNCHANGED <<fixed, intent, payment, linked>>
    BY <1>4 DEF F!CommitCreateRide, F!CommitUpdateRide, F!Return
  <2>2. pricedRide' \in F!Ride
    <3>1. CASE F!CommitCreateRide(h)
      BY <1>0, <3>1 DEF F!CommitCreateRide, F!At, FareTaskOK
    <3>2. CASE F!CommitUpdateRide(h)
      <4>1. fareReq[h] \in EditTask /\ pricedRide \in F!Ride
        BY <1>0, <3>2, FareTaskKinds DEF F!CommitUpdateRide, F!At, FareTaskOK
      <4>2. fareReq[h].edit \in F!Edits
        BY <4>1 DEF EditTask
      <4> QED BY <3>2, <4>1, <4>2 DEF F!CommitUpdateRide, F!Or, F!Edits, F!Ride
    <3> QED BY <1>4, <3>1, <3>2
  <2>3. pricedRide' # None
    BY <2>2, ServicesAssumption
  <2>4. /\ fareReq' \in [Handlers -> F!Tasks]
        /\ \A g \in Handlers : FareTaskOK(fareReq[g])'
    <3>1. PICK t : t = F!Idle
      OBVIOUS
    <3>2. t \in F!Tasks /\ FareTaskOK(t)'
      BY <3>1, IdleFare
    <3> QED BY <2>1, <2>3, <3>1, <3>2, FareTasksKept
  <2> QED BY <1>0, <2>1, <2>2, <2>4, FareRowsKept
<1> QED BY <1>2, <1>3, <1>4

\* Stripe's answer, the rows written from it, and the calls that lead to it.
LEMMA IntentSteps ==
  ASSUME FaresInv, NEW h \in Handlers,
         \/ \E b \in Passengers : F!CreatePaymentIntent(h, b)
         \/ F!RetrieveIntent(h) \/ F!CreateIntentAtStripe(h)
  PROVE  FaresInv'
<1>0. /\ fareReq[h] \in F!Tasks /\ FareTaskOK(fareReq[h])
      /\ pricedRide \in F!Ride \cup {None} /\ fixed \subseteq FixedPrices
  BY DEF FaresInv, F!TypeOK
<1>1. ASSUME NEW b \in Passengers, F!CreatePaymentIntent(h, b)
      PROVE  FaresInv'
  <2>1. pricedRide \in F!Ride /\ SeatsBooked[b] \in Nat
    BY <1>0, <1>1, ServicesAssumption DEF F!CreatePaymentIntent
  <2>2. pricedRide.km \in Kms /\ pricedRide.price \in Nat
    BY <2>1 DEF F!Ride
  <2>3. PICK fare \in Nat : fare = F!FareOf(pricedRide.price, pricedRide.km, SeatsBooked[b])
    BY <2>1, <2>2, FareType
  <2>4. PICK params \in F!Intent :
          params = [amount |-> fare, km |-> pricedRide.km, price |-> pricedRide.price]
    BY <2>2 DEF F!Intent
  <2>5. PICK pc : pc = IF b \in linked THEN "retrieve" ELSE "createIntent"
    OBVIOUS
  <2>6. PICK t : t = [pc |-> pc, b |-> b, params |-> params]
    OBVIOUS
  <2>7. UNCHANGED <<fixed, pricedRide, intent, payment, linked>>
    BY <1>1 DEF F!CreatePaymentIntent
  <2>8. t \in F!Tasks /\ FareTaskOK(t)'
    <3>1. t \in IntentTask /\ t.pc = pc /\ t.b = b
      BY <2>5, <2>6 DEF IntentTask
    <3>2. t \in F!Tasks
      BY <3>1 DEF F!Tasks, IntentTask
    <3>3. b \in linked => intent'[b] # None
      BY <2>7 DEF FaresInv
    <3> QED BY <2>5, <3>1, <3>2, <3>3 DEF FareTaskOK
  <2>9. fareReq' = [fareReq EXCEPT ![h] = t]
    BY <1>1, <2>3, <2>4, <2>5, <2>6 DEF F!CreatePaymentIntent, F!Begin
  <2>10. /\ fareReq' \in [Handlers -> F!Tasks]
         /\ \A g \in Handlers : FareTaskOK(fareReq[g])'
    BY <2>7, <2>8, <2>9, FareTasksKept
  <2> QED BY <1>0, <2>7, <2>10, FareRowsKept
<1>2. CASE F!RetrieveIntent(h)
  <2>1. fareReq[h] \in IntentTask /\ fareReq[h].pc = "retrieve"
    BY <1>0, <1>2, FareTaskKinds DEF F!RetrieveIntent, F!At
  <2>2. fareReq[h].b \in Passengers /\ intent[fareReq[h].b] # None
    BY <1>0, <2>1 DEF FareTaskOK, IntentTask
  <2>3. UNCHANGED <<fixed, pricedRide, intent, payment, linked>>
    BY <1>2 DEF F!RetrieveIntent
  <2>4. PICK t : /\ fareReq' = [fareReq EXCEPT ![h] = t]
                 /\ \/ t = [pc |-> "reuse", b |-> fareReq[h].b]
                    \/ t = [fareReq[h] EXCEPT !.pc = "createIntent"]
    BY <1>2 DEF F!RetrieveIntent, F!Go
  <2>5. t \in F!Tasks /\ FareTaskOK(t)'
    <3>1. CASE t = [pc |-> "reuse", b |-> fareReq[h].b]
      BY <2>2, <2>3, <3>1 DEF F!Tasks, FareTaskOK
    <3>2. CASE t = [fareReq[h] EXCEPT !.pc = "createIntent"]
      <4>1. t \in IntentTask /\ t.pc = "createIntent"
        BY <2>1, <3>2 DEF IntentTask
      <4> QED BY <4>1 DEF F!Tasks, IntentTask, FareTaskOK
    <3> QED BY <2>4, <3>1, <3>2
  <2>6. /\ fareReq' \in [Handlers -> F!Tasks]
        /\ \A g \in Handlers : FareTaskOK(fareReq[g])'
    BY <2>3, <2>4, <2>5, FareTasksKept
  <2> QED BY <1>0, <2>3, <2>6, FareRowsKept
<1>3. CASE F!CreateIntentAtStripe(h)
  <2>1. fareReq[h] \in IntentTask
    BY <1>0, <1>3, FareTaskKinds DEF F!CreateIntentAtStripe, F!At
  <2>2. PICK b \in Passengers, params \in F!Intent :
          b = fareReq[h].b /\ params = fareReq[h].params
    BY <2>1 DEF IntentTask
  <2>3. /\ intent[b] \in {None, params} /\ intent' = [intent EXCEPT ![b] = params]
        /\ fareReq' = [fareReq EXCEPT ![h] =
                         [pc |-> "record", b |-> b, fare |-> params.amount]]
        /\ UNCHANGED <<fixed, pricedRide, payment, linked>>
    BY <1>3, <2>2 DEF F!CreateIntentAtStripe, F!Go
  <2>4. params # None /\ params.amount \in Nat
    BY ServicesAssumption DEF F!Intent
  <2>5. /\ intent'[b] = params /\ intent' \in [Passengers -> F!Intent \cup {None}]
        /\ \A c \in Passengers : intent[c] # None => intent'[c] = intent[c]
        /\ \A c \in Passengers : intent[c] # None => intent'[c] # None
    BY <2>3 DEF FaresInv, F!TypeOK
  <2>6. PICK t : t = [pc |-> "record", b |-> b, fare |-> params.amount]
    OBVIOUS
  <2>7. t \in F!Tasks /\ FareTaskOK(t)'
    BY <2>4, <2>5, <2>6 DEF F!Tasks, FareTaskOK
  <2>8. /\ fareReq' \in [Handlers -> F!Tasks]
        /\ \A g \in Handlers : FareTaskOK(fareReq[g])'
    BY <2>3, <2>5, <2>6, <2>7, FareTasksKept
  <2>9. F!TypeOK'
    BY <2>3, <2>5, <2>8 DEF FaresInv, F!TypeOK
  <2>10. \A c \in Passengers : c \in linked' \/ payment'[c] # None => intent'[c] # None
    BY <2>3, <2>5 DEF FaresInv
  <2>11. RecordedAsCharged'
    BY <2>3, <2>5 DEF FaresInv, RecordedAsCharged, F!RecordedAsCharged
  <2> QED BY <2>8, <2>9, <2>10, <2>11 DEF FaresInv
<1> QED BY <1>1, <1>2, <1>3

LEMMA RecordSteps ==
  ASSUME FaresInv, NEW h \in Handlers, F!ReuseIntent(h) \/ F!RecordIntent(h)
  PROVE  FaresInv'
<1>0. /\ fareReq[h] \in F!Tasks /\ FareTaskOK(fareReq[h])
  BY DEF FaresInv, F!TypeOK
<1>1. fareReq[h] \in ReuseTask \cup RecordTask
  BY <1>0, FareTaskKinds DEF F!ReuseIntent, F!RecordIntent, F!At
<1>2. PICK b \in Passengers : b = fareReq[h].b
  BY <1>1 DEF ReuseTask, RecordTask
<1>3. intent[b] # None /\ intent[b] \in F!Intent
  BY <1>0, <1>1, <1>2 DEF FaresInv, F!TypeOK, FareTaskOK, ReuseTask, RecordTask
<1>4. PICK charge : charge = [amount |-> intent[b].amount, fee |-> F!FeeOf(intent[b].amount)]
  OBVIOUS
<1>5. charge \in F!Charge
  <2>1. intent[b].amount \in Nat
    BY <1>3 DEF F!Intent
  <2> QED BY <1>4, <2>1, FeeType DEF F!Charge
<1>6. /\ payment' = [payment EXCEPT ![b] = charge] /\ linked' \subseteq linked \cup {b}
      /\ fareReq' = [fareReq EXCEPT ![h] = F!Idle]
      /\ UNCHANGED <<fixed, pricedRide, intent>>
  <2>1. CASE F!ReuseIntent(h)
    BY <1>2, <1>4, <2>1 DEF F!ReuseIntent, F!ChargeOf, F!Return
  <2>2. CASE F!RecordIntent(h)
    <3>1. fareReq[h].fare = intent[b].amount
      BY <1>0, <1>2, <2>2 DEF F!RecordIntent, F!At, FareTaskOK
    <3> QED BY <1>2, <1>4, <2>2, <3>1 DEF F!RecordIntent, F!Return
  <2> QED BY <2>1, <2>2
<1>7. /\ fareReq' \in [Handlers -> F!Tasks]
      /\ \A g \in Handlers : FareTaskOK(fareReq[g])'
  <2>1. PICK t : t = F!Idle
    OBVIOUS
  <2>2. t \in F!Tasks /\ FareTaskOK(t)'
    BY <2>1, IdleFare
  <2> QED BY <1>6, <2>1, <2>2, FareTasksKept
<1>8. payment'[b] = charge /\ \A c \in Passengers \ {b} : payment'[c] = payment[c]
  BY <1>6 DEF FaresInv, F!TypeOK
<1>9. F!TypeOK'
  BY <1>5, <1>6, <1>7 DEF FaresInv, F!TypeOK
<1>10. \A c \in Passengers : c \in linked' \/ payment'[c] # None => intent'[c] # None
  BY <1>3, <1>6, <1>8 DEF FaresInv
<1>11. RecordedAsCharged'
  BY <1>4, <1>6, <1>8 DEF FaresInv, RecordedAsCharged, F!RecordedAsCharged
<1> QED BY <1>7, <1>9, <1>10, <1>11 DEF FaresInv

LEMMA FaresStep ==
  ASSUME FaresInv,
         \/ F!AdminStep \/ \E h \in Handlers : F!HandlerStep(h)
         \/ UNCHANGED fareVars
  PROVE  FaresInv'
<1>1. CASE \E h \in Handlers : F!HandlerStep(h)
  <2>1. ASSUME NEW h \in Handlers, F!Fail(h)
        PROVE  FaresInv'
    <3>1. /\ fareReq' = [fareReq EXCEPT ![h] = F!Idle]
          /\ UNCHANGED <<fixed, pricedRide, intent, payment, linked>>
      BY <2>1 DEF F!Fail, F!Return
    <3>2. PICK t : t = F!Idle
      OBVIOUS
    <3>3. t \in F!Tasks /\ FareTaskOK(t)'
      BY <3>2, IdleFare
    <3>4. /\ fareReq' \in [Handlers -> F!Tasks]
          /\ \A g \in Handlers : FareTaskOK(fareReq[g])'
      BY <3>1, <3>2, <3>3, FareTasksKept
    <3> QED BY <3>1, <3>4, FareRowsKept DEF FaresInv, F!TypeOK
  <2> QED BY <1>1, <2>1, RideSteps, IntentSteps, RecordSteps DEF F!HandlerStep
<1>2. CASE F!AdminStep \/ UNCHANGED fareVars
  <2>1. fixed' \subseteq FixedPrices /\ UNCHANGED <<pricedRide, intent, payment, linked, fareReq>>
    BY <1>2 DEF F!AdminStep, F!AddFixedPrice, F!DropFixedPrice, fareVars, FaresInv, F!TypeOK
  <2>2. \A g \in Handlers : FareTaskOK(fareReq[g])'
    BY <2>1 DEF FaresInv, FareTaskOK
  <2> QED BY <2>1, <2>2, FareRowsKept DEF FaresInv, F!TypeOK
<1> QED BY <1>1, <1>2

-----------------------------------------------------------------------------
(* The cap, of requests one at a time: an edit that is about to commit was *)
(* priced for the distance that the ride has with it, because nobody has   *)
(* moved the ride since.                                                   *)

LoneFare == \A g, h \in Handlers :
  fareReq[g] # F!Idle /\ fareReq[h] # F!Idle => g = h

\* A price in an edit is within the cap of the distance to come.
WithinCap(t) ==
  t.pc = "edit" /\ t.edit.price # None => F!InCap(t.edit.price, F!KmAfter(t.edit.km))

CapInv == overlapped \/ (LoneFare /\ \A h \in Handlers : WithinCap(fareReq[h]))

\* The step of PriceWithinCap.
CapStep ==
  overlapped' \/
  \A h \in Handlers :
    F!CommitUpdateRide(h) /\ fareReq[h].edit.price # None
      => F!InCap(pricedRide'.price, pricedRide'.km)

LEMMA EditIsCapped ==
  ASSUME FaresInv, NEW h \in Handlers, NEW km \in Kms \cup {None},
         NEW s \in SeatsOffered \cup {None}, NEW base \in Bases \cup {None}, NEW timing,
         F!UpdateRide(h, km, s, base, timing)
  PROVE  WithinCap(fareReq[h])'
<1>1. pricedRide \in F!Ride /\ UNCHANGED pricedRide
  BY DEF F!UpdateRide, FaresInv, F!TypeOK
<1>2. PICK to \in Kms, seats \in SeatsOffered :
        to = F!KmAfter(km) /\ seats = F!Or(s, pricedRide.seats)
  BY <1>1 DEF F!KmAfter, F!Or, F!Ride
<1>3. PICK p \in IF base = None THEN {None} ELSE F!Bought(base) :
        fareReq' = [fareReq EXCEPT ![h] =
                     [pc |-> "edit",
                      edit |-> [km |-> km, seats |-> s,
                                price |-> IF p = None THEN None
                                          ELSE F!SeatPrice(p, to, seats, timing)]]]
  BY <1>2 DEF F!UpdateRide, F!Begin
<1>4. fareReq'[h].edit.km = km
      /\ fareReq'[h].edit.price = IF p = None THEN None ELSE F!SeatPrice(p, to, seats, timing)
  BY <1>3 DEF FaresInv, F!TypeOK
<1>5. F!KmAfter(km)' = to
  BY <1>1, <1>2 DEF F!KmAfter
<1>6. CASE p = None
  BY <1>4, <1>6 DEF WithinCap
<1>7. CASE p # None
  <2>1. p \in Nat /\ to \in Nat /\ seats \in Nat
    BY <1>3, <1>7, ServicesAssumption DEF F!Bought, FaresInv, F!TypeOK
  <2>2. F!InCap(F!SeatPrice(p, to, seats, timing), to)
    BY <2>1, SeatPriceType
  <2>3. PICK price : price = F!SeatPrice(p, to, seats, timing)
    OBVIOUS
  <2>4. fareReq'[h].edit.price = price /\ F!InCap(price, to)
    BY <1>4, <1>7, <2>2, <2>3
  <2> QED BY <1>4, <1>5, <2>4 DEF WithinCap
<1> QED BY <1>6, <1>7

LEMMA CommitIsCapped ==
  ASSUME FaresInv, NEW h \in Handlers, WithinCap(fareReq[h]), F!CommitUpdateRide(h),
         fareReq[h].edit.price # None
  PROVE  F!InCap(pricedRide'.price, pricedRide'.km)
BY DEF F!CommitUpdateRide, F!At, F!Or, F!KmAfter, WithinCap

LEMMA CapHandlerStep ==
  ASSUME FaresInv, CapInv, NEW h \in Handlers, F!HandlerStep(h),
         overlapped' = (overlapped \/ \E g \in Handlers \ {h} : fareReq[g] # F!Idle)
  PROVE  CapInv' /\ CapStep
<1> SUFFICES ASSUME ~overlapped' PROVE CapInv' /\ CapStep
  BY DEF CapInv, CapStep
<1>1. /\ \A g \in Handlers \ {h} : fareReq[g] = F!Idle
      /\ LoneFare /\ \A g \in Handlers : WithinCap(fareReq[g])
  BY DEF CapInv
<1>2. PICK t : fareReq' = [fareReq EXCEPT ![h] = t]
  BY DEF F!HandlerStep, F!CreateRide, F!UpdateRide, F!CreatePaymentIntent, F!CommitCreateRide,
     F!CommitUpdateRide, F!RetrieveIntent, F!ReuseIntent, F!CreateIntentAtStripe,
     F!RecordIntent, F!Fail, F!Begin, F!Go, F!Return
<1>3. fareReq'[h] = t /\ \A g \in Handlers \ {h} : fareReq'[g] = F!Idle
  BY <1>1, <1>2 DEF FaresInv, F!TypeOK
<1>4. LoneFare'
  BY <1>3 DEF LoneFare
<1>5. WithinCap(fareReq[h])'
  <2>1. CASE \E km \in Kms \cup {None}, s \in SeatsOffered \cup {None},
               base \in Bases \cup {None}, timing \in F!Timings :
               F!UpdateRide(h, km, s, base, timing)
    BY <2>1, EditIsCapped
  <2>2. CASE t.pc # "edit"
    BY <1>3, <2>2 DEF WithinCap
  <2>3. ASSUME NEW pc \in {"retrieve", "createIntent"}, NEW b, NEW params,
               F!Begin(h, [pc |-> pc, b |-> b, params |-> params])
        PROVE  t.pc # "edit"
    BY <1>3, <2>3 DEF F!Begin, FaresInv, F!TypeOK
  <2>4. t.pc # "edit" \/ \E km \in Kms \cup {None}, s \in SeatsOffered \cup {None},
               base \in Bases \cup {None}, timing \in F!Timings :
               F!UpdateRide(h, km, s, base, timing)
    <3>1. fareReq[h] \in F!Tasks /\ fareReq' \in [Handlers -> F!Tasks]
      BY FaresStep DEF FaresInv, F!TypeOK
    <3>2. CASE F!CommitCreateRide(h) \/ F!CommitUpdateRide(h) \/ F!ReuseIntent(h)
               \/ F!RecordIntent(h) \/ F!Fail(h)
      BY <1>3, <3>2 DEF F!CommitCreateRide, F!CommitUpdateRide, F!ReuseIntent, F!RecordIntent,
         F!Fail, F!Return, F!Idle, FaresInv, F!TypeOK
    <3>3. ASSUME NEW b \in Passengers, F!CreatePaymentIntent(h, b)
          PROVE  t.pc # "edit"
      BY <2>3, <3>3 DEF F!CreatePaymentIntent
    <3>4. CASE F!RetrieveIntent(h) \/ F!CreateIntentAtStripe(h)
      <4>1. fareReq[h] \in IntentTask
        BY <3>1, <3>4, FareTaskKinds DEF F!RetrieveIntent, F!CreateIntentAtStripe, F!At
      <4> QED BY <1>3, <3>4, <4>1 DEF F!RetrieveIntent, F!CreateIntentAtStripe, F!Go,
              IntentTask, FaresInv, F!TypeOK
    <3>5. ASSUME NEW km \in Kms, NEW s \in SeatsOffered, NEW base \in Bases,
                 NEW timing \in F!Timings, F!CreateRide(h, km, s, base, timing)
          PROVE  t.pc # "edit"
      BY <1>3, <3>5 DEF F!CreateRide, F!Begin, FaresInv, F!TypeOK
    <3> QED BY <3>2, <3>3, <3>4, <3>5 DEF F!HandlerStep
  <2> QED BY <2>1, <2>2, <2>4
<1>6. ASSUME NEW g \in Handlers PROVE WithinCap(fareReq[g])'
  BY <1>3, <1>5 DEF WithinCap, F!Idle
<1>7. CapStep
  BY <1>1, CommitIsCapped DEF CapStep
<1> QED BY <1>4, <1>6, <1>7 DEF CapInv

\* Fixed prices come and go, or another part runs.
LEMMA CapKept ==
  ASSUME FaresInv, CapInv, UNCHANGED <<pricedRide, fareReq, overlapped>>
  PROVE  CapInv' /\ CapStep
<1>1. CapInv'
  BY DEF CapInv, LoneFare, WithinCap, F!KmAfter
<1>2. CapStep
  BY CommitIsCapped DEF CapInv, CapStep
<1> QED BY <1>1, <1>2

-----------------------------------------------------------------------------
(* The driver's profile.                                                   *)

RowTask == [pc : {"create", "update"}, row : D!Profile]

LEMMA FilledType ==
  ASSUME NEW body \in D!Bodies, NEW rest \in D!Profile
  PROVE  D!Filled(body, rest) \in D!Profile
<1>1. PICK fs \in SUBSET Fields : body \in [fs -> Values]
  BY DEF D!Bodies
<1> QED BY <1>1 DEF D!Filled, D!Profile

LEMMA DriversInit == D!Init => D!TypeOK
BY DEF D!Init, D!TypeOK, D!RideStatus, D!Tasks, D!Idle

LEMMA DriversStep ==
  ASSUME D!TypeOK, D!Next \/ UNCHANGED driverVars
  PROVE  D!TypeOK'
<1>1. ASSUME NEW h \in Handlers, NEW body \in D!Bodies,
             D!CreateDriverProfile(h, body) \/ D!UpdateDriverProfile(h, body)
      PROVE  D!TypeOK'
  <2>1. PICK rest \in D!Profile, pc \in {"create", "update"} :
          /\ driverReq' = [driverReq EXCEPT ![h] = [pc |-> pc, row |-> D!Filled(body, rest)]]
          /\ UNCHANGED <<profile, driverRide>>
    <3>1. [f \in Fields |-> Null] \in D!Profile
      BY ServicesAssumption DEF D!Profile
    <3>2. profile # NoProfile => profile \in D!Profile
      BY DEF D!TypeOK
    <3> QED BY <1>1, <3>1, <3>2 DEF D!CreateDriverProfile, D!UpdateDriverProfile, D!Begin
  <2>2. PICK row \in D!Profile : row = D!Filled(body, rest)
    BY FilledType
  <2>3. [pc |-> pc, row |-> row] \in D!Tasks
    BY DEF D!Tasks
  <2> QED BY <2>1, <2>2, <2>3 DEF D!TypeOK
<1>2. ASSUME NEW h \in Handlers, D!CommitCreateProfile(h) \/ D!CommitUpdateProfile(h)
      PROVE  D!TypeOK'
  <2>1. driverReq[h] \in RowTask
    BY <1>2 DEF D!TypeOK, D!Tasks, D!Idle, D!CommitCreateProfile, D!CommitUpdateProfile, D!At,
       RowTask
  <2>2. profile' \in D!Profile
    BY <1>2, <2>1 DEF D!CommitCreateProfile, D!CommitUpdateProfile, RowTask
  <2>3. driverReq' = [driverReq EXCEPT ![h] = D!Idle] /\ UNCHANGED driverRide
    BY <1>2 DEF D!CommitCreateProfile, D!CommitUpdateProfile, D!Return
  <2>4. D!Idle \in D!Tasks
    BY DEF D!Tasks
  <2> QED BY <2>2, <2>3, <2>4 DEF D!TypeOK
<1>3. ASSUME NEW h \in Handlers,
             \/ D!DeleteDriverVehicle(h) \/ D!CountActiveRides(h)
             \/ D!CommitDeleteVehicle(h) \/ D!Fail(h)
      PROVE  D!TypeOK'
  <2>1. PICK t \in {[pc |-> "deleteCheck"], [pc |-> "delete"], D!Idle} :
          driverReq' = [driverReq EXCEPT ![h] = t]
    BY <1>3 DEF D!DeleteDriverVehicle, D!CountActiveRides, D!CommitDeleteVehicle, D!Fail,
       D!Begin, D!Return
  <2>2. t \in D!Tasks
    BY DEF D!Tasks
  <2>3. profile' \in {profile, NoProfile} /\ UNCHANGED driverRide
    BY <1>3 DEF D!DeleteDriverVehicle, D!CountActiveRides, D!CommitDeleteVehicle, D!Fail
  <2> QED BY <2>1, <2>2, <2>3 DEF D!TypeOK
<1>4. CASE D!RideStep
  <2>1. PICK r \in Rides, from, to \in D!RideStatus : D!MoveRide(r, from, to)
    BY <1>4 DEF D!RideStep, D!RideStatus, D!TypeOK
  <2> QED BY <2>1 DEF D!MoveRide, D!TypeOK
<1>5. CASE UNCHANGED driverVars
  BY <1>5 DEF driverVars, D!TypeOK
<1> QED BY <1>1, <1>2, <1>3, <1>4, <1>5 DEF D!Next, D!HandlerStep

-----------------------------------------------------------------------------
ServicesInv == IInv /\ FaresInv /\ CapInv /\ D!TypeOK

LEMMA ServicesStep ==
  ASSUME ServicesInv, [ServicesNext]_servicesVars
  PROVE  ServicesInv' /\ [CapStep]_servicesVars
<1>0. IInv /\ FaresInv /\ CapInv /\ D!TypeOK
  BY DEF ServicesInv
<1>1. IInv'
  <2>1. [Next]_vars
    BY DEF ServicesNext, servicesVars, limitVars, vars
  <2> QED BY <1>0, <2>1, NextOK
<1>2. FaresInv'
  BY <1>0, FaresStep DEF ServicesNext, FaresNext, servicesVars
<1>3. D!TypeOK'
  BY <1>0, DriversStep DEF ServicesNext, servicesVars
<1>4. CapInv' /\ CapStep
  <2>1. CASE \E h \in Handlers :
               /\ F!HandlerStep(h)
               /\ overlapped' = (overlapped \/ \E g \in Handlers \ {h} : fareReq[g] # F!Idle)
    BY <1>0, <2>1, CapHandlerStep
  <2>2. CASE UNCHANGED <<pricedRide, fareReq, overlapped>>
    BY <1>0, <2>2, CapKept
  <2> QED BY <2>1, <2>2 DEF ServicesNext, FaresNext, F!AdminStep, F!AddFixedPrice,
          F!DropFixedPrice, servicesVars, fareVars
<1> QED BY <1>1, <1>2, <1>3, <1>4 DEF ServicesInv

LEMMA ServicesCorrect == ServicesSpec => []ServicesInv
<1>1. ServicesInit => ServicesInv
  <2> SUFFICES ASSUME ServicesInit PROVE ServicesInv
    OBVIOUS
  <2>1. IInv /\ D!TypeOK
    BY InitOK, DriversInit DEF ServicesInit
  <2>2. FaresInv
    BY DEF ServicesInit, F!Init, FaresInv, F!TypeOK, F!Tasks, F!Idle, FareTaskOK,
       RecordedAsCharged, F!RecordedAsCharged
  <2>3. CapInv
    BY DEF ServicesInit, F!Init, CapInv, LoneFare, WithinCap, F!Idle
  <2> QED BY <2>1, <2>2, <2>3 DEF ServicesInv
<1>2. ServicesInv /\ [ServicesNext]_servicesVars => ServicesInv'
  BY ServicesStep
<1> QED BY <1>1, <1>2, PTL DEF ServicesSpec

\* Buckets, prices, charges and profiles keep their types whatever overlaps.
THEOREM AllTypesCorrect == ServicesSpec => []AllTypesOK
<1>1. ServicesInv => AllTypesOK
  BY DEF ServicesInv, IInv, FaresInv, AllTypesOK
<1> QED BY <1>1, ServicesCorrect, PTL

\* POST /payments/intent: for any rates, any number of bookings and of calls at
\* once, what the database says of a charge and its fee is what Stripe takes.
THEOREM RecordedAsChargedCorrect == ServicesSpec => []RecordedAsCharged
<1>1. ServicesInv => RecordedAsCharged
  BY DEF ServicesInv, FaresInv
<1> QED BY <1>1, ServicesCorrect, PTL

\* PATCH /rides/:id: for any distances, seats, prices and fixed prices, an edit
\* that names a price leaves the ride within half a cent of its cap, as long as no
\* two requests about fares overlap; distances as fine as one likes.
THEOREM PriceWithinCapCorrect == ServicesSpec => PriceWithinCap
<1>1. ServicesInv /\ [ServicesNext]_servicesVars => [CapStep]_servicesVars
  BY ServicesStep
<1> QED BY <1>1, ServicesCorrect, PTL DEF ServicesSpec, PriceWithinCap, CapStep

\* PUT /drivers/:id and its vehicle: however many edits, deletes and creations
\* overlap, only a creation brings a deleted profile back.
THEOREM DeletedStaysDeletedCorrect == ServicesSpec => DeletedStaysDeleted
<1> DEFINE Back == profile = NoProfile /\ profile' # NoProfile
                     => \E h \in Handlers : D!CommitCreateProfile(h)
<1>1. [ServicesNext]_servicesVars => [Back]_servicesVars
  <2> SUFFICES ASSUME ServicesNext PROVE Back
    OBVIOUS
  <2>1. CASE UNCHANGED profile
    BY <2>1
  <2>2. CASE D!Next
    BY <2>2 DEF D!Next, D!RideStep, D!MoveRide, D!HandlerStep, D!CreateDriverProfile,
       D!UpdateDriverProfile, D!DeleteDriverVehicle, D!CountActiveRides, D!CommitUpdateProfile,
       D!CommitDeleteVehicle, D!Fail
  <2> QED BY <2>1, <2>2 DEF ServicesNext, driverVars
<1> QED BY <1>1, PTL DEF ServicesSpec, DeletedStaysDeleted
=============================================================================
