------------------------- MODULE RideRequestsProofs -------------------------
(***************************************************************************)
(* Proofs, for any set of ride requests, drivers and concurrent handlers,  *)
(* of the properties of RideRequests.tla that hold however requests        *)
(* overlap, and, for one handler, of those of RideRequestsSerial.tla.      *)
(***************************************************************************)
EXTENDS RideRequestsSerial, RideRequestsCustody, SumProofs, TLAPS

-----------------------------------------------------------------------------
(* What a handler's stage says of the data it holds.                       *)

LEMMA TaskKinds ==
  ASSUME NEW t \in Tasks
  PROVE  /\ t.pc \in {"offering", "refund", "cancel", "undispatch"} => t \in RequestTask
         /\ t.pc \in {"jitCreate", "dispatch"} => t \in CreateTask
         /\ t.pc = "hook" => t \in HookTask
         /\ t.pc \in {"offer", "insertOffer", "reopenOffer"} => t \in DriverTask
         /\ t.pc = "accept" => t \in AcceptTask
         /\ t.pc = "acceptOffer" => t \in BookTask
         /\ t.pc = "closeOffer" => t \in CloseTask
         /\ t.pc = "edit" => t \in EditTask
         /\ t.pc = "idle" => t = Idle
BY DEF Tasks, Idle, RequestTask, CreateTask, HookTask, DriverTask, AcceptTask, BookTask,
       CloseTask, EditTask

-----------------------------------------------------------------------------
(* Type correctness.  That a driver's seatsAvailable stays a natural       *)
(* number needs the check made on the ride the commit subtracts from; that *)
(* the webhook reads a booking through the Payment row needs the row to    *)
(* point to one.                                                           *)

AcceptFits ==
  \A h \in Handlers : At(h, "acceptOffer") => req[h].seen >= req[h].seats

HookKnows ==
  \A h \in Handlers : At(h, "hook") => payment[req[h].q].status # "none"

PointsToTrip ==
  \A q \in RideReqs : payment[q].status # "none" => payment[q].trip \in DOMAIN trips[q]

TypeInv == TypeOK /\ AcceptFits /\ HookKnows /\ PointsToTrip

\* A handler that takes up or moves on to a well-typed task leaves req right.
LEMMA TaskTyped ==
  ASSUME TypeInv, NEW h \in Handlers, NEW t \in Tasks, Become(h, t),
         t.pc = "acceptOffer" => t.seen >= t.seats,
         t.pc = "hook" => payment'[t.q].status # "none",
         \A q \in RideReqs : payment[q].status # "none" => payment'[q].status # "none"
  PROVE  req' \in [Handlers -> Tasks] /\ AcceptFits' /\ HookKnows'
<1>1. req' \in [Handlers -> Tasks] /\ \A g \in Handlers : req'[g] = IF g = h THEN t ELSE req[g]
  BY DEF TypeInv, TypeOK, Become
<1>2. AcceptFits'
  BY <1>1 DEF TypeInv, AcceptFits, At
<1>3. ASSUME NEW g \in Handlers, At(g, "hook")'
      PROVE  payment'[req'[g].q].status # "none"
  <2>1. CASE g = h
    BY <1>1, <1>3, <2>1 DEF At
  <2>2. CASE g # h
    <3>1. req'[g] = req[g] /\ At(g, "hook")
      BY <1>1, <1>3, <2>2 DEF At
    <3>2. req[g] \in HookTask
      BY <3>1, TaskKinds DEF TypeInv, TypeOK, At
    <3> QED BY <3>1, <3>2 DEF TypeInv, HookKnows, HookTask
  <2> QED BY <2>1, <2>2
<1> QED BY <1>1, <1>2, <1>3 DEF HookKnows

LEMMA ReturnTyped ==
  ASSUME TypeInv, NEW h \in Handlers, Return(h),
         \A q \in RideReqs : payment[q].status # "none" => payment'[q].status # "none"
  PROVE  req' \in [Handlers -> Tasks] /\ AcceptFits' /\ HookKnows'
<1>1. Idle \in Tasks /\ Idle.pc = "idle" /\ Become(h, Idle)
  BY DEF Tasks, Idle, Become, Return
<1> QED BY <1>1, TaskTyped

\* A handler that only reads, and then knows t.
LEMMA ReadTyped ==
  ASSUME TypeInv, NEW h \in Handlers, NEW t \in Tasks, Become(h, t),
         t.pc = "acceptOffer" => t.seen >= t.seats,
         t.pc = "hook" => payment[t.q].status # "none",
         UNCHANGED <<rows, stripe, realtime>>
  PROVE  TypeInv'
<1>1. UNCHANGED <<request, needed, offer, offered, avail, trips, payment, intent, events,
                  acked, live, callbacks>>
  BY DEF rows, stripe, realtime
<1>2. req' \in [Handlers -> Tasks] /\ AcceptFits' /\ HookKnows'
  BY <1>1, TaskTyped
<1> QED BY <1>1, <1>2 DEF TypeInv, TypeOK, PointsToTrip

\* What the handlers of .../accept and .../offers know after their reads.
LEMMA NamedTyped == ASSUME TypeInv, NEW q \in RideReqs PROVE SeatsNamed(q) \subseteq Nat
BY ParamsAssumption DEF SeatsNamed, TypeInv, TypeOK

LEMMA AcceptReads ==
  ASSUME TypeInv, NEW h \in Handlers, NEW c \in Callbacks, AcceptRequest(h, c)
  PROVE  /\ c.q \in RideReqs /\ request[c.q].status \in Open
         /\ UNCHANGED <<rows, stripe, realtime>>
         /\ \E t \in AcceptTask : t.pc = "accept" /\ t.q = c.q /\ Become(h, t)
<1>1. c.q \in RideReqs /\ c.d \in Drivers /\ needed[c.q] \in Nat
  BY DEF Callbacks, TypeInv, TypeOK
<1>2. PICK n \in SeatsNamed(c.q) :
        Become(h, [pc |-> "accept", q |-> c.q, d |-> c.d, gives |-> n, seats |-> needed[c.q]])
  BY DEF AcceptRequest, Begin, Become
<1> DEFINE t == [pc |-> "accept", q |-> c.q, d |-> c.d, gives |-> n, seats |-> needed[c.q]]
<1>3. t \in AcceptTask /\ t.pc = "accept" /\ t.q = c.q
  BY <1>1, NamedTyped DEF AcceptTask
<1> QED BY <1>1, <1>2, <1>3 DEF AcceptRequest, Acceptable

LEMMA OfferReads ==
  ASSUME TypeInv, NEW h \in Handlers, NEW q \in RideReqs, NEW d \in Drivers,
         CreateOffer(h, q, d)
  PROVE  /\ request[q].status \in Open /\ UNCHANGED <<rows, stripe, realtime>>
         /\ \E t \in DriverTask : t.pc = "offer" /\ t.q = q /\ Become(h, t)
<1>1. PICK n \in SeatsNamed(q) : Become(h, [pc |-> "offer", q |-> q, d |-> d, seats |-> n])
  BY DEF CreateOffer, Begin, Become
<1> DEFINE t == [pc |-> "offer", q |-> q, d |-> d, seats |-> n]
<1>2. t \in DriverTask /\ t.pc = "offer" /\ t.q = q
  BY NamedTyped DEF DriverTask
<1> QED BY <1>1, <1>2 DEF CreateOffer

LEMMA ArriveTyped ==
  ASSUME TypeInv, NEW h \in Handlers, Arrive(h)
  PROVE  TypeInv'
<1>1. ASSUME NEW q \in RideReqs, CreateRequest(h, q)
      PROVE  TypeInv'
  <2> DEFINE t == [pc |-> "offering", q |-> q]
  <2>1. t \in Tasks
    BY DEF Tasks, RequestTask
  <2>2. Become(h, t) /\ UNCHANGED payment
    BY <1>1 DEF CreateRequest, Begin, Become
  <2>3. req' \in [Handlers -> Tasks] /\ AcceptFits' /\ HookKnows'
    BY <2>1, <2>2, TaskTyped
  <2>4. request' \in [RideReqs -> RequestRow]
    BY <1>1 DEF CreateRequest, TypeInv, TypeOK, RequestRow, RequestStatus
  <2> QED BY <1>1, <2>3, <2>4
          DEF CreateRequest, TypeInv, TypeOK, PointsToTrip, seats, stripe, realtime
<1>2. ASSUME NEW q \in RideReqs, CancelRequest(h, q)
      PROVE  TypeInv'
  <2> DEFINE t == [pc |-> IF RefundsFirst(q) THEN "refund" ELSE "cancel", q |-> q]
  <2>1. t \in Tasks
    BY DEF Tasks, RequestTask
  <2> QED BY <1>2, <2>1, ReadTyped DEF CancelRequest, Begin, Become
<1>3. ASSUME NEW c \in Callbacks, AcceptRequest(h, c)
      PROVE  TypeInv'
  <2>1. PICK t \in AcceptTask : t.pc = "accept" /\ Become(h, t)
    BY <1>3, AcceptReads
  <2>2. t \in Tasks
    BY DEF Tasks
  <2> QED BY <1>3, <2>1, <2>2, AcceptReads, ReadTyped
<1>4. ASSUME NEW q \in RideReqs, NEW d \in Drivers, CreateOffer(h, q, d)
      PROVE  TypeInv'
  <2>1. PICK t \in DriverTask : t.pc = "offer" /\ Become(h, t)
    BY <1>4, OfferReads
  <2>2. t \in Tasks
    BY DEF Tasks
  <2> QED BY <1>4, <2>1, <2>2, OfferReads, ReadTyped
<1>5. ASSUME NEW q \in RideReqs, NEW d \in Drivers, AcceptOffer(h, q, d)
      PROVE  TypeInv'
  <2> DEFINE t == [pc |-> "acceptOffer", q |-> q, d |-> d, seen |-> avail[d],
                   seats |-> offered[q][d]]
  <2>1. t \in Tasks
    BY DEF Tasks, BookTask, TypeInv, TypeOK
  <2>2. t.seen >= t.seats /\ t.pc = "acceptOffer" /\ Become(h, t)
    BY <1>5 DEF AcceptOffer, SeatsLeft, Begin, Become
  <2> QED BY <1>5, <2>1, <2>2, ReadTyped DEF AcceptOffer
<1>6. ASSUME NEW q \in RideReqs, NEW d \in Drivers, NEW to \in Reopenable,
             CloseOffer(h, q, d, to)
      PROVE  TypeInv'
  <2> DEFINE t == [pc |-> "closeOffer", q |-> q, d |-> d, to |-> to]
  <2>1. t \in Tasks
    BY DEF Tasks, CloseTask
  <2> QED BY <1>6, <2>1, ReadTyped DEF CloseOffer, Begin, Become
<1>7. ASSUME NEW e \in Events, ReceiveSucceeded(h, e)
      PROVE  TypeInv'
  <2>1. PICK pc \in {"jitCreate", "dispatch"} :
          Become(h, [pc |-> pc, q |-> e.q, ack |-> {e}])
    BY <1>7 DEF ReceiveSucceeded, Begin, Become
  <2> DEFINE t == [pc |-> pc, q |-> e.q, ack |-> {e}]
  <2>2. t \in Tasks
    BY DEF Tasks, CreateTask, Events
  <2> QED BY <1>7, <2>1, <2>2, ReadTyped DEF ReceiveSucceeded
<1>8. ASSUME NEW e \in Events, ReceiveRefunded(h, e)
      PROVE  TypeInv'
  <2> DEFINE t == [pc |-> "hook", q |-> e.q, was |-> payment[e.q],
                   wasPay |-> PayOfTrip(e.q), ack |-> {e}]
  <2>1. e.q \in RideReqs /\ payment[e.q].status # "none"
    BY <1>8 DEF Events, ReceiveRefunded, RefundedIsNews
  <2>2. trips[e.q] \in Seq(Trip) /\ payment[e.q].trip \in DOMAIN trips[e.q]
    BY <2>1 DEF TypeInv, TypeOK, PointsToTrip
  <2>3. trips[e.q][payment[e.q].trip] \in Trip
    BY <2>2
  <2>4. PayOfTrip(e.q) \in {"unpaid", "paid", "refunded"}
    BY <2>3 DEF PayOfTrip, Trip
  <2>5. t \in HookTask
    BY <2>1, <2>4 DEF HookTask, TypeInv, TypeOK
  <2>6. t \in Tasks /\ t.pc = "hook" /\ payment[t.q].status # "none" /\ Become(h, t)
    BY <1>8, <2>1, <2>5 DEF Tasks, ReceiveRefunded, Begin, Become
  <2> QED BY <1>8, <2>6, ReadTyped DEF ReceiveRefunded
<1>9. ASSUME NEW q \in RideReqs, UpdateRequest(h, q)
      PROVE  TypeInv'
  <2>1. PICK n \in EditSeats[q] \cup {needed[q]} :
          Become(h, [pc |-> "edit", q |-> q, to |-> n])
    BY <1>9 DEF UpdateRequest, Begin, Become
  <2> DEFINE t == [pc |-> "edit", q |-> q, to |-> n]
  <2>2. t \in Tasks
    BY ParamsAssumption DEF Tasks, EditTask, TypeInv, TypeOK
  <2> QED BY <1>9, <2>1, <2>2, ReadTyped DEF UpdateRequest
<1> QED BY <1>1, <1>2, <1>3, <1>4, <1>5, <1>6, <1>7, <1>8, <1>9 DEF Arrive, Receive

LEMMA AcceptOfferTyped ==
  ASSUME TypeInv, NEW q \in RideReqs, NEW d \in Drivers
  PROVE  AcceptOfferOf(q, d) \in [RideReqs -> [Drivers -> OfferStatus]]
BY DEF AcceptOfferOf, TypeInv, TypeOK, OfferStatus

LEMMA AppendTyped ==
  ASSUME TypeInv, NEW q \in RideReqs, NEW t \in Trip,
         trips' = [trips EXCEPT ![q] = Append(@, t)]
  PROVE  /\ trips' \in [RideReqs -> Seq(Trip)]
         /\ \A p \in RideReqs : DOMAIN trips[p] \subseteq DOMAIN trips'[p]
         /\ Len(trips[q]) + 1 \in DOMAIN trips'[q]
         /\ Len(trips[q]) + 1 \in Nat
         /\ trips'[q][Len(trips[q]) + 1] = t
         /\ \A p \in RideReqs : \A i \in DOMAIN trips[p] : trips'[p][i] = trips[p][i]
         /\ \A p \in RideReqs : \A i \in DOMAIN trips'[p] :
              i \in DOMAIN trips[p] \/ (p = q /\ trips'[p][i] = t)
<1>1. trips \in [RideReqs -> Seq(Trip)]
  BY DEF TypeInv, TypeOK
<1>2. /\ Append(trips[q], t) \in Seq(Trip)
      /\ DOMAIN Append(trips[q], t) = 1..(Len(trips[q]) + 1)
      /\ DOMAIN trips[q] = 1..Len(trips[q])
      /\ Len(trips[q]) \in Nat
      /\ Append(trips[q], t)[Len(trips[q]) + 1] = t
      /\ \A i \in DOMAIN trips[q] : Append(trips[q], t)[i] = trips[q][i]
  BY <1>1
<1>3. \A p \in RideReqs : trips'[p] = IF p = q THEN Append(trips[q], t) ELSE trips[p]
  BY <1>1
<1>4. trips' \in [RideReqs -> Seq(Trip)]
  BY <1>1, <1>2
<1>5. \A i \in 1..(Len(trips[q]) + 1) : i \in 1..Len(trips[q]) \/ i = Len(trips[q]) + 1
  BY <1>2
<1> QED BY <1>2, <1>3, <1>4, <1>5

\* Marking a booking refunded changes no other thing of it and no other booking.
LEMMA RefundTyped ==
  ASSUME TypeInv, NEW q \in RideReqs, NEW i \in Nat,
         trips' \in {trips, [trips EXCEPT ![q][i].pay = "refunded"]}
  PROVE  /\ trips' \in [RideReqs -> Seq(Trip)]
         /\ \A p \in RideReqs :
              /\ DOMAIN trips'[p] = DOMAIN trips[p]
              /\ \A j \in DOMAIN trips[p] :
                   /\ trips'[p][j].status = trips[p][j].status
                   /\ \/ trips'[p][j].pay = trips[p][j].pay
                      \/ p = q /\ trips'[p][j].pay = "refunded"
<1>1. trips \in [RideReqs -> Seq(Trip)]
  BY DEF TypeInv, TypeOK
<1> DEFINE s == [trips[q] EXCEPT ![i].pay = "refunded"]
<1>2. /\ Len(trips[q]) \in Nat /\ DOMAIN trips[q] = 1..Len(trips[q])
      /\ \A j \in DOMAIN trips[q] : trips[q][j] \in Trip
  BY <1>1
<1>3. \A j \in DOMAIN trips[q] : s[j] = IF j = i THEN [trips[q][i] EXCEPT !.pay = "refunded"]
                                                ELSE trips[q][j]
  BY <1>2
<1>4. \A j \in DOMAIN trips[q] :
         /\ s[j] \in Trip /\ s[j].status = trips[q][j].status
         /\ s[j].pay = trips[q][j].pay \/ s[j].pay = "refunded"
  BY <1>2, <1>3 DEF Trip
<1>5. s \in [1..Len(trips[q]) -> Trip]
  BY <1>2, <1>4
<1>6. s \in Seq(Trip) /\ DOMAIN s = DOMAIN trips[q]
  BY <1>2, <1>5
<1>7. CASE trips' = trips
  BY <1>1, <1>7
<1>8. CASE trips' = [trips EXCEPT ![q][i].pay = "refunded"]
  <2>1. \A p \in RideReqs : trips'[p] = IF p = q THEN s ELSE trips[p]
    BY <1>1, <1>8
  <2>2. trips' \in [RideReqs -> Seq(Trip)]
    BY <1>1, <1>6, <1>8
  <2>3. ASSUME NEW p \in RideReqs
        PROVE  /\ DOMAIN trips'[p] = DOMAIN trips[p]
               /\ \A j \in DOMAIN trips[p] :
                    /\ trips'[p][j].status = trips[p][j].status
                    /\ \/ trips'[p][j].pay = trips[p][j].pay
                       \/ p = q /\ trips'[p][j].pay = "refunded"
    <3>1. CASE p = q
      BY <2>1, <3>1, <1>4, <1>6
    <3>2. CASE p # q
      BY <2>1, <3>2
    <3> QED BY <3>1, <3>2
  <2> QED BY <2>2, <2>3
<1> QED BY <1>7, <1>8

\* So do the writes of a request's status and of an intent's.
LEMMA StatusTyped ==
  ASSUME TypeInv, NEW q \in RideReqs, NEW status \in RequestStatus,
         request' = [request EXCEPT ![q].status = status]
  PROVE  request' \in [RideReqs -> RequestRow]
BY DEF TypeInv, TypeOK, RequestRow

LEMMA IntentTyped ==
  ASSUME TypeInv, NEW q \in RideReqs, NEW i \in {"open", "succeeded", "refunded"},
         intent' = [intent EXCEPT ![q] = i]
  PROVE  intent' \in [RideReqs -> {"none", "open", "succeeded", "refunded"}]
BY DEF TypeInv, TypeOK

LEMMA PaymentTyped ==
  ASSUME TypeInv, NEW q \in RideReqs, payment[q].status # "none",
         payment' = [payment EXCEPT ![q].status = "refunded"]
  PROVE  payment' \in [RideReqs -> PaymentRow]
         /\ \A p \in RideReqs : /\ payment'[p].trip = payment[p].trip
                                /\ payment[p].status # "none" <=> payment'[p].status # "none"
<1>1. payment \in [RideReqs -> PaymentRow]
  BY DEF TypeInv, TypeOK
<1>2. \A p \in RideReqs :
        payment'[p] = IF p = q THEN [payment[q] EXCEPT !.status = "refunded"] ELSE payment[p]
  BY <1>1
<1>3. payment' \in [RideReqs -> PaymentRow]
  BY <1>1 DEF PaymentRow
<1> QED BY <1>1, <1>2, <1>3 DEF PaymentRow

LEMMA ProceedTyped ==
  ASSUME TypeInv, NEW h \in Handlers, Proceed(h)
  PROVE  TypeInv'
<1> USE ParamsAssumption
<1>q. req[h] \in Tasks
  BY DEF TypeInv, TypeOK
<1>1. CASE MarkOffering(h)
  <2>1. req[h] \in RequestTask
    BY <1>1, <1>q, TaskKinds DEF MarkOffering, At
  <2> DEFINE t == [pc |-> "dispatch", q |-> req[h].q, ack |-> {}]
  <2>2. t \in Tasks
    BY <2>1 DEF Tasks, CreateTask, RequestTask
  <2>3. req' \in [Handlers -> Tasks] /\ AcceptFits' /\ HookKnows'
    BY <1>1, <2>2, TaskTyped DEF MarkOffering
  <2>4. request' \in [RideReqs -> RequestRow]
    BY <1>1, <2>1, StatusTyped DEF MarkOffering, RequestStatus, RequestTask
  <2> QED BY <1>1, <2>3, <2>4
          DEF MarkOffering, TypeInv, TypeOK, PointsToTrip, seats, stripe, realtime
<1>2. CASE Dispatch(h)
  <2>1. req[h] \in CreateTask
    BY <1>2, <1>q, TaskKinds DEF Dispatch, At
  <2>2. req[h].q \in RideReqs /\ req[h].ack \subseteq Events
    BY <2>1 DEF CreateTask
  <2>3. live' \subseteq RideReqs /\ acked' \subseteq Events
    BY <1>2, <2>2 DEF Dispatch, TypeInv, TypeOK
  <2> QED BY <1>2, <2>3, ReturnTyped DEF Dispatch, TypeInv, TypeOK, PointsToTrip, rows
<1>3. CASE CommitJitRequest(h)
  <2>1. req[h] \in CreateTask
    BY <1>3, <1>q, TaskKinds DEF CommitJitRequest, At
  <2> DEFINE t == [pc |-> "dispatch", q |-> req[h].q, ack |-> req[h].ack]
  <2>2. t \in Tasks
    BY <2>1 DEF Tasks, CreateTask
  <2>3. req' \in [Handlers -> Tasks] /\ AcceptFits' /\ HookKnows'
    BY <1>3, <2>2, TaskTyped DEF CommitJitRequest
  <2>4. request' \in [RideReqs -> RequestRow]
    BY <1>3, <2>1, StatusTyped DEF CommitJitRequest, RequestStatus, CreateTask
  <2> QED BY <1>3, <2>3, <2>4
          DEF CommitJitRequest, TypeInv, TypeOK, PointsToTrip, seats, stripe, realtime
<1>4. CASE ApplyRefunded(h)
  <2>1. req[h] \in HookTask
    BY <1>4, <1>q, TaskKinds DEF ApplyRefunded, At
  <2>2. /\ req[h].q \in RideReqs /\ req[h].was.trip \in Nat /\ req[h].ack \subseteq Events
        /\ payment[req[h].q].status # "none"
    BY <1>4, <2>1 DEF HookTask, PaymentRow, TypeInv, HookKnows, ApplyRefunded
  <2> DEFINE q == req[h].q
  <2>3. payment' \in [RideReqs -> PaymentRow]
        /\ \A p \in RideReqs : /\ payment'[p].trip = payment[p].trip
                               /\ payment[p].status # "none" <=> payment'[p].status # "none"
    <3>1. payment' \in {payment, [payment EXCEPT ![q].status = "refunded"]}
      BY <1>4 DEF ApplyRefunded
    <3>2. CASE payment' = payment
      BY <3>2 DEF TypeInv, TypeOK
    <3>3. CASE payment' = [payment EXCEPT ![q].status = "refunded"]
      BY <3>3, <2>2, PaymentTyped
    <3> QED BY <3>1, <3>2, <3>3
  <2>4. trips' \in {trips, [trips EXCEPT ![req[h].q][req[h].was.trip].pay = "refunded"]}
    BY <1>4 DEF ApplyRefunded
  <2>5. trips' \in [RideReqs -> Seq(Trip)]
        /\ \A p \in RideReqs : DOMAIN trips'[p] = DOMAIN trips[p]
    BY <2>2, <2>4, RefundTyped
  <2>6. req' \in [Handlers -> Tasks] /\ AcceptFits' /\ HookKnows'
    BY <1>4, <2>3, ReturnTyped DEF ApplyRefunded
  <2>7. PointsToTrip'
    BY <2>3, <2>5 DEF TypeInv, PointsToTrip
  <2>8. TypeOK'
    BY <1>4, <2>2, <2>3, <2>5, <2>6 DEF ApplyRefunded, TypeInv, TypeOK, seats, realtime
  <2> QED BY <2>6, <2>7, <2>8 DEF TypeInv
<1>5. CASE RefundRequest(h)
  <2>1. req[h] \in RequestTask
    BY <1>5, <1>q, TaskKinds DEF RefundRequest, At
  <2>2. req[h].q \in RideReqs
    BY <2>1 DEF RequestTask
  <2> DEFINE t == [pc |-> "cancel", q |-> req[h].q]
  <2>3. t \in Tasks
    BY <2>2 DEF Tasks, RequestTask
  <2>4. req' \in [Handlers -> Tasks] /\ AcceptFits' /\ HookKnows'
    BY <1>5, <2>3, TaskTyped DEF RefundRequest, rows
  <2>5. intent' \in [RideReqs -> {"none", "open", "succeeded", "refunded"}]
        /\ events' \subseteq Events
    <3>1. CASE UNCHANGED <<intent, events>>
      BY <3>1 DEF TypeInv, TypeOK
    <3>2. CASE /\ intent' = [intent EXCEPT ![req[h].q] = "refunded"]
               /\ events' = events \cup {[kind |-> "refunded", q |-> req[h].q]}
      BY <3>2, <2>2, IntentTyped DEF TypeInv, TypeOK, Events
    <3> QED BY <1>5, <3>1, <3>2 DEF RefundRequest
  <2> QED BY <1>5, <2>4, <2>5
          DEF RefundRequest, TypeInv, TypeOK, PointsToTrip, rows, realtime
<1>6. CASE CommitCancelRequest(h)
  <2>1. req[h] \in RequestTask
    BY <1>6, <1>q, TaskKinds DEF CommitCancelRequest, At
  <2> DEFINE t == [pc |-> "undispatch", q |-> req[h].q]
  <2>2. t \in Tasks
    BY <2>1 DEF Tasks, RequestTask
  <2>3. req' \in [Handlers -> Tasks] /\ AcceptFits' /\ HookKnows'
    BY <1>6, <2>2, TaskTyped DEF CommitCancelRequest
  <2>4. request' \in [RideReqs -> RequestRow]
    BY <1>6, <2>1, StatusTyped DEF CommitCancelRequest, RequestStatus, RequestTask
  <2> QED BY <1>6, <2>3, <2>4
          DEF CommitCancelRequest, TypeInv, TypeOK, PointsToTrip, seats, stripe, realtime
<1>7. CASE CancelDispatch(h)
  <2>1. live' \subseteq RideReqs
    BY <1>7 DEF CancelDispatch, TypeInv, TypeOK
  <2> QED BY <1>7, <2>1, ReturnTyped
          DEF CancelDispatch, TypeInv, TypeOK, PointsToTrip, rows, stripe
<1>8. CASE CommitAccept(h)
  <2>1. req[h] \in AcceptTask
    BY <1>8, <1>q, TaskKinds DEF CommitAccept, At
  <2>2. /\ req[h].q \in RideReqs /\ req[h].d \in Drivers
        /\ req[h].gives \in Nat /\ req[h].seats \in Nat
    BY <2>1 DEF AcceptTask
  <2> DEFINE t == [driver |-> req[h].d, status |-> "CONFIRMED", pay |-> "paid",
                   seats |-> req[h].seats]
             q == req[h].q
  <2>3. /\ request' \in [RideReqs -> RequestRow]
        /\ offer' \in [RideReqs -> [Drivers -> OfferStatus]]
        /\ offered' \in [RideReqs -> [Drivers -> Nat]]
    BY <1>8, <2>2, AcceptOfferTyped
    DEF CommitAccept, TypeInv, TypeOK, RequestRow, RequestStatus
  <2>4. /\ trips' \in [RideReqs -> Seq(Trip)] /\ payment' \in [RideReqs -> PaymentRow]
        /\ PointsToTrip'
        /\ \A p \in RideReqs : payment[p].status # "none" => payment'[p].status # "none"
    <3>1. CASE PaidUpfront(q)
      <4>1. /\ trips' = [trips EXCEPT ![q] = Append(@, t)] /\ t \in Trip
            /\ payment' = [payment EXCEPT ![q] =
                             [status |-> "succeeded", trip |-> Len(trips[q]) + 1]]
        BY <1>8, <3>1, <2>2 DEF CommitAccept, Trip
      <4>2. /\ trips' \in [RideReqs -> Seq(Trip)]
            /\ \A p \in RideReqs : DOMAIN trips[p] \subseteq DOMAIN trips'[p]
            /\ Len(trips[q]) + 1 \in DOMAIN trips'[q] /\ Len(trips[q]) + 1 \in Nat
        <5> HIDE DEF t
        <5> QED BY <4>1, <2>2, AppendTyped
      <4>3. payment' \in [RideReqs -> PaymentRow]
            /\ \A p \in RideReqs : payment'[p] =
                 IF p = q THEN [status |-> "succeeded", trip |-> Len(trips[q]) + 1]
                          ELSE payment[p]
        BY <4>1, <4>2 DEF TypeInv, TypeOK, PaymentRow
      <4>4. ASSUME NEW p \in RideReqs
            PROVE  /\ payment'[p].status # "none" => payment'[p].trip \in DOMAIN trips'[p]
                   /\ payment[p].status # "none" => payment'[p].status # "none"
        <5>1. CASE p = q
          BY <5>1, <4>2, <4>3
        <5>2. CASE p # q
          BY <5>2, <4>2, <4>3 DEF TypeInv, PointsToTrip
        <5> QED BY <5>1, <5>2
      <4> QED BY <4>2, <4>3, <4>4 DEF PointsToTrip
    <3>2. CASE ~PaidUpfront(q)
      BY <1>8, <3>2 DEF CommitAccept, TypeInv, TypeOK, PointsToTrip
    <3> QED BY <3>1, <3>2
  <2>5. req' \in [Handlers -> Tasks] /\ AcceptFits' /\ HookKnows'
    BY <1>8, <2>4, ReturnTyped DEF CommitAccept
  <2> QED BY <1>8, <2>3, <2>4, <2>5 DEF CommitAccept, TypeInv, TypeOK, stripe, realtime
<1>9. CASE FindOffer(h)
  <2>1. req[h] \in DriverTask
    BY <1>9, <1>q, TaskKinds DEF FindOffer, At
  <2>2. PICK pc \in {"insertOffer", "reopenOffer"} : Become(h, [req[h] EXCEPT !.pc = pc])
    BY <1>9 DEF FindOffer
  <2> DEFINE t == [req[h] EXCEPT !.pc = pc]
  <2>3. t \in Tasks /\ t.pc \notin {"acceptOffer", "hook"}
    BY <2>1 DEF Tasks, DriverTask
  <2> QED BY <1>9, <2>2, <2>3, ReadTyped DEF FindOffer
<1>10. CASE CommitOffer(h)
  <2>1. req[h] \in DriverTask
    BY <1>10, <1>q, TaskKinds DEF CommitOffer, At
  <2>2. /\ offer' \in [RideReqs -> [Drivers -> OfferStatus]]
        /\ offered' \in [RideReqs -> [Drivers -> Nat]]
    BY <1>10, <2>1 DEF CommitOffer, TypeInv, TypeOK, OfferStatus, DriverTask
  <2> QED BY <1>10, <2>2, ReturnTyped
          DEF CommitOffer, TypeInv, TypeOK, PointsToTrip, seats, stripe, realtime
<1>11. CASE CommitAcceptOffer(h)
  <2>1. req[h] \in BookTask
    BY <1>11, <1>q, TaskKinds DEF CommitAcceptOffer, At
  <2>2. /\ req[h].q \in RideReqs /\ req[h].d \in Drivers
        /\ req[h].seats \in Nat /\ req[h].seen - req[h].seats \in Nat
    BY <1>11, <2>1 DEF BookTask, CommitAcceptOffer, TypeInv, AcceptFits
  <2> DEFINE t == [driver |-> req[h].d, status |-> "ACCEPTED", pay |-> "unpaid",
                   seats |-> req[h].seats]
             q == req[h].q
  <2>3. /\ request' \in [RideReqs -> RequestRow]
        /\ offer' \in [RideReqs -> [Drivers -> OfferStatus]]
        /\ avail' \in [Drivers -> Nat]
    BY <1>11, <2>2, AcceptOfferTyped
    DEF CommitAcceptOffer, SeatsAfter, TypeInv, TypeOK, RequestRow, RequestStatus
  <2>4. trips' = [trips EXCEPT ![q] = Append(@, t)] /\ t \in Trip
    BY <1>11, <2>2 DEF CommitAcceptOffer, Trip
  <2>5. /\ trips' \in [RideReqs -> Seq(Trip)]
        /\ \A p \in RideReqs : DOMAIN trips[p] \subseteq DOMAIN trips'[p]
    BY <2>2, <2>4, AppendTyped
  <2>6. UNCHANGED payment /\ PointsToTrip'
    BY <1>11, <2>5 DEF CommitAcceptOffer, TypeInv, PointsToTrip
  <2>7. req' \in [Handlers -> Tasks] /\ AcceptFits' /\ HookKnows'
    BY <1>11, <2>6, ReturnTyped DEF CommitAcceptOffer
  <2> QED BY <1>11, <2>3, <2>5, <2>6, <2>7
          DEF CommitAcceptOffer, TypeInv, TypeOK, seats, stripe, realtime
<1>12. CASE CommitCloseOffer(h)
  <2>1. req[h] \in CloseTask
    BY <1>12, <1>q, TaskKinds DEF CommitCloseOffer, At
  <2>2. offer' \in [RideReqs -> [Drivers -> OfferStatus]]
    BY <1>12, <2>1
    DEF CommitCloseOffer, TypeInv, TypeOK, OfferStatus, CloseTask, Reopenable
  <2> QED BY <1>12, <2>2, ReturnTyped
          DEF CommitCloseOffer, TypeInv, TypeOK, PointsToTrip, seats, stripe, realtime
<1>13. CASE CommitUpdateRequest(h)
  <2>1. req[h] \in EditTask
    BY <1>13, <1>q, TaskKinds DEF CommitUpdateRequest, At
  <2>2. needed' \in [RideReqs -> Nat]
    BY <1>13, <2>1 DEF CommitUpdateRequest, TypeInv, TypeOK, EditTask
  <2> QED BY <1>13, <2>2, ReturnTyped
          DEF CommitUpdateRequest, TypeInv, TypeOK, PointsToTrip, stripe, realtime
<1> QED BY <1>1, <1>2, <1>3, <1>4, <1>5, <1>6, <1>7, <1>8, <1>9, <1>10, <1>11, <1>12,
           <1>13
        DEF Proceed

LEMMA TypeInit == Init => TypeInv
<1> SUFFICES ASSUME Init PROVE TypeInv
  OBVIOUS
<1> USE ParamsAssumption
<1>1. << >> \in Seq(Trip)
  OBVIOUS
<1>2. trips \in [RideReqs -> Seq(Trip)]
  BY <1>1 DEF Init
<1>3. TypeOK
  BY <1>2 DEF Init, TypeOK, RequestRow, RequestStatus, OfferStatus, PaymentRow, Tasks, Idle
<1>4. AcceptFits /\ HookKnows /\ PointsToTrip
  BY DEF Init, AcceptFits, HookKnows, PointsToTrip, At, Idle
<1> QED BY <1>3, <1>4 DEF TypeInv

LEMMA TypeStep ==
  ASSUME TypeInv, [Next]_vars
  PROVE  TypeInv'
<1>1. ASSUME NEW h \in Handlers, Fail(h)
      PROVE  TypeInv'
  <2>1. UNCHANGED <<request, needed, offer, offered, avail, trips, payment, intent, events,
                    acked, live, callbacks>>
    BY <1>1 DEF Fail, rows, stripe, realtime
  <2> QED BY <1>1, <2>1, ReturnTyped DEF Fail, TypeInv, TypeOK, PointsToTrip
<1>2. ASSUME NEW q \in RideReqs, CreateJitIntent(q) \/ PayJitIntent(q)
      PROVE  TypeInv'
  <2>1. /\ intent' \in [RideReqs -> {"none", "open", "succeeded", "refunded"}]
        /\ events' \subseteq Events
    <3>1. CASE CreateJitIntent(q)
      BY <3>1, IntentTyped DEF CreateJitIntent, TypeInv, TypeOK
    <3>2. CASE PayJitIntent(q)
      BY <3>2, IntentTyped DEF PayJitIntent, TypeInv, TypeOK, Events
    <3> QED BY <1>2, <3>1, <3>2
  <2>2. UNCHANGED <<request, needed, offer, offered, avail, trips, payment, acked, live,
                    callbacks, req>>
    BY <1>2 DEF CreateJitIntent, PayJitIntent, rows, realtime
  <2> QED BY <2>1, <2>2 DEF TypeInv, TypeOK, AcceptFits, HookKnows, PointsToTrip, At
<1>3. ASSUME NEW e \in Events, AckEvent(e)
      PROVE  TypeInv'
  <2>1. /\ acked' \subseteq Events
        /\ UNCHANGED <<request, needed, offer, offered, avail, trips, payment, intent,
                       events, live, callbacks, req>>
    BY <1>3 DEF AckEvent, TypeInv, TypeOK, rows, realtime
  <2> QED BY <2>1 DEF TypeInv, TypeOK, AcceptFits, HookKnows, PointsToTrip, At
<1>4. ASSUME NEW q \in RideReqs, NEW d \in Drivers, DriverTakes(q, d)
      PROVE  TypeInv'
  <2>1. /\ callbacks' \subseteq Callbacks
        /\ UNCHANGED <<request, needed, offer, offered, avail, trips, payment, intent,
                       events, acked, live, req>>
    BY <1>4 DEF DriverTakes, TypeInv, TypeOK, rows, stripe, Callbacks
  <2> QED BY <2>1 DEF TypeInv, TypeOK, AcceptFits, HookKnows, PointsToTrip, At
<1>5. CASE UNCHANGED vars
  BY <1>5 DEF vars, TypeInv, TypeOK, AcceptFits, HookKnows, PointsToTrip, At
<1> QED BY <1>1, <1>2, <1>3, <1>4, <1>5, ArriveTyped, ProceedTyped DEF Next

\* The rows, the events and the handlers of ride requests keep their types
\* whatever overlaps; in particular seatsAvailable of a ride whose offers are
\* accepted concurrently never goes below zero.
THEOREM TypeCorrect == Spec => []TypeOK
<1>1. TypeInv => TypeOK
  BY DEF TypeInv
<1> QED BY <1>1, TypeInit, TypeStep, PTL DEF Spec

-----------------------------------------------------------------------------
(* The money.  What Stripe announces is true, and so is what a handler has *)
(* learnt before its commit: both stay true, because a captured intent     *)
(* stays captured, a refunded one refunded, and no request is deleted.     *)

EventsTrue ==
  \A e \in events : /\ Captured(e.q)
                    /\ e.kind = "refunded" => intent[e.q] = "refunded"

OnlyJitPays == \A q \in RideReqs : intent[q] # "none" => ModeOf[q] = "JIT"

\* The requests that the payments among the events of A are for exist.
Created(A) == \A e \in A : e.kind = "succeeded" => request[e.q].status # "none"

TaskTrue(t) ==
  /\ t.pc = "offering" => ModeOf[t.q] = "OFFER"
  /\ t.pc = "jitCreate" => Captured(t.q) /\ \A e \in t.ack : e.q = t.q
  /\ t.pc \in {"dispatch", "hook"} => Created(t.ack)
  /\ t.pc \in {"refund", "cancel", "accept", "acceptOffer"} => request[t.q].status # "none"
  /\ t.pc = "cancel" => (ModeOf[t.q] = "JIT" => intent[t.q] = "refunded")
  /\ t.pc = "hook" => intent[t.q] = "refunded"

HandlersTrue == \A h \in Handlers : TaskTrue(req[h])

MoneyInv == PaidBeforeRequest /\ CancelledIsRefunded /\ TripsFollowStripe

SafeInv == MoneyInv /\ EventsTrue /\ OnlyJitPays /\ HandlersTrue

\* What no step undoes.
Onward ==
  \A q \in RideReqs :
    /\ Captured(q) => Captured(q)'
    /\ intent[q] = "refunded" => intent'[q] = "refunded"
    /\ request[q].status # "none" => request'[q].status # "none"

LEMMA StayCreated ==
  ASSUME Onward, NEW A \in SUBSET Events, Created(A)
  PROVE  Created(A)'
BY DEF Onward, Events, Created

\* A step that acknowledges nothing for which no request exists.
LEMMA PaidStays ==
  ASSUME TypeInv, PaidBeforeRequest, Onward, acked' \subseteq Events,
         \A e \in acked' \ acked : e.kind = "succeeded" => request'[e.q].status # "none",
         \A q \in RideReqs : request'[q].status # "none" =>
           request[q].status # "none" \/ (ModeOf[q] = "JIT" => Captured(q))
  PROVE  PaidBeforeRequest'
<1>1. ASSUME NEW e \in acked', e.kind = "succeeded"
      PROVE  request'[e.q].status # "none"
  BY <1>1 DEF PaidBeforeRequest, Onward, Events
<1>2. ASSUME NEW q \in RideReqs, ModeOf[q] = "JIT", request'[q].status # "none"
      PROVE  Captured(q)'
  BY <1>2 DEF PaidBeforeRequest, Onward
<1> QED BY <1>1, <1>2 DEF PaidBeforeRequest

LEMMA TaskStaysTrue ==
  ASSUME Onward, NEW t \in Tasks, TaskTrue(t)
  PROVE  TaskTrue(t)'
<1>1. CASE t = Idle
  BY <1>1 DEF TaskTrue, Idle
<1>2. CASE t # Idle
  <2>1. t.q \in RideReqs
    BY <1>2 DEF Tasks, RequestTask, CreateTask, HookTask, DriverTask, AcceptTask, BookTask,
              CloseTask, EditTask
  <2>2. t.pc \in {"dispatch", "hook"} => Created(t.ack)'
    <3>1. t.pc \in {"dispatch", "hook"} => t.ack \in SUBSET Events /\ Created(t.ack)
      BY TaskKinds DEF CreateTask, HookTask, TaskTrue
    <3> QED BY <3>1, StayCreated
  <2> QED BY <2>1, <2>2 DEF TaskTrue, Onward
<1> QED BY <1>1, <1>2

\* A step of a handler to a true task leaves the others true.
LEMMA HandlersStayTrue ==
  ASSUME TypeInv, HandlersTrue, Onward, NEW h \in Handlers, NEW t \in Tasks,
         Become(h, t), TaskTrue(t)'
  PROVE  HandlersTrue'
<1>1. \A g \in Handlers : req[g] \in Tasks /\ req'[g] = IF g = h THEN t ELSE req[g]
  BY DEF TypeInv, TypeOK, Become
<1>2. ASSUME NEW g \in Handlers
      PROVE  TaskTrue(req[g])'
  <2>1. CASE g = h
    <3>1. req'[g] = t
      BY <1>1, <2>1
    <3> QED BY <3>1 DEF TaskTrue
  <2>2. CASE g # h
    <3>1. req'[g] = req[g] /\ req[g] \in Tasks /\ TaskTrue(req[g])
      BY <1>1, <2>2 DEF HandlersTrue
    <3> DEFINE u == req[g]
    <3>2. \A v \in Tasks : TaskTrue(v) => TaskTrue(v)'
      BY TaskStaysTrue
    <3> QED BY <3>1, <3>2 DEF TaskTrue
  <2> QED BY <2>1, <2>2
<1> QED BY <1>2 DEF HandlersTrue

LEMMA IdleTrue == Idle \in Tasks /\ TaskTrue(Idle) /\ TaskTrue(Idle)'
BY DEF Tasks, Idle, TaskTrue

LEMMA ReadSafe ==
  ASSUME TypeInv, SafeInv, NEW h \in Handlers, NEW t \in Tasks, Become(h, t), TaskTrue(t),
         UNCHANGED <<rows, stripe>>
  PROVE  SafeInv'
<1>1. UNCHANGED <<request, trips, payment, intent, events, acked>>
  BY DEF rows, stripe
<1>2. Onward
  BY <1>1 DEF Onward, Captured
<1>3. TaskTrue(t)'
  BY <1>2, TaskStaysTrue
<1>4. HandlersTrue'
  BY <1>2, <1>3, HandlersStayTrue DEF SafeInv
<1>5. MoneyInv' /\ EventsTrue' /\ OnlyJitPays'
  BY <1>1 DEF SafeInv, MoneyInv, EventsTrue, OnlyJitPays, PaidBeforeRequest,
              CancelledIsRefunded, TripsFollowStripe, Captured
<1> QED BY <1>4, <1>5 DEF SafeInv

\* A step that touches offers, the dispatcher or acknowledgements only.
LEMMA OfferSafe ==
  ASSUME TypeInv, SafeInv, NEW h \in Handlers, Become(h, Idle),
         acked' \subseteq Events, Created(acked' \ acked),
         UNCHANGED <<request, trips, payment, intent, events>>
  PROVE  SafeInv'
<1>1. Onward
  BY DEF Onward, Captured
<1>2. HandlersTrue'
  BY <1>1, IdleTrue, HandlersStayTrue DEF SafeInv
<1>3. PaidBeforeRequest'
  BY <1>1, PaidStays DEF SafeInv, MoneyInv, Created
<1>4. CancelledIsRefunded' /\ TripsFollowStripe' /\ EventsTrue' /\ OnlyJitPays'
  BY DEF SafeInv, MoneyInv, EventsTrue, OnlyJitPays, CancelledIsRefunded,
         TripsFollowStripe, Captured
<1> QED BY <1>2, <1>3, <1>4 DEF SafeInv, MoneyInv

LEMMA IdleSafe ==
  ASSUME TypeInv, SafeInv, NEW h \in Handlers, Become(h, Idle),
         acked' \subseteq Events, Created(acked' \ acked),
         UNCHANGED <<rows, intent, events>>
  PROVE  SafeInv'
BY OfferSafe DEF rows

LEMMA SameHandlers ==
  ASSUME TypeInv, HandlersTrue, Onward, UNCHANGED req
  PROVE  HandlersTrue'
<1>1. ASSUME NEW g \in Handlers
      PROVE  TaskTrue(req[g])'
  <2>1. req'[g] = req[g] /\ req[g] \in Tasks /\ TaskTrue(req[g])
    BY DEF TypeInv, TypeOK, HandlersTrue
  <2>2. \A v \in Tasks : TaskTrue(v) => TaskTrue(v)'
    BY TaskStaysTrue
  <2> QED BY <2>1, <2>2 DEF TaskTrue
<1> QED BY <1>1 DEF HandlersTrue

\* A write of a request's status, and of nothing else.
LEMMA StatusSafe ==
  ASSUME TypeInv, SafeInv, NEW q \in RideReqs, NEW status \in RequestStatus,
         status # "none", request' = [request EXCEPT ![q].status = status],
         ModeOf[q] = "JIT" => Captured(q),
         ModeOf[q] = "JIT" /\ status = "CANCELLED" => intent[q] = "refunded",
         UNCHANGED <<trips, payment, stripe>>,
         NEW h \in Handlers, NEW t \in Tasks, Become(h, t), TaskTrue(t)'
  PROVE  SafeInv'
<1>1. UNCHANGED <<trips, payment, intent, events, acked>>
  BY DEF stripe
<1>2. \A p \in RideReqs :
        request'[p].status = IF p = q THEN status ELSE request[p].status
  BY DEF TypeInv, TypeOK, RequestRow
<1>3. Onward
  BY <1>1, <1>2 DEF Onward, Captured
<1>4. HandlersTrue'
  BY <1>3, HandlersStayTrue DEF SafeInv
<1>5. PaidBeforeRequest'
  BY <1>1, <1>2, <1>3, PaidStays DEF SafeInv, MoneyInv, TypeInv, TypeOK
<1>7. CancelledIsRefunded'
  BY <1>1, <1>2 DEF SafeInv, MoneyInv, CancelledIsRefunded
<1>6. TripsFollowStripe' /\ EventsTrue' /\ OnlyJitPays'
  BY <1>1 DEF SafeInv, MoneyInv, EventsTrue, OnlyJitPays, TripsFollowStripe, Captured
<1> QED BY <1>4, <1>5, <1>6, <1>7 DEF SafeInv, MoneyInv

\* A commit that books the request: the trip is appended and, for a JIT request,
\* the Payment row points to it.
LEMMA BookingSafe ==
  ASSUME TypeInv, SafeInv, NEW h \in Handlers, NEW q \in RideReqs, NEW d \in Drivers,
         request[q].status # "none",
         request' = [request EXCEPT ![q] = [status |-> "ACCEPTED", driver |-> d]],
         NEW t \in Trip,
         \/ /\ t.pay = "unpaid" /\ trips' = [trips EXCEPT ![q] = Append(@, t)]
            /\ UNCHANGED payment
         \/ /\ t.pay = "paid" /\ t.status = "CONFIRMED" /\ ModeOf[q] = "JIT"
            /\ trips' = [trips EXCEPT ![q] = Append(@, t)]
            /\ payment' = [payment EXCEPT ![q] =
                             [status |-> "succeeded", trip |-> Len(trips[q]) + 1]]
         \/ UNCHANGED <<trips, payment>>,
         Return(h), UNCHANGED stripe
  PROVE  SafeInv'
<1>1. UNCHANGED <<intent, events, acked>>
  BY DEF stripe
<1>2. \A p \in RideReqs :
        request'[p].status = IF p = q THEN "ACCEPTED" ELSE request[p].status
  BY DEF TypeInv, TypeOK
<1>3. Onward
  BY <1>1, <1>2 DEF Onward, Captured
<1>4. HandlersTrue'
  BY <1>3, IdleTrue, HandlersStayTrue DEF SafeInv, Return, Become
<1>5. PaidBeforeRequest'
  BY <1>1, <1>2, <1>3, PaidStays DEF SafeInv, MoneyInv, TypeInv, TypeOK
<1>8. CancelledIsRefunded'
  BY <1>1, <1>2 DEF SafeInv, MoneyInv, CancelledIsRefunded
<1>6. EventsTrue' /\ OnlyJitPays'
  BY <1>1 DEF SafeInv, EventsTrue, OnlyJitPays, Captured
<1>7. TripsFollowStripe'
  <2>1. CASE UNCHANGED <<trips, payment>>
    BY <1>1, <2>1 DEF SafeInv, MoneyInv, TripsFollowStripe, Captured
  <2>2. CASE trips' = [trips EXCEPT ![q] = Append(@, t)] /\ ~UNCHANGED <<trips, payment>>
    <3>1. /\ Len(trips[q]) + 1 \in DOMAIN trips'[q]
          /\ trips'[q][Len(trips[q]) + 1] = t
          /\ \A p \in RideReqs : DOMAIN trips[p] \subseteq DOMAIN trips'[p]
          /\ \A p \in RideReqs : \A i \in DOMAIN trips[p] : trips'[p][i] = trips[p][i]
          /\ \A p \in RideReqs : \A i \in DOMAIN trips'[p] :
               i \in DOMAIN trips[p] \/ (p = q /\ trips'[p][i] = t)
      BY <2>2, AppendTyped
    <3>2. t.pay = "unpaid" \/ (t.pay = "paid" /\ Captured(q))
      BY <2>2 DEF SafeInv, MoneyInv, PaidBeforeRequest
    <3>3. ASSUME NEW p \in RideReqs, NEW i \in DOMAIN trips'[p]
          PROVE  /\ trips'[p][i].pay = "paid" => Captured(p)
                 /\ trips'[p][i].pay = "refunded" => intent[p] = "refunded"
      <4>1. CASE i \in DOMAIN trips[p]
        BY <3>1, <4>1 DEF SafeInv, MoneyInv, TripsFollowStripe
      <4>2. CASE p = q /\ trips'[p][i] = t
        BY <3>2, <4>2
      <4> QED BY <3>1, <4>1, <4>2
    <3>4. ASSUME NEW p \in RideReqs
          PROVE  /\ payment'[p].status # "none" =>
                      /\ Captured(p)
                      /\ payment'[p].trip \in DOMAIN trips'[p]
                      /\ trips'[p][payment'[p].trip].status = "CONFIRMED"
                 /\ payment'[p].status = "refunded" => intent[p] = "refunded"
      <4>1. CASE payment'[p] = payment[p]
        BY <3>1, <4>1 DEF SafeInv, MoneyInv, TripsFollowStripe
      <4>2. CASE payment'[p] # payment[p]
        <5>1. /\ p = q /\ payment'[q] = [status |-> "succeeded", trip |-> Len(trips[q]) + 1]
              /\ t.pay = "paid" /\ t.status = "CONFIRMED"
          BY <2>2, <4>2 DEF TypeInv, TypeOK
        <5> QED BY <3>1, <3>2, <5>1
      <4> QED BY <4>1, <4>2
    <3> QED BY <1>1, <3>3, <3>4 DEF TripsFollowStripe, Captured
  <2> QED BY <2>1, <2>2
<1> QED BY <1>4, <1>5, <1>6, <1>7, <1>8 DEF SafeInv, MoneyInv

\* Stripe's state moves on: an intent is captured, or given back.
LEMMA IntentSafe ==
  ASSUME TypeInv, SafeInv, NEW q \in RideReqs, ModeOf[q] = "JIT",
         NEW kind \in {"succeeded", "refunded"},
         intent[q] = "refunded" => kind = "refunded",
         intent' = [intent EXCEPT ![q] = kind],
         events' = events \cup {[kind |-> kind, q |-> q]},
         UNCHANGED <<rows, acked>>
  PROVE  /\ Onward /\ MoneyInv' /\ EventsTrue' /\ OnlyJitPays'
         /\ intent'[q] = kind
<1>1. UNCHANGED <<request, trips, payment, acked>>
  BY DEF rows
<1>2. \A p \in RideReqs : intent'[p] = IF p = q THEN kind ELSE intent[p]
  BY DEF TypeInv, TypeOK
<1>3. \A p \in RideReqs : /\ Captured(p) => Captured(p)'
                          /\ intent[p] = "refunded" => intent'[p] = "refunded"
  BY <1>2 DEF Captured
<1>4. Onward
  BY <1>1, <1>3 DEF Onward
<1>5. PaidBeforeRequest' /\ CancelledIsRefunded'
  BY <1>1, <1>3, <1>4, PaidStays DEF SafeInv, MoneyInv, CancelledIsRefunded, TypeInv, TypeOK
<1>6. TripsFollowStripe'
  BY <1>1, <1>3 DEF SafeInv, MoneyInv, TripsFollowStripe
<1>7. EventsTrue'
  <2>1. \A e \in events : e.q \in RideReqs
    BY DEF TypeInv, TypeOK, Events
  <2> QED BY <1>2, <1>3, <2>1 DEF SafeInv, EventsTrue, Captured
<1>8. OnlyJitPays'
  BY <1>2 DEF SafeInv, OnlyJitPays
<1> QED BY <1>2, <1>4, <1>5, <1>6, <1>7, <1>8 DEF MoneyInv

LEMMA ArriveSafe ==
  ASSUME TypeInv, SafeInv, NEW h \in Handlers, Arrive(h)
  PROVE  SafeInv'
<1>1. ASSUME NEW q \in RideReqs, CreateRequest(h, q)
      PROVE  SafeInv'
  <2> DEFINE t == [pc |-> "offering", q |-> q]
  <2>1. t \in Tasks /\ TaskTrue(t)' /\ ModeOf[q] = "OFFER"
    BY <1>1 DEF Tasks, RequestTask, TaskTrue, CreateRequest
  <2> QED BY <1>1, <2>1, StatusSafe DEF CreateRequest, Begin, Become, RequestStatus
<1>2. ASSUME NEW q \in RideReqs, CancelRequest(h, q)
      PROVE  SafeInv'
  <2> DEFINE t == [pc |-> IF RefundsFirst(q) THEN "refund" ELSE "cancel", q |-> q]
  <2>1. t \in Tasks
    BY DEF Tasks, RequestTask
  <2>2. TaskTrue(t)
    BY <1>2 DEF TaskTrue, CancelRequest, Cancellable, Open, RefundsFirst
  <2> QED BY <1>2, <2>1, <2>2, ReadSafe DEF CancelRequest, Begin, Become
<1>3. ASSUME NEW c \in Callbacks, AcceptRequest(h, c)
      PROVE  SafeInv'
  <2>1. PICK t \in AcceptTask : t.pc = "accept" /\ t.q = c.q /\ Become(h, t)
    BY <1>3, AcceptReads
  <2>2. t \in Tasks
    BY DEF Tasks
  <2>3. TaskTrue(t)
    BY <1>3, <2>1, AcceptReads DEF TaskTrue, Open
  <2> QED BY <1>3, <2>1, <2>2, <2>3, AcceptReads, ReadSafe
<1>4. ASSUME NEW q \in RideReqs, NEW d \in Drivers, CreateOffer(h, q, d)
      PROVE  SafeInv'
  <2>1. PICK t \in DriverTask : t.pc = "offer" /\ Become(h, t)
    BY <1>4, OfferReads
  <2>2. t \in Tasks /\ TaskTrue(t)
    BY <2>1 DEF Tasks, TaskTrue
  <2> QED BY <1>4, <2>1, <2>2, OfferReads, ReadSafe
<1>5. ASSUME NEW q \in RideReqs, NEW d \in Drivers, AcceptOffer(h, q, d)
      PROVE  SafeInv'
  <2> DEFINE t == [pc |-> "acceptOffer", q |-> q, d |-> d, seen |-> avail[d],
                   seats |-> offered[q][d]]
  <2>1. t \in Tasks
    BY DEF Tasks, BookTask, TypeInv, TypeOK
  <2>2. TaskTrue(t)
    BY <1>5 DEF TaskTrue, AcceptOffer, Open
  <2> QED BY <1>5, <2>1, <2>2, ReadSafe DEF AcceptOffer, Begin, Become
<1>6. ASSUME NEW q \in RideReqs, NEW d \in Drivers, NEW to \in Reopenable,
             CloseOffer(h, q, d, to)
      PROVE  SafeInv'
  <2> DEFINE t == [pc |-> "closeOffer", q |-> q, d |-> d, to |-> to]
  <2>1. t \in Tasks /\ TaskTrue(t)
    BY DEF Tasks, CloseTask, TaskTrue
  <2> QED BY <1>6, <2>1, ReadSafe DEF CloseOffer, Begin, Become
<1>7. ASSUME NEW e \in Events, ReceiveSucceeded(h, e)
      PROVE  SafeInv'
  <2>1. PICK pc \in {"jitCreate", "dispatch"} :
          /\ Become(h, [pc |-> pc, q |-> e.q, ack |-> {e}])
          /\ pc = "dispatch" => request[e.q].status # "none"
    BY <1>7 DEF ReceiveSucceeded, Begin, Become, Redispatchable, Open
  <2> DEFINE t == [pc |-> pc, q |-> e.q, ack |-> {e}]
  <2>2. t \in Tasks
    BY DEF Tasks, CreateTask, Events
  <2>3. TaskTrue(t)
    BY <1>7, <2>1 DEF TaskTrue, ReceiveSucceeded, SafeInv, EventsTrue, Created
  <2> QED BY <1>7, <2>1, <2>2, <2>3, ReadSafe DEF ReceiveSucceeded
<1>8. ASSUME NEW e \in Events, ReceiveRefunded(h, e)
      PROVE  SafeInv'
  <2> DEFINE t == [pc |-> "hook", q |-> e.q, was |-> payment[e.q],
                   wasPay |-> PayOfTrip(e.q), ack |-> {e}]
  <2>1. Become(h, t) /\ t \in Tasks
    <3>1. Become(h, t)
      BY <1>8 DEF ReceiveRefunded, Begin, Become
    <3>2. TypeInv'
      BY <1>8, ArriveTyped DEF Arrive, Receive
    <3>3. req'[h] = t /\ req'[h] \in Tasks
      BY <3>1, <3>2 DEF Become, TypeInv, TypeOK
    <3> QED BY <3>1, <3>3
  <2>2. TaskTrue(t)
    BY <1>8 DEF TaskTrue, ReceiveRefunded, SafeInv, EventsTrue, Created
  <2> QED BY <1>8, <2>1, <2>2, ReadSafe DEF ReceiveRefunded
<1>9. ASSUME NEW q \in RideReqs, UpdateRequest(h, q)
      PROVE  SafeInv'
  <2>1. PICK n \in EditSeats[q] \cup {needed[q]} :
          Become(h, [pc |-> "edit", q |-> q, to |-> n])
    BY <1>9 DEF UpdateRequest, Begin, Become
  <2> DEFINE t == [pc |-> "edit", q |-> q, to |-> n]
  <2>2. t \in Tasks /\ TaskTrue(t)
    BY ParamsAssumption DEF Tasks, EditTask, TypeInv, TypeOK, TaskTrue
  <2> QED BY <1>9, <2>1, <2>2, ReadSafe DEF UpdateRequest
<1> QED BY <1>1, <1>2, <1>3, <1>4, <1>5, <1>6, <1>7, <1>8, <1>9 DEF Arrive, Receive

LEMMA ProceedSafe ==
  ASSUME TypeInv, SafeInv, NEW h \in Handlers, Proceed(h)
  PROVE  SafeInv'
<1>q. req[h] \in Tasks /\ TaskTrue(req[h])
  BY DEF TypeInv, TypeOK, SafeInv, HandlersTrue
<1>1. CASE MarkOffering(h)
  <2>1. req[h] \in RequestTask /\ ModeOf[req[h].q] = "OFFER"
    BY <1>1, <1>q, TaskKinds DEF MarkOffering, At, TaskTrue
  <2>p. PICK q \in RideReqs : q = req[h].q
    BY <2>1 DEF RequestTask
  <2> DEFINE t == [pc |-> "dispatch", q |-> q, ack |-> {}]
  <2>2. t \in Tasks /\ TaskTrue(t)'
    BY DEF Tasks, CreateTask, TaskTrue, Created
  <2> QED BY <1>1, <2>1, <2>p, <2>2, StatusSafe DEF MarkOffering, RequestStatus
<1>2. CASE Dispatch(h)
  <2>1. UNCHANGED <<rows, intent, events>> /\ Become(h, Idle) /\ acked' = acked \cup req[h].ack
    BY <1>2 DEF Dispatch, Return, Become
  <2>2. req[h].ack \subseteq Events /\ Created(req[h].ack)
    BY <1>2, <1>q, TaskKinds DEF Dispatch, At, CreateTask, TaskTrue
  <2>3. acked' \subseteq Events /\ Created(acked' \ acked)
    BY <2>1, <2>2 DEF TypeInv, TypeOK, Created
  <2> QED BY <2>1, <2>3, IdleSafe
<1>3. CASE CommitJitRequest(h)
  <2>1. /\ req[h] \in CreateTask /\ Captured(req[h].q)
        /\ \A e \in req[h].ack : e.q = req[h].q
    BY <1>3, <1>q, TaskKinds DEF CommitJitRequest, At, TaskTrue
  <2>p. PICK q \in RideReqs, ack \in SUBSET Events : q = req[h].q /\ ack = req[h].ack
    BY <2>1 DEF CreateTask
  <2> DEFINE t == [pc |-> "dispatch", q |-> q, ack |-> ack]
  <2>3. request'[q].status = "OFFERING"
    BY <1>3, <2>p DEF CommitJitRequest, TypeInv, TypeOK, RequestRow
  <2>2. t \in Tasks /\ TaskTrue(t)'
    BY <2>1, <2>p, <2>3 DEF Tasks, CreateTask, TaskTrue, Created
  <2> QED BY <1>3, <2>1, <2>p, <2>2, StatusSafe DEF CommitJitRequest, RequestStatus
<1>4. CASE ApplyRefunded(h)
  <2>1. req[h] \in HookTask /\ intent[req[h].q] = "refunded"
    BY <1>4, <1>q, TaskKinds DEF ApplyRefunded, At, TaskTrue
  <2> DEFINE q == req[h].q
  <2>2. q \in RideReqs /\ req[h].was.trip \in Nat /\ payment[q].status # "none"
    BY <1>4, <2>1 DEF HookTask, PaymentRow, TypeInv, HookKnows, ApplyRefunded
  <2>3. UNCHANGED <<request, intent, events>> /\ Become(h, Idle)
    BY <1>4 DEF ApplyRefunded, Return, Become
  <2>4. Onward
    BY <2>3 DEF Onward, Captured
  <2>5. HandlersTrue'
    BY <2>3, <2>4, IdleTrue, HandlersStayTrue DEF SafeInv
  <2>a. PaidBeforeRequest'
    <3>1. acked' = acked \cup req[h].ack
      BY <1>4 DEF ApplyRefunded
    <3>2. req[h].ack \subseteq Events /\ Created(req[h].ack)
      BY <1>4, <1>q, <2>1 DEF ApplyRefunded, At, HookTask, TaskTrue
    <3>3. acked' \subseteq Events
      BY <3>1, <3>2 DEF TypeInv, TypeOK
    <3> QED BY <2>3, <2>4, <3>1, <3>2, <3>3, PaidStays DEF SafeInv, MoneyInv, Created
  <2>6. PaidBeforeRequest' /\ CancelledIsRefunded' /\ EventsTrue' /\ OnlyJitPays'
    BY <2>3, <2>a DEF SafeInv, MoneyInv, CancelledIsRefunded, EventsTrue, OnlyJitPays, Captured
  <2>7. /\ \A p \in RideReqs :
             /\ payment'[p].trip = payment[p].trip
             /\ payment[p].status # "none" <=> payment'[p].status # "none"
             /\ payment'[p].status = payment[p].status \/ p = q
    <3>1. payment' \in {payment, [payment EXCEPT ![q].status = "refunded"]}
      BY <1>4 DEF ApplyRefunded
    <3>2. \A p \in RideReqs : p # q => payment'[p] = payment[p]
      BY <3>1 DEF TypeInv, TypeOK
    <3>3. CASE payment' = [payment EXCEPT ![q].status = "refunded"]
      <4>1. \A p \in RideReqs :
              /\ payment'[p].trip = payment[p].trip
              /\ payment[p].status # "none" <=> payment'[p].status # "none"
        BY <2>2, <3>3, PaymentTyped
      <4> QED BY <3>2, <4>1
    <3> QED BY <3>1, <3>3
  <2>8. \A p \in RideReqs :
          /\ DOMAIN trips'[p] = DOMAIN trips[p]
          /\ \A j \in DOMAIN trips[p] :
               /\ trips'[p][j].status = trips[p][j].status
               /\ \/ trips'[p][j].pay = trips[p][j].pay
                  \/ p = q /\ trips'[p][j].pay = "refunded"
    <3>1. trips' \in {trips, [trips EXCEPT ![q][req[h].was.trip].pay = "refunded"]}
      BY <1>4 DEF ApplyRefunded
    <3> QED BY <2>2, <3>1, RefundTyped
  <2>9. TripsFollowStripe'
    <3>1. ASSUME NEW p \in RideReqs, NEW j \in DOMAIN trips'[p]
          PROVE  /\ trips'[p][j].pay = "paid" => Captured(p)
                 /\ trips'[p][j].pay = "refunded" => intent[p] = "refunded"
      BY <2>1, <2>8 DEF SafeInv, MoneyInv, TripsFollowStripe
    <3>2. ASSUME NEW p \in RideReqs, payment'[p].status # "none"
          PROVE  /\ Captured(p)
                 /\ payment'[p].trip \in DOMAIN trips'[p]
                 /\ trips'[p][payment'[p].trip].status = "CONFIRMED"
      BY <2>7, <2>8, <3>2 DEF SafeInv, MoneyInv, TripsFollowStripe
    <3>3. ASSUME NEW p \in RideReqs, payment'[p].status = "refunded"
          PROVE  intent[p] = "refunded"
      BY <2>1, <2>7, <3>3 DEF SafeInv, MoneyInv, TripsFollowStripe
    <3> QED BY <2>3, <3>1, <3>2, <3>3 DEF TripsFollowStripe, Captured
  <2> QED BY <2>5, <2>6, <2>9 DEF SafeInv, MoneyInv
<1>5. CASE RefundRequest(h)
  <2>1. req[h] \in RequestTask /\ request[req[h].q].status # "none"
    BY <1>5, <1>q, TaskKinds DEF RefundRequest, At, TaskTrue
  <2>p. PICK q \in RideReqs : q = req[h].q
    BY <2>1 DEF RequestTask
  <2> DEFINE t == [pc |-> "cancel", q |-> q]
  <2>2. q \in RideReqs /\ t \in Tasks /\ request[q].status # "none"
    BY <2>1, <2>p DEF Tasks, RequestTask
  <2>3. Become(h, t) /\ UNCHANGED <<rows, acked>>
    BY <1>5, <2>p DEF RefundRequest
  <2>4. CASE payment[q].status = "refunded" /\ UNCHANGED <<intent, events>>
    <3>1. TaskTrue(t)
      BY <2>2, <2>4 DEF TaskTrue, SafeInv, MoneyInv, TripsFollowStripe
    <3> QED BY <2>2, <2>3, <2>4, <3>1, ReadSafe DEF stripe
  <2>5. CASE /\ intent[q] \in {"succeeded", "refunded"}
             /\ intent' = [intent EXCEPT ![q] = "refunded"]
             /\ events' = events \cup {[kind |-> "refunded", q |-> q]}
    <3>1. ModeOf[q] = "JIT"
      BY <2>2, <2>5 DEF SafeInv, OnlyJitPays
    <3>2. /\ Onward /\ MoneyInv' /\ EventsTrue' /\ OnlyJitPays'
          /\ intent'[q] = "refunded"
      BY <2>2, <2>3, <2>5, <3>1, IntentSafe
    <3>3. TaskTrue(t)'
      BY <2>2, <3>2 DEF TaskTrue, Onward
    <3>4. HandlersTrue'
      BY <2>2, <2>3, <3>2, <3>3, HandlersStayTrue DEF SafeInv
    <3> QED BY <3>2, <3>4 DEF SafeInv
  <2> QED BY <1>5, <2>p, <2>4, <2>5 DEF RefundRequest
<1>6. CASE CommitCancelRequest(h)
  <2>1. /\ req[h] \in RequestTask /\ request[req[h].q].status # "none"
        /\ ModeOf[req[h].q] = "JIT" => intent[req[h].q] = "refunded"
    BY <1>6, <1>q, TaskKinds DEF CommitCancelRequest, At, TaskTrue
  <2>p. PICK q \in RideReqs : q = req[h].q
    BY <2>1 DEF RequestTask
  <2> DEFINE t == [pc |-> "undispatch", q |-> q]
  <2>2. t \in Tasks /\ TaskTrue(t)'
    BY DEF Tasks, RequestTask, TaskTrue
  <2> QED BY <1>6, <2>1, <2>p, <2>2, StatusSafe DEF CommitCancelRequest, RequestStatus, Captured
<1>7. CASE CancelDispatch(h)
  <2>1. UNCHANGED <<rows, intent, events, acked>> /\ Become(h, Idle)
    BY <1>7 DEF CancelDispatch, Return, Become, stripe
  <2>2. acked' \subseteq Events /\ Created(acked' \ acked)
    BY <2>1 DEF TypeInv, TypeOK, Created
  <2> QED BY <2>1, <2>2, IdleSafe
<1>8. CASE CommitAccept(h)
  <2>1. req[h] \in AcceptTask /\ request[req[h].q].status # "none"
    BY <1>8, <1>q, TaskKinds DEF CommitAccept, At, TaskTrue
  <2> DEFINE q == req[h].q
             t == [driver |-> req[h].d, status |-> "CONFIRMED", pay |-> "paid",
                   seats |-> req[h].seats]
  <2>2. q \in RideReqs /\ req[h].d \in Drivers /\ t \in Trip
    BY <2>1 DEF AcceptTask, Trip
  <2>3. /\ request' = [request EXCEPT ![q] = [status |-> "ACCEPTED", driver |-> req[h].d]]
        /\ Return(h) /\ UNCHANGED stripe
    BY <1>8 DEF CommitAccept
  <2>4. \/ /\ ModeOf[q] = "JIT"
           /\ trips' = [trips EXCEPT ![q] = Append(@, t)]
           /\ payment' = [payment EXCEPT ![q] =
                            [status |-> "succeeded", trip |-> Len(trips[q]) + 1]]
        \/ UNCHANGED <<trips, payment>>
    BY <1>8 DEF CommitAccept, PaidUpfront
  <2>5. t.pay = "paid" /\ t.status = "CONFIRMED"
    OBVIOUS
  <2> HIDE DEF t
  <2> QED BY <2>1, <2>2, <2>3, <2>4, <2>5, BookingSafe
<1>9. CASE FindOffer(h)
  <2>1. req[h] \in DriverTask
    BY <1>9, <1>q, TaskKinds DEF FindOffer, At
  <2>2. PICK pc \in {"insertOffer", "reopenOffer"} : Become(h, [req[h] EXCEPT !.pc = pc])
    BY <1>9 DEF FindOffer
  <2> DEFINE t == [req[h] EXCEPT !.pc = pc]
  <2>3. t \in Tasks /\ TaskTrue(t)
    BY <2>1 DEF Tasks, DriverTask, TaskTrue
  <2> QED BY <1>9, <2>2, <2>3, ReadSafe DEF FindOffer
<1>10. CASE CommitOffer(h) \/ CommitCloseOffer(h) \/ CommitUpdateRequest(h)
  <2>1. UNCHANGED <<request, trips, payment, intent, events, acked>> /\ Become(h, Idle)
    BY <1>10 DEF CommitOffer, CommitCloseOffer, CommitUpdateRequest, Return, Become, stripe
  <2>2. acked' \subseteq Events /\ Created(acked' \ acked)
    BY <2>1 DEF TypeInv, TypeOK, Created
  <2> QED BY <2>1, <2>2, OfferSafe
<1>11. CASE CommitAcceptOffer(h)
  <2>1. req[h] \in BookTask /\ request[req[h].q].status # "none"
    BY <1>11, <1>q, TaskKinds DEF CommitAcceptOffer, At, TaskTrue
  <2> DEFINE q == req[h].q
             t == [driver |-> req[h].d, status |-> "ACCEPTED", pay |-> "unpaid",
                   seats |-> req[h].seats]
  <2>2. q \in RideReqs /\ req[h].d \in Drivers /\ t \in Trip
    BY <2>1 DEF BookTask, Trip
  <2>3. /\ request' = [request EXCEPT ![q] = [status |-> "ACCEPTED", driver |-> req[h].d]]
        /\ Return(h) /\ UNCHANGED <<payment, stripe>>
        /\ trips' = [trips EXCEPT ![q] = Append(@, t)]
    BY <1>11 DEF CommitAcceptOffer
  <2>4. t.pay = "unpaid"
    OBVIOUS
  <2> HIDE DEF t
  <2> QED BY <2>1, <2>2, <2>3, <2>4, BookingSafe
<1> QED BY <1>1, <1>2, <1>3, <1>4, <1>5, <1>6, <1>7, <1>8, <1>9, <1>10, <1>11 DEF Proceed

LEMMA SafeInit == Init => SafeInv
<1> SUFFICES ASSUME Init PROVE SafeInv
  OBVIOUS
<1>1. MoneyInv
  BY DEF Init, MoneyInv, PaidBeforeRequest, CancelledIsRefunded, TripsFollowStripe
<1>2. EventsTrue /\ OnlyJitPays /\ HandlersTrue
  BY IdleTrue DEF Init, EventsTrue, OnlyJitPays, HandlersTrue
<1> QED BY <1>1, <1>2 DEF SafeInv

LEMMA SafeStep ==
  ASSUME TypeInv, SafeInv, [Next]_vars
  PROVE  SafeInv'
<1>1. ASSUME NEW h \in Handlers, Fail(h)
      PROVE  SafeInv'
  BY <1>1, IdleTrue, ReadSafe DEF Fail, Return, Become
<1>2. ASSUME NEW q \in RideReqs, CreateJitIntent(q)
      PROVE  SafeInv'
  <2>1. UNCHANGED <<request, trips, payment, events, acked, req>> /\ ModeOf[q] = "JIT"
    BY <1>2 DEF CreateJitIntent, rows
  <2>2. \A p \in RideReqs : intent'[p] = IF p = q THEN "open" ELSE intent[p]
    BY <1>2 DEF CreateJitIntent, TypeInv, TypeOK
  <2>3. intent[q] = "none"
    BY <1>2 DEF CreateJitIntent
  <2>4. Onward
    BY <2>1, <2>2, <2>3 DEF Onward, Captured
  <2>5. HandlersTrue'
    BY <2>1, <2>4, SameHandlers DEF SafeInv
  <2>6. PaidBeforeRequest' /\ CancelledIsRefunded' /\ TripsFollowStripe'
    BY <2>1, <2>4 DEF Onward, SafeInv, MoneyInv, PaidBeforeRequest, CancelledIsRefunded,
                      TripsFollowStripe
  <2>7. \A e \in events : e.q \in RideReqs
    BY DEF TypeInv, TypeOK, Events
  <2>8. EventsTrue' /\ OnlyJitPays'
    BY <2>1, <2>2, <2>4, <2>7 DEF Onward, SafeInv, EventsTrue, OnlyJitPays
  <2> QED BY <2>5, <2>6, <2>8 DEF SafeInv, MoneyInv
<1>3. ASSUME NEW q \in RideReqs, PayJitIntent(q)
      PROVE  SafeInv'
  <2>1. ModeOf[q] = "JIT" /\ UNCHANGED <<rows, acked, req>>
    BY <1>3 DEF PayJitIntent, SafeInv, OnlyJitPays
  <2>2. /\ Onward /\ MoneyInv' /\ EventsTrue' /\ OnlyJitPays'
    BY <1>3, <2>1, IntentSafe DEF PayJitIntent
  <2> QED BY <2>1, <2>2, SameHandlers DEF SafeInv
<1>4. CASE \/ \E e \in Events : AckEvent(e)
           \/ \E q \in RideReqs, d \in Drivers : DriverTakes(q, d)
           \/ UNCHANGED vars
  <2>1. UNCHANGED <<request, trips, payment, intent, events, req>>
    BY <1>4 DEF AckEvent, DriverTakes, vars, rows, stripe
  <2>2. Onward
    BY <2>1 DEF Onward, Captured
  <2>3. HandlersTrue'
    BY <2>1, <2>2, SameHandlers DEF SafeInv
  <2>4. /\ acked' \subseteq Events
        /\ \A e \in acked' \ acked : e.kind = "succeeded" => request'[e.q].status # "none"
    <3>1. CASE \E e \in Events : AckEvent(e)
      <4>1. PICK e \in Events : acked' = acked \cup {e} /\ NothingToDo(e)
        BY <3>1 DEF AckEvent
      <4> QED BY <2>1, <4>1 DEF NothingToDo, TypeInv, TypeOK
    <3>2. CASE UNCHANGED acked
      BY <3>2 DEF TypeInv, TypeOK
    <3> QED BY <1>4, <3>1, <3>2 DEF DriverTakes, vars, stripe
  <2>5. PaidBeforeRequest'
    BY <2>1, <2>2, <2>4, PaidStays DEF SafeInv, MoneyInv
  <2> QED BY <2>1, <2>3, <2>5 DEF SafeInv, MoneyInv, EventsTrue, OnlyJitPays,
                                CancelledIsRefunded, TripsFollowStripe, Captured
<1> QED BY <1>1, <1>2, <1>3, <1>4, ArriveSafe, ProceedSafe DEF Next

LEMMA InvCorrect == Spec => [](TypeInv /\ SafeInv)
BY TypeInit, TypeStep, SafeInit, SafeStep, PTL DEF Spec

\* No JIT request, whatever the webhook's retries and crashes, is created for a
\* passenger who has not paid.
THEOREM PaidBeforeRequestCorrect == Spec => []PaidBeforeRequest
<1>1. SafeInv => PaidBeforeRequest
  BY DEF SafeInv, MoneyInv
<1> QED BY <1>1, InvCorrect, PTL

\* A JIT request that reads CANCELLED has been refunded.
THEOREM CancelledIsRefundedCorrect == Spec => []CancelledIsRefunded
<1>1. SafeInv => CancelledIsRefunded
  BY DEF SafeInv, MoneyInv
<1> QED BY <1>1, InvCorrect, PTL

\* The bookings made for requests, and their Payment rows, claim no money that
\* Stripe does not have and no refund that Stripe has not made.
THEOREM TripsFollowStripeCorrect == Spec => []TripsFollowStripe
<1>1. SafeInv => TripsFollowStripe
  BY DEF SafeInv, MoneyInv
<1> QED BY <1>1, InvCorrect, PTL

-----------------------------------------------------------------------------
(* RideRequests implements Custody, by the argument of BookingsProofs.     *)

\* What a step does at Stripe.
LEMMA IntentStep ==
  ASSUME TypeInv, [Next]_vars
  PROVE  \/ UNCHANGED intent
         \/ \E q \in RideReqs :
              intent[q] = "none" /\ intent' = [intent EXCEPT ![q] = "open"]
         \/ \E q \in RideReqs :
              /\ UNCHANGED rows
              /\ \/ intent[q] = "open" /\ intent' = [intent EXCEPT ![q] = "succeeded"]
                 \/ intent[q] = "succeeded" /\ intent' = [intent EXCEPT ![q] = "refunded"]
<1>1. ASSUME NEW h \in Handlers, Arrive(h)
      PROVE  UNCHANGED intent
  BY <1>1 DEF Arrive, CreateRequest, CancelRequest, UpdateRequest, AcceptRequest, CreateOffer,
              AcceptOffer, CloseOffer, Receive, ReceiveSucceeded, ReceiveRefunded, stripe
<1>2. ASSUME NEW h \in Handlers, RefundRequest(h)
      PROVE  \/ UNCHANGED intent
             \/ \E q \in RideReqs :
                  /\ UNCHANGED rows /\ intent[q] = "succeeded"
                  /\ intent' = [intent EXCEPT ![q] = "refunded"]
  <2>1. req[h].q \in RideReqs
    BY <1>2, TaskKinds DEF RefundRequest, At, TypeInv, TypeOK, RequestTask
  <2> QED BY <1>2, <2>1 DEF RefundRequest, TypeInv, TypeOK
<1>3. ASSUME NEW h \in Handlers, Proceed(h), ~RefundRequest(h)
      PROVE  UNCHANGED intent
  BY <1>3 DEF Proceed, MarkOffering, Dispatch, CommitJitRequest, ApplyRefunded,
              CommitCancelRequest, CancelDispatch, CommitAccept, FindOffer, CommitOffer,
              CommitAcceptOffer, CommitCloseOffer, CommitUpdateRequest, stripe
<1> QED BY <1>1, <1>2, <1>3 DEF Next, Fail, CreateJitIntent, PayJitIntent, AckEvent,
                                DriverTakes, vars, stripe

LEMMA CustodyInit == Init => C!Init
BY DEF Init, C!Init, MoneyOf, BooksOf

\* All money stays where it is: whatever was written is backed by it.
LEMMA RecordStep ==
  ASSUME SafeInv', \A q \in RideReqs : MoneyOf(q)' = MoneyOf(q)
  PROVE  C!Record
<1>1. ASSUME NEW q \in RideReqs
      PROVE  /\ Captured(q)' => MoneyOf(q) # "none"
             /\ intent'[q] = "refunded" => MoneyOf(q) = "returned"
  BY <1>1 DEF MoneyOf, Captured
<1>2. ASSUME NEW q \in RideReqs
      PROVE  /\ "paid" \in BooksOf(q)' => MoneyOf(q) # "none"
             /\ "refunded" \in BooksOf(q)' => MoneyOf(q) = "returned"
             /\ BooksOf(q)' \subseteq {"paid", "refunded"}
  BY <1>1 DEF SafeInv, MoneyInv, TripsFollowStripe, BooksOf
<1>3. \A q \in RideReqs : BooksOf(q)' \subseteq
        (IF MoneyOf(q) = "none" THEN {} ELSE {"paid"})
          \cup (IF MoneyOf(q) = "returned" THEN {"refunded"} ELSE {})
  BY <1>2
<1>4. {q \in RideReqs : ModeOf[q] = "JIT" /\ request'[q].status # "none"}
        \subseteq {q \in RideReqs : MoneyOf(q) # "none"}
  BY <1>1 DEF SafeInv, MoneyInv, PaidBeforeRequest
<1> QED BY <1>2, <1>3, <1>4 DEF C!Record, C!Backed

LEMMA CustodyStep ==
  ASSUME TypeInv, SafeInv', [Next]_vars
  PROVE  [C!Next]_C!custodyVars
<1>1. CASE UNCHANGED intent
  BY <1>1, RecordStep DEF MoneyOf, C!Next
<1>2. ASSUME NEW q \in RideReqs, intent[q] = "none", intent' = [intent EXCEPT ![q] = "open"]
      PROVE  C!Next
  <2>1. \A p \in RideReqs : MoneyOf(p)' = MoneyOf(p)
    BY <1>2 DEF MoneyOf, TypeInv, TypeOK
  <2> QED BY <2>1, RecordStep DEF C!Next
<1>3. ASSUME NEW q \in RideReqs, UNCHANGED rows,
             intent[q] = "open", intent' = [intent EXCEPT ![q] = "succeeded"]
      PROVE  C!Next
  <2>1. C!Capture(q)
    BY <1>3 DEF C!Capture, MoneyOf, BooksOf, TypeInv, TypeOK, rows
  <2> QED BY <2>1 DEF C!Next
<1>4. ASSUME NEW q \in RideReqs, UNCHANGED rows,
             intent[q] = "succeeded", intent' = [intent EXCEPT ![q] = "refunded"]
      PROVE  C!Next
  <2>1. C!GiveBack(q)
    BY <1>4 DEF C!GiveBack, MoneyOf, BooksOf, TypeInv, TypeOK, rows
  <2> QED BY <2>1 DEF C!Next
<1> QED BY <1>1, <1>2, <1>3, <1>4, IntentStep

\* For any number of requests, drivers and handlers, ride requests implement
\* Custody: a passenger's money is taken once and returned once, no driver is
\* sought for unpaid money, and no row says more than what has happened.
THEOREM RideRequestsKeepCustody == Spec => KeepsCustody
<1>1. TypeInv /\ SafeInv /\ TypeInv' /\ SafeInv' /\ [Next]_vars => [C!Next]_C!custodyVars
  BY CustodyStep
<1> QED BY <1>1, CustodyInit, InvCorrect, PTL DEF Spec, KeepsCustody, C!Spec

-----------------------------------------------------------------------------
(* What holds when HTTP requests do not overlap (RideRequestsSerial.tla).  *)
(*                                                                         *)
(* The argument is that of a single handler: what it has read is still so  *)
(* when it commits (HandlersFit), for Stripe, the dispatcher and the       *)
(* passenger's app write no row.                                           *)

\* At most one handler is in flight.
OneAtATime == \A g, h \in Handlers : g = h

\* What the handler of t still knows of the rows it will write.
Fits(t) ==
  /\ t.pc = "offering" => request[t.q].status = "PENDING"
  /\ t.pc \in {"refund", "cancel", "accept", "acceptOffer", "offer", "insertOffer",
               "reopenOffer"} => request[t.q].status \in Open
  /\ t.pc = "closeOffer" => offer[t.q][t.d] = "SENT"

HandlersFit == \A h \in Handlers : Fits(req[h])

StoryInv == BookedOnce /\ OffersAgree /\ HandlersFit

\* The step of ClosedStaysClosed.
ClosedStep ==
  \A q \in RideReqs :
    request[q].status \in {"ACCEPTED", "CANCELLED"} => request'[q] = request[q]

-----------------------------------------------------------------------------
\* The only handler goes on to t, which fits the rows as they are then.
LEMMA TaskFits ==
  ASSUME OneAtATime, TypeInv, NEW h \in Handlers, NEW t, Become(h, t), Fits(t)'
  PROVE  HandlersFit'
<1>1. ASSUME NEW g \in Handlers PROVE Fits(req[g])'
  <2>1. req'[g] = t
    BY DEF OneAtATime, TypeInv, TypeOK, Become
  <2> QED BY <2>1 DEF Fits
<1> QED BY <1>1 DEF HandlersFit

LEMMA IdleFits == Fits(Idle)'
BY DEF Fits, Idle

\* A step that changes neither requests nor offers nor who booked what.
LEMMA QuietStep ==
  ASSUME StoryInv, HandlersFit', UNCHANGED <<request, offer, trips>>
  PROVE  StoryInv' /\ ClosedStep
BY DEF StoryInv, BookedOnce, OffersAgree, ClosedStep

\* A handler that only reads, and then knows t.
LEMMA ReadFits ==
  ASSUME OneAtATime, TypeInv, StoryInv, NEW h \in Handlers, NEW t, Become(h, t), Fits(t),
         UNCHANGED <<request, offer, trips>>
  PROVE  StoryInv' /\ ClosedStep
<1>1. Fits(t)'
  BY DEF Fits
<1> QED BY <1>1, TaskFits, QuietStep

\* A write of the status of a request that is not accepted, to another such one.
LEMMA StatusFits ==
  ASSUME OneAtATime, TypeInv, StoryInv, NEW q \in RideReqs,
         request[q].status \notin {"ACCEPTED", "CANCELLED"},
         NEW status \in RequestStatus \ {"ACCEPTED"},
         request' = [request EXCEPT ![q].status = status], UNCHANGED <<offer, trips>>,
         NEW h \in Handlers, NEW t, Become(h, t), Fits(t)'
  PROVE  StoryInv' /\ ClosedStep
<1>1. \A p \in RideReqs : p # q => request'[p] = request[p]
  BY DEF TypeInv, TypeOK
<1>2. request'[q].status = status
  BY DEF TypeInv, TypeOK, RequestRow
<1>3. BookedOnce'
  BY <1>1 DEF StoryInv, BookedOnce
<1>4. OffersAgree'
  BY <1>1, <1>2 DEF StoryInv, OffersAgree
<1> QED BY <1>1, <1>3, <1>4, TaskFits DEF StoryInv, ClosedStep

\* An acceptance of an open request: nothing was booked for it before.
LEMMA AcceptFitsStory ==
  ASSUME OneAtATime, TypeInv, StoryInv, NEW h \in Handlers, NEW q \in RideReqs,
         NEW d \in Drivers, request[q].status \in Open,
         request' = [request EXCEPT ![q] = [status |-> "ACCEPTED", driver |-> d]],
         offer' = AcceptOfferOf(q, d),
         NEW t \in Trip, t.driver = d,
         trips' = [trips EXCEPT ![q] = Append(@, t)] \/ UNCHANGED trips,
         Return(h)
  PROVE  StoryInv' /\ ClosedStep
<1>1. \A p \in RideReqs \ {q} : request'[p] = request[p] /\ offer'[p] = offer[p]
                                   /\ trips'[p] = trips[p]
  BY DEF TypeInv, TypeOK, AcceptOfferOf
<1>2. request'[q] = [status |-> "ACCEPTED", driver |-> d]
  BY DEF TypeInv, TypeOK
<1>3. trips[q] = << >>
  <2>1. request[q].status # "ACCEPTED"
    BY DEF Open
  <2>2. trips[q] # << >> => request[q] = [status |-> "ACCEPTED", driver |-> trips[q][1].driver]
    BY DEF StoryInv, BookedOnce
  <2> QED BY <2>1, <2>2
<1>4. trips'[q] = << >> \/ trips'[q] = Append(<< >>, t)
  BY <1>3 DEF TypeInv, TypeOK
<1>5. Len(Append(<< >>, t)) = 1 /\ Append(<< >>, t)[1] = t
  OBVIOUS
<1>6. BookedOnce'
  <2> SUFFICES ASSUME NEW p \in RideReqs, trips'[p] # << >>
               PROVE  /\ Len(trips'[p]) = 1
                      /\ request'[p] = [status |-> "ACCEPTED", driver |-> trips'[p][1].driver]
    BY DEF BookedOnce
  <2>1. CASE p = q
    <3>1. trips'[p] = Append(<< >>, t)
      BY <1>4, <2>1
    <3> QED BY <1>2, <1>5, <2>1, <3>1
  <2>2. CASE p # q
    <3>1. trips'[p] = trips[p] /\ request'[p] = request[p]
      BY <1>1, <2>2
    <3> QED BY <3>1 DEF StoryInv, BookedOnce
  <2> QED BY <2>1, <2>2
<1>7. \A e \in Drivers :
        offer'[q][e] = IF e = d THEN "ACCEPTED"
                       ELSE IF offer[q][e] = "SENT" THEN "REJECTED" ELSE offer[q][e]
  BY DEF TypeInv, TypeOK, AcceptOfferOf
<1>8. \A e \in Drivers : offer[q][e] # "ACCEPTED"
  BY DEF StoryInv, OffersAgree, Open
<1>9. OffersAgree'
  BY <1>1, <1>2, <1>7, <1>8 DEF StoryInv, OffersAgree
<1>10. HandlersFit'
  BY TaskFits, IdleFits DEF Return, Become
<1>11. ClosedStep
  BY <1>1 DEF ClosedStep, Open
<1> QED BY <1>6, <1>9, <1>10, <1>11 DEF StoryInv

\* An offer is written that is not and will not be the accepted one.
LEMMA OfferFits ==
  ASSUME OneAtATime, TypeInv, StoryInv, NEW h \in Handlers, NEW q \in RideReqs,
         NEW d \in Drivers, offer[q][d] # "ACCEPTED",
         NEW status \in {"SENT", "REJECTED", "EXPIRED"},
         status = "SENT" => request[q].status # "ACCEPTED",
         offer' = [offer EXCEPT ![q][d] = status],
         UNCHANGED <<request, trips>>, Return(h)
  PROVE  StoryInv' /\ ClosedStep
<1>1. \A p \in RideReqs, e \in Drivers :
        offer'[p][e] = IF p = q /\ e = d THEN status ELSE offer[p][e]
  BY DEF TypeInv, TypeOK
<1>2. OffersAgree'
  BY <1>1 DEF StoryInv, OffersAgree
<1>3. BookedOnce' /\ ClosedStep
  BY DEF StoryInv, BookedOnce, ClosedStep
<1>4. HandlersFit'
  BY TaskFits, IdleFits DEF Return, Become
<1> QED BY <1>2, <1>3, <1>4 DEF StoryInv

-----------------------------------------------------------------------------
LEMMA ArriveFits ==
  ASSUME OneAtATime, TypeInv, StoryInv, NEW h \in Handlers, Arrive(h)
  PROVE  StoryInv' /\ ClosedStep
<1>1. ASSUME NEW q \in RideReqs, CreateRequest(h, q)
      PROVE  StoryInv' /\ ClosedStep
  <2> DEFINE t == [pc |-> "offering", q |-> q]
  <2>1. Become(h, t) /\ request' = [request EXCEPT ![q].status = "PENDING"]
        /\ request[q].status = "none" /\ UNCHANGED <<offer, trips>>
    BY <1>1 DEF CreateRequest, Begin, Become
  <2>2. Fits(t)'
    BY <2>1 DEF Fits, TypeInv, TypeOK, RequestRow
  <2> QED BY <2>1, <2>2, StatusFits DEF RequestStatus
<1>2. ASSUME NEW q \in RideReqs, CancelRequest(h, q)
      PROVE  StoryInv' /\ ClosedStep
  <2> DEFINE t == [pc |-> IF RefundsFirst(q) THEN "refund" ELSE "cancel", q |-> q]
  <2>1. Become(h, t) /\ Fits(t) /\ UNCHANGED <<request, offer, trips>>
    BY <1>2 DEF CancelRequest, Cancellable, Begin, Become, Fits, rows
  <2> QED BY <2>1, ReadFits
<1>3. ASSUME NEW c \in Callbacks, AcceptRequest(h, c)
      PROVE  StoryInv' /\ ClosedStep
  <2>1. PICK t \in AcceptTask : t.pc = "accept" /\ t.q = c.q /\ Become(h, t)
    BY <1>3, AcceptReads
  <2>2. Fits(t) /\ UNCHANGED <<request, offer, trips>>
    BY <1>3, <2>1, AcceptReads DEF Fits, rows
  <2> QED BY <2>1, <2>2, ReadFits
<1>4. ASSUME NEW q \in RideReqs, NEW d \in Drivers, CreateOffer(h, q, d)
      PROVE  StoryInv' /\ ClosedStep
  <2>1. PICK t \in DriverTask : t.pc = "offer" /\ t.q = q /\ Become(h, t)
    BY <1>4, OfferReads
  <2>2. Fits(t) /\ UNCHANGED <<request, offer, trips>>
    BY <1>4, <2>1, OfferReads DEF Fits, rows
  <2> QED BY <2>1, <2>2, ReadFits
<1>5. ASSUME NEW q \in RideReqs, NEW d \in Drivers, AcceptOffer(h, q, d)
      PROVE  StoryInv' /\ ClosedStep
  <2> DEFINE t == [pc |-> "acceptOffer", q |-> q, d |-> d, seen |-> avail[d],
                   seats |-> offered[q][d]]
  <2>1. Become(h, t) /\ Fits(t) /\ UNCHANGED <<request, offer, trips>>
    BY <1>5 DEF AcceptOffer, Begin, Become, Fits, rows
  <2> QED BY <2>1, ReadFits
<1>6. ASSUME NEW q \in RideReqs, NEW d \in Drivers, NEW to \in Reopenable,
             CloseOffer(h, q, d, to)
      PROVE  StoryInv' /\ ClosedStep
  <2> DEFINE t == [pc |-> "closeOffer", q |-> q, d |-> d, to |-> to]
  <2>1. Become(h, t) /\ Fits(t) /\ UNCHANGED <<request, offer, trips>>
    BY <1>6 DEF CloseOffer, Begin, Become, Fits, rows
  <2> QED BY <2>1, ReadFits
<1>7. ASSUME NEW e \in Events, Receive(h, e)
      PROVE  StoryInv' /\ ClosedStep
  <2>1. PICK t : Become(h, t) /\ t.pc \in {"jitCreate", "dispatch", "hook"}
    <3>1. CASE ReceiveSucceeded(h, e)
      <4>1. \E pc \in {"jitCreate", "dispatch"} :
              Become(h, [pc |-> pc, q |-> e.q, ack |-> {e}])
        BY <3>1 DEF ReceiveSucceeded, Begin, Become
      <4> QED BY <4>1
    <3>2. CASE ReceiveRefunded(h, e)
      <4> DEFINE t == [pc |-> "hook", q |-> e.q, was |-> payment[e.q],
                       wasPay |-> PayOfTrip(e.q), ack |-> {e}]
      <4>1. Become(h, t) /\ t.pc = "hook"
        BY <3>2 DEF ReceiveRefunded, Begin, Become
      <4> QED BY <4>1
    <3> QED BY <1>7, <3>1, <3>2 DEF Receive
  <2>2. Fits(t) /\ UNCHANGED <<request, offer, trips>>
    BY <1>7, <2>1 DEF Receive, ReceiveSucceeded, ReceiveRefunded, Fits, rows
  <2> QED BY <2>1, <2>2, ReadFits
<1>8. ASSUME NEW q \in RideReqs, UpdateRequest(h, q)
      PROVE  StoryInv' /\ ClosedStep
  <2>1. PICK n \in EditSeats[q] \cup {needed[q]} :
          Become(h, [pc |-> "edit", q |-> q, to |-> n])
    BY <1>8 DEF UpdateRequest, Begin, Become
  <2> DEFINE t == [pc |-> "edit", q |-> q, to |-> n]
  <2>2. Fits(t) /\ UNCHANGED <<request, offer, trips>>
    BY <1>8 DEF UpdateRequest, Fits, rows
  <2> QED BY <2>1, <2>2, ReadFits
<1> QED BY <1>1, <1>2, <1>3, <1>4, <1>5, <1>6, <1>7, <1>8 DEF Arrive

LEMMA ProceedFits ==
  ASSUME OneAtATime, TypeInv, StoryInv, NEW h \in Handlers, Proceed(h)
  PROVE  StoryInv' /\ ClosedStep
<1> DEFINE q == req[h].q
           d == req[h].d
<1>q. req[h] \in Tasks /\ Fits(req[h])
  BY DEF TypeInv, TypeOK, StoryInv, HandlersFit
<1>1. CASE MarkOffering(h)
  <2>0. PICK t : t = [pc |-> "dispatch", q |-> q, ack |-> {}]
    OBVIOUS
  <2>1. q \in RideReqs /\ request[q].status = "PENDING"
    BY <1>1, <1>q, TaskKinds DEF MarkOffering, At, Fits, RequestTask
  <2>2. Become(h, t) /\ Fits(t)' /\ UNCHANGED <<offer, trips>>
        /\ request' = [request EXCEPT ![q].status = "OFFERING"]
    BY <1>1, <2>0 DEF MarkOffering, Fits
  <2>3. PICK p \in RideReqs : p = q
    BY <2>1
  <2> QED BY <2>1, <2>2, <2>3, StatusFits DEF RequestStatus
<1>2. CASE CommitJitRequest(h)
  <2>0. PICK t : t = [pc |-> "dispatch", q |-> q, ack |-> req[h].ack]
    OBVIOUS
  <2>1. q \in RideReqs /\ request[q].status = "none"
    BY <1>2, <1>q, TaskKinds DEF CommitJitRequest, At, CreateTask
  <2>2. Become(h, t) /\ Fits(t)' /\ UNCHANGED <<offer, trips>>
        /\ request' = [request EXCEPT ![q].status = "OFFERING"]
    BY <1>2, <2>0 DEF CommitJitRequest, Fits
  <2>3. PICK p \in RideReqs : p = q
    BY <2>1
  <2> QED BY <2>1, <2>2, <2>3, StatusFits DEF RequestStatus
<1>3. CASE CommitCancelRequest(h)
  <2>0. PICK t : t = [pc |-> "undispatch", q |-> q]
    OBVIOUS
  <2>1. q \in RideReqs /\ request[q].status \in Open
    BY <1>3, <1>q, TaskKinds DEF CommitCancelRequest, At, Fits, RequestTask
  <2>2. Become(h, t) /\ Fits(t)' /\ UNCHANGED <<offer, trips>>
        /\ request' = [request EXCEPT ![q].status = "CANCELLED"]
    BY <1>3, <2>0 DEF CommitCancelRequest, Fits
  <2>3. PICK p \in RideReqs : p = q
    BY <2>1
  <2> QED BY <2>1, <2>2, <2>3, StatusFits DEF RequestStatus, Open
<1>4. CASE RefundRequest(h)
  <2> DEFINE t == [pc |-> "cancel", q |-> q]
  <2>1. Become(h, t) /\ Fits(t) /\ UNCHANGED <<request, offer, trips>>
    BY <1>4, <1>q DEF RefundRequest, At, Fits, rows
  <2> QED BY <2>1, ReadFits
<1>5. CASE Dispatch(h) \/ CancelDispatch(h) \/ CommitUpdateRequest(h)
  <2>1. Return(h) /\ UNCHANGED <<request, offer, trips>>
    BY <1>5 DEF Dispatch, CancelDispatch, CommitUpdateRequest, rows
  <2>2. HandlersFit'
    BY <2>1, TaskFits, IdleFits DEF Return, Become
  <2> QED BY <2>1, <2>2, QuietStep
<1>6. CASE ApplyRefunded(h)
  <2>1. req[h] \in HookTask
    BY <1>6, <1>q, TaskKinds DEF ApplyRefunded, At
  <2> DEFINE i == req[h].was.trip
  <2>2. \A p \in RideReqs : trips[p] \in Seq(Trip)
    BY DEF TypeInv, TypeOK
  <2>3. trips' = trips \/ trips' = [trips EXCEPT ![q][i].pay = "refunded"]
    BY <1>6 DEF ApplyRefunded
  <2>4. \A p \in RideReqs :
          /\ Len(trips'[p]) = Len(trips[p])
          /\ trips[p] # << >> => trips'[p][1].driver = trips[p][1].driver
          /\ trips'[p] # << >> => trips[p] # << >>
    <3> SUFFICES ASSUME NEW p \in RideReqs, p = q,
                        trips' = [trips EXCEPT ![q][i].pay = "refunded"]
                 PROVE  /\ Len(trips'[p]) = Len(trips[p])
                        /\ trips[p] # << >> => trips'[p][1].driver = trips[p][1].driver
                        /\ trips'[p] # << >> => trips[p] # << >>
      BY <2>3 DEF TypeInv, TypeOK
    <3>1. trips'[p] = [trips[p] EXCEPT ![i].pay = "refunded"]
      BY DEF TypeInv, TypeOK
    <3>2. trips[p] \in Seq(Trip)
      BY <2>2
    <3>3. Len(trips'[p]) = Len(trips[p])
      BY <3>1, <3>2
    <3>4. ASSUME trips[p] # << >> PROVE trips'[p][1].driver = trips[p][1].driver
      <4>1. 1 \in DOMAIN trips[p] /\ trips[p][1] \in Trip
        BY <3>2, <3>4
      <4>2. trips'[p][1] = IF i = 1 THEN [trips[p][1] EXCEPT !.pay = "refunded"]
                           ELSE trips[p][1]
        BY <3>1, <4>1
      <4> QED BY <4>1, <4>2 DEF Trip
    <3>5. ASSUME trips[p] = << >> PROVE trips'[p] = << >>
      BY <3>1, <3>5
    <3> QED BY <3>3, <3>4, <3>5
  <2>5. Return(h) /\ UNCHANGED <<request, offer>>
    BY <1>6 DEF ApplyRefunded
  <2>6. HandlersFit'
    BY <2>5, TaskFits, IdleFits DEF Return, Become
  <2>7. BookedOnce'
    BY <2>4, <2>5 DEF StoryInv, BookedOnce
  <2> QED BY <2>5, <2>6, <2>7 DEF StoryInv, OffersAgree, ClosedStep
<1>7. CASE CommitAccept(h)
  <2>1. /\ q \in RideReqs /\ d \in Drivers /\ req[h].seats \in Nat
        /\ request[q].status \in Open
    BY <1>7, <1>q, TaskKinds DEF CommitAccept, At, Fits, AcceptTask
  <2> DEFINE t == [driver |-> d, status |-> "CONFIRMED", pay |-> "paid",
                   seats |-> req[h].seats]
  <2>2. t \in Trip /\ t.driver = d
    BY <2>1 DEF Trip
  <2>3. /\ request' = [request EXCEPT ![q] = [status |-> "ACCEPTED", driver |-> d]]
        /\ offer' = AcceptOfferOf(q, d)
        /\ trips' = [trips EXCEPT ![q] = Append(@, t)] \/ UNCHANGED trips
        /\ Return(h)
    BY <1>7 DEF CommitAccept
  <2> HIDE DEF t
  <2> QED BY <2>1, <2>2, <2>3, AcceptFitsStory
<1>8. CASE CommitAcceptOffer(h)
  <2>1. /\ q \in RideReqs /\ d \in Drivers /\ req[h].seats \in Nat
        /\ request[q].status \in Open
    BY <1>8, <1>q, TaskKinds DEF CommitAcceptOffer, At, Fits, BookTask
  <2> DEFINE t == [driver |-> d, status |-> "ACCEPTED", pay |-> "unpaid",
                   seats |-> req[h].seats]
  <2>2. t \in Trip /\ t.driver = d
    BY <2>1 DEF Trip
  <2>3. /\ request' = [request EXCEPT ![q] = [status |-> "ACCEPTED", driver |-> d]]
        /\ offer' = AcceptOfferOf(q, d)
        /\ trips' = [trips EXCEPT ![q] = Append(@, t)]
        /\ Return(h)
    BY <1>8 DEF CommitAcceptOffer
  <2> HIDE DEF t
  <2> QED BY <2>1, <2>2, <2>3, AcceptFitsStory
<1>9. CASE FindOffer(h)
  <2>1. PICK pc \in {"insertOffer", "reopenOffer"} : Become(h, [req[h] EXCEPT !.pc = pc])
    BY <1>9 DEF FindOffer
  <2> DEFINE t == [req[h] EXCEPT !.pc = pc]
  <2>2. req[h] \in DriverTask /\ request[q].status \in Open
    BY <1>9, <1>q, TaskKinds DEF FindOffer, At, Fits
  <2>3. t.pc = pc /\ t.q = q
    BY <2>2 DEF DriverTask
  <2>4. Fits(t) /\ UNCHANGED <<request, offer, trips>>
    BY <1>9, <2>2, <2>3 DEF FindOffer, Fits, rows
  <2> QED BY <2>1, <2>4, ReadFits
<1>10. CASE CommitOffer(h)
  <2>1. q \in RideReqs /\ d \in Drivers /\ request[q].status \in Open
    BY <1>10, <1>q, TaskKinds DEF CommitOffer, At, Fits, DriverTask
  <2>2. offer[q][d] # "ACCEPTED" /\ request[q].status # "ACCEPTED"
    BY <2>1 DEF StoryInv, OffersAgree, Open
  <2>3. /\ offer' = [offer EXCEPT ![q][d] = "SENT"]
        /\ UNCHANGED <<request, trips>> /\ Return(h)
    BY <1>10 DEF CommitOffer
  <2> QED BY <2>1, <2>2, <2>3, OfferFits
<1>11. CASE CommitCloseOffer(h)
  <2>1. /\ q \in RideReqs /\ d \in Drivers /\ offer[q][d] = "SENT"
        /\ req[h].to \in {"REJECTED", "EXPIRED"}
    BY <1>11, <1>q, TaskKinds DEF CommitCloseOffer, At, Fits, CloseTask, Reopenable
  <2>2. /\ offer' = [offer EXCEPT ![q][d] = req[h].to]
        /\ UNCHANGED <<request, trips>> /\ Return(h)
    BY <1>11 DEF CommitCloseOffer
  <2> QED BY <2>1, <2>2, OfferFits
<1> QED BY <1>1, <1>2, <1>3, <1>4, <1>5, <1>6, <1>7, <1>8, <1>9, <1>10, <1>11 DEF Proceed

LEMMA StoryInit == Init => StoryInv
BY DEF Init, StoryInv, BookedOnce, OffersAgree, HandlersFit, Fits, Idle

LEMMA StoryStep ==
  ASSUME OneAtATime, TypeInv, StoryInv, [Next]_vars
  PROVE  StoryInv' /\ ClosedStep
<1>1. ASSUME NEW h \in Handlers, Fail(h)
      PROVE  StoryInv' /\ ClosedStep
  <2>1. Become(h, Idle) /\ UNCHANGED <<request, offer, trips>>
    BY <1>1 DEF Fail, Return, Become, rows
  <2> QED BY <2>1, TaskFits, IdleFits, QuietStep
<1>2. CASE \/ \E q \in RideReqs : CreateJitIntent(q) \/ PayJitIntent(q)
           \/ \E e \in Events : AckEvent(e)
           \/ \E q \in RideReqs, d \in Drivers : DriverTakes(q, d)
           \/ UNCHANGED vars
  <2>1. UNCHANGED <<request, offer, trips, req>>
    BY <1>2 DEF CreateJitIntent, PayJitIntent, AckEvent, DriverTakes, rows, vars
  <2>2. HandlersFit'
    BY <2>1 DEF StoryInv, HandlersFit, Fits
  <2> QED BY <2>1, <2>2, QuietStep
<1> QED BY <1>1, <1>2, ArriveFits, ProceedFits DEF Next

LEMMA StoryCorrect == ASSUME OneAtATime PROVE Spec => [](TypeInv /\ StoryInv)
<1>1. TypeInv /\ StoryInv /\ [Next]_vars => TypeInv' /\ StoryInv'
  BY TypeStep, StoryStep
<1> QED BY <1>1, TypeInit, StoryInit, PTL DEF Spec

\* A request is booked at most once, for the driver it names, when requests do not
\* overlap: whichever way of accepting comes first, and however often the
\* dispatcher repeats its callback.
THEOREM BookedOnceCorrect == ASSUME OneAtATime PROVE Spec => []BookedOnce
<1>1. StoryInv => BookedOnce
  BY DEF StoryInv
<1> QED BY <1>1, StoryCorrect, PTL

\* A request and its offers agree on who was accepted, when requests do not
\* overlap.
THEOREM OffersAgreeCorrect == ASSUME OneAtATime PROVE Spec => []OffersAgree
<1>1. StoryInv => OffersAgree
  BY DEF StoryInv
<1> QED BY <1>1, StoryCorrect, PTL

\* An accepted request stays accepted, by the same driver, and a cancelled one
\* cancelled, when requests do not overlap: late callbacks, repeated webhooks and
\* the second write of a creation change neither.
THEOREM ClosedStaysClosedCorrect == ASSUME OneAtATime PROVE Spec => ClosedStaysClosed
<1>1. TypeInv /\ StoryInv /\ [Next]_vars => [ClosedStep]_vars
  BY StoryStep
<1> QED BY <1>1, StoryCorrect, PTL DEF Spec, ClosedStaysClosed, ClosedStep

-----------------------------------------------------------------------------
(* The seats of the drivers' rides (SeatsAccounted).  The handler that     *)
(* accepts an offer still knows the seatsAvailable it subtracts from; and  *)
(* since a request is booked once, the trips that take seats are finitely  *)
(* many, and each is added once.                                           *)

SeesAvail(t) == t.pc = "acceptOffer" => t.seen = avail[t.d]

HandlersSee == \A h \in Handlers : SeesAvail(req[h])

SeatInv == SeatsAccounted /\ HandlersSee

\* What makes <<q, i>> one of the trips that took seats of d.
LEMMA TakenTripsAre ==
  ASSUME NEW d \in Drivers
  PROVE  /\ \A q \in RideReqs : \A i \in DOMAIN trips[q] :
              /\ <<q, i>> \in AllTrips /\ TripSeats[<<q, i>>] = trips[q][i].seats
              /\ <<q, i>> \in TakenTrips(d) <=>
                   trips[q][i].driver = d /\ trips[q][i].status = "ACCEPTED"
         /\ \A b \in TakenTrips(d) :
              \E q \in RideReqs : \E i \in DOMAIN trips[q] :
                /\ b = <<q, i>> /\ trips[q][i].driver = d /\ trips[q][i].status = "ACCEPTED"
<1>1. \A b \in AllTrips : \E q \in RideReqs : \E i \in DOMAIN trips[q] : b = <<q, i>>
  BY DEF AllTrips
<1>2. \A q \in RideReqs : \A i \in DOMAIN trips[q] : <<q, i>> \in AllTrips
  BY DEF AllTrips
<1>3. \A q, i : <<q, i>>[1] = q /\ <<q, i>>[2] = i
  OBVIOUS
<1>4. \A q \in RideReqs : \A i \in DOMAIN trips[q] :
        TripSeats[<<q, i>>] = trips[q][i].seats
  BY <1>2 DEF TripSeats
<1> QED BY <1>1, <1>2, <1>3, <1>4 DEF TakenTrips

LEMMA TripsFinite ==
  ASSUME TypeInv, BookedOnce, IsFiniteSet(RideReqs), NEW d \in Drivers
  PROVE  /\ IsFiniteSet(TakenTrips(d))
         /\ \A b \in TakenTrips(d) : TripSeats[b] \in Nat
<1>1. ASSUME NEW q \in RideReqs, NEW i \in DOMAIN trips[q] PROVE i = 1 /\ trips[q][i] \in Trip
  <2>1. trips[q] \in Seq(Trip)
    BY DEF TypeInv, TypeOK
  <2>2. i \in 1..Len(trips[q]) /\ trips[q] # << >> /\ trips[q][i] \in Trip
    BY <2>1
  <2>3. Len(trips[q]) = 1
    BY <2>2 DEF BookedOnce
  <2> QED BY <2>2, <2>3
<1>2. TakenTrips(d) \subseteq RideReqs \X {1}
  BY <1>1, TakenTripsAre
<1>3. IsFiniteSet(RideReqs \X {1})
  BY FS_Singleton, FS_Product
<1>4. \A b \in TakenTrips(d) : TripSeats[b] \in Nat
  BY <1>1, TakenTripsAre DEF Trip
<1> QED BY <1>2, <1>3, <1>4, FS_Subset

\* The same trips took seats of d, and as many each.
LEMMA SameSeats ==
  ASSUME TypeInv, BookedOnce, IsFiniteSet(RideReqs), NEW d \in Drivers,
         TakenTrips(d)' = TakenTrips(d), \A b \in TakenTrips(d) : TripSeats'[b] = TripSeats[b]
  PROVE  SumFunctionOnSet(TripSeats, TakenTrips(d))' = SumFunctionOnSet(TripSeats, TakenTrips(d))
<1>1. SumFunctionOnSet(TripSeats', TakenTrips(d)) = SumFunctionOnSet(TripSeats, TakenTrips(d))
  BY TripsFinite, SumSame
<1> QED BY <1>1

\* The only handler goes on to t.
LEMMA TaskSees ==
  ASSUME OneAtATime, TypeInv, NEW h \in Handlers, NEW t, Become(h, t), SeesAvail(t)'
  PROVE  HandlersSee'
<1>1. ASSUME NEW g \in Handlers PROVE SeesAvail(req[g])'
  <2>1. req'[g] = t
    BY DEF OneAtATime, TypeInv, TypeOK, Become
  <2> QED BY <2>1 DEF SeesAvail
<1> QED BY <1>1 DEF HandlersSee

LEMMA ReturnSees ==
  ASSUME OneAtATime, TypeInv, NEW h \in Handlers, Return(h)
  PROVE  HandlersSee'
<1>1. SeesAvail(Idle)'
  BY DEF SeesAvail, Idle
<1> QED BY <1>1, TaskSees DEF Return, Become

\* A step that books nothing.
LEMMA NothingBooked ==
  ASSUME SeatInv, HandlersSee', UNCHANGED <<trips, avail>>
  PROVE  SeatInv'
BY DEF SeatInv, SeatsAccounted, AllTrips, TripSeats, TakenTrips

LEMMA ReadSees ==
  ASSUME OneAtATime, TypeInv, SeatInv, NEW h \in Handlers, NEW t, Become(h, t), SeesAvail(t),
         UNCHANGED <<trips, avail>>
  PROVE  SeatInv'
<1>1. SeesAvail(t)'
  BY DEF SeesAvail
<1> QED BY <1>1, TaskSees, NothingBooked

\* The stages in which nothing need be known of seatsAvailable.
Unseeing == {"offering", "dispatch", "edit", "jitCreate", "hook", "refund", "cancel",
             "undispatch", "accept", "offer", "insertOffer", "reopenOffer", "closeOffer"}

LEMMA ArriveSeats ==
  ASSUME OneAtATime, TypeInv, SeatInv, NEW h \in Handlers, Arrive(h)
  PROVE  SeatInv'
<1>1. UNCHANGED <<trips, avail>>
  BY DEF Arrive, CreateRequest, UpdateRequest, CancelRequest, AcceptRequest, CreateOffer,
     AcceptOffer, CloseOffer, Receive, ReceiveSucceeded, ReceiveRefunded, rows
<1>2. PICK t : Become(h, t) /\ SeesAvail(t)
  <2>1. ASSUME NEW q, NEW pc \in Unseeing, Begin(h, [pc |-> pc, q |-> q])
        PROVE  \E t : Become(h, t) /\ SeesAvail(t)
    <3>1. SeesAvail([pc |-> pc, q |-> q])
      BY DEF SeesAvail, Unseeing
    <3> QED BY <2>1, <3>1 DEF Begin, Become
  <2>2. ASSUME NEW q \in RideReqs, CreateRequest(h, q) \/ CancelRequest(h, q)
        PROVE  \E pc \in Unseeing : Begin(h, [pc |-> pc, q |-> q])
    BY <2>2 DEF CreateRequest, CancelRequest, Unseeing
  <2>3. ASSUME NEW q \in RideReqs, UpdateRequest(h, q)
        PROVE  \E t : Become(h, t) /\ SeesAvail(t)
    <3>1. PICK n : Begin(h, [pc |-> "edit", q |-> q, to |-> n])
      BY <2>3 DEF UpdateRequest
    <3>2. SeesAvail([pc |-> "edit", q |-> q, to |-> n])
      BY DEF SeesAvail
    <3> QED BY <3>1, <3>2 DEF Begin, Become
  <2>4. \A t : t.pc \in Unseeing => SeesAvail(t)
    BY DEF SeesAvail, Unseeing
  <2>5. ASSUME NEW c \in Callbacks, AcceptRequest(h, c)
        PROVE  \E t : Become(h, t) /\ SeesAvail(t)
    BY <2>4, <2>5, AcceptReads DEF Unseeing
  <2>6. ASSUME NEW q \in RideReqs, NEW d \in Drivers, CreateOffer(h, q, d)
        PROVE  \E t : Become(h, t) /\ SeesAvail(t)
    BY <2>4, <2>6, OfferReads DEF Unseeing
  <2>7. ASSUME NEW q \in RideReqs, NEW d \in Drivers, AcceptOffer(h, q, d)
        PROVE  \E t : Become(h, t) /\ SeesAvail(t)
    <3> DEFINE t == [pc |-> "acceptOffer", q |-> q, d |-> d, seen |-> avail[d],
                     seats |-> offered[q][d]]
    <3>1. Become(h, t) /\ SeesAvail(t)
      BY <2>7 DEF AcceptOffer, Begin, Become, SeesAvail
    <3> QED BY <3>1
  <2>8. ASSUME NEW q \in RideReqs, NEW d \in Drivers, NEW to \in Reopenable,
               CloseOffer(h, q, d, to)
        PROVE  \E t : Become(h, t) /\ SeesAvail(t)
    <3>1. SeesAvail([pc |-> "closeOffer", q |-> q, d |-> d, to |-> to])
      BY DEF SeesAvail
    <3> QED BY <2>8, <3>1 DEF CloseOffer, Begin, Become
  <2>9. ASSUME NEW e \in Events, Receive(h, e)
        PROVE  \E t : Become(h, t) /\ SeesAvail(t)
    <3>1. CASE ReceiveSucceeded(h, e)
      <4>1. PICK pc \in {"jitCreate", "dispatch"} : Begin(h, [pc |-> pc, q |-> e.q, ack |-> {e}])
        BY <3>1 DEF ReceiveSucceeded
      <4>2. SeesAvail([pc |-> pc, q |-> e.q, ack |-> {e}])
        BY DEF SeesAvail
      <4> QED BY <4>1, <4>2 DEF Begin, Become
    <3>2. CASE ReceiveRefunded(h, e)
      <4> DEFINE t == [pc |-> "hook", q |-> e.q, was |-> payment[e.q],
                       wasPay |-> PayOfTrip(e.q), ack |-> {e}]
      <4>1. SeesAvail(t)
        BY DEF SeesAvail
      <4> QED BY <3>2, <4>1 DEF ReceiveRefunded, Begin, Become
    <3> QED BY <2>9, <3>1, <3>2 DEF Receive
  <2> QED BY <2>1, <2>2, <2>3, <2>5, <2>6, <2>7, <2>8, <2>9 DEF Arrive
<1> QED BY <1>1, <1>2, ReadSees

\* A refund is marked on a booking, which stays of the same driver and size.
LEMMA RefundMarkSeats ==
  ASSUME OneAtATime, TypeInv, StoryInv, SeatInv, IsFiniteSet(RideReqs), NEW h \in Handlers,
         ApplyRefunded(h)
  PROVE  SeatInv'
<1> DEFINE q == req[h].q
           i == req[h].was.trip
<1>1. trips' = trips \/ trips' = [trips EXCEPT ![q][i].pay = "refunded"]
  BY DEF ApplyRefunded
<1>2. ASSUME NEW p \in RideReqs
      PROVE  /\ DOMAIN trips'[p] = DOMAIN trips[p]
             /\ \A k \in DOMAIN trips[p] :
                  /\ trips'[p][k].driver = trips[p][k].driver
                  /\ trips'[p][k].status = trips[p][k].status
                  /\ trips'[p][k].seats = trips[p][k].seats
  <2>1. trips[p] \in Seq(Trip)
    BY DEF TypeInv, TypeOK
  <2>2. trips'[p] = trips[p] \/ trips'[p] = [trips[p] EXCEPT ![i].pay = "refunded"]
    BY <1>1 DEF TypeInv, TypeOK
  <2>3. DOMAIN trips'[p] = DOMAIN trips[p]
    BY <2>2
  <2>4. \A k \in DOMAIN trips[p] :
          trips'[p][k] = trips[p][k] \/ trips'[p][k] = [trips[p][k] EXCEPT !.pay = "refunded"]
    BY <2>2
  <2>5. \A k \in DOMAIN trips[p] : trips[p][k] \in Trip
    BY <2>1
  <2> QED BY <2>3, <2>4, <2>5 DEF Trip
<1>3. UNCHANGED avail /\ Return(h)
  BY DEF ApplyRefunded
<1>4. ASSUME NEW d \in Drivers PROVE avail'[d] + SumFunctionOnSet(TripSeats, TakenTrips(d))' = Capacity[d]
  <2>1. AllTrips' = AllTrips
    BY <1>2 DEF AllTrips
  <2>2. TakenTrips(d)' = TakenTrips(d)
    BY <1>2, <2>1 DEF TakenTrips, AllTrips
  <2>3. \A b \in TakenTrips(d) : TripSeats'[b] = TripSeats[b]
    BY <1>2, <2>1 DEF TakenTrips, TripSeats, AllTrips
  <2>4. SumFunctionOnSet(TripSeats, TakenTrips(d))' = SumFunctionOnSet(TripSeats, TakenTrips(d))
    BY <2>2, <2>3, SameSeats DEF StoryInv
  <2> QED BY <1>3, <2>4 DEF SeatInv, SeatsAccounted
<1> QED BY <1>3, <1>4, ReturnSees DEF SeatInv, SeatsAccounted

\* A request not booked so far is booked, by either way of accepting it.
LEMMA BookedOf ==
  ASSUME TypeInv, BookedOnce, IsFiniteSet(RideReqs), NEW q \in RideReqs, NEW t \in Trip,
         trips[q] = << >>, trips' = [trips EXCEPT ![q] = Append(@, t)], NEW d \in Drivers
  PROVE  /\ t.driver = d /\ t.status = "ACCEPTED" =>
              SumFunctionOnSet(TripSeats, TakenTrips(d))'
                = t.seats + SumFunctionOnSet(TripSeats, TakenTrips(d))
         /\ ~(t.driver = d /\ t.status = "ACCEPTED") =>
              SumFunctionOnSet(TripSeats, TakenTrips(d))'
                = SumFunctionOnSet(TripSeats, TakenTrips(d))
<1>1. /\ DOMAIN trips'[q] = {1} /\ trips'[q][1] = t /\ DOMAIN trips[q] = {}
      /\ \A p \in RideReqs \ {q} : trips'[p] = trips[p]
  BY DEF TypeInv, TypeOK
<1>2. AllTrips' = AllTrips \cup {<<q, 1>>} /\ <<q, 1>> \notin AllTrips
  <2>1. \A b \in AllTrips' : b \in AllTrips \cup {<<q, 1>>}
    BY <1>1 DEF AllTrips
  <2>2. \A b \in AllTrips : b \in AllTrips'
    BY <1>1 DEF AllTrips
  <2>3. <<q, 1>> \in AllTrips' /\ <<q, 1>> \notin AllTrips
    BY <1>1 DEF AllTrips
  <2> QED BY <2>1, <2>2, <2>3
<1>3. \A b \in AllTrips : b[1] \in RideReqs \ {q}
  BY <1>1 DEF AllTrips
<1>4. /\ \A b \in AllTrips : TripSeats'[b] = TripSeats[b]
      /\ TripSeats'[<<q, 1>>] = t.seats
  BY <1>1, <1>2, <1>3 DEF TripSeats
<1>5. TakenTrips(d)' = IF t.driver = d /\ t.status = "ACCEPTED"
                       THEN TakenTrips(d) \cup {<<q, 1>>} ELSE TakenTrips(d)
  BY <1>1, <1>2, <1>3 DEF TakenTrips
<1>6. TakenTrips(d) \subseteq AllTrips
  BY DEF TakenTrips
<1>7. SumFunctionOnSet(TripSeats', TakenTrips(d)) = SumFunctionOnSet(TripSeats, TakenTrips(d))
  BY <1>4, <1>6, TripsFinite, SumSame
<1>8. ASSUME t.driver = d, t.status = "ACCEPTED"
      PROVE  SumFunctionOnSet(TripSeats', TakenTrips(d) \cup {<<q, 1>>})
               = t.seats + SumFunctionOnSet(TripSeats', TakenTrips(d))
  <2>1. t.seats \in Nat
    BY DEF Trip
  <2>2. \A b \in TakenTrips(d) \cup {<<q, 1>>} : TripSeats'[b] \in Nat
    BY <1>4, <1>6, <2>1, TripsFinite
  <2>3. IsFiniteSet(TakenTrips(d)) /\ <<q, 1>> \notin TakenTrips(d)
    BY <1>2, <1>6, TripsFinite
  <2>4. SumFunctionOnSet(TripSeats', TakenTrips(d) \cup {<<q, 1>>})
          = TripSeats'[<<q, 1>>] + SumFunctionOnSet(TripSeats', TakenTrips(d))
    BY <2>2, <2>3, SumAdd
  <2> QED BY <1>4, <2>4
<1> QED BY <1>5, <1>7, <1>8

LEMMA AcceptSeats ==
  ASSUME OneAtATime, TypeInv, StoryInv, SeatInv, IsFiniteSet(RideReqs), NEW h \in Handlers,
         CommitAccept(h) \/ CommitAcceptOffer(h)
  PROVE  SeatInv'
<1>q. /\ req[h] \in AcceptTask \cup BookTask /\ Fits(req[h]) /\ SeesAvail(req[h])
      /\ req[h].pc \in {"accept", "acceptOffer"}
  BY TaskKinds DEF CommitAccept, CommitAcceptOffer, At, TypeInv, TypeOK, StoryInv, HandlersFit,
     SeatInv, HandlersSee
<1>1. PICK q \in RideReqs, d \in Drivers, n \in Nat :
        q = req[h].q /\ d = req[h].d /\ n = req[h].seats
  BY <1>q DEF AcceptTask, BookTask
<1>2. trips[q] = << >>
  <2>1. request[q].status \in Open
    BY <1>q, <1>1 DEF Fits
  <2>2. request[q].status # "ACCEPTED"
    BY <2>1 DEF Open
  <2>3. trips[q] # << >> => request[q] = [status |-> "ACCEPTED", driver |-> trips[q][1].driver]
    BY DEF StoryInv, BookedOnce
  <2> QED BY <2>2, <2>3
<1>3. CASE CommitAccept(h)
  <2>1. PICK t : t = [driver |-> d, status |-> "CONFIRMED", pay |-> "paid", seats |-> n]
    OBVIOUS
  <2>2. t \in Trip /\ t.status # "ACCEPTED"
    BY <2>1 DEF Trip
  <2>3. /\ UNCHANGED avail /\ Return(h)
        /\ trips' = [trips EXCEPT ![q] = Append(@, t)] \/ UNCHANGED trips
    BY <1>1, <1>3, <2>1 DEF CommitAccept
  <2>4. HandlersSee'
    BY <2>3, ReturnSees
  <2>5. CASE UNCHANGED trips
    BY <2>3, <2>4, <2>5, NothingBooked
  <2>6. CASE trips' = [trips EXCEPT ![q] = Append(@, t)]
    <3>1. \A e \in Drivers : SumFunctionOnSet(TripSeats, TakenTrips(e))'
                              = SumFunctionOnSet(TripSeats, TakenTrips(e))
      BY <1>2, <2>2, <2>6, BookedOf DEF StoryInv
    <3> QED BY <2>3, <2>4, <3>1 DEF SeatInv, SeatsAccounted
  <2> QED BY <2>3, <2>5, <2>6
<1>4. CASE CommitAcceptOffer(h)
  <2>1. PICK t : t = [driver |-> d, status |-> "ACCEPTED", pay |-> "unpaid", seats |-> n]
    OBVIOUS
  <2>2. t \in Trip /\ t.status = "ACCEPTED" /\ t.driver = d /\ t.seats = n
    BY <2>1 DEF Trip
  <2>3. req[h].seen = avail[d]
    BY <1>q, <1>1, <1>4 DEF CommitAcceptOffer, At, SeesAvail
  <2>4. /\ Return(h) /\ trips' = [trips EXCEPT ![q] = Append(@, t)]
        /\ avail' = [avail EXCEPT ![d] = avail[d] - n]
    BY <1>1, <1>4, <2>1, <2>3 DEF CommitAcceptOffer, SeatsAfter
  <2>5. \A e \in Drivers : avail[e] \in Nat /\ avail'[e] = IF e = d THEN avail[d] - n ELSE avail[e]
    BY <2>4 DEF TypeInv, TypeOK
  <2>6. ASSUME NEW e \in Drivers
        PROVE  avail'[e] + SumFunctionOnSet(TripSeats, TakenTrips(e))' = Capacity[e]
    <3>1. avail[e] + SumFunctionOnSet(TripSeats, TakenTrips(e)) = Capacity[e]
      BY DEF SeatInv, SeatsAccounted
    <3>2. SumFunctionOnSet(TripSeats, TakenTrips(e)) \in Nat
      BY TripsFinite, SumType DEF StoryInv
    <3>3. SumFunctionOnSet(TripSeats, TakenTrips(e))'
            = IF e = d THEN n + SumFunctionOnSet(TripSeats, TakenTrips(e))
              ELSE SumFunctionOnSet(TripSeats, TakenTrips(e))
      BY <1>2, <2>2, <2>4, BookedOf DEF StoryInv
    <3> DEFINE taken == SumFunctionOnSet(TripSeats, TakenTrips(e))
               after == SumFunctionOnSet(TripSeats, TakenTrips(e))'
    <3>4. /\ taken \in Nat /\ avail[e] + taken = Capacity[e]
          /\ after = IF e = d THEN n + taken ELSE taken
      BY <3>1, <3>2, <3>3
    <3>5. avail'[e] + after = Capacity[e]
      <4> HIDE DEF taken, after
      <4> QED BY <2>5, <3>4
    <3> QED BY <3>5
  <2> QED BY <2>4, <2>6, ReturnSees DEF SeatInv, SeatsAccounted
<1> QED BY <1>3, <1>4

LEMMA ProceedSeats ==
  ASSUME OneAtATime, TypeInv, StoryInv, SeatInv, IsFiniteSet(RideReqs), NEW h \in Handlers,
         Proceed(h)
  PROVE  SeatInv'
<1>1. CASE \/ MarkOffering(h) \/ Dispatch(h) \/ CommitUpdateRequest(h)
           \/ CommitJitRequest(h) \/ RefundRequest(h) \/ CommitCancelRequest(h)
           \/ CancelDispatch(h) \/ FindOffer(h) \/ CommitOffer(h) \/ CommitCloseOffer(h)
  <2>1. UNCHANGED <<trips, avail>>
    BY <1>1 DEF MarkOffering, Dispatch, CommitUpdateRequest, CommitJitRequest, RefundRequest,
       CommitCancelRequest, CancelDispatch, FindOffer, CommitOffer, CommitCloseOffer, rows
  <2>2. PICK t : Become(h, t) /\ SeesAvail(t)
    <3>1. CASE Return(h)
      <4>1. SeesAvail(Idle)
        BY DEF SeesAvail, Idle
      <4> QED BY <3>1, <4>1 DEF Return, Become
    <3>2. CASE MarkOffering(h) \/ CommitJitRequest(h)
      <4>1. PICK ack : Become(h, [pc |-> "dispatch", q |-> req[h].q, ack |-> ack])
        BY <3>2 DEF MarkOffering, CommitJitRequest
      <4>2. SeesAvail([pc |-> "dispatch", q |-> req[h].q, ack |-> ack])
        BY DEF SeesAvail
      <4> QED BY <4>1, <4>2
    <3>3. CASE RefundRequest(h) \/ CommitCancelRequest(h)
      <4>1. PICK pc \in {"cancel", "undispatch"} : Become(h, [pc |-> pc, q |-> req[h].q])
        BY <3>3 DEF RefundRequest, CommitCancelRequest
      <4>2. SeesAvail([pc |-> pc, q |-> req[h].q])
        BY DEF SeesAvail
      <4> QED BY <4>1, <4>2
    <3>4. CASE FindOffer(h)
      <4>1. PICK pc \in {"insertOffer", "reopenOffer"} : Become(h, [req[h] EXCEPT !.pc = pc])
        BY <3>4 DEF FindOffer
      <4>2. req[h] \in DriverTask
        BY <3>4, TaskKinds DEF FindOffer, At, TypeInv, TypeOK
      <4>3. PICK t : t = [req[h] EXCEPT !.pc = pc]
        OBVIOUS
      <4>4. SeesAvail(t)
        BY <4>2, <4>3 DEF DriverTask, SeesAvail
      <4> QED BY <4>1, <4>3, <4>4
    <3> QED BY <1>1, <3>1, <3>2, <3>3, <3>4 DEF Dispatch, CommitUpdateRequest, CancelDispatch,
            CommitOffer, CommitCloseOffer
  <2> QED BY <2>1, <2>2, ReadSees
<1> QED BY <1>1, RefundMarkSeats, AcceptSeats DEF Proceed

LEMMA SeatInit == ASSUME IsFiniteSet(RideReqs) PROVE Init => SeatInv
<1> SUFFICES ASSUME Init PROVE SeatInv
  OBVIOUS
<1>1. HandlersSee
  BY DEF Init, HandlersSee, SeesAvail, Idle
<1>2. ASSUME NEW d \in Drivers PROVE avail[d] + SumFunctionOnSet(TripSeats, TakenTrips(d)) = Capacity[d]
  <2>1. AllTrips = {}
    BY DEF Init, AllTrips
  <2>2. TakenTrips(d) = {}
    BY <2>1 DEF TakenTrips
  <2>3. avail[d] = Capacity[d] /\ Capacity[d] \in Nat
    BY ParamsAssumption DEF Init
  <2> QED BY <2>2, <2>3, SumEmpty
<1> QED BY <1>1, <1>2 DEF SeatInv, SeatsAccounted

LEMMA SeatStep ==
  ASSUME OneAtATime, IsFiniteSet(RideReqs), TypeInv, StoryInv, SeatInv, [Next]_vars
  PROVE  SeatInv'
<1>1. ASSUME NEW h \in Handlers, Fail(h)
      PROVE  SeatInv'
  <2>1. Return(h) /\ UNCHANGED <<trips, avail>>
    BY <1>1 DEF Fail, rows
  <2> QED BY <2>1, ReturnSees, NothingBooked
<1>2. CASE \/ \E q \in RideReqs : CreateJitIntent(q) \/ PayJitIntent(q)
           \/ \E e \in Events : AckEvent(e)
           \/ \E q \in RideReqs, d \in Drivers : DriverTakes(q, d)
           \/ UNCHANGED vars
  <2>1. UNCHANGED <<trips, avail, req>>
    BY <1>2 DEF CreateJitIntent, PayJitIntent, AckEvent, DriverTakes, rows, vars
  <2>2. HandlersSee'
    BY <2>1 DEF SeatInv, HandlersSee, SeesAvail
  <2> QED BY <2>1, <2>2, NothingBooked
<1> QED BY <1>1, <1>2, ArriveSeats, ProceedSeats DEF Next

\* The seats left in every driver's ride and those its accepted offers took make
\* up what it offered, for any number of requests and drivers, when requests do
\* not overlap: no acceptance is forgotten or counted twice.
THEOREM SeatsAccountedCorrect ==
  ASSUME OneAtATime, IsFiniteSet(RideReqs)
  PROVE  Spec => []SeatsAccounted
<1>1. TypeInv /\ StoryInv /\ SeatInv /\ [Next]_vars => SeatInv'
  BY SeatStep
<1>2. SeatInv => SeatsAccounted
  BY DEF SeatInv
<1> QED BY <1>1, <1>2, StoryCorrect, SeatInit, PTL DEF Spec
=============================================================================
