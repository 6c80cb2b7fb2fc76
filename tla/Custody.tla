------------------------------ MODULE Custody -------------------------------
(***************************************************************************)
(* What the HelpRide API promises about a passenger's money, whichever     *)
(* part of it takes the payment.  A fare is a thing paid for once: a       *)
(* booking, or a just-in-time ride request.  Its money is not there yet,   *)
(* held, or returned; it is taken at most once and returned at most once.  *)
(* The database has its own idea of the fare, changed by whichever request *)
(* or webhook commits next: it may lag behind the money for as long as it  *)
(* likes, and it may go back to an earlier idea, but it is never ahead.    *)
(*                                                                         *)
(* BookingsCustody and RideRequestsCustody show how Bookings and           *)
(* RideRequests implement it.                                              *)
(***************************************************************************)
CONSTANT Fares

VARIABLES
  money,    \* where the money of each fare is
  served,   \* fares for which the service is granted: a seat, a driver search
  books     \* what the database says of the money of each fare

custodyVars == <<money, served, books>>

Init ==
  /\ money = [f \in Fares |-> "none"]
  /\ served = {}
  /\ books = [f \in Fares |-> {}]

Capture(f) ==
  /\ money[f] = "none"
  /\ money' = [money EXCEPT ![f] = "held"]
  /\ UNCHANGED <<served, books>>

GiveBack(f) ==
  /\ money[f] = "held"
  /\ money' = [money EXCEPT ![f] = "returned"]
  /\ UNCHANGED <<served, books>>

\* What the database may say of a fare.
Backed(f) ==
  (IF money[f] = "none" THEN {} ELSE {"paid"})
    \cup (IF money[f] = "returned" THEN {"refunded"} ELSE {})

\* One transaction, of any number of fares: a service granted or withdrawn, a
\* word written or overwritten.
Record ==
  /\ served' \subseteq {f \in Fares : money[f] # "none"}
  /\ books' \in [Fares -> SUBSET {"paid", "refunded"}]
  /\ \A f \in Fares : books'[f] \subseteq Backed(f)
  /\ UNCHANGED money

Next == Record \/ \E f \in Fares : Capture(f) \/ GiveBack(f)

Spec == Init /\ [][Next]_custodyVars
=============================================================================
