------------------------------ MODULE Services ------------------------------
(***************************************************************************)
(* Three parts that share no state: the limit on requests, fares, and      *)
(* drivers' vehicles.  A behaviour is one of one of them; the others keep  *)
(* their initial states.                                                   *)
(*                                                                         *)
(* What holds of edits of a ride one at a time is said of behaviours in    *)
(* which the history variable overlapped stays FALSE.                      *)
(***************************************************************************)
EXTENDS RateLimit

CONSTANTS
  Handlers, None,
  Passengers, SeatsBooked, Units, Kms, SeatsOffered, Bases, FixedPrices,
  BaseFare, PerKm, ServiceFee, TaxBps, FeePct,
  Rides, Fields, Values, Null, NoProfile

VARIABLES
  service,      \* the part that runs
  fixed, pricedRide, intent, payment, linked, fareReq,
  profile, driverRide, driverReq,
  overlapped    \* two requests about fares were once in flight together

F == INSTANCE Fares WITH ride <- pricedRide, req <- fareReq

D == INSTANCE Drivers WITH ride <- driverRide, req <- driverReq

\* Prices, distances and rates are whole and not negative; null is a value of a
\* column, and None no row and no number.
ASSUME ServicesAssumption ==
  /\ Kms \subseteq Nat /\ SeatsOffered \subseteq Nat
  /\ Bases \subseteq Nat /\ FixedPrices \subseteq Nat
  /\ SeatsBooked \in [Passengers -> Nat] /\ Units \in Nat \ {0}
  /\ {BaseFare, PerKm, ServiceFee, TaxBps, FeePct} \subseteq Nat
  /\ None \notin Nat \cup F!Ride \cup F!Intent \cup F!Charge
  /\ Null \in Values

limitVars == <<now, bucket, passed>>
fareVars == <<fixed, pricedRide, intent, payment, linked, fareReq>>
driverVars == <<profile, driverRide, driverReq>>

servicesVars == <<service, limitVars, fareVars, driverVars, overlapped>>

ServicesInit ==
  /\ service \in {"limit", "fares", "drivers"}
  /\ Init /\ F!Init /\ D!Init
  /\ overlapped = FALSE

FaresNext ==
  \/ F!AdminStep /\ UNCHANGED overlapped
  \/ \E h \in Handlers :
       /\ F!HandlerStep(h)
       /\ overlapped' = (overlapped \/ \E g \in Handlers \ {h} : fareReq[g] # F!Idle)

ServicesNext ==
  \/ service = "limit" /\ Next /\ UNCHANGED <<service, fareVars, driverVars, overlapped>>
  \/ service = "fares" /\ FaresNext /\ UNCHANGED <<service, limitVars, driverVars>>
  \/ service = "drivers" /\ D!Next /\ UNCHANGED <<service, limitVars, fareVars, overlapped>>

ServicesSpec == ServicesInit /\ [][ServicesNext]_servicesVars

AllTypesOK == TypeOK /\ F!TypeOK /\ D!TypeOK

\* Fares!RecordedAsCharged: the database says of a charge what Stripe takes.
RecordedAsCharged == F!RecordedAsCharged

\* Docs, pricing rules: the final price is at most the distance times $0.30.  An
\* edit that names a price leaves the ride within half a cent of the cap of the
\* distance it then has, be it new or old.  (Not within the cap: the code rounds
\* after it has capped, and 10.05 km are sold at $3.02.  An edit that moves the
\* ride and names no price does not, nor does one that overlaps such an edit.)
PriceWithinCap ==
  [][overlapped' \/
     \A h \in Handlers :
       F!CommitUpdateRide(h) /\ fareReq[h].edit.price # None
         => F!InCap(pricedRide'.price, pricedRide'.km)]_servicesVars

\* A vehicle that was deleted stays deleted until the driver creates a profile:
\* an edit that read it before does not bring it back.
DeletedStaysDeleted ==
  [][profile = NoProfile /\ profile' # NoProfile
       => \E h \in Handlers : D!CommitCreateProfile(h)]_servicesVars
=============================================================================
