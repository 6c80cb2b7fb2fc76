------------------------------ MODULE Drivers ------------------------------
(***************************************************************************)
(* The profile of one driver, which is also the driver's only vehicle:     *)
(* driver.controller.ts.                                                   *)
(*                                                                         *)
(* It is created, edited (as a profile or as a vehicle, the same handler), *)
(* and deleted when the driver has no active ride.  Each handler reads     *)
(* first and writes later; in between others run.  The driver's rides come *)
(* and go by their own handlers, which are in Bookings.                    *)
(*                                                                         *)
(* Out of the model: isVerified, which no handler writes, and the public   *)
(* profile, the summary and the ledger of earnings, which change no row.   *)
(***************************************************************************)
EXTENDS Integers

CONSTANTS
  Fields,     \* the columns of a profile a body may name
  Values,     \* what they may hold, null included
  Null,
  NoProfile,
  Rides,      \* the driver's rides
  Handlers

VARIABLES profile, ride, req

vars == <<profile, ride, req>>

Profile == [Fields -> Values]

RideStatus == {"none", "open", "ongoing", "completed", "cancelled"}

\* What a body names.
Bodies == UNION {[fs -> Values] : fs \in SUBSET Fields}

Idle == [pc |-> "idle"]

Tasks ==
  {Idle} \cup [pc : {"deleteCheck", "delete"}] \cup [pc : {"create", "update"}, row : Profile]

TypeOK ==
  /\ profile \in Profile \cup {NoProfile}
  /\ ride \in [Rides -> RideStatus]
  /\ req \in [Handlers -> Tasks]

Init ==
  /\ profile = NoProfile
  /\ ride = [r \in Rides |-> "none"]
  /\ req = [h \in Handlers |-> Idle]

At(h, pc)      == req[h].pc = pc
Begin(h, task) == req[h] = Idle /\ req' = [req EXCEPT ![h] = task]
Return(h)      == req' = [req EXCEPT ![h] = Idle]

-----------------------------------------------------------------------------
\* Mutant: the body is written as it is.
NamedOnly(body, rest) == body

\* rest: what the fields are that the body does not name.
Filled(body, rest) ==
  [f \in Fields |-> IF f \in DOMAIN body THEN body[f] ELSE rest[f]]

\* POST /drivers
CreateDriverProfile(h, body) ==
  /\ profile = NoProfile
  /\ Begin(h, [pc |-> "create", row |-> Filled(body, [f \in Fields |-> Null])])
  /\ UNCHANGED <<profile, ride>>

\* The unique userId refuses a second profile.
CommitCreateProfile(h) ==
  /\ At(h, "create") /\ profile = NoProfile
  /\ profile' = req[h].row
  /\ Return(h)
  /\ UNCHANGED ride

\* PUT /drivers/:id and /drivers/:id/vehicles/:vehicleId: all fields are written,
\* those not named as they were read.
UpdateDriverProfile(h, body) ==
  /\ profile # NoProfile
  /\ Begin(h, [pc |-> "update", row |-> Filled(body, profile)])
  /\ UNCHANGED <<profile, ride>>

\* Mutant: an upsert.
UpsertProfile(h) ==
  /\ At(h, "update")
  /\ profile' = req[h].row
  /\ Return(h)
  /\ UNCHANGED ride

\* An update of a row that is gone throws.
CommitUpdateProfile(h) ==
  /\ At(h, "update") /\ profile # NoProfile
  /\ profile' = req[h].row
  /\ Return(h)
  /\ UNCHANGED ride

ActiveRides == {r \in Rides : ride[r] \in {"open", "ongoing"}}

\* DELETE /drivers/:id/vehicles/:vehicleId
DeleteDriverVehicle(h) ==
  /\ profile # NoProfile
  /\ Begin(h, [pc |-> "deleteCheck"])
  /\ UNCHANGED <<profile, ride>>

CountActiveRides(h) ==
  /\ At(h, "deleteCheck") /\ ActiveRides = {}
  /\ req' = [req EXCEPT ![h] = [pc |-> "delete"]]
  /\ UNCHANGED <<profile, ride>>

CommitDeleteVehicle(h) ==
  /\ At(h, "delete") /\ profile # NoProfile
  /\ profile' = NoProfile
  /\ Return(h)
  /\ UNCHANGED ride

\* The handler ends with an error.
Fail(h) ==
  /\ req[h] # Idle
  /\ Return(h)
  /\ UNCHANGED <<profile, ride>>

\* The driver's rides; creating one does not ask for a profile.
MoveRide(r, from, to) ==
  /\ ride[r] = from
  /\ ride' = [ride EXCEPT ![r] = to]
  /\ UNCHANGED <<profile, req>>

RideStep ==
  \E r \in Rides :
    \/ MoveRide(r, "none", "open") \/ MoveRide(r, "open", "ongoing")
    \/ MoveRide(r, "ongoing", "completed")
    \/ MoveRide(r, "open", "cancelled") \/ MoveRide(r, "ongoing", "cancelled")
    \/ MoveRide(r, ride[r], "none")   \* deleted

HandlerStep(h) ==
  \/ \E body \in Bodies : CreateDriverProfile(h, body) \/ UpdateDriverProfile(h, body)
  \/ DeleteDriverVehicle(h) \/ CountActiveRides(h)
  \/ CommitCreateProfile(h) \/ CommitUpdateProfile(h) \/ CommitDeleteVehicle(h)
  \/ Fail(h)

Next == RideStep \/ \E h \in Handlers : HandlerStep(h)

Spec == Init /\ [][Next]_vars
=============================================================================
