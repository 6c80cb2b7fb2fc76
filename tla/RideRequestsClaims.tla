------------------------- MODULE RideRequestsClaims -------------------------
(***************************************************************************)
(* What the API documentation says of ride requests, and the code does not *)
(* keep.                                                                   *)
(***************************************************************************)
EXTENDS RideRequestsSerial

\* "First accepted callback wins." (docs/HelpRide_API_README.md:1547): the
\* driver of a request accepted by a callback does not change.
FirstCallbackWins ==
  [][\A q \in RideReqs :
       request[q].driver # NoDriver => request'[q].driver = request[q].driver]_vars
=============================================================================
