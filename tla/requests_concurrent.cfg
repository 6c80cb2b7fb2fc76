SPECIFICATION Spec
CONSTANTS
  q1 = q1  q2 = q2  d1 = d1  d2 = d2  h1 = h1  h2 = h2
  RideReqs = {q1, q2}
  Drivers = {d1}
  NoDriver = NoDriver
  Handlers = {h1, h2}
  ModeOf <- FirstJit
  SeatsNeeded <- OneSeat
  EditSeats <- NoneNamed
  OfferSeats <- NoneNamed
  Unstorable = {}
  Capacity <- OneLeft
SYMMETRY HandlerSymmetry
INVARIANTS TypeOK PaidBeforeRequest CancelledIsRefunded TripsFollowStripe
PROPERTIES KeepsCustody
CHECK_DEADLOCK FALSE
