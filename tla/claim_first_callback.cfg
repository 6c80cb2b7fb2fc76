SPECIFICATION Spec
CONSTANTS
  q1 = q1  q2 = q2  d1 = d1  d2 = d2  h1 = h1  h2 = h2
  RideReqs = {q1}
  Drivers = {d1, d2}
  NoDriver = NoDriver
  Handlers = {h1, h2}
  ModeOf <- AllJit
  SeatsNeeded <- OneSeat
  EditSeats <- NoneNamed
  OfferSeats <- NoneNamed
  Unstorable = {}
  Capacity <- OneLeft
PROPERTY FirstCallbackWins
CHECK_DEADLOCK FALSE
