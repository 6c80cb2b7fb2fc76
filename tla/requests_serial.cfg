SPECIFICATION Spec
CONSTANTS
  q1 = q1  q2 = q2  d1 = d1  d2 = d2  h1 = h1  h2 = h2
  RideReqs = {q1, q2}
  Drivers = {d1, d2}
  NoDriver = NoDriver
  Handlers = {h1}
  ModeOf <- FirstJit
  SeatsNeeded <- FirstTwo
  EditSeats <- SecondTwo
  OfferSeats <- SecondTwo
  Unstorable = {}
  Capacity <- TwoAndOne
INVARIANTS BookedOnce OffersAgree SeatsAccounted
PROPERTIES ClosedStaysClosed
CHECK_DEADLOCK FALSE
