SPECIFICATION Spec
CONSTANTS
  r1 = r1  b1 = b1  b2 = b2  b3 = b3  h1 = h1  h2 = h2
  Rides = {r1}
  Bookings = {b2}
  Handlers = {h1, h2}
  RideOf <- OneRide
  SeatsOf <- TwoForSecond
  SeatTotals = {2}
  UpdateTotals = {1}
SYMMETRY HandlerSymmetry
INVARIANTS TypeOK BooksFollowStripe NoFreeRide NoOrphanPayment
PROPERTIES KeepsCustody
CHECK_DEADLOCK FALSE
