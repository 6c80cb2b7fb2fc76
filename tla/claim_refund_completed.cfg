SPECIFICATION Spec
CONSTANTS
  r1 = r1  b1 = b1  b2 = b2  b3 = b3  h1 = h1  h2 = h2
  Rides = {r1}
  Bookings = {b1}
  Handlers = {h1}
  RideOf <- OneRide
  SeatsOf <- OneSeatEach
  SeatTotals = {1}
  UpdateTotals = {}
PROPERTY CompletedPaymentRefunded
CHECK_DEADLOCK FALSE
