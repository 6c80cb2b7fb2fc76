SPECIFICATION ServicesSpec
CONSTANTS
  Handlers = {h1, h2}
  None = None
  Clients = {c1}
  Max = 2
  Window = 3
  Patience = 2
  Horizon = 8
  Passengers = {b1}
  SeatsBooked <- TwoEach
  Units = 20
  Kms = {201, 1200}
  SeatsOffered = {2, 3}
  Bases = {2500}
  FixedPrices = {800}
  BaseFare = 300
  PerKm = 10
  ServiceFee = 100
  TaxBps = 1300
  FeePct = 15
  Rides = {r1}
  Fields = {car, plate}
  Values = {x, Null}
  Null = Null
  NoProfile = NoProfile
SYMMETRY Symmetries
INVARIANTS AllTypesOK BurstBound RecordedAsCharged
PROPERTIES RefusedForCause PriceWithinCap DeletedStaysDeleted
CHECK_DEADLOCK FALSE
