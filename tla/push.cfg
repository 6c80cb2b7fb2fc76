SPECIFICATION Spec
CONSTANTS
  Users = {u1, u2}
  Devices = {d1, d2}
  Notices = {n1, n2}
  BatchSize = 1
  Nobody = Nobody
SYMMETRY Symmetries
INVARIANTS TypeOK PushedOnce PushedIsInFeed
PROPERTIES LiveDevicesStay
CHECK_DEADLOCK FALSE
