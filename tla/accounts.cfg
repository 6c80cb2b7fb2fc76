SPECIFICATION WatchedSpec
CONSTANTS
  u1 = u1  p1 = p1  p2 = p2  t1 = t1  t2 = t2  t3 = t3  h1 = h1  h2 = h2
  Users = {u1}
  Passwords = {p1, p2}
  NoPassword = NoPassword
  Tokens = {t1, t2, t3}
  NoToken = NoToken
  OtpLimit = 2
  Handlers = {h1, h2}
SYMMETRY Symmetries
INVARIANTS TypeOK AttemptsBounded OneTokenPerSession
PROPERTIES RevokedIsFinal OneResetPerCode
CHECK_DEADLOCK FALSE
