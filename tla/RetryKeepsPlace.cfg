SPECIFICATION RoomSpec
CONSTANTS
  Token = {t1, t2}
  NoToken = NoToken
  Request = {r1, r2}
  Rate = 4
  Minute = 12
  ASecond = 2
  FallsShort = {6}
  RoundsUp = {4}
  InitialAdmit = 1
  TicketTtl = 2
  NoStart = NoStart
  MaxSkew = 1
  MaxTime = 2
  MaxNumber = 3
PROPERTIES
  RetryKeepsPlace
CHECK_DEADLOCK FALSE
