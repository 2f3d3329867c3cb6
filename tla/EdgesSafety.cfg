SPECIFICATION EdgesSpec
CONSTANTS
  Token = {t1, t2}
  NoToken = NoToken
  Request = {r1, r2}
  Rate = 4
  Minute = 12
  ASecond = 2
  FallsShort = {6}
  RoundsUp = {4}
  InitialAdmit = 1
  TicketTtl = 2
  NoStart = NoStart
  MaxSkew = 1
  MaxTime = 2
  MaxNumber = 3
  Limit = 2
  WindowSeconds = 2
  MaxTicks = 14
  Buyer = {r1, r2, r3}
  Row = {1, 2, 3}
  MaxSeats = 2
  Layout <- TheLayout
  Seats <- TheSeats
  AislesAfter = {1}
  SeatSize = 4
  SeatGap = 2
  AisleWidth = 2
  RowLabelWidth = 4
  RevealMargin = 2
  DragThreshold = 3
  Scales = {2, 4}
  Widths = {12}
  Points = {3, 9}
  Pointer = {r1, r2}
  MaxSelected = 1
  MaxReloads = 1
  NoCell = NoCell
  NoPress = NoPress
  Rects <- TheRects
  BoundsW = 16
  BoundsH = 16
  MaxDepth = 2
  MaxPerNode = 1
  Places <- ThePlaces
  Corners <- TheCorners
  Sizes = {1, 4}
  Rows <- TheRows
  MaxCount = 3
  Scale = 12
  Customer = {r1, r2}
  NoCustomer = NoCustomer
  HoldTtl = 2
  PendingTtl = 4
  LastSecond = 12
INVARIANTS
  EdgesTypeOK
  AdmitsNoMore PlacesDistinct EtaIsEnough
  TwiceTheLimit WaitingIsEnough
  NoHalfBooking
  HoldsOfItsTimeAreOver
  PictureFollows PlanReachable DragSelectsNothing
  HitTestIsExact CullingIsExact
  BestTogether
PROPERTIES
  LaterRetryKeepsPlace StrandsOnlyWhenOvertaken CursorInView
CHECK_DEADLOCK FALSE
SYMMETRY Sym
