SPECIFICATION Spec
CONSTANTS
  Seat = {s1, s2, s3, s4}
  Followed = {s1, s2}
  Together <- Suggestions
  MaxSeats = 2
  MaxCalls = 4
  MaxUpsets = 1
SYMMETRY SeatSymmetry
CONSTRAINT Bound
INVARIANTS
  TypeOK
  PendingIsAwaited
  BookingDecidedOnce
  SelectionIsHeld
PROPERTY CountdownGoesWithHolds
CHECK_DEADLOCK FALSE
