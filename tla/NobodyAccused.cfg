SPECIFICATION Spec
CONSTANTS
  Seat = {s1}
  Followed = {s1}
  Together <- Suggestions
  MaxSeats = 1
  MaxCalls = 2
  MaxUpsets = 0
INVARIANT NobodyAccused
CHECK_DEADLOCK FALSE
