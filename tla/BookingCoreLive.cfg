SPECIFICATION FairSpec
CONSTANTS
    Workers = {w1, w2}
    Bookings = {1, 2}
    Seats = {1}
    Events = {e1}
    NoEvent = NoEvent
    MaxSeats = 1
    BatchLimit = 1
PROPERTIES
    OverdueIsSettled
    EveryRequestEnds
