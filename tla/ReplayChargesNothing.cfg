SPECIFICATION Spec
CONSTANTS
    Workers = {w1, w2}
    Bookings = {1, 2}
    Seats = {1, 2}
    Events = {e1, e2}
    NoEvent = NoEvent
    MaxSeats = 2
    BatchLimit = 1
PROPERTIES
    ReplayChargesNothing
