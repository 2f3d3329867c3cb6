SPECIFICATION AgeSpec
CONSTANTS
    Workers = {w1, w2}
    Users = {u1, u2}
    NoUser = NoUser
    Seats = {1, 2}
    Ttl = 2
INVARIANT LeftBehindRunsOut
