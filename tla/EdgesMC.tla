------------------------------ MODULE EdgesMC ------------------------------
(***************************************************************************)
(* The parts around booking and holding that share no state with it nor    *)
(* with each other: the waiting room, the hold rate limit and the creation *)
(* of bookings under the group rule at the server; the canvas, its         *)
(* quadtree and the seat suggestion in the browser.  A behaviour is one of *)
(* one part: `part` says which, and the others stay as they began.         *)
(***************************************************************************)
EXTENDS SeatCanvas, Quadtree, BestSeats, WaitingRoom, HoldRateLimit, GroupBooking,
        BookingLifetime, TLC

TheLayout == << <<1, 2>> >>
TheSeats  == {<<1, 2>>}
TheRects  == {[x |-> x, y |-> y, w |-> 2, h |-> 2] : x \in {0, 2, 7, 12}, y \in {1, 3}}
ThePlaces == {-1, 0, 1, 2, 3, 5, 7, 8, 9, 12, 14}   \* edges of cells and halves, beside and between them
TheCorners == {-1, 3, 9}
TheRows   == << {1, 2, 3}, {1, 2, 4, 5}, {2, 3, 4} >>

VARIABLE part

AllVars == <<part, vars, treeVars, bestVars, roomVars, limiterVars, groupVars, seatVars>>

\* A part that does not move has one beginning only.
EdgesInit ==
  /\ part \in {"room", "limiter", "groups", "lifetime", "canvas", "tree", "best"}
  /\ RoomInit /\ LimiterInit /\ GroupInit /\ LifetimeInit /\ Init /\ TreeInit /\ BestInit
  /\ part # "groups" => config = [mode |-> "safe", unique |-> TRUE, rule |-> FALSE]
  /\ part # "canvas" => width = CHOOSE w \in Widths : TRUE
  /\ part # "best" => count = 1

RoomStep    == /\ part = "room" /\ RoomNext
               /\ UNCHANGED <<part, limiterVars, groupVars, seatVars, vars, treeVars, bestVars>>
LimiterStep == /\ part = "limiter" /\ LimiterNext
               /\ UNCHANGED <<part, roomVars, groupVars, seatVars, vars, treeVars, bestVars>>
GroupStep   == /\ part = "groups" /\ GroupNext
               /\ UNCHANGED <<part, roomVars, limiterVars, seatVars, vars, treeVars, bestVars>>
LifetimeStep == /\ part = "lifetime" /\ LifetimeNext
                /\ UNCHANGED <<part, roomVars, limiterVars, groupVars, vars, treeVars, bestVars>>
CanvasStep  == /\ part = "canvas" /\ Next
               /\ UNCHANGED <<part, roomVars, limiterVars, groupVars, seatVars, treeVars, bestVars>>
TreeStep    == /\ part = "tree" /\ TreeNext
               /\ UNCHANGED <<part, roomVars, limiterVars, groupVars, seatVars, vars, bestVars>>
BestStep    == /\ part = "best" /\ BestNext
               /\ UNCHANGED <<part, roomVars, limiterVars, groupVars, seatVars, vars, treeVars>>

EdgesNext == RoomStep \/ LimiterStep \/ GroupStep \/ LifetimeStep \/ CanvasStep \/ TreeStep \/ BestStep

EdgesSpec == EdgesInit /\ [][EdgesNext]_AllVars

\* Tokens, and requests: fingers, customers and the first two buyers go by the
\* same names, as no two of these parts move in one behaviour.
Sym == Permutations(Token) \cup Permutations(Request)

\* Every part is what its keys, rows or component state can be.
EdgesTypeOK ==
  /\ RoomTypeOK /\ LimiterTypeOK /\ GroupTypeOK /\ LifetimeTypeOK
  /\ TypeOK /\ TreeTypeOK /\ BestTypeOK

=============================================================================
