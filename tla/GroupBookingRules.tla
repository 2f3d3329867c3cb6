------------------------- MODULE GroupBookingRules -------------------------
(***************************************************************************)
(* The rule against stranded seats (groupBookingRules.js).  A screen is a  *)
(* function from seats <<row, number>> to "available" or something else;   *)
(* a coordinate without a seat is not in its domain.                       *)
(***************************************************************************)
EXTENDS Integers, FiniteSets

IsFree(seats, booked, s) == seats[s] = "available" /\ s \notin booked

\* A neighbour that is there and not free.  A wall, an aisle or a missing seat
\* is no neighbour; seats are adjacent by number.
WasTaken(seats, booked, s)  == s \in DOMAIN seats /\ seats[s] # "available"
TakenSide(seats, booked, s) == s \in DOMAIN seats /\ ~IsFree(seats, booked, s)

Trapped(seats, booked, s) == /\ TakenSide(seats, booked, <<s[1], s[2] - 1>>)
                             /\ TakenSide(seats, booked, <<s[1], s[2] + 1>>)

\* Free seats alone between two that are taken.
FindOrphanSeats(seats, booked) ==
  {s \in DOMAIN seats : IsFree(seats, booked, s) /\ Trapped(seats, booked, s)}

\* Those that were there before are not this booking's fault.
OrphansCreatedBy(seats, booked) ==
  FindOrphanSeats(seats, booked) \ FindOrphanSeats(seats, {})
=============================================================================
