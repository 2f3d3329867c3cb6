---------------------------- MODULE GroupBooking ----------------------------
(***************************************************************************)
(* Creating bookings of the seats of one row (bookingService.js), on the   *)
(* naive path or the safe one, with or without the unique constraint of    *)
(* migration 002, with or without the group booking rule.  Every request   *)
(* creates at most one booking and is named with it.                       *)
(*                                                                         *)
(* Redis is down: no hold keeps requests apart, so that what is promised   *)
(* here is promised by Postgres and the rule alone.                        *)
(***************************************************************************)
EXTENDS Integers, FiniteSets, GroupBookingRules

CONSTANTS Buyer, Row,    \* requests; the seat numbers of the row
          MaxSeats         \* bound: seats in a booking

ASSUME GroupAssumption == Row \subseteq Int /\ MaxSeats \in Nat

VARIABLES
  config,   \* BOOKING_MODE, whether 002 is applied, GROUP_BOOKING_RULE
  wants,    \* the seats each request asks for
  st,       \* how far it got
  rows,     \* booking_seats
  late      \* history: the seating changed since the request looked at it

groupVars == <<config, wants, st, rows, late>>

GroupInit ==
  /\ config \in [mode : {"naive", "safe"}, unique : BOOLEAN, rule : BOOLEAN]
  /\ wants = [r \in Buyer |-> {}] /\ st = [r \in Buyer |-> "idle"]
  /\ rows = {} /\ late = [r \in Buyer |-> FALSE]

\* getSeatStatus: a seat with a row is booked.
Status(held) == [s \in {1} \X Row |-> IF \E x \in held : x.seat = s[2] THEN "booked" ELSE "available"]

SeatsAvailable(seats) == \A n \in seats : Status(rows)[<<1, n>>] = "available"

\* assertNoOrphanSeats: only with the rule on.
Strands(seats) == config.rule /\ OrphansCreatedBy(Status(rows), {1} \X seats) # {}

\* The one availability read of a booking, and the rule on what it saw.
Check(r, seats) ==
  /\ st[r] = "idle"
  /\ wants' = [wants EXCEPT ![r] = seats]
  /\ st' = [st EXCEPT ![r] = IF SeatsAvailable(seats) /\ ~Strands(seats) THEN "checked" ELSE "refused"]
  /\ late' = [late EXCEPT ![r] = FALSE]
  /\ UNCHANGED <<config, rows>>

RowsOf(r) == {[booking |-> r, seat |-> n] : n \in wants[r]}

\* The constraint decides, if it is there.
Conflicts(r) == config.unique /\ \E x \in rows : x.seat \in wants[r]

\* The requests that have looked, and not yet inserted, saw another seating.
Overtaken(r) ==
  late' = [q \in Buyer |-> late[q] \/ (q # r /\ st[q] \in {"checked", "inserted"})]

\* booking_seats of one booking: one statement, all its rows or none.
FirstSeat(r) == {x \in RowsOf(r) : \A y \in RowsOf(r) : x.seat <= y.seat}
Inserted(r) == RowsOf(r)

\* createBookingSafe: one transaction, rolled back when a seat is gone.
BookSafely(r) ==
  /\ st[r] = "checked" /\ config.mode = "safe"
  /\ IF Conflicts(r)
     THEN st' = [st EXCEPT ![r] = "refused"] /\ UNCHANGED <<rows, late>>
     ELSE /\ st' = [st EXCEPT ![r] = "pending"]
          /\ rows' = rows \cup Inserted(r)
          /\ Overtaken(r)
  /\ UNCHANGED <<config, wants>>

\* createBookingNaive: the booking first, by itself.
BookNaively(r) ==
  /\ st[r] = "checked" /\ config.mode = "naive"
  /\ st' = [st EXCEPT ![r] = "inserted"]
  /\ UNCHANGED <<config, wants, rows, late>>

\* Then its seats.  A statement that fails leaves the booking pending.
SeatNaively(r) ==
  /\ st[r] = "inserted"
  /\ st' = [st EXCEPT ![r] = "pending"]
  /\ IF Conflicts(r) THEN UNCHANGED <<rows, late>>
     ELSE /\ rows' = rows \cup Inserted(r)
          /\ Overtaken(r)
  /\ UNCHANGED <<config, wants>>

\* The server stops: between the statements of the naive path the booking
\* stays behind; a transaction is rolled back.
Crash(r) ==
  /\ st[r] \in {"checked", "inserted"}
  /\ st' = [st EXCEPT ![r] = IF @ = "inserted" THEN "pending" ELSE "refused"]
  /\ UNCHANGED <<config, wants, rows, late>>

\* The booking is cancelled or expires: its rows are deleted.
Release(r) ==
  /\ st[r] = "pending"
  /\ st' = [st EXCEPT ![r] = "cancelled"]
  /\ rows' = {x \in rows : x.booking # r}
  /\ Overtaken(r)
  /\ UNCHANGED <<config, wants>>

Selections == {seats \in SUBSET Row : Cardinality(seats) \in 1..MaxSeats}

GroupNext ==
  \E r \in Buyer :
    \/ \E seats \in Selections : Check(r, seats)
    \/ BookSafely(r) \/ BookNaively(r) \/ SeatNaively(r) \/ Crash(r) \/ Release(r)

GroupSpec == GroupInit /\ [][GroupNext]_groupVars

---------------------------------------------------------------------------
(* Properties.                                                             *)

\* The configuration and the bookings are what the process and Postgres keep.
GroupTypeOK ==
  /\ config \in [mode : {"naive", "safe"}, unique : BOOLEAN, rule : BOOLEAN]
  /\ wants \in [Buyer -> SUBSET Row] /\ late \in [Buyer -> BOOLEAN]
  /\ st \in [Buyer -> {"idle", "checked", "inserted", "refused", "pending", "cancelled"}]
  /\ rows \subseteq [booking : Buyer, seat : Row]

Stranded == FindOrphanSeats(Status(rows), {})
Seat(r) == {x.seat : x \in {y \in rows : y.booking = r}}

\* "Advisory, not a guarantee": with the rule on, a booking strands a seat
\* only if the seating changed between its check and its insertion; a release
\* may strand one, which is no booking's doing.
StrandsOnlyWhenOvertaken ==
  [][\A r \in Buyer : (config.rule /\ st'[r] = "pending" /\ st[r] # "pending" /\ ~late[r])
                          => Stranded' \subseteq Stranded]_groupVars

\* A booking has all its seats or none.  On the safe path it has all; a seat
\* has two bookings only without the constraint, and only if one of the two
\* was overtaken by the other between its check and its insertion.
NoHalfBooking ==
  \A r \in Buyer : st[r] = "pending" =>
    /\ Seat(r) = wants[r] \/ (Seat(r) = {} /\ config.mode = "naive")
    /\ \A q \in Buyer \ {r} : Seat(r) \cap Seat(q) # {} => ~config.unique /\ (late[r] \/ late[q])
=============================================================================
