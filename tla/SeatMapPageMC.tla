--------------------------- MODULE SeatMapPageMC ---------------------------
(***************************************************************************)
(* SeatMapPage for TLC.  The visitor's story is followed on two seats that *)
(* are interchangeable.  The others are sold, or there only to be          *)
(* suggested instead, in stories with no booking and no upset.             *)
(***************************************************************************)
EXTENDS SeatMapPage, TLC

CONSTANT Followed

SeatSymmetry == Permutations(Followed)

Suggestions == (SUBSET Followed \ {{}}) \cup {Seat \ Followed}

Untouched(s) == /\ owner[s] = Nobody /\ sold[s] = Unsold /\ seq[s] = 0
                /\ s \notin chosen \cup handoff \cup stored

Booked == \E b \in 1..MaxCalls : bought[b].status # "none"

Seats ==
  /\ upsets = 0 => \A s \in Followed : sold[s] # Elsewhere
  /\ \/ \A s \in Seat \ Followed : sold[s] = Elsewhere
     \/ upsets = 0 /\ ~Booked /\ \A s \in Seat \ Followed : Untouched(s)

\* A third call after an upset is followed in the life of one seat, with seats
\* that were handed over or restored, and while a booking is not known of.  A
\* fourth, without an upset, in the life of one seat, up to a second press of
\* Pay, and where both seats were let go for others.
LetGo == /\ \E s \in Seat \ Followed : Untouched(s)
         /\ chosen = {} /\ {seq[s] : s \in Followed} = {3, 4}

OneSeat == \E s \in Followed : Untouched(s)

Unclicked ==
  \E s \in Followed : /\ seq[s] = 0
                     /\ s \in chosen \cup handoff \cup stored \cup UNION {r.seats : r \in reqs}

Calls ==
  \/ calls < 3
  \/ calls = 3 /\ (upsets = 0 \/ OneSeat)
  \/ calls = 3 /\ booking.b = 0 /\ (Booked \/ Unclicked)
  \/ calls = 4 /\ upsets = 0 /\ (OneSeat \/ LetGo)

\* After the third call a remainder with nothing to give back waits no longer.
Remainders ==
  \A r \in reqs : r.op = "remainder" /\ calls >= 3 =>
    \E s \in Followed \ r.seats :
      owner[s] = Me \/ \E q \in reqs : q.op = "hold" /\ s \in q.seats /\ q.st = "sent"

Bound == Seats /\ Calls /\ Remainders
=============================================================================
