--------------------------- MODULE BookingCoreMC ---------------------------
(* BookingCore on small instances: the workers and the event ids are       *)
(* interchangeable, the bookings and seats are ordered.                    *)
EXTENDS BookingCore, TLC

Symmetry == Permutations(Workers) \cup Permutations(Events)

=============================================================================
