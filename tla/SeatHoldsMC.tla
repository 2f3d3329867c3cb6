----------------------------- MODULE SeatHoldsMC -----------------------------
(* Instances of SeatHolds for TLC.  Requests are alike, and so are users.  *)
EXTENDS SeatHolds, TLC

Alike == Permutations(Workers) \cup Permutations(Users)

=============================================================================
