---------------------------- MODULE SeatHoldsAge ----------------------------
(* SeatHolds with the time a hold has been left behind: how long a seat    *)
(* stays blocked by one failed command when nothing fails after it.        *)
EXTENDS SeatHolds

VARIABLE age   \* ticks since the hold was left behind

AgeInit == Init /\ age = [s \in Seats |-> 0]

AgeNext ==
    /\ \/ TimePasses
       \/ \E w \in Workers : Arrive(w) \/ Continue(w)
       \/ leftBehind = {} /\ \E w \in Workers : Fail(w)
    /\ age' = [s \in Seats |->
                 IF s \notin leftBehind \cap leftBehind' THEN 0
                 ELSE IF Tick /\ age[s] <= Ttl THEN age[s] + 1
                 ELSE age[s]]

AgeSpec == AgeInit /\ [][AgeNext]_<<vars, age>>

(* "That seat stays held until its TTL expires - at most HOLD_TTL_SECONDS  *)
(* of a seat nobody can select": its owner's requests still running aside, *)
(* a hold left behind by a failed command is gone after Ttl ticks.         *)
LeftBehindRunsOut ==
    \A s \in leftBehind : age[s] < Ttl \/ \E w \in Workers : Mine(w, s)

=============================================================================
