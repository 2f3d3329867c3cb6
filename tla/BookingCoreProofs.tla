------------------------- MODULE BookingCoreProofs -------------------------
(***************************************************************************)
(* Proofs about BookingCore, for any number of workers, bookings, seats    *)
(* and payment events.  IInv is inductive: every step of every worker      *)
(* keeps it, and the invariants the runs check follow from it.             *)
(***************************************************************************)
EXTENDS BookingCore, Highest, SequenceTheorems, TLAPS

(* What the tables must satisfy between two commits.                       *)
DataOK ==
    /\ SeatSoldOnce /\ SeatsFollowStatus /\ MoneyFollowsStatus /\ EventRecordedOnce
    /\ CancelledIsReclaimable /\ NothingReleased

AllRequestsOK == \A w \in Workers : RequestOK(w)
AllPairsOK == \A w, v \in Workers : PairOK(w, v)

LEMMA IInvParts == IInv <=> TypeOK /\ DataOK /\ AllRequestsOK /\ AllPairsOK
  BY DEF IInv, DataOK, AllRequestsOK, AllPairsOK

Others(w) == \A v \in Workers \ {w} : req'[v] = req[v]

Tables == <<status, wants, seatRows, archive, payments>>

-----------------------------------------------------------------------------
(* What one worker's move does to req.                                     *)

LEMMA ClaimReq ==
  ASSUME req \in [Workers -> Request], NEW w \in Workers, NEW s \in Seats,
         req' = [req EXCEPT ![w].claims = @ \cup {s}]
  PROVE  /\ req' \in [Workers -> Request]
         /\ Others(w)
         /\ req'[w].stage = req[w].stage
         /\ req'[w].booking = req[w].booking
         /\ req'[w].event = req[w].event
         /\ req'[w].outcome = req[w].outcome
         /\ req'[w].claims = req[w].claims \cup {s}
  BY DEF Request, Others

LEMMA GotoReq ==
  ASSUME req \in [Workers -> Request], NEW w \in Workers, NEW stage \in Stages, Goto(w, stage)
  PROVE  /\ req' \in [Workers -> Request]
         /\ Others(w)
         /\ req'[w].stage = stage
         /\ req'[w].booking = req[w].booking
         /\ req'[w].event = req[w].event
         /\ req'[w].outcome = req[w].outcome
         /\ req'[w].claims = req[w].claims
  BY DEF Request, Goto, Others

LEMMA ChargeReq ==
  ASSUME req \in [Workers -> Request], NEW w \in Workers, NEW outcome \in Outcomes,
         req' = [req EXCEPT ![w].stage = "locking", ![w].outcome = outcome]
  PROVE  /\ req' \in [Workers -> Request]
         /\ Others(w)
         /\ req'[w].stage = "locking"
         /\ req'[w].booking = req[w].booking
         /\ req'[w].event = req[w].event
         /\ req'[w].outcome = outcome
         /\ req'[w].claims = req[w].claims
  BY DEF Request, Stages, Others

LEMMA AtReq ==
  ASSUME req \in [Workers -> Request], NEW w \in Workers, NEW stage \in Stages,
         NEW b \in Bookings \cup {NoBooking}, NEW e \in Events \cup {NoEvent},
         NEW todo \in SUBSET Bookings,
         req' = [req EXCEPT ![w] = At(stage, b, e, todo)]
  PROVE  /\ req' \in [Workers -> Request]
         /\ Others(w)
         /\ req'[w] = At(stage, b, e, todo)
         /\ req'[w].stage = stage
         /\ req'[w].booking = b
         /\ req'[w].event = e
         /\ req'[w].claims = {}
  BY DEF Request, At, Others, Outcomes

LEMMA DoneReq ==
  ASSUME req \in [Workers -> Request], NEW w \in Workers, Done(w)
  PROVE  /\ req' \in [Workers -> Request]
         /\ Others(w)
         /\ req'[w] = Idle
         /\ req'[w].stage = "idle"
         /\ req'[w].claims = {}
  BY DEF Done, Idle, At, Request, Others, Stages, Outcomes

LEMMA BatchTyped ==
  ASSUME TypeOK, NEW b \in Bookings
  PROVE  \A i \in DOMAIN archive[b] : archive[b][i] \in Batch
<1>1. archive[b] \in Seq(Batch)
  BY DEF TypeOK
<1>2. DOMAIN archive[b] = 1..Len(archive[b])
  BY <1>1
<1> QED
  BY <1>1, <1>2, ElementOfSeq

LEMMA NeededSeats ==
  ASSUME TypeOK, NEW w \in Workers, req[w].booking \in Bookings
  PROVE  Needed(w) \subseteq Seats
<1>1. ArchivedSeats(req[w].booking) \subseteq Seats
  BY BatchTyped DEF ArchivedSeats, Batch
<1>2. wants[req[w].booking] \subseteq Seats
  BY DEF TypeOK
<1> QED
  BY <1>1, <1>2 DEF Needed

-----------------------------------------------------------------------------
(* What a step leaves alone.                                               *)

LEMMA DataFrame == DataOK /\ UNCHANGED Tables => DataOK'
  BY DEF DataOK, Tables, SeatSoldOnce, SeatsFollowStatus, SeatsOf, MoneyFollowsStatus,
         EventRecordedOnce, CancelledIsReclaimable, ArchivedSeats, ArchivedTwice, NothingReleased

(* A request that did not move is still sound when the step kept what it   *)
(* relies on.                                                              *)
LEMMA OtherRequest ==
  ASSUME NEW v \in Workers, RequestOK(v), req'[v] = req[v],
         \A b \in Bookings : Created(b) => Created(b)',
         req[v].stage = "claiming" =>
            ~Created(req[v].booking)' /\ wants'[req[v].booking] = wants[req[v].booking],
         HasInserted(v) =>
            /\ status'[req[v].booking] = status[req[v].booking]
            /\ archive'[req[v].booking] = archive[req[v].booking]
            /\ ~EventStored(req[v].event)',
         \A s \in req[v].claims : ~SeatTaken(s)'
  PROVE  RequestOK(v)'
<1>1. req[v].stage \in {"claiming", "reclaiming"} => Needed(v)' = Needed(v)
  BY DEF HasInserted, Needed, ArchivedSeats, RequestOK
<1>2. req[v].stage \in {"claiming", "reclaiming"} => Remaining(v)' = Remaining(v)
  BY <1>1 DEF Remaining
<1> QED
  BY <1>1, <1>2 DEF HasInserted, RequestOK, Idle, Paying

LEMMA RequestsFrame ==
  ASSUME TypeOK, NEW w \in Workers, AllRequestsOK, Others(w), UNCHANGED Tables, RequestOK(w)'
  PROVE  AllRequestsOK'
<1> SUFFICES ASSUME NEW v \in Workers \ {w} PROVE RequestOK(v)'
  BY DEF AllRequestsOK
<1>1. RequestOK(v) /\ req'[v] = req[v]
  BY DEF AllRequestsOK, Others
<1>2. \A s \in Seats : SeatTaken(s)' <=> SeatTaken(s)
  BY DEF SeatTaken, Tables
<1>3. req[v].claims \subseteq Seats
  BY DEF TypeOK, Request
<1>4. \A e : EventStored(e)' <=> EventStored(e)
  BY DEF EventStored, Tables
<1>5. \A b \in Bookings : Created(b)' <=> Created(b)
  BY DEF Created, Tables
<1>6. req[v].stage = "claiming" \/ HasInserted(v) => req[v].booking \in Bookings
  BY <1>1 DEF HasInserted, RequestOK
<1> QED
  BY <1>1, <1>2, <1>3, <1>4, <1>5, <1>6, OtherRequest DEF HasInserted, RequestOK, Tables

(* A worker that holds no lock, no seat and no event id conflicts with     *)
(* nobody.                                                                 *)
LEMMA PairsQuiet ==
  ASSUME NEW w \in Workers, AllPairsOK, Others(w), req'[w].claims = {},
         req'[w].stage \notin {"claiming", "recording", "reclaiming", "refunding"}
  PROVE  AllPairsOK'
  BY DEF HasInserted, AllPairsOK, PairOK, Others, HoldsLock

LEMMA IdleOK ==
  ASSUME NEW w \in Workers, req'[w] = Idle
  PROVE  RequestOK(w)'
  BY DEF HasInserted, RequestOK, Idle, At, Paying

-----------------------------------------------------------------------------
(* Requests that arrive.                                                   *)

(* A step that only moves a worker holding nothing afterwards.             *)
LEMMA QuietStep ==
  ASSUME IInv, NEW w \in Workers, UNCHANGED Tables, TypeOK', Others(w), RequestOK(w)',
         req'[w].claims = {}, req'[w].stage \notin {"claiming", "recording", "reclaiming", "refunding"}
  PROVE  IInv'
  BY DataFrame, RequestsFrame, PairsQuiet, IInvParts DEF IInv, DataOK, AllRequestsOK, AllPairsOK

LEMMA ConfirmPaymentStep ==
  ASSUME IInv, NEW w \in Workers, NEW b \in Bookings, NEW e \in Events, ConfirmPayment(w, b, e)
  PROVE  IInv'
<1>1. TypeOK BY DEF IInv
<1>2. /\ req' \in [Workers -> Request] /\ Others(w) /\ req'[w].stage = "charging"
      /\ req'[w].booking = b /\ req'[w].event = e /\ req'[w].claims = {}
  <2>1. /\ req \in [Workers -> Request]
        /\ req' = [req EXCEPT ![w] = At("charging", b, e, {})]
        /\ "charging" \in Stages /\ {} \in SUBSET Bookings
    BY <1>1 DEF ConfirmPayment, TypeOK, Stages
  <2> QED
    BY <2>1, AtReq
<1>3. UNCHANGED Tables /\ TypeOK'
  BY <1>1, <1>2 DEF ConfirmPayment, Tables, TypeOK
<1>4. RequestOK(w)'
  BY <1>2, <1>3 DEF HasInserted, RequestOK, Paying, Created, ConfirmPayment, Tables
<1> QED
  BY <1>2, <1>3, <1>4, QuietStep

LEMMA AskCancelStep ==
  ASSUME IInv, NEW w \in Workers, NEW b \in Bookings, AskCancel(w, b)
  PROVE  IInv'
<1>1. TypeOK BY DEF IInv
<1>2. /\ req' \in [Workers -> Request] /\ Others(w) /\ req'[w].stage = "cancelling"
      /\ req'[w].booking = b /\ req'[w].claims = {}
  <2>1. /\ req \in [Workers -> Request]
        /\ req' = [req EXCEPT ![w] = At("cancelling", b, NoEvent, {})]
        /\ "cancelling" \in Stages /\ {} \in SUBSET Bookings
    BY <1>1 DEF AskCancel, TypeOK, Stages
  <2> QED
    BY <2>1, AtReq
<1>3. UNCHANGED Tables /\ TypeOK'
  BY <1>1, <1>2 DEF AskCancel, Tables, TypeOK
<1>4. RequestOK(w)'
  BY <1>2, <1>3 DEF HasInserted, RequestOK, Paying, Created, AskCancel, Tables
<1> QED
  BY <1>2, <1>3, <1>4, QuietStep

LEMMA StartSweepStep ==
  ASSUME IInv, NEW w \in Workers, StartSweep(w)
  PROVE  IInv'
<1>1. TypeOK BY DEF IInv
<1>2. FirstCandidates \in SUBSET Bookings
  BY DEF FirstCandidates, Candidates
<1>3. /\ req' \in [Workers -> Request] /\ Others(w) /\ req'[w].stage = "sweeping"
      /\ req'[w].claims = {}
  BY <1>1, <1>2, AtReq DEF StartSweep, TypeOK, Stages
<1>4. UNCHANGED Tables /\ TypeOK'
  BY <1>1, <1>3 DEF StartSweep, Tables, TypeOK
<1>5. RequestOK(w)'
  BY <1>3 DEF HasInserted, RequestOK, Paying
<1> QED
  BY <1>3, <1>4, <1>5, QuietStep

(* The new booking's id is nobody else's: a creator in flight has recorded *)
(* what it wants.                                                          *)
LEMMA CreateBookingStep ==
  ASSUME IInv, NEW w \in Workers, NEW b \in Bookings, NEW S \in SUBSET Seats,
         CreateBooking(w, b, S)
  PROVE  IInv'
<1>1. TypeOK /\ DataOK /\ AllRequestsOK /\ AllPairsOK
  BY IInvParts
<1>2. /\ req' \in [Workers -> Request] /\ Others(w) /\ req'[w].stage = "claiming"
      /\ req'[w].booking = b /\ req'[w].claims = {}
  BY <1>1, AtReq DEF CreateBooking, TypeOK, Stages
<1>3. TypeOK'
  BY <1>1, <1>2 DEF CreateBooking, TypeOK
<1>4. /\ UNCHANGED <<status, seatRows, archive, payments>>
      /\ status[b] = "none" /\ wants[b] = {} /\ wants'[b] = S /\ S # {}
      /\ \A c \in Bookings \ {b} : wants'[c] = wants[c]
  BY <1>1 DEF CreateBooking, TypeOK
<1>5. DataOK'
  BY <1>1, <1>4 DEF DataOK, SeatSoldOnce, SeatsFollowStatus, SeatsOf, MoneyFollowsStatus,
    EventRecordedOnce, CancelledIsReclaimable, ArchivedSeats, ArchivedTwice, NothingReleased
<1>6. RequestOK(w)'
  BY <1>2, <1>4 DEF HasInserted, RequestOK, Paying, Created
<1>7. ASSUME NEW v \in Workers \ {w} PROVE RequestOK(v)'
  <2>1. RequestOK(v) /\ req'[v] = req[v]
    BY <1>1, <1>2 DEF AllRequestsOK, Others
  <2>2. req[v].stage = "claiming" => req[v].booking \in Bookings \ {b}
    BY <2>1, <1>4 DEF HasInserted, RequestOK
  <2>3. HasInserted(v) => req[v].booking \in Bookings \ {b}
    BY <2>1, <1>4 DEF HasInserted, RequestOK
  <2>4. \A s \in req[v].claims : ~SeatTaken(s)'
    BY <2>1, <1>4 DEF HasInserted, RequestOK, SeatTaken
  <2>5. /\ \A c \in Bookings : Created(c) <=> Created(c)'
        /\ \A e : EventStored(e)' <=> EventStored(e)
    BY <1>4 DEF Created, EventStored
  <2>6. req[v].stage = "claiming" =>
          ~Created(req[v].booking)' /\ wants'[req[v].booking] = wants[req[v].booking]
    BY <2>1, <2>2, <2>5, <1>4 DEF HasInserted, RequestOK, Created
  <2> QED
    BY <2>1, <2>3, <2>4, <2>5, <2>6, <1>4, OtherRequest DEF HasInserted, RequestOK
<1>8. AllPairsOK'
  <2>1. \A v \in Workers \ {w} : req[v].stage = "claiming" => req[v].booking # b
    BY <1>1, <1>4 DEF HasInserted, AllRequestsOK, RequestOK
  <2> QED
    BY <1>1, <1>2, <2>1 DEF HasInserted, AllPairsOK, PairOK, Others, HoldsLock
<1> QED
  BY <1>3, <1>5, <1>6, <1>7, <1>8, IInvParts DEF IInv, DataOK, AllRequestsOK, AllPairsOK

-----------------------------------------------------------------------------
(* Steps inside a request that touch no table.                             *)

LEMMA ChargeStep ==
  ASSUME IInv, NEW w \in Workers, NEW outcome \in Outcomes, Charge(w, outcome)
  PROVE  IInv'
<1>1. TypeOK /\ RequestOK(w) BY DEF IInv
<1>2. /\ req' \in [Workers -> Request] /\ Others(w) /\ req'[w].stage = "locking"
      /\ req'[w].booking = req[w].booking /\ req'[w].event = req[w].event
      /\ req'[w].claims = req[w].claims
  BY <1>1, ChargeReq DEF Charge, TypeOK
<1>3. UNCHANGED Tables /\ TypeOK'
  BY <1>1, <1>2 DEF Charge, Tables, TypeOK
<1>4. RequestOK(w)' /\ req'[w].claims = {}
  BY <1>1, <1>2, <1>3 DEF HasInserted, RequestOK, Paying, Created, Charge, Tables
<1> QED
  BY <1>2, <1>3, <1>4, QuietStep

(* The row lock goes to one payment at a time.                             *)
LEMMA LockBookingStep ==
  ASSUME IInv, NEW w \in Workers, LockBooking(w)
  PROVE  IInv'
<1>1. TypeOK /\ RequestOK(w) /\ AllRequestsOK /\ AllPairsOK /\ DataOK
  BY IInvParts DEF AllRequestsOK
<1>2. /\ req' \in [Workers -> Request] /\ Others(w) /\ req'[w].stage = "recording"
      /\ req'[w].booking = req[w].booking /\ req'[w].event = req[w].event
      /\ req'[w].claims = req[w].claims
  BY <1>1, GotoReq DEF LockBooking, TypeOK, Stages
<1>3. UNCHANGED Tables /\ TypeOK'
  BY <1>1, <1>2 DEF LockBooking, Tables, TypeOK
<1>4. RequestOK(w)' /\ req'[w].claims = {}
  BY <1>1, <1>2, <1>3 DEF HasInserted, RequestOK, Paying, Created, LockBooking, Tables
<1>5. AllPairsOK'
  BY <1>1, <1>2, <1>4 DEF HasInserted, AllPairsOK, PairOK, Others, HoldsLock, LockBooking, RowFree
<1> QED
  BY <1>1, <1>2, <1>3, <1>4, <1>5, DataFrame, RequestsFrame
     DEF IInv, DataOK, AllRequestsOK, AllPairsOK

(* The event id goes to one payment at a time.                             *)
LEMMA BeginReclaimStep ==
  ASSUME IInv, NEW w \in Workers, BeginReclaim(w)
  PROVE  IInv'
<1>1. TypeOK /\ RequestOK(w) /\ AllRequestsOK /\ AllPairsOK /\ DataOK
  BY IInvParts DEF AllRequestsOK
<1>2. /\ req' \in [Workers -> Request] /\ Others(w) /\ req'[w].stage = "reclaiming"
      /\ req'[w].booking = req[w].booking /\ req'[w].event = req[w].event
      /\ req'[w].claims = req[w].claims /\ req'[w].outcome = req[w].outcome
  BY <1>1, GotoReq DEF BeginReclaim, TypeOK, Stages
<1>3. UNCHANGED Tables /\ TypeOK'
  BY <1>1, <1>2 DEF BeginReclaim, Tables, TypeOK
<1>4. RequestOK(w)' /\ req'[w].claims = {}
  BY <1>1, <1>2, <1>3
     DEF HasInserted, RequestOK, Paying, Created, BeginReclaim, InsertsEvent, EventStored, Tables
<1>5. AllPairsOK'
  BY <1>1, <1>2, <1>4
     DEF HasInserted, AllPairsOK, PairOK, Others, HoldsLock, BeginReclaim, InsertsEvent, EventInFlight
<1> QED
  BY <1>1, <1>2, <1>3, <1>4, <1>5, DataFrame, RequestsFrame
     DEF IInv, DataOK, AllRequestsOK, AllPairsOK

(* A seat row goes to one transaction at a time, and a transaction holds   *)
(* only seats below every seat it has still to insert.                     *)
LEMMA ClaimSeatStep ==
  ASSUME IInv, NEW w \in Workers, ClaimSeat(w)
  PROVE  IInv'
<1>1. TypeOK /\ RequestOK(w) /\ AllRequestsOK /\ AllPairsOK /\ DataOK
  BY IInvParts DEF AllRequestsOK
<1>2. PICK s \in Seats : /\ NextSeat(w, s) /\ ~SeatTaken(s) /\ ~SeatInFlight(w, s)
                         /\ req' = [req EXCEPT ![w].claims = @ \cup {s}]
  BY DEF ClaimSeat
<1>3. /\ req' \in [Workers -> Request] /\ Others(w) /\ req'[w].stage = req[w].stage
      /\ req'[w].booking = req[w].booking /\ req'[w].event = req[w].event
      /\ req'[w].claims = req[w].claims \cup {s} /\ req'[w].outcome = req[w].outcome
  BY <1>1, <1>2, ClaimReq DEF TypeOK
<1>4. UNCHANGED Tables /\ TypeOK'
  BY <1>1, <1>3 DEF ClaimSeat, Tables, TypeOK
<1>5. /\ Needed(w)' = Needed(w)
      /\ Remaining(w)' = Remaining(w) \ {s}
      /\ \A t : SeatTaken(t)' <=> SeatTaken(t)
  BY <1>3, <1>4 DEF Needed, Remaining, ArchivedSeats, SeatTaken, Tables
<1>6. RequestOK(w)'
  <2>1. \A t \in Remaining(w) \ {s} : s < t
    <3>1. Needed(w) \subseteq Seats
      BY <1>1, NeededSeats DEF HasInserted, ClaimSeat, RequestOK
    <3> QED
      BY <1>2, <3>1, SeatsAssumption DEF NextSeat, Remaining
  <2>2. \A t \in req'[w].claims : t \in Needed(w)' /\ ~SeatTaken(t)' /\ \A u \in Remaining(w)' : t < u
    BY <1>1, <1>2, <1>3, <1>5, <2>1 DEF HasInserted, RequestOK, NextSeat, Remaining
  <2> QED
    BY <1>1, <1>3, <1>4, <2>2 DEF HasInserted, RequestOK, Paying, Created, EventStored, ClaimSeat, Tables
<1>7. AllPairsOK'
  BY <1>1, <1>2, <1>3 DEF HasInserted, AllPairsOK, PairOK, Others, HoldsLock, SeatInFlight
<1> QED
  BY <1>1, <1>3, <1>4, <1>6, <1>7, DataFrame, RequestsFrame
     DEF IInv, DataOK, AllRequestsOK, AllPairsOK

(* A request that ends without a commit.                                   *)
LEMMA EndStep ==
  ASSUME IInv, NEW w \in Workers, Done(w), UNCHANGED Tables,
         UNCHANGED <<overdue, windowOpen>>
  PROVE  IInv'
<1>1. TypeOK BY DEF IInv
<1>2. req' \in [Workers -> Request] /\ Others(w) /\ req'[w] = Idle
      /\ req'[w].stage = "idle" /\ req'[w].claims = {}
  BY <1>1, DoneReq DEF TypeOK
<1>3. TypeOK'
  BY <1>1, <1>2 DEF TypeOK, Tables
<1> QED
  BY <1>2, <1>3, IdleOK, QuietStep

LEMMA SweptPastReq ==
  ASSUME TypeOK, NEW w \in Workers, NEW b \in Bookings, SweptPast(w, b)
  PROVE  /\ req' \in [Workers -> Request] /\ Others(w) /\ req'[w].claims = {}
         /\ req'[w].stage \in {"idle", "sweeping"}
         /\ req'[w].stage = "idle" => req'[w] = Idle
  <1>1. CASE req[w].todo = {b}
    BY <1>1, DoneReq DEF SweptPast, Done, TypeOK
  <1>2. CASE req[w].todo # {b}
    <2>1. /\ req \in [Workers -> Request] /\ req[w].todo \ {b} \in SUBSET Bookings
          /\ req' = [req EXCEPT ![w] = At("sweeping", NoBooking, NoEvent, req[w].todo \ {b})]
          /\ "sweeping" \in Stages
      BY <1>2 DEF SweptPast, TypeOK, Request, Stages
    <2> QED
      BY <2>1, AtReq
  <1> QED
    BY <1>1, <1>2

LEMMA SkipCandidateStep ==
  ASSUME IInv, NEW w \in Workers, SkipCandidate(w)
  PROVE  IInv'
<1>1. TypeOK BY DEF IInv
<1>2. /\ req' \in [Workers -> Request] /\ Others(w) /\ req'[w].claims = {}
      /\ req'[w].stage \in {"idle", "sweeping"}
      /\ req'[w].stage = "idle" => req'[w] = Idle
  BY <1>1, SweptPastReq DEF SkipCandidate
<1>3. UNCHANGED Tables /\ TypeOK'
  BY <1>1, <1>2 DEF SkipCandidate, Tables, TypeOK
<1>4. RequestOK(w)'
  BY <1>2, IdleOK DEF HasInserted, RequestOK, Paying
<1> QED
  BY <1>2, <1>3, <1>4, QuietStep

-----------------------------------------------------------------------------
(* What a commit does to the tables.                                       *)

LEMMA AddRows ==
  ASSUME TypeOK, SeatSoldOnce, NEW b \in Bookings, NEW S \in SUBSET Seats,
         seatRows' = seatRows \cup RowsOf(b, S),
         \A s \in S : ~SeatTaken(s)
  PROVE  /\ seatRows' \subseteq SeatRow
         /\ SeatSoldOnce'
         /\ SeatsOf(b)' = SeatsOf(b) \cup S
         /\ \A c \in Bookings \ {b} : SeatsOf(c)' = SeatsOf(c)
         /\ \A s : SeatTaken(s)' => SeatTaken(s) \/ s \in S
<1>1. \A r \in RowsOf(b, S) : r.booking = b /\ r.seat \in S /\ r = [booking |-> b, seat |-> r.seat]
  BY DEF RowsOf
<1>2. \A c, s : [booking |-> c, seat |-> s] \in RowsOf(b, S) <=> c = b /\ s \in S
  BY DEF RowsOf
<1>3. seatRows' \subseteq SeatRow
  BY DEF TypeOK, SeatRow, RowsOf
<1>4. SeatSoldOnce'
  BY <1>1 DEF SeatSoldOnce, SeatTaken
<1>5. SeatsOf(b)' = SeatsOf(b) \cup S
  BY <1>2 DEF SeatsOf
<1>6. \A c \in Bookings \ {b} : SeatsOf(c)' = SeatsOf(c)
  BY <1>2 DEF SeatsOf
<1>7. \A s : SeatTaken(s)' => SeatTaken(s) \/ s \in S
  BY <1>1 DEF SeatTaken
<1> QED
  BY <1>3, <1>4, <1>5, <1>6, <1>7

LEMMA DropRows ==
  ASSUME TypeOK, SeatSoldOnce, NEW b \in Bookings, seatRows' = RowsWithout(b)
  PROVE  /\ seatRows' \subseteq SeatRow
         /\ SeatSoldOnce'
         /\ SeatsOf(b)' = {}
         /\ \A c \in Bookings \ {b} : SeatsOf(c)' = SeatsOf(c)
         /\ \A s : SeatTaken(s)' => SeatTaken(s)
  BY DEF TypeOK, RowsWithout, SeatSoldOnce, SeatsOf, SeatTaken

LEMMA AddPayment ==
  ASSUME TypeOK, EventRecordedOnce, NEW p \in PaymentRow,
         payments' = payments \cup {p}, ~EventStored(p.event)
  PROVE  /\ payments' \subseteq PaymentRow
         /\ EventRecordedOnce'
         /\ \A e : EventStored(e)' <=> EventStored(e) \/ e = p.event
  BY DEF TypeOK, EventRecordedOnce, EventStored

LEMMA AddBatch ==
  ASSUME TypeOK, NEW b \in Bookings, NEW reason \in Reasons,
         archive' = [archive EXCEPT ![b] = Append(@, BatchOf(b, reason))]
  PROVE  /\ archive' \in [Bookings -> Seq(Batch)]
         /\ \A c \in Bookings \ {b} : archive'[c] = archive[c]
         /\ archive[b] = <<>> =>
              ArchivedSeats(b)' = SeatsOf(b) /\ \A s : ~ArchivedTwice(b, s)'
<1>1. BatchOf(b, reason) \in Batch
  BY DEF BatchOf, Batch, SeatsOf
<1>2. archive[b] \in Seq(Batch)
  BY DEF TypeOK
<1>3. Append(archive[b], BatchOf(b, reason)) \in Seq(Batch)
  BY <1>1, <1>2, AppendProperties
<1>4. /\ archive' \in [Bookings -> Seq(Batch)]
      /\ \A c \in Bookings \ {b} : archive'[c] = archive[c]
      /\ archive'[b] = Append(archive[b], BatchOf(b, reason))
  BY <1>3 DEF TypeOK
<1>5. ASSUME archive[b] = <<>>
      PROVE  ArchivedSeats(b)' = SeatsOf(b) /\ \A s : ~ArchivedTwice(b, s)'
  <2>1. archive'[b] = <<BatchOf(b, reason)>>
    BY <1>4, <1>5
  <2>2. DOMAIN archive'[b] = {1} /\ archive'[b][1] = BatchOf(b, reason)
    BY <2>1
  <2>3. ArchivedSeats(b)' = SeatsOf(b)
    BY <2>2 DEF ArchivedSeats, BatchOf
  <2>4. \A s : ~ArchivedTwice(b, s)'
    BY <2>2 DEF ArchivedTwice
  <2> QED
    BY <2>3, <2>4
<1> QED
  BY <1>4, <1>5

(* A commit, seen from the other requests: what they rely on is kept.      *)
LEMMA CommitStep ==
  ASSUME IInv, NEW w \in Workers, TypeOK', DataOK', Others(w), RequestOK(w)',
         req'[w].claims = {}, req'[w].stage \notin {"claiming", "recording", "reclaiming", "refunding"},
         \A b \in Bookings : Created(b) => Created(b)',
         \A v \in Workers \ {w} : req[v].stage = "claiming" =>
            ~Created(req[v].booking)' /\ wants'[req[v].booking] = wants[req[v].booking],
         \A v \in Workers \ {w} : HasInserted(v) =>
            /\ status'[req[v].booking] = status[req[v].booking]
            /\ archive'[req[v].booking] = archive[req[v].booking]
            /\ ~EventStored(req[v].event)',
         \A v \in Workers \ {w} : \A s \in req[v].claims : ~SeatTaken(s)'
  PROVE  IInv'
<1>1. AllPairsOK'
  BY PairsQuiet DEF IInv, AllPairsOK
<1>2. ASSUME NEW v \in Workers \ {w} PROVE RequestOK(v)'
  <2>1. RequestOK(v) /\ req'[v] = req[v]
    BY DEF IInv, Others
  <2> QED
    BY <2>1, OtherRequest
<1> QED
  BY <1>1, <1>2 DEF IInv, DataOK, AllRequestsOK, AllPairsOK

(* A creation rolled back: its id and its claims are free again.           *)
LEMMA AbandonStep ==
  ASSUME IInv, NEW w \in Workers, req[w].stage = "claiming", Done(w),
         wants' = [wants EXCEPT ![req[w].booking] = {}],
         UNCHANGED <<status, seatRows, archive, payments, overdue, windowOpen>>
  PROVE  IInv'
<1>1. TypeOK /\ RequestOK(w) /\ AllRequestsOK /\ AllPairsOK /\ DataOK
  BY IInvParts DEF AllRequestsOK
<1>2. PICK b \in Bookings : b = req[w].booking /\ status[b] = "none"
  BY <1>1 DEF HasInserted, RequestOK, Created
<1>3. /\ req' \in [Workers -> Request] /\ Others(w) /\ req'[w] = Idle
      /\ req'[w].stage = "idle" /\ req'[w].claims = {}
  BY <1>1, DoneReq DEF TypeOK
<1>4. TypeOK'
  BY <1>1, <1>2, <1>3 DEF TypeOK
<1>5. \A c \in Bookings \ {b} : wants'[c] = wants[c]
  BY <1>1, <1>2 DEF TypeOK
<1>6. DataOK'
  BY <1>1, <1>2, <1>5 DEF DataOK, SeatSoldOnce, SeatsFollowStatus, SeatsOf, MoneyFollowsStatus,
    EventRecordedOnce, CancelledIsReclaimable, ArchivedSeats, ArchivedTwice, NothingReleased
<1>7. RequestOK(w)'
  BY <1>3, IdleOK
<1>8. \A c \in Bookings : Created(c) <=> Created(c)'
  BY DEF Created
<1>9. ASSUME NEW v \in Workers \ {w}
      PROVE  /\ req[v].stage = "claiming" =>
                  ~Created(req[v].booking)' /\ wants'[req[v].booking] = wants[req[v].booking]
             /\ HasInserted(v) => ~EventStored(req[v].event)'
             /\ \A s \in req[v].claims : ~SeatTaken(s)'
  <2>1. RequestOK(v) /\ PairOK(w, v) /\ req'[v] = req[v]
    BY <1>1, <1>3 DEF AllRequestsOK, AllPairsOK, Others
  <2>2. req[v].stage = "claiming" => req[v].booking \in Bookings \ {b} /\ ~Created(req[v].booking)
    BY <2>1, <1>2 DEF HasInserted, RequestOK, PairOK
  <2>3. HasInserted(v) => ~EventStored(req[v].event)'
    BY <2>1 DEF HasInserted, RequestOK, EventStored
  <2>4. \A s \in req[v].claims : ~SeatTaken(s)'
    BY <2>1 DEF HasInserted, RequestOK, SeatTaken
  <2> QED
    BY <2>1, <2>2, <2>3, <2>4, <1>5, <1>8 DEF Created
<1> QED
  BY <1>3, <1>4, <1>6, <1>7, <1>8, <1>9, CommitStep

(* The booking row and its seats appear together.                          *)
LEMMA CommitBookingStep ==
  ASSUME IInv, NEW w \in Workers, CommitBooking(w)
  PROVE  IInv'
<1>1. TypeOK /\ RequestOK(w) /\ AllRequestsOK /\ AllPairsOK /\ DataOK
  BY IInvParts DEF AllRequestsOK
<1>2. PICK b \in Bookings :
        /\ b = req[w].booking /\ status[b] = "none" /\ wants[b] # {}
        /\ req[w].claims = wants[b]
        /\ \A s \in req[w].claims : ~SeatTaken(s)
  <2>1. /\ req[w].booking \in Bookings /\ ~Created(req[w].booking)
        /\ wants[req[w].booking] # {}
        /\ \A s \in req[w].claims : s \in Needed(w) /\ ~SeatTaken(s)
    BY <1>1 DEF HasInserted, CommitBooking, RequestOK
  <2>2. Needed(w) = wants[req[w].booking] /\ Needed(w) \subseteq req[w].claims
    BY DEF CommitBooking, Needed, Remaining
  <2> QED
    BY <2>1, <2>2 DEF Created
<1>3. /\ req' \in [Workers -> Request] /\ Others(w) /\ req'[w] = Idle
      /\ req'[w].stage = "idle" /\ req'[w].claims = {}
  BY <1>1, DoneReq DEF TypeOK, CommitBooking
<1>4. wants[b] \in SUBSET Seats
  BY <1>1, <1>2 DEF TypeOK
<1>5. /\ seatRows' \subseteq SeatRow /\ SeatSoldOnce'
      /\ SeatsOf(b)' = SeatsOf(b) \cup wants[b]
      /\ \A c \in Bookings \ {b} : SeatsOf(c)' = SeatsOf(c)
      /\ \A s : SeatTaken(s)' => SeatTaken(s) \/ s \in wants[b]
  <2>1. seatRows' = seatRows \cup RowsOf(b, wants[b])
    BY <1>2 DEF CommitBooking
  <2> QED
    BY <1>1, <1>2, <1>4, <2>1, AddRows DEF DataOK
<1>6. /\ status' \in [Bookings -> Statuses] /\ status'[b] = "pending"
      /\ \A c \in Bookings \ {b} : status'[c] = status[c]
      /\ UNCHANGED <<wants, archive, payments, overdue, windowOpen>>
  BY <1>1, <1>2 DEF TypeOK, CommitBooking, Statuses
<1>7. TypeOK'
  BY <1>1, <1>3, <1>5, <1>6 DEF TypeOK
<1>8. DataOK'
  <2>1. SeatsFollowStatus'
    BY <1>1, <1>2, <1>5, <1>6 DEF DataOK, SeatsFollowStatus
  <2>2. MoneyFollowsStatus'
    BY <1>1, <1>2, <1>6 DEF DataOK, MoneyFollowsStatus
  <2>3. EventRecordedOnce'
    BY <1>1, <1>6 DEF DataOK, EventRecordedOnce
  <2>4. CancelledIsReclaimable' /\ NothingReleased'
    BY <1>1, <1>2, <1>6
       DEF DataOK, CancelledIsReclaimable, ArchivedSeats, ArchivedTwice, NothingReleased
  <2> QED
    BY <1>5, <2>1, <2>2, <2>3, <2>4 DEF DataOK
<1>9. RequestOK(w)'
  BY <1>3, IdleOK
<1>10. \A c \in Bookings : Created(c) => Created(c)'
  BY <1>2, <1>6 DEF Created
<1>11. ASSUME NEW v \in Workers \ {w}
       PROVE  /\ req[v].stage = "claiming" => ~Created(req[v].booking)'
              /\ HasInserted(v) =>
                   /\ status'[req[v].booking] = status[req[v].booking]
                   /\ ~EventStored(req[v].event)'
              /\ \A s \in req[v].claims : ~SeatTaken(s)'
  <2>1. RequestOK(v) /\ PairOK(w, v) /\ req'[v] = req[v]
    BY <1>1, <1>3 DEF AllRequestsOK, AllPairsOK, Others
  <2>2. req[v].stage = "claiming" => ~Created(req[v].booking)'
    BY <2>1, <1>2, <1>6 DEF HasInserted, RequestOK, PairOK, Created, CommitBooking
  <2>3. HasInserted(v) => status'[req[v].booking] = status[req[v].booking]
    BY <2>1, <1>2, <1>6 DEF HasInserted, RequestOK
  <2>4. HasInserted(v) => ~EventStored(req[v].event)'
    BY <2>1, <1>6 DEF HasInserted, RequestOK, EventStored
  <2>5. \A s \in req[v].claims : ~SeatTaken(s)'
    BY <2>1, <1>2, <1>5 DEF HasInserted, RequestOK, PairOK
  <2> QED
    BY <2>2, <2>3, <2>4, <2>5
<1> QED
  BY <1>3, <1>6, <1>7, <1>8, <1>9, <1>10, <1>11, CommitStep

-----------------------------------------------------------------------------
(* Payments.                                                               *)

(* A successful payment goes on record for a booking that had none.        *)
LEMMA SettleMoney ==
  ASSUME TypeOK, MoneyFollowsStatus, NEW b \in Bookings, NEW p \in PaymentRow,
         p.booking = b, p.outcome = "succeeded", payments' = payments \cup {p},
         status[b] \notin {"paid", "refund_pending"},
         status'[b] \in {"paid", "refund_pending"},
         \A c \in Bookings \ {b} : status'[c] = status[c]
  PROVE  MoneyFollowsStatus'
<1>1. ~\E q \in payments : q.booking = b /\ q.outcome = "succeeded"
  BY DEF MoneyFollowsStatus
<1>2. {q \in payments' : q.booking = b /\ q.outcome = "succeeded"} = {p}
  BY <1>1
<1>3. \A c \in Bookings \ {b} :
        {q \in payments' : q.booking = c /\ q.outcome = "succeeded"} =
        {q \in payments : q.booking = c /\ q.outcome = "succeeded"}
  OBVIOUS
<1> QED
  BY <1>2, <1>3 DEF MoneyFollowsStatus

(* A payment that commits under its booking's row lock, with its event id  *)
(* its own, disturbs no other request.                                     *)
LEMMA PaymentStep ==
  ASSUME IInv, NEW w \in Workers, NEW b \in Bookings, HoldsLock(w, b),
         ~EventInFlight(w, req[w].event), payments' = payments \cup {PaymentOf(w)},
         Done(w), UNCHANGED <<wants, archive>>,
         status' \in [Bookings -> Statuses], status'[b] # "none",
         \A c \in Bookings \ {b} : status'[c] = status[c],
         \A s : SeatTaken(s)' => SeatTaken(s) \/ s \in req[w].claims,
         TypeOK', DataOK'
  PROVE  IInv'
<1>1. TypeOK /\ RequestOK(w) /\ AllRequestsOK /\ AllPairsOK
  BY IInvParts DEF AllRequestsOK
<1>2. /\ req' \in [Workers -> Request] /\ Others(w) /\ req'[w] = Idle
      /\ req'[w].stage = "idle" /\ req'[w].claims = {}
  BY <1>1, DoneReq DEF TypeOK
<1>3. RequestOK(w)'
  BY <1>2, IdleOK
<1>4. \A c \in Bookings : Created(c) => Created(c)'
  BY DEF Created
<1>5. Created(b)
  BY <1>1 DEF HasInserted, RequestOK, HoldsLock, Paying
<1>6. ASSUME NEW v \in Workers \ {w}
      PROVE  /\ req[v].stage = "claiming" => ~Created(req[v].booking)'
             /\ HasInserted(v) =>
                  /\ status'[req[v].booking] = status[req[v].booking]
                  /\ ~EventStored(req[v].event)'
             /\ \A s \in req[v].claims : ~SeatTaken(s)'
  <2>1. RequestOK(v) /\ PairOK(w, v) /\ req'[v] = req[v]
    BY <1>1, <1>2 DEF AllRequestsOK, AllPairsOK, Others
  <2>2. req[v].stage = "claiming" => ~Created(req[v].booking)'
    BY <2>1, <1>5 DEF HasInserted, RequestOK, Created
  <2>3. HasInserted(v) => status'[req[v].booking] = status[req[v].booking]
    BY <2>1 DEF HasInserted, RequestOK, PairOK, HoldsLock
  <2>4. HasInserted(v) => ~EventStored(req[v].event)'
    BY <2>1 DEF HasInserted, RequestOK, EventStored, EventInFlight, PaymentOf
  <2>5. \A s \in req[v].claims : ~SeatTaken(s)'
    BY <2>1 DEF HasInserted, RequestOK, PairOK
  <2> QED
    BY <2>2, <2>3, <2>4, <2>5
<1> QED
  BY <1>2, <1>3, <1>4, <1>6, CommitStep

LEMMA PaymentTyped ==
  ASSUME TypeOK, NEW w \in Workers, NEW b \in Bookings, HoldsLock(w, b), RequestOK(w)
  PROVE  /\ PaymentOf(w) \in PaymentRow
         /\ PaymentOf(w).event = req[w].event
         /\ PaymentOf(w).booking = b
         /\ PaymentOf(w).outcome = req[w].outcome
         /\ Created(b)
  BY DEF HasInserted, TypeOK, Request, PaymentOf, PaymentRow, HoldsLock, RequestOK, Paying

LEMMA RecordFailureStep ==
  ASSUME IInv, NEW w \in Workers, RecordFailure(w)
  PROVE  IInv'
<1>1. TypeOK /\ RequestOK(w) /\ DataOK
  BY IInvParts DEF AllRequestsOK
<1>2. PICK b \in Bookings : b = req[w].booking /\ HoldsLock(w, b)
  BY <1>1 DEF HasInserted, RecordFailure, InsertsEvent, RequestOK, HoldsLock
<1>3. /\ PaymentOf(w) \in PaymentRow /\ PaymentOf(w).outcome = "failed"
      /\ PaymentOf(w).event = req[w].event /\ Created(b)
  BY <1>1, <1>2, PaymentTyped DEF RecordFailure
<1>4. ~EventStored(req[w].event) /\ ~EventInFlight(w, req[w].event)
  BY DEF RecordFailure, InsertsEvent
<1>5. payments' \subseteq PaymentRow /\ EventRecordedOnce'
  BY <1>1, <1>3, <1>4, AddPayment DEF RecordFailure, DataOK
<1>6. req' \in [Workers -> Request]
  BY <1>1, DoneReq DEF TypeOK, RecordFailure
<1>7. TypeOK'
  BY <1>1, <1>5, <1>6 DEF TypeOK, RecordFailure
<1>8. MoneyFollowsStatus'
  <2>1. \A c \in Bookings : {q \in payments' : q.booking = c /\ q.outcome = "succeeded"} =
                            {q \in payments : q.booking = c /\ q.outcome = "succeeded"}
    BY <1>3 DEF RecordFailure
  <2> QED
    BY <1>1, <2>1 DEF DataOK, MoneyFollowsStatus, RecordFailure
<1>9. DataOK'
  BY <1>1, <1>5, <1>8 DEF DataOK, SeatSoldOnce, SeatsFollowStatus, SeatsOf, RecordFailure,
    CancelledIsReclaimable, ArchivedSeats, ArchivedTwice, NothingReleased
<1>10. /\ \A s : SeatTaken(s)' => SeatTaken(s)
       /\ status' \in [Bookings -> Statuses] /\ UNCHANGED <<status, wants, archive>>
  BY <1>1 DEF SeatTaken, RecordFailure, TypeOK
<1> QED
  BY <1>2, <1>3, <1>4, <1>7, <1>9, <1>10, PaymentStep DEF RecordFailure, Created

LEMMA MarkPaidStep ==
  ASSUME IInv, NEW w \in Workers, MarkPaid(w)
  PROVE  IInv'
<1>1. TypeOK /\ RequestOK(w) /\ DataOK
  BY IInvParts DEF AllRequestsOK
<1>2. PICK b \in Bookings : b = req[w].booking /\ HoldsLock(w, b)
  BY <1>1 DEF HasInserted, MarkPaid, InsertsEvent, RequestOK, HoldsLock
<1>3. /\ PaymentOf(w) \in PaymentRow /\ PaymentOf(w).outcome = "succeeded"
      /\ PaymentOf(w).event = req[w].event /\ PaymentOf(w).booking = b
  BY <1>1, <1>2, PaymentTyped DEF MarkPaid
<1>4. ~EventStored(req[w].event) /\ ~EventInFlight(w, req[w].event)
  BY DEF MarkPaid, InsertsEvent
<1>5. payments' \subseteq PaymentRow /\ EventRecordedOnce'
  BY <1>1, <1>3, <1>4, AddPayment DEF MarkPaid, DataOK
<1>6. /\ status' \in [Bookings -> Statuses] /\ status[b] = "pending" /\ status'[b] = "paid"
      /\ \A c \in Bookings \ {b} : status'[c] = status[c]
  BY <1>1, <1>2 DEF MarkPaid, TypeOK, Statuses
<1>7. req' \in [Workers -> Request]
  BY <1>1, DoneReq DEF TypeOK, MarkPaid
<1>8. TypeOK'
  BY <1>1, <1>5, <1>6, <1>7 DEF TypeOK, MarkPaid
<1>9. MoneyFollowsStatus'
  <2>1. payments' = payments \cup {PaymentOf(w)} /\ MoneyFollowsStatus
    BY <1>1 DEF MarkPaid, DataOK
  <2> QED
    BY <1>1, <1>3, <1>6, <2>1, SettleMoney
<1>10. DataOK'
  BY <1>1, <1>5, <1>6, <1>9 DEF DataOK, SeatSoldOnce, SeatsFollowStatus, SeatsOf, MarkPaid,
    CancelledIsReclaimable, ArchivedSeats, ArchivedTwice, NothingReleased
<1>11. \A s : SeatTaken(s)' => SeatTaken(s)
  BY DEF SeatTaken, MarkPaid
<1> QED
  BY <1>2, <1>4, <1>6, <1>8, <1>10, <1>11, PaymentStep DEF MarkPaid

(* What a payment of a cancelled booking holds, taking its seats back or   *)
(* owing a refund.                                                         *)
LEMMA ReclaimHolds ==
  ASSUME IInv, NEW w \in Workers, HasInserted(w),
         NEW b \in Bookings, b = req[w].booking
  PROVE  /\ TypeOK /\ DataOK /\ HoldsLock(w, b)
         /\ status[b] = "cancelled" /\ wants[b] = ArchivedSeats(b) /\ SeatsOf(b) = {}
         /\ ~EventStored(req[w].event) /\ ~EventInFlight(w, req[w].event)
         /\ PaymentOf(w) \in PaymentRow /\ PaymentOf(w).outcome = "succeeded"
         /\ PaymentOf(w).event = req[w].event /\ PaymentOf(w).booking = b
<1>1. TypeOK /\ DataOK /\ RequestOK(w) /\ AllPairsOK
  BY IInvParts DEF AllRequestsOK
<1>2. HoldsLock(w, b)
  BY DEF HasInserted, HoldsLock
<1>3. status[b] = "cancelled" /\ req[w].outcome = "succeeded" /\ ~EventStored(req[w].event)
  BY <1>1 DEF HasInserted, RequestOK
<1>4. wants[b] = ArchivedSeats(b) /\ SeatsOf(b) = {}
  BY <1>1, <1>3 DEF DataOK, CancelledIsReclaimable, SeatsFollowStatus
<1>5. ~EventInFlight(w, req[w].event)
  BY <1>1 DEF HasInserted, AllPairsOK, PairOK, EventInFlight
<1> QED
  BY <1>1, <1>2, <1>3, <1>4, <1>5, PaymentTyped

LEMMA ReclaimPaidStep ==
  ASSUME IInv, NEW w \in Workers, ReclaimPaid(w)
  PROVE  IInv'
<1>1. RequestOK(w) /\ HasInserted(w)
  BY IInvParts DEF AllRequestsOK, ReclaimPaid, HasInserted
<1>2. PICK b \in Bookings : b = req[w].booking
  BY <1>1 DEF HasInserted, RequestOK
<1>3. /\ TypeOK /\ DataOK /\ HoldsLock(w, b)
      /\ status[b] = "cancelled" /\ wants[b] = ArchivedSeats(b) /\ SeatsOf(b) = {}
      /\ ~EventStored(req[w].event) /\ ~EventInFlight(w, req[w].event)
      /\ PaymentOf(w) \in PaymentRow /\ PaymentOf(w).outcome = "succeeded"
      /\ PaymentOf(w).event = req[w].event /\ PaymentOf(w).booking = b
  BY <1>1, <1>2, ReclaimHolds
<1>4. payments' \subseteq PaymentRow /\ EventRecordedOnce'
  BY <1>3, AddPayment DEF ReclaimPaid, DataOK
<1>5. /\ status' \in [Bookings -> Statuses] /\ status'[b] = "paid"
      /\ \A c \in Bookings \ {b} : status'[c] = status[c]
  BY <1>2, <1>3 DEF ReclaimPaid, TypeOK, Statuses
<1>6. req[w].claims = wants[b] /\ wants[b] # {} /\ \A s \in wants[b] : ~SeatTaken(s)
  <2>1. \A s \in req[w].claims : s \in Needed(w) /\ ~SeatTaken(s)
    BY <1>1 DEF HasInserted, RequestOK
  <2>2. Needed(w) = ArchivedSeats(b) /\ Needed(w) \subseteq req[w].claims /\ req[w].claims # {}
    BY <1>2 DEF ReclaimPaid, Needed, Remaining
  <2> QED
    BY <1>3, <2>1, <2>2
<1>7. wants[b] \in SUBSET Seats
  BY <1>3 DEF TypeOK
<1>8. /\ seatRows' \subseteq SeatRow /\ SeatSoldOnce'
      /\ SeatsOf(b)' = SeatsOf(b) \cup wants[b]
      /\ \A c \in Bookings \ {b} : SeatsOf(c)' = SeatsOf(c)
      /\ \A s : SeatTaken(s)' => SeatTaken(s) \/ s \in wants[b]
  <2>1. seatRows' = seatRows \cup RowsOf(b, wants[b])
    BY <1>2, <1>6 DEF ReclaimPaid
  <2> QED
    BY <1>3, <1>6, <1>7, <2>1, AddRows DEF DataOK
<1>9. req' \in [Workers -> Request]
  BY <1>3, DoneReq DEF TypeOK, ReclaimPaid
<1>10. TypeOK'
  BY <1>3, <1>4, <1>5, <1>8, <1>9 DEF TypeOK, ReclaimPaid
<1>11. MoneyFollowsStatus'
  <2>1. payments' = payments \cup {PaymentOf(w)} /\ MoneyFollowsStatus
    BY <1>3 DEF ReclaimPaid, DataOK
  <2> QED
    BY <1>3, <1>5, <2>1, SettleMoney
<1>12. UNCHANGED <<wants, archive>>
  BY DEF ReclaimPaid
<1>13. SeatsFollowStatus'
  BY <1>3, <1>5, <1>6, <1>8, <1>12 DEF DataOK, SeatsFollowStatus
<1>14. DataOK'
  BY <1>3, <1>4, <1>5, <1>8, <1>11, <1>12, <1>13
     DEF DataOK, CancelledIsReclaimable, ArchivedSeats, ArchivedTwice, NothingReleased
<1> QED
  BY <1>3, <1>5, <1>6, <1>8, <1>10, <1>12, <1>14, PaymentStep DEF ReclaimPaid

LEMMA LoseReq ==
  ASSUME req \in [Workers -> Request], NEW w \in Workers, LoseReclaim(w)
  PROVE  /\ req' \in [Workers -> Request]
         /\ Others(w)
         /\ req'[w].stage = "refunding"
         /\ req'[w].booking = req[w].booking
         /\ req'[w].event = req[w].event
         /\ req'[w].outcome = req[w].outcome
         /\ req'[w].claims = {}
<1>1. req' = [req EXCEPT ![w].stage = "refunding", ![w].claims = {}]
  BY DEF LoseReclaim
<1> QED
  BY <1>1 DEF Request, Stages, Others

LEMMA LoseReclaimStep ==
  ASSUME IInv, NEW w \in Workers, LoseReclaim(w)
  PROVE  IInv'
<1>1. TypeOK /\ RequestOK(w) /\ AllRequestsOK /\ AllPairsOK /\ DataOK
  BY IInvParts DEF AllRequestsOK
<1>2. req[w].stage = "reclaiming" /\ HasInserted(w)
  BY DEF LoseReclaim, HasInserted
<1>3. req' \in [Workers -> Request] /\ Others(w)
  BY <1>1, LoseReq DEF TypeOK
<1>4. /\ req'[w].stage = "refunding" /\ req'[w].claims = {}
      /\ req'[w].booking = req[w].booking /\ req'[w].event = req[w].event
      /\ req'[w].outcome = req[w].outcome
  BY <1>1, LoseReq DEF TypeOK
<1>5. UNCHANGED Tables /\ TypeOK'
  BY <1>1, <1>3 DEF LoseReclaim, Tables, TypeOK
<1>6. RequestOK(w)'
  BY <1>1, <1>2, <1>4, <1>5 DEF RequestOK, HasInserted, Paying, Created, EventStored, Tables
<1>7. AllPairsOK'
  BY <1>1, <1>2, <1>3, <1>4 DEF AllPairsOK, PairOK, Others, HoldsLock, HasInserted
<1> QED
  BY <1>1, <1>3, <1>5, <1>6, <1>7, DataFrame, RequestsFrame
     DEF IInv, DataOK, AllRequestsOK, AllPairsOK

LEMMA OweRefundStep ==
  ASSUME IInv, NEW w \in Workers, OweRefund(w)
  PROVE  IInv'
<1>1. RequestOK(w) /\ HasInserted(w)
  BY IInvParts DEF AllRequestsOK, OweRefund, HasInserted
<1>2. PICK b \in Bookings : b = req[w].booking
  BY <1>1 DEF HasInserted, RequestOK
<1>3. /\ TypeOK /\ DataOK /\ HoldsLock(w, b)
      /\ status[b] = "cancelled" /\ wants[b] = ArchivedSeats(b) /\ SeatsOf(b) = {}
      /\ ~EventStored(req[w].event) /\ ~EventInFlight(w, req[w].event)
      /\ PaymentOf(w) \in PaymentRow /\ PaymentOf(w).outcome = "succeeded"
      /\ PaymentOf(w).event = req[w].event /\ PaymentOf(w).booking = b
  BY <1>1, <1>2, ReclaimHolds
<1>4. payments' \subseteq PaymentRow /\ EventRecordedOnce'
  BY <1>3, AddPayment DEF OweRefund, DataOK
<1>5. /\ status' \in [Bookings -> Statuses] /\ status'[b] = "refund_pending"
      /\ \A c \in Bookings \ {b} : status'[c] = status[c]
  BY <1>2, <1>3 DEF OweRefund, TypeOK, Statuses
<1>6. req' \in [Workers -> Request]
  BY <1>3, DoneReq DEF TypeOK, OweRefund
<1>7. TypeOK'
  BY <1>3, <1>4, <1>5, <1>6 DEF TypeOK, OweRefund
<1>8. MoneyFollowsStatus'
  <2>1. payments' = payments \cup {PaymentOf(w)} /\ MoneyFollowsStatus
    BY <1>3 DEF OweRefund, DataOK
  <2> QED
    BY <1>3, <1>5, <2>1, SettleMoney
<1>9. DataOK'
  BY <1>3, <1>4, <1>5, <1>8 DEF DataOK, SeatSoldOnce, SeatsFollowStatus, SeatsOf, OweRefund,
    CancelledIsReclaimable, ArchivedSeats, ArchivedTwice, NothingReleased
<1>10. /\ UNCHANGED <<wants, archive>>
       /\ \A s : SeatTaken(s)' => SeatTaken(s)
  BY DEF SeatTaken, OweRefund
<1> QED
  BY <1>3, <1>5, <1>7, <1>9, <1>10, PaymentStep DEF OweRefund

-----------------------------------------------------------------------------
(* Releases.                                                               *)

(* A cancellation or an expiry, whose booking nobody has locked.  A        *)
(* booking that ends up cancelled was pending: it had released nothing     *)
(* before, and the one batch of its archive is all it was sold.            *)
LEMMA ReleaseStep ==
  ASSUME IInv, NEW w \in Workers, NEW b \in Bookings, NEW reason \in Reasons, NEW to,
         RowFree(b), ReleaseSeats(b, reason, to),
         \/ status[b] = "pending" /\ to = "cancelled"
         \/ status[b] = "paid" /\ to = "refund_pending",
         UNCHANGED <<wants, payments, overdue, windowOpen>>,
         req' \in [Workers -> Request], Others(w), RequestOK(w)', req'[w].claims = {},
         req'[w].stage \notin {"claiming", "recording", "reclaiming", "refunding"}
  PROVE  IInv'
<1>1. TypeOK /\ DataOK /\ AllRequestsOK
  BY IInvParts
<1>2. /\ seatRows' \subseteq SeatRow /\ SeatSoldOnce' /\ SeatsOf(b)' = {}
      /\ \A c \in Bookings \ {b} : SeatsOf(c)' = SeatsOf(c)
      /\ \A s : SeatTaken(s)' => SeatTaken(s)
  BY <1>1, DropRows DEF ReleaseSeats, DataOK
<1>3. /\ archive' \in [Bookings -> Seq(Batch)]
      /\ \A c \in Bookings \ {b} : archive'[c] = archive[c]
      /\ archive[b] = <<>> => ArchivedSeats(b)' = SeatsOf(b) /\ \A s : ~ArchivedTwice(b, s)'
  BY <1>1, AddBatch DEF ReleaseSeats
<1>4. /\ status' \in [Bookings -> Statuses] /\ status'[b] = to
      /\ \A c \in Bookings \ {b} : status'[c] = status[c]
  BY <1>1 DEF ReleaseSeats, TypeOK, Statuses
<1>5. TypeOK'
  BY <1>1, <1>2, <1>3, <1>4 DEF TypeOK
<1>6. SeatsFollowStatus'
  BY <1>1, <1>2, <1>4 DEF DataOK, SeatsFollowStatus
<1>7. MoneyFollowsStatus'
  BY <1>1, <1>4 DEF DataOK, MoneyFollowsStatus
<1>8. CancelledIsReclaimable'
  <2>1. ASSUME to = "cancelled"
        PROVE  ArchivedSeats(b)' = wants'[b] /\ \A s \in Seats : ~ArchivedTwice(b, s)'
    BY <1>1, <1>3, <2>1 DEF DataOK, NothingReleased, SeatsFollowStatus
  <2>2. \A c \in Bookings \ {b} :
          /\ ArchivedSeats(c)' = ArchivedSeats(c)
          /\ \A s : ArchivedTwice(c, s)' <=> ArchivedTwice(c, s)
    BY <1>3 DEF ArchivedSeats, ArchivedTwice
  <2> QED
    BY <1>1, <1>4, <2>1, <2>2 DEF DataOK, CancelledIsReclaimable
<1>9. DataOK'
  BY <1>1, <1>2, <1>3, <1>4, <1>6, <1>7, <1>8 DEF DataOK, EventRecordedOnce, NothingReleased
<1>10. \A c \in Bookings : Created(c) => Created(c)'
  BY <1>4 DEF Created
<1>11. ASSUME NEW v \in Workers \ {w}
       PROVE  /\ req[v].stage = "claiming" => ~Created(req[v].booking)'
              /\ HasInserted(v) =>
                   /\ status'[req[v].booking] = status[req[v].booking]
                   /\ archive'[req[v].booking] = archive[req[v].booking]
                   /\ ~EventStored(req[v].event)'
              /\ \A s \in req[v].claims : ~SeatTaken(s)'
  <2>1. RequestOK(v) /\ req'[v] = req[v]
    BY <1>1 DEF AllRequestsOK, Others
  <2>2. req[v].stage = "claiming" => ~Created(req[v].booking)'
    BY <2>1, <1>4 DEF HasInserted, RequestOK, Created
  <2>3. HasInserted(v) => req[v].booking \in Bookings \ {b}
    BY <2>1 DEF HasInserted, RequestOK, RowFree, HoldsLock
  <2>4. HasInserted(v) => ~EventStored(req[v].event)'
    BY <2>1 DEF HasInserted, RequestOK, EventStored
  <2>5. \A s \in req[v].claims : ~SeatTaken(s)'
    BY <2>1, <1>2 DEF HasInserted, RequestOK
  <2> QED
    BY <1>3, <1>4, <2>2, <2>3, <2>4, <2>5
<1> QED
  BY <1>5, <1>9, <1>10, <1>11, CommitStep

LEMMA CancelBookingStep ==
  ASSUME IInv, NEW w \in Workers, CancelBooking(w)
  PROVE  IInv'
<1>1. TypeOK /\ RequestOK(w)
  BY IInvParts DEF AllRequestsOK
<1>2. PICK b \in Bookings : b = req[w].booking
  BY <1>1 DEF HasInserted, CancelBooking, RequestOK
<1>3. /\ req' \in [Workers -> Request] /\ Others(w) /\ req'[w] = Idle
      /\ req'[w].stage = "idle" /\ req'[w].claims = {}
  BY <1>1, DoneReq DEF TypeOK, CancelBooking
<1>4. RequestOK(w)'
  BY <1>3, IdleOK
<1>5. PICK to : to = StatusAfterCancellation(b)
  OBVIOUS
<1>6. /\ \/ status[b] = "pending" /\ to = "cancelled"
         \/ status[b] = "paid" /\ to = "refund_pending"
      /\ RowFree(b) /\ ReleaseSeats(b, "cancelled", to) /\ "cancelled" \in Reasons
  BY <1>2, <1>5 DEF CancelBooking, Cancellable, StatusAfterCancellation, Reasons
<1> QED
  BY <1>3, <1>4, <1>6, ReleaseStep DEF CancelBooking

LEMMA ExpireBookingStep ==
  ASSUME IInv, NEW w \in Workers, ExpireBooking(w)
  PROVE  IInv'
<1>1. TypeOK
  BY IInvParts
<1>2. PICK b \in Bookings : Expirable(b) /\ ReleaseSeats(b, "expired", "cancelled") /\ SweptPast(w, b)
  BY DEF ExpireBooking
<1>3. /\ req' \in [Workers -> Request] /\ Others(w) /\ req'[w].claims = {}
      /\ req'[w].stage \in {"idle", "sweeping"}
      /\ req'[w].stage = "idle" => req'[w] = Idle
  BY <1>1, <1>2, SweptPastReq
<1>4. RequestOK(w)'
  BY <1>3, IdleOK DEF HasInserted, RequestOK, Paying
<1>5. "expired" \in Reasons
  BY DEF Reasons
<1> QED
  BY <1>2, <1>3, <1>4, <1>5, ReleaseStep DEF ExpireBooking, Expirable

-----------------------------------------------------------------------------
(* The invariant.                                                          *)

LEMMA InitOK == Init => IInv
<1> SUFFICES ASSUME Init PROVE IInv
  OBVIOUS
<1>1. TypeOK
  <2>1. archive \in [Bookings -> Seq(Batch)]
    BY EmptySeq DEF Init
  <2>2. req \in [Workers -> Request]
    BY DEF Init, Idle, At, Request, Stages, Outcomes
  <2> QED
    BY <2>1, <2>2 DEF Init, TypeOK, Statuses
<1>2. DataOK
  BY DEF Init, DataOK, SeatSoldOnce, SeatsFollowStatus, SeatsOf, MoneyFollowsStatus,
    EventRecordedOnce, CancelledIsReclaimable, NothingReleased
<1>3. AllRequestsOK /\ AllPairsOK
  BY DEF HasInserted, Init, AllRequestsOK, AllPairsOK, RequestOK, PairOK, Idle, At, Paying, HoldsLock
<1> QED
  BY <1>1, <1>2, <1>3, IInvParts

(* The clock's steps, and a step that changes nothing.                     *)
LEMMA ClockStep ==
  ASSUME IInv, UNCHANGED <<Tables, req>>, overdue' \subseteq Bookings, windowOpen' \in BOOLEAN
  PROVE  IInv'
<1>1. TypeOK'
  BY DEF IInv, TypeOK, Tables
<1>2. DataOK'
  BY DataFrame, IInvParts DEF Tables
<1>3. AllRequestsOK' /\ AllPairsOK'
  BY DEF HasInserted, IInv, AllRequestsOK, AllPairsOK, RequestOK, PairOK, Created, Needed, Remaining,
     ArchivedSeats, SeatTaken, EventStored, HoldsLock, Tables
<1> QED
  BY <1>1, <1>2, <1>3 DEF IInv, DataOK, AllRequestsOK, AllPairsOK

LEMMA CrashStep ==
  ASSUME IInv, NEW w \in Workers, Crash(w)
  PROVE  IInv'
<1>1. CASE req[w].stage = "claiming"
  BY <1>1, AbandonStep DEF Crash
<1>2. CASE req[w].stage # "claiming"
  <2>1. UNCHANGED Tables
    BY <1>2 DEF Crash, Tables
  <2> QED
    BY <2>1, EndStep DEF Crash
<1> QED
  BY <1>1, <1>2

LEMMA ArriveStep ==
  ASSUME IInv, NEW w \in Workers, Arrive(w)
  PROVE  IInv'
  BY CreateBookingStep, ConfirmPaymentStep, AskCancelStep, StartSweepStep DEF Arrive

LEMMA ContinueStep ==
  ASSUME IInv, NEW w \in Workers, Continue(w)
  PROVE  IInv'
<1>1. CASE RefuseBooking(w)
  BY <1>1, AbandonStep DEF RefuseBooking
<1>2. CASE AnswerDuplicate(w) \/ RefusePayment(w) \/ RefuseCancel(w)
  <2>1. Done(w) /\ UNCHANGED Tables /\ UNCHANGED <<overdue, windowOpen>>
    BY <1>2 DEF AnswerDuplicate, RefusePayment, RefuseCancel, Tables
  <2> QED
    BY <2>1, EndStep
<1>3. CASE ClaimSeat(w) \/ CommitBooking(w)
  BY <1>3, ClaimSeatStep, CommitBookingStep
<1>4. CASE \E outcome \in Outcomes : Charge(w, outcome)
  BY <1>4, ChargeStep
<1>5. CASE LockBooking(w) \/ RecordFailure(w) \/ MarkPaid(w)
  BY <1>5, LockBookingStep, RecordFailureStep, MarkPaidStep
<1>6. CASE BeginReclaim(w) \/ ReclaimPaid(w) \/ LoseReclaim(w) \/ OweRefund(w)
  BY <1>6, BeginReclaimStep, ReclaimPaidStep, LoseReclaimStep, OweRefundStep
<1>7. CASE CancelBooking(w) \/ ExpireBooking(w) \/ SkipCandidate(w)
  BY <1>7, CancelBookingStep, ExpireBookingStep, SkipCandidateStep
<1> QED
  BY <1>1, <1>2, <1>3, <1>4, <1>5, <1>6, <1>7 DEF Continue

LEMMA NextOK == IInv /\ [Next]_vars => IInv'
<1> SUFFICES ASSUME IInv, [Next]_vars PROVE IInv'
  OBVIOUS
<1>1. TypeOK
  BY IInvParts
<1>2. CASE \E w \in Workers : Arrive(w) \/ Continue(w) \/ Crash(w)
  BY <1>2, ArriveStep, ContinueStep, CrashStep
<1>3. CASE \E b \in Bookings : BecomeOverdue(b)
  BY <1>1, <1>3, ClockStep DEF BecomeOverdue, Tables, TypeOK
<1>4. CASE CloseWindow
  BY <1>1, <1>4, ClockStep DEF CloseWindow, Tables, TypeOK
<1>5. CASE UNCHANGED vars
  BY <1>1, <1>5, ClockStep DEF vars, Tables, TypeOK
<1> QED
  BY <1>2, <1>3, <1>4, <1>5 DEF Next

(* IInv holds in every reachable state.                                    *)
THEOREM Invariance == Spec => []IInv
  BY InitOK, NextOK, PTL DEF Spec

(* Every variable keeps its type: in particular a sweep's candidates and a *)
(* request's claims are always bookings and seats of the show.             *)
THEOREM TypeCorrect == Spec => []TypeOK
<1>1. IInv => TypeOK
  BY DEF IInv
<1> QED
  BY <1>1, Invariance, PTL

(* Phase 2.4's guarantee, for any number of servers, requests and seats:   *)
(* no seat is ever sold to two bookings.                                   *)
THEOREM NoDoubleSale == Spec => []SeatSoldOnce
<1>1. IInv => SeatSoldOnce
  BY DEF IInv
<1> QED
  BY <1>1, Invariance, PTL

(* A booking has all of the seats it asked for or none, as its status says, *)
(* also after an expiry and a late payment.                                *)
THEOREM SeatsWhole == Spec => []SeatsFollowStatus
<1>1. IInv => SeatsFollowStatus
  BY DEF IInv
<1> QED
  BY <1>1, Invariance, PTL

(* A booking is paid, or owed a refund, exactly when one successful payment *)
(* is on record for it.                                                    *)
THEOREM MoneyAccounted == Spec => []MoneyFollowsStatus
<1>1. IInv => MoneyFollowsStatus
  BY DEF IInv
<1> QED
  BY <1>1, Invariance, PTL

(* No payment event id is ever on record twice.                            *)
THEOREM EventsUnique == Spec => []EventRecordedOnce
<1>1. IInv => EventRecordedOnce
  BY DEF IInv
<1> QED
  BY <1>1, Invariance, PTL

(* The archive of a cancelled booking is always what a late payment needs. *)
THEOREM AlwaysReclaimable == Spec => []CancelledIsReclaimable
<1>1. IInv => CancelledIsReclaimable
  BY DEF IInv
<1> QED
  BY <1>1, Invariance, PTL

-----------------------------------------------------------------------------
(* No deadlock among the transactions: a request waiting for a row lock    *)
(* waits for a payment, a payment recording its event waits for one taking *)
(* seats back, and those that insert seats wait in the order of the seats. *)

(* Nobody waits for a request that neither holds a row lock nor inserts,   *)
(* and one that owes a refund waits for nobody.                            *)
LEMMA WaitsFor ==
  ASSUME IInv, NEW w \in Workers, NEW v \in Workers, Waits(w, v)
  PROVE  /\ req[w].stage \in {"locking", "cancelling"} => req[v].stage = "recording" \/ HasInserted(v)
         /\ req[w].stage = "recording" => HasInserted(v)
         /\ req[w].stage \in {"locking", "cancelling", "recording", "claiming", "reclaiming"}
         /\ req[w].stage \in {"claiming", "reclaiming"} =>
              /\ req[v].stage \in {"claiming", "reclaiming"}
              /\ \E s \in req[v].claims : NextSeat(w, s)
<1>1. RequestOK(v)
  BY DEF IInv
<1> QED
  BY <1>1 DEF HasInserted, Waits, HoldsLock, RequestOK

LEMMA NoCycle == IInv => NoWaitCycle
<1> SUFFICES ASSUME IInv, NEW W \in SUBSET Workers, W # {},
                    \A w \in W : \E v \in W : Waits(w, v)
             PROVE  FALSE
  BY DEF NoWaitCycle
<1> DEFINE A == {w \in W : req[w].stage \in {"claiming", "reclaiming"}}
           Wanted == {s \in Seats : \E w \in A : NextSeat(w, s)}
<1>1. A # {}
  BY WaitsFor DEF HasInserted
<1>2. ASSUME NEW w \in A PROVE \E v \in A : \E s \in req[v].claims : NextSeat(w, s)
  BY <1>2, WaitsFor
<1>3. \A w \in A : RequestOK(w) /\ Needed(w) \subseteq Seats
  <2>1. TypeOK /\ \A w \in A : RequestOK(w) /\ req[w].booking \in Bookings
    BY DEF HasInserted, IInv, RequestOK
  <2> QED
    BY <2>1, NeededSeats
<1>4. Wanted # {}
  BY <1>1, <1>2, <1>3 DEF NextSeat, Remaining
<1>5. PICK m \in Wanted : \A s \in Wanted : s <= m
  <2>1. Wanted \subseteq Nat /\ IsFiniteSet(Wanted)
    BY SeatsAssumption, FiniteAssumption, FS_Subset
  <2> QED
    BY <1>4, <2>1, HighestMember
<1>6. PICK w \in A : NextSeat(w, m)
  OBVIOUS
<1>7. PICK v \in A : m \in req[v].claims
  <2>1. PICK u \in A : \E s \in req[u].claims : NextSeat(w, s)
    BY <1>2
  <2>2. \A s : NextSeat(w, s) => s = m
    BY <1>3, <1>6, SeatsAssumption DEF NextSeat, Remaining
  <2> QED
    BY <2>1, <2>2
<1>8. PICK t \in Wanted : NextSeat(v, t)
  BY <1>2, <1>3 DEF NextSeat, Remaining
<1>9. m < t
  BY <1>3, <1>7, <1>8 DEF HasInserted, RequestOK, NextSeat
<1> QED
  BY <1>5, <1>8, <1>9, SeatsAssumption

(* 40P01 cannot happen between bookings, payments, cancellations and       *)
(* sweeps: no set of them ever waits for one another in a circle.          *)
THEOREM DeadlockFree == Spec => []NoWaitCycle
  BY NoCycle, Invariance, PTL

-----------------------------------------------------------------------------
(* BookingCore implements SeatLedger: every commit of a transaction is one *)
(* step of the one-step service, and every other step changes nothing that *)
(* the service shows.                                                      *)

(* The seats sold are the ones a committed row holds.                      *)
LEMMA SoldIsTaken ==
  ASSUME TypeOK
  PROVE  \A s \in Seats : s \in Ledger!Sold <=> SeatTaken(s)
<1>1. Ledger!Sold = UNION {SeatsOf(b) : b \in Bookings}
  BY DEF Ledger!Sold
<1>2. \A s \in Seats : SeatTaken(s) <=> \E b \in Bookings : s \in SeatsOf(b)
  <2>1. \A r \in seatRows : r.booking \in Bookings /\ r = [booking |-> r.booking, seat |-> r.seat]
    BY DEF TypeOK, SeatRow
  <2> QED
    BY <2>1 DEF SeatTaken, SeatsOf
<1> QED
  BY <1>1, <1>2

LEMMA LedgerInit == Init => Ledger!Init
  BY DEF Init, Ledger!Init, Created, SeatsOf, Refunding, Idle, At

(* A refund is owed by nobody else because of a worker that owes none.     *)
LEMMA RefundingKept ==
  ASSUME NEW w \in Workers, Others(w), req[w].stage # "refunding", req'[w].stage # "refunding"
  PROVE  UNCHANGED Refunding
  BY DEF Refunding, Others

LEMMA SameRefunding ==
  ASSUME TypeOK, NEW w \in Workers,
         \/ Arrive(w)
         \/ Crash(w) /\ req[w].stage # "refunding"
         \/ ClaimSeat(w) \/ CommitBooking(w) \/ RefuseBooking(w)
         \/ \E outcome \in Outcomes : Charge(w, outcome)
         \/ LockBooking(w) \/ AnswerDuplicate(w) \/ RecordFailure(w)
         \/ MarkPaid(w) \/ RefusePayment(w) \/ BeginReclaim(w) \/ ReclaimPaid(w)
         \/ CancelBooking(w) \/ RefuseCancel(w) \/ ExpireBooking(w) \/ SkipCandidate(w)
  PROVE  UNCHANGED Refunding
<1>1. req \in [Workers -> Request]
  BY DEF TypeOK
<1>2. CASE Arrive(w)
  <2>1. req[w].stage = "idle"
    BY <1>2 DEF Arrive, CreateBooking, ConfirmPayment, AskCancel, StartSweep, Idle, At
  <2>2. FirstCandidates \in SUBSET Bookings
    BY DEF FirstCandidates, Candidates
  <2>3. Others(w) /\ req'[w].stage \in {"claiming", "charging", "cancelling", "sweeping"}
    <3>0. /\ {"claiming", "charging", "cancelling", "sweeping"} \subseteq Stages
          /\ {} \in SUBSET Bookings
      BY DEF Stages
    <3>1. ASSUME NEW b \in Bookings, NEW S \in SUBSET Seats, CreateBooking(w, b, S)
          PROVE  Others(w) /\ req'[w].stage = "claiming"
      BY <1>1, <3>0, <3>1, AtReq DEF CreateBooking
    <3>2. ASSUME NEW b \in Bookings, NEW e \in Events, ConfirmPayment(w, b, e)
          PROVE  Others(w) /\ req'[w].stage = "charging"
      BY <1>1, <3>0, <3>2, AtReq DEF ConfirmPayment
    <3>3. ASSUME NEW b \in Bookings, AskCancel(w, b)
          PROVE  Others(w) /\ req'[w].stage = "cancelling"
      BY <1>1, <3>0, <3>3, AtReq DEF AskCancel
    <3>4. ASSUME StartSweep(w)
          PROVE  Others(w) /\ req'[w].stage = "sweeping"
      BY <1>1, <2>2, <3>0, <3>4, AtReq DEF StartSweep
    <3> QED
      BY <1>2, <3>1, <3>2, <3>3, <3>4 DEF Arrive
  <2> QED
    BY <2>1, <2>3, RefundingKept
<1>3. CASE Done(w) /\ req[w].stage # "refunding"
  BY <1>1, <1>3, DoneReq, RefundingKept
<1>4. CASE ClaimSeat(w)
  BY <1>1, <1>4, ClaimReq, RefundingKept DEF ClaimSeat
<1>5. CASE \E outcome \in Outcomes : Charge(w, outcome)
  BY <1>1, <1>5, ChargeReq, RefundingKept DEF Charge
<1>6. CASE LockBooking(w) \/ BeginReclaim(w)
  BY <1>1, <1>6, GotoReq, RefundingKept DEF LockBooking, BeginReclaim, InsertsEvent, Stages
<1>7. CASE ExpireBooking(w) \/ SkipCandidate(w)
  BY <1>7, SweptPastReq, RefundingKept DEF ExpireBooking, SkipCandidate
<1> QED
  BY <1>2, <1>3, <1>4, <1>5, <1>6, <1>7
     DEF Crash, CommitBooking, RefuseBooking, AnswerDuplicate, RecordFailure, MarkPaid,
         RefusePayment, InsertsEvent, ReclaimPaid, CancelBooking, RefuseCancel

(* Nothing of the service moves while no transaction commits.              *)
LEMMA Stutter ==
  ASSUME UNCHANGED <<status, seatRows, Refunding>>,
         \A b \in Bookings : Created(b) => wants'[b] = wants[b],
         \A b \in Bookings :
            (\E p \in payments' : p.booking = b /\ p.outcome = "succeeded") <=>
            (\E p \in payments : p.booking = b /\ p.outcome = "succeeded")
  PROVE  UNCHANGED Ledger!vars
<1>1. \A b \in Bookings : SeatsOf(b)' = SeatsOf(b)
  BY DEF SeatsOf
<1>2. \A b \in Bookings : Created(b)' <=> Created(b)
  BY DEF Created
<1> QED
  BY <1>1, <1>2 DEF Ledger!vars, Created

LEMMA CommitBookingSells ==
  ASSUME IInv, NEW w \in Workers, CommitBooking(w), IInv'
  PROVE  Ledger!Next
<1>1. TypeOK /\ RequestOK(w) /\ TypeOK' /\ DataOK'
  BY IInvParts DEF IInv, DataOK, AllRequestsOK
<1>2. PICK b \in Bookings : b = req[w].booking
  BY <1>1 DEF HasInserted, CommitBooking, RequestOK
<1>3. PICK S \in SUBSET Seats :
        S = wants[b] /\ S # {} /\ status[b] = "none" /\ \A s \in S : ~SeatTaken(s)
  BY <1>1, <1>2 DEF HasInserted, CommitBooking, RequestOK, Created, Remaining, Needed, TypeOK
<1>4. status' = [status EXCEPT ![b] = "pending"] /\ UNCHANGED <<wants, payments>>
  BY <1>2 DEF CommitBooking
<1>5. SeatsOf(b)' = S /\ \A c \in Bookings \ {b} : SeatsOf(c)' = SeatsOf(c)
  <2>1. status'[b] = "pending" /\ \A c \in Bookings \ {b} : status'[c] = status[c]
    BY <1>1, <1>4 DEF TypeOK
  <2> QED
    BY <1>1, <1>3, <1>4, <2>1 DEF DataOK, SeatsFollowStatus, IInv
<1>6. S \cap Ledger!Sold = {}
  BY <1>1, <1>3, SoldIsTaken
<1>7. UNCHANGED Refunding
  BY <1>1, SameRefunding
<1>8. Ledger!Sell(b, S)
  BY <1>1, <1>3, <1>4, <1>5, <1>6, <1>7 DEF Ledger!Sell, Created, TypeOK
<1> QED
  BY <1>8 DEF Ledger!Next

(* The payments a settlement adds: one successful one, for b.              *)
LEMMA SettledBy ==
  ASSUME NEW w \in Workers, NEW b \in Bookings, req[w].booking = b,
         req[w].outcome = "succeeded", payments' = payments \cup {PaymentOf(w)}
  PROVE  \A c \in Bookings :
            (\E p \in payments' : p.booking = c /\ p.outcome = "succeeded") <=>
            (\E p \in payments : p.booking = c /\ p.outcome = "succeeded") \/ c = b
<1>1. PICK q : q = PaymentOf(w)
  OBVIOUS
<1>2. q.booking = b /\ q.outcome = "succeeded"
  BY <1>1 DEF PaymentOf
<1> QED
  BY <1>1, <1>2

LEMMA MarkPaidSettles ==
  ASSUME IInv, NEW w \in Workers, MarkPaid(w)
  PROVE  Ledger!Next
<1>1. TypeOK /\ RequestOK(w)
  BY IInvParts DEF AllRequestsOK
<1>2. PICK b \in Bookings : b = req[w].booking
  BY <1>1 DEF HasInserted, MarkPaid, InsertsEvent, RequestOK
<1>3. /\ status[b] = "pending" /\ status' = [status EXCEPT ![b] = "paid"]
      /\ UNCHANGED <<wants, seatRows>>
  BY <1>2 DEF MarkPaid
<1>4. \A c \in Bookings : SeatsOf(c)' = SeatsOf(c) /\ (Created(c)' <=> Created(c))
  BY <1>1, <1>3 DEF SeatsOf, Created, TypeOK
<1>5. \A c \in Bookings :
            (\E p \in payments' : p.booking = c /\ p.outcome = "succeeded") <=>
            (\E p \in payments : p.booking = c /\ p.outcome = "succeeded") \/ c = b
  BY <1>2, SettledBy DEF MarkPaid
<1>6. UNCHANGED Refunding
  BY <1>1, SameRefunding
<1>7. Ledger!Settle(b)
  BY <1>3, <1>4, <1>5, <1>6 DEF Ledger!Settle
<1> QED
  BY <1>7 DEF Ledger!Next

LEMMA ReclaimPaidSettles ==
  ASSUME IInv, NEW w \in Workers, ReclaimPaid(w), IInv'
  PROVE  Ledger!Next
<1>1. TypeOK /\ RequestOK(w)
  BY IInvParts DEF AllRequestsOK
<1>2. PICK b \in Bookings : b = req[w].booking
  BY <1>1 DEF HasInserted, ReclaimPaid, RequestOK
<1>3. /\ status[b] = "cancelled" /\ wants[b] = ArchivedSeats(b) /\ req[w].outcome = "succeeded"
      /\ \A s \in wants[b] : ~SeatTaken(s)
  <2>1. status[b] = "cancelled" /\ wants[b] = ArchivedSeats(b)
    BY <1>1, <1>2, ReclaimHolds DEF ReclaimPaid, HasInserted
  <2>2. \A s \in req[w].claims : ~SeatTaken(s)
    BY <1>1 DEF HasInserted, RequestOK
  <2>3. ArchivedSeats(b) \subseteq req[w].claims
    BY <1>2 DEF ReclaimPaid, Remaining, Needed
  <2> QED
    BY <1>1, <2>1, <2>2, <2>3 DEF HasInserted, RequestOK, ReclaimPaid
<1>4. status' = [status EXCEPT ![b] = "paid"] /\ UNCHANGED wants
  BY <1>2 DEF ReclaimPaid
<1>5. SeatsOf(b)' = wants[b] /\ \A c \in Bookings \ {b} : SeatsOf(c)' = SeatsOf(c)
  <2>1. status'[b] = "paid" /\ \A c \in Bookings \ {b} : status'[c] = status[c]
    BY <1>1, <1>4 DEF TypeOK
  <2> QED
    BY <1>4, <2>1 DEF SeatsFollowStatus, IInv
<1>6. \A c \in Bookings :
            (\E p \in payments' : p.booking = c /\ p.outcome = "succeeded") <=>
            (\E p \in payments : p.booking = c /\ p.outcome = "succeeded") \/ c = b
  BY <1>2, <1>3, SettledBy DEF ReclaimPaid
<1>7. \A c \in Bookings : Created(c)' <=> Created(c)
  BY <1>1, <1>3, <1>4 DEF Created, TypeOK
<1>8. wants[b] \cap Ledger!Sold = {}
  <2>1. wants[b] \in SUBSET Seats
    BY <1>1 DEF TypeOK
  <2> QED
    BY <1>1, <1>3, <2>1, SoldIsTaken
<1>9. [c \in Bookings |-> SeatsOf(c)]' = [[c \in Bookings |-> SeatsOf(c)] EXCEPT ![b] = wants[b]]
  BY <1>5
<1>10. UNCHANGED [c \in Bookings |-> IF Created(c) THEN wants[c] ELSE {}]
  BY <1>4, <1>7
<1>11. [c \in Bookings |-> IF Created(c) THEN wants[c] ELSE {}][b] = wants[b]
  BY <1>3 DEF Created
<1>12. {c \in Bookings : \E p \in payments : p.booking = c /\ p.outcome = "succeeded"}' =
       {c \in Bookings : \E p \in payments : p.booking = c /\ p.outcome = "succeeded"} \cup {b}
  BY <1>6
<1>13. UNCHANGED Refunding
  BY <1>1, SameRefunding
<1>14. b \notin Refunding
  <2>1. \A v \in Workers \ {w} : ~HoldsLock(v, b)
    BY <1>2 DEF IInv, PairOK, HoldsLock, HasInserted, ReclaimPaid
  <2> QED
    BY <2>1 DEF Refunding, HoldsLock, HasInserted, ReclaimPaid
<1>15. Ledger!SettleLate(b)
  BY <1>3, <1>4, <1>8, <1>9, <1>10, <1>11, <1>12, <1>13, <1>14, Zenon DEF Ledger!SettleLate
<1> QED
  BY <1>15 DEF Ledger!Next

(* A late payment loses only to a seat somebody else owns: the archive     *)
(* lists no seat twice and is never empty.                                 *)
LEMMA LoseReclaimMisses ==
  ASSUME IInv, NEW w \in Workers, LoseReclaim(w)
  PROVE  Ledger!Next
<1>1. TypeOK /\ RequestOK(w) /\ DataOK /\ HasInserted(w) /\ req[w].stage = "reclaiming"
  BY IInvParts DEF AllRequestsOK, LoseReclaim, HasInserted
<1>2. PICK b \in Bookings : b = req[w].booking
  BY <1>1 DEF HasInserted, RequestOK
<1>3. status[b] = "cancelled" /\ wants[b] = ArchivedSeats(b)
  BY <1>1, <1>2, ReclaimHolds
<1>4. Needed(w) = wants[b] /\ wants[b] # {} /\ wants[b] \in SUBSET Seats
  BY <1>1, <1>2, <1>3 DEF Needed, DataOK, SeatsFollowStatus, TypeOK
<1>5. \E s \in wants[b] : SeatTaken(s)
  <2>1. PICK s \in Seats : NextSeat(w, s) /\ (SeatTaken(s) \/ ArchivedTwice(b, s))
    BY <1>2, <1>4 DEF LoseReclaim, SeatRefused
  <2>2. ~ArchivedTwice(b, s)
    BY <1>1, <1>3 DEF DataOK, CancelledIsReclaimable
  <2> QED
    BY <1>4, <2>1, <2>2 DEF NextSeat, Remaining
<1>6. wants[b] \cap Ledger!Sold # {}
  BY <1>1, <1>4, <1>5, SoldIsTaken
<1>7. /\ b \notin Refunding
      /\ Refunding' = Refunding \cup {b}
  <2>1. /\ Others(w) /\ req'[w].stage = "refunding" /\ req'[w].booking = b
    BY <1>1, <1>2 DEF LoseReclaim, Others, TypeOK, Request
  <2>2. \A v \in Workers \ {w} : ~HoldsLock(v, b)
    BY <1>1, <1>2 DEF IInv, PairOK, HoldsLock, HasInserted
  <2> QED
    BY <1>1, <2>1, <2>2 DEF Refunding, Others, HoldsLock, HasInserted
<1>8. UNCHANGED <<status, wants, seatRows, payments>>
  BY DEF LoseReclaim
<1>9. \A c \in Bookings : SeatsOf(c)' = SeatsOf(c) /\ (Created(c)' <=> Created(c))
  BY <1>8 DEF SeatsOf, Created
<1>10. Ledger!Miss(b)
  BY <1>3, <1>6, <1>7, <1>8, <1>9 DEF Ledger!Miss, Created
<1> QED
  BY <1>10 DEF Ledger!Next

(* A worker that ends while it owes a refund owes it no more.              *)
LEMMA RefundingEnds ==
  ASSUME IInv, NEW w \in Workers, req[w].stage = "refunding", Done(w)
  PROVE  req[w].booking \in Refunding /\ Refunding' = Refunding \ {req[w].booking}
<1>1. TypeOK /\ RequestOK(w)
  BY DEF IInv
<1>2. PICK b \in Bookings : b = req[w].booking
  BY <1>1 DEF HasInserted, RequestOK
<1>3. Others(w) /\ req'[w].stage = "idle"
  BY <1>1, DoneReq DEF TypeOK
<1>4. \A v \in Workers \ {w} : ~HoldsLock(v, b)
  BY <1>2 DEF IInv, PairOK, HoldsLock, HasInserted
<1> QED
  BY <1>2, <1>3, <1>4 DEF Refunding, Others, HoldsLock, HasInserted

LEMMA OweRefundOwes ==
  ASSUME IInv, NEW w \in Workers, OweRefund(w)
  PROVE  Ledger!Next
<1>1. TypeOK /\ RequestOK(w) /\ HasInserted(w) /\ req[w].stage = "refunding"
  BY DEF IInv, OweRefund, HasInserted
<1>2. PICK b \in Bookings : b = req[w].booking
  BY <1>1 DEF HasInserted, RequestOK
<1>3. status[b] = "cancelled" /\ req[w].outcome = "succeeded"
  BY <1>1, <1>2 DEF HasInserted, RequestOK
<1>4. b \in Refunding /\ Refunding' = Refunding \ {b}
  BY <1>1, <1>2, RefundingEnds DEF OweRefund
<1>5. status' = [status EXCEPT ![b] = "refund_pending"] /\ UNCHANGED <<wants, seatRows>>
  BY <1>2 DEF OweRefund
<1>6. \A c \in Bookings : SeatsOf(c)' = SeatsOf(c) /\ (Created(c)' <=> Created(c))
  BY <1>1, <1>3, <1>5 DEF SeatsOf, Created, TypeOK
<1>7. \A c \in Bookings :
            (\E p \in payments' : p.booking = c /\ p.outcome = "succeeded") <=>
            (\E p \in payments : p.booking = c /\ p.outcome = "succeeded") \/ c = b
  BY <1>2, <1>3, SettledBy DEF OweRefund
<1>8. Ledger!OweRefund(b)
  BY <1>4, <1>5, <1>6, <1>7 DEF Ledger!OweRefund
<1> QED
  BY <1>8 DEF Ledger!Next

(* Lost between the savepoint and its commit, it leaves no trace.          *)
LEMMA CrashForgets ==
  ASSUME IInv, NEW w \in Workers, Crash(w), req[w].stage = "refunding"
  PROVE  Ledger!Next
<1>1. PICK b \in Bookings : b = req[w].booking
  BY DEF IInv, HasInserted, RequestOK
<1>2. b \in Refunding /\ Refunding' = Refunding \ {b}
  BY <1>1, RefundingEnds DEF Crash
<1>3. UNCHANGED <<status, wants, seatRows, payments>>
  BY DEF Crash
<1>4. \A c \in Bookings : SeatsOf(c)' = SeatsOf(c) /\ (Created(c)' <=> Created(c))
  BY <1>3 DEF SeatsOf, Created
<1>5. Ledger!Forget(b)
  BY <1>2, <1>3, <1>4 DEF Ledger!Forget
<1> QED
  BY <1>5 DEF Ledger!Next

(* An expiry and a cancellation give all the seats back at once.           *)
LEMMA ReleaseGivesBack ==
  ASSUME IInv, NEW b \in Bookings, NEW reason, NEW to, ReleaseSeats(b, reason, to),
         \/ status[b] = "pending" /\ to = "cancelled"
         \/ status[b] = "paid" /\ to = "refund_pending",
         UNCHANGED <<wants, payments, Refunding>>
  PROVE  Ledger!Next
<1>1. TypeOK /\ SeatSoldOnce
  BY DEF IInv
<1>2. status' = [status EXCEPT ![b] = to] /\ seatRows' = RowsWithout(b)
  BY DEF ReleaseSeats
<1>3. SeatsOf(b)' = {} /\ \A c \in Bookings \ {b} : SeatsOf(c)' = SeatsOf(c)
  BY <1>1, <1>2, DropRows
<1>4. \A c \in Bookings : Created(c)' <=> Created(c)
  BY <1>1, <1>2 DEF Created, TypeOK
<1>5. Ledger!Release(b) \/ Ledger!HandBack(b)
  BY <1>2, <1>3, <1>4 DEF Ledger!Release, Ledger!HandBack
<1> QED
  BY <1>5 DEF Ledger!Next

-----------------------------------------------------------------------------

LEMMA CommitIsLedgerStep ==
  ASSUME IInv, IInv', NEW w \in Workers,
         \/ CommitBooking(w) \/ MarkPaid(w)
         \/ ReclaimPaid(w) \/ LoseReclaim(w) \/ OweRefund(w)
         \/ CancelBooking(w) \/ ExpireBooking(w)
         \/ Crash(w) /\ req[w].stage = "refunding"
  PROVE  Ledger!Next
<1>1. CASE CommitBooking(w) \/ MarkPaid(w) \/ ReclaimPaid(w)
  BY <1>1, CommitBookingSells, MarkPaidSettles, ReclaimPaidSettles
<1>2. CASE LoseReclaim(w) \/ OweRefund(w)
  BY <1>2, LoseReclaimMisses, OweRefundOwes
<1>3. CASE Crash(w) /\ req[w].stage = "refunding"
  BY <1>3, CrashForgets
<1>4. CASE CancelBooking(w)
  <2>1. PICK b \in Bookings : b = req[w].booking
    BY <1>4 DEF HasInserted, CancelBooking, IInv, RequestOK
  <2>2. PICK to : to = StatusAfterCancellation(b)
    OBVIOUS
  <2>3. /\ \/ status[b] = "pending" /\ to = "cancelled"
           \/ status[b] = "paid" /\ to = "refund_pending"
        /\ ReleaseSeats(b, "cancelled", to) /\ UNCHANGED <<wants, payments>>
    BY <1>4, <2>1, <2>2 DEF CancelBooking, Cancellable, StatusAfterCancellation
  <2>4. UNCHANGED Refunding
    BY <1>4, SameRefunding DEF IInv
  <2> QED
    BY <2>3, <2>4, ReleaseGivesBack
<1>5. CASE ExpireBooking(w)
  <2>1. UNCHANGED Refunding
    BY <1>5, SameRefunding DEF IInv
  <2> QED
    BY <1>5, <2>1, ReleaseGivesBack DEF ExpireBooking, Expirable
<1> QED
  BY <1>1, <1>2, <1>3, <1>4, <1>5

LEMMA HiddenStep ==
  ASSUME IInv, NEW w \in Workers,
         \/ Arrive(w)
         \/ Crash(w) /\ req[w].stage # "refunding"
         \/ ClaimSeat(w) \/ RefuseBooking(w) \/ (\E outcome \in Outcomes : Charge(w, outcome))
         \/ LockBooking(w) \/ AnswerDuplicate(w) \/ RecordFailure(w) \/ RefusePayment(w)
         \/ BeginReclaim(w) \/ RefuseCancel(w) \/ SkipCandidate(w)
  PROVE  UNCHANGED Ledger!vars
<1>1. TypeOK /\ RequestOK(w)
  BY DEF IInv
<1>2. UNCHANGED <<status, seatRows>>
  BY DEF Arrive, CreateBooking, ConfirmPayment, AskCancel, StartSweep, Crash, ClaimSeat,
    RefuseBooking, Charge, LockBooking, AnswerDuplicate, RecordFailure, RefusePayment,
    BeginReclaim, RefuseCancel, SkipCandidate
<1>0. UNCHANGED Refunding
  BY <1>1, SameRefunding
<1>3. CASE RecordFailure(w)
  <2>1. payments' = payments \cup {PaymentOf(w)} /\ UNCHANGED wants
    BY <1>3 DEF RecordFailure
  <2>2. PaymentOf(w).outcome # "succeeded"
    BY <1>3 DEF RecordFailure, PaymentOf
  <2> QED
    BY <1>2, <1>0, <2>1, <2>2, Stutter
<1>4. CASE ~RecordFailure(w)
  <2>1. UNCHANGED payments
    BY <1>4 DEF Arrive, CreateBooking, ConfirmPayment, AskCancel, StartSweep, Crash, ClaimSeat,
      RefuseBooking, Charge, LockBooking, AnswerDuplicate, RefusePayment, BeginReclaim,
      RefuseCancel, SkipCandidate
  <2>2. \A b \in Bookings : Created(b) => wants'[b] = wants[b]
    <3>1. CASE \E b \in Bookings, S \in SUBSET Seats : CreateBooking(w, b, S)
      BY <1>1, <3>1 DEF CreateBooking, Created, TypeOK
    <3>2. CASE req[w].stage = "claiming" /\ wants' = [wants EXCEPT ![req[w].booking] = {}]
      BY <1>1, <3>2 DEF HasInserted, RequestOK, Created, TypeOK
    <3>3. CASE UNCHANGED wants
      BY <3>3
    <3> QED
      BY <1>4, <3>1, <3>2, <3>3 DEF Arrive, ConfirmPayment, AskCancel, StartSweep, Crash,
        ClaimSeat, RefuseBooking, Charge, LockBooking, AnswerDuplicate, RefusePayment,
        BeginReclaim, RefuseCancel, SkipCandidate
  <2> QED
    BY <1>2, <1>0, <2>1, <2>2, Stutter
<1> QED
  BY <1>3, <1>4

LEMMA StepRefines == IInv /\ IInv' /\ [Next]_vars => [Ledger!Next]_(Ledger!vars)
<1> SUFFICES ASSUME IInv, IInv', [Next]_vars PROVE [Ledger!Next]_(Ledger!vars)
  OBVIOUS
<1>1. CASE \E w \in Workers : Arrive(w) \/ Continue(w) \/ Crash(w)
  BY <1>1, CommitIsLedgerStep, HiddenStep DEF Continue
<1>2. CASE (\E b \in Bookings : BecomeOverdue(b)) \/ CloseWindow \/ UNCHANGED vars
  BY <1>2, Stutter DEF BecomeOverdue, CloseWindow, vars, Refunding
<1> QED
  BY <1>1, <1>2 DEF Next

(* The transactions implement the one-step service: whatever overlaps, the *)
(* effect is that of requests done one after the other.                    *)
THEOREM Implementation == Spec => ImplementsLedger
  BY Invariance, LedgerInit, StepRefines, PTL DEF Spec, ImplementsLedger, Ledger!Spec

=============================================================================
