---------------------------- MODULE BookingCore ----------------------------
(***************************************************************************)
(* Create, pay, cancel and expire a booking, as the Postgres transactions  *)
(* of bookingService, paymentService and reconcileService, run by several  *)
(* requests and sweeps at once and over several server instances.          *)
(*                                                                         *)
(* A worker is one request, or one sweep, in flight.  Its steps are the    *)
(* statements between which another transaction can act: reading outside  *)
(* the transaction, charging, taking the row lock, inserting the payment   *)
(* event, inserting one seat at a time under UNIQUE (show_id, seat_id).    *)
(* What a transaction does between its last wait and its commit is one     *)
(* step, since nobody sees it and nothing in it can wait.                  *)
(***************************************************************************)
EXTENDS Integers, Sequences, FiniteSets

CONSTANTS
    Workers,     \* requests and sweeps in flight at once
    Bookings,    \* booking ids; bigserial, so they are ordered
    Seats,       \* the seats of one show; ids are ordered
    Events,      \* payment_event_id values clients send
    NoEvent,     \* in place of an event id
    MaxSeats,    \* MAX_SEATS_PER_BOOKING
    BatchLimit   \* RECONCILE_BATCH_LIMIT

NoBooking == 0

ASSUME BookingsAssumption == Bookings \subseteq Nat \ {0}
ASSUME SeatsAssumption == Seats \subseteq Nat
ASSUME EventsAssumption == NoEvent \notin Events
ASSUME BoundsAssumption == MaxSeats \in Nat \ {0} /\ BatchLimit \in Nat \ {0}
ASSUME FiniteAssumption == IsFiniteSet(Workers) /\ IsFiniteSet(Bookings) /\ IsFiniteSet(Seats)

VARIABLES
    status,      \* bookings.status, "none" while the row is not committed
    wants,       \* the seat_ids the create request asked for
    seatRows,    \* booking_seats, committed
    archive,     \* released_booking_seats, one batch per release
    payments,    \* payment_events, committed
    overdue,     \* bookings older than PENDING_BOOKING_TTL_SECONDS
    windowOpen,  \* whether the show's cancellation window is still open
    req          \* what each worker is doing

vars == <<status, wants, seatRows, archive, payments, overdue, windowOpen, req>>

-----------------------------------------------------------------------------

Statuses == {"none", "pending", "paid", "cancelled", "refund_pending"}
Outcomes == {"succeeded", "failed"}
Reasons == {"expired", "cancelled"}
Stages == {"idle", "claiming", "charging", "locking", "recording", "reclaiming",
           "refunding", "cancelling", "sweeping"}

SeatRow == [booking : Bookings, seat : Seats]
Batch == [reason : Reasons, seats : SUBSET Seats]
PaymentRow == [event : Events, booking : Bookings, outcome : Outcomes]
Request == [stage : Stages,
            booking : Bookings \cup {NoBooking},
            event : Events \cup {NoEvent},
            outcome : Outcomes,
            claims : SUBSET Seats,      \* seat rows inserted, not yet committed
            todo : SUBSET Bookings]     \* a sweep's remaining candidates

At(stage, b, e, todo) == [stage |-> stage, booking |-> b, event |-> e,
                          outcome |-> "failed", claims |-> {}, todo |-> todo]
Idle == At("idle", NoBooking, NoEvent, {})

TypeOK ==
    /\ status \in [Bookings -> Statuses]
    /\ wants \in [Bookings -> SUBSET Seats]
    /\ seatRows \subseteq SeatRow
    /\ archive \in [Bookings -> Seq(Batch)]
    /\ payments \subseteq PaymentRow
    /\ overdue \subseteq Bookings
    /\ windowOpen \in BOOLEAN
    /\ req \in [Workers -> Request]

Init ==
    /\ status = [b \in Bookings |-> "none"]
    /\ wants = [b \in Bookings |-> {}]
    /\ seatRows = {}
    /\ archive = [b \in Bookings |-> <<>>]
    /\ payments = {}
    /\ overdue = {}
    /\ windowOpen = TRUE
    /\ req = [w \in Workers |-> Idle]

-----------------------------------------------------------------------------
(* The tables.                                                             *)

Created(b) == status[b] # "none"
SeatsOf(b) == {s \in Seats : [booking |-> b, seat |-> s] \in seatRows}
RowsOf(b, S) == {[booking |-> b, seat |-> s] : s \in S}

(* The rows left when a booking's rows are deleted.  The mutant is a       *)
(* release that moves the status and keeps the rows.                       *)
RowsKept(b) == seatRows
RowsWithout(b) == {r \in seatRows : r.booking # b}

(* A committed row for the seat: what UNIQUE (show_id, seat_id) refuses.   *)
SeatTaken(s) == \E r \in seatRows : r.seat = s

(* What the availability query reads as booked.                            *)
ReadsBooked(s) == \E r \in seatRows : r.seat = s /\ status[r.booking] # "cancelled"

EventStored(e) == \E p \in payments : p.event = e

(* What ARCHIVE writes.  The mutant runs it after the seats are deleted.   *)
ArchivedTooLate(b, reason) == [reason |-> reason, seats |-> {}]
BatchOf(b, reason) == [reason |-> reason, seats |-> SeatsOf(b)]

(* The rows RECLAIM_SEATS selects: every batch of the booking, whatever    *)
(* its reason.  A seat of two batches is inserted twice.                   *)
ArchivedSeats(b) == UNION {archive[b][i].seats : i \in DOMAIN archive[b]}
ArchivedTwice(b, s) ==
    \E i, j \in DOMAIN archive[b] : i # j /\ s \in archive[b][i].seats \cap archive[b][j].seats

-----------------------------------------------------------------------------
(* Locks and waits.                                                        *)

(* A payment that has inserted its event and not committed it.             *)
HasInserted(w) == req[w].stage \in {"reclaiming", "refunding"}

(* recordPayment holds the row lock from LOCK_BOOKING to its commit; a     *)
(* cancellation and a sweep take and release it within one step here.      *)
HoldsLock(w, b) == (req[w].stage = "recording" \/ HasInserted(w)) /\ req[w].booking = b
NoLockTaken(b) == TRUE
RowFree(b) == \A w \in Workers : ~HoldsLock(w, b)

(* The seats a transaction has still to insert, in ascending order.        *)
Needed(w) == IF req[w].stage = "claiming" THEN wants[req[w].booking]
                                          ELSE ArchivedSeats(req[w].booking)
Remaining(w) == Needed(w) \ req[w].claims
AnyRemaining(w, s) == s \in Remaining(w)
NextSeat(w, s) == s \in Remaining(w) /\ \A t \in Remaining(w) : s <= t

(* Another transaction has inserted the seat, or the event id, and has not *)
(* ended: the unique index makes this one wait.                            *)
NeverInFlight(w, x) == FALSE
SeatInFlight(w, s) == \E v \in Workers \ {w} : s \in req[v].claims
EventInFlight(w, e) ==
    \E v \in Workers \ {w} : HasInserted(v) /\ req[v].event = e

Waits(w, v) ==
    /\ w # v
    /\ \/ /\ req[w].stage \in {"locking", "cancelling"}
          /\ HoldsLock(v, req[w].booking)
       \/ /\ req[w].stage = "recording"
          /\ HasInserted(v)
          /\ req[v].event = req[w].event
       \/ /\ req[w].stage \in {"claiming", "reclaiming"}
          /\ \E s \in req[v].claims : NextSeat(w, s)

-----------------------------------------------------------------------------
(* A worker's progress.                                                    *)

Goto(w, stage) == req' = [req EXCEPT ![w].stage = stage]
Done(w) == req' = [req EXCEPT ![w] = Idle]

-----------------------------------------------------------------------------
(* createBooking.  The seats read as available when the request looked;    *)
(* the id is new, and the row is not visible before the commit.            *)

CreateBooking(w, b, S) ==
    /\ req[w] = Idle
    /\ status[b] = "none" /\ wants[b] = {}
    /\ \A c \in Bookings : status[c] = "none" /\ wants[c] = {} => b <= c
    /\ S # {} /\ Cardinality(S) <= MaxSeats
    /\ \A s \in S : ~ReadsBooked(s)
    /\ wants' = [wants EXCEPT ![b] = S]
    /\ req' = [req EXCEPT ![w] = At("claiming", b, NoEvent, {})]
    /\ UNCHANGED <<status, seatRows, archive, payments, overdue, windowOpen>>

(* One row of the INSERT INTO booking_seats, of a new booking or of a      *)
(* payment taking a booking's seats back.                                  *)
ClaimSeat(w) ==
    /\ req[w].stage \in {"claiming", "reclaiming"}
    /\ \E s \in Seats :
        /\ NextSeat(w, s)
        /\ ~SeatTaken(s)
        /\ ~SeatInFlight(w, s)
        /\ req[w].stage = "reclaiming" => ~ArchivedTwice(req[w].booking, s)
        /\ req' = [req EXCEPT ![w].claims = @ \cup {s}]
    /\ UNCHANGED <<status, wants, seatRows, archive, payments, overdue, windowOpen>>

(* 23505 on the seat constraint, or a seat the archive lists twice.        *)
SeatRefused(w) ==
    \E s \in Seats :
        /\ NextSeat(w, s)
        /\ \/ SeatTaken(s)
           \/ req[w].stage = "reclaiming" /\ ArchivedTwice(req[w].booking, s)

CommitBooking(w) ==
    /\ req[w].stage = "claiming"
    /\ Remaining(w) = {}
    /\ status' = [status EXCEPT ![req[w].booking] = "pending"]
    /\ seatRows' = seatRows \cup RowsOf(req[w].booking, req[w].claims)
    /\ Done(w)
    /\ UNCHANGED <<wants, archive, payments, overdue, windowOpen>>

(* Rolled back: the caller gets 409 and nothing was written.               *)
RefuseBooking(w) ==
    /\ req[w].stage = "claiming"
    /\ SeatRefused(w)
    /\ wants' = [wants EXCEPT ![req[w].booking] = {}]
    /\ Done(w)
    /\ UNCHANGED <<status, seatRows, archive, payments, overdue, windowOpen>>

-----------------------------------------------------------------------------
(* confirmPayment and recordPayment.                                       *)

(* The opening SELECT and the pre-read of the event id.  An event already  *)
(* stored is answered from its row and changes nothing.                    *)
ConfirmPayment(w, b, e) ==
    /\ req[w] = Idle
    /\ Created(b)
    /\ ~EventStored(e)
    /\ req' = [req EXCEPT ![w] = At("charging", b, e, {})]
    /\ UNCHANGED <<status, wants, seatRows, archive, payments, overdue, windowOpen>>

(* The provider, called outside any transaction.                           *)
Charge(w, outcome) ==
    /\ req[w].stage = "charging"
    /\ req' = [req EXCEPT ![w].stage = "locking", ![w].outcome = outcome]
    /\ UNCHANGED <<status, wants, seatRows, archive, payments, overdue, windowOpen>>

LockBooking(w) ==
    /\ req[w].stage = "locking"
    /\ RowFree(req[w].booking)
    /\ Goto(w, "recording")
    /\ UNCHANGED <<status, wants, seatRows, archive, payments, overdue, windowOpen>>

(* The INSERT into payment_events went in: nobody committed this id, and   *)
(* nobody still running has inserted it.                                   *)
InsertsEvent(w) ==
    /\ req[w].stage = "recording"
    /\ ~EventStored(req[w].event)
    /\ ~EventInFlight(w, req[w].event)

PaymentOf(w) ==
    [event |-> req[w].event, booking |-> req[w].booking, outcome |-> req[w].outcome]

(* Somebody committed this event id since the pre-read: rolled back, and   *)
(* answered from the stored row.                                           *)
AnswerDuplicate(w) ==
    /\ req[w].stage = "recording"
    /\ EventStored(req[w].event)
    /\ Done(w)
    /\ UNCHANGED <<status, wants, seatRows, archive, payments, overdue, windowOpen>>

(* A failed charge is recorded and leaves the booking alone.               *)
RecordFailure(w) ==
    /\ InsertsEvent(w)
    /\ req[w].outcome = "failed"
    /\ payments' = payments \cup {PaymentOf(w)}
    /\ Done(w)
    /\ UNCHANGED <<status, wants, seatRows, archive, overdue, windowOpen>>

MarkPaid(w) ==
    /\ InsertsEvent(w)
    /\ req[w].outcome = "succeeded"
    /\ status[req[w].booking] = "pending"
    /\ status' = [status EXCEPT ![req[w].booking] = "paid"]
    /\ payments' = payments \cup {PaymentOf(w)}
    /\ Done(w)
    /\ UNCHANGED <<wants, seatRows, archive, overdue, windowOpen>>

(* 409 BOOKING_NOT_PENDING, the event rolled back with the rest.           *)
Conflicts(b) == status[b] \in {"paid", "refund_pending"}

RefusePayment(w) ==
    /\ InsertsEvent(w)
    /\ req[w].outcome = "succeeded"
    /\ Conflicts(req[w].booking)
    /\ Done(w)
    /\ UNCHANGED <<status, wants, seatRows, archive, payments, overdue, windowOpen>>

(* The booking was cancelled: try to take its seats back.                  *)
BeginReclaim(w) ==
    /\ InsertsEvent(w)
    /\ req[w].outcome = "succeeded"
    /\ status[req[w].booking] = "cancelled"
    /\ Goto(w, "reclaiming")
    /\ UNCHANGED <<status, wants, seatRows, archive, payments, overdue, windowOpen>>

ReclaimPaid(w) ==
    /\ req[w].stage = "reclaiming"
    /\ Remaining(w) = {} /\ req[w].claims # {}
    /\ status' = [status EXCEPT ![req[w].booking] = "paid"]
    /\ seatRows' = seatRows \cup RowsOf(req[w].booking, req[w].claims)
    /\ payments' = payments \cup {PaymentOf(w)}
    /\ Done(w)
    /\ UNCHANGED <<wants, archive, overdue, windowOpen>>

(* A seat is refused: back to the savepoint, without the seats claimed so  *)
(* far.  The event and the row lock stay.  Also where an empty archive     *)
(* ends.                                                                   *)
LoseReclaim(w) ==
    /\ req[w].stage = "reclaiming"
    /\ SeatRefused(w) \/ Needed(w) = {}
    /\ req' = [req EXCEPT ![w].stage = "refunding", ![w].claims = {}]
    /\ UNCHANGED <<status, wants, seatRows, archive, payments, overdue, windowOpen>>

(* MARK_REFUND_PENDING and the commit, whatever became of the seats since. *)
OweRefund(w) ==
    /\ req[w].stage = "refunding"
    /\ status' = [status EXCEPT ![req[w].booking] = "refund_pending"]
    /\ payments' = payments \cup {PaymentOf(w)}
    /\ Done(w)
    /\ UNCHANGED <<wants, seatRows, archive, overdue, windowOpen>>

-----------------------------------------------------------------------------
(* Giving seats back: archive the rows, delete them, move the status.      *)

ReleaseSeats(b, reason, to) ==
    /\ archive' = [archive EXCEPT ![b] = Append(@, BatchOf(b, reason))]
    /\ seatRows' = RowsWithout(b)
    /\ status' = [status EXCEPT ![b] = to]

(* cancelBooking.  The first read only finds the booking and its owner.    *)
AskCancel(w, b) ==
    /\ req[w] = Idle
    /\ Created(b)
    /\ req' = [req EXCEPT ![w] = At("cancelling", b, NoEvent, {})]
    /\ UNCHANGED <<status, wants, seatRows, archive, payments, overdue, windowOpen>>

(* cancellationRefusal, on the status read under the lock.  The mutant     *)
(* writes a status that CHECK (status IN ...) does not list.               *)
Cancellable(b) == status[b] \in {"pending", "paid"} /\ windowOpen
UnlistedStatus(b) == IF status[b] = "paid" THEN "refunded" ELSE "cancelled"
StatusAfterCancellation(b) == IF status[b] = "paid" THEN "refund_pending" ELSE "cancelled"

CancelBooking(w) ==
    /\ req[w].stage = "cancelling"
    /\ RowFree(req[w].booking)
    /\ Cancellable(req[w].booking)
    /\ ReleaseSeats(req[w].booking, "cancelled", StatusAfterCancellation(req[w].booking))
    /\ Done(w)
    /\ UNCHANGED <<wants, payments, overdue, windowOpen>>

RefuseCancel(w) ==
    /\ req[w].stage = "cancelling"
    /\ RowFree(req[w].booking)
    /\ ~Cancellable(req[w].booking)
    /\ Done(w)
    /\ UNCHANGED <<status, wants, seatRows, archive, payments, overdue, windowOpen>>

-----------------------------------------------------------------------------
(* runSweep.                                                               *)

YoungPending == {b \in Bookings : status[b] = "pending" /\ b \notin overdue}
Candidates == {b \in Bookings : status[b] = "pending" /\ b \in overdue}
FirstCandidates == {b \in Candidates : Cardinality({c \in Candidates : c < b}) < BatchLimit}

StartSweep(w) ==
    /\ req[w] = Idle
    /\ Candidates # {}
    /\ req' = [req EXCEPT ![w] = At("sweeping", NoBooking, NoEvent, FirstCandidates)]
    /\ UNCHANGED <<status, wants, seatRows, archive, payments, overdue, windowOpen>>

(* LOCK_ONE: the row still pending, and nobody's lock on it.               *)
StillUnpaid(b) == status[b] \in {"pending", "paid"} /\ RowFree(b)
Expirable(b) == status[b] = "pending" /\ RowFree(b)

NextCandidate(w, b) == b \in req[w].todo /\ \A c \in req[w].todo : b <= c

(* The mutant is a loop that looks at the same candidate again.            *)
StaysPut(w, b) == req' = req
SweptPast(w, b) ==
    req' = [req EXCEPT ![w] = IF @.todo = {b}
                                THEN Idle
                                ELSE At("sweeping", NoBooking, NoEvent, @.todo \ {b})]

ExpireBooking(w) ==
    /\ req[w].stage = "sweeping"
    /\ \E b \in Bookings :
        /\ NextCandidate(w, b)
        /\ Expirable(b)
        /\ ReleaseSeats(b, "expired", "cancelled")
        /\ SweptPast(w, b)
    /\ UNCHANGED <<wants, payments, overdue, windowOpen>>

(* Not pending any more, or the row locked: by a payment, or for a moment  *)
(* by a cancellation or another sweep about to act on it.                  *)
SkipCandidate(w) ==
    /\ req[w].stage = "sweeping"
    /\ \E b \in Bookings :
        /\ NextCandidate(w, b)
        /\ \/ ~Expirable(b)
           \/ \E v \in Workers \ {w} :
                \/ req[v].stage = "cancelling" /\ req[v].booking = b
                \/ req[v].stage = "sweeping" /\ NextCandidate(v, b)
        /\ SweptPast(w, b)
    /\ UNCHANGED <<status, wants, seatRows, archive, payments, overdue, windowOpen>>

-----------------------------------------------------------------------------
(* The clock, and a worker lost with its connection: Postgres rolls its    *)
(* transaction back, and the caller is not told what became of it.         *)

BecomeOverdue(b) ==
    /\ status[b] = "pending" /\ b \notin overdue
    /\ overdue' = overdue \cup {b}
    /\ UNCHANGED <<status, wants, seatRows, archive, payments, windowOpen, req>>

CloseWindow ==
    /\ windowOpen
    /\ windowOpen' = FALSE
    /\ UNCHANGED <<status, wants, seatRows, archive, payments, overdue, req>>

Crash(w) ==
    /\ req[w] # Idle
    /\ wants' = IF req[w].stage = "claiming"
                  THEN [wants EXCEPT ![req[w].booking] = {}] ELSE wants
    /\ Done(w)
    /\ UNCHANGED <<status, seatRows, archive, payments, overdue, windowOpen>>

-----------------------------------------------------------------------------

Arrive(w) ==
    \/ \E b \in Bookings, S \in SUBSET Seats : CreateBooking(w, b, S)
    \/ \E b \in Bookings, e \in Events : ConfirmPayment(w, b, e)
    \/ \E b \in Bookings : AskCancel(w, b)
    \/ StartSweep(w)

Continue(w) ==
    \/ ClaimSeat(w) \/ CommitBooking(w) \/ RefuseBooking(w)
    \/ \E outcome \in Outcomes : Charge(w, outcome)
    \/ LockBooking(w)
    \/ AnswerDuplicate(w) \/ RecordFailure(w) \/ MarkPaid(w) \/ RefusePayment(w)
    \/ BeginReclaim(w) \/ ReclaimPaid(w) \/ LoseReclaim(w) \/ OweRefund(w)
    \/ CancelBooking(w) \/ RefuseCancel(w)
    \/ ExpireBooking(w) \/ SkipCandidate(w)

Next ==
    \/ \E w \in Workers : Arrive(w) \/ Continue(w) \/ Crash(w)
    \/ \E b \in Bookings : BecomeOverdue(b)
    \/ CloseWindow

Spec == Init /\ [][Next]_vars

(* The interval timer keeps starting sweeps, a sweep does not find its     *)
(* candidate locked every time, Postgres grants a lock or an index entry   *)
(* to its oldest waiter, and a server does not fail forever.               *)
FairSpec ==
    /\ Spec
    /\ \A w \in Workers : SF_vars(Continue(w)) /\ SF_vars(ExpireBooking(w))
    /\ SF_vars(\E w \in Workers : StartSweep(w))
    /\ <>[][\A w \in Workers : ~Crash(w)]_vars

-----------------------------------------------------------------------------
(* Safety.                                                                 *)

(* No seat of the show is ever sold to two bookings, whatever requests,    *)
(* late payments, sweeps and crashes overlap (Phase 2.4's guarantee).      *)
SeatSoldOnce == \A r1, r2 \in seatRows : r1.seat = r2.seat => r1 = r2

(* A booking has its seats whole or not at all: a pending or paid one owns *)
(* exactly the seats its request asked for, also after an expiry and a     *)
(* late payment, and a cancelled or refunded one owns none, so that no     *)
(* seat reads as available while a row still blocks it.                    *)
SeatsFollowStatus ==
    \A b \in Bookings :
        /\ status[b] # "none" => wants[b] # {}
        /\ SeatsOf(b) = IF status[b] \in {"pending", "paid"} THEN wants[b] ELSE {}

(* Money and status agree: a booking is paid or owed a refund exactly when *)
(* one successful payment is on record for it, and never for two, however  *)
(* many payments, cancellations and sweeps of it race.                     *)
MoneyFollowsStatus ==
    \A b \in Bookings :
        LET taken == {p \in payments : p.booking = b /\ p.outcome = "succeeded"} IN
        /\ status[b] \in {"paid", "refund_pending"} <=> taken # {}
        /\ \A p, q \in taken : p = q

(* A payment event is on record once, for one booking with one outcome,    *)
(* even when it is sent for two bookings at the same moment.               *)
EventRecordedOnce == \A p, q \in payments : p.event = q.event => p = q

(* What RECLAIM_SEATS relies on: a cancelled booking's archive holds every *)
(* seat it was sold and holds it once, so that a late payment can take all *)
(* of them back and cannot collide with itself.                            *)
CancelledIsReclaimable ==
    \A b \in Bookings :
        status[b] = "cancelled" =>
            /\ ArchivedSeats(b) = wants[b]
            /\ \A s \in Seats : ~ArchivedTwice(b, s)

(* No set of transactions in which each waits for another of the set: the  *)
(* deadlock the ascending inserts are there to rule out (40P01).           *)
NoWaitCycle ==
    ~\E W \in SUBSET Workers : W # {} /\ \A w \in W : \E v \in W : Waits(w, v)

-----------------------------------------------------------------------------
(* Why the invariants above hold: what each transaction in flight may rely *)
(* on, and what no two of them share.                                      *)

Paying == {"charging", "locking", "recording", "reclaiming", "refunding"}

RequestOK(w) ==
    LET r == req[w] IN
    /\ r.stage = "idle" => r = Idle
    /\ r.stage \notin {"idle", "sweeping"} => r.booking \in Bookings
    /\ r.stage \in Paying => r.event \in Events
    /\ r.stage \in Paying \cup {"cancelling"} => Created(r.booking)
    /\ r.stage = "claiming" => ~Created(r.booking) /\ wants[r.booking] # {}
    /\ HasInserted(w) =>
         /\ status[r.booking] = "cancelled"
         /\ r.outcome = "succeeded"
         /\ ~EventStored(r.event)
    /\ r.stage \notin {"claiming", "reclaiming"} => r.claims = {}
    /\ \A s \in r.claims :
         s \in Needed(w) /\ ~SeatTaken(s) /\ \A t \in Remaining(w) : s < t

PairOK(w, v) ==
    w # v =>
        /\ req[w].claims \cap req[v].claims = {}
        /\ \A b \in Bookings : ~(HoldsLock(w, b) /\ HoldsLock(v, b))
        /\ req[w].stage = "claiming" /\ req[v].stage = "claiming"
             => req[w].booking # req[v].booking
        /\ HasInserted(w) /\ HasInserted(v)
             => req[w].event # req[v].event

NothingReleased ==
    \A b \in Bookings : status[b] \in {"none", "pending"} => archive[b] = <<>>

(* A booking row lock, a seat's index entry and an event id's index entry  *)
(* each belong to one transaction at most, and what a transaction read     *)
(* under its lock is still true when it commits.                           *)
IInv ==
    /\ TypeOK
    /\ SeatSoldOnce /\ SeatsFollowStatus /\ MoneyFollowsStatus /\ EventRecordedOnce
    /\ CancelledIsReclaimable /\ NothingReleased
    /\ \A w \in Workers : RequestOK(w)
    /\ \A w, v \in Workers : PairOK(w, v)

-----------------------------------------------------------------------------
(* Implementation of the abstract service.                                 *)

(* The bookings a late payment in flight could not take the seats back for. *)
Refunding ==
    {b \in Bookings : \E w \in Workers : req[w].stage = "refunding" /\ req[w].booking = b}

Ledger == INSTANCE SeatLedger WITH
    asked <- [b \in Bookings |-> IF Created(b) THEN wants[b] ELSE {}],
    owned <- [b \in Bookings |-> SeatsOf(b)],
    settled <- {b \in Bookings :
                  \E p \in payments : p.booking = b /\ p.outcome = "succeeded"},
    missed <- Refunding

(* Every commit, and every late payment that finds a seat refused, is one  *)
(* step of the one-step service, and everything else is invisible: in      *)
(* particular a late payment gets its seats back only when all of them are *)
(* free at the moment it commits, a refund is owed only to one that found  *)
(* a seat sold to another booking, and the sweep never takes the seats of  *)
(* a booking that was paid.                                                *)
ImplementsLedger == Ledger!Spec

-----------------------------------------------------------------------------
(* Liveness, and what the repository's own text says.                      *)

(* A booking nobody pays for is not kept for ever.                         *)
OverdueIsSettled ==
    \A b \in Bookings : status[b] = "pending" /\ b \in overdue ~> status[b] # "pending"

(* Every request and every sweep ends.                                     *)
EveryRequestEnds == \A w \in Workers : req[w] # Idle ~> req[w] = Idle

(* "'cancelled' and 'refund_pending' are already terminal": the booking    *)
(* its owner cancelled stays cancelled.  Violated by a payment that comes  *)
(* back late.                                                              *)
OwnerCancellationStands ==
    [][\A b \in Bookings :
        status[b] = "cancelled" /\ (\E i \in DOMAIN archive[b] : archive[b][i].reason = "cancelled")
            => status'[b] = "cancelled"]_vars

(* "zero side effects: no charge": a request never charges an event id     *)
(* that is stored, or that another request in flight was charged for.      *)
ReplayChargesNothing ==
    [][\A w \in Workers :
        req[w].stage = "charging" /\ req'[w].stage = "locking" /\ req'[w].outcome = "succeeded"
            => /\ ~EventStored(req[w].event)
               /\ ~\E v \in Workers \ {w} :
                    req[v].event = req[w].event /\ req[v].outcome = "succeeded"]_vars

=============================================================================
