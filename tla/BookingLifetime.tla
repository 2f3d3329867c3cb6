-------------------------- MODULE BookingLifetime --------------------------
(***************************************************************************)
(* One seat of one show: its hold in Redis (holdService.js) and its        *)
(* pending booking in Postgres (bookingService.js, reconcileService.js),   *)
(* on one clock.  SeatHolds and BookingCore treat each alone and let the   *)
(* time it takes be any; here the two lengths of time meet.                *)
(*                                                                         *)
(* A booking that left 'pending' never comes back to it (BookingCore), so  *)
(* only the last booking of the seat is kept, and of a settled one only    *)
(* whether it still has the seat.                                          *)
(***************************************************************************)
EXTENDS Integers

CONSTANTS Customer, NoCustomer,
          HoldTtl,       \* HOLD_TTL_SECONDS
          PendingTtl,    \* PENDING_BOOKING_TTL_SECONDS
          LastSecond     \* bound: the clock

\* The server refuses to start unless a booking outlasts a hold.
ASSUME LifetimeAssumption ==
  /\ NoCustomer \notin Customer
  /\ HoldTtl \in Nat \ {0} /\ PendingTtl \in Nat /\ LastSecond \in Nat
  /\ PendingTtl > HoldTtl

VARIABLES
  moment,
  holder, runsOut,   \* the seat's key: its value, and when it expires
  takenAt,           \* history: when the hold was last taken or renewed
  booking            \* candidate: a sweep has chosen it

seatVars == <<moment, holder, runsOut, takenAt, booking>>

NoBooking == [by |-> NoCustomer, state |-> "none", createdAt |-> 0, candidate |-> FALSE]

LifetimeInit ==
  /\ moment = 0 /\ holder = NoCustomer /\ runsOut = 0 /\ takenAt = 0
  /\ booking = NoBooking

\* ACQUIRE_SCRIPT gives a hold taken and a hold renewed the same whole
\* lifetime.  It does not look at the bookings.
OnTop == (IF holder = NoCustomer THEN moment ELSE runsOut) + HoldTtl
NewExpiry == moment + HoldTtl

TakeHold(u) ==
  /\ holder \in {NoCustomer, u}
  /\ holder' = u /\ runsOut' = NewExpiry /\ takenAt' = moment
  /\ UNCHANGED <<moment, booking>>

\* RELEASE_SCRIPT: a rollback, the DELETE route, the release after a payment.
GiveUpHold ==
  /\ holder # NoCustomer
  /\ holder' = NoCustomer
  /\ UNCHANGED <<moment, runsOut, takenAt, booking>>

\* The transaction of a creation starts; created_at is when it did.  Whose
\* hold the availability read saw, if Redis answered, may have changed since.
StartBooking(u) ==
  /\ booking.state = "none"
  /\ booking' = [by |-> u, state |-> "open", createdAt |-> moment, candidate |-> FALSE]
  /\ UNCHANGED <<moment, holder, runsOut, takenAt>>

EndBooking ==
  /\ booking.state = "open"
  /\ \/ booking' = [booking EXCEPT !.state = "pending"]
     \/ booking' = NoBooking      \* a refusal, or a lost connection
  /\ UNCHANGED <<moment, holder, runsOut, takenAt>>

\* CANDIDATES: the comparison is made here, not when the row is locked.
TooOld == booking.createdAt + PendingTtl < moment

Choose ==
  /\ booking.state = "pending" /\ TooOld
  /\ booking' = [booking EXCEPT !.candidate = TRUE]
  /\ UNCHANGED <<moment, holder, runsOut, takenAt>>

MayExpire == booking.state = "pending" /\ booking.candidate

\* LOCK_ONE to commit.  A candidate that is not pending any more is left.
Expire ==
  /\ MayExpire
  /\ booking' = NoBooking
  /\ UNCHANGED <<moment, holder, runsOut, takenAt>>

\* MARK_PAID.  The booking's holds are released afterwards (GiveUpHold),
\* if that succeeds.
Paid == [booking EXCEPT !.state = "paid"]

Pay ==
  /\ booking.state = "pending"
  /\ booking' = Paid
  /\ UNCHANGED <<moment, holder, runsOut, takenAt>>

CancelByOwner ==
  /\ booking.state \in {"pending", "paid"}
  /\ booking' = NoBooking
  /\ UNCHANGED <<moment, holder, runsOut, takenAt>>

Second ==
  /\ moment < LastSecond
  /\ moment' = moment + 1
  /\ holder' = IF runsOut <= moment + 1 THEN NoCustomer ELSE holder
  /\ UNCHANGED <<runsOut, takenAt, booking>>

LifetimeNext ==
  \/ \E u \in Customer : TakeHold(u) \/ StartBooking(u)
  \/ GiveUpHold \/ EndBooking \/ Choose \/ Expire \/ Pay \/ CancelByOwner \/ Second

LifetimeSpec == LifetimeInit /\ [][LifetimeNext]_seatVars

---------------------------------------------------------------------------
(* Properties.                                                             *)

\* The key and the booking are what Redis and Postgres keep.
LifetimeTypeOK ==
  /\ moment \in Nat /\ runsOut \in Nat /\ takenAt \in Nat
  /\ holder \in Customer \cup {NoCustomer}
  /\ booking \in [by : Customer \cup {NoCustomer}, state : {"none", "open", "pending", "paid"},
                  createdAt : Nat, candidate : BOOLEAN]

\* "A booking must not be able to expire while its own hold is still alive"
\* (reconcileService.js), as far as the check at start goes: a booking that a
\* sweep may expire has no live hold of its own, unless that hold was taken or
\* renewed after the booking was created, and by more than the time the booking
\* outlasts a hold.
HoldsOfItsTimeAreOver ==
  (MayExpire /\ holder = booking.by) => takenAt > booking.createdAt + (PendingTtl - HoldTtl)
=============================================================================
