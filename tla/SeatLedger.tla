----------------------------- MODULE SeatLedger -----------------------------
(***************************************************************************)
(* What the booking service promises, with every request done in one step. *)
(* A seat has at most one owner, a booking owns all the seats it was sold  *)
(* or none of them, and a payment is recorded once.  BookingCore is the    *)
(* same service with its transactions, locks and crashes, and is shown to  *)
(* implement this module.                                                  *)
(***************************************************************************)

CONSTANTS
    Bookings,   \* booking ids
    Seats       \* seats of a show

VARIABLES
    status,     \* bookings.status, "none" before the booking exists
    asked,      \* the seats a booking was sold when it was created
    owned,      \* the seats it owns now
    settled,    \* the bookings a successful payment is on record for
    missed      \* those whose payment came late and found a seat sold

vars == <<status, asked, owned, settled, missed>>

Statuses == {"none", "pending", "paid", "cancelled", "refund_pending"}

Sold == UNION {owned[b] : b \in Bookings}

Init ==
    /\ status = [b \in Bookings |-> "none"]
    /\ asked = [b \in Bookings |-> {}]
    /\ owned = [b \in Bookings |-> {}]
    /\ settled = {}
    /\ missed = {}

(* A booking takes all of its seats at once, and only free ones.           *)
Sell(b, S) ==
    /\ status[b] = "none"
    /\ S # {}
    /\ S \cap Sold = {}
    /\ status' = [status EXCEPT ![b] = "pending"]
    /\ asked' = [asked EXCEPT ![b] = S]
    /\ owned' = [owned EXCEPT ![b] = S]
    /\ UNCHANGED <<settled, missed>>

(* A payment in time.                                                      *)
Settle(b) ==
    /\ status[b] = "pending"
    /\ status' = [status EXCEPT ![b] = "paid"]
    /\ settled' = settled \cup {b}
    /\ UNCHANGED <<asked, owned, missed>>

(* A payment for a booking that gave its seats back is honoured when every *)
(* one of them is free.                                                    *)
SettleLate(b) ==
    /\ status[b] = "cancelled" /\ b \notin missed
    /\ asked[b] \cap Sold = {}
    /\ status' = [status EXCEPT ![b] = "paid"]
    /\ owned' = [owned EXCEPT ![b] = asked[b]]
    /\ settled' = settled \cup {b}
    /\ UNCHANGED <<asked, missed>>

(* It finds one of them sold: it is not honoured any more, also when the   *)
(* seat becomes free again,                                                *)
Miss(b) ==
    /\ status[b] = "cancelled" /\ b \notin missed
    /\ asked[b] \cap Sold # {}
    /\ missed' = missed \cup {b}
    /\ UNCHANGED <<status, asked, owned, settled>>

(* but owed back,                                                          *)
OweRefund(b) ==
    /\ b \in missed
    /\ missed' = missed \ {b}
    /\ status' = [status EXCEPT ![b] = "refund_pending"]
    /\ settled' = settled \cup {b}
    /\ UNCHANGED <<asked, owned>>

(* unless it is lost before it is on record.                               *)
Forget(b) ==
    /\ b \in missed
    /\ missed' = missed \ {b}
    /\ UNCHANGED <<status, asked, owned, settled>>

(* An unpaid booking gives its seats back, by expiry or by its owner.      *)
Release(b) ==
    /\ status[b] = "pending"
    /\ status' = [status EXCEPT ![b] = "cancelled"]
    /\ owned' = [owned EXCEPT ![b] = {}]
    /\ UNCHANGED <<asked, settled, missed>>

(* The owner of a paid booking hands it back and is owed a refund.         *)
HandBack(b) ==
    /\ status[b] = "paid"
    /\ status' = [status EXCEPT ![b] = "refund_pending"]
    /\ owned' = [owned EXCEPT ![b] = {}]
    /\ UNCHANGED <<asked, settled, missed>>

Next ==
    \E b \in Bookings :
        \/ \E S \in SUBSET Seats : Sell(b, S)
        \/ Settle(b)
        \/ SettleLate(b) \/ Miss(b) \/ OweRefund(b) \/ Forget(b)
        \/ Release(b)
        \/ HandBack(b)

Spec == Init /\ [][Next]_vars

=============================================================================
