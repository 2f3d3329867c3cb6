------------------------- MODULE SeatMapPageProofs -------------------------
(***************************************************************************)
(* Theorems of SeatMapPage, for any seats, suggestions, limit and number   *)
(* of calls.                                                               *)
(***************************************************************************)
EXTENDS SeatMapPage, FiniteSetTheorems, TLAPS

Operations == {"hold", "release", "ttl", "book", "pay", "remainder"}
Ghosts     == {"left", "gone"}
Senders    == {"click", "handoff", "restore", "resync", "all", "page"} \cup Ghosts
Stages     == {"sent", "undoing", "ok", "refused", "taken", "noSession", "paid", "failed", "notPending", "lost"}
Request == [id : Nat, op : Operations, by : Senders, seats : SUBSET Seat, b : Nat, event : Nat,
            view : [Seat -> Statuses], st : Stages, left : SUBSET Seat, got : SUBSET Seat,
            ref : SUBSET Seat]
Purchase == [seats : SUBSET Seat, status : {"none", "pending", "paid", "cancelled"}]

\* What a call asks for.  A click is about one seat; a payment is of a
\* booking, under the event that the booking's own call gave it.
Meant(r) ==
  /\ r.op = "hold" => r.seats # {} /\ r.left \subseteq r.seats /\ r.by \in {"click", "handoff"} \cup Ghosts
  /\ r.op = "release" => r.by \in {"click", "all"} \cup Ghosts
  /\ r.by = "restore" => r.op = "ttl"
  /\ r.by = "handoff" => r.op = "hold"
  /\ r.by = "click" => r.op \in {"hold", "release"} /\ \E s \in Seat : r.seats = {s}
  /\ r.op = "book" => r.b = r.id
  /\ r.op = "pay" => r.b # 0 /\ r.event = r.b

CountsOK == calls \in 0..MaxCalls /\ upsets \in 0..MaxUpsets
RoomOK == /\ owner \in [Seat -> {Nobody, Me, Other}] /\ sold \in [Seat -> 0..Elsewhere]
          /\ bought \in [1..MaxCalls -> Purchase] /\ session \in BOOLEAN
ShownOK == /\ seen \in [Seat -> Statuses] /\ load \in [st : {"none", "sent", "read"}, view : [Seat -> Statuses]]
           /\ hasData \in BOOLEAN /\ error \in BOOLEAN
           /\ place \in {"map", "login"} /\ user \in BOOLEAN /\ restored \in BOOLEAN
SeatsOK == /\ handoff \subseteq Seat /\ chosen \subseteq Seat /\ pending \subseteq Seat
           /\ heldIds \subseteq Seat /\ heldRef \subseteq Seat /\ stored \subseteq Seat
           /\ parted \subseteq Seat /\ counting \in BOOLEAN
TicketsOK == seq \in [Seat -> 0..calls]
CheckoutOK == /\ booking \in [b : 0..calls, status : {"none", "pending", "paid"}] /\ event \in 0..calls
              /\ busy \in BOOLEAN /\ paying \in BOOLEAN
              /\ booking.b # 0 => event = booking.b
CallsOK == \A r \in reqs : /\ r \in Request /\ Meant(r)
                           /\ r.id \in 1..calls /\ r.b \in 0..calls /\ r.event \in 0..calls
DecidedOK == \A d \in decided : /\ d.b \in 1..MaxCalls /\ d.event = d.b
                                /\ d.outcome \in {"paid", "failed"}

Types == CountsOK /\ RoomOK /\ ShownOK /\ SeatsOK /\ TicketsOK /\ CheckoutOK /\ CallsOK /\ DecidedOK

\* A booking gives back the other holds under its own number.
Kind(r) == IF r.op = "remainder" THEN "book" ELSE r.op

\* Numbers tell what was asked, and are handed out in order: the newest click
\* on a seat is newer than every call of a hold of it, and than the question
\* about the last visit's holds.
Numbered ==
  /\ \A r, q \in reqs : r.id = q.id => Kind(r) = Kind(q)
  /\ \A r \in reqs, s \in Seat :
       /\ r.by = "restore" => seq[s] = 0 \/ r.id < seq[s]
       /\ r.op = "hold" /\ s \in r.seats => seq[s] = 0 \/ r.id <= seq[s]
       /\ r.by = "click" /\ s \in r.seats => r.id <= seq[s]

\* A page that has not asked for the last visit's holds yet has made no call.
Mounted ==
  /\ \A r \in reqs : r.by = "gone" => Open(r)
  /\ ~restored => /\ \A r \in reqs : r.by \in Ghosts
                  /\ \A s \in Seat : seq[s] = 0
                  /\ pending = {} /\ heldIds = {} /\ heldRef = {} /\ booking.b = 0
  /\ restored => handoff = {}
  /\ place = "login" => ~restored /\ chosen = {}

\* Without holds there is no countdown.
Counted == counting => heldIds # {}

Excused(s) == owner[s] = Me \/ s \in parted

\* A seat whose newest click gives it back is not selected.
LetGo ==
  user => \A r \in reqs : r.op = "release" /\ r.by = "click" /\ r.st = "sent" =>
            \A s \in r.seats : seq[s] = r.id => s \notin chosen \/ s \in parted

\* A seat whose newest click asks for it, and waits, is selected: a refusal
\* takes it out of the selection again.
Asked ==
  user => \A r \in reqs : r.op = "hold" /\ r.by = "click" =>
            \A s \in r.seats : /\ r.view[s] = "available"
                               /\ seq[s] = r.id /\ s \in pending => s \in chosen \/ Excused(s)

\* A seat that the page has been told it holds, by the answers it has had or
\* will have, and that was not clicked.
Granted(r) ==
  {s \in r.seats : r.op = "hold" /\ (r.st = "ok" \/ (r.st = "sent" /\ s \notin r.left))}
Confirmed(s) ==
  \/ s \in heldIds \cup heldRef
  \/ \E r \in reqs : \/ r.op = "ttl" /\ r.st = "ok" /\ r.by \notin Ghosts /\ s \in r.got
                     \/ r.by = "handoff" /\ s \in Granted(r)
ConfirmedIsHeld == \A s \in Seat : seq[s] = 0 /\ Confirmed(s) => Excused(s)

\* The hold of a selected seat may still be on its way, and its refusal too.
Asking(s) == \E r \in reqs : /\ r.op = "hold" /\ s \in r.seats \ Granted(r)
                             /\ r.by = "handoff" \/ (r.by = "click" /\ r.id = seq[s])
Backed == user /\ session => \A s \in chosen : Excused(s) \/ Asking(s)

IInv == /\ Types /\ PendingIsAwaited /\ Counted /\ BookingDecidedOnce
        /\ Numbered /\ Mounted /\ LetGo /\ Asked /\ ConfirmedIsHeld /\ Backed
-----------------------------------------------------------------------------
(* Operators and calls.                                                    *)

LEMMA Bounds == /\ MaxSeats \in Nat /\ MaxCalls \in Nat /\ MaxUpsets \in Nat /\ IsFiniteSet(Seat)
                /\ Together \subseteq SUBSET Seat
  BY PageAssumption

\* Toggling adds and drops seats of T only.
LEMMA TogglesWithin ==
  ASSUME NEW C, NEW T, NEW view, NEW X \in Toggles(C, T, view)
  PROVE  X \subseteq C \cup T
  BY DEF Toggles

LEMMA SelectedWithin == Selected \subseteq chosen
  BY DEF Selected

LEMMA StatusesOK ==
  /\ \A s \in Seat : MyStatus(s) \in Statuses /\ RoomStatus(s) \in Statuses
  /\ Blank \in [Seat -> Statuses]
  BY DEF MyStatus, RoomStatus, Blank, Statuses

LEMMA Given ==
  ASSUME NEW A, NEW f \in [Seat -> A], NEW x \in A, NEW S
  PROVE  Give(f, S, x) \in [Seat -> A]
  BY DEF Give

Asks(c, id, op, by, seats, b) ==
  /\ c \in Request
  /\ c.id = id /\ c.op = op /\ c.by = by /\ c.seats = seats /\ c.b = b
  /\ c.event = IF op = "pay" THEN event ELSE 0
  /\ op = "hold" /\ by = "click" => c.view = seen
  /\ c.left = IF op = "hold" THEN seats ELSE {}
  /\ c.st = "sent" /\ c.got = {}

LEMMA CallMakes ==
  ASSUME Types, NEW id \in Nat, NEW op \in Operations, NEW by \in Senders,
         NEW seats \in SUBSET Seat, NEW b \in Nat
  PROVE  Asks(Call(id, op, by, seats, b), id, op, by, seats, b)
<1> DEFINE ev == IF op = "pay" THEN event ELSE NoEvent
           vw == IF (op = "hold" /\ by = "click") \/ by = "restore" THEN seen ELSE Blank
           lf == IF op = "hold" THEN seats ELSE {}
<1>1. ev \in Nat /\ vw \in [Seat -> Statuses] /\ lf \in SUBSET Seat
  BY StatusesOK DEF Types, CheckoutOK, CountsOK, ShownOK, NoEvent
<1>2. Call(id, op, by, seats, b) =
        [id |-> id, op |-> op, by |-> by, seats |-> seats, b |-> b, event |-> ev,
         view |-> vw, st |-> "sent", left |-> lf, got |-> {}, ref |-> {}]
  BY DEF Call
<1>3. ev = (IF op = "pay" THEN event ELSE 0) /\ lf = IF op = "hold" THEN seats ELSE {}
  BY DEF NoEvent
<1>4. op = "hold" /\ by = "click" => vw = seen
  OBVIOUS
<1> HIDE DEF ev, vw, lf
<1>5. [id |-> id, op |-> op, by |-> by, seats |-> seats, b |-> b, event |-> ev,
         view |-> vw, st |-> "sent", left |-> lf, got |-> {}, ref |-> {}] \in Request
  BY <1>1 DEF Request, Stages
<1> QED
  BY <1>2, <1>3, <1>4, <1>5 DEF Asks

\* q is call r, with by as its sender.
SameCall(q, r, by) ==
  /\ q \in Request
  /\ q.id = r.id /\ q.op = r.op /\ q.by = by /\ q.seats = r.seats
  /\ q.b = r.b /\ q.event = r.event /\ q.left \subseteq r.left
  /\ by = "click" => q.view = r.view

\* A call is answered, goes on to its next hold, starts to take its holds
\* back, or takes one back.
AnswerOf(r, st, got) == [r EXCEPT !.st = st, !.left = {}, !.got = got]
WithTaken(r, left, got) == [r EXCEPT !.left = left, !.got = got]

LEMMA Told ==
  ASSUME NEW r \in Request, NEW st \in Stages, NEW got \in SUBSET Seat
  PROVE  LET q == AnswerOf(r, st, got) IN SameCall(q, r, r.by) /\ q.st = st /\ q.got = got /\ q.left = {}
<1> DEFINE q == AnswerOf(r, st, got)
<1>1. q \in Request /\ q.st = st /\ q.got = got /\ q.left = {}
  BY DEF Request, AnswerOf
<1>2. q.id = r.id /\ q.op = r.op /\ q.by = r.by /\ q.seats = r.seats
  BY DEF Request, AnswerOf
<1>3. q.b = r.b /\ q.event = r.event /\ q.view = r.view
  BY DEF Request, AnswerOf
<1> HIDE DEF q
<1>4. SameCall(q, r, r.by) /\ q.st = st /\ q.got = got /\ q.left = {}
  BY <1>1, <1>2, <1>3 DEF SameCall
<1> QED
  BY <1>4 DEF q

LEMMA Taking ==
  ASSUME NEW r \in Request, NEW left \in SUBSET r.left, NEW got \in SUBSET Seat
  PROVE  LET q == WithTaken(r, left, got) IN SameCall(q, r, r.by) /\ q.st = r.st /\ q.left = left
<1> DEFINE q == WithTaken(r, left, got)
<1>1. q \in Request /\ q.st = r.st /\ q.left = left
  BY DEF Request, WithTaken
<1>2. q.id = r.id /\ q.op = r.op /\ q.by = r.by /\ q.seats = r.seats
  BY DEF Request, WithTaken
<1>3. q.b = r.b /\ q.event = r.event /\ q.view = r.view
  BY DEF Request, WithTaken
<1> HIDE DEF q
<1>4. SameCall(q, r, r.by) /\ q.st = r.st /\ q.left = left
  BY <1>1, <1>2, <1>3 DEF SameCall
<1> QED
  BY <1>4 DEF q

LEMMA Undoing ==
  ASSUME NEW r \in Request, NEW got \in SUBSET Seat
  PROVE  /\ LET q == [r EXCEPT !.st = "undoing"] IN SameCall(q, r, r.by) /\ q.st = "undoing"
         /\ LET q == [r EXCEPT !.got = got] IN SameCall(q, r, r.by) /\ q.st = r.st
<1>1. ASSUME NEW q, q = [r EXCEPT !.st = "undoing"] PROVE SameCall(q, r, r.by) /\ q.st = "undoing"
  <2>1. q \in Request /\ q.st = "undoing" /\ q.left = r.left
    BY <1>1 DEF Request, Stages
  <2>2. q.id = r.id /\ q.op = r.op /\ q.by = r.by /\ q.seats = r.seats
    BY <1>1 DEF Request
  <2>3. q.b = r.b /\ q.event = r.event /\ q.view = r.view
    BY <1>1 DEF Request
  <2> QED
    BY <2>1, <2>2, <2>3 DEF SameCall
<1>2. ASSUME NEW q, q = [r EXCEPT !.got = got] PROVE SameCall(q, r, r.by) /\ q.st = r.st
  <2>1. q \in Request /\ q.st = r.st /\ q.left = r.left
    BY <1>2 DEF Request
  <2>2. q.id = r.id /\ q.op = r.op /\ q.by = r.by /\ q.seats = r.seats
    BY <1>2 DEF Request
  <2>3. q.b = r.b /\ q.event = r.event /\ q.view = r.view
    BY <1>2 DEF Request
  <2> QED
    BY <2>1, <2>2, <2>3 DEF SameCall
<1> QED
  BY <1>1, <1>2

LEMMA Orphaned ==
  ASSUME NEW r \in Request, NEW by \in Ghosts, NEW held \in SUBSET Seat
  PROVE  SameCall(Orphan(r, by, held), r, by) /\ Orphan(r, by, held).st = r.st
<1> DEFINE q == [r EXCEPT !.by = by, !.view = Blank, !.ref = held]
<1>1. q \in Request /\ q.st = r.st /\ q.left = r.left
  BY StatusesOK DEF Request, Senders
<1>2. q.id = r.id /\ q.op = r.op /\ q.by = by /\ q.seats = r.seats
  BY DEF Request
<1>3. q.b = r.b /\ q.event = r.event
  BY DEF Request
<1>4. Orphan(r, by, held) = q /\ by # "click"
  BY DEF Orphan, Ghosts
<1> HIDE DEF q
<1> QED
  BY <1>1, <1>2, <1>3, <1>4 DEF SameCall
-----------------------------------------------------------------------------
(* What the steps do to the calls.                                         *)

\* q is a call that this step makes.
Fresh(q) ==
  /\ q \in Request /\ Meant(q) /\ q.id \in 1..calls' /\ calls < q.id
  /\ q.b \in 0..calls' /\ q.event \in 0..calls' /\ q.st = "sent"
  /\ q.left = IF q.op = "hold" THEN q.seats ELSE {}
  /\ q.by # "left" /\ (q.by = "gone" => q.op = "release")

\* q comes of call r: it is r in another stage, or without its page, or gives
\* back what its booking did not need.
ComesOf(q, r) ==
  /\ q \in Request /\ Meant(q)
  /\ q.id = r.id /\ Kind(q) = Kind(r) /\ q.b \in {r.b, 0} /\ q.event \in {r.event, 0}
  /\ q.op = "hold" => q.seats = r.seats
  /\ q.by \in Ghosts \/ (q.by = r.by /\ q.op = r.op /\ q.seats = r.seats)

LEMMA SameComes ==
  ASSUME Types, NEW r \in reqs, NEW by \in {r.by} \cup Ghosts, NEW q, SameCall(q, r, by)
  PROVE  ComesOf(q, r)
<1>1. Meant(r) /\ r \in Request
  BY DEF Types, CallsOK
<1>2. Meant(q)
  BY <1>1 DEF SameCall, Meant, Ghosts
<1> QED
  BY <1>2 DEF SameCall, ComesOf, Kind

Serving(r) == \/ RefuseHold(r) \/ ServeRelease(r) \/ ServeTtl(r) \/ ServeBook(r)
              \/ ServeRemainder(r) \/ ServePay(r)
              \/ \E s \in Seat : TakeSeat(r, s) \/ UndoSeat(r, s)
Answering(r) == HoldAnswer(r) \/ ReleaseAnswer(r) \/ TtlAnswer(r) \/ BookAnswer(r) \/ PayAnswer(r)

\* A call that is served, or lost, goes on as c.
ServedAs(r, c) ==
  /\ SameCall(c, r, r.by)
  /\ r.by = "gone" => Open(c)
  /\ c.st = "sent" => r.op = "hold"
  /\ r.op = "hold" /\ c.st \in {"sent", "ok"} =>
       /\ r.st = "sent" /\ (c.st = "ok" => c.left = {})
       /\ \E t \in r.left : c.left = r.left \ {t} /\ owner' = [owner EXCEPT ![t] = Me]
  /\ c.st = "ok" /\ r.op = "ttl" => UNCHANGED <<owner, parted>> /\ c.got = {s \in r.seats : owner[s] = Me}

\* ... or leaves c behind at the server.
LeavesBehind(r, c) == c.by = "gone" /\ Open(c) /\ ComesOf(c, r)

GoesOn(r, N, O) ==
  /\ reqs' = (reqs \ {r}) \cup N \cup O
  /\ \A c \in N : ServedAs(r, c)
  /\ \A c \in O : LeavesBehind(r, c)
  /\ r.by = "gone" \/ r.op = "remainder" \/ \E c \in N : TRUE

LEMMA Answered1 ==
  ASSUME NEW r \in Request, NEW st \in Stages, st \notin {"sent", "undoing"}, NEW got \in SUBSET Seat,
         r.op = "hold" /\ st = "ok" =>
           r.st = "sent" /\ \E t \in Seat : r.left = {t} /\ owner' = [owner EXCEPT ![t] = Me],
         st = "ok" /\ r.op = "ttl" => UNCHANGED <<owner, parted>> /\ got = {s \in r.seats : owner[s] = Me},
         NEW c \in Reply(r, st, got)
  PROVE  ServedAs(r, c)
<1>1. c = AnswerOf(r, st, got) /\ r.by # "gone"
  BY DEF Reply, AnswerOf
<1>2. SameCall(c, r, r.by) /\ c.st = st /\ c.got = got /\ c.left = {}
  BY <1>1, Told
<1>3. r.op = "hold" /\ c.st \in {"sent", "ok"} =>
        /\ r.st = "sent"
        /\ \E t \in r.left : c.left = r.left \ {t} /\ owner' = [owner EXCEPT ![t] = Me]
  BY <1>2
<1> QED
  BY <1>1, <1>2, <1>3 DEF ServedAs

LEMMA ReplyIs ==
  ASSUME NEW r, NEW st, NEW got
  PROVE  r.by # "gone" => \E c \in Reply(r, st, got) : TRUE
  BY DEF Reply

LEMMA TakesOn ==
  ASSUME Types, NEW r \in reqs, NEW s \in Seat, TakeSeat(r, s)
  PROVE  \E N : GoesOn(r, N, {})
<1>1. r \in Request /\ r.op = "hold" /\ r.st = "sent" /\ s \in r.left /\ owner' = [owner EXCEPT ![s] = Me]
  BY DEF Types, CallsOK, TakeSeat, Serves
<1>2. CASE r.left = {s}
  <2>1. reqs' = (reqs \ {r}) \cup Reply(r, "ok", {})
    BY <1>2 DEF TakeSeat, Replies
  <2>2. \A c \in Reply(r, "ok", {}) : ServedAs(r, c)
    <3> TAKE c \in Reply(r, "ok", {})
    <3>1. "ok" \in Stages /\ "ok" \notin {"sent", "undoing"} /\ {} \in SUBSET Seat
      BY DEF Stages
    <3> QED
      BY <1>1, <1>2, <3>1, Answered1
  <2> QED
    BY <2>1, <2>2, ReplyIs DEF GoesOn
<1>3. CASE r.left # {s}
  <2> DEFINE c == WithTaken(r, r.left \ {s}, r.got \cup {x \in {s} : owner[x] = Nobody})
  <2>1. reqs' = (reqs \ {r}) \cup {c}
    BY <1>3 DEF TakeSeat, Continues, WithTaken
  <2>2. SameCall(c, r, r.by) /\ c.st = r.st /\ c.left = r.left \ {s}
    <3>1. r.left \ {s} \in SUBSET r.left /\ r.got \cup {x \in {s} : owner[x] = Nobody} \in SUBSET Seat
      BY <1>1 DEF Request
    <3> QED
      BY <1>1, <3>1, Taking
  <2> HIDE DEF c
  <2>3. ServedAs(r, c)
    BY <1>1, <2>2 DEF ServedAs, Open
  <2> QED
    BY <2>1, <2>3 DEF GoesOn
<1> QED
  BY <1>2, <1>3

LEMMA RefusedOrUndone ==
  ASSUME Types, NEW r \in reqs, RefuseHold(r) \/ \E s \in Seat : UndoSeat(r, s)
  PROVE  \E N : GoesOn(r, N, {})
<1>1. r \in Request /\ "refused" \in Stages /\ {} \in SUBSET Seat
  BY DEF Types, CallsOK, Stages
<1>2. CASE Replies(r, "refused", {})
  <2>1. reqs' = (reqs \ {r}) \cup Reply(r, "refused", {})
    BY <1>2 DEF Replies
  <2>2. \A c \in Reply(r, "refused", {}) : ServedAs(r, c)
    BY <1>1, Answered1
  <2> QED
    BY <2>1, <2>2, ReplyIs DEF GoesOn
<1>3. ASSUME NEW c, Continues(r, c), SameCall(c, r, r.by), c.st = "undoing" PROVE \E N : GoesOn(r, N, {})
  <2>1. ServedAs(r, c)
    BY <1>3 DEF ServedAs, Open
  <2> QED
    BY <1>3, <2>1 DEF GoesOn, Continues
<1>4. CASE RefuseHold(r)
  <2> DEFINE c == [r EXCEPT !.st = "undoing"]
  <2>1. SameCall(c, r, r.by) /\ c.st = "undoing"
    BY <1>1, Undoing
  <2>2. Replies(r, "refused", {}) \/ Continues(r, c)
    BY <1>4 DEF RefuseHold
  <2> HIDE DEF c
  <2> QED
    BY <1>2, <1>3, <2>1, <2>2
<1>5. ASSUME NEW s \in Seat, UndoSeat(r, s) PROVE \E N : GoesOn(r, N, {})
  <2> DEFINE got == r.got \ {s}
             c == [r EXCEPT !.got = got]
  <2>1. SameCall(c, r, r.by) /\ c.st = r.st
    <3>1. got \in SUBSET Seat
      BY <1>1 DEF Request
    <3> QED
      BY <1>1, <3>1, Undoing
  <2>2. (Replies(r, "refused", {}) \/ Continues(r, c)) /\ r.st = "undoing"
    BY <1>5 DEF UndoSeat
  <2> HIDE DEF c
  <2> QED
    BY <1>2, <1>3, <2>1, <2>2
<1> QED
  BY <1>4, <1>5

LEMMA Remains ==
  ASSUME Types, NEW r \in reqs, r.op = "book"
  PROVE  LeavesBehind(r, Call(r.id, "remainder", "gone", r.seats, 0))
<1> DEFINE c == Call(r.id, "remainder", "gone", r.seats, 0)
<1>1. r.id \in Nat /\ r.seats \in SUBSET Seat /\ "remainder" \in Operations /\ "gone" \in Senders /\ 0 \in Nat
  BY DEF Types, CallsOK, Request, Operations, Senders, Ghosts
<1>2. Asks(c, r.id, "remainder", "gone", r.seats, 0)
  BY <1>1, CallMakes
<1> HIDE DEF c
<1>3. Meant(c)
  BY <1>2 DEF Asks, Meant
<1>4. LeavesBehind(r, c)
  BY <1>2, <1>3 DEF Asks, LeavesBehind, ComesOf, Kind, Open, Ghosts
<1> QED
  BY <1>4 DEF c

LEMMA ServesOn ==
  ASSUME Types, NEW r \in reqs, Serving(r) \/ Lose(r)
  PROVE  calls' = calls /\ \E N, O : GoesOn(r, N, O)
<1>1. r \in Request /\ {} \in SUBSET Seat
  BY DEF Types, CallsOK
<1>2. calls' = calls
  BY DEF Serving, TakeSeat, RefuseHold, UndoSeat, ServeRelease, ServeTtl, ServeBook, ServeRemainder, ServePay,
     Serves, Lose
<1> SUFFICES \E N, O : GoesOn(r, N, O)
  BY <1>2
<1>3. ASSUME NEW st \in Stages, st \notin {"sent", "undoing"}, NEW got \in SUBSET Seat, r.op # "hold",
             st = "ok" /\ r.op = "ttl" => UNCHANGED <<owner, parted>> /\ got = {s \in r.seats : owner[s] = Me},
             NEW O, \A c \in O : LeavesBehind(r, c), reqs' = (reqs \ {r}) \cup Reply(r, st, got) \cup O
      PROVE  \E N : GoesOn(r, N, O)
  <2>1. \A c \in Reply(r, st, got) : ServedAs(r, c)
    BY <1>1, <1>3, Answered1
  <2> QED
    BY <1>3, <2>1, ReplyIs DEF GoesOn
<1>4. ASSUME NEW st \in Stages, st \notin {"sent", "undoing"}, NEW got \in SUBSET Seat, r.op # "hold",
             st = "ok" /\ r.op = "ttl" => UNCHANGED <<owner, parted>> /\ got = {s \in r.seats : owner[s] = Me},
             Replies(r, st, got)
      PROVE  \E N, O : GoesOn(r, N, O)
  <2>1. \A c \in Reply(r, st, got) : ServedAs(r, c)
    BY <1>1, <1>4, Answered1
  <2>2. GoesOn(r, Reply(r, st, got), {})
    BY <1>4, <2>1, ReplyIs DEF GoesOn, Replies
  <2> QED
    BY <2>2
<1>5. CASE ServeRelease(r)
  BY <1>1, <1>4, <1>5 DEF ServeRelease, Serves, Stages
<1>6. CASE ServeTtl(r)
  <2> DEFINE mine == {s \in r.seats : owner[s] = Me}
  <2>1. mine \in SUBSET Seat /\ r.op = "ttl" /\ UNCHANGED <<owner, parted>>
    BY <1>1, <1>6 DEF Request, ServeTtl, Serves, serverVars
  <2>2. PICK st \in {"ok", "refused"} : Replies(r, st, mine)
    BY <1>6 DEF ServeTtl
  <2> QED
    BY <1>4, <2>1, <2>2 DEF Stages
<1>7. CASE ServeBook(r)
  <2>1. r.op = "book"
    BY <1>7 DEF ServeBook, Serves
  <2>2. \/ \E st \in {"taken", "noSession"} : Replies(r, st, {})
        \/ reqs' = (reqs \ {r}) \cup Reply(r, "ok", {}) \cup {Call(r.id, "remainder", "gone", r.seats, 0)}
    BY <1>7 DEF ServeBook
  <2>3. ASSUME NEW st \in {"taken", "noSession"}, Replies(r, st, {}) PROVE \E N, O : GoesOn(r, N, O)
    BY <1>1, <1>4, <2>1, <2>3 DEF Stages
  <2>4. CASE reqs' = (reqs \ {r}) \cup Reply(r, "ok", {}) \cup {Call(r.id, "remainder", "gone", r.seats, 0)}
    <3>1. "ok" \in Stages /\ "ok" \notin {"sent", "undoing"} /\ r.op # "hold" /\ r.op # "ttl"
      BY <2>1 DEF Stages
    <3>2. \A c \in {Call(r.id, "remainder", "gone", r.seats, 0)} : LeavesBehind(r, c)
      BY <2>1, Remains
    <3> QED
      BY <1>1, <1>3, <2>4, <3>1, <3>2
  <2> QED
    BY <2>2, <2>3, <2>4
<1>8. CASE ServeRemainder(r)
  <2>1. reqs' = reqs \ {r} /\ r.op = "remainder"
    BY <1>8 DEF ServeRemainder, Serves
  <2>2. GoesOn(r, {}, {})
    BY <2>1 DEF GoesOn
  <2> QED
    BY <2>2
<1>9. CASE ServePay(r)
  <2>1. \A d \in decided : d.outcome \in {"paid", "failed"}
    BY DEF Types, DecidedOK
  <2>2. r.op = "pay" /\ \E st \in {"paid", "failed", "notPending", "noSession"} : Replies(r, st, {})
    BY <1>9, <2>1 DEF ServePay, Serves
  <2> QED
    BY <1>1, <1>4, <2>2 DEF Stages
<1>10. CASE Lose(r)
  <2>1. PICK on \in SUBSET {Orphan(r, "gone", {})} :
          /\ Open(r) \/ on = {}
          /\ reqs' = (reqs \ {r}) \cup Reply(r, "lost", {}) \cup on
    BY <1>10 DEF Lose
  <2>2. \A c \in Reply(r, "lost", {}) : ServedAs(r, c)
    BY <1>1, Answered1 DEF Stages
  <2>3. \A c \in on : LeavesBehind(r, c)
    <3> TAKE c \in on
    <3>1. SameCall(c, r, "gone") /\ c.st = r.st /\ c.by = "gone" /\ Open(r)
      BY <1>1, <2>1, Orphaned DEF Ghosts, SameCall
    <3> QED
      BY <3>1, SameComes DEF LeavesBehind, Open, Ghosts
  <2>4. GoesOn(r, Reply(r, "lost", {}), on)
    BY <2>1, <2>2, <2>3, ReplyIs DEF GoesOn
  <2> QED
    BY <2>4
<1> QED
  BY <1>5, <1>6, <1>7, <1>8, <1>9, <1>10, TakesOn, RefusedOrUndone DEF Serving
-----------------------------------------------------------------------------
(* What the steps do to the calls: the page is left, or makes calls.       *)

\* The page is left, by a refresh or for the login page.
Leaving ==
  \E S : \/ Unmounts(S, Forgotten)
         \/ Unmounts(S, StillAwaited(reqs))
         \/ \E r \in reqs : Unmounts(S, StillAwaited(reqs \ {r}))

LEMMA LeavesPage ==
  /\ Proceed /\ ~user => Leaving /\ place' = "login"
  /\ Refresh => Leaving /\ place' = place
  /\ \A r \in reqs : LoggedOut(r) => Leaving /\ place' = "login"
  BY DEF Leaving, Proceed, Refresh, LoggedOut

\* A new mount starts from nothing.
LEMMA StartsAnew ==
  ASSUME Leaving
  PROVE  /\ restored' = FALSE /\ hasData' = FALSE /\ error' = FALSE /\ load' = Loading /\ seen' = Blank
         /\ chosen' = {} /\ pending' = {} /\ seq' = [s \in Seat |-> 0]
         /\ heldIds' = {} /\ heldRef' = {} /\ counting' = FALSE /\ stored' = stored
         /\ booking' = NoBooking /\ event' = NoEvent /\ busy' = FALSE /\ paying' = FALSE
         /\ calls' = calls
  BY DEF Leaving, Unmounts

\* Leaving the page takes the page away from every call.
LEMMA Unmounted ==
  ASSUME Types, Leaving, NEW q \in reqs'
  PROVE  \E r \in reqs : ComesOf(q, r) /\ q.by \in Ghosts /\ (q.by = "gone" => Open(q) \/ (q = r /\ r.by = "gone"))
<1>1. heldRef \in SUBSET Seat /\ {} \in SUBSET Seat /\ \A r \in reqs : r \in Request
  BY DEF Types, SeatsOK, CallsOK
<1>2. CASE reqs' = Forgotten
  <2>1. PICK r \in reqs : q = Orphan(r, "gone", {}) /\ Open(r)
    BY <1>2 DEF Forgotten
  <2>2. SameCall(q, r, "gone") /\ q.st = r.st
    BY <1>1, <2>1, Orphaned DEF Ghosts
  <2> QED
    BY <2>1, <2>2, SameComes DEF Ghosts, Open, SameCall
<1>3. ASSUME NEW R \in SUBSET reqs, reqs' = StillAwaited(R)
      PROVE  \E r \in reqs : ComesOf(q, r) /\ q.by \in Ghosts /\ (q.by = "gone" => q = r /\ r.by = "gone")
  <2>1. PICK r \in reqs : q = IF r.by \in {"gone", "left"} THEN r ELSE Orphan(r, "left", heldRef)
    BY <1>3 DEF StillAwaited
  <2>2. CASE r.by \in Ghosts
    <3>1. q = r /\ SameCall(r, r, r.by)
      BY <1>1, <2>1, <2>2 DEF Ghosts, SameCall
    <3> QED
      BY <2>2, <3>1, SameComes
  <2>3. CASE r.by \notin Ghosts
    <3>1. q = Orphan(r, "left", heldRef) /\ "left" \in Ghosts
      BY <2>1, <2>3 DEF Ghosts
    <3>2. SameCall(q, r, "left")
      BY <1>1, <3>1, Orphaned
    <3> QED
      BY <3>1, <3>2, SameComes DEF SameCall
  <2> QED
    BY <2>2, <2>3
<1>4. reqs' = Forgotten \/ \E R \in SUBSET reqs : reqs' = StillAwaited(R)
  <2>1. \A r : reqs \ {r} \in SUBSET reqs
    OBVIOUS
  <2> QED
    BY <2>1 DEF Leaving, Unmounts
<1> QED
  BY <1>2, <1>3, <1>4

\* One call is made.
LEMMA SendsOne ==
  ASSUME NEW c, Sends({c})
  PROVE  reqs' = reqs \cup {c} /\ calls' = calls + 1 /\ calls + 1 <= MaxCalls
  BY FS_Singleton DEF Sends

LEMMA SendsNone == ASSUME Types, Sends({}) PROVE reqs' = reqs /\ calls' = calls
  BY FS_EmptySet DEF Sends, Types, CountsOK

LEMMA SendsTwo ==
  ASSUME NEW c, NEW d, c # d, Sends({c, d})
  PROVE  reqs' = reqs \cup {c, d} /\ calls' = calls + 2 /\ calls + 2 <= MaxCalls
<1>1. {c, d} = {c} \cup {d} /\ d \notin {c}
  OBVIOUS
<1>2. IsFiniteSet({c}) /\ Cardinality({c}) = 1
  BY FS_Singleton
<1>3. Cardinality({c, d}) = 2
  BY <1>1, <1>2, FS_AddElement
<1> QED
  BY <1>3 DEF Sends

\* A call with a well-meant content is fresh under the next number.
LEMMA MakesFresh ==
  ASSUME Types, NEW id \in 1..calls', calls < id, NEW op \in Operations, NEW by \in Senders \ {"left"},
         NEW seats \in SUBSET Seat, NEW b \in 0..calls', calls' \in Nat, calls <= calls',
         by = "gone" => op = "release",
         op = "hold" => seats # {} /\ by \in {"click", "handoff"},
         op = "release" => by \in {"click", "all", "gone"},
         by = "restore" => op = "ttl", by = "handoff" => op = "hold",
         by = "click" => op \in {"hold", "release"} /\ \E s \in Seat : seats = {s},
         op = "book" => b = id, op = "pay" => b # 0 /\ event = b
  PROVE  Fresh(Call(id, op, by, seats, b))
<1> DEFINE c == Call(id, op, by, seats, b)
<1>1. Asks(c, id, op, by, seats, b)
  <2>1. id \in Nat /\ by \in Senders /\ b \in Nat
    OBVIOUS
  <2> QED
    BY <2>1, CallMakes
<1>2. event \in 0..calls /\ calls \in Nat
  BY DEF Types, CheckoutOK, CountsOK
<1> HIDE DEF c
<1>3. Meant(c)
  BY <1>1 DEF Meant, Asks, Ghosts
<1>4. c.event \in 0..calls' /\ c.b \in 0..calls'
  BY <1>1, <1>2 DEF Asks
<1>5. c \in Request /\ c.id = id /\ c.st = "sent" /\ c.by = by /\ c.op = op
      /\ c.left = IF c.op = "hold" THEN c.seats ELSE {}
  BY <1>1 DEF Asks
<1>6. Fresh(c)
  BY <1>3, <1>4, <1>5 DEF Fresh
<1> QED
  BY <1>6 DEF c

\* The only call of a step.
LEMMA SendsFresh ==
  ASSUME Types, NEW op \in Operations, NEW by \in Senders \ Ghosts,
         NEW seats \in SUBSET Seat, NEW b \in 0..calls + 1,
         op = "hold" => seats # {} /\ by \in {"click", "handoff"}, op = "release" => by \in {"click", "all"},
         by = "restore" => op = "ttl", by = "handoff" => op = "hold",
         by = "click" => op \in {"hold", "release"} /\ \E s \in Seat : seats = {s},
         op = "book" => b = calls + 1, op = "pay" => b # 0 /\ event = b,
         Sends({Call(calls + 1, op, by, seats, b)})
  PROVE  /\ calls' = calls + 1 /\ calls' <= MaxCalls
         /\ reqs' = reqs \cup {Call(calls + 1, op, by, seats, b)}
         /\ Fresh(Call(calls + 1, op, by, seats, b))
<1>1. calls' = calls + 1 /\ calls' <= MaxCalls /\ reqs' = reqs \cup {Call(calls + 1, op, by, seats, b)}
  BY SendsOne
<1>2. calls \in Nat
  BY DEF Types, CountsOK
<1>3. by \in Senders \ {"left"} /\ by # "gone" /\ by # "left"
  BY DEF Ghosts
<1>4. calls + 1 \in 1..calls' /\ calls < calls + 1 /\ calls' \in Nat /\ calls <= calls' /\ b \in 0..calls'
  BY <1>1, <1>2
<1> QED
  BY <1>1, <1>3, <1>4, MakesFresh

LEMMA ClickCalls ==
  ASSUME Types, NEW s \in Seat, Click(s), user
  PROVE  /\ calls' = calls + 1 /\ calls' <= MaxCalls
         /\ \E c : /\ reqs' = reqs \cup {c} /\ Fresh(c)
                   /\ c.id = calls + 1 /\ c.by = "click" /\ c.seats = {s}
                   /\ c.op = IF s \in Selected THEN "release" ELSE "hold"
                   /\ c.op = "hold" => c.view = seen
<1>1. calls \in Nat
  BY DEF Types, CountsOK
<1>2. PICK op \in {"release", "hold"} : /\ Sends({Call(calls + 1, op, "click", {s}, 0)})
                                        /\ op = IF s \in Selected THEN "release" ELSE "hold"
  BY DEF Click
<1>3. op \in Operations /\ "click" \in Senders \ Ghosts
  BY DEF Operations, Senders, Ghosts
<1> DEFINE c == Call(calls + 1, op, "click", {s}, 0)
<1>4. Asks(c, calls + 1, op, "click", {s}, 0)
  <2>1. calls + 1 \in Nat /\ 0 \in Nat /\ "click" \in Senders /\ {s} \in SUBSET Seat
    BY <1>1, <1>3
  <2> QED
    BY <1>3, <2>1, CallMakes
<1>5. calls' = calls + 1 /\ calls' <= MaxCalls /\ reqs' = reqs \cup {c} /\ Fresh(c)
  <2>1. 0 \in 0..calls + 1 /\ {s} \in SUBSET Seat /\ {s} # {} /\ op # "book" /\ op # "pay"
    BY <1>1
  <2> QED
    BY <1>2, <1>3, <2>1, SendsFresh
<1> HIDE DEF c
<1> QED
  BY <1>2, <1>4, <1>5 DEF Asks

\* The calls of a suggestion: one for every seat, under numbers of its own.
Drops(P) == Selected \ P
Adds(P)  == IF LimitReached THEN {} ELSE P \ Selected
Toggled(P) == Drops(P) \cup Adds(P)
SuggestedCall(P, id, s) == Call(id[s], IF s \in Drops(P) THEN "release" ELSE "hold", "click", {s}, 0)

\* Seat s is asked for, or given back, under number id[s].
SuggestsWith(P, id) ==
  /\ \A s, t \in Toggled(P) : id[s] = id[t] => s = t
  /\ \A s \in Drops(P), t \in Adds(P) : id[s] < id[t]
  /\ seq' = [s \in Seat |-> IF s \in Toggled(P) THEN id[s] ELSE seq[s]]
  /\ pending' = pending \cup Toggled(P)
  /\ IF Drops(P) = {} THEN UNCHANGED holdVars
     ELSE LetsGo({{s} : s \in Drops(P)}, {s \in Drops(P) : \A t \in Drops(P) : id[t] <= id[s]})
  /\ reqs' = reqs \cup {SuggestedCall(P, id, s) : s \in Toggled(P)}
  /\ \A s \in Toggled(P) :
       /\ Fresh(SuggestedCall(P, id, s))
       /\ Asks(SuggestedCall(P, id, s), id[s],
               IF s \in Drops(P) THEN "release" ELSE "hold", "click", {s}, 0)

LEMMA SuggestCalls ==
  ASSUME Types, NEW P \in SUBSET Seat, Suggest(P), user
  PROVE  /\ calls' \in Nat /\ calls <= calls' /\ calls' <= MaxCalls /\ Toggled(P) \subseteq Seat
         /\ \E id \in [Toggled(P) -> calls + 1 .. calls'] : SuggestsWith(P, id)
<1> DEFINE drops == Drops(P)
           adds  == Adds(P)
           S     == Toggled(P)
           n     == Cardinality(drops) + Cardinality(adds)
           op(s) == IF s \in drops THEN "release" ELSE "hold"
<1>1. S \subseteq Seat /\ drops \subseteq Seat /\ adds \subseteq Seat /\ drops \cap adds = {}
  BY SelectedWithin DEF Types, SeatsOK, Drops, Adds, Toggled
<1>2. IsFiniteSet(drops) /\ IsFiniteSet(adds) /\ IsFiniteSet(S)
  BY <1>1, Bounds, FS_Subset
<1>3. IsFiniteSet(drops \cap adds) /\ Cardinality(drops \cap adds) = 0
  BY <1>1, FS_EmptySet
<1>4. Cardinality(drops) \in Nat /\ Cardinality(adds) \in Nat /\ Cardinality(S) = n
  <2>1. Cardinality(drops) \in Nat /\ Cardinality(adds) \in Nat
    BY <1>2, FS_CardinalityType
  <2>2. Cardinality(S) = Cardinality(drops) + Cardinality(adds) - Cardinality(drops \cap adds)
    BY <1>2, FS_Union DEF Toggled
  <2> QED
    BY <1>3, <2>1, <2>2
<1>5. calls \in Nat
  BY DEF Types, CountsOK
<1>6. PICK id \in [S -> calls + 1 .. calls + n] :
        /\ \A s, t \in S : /\ id[s] = id[t] => s = t
                           /\ s \in drops /\ t \in adds => id[s] < id[t]
        /\ seq' = [s \in Seat |-> IF s \in S THEN id[s] ELSE seq[s]]
        /\ pending' = pending \cup drops \cup adds
        /\ IF drops = {} THEN UNCHANGED holdVars
           ELSE LetsGo({{s} : s \in drops}, {s \in drops : \A t \in drops : id[t] <= id[s]})
        /\ Sends({SuggestedCall(P, id, s) : s \in S})
  BY DEF Suggest, Drops, Adds, Toggled, SuggestedCall
<1> DEFINE c(s) == SuggestedCall(P, id, s)
           rs   == {c(s) : s \in S}
           f    == [s \in S |-> c(s)]
<1>7. \A s \in S : Asks(c(s), id[s], op(s), "click", {s}, 0)
  <2> TAKE s \in S
  <2>1. id[s] \in Nat /\ op(s) \in Operations /\ "click" \in Senders /\ {s} \in SUBSET Seat /\ 0 \in Nat
    BY <1>1, <1>4, <1>5 DEF Operations, Senders, Ghosts
  <2>2. Asks(Call(id[s], op(s), "click", {s}, 0), id[s], op(s), "click", {s}, 0)
    BY <2>1, CallMakes
  <2> QED
    BY <2>2 DEF SuggestedCall
<1>8. f \in Bijection(S, rs)
  <2>1. f \in [S -> rs] /\ \A r \in rs : \E s \in S : f[s] = r
    OBVIOUS
  <2>2. \A s, t \in S : f[s] = f[t] => s = t
    <3>1. \A s \in S : f[s].id = id[s]
      BY <1>7 DEF Asks
    <3> HIDE DEF f
    <3> QED
      BY <1>6, <3>1
  <2> HIDE DEF f, rs, S
  <2> QED
    BY <2>1, <2>2 DEF Bijection, Injection, Surjection, IsInjective
<1>9. Cardinality(rs) = n
  <2> HIDE DEF f, rs, S, n
  <2>1. IsFiniteSet(rs) /\ Cardinality(rs) = Cardinality(S)
    BY <1>2, <1>8, FS_Bijection DEF ExistsBijection
  <2> QED
    BY <1>4, <2>1
<1>10. calls' = calls + n /\ calls' <= MaxCalls /\ reqs' = reqs \cup rs
  BY <1>6, <1>9 DEF Sends
<1>11. n \in Nat /\ calls' \in Nat /\ calls <= calls'
  BY <1>4, <1>5, <1>10
<1>12. \A s \in S : Fresh(c(s))
  <2> TAKE s \in S
  <2>1. /\ id[s] \in 1..calls' /\ calls < id[s] /\ op(s) \in Operations /\ "click" \in Senders \ Ghosts
        /\ {s} \in SUBSET Seat /\ 0 \in 0..calls' /\ {s} # {} /\ op(s) # "book" /\ op(s) # "pay" /\ s \in Seat
    BY <1>1, <1>5, <1>10, <1>11 DEF Operations, Senders, Ghosts
  <2>2. Fresh(Call(id[s], op(s), "click", {s}, 0))
    BY <1>11, <2>1, MakesFresh
  <2> QED
    BY <2>2 DEF SuggestedCall
<1>13. id \in [Toggled(P) -> calls + 1 .. calls']
  BY <1>10
<1>14. pending' = pending \cup Toggled(P)
  BY <1>6 DEF Toggled
<1> HIDE DEF n, f
<1>15. calls' \in Nat /\ calls <= calls' /\ calls' <= MaxCalls /\ Toggled(P) \subseteq Seat
  BY <1>1, <1>10, <1>11
<1>16. \A s \in drops, t \in adds : s \in S /\ t \in S
  BY DEF Toggled
<1>17. /\ \A s, t \in Toggled(P) : id[s] = id[t] => s = t
       /\ \A s \in Drops(P), t \in Adds(P) : id[s] < id[t]
  BY <1>6, <1>16
<1>18. SuggestsWith(P, id)
  BY <1>6, <1>7, <1>10, <1>12, <1>14, <1>17 DEF SuggestsWith
<1> QED
  BY <1>13, <1>15, <1>18

\* The calls of a rendering: the question about the last visit's holds, and
\* the hold of the seats handed over.
LEMMA RenderCalls ==
  ASSUME Types, Render
  PROVE  /\ calls' \in Nat /\ calls <= calls' /\ calls' <= MaxCalls /\ reqs \subseteq reqs'
         /\ \A q \in reqs' \ reqs :
              /\ Fresh(q) /\ hasData /\ user
              /\ \/ q.op = "ttl" /\ q.by = "restore" /\ q.seats = stored /\ ~restored
                 \/ q.op = "hold" /\ q.by = "handoff" /\ q.seats = handoff /\ handoff # {}
         /\ \A p, q \in reqs' \ reqs : p.id = q.id => p = q
         /\ hasData /\ handoff # {} /\ user =>
              \E q \in reqs' : q.op = "hold" /\ q.by = "handoff" /\ q.seats = handoff /\ q.st = "sent"
                             /\ q.left = handoff
<1> DEFINE asks    == hasData /\ user /\ ~restored /\ stored # {}
           applies == hasData /\ handoff # {} /\ user
           second  == IF asks THEN calls + 2 ELSE calls + 1
           c == Call(calls + 1, "ttl", "restore", stored, 0)
           d == Call(second, "hold", "handoff", handoff, 0)
<1>1. calls \in Nat /\ stored \in SUBSET Seat /\ handoff \in SUBSET Seat
  BY DEF Types, CountsOK, SeatsOK
<1>2. Asks(c, calls + 1, "ttl", "restore", stored, 0) /\ Asks(d, second, "hold", "handoff", handoff, 0)
  <2>1. calls + 1 \in Nat /\ second \in Nat /\ {"ttl", "hold"} \subseteq Operations
        /\ {"restore", "handoff"} \subseteq Senders /\ 0 \in Nat
    BY <1>1 DEF Operations, Senders, Ghosts
  <2> QED
    BY <1>1, <2>1, CallMakes
<1>3. Sends({x \in {c, d} : IF x.op = "ttl" THEN asks ELSE applies})
  BY DEF Render
<1>4. c.op = "ttl" /\ d.op = "hold" /\ c # d
  BY <1>2 DEF Asks
<1>5. /\ calls' \in Nat /\ calls <= calls' /\ calls' <= MaxCalls
      /\ asks /\ applies => calls' = calls + 2 /\ reqs' = reqs \cup {c, d}
      /\ asks /\ ~applies => calls' = calls + 1 /\ reqs' = reqs \cup {c}
      /\ ~asks /\ applies => calls' = calls + 1 /\ reqs' = reqs \cup {d}
      /\ ~asks /\ ~applies => calls' = calls /\ reqs' = reqs
  <2> HIDE DEF c, d, asks, applies
  <2>1. CASE asks /\ applies
    <3>1. {x \in {c, d} : IF x.op = "ttl" THEN asks ELSE applies} = {c, d}
      BY <2>1
    <3>2. Sends({c, d})
      BY <1>3, <3>1
    <3>3. reqs' = reqs \cup {c, d} /\ calls' = calls + 2 /\ calls + 2 <= MaxCalls
      BY <1>4, <3>2, SendsTwo
    <3> QED
      BY <1>1, <2>1, <3>3
  <2>2. CASE asks /\ ~applies
    <3>1. {x \in {c, d} : IF x.op = "ttl" THEN asks ELSE applies} = {c}
      BY <1>4, <2>2
    <3>2. Sends({c})
      BY <1>3, <3>1
    <3>3. reqs' = reqs \cup {c} /\ calls' = calls + 1 /\ calls + 1 <= MaxCalls
      BY <3>2, SendsOne
    <3> QED
      BY <1>1, <2>2, <3>3
  <2>3. CASE ~asks /\ applies
    <3>1. {x \in {c, d} : IF x.op = "ttl" THEN asks ELSE applies} = {d}
      BY <1>4, <2>3
    <3>2. Sends({d})
      BY <1>3, <3>1
    <3>3. reqs' = reqs \cup {d} /\ calls' = calls + 1 /\ calls + 1 <= MaxCalls
      BY <3>2, SendsOne
    <3> QED
      BY <1>1, <2>3, <3>3
  <2>4. CASE ~asks /\ ~applies
    <3>1. {x \in {c, d} : IF x.op = "ttl" THEN asks ELSE applies} = {}
      BY <2>4
    <3>2. calls <= MaxCalls
      BY DEF Types, CountsOK
    <3> QED
      BY <1>1, <1>3, <2>4, <3>1, <3>2, SendsNone
  <2> QED
    BY <2>1, <2>2, <2>3, <2>4
<1>6. asks => Fresh(c)
  <2> SUFFICES ASSUME asks PROVE Fresh(c)
    OBVIOUS
  <2>1. calls + 1 \in 1..calls' /\ calls < calls + 1 /\ "ttl" \in Operations /\ "restore" \in Senders \ Ghosts
        /\ 0 \in 0..calls'
    BY <1>1, <1>5 DEF Operations, Senders, Ghosts
  <2> QED
    BY <1>1, <1>5, <2>1, MakesFresh
<1>7. applies => Fresh(d)
  <2> SUFFICES ASSUME applies PROVE Fresh(d)
    OBVIOUS
  <2>1. second \in 1..calls' /\ calls < second /\ "hold" \in Operations /\ "handoff" \in Senders \ Ghosts
        /\ 0 \in 0..calls' /\ handoff # {}
    BY <1>1, <1>5 DEF Operations, Senders, Ghosts
  <2> QED
    BY <1>1, <1>5, <2>1, MakesFresh
<1>8. /\ asks => hasData /\ user /\ ~restored
      /\ applies <=> hasData /\ handoff # {} /\ user
      /\ asks => second = calls + 2 /\ second # calls + 1
  BY <1>1
<1> HIDE DEF c, d, asks, applies, second
<1>9. \A q \in reqs' \ reqs : (q = c /\ asks) \/ (q = d /\ applies)
  BY <1>5
<1>10. \A q \in reqs' \ reqs :
         /\ Fresh(q) /\ hasData /\ user
         /\ \/ q.op = "ttl" /\ q.by = "restore" /\ q.seats = stored /\ ~restored
            \/ q.op = "hold" /\ q.by = "handoff" /\ q.seats = handoff /\ handoff # {}
  BY <1>2, <1>6, <1>7, <1>8, <1>9 DEF Asks
<1>11. \A p, q \in reqs' \ reqs : p.id = q.id => p = q
  BY <1>2, <1>8, <1>9 DEF Asks
<1>12. applies => d \in reqs'
  BY <1>5
<1> QED
  BY <1>2, <1>5, <1>8, <1>10, <1>11, <1>12 DEF Asks

\* Proceed, Pay and Resync make one call each, BookAnswer the release of all.
LEMMA OneMore ==
  ASSUME Types, (Proceed /\ user) \/ Pay \/ Resync
  PROVE  /\ calls' = calls + 1 /\ calls' <= MaxCalls
         /\ \E c : /\ reqs' = reqs \cup {c} /\ Fresh(c)
                   /\ c.op \in {"book", "pay", "ttl"} /\ c.by \in {"page", "resync"}
<1>1. calls \in Nat /\ heldRef \in SUBSET Seat /\ Selected \in SUBSET Seat
  BY SelectedWithin DEF Types, CountsOK, SeatsOK
<1>2. {"book", "pay", "ttl"} \subseteq Operations /\ {"page", "resync"} \subseteq Senders \ Ghosts
  BY DEF Operations, Senders, Ghosts
<1>3. CASE Proceed /\ user
  <2> DEFINE c == Call(calls + 1, "book", "page", Selected, calls + 1)
  <2>1. Sends({c})
    BY <1>3 DEF Proceed
  <2>2. calls' = calls + 1 /\ calls' <= MaxCalls /\ reqs' = reqs \cup {c} /\ Fresh(c)
    <3>1. calls + 1 \in 0..calls + 1
      BY <1>1
    <3> QED
      BY <1>1, <1>2, <2>1, <3>1, SendsFresh
  <2>3. Asks(c, calls + 1, "book", "page", Selected, calls + 1)
    <3>1. calls + 1 \in Nat /\ "book" \in Operations /\ "page" \in Senders
      BY <1>1, <1>2
    <3> QED
      BY <1>1, <3>1, CallMakes
  <2> HIDE DEF c
  <2> QED
    BY <2>2, <2>3 DEF Asks
<1>4. CASE Pay
  <2> DEFINE c == Call(calls + 1, "pay", "page", Selected, booking.b)
  <2>1. Sends({c}) /\ booking.b # 0
    BY <1>4 DEF Pay
  <2>2. booking.b \in 0..calls + 1 /\ event = booking.b /\ booking.b \in Nat
    BY <1>1, <2>1 DEF Types, CheckoutOK
  <2>3. calls' = calls + 1 /\ calls' <= MaxCalls /\ reqs' = reqs \cup {c} /\ Fresh(c)
    BY <1>1, <1>2, <2>1, <2>2, SendsFresh
  <2>4. Asks(c, calls + 1, "pay", "page", Selected, booking.b)
    <3>1. calls + 1 \in Nat /\ "pay" \in Operations /\ "page" \in Senders
      BY <1>1, <1>2
    <3> QED
      BY <1>1, <2>2, <3>1, CallMakes
  <2> HIDE DEF c
  <2> QED
    BY <2>3, <2>4 DEF Asks
<1>5. CASE Resync
  <2> DEFINE c == Call(calls + 1, "ttl", "resync", heldRef, 0)
  <2>1. Sends({c})
    BY <1>5 DEF Resync
  <2>2. calls' = calls + 1 /\ calls' <= MaxCalls /\ reqs' = reqs \cup {c} /\ Fresh(c)
    <3>1. 0 \in 0..calls + 1
      BY <1>1
    <3> QED
      BY <1>1, <1>2, <2>1, <3>1, SendsFresh
  <2>3. Asks(c, calls + 1, "ttl", "resync", heldRef, 0)
    <3>1. calls + 1 \in Nat /\ "ttl" \in Operations /\ "resync" \in Senders /\ 0 \in Nat
      BY <1>1, <1>2
    <3> QED
      BY <1>1, <3>1, CallMakes
  <2> HIDE DEF c
  <2> QED
    BY <2>2, <2>3 DEF Asks
<1> QED
  BY <1>3, <1>4, <1>5

\* An answer takes its call away; a booking's may let the holds go, or lead
\* to the login page.
LEMMA AnsweredCalls ==
  ASSUME Types, NEW r \in reqs, Answering(r) \/ LeftAnswer(r)
  PROVE  \/ calls' = calls /\ reqs' = reqs \ {r}
         \/ Leaving /\ place' = "login"
         \/ /\ r.op = "book" /\ calls' = calls + 1 /\ calls' <= MaxCalls
            /\ \E c : /\ reqs' = (reqs \ {r}) \cup {c} /\ Fresh(c) /\ c.op = "release"
                      /\ c.by = IF Answering(r) THEN "all" ELSE "gone"
<1>1. calls \in Nat /\ heldRef \in SUBSET Seat /\ r.ref \in SUBSET Seat
  BY DEF Types, CountsOK, SeatsOK, CallsOK, Request
<1>2. ASSUME NEW by \in {"all", "gone"}, NEW S \in SUBSET Seat, calls < MaxCalls, calls' = calls + 1,
             reqs' = (reqs \ {r}) \cup {Call(calls + 1, "release", by, S, 0)}
      PROVE  calls' <= MaxCalls /\ \E c : /\ reqs' = (reqs \ {r}) \cup {c} /\ Fresh(c)
                                          /\ c.op = "release" /\ c.by = by
  <2> DEFINE c == Call(calls + 1, "release", by, S, 0)
  <2>1. calls' <= MaxCalls /\ "release" \in Operations /\ by \in Senders \ {"left"} /\ by \in Senders
    BY <1>1, <1>2, Bounds DEF Operations, Senders, Ghosts
  <2>2. Fresh(c)
    <3>1. calls + 1 \in 1..calls' /\ calls < calls + 1 /\ 0 \in 0..calls' /\ calls' \in Nat /\ calls <= calls'
      BY <1>1, <1>2
    <3> QED
      BY <2>1, <3>1, MakesFresh
  <2>3. Asks(c, calls + 1, "release", by, S, 0)
    <3>1. calls + 1 \in Nat /\ 0 \in Nat
      BY <1>1
    <3> QED
      BY <2>1, <3>1, CallMakes
  <2>4. c.op = "release" /\ c.by = by
    BY <2>3 DEF Asks
  <2> HIDE DEF c
  <2>5. reqs' = (reqs \ {r}) \cup {c}
    BY <1>2 DEF c
  <2> QED
    BY <2>1, <2>2, <2>4, <2>5
<1>3. CASE BookAnswer(r) /\ r.st = "ok" /\ heldRef # {}
  <2>1. calls < MaxCalls /\ calls' = calls + 1 /\ r.op = "book"
        /\ reqs' = (reqs \ {r}) \cup {Call(calls + 1, "release", "all", heldRef, 0)}
    BY <1>3 DEF BookAnswer, Answers
  <2> QED
    BY <1>1, <1>2, <1>3, <2>1 DEF Answering
<1>4. CASE BookAnswer(r) /\ ~(r.st = "ok" /\ heldRef # {})
  BY <1>4, LeavesPage DEF BookAnswer, Answered
<1>5. CASE PayAnswer(r)
  BY <1>5, LeavesPage DEF PayAnswer, Answered
<1>6. CASE HoldAnswer(r) \/ ReleaseAnswer(r) \/ TtlAnswer(r)
  BY <1>6 DEF HoldAnswer, ReleaseAnswer, TtlAnswer, Answered
<1>7. CASE LeftAnswer(r)
  <2>1. ~Answering(r)
    BY <1>7 DEF LeftAnswer, Answering, HoldAnswer, ReleaseAnswer, TtlAnswer, BookAnswer, PayAnswer, Answers
  <2>2. CASE r.st = "noSession"
    BY <1>7, <2>2, LeavesPage DEF LeftAnswer
  <2>3. CASE r.st # "noSession" /\ ~(r.op = "book" /\ r.st = "ok" /\ r.ref # {})
    BY <1>7, <2>3 DEF LeftAnswer, Answered
  <2>4. CASE r.st # "noSession" /\ r.op = "book" /\ r.st = "ok" /\ r.ref # {}
    <3>1. calls < MaxCalls /\ calls' = calls + 1
          /\ reqs' = (reqs \ {r}) \cup {Call(calls + 1, "release", "gone", r.ref, 0)}
      BY <1>7, <2>4 DEF LeftAnswer
    <3> QED
      BY <1>1, <1>2, <2>1, <2>4, <3>1
  <2> QED
    BY <2>2, <2>3, <2>4
<1> QED
  BY <1>3, <1>4, <1>5, <1>6, <1>7 DEF Answering

\* An answer to a page that was left leads to the login page, or changes
\* nothing that is shown.
LEMMA LeftTouches ==
  ASSUME NEW r \in reqs, LeftAnswer(r)
  PROVE  /\ UNCHANGED <<owner, sold, bought, decided, upsets, parted>>
         /\ session' \in {session, FALSE}
         /\ \/ Leaving /\ place' = "login" /\ user' = FALSE /\ handoff' = r.seats
            \/ UNCHANGED <<session, mapVars, selVars, heldIds, heldRef, counting, mountVars, payVars>>
<1>1. r.st # "noSession" \/ (LoggedOut(r) /\ session' = FALSE)
  BY DEF LeftAnswer
<1>2. LoggedOut(r) => user' = FALSE /\ handoff' = r.seats
  BY DEF LoggedOut, Unmounts
<1> QED
  BY <1>1, <1>2, LeavesPage DEF LeftAnswer

\* Which steps touch what.
LEMMA CallsTouched ==
  ASSUME Next
  PROVE  \/ reqs' = reqs /\ calls' = calls
         \/ \E r \in reqs : Serving(r) \/ Lose(r) \/ Answering(r) \/ LeftAnswer(r)
         \/ \E s \in Seat : Click(s) /\ user
         \/ \E P \in SUBSET Seat : Suggest(P) /\ user
         \/ Render \/ (Proceed /\ user) \/ Pay \/ Resync
         \/ Leaving
  BY Bounds, LeavesPage
     DEF Next, Serving, Answering, OtherActs, HoldExpires, Hear, Click, BookingExpires, Suggest,
         SessionEnds, ServeLoad, FinishLoad, LoadFails, TryAgain, Clear, Dismiss, LogOut,
         LogIn, CountdownEnds

LEMMA ServerTouched ==
  ASSUME Next
  PROVE  \/ UNCHANGED serverVars
         \/ \E r \in reqs : Serving(r) \/ LeftAnswer(r)
         \/ \E s \in Seat : OtherActs(s) \/ HoldExpires(s)
         \/ \E b \in 1..MaxCalls : BookingExpires(b)
         \/ SessionEnds \/ LogOut \/ LogIn
  BY DEF Next, Serving, Lose, HoldAnswer, ReleaseAnswer, TtlAnswer, BookAnswer, PayAnswer, Answers,
         Hear, Click, Suggest, ServeLoad, FinishLoad, LoadFails, TryAgain, Render, Clear, Proceed,
         Pay, Dismiss, Refresh, Resync, CountdownEnds

\* Serving leaves the page alone.
LEMMA PageUntouched ==
  ASSUME NEW r \in reqs, Serving(r) \/ Lose(r)
  PROVE  UNCHANGED <<pageVars, calls>>
  BY DEF Serving, TakeSeat, RefuseHold, UndoSeat, ServeRelease, ServeTtl, ServeBook, ServeRemainder, ServePay,
         Serves, Lose

LEMMA MapTouched ==
  ASSUME Next
  PROVE  \/ UNCHANGED mapVars
         \/ \E r \in reqs : Answering(r)
         \/ \E s \in Seat : Hear(s)
         \/ ServeLoad \/ FinishLoad \/ LoadFails \/ TryAgain \/ CountdownEnds
         \/ Leaving
  BY LeavesPage, LeftTouches, PageUntouched
     DEF Next, Serving, Answering, OtherActs, HoldExpires, Click, BookingExpires, Suggest, SessionEnds,
         Render, Clear, Proceed, Pay, Dismiss, LogOut, LogIn, Resync, pageVars

LEMMA SelectionTouched ==
  ASSUME Next
  PROVE  \/ UNCHANGED selVars
         \/ \E r \in reqs : HoldAnswer(r) \/ ReleaseAnswer(r) \/ TtlAnswer(r) \/ BookAnswer(r)
         \/ \E s \in Seat : Click(s)
         \/ \E P \in SUBSET Seat : Suggest(P)
         \/ Render \/ Clear \/ CountdownEnds
         \/ Leaving
<1>1. \A r \in reqs : PayAnswer(r) => UNCHANGED selVars \/ Leaving
  BY LeavesPage DEF PayAnswer
<1>2. Proceed => UNCHANGED selVars \/ Leaving
  BY LeavesPage DEF Proceed
<1> QED
  BY <1>1, <1>2, Bounds, LeavesPage, LeftTouches, PageUntouched
     DEF Next, Serving, OtherActs, HoldExpires, Hear, BookingExpires, SessionEnds, ServeLoad, FinishLoad,
         LoadFails, TryAgain, Pay, Dismiss, LogOut, LogIn, Resync, pageVars

LEMMA HoldsTouched ==
  ASSUME Next
  PROVE  \/ UNCHANGED holdVars
         \/ \E r \in reqs : HoldAnswer(r) \/ TtlAnswer(r) \/ BookAnswer(r) \/ LeftAnswer(r)
         \/ \E s \in Seat : Click(s)
         \/ \E P \in SUBSET Seat : Suggest(P)
         \/ Render \/ CountdownEnds
         \/ Leaving
<1>1. \A r \in reqs : PayAnswer(r) \/ ReleaseAnswer(r) => UNCHANGED holdVars \/ Leaving
  BY LeavesPage DEF PayAnswer, ReleaseAnswer
<1>2. Proceed => UNCHANGED holdVars \/ Leaving
  BY LeavesPage DEF Proceed
<1> QED
  BY <1>1, <1>2, Bounds, LeavesPage, PageUntouched
     DEF Next, Serving, OtherActs, HoldExpires, Hear, BookingExpires, SessionEnds, ServeLoad, FinishLoad,
         LoadFails, TryAgain, Clear, Pay, Dismiss, LogOut, LogIn, Resync, pageVars

LEMMA CheckoutTouched ==
  ASSUME Next
  PROVE  \/ UNCHANGED payVars
         \/ \E r \in reqs : BookAnswer(r) \/ PayAnswer(r)
         \/ (Proceed /\ user) \/ Pay \/ Dismiss
         \/ Leaving
  BY LeavesPage, LeftTouches, PageUntouched
     DEF Next, Serving, HoldAnswer, ReleaseAnswer, TtlAnswer, OtherActs, HoldExpires, Hear, Click,
         BookingExpires, Suggest, SessionEnds, ServeLoad, FinishLoad, LoadFails, TryAgain, Render, Clear,
         LogOut, LogIn, Resync, CountdownEnds, pageVars

LEMMA MountTouched ==
  ASSUME Next
  PROVE  \/ UNCHANGED mountVars
         \/ \E r \in reqs : (BookAnswer(r) \/ PayAnswer(r)) /\ LoggedOut(r)
         \/ \E r \in reqs : LeftAnswer(r)
         \/ Render \/ Proceed \/ LogOut \/ LogIn \/ Refresh
<1>1. \A r \in reqs : BookAnswer(r) \/ PayAnswer(r) => UNCHANGED mountVars \/ LoggedOut(r)
  BY DEF BookAnswer, PayAnswer
<1> QED
  BY <1>1, PageUntouched
     DEF Next, Serving, HoldAnswer, ReleaseAnswer, TtlAnswer, OtherActs, HoldExpires, Hear, Click,
         BookingExpires, Suggest, SessionEnds, ServeLoad, FinishLoad, LoadFails, TryAgain, Clear, Pay,
         Dismiss, Resync, CountdownEnds, pageVars

LEMMA PartedTouched ==
  ASSUME Next
  PROVE  \/ UNCHANGED parted
         \/ \E r \in reqs : Serving(r) \/ HoldAnswer(r) \/ TtlAnswer(r)
         \/ \E s \in Seat : HoldExpires(s)
  BY LeftTouches
     DEF Next, Serving, ReleaseAnswer, BookAnswer, PayAnswer, Lose, OtherActs, Hear, Click, BookingExpires,
         Suggest, SessionEnds, ServeLoad, FinishLoad, LoadFails, TryAgain, Render, Clear, Proceed, Pay,
         Dismiss, LogOut, LogIn, Refresh, Resync, CountdownEnds
-----------------------------------------------------------------------------
(* Types.                                                                  *)

\* Every call of the next state comes of one of this state, or is new.
LEMMA NextCalls ==
  ASSUME Types, Next
  PROVE  /\ calls' \in 0..MaxCalls /\ calls <= calls'
         /\ \A q \in reqs' : (\E r \in reqs : ComesOf(q, r)) \/ Fresh(q)
<1>1. calls \in 0..MaxCalls /\ calls \in Nat /\ MaxCalls \in Nat
  BY Bounds DEF Types, CountsOK
<1>2. \A r \in reqs : ComesOf(r, r)
  BY DEF Types, CallsOK, ComesOf
<1>3. ASSUME NEW r \in reqs, Serving(r) \/ Lose(r)
      PROVE  calls' = calls /\ \A q \in reqs' : \E p \in reqs : ComesOf(q, p)
  <2>1. calls' = calls
    BY <1>3, PageUntouched
  <2>2. PICK N, O : GoesOn(r, N, O)
    BY <1>3, ServesOn
  <2>3. \A c \in N \cup O : ComesOf(c, r)
    BY <2>2, SameComes DEF GoesOn, ServedAs, LeavesBehind
  <2> QED
    BY <1>2, <2>1, <2>2, <2>3 DEF GoesOn
<1>4. ASSUME Leaving
      PROVE  calls' = calls /\ \A q \in reqs' : \E r \in reqs : ComesOf(q, r)
  BY <1>4, Unmounted, StartsAnew
<1>5. ASSUME NEW r \in reqs, Answering(r) \/ LeftAnswer(r)
      PROVE  /\ calls' \in 0..MaxCalls /\ calls <= calls'
             /\ \A q \in reqs' : (\E p \in reqs : ComesOf(q, p)) \/ Fresh(q)
  <2>1. CASE calls' = calls /\ reqs' = reqs \ {r}
    BY <1>1, <1>2, <2>1
  <2>2. CASE Leaving
    BY <1>1, <1>4, <2>2
  <2>3. ASSUME calls' = calls + 1, calls' <= MaxCalls, NEW c, reqs' = (reqs \ {r}) \cup {c}, Fresh(c)
        PROVE  /\ calls' \in 0..MaxCalls /\ calls <= calls'
               /\ \A q \in reqs' : (\E p \in reqs : ComesOf(q, p)) \/ Fresh(q)
    BY <1>1, <1>2, <2>3
  <2> QED
    BY <1>5, <2>1, <2>2, <2>3, AnsweredCalls
<1>6. ASSUME NEW s \in Seat, Click(s), user
      PROVE  /\ calls' \in 0..MaxCalls /\ calls <= calls'
             /\ \A q \in reqs' : q \in reqs \/ Fresh(q)
  BY <1>1, <1>6, ClickCalls
<1>7. ASSUME NEW P \in SUBSET Seat, Suggest(P), user
      PROVE  /\ calls' \in 0..MaxCalls /\ calls <= calls'
             /\ \A q \in reqs' : q \in reqs \/ Fresh(q)
  <2>1. PICK id : SuggestsWith(P, id)
    BY <1>7, SuggestCalls
  <2>2. \A q \in reqs' : q \in reqs \/ Fresh(q)
    BY <2>1 DEF SuggestsWith
  <2> QED
    BY <1>1, <1>7, <2>2, SuggestCalls
<1>8. CASE Render
  BY <1>1, <1>2, <1>8, RenderCalls
<1>9. CASE (Proceed /\ user) \/ Pay \/ Resync
  BY <1>1, <1>2, <1>9, OneMore
<1> QED
  BY <1>1, <1>2, <1>3, <1>4, <1>5, <1>6, <1>7, <1>8, <1>9, CallsTouched

LEMMA NextCallsOK == ASSUME Types, Next PROVE CallsOK'
<1>1. calls \in Nat /\ calls' \in Nat /\ calls <= calls'
  BY NextCalls DEF Types, CountsOK
<1>2. ASSUME NEW q \in reqs', Fresh(q)
      PROVE  /\ q \in Request /\ Meant(q)
             /\ q.id \in 1..calls' /\ q.b \in 0..calls' /\ q.event \in 0..calls'
  BY <1>2 DEF Fresh
<1>3. ASSUME NEW q \in reqs', NEW r \in reqs, ComesOf(q, r)
      PROVE  /\ q \in Request /\ Meant(q)
             /\ q.id \in 1..calls' /\ q.b \in 0..calls' /\ q.event \in 0..calls'
  <2>1. r.id \in 1..calls /\ r.b \in 0..calls /\ r.event \in 0..calls
    BY DEF Types, CallsOK
  <2> QED
    BY <1>1, <1>3, <2>1 DEF ComesOf
<1> QED
  BY <1>2, <1>3, NextCalls DEF CallsOK

LEMMA NextCountsOK == ASSUME Types, Next PROVE CountsOK'
<1>1. upsets' \in 0..MaxUpsets
  <2>1. \A r \in reqs : Serving(r) => upsets' = upsets
    BY DEF Serving, TakeSeat, RefuseHold, UndoSeat, ServeRelease, ServeTtl, ServeBook, ServeRemainder,
       ServePay, Serves
  <2>2. \A r \in reqs : Answering(r) \/ LeftAnswer(r) => upsets' = upsets
    BY LeftTouches DEF Answering, HoldAnswer, ReleaseAnswer, TtlAnswer, BookAnswer, PayAnswer, Answers
  <2>3. upsets' = upsets \/ Upsets
    BY <2>1, <2>2
       DEF Next, Serving, Answering, Lose, OtherActs,
       HoldExpires, Hear, Click, BookingExpires, Suggest, SessionEnds, ServeLoad, FinishLoad, LoadFails,
       TryAgain, Render, Clear, Proceed, Pay, Dismiss, LogOut, LogIn, Refresh, Resync, CountdownEnds
  <2> QED
    BY <2>3, Bounds DEF Upsets, Types, CountsOK
<1> QED
  BY <1>1, NextCalls DEF CountsOK

LEMMA NextRoomOK == ASSUME Types, Next PROVE RoomOK'
<1> USE DEF RoomOK
<1>1. RoomOK /\ Unsold \in 0..Elsewhere /\ Elsewhere \in 0..Elsewhere 
  BY Bounds DEF Types, Unsold, Elsewhere
<1>2. CASE UNCHANGED serverVars
  BY <1>1, <1>2 DEF serverVars
<1>3. ASSUME NEW r \in reqs, Serving(r) PROVE RoomOK'
  <2>1. r.id \in 0..Elsewhere /\ r.id \in 1..MaxCalls /\ r.seats \subseteq Seat
    BY Bounds DEF Types, CallsOK, CountsOK, Request, Elsewhere
  <2>2. ASSUME NEW s \in Seat, TakeSeat(r, s) \/ UndoSeat(r, s) PROVE RoomOK'
    <3>1. owner' \in [Seat -> {Nobody, Me, Other}]
      BY <1>1, <2>2 DEF TakeSeat, UndoSeat
    <3> QED
      BY <1>1, <2>2, <3>1 DEF TakeSeat, UndoSeat
  <2>3. CASE ServeRelease(r)
    BY <1>1, <2>3, Given DEF ServeRelease
  <2>4. CASE ServeTtl(r) \/ RefuseHold(r)
    BY <1>1, <2>4 DEF ServeTtl, RefuseHold, serverVars
  <2>5. CASE ServeBook(r)
    <3>1. [seats |-> r.seats, status |-> "pending"] \in Purchase
      BY <2>1 DEF Purchase
    <3>2. sold' \in [Seat -> 0..Elsewhere]
      BY <1>1, <2>1, <2>5, Given DEF ServeBook
    <3>3. bought' \in [1..MaxCalls -> Purchase]
      BY <1>1, <2>1, <2>5, <3>1 DEF ServeBook
    <3> QED
      BY <1>1, <2>5, <3>2, <3>3 DEF ServeBook
  <2>6. CASE ServePay(r)
    <3>1. UNCHANGED <<owner, sold, session>>
      BY <2>6 DEF ServePay
    <3>2. bought' = bought \/ bought' = [bought EXCEPT ![r.b].status = "paid"]
      BY <2>6 DEF ServePay
    <3>3. bought' \in [1..MaxCalls -> Purchase]
      BY <1>1, <3>2 DEF Purchase
    <3> QED
      BY <1>1, <3>1, <3>3
  <2>7. CASE ServeRemainder(r)
    <3>1. PICK S : owner' = Give(owner, S, Nobody)
      BY <2>7 DEF ServeRemainder
    <3>2. owner' \in [Seat -> {Nobody, Me, Other}]
      BY <1>1, <3>1 DEF Give
    <3> QED
      BY <1>1, <2>7, <3>2 DEF ServeRemainder
  <2> QED
    BY <1>3, <2>2, <2>3, <2>4, <2>5, <2>6, <2>7 DEF Serving
<1>4. ASSUME NEW s \in Seat, OtherActs(s) \/ HoldExpires(s) PROVE RoomOK'
  <2>1. owner' \in [Seat -> {Nobody, Me, Other}] /\ sold' \in [Seat -> 0..Elsewhere]
    BY <1>1, <1>4 DEF OtherActs, HoldExpires
  <2> QED
    BY <1>1, <1>4, <2>1 DEF OtherActs, HoldExpires
<1>5. ASSUME NEW b \in 1..MaxCalls, BookingExpires(b) PROVE RoomOK'
  <2>1. bought' \in [1..MaxCalls -> Purchase]
    BY <1>1, <1>5 DEF BookingExpires, Purchase
  <2>2. sold' \in [Seat -> 0..Elsewhere]
    BY <1>1, <1>5, Given DEF BookingExpires
  <2> QED
    BY <1>1, <1>5, <2>1, <2>2 DEF BookingExpires
<1>6. CASE SessionEnds \/ LogOut \/ LogIn
  BY <1>1, <1>6 DEF SessionEnds, LogOut, LogIn
<1>7. ASSUME NEW r \in reqs, LeftAnswer(r) PROVE RoomOK'
  BY <1>1, <1>7, LeftTouches
<1> QED
  BY <1>2, <1>3, <1>4, <1>5, <1>6, <1>7, ServerTouched

LEMMA NextShownOK == ASSUME Types, Next PROVE ShownOK'
<1> DEFINE Map == /\ seen \in [Seat -> Statuses]
                  /\ load \in [st : {"none", "sent", "read"}, view : [Seat -> Statuses]]
                  /\ hasData \in BOOLEAN /\ error \in BOOLEAN
           Mount == place \in {"map", "login"} /\ user \in BOOLEAN /\ restored \in BOOLEAN
           Loads == [st : {"none", "sent", "read"}, view : [Seat -> Statuses]]
<1>1. Map /\ Mount /\ session \in BOOLEAN
  BY DEF Types, ShownOK, RoomOK
<1>2. Loading \in Loads /\ NoLoad \in Loads /\ Blank \in [Seat -> Statuses]
  BY StatusesOK DEF Loading, NoLoad
<1>3. \A s \in Seat : MyStatus(s) \in Statuses /\ RoomStatus(s) \in Statuses /\ "available" \in Statuses
  BY StatusesOK DEF Statuses
<1>4. Map'
  <2>1. CASE UNCHANGED mapVars
    BY <1>1, <2>1 DEF mapVars
  <2>2. ASSUME Leaving PROVE Map'
    BY <1>1, <1>2, <2>2, StartsAnew
  <2>3. ASSUME NEW r \in reqs, Answering(r) PROVE Map'
    <3>1. UNCHANGED mapVars \/ Reloads \/ Leaving
      BY <2>3, LeavesPage DEF Answering, HoldAnswer, ReleaseAnswer, TtlAnswer, BookAnswer, PayAnswer
    <3> QED
      BY <1>1, <1>2, <2>1, <2>2, <3>1 DEF Reloads
  <2>4. ASSUME NEW s \in Seat, Hear(s) PROVE Map'
    <3> DEFINE told == IF RoomStatus(s) = "held" /\ s \in heldRef THEN "available" ELSE RoomStatus(s)
    <3>1. told \in Statuses
      BY <1>3
    <3>2. seen' = [seen EXCEPT ![s] = told] /\ UNCHANGED <<hasData, error, load>>
      BY <2>4 DEF Hear
    <3> HIDE DEF told
    <3> QED
      BY <1>1, <3>1, <3>2
  <2>5. CASE ServeLoad
    BY <1>1, <1>3, <2>5 DEF ServeLoad
  <2>6. CASE FinishLoad \/ LoadFails \/ TryAgain \/ CountdownEnds
    <3>1. /\ seen' \in [Seat -> Statuses] /\ load' \in Loads
          /\ hasData' \in {TRUE, FALSE, hasData} /\ error' \in {TRUE, FALSE, error}
      BY <1>1, <1>2, <2>6 DEF FinishLoad, LoadFails, TryAgain, CountdownEnds, Reloads
    <3> QED
      BY <1>1, <3>1
  <2> QED
    BY <2>1, <2>2, <2>3, <2>4, <2>5, <2>6, MapTouched
<1>5. Mount'
  <2>1. /\ place' \in {"map", "login", place}
        /\ user' \in {user, TRUE, FALSE, session}
        /\ restored' \in {restored, TRUE, FALSE}
    <3>1. CASE UNCHANGED mountVars
      BY <3>1 DEF mountVars
    <3>2. ASSUME NEW r \in reqs, LoggedOut(r) \/ LeftAnswer(r)
          PROVE  /\ place' \in {"map", "login", place}
                 /\ user' \in {user, TRUE, FALSE, session}
                 /\ restored' \in {restored, TRUE, FALSE}
      BY <3>2, LeftTouches, StartsAnew DEF LoggedOut, Unmounts, mountVars
    <3>3. CASE Render
      BY <1>1, <3>3 DEF Render
    <3>4. CASE Proceed \/ LogOut \/ LogIn \/ Refresh
      BY <3>4 DEF Proceed, LogOut, LogIn, Refresh, Unmounts, mountVars
    <3> QED
      BY <3>1, <3>2, <3>3, <3>4, MountTouched
  <2> QED
    BY <1>1, <2>1
<1> HIDE DEF Map, Mount
<1>6. ShownOK' <=> Map' /\ Mount'
  BY DEF ShownOK, Map, Mount
<1> QED
  BY <1>4, <1>5, <1>6

LEMMA NextSeatsOK == ASSUME Types, Next PROVE SeatsOK'
<1>1. /\ handoff \subseteq Seat /\ chosen \subseteq Seat /\ pending \subseteq Seat
      /\ heldIds \subseteq Seat /\ heldRef \subseteq Seat /\ stored \subseteq Seat
      /\ parted \subseteq Seat /\ counting \in BOOLEAN
  BY DEF Types, SeatsOK
<1>2. \A r \in reqs : r.seats \subseteq Seat /\ r.got \subseteq Seat /\ r.ref \subseteq Seat
  BY DEF Types, CallsOK, Request
<1>3. Leaving => /\ chosen' = {} /\ pending' = {} /\ heldIds' = {} /\ heldRef' = {}
                 /\ stored' = stored /\ counting' = FALSE
  BY StartsAnew
<1>4. chosen' \subseteq Seat
  <2>1. CASE UNCHANGED selVars \/ Leaving
    BY <1>1, <1>3, <2>1 DEF selVars
  <2>2. ASSUME NEW r \in reqs, HoldAnswer(r) \/ ReleaseAnswer(r) \/ TtlAnswer(r) \/ BookAnswer(r)
        PROVE  chosen' \subseteq Seat
    <3>1. \/ chosen' \in {{}, chosen}
          \/ \E T \in {r.seats, r.got, heldRef} : chosen' \in Toggles(chosen, T, r.view)
      BY <1>3, <2>2, LeavesPage DEF HoldAnswer, ReleaseAnswer, TtlAnswer, BookAnswer, Undone, selVars
    <3> QED
      BY <1>1, <1>2, <3>1, TogglesWithin
  <2>3. ASSUME NEW s \in Seat, Click(s) PROVE chosen' \subseteq Seat
    <3>1. chosen' \in Toggles(chosen, {s}, seen)
      BY <2>3 DEF Click
    <3> QED
      BY <1>1, <3>1, TogglesWithin
  <2>4. ASSUME NEW P \in SUBSET Seat, Suggest(P) PROVE chosen' \subseteq Seat
    <3>1. PICK T \in SUBSET Seat : chosen' \in Toggles(chosen \ (Selected \ P), T, seen)
      BY <2>4 DEF Suggest
    <3> QED
      BY <1>1, <3>1, TogglesWithin
  <2>5. CASE Render
    <3>1. chosen' \in {chosen \ Conflicted} \cup Toggles(chosen \ Conflicted, handoff, seen)
      BY <2>5 DEF Render
    <3> QED
      BY <1>1, <3>1, TogglesWithin
  <2>6. CASE Clear \/ CountdownEnds
    BY <2>6 DEF Clear, CountdownEnds
  <2> QED
    BY <2>1, <2>2, <2>3, <2>4, <2>5, <2>6, SelectionTouched
<1>5. pending' \subseteq Seat
  <2>1. ASSUME NEW P \in SUBSET Seat, Suggest(P) PROVE pending' \subseteq Seat
    <3>1. pending' \subseteq pending \cup (Selected \ P) \cup P
      BY <2>1 DEF Suggest
    <3> QED
      BY <1>1, <3>1, SelectedWithin
  <2>2. ASSUME NEW r \in reqs, HoldAnswer(r) \/ ReleaseAnswer(r) \/ TtlAnswer(r) \/ BookAnswer(r)
        PROVE  pending' \subseteq Seat
    BY <1>1, <1>3, <2>2, LeavesPage DEF HoldAnswer, ReleaseAnswer, TtlAnswer, BookAnswer, selVars
  <2>3. ASSUME NEW s \in Seat, Click(s) PROVE pending' \subseteq Seat
    BY <1>1, <2>3 DEF Click
  <2> QED
    BY <1>1, <1>3, <2>1, <2>2, <2>3, SelectionTouched DEF Render, Clear, CountdownEnds, selVars
<1>6. heldIds' \subseteq Seat /\ heldRef' \subseteq Seat /\ stored' \subseteq Seat /\ counting' \in BOOLEAN
  <2> DEFINE Held == /\ heldIds \subseteq Seat /\ heldRef \subseteq Seat /\ stored \subseteq Seat
                     /\ counting \in BOOLEAN
  <2>1. CASE UNCHANGED holdVars
    BY <1>1, <2>1 DEF holdVars
  <2>2. ASSUME NEW G, NEW S, LetsGo(G, S) PROVE Held'
    BY <1>1, <2>2 DEF LetsGo
  <2>3. ASSUME NEW r \in reqs, HoldAnswer(r) \/ TtlAnswer(r) PROVE Held'
    BY <1>1, <1>2, <2>3 DEF HoldAnswer, TtlAnswer
  <2>4. ASSUME NEW r \in reqs, BookAnswer(r) PROVE Held'
    <3>1. UNCHANGED holdVars \/ LetsGo({heldRef}, heldRef) \/ Leaving
      BY <2>4, LeavesPage DEF BookAnswer
    <3> QED
      BY <1>1, <1>3, <2>1, <2>2, <3>1
  <2>5. ASSUME NEW s \in Seat, Click(s) PROVE Held'
    <3>1. UNCHANGED holdVars \/ LetsGo({{s}}, {s})
      BY <2>5 DEF Click
    <3> QED
      BY <2>1, <2>2, <3>1
  <2>6. ASSUME NEW P \in SUBSET Seat, Suggest(P) PROVE Held'
    <3>1. UNCHANGED holdVars \/ \E G, S : LetsGo(G, S)
      BY <2>6 DEF Suggest
    <3> QED
      BY <2>1, <2>2, <3>1
  <2>7. CASE Render \/ CountdownEnds
    BY <1>1, <2>7 DEF Render, CountdownEnds
  <2>8. ASSUME NEW r \in reqs, LeftAnswer(r) PROVE Held'
    <3>1. stored' \in {stored, {}, r.got, r.ref \cup r.seats}
      BY <1>3, <2>8, LeavesPage DEF LeftAnswer
    <3> QED
      BY <1>1, <1>2, <1>3, <2>8, <3>1, LeftTouches
  <2> QED
    BY <1>1, <1>3, <2>1, <2>3, <2>4, <2>5, <2>6, <2>7, <2>8, HoldsTouched
<1>7. handoff' \subseteq Seat
  <2>1. \A r \in reqs : LoggedOut(r) \/ LeftAnswer(r) => handoff' \in {handoff, r.seats}
    BY LeftTouches DEF LoggedOut, Unmounts, mountVars
  <2>2. Render \/ Proceed \/ LogOut \/ LogIn \/ Refresh => handoff' \in {handoff, {}, Selected}
    BY DEF Render, Proceed, LogOut, LogIn, Refresh, Unmounts, mountVars
  <2> QED
    BY <1>1, <1>2, <2>1, <2>2, MountTouched, SelectedWithin DEF mountVars
<1>8. parted' \subseteq Seat
  <2>1. ASSUME NEW r \in reqs, Serving(r) PROVE parted' \subseteq Seat
    <3>1. ASSUME NEW s \in Seat, TakeSeat(r, s) \/ UndoSeat(r, s) PROVE parted' \subseteq Seat
      BY <1>1, <3>1 DEF TakeSeat, UndoSeat
    <3> QED
      BY <1>1, <1>2, <2>1, <3>1
         DEF Serving, RefuseHold, ServeRelease, ServeTtl, ServeBook, ServeRemainder, ServePay
  <2>2. ASSUME NEW r \in reqs, HoldAnswer(r) \/ TtlAnswer(r) PROVE parted' \subseteq Seat
    BY <1>1, <1>2, <2>2 DEF HoldAnswer, TtlAnswer
  <2> QED
    BY <1>1, <2>1, <2>2, PartedTouched DEF HoldExpires
<1> QED
  BY <1>4, <1>5, <1>6, <1>7, <1>8 DEF SeatsOK

LEMMA NextTicketsOK == ASSUME Types, Next PROVE TicketsOK'
<1>1. seq \in [Seat -> 0..calls] /\ calls \in Nat /\ calls' \in Nat /\ calls <= calls'
  BY NextCalls DEF Types, TicketsOK, CountsOK
<1>2. CASE seq' = seq
  BY <1>1, <1>2 DEF TicketsOK
<1>3. ASSUME Leaving PROVE TicketsOK'
  BY <1>1, <1>3, StartsAnew DEF TicketsOK
<1>4. ASSUME NEW s \in Seat, Click(s) PROVE TicketsOK'
  <2>1. CASE user
    <3>1. calls' = calls + 1 /\ seq' = [seq EXCEPT ![s] = calls + 1]
      BY <1>4, <2>1, ClickCalls DEF Click
    <3> QED
      BY <1>1, <3>1 DEF TicketsOK
  <2>2. CASE ~user
    BY <1>2, <1>4, <2>2 DEF Click
  <2> QED
    BY <2>1, <2>2
<1>5. ASSUME NEW P \in SUBSET Seat, Suggest(P) PROVE TicketsOK'
  <2>1. CASE user
    <3>1. PICK id \in [Toggled(P) -> calls + 1 .. calls'] : SuggestsWith(P, id)
      BY <1>5, <2>1, SuggestCalls
    <3>2. seq' = [s \in Seat |-> IF s \in Toggled(P) THEN id[s] ELSE seq[s]]
      BY <3>1 DEF SuggestsWith
    <3> QED
      BY <1>1, <3>2 DEF TicketsOK
  <2>2. CASE ~user
    BY <1>2, <1>5, <2>2 DEF Suggest
  <2> QED
    BY <2>1, <2>2
<1>6. ASSUME NEW r \in reqs, HoldAnswer(r) \/ ReleaseAnswer(r) \/ TtlAnswer(r) \/ BookAnswer(r)
      PROVE  seq' = seq \/ Leaving
  BY <1>6, LeavesPage DEF HoldAnswer, ReleaseAnswer, TtlAnswer, BookAnswer, selVars
<1>7. Render \/ Clear \/ CountdownEnds => seq' = seq
  BY DEF Render, Clear, CountdownEnds
<1> QED
  BY <1>2, <1>3, <1>4, <1>5, <1>6, <1>7, SelectionTouched DEF selVars

LEMMA NextCheckoutOK == ASSUME Types, Next PROVE CheckoutOK'
<1>1. calls \in Nat /\ calls' \in Nat /\ calls <= calls' /\ CheckoutOK
  BY NextCalls DEF Types, CountsOK
<1>2. NoBooking.b = 0 /\ NoBooking \in [b : 0..calls', status : {"none", "pending", "paid"}] /\ NoEvent \in 0..calls'
  BY <1>1 DEF NoBooking, NoEvent
<1>3. booking' = booking /\ event' = event /\ busy' \in BOOLEAN /\ paying' \in BOOLEAN => CheckoutOK'
  BY <1>1 DEF CheckoutOK
<1>4. booking' = NoBooking /\ event' = NoEvent /\ busy' \in BOOLEAN /\ paying' \in BOOLEAN => CheckoutOK'
  BY <1>2 DEF CheckoutOK
<1>5. busy \in BOOLEAN /\ paying \in BOOLEAN
  BY DEF Types, CheckoutOK
<1>6. ASSUME Leaving PROVE CheckoutOK'
  BY <1>4, <1>6, StartsAnew
<1>7. ASSUME NEW r \in reqs, BookAnswer(r) PROVE CheckoutOK'
  <2>1. r.op = "book" /\ r.id \in 1..calls /\ r.b = r.id
    BY <1>7 DEF BookAnswer, Answers, Types, CallsOK, Meant
  <2>2. CASE r.st = "ok"
    <3>1. booking' = [b |-> r.b, status |-> "pending"] /\ event' = r.id /\ busy' = FALSE /\ paying' = paying
      BY <1>7, <2>2 DEF BookAnswer
    <3>2. /\ booking' \in [b : 0..calls', status : {"none", "pending", "paid"}]
          /\ event' \in 0..calls' /\ event' = booking'.b
      BY <1>1, <2>1, <3>1
    <3>3. busy' \in BOOLEAN /\ paying' \in BOOLEAN
      BY <1>5, <3>1
    <3> QED
      BY <3>2, <3>3 DEF CheckoutOK
  <2>3. CASE r.st # "ok"
    BY <1>3, <1>5, <1>6, <1>7, <2>3, LeavesPage DEF BookAnswer
  <2> QED
    BY <2>2, <2>3
<1>8. ASSUME NEW r \in reqs, PayAnswer(r) PROVE CheckoutOK'
  <2>1. CASE r.st = "paid"
    <3>1. booking' = [booking EXCEPT !.status = "paid"] /\ event' = event /\ busy' = busy /\ paying' = FALSE
      BY <1>8, <2>1 DEF PayAnswer
    <3>2. /\ booking' \in [b : 0..calls', status : {"none", "pending", "paid"}]
          /\ event' \in 0..calls' /\ (booking'.b # 0 => event' = booking'.b)
      BY <1>1, <3>1 DEF CheckoutOK
    <3>3. busy' \in BOOLEAN /\ paying' \in BOOLEAN
      BY <1>5, <3>1
    <3> QED
      BY <3>2, <3>3 DEF CheckoutOK
  <2>2. CASE r.st # "paid"
    BY <1>3, <1>5, <1>6, <1>8, <2>2, LeavesPage DEF PayAnswer
  <2> QED
    BY <2>1, <2>2
<1>9. CASE (Proceed /\ user) \/ Pay
  BY <1>3, <1>5, <1>9 DEF Proceed, Pay
<1>10. CASE Dismiss
  BY <1>4, <1>5, <1>10 DEF Dismiss
<1>11. CASE UNCHANGED payVars
  BY <1>3, <1>5, <1>11 DEF payVars
<1> QED
  BY <1>6, <1>7, <1>8, <1>9, <1>10, <1>11, CheckoutTouched

\* A payment event decides one booking: its own.
LEMMA Decides ==
  ASSUME Types, Next
  PROVE  \A d \in decided' : \/ d \in decided
                             \/ /\ d.b \in 1..MaxCalls /\ d.event = d.b /\ d.outcome \in {"paid", "failed"}
                                /\ \A e \in decided' : d.event = e.event => d = e
<1>1. CASE UNCHANGED serverVars
  BY <1>1 DEF serverVars
<1>2. ASSUME NEW r \in reqs, ServePay(r), decided' # decided
      PROVE  \E o \in {"paid", "failed"} :
               /\ decided' = decided \cup {[event |-> r.event, b |-> r.b, outcome |-> o]}
               /\ \A d \in decided : d.event # r.event
               /\ r.event = r.b /\ r.b \in 1..MaxCalls
  <2>1. r.op = "pay" /\ r.b \in 0..calls /\ Meant(r) /\ calls \in 0..MaxCalls
    BY <1>2 DEF ServePay, Serves, Types, CallsOK, CountsOK
  <2>2. r.event = r.b /\ r.b \in 1..MaxCalls
    BY <2>1, Bounds DEF Meant
  <2> QED
    BY <1>2, <2>2 DEF ServePay
<1>3. ASSUME NEW r \in reqs, Serving(r), ~ServePay(r) PROVE decided' = decided
  BY <1>3 DEF Serving, TakeSeat, RefuseHold, UndoSeat, ServeRelease, ServeTtl, ServeBook, ServeRemainder, serverVars
<1>4. (\E s \in Seat : OtherActs(s) \/ HoldExpires(s)) \/ (\E b \in 1..MaxCalls : BookingExpires(b))
      \/ SessionEnds \/ LogOut \/ LogIn \/ (\E r \in reqs : LeftAnswer(r)) => decided' = decided
  BY LeftTouches DEF OtherActs, HoldExpires, BookingExpires, SessionEnds, LogOut, LogIn
<1>5. ASSUME NEW r \in reqs, ServePay(r), decided' # decided, NEW d \in decided', d \notin decided
      PROVE  /\ d.b \in 1..MaxCalls /\ d.event = d.b /\ d.outcome \in {"paid", "failed"}
             /\ \A e \in decided' : d.event = e.event => d = e
  BY <1>2, <1>5
<1> QED
  BY <1>1, <1>3, <1>4, <1>5, ServerTouched

LEMMA NextDecidedOK == ASSUME Types, Next PROVE DecidedOK'
  BY Decides DEF Types, DecidedOK

LEMMA NextTypes == ASSUME Types, Next PROVE Types'
  BY NextCallsOK, NextCountsOK, NextRoomOK, NextShownOK, NextSeatsOK, NextTicketsOK, NextCheckoutOK,
     NextDecidedOK DEF Types
-----------------------------------------------------------------------------
(* The three safety invariants.                                            *)

\* A click's call stays until it is answered, or the page is left.
LEMMA ClicksStay ==
  ASSUME Types, Next, NEW r \in reqs, r.by = "click", ~Leaving
  PROVE  \/ \E q \in reqs' : q.by = "click" /\ q.id = r.id /\ q.seats = r.seats
         \/ HoldAnswer(r) \/ ReleaseAnswer(r)
<1>1. CASE r \in reqs'
  BY <1>1
<1>2. ASSUME NEW p \in reqs, Serving(p) \/ Lose(p)
      PROVE  \E q \in reqs' : q.by = "click" /\ q.id = r.id /\ q.seats = r.seats
  <2>1. PICK N, O : GoesOn(p, N, O)
    BY <1>2, ServesOn
  <2>2. CASE p # r
    BY <2>1, <2>2 DEF GoesOn
  <2>3. CASE p = r
    <3>1. r.op # "remainder"
      BY DEF Types, CallsOK, Meant
    <3>2. PICK c \in N : TRUE
      BY <2>1, <2>3, <3>1 DEF GoesOn
    <3>3. c \in reqs' /\ c.by = "click" /\ c.id = r.id /\ c.seats = r.seats
      BY <2>1, <2>3, <3>2 DEF GoesOn, ServedAs, SameCall
    <3> QED
      BY <3>3
  <2> QED
    BY <2>2, <2>3
<1>3. ASSUME NEW p \in reqs, Answering(p) \/ LeftAnswer(p) PROVE r \in reqs' \/ HoldAnswer(r) \/ ReleaseAnswer(r)
  <2>1. p # r => r \in reqs'
    BY <1>3, AnsweredCalls
  <2>2. r.op \in {"hold", "release"}
    BY DEF Types, CallsOK, Meant
  <2>3. p = r => HoldAnswer(r) \/ ReleaseAnswer(r)
    BY <1>3, <2>2 DEF Answering, TtlAnswer, BookAnswer, PayAnswer, Answers, LeftAnswer
  <2> QED
    BY <2>1, <2>3
<1>4. ASSUME NEW s \in Seat, Click(s), user PROVE r \in reqs'
  BY <1>4, ClickCalls
<1>5. ASSUME NEW P \in SUBSET Seat, Suggest(P), user PROVE r \in reqs'
  BY <1>5, SuggestCalls DEF SuggestsWith
<1>6. Render \/ (Proceed /\ user) \/ Pay \/ Resync => r \in reqs'
  BY RenderCalls, OneMore
<1> QED
  BY <1>1, <1>2, <1>3, <1>4, <1>5, <1>6, CallsTouched

AwaitedSeat(s) == \E r \in reqs : r.by = "click" /\ r.id = seq[s] /\ s \in r.seats

LEMMA NextPending == ASSUME Types, PendingIsAwaited, Next PROVE PendingIsAwaited'
<1> SUFFICES ASSUME NEW s \in pending' PROVE AwaitedSeat(s)'
  BY DEF PendingIsAwaited, AwaitedSeat
<1>1. CASE Leaving
  BY <1>1, StartsAnew
<1>2. \A t \in pending : AwaitedSeat(t)
  BY DEF PendingIsAwaited, AwaitedSeat
<1>3. ASSUME NEW p \in reqs, HoldAnswer(p) \/ ReleaseAnswer(p) PROVE AwaitedSeat(s)'
  <2>1. /\ reqs' = reqs \ {p} /\ seq' = seq
        /\ pending' = IF p.by = "click" /\ IsCurrent(p) THEN pending \ p.seats ELSE pending
    BY <1>3 DEF HoldAnswer, ReleaseAnswer, Answered, Answers
  <2>2. PICK r \in reqs : r.by = "click" /\ r.id = seq[s] /\ s \in r.seats
    BY <1>2, <2>1 DEF AwaitedSeat
  <2>3. \E t \in Seat : r.seats = {t}
    BY <2>2 DEF Types, CallsOK, Meant
  <2>4. r # p
    BY <2>1, <2>2, <2>3 DEF IsCurrent
  <2> QED
    BY <2>1, <2>2, <2>4 DEF AwaitedSeat
<1>4. CASE s \in pending /\ seq' = seq /\ ~Leaving
  <2>1. PICK r \in reqs : r.by = "click" /\ r.id = seq[s] /\ s \in r.seats
    BY <1>2, <1>4 DEF AwaitedSeat
  <2>2. (\E q \in reqs' : q.by = "click" /\ q.id = r.id /\ q.seats = r.seats) \/ HoldAnswer(r) \/ ReleaseAnswer(r)
    BY <1>4, <2>1, ClicksStay
  <2> QED
    BY <1>3, <1>4, <2>1, <2>2 DEF AwaitedSeat
<1>5. ASSUME NEW t \in Seat, Click(t) PROVE AwaitedSeat(s)' \/ (s \in pending /\ UNCHANGED <<seq, reqs>>)
  <2>1. CASE user
    <3>1. PICK c : reqs' = reqs \cup {c} /\ c.id = calls + 1 /\ c.by = "click" /\ c.seats = {t}
      BY <1>5, <2>1, ClickCalls
    <3>2. seq' = [seq EXCEPT ![t] = calls + 1] /\ pending' = pending \cup {t} /\ seq \in [Seat -> 0..calls]
      BY <1>5, <2>1 DEF Click, Types, TicketsOK
    <3>3. s \in Seat
      BY NextTypes DEF Types, SeatsOK
    <3>4. CASE s = t
      BY <3>1, <3>2, <3>3, <3>4 DEF AwaitedSeat
    <3>5. CASE s # t
      <4>1. s \in pending /\ seq'[s] = seq[s]
        BY <3>2, <3>3, <3>5
      <4> QED
        BY <1>2, <3>1, <4>1 DEF AwaitedSeat
    <3> QED
      BY <3>4, <3>5
  <2>2. CASE ~user
    BY <1>5, <2>2 DEF Click
  <2> QED
    BY <2>1, <2>2
<1>6. ASSUME NEW P \in SUBSET Seat, Suggest(P) PROVE AwaitedSeat(s)' \/ (s \in pending /\ UNCHANGED <<seq, reqs>>)
  <2>1. CASE user
    <3>1. PICK id \in [Toggled(P) -> calls + 1 .. calls'] : SuggestsWith(P, id)
      BY <1>6, <2>1, SuggestCalls
    <3>2. /\ seq' = [x \in Seat |-> IF x \in Toggled(P) THEN id[x] ELSE seq[x]]
          /\ pending' = pending \cup Toggled(P)
          /\ reqs' = reqs \cup {SuggestedCall(P, id, x) : x \in Toggled(P)}
          /\ \A x \in Toggled(P) : /\ SuggestedCall(P, id, x).id = id[x]
                                   /\ SuggestedCall(P, id, x).by = "click"
                                   /\ SuggestedCall(P, id, x).seats = {x}
      BY <3>1 DEF SuggestsWith, Asks
    <3>3. s \in Seat
      BY NextTypes DEF Types, SeatsOK
    <3>4. CASE s \in Toggled(P)
      BY <3>2, <3>3, <3>4 DEF AwaitedSeat
    <3>5. CASE s \notin Toggled(P)
      <4>1. s \in pending /\ seq'[s] = seq[s]
        BY <3>2, <3>3, <3>5
      <4> QED
        BY <1>2, <3>2, <4>1 DEF AwaitedSeat
    <3> QED
      BY <3>4, <3>5
  <2>2. CASE ~user
    BY <1>6, <2>2 DEF Suggest
  <2> QED
    BY <2>1, <2>2
<1>7. \A r \in reqs : TtlAnswer(r) \/ BookAnswer(r) =>
        (seq' = seq /\ pending' \subseteq pending) \/ Leaving
  BY LeavesPage DEF TtlAnswer, BookAnswer, selVars
<1>8. Render \/ Clear \/ CountdownEnds => seq' = seq /\ pending' \subseteq pending
  BY DEF Render, Clear, CountdownEnds
<1>9. UNCHANGED selVars => seq' = seq /\ pending' \subseteq pending
  BY DEF selVars
<1> QED
  BY <1>1, <1>2, <1>3, <1>4, <1>5, <1>6, <1>7, <1>8, <1>9, SelectionTouched

LEMMA NextDecided == ASSUME Types, BookingDecidedOnce, Next PROVE BookingDecidedOnce'
<1> SUFFICES ASSUME NEW d \in decided', NEW e \in decided', d.b = e.b PROVE d = e
  BY DEF BookingDecidedOnce
<1>1. d.event = d.b /\ e.event = e.b
  BY NextDecidedOK DEF DecidedOK
<1> QED
  BY <1>1, Decides DEF BookingDecidedOnce
-----------------------------------------------------------------------------
(* What clicks do to the selection.                                        *)

\* A seat that is not toggled stays as it is; a chosen one is dropped.
LEMMA TogglesOne ==
  ASSUME NEW C, NEW T, NEW view, NEW X \in Toggles(C, T, view), NEW s
  PROVE  /\ s \notin T => (s \in X <=> s \in C)
         /\ s \in C /\ s \in T /\ view[s] = "available" => s \notin X
  BY DEF Toggles, Selectable

\* q is the call of a click on s in this step, under the seat's new ticket: a
\* release of a seat that leaves the selection, or a hold of one that joins it.
Clicks(q, s) ==
  /\ Fresh(q) /\ q.by = "click" /\ q.seats = {s} /\ q.id = seq'[s]
  /\ \/ q.op = "release" /\ s \notin chosen'
     \/ q.op = "hold" /\ s \in chosen' /\ q.view[s] = "available"

\* The seats T are clicked in this step, and no others.
Outcome(T) ==
  /\ \A s \in T : \E q \in reqs' : Clicks(q, s)
  /\ \A q \in reqs' : q \in reqs \/ \E s \in T : Clicks(q, s)
  /\ \A s \in Seat \ T : /\ seq'[s] = seq[s]
                         /\ s \in chosen' <=> s \in chosen
                         /\ s \in pending' => s \in pending

LEMMA ClickOutcome ==
  ASSUME Types, NEW s \in Seat, Click(s), user
  PROVE  Outcome({s})
<1>1. calls \in Nat /\ seq \in [Seat -> 0..calls] /\ seq' = [seq EXCEPT ![s] = calls + 1] /\ pending' = pending \cup {s}
  BY DEF Types, CountsOK, TicketsOK, Click
<1>2. PICK c : /\ reqs' = reqs \cup {c} /\ Fresh(c)
               /\ c.id = calls + 1 /\ c.by = "click" /\ c.seats = {s}
               /\ c.op = IF s \in Selected THEN "release" ELSE "hold"
               /\ c.op = "hold" => c.view = seen
  BY ClickCalls
<1>3. chosen' \in Toggles(chosen, {s}, seen) /\ seen[s] = "available" /\ hasData
  BY DEF Click, OnMap, Selectable
<1>4. s \in Selected => s \notin chosen'
  BY <1>3, TogglesOne DEF Selected
<1>5. s \notin Selected => s \in chosen'
  <2> SUFFICES ASSUME s \notin Selected PROVE s \in chosen'
    OBVIOUS
  <2>1. s \notin chosen /\ ~LimitReached
    BY <1>3 DEF Selected, Selectable, Click
  <2>2. PICK X \in SUBSET {s} : /\ chosen' = chosen \cup X
                                /\ X = {s} \/ Cardinality({t \in chosen \cup X : Selectable(seen, t)}) >= MaxSeats
    <3>1. {t \in {s} : Selectable(seen, t)} = {s} /\ chosen \ {s} = chosen /\ {s} \ chosen = {s}
      BY <1>3, <2>1 DEF Selectable
    <3> QED
      BY <1>3, <3>1 DEF Toggles
  <2>3. CASE X = {}
    <3>1. {t \in chosen \cup X : Selectable(seen, t)} = Selected
      BY <1>3, <2>3 DEF Selected
    <3> QED
      BY <2>1, <2>2, <2>3, <3>1 DEF LimitReached
  <2>4. CASE X # {}
    <3>1. PICK t \in X : t = s
      BY <2>4
    <3>2. chosen' = chosen \cup X
      BY <2>2
    <3> QED
      BY <3>1, <3>2
  <2> QED
    BY <2>3, <2>4
<1>6. Clicks(c, s)
  BY <1>1, <1>2, <1>3, <1>4, <1>5 DEF Clicks
<1>7. \A t \in Seat \ {s} : seq'[t] = seq[t] /\ (t \in chosen' <=> t \in chosen) /\ (t \in pending' => t \in pending)
  BY <1>1, <1>3, TogglesOne
<1> QED
  BY <1>2, <1>6, <1>7 DEF Outcome

\* A suggestion drops all of the seats it drops, and there is room for all
\* that it adds.
LEMMA SuggestToggles ==
  ASSUME Types, NEW P \in SUBSET Seat, Suggest(P)
  PROVE  /\ \A s \in Drops(P) : s \notin chosen'
         /\ \A s \in Adds(P) : s \in chosen' /\ seen[s] = "available"
         /\ \A s \in Seat \ Toggled(P) : s \in chosen' <=> s \in chosen
<1> DEFINE drops == Drops(P)
           adds  == Adds(P)
           C     == chosen \ drops
           count == Cardinality(Selected)
           wanted == IF count = 0 THEN IF MaxSeats < 2 THEN MaxSeats ELSE 2 ELSE count
<1>1. /\ chosen' \in Toggles(C, adds, seen) /\ hasData
      /\ Cardinality(P) = wanted /\ \A s \in P : seen[s] = "available"
  BY DEF Suggest, OnMap, Drops, Adds, Selectable
<1>2. drops \subseteq chosen /\ adds \cap drops = {} /\ adds \subseteq P
  BY SelectedWithin DEF Drops, Adds
<1>3. \A s \in adds : s \notin chosen
  BY <1>1 DEF Adds, Selected, Selectable
<1>4. \A s \in adds : s \in chosen'
  <2> SUFFICES ASSUME adds # {} PROVE adds \subseteq chosen'
    OBVIOUS
  <2>1. ~LimitReached /\ adds = P \ Selected
    BY DEF Adds
  <2>2. PICK X \in SUBSET adds : /\ chosen' = C \cup X
                                 /\ X = adds \/ Cardinality({t \in C \cup X : Selectable(seen, t)}) >= MaxSeats
    <3>1. {t \in adds : Selectable(seen, t)} = adds /\ C \ adds = C /\ adds \ C = adds
      BY <1>1, <1>2, <1>3 DEF Selectable
    <3> HIDE DEF adds, C
    <3> QED
      BY <1>1, <3>1 DEF Toggles
  <2>3. CASE X # adds
    <3> DEFINE L == {t \in C \cup X : Selectable(seen, t)}
    <3>1. L \subseteq P
      BY <1>1, <1>2 DEF Drops, Selected
    <3>2. L # P
      <4>1. PICK s \in adds : s \notin X
        BY <2>3
      <4>2. s \notin C
        BY <1>3, <4>1
      <4> QED
        BY <1>2, <4>1, <4>2
    <3>3. IsFiniteSet(P) /\ IsFiniteSet(Selected)
      BY Bounds, FS_Subset, SelectedWithin DEF Types, SeatsOK
    <3>4. Cardinality(L) < Cardinality(P) /\ Cardinality(L) \in Nat
      BY <3>1, <3>2, <3>3, FS_Subset, FS_CardinalityType
    <3>5. count \in Nat /\ count < MaxSeats /\ MaxSeats \in Nat
      BY <2>1, <3>3, Bounds, FS_CardinalityType DEF LimitReached
    <3>6. wanted <= MaxSeats /\ wanted \in Nat
      BY <3>5
    <3> HIDE DEF L, wanted
    <3>7. ~(Cardinality(L) >= MaxSeats)
      BY <1>1, <3>4, <3>5, <3>6
    <3> QED
      BY <2>2, <2>3, <3>7 DEF L
  <2> QED
    BY <2>2, <2>3
<1>5. \A s \in drops : s \notin chosen'
  BY <1>1, <1>2, TogglesOne
<1>6. \A s \in Seat \ Toggled(P) : s \in chosen' <=> s \in chosen
  BY <1>1, TogglesOne DEF Toggled
<1>7. \A s \in adds : seen[s] = "available"
  BY <1>1, <1>2
<1> QED
  BY <1>4, <1>5, <1>6, <1>7

LEMMA SuggestOutcome ==
  ASSUME Types, NEW P \in SUBSET Seat, Suggest(P), user
  PROVE  Outcome(Toggled(P)) /\ Toggled(P) \subseteq Seat
<1>1. PICK id \in [Toggled(P) -> calls + 1 .. calls'] : SuggestsWith(P, id)
  BY SuggestCalls
<1>2. Toggled(P) \subseteq Seat
  BY SuggestCalls
<1> DEFINE c(s) == SuggestedCall(P, id, s)
<1>3. /\ seq' = [x \in Seat |-> IF x \in Toggled(P) THEN id[x] ELSE seq[x]]
      /\ pending' = pending \cup Toggled(P)
      /\ reqs' = reqs \cup {c(x) : x \in Toggled(P)}
      /\ \A s \in Toggled(P) :
           /\ Fresh(c(s))
           /\ c(s).id = id[s] /\ c(s).by = "click" /\ c(s).seats = {s}
           /\ c(s).op = IF s \in Drops(P) THEN "release" ELSE "hold"
           /\ c(s).op = "hold" => c(s).view = seen
  BY <1>1 DEF SuggestsWith, Asks
<1> HIDE DEF c
<1>4. \A s \in Toggled(P) : Clicks(c(s), s)
  BY <1>2, <1>3, SuggestToggles DEF Clicks, Toggled
<1>5. \A s \in Seat \ Toggled(P) : seq'[s] = seq[s] /\ (s \in chosen' <=> s \in chosen) /\ (s \in pending' => s \in pending)
  BY <1>3, SuggestToggles
<1> QED
  BY <1>2, <1>3, <1>4, <1>5 DEF Outcome

\* The visitor clicks, or has clicks made.
Clicking == user /\ ((\E s \in Seat : Click(s)) \/ (\E P \in SUBSET Seat : Suggest(P)))

LEMMA ClickingOutcome ==
  ASSUME Types, Clicking
  PROVE  \E T \in SUBSET Seat : Outcome(T)
  BY ClickOutcome, SuggestOutcome DEF Clicking

\* The list of holds and the countdown: without a list there is no countdown,
\* and one that stops leaves no selected seat on the list.
LEMMA NextCounted ==
  ASSUME Types, Counted, Next
  PROVE  /\ Counted'
         /\ counting' \/ heldIds' \subseteq heldIds
         /\ counting /\ ~counting' => heldIds' \cap chosen' = {}
<1> DEFINE Right == /\ counting' => heldIds' # {}
                    /\ counting' \/ heldIds' \subseteq heldIds
                    /\ counting /\ ~counting' => heldIds' \cap chosen' = {}
<1> SUFFICES Right
  BY DEF Counted
<1> counting \in BOOLEAN /\ (counting => heldIds # {})
  BY DEF Types, SeatsOK, Counted
<1>1. CASE UNCHANGED holdVars
  BY <1>1 DEF holdVars
<1>2. ASSUME Leaving PROVE Right
  BY <1>2, StartsAnew
<1>3. ASSUME NEW r \in reqs, HoldAnswer(r) PROVE Right
  <2>1. r.seats # {}
    BY <1>3 DEF HoldAnswer, Answers, Types, CallsOK, Meant
  <2> QED
    BY <1>3, <2>1 DEF HoldAnswer
<1>4. ASSUME NEW r \in reqs, TtlAnswer(r) PROVE Right
  BY <1>4 DEF TtlAnswer
<1>5. ASSUME NEW r \in reqs, BookAnswer(r) PROVE Right
  <2>1. UNCHANGED holdVars \/ LetsGo({heldRef}, heldRef) \/ Leaving
    BY <1>5, LeavesPage DEF BookAnswer
  <2> QED
    BY <1>1, <1>2, <2>1 DEF LetsGo
<1>6. ASSUME NEW s \in Seat, Click(s) PROVE Right
  <2>1. heldRef = heldIds /\ (UNCHANGED holdVars \/ LetsGo({{s}}, {s}))
    BY <1>6 DEF Click, OnMap
  <2> QED
    BY <1>1, <2>1 DEF LetsGo
<1>7. ASSUME NEW P \in SUBSET Seat, Suggest(P) PROVE Right
  <2>1. heldRef = heldIds
    BY <1>7 DEF Suggest, OnMap
  <2>2. \A s \in Drops(P) : s \notin chosen'
    BY <1>7, SuggestToggles
  <2>3. CASE UNCHANGED holdVars
    BY <1>1, <2>3
  <2>4. CASE user /\ Drops(P) # {}
    <3>1. PICK id \in [Toggled(P) -> calls + 1 .. calls'] : SuggestsWith(P, id)
      BY <1>7, <2>4, SuggestCalls
    <3> DEFINE last == {s \in Drops(P) : \A t \in Drops(P) : id[t] <= id[s]}
    <3>2. LetsGo({{s} : s \in Drops(P)}, last)
      BY <2>4, <3>1 DEF SuggestsWith
    <3>3. PICK s \in Drops(P) : last \subseteq {s}
      <4>1. \A s, t \in last : s = t
        <5>1. \A x \in Toggled(P) : id[x] \in Int
          BY <3>1 DEF Types, CountsOK
        <5> QED
          BY <3>1, <5>1 DEF SuggestsWith, Toggled
      <4> QED
        BY <2>4, <4>1
    <3>4. /\ heldIds' = heldIds \ last
          /\ counting' = (counting /\ \A t \in Drops(P) : ~ heldIds \subseteq {t})
      BY <2>1, <3>2 DEF LetsGo
    <3> HIDE DEF last
    <3> QED
      BY <2>2, <3>3, <3>4
  <2> QED
    BY <1>7, <2>3, <2>4 DEF Suggest, Drops
<1>8. CASE Render
  BY <1>8 DEF Render
<1>9. CASE CountdownEnds
  BY <1>9 DEF CountdownEnds
<1>10. ASSUME NEW r \in reqs, LeftAnswer(r) PROVE Right
  BY <1>2, <1>10, LeftTouches
<1> QED
  BY <1>1, <1>2, <1>3, <1>4, <1>5, <1>6, <1>7, <1>8, <1>9, <1>10, HoldsTouched
-----------------------------------------------------------------------------
(* A settled selection is held.  First: the numbers, and the mount.        *)

LEMMA RequestsAre ==
  ASSUME Types
  PROVE  \A r \in reqs : r \in Request /\ r.id \in 1..calls /\ r.seats \subseteq Seat /\ Meant(r)
  BY DEF Types, CallsOK, Request

\* The page is left, or a call goes on, or is new, or leaves something behind
\* at the server.
LEMMA CallsGoOn ==
  ASSUME Types, Next, NEW q \in reqs'
  PROVE  \/ q \in reqs
         \/ Fresh(q)
         \/ \E r \in reqs : (Serving(r) \/ Lose(r)) /\ ServedAs(r, q)
         \/ \E r \in reqs : /\ ComesOf(q, r) /\ q.by \in Ghosts
                            /\ q.by = "gone" => Open(q) \/ (q = r /\ r.by = "gone")
                            /\ ~Leaving => q.by = "gone"
<1>1. ASSUME NEW r \in reqs, Serving(r) \/ Lose(r)
      PROVE  q \in reqs \/ ServedAs(r, q) \/ LeavesBehind(r, q)
  <2>1. PICK N, O : GoesOn(r, N, O)
    BY <1>1, ServesOn
  <2> QED
    BY <2>1 DEF GoesOn
<1>2. Leaving => \E r \in reqs : /\ ComesOf(q, r) /\ q.by \in Ghosts
                                 /\ q.by = "gone" => Open(q) \/ (q = r /\ r.by = "gone")
  BY Unmounted
<1>3. ASSUME NEW r \in reqs, Answering(r) \/ LeftAnswer(r), ~Leaving PROVE q \in reqs \/ Fresh(q)
  BY <1>3, AnsweredCalls
<1>4. ASSUME NEW s \in Seat, Click(s), user PROVE q \in reqs \/ Fresh(q)
  BY <1>4, ClickCalls
<1>5. ASSUME NEW P \in SUBSET Seat, Suggest(P), user PROVE q \in reqs \/ Fresh(q)
  <2>1. PICK id : SuggestsWith(P, id)
    BY <1>5, SuggestCalls
  <2> QED
    BY <2>1 DEF SuggestsWith
<1>6. Render => q \in reqs \/ Fresh(q)
  BY RenderCalls
<1>7. (Proceed /\ user) \/ Pay \/ Resync => q \in reqs \/ Fresh(q)
  BY OneMore
<1>8. \A r \in reqs : LeavesBehind(r, q) => ComesOf(q, r) /\ q.by = "gone" /\ q.by \in Ghosts /\ Open(q)
  BY DEF LeavesBehind, Ghosts
<1> QED
  BY <1>1, <1>2, <1>3, <1>4, <1>5, <1>6, <1>7, <1>8, CallsTouched

\* A call that is not new has the number and the kind of one of before.
LEMMA KeepsNumber ==
  ASSUME Types, Next, NEW q \in reqs'
  PROVE  Fresh(q) \/ \E r \in reqs : q.id = r.id /\ Kind(q) = Kind(r)
  BY CallsGoOn DEF ServedAs, SameCall, ComesOf, Kind

LEMMA FreshIsNew ==
  ASSUME Types, NEW q, Fresh(q), NEW r \in reqs
  PROVE  q.id # r.id
<1>1. r.id \in 1..calls /\ calls \in Nat
  BY RequestsAre DEF Types, CountsOK
<1> QED
  BY <1>1 DEF Fresh, Request

\* Serving a call makes no new one, nor does leaving the page.
LEMMA NoneFresh ==
  ASSUME Types, NEW q \in reqs', Fresh(q)
  PROVE  ~Leaving /\ \A r \in reqs : ~Serving(r) /\ ~Lose(r)
<1>1. ~Leaving
  BY Unmounted, FreshIsNew DEF ComesOf
<1>2. ASSUME NEW r \in reqs, Serving(r) \/ Lose(r) PROVE FALSE
  <2>1. PICK N, O : GoesOn(r, N, O)
    BY <1>2, ServesOn
  <2>2. \E p \in reqs : q.id = p.id
    BY <2>1 DEF GoesOn, ServedAs, SameCall, LeavesBehind, ComesOf
  <2> QED
    BY <2>2, FreshIsNew
<1> QED
  BY <1>1, <1>2

\* Two new calls of one step have different numbers.
LEMMA FreshOnce ==
  ASSUME Types, Next, NEW p \in reqs', NEW q \in reqs', Fresh(p), Fresh(q), p.id = q.id
  PROVE  p = q
<1>1. p \notin reqs /\ q \notin reqs
  BY FreshIsNew
<1>2. ~Leaving /\ \A r \in reqs : ~Serving(r) /\ ~Lose(r)
  BY NoneFresh
<1>4. ASSUME NEW r \in reqs, Answering(r) \/ LeftAnswer(r) PROVE p = q
  BY <1>1, <1>2, <1>4, AnsweredCalls
<1>5. ASSUME NEW s \in Seat, Click(s), user PROVE p = q
  BY <1>1, <1>5, ClickCalls
<1>6. ASSUME NEW P \in SUBSET Seat, Suggest(P), user PROVE p = q
  <2>1. PICK id \in [Toggled(P) -> calls + 1 .. calls'] : SuggestsWith(P, id)
    BY <1>6, SuggestCalls
  <2>2. PICK s \in Toggled(P), t \in Toggled(P) : p = SuggestedCall(P, id, s) /\ q = SuggestedCall(P, id, t)
    BY <1>1, <2>1 DEF SuggestsWith
  <2>3. p.id = id[s] /\ q.id = id[t]
    BY <2>1, <2>2 DEF SuggestsWith, Asks
  <2> QED
    BY <2>1, <2>2, <2>3 DEF SuggestsWith
<1>7. Render => p = q
  BY <1>1, RenderCalls
<1>8. (Proceed /\ user) \/ Pay \/ Resync => p = q
  BY <1>1, OneMore
<1> QED
  BY <1>1, <1>2, <1>4, <1>5, <1>6, <1>7, <1>8, CallsTouched

LEMMA NextKinds ==
  ASSUME Types, Next, Numbered, NEW p \in reqs', NEW q \in reqs', p.id = q.id
  PROVE  Kind(p) = Kind(q)
<1>1. CASE Fresh(p) \/ Fresh(q)
  <2>1. Fresh(p) /\ Fresh(q)
    BY <1>1, KeepsNumber, FreshIsNew
  <2> QED
    BY <2>1, FreshOnce
<1>2. CASE ~Fresh(p) /\ ~Fresh(q)
  BY <1>2, KeepsNumber DEF Numbered
<1> QED
  BY <1>1, <1>2

\* A page without calls gets no answers.
LEMMA NothingAnswered ==
  ASSUME Mounted, NEW r \in reqs, r.by \in Ghosts
  PROVE  ~Answering(r)
  BY DEF Mounted, Ghosts, Answering, HoldAnswer, ReleaseAnswer, TtlAnswer, BookAnswer, PayAnswer, Answers

\* Only a rendering, and what leaves the page, changes the mount.
LEMMA StaysMounted ==
  ASSUME Next, ~Leaving
  PROVE  UNCHANGED <<restored, handoff>> \/ Render
<1>1. \A r \in reqs : LeftAnswer(r) => UNCHANGED mountVars
  BY LeftTouches
<1> QED
  BY <1>1, LeavesPage, MountTouched DEF mountVars, Proceed, LogOut, LogIn

LEMMA NextUnasked ==
  ASSUME Types, Next, Mounted, ~restored', ~Leaving
  PROVE  /\ \A r \in reqs' : r.by \in Ghosts
         /\ \A s \in Seat : seq'[s] = 0
         /\ pending' = {} /\ heldIds' = {} /\ heldRef' = {} /\ booking'.b = 0
<1>1. ~restored
  BY StaysMounted DEF Render
<1>2. /\ \A r \in reqs : r.by \in Ghosts
      /\ \A s \in Seat : seq[s] = 0
      /\ pending = {} /\ heldIds = {} /\ heldRef = {} /\ booking.b = 0
  BY <1>1 DEF Mounted
<1>3. \A r \in reqs : ~Answering(r)
  BY <1>2, NothingAnswered
<1>4. OnMap => ~user
  BY <1>1 DEF OnMap
<1>5. ~(Proceed /\ user) /\ ~Pay /\ ~Resync /\ \A s \in Seat : ~(Click(s) /\ user)
  BY <1>2, <1>4 DEF Proceed, Pay, Resync, Click
<1>6. \A P \in SUBSET Seat : ~(Suggest(P) /\ user)
  BY <1>4 DEF Suggest
<1>7. Render => reqs' = reqs
  <2> SUFFICES ASSUME Render PROVE reqs' = reqs
    OBVIOUS
  <2>1. ~(hasData /\ user)
    BY <1>1 DEF Render
  <2> QED
    BY <2>1, RenderCalls
<1>8. \A q \in reqs' : q.by \in Ghosts
  <2>1. ASSUME NEW r \in reqs, Serving(r) \/ Lose(r) PROVE \A q \in reqs' : q.by \in Ghosts
    <3>1. PICK N, O : GoesOn(r, N, O)
      BY <2>1, ServesOn
    <3> QED
      BY <1>2, <3>1 DEF GoesOn, ServedAs, SameCall, LeavesBehind, Ghosts
  <2>2. ASSUME NEW r \in reqs, LeftAnswer(r) PROVE \A q \in reqs' : q.by \in Ghosts
    BY <1>2, <1>3, <2>2, AnsweredCalls DEF Ghosts
  <2> QED
    BY <1>2, <1>3, <1>5, <1>6, <1>7, <2>1, <2>2, CallsTouched
<1>9. seq' = seq /\ pending' = {}
  <2>1. \A s \in Seat : Click(s) => UNCHANGED <<seq, pending>>
    BY <1>5 DEF Click
  <2>2. \A P \in SUBSET Seat : Suggest(P) => UNCHANGED <<seq, pending>>
    BY <1>6 DEF Suggest
  <2>3. Render \/ Clear \/ CountdownEnds => seq' = seq /\ pending' = {}
    BY <1>2 DEF Render, Clear, CountdownEnds
  <2> QED
    BY <1>2, <1>3, <2>1, <2>2, <2>3, SelectionTouched DEF selVars, Answering
<1>10. heldIds' = {} /\ heldRef' = {}
  <2>1. \A s \in Seat : Click(s) => UNCHANGED holdVars
    BY <1>5 DEF Click
  <2>2. \A P \in SUBSET Seat : Suggest(P) => UNCHANGED holdVars
    BY <1>6 DEF Suggest
  <2>3. Render \/ CountdownEnds => heldIds' = {} /\ heldRef' = {}
    BY <1>2 DEF Render, CountdownEnds
  <2>4. \A r \in reqs : LeftAnswer(r) => UNCHANGED <<heldIds, heldRef>>
    BY LeftTouches
  <2> QED
    BY <1>2, <1>3, <2>1, <2>2, <2>3, <2>4, HoldsTouched DEF holdVars, Answering
<1>11. booking'.b = 0
  <2>1. Dismiss => booking'.b = 0
    BY DEF Dismiss, NoBooking
  <2> QED
    BY <1>2, <1>3, <1>5, <2>1, CheckoutTouched DEF payVars, Answering
<1> QED
  BY <1>2, <1>8, <1>9, <1>10, <1>11

LEMMA NextMounted == ASSUME Types, Next, Mounted PROVE Mounted'
<1>1. \A q \in reqs' : q.by = "gone" => Open(q)
  <2> TAKE q \in reqs'
  <2>1. CASE Fresh(q)
    BY <2>1 DEF Fresh, Open
  <2>2. ASSUME NEW r \in reqs, ServedAs(r, q) PROVE q.by = "gone" => Open(q)
    BY <2>2 DEF ServedAs, SameCall
  <2>3. \A r \in reqs : r.by = "gone" => Open(r)
    BY DEF Mounted
  <2> QED
    BY <2>1, <2>2, <2>3, CallsGoOn
<1>2. ASSUME Leaving
      PROVE  /\ ~restored' /\ chosen' = {}
             /\ \A r \in reqs' : r.by \in Ghosts
             /\ \A s \in Seat : seq'[s] = 0
             /\ pending' = {} /\ heldIds' = {} /\ heldRef' = {} /\ booking'.b = 0
  <2>1. \A r \in reqs' : r.by \in Ghosts
    BY <1>2, Unmounted
  <2> QED
    BY <1>2, <2>1, StartsAnew DEF NoBooking
<1>3. ~restored' => /\ \A r \in reqs' : r.by \in Ghosts
                    /\ \A s \in Seat : seq'[s] = 0
                    /\ pending' = {} /\ heldIds' = {} /\ heldRef' = {} /\ booking'.b = 0
  BY <1>2, NextUnasked
<1>4. (\A q \in reqs' : q.by = "gone" => Open(q)) <=> (\A r \in reqs : r.by = "gone" => Open(r))'
  BY DEF Open
<1>5. CASE Leaving
  BY <1>1, <1>2, <1>4, <1>5 DEF Mounted
<1>6. CASE ~Leaving
  <2>1. restored' => handoff' = {}
    <3>1. Render /\ restored' => handoff' = {}
      BY DEF Render, Mounted
    <3> QED
      BY <1>6, <3>1, StaysMounted DEF Mounted
  <2>2. place' = "login" => ~restored' /\ chosen' = {}
    <3> SUFFICES ASSUME place' = "login" PROVE ~restored' /\ chosen' = {}
      OBVIOUS
    <3>1. \A r \in reqs : LeftAnswer(r) => UNCHANGED mountVars /\ UNCHANGED selVars
      BY <1>6, LeftTouches
    <3>2. place = "login" /\ restored' = restored
      BY <1>6, <3>1, LeavesPage, MountTouched DEF mountVars, Render, Proceed, LogOut, LogIn
    <3>3. ~restored /\ chosen = {} /\ \A r \in reqs : ~Answering(r)
      BY <3>2, NothingAnswered DEF Mounted
    <3>4. chosen' = chosen
      BY <1>6, <3>2, <3>3, SelectionTouched DEF selVars, Answering, Click, Suggest, OnMap, Render, Clear, CountdownEnds
    <3> QED
      BY <3>2, <3>3, <3>4
  <2> QED
    BY <1>1, <1>3, <1>4, <2>1, <2>2 DEF Mounted
<1> QED
  BY <1>5, <1>6

\* The seats of clicks get new tickets; nothing else but leaving the page
\* changes one, and nothing else makes a seat wait.
LEMMA NewTickets ==
  ASSUME Types, Next, ~Leaving, NEW s \in Seat
  PROVE  \/ seq'[s] = seq[s] /\ (s \in pending' => s \in pending)
         \/ /\ Clicking /\ seq'[s] \in Nat /\ calls < seq'[s]
            /\ \E q \in reqs' : Clicks(q, s)
<1>1. CASE Clicking
  <2>1. PICK T \in SUBSET Seat : Outcome(T)
    BY <1>1, ClickingOutcome
  <2>2. CASE s \in T
    <3>1. PICK q \in reqs' : Clicks(q, s)
      BY <2>1, <2>2 DEF Outcome
    <3>2. q.id = seq'[s] /\ q.id \in 1..calls' /\ calls < q.id
      BY <3>1 DEF Clicks, Fresh
    <3>3. calls' \in Nat
      BY NextCountsOK DEF CountsOK
    <3> QED
      BY <1>1, <3>1, <3>2, <3>3
  <2>3. CASE s \notin T
    BY <2>1, <2>3 DEF Outcome
  <2> QED
    BY <2>2, <2>3
<1>2. CASE ~Clicking
  <2>1. \A t \in Seat : Click(t) => UNCHANGED <<seq, pending>>
    BY <1>2 DEF Clicking, Click
  <2>2. \A P \in SUBSET Seat : Suggest(P) => UNCHANGED <<seq, pending>>
    BY <1>2 DEF Clicking, Suggest
  <2>3. \A r \in reqs : HoldAnswer(r) \/ ReleaseAnswer(r) \/ TtlAnswer(r) \/ BookAnswer(r) =>
          seq' = seq /\ pending' \subseteq pending
    BY LeavesPage DEF HoldAnswer, ReleaseAnswer, TtlAnswer, BookAnswer, selVars
  <2>4. Render \/ Clear \/ CountdownEnds => seq' = seq /\ pending' \subseteq pending
    BY DEF Render, Clear, CountdownEnds
  <2>5. UNCHANGED selVars => seq' = seq /\ pending' \subseteq pending
    BY DEF selVars
  <2> QED
    BY <2>1, <2>2, <2>3, <2>4, <2>5, SelectionTouched
<1> QED
  BY <1>1, <1>2

\* What kinds of calls a step makes: those of clicks, those of the first
\* rendering, and others.
LEMMA FreshKinds ==
  ASSUME Types, Next, Mounted, NEW q \in reqs', Fresh(q)
  PROVE  \/ q.by = "click" /\ \E s \in Seat : Clicks(q, s)
         \/ q.by \in {"restore", "handoff"} /\ ~restored /\ \A s \in Seat : seq'[s] = 0
         \/ q.by \notin {"click", "restore", "handoff"} /\ q.op # "hold"
<1>1. q \notin reqs
  BY FreshIsNew
<1>2. CASE Clicking
  BY <1>1, <1>2, ClickingOutcome DEF Outcome, Clicks
<1>3. ~Leaving /\ \A r \in reqs : ~Serving(r) /\ ~Lose(r)
  BY NoneFresh
<1>5. ASSUME NEW r \in reqs, Answering(r) \/ LeftAnswer(r) PROVE q.op = "release" /\ q.by \in {"all", "gone"}
  BY <1>1, <1>3, <1>5, AnsweredCalls
<1>6. (Proceed /\ user) \/ Pay \/ Resync => q.op # "hold" /\ q.by \in {"page", "resync"}
  BY <1>1, OneMore
<1>7. CASE Render
  <2>1. seq' = seq
    BY <1>7 DEF Render
  <2>2. \/ q.op = "ttl" /\ q.by = "restore" /\ ~restored
        \/ q.op = "hold" /\ q.by = "handoff" /\ handoff # {}
    BY <1>1, <1>7, RenderCalls
  <2> QED
    BY <2>1, <2>2, NextTypes DEF Mounted, Types, ShownOK
<1> QED
  BY <1>1, <1>2, <1>3, <1>5, <1>6, <1>7, CallsTouched DEF Clicking

LEMMA NextNumbered == ASSUME Types, Next, Mounted, Numbered PROVE Numbered'
<1>1. \A r, q \in reqs' : r.id = q.id => Kind(r) = Kind(q)
  BY NextKinds
<1> DEFINE Order(q, s) == /\ q.by = "restore" => seq'[s] = 0 \/ q.id < seq'[s]
                          /\ q.op = "hold" /\ s \in q.seats => seq'[s] = 0 \/ q.id <= seq'[s]
                          /\ q.by = "click" /\ s \in q.seats => q.id <= seq'[s]
<1>2. ASSUME NEW q \in reqs', NEW s \in Seat, Leaving PROVE Order(q, s)
  <2>1. q.by \in Ghosts
    BY <1>2, Unmounted
  <2>2. seq'[s] = 0
    BY <1>2, StartsAnew
  <2> QED
    BY <2>1, <2>2 DEF Ghosts
<1>3. ASSUME NEW q \in reqs', NEW s \in Seat, ~Leaving,
             NEW r \in reqs, q.id = r.id, q.op = "hold" => r.op = "hold" /\ q.seats = r.seats,
             q.by \in Ghosts \/ (q.by = r.by /\ q.seats = r.seats)
      PROVE  Order(q, s)
  <2>1. /\ r.by = "restore" => seq[s] = 0 \/ r.id < seq[s]
        /\ r.op = "hold" /\ s \in r.seats => seq[s] = 0 \/ r.id <= seq[s]
        /\ r.by = "click" /\ s \in r.seats => r.id <= seq[s]
    BY DEF Numbered
  <2>2. r.id \in 1..calls /\ calls \in Nat
    BY RequestsAre DEF Types, CountsOK
  <2>3. seq'[s] = seq[s] \/ (seq'[s] \in Nat /\ calls < seq'[s])
    BY <1>3, NewTickets
  <2>4. q.by \in Ghosts => q.by # "restore" /\ q.by # "click"
    BY DEF Ghosts
  <2>5. seq[s] \in Nat
    BY DEF Types, TicketsOK, CountsOK
  <2> QED
    BY <1>3, <2>1, <2>2, <2>3, <2>4, <2>5
<1>4. ASSUME NEW q \in reqs', NEW s \in Seat, Fresh(q) PROVE Order(q, s)
  <2>1. q.id \in Nat
    BY <1>4, NextTypes, RequestsAre DEF Fresh, Request
  <2>2. Meant(q)
    BY <1>4 DEF Fresh
  <2> QED
    BY <1>4, <2>1, <2>2, FreshKinds DEF Clicks, Meant
<1>5. \A q \in reqs', s \in Seat : Order(q, s)
  <2> TAKE q \in reqs', s \in Seat
  <2>1. CASE q \in reqs
    BY <1>2, <1>3, <2>1
  <2>2. ASSUME NEW r \in reqs, ServedAs(r, q) PROVE Order(q, s)
    BY <1>2, <1>3, <2>2 DEF ServedAs, SameCall
  <2>3. ASSUME NEW r \in reqs, ComesOf(q, r), q.by \in Ghosts PROVE Order(q, s)
    <3>1. q.op = "hold" => r.op = "hold" /\ q.seats = r.seats
      BY <2>3 DEF ComesOf, Kind
    <3> QED
      BY <1>2, <1>3, <2>3, <3>1 DEF ComesOf
  <2> HIDE DEF Order
  <2> QED
    BY <1>4, <2>1, <2>2, <2>3, CallsGoOn
<1>6. (\A r, q \in reqs' : r.id = q.id => Kind(r) = Kind(q)) <=> (\A r, q \in reqs : r.id = q.id => Kind(r) = Kind(q))'
  BY DEF Kind
<1> QED
  BY <1>1, <1>5, <1>6 DEF Numbered
-----------------------------------------------------------------------------
(* A settled selection is held.  Second: what becomes of a seat.           *)

\* What is true of the server stays so, but for the release of the newest
\* click.
LEMMA MineStays ==
  ASSUME Types, Next, Numbered, NEW s \in Seat, Excused(s)
  PROVE  \/ Excused(s)'
         \/ \E r \in reqs : /\ ServeRelease(r) /\ r.op = "release" /\ r.st = "sent" /\ r.by = "click"
                            /\ s \in r.seats /\ r.id = seq[s]
<1> USE DEF Excused
<1>1. owner \in [Seat -> {Nobody, Me, Other}] /\ Me # Nobody
  BY DEF Types, RoomOK, Me, Nobody
<1>2. ASSUME NEW r \in reqs, ServeRelease(r), ~(r.by = "click" /\ s \in r.seats /\ r.id = seq[s]) PROVE Excused(s)'
  <2>1. r.op = "release" /\ r.st = "sent" /\ r.by \in {"click", "all", "left", "gone"} /\ r.id \in Nat
    BY <1>2, RequestsAre DEF ServeRelease, Serves, Meant, Ghosts, Request
  <2>2. s \in r.seats => s \in parted'
    <3>1. r.by = "click" /\ s \in r.seats => r.id <= seq[s]
      BY DEF Numbered
    <3>2. seq[s] \in Nat
      BY DEF Types, TicketsOK, CountsOK
    <3> QED
      BY <1>2, <2>1, <3>1, <3>2 DEF ServeRelease
  <2>3. s \notin r.seats => owner'[s] = owner[s]
    BY <1>1, <1>2 DEF ServeRelease, Give
  <2>4. parted \subseteq parted'
    BY <1>2 DEF ServeRelease
  <2> QED
    BY <2>2, <2>3, <2>4
<1>3. ASSUME NEW r \in reqs, NEW t \in Seat, TakeSeat(r, t) \/ UndoSeat(r, t) PROVE Excused(s)'
  <2>1. CASE s = t
    BY <1>1, <1>3, <2>1 DEF TakeSeat, UndoSeat
  <2>2. CASE s # t
    BY <1>1, <1>3, <2>2 DEF TakeSeat, UndoSeat
  <2> QED
    BY <2>1, <2>2
<1>4. ASSUME NEW r \in reqs, RefuseHold(r) \/ ServeTtl(r) \/ ServeBook(r) \/ ServePay(r) PROVE Excused(s)'
  BY <1>4 DEF RefuseHold, ServeTtl, ServeBook, ServePay, serverVars
<1>5. ASSUME NEW r \in reqs, ServeRemainder(r) PROVE Excused(s)'
  BY <1>1, <1>5 DEF ServeRemainder, Give
<1>6. ASSUME NEW t \in Seat, OtherActs(t) \/ HoldExpires(t) PROVE Excused(s)'
  BY <1>1, <1>6 DEF OtherActs, HoldExpires
<1>7. (\E b \in 1..MaxCalls : BookingExpires(b)) \/ SessionEnds \/ LogOut \/ LogIn
      \/ (\E r \in reqs : LeftAnswer(r)) => Excused(s)'
  BY LeftTouches DEF BookingExpires, SessionEnds, LogOut, LogIn
<1>8. CASE UNCHANGED serverVars /\ ~ \E r \in reqs : Serving(r)
  <2>1. owner' = owner
    BY <1>8 DEF serverVars
  <2>2. parted \subseteq parted'
    BY <1>8, PartedTouched DEF HoldAnswer, TtlAnswer, HoldExpires
  <2> QED
    BY <2>1, <2>2
<1>9. ASSUME NEW r \in reqs, ServeRelease(r) PROVE r.op = "release" /\ r.st = "sent"
  BY <1>9 DEF ServeRelease, Serves
<1>10. ASSUME NEW r \in reqs, Serving(r), ~ServeRelease(r) PROVE Excused(s)'
  BY <1>3, <1>4, <1>5, <1>10 DEF Serving
<1> QED
  BY <1>2, <1>6, <1>7, <1>8, <1>9, <1>10, ServerTouched

\* The seats that the answer to the question about the last visit's holds
\* toggles.
Restored(r) == IF r.st = "ok" THEN r.got ELSE heldRef

\* A refusal of the seat's newest click.
Refused(r, s) == /\ HoldAnswer(r) /\ r.op = "hold" /\ r.by = "click" /\ r.st # "ok"
                 /\ s \in r.seats /\ r.id = seq[s]

\* A seat joins the selection: by a click, by the undoing of one, or by one
\* of the two ways in which a mount takes up what the last one left.
LEMMA Joins ==
  ASSUME Types, Next, ~Leaving, user, NEW s \in Seat, s \notin chosen, s \in chosen'
  PROVE  \/ \E q \in reqs' : Clicks(q, s)
         \/ \E r \in reqs : Refused(r, s)
         \/ \E r \in reqs : TtlAnswer(r) /\ r.by = "restore" /\ s \in Restored(r)
         \/ Render /\ hasData /\ s \in handoff
<1>1. CASE Clicking
  BY <1>1, ClickingOutcome DEF Outcome
<1>2. ASSUME NEW r \in reqs, HoldAnswer(r) PROVE Refused(r, s)
  <2>1. /\ r.by = "click" /\ IsCurrent(r) /\ r.st # "ok" /\ r.op = "hold"
        /\ chosen' \in Toggles(chosen, r.seats, r.view)
    BY <1>2 DEF HoldAnswer, Undone, Answers
  <2>2. s \in r.seats
    BY <2>1, TogglesOne
  <2> QED
    BY <1>2, <2>1, <2>2 DEF Refused, IsCurrent
<1>3. ASSUME NEW r \in reqs, TtlAnswer(r) PROVE r.by = "restore" /\ s \in Restored(r)
  <2>1. r.by = "restore" /\ chosen' \in Toggles(chosen, Restored(r), r.view)
    BY <1>3 DEF TtlAnswer, Restored
  <2> QED
    BY <2>1, TogglesOne
<1>4. ASSUME NEW r \in reqs, ReleaseAnswer(r) \/ BookAnswer(r) PROVE FALSE
  BY <1>4, LeavesPage DEF ReleaseAnswer, BookAnswer, selVars
<1>5. CASE Render
  <2>1. hasData /\ chosen' \in Toggles(chosen \ Conflicted, handoff, seen)
    BY <1>5 DEF Render
  <2>2. s \in handoff
    BY <2>1, TogglesOne
  <2> QED
    BY <1>5, <2>1, <2>2
<1>6. ~Clear /\ ~CountdownEnds /\ ~UNCHANGED selVars
  BY DEF Clear, CountdownEnds, selVars
<1> QED
  BY <1>1, <1>2, <1>3, <1>4, <1>5, <1>6, SelectionTouched DEF Clicking

\* A seat leaves the selection: by a click, by the answer about the last
\* visit's holds, or in a step after which it does not wait.
LEMMA Leaves ==
  ASSUME Types, Next, Mounted, ~Leaving, user, NEW s \in Seat, s \in chosen, s \notin chosen'
  PROVE  \/ \E q \in reqs' : Clicks(q, s)
         \/ s \notin pending'
         \/ \E r \in reqs : TtlAnswer(r) /\ r.by = "restore" /\ s \in Restored(r)
<1>1. CASE Clicking
  BY <1>1, ClickingOutcome DEF Outcome
<1>2. ASSUME NEW r \in reqs, HoldAnswer(r) PROVE s \notin pending'
  <2>1. /\ r.by = "click" /\ IsCurrent(r) /\ chosen' \in Toggles(chosen, r.seats, r.view)
        /\ pending' = pending \ r.seats
    BY <1>2 DEF HoldAnswer, Undone
  <2> QED
    BY <2>1, TogglesOne
<1>3. ASSUME NEW r \in reqs, TtlAnswer(r) PROVE r.by = "restore" /\ s \in Restored(r)
  <2>1. r.by = "restore" /\ chosen' \in Toggles(chosen, Restored(r), r.view)
    BY <1>3 DEF TtlAnswer, Restored
  <2> QED
    BY <2>1, TogglesOne
<1>4. ASSUME NEW r \in reqs, ReleaseAnswer(r) \/ BookAnswer(r) PROVE s \notin pending'
  BY <1>4, LeavesPage DEF ReleaseAnswer, BookAnswer, selVars
<1>5. CASE Render
  <2>1. pending' = pending
    BY <1>5 DEF Render
  <2>2. CASE handoff # {}
    BY <2>1, <2>2 DEF Mounted, Types, ShownOK
  <2>3. CASE handoff = {}
    <3>1. chosen' = chosen \ Conflicted
      BY <1>5, <2>3 DEF Render
    <3> QED
      BY <2>1, <3>1 DEF Conflicted
  <2> QED
    BY <2>2, <2>3
<1>6. Clear \/ CountdownEnds => s \notin pending'
  BY DEF Clear, CountdownEnds
<1>7. ~UNCHANGED selVars
  BY DEF selVars
<1> QED
  BY <1>1, <1>2, <1>3, <1>4, <1>5, <1>6, <1>7, SelectionTouched DEF Clicking
-----------------------------------------------------------------------------
(* A settled selection is held.  Third: the invariant's parts.             *)

\* A visitor who is signed in, on a page that is not left, was so before, or
\* returns from the login page to a selection that is empty.
LEMMA StillIn ==
  ASSUME Types, Next, Mounted, user', ~Leaving
  PROVE  \/ user /\ (session' => session)
         \/ chosen' = {} /\ \A r \in reqs' : r.by \in Ghosts
<1>1. CASE LogIn
  <2>1. chosen' = chosen /\ reqs' = reqs /\ place = "login"
    BY <1>1 DEF LogIn, selVars
  <2> QED
    BY <2>1 DEF Mounted
<1>2. CASE ~LogIn
  <2>1. \A r \in reqs : LeftAnswer(r) => UNCHANGED mountVars /\ UNCHANGED session
    BY LeftTouches
  <2>2. user
    BY <1>2, <2>1, LeavesPage, MountTouched DEF mountVars, Render, Proceed, LogOut
  <2>3. session' => session
    <3>1. \A r \in reqs : Serving(r) => session' = session
      BY DEF Serving, TakeSeat, RefuseHold, UndoSeat, ServeRelease, ServeTtl, ServeBook, ServeRemainder,
         ServePay, serverVars
    <3>2. \A s \in Seat : OtherActs(s) \/ HoldExpires(s) => session' = session
      BY DEF OtherActs, HoldExpires
    <3>3. (\E b \in 1..MaxCalls : BookingExpires(b)) \/ UNCHANGED serverVars => session' = session
      BY DEF BookingExpires, serverVars
    <3>4. SessionEnds \/ LogOut => ~session'
      BY DEF SessionEnds, LogOut
    <3> QED
      BY <1>2, <2>1, <3>1, <3>2, <3>3, <3>4, ServerTouched
  <2> QED
    BY <2>2, <2>3
<1> QED
  BY <1>1, <1>2

\* Nothing but a grant of a hold takes a seat out of `parted`.
LEMMA StaysParted ==
  ASSUME Types, Next, Numbered, NEW s \in Seat, s \in parted,
         NEW q \in reqs, q.op = "release", q.id = seq[s]
  PROVE  s \in parted'
<1>1. ASSUME NEW r \in reqs, NEW t \in Seat, TakeSeat(r, t) PROVE s \in parted'
  <2>1. r.op = "hold" /\ r.id \in Nat /\ q.id \in Nat /\ q.id # 0 /\ t \in r.seats
    BY <1>1, RequestsAre DEF TakeSeat, Serves, Request, Meant
  <2>2. r.id # q.id
    BY <2>1 DEF Numbered, Kind
  <2>3. t = s => ~(seq[s] <= r.id)
    <3>1. t = s => r.id <= seq[s]
      BY <2>1 DEF Numbered
    <3> QED
      BY <2>1, <2>2, <3>1
  <2> QED
    BY <1>1, <2>3 DEF TakeSeat
<1>2. ASSUME NEW r \in reqs, Serving(r), \A t \in Seat : ~TakeSeat(r, t) PROVE parted \subseteq parted'
  BY <1>2 DEF Serving, RefuseHold, UndoSeat, ServeRelease, ServeTtl, ServeBook, ServeRemainder, ServePay
<1>3. parted \subseteq parted' \/ \E r \in reqs : Serving(r)
  BY PartedTouched DEF HoldAnswer, TtlAnswer, HoldExpires
<1> QED
  BY <1>1, <1>2, <1>3

\* The answer about the last visit's holds, on a seat that was clicked.
LEMMA RestoredIsParted ==
  ASSUME Types, Numbered, NEW r \in reqs, TtlAnswer(r), r.by = "restore",
         NEW s \in Seat, s \in Restored(r), seq[s] # 0
  PROVE  s \in parted'
<1>1. r.id < seq[s] /\ seq[s] \in Nat /\ r.id \in Nat
  BY RequestsAre DEF Numbered, Types, TicketsOK, CountsOK, Request
<1>2. seq[s] > r.id
  BY <1>1
<1>3. s \in IF r.st = "ok" THEN r.got ELSE heldRef
  BY DEF Restored
<1> QED
  BY <1>2, <1>3 DEF TtlAnswer

LEMMA NextLetGo == ASSUME Types, Next, Mounted, Numbered, LetGo PROVE LetGo'
<1> SUFFICES ASSUME user', NEW q \in reqs', q.op = "release", q.by = "click", q.st = "sent",
                    NEW s \in q.seats, seq'[s] = q.id
             PROVE  s \notin chosen' \/ s \in parted'
  BY DEF LetGo
<1>0. s \in Seat
  BY NextTypes, NextCallsOK DEF CallsOK, Request
<1>1. ~Leaving
  BY Unmounted DEF Ghosts
<1>2. user
  BY <1>1, StillIn DEF Ghosts
<1>3. CASE Fresh(q)
  BY <1>3, FreshKinds DEF Clicks
<1>4. CASE q \in reqs
  <2>1. q.id \in 1..calls /\ calls \in Nat
    BY <1>4, RequestsAre DEF Types, CountsOK
  <2>2. seq'[s] = seq[s] /\ ~ \E c \in reqs' : Clicks(c, s)
    <3>1. \A c \in reqs' : Clicks(c, s) => calls < seq'[s]
      BY DEF Clicks, Fresh
    <3> QED
      BY <1>0, <1>1, <2>1, <3>1, NewTickets
  <2>3. s \notin chosen \/ s \in parted
    BY <1>2, <1>4, <2>2 DEF LetGo
  <2>4. CASE s \in parted
    BY <1>0, <1>4, <2>2, <2>4, StaysParted
  <2>5. CASE s \notin chosen /\ s \in chosen'
    <3>1. ASSUME NEW r \in reqs, Refused(r, s) PROVE FALSE
      <4>1. r.op = "hold" /\ r.id = q.id
        BY <2>2, <3>1 DEF Refused
      <4> QED
        BY <1>4, <4>1 DEF Numbered, Kind
    <3>2. ASSUME NEW r \in reqs, TtlAnswer(r), r.by = "restore", s \in Restored(r) PROVE s \in parted'
      BY <1>0, <2>1, <2>2, <3>2, RestoredIsParted
    <3>3. ASSUME Render, s \in handoff PROVE FALSE
      <4>1. seq[s] = 0
        BY <1>0, <3>3 DEF Mounted, Types, ShownOK
      <4> QED
        BY <2>1, <2>2, <4>1
    <3> QED
      BY <1>0, <1>1, <1>2, <2>2, <2>5, <3>1, <3>2, <3>3, Joins
  <2> QED
    BY <2>3, <2>4, <2>5
<1> QED
  BY <1>1, <1>3, <1>4, CallsGoOn DEF ServedAs, SameCall, Ghosts

LEMMA NextAsked == ASSUME Types, Next, Mounted, Numbered, Asked PROVE Asked'
<1> SUFFICES ASSUME user', NEW q \in reqs', q.op = "hold", q.by = "click", NEW s \in q.seats
             PROVE  /\ q.view[s] = "available"
                    /\ seq'[s] = q.id /\ s \in pending' => s \in chosen' \/ Excused(s)'
  BY DEF Asked
<1>0. s \in Seat
  BY NextTypes, NextCallsOK DEF CallsOK, Request
<1>1. ~Leaving
  BY Unmounted DEF Ghosts
<1>2. user
  BY <1>1, StillIn DEF Ghosts
<1>3. CASE Fresh(q)
  BY <1>3, FreshKinds DEF Clicks
<1>4. ASSUME NEW r \in reqs, r.id = q.id, r.op = "hold", r.by = "click", r.seats = q.seats, r.view = q.view
      PROVE  /\ q.view[s] = "available"
             /\ seq'[s] = q.id /\ s \in pending' => s \in chosen' \/ Excused(s)'
  <2>1. /\ r.view[s] = "available"
        /\ seq[s] = r.id /\ s \in pending => s \in chosen \/ Excused(s)
    BY <1>2, <1>4 DEF Asked
  <2> SUFFICES ASSUME seq'[s] = q.id, s \in pending' PROVE s \in chosen' \/ Excused(s)'
    BY <1>4, <2>1
  <2>2. q.id \in 1..calls /\ calls \in Nat
    BY <1>4, RequestsAre DEF Types, CountsOK
  <2>3. seq[s] = q.id /\ s \in pending /\ ~ \E c \in reqs' : Clicks(c, s)
    <3>1. \A c \in reqs' : Clicks(c, s) => calls < seq'[s]
      BY DEF Clicks, Fresh
    <3> QED
      BY <1>0, <1>1, <2>2, <3>1, NewTickets
  <2>4. CASE Excused(s)
    <3>1. ASSUME NEW p \in reqs, p.op = "release", p.id = seq[s] PROVE FALSE
      BY <1>4, <2>3, <3>1 DEF Numbered, Kind
    <3> QED
      BY <1>0, <2>4, <3>1, MineStays
  <2>5. CASE s \in chosen /\ s \notin chosen'
    <3>1. ASSUME NEW p \in reqs, TtlAnswer(p), p.by = "restore", s \in Restored(p) PROVE Excused(s)'
      BY <1>0, <2>2, <2>3, <3>1, RestoredIsParted DEF Excused
    <3> QED
      BY <1>0, <1>1, <1>2, <2>3, <2>5, <3>1, Leaves
  <2> QED
    BY <1>4, <2>1, <2>3, <2>4, <2>5
<1> QED
  BY <1>1, <1>3, <1>4, CallsGoOn DEF ServedAs, SameCall, Ghosts

\* What the page learns of its holds, it learns from answers.
LEMMA LearnsHeld ==
  ASSUME Types, Next, Mounted, Numbered, NEW s \in Seat, seq[s] = 0, s \in heldIds' \cup heldRef'
  PROVE  Confirmed(s)
<1>1. CASE UNCHANGED holdVars \/ Leaving
  BY <1>1, StartsAnew DEF holdVars, Confirmed
<1>2. ASSUME NEW G, NEW S, LetsGo(G, S) PROVE Confirmed(s)
  BY <1>2 DEF LetsGo, Confirmed
<1>3. ASSUME NEW r \in reqs, HoldAnswer(r) PROVE Confirmed(s)
  <2>1. r.op = "hold" /\ r.by \in {"click", "handoff"}
    <3>1. r.op = "hold" /\ r.by \notin Ghosts
      BY <1>3 DEF HoldAnswer, Answers, Mounted, Ghosts
    <3> QED
      BY <3>1, RequestsAre DEF Meant
  <2>2. r.by = "click" => s \notin r.seats
    <3>1. r.id \in Nat /\ r.id # 0
      BY RequestsAre DEF Request
    <3> QED
      BY <3>1 DEF Numbered
  <2>3. heldRef' = heldRef /\ (heldIds' = heldIds \/ (r.st = "ok" /\ heldIds' = heldRef \cup r.seats))
    BY <1>3 DEF HoldAnswer
  <2> QED
    BY <2>1, <2>2, <2>3 DEF Confirmed, Granted
<1>4. ASSUME NEW r \in reqs, TtlAnswer(r) PROVE Confirmed(s)
  <2>1. r.op = "ttl" /\ r.by \notin Ghosts
    BY <1>4 DEF TtlAnswer, Answers, Mounted, Ghosts
  <2>2. heldRef' = heldRef /\ (heldIds' = heldIds \/ (r.st = "ok" /\ heldIds' = r.got))
    BY <1>4 DEF TtlAnswer
  <2> QED
    BY <2>1, <2>2 DEF Confirmed
<1>5. ASSUME NEW r \in reqs, BookAnswer(r) PROVE Confirmed(s)
  <2>1. UNCHANGED holdVars \/ LetsGo({heldRef}, heldRef) \/ Leaving
    BY <1>5, LeavesPage DEF BookAnswer
  <2> QED
    BY <1>1, <1>2, <2>1
<1>6. ASSUME NEW t \in Seat, Click(t) PROVE Confirmed(s)
  <2>1. UNCHANGED holdVars \/ LetsGo({{t}}, {t})
    BY <1>6 DEF Click
  <2> QED
    BY <1>1, <1>2, <2>1
<1>7. ASSUME NEW P \in SUBSET Seat, Suggest(P) PROVE Confirmed(s)
  <2>1. UNCHANGED holdVars \/ \E G, S : LetsGo(G, S)
    BY <1>7 DEF Suggest
  <2> QED
    BY <1>1, <1>2, <2>1
<1>8. Render \/ CountdownEnds => Confirmed(s)
  BY DEF Render, CountdownEnds, Confirmed
<1>9. ASSUME NEW r \in reqs, LeftAnswer(r) PROVE Confirmed(s)
  BY <1>1, <1>9, LeftTouches DEF Confirmed
<1> QED
  BY <1>1, <1>3, <1>4, <1>5, <1>6, <1>7, <1>8, <1>9, HoldsTouched

LEMMA NextConfirmed == ASSUME Types, Next, Mounted, Numbered, ConfirmedIsHeld PROVE ConfirmedIsHeld'
<1> SUFFICES ASSUME NEW s \in Seat, seq'[s] = 0, Confirmed(s)' PROVE Excused(s)'
  BY DEF ConfirmedIsHeld
<1>1. ~Leaving
  <2> SUFFICES ASSUME Leaving PROVE FALSE
    OBVIOUS
  <2>1. \A q \in reqs' : q.by \in Ghosts
    BY Unmounted
  <2>2. heldIds' = {} /\ heldRef' = {}
    BY StartsAnew
  <2> QED
    BY <2>1, <2>2 DEF Confirmed, Ghosts
<1>2. seq[s] = 0
  <2>1. calls \in Nat
    BY DEF Types, CountsOK
  <2> QED
    BY <1>1, <2>1, NewTickets
<1>3. Confirmed(s) => Excused(s)'
  <2>1. Confirmed(s) => Excused(s)
    BY <1>2 DEF ConfirmedIsHeld
  <2>2. \A r \in reqs : r.id # seq[s]
    BY <1>2, RequestsAre
  <2> QED
    BY <2>1, <2>2, MineStays
<1>4. CASE s \in heldIds' \cup heldRef'
  BY <1>2, <1>3, <1>4, LearnsHeld
<1>5. ASSUME NEW q \in reqs',
             \/ q.op = "ttl" /\ q.st = "ok" /\ q.by \notin Ghosts /\ s \in q.got
             \/ q.by = "handoff" /\ s \in Granted(q)
      PROVE  Excused(s)'
  <2>1. CASE q \in reqs
    BY <1>3, <1>5, <2>1 DEF Confirmed
  <2>2. ASSUME NEW r \in reqs, ServedAs(r, q) PROVE Excused(s)'
    <3>1. q.op = r.op /\ q.seats = r.seats /\ q.by = r.by
      BY <2>2 DEF ServedAs, SameCall
    <3>2. r.by = "handoff" => r.op = "hold"
      BY RequestsAre DEF Meant
    <3>3. CASE r.op = "ttl"
      <4>1. owner' = owner /\ q.got = {t \in r.seats : owner[t] = Me}
        BY <1>5, <2>2, <3>1, <3>2, <3>3 DEF ServedAs
      <4> QED
        BY <1>5, <3>1, <3>2, <3>3, <4>1 DEF Excused
    <3>4. CASE r.op = "hold"
      <4>1. r.by = "handoff" /\ s \in Granted(q)
        BY <1>5, <3>1, <3>4
      <4>2. PICK t \in r.left : q.left = r.left \ {t} /\ owner' = [owner EXCEPT ![t] = Me]
        BY <2>2, <3>4, <4>1 DEF ServedAs, Granted
      <4>3. s \notin q.left /\ r.st = "sent"
        BY <2>2, <3>4, <4>1 DEF ServedAs, Granted
      <4>4. CASE s = t
        BY <4>2, <4>4 DEF Excused, Types, RoomOK
      <4>5. CASE s # t
        <5>1. s \in Granted(r)
          BY <3>1, <3>4, <4>1, <4>2, <4>3, <4>5 DEF Granted
        <5> QED
          BY <1>3, <4>1, <5>1 DEF Confirmed
      <4> QED
        BY <4>4, <4>5
    <3> QED
      BY <1>5, <3>1, <3>2, <3>3, <3>4
  <2>3. ~Fresh(q)
    BY <1>5 DEF Fresh, Granted
  <2>4. q.by \notin Ghosts
    BY <1>5 DEF Ghosts
  <2> QED
    BY <2>1, <2>2, <2>3, <2>4, CallsGoOn
<1> QED
  BY <1>4, <1>5 DEF Confirmed, Granted

\* An answer takes nothing away from the seats that are excused.
LEMMA AnswersSpare ==
  ASSUME Types, Next, Numbered, NEW s \in Seat, Excused(s), NEW r \in reqs, HoldAnswer(r) \/ TtlAnswer(r)
  PROVE  Excused(s)'
<1>1. owner' = owner /\ parted \subseteq parted'
  BY DEF HoldAnswer, TtlAnswer, Answers, serverVars
<1> QED
  BY <1>1 DEF Excused

\* The question about a selected seat stays open until its answer has come:
\* a grant makes the seat the visitor's, a refusal takes it out of the
\* selection, or flags it.
LEMMA KeepsAsking ==
  ASSUME Types, Next, Mounted, Asked, ~Leaving, user,
         NEW s \in Seat, s \in chosen', seq'[s] = seq[s],
         NEW p \in reqs, p.op = "hold", s \in p.seats \ Granted(p),
         p.by = "handoff" \/ (p.by = "click" /\ p.id = seq[s]), s \in chosen
  PROVE  Excused(s)' \/ Asking(s)'
<1>0. ASSUME NEW c \in reqs', c.op = "hold", s \in c.seats \ Granted(c), c.id = p.id, c.by = p.by
      PROVE  Asking(s)'
  BY <1>0 DEF Asking, Granted
<1>1. CASE p \in reqs'
  BY <1>0, <1>1
<1>2. ASSUME NEW r \in reqs, Serving(r) \/ Lose(r), p \notin reqs' PROVE Excused(s)' \/ Asking(s)'
  <2>1. PICK N, O : GoesOn(r, N, O)
    BY <1>2, ServesOn
  <2>2. r = p
    BY <1>2, <2>1 DEF GoesOn
  <2>3. PICK c \in N : c \in reqs' /\ ServedAs(p, c)
    BY <2>1, <2>2 DEF GoesOn
  <2>4. c.op = "hold" /\ c.seats = p.seats /\ c.id = p.id /\ c.by = p.by
    BY <2>3 DEF ServedAs, SameCall
  <2>5. CASE s \notin Granted(c)
    BY <1>0, <2>3, <2>4, <2>5
  <2>6. CASE s \in Granted(c)
    <3>1. PICK t \in p.left : c.left = p.left \ {t} /\ owner' = [owner EXCEPT ![t] = Me]
      BY <2>3, <2>6 DEF ServedAs, Granted
    <3>2. s \notin c.left /\ p.st = "sent"
      BY <2>3, <2>6 DEF ServedAs, Granted
    <3>3. s = t
      BY <3>1, <3>2 DEF Granted
    <3> QED
      BY <3>1, <3>3 DEF Excused, Types, RoomOK
  <2> QED
    BY <2>5, <2>6
<1>3. ASSUME NEW r \in reqs, Answering(r) \/ LeftAnswer(r), p \notin reqs' PROVE Excused(s)' \/ Asking(s)'
  <2>1. r = p /\ p.st # "ok"
    BY <1>3, AnsweredCalls DEF Granted
  <2>2. HoldAnswer(p)
    BY <1>3, <2>1 DEF Answering, LeftAnswer, ReleaseAnswer, TtlAnswer, BookAnswer, PayAnswer, Answers
  <2>3. CASE p.by = "handoff"
    BY <2>1, <2>2, <2>3 DEF HoldAnswer, Excused
  <2>4. CASE p.by = "click" /\ p.id = seq[s]
    <3>1. p.seats = {s} /\ p.view[s] = "available"
      BY <2>4, RequestsAre DEF Meant, Asked
    <3>2. chosen' \in Toggles(chosen, {s}, p.view)
      BY <2>1, <2>2, <2>4, <3>1 DEF HoldAnswer, Undone, IsCurrent
    <3> QED
      BY <3>1, <3>2, TogglesOne
  <2> QED
    BY <2>3, <2>4
<1>4. Clicking => p \in reqs'
  BY ClickCalls, SuggestCalls DEF Clicking, SuggestsWith
<1>5. Render \/ (Proceed /\ user) \/ Pay \/ Resync => p \in reqs'
  BY RenderCalls, OneMore
<1> QED
  BY <1>1, <1>2, <1>3, <1>4, <1>5, CallsTouched DEF Clicking

LEMMA NextBacked ==
  ASSUME Types, Next, Mounted, Numbered, LetGo, Asked, ConfirmedIsHeld, Backed
  PROVE  Backed'
<1> SUFFICES ASSUME user', session', NEW s \in chosen' PROVE Excused(s)' \/ Asking(s)'
  BY DEF Backed
<1>0. s \in Seat
  BY NextTypes DEF Types, SeatsOK
<1>1. ~Leaving
  BY StartsAnew
<1>2. user /\ session
  BY <1>1, StillIn
<1>3. ASSUME NEW q \in reqs', Clicks(q, s) PROVE Asking(s)'
  <2>1. q.op = "hold" /\ q.by = "click" /\ q.id = seq'[s] /\ q.st = "sent" /\ s \in q.seats /\ s \in q.left
    BY <1>3 DEF Clicks, Fresh
  <2> QED
    BY <2>1 DEF Asking, Granted
<1>4. CASE s \in chosen /\ Excused(s)
  <2>1. ASSUME NEW r \in reqs, ServeRelease(r), r.op = "release", r.st = "sent", r.by = "click",
               s \in r.seats, r.id = seq[s]
        PROVE  Excused(s)'
    <3>1. s \in parted
      BY <1>2, <1>4, <2>1 DEF LetGo
    <3> QED
      BY <2>1, <3>1 DEF ServeRelease, Excused
  <2> QED
    BY <1>0, <1>4, <2>1, MineStays
<1>5. CASE s \in chosen /\ Asking(s)
  <2>1. seq'[s] = seq[s] \/ \E q \in reqs' : Clicks(q, s)
    BY <1>0, <1>1, NewTickets
  <2>2. PICK p \in reqs : /\ p.op = "hold" /\ s \in p.seats \ Granted(p)
                          /\ p.by = "handoff" \/ (p.by = "click" /\ p.id = seq[s])
    BY <1>5 DEF Asking
  <2> QED
    BY <1>0, <1>1, <1>2, <1>3, <1>5, <2>1, <2>2, KeepsAsking
<1>6. CASE s \notin chosen
  <2>1. ASSUME NEW r \in reqs, Refused(r, s) PROVE Excused(s)'
    <3>1. CASE s \in pending
      <4>1. Excused(s)
        BY <1>2, <1>6, <2>1, <3>1 DEF Asked, Refused
      <4> QED
        BY <1>0, <2>1, <4>1, AnswersSpare DEF Refused
    <3>2. CASE s \notin pending
      BY <2>1, <3>2 DEF Refused, HoldAnswer, Excused
    <3> QED
      BY <3>1, <3>2
  <2>2. ASSUME NEW r \in reqs, TtlAnswer(r), r.by = "restore", s \in Restored(r) PROVE Excused(s)'
    <3>1. CASE seq[s] = 0
      <4>1. r.op = "ttl"
        BY <2>2 DEF TtlAnswer, Answers
      <4>2. Confirmed(s)
        BY <2>2, <4>1 DEF Restored, Confirmed, Ghosts
      <4>3. Excused(s)
        BY <1>0, <3>1, <4>2 DEF ConfirmedIsHeld
      <4> QED
        BY <1>0, <2>2, <4>3, AnswersSpare
    <3>2. CASE seq[s] # 0
      BY <1>0, <2>2, <3>2, RestoredIsParted DEF Excused
    <3> QED
      BY <3>1, <3>2
  <2>3. ASSUME Render, hasData, s \in handoff PROVE Asking(s)'
    <3>1. handoff # {}
      BY <2>3
    <3>2. PICK q \in reqs' : q.op = "hold" /\ q.by = "handoff" /\ q.seats = handoff /\ q.st = "sent" /\ q.left = handoff
      BY <1>2, <2>3, <3>1, RenderCalls
    <3> QED
      BY <2>3, <3>2 DEF Asking, Granted
  <2> QED
    BY <1>0, <1>1, <1>2, <1>3, <1>6, <2>1, <2>2, <2>3, Joins
<1> QED
  BY <1>2, <1>4, <1>5, <1>6 DEF Backed
-----------------------------------------------------------------------------
(* The invariant and the theorems.                                         *)

LEMMA StartsSound == Init => IInv
<1> SUFFICES ASSUME Init PROVE IInv
  OBVIOUS
<1>1. CountsOK /\ CallsOK /\ DecidedOK
  BY Bounds DEF Init, CountsOK, CallsOK, DecidedOK
<1>2. RoomOK
  <2>1. [seats |-> {}, status |-> "none"] \in Purchase
    BY DEF Purchase
  <2> QED
    BY <2>1, Bounds DEF Init, RoomOK, Unsold, Elsewhere
<1>3. ShownOK
  <2>1. Loading \in [st : {"none", "sent", "read"}, view : [Seat -> Statuses]]
    BY StatusesOK DEF Loading
  <2> QED
    BY <2>1, StatusesOK DEF Init, ShownOK
<1>4. SeatsOK
  BY DEF Init, SeatsOK
<1>5. TicketsOK /\ CheckoutOK
  <2>1. calls = 0 /\ event = 0 /\ seq = [s \in Seat |-> 0] /\ booking = [b |-> 0, status |-> "none"]
    BY DEF Init, NoBooking, NoEvent
  <2>2. booking \in [b : 0..calls, status : {"none", "pending", "paid"}] /\ booking.b = 0
    BY <2>1
  <2>3. busy \in BOOLEAN /\ paying \in BOOLEAN
    BY DEF Init
  <2> QED
    BY <2>1, <2>2, <2>3 DEF TicketsOK, CheckoutOK
<1>6. PendingIsAwaited /\ Counted /\ BookingDecidedOnce
  BY DEF Init, PendingIsAwaited, Counted, BookingDecidedOnce
<1>7. Numbered /\ Mounted /\ LetGo /\ Asked
  BY DEF Init, Numbered, Mounted, LetGo, Asked, NoBooking
<1>8. ConfirmedIsHeld /\ Backed
  BY DEF Init, ConfirmedIsHeld, Confirmed, Backed
<1> QED
  BY <1>1, <1>2, <1>3, <1>4, <1>5, <1>6, <1>7, <1>8 DEF IInv, Types

LEMMA StaysSound == IInv /\ [Next]_vars => IInv'
<1> SUFFICES ASSUME IInv, [Next]_vars PROVE IInv'
  OBVIOUS
<1>1. CASE Next
  BY <1>1, NextTypes, NextPending, NextCounted, NextDecided, NextNumbered, NextMounted, NextLetGo,
     NextAsked, NextConfirmed, NextBacked DEF IInv
<1>2. CASE UNCHANGED vars
  <2>1. Types'
    <3>1. CountsOK' /\ RoomOK' /\ ShownOK' /\ SeatsOK'
      BY <1>2 DEF vars, serverVars, pageVars, mapVars, selVars, holdVars, mountVars, IInv, Types,
         CountsOK, RoomOK, ShownOK, SeatsOK
    <3>2. TicketsOK' /\ CheckoutOK' /\ CallsOK' /\ DecidedOK'
      BY <1>2 DEF vars, serverVars, pageVars, selVars, payVars, IInv, Types,
         TicketsOK, CheckoutOK, CallsOK, DecidedOK
    <3> QED
      BY <3>1, <3>2 DEF Types
  <2>2. PendingIsAwaited' /\ Counted' /\ BookingDecidedOnce'
    BY <1>2 DEF vars, serverVars, pageVars, selVars, holdVars, IInv, PendingIsAwaited,
       Counted, BookingDecidedOnce
  <2>3. Numbered' /\ Mounted' /\ LetGo' /\ Asked'
    BY <1>2 DEF Kind, Open, vars, serverVars, pageVars, mapVars, selVars, holdVars, mountVars, payVars, IInv,
       Numbered, Mounted, LetGo, Asked, Excused
  <2>4. ConfirmedIsHeld' /\ Backed'
    BY <1>2 DEF vars, serverVars, pageVars, selVars, holdVars, mountVars, IInv,
       ConfirmedIsHeld, Confirmed, Granted, Backed, Excused, Asking
  <2> QED
    BY <2>1, <2>2, <2>3, <2>4 DEF IInv
<1> QED
  BY <1>1, <1>2

LEMMA PageInvariance == Spec => []IInv
<1>1. IInv /\ [Next]_vars => IInv'
  BY StaysSound
<1> QED
  BY <1>1, StartsSound, PTL DEF Spec

\* The selection, the holds, the map, the calls and the checkout always have
\* the shapes that SeatMapPage.jsx and its hooks keep.
THEOREM PageTypeCorrect == Spec => []TypeOK
<1>1. IInv => TypeOK
  <2> SUFFICES ASSUME IInv PROVE TypeOK
    OBVIOUS
  <2>1. Types
    BY DEF IInv
  <2>2. /\ owner \in [Seat -> {Nobody, Me, Other}] /\ sold \in [Seat -> 0..Elsewhere]
        /\ \A b \in 1..MaxCalls : /\ bought[b].seats \subseteq Seat
                                  /\ bought[b].status \in {"none", "pending", "paid", "cancelled"}
    BY <2>1 DEF Types, RoomOK, Purchase
  <2>3. \A d \in decided : d.outcome \in {"paid", "failed"} /\ {d.event, d.b} \subseteq 1..MaxCalls
    BY <2>1 DEF Types, DecidedOK
  <2>4. {session, user, restored, hasData, error, counting, busy, paying} \subseteq BOOLEAN
    BY <2>1 DEF Types, RoomOK, ShownOK, SeatsOK, CheckoutOK
  <2>5. /\ place \in {"map", "login"} /\ seen \in [Seat -> Statuses]
        /\ load.st \in {"none", "sent", "read"} /\ load.view \in [Seat -> Statuses]
    BY <2>1 DEF Types, ShownOK
  <2>6. \A S \in {handoff, chosen, pending, heldIds, heldRef, stored, parted} : S \subseteq Seat
    BY <2>1 DEF Types, SeatsOK
  <2>7. /\ seq \in [Seat -> 0..calls] /\ event \in 0..calls
        /\ booking.b \in 0..calls /\ booking.status \in {"none", "pending", "paid"}
    BY <2>1 DEF Types, TicketsOK, CheckoutOK
  <2>8. calls <= MaxCalls /\ upsets <= MaxUpsets
    BY <2>1, Bounds DEF Types, CountsOK
  <2>9. \A r \in reqs : /\ r.id \in 1..calls /\ r.seats \cup r.left \cup r.got \cup r.ref \subseteq Seat
                        /\ r.op \in {"hold", "release", "ttl", "book", "pay", "remainder"}
                        /\ r.by \in {"click", "handoff", "restore", "resync", "all", "page", "left", "gone"}
    BY <2>1 DEF Types, CallsOK, Request, Operations, Senders, Ghosts
  <2> QED
    BY <2>2, <2>3, <2>4, <2>5, <2>6, <2>7, <2>8, <2>9 DEF TypeOK
<1> QED
  BY <1>1, PageInvariance, PTL

\* Whatever the clicks, suggestions and losses, and in whatever order calls
\* are served and answered: a seat shown as still confirming has the call of
\* its newest click in flight.
THEOREM EveryPendingSeatIsSettled == Spec => []PendingIsAwaited
<1>1. IInv => PendingIsAwaited
  BY DEF IInv
<1> QED
  BY <1>1, PageInvariance, PTL

\* What Suggest's stale list can and cannot do to the countdown, whatever the
\* number of seats it drops and whatever else is under way: it never runs for
\* no holds, no seat joins the holds without it, and no selected seat is left
\* among them when it stops.
THEOREM CountdownFollowsHolds == Spec => CountdownGoesWithHolds
<1> DEFINE Right == /\ counting' => heldIds' # {}
                    /\ counting' \/ heldIds' \subseteq heldIds
                    /\ counting /\ ~counting' => heldIds' \cap chosen' = {}
<1>1. IInv /\ [Next]_vars => [Right]_vars
  <2> SUFFICES ASSUME IInv, Next PROVE Right
    OBVIOUS
  <2> QED
    BY NextCounted DEF IInv, Counted
<1> QED
  BY <1>1, PageInvariance, PTL DEF Spec, CountdownGoesWithHolds

\* However often Pay is pressed, dismissed or lost, a booking is decided
\* under one payment event: the one its own call gave it.
THEOREM PaymentIsDecidedOnce == Spec => []BookingDecidedOnce
<1>1. IInv => BookingDecidedOnce
  BY DEF IInv
<1> QED
  BY <1>1, PageInvariance, PTL

\* "The selection is local, the hold is authoritative, and the two must not
\* disagree" (SeatMapPage.jsx): with nothing on its way, a seat that a
\* signed-in visitor sees selected is theirs at the server, whatever was
\* clicked, suggested, cleared, refused, lost or overtaken before, but for
\* the seats that `parted` has for the reasons SelectionIsHeld gives.
THEOREM SettledSelectionIsHeld == Spec => []SelectionIsHeld
<1>1. IInv => SelectionIsHeld
  <2> SUFFICES ASSUME IInv, Settled, user, session, NEW s \in Selected, s \notin parted PROVE owner[s] = Me
    BY DEF SelectionIsHeld
  <2>1. s \in chosen
    BY SelectedWithin
  <2>2. ~Asking(s)
    BY DEF Settled, Asking
  <2> QED
    BY <2>1, <2>2 DEF IInv, Backed, Excused
<1> QED
  BY <1>1, PageInvariance, PTL
=============================================================================
