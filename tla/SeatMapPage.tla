---------------------------- MODULE SeatMapPage ----------------------------
(***************************************************************************)
(* The seat map page of the web client with everything it waits for: the   *)
(* selection (useSeatSelection), the holds and their countdown             *)
(* (useSeatHolds), loads of the map, live updates, booking, payment, and   *)
(* the trip to the login page.  One visitor uses one tab; the server is    *)
(* reduced to who holds and who has bought each seat, and everybody else   *)
(* to a few steps of their own.                                            *)
(*                                                                         *)
(* Every call to the server is a record in `reqs`: the server serves it in *)
(* one step, or seat by seat if it asks for several holds, and its answer  *)
(* arrives in a later step, in any order.  Time is left out: a hold of the *)
(* server and the countdown of the page each run out when they please.  Of *)
(* React's delays one is kept: heldRef has the held seats as last          *)
(* rendered, heldIds as last set.                                          *)
(***************************************************************************)
EXTENDS Naturals, FiniteSets

CONSTANTS Seat,        \* the seats of the show
          Together,    \* the sets of seats that may be suggested
          MaxSeats,    \* MAX_SEATS, six in the code
          MaxCalls,    \* bound: calls the page makes
          MaxUpsets    \* bound: acts of others, expiries, losses, refreshes

ASSUME PageAssumption == /\ IsFiniteSet(Seat) /\ Together \subseteq SUBSET Seat
                         /\ {MaxSeats, MaxCalls, MaxUpsets} \subseteq Nat

VARIABLES
  owner, sold,         \* server: who holds, which booking has each seat
  bought, decided,     \* server: the visitor's bookings, payment events
  session,             \* server: the visitor's cookie is good
  place, user,         \* "map" or "login"; AuthContext's user
  restored, handoff,   \* restoredRef; location.state.seatIds
  hasData, error, seen, load,               \* the map on the page, its load
  chosen, pending, seq,                     \* useSeatSelection
  heldIds, heldRef, counting, stored,       \* useSeatHolds
  booking, event, busy, paying,             \* checkout
  reqs, calls, upsets,
  parted               \* history, see SelectionIsHeld

serverVars == <<owner, sold, bought, decided, session>>
mapVars    == <<hasData, error, seen, load>>
selVars    == <<chosen, pending, seq>>
holdVars   == <<heldIds, heldRef, counting, stored>>
mountVars  == <<place, user, restored, handoff>>
payVars    == <<booking, event, busy, paying>>
pageVars   == <<mapVars, selVars, holdVars, mountVars, payVars>>
vars == <<serverVars, pageVars, reqs, calls, upsets, parted>>

Nobody == "nobody"
Me == "me"
Other == "other"
Unsold == 0
Elsewhere == MaxCalls + 1     \* a booking that is not the visitor's
NoBooking == [b |-> 0, status |-> "none"]
NoEvent == 0
Blank == [s \in Seat |-> "booked"]
Loading == [st |-> "sent", view |-> Blank]
NoLoad == [st |-> "none", view |-> Blank]

---------------------------------------------------------------------------
(* The server, as the page meets it.                                       *)

\* Mutant of RoomStatus: a status the page does not know.
UnlistedStatus(s) ==
  IF sold[s] # Unsold THEN "sold" ELSE IF owner[s] # Nobody THEN "held" ELSE "available"

\* What a broadcast says of a seat: the same to everybody, owners included.
RoomStatus(s) ==
  IF sold[s] # Unsold THEN "booked" ELSE IF owner[s] # Nobody THEN "held" ELSE "available"

\* What the map says of a seat: a viewer's own holds read available.
MyStatus(s) ==
  IF session /\ owner[s] = Me /\ sold[s] = Unsold THEN "available" ELSE RoomStatus(s)

Give(f, S, x) == [s \in Seat |-> IF s \in S THEN x ELSE f[s]]

---------------------------------------------------------------------------
(* useSeatSelection                                                        *)

Selectable(view, s) == view[s] = "available"

\* The live selection: chosen seats that the page still shows as available.
Selected == {s \in chosen : hasData /\ Selectable(seen, s)}

LimitReached == Cardinality(Selected) >= MaxSeats

\* The ways in which one toggle after another of the seats T, judged by one
\* view of the map, can leave the chosen seats C: a chosen seat is dropped,
\* another is added while there is room.
Toggles(C, T, view) ==
  LET able == {s \in T : Selectable(view, s)}
      kept == C \ able
      live(X) == Cardinality({s \in X : Selectable(view, s)})
  IN {kept \cup A : A \in {X \in SUBSET (able \ C) :
        /\ live(kept \cup X) <= MaxSeats \/ X = {}
        /\ X = able \ C \/ live(kept \cup X) >= MaxSeats}}

\* Seats of the selection that the page calls lost: no longer available,
\* not known to be held by the visitor, not waiting for an answer.
Conflicted ==
  {s \in chosen : /\ hasData
                  /\ ~Selectable(seen, s)
                  /\ s \notin heldIds
                  /\ s \notin pending}

\* Mutants of IsCurrent: the ticket compared with the next one; no ticket.
NextTicket(r) == \A s \in r.seats : seq[s] > r.id
AnyTicket(r) == TRUE

\* The answer of call r is still the newest word on its seat.
IsCurrent(r) == \A s \in r.seats : seq[s] = r.id

---------------------------------------------------------------------------
(* Calls and loads                                                         *)

\* Mutant of Call: a fresh payment event for every press of Pay.
FreshEvent(id, op, by, seats, b) ==
  [id |-> id, op |-> op, by |-> by, seats |-> seats, b |-> b, event |-> id,
   view |-> seen, st |-> "sent", left |-> seats, got |-> {}, ref |-> {}]

\* A call: what it asks (b and the event are a booking's and a payment's),
\* where its answer goes, the map its answer will be judged by, and what the
\* server has done of it: the holds still to take, and what it has to tell.
\* ref is for the calls of a page that was left.
Call(id, op, by, seats, b) ==
  [id |-> id, op |-> op, by |-> by, seats |-> seats, b |-> b,
   event |-> IF op = "pay" THEN event ELSE NoEvent,
   view |-> IF (op = "hold" /\ by = "click") \/ by = "restore" THEN seen ELSE Blank,
   st |-> "sent", left |-> IF op = "hold" THEN seats ELSE {}, got |-> {}, ref |-> {}]

\* The calls rs leave the page.
Sends(rs) ==
  /\ calls + Cardinality(rs) <= MaxCalls
  /\ calls' = calls + Cardinality(rs)
  /\ reqs' = reqs \cup rs

Upsets == upsets < MaxUpsets /\ upsets' = upsets + 1

Answered(r) == reqs' = reqs \ {r} /\ UNCHANGED calls

\* load({ silent: true }): a newer load makes the answer of an older one void.
Reloads == load' = Loading /\ error' = FALSE /\ UNCHANGED <<hasData, seen>>

\* The visitor acts on a map that is shown and rendered.
OnMap == /\ place = "map" /\ hasData /\ ~error
         /\ heldRef = heldIds /\ handoff = {} /\ (user => restored)

\* The server is not done with the call.
Open(r) == r.st \in {"sent", "undoing"}

\* The page that asked is not there any more.
Orphan(r, by, held) == [r EXCEPT !.by = by, !.view = Blank, !.ref = held]

\* A refresh forgets every call, though the server may still serve it (that it
\* serves a question is left out).
Forgotten == {Orphan(r, "gone", {}) : r \in {q \in reqs : Open(q) /\ q.op # "ttl"}}

\* The login page is a page of the same program: what was asked before comes
\* back to functions of a page that is not there any more, and they know the
\* holds it showed last.
StillAwaited(rs) ==
  {IF r.by \in {"gone", "left"} THEN r ELSE Orphan(r, "left", heldRef) : r \in rs}

\* The next mount starts from nothing but sessionStorage and the seats handed
\* over.
Unmounts(passed, waiting) ==
  /\ handoff' = passed /\ restored' = FALSE
  /\ hasData' = FALSE /\ error' = FALSE /\ load' = Loading /\ seen' = Blank
  /\ chosen' = {} /\ pending' = {} /\ seq' = [s \in Seat |-> 0]
  /\ heldIds' = {} /\ heldRef' = {} /\ counting' = FALSE /\ UNCHANGED stored
  /\ booking' = NoBooking /\ event' = NoEvent /\ busy' = FALSE /\ paying' = FALSE
  /\ reqs' = waiting
  /\ UNCHANGED calls

Init ==
  /\ owner = [s \in Seat |-> Nobody] /\ sold \in [Seat -> {Unsold, Elsewhere}]
  /\ bought = [b \in 1..MaxCalls |-> [seats |-> {}, status |-> "none"]]
  /\ decided = {}
  /\ session \in BOOLEAN /\ user = session
  /\ place = "map" /\ handoff = {} /\ restored = FALSE
  /\ hasData = FALSE /\ error = FALSE /\ load = Loading /\ seen = Blank
  /\ chosen = {} /\ pending = {} /\ seq = [s \in Seat |-> 0]
  /\ heldIds = {} /\ heldRef = {} /\ counting = FALSE /\ stored = {}
  /\ booking = NoBooking /\ event = NoEvent /\ busy = FALSE /\ paying = FALSE
  /\ reqs = {} /\ calls = 0 /\ upsets = 0 /\ parted = {}

---------------------------------------------------------------------------
(* The server serves a call.                                               *)

\* The answer goes back, unless nobody waits for it any more.
Reply(r, st, got) ==
  IF r.by = "gone" THEN {} ELSE {[r EXCEPT !.st = st, !.left = {}, !.got = got]}

Replies(r, st, got) == reqs' = (reqs \ {r}) \cup Reply(r, st, got)

Serves(r, op) == r \in reqs /\ r.op = op /\ r.st = "sent" /\ UNCHANGED <<pageVars, calls, upsets>>

Continues(r, q) == reqs' = (reqs \ {r}) \cup {q}

\* The session is looked at before the first seat.
Admits(r) == session \/ r.left # r.seats

\* A call takes its holds seat by seat; one the visitor has is renewed.
TakeSeat(r, s) ==
  /\ Serves(r, "hold") /\ Admits(r)
  /\ s \in r.left /\ owner[s] \in {Nobody, Me}
  /\ owner' = [owner EXCEPT ![s] = Me]
  /\ parted' = parted \ {x \in {s} : seq[x] <= r.id}
  /\ IF r.left = {s} THEN Replies(r, "ok", {})
     ELSE Continues(r, [r EXCEPT !.left = @ \ {s},
                                 !.got = @ \cup {x \in {s} : owner[x] = Nobody}])
  /\ UNCHANGED <<sold, bought, decided, session>>

\* A seat of somebody else ends the call: what it took is taken back first.
RefuseHold(r) ==
  /\ Serves(r, "hold")
  /\ ~Admits(r) \/ \E s \in r.left : owner[s] = Other
  /\ IF r.got = {} THEN Replies(r, "refused", {}) ELSE Continues(r, [r EXCEPT !.st = "undoing"])
  /\ UNCHANGED <<serverVars, parted>>

\* The delete compares the user, not the call: it takes what a newer click
\* was granted as well.
UndoSeat(r, s) ==
  /\ r \in reqs /\ r.st = "undoing" /\ s \in r.got
  /\ owner' = [owner EXCEPT ![s] = IF @ = Me THEN Nobody ELSE @]
  /\ parted' = parted \cup {s}
  /\ IF r.got = {s} THEN Replies(r, "refused", {}) ELSE Continues(r, [r EXCEPT !.got = @ \ {s}])
  /\ UNCHANGED <<sold, bought, decided, session, pageVars, calls, upsets>>

\* A release that is served after a hold the visitor asked for later takes
\* that hold away; one of a page that was left, or of all the holds after a
\* booking, takes what an answer may still give back to the selection.
ServeRelease(r) ==
  /\ Serves(r, "release")
  /\ owner' = IF session THEN Give(owner, {s \in r.seats : owner[s] = Me}, Nobody) ELSE owner
  /\ parted' = parted \cup {s \in r.seats : r.by \in {"gone", "left", "all"} \/ seq[s] > r.id}
  /\ Replies(r, "ok", {})
  /\ UNCHANGED <<sold, bought, decided, session>>

ServeTtl(r) ==
  /\ Serves(r, "ttl")
  /\ Replies(r, IF session THEN "ok" ELSE "refused", {s \in r.seats : owner[s] = Me})
  /\ UNCHANGED <<serverVars, parted>>

ServeBook(r) ==
  /\ Serves(r, "book")
  /\ LET can == session /\ \A s \in r.seats : MyStatus(s) = "available" IN
     /\ sold' = IF can THEN Give(sold, r.seats, r.id) ELSE sold
     /\ bought' = IF can THEN [bought EXCEPT ![r.id] = [seats |-> r.seats, status |-> "pending"]]
                         ELSE bought
     /\ IF can
        THEN reqs' = (reqs \ {r}) \cup Reply(r, "ok", {})
                     \cup {Call(r.id, "remainder", "gone", r.seats, 0)}
        ELSE Replies(r, IF session THEN "taken" ELSE "noSession", {})
  /\ UNCHANGED <<owner, decided, session, parted>>

\* After its commit a booking gives back what else its buyer holds on the
\* show: as much of it as the hint of the buyer's holds still lists, and
\* nothing when Redis fails.
ServeRemainder(r) ==
  /\ Serves(r, "remainder")
  /\ \E S \in SUBSET {s \in Seat \ r.seats : owner[s] = Me} :
       owner' = Give(owner, S, Nobody) /\ parted' = parted \cup S
  /\ reqs' = reqs \ {r}
  /\ UNCHANGED <<sold, bought, decided, session>>

\* A decided event is answered from its record; the mock provider decides a
\* new one.  A booking that has expired meanwhile is refused here: its late
\* payments are the subject of BookingCore.
ServePay(r) ==
  /\ Serves(r, "pay")
  /\ LET before == {d \in decided : d.event = r.event} IN
     \/ /\ session /\ before # {}
        /\ \E d \in before : Replies(r, d.outcome, {})
        /\ UNCHANGED <<bought, decided>>
     \/ /\ session /\ before = {} /\ bought[r.b].status = "pending"
        /\ \E o \in {"paid", "failed"} :
             /\ decided' = decided \cup {[event |-> r.event, b |-> r.b, outcome |-> o]}
             /\ bought' = IF o = "paid" THEN [bought EXCEPT ![r.b].status = "paid"] ELSE bought
             /\ Replies(r, o, {})
     \/ /\ session /\ before = {} /\ bought[r.b].status # "pending"
        /\ Replies(r, "notPending", {})
        /\ UNCHANGED <<bought, decided>>
     \/ /\ ~session
        /\ Replies(r, "noSession", {})
        /\ UNCHANGED <<bought, decided>>
  /\ UNCHANGED <<owner, sold, session, parted>>

---------------------------------------------------------------------------
(* The world.                                                              *)

\* Another visitor takes, gives back or buys a seat.
OtherActs(s) ==
  /\ Upsets
  /\ owner[s] # Me /\ sold[s] = Unsold
  /\ \/ owner' = [owner EXCEPT ![s] = IF @ = Other THEN Nobody ELSE Other] /\ UNCHANGED sold
     \/ sold' = [sold EXCEPT ![s] = Elsewhere] /\ UNCHANGED owner
  /\ UNCHANGED <<bought, decided, session, pageVars, reqs, calls, parted>>

\* A hold runs out at the server.
HoldExpires(s) ==
  /\ Upsets
  /\ owner[s] = Me
  /\ owner' = [owner EXCEPT ![s] = Nobody]
  /\ parted' = parted \cup {s}
  /\ UNCHANGED <<sold, bought, decided, session, pageVars, reqs, calls>>

BookingExpires(b) ==
  /\ Upsets
  /\ bought[b].status = "pending"
  /\ bought' = [bought EXCEPT ![b].status = "cancelled"]
  /\ sold' = Give(sold, bought[b].seats, Unsold)
  /\ UNCHANGED <<owner, decided, session, pageVars, reqs, calls, parted>>

SessionEnds ==
  /\ Upsets
  /\ session
  /\ session' = FALSE
  /\ UNCHANGED <<owner, sold, bought, decided, pageVars, reqs, calls, parted>>

\* A call or its answer is lost, or the server fails it, with a part of its
\* holds taken or none; or the server goes on with a call given up here.
Lose(r) ==
  /\ Upsets
  /\ r \in reqs /\ r.by # "gone" /\ r.st # "lost"
  /\ \E on \in SUBSET {Orphan(r, "gone", {})} :
       /\ (Open(r) /\ r.op # "ttl") \/ on = {}
       /\ reqs' = (reqs \ {r}) \cup Reply(r, "lost", {}) \cup on
  /\ UNCHANGED <<serverVars, pageVars, calls, parted>>

---------------------------------------------------------------------------
(* The page loads and hears.                                               *)

\* The newest load's answer: read at the server at one moment, shown later.
ServeLoad ==
  /\ place = "map" /\ load = Loading
  /\ load' = [st |-> "read", view |-> [s \in Seat |-> MyStatus(s)]]
  /\ UNCHANGED <<serverVars, hasData, error, seen, selVars, holdVars, mountVars, payVars,
                 reqs, calls, upsets, parted>>

FinishLoad ==
  /\ place = "map" /\ load.st = "read"
  /\ seen' = load.view /\ hasData' = TRUE /\ load' = NoLoad /\ UNCHANGED error
  /\ UNCHANGED <<serverVars, selVars, holdVars, mountVars, payVars, reqs, calls, upsets, parted>>

LoadFails ==
  /\ place = "map" /\ load = Loading
  /\ Upsets
  /\ load' = NoLoad /\ error' = TRUE
  /\ UNCHANGED <<serverVars, hasData, seen, selVars, holdVars, mountVars, payVars,
                 reqs, calls, parted>>

\* "Try again" is not silent: the map goes away until the answer is there.
TryAgain ==
  /\ place = "map" /\ error
  /\ error' = FALSE /\ load' = Loading /\ hasData' = FALSE /\ seen' = Blank
  /\ UNCHANGED <<serverVars, selVars, holdVars, mountVars, payVars, reqs, calls, upsets, parted>>

\* A live update of one seat, true when it arrives (SeatFeed has the others).
\* The room calls a seat held without saying whose hold it is.
Hear(s) ==
  /\ place = "map" /\ hasData
  /\ LET told == IF RoomStatus(s) = "held" /\ s \in heldRef THEN "available" ELSE RoomStatus(s)
     IN seen[s] # told /\ seen' = [seen EXCEPT ![s] = told]
  /\ UNCHANGED <<serverVars, hasData, error, load, selVars, holdVars, mountVars, payVars,
                 reqs, calls, upsets, parted>>

\* React renders: heldRef catches up, the conflict effect drops the seats
\* that were lost, and the first render with a map and a user asks for the
\* holds of the last visit and applies the seats handed over from the login.
Render ==
  /\ place = "map"
  /\ LET restores == hasData /\ user /\ ~restored
         asks     == restores /\ stored # {}
         applies  == hasData /\ handoff # {}
         kept     == chosen \ Conflicted
     IN /\ heldRef # heldIds \/ kept # chosen \/ restores \/ applies
        /\ heldRef' = heldIds
        /\ restored' = (restored \/ restores)
        /\ handoff' = IF applies THEN {} ELSE handoff
        /\ chosen' \in IF applies THEN Toggles(kept, handoff, seen) ELSE {kept}
        /\ Sends({c \in {Call(calls + 1, "ttl", "restore", stored, 0),
                        Call(IF asks THEN calls + 2 ELSE calls + 1, "hold", "handoff", handoff, 0)} :
                   IF c.op = "ttl" THEN asks ELSE applies /\ user})
  /\ UNCHANGED <<serverVars, mapVars, pending, seq, heldIds, counting, stored,
                 place, user, payVars, upsets, parted>>

---------------------------------------------------------------------------
(* The visitor.                                                            *)

\* Mutant of LetsGo: the countdown is left behind.
AnchorKept(groups, last) ==
  heldIds' = heldRef \ last /\ stored' = heldRef \ last /\ UNCHANGED <<heldRef, counting>>

\* One release() after another in one render, of these groups of seats: each
\* starts from the holds as last rendered, so that the last one decides what
\* is held, and any one that leaves nothing ends the countdown.
LetsGo(groups, last) ==
  /\ heldIds' = heldRef \ last
  /\ stored' = heldRef \ last
  /\ counting' = (counting /\ \A S \in groups : ~ heldRef \subseteq S)
  /\ UNCHANGED heldRef

\* A click selects or unselects a seat at once and asks the server for the
\* hold, or gives it back, when there is a session.
Click(s) ==
  /\ OnMap /\ Selectable(seen, s)
  /\ s \in Selected \/ ~LimitReached
  /\ chosen' \in Toggles(chosen, {s}, seen)
  /\ IF user
     THEN /\ seq' = [seq EXCEPT ![s] = calls + 1]
          /\ pending' = pending \cup {s}
          /\ IF s \in Selected
             THEN LetsGo({{s}}, {s}) /\ Sends({Call(calls + 1, "release", "click", {s}, 0)})
             ELSE UNCHANGED holdVars /\ Sends({Call(calls + 1, "hold", "click", {s}, 0)})
     ELSE UNCHANGED <<seq, pending, holdVars, reqs, calls>>
  /\ UNCHANGED <<serverVars, mapVars, mountVars, payVars, upsets, parted>>

\* Suggest: as many seats as are selected (two if none), P, are toggled in
\* and the others out, seat by seat, each as a click would: but with one
\* view of the limit and of the holds for all of them.
Suggest(P) ==
  /\ OnMap
  /\ LET count  == Cardinality(Selected)
         wanted == IF count = 0 THEN IF MaxSeats < 2 THEN MaxSeats ELSE 2 ELSE count
         drops  == Selected \ P
         adds   == IF LimitReached THEN {} ELSE P \ Selected
         n      == Cardinality(drops) + Cardinality(adds)
     IN /\ Cardinality(P) = wanted /\ \A s \in P : Selectable(seen, s)
        /\ drops \cup adds # {}
        /\ chosen' \in Toggles(chosen \ drops, adds, seen)
        /\ IF user
           THEN \E id \in [drops \cup adds -> calls + 1 .. calls + n] :
                  /\ \A s, t \in drops \cup adds :
                       /\ id[s] = id[t] => s = t
                       /\ s \in drops /\ t \in adds => id[s] < id[t]
                  /\ seq' = [s \in Seat |-> IF s \in drops \cup adds THEN id[s] ELSE seq[s]]
                  /\ pending' = pending \cup drops \cup adds
                  /\ IF drops = {} THEN UNCHANGED holdVars
                     ELSE LetsGo({{s} : s \in drops},
                                 {s \in drops : \A t \in drops : id[t] <= id[s]})
                  /\ Sends({Call(id[s], IF s \in drops THEN "release" ELSE "hold", "click", {s}, 0) :
                               s \in drops \cup adds})
           ELSE UNCHANGED <<seq, pending, holdVars, reqs, calls>>
  /\ UNCHANGED <<serverVars, mapVars, mountVars, payVars, upsets, parted>>

\* Clear empties the selection and lets no hold go.
Clear ==
  /\ OnMap /\ Selected # {}
  /\ chosen' = {} /\ pending' = {}
  /\ UNCHANGED <<serverVars, mapVars, seq, holdVars, mountVars, payVars, reqs, calls, upsets, parted>>

\* Proceed: to the login page without a user, else one booking of what is
\* selected now.
Proceed ==
  /\ OnMap /\ Selected # {} /\ ~busy
  /\ IF user
     THEN /\ busy' = TRUE
          /\ Sends({Call(calls + 1, "book", "page", Selected, calls + 1)})
          /\ UNCHANGED <<mapVars, selVars, holdVars, mountVars, booking, event, paying>>
     ELSE place' = "login" /\ Unmounts(Selected, StillAwaited(reqs)) /\ UNCHANGED user
  /\ UNCHANGED <<serverVars, upsets, parted>>

Pay ==
  /\ OnMap /\ booking.b # 0 /\ booking.status # "paid" /\ ~paying
  /\ paying' = TRUE
  /\ Sends({Call(calls + 1, "pay", "page", Selected, booking.b)})
  /\ UNCHANGED <<serverVars, mapVars, selVars, holdVars, mountVars, booking, event, busy, upsets, parted>>

Dismiss ==
  /\ OnMap /\ booking # NoBooking
  /\ booking' = NoBooking /\ event' = NoEvent
  /\ UNCHANGED <<serverVars, mapVars, selVars, holdVars, mountVars, busy, paying, reqs, calls, upsets, parted>>

\* The header's button: the server clears the cookie, AuthContext the user.
LogOut ==
  /\ Upsets
  /\ place = "map" /\ user
  /\ user' = FALSE /\ session' = FALSE
  /\ UNCHANGED <<owner, sold, bought, decided, mapVars, selVars, holdVars, place, restored, handoff,
                 payVars, reqs, calls, parted>>

\* The login page returns to the map and hands the seats back.
LogIn ==
  /\ place = "login"
  /\ place' = "map" /\ user' = TRUE /\ session' = TRUE
  /\ UNCHANGED <<owner, sold, bought, decided, mapVars, selVars, holdVars, restored, handoff,
                 payVars, reqs, calls, upsets, parted>>

\* A refresh: who is here is asked again, and the page mounts anew.
Refresh ==
  /\ Upsets
  /\ place = "map"
  /\ user' = session /\ Unmounts(handoff, Forgotten) /\ UNCHANGED place
  /\ UNCHANGED <<serverVars, parted>>

---------------------------------------------------------------------------
(* Answers.                                                                *)

\* An answer comes back to the page that asked.
Answers(r, op) ==
  /\ r \in reqs /\ r.op = op /\ ~Open(r) /\ r.by # "left"
  /\ UNCHANGED <<serverVars, upsets>>

\* A refused click is taken back, by the map it was made on.
Undone(r) == Toggles(chosen, r.seats, r.view)

\* Holds that are there are remembered whatever became of the click.  Beyond
\* that an answer acts only while it is the newest word on its seat: a
\* refusal undoes the click, and reads the map again.
HoldAnswer(r) ==
  /\ Answers(r, "hold")
  /\ IF r.st = "ok"
     THEN heldIds' = heldRef \cup r.seats /\ stored' = heldIds' /\ counting' = TRUE
     ELSE UNCHANGED <<heldIds, stored, counting>>
  /\ LET acts == r.by = "handoff" \/ IsCurrent(r) IN
     /\ pending' = IF r.by = "click" /\ acts THEN pending \ r.seats ELSE pending
     /\ chosen' \in IF r.by = "click" /\ acts /\ r.st # "ok"
                    THEN Undone(r) ELSE {chosen}
     /\ IF acts /\ r.st # "ok" THEN Reloads ELSE UNCHANGED mapVars
  /\ Answered(r)
  /\ parted' = IF r.st = "ok" THEN parted
               ELSE parted \cup (IF r.by = "handoff" THEN r.seats ELSE r.seats \ pending)
  /\ UNCHANGED <<seq, heldRef, mountVars, payVars>>

ReleaseAnswer(r) ==
  /\ Answers(r, "release")
  /\ pending' = IF r.by = "click" /\ IsCurrent(r) THEN pending \ r.seats ELSE pending
  /\ Answered(r)
  /\ UNCHANGED <<mapVars, chosen, seq, holdVars, mountVars, payVars, parted>>

\* A tab that comes back into view asks what is left of its holds.
Resync ==
  /\ place = "map" /\ user /\ heldRef # {}
  /\ Sends({Call(calls + 1, "ttl", "resync", heldRef, 0)})
  /\ UNCHANGED <<serverVars, mapVars, selVars, holdVars, mountVars, payVars, upsets, parted>>

\* The server's list replaces the page's own.  After a refresh the seats it
\* confirms are toggled; a question that failed confirms what is held.
TtlAnswer(r) ==
  /\ Answers(r, "ttl")
  /\ IF r.st = "ok"
     THEN heldIds' = r.got /\ stored' = r.got /\ counting' = (r.got # {})
     ELSE UNCHANGED <<heldIds, stored, counting>>
  /\ LET confirmed == IF r.st = "ok" THEN r.got ELSE heldRef
     IN IF r.by = "restore"
        THEN /\ chosen' \in Toggles(chosen, confirmed, r.view)
             /\ parted' = parted \cup {s \in confirmed : seq[s] > r.id}
        ELSE UNCHANGED <<chosen, parted>>
  /\ Answered(r)
  /\ UNCHANGED <<mapVars, pending, seq, heldRef, mountVars, payVars>>

\* The countdown of the page reaches zero.
CountdownEnds ==
  /\ place = "map" /\ counting
  /\ counting' = FALSE /\ heldIds' = {} /\ stored' = {}
  /\ chosen' = {} /\ pending' = {}
  /\ Reloads
  /\ UNCHANGED <<serverVars, seq, heldRef, mountVars, payVars, reqs, calls, upsets, parted>>

\* logout() and goToLogin(), with the seats selected when the call was made.
LoggedOut(r) ==
  place' = "login" /\ user' = FALSE /\ Unmounts(r.seats, StillAwaited(reqs \ {r}))

\* A booking that was made replaces the selection, gets one payment event
\* for good, and its holds are let go.  The button is free again when the
\* map has been read; that it stays grey so long is left out.
BookAnswer(r) ==
  /\ Answers(r, "book") /\ UNCHANGED parted
  /\ \/ /\ r.st = "ok"
        /\ booking' = [b |-> r.b, status |-> "pending"]
        /\ event' = r.id
        /\ chosen' = {} /\ pending' = {}
        /\ IF heldRef = {} THEN UNCHANGED holdVars /\ Answered(r)
           ELSE /\ LetsGo({heldRef}, heldRef)
                /\ calls < MaxCalls /\ calls' = calls + 1
                /\ reqs' = (reqs \ {r}) \cup {Call(calls + 1, "release", "all", heldRef, 0)}
        /\ busy' = FALSE /\ Reloads
        /\ UNCHANGED <<seq, mountVars, paying>>
     \/ /\ r.st = "taken"
        /\ busy' = FALSE /\ Reloads /\ Answered(r)
        /\ UNCHANGED <<selVars, holdVars, mountVars, booking, event, paying>>
     \/ /\ r.st = "lost"
        /\ busy' = FALSE /\ Answered(r)
        /\ UNCHANGED <<mapVars, selVars, holdVars, mountVars, booking, event, paying>>
     \/ /\ r.st = "noSession"
        /\ LoggedOut(r)

\* The answer of a payment is shown on whatever booking is shown by then.
PayAnswer(r) ==
  /\ Answers(r, "pay") /\ UNCHANGED parted
  /\ \/ /\ r.st = "paid"
        /\ booking' = [booking EXCEPT !.status = "paid"]
        /\ paying' = FALSE /\ Reloads /\ Answered(r)
        /\ UNCHANGED <<selVars, holdVars, mountVars, event, busy>>
     \/ /\ r.st \in {"failed", "notPending", "lost"}
        /\ paying' = FALSE /\ Answered(r)
        /\ UNCHANGED <<mapVars, selVars, holdVars, mountVars, booking, event, busy>>
     \/ /\ r.st = "noSession"
        /\ LoggedOut(r)

\* Answers to a page that was left act on sessionStorage alone: holds and
\* lists of holds are remembered, a booking lets the holds go.  A booking or
\* a payment that found no session logs out whoever has logged in since.
LeftAnswer(r) ==
  /\ r \in reqs /\ r.by = "left" /\ ~Open(r)
  /\ \/ /\ r.st # "noSession"
        /\ LET letsGo == r.op = "book" /\ r.st = "ok" /\ r.ref # {} IN
           /\ stored' = IF r.op = "hold" /\ r.st = "ok" THEN r.ref \cup r.seats
                        ELSE IF r.op = "ttl" /\ r.st = "ok" THEN r.got
                        ELSE IF letsGo THEN {} ELSE stored
           /\ IF ~letsGo THEN Answered(r)
              ELSE /\ calls < MaxCalls /\ calls' = calls + 1
                   /\ reqs' = (reqs \ {r}) \cup {Call(calls + 1, "release", "gone", r.ref, 0)}
        /\ UNCHANGED <<session, mapVars, selVars, heldIds, heldRef, counting, mountVars, payVars>>
     \/ r.st = "noSession" /\ LoggedOut(r) /\ session' = FALSE
  /\ UNCHANGED <<owner, sold, bought, decided, upsets, parted>>

Next ==
  \/ \E r \in reqs : \/ RefuseHold(r) \/ ServeRelease(r) \/ ServeTtl(r) \/ ServeBook(r)
                     \/ ServeRemainder(r) \/ ServePay(r) \/ HoldAnswer(r) \/ ReleaseAnswer(r)
                     \/ TtlAnswer(r) \/ BookAnswer(r) \/ PayAnswer(r) \/ LeftAnswer(r) \/ Lose(r)
                     \/ \E s \in Seat : TakeSeat(r, s) \/ UndoSeat(r, s)
  \/ \E s \in Seat : OtherActs(s) \/ HoldExpires(s) \/ Hear(s) \/ Click(s)
  \/ \E b \in 1..MaxCalls : BookingExpires(b)
  \/ \E P \in Together : Suggest(P)
  \/ SessionEnds \/ ServeLoad \/ FinishLoad \/ LoadFails \/ TryAgain \/ Render
  \/ Clear \/ Proceed \/ Pay \/ Dismiss \/ LogOut \/ LogIn \/ Refresh \/ Resync \/ CountdownEnds

Spec == Init /\ [][Next]_vars

---------------------------------------------------------------------------
(* Properties.                                                             *)

Statuses == {"available", "held", "booked"}

\* Every variable keeps its type.
TypeOK ==
  /\ owner \in [Seat -> {Nobody, Me, Other}] /\ sold \in [Seat -> 0..Elsewhere]
  /\ \A b \in 1..MaxCalls : /\ bought[b].seats \subseteq Seat
                            /\ bought[b].status \in {"none", "pending", "paid", "cancelled"}
  /\ \A d \in decided : d.outcome \in {"paid", "failed"} /\ {d.event, d.b} \subseteq 1..MaxCalls
  /\ {session, user, restored, hasData, error, counting, busy, paying} \subseteq BOOLEAN
  /\ place \in {"map", "login"}
  /\ seen \in [Seat -> Statuses] /\ load.st \in {"none", "sent", "read"} /\ load.view \in [Seat -> Statuses]
  /\ \A S \in {handoff, chosen, pending, heldIds, heldRef, stored, parted} : S \subseteq Seat
  /\ seq \in [Seat -> 0..calls] /\ event \in 0..calls
  /\ booking.b \in 0..calls /\ booking.status \in {"none", "pending", "paid"}
  /\ calls <= MaxCalls /\ upsets <= MaxUpsets
  /\ \A r \in reqs :
       /\ r.id \in 1..calls /\ r.seats \cup r.left \cup r.got \cup r.ref \subseteq Seat
       /\ r.op \in {"hold", "release", "ttl", "book", "pay", "remainder"}
       /\ r.by \in {"click", "handoff", "restore", "resync", "all", "page", "left", "gone"}

\* A seat shown as still confirming has a call in flight that will settle it,
\* in whatever order the answers of earlier clicks come back.
PendingIsAwaited ==
  \A s \in pending : \E r \in reqs : r.by = "click" /\ r.id = seq[s] /\ s \in r.seats

\* The countdown and the list of holds go together through whatever changes
\* either: holds, releases, suggestions, resyncs, bookings, the end of the
\* countdown itself.  It never runs for an empty list; a seat joins the list
\* with the countdown running; and when it stops, no seat that stays on the
\* list is selected.  One may stay: Suggest, dropping several seats of which
\* one is all that is held, can let that one go first and write it back to
\* the list with the next.  Given back at the server and listed without a
\* countdown, its hold by somebody else will read as available.
CountdownGoesWithHolds ==
  [][/\ counting' => heldIds' # {}
     /\ counting' \/ heldIds' \subseteq heldIds
     /\ counting /\ ~counting' => heldIds' \cap chosen' = {}]_vars

\* However often Pay is pressed, and whatever answers are lost, the server
\* decides a booking's payment once.  (It follows that a payment that failed
\* fails for good: what "try again" sends is the same event.)
BookingDecidedOnce == \A d, e \in decided : d.b = e.b => d = e

\* Nothing is on its way that could change what the page shows or holds.
Settled ==
  /\ place = "map" /\ hasData /\ ~error /\ load = NoLoad
  /\ heldRef = heldIds /\ restored /\ handoff = {}
  /\ \A r \in reqs : r.op \in {"pay", "book", "remainder"}

\* "The selection is local, the hold is authoritative, and the two must not
\* disagree": once everything has settled, a seat a signed-in visitor sees
\* selected is one the server holds for them.  Lost calls, refused holds,
\* overtaken answers, expired countdowns, refreshes and logins do not break
\* this.  What does, and puts a seat in `parted` until a hold of it is
\* granted again: the hold ran out at the server, or its release was served
\* after it (a release of an older click, of the last visit, or of what was
\* held when a booking was made); a booking gave back what it did not book,
\* a seat clicked while it was under way with the rest; a call for several
\* seats was refused and took back a seat granted again since; the answer
\* that restores the last visit's holds comes after a click on the seat; the
\* seat was handed over from the login page in a call that was refused for
\* another seat's sake; a refused click put it back after Clear.  A hold that
\* is granted after a newer click does not count.
SelectionIsHeld ==
  Settled /\ user /\ session => \A s \in Selected \ parted : owner[s] = Me

\* "Announcing that as a conflict would accuse the visitor of losing a seat
\* they are holding": a seat named as taken by somebody else is not held by
\* the visitor.  Violated: the hold taken after a login is not pending.
NobodyAccused == \A s \in Conflicted : owner[s] = Me => sold[s] # Unsold
=============================================================================
