---------------------------- MODULE WaitingRoom ----------------------------
(***************************************************************************)
(* The virtual waiting room of waitingRoomService.js: joining, asking where *)
(* a ticket stands, and the gate in front of the holds of a show.  Every    *)
(* call is a sequence of Redis commands, between which other calls run;     *)
(* servers read clocks of their own, so that every reading may be ahead.   *)
(*                                                                         *)
(* One show with the room switched on.  A tick is a millisecond.  Without  *)
(* Redis every call is answered as admitted and nothing is kept: such a    *)
(* call changes nothing here.                                              *)
(*                                                                         *)
(* Quotients are computed in floating point: one that is a whole number    *)
(* may come out beside it, one that is not is much further from the next   *)
(* whole number than it can be wrong.                                      *)
(***************************************************************************)
EXTENDS Integers, Sequences, FiniteSets

CONSTANTS Token, NoToken,   \* queue tokens; a request without the header
          Request,          \* requests under way at once
          Rate,             \* admissions per minute
          Minute, ASecond,   \* ticks per minute, per second
          FallsShort,       \* times for which a whole product comes out too small
          RoundsUp,         \* positions for which a whole quotient comes out too big
          InitialAdmit,     \* admitted at once
          TicketTtl,              \* life of a ticket
          NoStart,          \* the start key does not exist
          MaxSkew,          \* bound: how far ahead a server's clock may be
          MaxTime,          \* bound: ticks
          MaxNumber         \* bound: tickets issued

ASSUME RoomAssumption ==
  /\ NoToken \notin Token /\ NoStart \notin Int
  /\ {Rate, Minute, ASecond, TicketTtl} \subseteq Nat \ {0}
  /\ {InitialAdmit, MaxSkew, MaxTime, MaxNumber} \subseteq Nat

VARIABLES
  now,       \* the time Redis keeps
  start,     \* the start key
  issued,    \* the sequence counter: to whom each number was issued
  ticket,    \* the ticket keys: a number per token, 0 when there is none
  expires,   \* when each of them runs out
  req,       \* requests under way
  passed     \* history: tokens and numbers let through to the holds

room == <<start, issued, ticket, expires>>
roomVars == <<now, room, req, passed>>

\* brought: the caller brought the token; had: the ticket the caller of a
\* join had when it arrived.
Idle == [st |-> "idle", kind |-> "join", token |-> NoToken, brought |-> FALSE,
         number |-> 0, had |-> 0]

\* A token that was made up for a caller who has yet to be told of it.
Untold(t) == \E r \in Request : req[r].token = t /\ ~req[r].brought

RoomInit ==
  /\ now = 0 /\ start = NoStart /\ issued = <<>>
  /\ ticket = [t \in Token |-> 0] /\ expires = [t \in Token |-> 0]
  /\ req = [r \in Request |-> Idle]
  /\ passed = {}

\* What Date.now() may give.
Clocks == now..now + MaxSkew
Latest == now + MaxSkew

Elapsed(clock) == IF clock > start THEN clock - start ELSE 0

\* Math.floor((elapsedMs / 60000) * ratePerMinute), as it comes out.
Admissions(e) ==
  LET q == (e * Rate) \div Minute
  IN IF e \in FallsShort /\ q > 0 /\ q * Minute = e * Rate THEN q - 1 ELSE q

\* Admission is computed, not ticked.
AdmittedBy(clock) == InitialAdmit + Admissions(Elapsed(clock))

PositionOf(number, admitted) == IF number > admitted THEN number - admitted ELSE 0

\* Rounded up to seconds, as it comes out.
RoundedDown(position) == (position * Minute) \div (Rate * ASecond)
EtaSeconds(position) ==
  LET q == (position * Minute + Rate * ASecond - 1) \div (Rate * ASecond)
  IN IF position \in RoundsUp /\ position > 0 /\ q * (Rate * ASecond) = position * Minute
     THEN q + 1 ELSE q
Eta(position) == EtaSeconds(position) * ASecond

To(r, st) == req' = [req EXCEPT ![r].st = st]

\* A request arrives, with a token its client chose or was told, or without
\* one, and then there is no ticket to ask about.
Ask(r, kind, t) ==
  /\ req[r].st = "idle"
  /\ kind # "join" => t # NoToken
  /\ t # NoToken => ~Untold(t)
  /\ req' = [req EXCEPT ![r] = [st |-> IF kind = "join" THEN "open" ELSE "find",
                                kind |-> kind, token |-> t, brought |-> t # NoToken, number |-> 0,
                                had |-> IF kind = "join" /\ t \in Token THEN ticket[t] ELSE 0]]
  /\ UNCHANGED <<now, room, passed>>

\* openedAt: SET NX, and GET when somebody was first.  The key never goes.
Reset(clock) == clock
OpenedAt(clock) == IF start = NoStart THEN clock ELSE start

Open(r, clock) ==
  /\ req[r].st = "open"
  /\ start' = OpenedAt(clock)
  /\ To(r, IF req[r].kind # "join" THEN "answer"
           ELSE IF req[r].token = NoToken THEN "count" ELSE "find")
  /\ UNCHANGED <<now, issued, ticket, expires, passed>>

\* The ticket a token holds now.
NotLooked(r) == 0
Found(r) == ticket[req[r].token]

\* A known ticket is read.  A join goes on to its answer; the others have
\* still to read the start.
FindTicket(r) ==
  /\ req[r].st = "find" /\ Found(r) # 0
  /\ req' = [req EXCEPT ![r].st = IF req[r].kind = "join" THEN "answer" ELSE "open",
                        ![r].number = Found(r), ![r].had = 0]
  /\ UNCHANGED <<now, room, passed>>

\* An unknown ticket: a join takes a new number, the others are turned away.
MissTicket(r) ==
  /\ req[r].st = "find" /\ Found(r) = 0
  /\ IF req[r].kind = "join" THEN To(r, "count") ELSE req' = [req EXCEPT ![r] = Idle]
  /\ UNCHANGED <<now, room, passed>>

Live == {t \in Token : ticket[t] # 0}

QueueLength == Cardinality(Live) + 1
NextNumber == Len(issued) + 1

\* Tokens in use: a generated one is none of them.
Known == Live \cup {issued[n] : n \in 1..Len(issued)} \cup {req[r].token : r \in Request}

\* INCR.  A join that brought no token is given one.
Count(r, t) ==
  /\ req[r].st = "count"
  /\ Len(issued) < MaxNumber
  /\ IF req[r].token = NoToken THEN t \in Token \ Known ELSE t = req[r].token
  /\ issued' = Append(issued, t)
  /\ req' = [req EXCEPT ![r].st = "store", ![r].token = t, ![r].number = NextNumber]
  /\ UNCHANGED <<now, start, ticket, expires, passed>>

\* SET with an expiry, whatever is there by now.
Store(r) ==
  /\ req[r].st = "store"
  /\ ticket' = [ticket EXCEPT ![req[r].token] = req[r].number]
  /\ expires' = [expires EXCEPT ![req[r].token] = now + TicketTtl]
  /\ req' = [req EXCEPT ![r].st = "answer", ![r].had = 0]
  /\ UNCHANGED <<now, start, issued, passed>>

Position(r, clock) == PositionOf(req[r].number, AdmittedBy(clock))

\* The clock is read again and the answer computed: admitted, or so many
\* places to go.  The gate of the holds lets only the admitted through.
Answer(r, clock) ==
  /\ req[r].st = "answer"
  /\ passed' = IF req[r].kind = "hold" /\ Position(r, clock) = 0
               THEN passed \cup {<<req[r].token, req[r].number>>} ELSE passed
  /\ req' = [req EXCEPT ![r] = Idle]
  /\ UNCHANGED <<now, room>>

\* A command fails: the request ends with an error.
Fails(r) ==
  /\ req[r].st # "idle"
  /\ req' = [req EXCEPT ![r] = Idle]
  /\ UNCHANGED <<now, room, passed>>

\* Time passes and tickets run out: asking does not refresh them.
RoomTick ==
  /\ now < MaxTime
  /\ now' = now + 1
  /\ ticket' = [t \in Token |-> IF expires[t] <= now + 1 THEN 0 ELSE ticket[t]]
  /\ UNCHANGED <<start, issued, expires, req, passed>>

RoomNext ==
  \/ \E r \in Request :
       \/ \E kind \in {"join", "status", "hold"}, t \in Token \cup {NoToken} : Ask(r, kind, t)
       \/ \E clock \in Clocks : Open(r, clock) \/ Answer(r, clock)
       \/ FindTicket(r) \/ MissTicket(r) \/ Store(r) \/ Fails(r)
       \/ \E t \in Token : Count(r, t)
  \/ RoomTick

RoomSpec == RoomInit /\ [][RoomNext]_roomVars

---------------------------------------------------------------------------
(* Properties.                                                             *)

\* The keys and the requests are what the service keeps.
RoomTypeOK ==
  /\ now \in 0..MaxTime /\ start \in Nat \cup {NoStart}
  /\ issued \in Seq(Token)
  /\ ticket \in [Token -> Nat] /\ expires \in [Token -> Nat]
  /\ req \in [Request -> [st : {"idle", "open", "find", "count", "store", "answer"},
                          kind : {"join", "status", "hold"}, token : Token \cup {NoToken},
                          brought : BOOLEAN, number : Nat, had : Nat]]
  /\ passed \subseteq Token \X Nat

\* The room lets no more visitors through to the holds than the allowance and
\* the rate give by the latest clock of any server, however they join, retry,
\* lose their tickets and join again, and at whichever server they ask.
\* Those let through while Redis cannot be reached are not counted.
AdmitsNoMore ==
  passed # {} => start # NoStart /\ Cardinality({p[1] : p \in passed}) <= AdmittedBy(Latest)

\* No two tokens hold the same place.
PlacesDistinct == \A t, u \in Live : ticket[t] = ticket[u] => t = u

\* "A client that retries, or reloads, keeps its place" (joinQueue).
\* Violated by two joins of one token that overlap: both find no ticket, each
\* takes a number, and the later SET overwrites a place already answered.
RetryKeepsPlace ==
  [][\A t \in Token : ticket[t] # 0 => ticket'[t] \in {0, ticket[t]}]_roomVars

\* What is true of it: a join that arrives when its token has a ticket, after
\* the joins before it have stored theirs, never replaces that ticket,
\* however it is interleaved with other calls and with the ticket's expiry.
LaterRetryKeepsPlace ==
  [][\A t \in Token :
       ticket[t] # 0 => \/ ticket'[t] \in {0, ticket[t]}
                        \/ \E r \in Request : /\ req[r].st = "store" /\ req[r].token = t
                                             /\ req[r].had # ticket[t]]_roomVars

\* "A wait that finishes early is a better surprise than one that runs over":
\* whoever is told to wait is admitted as soon as that time has been
\* exceeded, and at the very instant it is over is at most one admission
\* short, by floating point.  The clock that is asked later is not behind the
\* one that answered, which is not behind the one that opened the queue.
EtaIsEnough ==
  \A r \in Request, clock \in Clocks :
    (req[r].st = "answer" /\ clock >= start)
      => LET over == clock + Eta(Position(r, clock))
         IN /\ PositionOf(req[r].number, AdmittedBy(over)) <= 1
            /\ PositionOf(req[r].number, AdmittedBy(over + 1)) = 0
=============================================================================
