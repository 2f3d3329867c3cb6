------------------------------ MODULE SeatHolds ------------------------------
(***************************************************************************)
(* Seat holds in Redis, as holdService takes, rolls back and releases them *)
(* and bookingService gives back the unbooked remainder, for one show.     *)
(*                                                                         *)
(* Nothing spans the keys of a request: each Lua script is one atomic step *)
(* over one key (the remainder's over several), and between two of them    *)
(* other requests, of the same user too, and the clock act.  A command can *)
(* fail, with or without having taken effect, and a server can be lost.    *)
(***************************************************************************)
EXTENDS Integers, FiniteSets

CONSTANTS
    Workers,   \* requests in flight at once
    Users,
    NoUser,    \* in place of a key's owner when there is no key
    Seats,     \* the seats of one show; ids are ordered
    Ttl        \* HOLD_TTL_SECONDS, in ticks of the clock

ASSUME UsersAssumption == NoUser \notin Users
ASSUME HoldSeatsAssumption == Seats \subseteq Nat /\ IsFiniteSet(Seats)
ASSUME TtlAssumption == Ttl \in Nat \ {0}

VARIABLES
    hold,        \* hold:<show>:<seat>, the owner or NoUser
    left,        \* the key's remaining TTL
    hint,        \* holdowner:<show>:<user>, the owner hint
    told,        \* holds an answer has told their owner of, and not asked back
    leftBehind,  \* holds a failed step left with nobody to give them back
    req          \* what each worker is doing

vars == <<hold, left, hint, told, leftBehind, req>>

-----------------------------------------------------------------------------

Stages == {"idle", "taking", "undoing", "releasing", "booked", "freeing", "forgetting"}
Request == [stage : Stages,
            user : Users \cup {NoUser},
            seats : SUBSET Seats,   \* the seats the request is about
            todo : SUBSET Seats,    \* those it has still to take or release
            got : SUBSET Seats]     \* "acquired": keys it created, not given back

At(stage, u, S, todo) ==
    [stage |-> stage, user |-> u, seats |-> S, todo |-> todo, got |-> {}]
Idle == At("idle", NoUser, {}, {})

Held == {s \in Seats : hold[s] # NoUser}

(* Besides the types: every hold has a TTL, as getHoldTtl's comment        *)
(* assumes (TTL never replies -1), and no key without an owner has one.    *)
TypeOK ==
    /\ hold \in [Seats -> Users \cup {NoUser}]
    /\ left \in [Seats -> 0..Ttl]
    /\ hint \in [Users -> SUBSET Seats]
    /\ told \subseteq Held /\ leftBehind \subseteq Held
    /\ req \in [Workers -> Request]
    /\ Held = {s \in Seats : left[s] > 0}

Init ==
    /\ hold = [s \in Seats |-> NoUser]
    /\ left = [s \in Seats |-> 0]
    /\ hint = [u \in Users |-> {}]
    /\ told = {} /\ leftBehind = {}
    /\ req = [w \in Workers |-> Idle]

-----------------------------------------------------------------------------
(* The keys.                                                               *)

(* Compare-and-delete's comparison.  The mutant is a plain DEL.            *)
AnyOwner(w, s) == hold[s] # NoUser
Mine(w, s) == hold[s] = req[w].user

(* ACQUIRE_SCRIPT's result 1, against result 2 for a key of the same user. *)
AlreadyMine(w, s) == hold[s] = req[w].user
NewlyTaken(w, s) == hold[s] = NoUser

(* SET ... EX.  The mutant sets the key and no TTL.                        *)
NoExpiry == 0
FullTtl == Ttl

Free(S) ==
    /\ hold' = [s \in Seats |-> IF s \in S THEN NoUser ELSE hold[s]]
    /\ left' = [s \in Seats |-> IF s \in S THEN 0 ELSE left[s]]
    /\ told' = told \ S
    /\ leftBehind' = leftBehind \ S

(* The next seat in ascending numeric order; rollback takes the reverse.   *)
AnyToTake(w, s) == s \in req[w].todo
NextToTake(w, s) == s \in req[w].todo /\ \A t \in req[w].todo : s <= t
LastTaken(w, s) == s \in req[w].got /\ \A t \in req[w].got : t <= s

Done(w) == req' = [req EXCEPT ![w] = Idle]

-----------------------------------------------------------------------------
(* acquireHolds.                                                           *)

BeginHold(w, u, S) ==
    /\ req[w] = Idle /\ S # {}
    /\ req' = [req EXCEPT ![w] = At("taking", u, S, S)]
    /\ UNCHANGED <<hold, left, hint, told, leftBehind>>

Acquired(w, s) ==
    /\ NextToTake(w, s)
    /\ hold[s] \in {NoUser, req[w].user}
    /\ hold' = [hold EXCEPT ![s] = req[w].user]
    /\ left' = [left EXCEPT ![s] = FullTtl]

TakeSeat(w) ==
    /\ req[w].stage = "taking"
    /\ \E s \in Seats :
        /\ Acquired(w, s)
        /\ req' = [req EXCEPT ![w].todo = @ \ {s},
                              ![w].got = IF NewlyTaken(w, s) THEN @ \cup {s} ELSE @]
    /\ UNCHANGED <<hint, told, leftBehind>>

(* Somebody else's seat: give back what this call created.                 *)
MeetConflict(w) ==
    /\ req[w].stage = "taking"
    /\ \E s \in Seats : NextToTake(w, s) /\ hold[s] \notin {NoUser, req[w].user}
    /\ req' = [req EXCEPT ![w].stage = "undoing"]
    /\ UNCHANGED <<hold, left, hint, told, leftBehind>>

UndoSeat(w) ==
    /\ req[w].stage = "undoing"
    /\ \E s \in Seats :
        /\ LastTaken(w, s)
        /\ Free(IF Mine(w, s) THEN {s} ELSE {})
        /\ req' = [req EXCEPT ![w].got = @ \ {s}]
    /\ UNCHANGED hint

RefuseHold(w) ==
    /\ req[w].stage = "undoing" /\ req[w].got = {}
    /\ Done(w)
    /\ UNCHANGED <<hold, left, hint, told, leftBehind>>

(* Every seat answered 1 or 2: write the hint, which may fail unnoticed,   *)
(* and answer 201.                                                         *)
GrantHold(w) ==
    LET kept == {s \in req[w].seats : Mine(w, s)} IN
    /\ req[w].stage = "taking" /\ req[w].todo = {}
    /\ \/ hint' = [hint EXCEPT ![req[w].user] = @ \cup req[w].seats]
       \/ UNCHANGED hint
    /\ told' = told \cup kept
    /\ leftBehind' = leftBehind \ kept
    /\ Done(w)
    /\ UNCHANGED <<hold, left>>

-----------------------------------------------------------------------------
(* releaseHolds, for the client and for a booking just paid.               *)

BeginRelease(w, u, S) ==
    /\ req[w] = Idle /\ S # {}
    /\ req' = [req EXCEPT ![w] = At("releasing", u, S, S)]
    /\ told' = {s \in told : s \notin S \/ hold[s] # u}
    /\ UNCHANGED <<hold, left, hint, leftBehind>>

ReleaseSeat(w) ==
    /\ req[w].stage = "releasing"
    /\ \E s \in Seats :
        /\ NextToTake(w, s)
        /\ Free(IF Mine(w, s) THEN {s} ELSE {})
        /\ req' = [req EXCEPT ![w].todo = @ \ {s}]
    /\ UNCHANGED hint

(* forgetOwned: SREM, whose failure is swallowed.                          *)
Forget(w) ==
    /\ req[w].stage \in {"releasing", "forgetting"} /\ req[w].todo = {}
    /\ \/ hint' = [hint EXCEPT ![req[w].user] = @ \ req[w].seats]
       \/ UNCHANGED hint
    /\ Done(w)
    /\ UNCHANGED <<hold, left, told, leftBehind>>

-----------------------------------------------------------------------------
(* releaseRemainingHolds, after a booking committed.  Whether it commits   *)
(* is decided in Postgres; the availability read in front of it consults   *)
(* the holds only when Redis answers, so any selection can get here.       *)

Book(w, u, S) ==
    /\ req[w] = Idle /\ S # {}
    /\ req' = [req EXCEPT ![w] = At("booked", u, S, {})]
    /\ UNCHANGED <<hold, left, hint, told, leftBehind>>

ReadHint(w) ==
    LET u == req[w].user
        remainder == hint[u] \ req[w].seats
    IN /\ req[w].stage = "booked"
       /\ req' = [req EXCEPT ![w] = IF remainder = {} THEN Idle
                                                      ELSE At("freeing", u, remainder, {})]
       /\ UNCHANGED <<hold, left, hint, told, leftBehind>>

(* RELEASE_MANY_SCRIPT.                                                    *)
FreeTogether(w) ==
    /\ req[w].stage = "freeing"
    /\ Free({s \in req[w].seats : Mine(w, s)})
    /\ req' = [req EXCEPT ![w].stage = "forgetting"]
    /\ UNCHANGED hint

-----------------------------------------------------------------------------
(* The clock and failures.                                                 *)

Tick ==
    /\ Held # {}
    /\ hold' = [s \in Seats |-> IF left[s] > 1 THEN hold[s] ELSE NoUser]
    /\ left' = [s \in Seats |-> IF left[s] > 1 THEN left[s] - 1 ELSE 0]
    /\ told' = {s \in told : left[s] > 1}
    /\ leftBehind' = {s \in leftBehind : left[s] > 1}
    /\ UNCHANGED <<hint, req>>

(* The set's own TTL runs from the user's last granted hold; no property   *)
(* depends on when, so it may end at any moment.                           *)
ExpireHint(u) ==
    /\ hint[u] # {}
    /\ hint' = [hint EXCEPT ![u] = {}]
    /\ UNCHANGED <<hold, left, told, leftBehind, req>>

(* The holds that are left with nobody to give them back when a request    *)
(* ends without its answer.                                                *)
InHand(w) == req[w].got \cup (IF req[w].stage = "releasing" THEN req[w].todo ELSE {})

(* A command throws, which ends every request except one that is undoing,  *)
(* or the server is lost.                                                  *)
Abort(w) ==
    /\ req[w] # Idle
    /\ leftBehind' = leftBehind \cup ({s \in InHand(w) : Mine(w, s)} \ told)
    /\ Done(w)
    /\ UNCHANGED <<hold, left, hint, told>>

(* The acquire ran and its reply was lost: the call throws with the seat   *)
(* taken and not on its list.                                              *)
LoseReply(w) ==
    /\ req[w].stage = "taking"
    /\ \E s \in Seats :
        /\ Acquired(w, s)
        /\ leftBehind' = leftBehind \cup (({s} \cup {t \in req[w].got : Mine(w, t)}) \ told)
    /\ Done(w)
    /\ UNCHANGED <<hint, told>>

(* "Left to expire at TTL.  Logged, never rethrown."                       *)
UndoFails(w) ==
    /\ req[w].stage = "undoing"
    /\ \E s \in Seats :
        /\ LastTaken(w, s)
        /\ leftBehind' = leftBehind \cup (IF Mine(w, s) THEN {s} \ told ELSE {})
        /\ req' = [req EXCEPT ![w].got = @ \ {s}]
    /\ UNCHANGED <<hold, left, hint, told>>

-----------------------------------------------------------------------------

Arrive(w) ==
    \E u \in Users, S \in SUBSET Seats :
        BeginHold(w, u, S) \/ BeginRelease(w, u, S) \/ Book(w, u, S)

Continue(w) ==
    \/ TakeSeat(w) \/ MeetConflict(w) \/ UndoSeat(w) \/ RefuseHold(w) \/ GrantHold(w)
    \/ ReleaseSeat(w) \/ Forget(w)
    \/ ReadHint(w) \/ FreeTogether(w)

Fail(w) == Abort(w) \/ LoseReply(w) \/ UndoFails(w)

TimePasses == Tick \/ \E u \in Users : ExpireHint(u)

Next == TimePasses \/ \E w \in Workers : Arrive(w) \/ Continue(w) \/ Fail(w)

Spec == Init /\ [][Next]_vars

-----------------------------------------------------------------------------

(* A hold is nobody's to take away: it ends when its time is up, or by a   *)
(* step of a request of the user who has it, also when it expired and was  *)
(* taken by somebody else while that request was on its way.               *)
Releases(w, s) ==
    /\ \/ req[w].stage = "undoing" /\ s \in req[w].got
       \/ req[w].stage = "releasing" /\ s \in req[w].todo
       \/ req[w].stage = "freeing" /\ s \in req[w].seats
    /\ req'[w] # req[w]

HoldsKeepToOwner ==
    [][\A s \in Held :
        hold'[s] # hold[s] =>
            /\ hold'[s] = NoUser
            /\ \/ left[s] = 1
               \/ \E w \in Workers : req[w].user = hold[s] /\ Releases(w, s)]_vars

(* Taking seats in ascending order: of the requests that refuse each other *)
(* a seat, not every one is refused, "rather than the two each holding     *)
(* half of what the other needs".                                          *)
RefusedBy(w, v) ==
    req[w].stage = "undoing" /\ \E s \in req[v].got : NextToTake(w, s)

NoRefusalCycle ==
    ~\E W \in SUBSET Workers : W # {} /\ \A w \in W : \E v \in W : RefusedBy(w, v)

(* All of the seats or none: a hold its owner was not told of belongs to a *)
(* request that will answer for it or give it back, or it was left behind  *)
(* by a failure; a refusal alone never leaves one.                         *)
NothingLeftBehind ==
    \A s \in Held \ (told \cup leftBehind) :
        \E w \in Workers : req[w].user = hold[s] /\ s \in InHand(w)

-----------------------------------------------------------------------------
(* Why the properties hold: what a request has taken lies below what it    *)
(* has still to take, and only a request taking, undoing or releasing has  *)
(* anything in hand.                                                       *)

RequestOK(w) ==
    LET r == req[w] IN
    /\ r.stage = "idle" => r = Idle
    /\ r.stage # "idle" => r.user \in Users
    /\ r.stage \notin {"taking", "undoing"} => r.got = {}
    /\ r.stage \notin {"taking", "undoing", "releasing"} => r.todo = {}
    /\ r.todo \cup r.got \subseteq r.seats
    /\ \A s \in r.got, t \in r.todo : s < t

IInv == TypeOK /\ NothingLeftBehind /\ \A w \in Workers : RequestOK(w)

-----------------------------------------------------------------------------
(* What the repository's own text says.                                    *)

(* "Seats this user already held are refreshed, not created, so they are   *)
(* not rolled back": a rollback takes no hold away that its user was told  *)
(* of.                                                                     *)
RollbackSparesTold ==
    [][\A w \in Workers, s \in told :
        req[w].stage = "undoing" /\ req'[w] # req[w] => s \in told']_vars

=============================================================================
