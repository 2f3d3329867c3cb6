--------------------------- MODULE SeatHoldsProofs ---------------------------
(***************************************************************************)
(* Proofs about SeatHolds: the inductive invariant, who may end a hold,    *)
(* and that requests which take seats in order do not all refuse each      *)
(* other.                                                                  *)
(***************************************************************************)
EXTENDS SeatHolds, Highest

-----------------------------------------------------------------------------
(* What the invariant gives about one request.                             *)

LEMMA RequestTypes ==
  ASSUME TypeOK, NEW w \in Workers
  PROVE  /\ req[w] \in Request
         /\ req[w].user \in Users \cup {NoUser}
         /\ req[w].seats \subseteq Seats
         /\ req[w].todo \subseteq Seats
         /\ req[w].got \subseteq Seats
         /\ InHand(w) \subseteq Seats
BY DEF TypeOK, Request, InHand

(* Whoever has a seat in hand is a user, and the comparison with the key's *)
(* owner then says that the key exists.                                    *)
LEMMA OwnerIsUser ==
  ASSUME IInv, NEW w \in Workers, req[w] # Idle
  PROVE  /\ req[w].user \in Users
         /\ \A s \in Seats : Mine(w, s) => s \in Held
BY UsersAssumption DEF IInv, RequestOK, Mine, Held

OnlyMoves(w) ==
    \A v \in Workers : v # w => req'[v] = req[v] /\ InHand(v)' = InHand(v)

Accounted(w, s) ==
    \/ s \in told' \cup leftBehind'
    \/ req'[w].user = hold'[s] /\ s \in InHand(w)'
    \/ /\ s \in Held /\ hold'[s] = hold[s]
       /\ s \notin told \cup leftBehind
       /\ ~(req[w].user = hold[s] /\ s \in InHand(w))

(* A step of one request leaves the others as they are.                    *)
LEMMA OtherRequests ==
  ASSUME IInv, NEW w \in Workers, NEW r \in Request, req' = [req EXCEPT ![w] = r],
         RequestOK(w)'
  PROVE  /\ req' \in [Workers -> Request]
         /\ req'[w] = r
         /\ OnlyMoves(w)
         /\ \A v \in Workers : RequestOK(v)'
<1>1. req \in [Workers -> Request]
  BY DEF IInv, TypeOK
<1>2. \A v \in Workers : v # w => req'[v] = req[v]
  BY <1>1
<1>3. ASSUME NEW v \in Workers, v # w PROVE RequestOK(v)' /\ InHand(v)' = InHand(v)
  BY <1>2, <1>3 DEF IInv, RequestOK, InHand
<1> QED
  BY <1>1, <1>2, <1>3 DEF OnlyMoves

(* Every hold is still accounted for when the only request that lost one   *)
(* from its hands is w, and the rest kept their owner.                     *)
LEMMA StillAccounted ==
  ASSUME IInv, NEW w \in Workers, OnlyMoves(w), \A s \in Held' : Accounted(w, s)
  PROVE  NothingLeftBehind'
<1> SUFFICES ASSUME NEW s \in Held', s \notin told' \cup leftBehind'
             PROVE  \E v \in Workers : req'[v].user = hold'[s] /\ s \in InHand(v)'
  BY DEF NothingLeftBehind
<1>1. CASE req'[w].user = hold'[s] /\ s \in InHand(w)'
  BY <1>1
<1>2. CASE /\ s \in Held /\ hold'[s] = hold[s]
           /\ s \notin told \cup leftBehind
           /\ ~(req[w].user = hold[s] /\ s \in InHand(w))
  <2>1. PICK v \in Workers : req[v].user = hold[s] /\ s \in InHand(v)
    BY <1>2 DEF IInv, NothingLeftBehind
  <2>2. v # w
    BY <1>2, <2>1
  <2> QED
    BY <1>2, <2>1, <2>2 DEF OnlyMoves
<1> QED
  BY <1>1, <1>2 DEF Accounted

(* What Free leaves of the keys.                                           *)
LEMMA FreeKeeps ==
  ASSUME IInv, NEW S \in SUBSET Seats, Free(S)
  PROVE  /\ hold' \in [Seats -> Users \cup {NoUser}]
         /\ left' \in [Seats -> 0..Ttl]
         /\ told' = told \ S /\ leftBehind' = leftBehind \ S
         /\ told' \subseteq Held' /\ leftBehind' \subseteq Held'
         /\ Held' = {s \in Seats : left'[s] > 0}
         /\ Held' = Held \ S
         /\ \A s \in Seats : s \notin S => hold'[s] = hold[s]
BY TtlAssumption, UsersAssumption DEF IInv, TypeOK, Free, Held

-----------------------------------------------------------------------------
(* The invariant holds initially and every step preserves it.              *)

LEMMA InitInv == Init => IInv
BY TtlAssumption DEF Init, IInv, TypeOK, NothingLeftBehind, RequestOK, Held, Request, Stages, Idle, At

(* Steps that leave the keys alone and only start a request or move it on. *)
LEMMA KeysUntouched ==
  ASSUME IInv, NEW w \in Workers, NEW r \in Request, req' = [req EXCEPT ![w] = r],
         RequestOK(w)', UNCHANGED <<hold, left, told, leftBehind>>,
         hint' \in [Users -> SUBSET Seats],
         \A s \in InHand(w) : req[w].user = hold[s] =>
            s \in told \cup leftBehind \/ (r.user = req[w].user /\ s \in InHand(w)')
  PROVE  IInv'
<1>1. /\ req' \in [Workers -> Request] /\ req'[w] = r
      /\ OnlyMoves(w)
      /\ \A v \in Workers : RequestOK(v)'
  BY OtherRequests
<1>2. TypeOK'
  BY <1>1 DEF IInv, TypeOK, Held
<1>3. Held' = Held
  BY DEF Held
<1>4. ASSUME NEW s \in Held'
      PROVE  Accounted(w, s)
  BY <1>1, <1>3 DEF Accounted
<1>5. NothingLeftBehind'
  BY <1>1, <1>4, StillAccounted
<1> QED
  BY <1>1, <1>2, <1>5 DEF IInv

LEMMA BeginHoldInv ==
  ASSUME IInv, NEW w \in Workers, NEW u \in Users, NEW S \in SUBSET Seats, BeginHold(w, u, S)
  PROVE  IInv'
<1> DEFINE r == At("taking", u, S, S)
<1>1. r \in Request /\ req' = [req EXCEPT ![w] = r] /\ req[w] = Idle
  BY DEF BeginHold, Request, Stages, At
<1>2. req'[w] = r
  BY <1>1 DEF IInv, TypeOK
<1>3. RequestOK(w)'
  BY <1>2 DEF RequestOK, At
<1>4. InHand(w) = {}
  BY <1>1 DEF InHand, Idle, At
<1> QED
  BY <1>1, <1>3, <1>4, KeysUntouched DEF BeginHold, IInv, TypeOK

LEMMA BookInv ==
  ASSUME IInv, NEW w \in Workers, NEW u \in Users, NEW S \in SUBSET Seats, Book(w, u, S)
  PROVE  IInv'
<1> DEFINE r == At("booked", u, S, {})
<1>1. r \in Request /\ req' = [req EXCEPT ![w] = r] /\ req[w] = Idle
  BY DEF Book, Request, Stages, At
<1>2. req'[w] = r
  BY <1>1 DEF IInv, TypeOK
<1>3. RequestOK(w)'
  BY <1>2 DEF RequestOK, At
<1>4. InHand(w) = {}
  BY <1>1 DEF InHand, Idle, At
<1> QED
  BY <1>1, <1>3, <1>4, KeysUntouched DEF Book, IInv, TypeOK

LEMMA IdleRequest ==
  /\ Idle \in Request
  /\ \A w : req'[w] = Idle => RequestOK(w)' /\ InHand(w)' = {}
BY DEF Idle, At, Request, Stages, RequestOK, InHand

LEMMA ReadHintInv ==
  ASSUME IInv, NEW w \in Workers, ReadHint(w)
  PROVE  IInv'
<1> DEFINE rest == hint[req[w].user] \ req[w].seats
           r == IF rest = {} THEN Idle ELSE At("freeing", req[w].user, rest, {})
<1>1. req' = [req EXCEPT ![w] = r] /\ req[w].stage = "booked"
  BY DEF ReadHint
<1>2. req[w].user \in Users /\ InHand(w) = {}
  BY <1>1 DEF IInv, RequestOK, InHand
<1>3. r \in Request /\ req'[w] = r
  BY <1>1, <1>2, IdleRequest DEF IInv, TypeOK, Request, Stages, At
<1>4. RequestOK(w)'
  BY <1>2, <1>3, IdleRequest DEF RequestOK, At
<1> QED
  BY <1>1, <1>2, <1>3, <1>4, KeysUntouched DEF ReadHint, IInv, TypeOK

LEMMA RefuseHoldInv ==
  ASSUME IInv, NEW w \in Workers, RefuseHold(w)
  PROVE  IInv'
<1>1. req' = [req EXCEPT ![w] = Idle] /\ InHand(w) = {}
  BY DEF RefuseHold, Done, InHand
<1>2. RequestOK(w)'
  BY <1>1, IdleRequest DEF IInv, TypeOK
<1> QED
  BY <1>1, <1>2, IdleRequest, KeysUntouched DEF RefuseHold, IInv, TypeOK

LEMMA ForgetInv ==
  ASSUME IInv, NEW w \in Workers, Forget(w)
  PROVE  IInv'
<1>1. req' = [req EXCEPT ![w] = Idle] /\ req[w].stage \in {"releasing", "forgetting"}
  BY DEF Forget, Done
<1>2. InHand(w) = {}
  BY <1>1 DEF Forget, InHand, IInv, RequestOK
<1>3. RequestOK(w)'
  BY <1>1, IdleRequest DEF IInv, TypeOK
<1>4. hint' \in [Users -> SUBSET Seats]
  BY DEF Forget, IInv, TypeOK
<1> QED
  BY <1>1, <1>2, <1>3, <1>4, IdleRequest, KeysUntouched DEF Forget

LEMMA MeetConflictInv ==
  ASSUME IInv, NEW w \in Workers, MeetConflict(w)
  PROVE  IInv'
<1> DEFINE r == [req[w] EXCEPT !.stage = "undoing"]
<1>1. req' = [req EXCEPT ![w] = r] /\ req[w].stage = "taking" /\ req[w] \in Request
  BY DEF MeetConflict, IInv, TypeOK
<1>2. /\ r \in Request /\ req'[w] = r
      /\ r.stage = "undoing" /\ r.user = req[w].user /\ r.seats = req[w].seats
      /\ r.todo = req[w].todo /\ r.got = req[w].got
  BY <1>1 DEF Request, Stages, IInv, TypeOK
<1>3. RequestOK(w)' /\ InHand(w)' = InHand(w)
  BY <1>1, <1>2 DEF IInv, RequestOK, InHand
<1> QED
  BY <1>1, <1>2, <1>3, KeysUntouched DEF MeetConflict, IInv, TypeOK

(* A request that gives back one key, or finds that it is not its own.     *)
LEMMA GiveBackInv ==
  ASSUME IInv, NEW w \in Workers, NEW s \in Seats, NEW r \in Request,
         req' = [req EXCEPT ![w] = r], RequestOK(w)', UNCHANGED hint,
         r.user = req[w].user, InHand(w)' = InHand(w) \ {s},
         Free(IF Mine(w, s) THEN {s} ELSE {})
  PROVE  IInv'
<1> DEFINE S == IF Mine(w, s) THEN {s} ELSE {}
<1>1. /\ req' \in [Workers -> Request] /\ req'[w] = r
      /\ OnlyMoves(w)
      /\ \A v \in Workers : RequestOK(v)'
  BY OtherRequests
<1>2. S \in SUBSET Seats /\ Free(S)
  OBVIOUS
<1> HIDE DEF S
<1>3. /\ hold' \in [Seats -> Users \cup {NoUser}]
      /\ left' \in [Seats -> 0..Ttl]
      /\ told' = told \ S /\ leftBehind' = leftBehind \ S
      /\ told' \subseteq Held' /\ leftBehind' \subseteq Held'
      /\ Held' = {t \in Seats : left'[t] > 0}
      /\ Held' = Held \ S
      /\ \A t \in Seats : t \notin S => hold'[t] = hold[t]
  BY <1>2, FreeKeeps
<1>4. TypeOK'
  BY <1>1, <1>3 DEF IInv, TypeOK, Held
<1>5. ASSUME NEW t \in Held'
      PROVE  Accounted(w, t)
  <2>1. t \in Held /\ t \in Seats /\ t \notin S /\ hold'[t] = hold[t]
    BY <1>3 DEF Held
  <2>2. t = s => hold[t] # req[w].user
    BY <2>1 DEF S, Mine
  <2> QED
    BY <1>1, <1>3, <2>1, <2>2 DEF Accounted
<1>6. NothingLeftBehind'
  BY <1>1, <1>5, StillAccounted
<1> QED
  BY <1>1, <1>4, <1>6 DEF IInv

LEMMA UndoSeatInv ==
  ASSUME IInv, NEW w \in Workers, UndoSeat(w)
  PROVE  IInv'
<1>1. PICK s \in Seats : /\ LastTaken(w, s)
                         /\ Free(IF Mine(w, s) THEN {s} ELSE {})
                         /\ req' = [req EXCEPT ![w].got = @ \ {s}]
  BY DEF UndoSeat
<1> DEFINE r == [req[w] EXCEPT !.got = @ \ {s}]
<1>2. req' = [req EXCEPT ![w] = r] /\ req[w].stage = "undoing" /\ req[w] \in Request
  BY <1>1 DEF UndoSeat, IInv, TypeOK
<1>3. /\ r \in Request /\ req'[w] = r
      /\ r.stage = "undoing" /\ r.user = req[w].user /\ r.seats = req[w].seats
      /\ r.todo = req[w].todo /\ r.got = req[w].got \ {s}
  BY <1>2 DEF Request, IInv, TypeOK
<1>4. RequestOK(w)' /\ InHand(w)' = InHand(w) \ {s}
  BY <1>2, <1>3 DEF IInv, RequestOK, InHand
<1> QED
  BY <1>1, <1>2, <1>3, <1>4, GiveBackInv DEF UndoSeat

LEMMA ReleaseSeatInv ==
  ASSUME IInv, NEW w \in Workers, ReleaseSeat(w)
  PROVE  IInv'
<1>1. PICK s \in Seats : /\ NextToTake(w, s)
                         /\ Free(IF Mine(w, s) THEN {s} ELSE {})
                         /\ req' = [req EXCEPT ![w].todo = @ \ {s}]
  BY DEF ReleaseSeat
<1> DEFINE r == [req[w] EXCEPT !.todo = @ \ {s}]
<1>2. req' = [req EXCEPT ![w] = r] /\ req[w].stage = "releasing" /\ req[w] \in Request
  BY <1>1 DEF ReleaseSeat, IInv, TypeOK
<1>3. /\ r \in Request /\ req'[w] = r
      /\ r.stage = "releasing" /\ r.user = req[w].user /\ r.seats = req[w].seats
      /\ r.todo = req[w].todo \ {s} /\ r.got = req[w].got
  BY <1>2 DEF Request, IInv, TypeOK
<1>4. RequestOK(w)' /\ InHand(w)' = InHand(w) \ {s}
  BY <1>2, <1>3 DEF IInv, RequestOK, InHand
<1> QED
  BY <1>1, <1>2, <1>3, <1>4, GiveBackInv DEF ReleaseSeat

LEMMA BeginReleaseInv ==
  ASSUME IInv, NEW w \in Workers, NEW u \in Users, NEW S \in SUBSET Seats, BeginRelease(w, u, S)
  PROVE  IInv'
<1> DEFINE r == At("releasing", u, S, S)
<1>1. r \in Request /\ req' = [req EXCEPT ![w] = r] /\ req[w] = Idle
  BY DEF BeginRelease, Request, Stages, At
<1>2. req'[w] = r
  BY <1>1 DEF IInv, TypeOK
<1>3. RequestOK(w)' /\ InHand(w) = {} /\ InHand(w)' = S /\ req'[w].user = u
  BY <1>1, <1>2 DEF RequestOK, InHand, Idle, At
<1>4. /\ req' \in [Workers -> Request]
      /\ OnlyMoves(w)
      /\ \A v \in Workers : RequestOK(v)'
  BY <1>1, <1>3, OtherRequests
<1>5. TypeOK'
  BY <1>4 DEF BeginRelease, IInv, TypeOK, Held
<1>6. ASSUME NEW s \in Held' PROVE Accounted(w, s)
  BY <1>3 DEF BeginRelease, Accounted, Held
<1>7. NothingLeftBehind'
  BY <1>4, <1>6, StillAccounted
<1> QED
  BY <1>4, <1>5, <1>7 DEF IInv

LEMMA GrantHoldInv ==
  ASSUME IInv, NEW w \in Workers, GrantHold(w)
  PROVE  IInv'
<1> DEFINE kept == {s \in req[w].seats : Mine(w, s)}
<1>1. /\ req' = [req EXCEPT ![w] = Idle] /\ req[w].stage = "taking"
      /\ told' = told \cup kept /\ leftBehind' = leftBehind \ kept
      /\ UNCHANGED <<hold, left>>
  BY DEF GrantHold, Done
<1>2. /\ RequestOK(w)'
      /\ req' \in [Workers -> Request]
      /\ OnlyMoves(w)
      /\ \A v \in Workers : RequestOK(v)'
  <2>1. RequestOK(w)'
    BY <1>1, IdleRequest DEF IInv, TypeOK
  <2> QED
    BY <1>1, <2>1, IdleRequest, OtherRequests
<1>3. kept \subseteq Held /\ req[w].user \in Users
  <2>1. req[w] # Idle /\ req[w].seats \subseteq Seats
    BY <1>1, RequestTypes DEF Idle, At, IInv
  <2> QED
    BY <2>1, OwnerIsUser
<1>4. hint' \in [Users -> SUBSET Seats]
  BY <1>3, RequestTypes DEF GrantHold, IInv, TypeOK
<1>5. TypeOK'
  BY <1>1, <1>2, <1>3, <1>4 DEF IInv, TypeOK, Held
<1>6. ASSUME NEW s \in Held' PROVE Accounted(w, s)
  <2>1. s \in InHand(w) /\ hold[s] = req[w].user => s \in kept
    BY <1>1 DEF InHand, IInv, RequestOK, Mine
  <2> QED
    BY <1>1, <2>1 DEF Accounted, Held
<1>7. NothingLeftBehind'
  BY <1>2, <1>6, StillAccounted
<1> QED
  BY <1>2, <1>5, <1>7 DEF IInv

LEMMA FreeTogetherInv ==
  ASSUME IInv, NEW w \in Workers, FreeTogether(w)
  PROVE  IInv'
<1> DEFINE S == {s \in req[w].seats : Mine(w, s)}
           r == [req[w] EXCEPT !.stage = "forgetting"]
<1>1. /\ req' = [req EXCEPT ![w] = r] /\ req[w].stage = "freeing" /\ req[w] \in Request
      /\ Free(S) /\ S \in SUBSET Seats
  BY RequestTypes DEF FreeTogether, IInv, TypeOK
<1>2. /\ r \in Request /\ req'[w] = r
      /\ r.stage = "forgetting" /\ r.user = req[w].user /\ r.seats = req[w].seats
      /\ r.todo = req[w].todo /\ r.got = req[w].got
  BY <1>1 DEF Request, Stages, IInv, TypeOK
<1>3. RequestOK(w)' /\ InHand(w) = {}
  BY <1>1, <1>2 DEF IInv, RequestOK, InHand
<1>4. /\ req' \in [Workers -> Request]
      /\ OnlyMoves(w)
      /\ \A v \in Workers : RequestOK(v)'
  BY <1>1, <1>2, <1>3, OtherRequests
<1> HIDE DEF S
<1>5. /\ hold' \in [Seats -> Users \cup {NoUser}]
      /\ left' \in [Seats -> 0..Ttl]
      /\ told' = told \ S /\ leftBehind' = leftBehind \ S
      /\ told' \subseteq Held' /\ leftBehind' \subseteq Held'
      /\ Held' = {s \in Seats : left'[s] > 0}
      /\ Held' = Held \ S
      /\ \A s \in Seats : s \notin S => hold'[s] = hold[s]
  BY <1>1, FreeKeeps
<1>6. TypeOK'
  BY <1>4, <1>5 DEF FreeTogether, IInv, TypeOK, Held
<1>7. ASSUME NEW s \in Held' PROVE Accounted(w, s)
  BY <1>3, <1>5 DEF Accounted, Held
<1>8. NothingLeftBehind'
  BY <1>4, <1>7, StillAccounted
<1> QED
  BY <1>4, <1>6, <1>8 DEF IInv

LEMMA UndoFailsInv ==
  ASSUME IInv, NEW w \in Workers, UndoFails(w)
  PROVE  IInv'
<1>1. PICK s \in Seats :
        /\ LastTaken(w, s)
        /\ leftBehind' = leftBehind \cup (IF Mine(w, s) THEN {s} \ told ELSE {})
        /\ req' = [req EXCEPT ![w].got = @ \ {s}]
  BY DEF UndoFails
<1> DEFINE r == [req[w] EXCEPT !.got = @ \ {s}]
<1>2. req' = [req EXCEPT ![w] = r] /\ req[w].stage = "undoing" /\ req[w] \in Request
  BY <1>1 DEF UndoFails, IInv, TypeOK
<1>3. /\ r \in Request /\ req'[w] = r
      /\ r.stage = "undoing" /\ r.user = req[w].user /\ r.seats = req[w].seats
      /\ r.todo = req[w].todo /\ r.got = req[w].got \ {s}
  BY <1>2 DEF Request, IInv, TypeOK
<1>4. RequestOK(w)' /\ InHand(w)' = InHand(w) \ {s}
  BY <1>2, <1>3 DEF IInv, RequestOK, InHand
<1>5. /\ req' \in [Workers -> Request]
      /\ OnlyMoves(w)
      /\ \A v \in Workers : RequestOK(v)'
  BY <1>2, <1>3, <1>4, OtherRequests
<1>6. UNCHANGED <<hold, left, hint, told>> /\ Held' = Held
  BY DEF UndoFails, Held
<1>7. Mine(w, s) => s \in Held
  BY <1>2, OwnerIsUser DEF Idle, At
<1>8. TypeOK'
  BY <1>1, <1>5, <1>6, <1>7 DEF IInv, TypeOK
<1>9. ASSUME NEW t \in Held' PROVE Accounted(w, t)
  BY <1>1, <1>3, <1>4, <1>6 DEF Accounted, Mine
<1>10. NothingLeftBehind'
  BY <1>5, <1>9, StillAccounted
<1> QED
  BY <1>5, <1>8, <1>10 DEF IInv

LEMMA AbortInv ==
  ASSUME IInv, NEW w \in Workers, Abort(w)
  PROVE  IInv'
<1> DEFINE S == {s \in InHand(w) : Mine(w, s)} \ told
<1>1. /\ req' = [req EXCEPT ![w] = Idle] /\ req[w] # Idle
      /\ leftBehind' = leftBehind \cup S
      /\ UNCHANGED <<hold, left, hint, told>> /\ Held' = Held
  BY DEF Abort, Done, Held
<1>2. /\ req' \in [Workers -> Request]
      /\ OnlyMoves(w)
      /\ \A v \in Workers : RequestOK(v)'
  <2>1. RequestOK(w)'
    BY <1>1, IdleRequest DEF IInv, TypeOK
  <2> QED
    BY <1>1, <2>1, IdleRequest, OtherRequests
<1>3. S \subseteq Held
  BY <1>1, OwnerIsUser, RequestTypes DEF IInv
<1>4. TypeOK'
  BY <1>1, <1>2, <1>3 DEF IInv, TypeOK
<1>5. ASSUME NEW s \in Held' PROVE Accounted(w, s)
  BY <1>1 DEF Accounted, Mine
<1>6. NothingLeftBehind'
  BY <1>2, <1>5, StillAccounted
<1> QED
  BY <1>2, <1>4, <1>6 DEF IInv

(* What an acquire that succeeded leaves of the keys.                      *)
LEMMA AcquiredKeeps ==
  ASSUME IInv, NEW w \in Workers, NEW s \in Seats, req[w] # Idle, Acquired(w, s)
  PROVE  /\ hold' \in [Seats -> Users \cup {NoUser}]
         /\ left' \in [Seats -> 0..Ttl]
         /\ Held' = {t \in Seats : left'[t] > 0}
         /\ Held' = Held \cup {s}
         /\ hold'[s] = req[w].user
         /\ \A t \in Seats : t # s => hold'[t] = hold[t]
         /\ s \in Held => hold'[s] = hold[s]
<1>1. req[w].user \in Users /\ req[w].user # NoUser
  BY OwnerIsUser, UsersAssumption
<1>2. /\ hold \in [Seats -> Users \cup {NoUser}] /\ left \in [Seats -> 0..Ttl]
      /\ Held = {t \in Seats : left[t] > 0}
      /\ hold' = [hold EXCEPT ![s] = req[w].user] /\ left' = [left EXCEPT ![s] = Ttl]
      /\ hold[s] \in {NoUser, req[w].user}
  BY DEF IInv, TypeOK, Acquired, FullTtl
<1>3. Ttl \in 0..Ttl /\ Ttl > 0
  BY TtlAssumption
<1> QED
  BY <1>1, <1>2, <1>3 DEF Held

LEMMA TakeSeatInv ==
  ASSUME IInv, NEW w \in Workers, TakeSeat(w)
  PROVE  IInv'
<1>1. PICK s \in Seats :
        /\ Acquired(w, s)
        /\ req' = [req EXCEPT ![w].todo = @ \ {s},
                              ![w].got = IF NewlyTaken(w, s) THEN @ \cup {s} ELSE @]
  BY DEF TakeSeat
<1> DEFINE r == [req[w] EXCEPT !.todo = @ \ {s},
                               !.got = IF NewlyTaken(w, s) THEN @ \cup {s} ELSE @]
<1>2. req' = [req EXCEPT ![w] = r] /\ req[w].stage = "taking" /\ req[w] \in Request
  BY <1>1 DEF TakeSeat, IInv, TypeOK
<1>3. /\ r \in Request /\ req'[w] = r
      /\ r.stage = "taking" /\ r.user = req[w].user /\ r.seats = req[w].seats
      /\ r.todo = req[w].todo \ {s}
      /\ r.got = IF NewlyTaken(w, s) THEN req[w].got \cup {s} ELSE req[w].got
  BY <1>2 DEF Request, IInv, TypeOK
<1>4. NextToTake(w, s) /\ req[w] # Idle
  BY <1>1, <1>2 DEF Acquired, Idle, At
<1> HIDE DEF r
<1>5. RequestOK(w)'
  <2>1. /\ req[w].user \in Users
        /\ req[w].todo \cup req[w].got \subseteq req[w].seats
        /\ \A x \in req[w].got, y \in req[w].todo : x < y
    BY <1>2 DEF IInv, RequestOK
  <2>2. s \in req[w].todo /\ \A y \in req[w].todo \ {s} : s < y
    <3>1. TypeOK
      BY DEF IInv
    <3>2. req[w].todo \subseteq Nat
      BY <3>1, HoldSeatsAssumption, RequestTypes
    <3> QED
      BY <1>4, <3>2 DEF NextToTake
  <2>3. r.todo \cup r.got \subseteq r.seats /\ \A x \in r.got, y \in r.todo : x < y
    BY <1>3, <2>1, <2>2
  <2> QED
    BY <1>3, <2>1, <2>3 DEF RequestOK
<1>6. /\ req' \in [Workers -> Request]
      /\ OnlyMoves(w)
      /\ \A v \in Workers : RequestOK(v)'
  BY <1>2, <1>3, <1>5, OtherRequests
<1>7. /\ hold' \in [Seats -> Users \cup {NoUser}]
      /\ left' \in [Seats -> 0..Ttl]
      /\ Held' = {t \in Seats : left'[t] > 0}
      /\ Held' = Held \cup {s}
      /\ hold'[s] = req[w].user
      /\ \A t \in Seats : t # s => hold'[t] = hold[t]
      /\ s \in Held => hold'[s] = hold[s]
  BY <1>1, <1>4, AcquiredKeeps
<1>8. UNCHANGED <<hint, told, leftBehind>>
  BY DEF TakeSeat
<1>9. TypeOK'
  BY <1>6, <1>7, <1>8 DEF IInv, TypeOK
<1>10. ASSUME NEW t \in Held' PROVE Accounted(w, t)
  <2>1. InHand(w) \subseteq InHand(w)' /\ (NewlyTaken(w, s) => s \in InHand(w)')
    BY <1>2, <1>3, <1>6 DEF InHand
  <2>2. t \notin Held => t = s /\ NewlyTaken(w, s)
    BY <1>7 DEF Held, NewlyTaken
  <2>3. t \in Held => hold'[t] = hold[t]
    BY <1>7 DEF Held
  <2> QED
    BY <1>3, <1>7, <1>8, <2>1, <2>2, <2>3 DEF Accounted
<1>11. NothingLeftBehind'
  BY <1>6, <1>10, StillAccounted
<1> QED
  BY <1>6, <1>9, <1>11 DEF IInv

LEMMA LoseReplyInv ==
  ASSUME IInv, NEW w \in Workers, LoseReply(w)
  PROVE  IInv'
<1>1. PICK s \in Seats :
        /\ Acquired(w, s)
        /\ leftBehind' = leftBehind \cup (({s} \cup {t \in req[w].got : Mine(w, t)}) \ told)
  BY DEF LoseReply
<1>2. /\ req' = [req EXCEPT ![w] = Idle] /\ req[w].stage = "taking" /\ req[w] # Idle
      /\ UNCHANGED <<hint, told>>
  BY DEF LoseReply, Done, Idle, At
<1>3. /\ req' \in [Workers -> Request]
      /\ OnlyMoves(w)
      /\ \A v \in Workers : RequestOK(v)'
  <2>1. RequestOK(w)'
    BY <1>2, IdleRequest DEF IInv, TypeOK
  <2> QED
    BY <1>2, <2>1, IdleRequest, OtherRequests
<1>4. /\ hold' \in [Seats -> Users \cup {NoUser}]
      /\ left' \in [Seats -> 0..Ttl]
      /\ Held' = {t \in Seats : left'[t] > 0}
      /\ Held' = Held \cup {s}
      /\ hold'[s] = req[w].user
      /\ \A t \in Seats : t # s => hold'[t] = hold[t]
      /\ s \in Held => hold'[s] = hold[s]
  BY <1>1, <1>2, AcquiredKeeps
<1>5. {t \in req[w].got : Mine(w, t)} \subseteq Held
  BY <1>2, OwnerIsUser, RequestTypes DEF IInv
<1>6. TypeOK'
  BY <1>1, <1>2, <1>3, <1>4, <1>5 DEF IInv, TypeOK
<1>7. ASSUME NEW t \in Held' PROVE Accounted(w, t)
  <2>1. CASE t = s
    BY <1>1, <1>2, <2>1 DEF Accounted
  <2>2. CASE t # s
    <3>1. t \in Held /\ hold'[t] = hold[t]
      BY <1>4, <2>2 DEF Held
    <3>2. req[w].user = hold[t] /\ t \in InHand(w) => t \in leftBehind' \cup told
      BY <1>1, <1>2 DEF InHand, Mine
    <3> QED
      BY <1>1, <1>2, <3>1, <3>2 DEF Accounted
  <2> QED
    BY <2>1, <2>2
<1>8. NothingLeftBehind'
  BY <1>3, <1>7, StillAccounted
<1> QED
  BY <1>3, <1>6, <1>8 DEF IInv

(* A tick keeps the holds with more than one tick left, and their owners.  *)
LEMMA TickKeeps ==
  ASSUME IInv, Tick
  PROVE  /\ Held' = {s \in Seats : left[s] > 1}
         /\ Held' \subseteq Held
         /\ \A s \in Held' : hold'[s] = hold[s]
         /\ \A s \in Held \ Held' : left[s] = 1
BY TtlAssumption DEF IInv, TypeOK, Tick, Held

LEMMA TickInv ==
  ASSUME IInv, Tick
  PROVE  IInv'
<1>1. /\ Held' = {s \in Seats : left[s] > 1} /\ Held' \subseteq Held
      /\ \A s \in Held' : hold'[s] = hold[s]
  BY TickKeeps
<1>2. /\ hold' = [s \in Seats |-> IF left[s] > 1 THEN hold[s] ELSE NoUser]
      /\ left' = [s \in Seats |-> IF left[s] > 1 THEN left[s] - 1 ELSE 0]
      /\ told' = {s \in told : left[s] > 1}
      /\ leftBehind' = {s \in leftBehind : left[s] > 1}
      /\ hint' = hint /\ req' = req
  BY DEF Tick
<1>3. /\ hold \in [Seats -> Users \cup {NoUser}] /\ left \in [Seats -> 0..Ttl]
      /\ told \subseteq Held /\ leftBehind \subseteq Held /\ Held \subseteq Seats
  BY DEF IInv, TypeOK, Held
<1>4. hold' \in [Seats -> Users \cup {NoUser}] /\ left' \in [Seats -> 0..Ttl]
  BY <1>2, <1>3, TtlAssumption
<1>5. Held' = {s \in Seats : left'[s] > 0}
  BY <1>1, <1>2, <1>3, TtlAssumption
<1>6. told' \subseteq Held' /\ leftBehind' \subseteq Held'
  BY <1>1, <1>2, <1>3
<1>7. TypeOK'
  BY <1>2, <1>4, <1>5, <1>6 DEF IInv, TypeOK
<1>8. \A w \in Workers : RequestOK(w)' /\ InHand(w)' = InHand(w)
  BY <1>2 DEF IInv, RequestOK, InHand
<1>9. NothingLeftBehind'
  BY <1>1, <1>2, <1>8 DEF IInv, NothingLeftBehind
<1> QED
  BY <1>7, <1>8, <1>9 DEF IInv

LEMMA UnchangedKeys ==
  ASSUME IInv, UNCHANGED <<hold, left, told, leftBehind, req>>, hint' \in [Users -> SUBSET Seats]
  PROVE  IInv'
<1>1. Held' = Held /\ \A w \in Workers : RequestOK(w)' /\ InHand(w)' = InHand(w)
  BY DEF Held, IInv, RequestOK, InHand
<1>2. TypeOK'
  BY <1>1 DEF IInv, TypeOK
<1>3. NothingLeftBehind'
  BY <1>1 DEF IInv, NothingLeftBehind
<1> QED
  BY <1>1, <1>2, <1>3 DEF IInv

LEMMA StepInv == IInv /\ [Next]_vars => IInv'
<1> SUFFICES ASSUME IInv, [Next]_vars PROVE IInv'
  OBVIOUS
<1>1. ASSUME NEW w \in Workers, Arrive(w) PROVE IInv'
  BY <1>1, BeginHoldInv, BeginReleaseInv, BookInv DEF Arrive
<1>2. ASSUME NEW w \in Workers, Continue(w) PROVE IInv'
  BY <1>2, TakeSeatInv, MeetConflictInv, UndoSeatInv, RefuseHoldInv, GrantHoldInv,
     ReleaseSeatInv, ForgetInv, ReadHintInv, FreeTogetherInv DEF Continue
<1>3. ASSUME NEW w \in Workers, Fail(w) PROVE IInv'
  BY <1>3, AbortInv, LoseReplyInv, UndoFailsInv DEF Fail
<1>4. ASSUME NEW u \in Users, ExpireHint(u) PROVE IInv'
  BY <1>4, UnchangedKeys DEF ExpireHint, IInv, TypeOK
<1>5. CASE UNCHANGED vars
  BY <1>5, UnchangedKeys DEF vars, IInv, TypeOK
<1> QED
  BY <1>1, <1>2, <1>3, <1>4, <1>5, TickInv DEF Next, TimePasses

(* The invariant holds in every reachable state, whatever requests of one  *)
(* or several users, expiries and failing commands overlap.                *)
THEOREM HoldInvariance == Spec => []IInv
BY InitInv, StepInv, PTL DEF Spec

(* Every variable keeps its type, and a hold always has a TTL.             *)
THEOREM HoldTypeCorrect == Spec => []TypeOK
<1>1. IInv => TypeOK
  BY DEF IInv
<1> QED
  BY <1>1, HoldInvariance, PTL

(* Only a failure can leave a hold that nobody will give back.             *)
THEOREM AllOrNothing == Spec => []NothingLeftBehind
<1>1. IInv => NothingLeftBehind
  BY DEF IInv
<1> QED
  BY <1>1, HoldInvariance, PTL

-----------------------------------------------------------------------------
(* Who may end a hold.                                                     *)

KeepsToOwner(s) ==
    hold'[s] # hold[s] =>
        /\ hold'[s] = NoUser
        /\ \/ left[s] = 1
           \/ \E w \in Workers : req[w].user = hold[s] /\ Releases(w, s)

(* A request that frees a key compared its owner first.                    *)
LEMMA FreesOwn ==
  ASSUME IInv, NEW w \in Workers, NEW S \in SUBSET Seats, Free(S),
         \A s \in S : Mine(w, s) /\ Releases(w, s)
  PROVE  \A s \in Held : KeepsToOwner(s)
<1> SUFFICES ASSUME NEW s \in Held, hold'[s] # hold[s] PROVE KeepsToOwner(s)
  BY DEF KeepsToOwner
<1>1. s \in S /\ hold'[s] = NoUser
  BY DEF Free, Held
<1> QED
  BY <1>1 DEF KeepsToOwner, Mine

LEMMA UndoSeatFreesOwn ==
  ASSUME IInv, NEW w \in Workers, UndoSeat(w)
  PROVE  \A s \in Held : KeepsToOwner(s)
<1>1. PICK s \in Seats : /\ LastTaken(w, s)
                         /\ Free(IF Mine(w, s) THEN {s} ELSE {})
                         /\ req' = [req EXCEPT ![w].got = @ \ {s}]
  BY DEF UndoSeat
<1>2. req[w].stage = "undoing" /\ s \in req[w].got
  BY <1>1 DEF UndoSeat, LastTaken
<1>3. req'[w].got = req[w].got \ {s}
  BY <1>1, RequestTypes DEF IInv, TypeOK, Request
<1>4. Releases(w, s)
  BY <1>2, <1>3 DEF Releases
<1> DEFINE S == IF Mine(w, s) THEN {s} ELSE {}
<1>5. S \in SUBSET Seats /\ Free(S) /\ \A t \in S : Mine(w, t) /\ Releases(w, t)
  BY <1>1, <1>4
<1> HIDE DEF S
<1> QED
  BY <1>5, FreesOwn

LEMMA ReleaseSeatFreesOwn ==
  ASSUME IInv, NEW w \in Workers, ReleaseSeat(w)
  PROVE  \A s \in Held : KeepsToOwner(s)
<1>1. PICK s \in Seats : /\ NextToTake(w, s)
                         /\ Free(IF Mine(w, s) THEN {s} ELSE {})
                         /\ req' = [req EXCEPT ![w].todo = @ \ {s}]
  BY DEF ReleaseSeat
<1>2. req[w].stage = "releasing" /\ s \in req[w].todo
  BY <1>1 DEF ReleaseSeat, NextToTake
<1>3. req'[w].todo = req[w].todo \ {s}
  BY <1>1, RequestTypes DEF IInv, TypeOK, Request
<1>4. Releases(w, s)
  BY <1>2, <1>3 DEF Releases
<1> DEFINE S == IF Mine(w, s) THEN {s} ELSE {}
<1>5. S \in SUBSET Seats /\ Free(S) /\ \A t \in S : Mine(w, t) /\ Releases(w, t)
  BY <1>1, <1>4
<1> HIDE DEF S
<1> QED
  BY <1>5, FreesOwn

LEMMA FreeTogetherFreesOwn ==
  ASSUME IInv, NEW w \in Workers, FreeTogether(w)
  PROVE  \A s \in Held : KeepsToOwner(s)
<1> DEFINE S == {s \in req[w].seats : Mine(w, s)}
<1>1. Free(S) /\ S \in SUBSET Seats /\ req[w].stage = "freeing"
  BY RequestTypes DEF FreeTogether, IInv
<1>2. req'[w].stage = "forgetting"
  BY RequestTypes DEF FreeTogether, IInv, TypeOK, Request
<1>3. \A s \in S : Mine(w, s) /\ Releases(w, s)
  BY <1>1, <1>2 DEF Releases
<1> HIDE DEF S
<1> QED
  BY <1>1, <1>3, FreesOwn

LEMMA StepKeepsToOwner == IInv /\ [Next]_vars => [\A s \in Held : KeepsToOwner(s)]_vars
<1> SUFFICES ASSUME IInv, [Next]_vars PROVE \A s \in Held : KeepsToOwner(s)
  OBVIOUS
<1>1. hold' = hold => \A s \in Held : KeepsToOwner(s)
  BY DEF KeepsToOwner
<1>2. ASSUME NEW w \in Workers, Arrive(w) PROVE hold' = hold
  BY <1>2 DEF Arrive, BeginHold, BeginRelease, Book
<1>3. ASSUME NEW w \in Workers, NEW s \in Seats, req[w] # Idle, Acquired(w, s)
      PROVE  \A t \in Held : KeepsToOwner(t)
  BY <1>3, AcquiredKeeps DEF KeepsToOwner, Held
<1>4. ASSUME NEW w \in Workers, Continue(w) PROVE \A s \in Held : KeepsToOwner(s)
  <2>1. CASE TakeSeat(w)
    BY <1>3, <2>1 DEF TakeSeat, Idle, At
  <2>2. CASE MeetConflict(w) \/ RefuseHold(w) \/ GrantHold(w) \/ Forget(w) \/ ReadHint(w)
    BY <1>1, <2>2 DEF MeetConflict, RefuseHold, GrantHold, Forget, ReadHint
  <2> QED
    BY <1>4, <2>1, <2>2, UndoSeatFreesOwn, ReleaseSeatFreesOwn, FreeTogetherFreesOwn DEF Continue
<1>5. ASSUME NEW w \in Workers, Fail(w) PROVE \A s \in Held : KeepsToOwner(s)
  <2>1. CASE LoseReply(w)
    BY <1>3, <2>1 DEF LoseReply, Idle, At
  <2>2. CASE Abort(w) \/ UndoFails(w)
    BY <1>1, <2>2 DEF Abort, UndoFails
  <2> QED
    BY <1>5, <2>1, <2>2 DEF Fail
<1>6. CASE Tick
  <2>1. ASSUME NEW s \in Held, hold'[s] # hold[s] PROVE KeepsToOwner(s)
    <3>1. s \notin Held' /\ left[s] = 1
      BY <1>6, <2>1, TickKeeps
    <3>2. hold'[s] = NoUser
      BY <3>1 DEF Held
    <3> QED
      BY <3>1, <3>2 DEF KeepsToOwner
  <2> QED
    BY <2>1 DEF KeepsToOwner
<1>7. ASSUME NEW u \in Users, ExpireHint(u) PROVE hold' = hold
  BY <1>7 DEF ExpireHint
<1>8. CASE UNCHANGED vars
  BY <1>1, <1>8 DEF vars
<1> QED
  BY <1>1, <1>2, <1>4, <1>5, <1>6, <1>7, <1>8 DEF Next, TimePasses

(* A hold ends by its own expiry or by a request of the user who has it,   *)
(* never by anybody else's rollback, release or booking.                   *)
THEOREM HoldsAreKept == Spec => HoldsKeepToOwner
<1>1. IInv /\ [Next]_vars => [\A s \in Held : KeepsToOwner(s)]_vars
  BY StepKeepsToOwner
<1>2. Spec => [][\A s \in Held : KeepsToOwner(s)]_vars
  BY <1>1, HoldInvariance, PTL DEF Spec
<1> QED
  BY <1>2 DEF HoldsKeepToOwner, KeepsToOwner

-----------------------------------------------------------------------------
(* Ascending order.                                                        *)

LEMMA NoCircle == IInv => NoRefusalCycle
<1> SUFFICES ASSUME IInv, NEW W \in SUBSET Workers, W # {},
                    \A w \in W : \E v \in W : RefusedBy(w, v)
             PROVE  FALSE
  BY DEF NoRefusalCycle
<1> DEFINE Wanted == {s \in Seats : \E w \in W : NextToTake(w, s)}
<1>1. \A w \in W : req[w].todo \subseteq Seats /\ req[w].got \subseteq Seats
  BY RequestTypes DEF IInv
<1>2. Wanted # {}
  BY <1>1 DEF RefusedBy, NextToTake
<1>3. Wanted \subseteq Nat /\ IsFiniteSet(Wanted)
  BY HoldSeatsAssumption, FS_Subset
<1>4. PICK m \in Wanted : \A s \in Wanted : s <= m
  BY <1>2, <1>3, HighestMember
<1>5. PICK w \in W : NextToTake(w, m)
  OBVIOUS
<1>6. PICK v \in W : \E s \in req[v].got : NextToTake(w, s)
  BY DEF RefusedBy
<1>7. m \in req[v].got
  <2>1. req[w].todo \subseteq Nat
    BY <1>1, HoldSeatsAssumption
  <2>2. \A s : NextToTake(w, s) => s = m
    BY <1>5, <2>1 DEF NextToTake
  <2> QED
    BY <1>6, <2>2
<1>8. PICK t \in Wanted : NextToTake(v, t)
  BY <1>1 DEF RefusedBy, NextToTake
<1>9. m < t
  BY <1>7, <1>8 DEF IInv, RequestOK, NextToTake
<1> QED
  BY <1>3, <1>4, <1>8, <1>9

(* However many requests compete for overlapping seats, they are never all *)
(* refused because of each other.                                          *)
THEOREM SomebodyIsNotRefused == Spec => []NoRefusalCycle
  BY NoCircle, HoldInvariance, PTL

=============================================================================
