------------------------- MODULE ServerEdgesProofs -------------------------
(***************************************************************************)
(* Theorems of HoldRateLimit, WaitingRoom, GroupBooking and                *)
(* BookingLifetime, the parts of the server around holding and booking.    *)
(* They share no state: each has an invariant of its own.                  *)
(***************************************************************************)
EXTENDS HoldRateLimit, WaitingRoom, GroupBooking, BookingLifetime,
        Functions, FiniteSetTheorems, TLAPS

-----------------------------------------------------------------------------
(* Theorems of HoldRateLimit, for every limit and every window.  A pass    *)
(* that comes Limit places after another has a window's beginning between  *)
(* them (Separated), and beginnings are a window apart: two such steps     *)
(* make 2 * Limit passes longer than a window.                             *)

\* A window under way began with its expiry in place, and everything let
\* through before its last hits requests came before it.
Running ==
  hits > 0 => /\ until = began + WindowTicks /\ ticks < until
              /\ \A k \in 1..Len(passes) : k <= Len(passes) - hits => passes[k] < began

\* Between two windows, all that was let through lies behind, and so does the
\* window it was let through in.
BetweenWindows ==
  hits = 0 => /\ \A k \in 1..Len(passes) : passes[k] < ticks
              /\ passes # <<>> => began + WindowTicks <= ticks

\* A window began at b, and it is the last one or was over when that began.
Beginning(b) == b = began \/ b + WindowTicks <= began

Separates(b, i) == passes[i] < b /\ b <= passes[i + Limit] /\ Beginning(b)

\* Between a pass and the one Limit places later a window began.
Separated ==
  \A i \in 1..Len(passes) : i + Limit <= Len(passes) => \E b \in Nat : Separates(b, i)

InThePast == \A k \in 1..Len(passes) : passes[k] <= ticks

LimiterInv == LimiterTypeOK /\ InThePast /\ Running /\ BetweenWindows /\ Separated /\ TwiceTheLimit /\ RetryAfterHonest

\* A window lasts at least a second.
LEMMA WindowLasts == WindowTicks \in Nat /\ WindowTicks >= 4
  BY LimitAssumption, SMT DEF WindowTicks, PerSecond

\* At the start nothing was counted.
LEMMA LimiterInitInv == ASSUME LimiterInit PROVE LimiterInv
  <1>1. passes = <<>> /\ Len(passes) = 0 /\ passes \in Seq(Nat)
    BY DEF LimiterInit
  <1>2. LimiterTypeOK
    BY LimitAssumption, <1>1 DEF LimiterInit, LimiterTypeOK
  <1>3. RetryAfterHonest
    BY DEF LimiterInit, RetryAfterHonest, PerSecond
  <1>4. InThePast /\ Running /\ BetweenWindows /\ Separated
    BY <1>1 DEF LimiterInit, InThePast, Running, BetweenWindows, Separated
  <1>5. TwiceTheLimit
    BY <1>1 DEF TwiceTheLimit
  <1> QED
    BY <1>2, <1>3, <1>4, <1>5 DEF LimiterInv

\* Counting a request keeps its window, or begins one now.
LEMMA Counted ==
  ASSUME LimiterTypeOK, Running, CountOne
  PROVE  /\ hits' = hits + 1 /\ hits' \in Nat /\ until' \in Nat /\ began' \in 0..ticks
         /\ hits > 0 => began' = began /\ until' = until
         /\ hits = 0 => began' = ticks
         /\ until' = began' + WindowTicks /\ ticks < until'
  BY WindowLasts, SMT DEF LimiterTypeOK, Running, CountOne, StartsWindow

\* What a refusal names is the end of the window, give or take the rounding.
LEMMA Named ==
  ASSUME LimiterTypeOK, Running, hits > 0
  PROVE  /\ until - ticks \in Nat /\ RetryAfter \in Nat
         /\ RetryAfter * PerSecond >= until - ticks - 1
         /\ \/ RetryAfter * PerSecond <= until - ticks + 2
            \/ until - ticks < 2 /\ RetryAfter * PerSecond = WindowTicks
  <1> DEFINE e == until - ticks
             q == (e + 2) \div 4
  <1>1. e \in Nat /\ e > 0
    BY SMT DEF LimiterTypeOK, Running
  <1>2. SecondsLeft = q
    BY DEF SecondsLeft, PerSecond
  <1>3. q \in Nat /\ 4 * q <= e + 2 /\ e + 2 <= 4 * q + 3
    BY <1>1, SMT
  <1>4. WindowSeconds \in Nat /\ WindowTicks = WindowSeconds * 4 /\ WindowTicks >= 4
    BY LimitAssumption, WindowLasts DEF WindowTicks, PerSecond
  <1>5. RetryAfter = IF q > 0 THEN q ELSE WindowSeconds
    BY <1>2 DEF RetryAfter
  <1> HIDE DEF q
  <1> QED
    BY <1>1, <1>3, <1>4, <1>5, SMT DEF PerSecond

\* The history of passes when one more is let through.
LEMMA OneMorePass ==
  ASSUME LimiterTypeOK, LetThrough
  PROVE  /\ passes' \in Seq(Nat) /\ Len(passes') = Len(passes) + 1
         /\ \A k \in 1..Len(passes) : passes'[k] = passes[k] /\ passes[k] \in Nat
         /\ passes'[Len(passes) + 1] = ticks
  BY DEF LimiterTypeOK, LetThrough

\* Letting a request through: the pass it makes is a window away from the one
\* Limit places before it, or a window began between them.
LEMMA LetThroughInv == ASSUME LimiterInv, LetThrough PROVE LimiterInv'
  <1> DEFINE n == Len(passes)
  <1>1. LimiterTypeOK /\ InThePast /\ Running /\ BetweenWindows /\ Separated /\ TwiceTheLimit /\ RetryAfterHonest
    BY DEF LimiterInv
  <1>2. CountOne /\ ticks' = ticks /\ retry' = retry /\ hits + 1 <= Limit
    BY DEF LetThrough, Within
  <1>3. /\ hits' = hits + 1 /\ hits' \in Nat /\ until' \in Nat /\ began' \in 0..ticks
        /\ hits > 0 => began' = began /\ until' = until
        /\ hits = 0 => began' = ticks
        /\ until' = began' + WindowTicks /\ ticks < until'
    BY <1>1, <1>2, Counted
  <1>4. /\ passes' \in Seq(Nat) /\ Len(passes') = n + 1
        /\ \A k \in 1..n : passes'[k] = passes[k] /\ passes[k] \in Nat
        /\ passes'[n + 1] = ticks
    BY <1>1, OneMorePass
  <1>5. n \in Nat /\ hits \in Nat /\ ticks \in Nat /\ began \in 0..ticks /\ Limit \in Nat \ {0}
    BY LimitAssumption, <1>1 DEF LimiterTypeOK
  <1>6. \A k \in 1..n : passes[k] <= ticks
    BY <1>1 DEF InThePast
  <1>7. \A k \in 1..n : k + Limit <= n + 1 => passes[k] < began'
    <2>1. CASE hits > 0
      BY <2>1, <1>1, <1>2, <1>3, <1>5, SMT DEF Running
    <2>2. CASE hits = 0
      BY <2>2, <1>1, <1>3, <1>5, SMT DEF BetweenWindows
    <2> QED
      BY <2>1, <2>2, <1>5, SMT
  <1>8. \A b \in Nat : Beginning(b) => b = began' \/ b + WindowTicks <= began' \/ n = 0
    <2>1. CASE hits > 0
      BY <2>1, <1>3 DEF Beginning
    <2>2. CASE hits = 0 /\ n # 0
      <3>1. began + WindowTicks <= ticks /\ began' = ticks
        BY <2>2, <1>1, <1>3 DEF BetweenWindows
      <3> QED
        BY <3>1, <1>5, WindowLasts, SMT DEF Beginning
    <2> QED
      BY <2>1, <2>2, <1>5, SMT
  <1> HIDE DEF n
  <1>9. LimiterTypeOK' /\ InThePast' /\ Running' /\ BetweenWindows'
    <2>1. LimiterTypeOK'
      BY <1>1, <1>2, <1>3, <1>4 DEF LimiterTypeOK
    <2>2. InThePast'
      BY <1>2, <1>4, <1>5, <1>6, SMT DEF InThePast
    <2>3. \A k \in 1..Len(passes)' : k <= Len(passes)' - hits' => passes'[k] < began'
      <3>1. CASE hits > 0
        <4>1. \A k \in 1..n : k <= n - hits => passes[k] < began
          BY <3>1, <1>1 DEF Running, n
        <4>2. \A k \in 1..(n + 1) : k <= n - hits => k \in 1..n
          BY <3>1, <1>5, SMT
        <4> QED
          BY <3>1, <4>1, <4>2, <1>3, <1>4, <1>5, SMT
      <3>2. CASE hits = 0
        BY <3>2, <1>1, <1>3, <1>4, <1>5, SMT DEF BetweenWindows, n
      <3> QED
        BY <3>1, <3>2, <1>5, SMT
    <2>4. Running' /\ BetweenWindows'
      BY <2>3, <1>2, <1>3, <1>5, SMT DEF Running, BetweenWindows
    <2> QED
      BY <2>1, <2>2, <2>4
  <1>10. Separated'
    <2>1. SUFFICES ASSUME NEW i \in 1..(n + 1), i + Limit <= n + 1
                   PROVE  \E b \in Nat : Separates(b, i)'
      BY <1>4 DEF Separated
    <2>2. CASE i + Limit = n + 1
      <3>1. i \in 1..n /\ passes'[i] = passes[i] /\ passes[i] < began' /\ passes'[i + Limit] = ticks
        BY <2>1, <2>2, <1>4, <1>5, <1>7, SMT
      <3>2. Separates(began, i)'
        BY <3>1, <1>3, <1>5, SMT DEF Separates, Beginning
      <3> QED
        BY <3>2, <1>3 DEF Separates, Beginning
    <2>3. CASE i + Limit <= n
      <3>1. i \in 1..n /\ i + Limit \in 1..n
        BY <2>1, <2>3, <1>5, SMT
      <3>2. PICK b \in Nat : Separates(b, i)
        BY <2>3, <3>1, <1>1 DEF Separated, n
      <3>3. b = began' \/ b + WindowTicks <= began'
        BY <3>1, <3>2, <1>5, <1>8, SMT DEF Separates
      <3>4. passes'[i] < b /\ b <= passes'[i + Limit]
        BY <3>1, <3>2, <1>4 DEF Separates
      <3> QED
        BY <3>3, <3>4 DEF Separates, Beginning
    <2> QED
      BY <2>1, <2>2, <2>3, <1>5, SMT
  <1>11. TwiceTheLimit'
    <2>1. SUFFICES ASSUME NEW i \in 1..(n + 1), NEW j \in 1..(n + 1), j = i + 2 * Limit
                   PROVE  passes'[j] - passes'[i] >= WindowTicks
      BY <1>4 DEF TwiceTheLimit, WindowTicks
    <2>2. i \in 1..n /\ i + Limit \in 1..n /\ i + Limit <= n
      BY <2>1, <1>5, SMT
    <2>3. CASE j \in 1..n
      <3>1. passes[j] - passes[i] >= WindowTicks
        BY <2>1, <2>2, <2>3, <1>1 DEF TwiceTheLimit, n
      <3> QED
        BY <2>2, <2>3, <3>1, <1>4
    <2>4. CASE j = n + 1
      <3>1. PICK b \in Nat : Separates(b, i)
        BY <2>2, <1>1 DEF Separated, n
      <3>2. (i + Limit) + Limit <= n + 1
        BY <2>1, <2>4, <1>5, SMT
      <3>3. passes[i + Limit] < began' /\ passes[i] \in Nat /\ passes[i + Limit] \in Nat
        BY <2>2, <3>2, <1>4, <1>7
      <3>4. b + WindowTicks <= began'
        BY <2>2, <3>1, <3>3, <1>3, <1>5, <1>8, SMT DEF Separates
      <3>5. passes[i] < b /\ passes'[i] = passes[i] /\ passes'[j] = ticks
        BY <2>2, <2>4, <3>1, <1>4 DEF Separates
      <3> QED
        BY <3>3, <3>4, <3>5, <1>3, <1>5, WindowLasts, SMT
    <2> QED
      BY <2>1, <2>3, <2>4, <1>5, SMT
  <1>12. RetryAfterHonest'
    BY <1>1, <1>2 DEF RetryAfterHonest, WindowTicks, PerSecond
  <1> QED
    BY <1>9, <1>10, <1>11, <1>12 DEF LimiterInv

\* Counting without letting through, and the passing of time, leave the
\* passes alone: what is known of them is known of the windows after.
LEMMA KeptPasses ==
  ASSUME LimiterInv, passes' = passes, ticks' >= ticks, ticks' \in Nat, began' \in Nat,
         began' = began \/ (hits = 0 /\ began' = ticks)
  PROVE  Separated' /\ TwiceTheLimit' /\ InThePast'
  <1> USE DEF LimiterInv
  <1>1. TwiceTheLimit' /\ InThePast'
    <2>1. passes \in Seq(Nat) /\ ticks \in Nat
      BY DEF LimiterTypeOK
    <2>2. \A k \in 1..Len(passes) : passes[k] \in Nat /\ passes[k] <= ticks
      BY <2>1 DEF InThePast
    <2> QED
      BY <2>1, <2>2, SMT DEF TwiceTheLimit, InThePast, WindowTicks
  <1>2. ASSUME NEW i \in 1..Len(passes), i + Limit <= Len(passes)
        PROVE  \E b \in Nat : Separates(b, i)'
    <2>1. PICK b \in Nat : Separates(b, i)
      BY <1>2 DEF Separated
    <2>2. passes # <<>>
      BY <1>2
    <2>3. b = began' \/ b + WindowTicks <= began'
      <3>1. CASE began' = began
        BY <2>1, <3>1 DEF Separates, Beginning
      <3>2. CASE hits = 0 /\ began' = ticks
        <4>1. began + WindowTicks <= ticks /\ began \in Nat /\ ticks \in Nat
          BY <2>2, <3>2 DEF BetweenWindows, LimiterTypeOK
        <4> QED
          BY <2>1, <3>2, <4>1, WindowLasts, SMT DEF Separates, Beginning
      <3> QED
        BY <3>1, <3>2
    <2> QED
      BY <2>1, <2>3 DEF Separates, Beginning
  <1> QED
    BY <1>1, <1>2 DEF Separated


\* A request counted but refused, and one whose reply is lost, change the
\* window and not the passes.
LEMMA NotLetThroughInv == ASSUME LimiterInv, Refuse \/ LoseReply PROVE LimiterInv'
  <1>1. LimiterTypeOK /\ InThePast /\ Running /\ BetweenWindows /\ RetryAfterHonest
    BY DEF LimiterInv
  <1>2. CountOne /\ ticks' = ticks /\ passes' = passes
    BY DEF Refuse, LoseReply
  <1>3. /\ hits' = hits + 1 /\ hits' \in Nat /\ until' \in Nat /\ began' \in 0..ticks
        /\ hits > 0 => began' = began /\ until' = until
        /\ hits = 0 => began' = ticks
        /\ until' = began' + WindowTicks /\ ticks < until'
    BY <1>1, <1>2, Counted
  <1>4. ticks \in Nat /\ hits \in Nat /\ Len(passes) \in Nat
    BY <1>1 DEF LimiterTypeOK
  <1>5. LimiterTypeOK'
    <2>1. CASE Refuse
      <3>1. hits > 0
        BY LimitAssumption, <2>1, <1>4, SMT DEF Refuse, Within
      <3> QED
        BY <2>1, <3>1, <1>1, <1>2, <1>3, Named DEF LimiterTypeOK, Refuse
    <2>2. CASE LoseReply
      BY <2>2, <1>1, <1>2, <1>3 DEF LimiterTypeOK, LoseReply
    <2> QED
      BY <2>1, <2>2
  <1>6. Running' /\ BetweenWindows'
    <2>1. CASE hits > 0
      BY <2>1, <1>1, <1>2, <1>3, <1>4, SMT DEF Running, BetweenWindows
    <2>2. CASE hits = 0
      BY <2>2, <1>1, <1>2, <1>3, <1>4, SMT DEF Running, BetweenWindows
    <2> QED
      BY <2>1, <2>2, <1>4, SMT
  <1>7. Separated' /\ TwiceTheLimit' /\ InThePast'
    BY <1>1, <1>2, <1>3, <1>4, KeptPasses, SMT DEF LimiterTypeOK
  <1>8. RetryAfterHonest'
    <2>1. CASE Refuse
      <3>1. hits > 0
        BY LimitAssumption, <2>1, <1>4, SMT DEF Refuse, Within
      <3>2. retry' = [left |-> until - ticks, after |-> RetryAfter]
        BY <2>1 DEF Refuse
      <3> QED
        BY <3>1, <3>2, <1>1, Named DEF RetryAfterHonest, WindowTicks, PerSecond
    <2>2. CASE LoseReply
      BY <2>2, <1>1 DEF LoseReply, RetryAfterHonest, WindowTicks, PerSecond
    <2> QED
      BY <2>1, <2>2
  <1> QED
    BY <1>5, <1>6, <1>7, <1>8 DEF LimiterInv

\* Time passes; the counter goes when its window is over.
LEMMA LimiterTickInv == ASSUME LimiterInv, LimiterTick PROVE LimiterInv'
  <1>1. LimiterTypeOK /\ InThePast /\ Running /\ BetweenWindows /\ RetryAfterHonest
    BY DEF LimiterInv
  <1>2. /\ ticks' = ticks + 1 /\ ticks' \in 0..MaxTicks /\ ticks \in Nat
        /\ hits' = (IF hits > 0 /\ until <= ticks + 1 THEN 0 ELSE hits)
        /\ until' = until /\ passes' = passes /\ began' = began /\ retry' = retry
        /\ began \in 0..ticks /\ hits \in Nat /\ until \in Nat /\ passes \in Seq(Nat)
    BY LimitAssumption, <1>1, SMT DEF LimiterTick, LimiterTypeOK
  <1>3. LimiterTypeOK'
    BY <1>1, <1>2 DEF LimiterTypeOK
  <1>4. Separated' /\ TwiceTheLimit' /\ InThePast'
    BY <1>2, KeptPasses, SMT
  <1>5. Running'
    <2>1. CASE hits' > 0
      BY <2>1, <1>1, <1>2, SMT DEF Running
    <2> QED
      BY <2>1 DEF Running
  <1>6. BetweenWindows'
    <2>1. \A k \in 1..Len(passes) : passes[k] \in Nat /\ passes[k] <= ticks
      BY <1>1, <1>2 DEF InThePast
    <2>2. CASE hits = 0
      BY <2>1, <2>2, <1>1, <1>2, WindowLasts, SMT DEF BetweenWindows, Running
    <2>3. CASE hits > 0
      BY <2>1, <2>3, <1>1, <1>2, WindowLasts, SMT DEF BetweenWindows, Running
    <2> QED
      BY <2>2, <2>3, <1>2, SMT
  <1>7. RetryAfterHonest'
    BY <1>1, <1>2 DEF RetryAfterHonest, WindowTicks, PerSecond
  <1> QED
    BY <1>3, <1>4, <1>5, <1>6, <1>7 DEF LimiterInv

\* Every step keeps the invariant.
LEMMA LimiterStepInv == ASSUME LimiterInv, [LimiterNext]_limiterVars PROVE LimiterInv'
  <1>1. CASE UNCHANGED limiterVars
    <2>1. /\ ticks' = ticks /\ hits' = hits /\ until' = until
          /\ passes' = passes /\ began' = began /\ retry' = retry
      BY <1>1 DEF limiterVars, redisKey
    <2> QED
      BY <2>1 DEF LimiterInv, LimiterTypeOK, InThePast, Running, BetweenWindows, Separated, Separates, Beginning,
                  TwiceTheLimit, RetryAfterHonest, WindowTicks, PerSecond
  <1> QED
    BY <1>1, LetThroughInv, NotLetThroughInv, LimiterTickInv DEF LimiterNext

\* The invariant holds throughout.
THEOREM LimiterInvariance == LimiterSpec => []LimiterInv
  <1>1. LimiterInit => LimiterInv
    BY LimiterInitInv
  <1>2. LimiterInv /\ [LimiterNext]_limiterVars => LimiterInv'
    BY LimiterStepInv
  <1> QED
    BY <1>1, <1>2, PTL DEF LimiterSpec

\* The counter and its expiry are what the script keeps.
THEOREM LimiterTypeCorrect == LimiterSpec => []LimiterTypeOK
  <1>1. LimiterInv => LimiterTypeOK
    BY DEF LimiterInv
  <1> QED
    BY <1>1, LimiterInvariance, PTL

\* "The true worst case is 2x the limit": for every limit and window, wherever
\* the stretch of time begins.
THEOREM WorstCase == LimiterSpec => []TwiceTheLimit
  <1>1. LimiterInv => TwiceTheLimit
    BY DEF LimiterInv
  <1> QED
    BY <1>1, LimiterInvariance, PTL

\* "A key with no TTL is a user locked out permanently": there is none.
THEOREM NobodyLockedOut == LimiterSpec => []NoLockout
  <1>1. LimiterInv => NoLockout
    BY DEF LimiterInv, Running, NoLockout
  <1> QED
    BY <1>1, LimiterInvariance, PTL

\* Retry-After is the time left, but for the rounding Redis does.
THEOREM RetryAfterIsClose == LimiterSpec => []RetryAfterHonest
  <1>1. LimiterInv => RetryAfterHonest
    BY DEF LimiterInv
  <1> QED
    BY <1>1, LimiterInvariance, PTL

\* So waiting as long as told is enough.
THEOREM WaitingPays == LimiterSpec => []WaitingIsEnough
  <1>1. RetryAfterHonest /\ NoLockout => WaitingIsEnough
    BY DEF WaitingIsEnough
  <1> QED
    BY <1>1, NobodyLockedOut, RetryAfterIsClose, PTL

-----------------------------------------------------------------------------
(* Theorems of WaitingRoom, for any number of tokens and requests, any      *)
(* rate, lifetime and clock skew.  A number belongs to the token it was    *)
(* issued to, and a number not yet stored (Fresh) is neither a ticket nor  *)
(* what another join came with: no store can take a place from anybody.    *)

NumbersAreNat == 1..Len(issued)

\* A ticket carries a number that was issued to its token.
Numbered == \A t \in Token : ticket[t] # 0 => ticket[t] \in NumbersAreNat /\ issued[ticket[t]] = t

\* How far a request has come tells what it knows of its number and token.
Owns(q) == q.number \in NumbersAreNat /\ issued[q.number] = q.token

PlacedAt(q) ==
  /\ q.st \in {"store", "answer"} => Owns(q)
  /\ q.st = "open" /\ q.kind # "join" => Owns(q)
  /\ q.st = "find" => q.token \in Token
  /\ q.token = NoToken => q.had = 0
  /\ q.had = 0 \/ q.had \in NumbersAreNat

Placed == \A r \in Request : PlacedAt(req[r])

\* A number waiting to be stored is nobody's ticket, and no request came with
\* it or waits to store it too.
Fresh ==
  \A r \in Request : req[r].st = "store" =>
    /\ \A t \in Token : ticket[t] # req[r].number
    /\ \A s \in Request : /\ req[s].had # req[r].number
                          /\ s # r /\ req[s].st = "store" => req[s].number # req[r].number

\* A join takes a number only when the ticket it came with is gone.
Lost ==
  \A r \in Request : req[r].st \in {"count", "store"} /\ req[r].had # 0
                       => ticket[req[r].token] # req[r].had

\* The start is known to whoever has got past reading it.
Past(q) == q.st \in {"count", "store", "answer"} \/ (q.st = "find" /\ q.kind = "join")

Opened == \A r \in Request : Past(req[r]) => start # NoStart

\* Whoever was let through had a number, and one that was up.
LetIn ==
  \A p \in passed : /\ start # NoStart
                    /\ p[2] \in NumbersAreNat /\ issued[p[2]] = p[1]
                    /\ p[2] <= AdmittedBy(Latest)

RoomInv == RoomTypeOK /\ Numbered /\ Placed /\ Fresh /\ Lost /\ Opened /\ LetIn

Stage == {"idle", "open", "find", "count", "store", "answer"}
Kind == {"join", "status", "hold"}
Record == [st : Stage, kind : Kind, token : Token \cup {NoToken}, brought : BOOLEAN,
           number : Nat, had : Nat]

---------------------------------------------------------------------------
(* Arithmetic.                                                             *)

\* Integer division is the greatest number of times.
LEMMA DivIs ==
  ASSUME NEW a \in Nat, NEW m \in Nat \ {0}
  PROVE  /\ a \div m \in Nat /\ (a \div m) * m <= a
         /\ \A q \in Nat : q * m <= a => q <= a \div m
  <1>1. a \div m \in Nat /\ (a \div m) * m <= a /\ a < (a \div m) * m + m
    BY SMT
  <1>2. ASSUME NEW q \in Nat, q * m <= a PROVE q <= a \div m
    BY <1>2, SMTT(30)
  <1> QED
    BY <1>1, <1>2

LEMMA DivGrows ==
  ASSUME NEW a \in Nat, NEW b \in Nat, a <= b, NEW m \in Nat \ {0}
  PROVE  a \div m <= b \div m
  BY SMTT(30)

LEMMA TimesGrows ==
  ASSUME NEW a \in Nat, NEW b \in Nat, a <= b, NEW m \in Nat
  PROVE  a * m \in Nat /\ b * m \in Nat /\ a * m <= b * m
  BY SMTT(30)

\* Admissions never go back as time passes, although a whole product may come
\* out too small, and those within a time are at least any whole number whose
\* share of the time is over.
LEMMA AdmissionsAre ==
  ASSUME NEW e \in Nat
  PROVE  /\ Admissions(e) \in Nat /\ Admissions(e) * Minute <= e * Rate
         /\ \A k \in Nat : k * Minute < e * Rate => k <= Admissions(e)
         /\ \A k \in Nat : k * Minute <= e * Rate => k <= Admissions(e) + 1
  <1> DEFINE x == e * Rate
             q == x \div Minute
  <1>1. Rate \in Nat \ {0} /\ Minute \in Nat \ {0}
    BY RoomAssumption
  <1>2. x \in Nat
    BY <1>1, SMT
  <1>3. Admissions(e) = q \/ (q > 0 /\ q * Minute = x /\ Admissions(e) = q - 1)
    BY DEF Admissions
  <1> HIDE DEF x
  <1>4. q \in Nat /\ q * Minute <= x /\ \A k \in Nat : k * Minute <= x => k <= q
    BY <1>1, <1>2, DivIs
  <1> HIDE DEF q
  <1>5. \A k \in Nat : k * Minute < q * Minute => k <= q - 1
    BY <1>1, <1>4, SMTT(30)
  <1>6. (q - 1) * Minute <= q * Minute
    BY <1>1, <1>4, SMTT(30)
  <1>7. \A k \in Nat : k * Minute \in Nat
    BY <1>1, SMT
  <1> DEFINE m == q * Minute
  <1>8. m \in Nat /\ (q - 1) * Minute \in Int
    BY <1>1, <1>4, SMT
  <1>9. CASE Admissions(e) = q
    BY <1>4, <1>7, <1>9, <1>2, SMT DEF x
  <1>10. CASE q > 0 /\ m = x /\ Admissions(e) = q - 1
    <2>1. Admissions(e) \in Nat /\ Admissions(e) * Minute <= x
      BY <1>4, <1>6, <1>8, <1>10, <1>2, SMT
    <2>2. \A k \in Nat : k * Minute < x => k <= Admissions(e)
      BY <1>5, <1>10
    <2>3. \A k \in Nat : k * Minute <= x => k <= Admissions(e) + 1
      BY <1>4, <1>10, SMT
    <2> QED
      BY <2>1, <2>2, <2>3 DEF x
  <1> QED
    BY <1>3, <1>9, <1>10

\* Admission at a clock counts from the start, and never goes back.
LEMMA AdmissionGrows ==
  ASSUME start \in Nat, NEW c \in Nat, NEW d \in Nat, c <= d
  PROVE  AdmittedBy(c) \in Nat /\ AdmittedBy(d) \in Nat /\ AdmittedBy(c) <= AdmittedBy(d)
  <1> DEFINE f == Elapsed(c)
             g == Elapsed(d)
  <1>1. f \in Nat /\ g \in Nat /\ f <= g
    BY SMT DEF Elapsed
  <1>2. Rate \in Nat \ {0} /\ Minute \in Nat \ {0} /\ InitialAdmit \in Nat
    BY RoomAssumption
  <1>3. AdmittedBy(c) = InitialAdmit + Admissions(f) /\ AdmittedBy(d) = InitialAdmit + Admissions(g)
    BY DEF AdmittedBy
  <1> HIDE DEF f, g
  <1>4. Admissions(f) \in Nat /\ Admissions(g) \in Nat
    BY <1>1, AdmissionsAre
  <1>5. Admissions(f) <= Admissions(g)
    <2>1. CASE f = g
      BY <2>1, <1>4, SMT
    <2>2. CASE f < g
      <3>1. f * Rate \in Nat /\ g * Rate \in Nat /\ f * Rate < g * Rate
        <4>1. f + 1 <= g /\ f + 1 \in Nat
          BY <1>1, <2>2, SMT
        <4>2. (f + 1) * Rate <= g * Rate /\ (f + 1) * Rate \in Nat /\ g * Rate \in Nat
          BY <1>1, <1>2, <4>1, TimesGrows
        <4>3. (f + 1) * Rate = f * Rate + Rate /\ f * Rate \in Nat
          BY <1>1, <1>2, SMT
        <4> QED
          BY <1>2, <4>2, <4>3, SMT
      <3>2. Admissions(f) * Minute \in Nat /\ Admissions(f) * Minute <= f * Rate
        <4>1. Admissions(f) * Minute <= f * Rate
          BY <1>1, AdmissionsAre, Zenon
        <4>2. Admissions(f) * Minute \in Nat
          BY <1>2, <1>4, SMT
        <4> QED
          BY <4>1, <4>2
      <3>3. Admissions(f) * Minute < g * Rate
        BY <3>1, <3>2, SMT
      <3>4. \A k \in Nat : k * Minute < g * Rate => k <= Admissions(g)
        BY <1>1, AdmissionsAre
      <3> QED
        BY <3>3, <3>4, <1>4, Zenon
    <2> QED
      BY <1>1, <2>1, <2>2, SMT
  <1> QED
    BY <1>2, <1>3, <1>4, <1>5, SMT

\* The estimate is whole seconds and never below the time that is needed.
LEMMA EtaCovers ==
  ASSUME NEW p \in Nat
  PROVE  Eta(p) \in Nat /\ Eta(p) * Rate >= p * Minute
  <1> DEFINE u == Rate * ASecond
             y == p * Minute
             q == (y + u - 1) \div u
             w == EtaSeconds(p)
  <1>1. Rate \in Nat \ {0} /\ Minute \in Nat \ {0} /\ ASecond \in Nat \ {0}
    BY RoomAssumption
  <1>2. u \in Nat \ {0} /\ y \in Nat
    BY <1>1, SMTT(30)
  <1>3. w = q \/ w = q + 1
    BY Zenon DEF EtaSeconds
  <1>8. Eta(p) = w * ASecond
    BY DEF Eta
  <1> HIDE DEF u, y, w
  <1>4. y + u - 1 \in Nat
    BY <1>2, SMT
  <1>5. q \in Nat /\ y <= q * u
    <2>1. q \in Nat /\ y + u - 1 < q * u + u
      BY <1>2, <1>4, SMTT(30)
    <2>2. q * u \in Nat
      BY <1>2, <2>1, SMT
    <2> QED
      BY <1>2, <2>1, <2>2, SMT
  <1> HIDE DEF q
  <1>6. (q + 1) * u >= q * u /\ q * u \in Nat /\ (q + 1) * u \in Nat
    <2>1. q + 1 \in Nat /\ q <= q + 1 /\ u \in Nat
      BY <1>2, <1>5, SMT
    <2> QED
      BY <2>1, <1>5, TimesGrows
  <1>7. w \in Nat /\ w * u >= y
    BY <1>2, <1>3, <1>5, <1>6, SMT
  <1>9. w * ASecond \in Nat /\ (w * ASecond) * Rate = w * u
    <2>1. w * ASecond \in Nat
      BY <1>1, <1>7, SMT
    <2>2. (w * ASecond) * Rate = w * (Rate * ASecond)
      BY <1>1, <1>7, SMTT(30)
    <2> QED
      BY <2>1, <2>2 DEF u
  <1> QED
    BY <1>7, <1>8, <1>9 DEF y

\* Whoever waits for the estimate is in front of the admitted a moment later,
\* and one place short of it at most when it is over.
LEMMA Enough ==
  ASSUME start \in Nat, NEW c \in Nat, c >= start, NEW n \in Nat
  PROVE  LET over == c + Eta(PositionOf(n, AdmittedBy(c)))
         IN /\ PositionOf(n, AdmittedBy(over)) <= 1
            /\ PositionOf(n, AdmittedBy(over + 1)) = 0
  <1> DEFINE p == PositionOf(n, AdmittedBy(c))
             e == c - start
             w == Eta(p)
             q == Admissions(e)
  <1>1. Rate \in Nat \ {0} /\ Minute \in Nat \ {0} /\ InitialAdmit \in Nat
    BY RoomAssumption
  <1>2. e \in Nat /\ Elapsed(c) = e
    BY SMT DEF Elapsed
  <1>3. AdmittedBy(c) = InitialAdmit + q
    BY <1>2 DEF AdmittedBy
  <1> HIDE DEF e
  <1>4. q \in Nat /\ q * Minute <= e * Rate
    BY <1>2, AdmissionsAre
  <1> HIDE DEF q
  <1>5. p \in Nat /\ n <= p + (InitialAdmit + q)
    BY <1>1, <1>3, <1>4, SMT DEF PositionOf
  <1> HIDE DEF p
  <1>6. w \in Nat /\ w * Rate >= p * Minute
    BY <1>5, EtaCovers
  <1> HIDE DEF w
  <1>7. /\ (q + p) * Minute <= (e + w) * Rate
        /\ (q + p) * Minute < (e + w + 1) * Rate
    <2>1. (q + p) * Minute = q * Minute + p * Minute
      BY <1>1, <1>4, <1>5, SMT
    <2>2. (e + w) * Rate = e * Rate + w * Rate
      BY <1>1, <1>2, <1>6, SMT
    <2>3. (e + w + 1) * Rate = (e + w) * Rate + Rate
      BY <1>1, <1>2, <1>6, SMT
    <2>4. {q * Minute, p * Minute, e * Rate, w * Rate, (e + w) * Rate} \subseteq Nat
      BY <1>1, <1>2, <1>4, <1>5, <1>6, SMT
    <2> QED
      BY <2>1, <2>2, <2>3, <2>4, <1>1, <1>4, <1>6, SMT
  <1>8. /\ Elapsed(c + w) = e + w /\ Elapsed(c + w + 1) = e + w + 1
        /\ e + w \in Nat /\ e + w + 1 \in Nat /\ q + p \in Nat
    BY <1>2, <1>4, <1>5, <1>6, SMT DEF Elapsed, e
  <1>9. /\ q + p <= Admissions(e + w) + 1 /\ Admissions(e + w) \in Nat
        /\ q + p <= Admissions(e + w + 1) /\ Admissions(e + w + 1) \in Nat
    BY <1>7, <1>8, AdmissionsAre
  <1>10. /\ AdmittedBy(c + w) = InitialAdmit + Admissions(e + w)
         /\ AdmittedBy(c + w + 1) = InitialAdmit + Admissions(e + w + 1)
    BY <1>8 DEF AdmittedBy
  <1>11. /\ n <= AdmittedBy(c + w) + 1 /\ AdmittedBy(c + w) \in Nat
         /\ n <= AdmittedBy(c + w + 1) /\ AdmittedBy(c + w + 1) \in Nat
    BY <1>1, <1>4, <1>5, <1>9, <1>10, SMT
  <1>12. /\ PositionOf(n, AdmittedBy(c + w)) <= 1
         /\ PositionOf(n, AdmittedBy(c + w + 1)) = 0
    BY <1>11, SMT DEF PositionOf
  <1> QED
    BY <1>12 DEF w, p

---------------------------------------------------------------------------
(* The invariant.                                                          *)

\* At the start there is nothing.
LEMMA RoomInitInv == ASSUME RoomInit PROVE RoomInv
  <1>1. RoomTypeOK
    BY RoomAssumption, SMT DEF RoomInit, RoomTypeOK, Idle
  <1>2. /\ \A t \in Token : ticket[t] = 0
        /\ \A r \in Request : req[r] = Idle
        /\ passed = {}
    BY DEF RoomInit
  <1> QED
    BY <1>1, <1>2 DEF RoomInv, Numbered, Placed, PlacedAt, Fresh, Lost, Opened, Past, LetIn, Idle

\* One request has become q, the others are as they were.
Became(r, q) ==
  /\ req' \in [Request -> Record] /\ req'[r] = q
  /\ \A s \in Request : s # r => req'[s] = req[s]

\* A record with no number to store, which takes nothing from anybody.
Quiet(q) ==
  /\ q \in Record /\ q.st # "store" /\ PlacedAt(q)
  /\ \A s \in Request : req[s].st = "store" => req[s].number # q.had
  /\ q.st = "count" /\ q.had # 0 => ticket[q.token] # q.had

StartKept == start' = start \/ (start = NoStart /\ start' \in Nat)

LEMMA TypedRequests == ASSUME RoomTypeOK PROVE req \in [Request -> Record]
  BY DEF RoomTypeOK, Record, Stage, Kind

LEMMA Becomes ==
  ASSUME RoomTypeOK, NEW r \in Request, NEW q \in Record, req' = [req EXCEPT ![r] = q]
  PROVE  Became(r, q)
  BY TypedRequests DEF Became

LEMMA BecomesStage ==
  ASSUME RoomTypeOK, NEW r \in Request, NEW to \in Stage, To(r, to)
  PROVE  Became(r, [req[r] EXCEPT !.st = to]) /\ [req[r] EXCEPT !.st = to] \in Record
  <1>1. req \in [Request -> Record]
    BY TypedRequests
  <1>2. [req[r] EXCEPT !.st = to] \in Record
    BY <1>1 DEF Record
  <1>3. req' = [req EXCEPT ![r] = [req[r] EXCEPT !.st = to]]
    BY <1>1 DEF To
  <1> QED
    BY <1>2, <1>3, Becomes

LEMMA IdleIsQuiet == ASSUME RoomInv PROVE Quiet(Idle)
  <1>1. Idle \in Record
    BY SMT DEF Idle, Record, Stage, Kind
  <1>2. \A s \in Request : req[s].st = "store" => req[s].number # 0
    BY DEF RoomInv, Placed, PlacedAt, Owns, NumbersAreNat
  <1> QED
    BY <1>1, <1>2 DEF Quiet, PlacedAt, Idle

\* A request that becomes a quiet one disturbs no number and no ticket.
LEMMA RoomMoved ==
  ASSUME RoomInv, NEW r \in Request, NEW q, Became(r, q), Quiet(q), UNCHANGED <<issued, ticket>>
  PROVE  Numbered' /\ Placed' /\ Fresh' /\ Lost'
  <1>1. Numbered /\ Placed /\ Fresh /\ Lost
    BY DEF RoomInv
  <1>2. NumbersAreNat' = NumbersAreNat /\ \A x : PlacedAt(x)' <=> PlacedAt(x)
    BY DEF NumbersAreNat, PlacedAt, Owns
  <1>3. Numbered'
    BY <1>1, <1>2 DEF Numbered
  <1>4. req'[r] = q /\ \A s \in Request : s # r => req'[s] = req[s]
    BY DEF Became
  <1>5. Placed'
    BY <1>1, <1>2, <1>4 DEF Placed, Quiet
  <1>6. Fresh'
    BY <1>1, <1>4 DEF Fresh, Quiet
  <1>7. Lost'
    BY <1>1, <1>4 DEF Lost, Quiet
  <1> QED
    BY <1>3, <1>5, <1>6, <1>7

\* The start, once written, stays.
LEMMA StaysOpen ==
  ASSUME RoomInv, NEW r \in Request, NEW q, Became(r, q), StartKept,
         Past(q) => start' # NoStart
  PROVE  Opened'
  <1>1. start # NoStart => start' # NoStart
    BY DEF StartKept
  <1>2. req'[r] = q /\ \A s \in Request : s # r => req'[s] = req[s]
    BY DEF Became
  <1> QED
    BY <1>1, <1>2 DEF RoomInv, Opened, Past

\* Those who are in stay in.
LEMMA StayIn ==
  ASSUME RoomInv, passed' = passed, now' = now, issued' = issued, StartKept
  PROVE  LetIn'
  <1>1. ASSUME NEW p \in passed
        PROVE  /\ start' # NoStart /\ p[2] \in NumbersAreNat' /\ issued'[p[2]] = p[1]
               /\ p[2] <= AdmittedBy(Latest)'
    <2>1. start # NoStart /\ p[2] \in NumbersAreNat /\ issued[p[2]] = p[1] /\ p[2] <= AdmittedBy(Latest)
      BY <1>1 DEF RoomInv, LetIn
    <2>2. start' = start
      BY <2>1 DEF StartKept
    <2> QED
      BY <2>1, <2>2 DEF NumbersAreNat, AdmittedBy, Elapsed, Latest
  <1> QED
    BY <1>1 DEF LetIn

\* A request that moves on while the tickets and those let in stay.
LEMMA MovedOn ==
  ASSUME RoomInv, NEW r \in Request, NEW q, Became(r, q), Quiet(q),
         Past(q) => start' # NoStart, StartKept,
         UNCHANGED <<now, issued, ticket, expires, passed>>
  PROVE  RoomInv'
  <1>1. RoomTypeOK'
    BY DEF RoomInv, RoomTypeOK, Became, Record, Stage, Kind, StartKept
  <1> QED
    BY <1>1, RoomMoved, StaysOpen, StayIn DEF RoomInv

LEMMA AskInv ==
  ASSUME RoomInv, NEW r \in Request, NEW kind \in Kind,
         NEW t \in Token \cup {NoToken}, Ask(r, kind, t)
  PROVE  RoomInv'
  <1> DEFINE q == [st |-> IF kind = "join" THEN "open" ELSE "find",
                   kind |-> kind, token |-> t, brought |-> t # NoToken, number |-> 0,
                   had |-> IF kind = "join" /\ t \in Token THEN ticket[t] ELSE 0]
  <1>1. RoomTypeOK /\ Numbered /\ Fresh /\ Placed
    BY DEF RoomInv
  <1>2. q.had \in Nat /\ q \in Record
    BY <1>1 DEF RoomTypeOK, Record, Stage, Kind
  <1>3. Became(r, q)
    BY <1>1, <1>2, Becomes DEF Ask
  <1>4. PlacedAt(q)
    BY RoomAssumption, <1>1 DEF Ask, PlacedAt, Numbered
  <1>5. ASSUME NEW s \in Request, req[s].st = "store" PROVE req[s].number # q.had
    <2>1. req[s].number # 0
      BY <1>1, <1>5 DEF Placed, PlacedAt, Owns, NumbersAreNat
    <2>2. \A u \in Token : ticket[u] # req[s].number
      BY <1>1, <1>5 DEF Fresh
    <2> QED
      BY <2>1, <2>2
  <1>6. Quiet(q)
    BY <1>2, <1>4, <1>5 DEF Quiet
  <1> QED
    BY <1>3, <1>6, MovedOn DEF Ask, Past, StartKept, room

LEMMA OpenInv ==
  ASSUME RoomInv, NEW r \in Request, NEW clock \in Clocks, Open(r, clock)
  PROVE  RoomInv'
  <1> DEFINE to == IF req[r].kind # "join" THEN "answer"
                   ELSE IF req[r].token = NoToken THEN "count" ELSE "find"
             q == [req[r] EXCEPT !.st = to]
  <1>1. RoomTypeOK /\ Placed /\ Fresh
    BY DEF RoomInv
  <1>2. Became(r, q) /\ q \in Record /\ req[r] \in Record
    BY <1>1, BecomesStage, TypedRequests DEF Open, Stage
  <1>3. /\ q.st = to /\ q.kind = req[r].kind /\ q.token = req[r].token
        /\ q.number = req[r].number /\ q.had = req[r].had
    BY <1>2 DEF Record
  <1>4. req[r].st = "open" /\ PlacedAt(req[r]) /\ req[r].token \in Token \cup {NoToken}
    BY <1>1, <1>2 DEF Open, Placed, Record
  <1>5. PlacedAt(q)
    BY <1>3, <1>4 DEF PlacedAt, Owns
  <1>6. Quiet(q)
    BY <1>1, <1>2, <1>3, <1>4, <1>5 DEF Quiet, Fresh, PlacedAt
  <1>7. clock \in Nat /\ start' # NoStart /\ StartKept
    BY RoomAssumption, <1>1, SMT DEF Clocks, RoomTypeOK, Open, OpenedAt, StartKept
  <1> HIDE DEF q
  <1> QED
    BY <1>2, <1>6, <1>7, MovedOn DEF Open

LEMMA FindTicketInv ==
  ASSUME RoomInv, NEW r \in Request, FindTicket(r)
  PROVE  RoomInv'
  <1> DEFINE to == IF req[r].kind = "join" THEN "answer" ELSE "open"
             n == Found(r)
             q == [req[r] EXCEPT !.st = to, !.number = n, !.had = 0]
  <1>1. RoomTypeOK /\ Placed /\ Fresh /\ Numbered /\ Opened
    BY DEF RoomInv
  <1>2. req[r] \in Record /\ req \in [Request -> Record]
    BY <1>1, TypedRequests
  <1>3. req[r].st = "find" /\ req[r].token \in Token /\ n # 0
    BY <1>1 DEF FindTicket, Placed, PlacedAt
  <1>4. n \in NumbersAreNat /\ issued[n] = req[r].token /\ n \in Nat
    BY <1>1, <1>3 DEF Numbered, Found, RoomTypeOK
  <1>5. q \in Record
    BY <1>2, <1>4 DEF Record, Stage
  <1>6. /\ q.st = to /\ q.kind = req[r].kind /\ q.token = req[r].token
        /\ q.number = n /\ q.had = 0
    BY <1>2 DEF Record
  <1>7. req' = [req EXCEPT ![r] = q]
    BY <1>2 DEF FindTicket
  <1>8. Became(r, q)
    BY <1>1, <1>5, <1>7, Becomes
  <1>9. Quiet(q)
    BY <1>1, <1>3, <1>4, <1>5, <1>6, IdleIsQuiet DEF Quiet, PlacedAt, Owns, Idle
  <1>10. Past(q) => start' # NoStart
    BY <1>1, <1>3, <1>6 DEF Past, Opened, FindTicket, room
  <1> HIDE DEF q
  <1> QED
    BY <1>8, <1>9, <1>10, MovedOn DEF FindTicket, room, StartKept

LEMMA MissTicketInv ==
  ASSUME RoomInv, NEW r \in Request, MissTicket(r)
  PROVE  RoomInv'
  <1>1. RoomTypeOK /\ Placed /\ Fresh /\ Opened
    BY DEF RoomInv
  <1>2. UNCHANGED <<now, issued, ticket, expires, passed>> /\ StartKept /\ start' = start
    BY DEF MissTicket, room, StartKept
  <1>3. CASE req[r].kind = "join"
    <2> DEFINE q == [req[r] EXCEPT !.st = "count"]
    <2>1. Became(r, q) /\ q \in Record /\ req[r] \in Record
      BY <1>1, <1>3, BecomesStage, TypedRequests DEF MissTicket, Stage
    <2>2. /\ q.st = "count" /\ q.kind = req[r].kind /\ q.token = req[r].token
          /\ q.number = req[r].number /\ q.had = req[r].had
      BY <2>1 DEF Record
    <2>3. req[r].st = "find" /\ PlacedAt(req[r]) /\ ticket[req[r].token] = 0
      BY <1>1 DEF MissTicket, Placed, Found
    <2>4. Quiet(q)
      BY <1>1, <2>1, <2>2, <2>3 DEF Quiet, PlacedAt, Fresh
    <2>5. start' # NoStart
      BY <1>1, <1>2, <1>3, <2>3 DEF Opened, Past
    <2> HIDE DEF q
    <2> QED
      BY <1>2, <2>1, <2>4, <2>5, MovedOn
  <1>4. CASE req[r].kind # "join"
    BY <1>1, <1>2, <1>4, Becomes, IdleIsQuiet, MovedOn DEF MissTicket, Quiet, Past, Idle
  <1> QED
    BY <1>3, <1>4

LEMMA FailsInv ==
  ASSUME RoomInv, NEW r \in Request, Fails(r)
  PROVE  RoomInv'
  <1>1. Quiet(Idle) /\ Became(r, Idle) /\ ~Past(Idle)
    BY IdleIsQuiet, Becomes DEF RoomInv, Fails, Quiet, Past, Idle
  <1> QED
    BY <1>1, MovedOn DEF Fails, room, StartKept

\* The gate: whoever passes has a number that is up by this clock, and so by
\* the latest.
LEMMA AnswerInv ==
  ASSUME RoomInv, NEW r \in Request, NEW clock \in Clocks, Answer(r, clock)
  PROVE  RoomInv'
  <1>1. RoomTypeOK /\ Placed /\ Opened /\ LetIn
    BY DEF RoomInv
  <1>2. Quiet(Idle) /\ Became(r, Idle) /\ ~Past(Idle)
    BY <1>1, IdleIsQuiet, Becomes DEF Answer, Quiet, Past, Idle
  <1>3. UNCHANGED <<now, start, issued, ticket, expires>> /\ StartKept
    BY DEF Answer, room, StartKept
  <1>4. Numbered' /\ Placed' /\ Fresh' /\ Lost' /\ Opened'
    BY <1>2, <1>3, RoomMoved, StaysOpen
  <1>5. req[r].st = "answer" /\ Owns(req[r]) /\ start # NoStart /\ req[r] \in Record
    BY <1>1, TypedRequests DEF Answer, Placed, PlacedAt, Opened, Past
  <1>6. req[r].token \in Token /\ req[r].number \in Nat
    <2>1. issued \in Seq(Token)
      BY <1>1 DEF RoomTypeOK
    <2> QED
      BY <1>5, <2>1 DEF Owns, NumbersAreNat, Record
  <1>7. passed' \subseteq passed \cup {<<req[r].token, req[r].number>>}
    BY DEF Answer
  <1>8. RoomTypeOK'
    BY <1>1, <1>2, <1>3, <1>6, <1>7 DEF RoomTypeOK, Became, Record, Stage, Kind
  <1>9. Position(r, clock) = 0 => req[r].number <= AdmittedBy(Latest)
    <2>1. start \in Nat /\ clock \in Nat /\ Latest \in Nat /\ clock <= Latest
      BY RoomAssumption, <1>1, <1>5, SMT DEF RoomTypeOK, Clocks, Latest
    <2>2. /\ AdmittedBy(clock) \in Nat /\ AdmittedBy(Latest) \in Nat
          /\ AdmittedBy(clock) <= AdmittedBy(Latest)
      BY <2>1, AdmissionGrows
    <2> QED
      BY <2>2, <1>6, SMT DEF Position, PositionOf
  <1>10. LetIn'
    <2>1. ASSUME NEW p \in passed'
          PROVE  /\ start # NoStart /\ p[2] \in NumbersAreNat /\ issued[p[2]] = p[1]
                 /\ p[2] <= AdmittedBy(Latest)
      <3>1. CASE p \in passed
        BY <3>1, <1>1 DEF LetIn
      <3>2. CASE p \notin passed
        <4>1. p = <<req[r].token, req[r].number>> /\ Position(r, clock) = 0
          BY <3>2, <2>1 DEF Answer
        <4> QED
          BY <4>1, <1>5, <1>9 DEF Owns
      <3> QED
        BY <3>1, <3>2
    <2> QED
      BY <2>1, <1>3 DEF LetIn, NumbersAreNat, AdmittedBy, Elapsed, Latest
  <1> QED
    BY <1>4, <1>8, <1>10 DEF RoomInv

\* A new number: the others keep theirs, and nobody knows this one yet.
LEMMA CountInv ==
  ASSUME RoomInv, NEW r \in Request, NEW t \in Token, Count(r, t)
  PROVE  RoomInv'
  <1> DEFINE n == Len(issued) + 1
             q == [req[r] EXCEPT !.st = "store", !.token = t, !.number = n]
  <1>1. RoomTypeOK /\ Numbered /\ Placed /\ Fresh /\ Lost /\ Opened /\ LetIn
    BY DEF RoomInv
  <1>2. req[r] \in Record /\ issued \in Seq(Token) /\ Len(issued) \in Nat /\ n \in Nat
    BY <1>1, TypedRequests DEF RoomTypeOK
  <1>3. /\ issued' \in Seq(Token) /\ Len(issued') = n /\ issued'[n] = t
        /\ \A k \in NumbersAreNat : issued'[k] = issued[k]
    BY <1>2 DEF Count, NumbersAreNat
  <1>4. NumbersAreNat' = NumbersAreNat \cup {n} /\ n \notin NumbersAreNat /\ NumbersAreNat \subseteq Nat
    BY <1>2, <1>3, SMT DEF NumbersAreNat
  <1>5. UNCHANGED <<now, start, ticket, expires, passed>> /\ StartKept
    BY DEF Count, StartKept
  <1>6. q \in Record
    BY <1>2 DEF Record, Stage
  <1>7. /\ q.st = "store" /\ q.kind = req[r].kind /\ q.token = t
        /\ q.number = n /\ q.had = req[r].had
    BY <1>2 DEF Record
  <1>8. Became(r, q)
    <2>1. req' = [req EXCEPT ![r] = q]
      BY <1>2 DEF Count, NextNumber
    <2> QED
      BY <2>1, <1>1, <1>6, Becomes
  <1> HIDE DEF q, n
  <1>9. req'[r] = q /\ \A s \in Request : s # r => req'[s] = req[s]
    BY <1>8 DEF Became
  <1>10. \A x : PlacedAt(x) => PlacedAt(x)'
    BY <1>3, <1>4 DEF PlacedAt, Owns
  <1>11. req[r].st = "count" /\ PlacedAt(req[r]) /\ (req[r].token = NoToken \/ req[r].token = t)
    BY <1>1 DEF Count, Placed
  <1>12. ASSUME NEW x, x = q PROVE PlacedAt(x)'
    <2>1. t # NoToken
      BY RoomAssumption
    <2>2. x.st = "store" /\ x.token = t /\ x.number = n /\ x.had = req[r].had
      BY <1>7, <1>12
    <2> QED
      BY <2>1, <2>2, <1>3, <1>4, <1>11 DEF PlacedAt, Owns
  <1>13. Placed'
    BY <1>1, <1>9, <1>10, <1>12 DEF Placed
  <1>14. Numbered'
    BY <1>1, <1>3, <1>4, <1>5 DEF Numbered
  <1>15. \A s \in Request : req[s].had # n /\ (req[s].st = "store" => req[s].number # n)
    <2>1. TAKE s \in Request
    <2>2. PlacedAt(req[s]) /\ n # 0
      BY <1>1, <1>2 DEF Placed, n
    <2> QED
      BY <2>2, <1>4 DEF PlacedAt, Owns
  <1>16. \A u \in Token : ticket[u] # n
    BY <1>1, <1>2, <1>4 DEF Numbered, n
  <1>17. Fresh'
    <2>1. ASSUME NEW s \in Request, req'[s].st = "store"
          PROVE  /\ \A u \in Token : ticket'[u] # req'[s].number
                 /\ \A x \in Request : /\ req'[x].had # req'[s].number
                                       /\ x # s /\ req'[x].st = "store" => req'[x].number # req'[s].number
      <3>1. CASE s = r
        BY <3>1, <1>5, <1>7, <1>9, <1>15, <1>16
      <3>2. CASE s # r
        BY <2>1, <3>2, <1>1, <1>5, <1>7, <1>9, <1>15 DEF Fresh
      <3> QED
        BY <3>1, <3>2
    <2> QED
      BY <2>1 DEF Fresh
  <1>18. Lost'
    BY <1>1, <1>5, <1>7, <1>9, <1>11 DEF Lost, PlacedAt
  <1>19. Opened'
    BY <1>1, <1>5, <1>7, <1>9, <1>11 DEF Opened, Past
  <1>20. RoomTypeOK'
    BY <1>1, <1>3, <1>5, <1>8 DEF RoomTypeOK, Became, Record, Stage, Kind
  <1>21. LetIn'
    BY <1>1, <1>3, <1>4, <1>5 DEF LetIn, AdmittedBy, Elapsed, Latest
  <1> QED
    BY <1>13, <1>14, <1>17, <1>18, <1>19, <1>20, <1>21 DEF RoomInv

\* A number becomes a ticket: no other request came with it.
LEMMA StoreInv ==
  ASSUME RoomInv, NEW r \in Request, Store(r)
  PROVE  RoomInv'
  <1> DEFINE q == [req[r] EXCEPT !.st = "answer", !.had = 0]
             n == req[r].number
             t == req[r].token
  <1>1. RoomTypeOK /\ Numbered /\ Placed /\ Fresh /\ Lost /\ Opened
    BY DEF RoomInv
  <1>2. req[r] \in Record /\ issued \in Seq(Token)
    BY <1>1, TypedRequests DEF RoomTypeOK
  <1>3. req[r].st = "store" /\ PlacedAt(req[r]) /\ Owns(req[r])
    BY <1>1 DEF Store, Placed, PlacedAt
  <1>4. t \in Token /\ n \in NumbersAreNat /\ issued[n] = t /\ n \in Nat /\ n # 0
    BY <1>2, <1>3 DEF Owns, NumbersAreNat
  <1>5. UNCHANGED <<now, start, issued, passed>> /\ StartKept
    BY DEF Store, StartKept
  <1>6. q \in Record
    BY <1>2 DEF Record, Stage
  <1>7. q.st = "answer" /\ q.kind = req[r].kind /\ q.token = t /\ q.number = n /\ q.had = 0
    BY <1>2 DEF Record
  <1>8. Became(r, q)
    <2>1. req' = [req EXCEPT ![r] = q]
      BY <1>2 DEF Store
    <2> QED
      BY <2>1, <1>1, <1>6, Becomes
  <1>9. ticket'[t] = n /\ \A u \in Token : u # t => ticket'[u] = ticket[u]
    BY <1>1, <1>4 DEF Store, RoomTypeOK
  <1>10. RoomTypeOK'
    <2>1. now + TicketTtl \in Nat
      BY RoomAssumption, <1>1, SMT DEF RoomTypeOK
    <2>2. ticket' = [ticket EXCEPT ![t] = n] /\ expires' = [expires EXCEPT ![t] = now + TicketTtl]
      BY DEF Store
    <2>3. ticket \in [Token -> Nat] /\ expires \in [Token -> Nat]
      BY <1>1 DEF RoomTypeOK
    <2> HIDE DEF n, t
    <2>4. ticket' \in [Token -> Nat] /\ expires' \in [Token -> Nat]
      BY <2>1, <2>2, <2>3, <1>4
    <2> QED
      BY <2>4, <1>1, <1>5, <1>8 DEF RoomTypeOK, Became, Record, Stage, Kind
  <1> HIDE DEF q, n, t
  <1>11. req'[r] = q /\ \A s \in Request : s # r => req'[s] = req[s]
    BY <1>8 DEF Became
  <1>12. NumbersAreNat' = NumbersAreNat /\ \A x : PlacedAt(x)' <=> PlacedAt(x)
    BY <1>5 DEF NumbersAreNat, PlacedAt, Owns
  <1>13. Numbered'
    BY <1>1, <1>4, <1>5, <1>9, <1>12 DEF Numbered
  <1>14. PlacedAt(q) /\ Placed'
    <2>1. PlacedAt(q)
      BY <1>3, <1>7, <1>2 DEF PlacedAt, Owns, n, t
    <2> QED
      BY <2>1, <1>1, <1>11, <1>12 DEF Placed
  <1>15. \A s \in Request : /\ req[s].had # n
                            /\ s # r /\ req[s].st = "store" => req[s].number # n
    BY <1>1, <1>3 DEF Fresh, n
  <1>16. Fresh'
    <2>1. ASSUME NEW s \in Request, req'[s].st = "store"
          PROVE  /\ \A u \in Token : ticket'[u] # req'[s].number
                 /\ \A x \in Request : /\ req'[x].had # req'[s].number
                                       /\ x # s /\ req'[x].st = "store" => req'[x].number # req'[s].number
      <3>1. s # r /\ req'[s] = req[s]
        BY <2>1, <1>7, <1>11
      <3>2. req[s].number # n /\ req[s].number # 0
        BY <2>1, <3>1, <1>1, <1>15 DEF Placed, PlacedAt, Owns, NumbersAreNat
      <3>3. \A u \in Token : ticket'[u] # req'[s].number
        BY <2>1, <3>1, <3>2, <1>1, <1>9 DEF Fresh
      <3>4. \A x \in Request : /\ req'[x].had # req'[s].number
                               /\ x # s /\ req'[x].st = "store" => req'[x].number # req'[s].number
        BY <2>1, <3>1, <3>2, <1>1, <1>7, <1>11 DEF Fresh
      <3> QED
        BY <3>3, <3>4
    <2> QED
      BY <2>1 DEF Fresh
  <1>17. Lost'
    <2>1. ASSUME NEW s \in Request, req'[s].st \in {"count", "store"}, req'[s].had # 0
          PROVE  ticket'[req'[s].token] # req'[s].had
      <3>1. s # r /\ req'[s] = req[s]
        BY <2>1, <1>7, <1>11
      <3>2. ticket[req[s].token] # req[s].had /\ req[s].had # n
        BY <2>1, <3>1, <1>1, <1>15 DEF Lost
      <3>3. req[s].token \in Token
        <4>1. req[s].token \in Token \cup {NoToken} /\ req[s].token # NoToken
          BY <2>1, <3>1, <1>1, TypedRequests DEF Placed, PlacedAt, Record
        <4> QED
          BY <4>1
      <3> QED
        BY <3>1, <3>2, <3>3, <1>9
    <2> QED
      BY <2>1 DEF Lost
  <1>18. Opened'
    BY <1>1, <1>3, <1>5, <1>7, <1>11 DEF Opened, Past
  <1>19. LetIn'
    BY <1>5, StayIn
  <1> QED
    BY <1>10, <1>13, <1>14, <1>16, <1>17, <1>18, <1>19 DEF RoomInv

\* Tickets run out, and more are admitted.
LEMMA RoomTickInv == ASSUME RoomInv, RoomTick PROVE RoomInv'
  <1>1. RoomTypeOK /\ Numbered /\ Placed /\ Fresh /\ Lost /\ Opened /\ LetIn
    BY DEF RoomInv
  <1>2. now \in Nat /\ now' = now + 1 /\ now' \in 0..MaxTime
    BY RoomAssumption, <1>1, SMT DEF RoomTick, RoomTypeOK
  <1>3. UNCHANGED <<start, issued, expires, req, passed>>
    BY DEF RoomTick
  <1>4. \A t \in Token : ticket'[t] = 0 \/ ticket'[t] = ticket[t]
    BY DEF RoomTick
  <1>5. ticket' \in [Token -> Nat]
    BY <1>1 DEF RoomTick, RoomTypeOK
  <1>6. NumbersAreNat' = NumbersAreNat /\ \A x : PlacedAt(x)' <=> PlacedAt(x)
    BY <1>3 DEF NumbersAreNat, PlacedAt, Owns
  <1>7. RoomTypeOK' /\ Numbered' /\ Placed' /\ Opened'
    BY <1>1, <1>2, <1>3, <1>4, <1>5, <1>6 DEF RoomTypeOK, Numbered, Placed, Opened, Past
  <1>8. Fresh'
    <2>1. \A s \in Request : req[s].st = "store" => req[s].number # 0
      BY <1>1 DEF Placed, PlacedAt, Owns, NumbersAreNat
    <2> QED
      BY <2>1, <1>1, <1>3, <1>4 DEF Fresh
  <1>9. Lost'
    <2>1. ASSUME NEW s \in Request, req[s].st \in {"count", "store"}, req[s].had # 0
          PROVE  ticket'[req[s].token] # req[s].had
      <3>1. req[s].token \in Token
        BY <2>1, <1>1, TypedRequests DEF Placed, PlacedAt, Record
      <3> QED
        BY <2>1, <3>1, <1>1, <1>4 DEF Lost
    <2> QED
      BY <2>1, <1>3 DEF Lost
  <1>10. LetIn'
    <2>1. ASSUME NEW p \in passed PROVE p[2] <= AdmittedBy(Latest)'
      <3>1. start # NoStart /\ p[2] \in Nat /\ p[2] <= AdmittedBy(Latest)
        BY <1>1 DEF LetIn, RoomTypeOK
      <3>2. start \in Nat /\ Latest \in Nat /\ Latest' \in Nat /\ Latest <= Latest'
        <4>1. start \in Nat /\ now \in Nat /\ MaxSkew \in Nat
          BY RoomAssumption, <3>1, <1>1 DEF RoomTypeOK
        <4> QED
          BY <4>1, <1>2, SMT DEF Latest
      <3>3. /\ AdmittedBy(Latest) \in Nat /\ AdmittedBy(Latest') \in Nat
            /\ AdmittedBy(Latest) <= AdmittedBy(Latest')
        BY <3>2, AdmissionGrows
      <3>4. AdmittedBy(Latest)' = AdmittedBy(Latest')
        BY <1>3 DEF AdmittedBy, Elapsed
      <3> QED
        BY <3>1, <3>3, <3>4, SMT
    <2> QED
      BY <2>1, <1>1, <1>3, <1>6 DEF LetIn
  <1> QED
    BY <1>7, <1>8, <1>9, <1>10 DEF RoomInv

\* Every step keeps the invariant.
LEMMA RoomStepInv == ASSUME RoomInv, [RoomNext]_roomVars PROVE RoomInv'
  <1>1. CASE UNCHANGED roomVars
    <2>1. /\ now' = now /\ start' = start /\ issued' = issued /\ ticket' = ticket
          /\ expires' = expires /\ req' = req /\ passed' = passed
      BY <1>1 DEF roomVars, room
    <2> QED
      BY <2>1 DEF RoomInv, RoomTypeOK, Numbered, NumbersAreNat, Placed, PlacedAt, Owns, Fresh, Lost, Opened,
                  Past, LetIn, AdmittedBy, Elapsed, Latest
  <1>2. ASSUME NEW r \in Request, NEW kind \in Kind, NEW t \in Token \cup {NoToken}, Ask(r, kind, t)
        PROVE  RoomInv'
    BY <1>2, AskInv
  <1>3. ASSUME NEW r \in Request, NEW clock \in Clocks, Open(r, clock) \/ Answer(r, clock)
        PROVE  RoomInv'
    BY <1>3, OpenInv, AnswerInv
  <1>4. ASSUME NEW r \in Request, FindTicket(r) \/ MissTicket(r) \/ Store(r) \/ Fails(r)
        PROVE  RoomInv'
    BY <1>4, FindTicketInv, MissTicketInv, StoreInv, FailsInv
  <1>5. ASSUME NEW r \in Request, NEW t \in Token, Count(r, t)
        PROVE  RoomInv'
    BY <1>5, CountInv
  <1>6. CASE RoomTick
    BY <1>6, RoomTickInv
  <1> QED
    BY <1>1, <1>2, <1>3, <1>4, <1>5, <1>6 DEF RoomNext, Kind

\* The invariant holds throughout.
THEOREM RoomInvariance == RoomSpec => []RoomInv
  <1>1. RoomInit => RoomInv
    BY RoomInitInv
  <1>2. RoomInv /\ [RoomNext]_roomVars => RoomInv'
    BY RoomStepInv
  <1> QED
    BY <1>1, <1>2, PTL DEF RoomSpec

---------------------------------------------------------------------------
(* What follows from it.                                                   *)

\* The keys and the requests are what the service keeps.
THEOREM RoomTypeCorrect == RoomSpec => []RoomTypeOK
  <1>1. RoomInv => RoomTypeOK
    BY DEF RoomInv
  <1> QED
    BY <1>1, RoomInvariance, PTL

\* No two tokens hold the same place: a number was issued to one of them.
THEOREM OnePlaceEach == RoomSpec => []PlacesDistinct
  <1>1. RoomInv => PlacesDistinct
    BY DEF RoomInv, Numbered, PlacesDistinct, Live
  <1> QED
    BY <1>1, RoomInvariance, PTL

\* No more visitors are let through than the allowance and the rate give: a
\* visitor who passed has a number of its own among those admitted.
LEMMA NoMoreThanNumbers == ASSUME RoomInv PROVE AdmitsNoMore
  <1> SUFFICES ASSUME passed # {}
               PROVE  /\ start # NoStart
                      /\ Cardinality({p[1] : p \in passed}) <= AdmittedBy(Latest)
    BY DEF AdmitsNoMore
  <1> DEFINE k == AdmittedBy(Latest)
             m == IF k <= Len(issued) THEN k ELSE Len(issued)
             f == [n \in 1..m |-> issued[n]]
  <1>1. start # NoStart /\ \A p \in passed : /\ p[2] \in NumbersAreNat /\ issued[p[2]] = p[1]
                                             /\ p[2] <= k
    BY DEF RoomInv, LetIn
  <1>2. RoomTypeOK
    BY DEF RoomInv
  <1>3. start \in Nat /\ Latest \in Nat
    BY RoomAssumption, <1>1, <1>2, SMT DEF RoomTypeOK, Latest
  <1>4. k \in Nat /\ Len(issued) \in Nat
    <2>1. AdmittedBy(Latest) \in Nat
      BY <1>3, AdmissionGrows
    <2> QED
      BY <2>1, <1>2 DEF RoomTypeOK
  <1> HIDE DEF k
  <1>5. m \in Nat /\ m <= k /\ \A n \in NumbersAreNat : n <= k => n \in 1..m
    BY <1>4, SMT DEF NumbersAreNat
  <1> HIDE DEF m
  <1>6. {p[1] : p \in passed} \subseteq {f[n] : n \in 1..m}
    <2>1. ASSUME NEW p \in passed PROVE p[1] \in {f[n] : n \in 1..m}
      BY <2>1, <1>1, <1>5
    <2> QED
      BY <2>1
  <1>7. IsFiniteSet(1..m) /\ Cardinality(1..m) = m
    BY <1>5, FS_Interval, SMT
  <1>8. IsFiniteSet({f[n] : n \in 1..m}) /\ Cardinality({f[n] : n \in 1..m}) <= m
    <2> DEFINE T == {f[n] : n \in 1..m}
    <2>1. f \in Surjection(1..m, T)
      BY DEF Surjection
    <2> HIDE DEF f, T
    <2>2. IsFiniteSet(T) /\ Cardinality(T) <= Cardinality(1..m)
      BY <2>1, <1>7, FS_Surjection
    <2> QED
      BY <2>2, <1>7 DEF T
  <1>9. /\ Cardinality({p[1] : p \in passed}) <= Cardinality({f[n] : n \in 1..m})
        /\ Cardinality({p[1] : p \in passed}) \in Nat
    BY <1>6, <1>8, FS_Subset, FS_CardinalityType
  <1>10. Cardinality({f[n] : n \in 1..m}) \in Nat
    BY <1>8, FS_CardinalityType
  <1> QED
    BY <1>1, <1>4, <1>5, <1>8, <1>9, <1>10, SMT DEF k

THEOREM RoomIsNotOverrun == RoomSpec => []AdmitsNoMore
  <1>1. RoomInv => AdmitsNoMore
    BY NoMoreThanNumbers
  <1> QED
    BY <1>1, RoomInvariance, PTL

\* Whoever waits longer than told is admitted.
THEOREM EstimateIsEnough == RoomSpec => []EtaIsEnough
  <1>1. ASSUME RoomInv, NEW r \in Request, NEW clock \in Clocks, req[r].st = "answer", clock >= start
        PROVE  LET over == clock + Eta(Position(r, clock))
               IN /\ PositionOf(req[r].number, AdmittedBy(over)) <= 1
                  /\ PositionOf(req[r].number, AdmittedBy(over + 1)) = 0
    <2>1. start # NoStart /\ RoomTypeOK
      BY <1>1 DEF RoomInv, Opened, Past
    <2>2. start \in Nat /\ clock \in Nat
      BY RoomAssumption, <2>1, SMT DEF RoomTypeOK, Clocks
    <2>3. req[r].number \in Nat
      BY <2>1, TypedRequests DEF Record
    <2> QED
      BY <1>1, <2>2, <2>3, Enough DEF Position
  <1>2. RoomInv => EtaIsEnough
    BY <1>1 DEF EtaIsEnough
  <1> QED
    BY <1>2, RoomInvariance, PTL

\* A visitor who joins again once the ticket is there keeps the place: only a
\* join that came before the ticket was stored can replace it.
THEOREM LaterRetriesKeepTheirPlace == RoomSpec => LaterRetryKeepsPlace
  <1> DEFINE Keeps == \A t \in Token :
                ticket[t] # 0 => \/ ticket'[t] \in {0, ticket[t]}
                                 \/ \E r \in Request : /\ req[r].st = "store" /\ req[r].token = t
                                                      /\ req[r].had # ticket[t]
  <1>1. RoomInv /\ [RoomNext]_roomVars => [Keeps]_roomVars
    <2> SUFFICES ASSUME RoomInv, [RoomNext]_roomVars PROVE Keeps \/ UNCHANGED roomVars
      OBVIOUS
    <2>1. ASSUME NEW r \in Request, Store(r) PROVE Keeps
      <3>1. \A t \in Token : t # req[r].token => ticket'[t] = ticket[t]
        BY <2>1 DEF Store, RoomInv, RoomTypeOK
      <3>2. req[r].st = "store" /\ (req[r].had # 0 => ticket[req[r].token] # req[r].had)
        BY <2>1 DEF Store, RoomInv, Lost
      <3> QED
        BY <3>1, <3>2
    <2>2. CASE RoomTick
      BY <2>2 DEF RoomTick
    <2>3. CASE ticket' = ticket
      BY <2>3
    <2>4. \/ \E r \in Request : Store(r)
          \/ RoomTick \/ ticket' = ticket \/ UNCHANGED roomVars
      BY DEF RoomNext, Ask, Open, FindTicket, MissTicket, Count, Answer, Fails, room
    <2> QED
      BY <2>1, <2>2, <2>3, <2>4
  <1> QED
    BY <1>1, RoomInvariance, PTL DEF RoomSpec, LaterRetryKeepsPlace

-----------------------------------------------------------------------------
(* Theorems of GroupBooking, for any row, any number of requests and every *)
(* configuration.  What a request saw when it looked still holds when it   *)
(* inserts, unless the seating changed since, and then it is late (Seen).  *)

\* Pending bookings have all their seats or, on the naive path, none.
Whole ==
  \A r \in Buyer : IF st[r] = "pending"
                     THEN Seat(r) = wants[r] \/ (Seat(r) = {} /\ config.mode = "naive")
                     ELSE Seat(r) = {}

\* Only the naive path has a booking without its seats yet.
Halfway == \A r \in Buyer : st[r] = "inserted" => config.mode = "naive"

\* A request nobody has overtaken may trust what it saw.
Seen ==
  \A r \in Buyer : st[r] \in {"checked", "inserted"} /\ ~late[r]
                       => SeatsAvailable(wants[r]) /\ ~Strands(wants[r])

\* Two bookings share a seat only where nothing kept them apart.
WindowsApart ==
  \A r \in Buyer : \A q \in Buyer \ {r} :
    Seat(r) \cap Seat(q) # {} => ~config.unique /\ (late[r] \/ late[q])

GroupInv == GroupTypeOK /\ Whole /\ Halfway /\ Seen /\ WindowsApart

---------------------------------------------------------------------------
(* The rule, in terms of the numbers that are taken.                       *)

Occupied(held, seats) == {n \in Row : n \in seats \/ \E x \in held : x.seat = n}
OrphansIn(occupied) ==
  {s \in {1} \X Row : s[2] \notin occupied /\ s[2] - 1 \in occupied /\ s[2] + 1 \in occupied}

\* A seat is stranded when it is free and both its numbers beside are taken,
\* by a row of booking_seats or by the booking in question.
LEMMA OrphansAre ==
  ASSUME NEW held, NEW seats \in SUBSET Row
  PROVE  FindOrphanSeats(Status(held), {1} \X seats) = OrphansIn(Occupied(held, seats))
  <1> DEFINE S == Status(held)
             B == {1} \X seats
             occ == Occupied(held, seats)
  <1>1. DOMAIN S = {1} \X Row
    BY DEF Status
  <1>2. \A n \in Row : S[<<1, n>>] = "available" <=> ~\E x \in held : x.seat = n
    BY DEF Status
  <1>3. \A n \in Row : IsFree(S, B, <<1, n>>) <=> n \notin occ
    BY <1>2 DEF IsFree, Occupied
  <1>4. \A n \in Int : <<1, n>> \in DOMAIN S <=> n \in Row
    BY <1>1
  <1>5. \A n \in Int : TakenSide(S, B, <<1, n>>) <=> n \in occ
    BY <1>3, <1>4 DEF TakenSide, Occupied
  <1>6. ASSUME NEW s \in {1} \X Row
        PROVE  /\ IsFree(S, B, s) <=> s[2] \notin occ
               /\ Trapped(S, B, s) <=> s[2] - 1 \in occ /\ s[2] + 1 \in occ
    <2>1. s = <<1, s[2]>> /\ s[2] \in Row
      OBVIOUS
    <2>2. s[2] - 1 \in Int /\ s[2] + 1 \in Int
      <3>1. s[2] \in Int
        BY <2>1, GroupAssumption
      <3> HIDE DEF S, B, occ
      <3> QED
        BY <3>1, SMT
    <2> HIDE DEF S, B, occ
    <2>3. IsFree(S, B, s) <=> s[2] \notin occ
      BY <2>1, <1>3
    <2>4. s[1] = 1
      BY <2>1
    <2>5. Trapped(S, B, s) <=> s[2] - 1 \in occ /\ s[2] + 1 \in occ
      BY <2>2, <2>4, <1>5 DEF Trapped
    <2> QED
      BY <2>3, <2>5
  <1> QED
    BY <1>1, <1>6 DEF FindOrphanSeats, OrphansIn

\* A booking that strands nothing leaves nothing stranded that was not before.
LEMMA StrandsNothing ==
  ASSUME NEW seats \in SUBSET Row, config.rule, ~Strands(seats)
  PROVE  OrphansIn(Occupied(rows, seats)) \subseteq Stranded
  <1>1. OrphansCreatedBy(Status(rows), {1} \X seats) = {}
    BY DEF Strands
  <1>2. FindOrphanSeats(Status(rows), {1} \X seats) \subseteq FindOrphanSeats(Status(rows), {})
    BY <1>1 DEF OrphansCreatedBy
  <1> QED
    BY <1>2, OrphansAre DEF Stranded

LEMMA AvailableAre ==
  ASSUME NEW seats \in SUBSET Row, SeatsAvailable(seats)
  PROVE  \A x \in rows : x.seat \notin seats
  BY DEF SeatsAvailable, Status

\* What inserting a booking's seats, and deleting them, does to the seats of
\* all bookings.
LEMMA SeatsAfterInsert ==
  ASSUME GroupTypeOK, NEW r \in Buyer, rows' = rows \cup Inserted(r)
  PROVE  /\ Seat(r)' = Seat(r) \cup wants[r]
         /\ \A q \in Buyer : q # r => Seat(q)' = Seat(q)
         /\ rows' \subseteq [booking : Buyer, seat : Row]
         /\ Occupied(rows', {}) = Occupied(rows, wants[r])
  <1>1. wants[r] \in SUBSET Row
    BY DEF GroupTypeOK
  <1>2. \A x : x \in Inserted(r) <=> \E n \in wants[r] : x = [booking |-> r, seat |-> n]
    BY DEF Inserted, RowsOf
  <1>3. Seat(r)' = Seat(r) \cup wants[r]
    <2>1. ASSUME NEW n \in wants[r] PROVE \E x \in rows' : x.booking = r /\ x.seat = n
      <3>1. [booking |-> r, seat |-> n] \in rows'
        BY <1>2
      <3> QED
        BY <3>1
    <2>2. \A x \in rows' : x \in rows \/ (x.booking = r /\ x.seat \in wants[r])
      BY <1>2
    <2>3. \A x \in rows : x \in rows'
      OBVIOUS
    <2>4. \A n : n \in Seat(r)' <=> \E x \in rows' : x.booking = r /\ x.seat = n
      BY DEF Seat
    <2>5. \A n : n \in Seat(r) <=> \E x \in rows : x.booking = r /\ x.seat = n
      BY DEF Seat
    <2> QED
      BY <2>1, <2>2, <2>3, <2>4, <2>5
  <1>4. \A q \in Buyer : q # r => Seat(q)' = Seat(q)
    BY <1>2 DEF Seat
  <1>5. rows' \subseteq [booking : Buyer, seat : Row]
    BY <1>1, <1>2 DEF GroupTypeOK
  <1>6. Occupied(rows', {}) = Occupied(rows, wants[r])
    <2>1. \A n \in wants[r] : \E x \in rows' : x.seat = n
      <3>1. ASSUME NEW n \in wants[r] PROVE [booking |-> r, seat |-> n] \in rows'
        BY <1>2
      <3> QED
        BY <3>1
    <2>2. \A x \in rows' : x \in rows \/ x.seat \in wants[r]
      BY <1>2
    <2>3. \A x \in rows : x \in rows'
      OBVIOUS
    <2> QED
      BY <2>1, <2>2, <2>3 DEF Occupied
  <1> QED
    BY <1>3, <1>4, <1>5, <1>6

LEMMA SeatsAfterRelease ==
  ASSUME GroupTypeOK, NEW r \in Buyer, rows' = {x \in rows : x.booking # r}
  PROVE  Seat(r)' = {} /\ \A q \in Buyer : q # r => Seat(q)' = Seat(q)
  BY DEF Seat

---------------------------------------------------------------------------
(* The invariant.                                                          *)

\* At the start there are no bookings.
LEMMA GroupInitInv == ASSUME GroupInit PROVE GroupInv
  <1>1. \A r \in Buyer : st[r] = "idle" /\ Seat(r) = {}
    BY DEF GroupInit, Seat
  <1>2. GroupTypeOK
    BY DEF GroupInit, GroupTypeOK
  <1> QED
    BY <1>1, <1>2 DEF GroupInv, Whole, Halfway, Seen, WindowsApart

Stages == {"idle", "checked", "inserted", "refused", "pending", "cancelled"}

\* What a step of one request leaves of the others, and of the configuration.
Moves(r, to) ==
  /\ st' \in [Buyer -> Stages] /\ st'[r] = to /\ \A q \in Buyer : q # r => st'[q] = st[q]
  /\ config' = config

LEMMA GroupMoved ==
  ASSUME GroupTypeOK, NEW r \in Buyer, NEW to \in Stages, st' = [st EXCEPT ![r] = to], config' = config
  PROVE  Moves(r, to)
  BY DEF GroupTypeOK, Stages, Moves

\* A step that touches no row, and after which the request may not claim more
\* than before: it gives up, or goes on without its seats.
LEMMA KeepsRows ==
  ASSUME GroupInv, NEW r \in Buyer, NEW to \in Stages, Moves(r, to),
         UNCHANGED <<wants, rows, late>>,
         st[r] \in {"checked", "inserted"},
         to \in {"refused", "inserted", "pending"},
         to # "refused" => config.mode = "naive"
  PROVE  GroupInv'
  <1>1. GroupTypeOK /\ Whole /\ Halfway /\ Seen /\ WindowsApart
    BY DEF GroupInv
  <1>2. st'[r] = to /\ config' = config /\ \A q \in Buyer : q # r => st'[q] = st[q]
    BY DEF Moves
  <1>3. \A q \in Buyer : Seat(q)' = Seat(q)
    BY DEF Seat
  <1>4. \A seats : /\ SeatsAvailable(seats)' = SeatsAvailable(seats)
                   /\ Strands(seats)' = Strands(seats)
    BY <1>2 DEF SeatsAvailable, Strands, Status
  <1>5. GroupTypeOK'
    BY <1>1, <1>2 DEF GroupTypeOK, Moves, Stages
  <1>6. Whole'
    BY <1>1, <1>2, <1>3 DEF Whole
  <1>7. Halfway'
    BY <1>1, <1>2 DEF Halfway
  <1>8. Seen'
    BY <1>1, <1>2, <1>4 DEF Seen
  <1>9. WindowsApart'
    BY <1>1, <1>2, <1>3 DEF WindowsApart
  <1> QED
    BY <1>5, <1>6, <1>7, <1>8, <1>9 DEF GroupInv

\* A request looks: it trusts what it saw.
LEMMA CheckInv ==
  ASSUME GroupInv, NEW r \in Buyer, NEW seats \in SUBSET Row, Check(r, seats)
  PROVE  GroupInv'
  <1> DEFINE to == IF SeatsAvailable(seats) /\ ~Strands(seats) THEN "checked" ELSE "refused"
  <1>1. GroupTypeOK /\ Whole /\ Halfway /\ Seen /\ WindowsApart
    BY DEF GroupInv
  <1>2. Moves(r, to)
    BY <1>1, GroupMoved DEF Check, Stages
  <1>3. st'[r] = to /\ config' = config /\ \A q \in Buyer : q # r => st'[q] = st[q]
    BY <1>2 DEF Moves
  <1>4. /\ wants' \in [Buyer -> SUBSET Row] /\ wants'[r] = seats
        /\ \A q \in Buyer : q # r => wants'[q] = wants[q]
        /\ late' \in [Buyer -> BOOLEAN] /\ late'[r] = FALSE
        /\ \A q \in Buyer : q # r => late'[q] = late[q]
        /\ rows' = rows
    BY <1>1 DEF Check, GroupTypeOK
  <1>5. \A q \in Buyer : Seat(q)' = Seat(q)
    BY <1>4 DEF Seat
  <1>6. \A x : SeatsAvailable(x)' = SeatsAvailable(x) /\ Strands(x)' = Strands(x)
    BY <1>3, <1>4 DEF SeatsAvailable, Strands, Status
  <1>7. Seat(r) = {}
    BY <1>1 DEF Whole, Check
  <1>8. GroupTypeOK'
    BY <1>1, <1>2, <1>3, <1>4 DEF GroupTypeOK, Moves, Stages
  <1>9. Whole'
    BY <1>1, <1>3, <1>4, <1>5, <1>7 DEF Whole
  <1>10. Halfway'
    BY <1>1, <1>3 DEF Halfway
  <1>11. Seen'
    BY <1>1, <1>3, <1>4, <1>6 DEF Seen
  <1>12. WindowsApart'
    BY <1>1, <1>3, <1>4, <1>5, <1>7 DEF WindowsApart
  <1> QED
    BY <1>8, <1>9, <1>10, <1>11, <1>12 DEF GroupInv

\* Everybody who has looked and not yet inserted is late afterwards.
LEMMA OvertakenAre ==
  ASSUME GroupTypeOK, NEW r \in Buyer, Overtaken(r)
  PROVE  /\ late' \in [Buyer -> BOOLEAN] /\ late'[r] = late[r]
         /\ \A q \in Buyer : late[q] => late'[q]
         /\ \A q \in Buyer : q # r /\ st[q] \in {"checked", "inserted"} => late'[q]
  BY DEF GroupTypeOK, Overtaken

\* The seats of a booking go in: nobody else's without the constraint, and
\* only somebody late meets them there.
LEMMA InsertInv ==
  ASSUME GroupInv, NEW r \in Buyer, Moves(r, "pending"), wants' = wants,
         st[r] \in {"checked", "inserted"}, ~Conflicts(r),
         rows' = rows \cup Inserted(r), Overtaken(r)
  PROVE  GroupInv'
  <1>1. GroupTypeOK /\ Whole /\ Halfway /\ Seen /\ WindowsApart
    BY DEF GroupInv
  <1>2. st'[r] = "pending" /\ config' = config /\ \A q \in Buyer : q # r => st'[q] = st[q]
    BY DEF Moves
  <1>3. /\ Seat(r)' = Seat(r) \cup wants[r]
        /\ \A q \in Buyer : q # r => Seat(q)' = Seat(q)
        /\ rows' \subseteq [booking : Buyer, seat : Row]
    BY <1>1, SeatsAfterInsert
  <1>4. /\ late' \in [Buyer -> BOOLEAN] /\ late'[r] = late[r]
        /\ \A q \in Buyer : late[q] => late'[q]
        /\ \A q \in Buyer : q # r /\ st[q] \in {"checked", "inserted"} => late'[q]
    BY <1>1, OvertakenAre
  <1>5. Seat(r) = {} /\ Seat(r)' = wants[r] /\ wants[r] \in SUBSET Row
    BY <1>1, <1>3 DEF Whole, GroupTypeOK
  <1>6. GroupTypeOK'
    BY <1>1, <1>2, <1>3, <1>4 DEF GroupTypeOK, Moves, Stages
  <1>7. Whole'
    BY <1>1, <1>2, <1>3, <1>5 DEF Whole
  <1>8. Halfway'
    BY <1>1, <1>2 DEF Halfway
  <1>9. Seen'
    BY <1>2, <1>4 DEF Seen
  <1>10. ASSUME NEW q \in Buyer, q # r, wants[r] \cap Seat(q) # {}
         PROVE  ~config.unique /\ late[r]
    <2>1. \E x \in rows : x.seat \in wants[r]
      BY <1>10 DEF Seat
    <2>2. ~config.unique
      BY <2>1 DEF Conflicts
    <2>3. ~SeatsAvailable(wants[r])
      BY <2>1, <1>5, AvailableAre
    <2> QED
      BY <2>2, <2>3, <1>1 DEF Seen
  <1>11. WindowsApart'
    <2>1. ASSUME NEW p \in Buyer, NEW q \in Buyer \ {p}, Seat(p)' \cap Seat(q)' # {}
          PROVE  ~config'.unique /\ (late'[p] \/ late'[q])
      <3>1. CASE p = r
        BY <2>1, <3>1, <1>2, <1>3, <1>4, <1>5, <1>10
      <3>2. CASE q = r
        BY <2>1, <3>2, <1>2, <1>3, <1>4, <1>5, <1>10
      <3>3. CASE p # r /\ q # r
        BY <2>1, <3>3, <1>1, <1>2, <1>3, <1>4 DEF WindowsApart
      <3> QED
        BY <3>1, <3>2, <3>3
    <2> QED
      BY <2>1 DEF WindowsApart
  <1> QED
    BY <1>6, <1>7, <1>8, <1>9, <1>11 DEF GroupInv

\* The rows of a booking go.
LEMMA ReleaseInv == ASSUME GroupInv, NEW r \in Buyer, Release(r) PROVE GroupInv'
  <1>1. GroupTypeOK /\ Whole /\ Halfway /\ Seen /\ WindowsApart
    BY DEF GroupInv
  <1>2. /\ st' \in [Buyer -> Stages] /\ st'[r] = "cancelled" /\ config' = config
        /\ \A q \in Buyer : q # r => st'[q] = st[q]
    BY <1>1, GroupMoved DEF Release, Stages, Moves
  <1>3. Seat(r)' = {} /\ \A q \in Buyer : q # r => Seat(q)' = Seat(q)
    BY <1>1, SeatsAfterRelease DEF Release
  <1>4. /\ late' \in [Buyer -> BOOLEAN] /\ late'[r] = late[r]
        /\ \A q \in Buyer : late[q] => late'[q]
        /\ \A q \in Buyer : q # r /\ st[q] \in {"checked", "inserted"} => late'[q]
    BY <1>1, OvertakenAre DEF Release
  <1>5. wants' = wants /\ rows' \subseteq rows
    BY DEF Release
  <1>6. GroupTypeOK'
    BY <1>1, <1>2, <1>4, <1>5 DEF GroupTypeOK, Stages
  <1>7. Whole'
    BY <1>1, <1>2, <1>3, <1>5 DEF Whole
  <1>8. Halfway'
    BY <1>1, <1>2 DEF Halfway
  <1>9. Seen'
    BY <1>2, <1>4 DEF Seen
  <1>10. WindowsApart'
    BY <1>1, <1>2, <1>3, <1>4 DEF WindowsApart
  <1> QED
    BY <1>6, <1>7, <1>8, <1>9, <1>10 DEF GroupInv

\* An insertion, on either path: it goes through or it conflicts.
LEMMA SeatsInv ==
  ASSUME GroupInv, NEW r \in Buyer, BookSafely(r) \/ BookNaively(r) \/ SeatNaively(r) \/ Crash(r)
  PROVE  GroupInv'
  <1>1. GroupTypeOK /\ Halfway
    BY DEF GroupInv
  <1>2. CASE BookSafely(r)
    <2>1. CASE Conflicts(r)
      BY <1>1, <1>2, <2>1, GroupMoved, KeepsRows DEF BookSafely, Stages
    <2>2. CASE ~Conflicts(r)
      BY <1>1, <1>2, <2>2, GroupMoved, InsertInv DEF BookSafely, Stages
    <2> QED
      BY <2>1, <2>2
  <1>3. CASE BookNaively(r)
    BY <1>1, <1>3, GroupMoved, KeepsRows DEF BookNaively, Stages
  <1>4. CASE SeatNaively(r)
    <2>1. Moves(r, "pending") /\ wants' = wants /\ st[r] = "inserted" /\ config.mode = "naive"
      BY <1>1, <1>4, GroupMoved DEF SeatNaively, Stages, Halfway
    <2>2. CASE Conflicts(r)
      BY <1>4, <2>1, <2>2, KeepsRows DEF SeatNaively, Stages
    <2>3. CASE ~Conflicts(r)
      BY <1>4, <2>1, <2>3, InsertInv DEF SeatNaively
    <2> QED
      BY <2>2, <2>3
  <1>5. CASE Crash(r)
    <2> DEFINE to == IF st[r] = "inserted" THEN "pending" ELSE "refused"
    <2>1. st' = [st EXCEPT ![r] = to] /\ config' = config /\ to \in Stages
      BY <1>5 DEF Crash, Stages
    <2>2. Moves(r, to)
      BY <1>1, <2>1, GroupMoved
    <2>3. to # "refused" => config.mode = "naive"
      BY <1>1 DEF Halfway
    <2>4. to \in {"refused", "inserted", "pending"}
      OBVIOUS
    <2>5. st[r] \in {"checked", "inserted"} /\ UNCHANGED <<wants, rows, late>>
      BY <1>5 DEF Crash
    <2> QED
      BY <2>1, <2>2, <2>3, <2>4, <2>5, KeepsRows
  <1> QED
    BY <1>2, <1>3, <1>4, <1>5

\* Every step keeps the invariant.
LEMMA GroupStepInv == ASSUME GroupInv, [GroupNext]_groupVars PROVE GroupInv'
  <1>1. CASE UNCHANGED groupVars
    <2>1. config' = config /\ wants' = wants /\ st' = st /\ rows' = rows /\ late' = late
      BY <1>1 DEF groupVars
    <2>2. /\ \A r \in Buyer : Seat(r)' = Seat(r)
          /\ \A x : SeatsAvailable(x)' = SeatsAvailable(x) /\ Strands(x)' = Strands(x)
      BY <2>1 DEF Seat, SeatsAvailable, Strands, Status
    <2> QED
      BY <2>1, <2>2 DEF GroupInv, GroupTypeOK, Whole, Halfway, Seen, WindowsApart
  <1>2. ASSUME NEW r \in Buyer, NEW seats \in Selections, Check(r, seats) PROVE GroupInv'
    BY <1>2, CheckInv DEF Selections
  <1> QED
    BY <1>1, <1>2, SeatsInv, ReleaseInv DEF GroupNext

\* The invariant holds throughout.
THEOREM GroupInvariance == GroupSpec => []GroupInv
  BY GroupInitInv, GroupStepInv, PTL DEF GroupSpec

\* Rows, bookings and the stages of createBooking keep their types.
THEOREM GroupTypeCorrect == GroupSpec => []GroupTypeOK
  <1>1. GroupInv => GroupTypeOK
    BY DEF GroupInv
  <1> QED
    BY <1>1, GroupInvariance, PTL

\* A booking has all its seats or, on the naive path, possibly none; two share
\* a seat only without the constraint and where one overtook the other.
THEOREM BookingsAreWhole == GroupSpec => []NoHalfBooking
  <1>1. GroupInv => NoHalfBooking
    BY DEF GroupInv, Whole, WindowsApart, NoHalfBooking
  <1> QED
    BY <1>1, GroupInvariance, PTL

\* With the rule on, a booking strands a seat only if it was overtaken between
\* its check and its insertion.
THEOREM RuleHoldsUnlessOvertaken == GroupSpec => StrandsOnlyWhenOvertaken
  <1> DEFINE Spares == \A r \in Buyer :
                (config.rule /\ st'[r] = "pending" /\ st[r] # "pending" /\ ~late[r])
                  => Stranded' \subseteq Stranded
  <1>1. ASSUME GroupInv, GroupNext, NEW r \in Buyer,
               config.rule, st'[r] = "pending", st[r] # "pending", ~late[r]
        PROVE  Stranded' \subseteq Stranded
    <2>1. GroupTypeOK
      BY <1>1 DEF GroupInv
    <2>2. BookSafely(r) \/ SeatNaively(r) \/ Crash(r)
      BY <1>1, <2>1 DEF GroupNext, GroupTypeOK, Check, BookSafely, BookNaively, SeatNaively,
                        Crash, Release
    <2>3. CASE rows' = rows
      BY <2>3 DEF Stranded, Status
    <2>4. CASE rows' # rows
      <3>1. rows' = rows \cup Inserted(r) /\ st[r] \in {"checked", "inserted"}
        BY <2>2, <2>4 DEF BookSafely, SeatNaively, Crash
      <3>2. wants[r] \in SUBSET Row /\ ~Strands(wants[r])
        BY <1>1, <2>1, <3>1 DEF GroupInv, Seen, GroupTypeOK
      <3>3. OrphansIn(Occupied(rows, wants[r])) \subseteq Stranded
        BY <1>1, <3>2, StrandsNothing
      <3>4. Stranded' = OrphansIn(Occupied(rows', {}))
        <4>1. FindOrphanSeats(Status(rows'), {1} \X {}) = OrphansIn(Occupied(rows', {}))
          BY OrphansAre
        <4>2. {1} \X {} = {}
          OBVIOUS
        <4> QED
          BY <4>1, <4>2 DEF Stranded
      <3>5. Occupied(rows', {}) = Occupied(rows, wants[r])
        BY <2>1, <3>1, SeatsAfterInsert
      <3> QED
        BY <3>3, <3>4, <3>5
    <2> QED
      BY <2>3, <2>4
  <1>2. GroupInv /\ [GroupNext]_groupVars => [Spares]_groupVars
    BY <1>1
  <1> QED
    BY <1>2, GroupInvariance, PTL DEF GroupSpec, StrandsOnlyWhenOvertaken

-----------------------------------------------------------------------------
(* Theorems of BookingLifetime, for every pair of lifetimes the server      *)
(* starts with.                                                            *)

\* A hold is one lifetime long, counted from when it was last taken.
HoldRuns == holder # NoCustomer => moment < runsOut /\ runsOut = takenAt + HoldTtl

\* Only a booking has an owner, and a candidate was too old when it was chosen:
\* by now it is older still.
BookingAge ==
  /\ booking.state # "none" => booking.by \in Customer
  /\ booking.candidate => TooOld

LifetimeInv == LifetimeTypeOK /\ HoldRuns /\ BookingAge

\* The inductive invariant gives the property: the hold of a booking's owner is
\* younger than a hold's lifetime, the booking is older than a booking's.
LEMMA OldBookingYoungHold ==
  ASSUME LifetimeInv PROVE HoldsOfItsTimeAreOver
  <1> SUFFICES ASSUME MayExpire, holder = booking.by
               PROVE takenAt > booking.createdAt + (PendingTtl - HoldTtl)
    BY DEF HoldsOfItsTimeAreOver
  <1>1. holder # NoCustomer
    BY LifetimeAssumption DEF LifetimeInv, BookingAge, MayExpire
  <1>2. moment < takenAt + HoldTtl
    BY <1>1 DEF LifetimeInv, HoldRuns
  <1>3. booking.createdAt + PendingTtl < moment
    BY DEF LifetimeInv, BookingAge, MayExpire, TooOld
  <1>4. {moment, takenAt, booking.createdAt} \subseteq Nat
    BY DEF LifetimeInv, LifetimeTypeOK
  <1> QED
    BY <1>2, <1>3, <1>4, LifetimeAssumption

\* At the start there is neither hold nor booking.
LEMMA LifetimeInitInv ==
  ASSUME LifetimeInit PROVE LifetimeInv
  BY LifetimeAssumption
  DEF LifetimeInit, NoBooking, LifetimeInv, LifetimeTypeOK, HoldRuns, BookingAge

\* A step of the holds leaves the booking as it is.
LEMMA HoldStepInv ==
  ASSUME LifetimeInv, GiveUpHold \/ \E u \in Customer : TakeHold(u)
  PROVE  LifetimeInv'
  <1>1. UNCHANGED <<moment, booking>>
    BY DEF GiveUpHold, TakeHold
  <1>2. BookingAge'
    BY <1>1 DEF LifetimeInv, BookingAge, TooOld
  <1>3. CASE GiveUpHold
    BY <1>1, <1>2, <1>3 DEF GiveUpHold, LifetimeInv, LifetimeTypeOK, HoldRuns
  <1>4. CASE \E u \in Customer : TakeHold(u)
    <2>1. PICK u \in Customer : TakeHold(u)
      BY <1>4
    <2>2. moment < moment + HoldTtl /\ moment + HoldTtl \in Nat
      BY LifetimeAssumption DEF LifetimeInv, LifetimeTypeOK
    <2> QED
      BY <1>1, <1>2, <2>1, <2>2 DEF TakeHold, NewExpiry, LifetimeInv, LifetimeTypeOK, HoldRuns
  <1> QED
    BY <1>3, <1>4

\* A step of the booking leaves the hold and the clock as they are, and makes
\* a candidate only of a booking that is too old.
LEMMA BookingStepInv ==
  ASSUME LifetimeInv,
         \/ \E u \in Customer : StartBooking(u)
         \/ EndBooking \/ Choose \/ Expire \/ Pay \/ CancelByOwner
  PROVE  LifetimeInv'
  <1>1. UNCHANGED <<moment, holder, runsOut, takenAt>>
    BY DEF StartBooking, EndBooking, Choose, Expire, Pay, CancelByOwner
  <1>2. HoldRuns'
    BY <1>1 DEF LifetimeInv, HoldRuns
  <1> DEFINE Booking == [by : Customer \cup {NoCustomer},
                         state : {"none", "open", "pending", "paid"},
                         createdAt : Nat, candidate : BOOLEAN]
  <1>3. booking \in Booking /\ moment \in Nat
    BY DEF LifetimeInv, LifetimeTypeOK
  <1>4. booking' \in Booking /\ BookingAge'
    <2>1. CASE \E u \in Customer : StartBooking(u)
      BY <1>3, <2>1 DEF StartBooking, BookingAge
    <2>2. CASE booking' = NoBooking
      BY <2>2 DEF NoBooking, BookingAge
    <2>3. CASE \/ booking.state = "open" /\ booking' = [booking EXCEPT !.state = "pending"]
               \/ booking.state = "pending" /\ booking' = Paid
      <3>1. /\ booking' \in Booking
            /\ booking'.by = booking.by /\ booking'.createdAt = booking.createdAt
            /\ booking'.candidate = booking.candidate /\ booking.state # "none"
        BY <1>3, <2>3 DEF Paid
      <3> QED
        BY <1>1, <3>1 DEF LifetimeInv, BookingAge, TooOld
    <2>4. CASE Choose
      <3>1. /\ booking' \in Booking
            /\ booking'.by = booking.by /\ booking'.createdAt = booking.createdAt
            /\ booking.state # "none" /\ TooOld
        BY <1>3, <2>4 DEF Choose
      <3> QED
        BY <1>1, <3>1 DEF LifetimeInv, BookingAge, TooOld
    <2> QED
      BY <2>1, <2>2, <2>3, <2>4 DEF EndBooking, Expire, Pay, CancelByOwner
  <1> QED
    BY <1>1, <1>2, <1>4 DEF LifetimeInv, LifetimeTypeOK

\* Time ends a hold that has run out, and makes every booking older.
LEMMA SecondInv ==
  ASSUME LifetimeInv, Second PROVE LifetimeInv'
  <1>1. {moment, runsOut, takenAt, booking.createdAt} \subseteq Nat
    BY DEF LifetimeInv, LifetimeTypeOK
  <1>2. /\ moment' = moment + 1 /\ UNCHANGED <<runsOut, takenAt, booking>>
        /\ holder' = IF runsOut <= moment + 1 THEN NoCustomer ELSE holder
    BY DEF Second
  <1>3. HoldRuns'
    BY <1>1, <1>2 DEF LifetimeInv, HoldRuns
  <1>4. BookingAge'
    BY <1>1, <1>2, LifetimeAssumption DEF LifetimeInv, BookingAge, TooOld
  <1> QED
    BY <1>1, <1>2, <1>3, <1>4 DEF LifetimeInv, LifetimeTypeOK

LEMMA LifetimeInvariant == LifetimeSpec => []LifetimeInv
  <1>1. LifetimeInv /\ [LifetimeNext]_seatVars => LifetimeInv'
    <2> SUFFICES ASSUME LifetimeInv, [LifetimeNext]_seatVars PROVE LifetimeInv'
      OBVIOUS
    <2>1. CASE LifetimeNext
      BY <2>1, HoldStepInv, BookingStepInv, SecondInv DEF LifetimeNext
    <2>2. CASE UNCHANGED seatVars
      BY <2>2 DEF seatVars, LifetimeInv, LifetimeTypeOK, HoldRuns, BookingAge, TooOld
    <2> QED
      BY <2>1, <2>2
  <1> QED
    BY <1>1, LifetimeInitInv, PTL DEF LifetimeSpec

\* The key of the hold and the booking keep their types.
THEOREM LifetimeTypeCorrect == LifetimeSpec => []LifetimeTypeOK
  <1>1. LifetimeInv => LifetimeTypeOK
    BY DEF LifetimeInv
  <1> QED
    BY <1>1, LifetimeInvariant, PTL

\* For every two lifetimes that pass the check at start, a booking that a sweep
\* may expire has no hold left of the time it was made in.
THEOREM CheckAtStartSuffices == LifetimeSpec => []HoldsOfItsTimeAreOver
  BY OldBookingYoungHold, LifetimeInvariant, PTL
=============================================================================
