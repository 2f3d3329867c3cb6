--------------------------- MODULE HoldRateLimit ---------------------------
(***************************************************************************)
(* The limit on one user's hold requests (middleware/rateLimit.js): a      *)
(* counter in Redis that lives for one window.  The counting script is     *)
(* atomic; what can happen is time, and a script whose reply is lost.      *)
(*                                                                         *)
(* A tick is a quarter of a second, so that Redis's rounding of a time to  *)
(* live to whole seconds can be told.                                      *)
(***************************************************************************)
EXTENDS Integers, Sequences

CONSTANTS Limit, WindowSeconds,   \* HOLD_RATE_LIMIT, HOLD_RATE_WINDOW_SECONDS
          MaxTicks          \* bound: ticks

\* Either at zero turns the limiter off.
ASSUME LimitAssumption == {Limit, WindowSeconds} \subseteq Nat \ {0} /\ MaxTicks \in Nat

PerSecond == 4
WindowTicks == WindowSeconds * PerSecond

VARIABLES
  ticks,
  hits,      \* the counter; 0 when the key does not exist
  until,     \* when the key runs out
  passes,    \* history: when the counted requests were let through
  began,     \* history: the request that created the key
  retry      \* history: the last refusal, when and until when

redisKey == <<hits, until>>
limiterVars == <<ticks, redisKey, passes, began, retry>>

LimiterInit ==
  /\ ticks = 0 /\ hits = 0 /\ until = 0
  /\ passes = <<>> /\ began = 0 /\ retry = [left |-> 0, after |-> 0]

\* The script starts the window with the first request counted.
EveryTime(n) == TRUE
StartsWindow(n) == n = 1

\* COUNT_SCRIPT.
CountOne ==
  /\ hits' = hits + 1
  /\ until' = IF StartsWindow(hits + 1) THEN ticks + WindowTicks ELSE until
  /\ began' = IF hits = 0 THEN ticks ELSE began

\* TTL: milliseconds to seconds, to the nearest.
SecondsLeft == (until - ticks + PerSecond \div 2) \div PerSecond

\* A time to live of zero is taken for a lost one.
RetryAfter == IF SecondsLeft > 0 THEN SecondsLeft ELSE WindowSeconds

OneMore(n) == n <= Limit + 1
Within(n) == n <= Limit

LetThrough ==
  /\ Within(hits + 1)
  /\ CountOne
  /\ passes' = Append(passes, ticks)
  /\ UNCHANGED <<ticks, retry>>

\* Refused requests are counted too.
Refuse ==
  /\ ~Within(hits + 1)
  /\ hits <= Limit + 1      \* bound: counting further changes nothing
  /\ CountOne
  /\ retry' = [left |-> until - ticks, after |-> RetryAfter]
  /\ UNCHANGED <<ticks, passes>>

\* The reply is lost after the script ran: the request is let through.  A
\* request whose script never ran, or without Redis, leaves no trace.
LoseReply ==
  /\ hits <= Limit + 1
  /\ CountOne
  /\ UNCHANGED <<ticks, passes, retry>>

LimiterTick ==
  /\ ticks < MaxTicks
  /\ ticks' = ticks + 1
  /\ hits' = IF hits > 0 /\ until <= ticks + 1 THEN 0 ELSE hits
  /\ UNCHANGED <<until, passes, began, retry>>

LimiterNext == LetThrough \/ Refuse \/ LoseReply \/ LimiterTick

LimiterSpec == LimiterInit /\ [][LimiterNext]_limiterVars

---------------------------------------------------------------------------
(* Properties.                                                             *)

\* The counter and its expiry are what the script keeps.
LimiterTypeOK ==
  /\ ticks \in 0..MaxTicks /\ hits \in Nat /\ until \in Nat /\ began \in 0..ticks
  /\ passes \in Seq(Nat)
  /\ retry \in [left : Nat, after : Nat]

\* "The true worst case is 2x the limit" (rateLimit.js): no stretch of time
\* as long as a window sees more than twice the limit of counted requests let
\* through, wherever it begins.
TwiceTheLimit ==
  \A i, j \in 1..Len(passes) : j = i + 2 * Limit => passes[j] - passes[i] >= WindowTicks

\* "A key with no TTL is a user locked out permanently": the counter always
\* has an expiry, one window after the request that created it, however often
\* the user tries again.
NoLockout == hits > 0 => until = began + WindowTicks /\ ticks < until

\* Retry-After is the time to the end of the window, at most a quarter of a
\* second short and half a second long; only in the last half second of a
\* window it says a whole window instead.
RetryAfterHonest ==
  LET told == retry.after * PerSecond
  IN /\ told >= retry.left - 1
     /\ told <= retry.left + 2 \/ (retry.left < 2 /\ told = WindowTicks)

\* Waiting pays: who is refused is told when the window ends, and it ends then,
\* whatever is tried in the meantime.
WaitingIsEnough == RetryAfterHonest /\ NoLockout
=============================================================================
