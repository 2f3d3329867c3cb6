----------------------------- MODULE BestSeats -----------------------------
(***************************************************************************)
(* "Best N together" (recommend.js), for every screen sales can lead to:   *)
(* its loops over rows, seats and windows, an iteration a step.  A run is  *)
(* kept by its first and its last seat number, and a window by its first.  *)
(* Scores are exact; the program's are floating point, which may break a   *)
(* tie.                                                                    *)
(***************************************************************************)
EXTENDS Integers, Sequences, FiniteSets

CONSTANTS Rows,       \* the seat numbers of each row, front to back
          MaxCount,   \* bound: seats asked for
          Scale       \* a common multiple of the distances within a row

ASSUME BestAssumption ==
  /\ {MaxCount, Scale} \subseteq Nat \ {0}
  /\ Rows \in Seq(SUBSET Nat) /\ \A r \in 1..Len(Rows) : IsFiniteSet(Rows[r])
  /\ \A r \in 1..Len(Rows) : \A m, n \in Rows[r] : m < n => Scale % (n - m) = 0

VARIABLES seats, count,   \* the seat list, and how many together
          stage,          \* which loop the search is in
          row,            \* order.forEach: the row it is at
          todo,           \* runsIn: seats of the row it has still to look at
          runs,           \* the row's runs, where no window was tried yet
          best            \* the best window so far

bestVars == <<seats, count, stage, row, todo, runs, best>>

SeatNumbers == UNION {{<<r, n>> : n \in Rows[r]} : r \in 1..Len(Rows)}

\* selectableRows: what can be taken in a row, by seat number.
SelectableIn(r) == {n \in Rows[r] : seats[<<r, n>>] = "available"}
First(S) == CHOOSE n \in S : \A m \in S : n <= m
Last(S)  == CHOOSE n \in S : \A m \in S : m <= n

None == [row |-> 0, from |-> 0]
Abs(n) == IF n < 0 THEN -n ELSE n

\* scoreWindow: lower is better.  1.15 for the distance from 0.65 of the way
\* back, 1 for the distance from the middle of the seats that can be taken in
\* the row, each in [0, 1]; here times 10000 * Scale * (rows - 1).
Score(w) ==
  LET back == IF Len(Rows) > 1 THEN Len(Rows) - 1 ELSE 1
      depth == IF Len(Rows) <= 1 THEN 0 ELSE Abs(100 * (w.row - 1) - 65 * back)
      first == First(SelectableIn(w.row))  last == Last(SelectableIn(w.row))
      off == Abs(2 * w.from + count - 1 - first - last)
  IN 115 * depth * Scale
     + (IF first = last THEN 0 ELSE 10000 * back * off * (Scale \div (last - first)))

\* Strictly better only: the first one reached wins on a tie.
AsGood(a, b) == Score(a) <= Score(b)
Better(a, b) == Score(a) < Score(b)

BestInit ==
  /\ seats = [c \in SeatNumbers |-> "available"] /\ count \in 1..MaxCount
  /\ stage = "idle" /\ row = 0 /\ todo = {} /\ runs = {} /\ best = None

-----------------------------------------------------------------------------
(* The page between two searches.                                          *)

Resting == stage \in {"idle", "done"}
Rest == stage' = "idle" /\ row' = 0 /\ best' = None /\ UNCHANGED <<todo, runs>>

\* An update of the map: a seat is taken or comes back.
SeatChanges(c) ==
  /\ Resting /\ Rest
  /\ seats' = [seats EXCEPT ![c] = IF @ = "available" THEN "booked" ELSE "available"]
  /\ UNCHANGED count

\* Another size of group is chosen.
ChooseSize(n) == Resting /\ Rest /\ count' = n /\ UNCHANGED seats

-----------------------------------------------------------------------------
(* recommendSeats.                                                         *)

Search ==
  /\ stage = "idle"
  /\ stage' = "row" /\ row' = 1
  /\ UNCHANGED <<seats, count, todo, runs, best>>

\* A row with too few seats left is passed over.
SkipRow ==
  /\ stage = "row" /\ row <= Len(Rows)
  /\ Cardinality(SelectableIn(row)) < count
  /\ row' = row + 1
  /\ UNCHANGED <<seats, count, stage, todo, runs, best>>

EnterRow ==
  /\ stage = "row" /\ row <= Len(Rows)
  /\ Cardinality(SelectableIn(row)) >= count
  /\ stage' = "runs" /\ todo' = SelectableIn(row)
  /\ UNCHANGED <<seats, count, row, runs, best>>

\* runsIn: the next seat goes on with the run that ends beside it, or begins
\* one.
Extended(n) == {r \in runs : r.to + 1 = n}
ScanSeat ==
  /\ stage = "runs" /\ todo # {}
  /\ LET n == First(todo) IN
       /\ todo' = todo \ {n}
       /\ runs' = IF Extended(n) = {} THEN runs \cup {[from |-> n, to |-> n]}
                  ELSE (runs \ Extended(n)) \cup {[r EXCEPT !.to = n] : r \in Extended(n)}
  /\ UNCHANGED <<seats, count, stage, row, best>>

RunsFound ==
  /\ stage = "runs" /\ todo = {}
  /\ stage' = "windows"
  /\ UNCHANGED <<seats, count, row, todo, runs, best>>

\* The runs in seating order, and every window of the size asked for in each.
Nearest(run) == run \in runs /\ \A r \in runs : run.from <= r.from
Fits(run) == run.from + count <= run.to + 1

TryWindow ==
  /\ stage = "windows"
  /\ \E run \in runs :
       /\ Nearest(run) /\ Fits(run)
       /\ runs' = (runs \ {run}) \cup {[run EXCEPT !.from = @ + 1]}
       /\ LET w == [row |-> row, from |-> run.from]
          IN best' = IF best = None \/ Better(w, best) THEN w ELSE best
  /\ UNCHANGED <<seats, count, stage, row, todo>>

EndRun ==
  /\ stage = "windows"
  /\ \E run \in runs : Nearest(run) /\ ~Fits(run) /\ runs' = runs \ {run}
  /\ UNCHANGED <<seats, count, stage, row, todo, best>>

EndRow ==
  /\ stage = "windows" /\ runs = {}
  /\ stage' = "row" /\ row' = row + 1
  /\ UNCHANGED <<seats, count, todo, runs, best>>

Recommend ==
  /\ stage = "row" /\ row > Len(Rows)
  /\ stage' = "done"
  /\ UNCHANGED <<seats, count, row, todo, runs, best>>

BestNext ==
  \/ \E c \in SeatNumbers : SeatChanges(c)
  \/ \E n \in 1..MaxCount : ChooseSize(n)
  \/ Search \/ SkipRow \/ EnterRow \/ ScanSeat \/ RunsFound
  \/ TryWindow \/ EndRun \/ EndRow \/ Recommend

BestSpec == BestInit /\ [][BestNext]_bestVars

-----------------------------------------------------------------------------
(* Properties.                                                             *)

\* The seat list, the size asked for, and how far the search is.
BestTypeOK ==
  /\ seats \in [SeatNumbers -> {"available", "booked"}] /\ count \in 1..MaxCount
  /\ stage \in {"idle", "row", "runs", "windows", "done"} /\ row \in 0..Len(Rows) + 1
  /\ stage \in {"runs", "windows"} => row \in 1..Len(Rows) /\ todo \subseteq Rows[row]
  /\ \A r \in runs : r.from \in Nat /\ r.to \in Nat
  /\ best = None \/ <<best.row, best.from>> \in SeatNumbers

\* Seats together: consecutive, free, in one row.
Together == {t \in SeatNumbers : \A k \in 0..count - 1 : t[2] + k \in SelectableIn(t[1])}

\* A suggestion is made exactly when some row has the seats together; no other
\* such seats score better, and of equals it is the one nearest the front and
\* the lowest number, whatever gaps and taken seats lie between.
BestTogether ==
  stage = "done" =>
    IF Together = {} THEN best = None
    ELSE /\ <<best.row, best.from>> \in Together
         /\ \A t \in Together :
              LET w == [row |-> t[1], from |-> t[2]]
              IN \/ Score(best) < Score(w)
                 \/ /\ Score(best) = Score(w)
                    /\ best.row < w.row \/ (best.row = w.row /\ best.from <= w.from)
=============================================================================
