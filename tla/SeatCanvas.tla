----------------------------- MODULE SeatCanvas -----------------------------
(***************************************************************************)
(* The canvas renderer of the seat map (SeatCanvas.jsx) with its geometry  *)
(* (geometry.js) and transform (viewport.js): pointers, wheel, buttons and *)
(* keyboard on one side, one animation frame at a time on the other.       *)
(*                                                                         *)
(* One axis: the other obeys the same formulas, and a row is picked        *)
(* directly.  Lengths are whole numbers and zoom comes in steps: a scale s *)
(* is s/2 screen units per world unit, and a division is rounded down.     *)
(***************************************************************************)
EXTENDS Integers, Sequences, FiniteSets, FiniteSetsExt

CONSTANTS Layout,        \* the seat numbers of each row, front to back
          AislesAfter,   \* layout.aislesAfterColumn
          Seats,         \* the cells that have a seat behind them
          SeatSize, SeatGap, AisleWidth, RowLabelWidth, RevealMargin, DragThreshold,
          Scales,        \* MIN_SCALE..MAX_SCALE, in halves
          Widths,        \* widths the element may have
          Points,        \* where a pointer may be on the screen
          Pointer,       \* fingers
          MaxSelected,   \* the six-seat ceiling
          MaxReloads,    \* bound: loads of the map
          NoCell, NoPress

\* A plan has a row, and a row a seat.
ASSUME CanvasAssumption ==
  /\ Layout \in Seq(Seq(Nat) \ {<<>>}) \ {<<>>}
  /\ {SeatSize, SeatGap, AisleWidth, RowLabelWidth, RevealMargin, DragThreshold, MaxReloads} \subseteq Nat
  /\ Scales \cup Widths \subseteq Nat \ {0} /\ 2 \in Scales /\ IsFiniteSet(Scales)
  /\ Points \subseteq Int

VARIABLES
  width,     \* sizeRef
  view,      \* viewRef
  plan,      \* which geometry: a load of the map makes a new one
  hover, cursor,   \* hoverRef and cursorRef: a cell, and the geometry it is of
  press,     \* pressRef
  raf,       \* frameRef, and whether the browser has that frame pending
  taken, selected, \* props: seats that are not available, seats selected
  stale,     \* history: what is on the screen is not what should be
  down       \* fingers on the glass; history: where from, how far, and whether alone

viewing  == <<width, view>>
pointing == <<hover, cursor, press>>
props    == <<taken, selected>>
vars == <<viewing, plan, pointing, raf, props, stale, down>>

---------------------------------------------------------------------------
(* geometry.js                                                             *)

Cells == UNION {{<<r, k>> : k \in 1..Len(Layout[r])} : r \in 1..Len(Layout)}

\* Aisles a seat has on its left: one after each seat number that says so.
AislesBefore(c) == Cardinality({k \in 1..c[2] - 1 : Layout[c[1]][k] \in AislesAfter})

\* Every layout coordinate takes its place, seat or not.
Lefts == [c \in Cells |-> RowLabelWidth + SeatGap + (c[2] - 1) * (SeatSize + SeatGap)
                          + AislesBefore(c) * (AisleWidth + SeatGap)]
Left(c) == Lefts[c]
Right(c) == Lefts[c] + SeatSize

\* What follows a row's last seat: an aisle, if its number says so.
Trailing(c) == IF Layout[c[1]][c[2]] \in AislesAfter THEN AisleWidth + SeatGap ELSE 0

BoundsWidth == Max({RowLabelWidth} \cup {Right(c) + Trailing(c) : c \in Cells})

---------------------------------------------------------------------------
(* viewport.js                                                             *)

Content(scale) == (BoundsWidth * scale) \div 2

Larger(a, b)  == IF a > b THEN a ELSE b
Smaller(a, b) == IF a < b THEN a ELSE b

\* Smaller than the viewport: centred.  Larger: no edge inside the screen.
CentreWithin(v, w) ==
  [v EXCEPT !.tx = IF Content(v.scale) <= w THEN (w - Content(v.scale)) \div 2
                   ELSE Smaller(0, Larger(w - Content(v.scale), @))]

\* clampScale, to the steps there are.
ClampScale(s) == IF s \in Scales THEN s ELSE IF s > Max(Scales) THEN Max(Scales) ELSE Min(Scales)

\* The whole plan, never enlarged past 1:1 and never below the smallest scale.
FitToBounds(w) ==
  LET fits == {s \in Scales : s <= 2 /\ Content(s) <= w}
  IN CentreWithin([scale |-> IF fits = {} THEN Min(Scales) ELSE Max(fits), tx |-> 0], w)

\* The point under the cursor stays where it is.
ZoomAt(v, x, s) == [scale |-> s, tx |-> x - ((x - v.tx) * s) \div v.scale]

WorldToScreen(v, x) == (x * v.scale) \div 2 + v.tx

Pan(v, dx) == [v EXCEPT !.tx = @ + dx]

\* Cells that are on the screen.
Visible(v, w) == {c \in Cells : WorldToScreen(v, Right(c)) >= 0 /\ WorldToScreen(v, Left(c)) <= w}

---------------------------------------------------------------------------
(* What is drawn.                                                          *)

Selectable(c) == c \in Seats \ taken
LimitReached == Cardinality(selected) >= MaxSelected

\* A hovered seat is outlined only if it can be taken; at the ceiling the
\* others are dimmed; a coordinate without a seat is left empty.
Look(c) == [free |-> Selectable(c), selected |-> c \in selected,
            hovered |-> hover # NoCell /\ hover.cell = c /\ Selectable(c),
            dimmed |-> Selectable(c) /\ c \notin selected /\ LimitReached]

Picture == [view |-> view, width |-> width,
            looks |-> [c \in Visible(view, width) \cap Seats |-> Look(c)]]

\* The map is to be painted again: one frame, however often it is asked for.
Schedule == raf' = IF raf.id THEN raf ELSE [id |-> TRUE, pending |-> TRUE]

\* A repaint is owed whenever the picture changed.
Owes == stale' = (stale \/ Picture' # Picture)

Draw ==
  /\ raf.pending
  /\ raf' = [id |-> FALSE, pending |-> FALSE]
  /\ stale' = FALSE
  /\ UNCHANGED <<viewing, plan, pointing, props, down>>

---------------------------------------------------------------------------
(* Mounting, sizing, new props.                                            *)

\* Of a finger that is not alone nothing more is told.
NoFinger == [from |-> 0, down |-> FALSE, far |-> FALSE, alone |-> TRUE]
OneOfMany == [from |-> 0, down |-> TRUE, far |-> FALSE, alone |-> FALSE]

\* Mounting ends with a sizing pass, which fits the plan and asks for a frame.
Init ==
  /\ width \in Widths /\ view = FitToBounds(width) /\ plan = 0
  /\ hover = NoCell /\ cursor = NoCell /\ press = NoPress
  /\ raf = [id |-> TRUE, pending |-> TRUE]
  /\ taken = {} /\ selected = {}
  /\ stale = TRUE
  /\ down = [f \in Pointer |-> NoFinger]

\* Later sizing passes keep the zoom and the plan reachable.
Resize(w) ==
  /\ width' = w /\ view' = CentreWithin(view, w)
  /\ Schedule
  /\ UNCHANGED <<plan, pointing, props, down>>
  /\ Owes

\* A load of the map brings a layout object of its own: the geometry is built
\* again, its cells are new objects, and the plan is fitted as on the first
\* day, whatever zoom the visitor chose.
Reload ==
  /\ plan < MaxReloads
  /\ plan' = plan + 1 /\ view' = FitToBounds(width)
  /\ Schedule
  /\ UNCHANGED <<width, pointing, props, down>>
  /\ Owes

\* The page renders: a seat is taken or comes back, the selection changes.
Commit(c) ==
  /\ c \in Seats
  /\ \/ /\ taken' = IF c \in taken THEN taken \ {c} ELSE taken \cup {c}
        /\ UNCHANGED selected
     \/ /\ c \in selected \/ ~LimitReached
        /\ selected' = IF c \in selected THEN selected \ {c} ELSE selected \cup {c}
        /\ UNCHANGED taken
  /\ Schedule
  /\ UNCHANGED <<viewing, plan, pointing, down>>
  /\ Owes

\* Cancelling the frame on unmount also forgets it.
OnlyCancelled == [id |-> raf.id, pending |-> FALSE]
Cancelled == [id |-> FALSE, pending |-> FALSE]

\* StrictMode unmounts and mounts again, keeping the refs.
Remount ==
  /\ raf' = IF Cancelled.id THEN Cancelled ELSE [id |-> TRUE, pending |-> TRUE]
  /\ view' = FitToBounds(width)
  /\ UNCHANGED <<width, plan, pointing, props, down>>
  /\ Owes

---------------------------------------------------------------------------
(* Pointers.                                                               *)

CellAt(r, x) ==
  LET hit == {c \in Cells : c[1] = r /\ WorldToScreen(view, Left(c)) <= x
                                    /\ x < WorldToScreen(view, Right(c))}
  IN IF hit = {} THEN NoCell ELSE [cell |-> CHOOSE c \in hit : TRUE, plan |-> plan]

SameCell(a, b) == (a = NoCell /\ b = NoCell) \/ (a # NoCell /\ b # NoCell /\ a.cell = b.cell)

Distance(a, b) == IF a > b THEN a - b ELSE b - a

\* Two fingers share one press: the second one down takes it over.
PointerDown(f, x) ==
  /\ ~down[f].down
  /\ press' = [x |-> x, moved |-> FALSE]
  /\ down' = IF \E g \in Pointer : down[g].down
             THEN [g \in Pointer |-> IF g = f \/ down[g].down THEN OneOfMany ELSE NoFinger]
             ELSE [down EXCEPT ![f] = [NoFinger EXCEPT !.from = x, !.down = TRUE]]
  /\ UNCHANGED <<viewing, plan, hover, cursor, raf, props, stale>>

\* Where the press is measured from: where it began, until it is a drag.
Forgetful(x) == [x |-> IF Distance(x, press.x) > DragThreshold THEN x ELSE press.x,
                 moved |-> Distance(x, press.x) > DragThreshold]
Pressed(x) == IF press.moved \/ Distance(x, press.x) > DragThreshold
              THEN [x |-> x, moved |-> TRUE] ELSE press

Travelled(f, x) ==
  [down EXCEPT ![f].far = @ \/ (down[f].alone /\ Distance(x, down[f].from) > DragThreshold)]

\* A drag pans the plan.
Unclamped(x) == Pan(view, x - press.x)
Dragged(x) == CentreWithin(Pan(view, x - press.x), width)

Drag(f, x) ==
  /\ down[f].down /\ press # NoPress /\ Pressed(x).moved
  /\ view' = Dragged(x)
  /\ press' = Pressed(x)
  /\ down' = Travelled(f, x)
  /\ Schedule
  /\ UNCHANGED <<width, plan, hover, cursor, props>>
  /\ Owes

\* Otherwise the pointer hovers; only another cell is worth a repaint.
Hover(r, x) ==
  /\ press # NoPress => ~Pressed(x).moved
  /\ IF SameCell(hover, CellAt(r, x)) THEN UNCHANGED <<hover, raf>>
     ELSE hover' = CellAt(r, x) /\ Schedule
  /\ press' = IF press = NoPress THEN press ELSE Pressed(x)
  /\ UNCHANGED <<viewing, plan, cursor, props>>
  /\ Owes

HoverFinger(f, r, x) == down[f].down /\ Hover(r, x) /\ down' = Travelled(f, x)

\* A mouse without a button hovers too.
HoverMouse(r, x) == press = NoPress /\ Hover(r, x) /\ UNCHANGED down

\* A press that was no drag asks for the seat under it; Enter and Space ask
\* for the one under the cursor on the same condition.
Asks(r, x) == /\ press # NoPress /\ ~press.moved
              /\ CellAt(r, x) # NoCell /\ Selectable(CellAt(r, x).cell)

\* What the page makes of it is a Commit.
PointerUp(f) ==
  /\ down[f].down
  /\ press' = NoPress
  /\ down' = [down EXCEPT ![f] = NoFinger]
  /\ UNCHANGED <<viewing, plan, hover, cursor, raf, props, stale>>

\* The pointer leaves; what the keyboard points at stays lit.
PointerLeave ==
  /\ press' = NoPress
  /\ IF hover = NoCell \/ hover = cursor THEN UNCHANGED <<hover, raf>>
     ELSE hover' = NoCell /\ Schedule
  /\ UNCHANGED <<viewing, plan, cursor, props, down>>
  /\ Owes

---------------------------------------------------------------------------
(* Wheel, buttons.                                                         *)

Zoomed(x, s) == CentreWithin(ZoomAt(view, x, ClampScale(s)), width)

\* Wheel zooms about the pointer, the buttons about the middle.
Zoom(x, s) ==
  /\ view' = Zoomed(x, s)
  /\ Schedule
  /\ UNCHANGED <<width, plan, pointing, props, down>>
  /\ Owes

ResetView ==
  /\ view' = FitToBounds(width)
  /\ Schedule
  /\ UNCHANGED <<width, plan, pointing, props, down>>
  /\ Owes

---------------------------------------------------------------------------
(* Keyboard.                                                               *)

\* Brings a cell on the screen without zooming.
RevealRight(c) ==
  LET over == WorldToScreen(view, Right(c)) - (width - RevealMargin)
  IN IF over <= 0 THEN view ELSE CentreWithin(Pan(view, -over), width)
RevealCell(c) ==
  LET l == WorldToScreen(view, Left(c))  r == WorldToScreen(view, Right(c))
      dx == IF l < RevealMargin THEN RevealMargin - l
            ELSE IF r > width - RevealMargin THEN width - RevealMargin - r ELSE 0
  IN IF dx = 0 THEN view ELSE CentreWithin(Pan(view, dx), width)

Clamp(n, top) == Larger(1, Smaller(top, n))

\* The cell a key leads to; the first key starts from the first cell.
KeyTarget(key) ==
  LET at == IF cursor = NoCell THEN <<1, 1>> ELSE cursor.cell
      r == Clamp(at[1] + (IF key = "Down" THEN 1 ELSE IF key = "Up" THEN -1 ELSE 0), Len(Layout))
      k == CASE key = "Left" -> at[2] - 1 [] key = "Right" -> at[2] + 1
             [] key = "Home" -> 1 [] key = "End" -> Len(Layout[at[1]]) [] OTHER -> at[2]
  IN <<r, Clamp(k, Len(Layout[r]))>>

PointAt(c) ==
  /\ cursor' = [cell |-> c, plan |-> plan] /\ hover' = cursor'
  /\ view' = RevealCell(c)
  /\ Schedule
  /\ UNCHANGED <<width, plan, press, props, down>>
  /\ Owes

Arrow(key) == PointAt(KeyTarget(key))

\* Landing on the map with Tab returns to the cursor, as it was left.
Focus ==
  /\ cursor' = IF cursor = NoCell THEN [cell |-> <<1, 1>>, plan |-> plan] ELSE cursor
  /\ hover' = cursor'
  /\ view' = RevealCell(cursor'.cell)
  /\ Schedule
  /\ UNCHANGED <<width, plan, press, props, down>>
  /\ Owes

Blur ==
  /\ hover' = IF hover = cursor THEN NoCell ELSE hover
  /\ Schedule
  /\ UNCHANGED <<viewing, plan, cursor, press, props, down>>
  /\ Owes

Keys == {"Left", "Right", "Up", "Down", "Home", "End"}

Next ==
  \/ Draw \/ PointerLeave \/ ResetView \/ Focus \/ Blur
  \/ Reload \/ Remount \/ \E w \in Widths : Resize(w)
  \/ \E c \in Seats : Commit(c)
  \/ \E f \in Pointer, x \in Points :
       \/ PointerDown(f, x) \/ Drag(f, x)
       \/ \E r \in 1..Len(Layout) : HoverFinger(f, r, x)
  \/ \E f \in Pointer : PointerUp(f)
  \/ \E x \in Points : \/ \E r \in 1..Len(Layout) : HoverMouse(r, x)
                       \/ \E s \in {view.scale * 2, view.scale \div 2} : Zoom(x, s)
  \/ \E key \in Keys : Arrow(key)

Spec == Init /\ [][Next]_vars

---------------------------------------------------------------------------
(* Properties.                                                             *)

\* What the refs hold: cells of the layout, a zoom within its limits.
TypeOK ==
  /\ width \in Widths /\ view \in [scale : Scales, tx : Int]
  /\ plan \in 0..MaxReloads
  /\ \A h \in {hover, cursor} : h = NoCell \/ (h.cell \in Cells /\ h.plan \in 0..plan)
  /\ press = NoPress \/ (press.x \in Points /\ press.moved \in BOOLEAN)
  /\ raf.id \in BOOLEAN /\ raf.pending \in BOOLEAN
  /\ taken \subseteq Seats /\ selected \subseteq Seats

\* Whenever what should be on the screen is not, a frame is on its way: no
\* gesture, commit, resize, reload or remount leaves an old picture behind.
PictureFollows == stale => raf.pending

\* However it is dragged, zoomed, resized and walked over, the plan fills the
\* screen or is wholly on it: no edge can be lost.
PlanReachable ==
  LET right == WorldToScreen(view, BoundsWidth)
  IN IF Content(view.scale) <= width THEN view.tx >= 0 /\ right <= width
     ELSE view.tx <= 0 /\ right >= width

\* The keyboard cursor never moves to where it cannot be seen.
CursorInView ==
  [][cursor' # cursor =>
       /\ WorldToScreen(view', Left(cursor'.cell)) >= 0
       /\ WorldToScreen(view', Right(cursor'.cell)) <= width]_vars

\* "A press that travels further than this was a drag": a finger that is
\* alone on the map and went further never selects a seat where it lifts.
DragSelectsNothing ==
  \A f \in Pointer, r \in 1..Len(Layout), x \in Points :
    (down[f].down /\ down[f].alone /\ down[f].far) => ~Asks(r, x)
=============================================================================
