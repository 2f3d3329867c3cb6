-------------------------- MODULE SeatCanvasProofs --------------------------
(***************************************************************************)
(* Theorems of SeatCanvas, for any plan, screen, zoom and number of        *)
(* fingers.                                                                *)
(***************************************************************************)
EXTENDS SeatCanvas, Highest, SequenceTheorems, TLAPS

View == [scale : Scales, tx : Int]
Finger == [from : Int, down : BOOLEAN, far : BOOLEAN, alone : BOOLEAN]

\* A finger of which anything is told is the only one down, and the press is
\* its own: still where it went down, unless it has been a drag.
Fingers ==
  /\ down \in [Pointer -> Finger]
  /\ \A f, g \in Pointer : down[f].down /\ down[f].alone /\ down[g].down => f = g
  /\ \A f \in Pointer : down[f].down /\ down[f].alone =>
       press = NoPress \/ press.moved \/ (press.x = down[f].from /\ ~down[f].far)

\* frameRef is set only while the browser has that frame pending, and it is
\* set whenever a repaint is owed.
Framed == (stale => raf.id) /\ (raf.id => raf.pending)

IInv == TypeOK /\ Fingers /\ Framed /\ PlanReachable

-----------------------------------------------------------------------------
(* Numbers.                                                                *)

LEMMA MaxOf ==
  ASSUME NEW S, S \subseteq Nat, IsFiniteSet(S), S # {}
  PROVE  Max(S) \in S /\ \A s \in S : s <= Max(S)
<1>1. \E m \in S : \A s \in S : m >= s
  BY HighestMember
<1> QED
  BY <1>1 DEF Max

LEMMA MinOf ==
  ASSUME NEW S, S \subseteq Nat, IsFiniteSet(S), S # {}
  PROVE  Min(S) \in S
<1>1. \E m \in S : \A s \in S : m =< s
  BY LowestMember
<1> QED
  BY <1>1 DEF Min

LEMMA ProductNat == ASSUME NEW a \in Nat, NEW b \in Nat PROVE a * b \in Nat
OBVIOUS

LEMMA Halves ==
  ASSUME NEW a \in Int, NEW b \in Int
  PROVE  /\ a \div 2 \in Int
         /\ a >= 0 => a \div 2 \in Nat /\ a \div 2 <= a
         /\ a <= b => a \div 2 <= b \div 2
         /\ (a + b) \div 2 <= (a \div 2) + ((b + 1) \div 2)
OBVIOUS

LEMMA Quotient == ASSUME NEW a \in Int, NEW b \in Nat \ {0} PROVE a \div b \in Int
OBVIOUS

LEMMA ProductMonotone ==
  ASSUME NEW a \in Nat, NEW b \in Nat, NEW s \in Nat, a <= b
  PROVE  a * s <= b * s
OBVIOUS

LEMMA Numbers ==
  /\ SeatSize \in Nat /\ SeatGap \in Nat /\ AisleWidth \in Nat /\ RowLabelWidth \in Nat
  /\ RevealMargin \in Nat /\ DragThreshold \in Nat /\ MaxReloads \in Nat
  /\ \A s \in Scales : s \in Nat \ {0}
  /\ \A w \in Widths : w \in Nat \ {0}
  /\ \A x \in Points : x \in Int
BY CanvasAssumption

-----------------------------------------------------------------------------
(* The plan.                                                               *)

LEMMA RowIsSeats ==
  /\ Len(Layout) \in Nat \ {0}
  /\ \A r \in 1..Len(Layout) : Layout[r] \in Seq(Nat) /\ Len(Layout[r]) \in Nat \ {0}
<1>1. Layout \in Seq(Seq(Nat) \ {<<>>}) /\ Layout # <<>>
  BY CanvasAssumption
<1>2. ASSUME NEW r \in 1..Len(Layout) PROVE Layout[r] \in Seq(Nat) /\ Layout[r] # <<>>
  BY <1>1, ElementOfSeq
<1>3. \A r \in 1..Len(Layout) : Len(Layout[r]) \in Nat \ {0}
  BY <1>2, EmptySeq, LenProperties
<1> QED
  BY <1>1, <1>2, <1>3, EmptySeq, LenProperties

LEMMA CellIs ==
  /\ \A r \in 1..Len(Layout) : \A k \in 1..Len(Layout[r]) : <<r, k>> \in Cells
  /\ \A c \in Cells : /\ c = <<c[1], c[2]>> /\ c[1] \in 1..Len(Layout)
                      /\ c[2] \in 1..Len(Layout[c[1]])
BY DEF Cells

LEMMA FirstCell == <<1, 1>> \in Cells
<1>1. 1 \in 1..Len(Layout)
  BY RowIsSeats
<1>2. 1 \in 1..Len(Layout[1])
  BY <1>1, RowIsSeats
<1> QED
  BY <1>1, <1>2, CellIs

LEMMA CellsFinite == IsFiniteSet(Cells)
<1> DEFINE Row(r) == {<<r, k>> : k \in 1..Len(Layout[r])}
           All == {Row(r) : r \in 1..Len(Layout)}
<1>1. ASSUME NEW r \in 1..Len(Layout) PROVE IsFiniteSet(Row(r))
  <2>1. IsFiniteSet(1..Len(Layout[r]))
    <3>1. Len(Layout[r]) \in Int
      BY RowIsSeats
    <3> QED
      BY <3>1, FS_Interval
  <2>2. [k \in 1..Len(Layout[r]) |-> <<r, k>>] \in Surjection(1..Len(Layout[r]), Row(r))
    BY DEF Surjection
  <2> QED
    BY <2>1, <2>2, FS_Surjection
<1>2. IsFiniteSet(All)
  <2>1. IsFiniteSet(1..Len(Layout))
    BY RowIsSeats, FS_Interval
  <2>2. [r \in 1..Len(Layout) |-> Row(r)] \in Surjection(1..Len(Layout), All)
    BY DEF Surjection
  <2> QED
    BY <2>1, <2>2, FS_Surjection
<1>3. IsFiniteSet(UNION All)
  BY <1>1, <1>2, FS_UNION
<1> QED
  BY <1>3 DEF Cells

\* A seat has its place on the plan, and none sticks out of the bounds.
LEMMA PlacesAreNat ==
  /\ \A c \in Cells : Left(c) \in Nat /\ Right(c) = Left(c) + SeatSize /\ Right(c) <= BoundsWidth
  /\ BoundsWidth \in Nat
<1> DEFINE Ends == {Right(c) + Trailing(c) : c \in Cells}
<1>1. ASSUME NEW c \in Cells PROVE AislesBefore(c) \in Nat
  <2>1. IsFiniteSet(1..c[2] - 1)
    <3>1. c[2] - 1 \in Int
      BY CellIs, RowIsSeats
    <3> QED
      BY <3>1, FS_Interval
  <2>2. IsFiniteSet({k \in 1..c[2] - 1 : Layout[c[1]][k] \in AislesAfter})
    BY <2>1, FS_Subset
  <2> QED
    BY <2>2, FS_CardinalityType DEF AislesBefore
<1>2. ASSUME NEW c \in Cells PROVE Left(c) \in Nat
  <2>1. c[2] - 1 \in Nat /\ SeatSize + SeatGap \in Nat /\ AisleWidth + SeatGap \in Nat
    BY CellIs, RowIsSeats, Numbers
  <2>2. (c[2] - 1) * (SeatSize + SeatGap) \in Nat /\ AislesBefore(c) * (AisleWidth + SeatGap) \in Nat
    BY <1>1, <2>1, ProductNat
  <2>3. Left(c) = RowLabelWidth + SeatGap + (c[2] - 1) * (SeatSize + SeatGap)
                  + AislesBefore(c) * (AisleWidth + SeatGap)
    BY DEF Left, Lefts
  <2> QED
    BY <2>2, <2>3, Numbers
<1>3. ASSUME NEW c \in Cells PROVE Right(c) = Left(c) + SeatSize /\ Right(c) \in Nat /\ Trailing(c) \in Nat
  BY <1>2, Numbers DEF Right, Left, Trailing
<1>4. IsFiniteSet(Ends)
  <2>1. [c \in Cells |-> Right(c) + Trailing(c)] \in Surjection(Cells, Ends)
    BY DEF Surjection
  <2> QED
    BY <2>1, CellsFinite, FS_Surjection
<1>5. Ends \subseteq Nat
  BY <1>3
<1>6. IsFiniteSet({RowLabelWidth} \cup Ends)
  BY <1>4, FS_Singleton, FS_Union
<1>7. BoundsWidth \in Nat /\ \A s \in Ends : s <= BoundsWidth
  <2>1. {RowLabelWidth} \cup Ends \subseteq Nat
    BY <1>5, Numbers
  <2> QED
    BY <1>6, <2>1, MaxOf DEF BoundsWidth
<1>8. ASSUME NEW c \in Cells PROVE Right(c) <= BoundsWidth
  BY <1>3, <1>7
<1> QED
  BY <1>2, <1>3, <1>7, <1>8

-----------------------------------------------------------------------------
(* Views: what leaves centreWithin shows as much of the plan as there is   *)
(* room for.                                                               *)

Reaches(v, w) == IF Content(v.scale) <= w THEN v.tx >= 0 /\ Content(v.scale) + v.tx <= w
                 ELSE v.tx <= 0 /\ Content(v.scale) + v.tx >= w
Shown(v, w) == v \in View /\ Reaches(v, w)

LEMMA Contents == \A s \in Scales : Content(s) \in Nat
BY PlacesAreNat, Numbers, ProductNat, Halves DEF Content

LEMMA Centred ==
  ASSUME NEW v \in View, NEW w \in Widths
  PROVE  Shown(CentreWithin(v, w), w) /\ CentreWithin(v, w).scale = v.scale
<1> DEFINE u == CentreWithin(v, w)
<1>1. v.scale \in Scales /\ v.tx \in Int /\ w \in Nat /\ Content(v.scale) \in Nat
  BY Contents, Numbers DEF View
<1>2. u.scale = v.scale /\ u.tx = IF Content(v.scale) <= w THEN (w - Content(v.scale)) \div 2
                                  ELSE Smaller(0, Larger(w - Content(v.scale), v.tx))
  BY DEF CentreWithin, View
<1>3. (w - Content(v.scale)) \div 2 \in Int
      /\ (Content(v.scale) <= w => (w - Content(v.scale)) \div 2 \in 0..(w - Content(v.scale)))
  BY <1>1, Halves
<1>4. u \in [scale : Scales, tx : Int]
  BY <1>1, <1>2, <1>3 DEF CentreWithin, View, Smaller, Larger
<1>5. Reaches(u, w)
  BY <1>1, <1>2, <1>3 DEF Reaches, Smaller, Larger
<1> QED
  BY <1>2, <1>4, <1>5 DEF Shown, View

LEMMA Extremes == Min(Scales) \in Scales /\ Max(Scales) \in Scales
<1>1. Scales \subseteq Nat /\ IsFiniteSet(Scales) /\ Scales # {}
  BY CanvasAssumption
<1> QED
  BY <1>1, MaxOf, MinOf

LEMMA Fitted == ASSUME NEW w \in Widths PROVE Shown(FitToBounds(w), w)
<1> DEFINE fits == {s \in Scales : s <= 2 /\ Content(s) <= w}
<1>1. fits # {} => Max(fits) \in Scales
  <2>1. fits \subseteq Nat /\ IsFiniteSet(fits)
    BY CanvasAssumption, FS_Subset
  <2> QED
    BY <2>1, MaxOf
<1>2. [scale |-> IF fits = {} THEN Min(Scales) ELSE Max(fits), tx |-> 0] \in View
  BY <1>1, Extremes DEF View
<1> QED
  BY <1>2, Centred DEF FitToBounds

LEMMA Panned == ASSUME NEW v \in View, NEW dx \in Int PROVE Pan(v, dx) \in View /\ Pan(v, dx).scale = v.scale /\ Pan(v, dx).tx = v.tx + dx
BY DEF Pan, View

LEMMA OnScreen ==
  ASSUME NEW v \in View, NEW c \in Cells
  PROVE  WorldToScreen(v, Left(c)) \in Int /\ WorldToScreen(v, Right(c)) \in Int
<1>1. v.scale \in Nat /\ v.tx \in Int /\ Left(c) \in Nat /\ Right(c) \in Nat
  BY PlacesAreNat, Numbers DEF View
<1> QED
  BY <1>1, ProductNat, Halves DEF WorldToScreen

LEMMA Revealed ==
  ASSUME view \in View, width \in Widths, Reaches(view, width), NEW c \in Cells
  PROVE  Shown(RevealCell(c), width)
<1> DEFINE l == WorldToScreen(view, Left(c))
           r == WorldToScreen(view, Right(c))
           dx == IF l < RevealMargin THEN RevealMargin - l
                 ELSE IF r > width - RevealMargin THEN width - RevealMargin - r ELSE 0
<1>1. dx \in Int
  BY OnScreen, Numbers
<1>2. Shown(CentreWithin(Pan(view, dx), width), width)
  BY <1>1, Panned, Centred
<1> QED
  BY <1>2 DEF RevealCell, Shown

LEMMA ZoomedIn ==
  ASSUME view \in View, width \in Widths, NEW x \in Points, NEW s
  PROVE  Shown(Zoomed(x, s), width)
<1>1. ClampScale(s) \in Scales
  BY Extremes DEF ClampScale
<1>2. ASSUME NEW t \in Scales PROVE ZoomAt(view, x, t) \in View
  <2>1. x \in Int /\ view.tx \in Int /\ view.scale \in Nat \ {0} /\ t \in Int
    BY Numbers DEF View
  <2>2. ((x - view.tx) * t) \in Int
    BY <2>1
  <2>3. ((x - view.tx) * t) \div view.scale \in Int
    BY <2>1, <2>2, Quotient
  <2> QED
    BY <2>1, <2>3 DEF ZoomAt, View
<1> QED
  BY <1>1, <1>2, Centred DEF Zoomed

\* Where the keyboard leads is a cell of the plan.
LEMMA Target ==
  ASSUME cursor = NoCell \/ cursor.cell \in Cells, NEW key \in Keys
  PROVE  KeyTarget(key) \in Cells
<1> DEFINE at == IF cursor = NoCell THEN <<1, 1>> ELSE cursor.cell
           r == Clamp(at[1] + (IF key = "Down" THEN 1 ELSE IF key = "Up" THEN -1 ELSE 0), Len(Layout))
           k == CASE key = "Left" -> at[2] - 1 [] key = "Right" -> at[2] + 1
                  [] key = "Home" -> 1 [] key = "End" -> Len(Layout[at[1]]) [] OTHER -> at[2]
<1>1. at \in Cells
  BY FirstCell
<1>2. at[1] \in 1..Len(Layout) /\ at[2] \in 1..Len(Layout[at[1]]) /\ Len(Layout) \in Nat \ {0}
      /\ Len(Layout[at[1]]) \in Nat \ {0}
  BY <1>1, CellIs, RowIsSeats
<1>3. r \in 1..Len(Layout)
  <2>1. \A n \in Int : Clamp(n, Len(Layout)) \in 1..Len(Layout)
    BY RowIsSeats DEF Clamp, Larger, Smaller
  <2>2. (at[1] + (IF key = "Down" THEN 1 ELSE IF key = "Up" THEN -1 ELSE 0)) \in Int
    BY <1>2
  <2> QED
    BY <2>1, <2>2
<1>4. Clamp(k, Len(Layout[r])) \in 1..Len(Layout[r])
  <2>1. Len(Layout[r]) \in Nat \ {0}
    BY <1>3, RowIsSeats
  <2>2. \A n \in Int : Clamp(n, Len(Layout[r])) \in 1..Len(Layout[r])
    BY <2>1 DEF Clamp, Larger, Smaller
  <2>3. k \in Int
    BY <1>2
  <2> QED
    BY <2>2, <2>3
<1> HIDE DEF at
<1>5. KeyTarget(key) = <<r, Clamp(k, Len(Layout[r]))>>
  BY DEF KeyTarget, at
<1> QED
  BY <1>3, <1>4, <1>5, CellIs

-----------------------------------------------------------------------------
(* What each step leaves.                                                  *)

OnPlan(h) == h = NoCell \/ (h.cell \in Cells /\ h.plan \in 0..plan)
RefsOK == plan \in 0..MaxReloads /\ OnPlan(hover) /\ OnPlan(cursor)
PressOK == press = NoPress \/ (press.x \in Points /\ press.moved \in BOOLEAN)
PropsOK == taken \subseteq Seats /\ selected \subseteq Seats
FrameOK == raf.id \in BOOLEAN /\ raf.pending \in BOOLEAN
ViewOK == width \in Widths /\ Shown(view, width)

LEMMA Parts ==
  TypeOK /\ PlanReachable <=> RefsOK /\ PressOK /\ PropsOK /\ FrameOK /\ ViewOK
<1>1. ASSUME view \in View PROVE PlanReachable <=> Reaches(view, width)
  <2>1. WorldToScreen(view, BoundsWidth) = Content(view.scale) + view.tx
    BY DEF WorldToScreen, Content
  <2> QED
    BY <2>1 DEF PlanReachable, Reaches
<1> QED
  BY <1>1 DEF TypeOK, RefsOK, OnPlan, PressOK, PropsOK, FrameOK, ViewOK, Shown, View

\* Which steps touch what.
LEMMA Touches ==
  ASSUME Next
  PROVE  /\ \/ UNCHANGED viewing
            \/ (\E w \in Widths : Resize(w)) \/ Reload \/ Remount \/ ResetView \/ Focus
            \/ \E f \in Pointer, x \in Points : Drag(f, x)
            \/ \E x \in Points : \E s \in {view.scale * 2, view.scale \div 2} : Zoom(x, s)
            \/ \E key \in Keys : Arrow(key)
         /\ \/ UNCHANGED <<plan, hover, cursor>>
            \/ Reload \/ PointerLeave \/ Focus \/ Blur
            \/ \E r \in 1..Len(Layout), x \in Points : Hover(r, x)
            \/ \E key \in Keys : Arrow(key)
         /\ \/ UNCHANGED <<press, down>>
            \/ \E f \in Pointer, x \in Points :
                 \/ PointerDown(f, x) \/ Drag(f, x) \/ PointerUp(f)
                 \/ \E r \in 1..Len(Layout) : HoverFinger(f, r, x)
            \/ \E f \in Pointer : PointerUp(f)
            \/ PointerLeave
            \/ \E r \in 1..Len(Layout), x \in Points : HoverMouse(r, x)
         /\ UNCHANGED props \/ \E c \in Seats : Commit(c)
BY DEF Next, Draw, PointerLeave, ResetView, Focus, Blur, Reload, Remount, Resize, Commit,
       PointerDown, Drag, HoverFinger, HoverMouse, Hover, PointerUp, Zoom, Arrow, PointAt,
       viewing, pointing, props

LEMMA NextViewOK == ASSUME RefsOK, PressOK, ViewOK, Next PROVE ViewOK'
<1>0. view \in View /\ Reaches(view, width) /\ width \in Widths
  BY DEF ViewOK, Shown
<1>1. SUFFICES width' \in Widths /\ Shown(view', width')
  BY DEF ViewOK, Shown, Reaches, Content
<1>2. CASE UNCHANGED viewing
  BY <1>0, <1>2 DEF viewing, Shown
<1>3. ASSUME NEW w \in Widths, Resize(w) PROVE width' \in Widths /\ Shown(view', width')
  BY <1>0, <1>3, Centred DEF Resize
<1>4. CASE Reload \/ Remount \/ ResetView
  BY <1>0, <1>4, Fitted DEF Reload, Remount, ResetView
<1>5. ASSUME NEW f \in Pointer, NEW x \in Points, Drag(f, x) PROVE width' \in Widths /\ Shown(view', width')
  <2>1. x - press.x \in Int
    BY <1>5, Numbers DEF Drag, PressOK
  <2> QED
    BY <1>0, <1>5, <2>1, Panned, Centred DEF Drag, Dragged
<1>6. ASSUME NEW x \in Points, NEW s, Zoom(x, s) PROVE width' \in Widths /\ Shown(view', width')
  BY <1>0, <1>6, ZoomedIn DEF Zoom
<1>7. ASSUME NEW key \in Keys, Arrow(key) PROVE width' \in Widths /\ Shown(view', width')
  <2>1. KeyTarget(key) \in Cells
    BY Target DEF RefsOK, OnPlan
  <2> QED
    BY <1>0, <1>7, <2>1, Revealed DEF Arrow, PointAt
<1>8. CASE Focus
  <2>1. cursor'.cell \in Cells
    BY <1>8, FirstCell DEF Focus, RefsOK, OnPlan
  <2> QED
    BY <1>0, <1>8, <2>1, Revealed DEF Focus
<1> QED
  BY <1>2, <1>3, <1>4, <1>5, <1>6, <1>7, <1>8, Touches

LEMMA NextRefsOK == ASSUME RefsOK, Next PROVE RefsOK'
<1>1. plan \in Nat /\ MaxReloads \in Nat
  BY Numbers DEF RefsOK
<1>2. CASE UNCHANGED <<plan, hover, cursor>>
  BY <1>2 DEF RefsOK, OnPlan
<1>3. CASE Reload
  BY <1>1, <1>3 DEF Reload, pointing, RefsOK, OnPlan
<1>4. CASE PointerLeave \/ Blur
  BY <1>4 DEF PointerLeave, Blur, RefsOK, OnPlan
<1>5. ASSUME NEW r \in 1..Len(Layout), NEW x \in Points, Hover(r, x) PROVE RefsOK'
  <2> DEFINE hit == {c \in Cells : c[1] = r /\ WorldToScreen(view, Left(c)) <= x
                                            /\ x < WorldToScreen(view, Right(c))}
  <2>1. hit # {} => (CHOOSE c \in hit : TRUE) \in Cells
    OBVIOUS
  <2>2. OnPlan(CellAt(r, x))
    BY <1>1, <2>1 DEF CellAt, OnPlan
  <2> QED
    BY <1>5, <2>2 DEF Hover, RefsOK, OnPlan
<1>6. ASSUME NEW c \in Cells, cursor' = cursor \/ cursor' = [cell |-> c, plan |-> plan], hover' = cursor', plan' = plan
      PROVE  RefsOK'
  <2>1. [cell |-> c, plan |-> plan].cell \in Cells /\ [cell |-> c, plan |-> plan].plan \in 0..plan
    BY <1>1
  <2> QED
    BY <1>6, <2>1 DEF RefsOK, OnPlan
<1>7. ASSUME NEW key \in Keys, Arrow(key) PROVE RefsOK'
  <2>1. KeyTarget(key) \in Cells
    BY Target DEF RefsOK, OnPlan
  <2> QED
    BY <1>6, <1>7, <2>1 DEF Arrow, PointAt
<1>8. CASE Focus
  BY <1>6, <1>8, FirstCell DEF Focus
<1> QED
  BY <1>2, <1>3, <1>4, <1>5, <1>7, <1>8, Touches

LEMMA NextFramed == ASSUME Framed, FrameOK, Next PROVE Framed' /\ FrameOK'
<1>1. ASSUME Schedule PROVE Framed' /\ FrameOK'
  BY <1>1 DEF Schedule, Framed, FrameOK
<1>2. ASSUME Owes, raf' = raf, UNCHANGED <<view, width, hover, taken, selected>> PROVE Framed' /\ FrameOK'
  <2>1. Picture' = Picture
    BY <1>2 DEF Picture, Look, Visible, Selectable, LimitReached, WorldToScreen, Left, Right
  <2> QED
    BY <1>2, <2>1 DEF Owes, Framed, FrameOK
<1>3. ASSUME UNCHANGED <<raf, stale>> PROVE Framed' /\ FrameOK'
  BY <1>3 DEF Framed, FrameOK
<1>4. CASE Draw \/ Remount
  <2>1. CASE Draw
    <3>1. raf'.id = FALSE
      BY <2>1 DEF Draw
    <3>2. raf'.pending = FALSE
      BY <2>1 DEF Draw
    <3> QED
      BY <2>1, <3>1, <3>2 DEF Draw, Framed, FrameOK
  <2>2. CASE Remount
    <3>1. Cancelled.id = FALSE
      BY DEF Cancelled
    <3>2. raf' = [id |-> TRUE, pending |-> TRUE]
      BY <2>2, <3>1 DEF Remount
    <3>3. raf'.id = TRUE
      BY <3>2
    <3>4. raf'.pending = TRUE
      BY <3>2
    <3> QED
      BY <3>3, <3>4 DEF Framed, FrameOK
  <2> QED
    BY <1>4, <2>1, <2>2
<1>5. CASE PointerLeave \/ \E r \in 1..Len(Layout), x \in Points : Hover(r, x)
  BY <1>1, <1>2, <1>5 DEF PointerLeave, Hover, viewing, props
<1>6. ASSUME Next, ~Draw, ~Remount, ~PointerLeave, ~(\E r \in 1..Len(Layout), x \in Points : Hover(r, x))
      PROVE  Schedule \/ UNCHANGED <<raf, stale>>
  BY <1>6 DEF Next, ResetView, Focus, Blur, Reload, Resize, Commit, PointerDown, Drag,
              HoverFinger, HoverMouse, PointerUp, Zoom, Arrow, PointAt
<1> QED
  BY <1>1, <1>3, <1>4, <1>5, <1>6

LEMMA NextPropsOK == ASSUME PropsOK, Next PROVE PropsOK'
<1>1. CASE UNCHANGED props
  BY <1>1 DEF props, PropsOK
<1>2. ASSUME NEW c \in Seats, Commit(c) PROVE PropsOK'
  BY <1>2 DEF Commit, PropsOK
<1> QED
  BY <1>1, <1>2, Touches

\* What pressing, dragging and lifting make of a finger.
LEMMA Further ==
  ASSUME NEW p \in Finger, NEW b \in BOOLEAN
  PROVE  LET q == [p EXCEPT !.far = b]
         IN q \in Finger /\ q.from = p.from /\ q.down = p.down /\ q.alone = p.alone /\ q.far = b
<1> DEFINE q == [p EXCEPT !.far = b]
<1>1. q \in Finger
  BY DEF Finger
<1>2. q.from = p.from
  BY DEF Finger
<1>3. q.down = p.down
  BY DEF Finger
<1>4. q.alone = p.alone
  BY DEF Finger
<1>5. q.far = b
  BY DEF Finger
<1> QED
  BY <1>1, <1>2, <1>3, <1>4, <1>5

LEMMA NoFingerIs == NoFinger \in Finger /\ NoFinger.down = FALSE
<1>1. NoFinger \in Finger
  BY DEF NoFinger, Finger
<1>2. NoFinger.down = FALSE
  BY DEF NoFinger
<1> QED
  BY <1>1, <1>2

LEMMA OneOfManyIs == OneOfMany \in Finger /\ OneOfMany.alone = FALSE
<1>1. OneOfMany \in Finger
  BY DEF OneOfMany, Finger
<1>2. OneOfMany.alone = FALSE
  BY DEF OneOfMany
<1> QED
  BY <1>1, <1>2

LEMMA FirstDown ==
  ASSUME NEW x \in Int
  PROVE  LET q == [NoFinger EXCEPT !.from = x, !.down = TRUE]
         IN q \in Finger /\ q.from = x /\ q.far = FALSE
<1> DEFINE q == [NoFinger EXCEPT !.from = x, !.down = TRUE]
<1>1. q \in Finger
  BY NoFingerIs DEF Finger
<1>2. q.from = x
  BY NoFingerIs DEF Finger
<1>3. q.far = FALSE
  <2>1. NoFinger.far = FALSE
    BY DEF NoFinger
  <2>2. q.far = NoFinger.far
    BY NoFingerIs DEF Finger
  <2> QED
    BY <2>1, <2>2
<1> QED
  BY <1>1, <1>2, <1>3

LEMMA Travels ==
  ASSUME Fingers, NEW f \in Pointer, NEW x \in Points, down[f].down, down' = Travelled(f, x)
  PROVE  /\ down' \in [Pointer -> Finger]
         /\ \A g \in Pointer : /\ down'[g].down = down[g].down /\ down'[g].alone = down[g].alone
                               /\ down'[g].from = down[g].from
                               /\ g # f => down'[g] = down[g]
         /\ down'[f].far = (down[f].far \/ (down[f].alone /\ Distance(x, down[f].from) > DragThreshold))
<1> DEFINE b == down[f].far \/ (down[f].alone /\ Distance(x, down[f].from) > DragThreshold)
           q == [down[f] EXCEPT !.far = b]
<1>1. down[f] \in Finger /\ b \in BOOLEAN
  BY DEF Fingers, Finger
<1>2. q \in Finger /\ q.from = down[f].from /\ q.down = down[f].down /\ q.alone = down[f].alone /\ q.far = b
  BY <1>1, Further
<1>3. down' = [down EXCEPT ![f] = q]
  BY DEF Travelled
<1> HIDE DEF q
<1> QED
  BY <1>2, <1>3 DEF Fingers

LEMMA NextFingers == ASSUME PressOK, Fingers, Next PROVE PressOK' /\ Fingers'
<1>1. CASE UNCHANGED <<press, down>>
  BY <1>1 DEF PressOK, Fingers
<1>2. ASSUME NEW f \in Pointer, NEW x \in Points, PointerDown(f, x) PROVE PressOK' /\ Fingers'
  <2>1. press'.x = x /\ press'.moved = FALSE
    BY <1>2 DEF PointerDown
  <2>2. CASE \E g \in Pointer : down[g].down
    <3>1. down' = [g \in Pointer |-> IF g = f \/ down[g].down THEN OneOfMany ELSE NoFinger]
      BY <1>2, <2>2 DEF PointerDown
    <3>2. \A g \in Pointer : down'[g] \in Finger /\ (down'[g].down => ~down'[g].alone)
      BY <3>1, NoFingerIs, OneOfManyIs
    <3>3. down' \in [Pointer -> Finger]
      BY <3>1, NoFingerIs, OneOfManyIs
    <3> QED
      BY <2>1, <3>2, <3>3 DEF Fingers, PressOK
  <2>3. CASE ~\E g \in Pointer : down[g].down
    <3> DEFINE q == [NoFinger EXCEPT !.from = x, !.down = TRUE]
    <3>1. q \in Finger /\ q.from = x /\ q.far = FALSE
      BY FirstDown, Numbers
    <3>2. down' = [down EXCEPT ![f] = q]
      BY <1>2, <2>3 DEF PointerDown
    <3> HIDE DEF q
    <3>3. down' \in [Pointer -> Finger] /\ down'[f] = q /\ \A g \in Pointer : g # f => ~down'[g].down
      BY <2>3, <3>1, <3>2 DEF Fingers
    <3> QED
      BY <2>1, <3>1, <3>3 DEF Fingers, PressOK
  <2> QED
    BY <2>2, <2>3
<1>3. ASSUME NEW f \in Pointer, NEW x \in Points, Drag(f, x) PROVE PressOK' /\ Fingers'
  <2>1. down[f].down /\ Pressed(x).moved /\ press' = Pressed(x) /\ down' = Travelled(f, x)
    BY <1>3 DEF Drag
  <2>2. press'.moved
    BY <2>1
  <2>3. PressOK'
    BY <2>1 DEF PressOK, Pressed
  <2> QED
    BY <2>1, <2>2, <2>3, Travels DEF Fingers
<1>4. ASSUME NEW r \in 1..Len(Layout), NEW x \in Points, Hover(r, x)
      PROVE  press' = press /\ (press # NoPress => ~press.moved /\ ~(Distance(x, press.x) > DragThreshold))
  BY <1>4 DEF Hover, Pressed
<1>5. ASSUME NEW f \in Pointer, NEW r \in 1..Len(Layout), NEW x \in Points, HoverFinger(f, r, x)
      PROVE  PressOK' /\ Fingers'
  <2>1. down[f].down /\ down' = Travelled(f, x) /\ Hover(r, x)
    BY <1>5 DEF HoverFinger
  <2>2. press' = press /\ (press # NoPress => ~press.moved /\ ~(Distance(x, press.x) > DragThreshold))
    BY <1>4, <2>1
  <2>3. down[f].alone => press = NoPress \/ (press.x = down'[f].from /\ ~down'[f].far)
    BY <2>1, <2>2, Travels DEF Fingers
  <2>4. \A g \in Pointer : down'[g].down /\ down'[g].alone =>
           press' = NoPress \/ press'.moved \/ (press'.x = down'[g].from /\ ~down'[g].far)
    BY <2>1, <2>2, <2>3, Travels DEF Fingers
  <2>5. \A g, h \in Pointer : down'[g].down /\ down'[g].alone /\ down'[h].down => g = h
    BY <2>1, Travels DEF Fingers
  <2>6. down' \in [Pointer -> Finger]
    BY <2>1, Travels
  <2> QED
    BY <2>2, <2>4, <2>5, <2>6 DEF Fingers, PressOK
<1>6. ASSUME NEW r \in 1..Len(Layout), NEW x \in Points, HoverMouse(r, x) PROVE PressOK' /\ Fingers'
  <2>1. UNCHANGED <<press, down>>
    BY <1>4, <1>6 DEF HoverMouse
  <2> QED
    BY <2>1 DEF PressOK, Fingers
<1>7. ASSUME NEW f \in Pointer, PointerUp(f) PROVE PressOK' /\ Fingers'
  <2>1. press' = NoPress /\ down' = [down EXCEPT ![f] = NoFinger]
    BY <1>7 DEF PointerUp
  <2>2. down' \in [Pointer -> Finger] /\ \A g \in Pointer : down'[g] = down[g] \/ ~down'[g].down
    BY <2>1, NoFingerIs DEF Fingers
  <2> QED
    BY <2>1, <2>2 DEF Fingers, PressOK
<1>8. CASE PointerLeave
  <2>1. press' = NoPress /\ down' = down
    BY <1>8 DEF PointerLeave
  <2> QED
    BY <2>1 DEF Fingers, PressOK
<1> QED
  BY <1>1, <1>2, <1>3, <1>5, <1>6, <1>7, <1>8, Touches

-----------------------------------------------------------------------------
(* The invariant and the theorems.                                         *)

LEMMA CanvasStarts == Init => IInv
<1> SUFFICES ASSUME Init PROVE IInv
  OBVIOUS
<1>1. ViewOK
  BY Fitted DEF Init, ViewOK
<1>2. RefsOK /\ PressOK /\ PropsOK
  BY Numbers DEF Init, RefsOK, OnPlan, PressOK, PropsOK
<1>3. FrameOK /\ Framed
  BY DEF Init, FrameOK, Framed
<1>4. Fingers
  BY NoFingerIs DEF Init, Fingers
<1> QED
  BY <1>1, <1>2, <1>3, <1>4, Parts DEF IInv

LEMMA CanvasSteps == IInv /\ [Next]_vars => IInv'
<1> SUFFICES ASSUME IInv, [Next]_vars PROVE IInv'
  OBVIOUS
<1>1. RefsOK /\ PressOK /\ PropsOK /\ FrameOK /\ ViewOK /\ Fingers /\ Framed
  BY Parts DEF IInv
<1>2. CASE Next
  <2>1. RefsOK' /\ PressOK' /\ PropsOK' /\ FrameOK' /\ ViewOK' /\ Fingers' /\ Framed'
    BY <1>1, <1>2, NextRefsOK, NextPropsOK, NextFramed, NextViewOK, NextFingers
  <2>2. (TypeOK /\ PlanReachable <=> RefsOK /\ PressOK /\ PropsOK /\ FrameOK /\ ViewOK)'
    BY Parts, PTL
  <2> QED
    BY <2>1, <2>2 DEF IInv
<1>3. CASE UNCHANGED vars
  BY <1>3 DEF vars, viewing, pointing, props, IInv, TypeOK, Fingers, Framed, PlanReachable,
     WorldToScreen, Content
<1> QED
  BY <1>2, <1>3

LEMMA CanvasInvariance == Spec => []IInv
<1>1. IInv /\ [Next]_vars => IInv'
  BY CanvasSteps
<1> QED
  BY <1>1, CanvasStarts, PTL DEF Spec

\* The refs of SeatCanvas always hold cells of the layout and a zoom within
\* its limits: the zoom steps, the arrow keys and the fitting lead nowhere
\* else.
THEOREM CanvasTypeCorrect == Spec => []TypeOK
<1>1. IInv => TypeOK
  BY DEF IInv
<1> QED
  BY <1>1, CanvasInvariance, PTL

\* No step leaves an old picture on the screen without a frame on its way:
\* frameRef is set only while its frame is pending, so asking again may rely
\* on it.
THEOREM NoPictureIsLost == Spec => []PictureFollows
<1>1. IInv => PictureFollows
  BY DEF IInv, Framed, PictureFollows
<1> QED
  BY <1>1, CanvasInvariance, PTL

\* On every plan and screen, at every zoom: however it is dragged, zoomed,
\* resized and walked over, the plan fills the screen or is wholly on it.
THEOREM PlanIsNeverLost == Spec => []PlanReachable
<1>1. IInv => PlanReachable
  BY DEF IInv
<1> QED
  BY <1>1, CanvasInvariance, PTL

\* Any number of fingers: one that is alone on the map and went further than
\* a press never selects a seat where it lifts, for the press it shares is
\* then its own, and known to be a drag.
THEOREM DragsNeverSelect == Spec => []DragSelectsNothing
<1>1. IInv => DragSelectsNothing
  BY DEF IInv, Fingers, DragSelectsNothing, Asks
<1> QED
  BY <1>1, CanvasInvariance, PTL

\* The element has room for a seat, however enlarged, beside the margin the
\* reveal keeps.
RoomForASeat == \A w \in Widths, s \in Scales : RevealMargin + (SeatSize * s + 1) \div 2 <= w

\* What revealCell shows, it shows whole.
LEMMA RevealShows ==
  ASSUME ViewOK, RoomForASeat, NEW c \in Cells
  PROVE  /\ WorldToScreen(RevealCell(c), Left(c)) >= 0
         /\ WorldToScreen(RevealCell(c), Right(c)) <= width
<1> DEFINE s == view.scale
           a == (Left(c) * s) \div 2
           b == (Right(c) * s) \div 2
           l == WorldToScreen(view, Left(c))
           r == WorldToScreen(view, Right(c))
           m == RevealMargin
           dx == IF l < m THEN m - l ELSE IF r > width - m THEN width - m - r ELSE 0
<1>1. s \in Scales /\ s \in Nat /\ view.tx \in Int /\ width \in Nat /\ m \in Nat /\ view \in View
  BY Numbers DEF ViewOK, Shown, View
<1>2. Left(c) \in Nat /\ Right(c) \in Nat /\ BoundsWidth \in Nat /\ Right(c) <= BoundsWidth
      /\ Right(c) = Left(c) + SeatSize /\ SeatSize \in Nat
  BY PlacesAreNat, Numbers
<1>3. /\ Left(c) * s \in Nat /\ Right(c) * s \in Nat /\ BoundsWidth * s \in Nat /\ SeatSize * s \in Nat
      /\ Right(c) * s <= BoundsWidth * s
  BY <1>1, <1>2, ProductNat, ProductMonotone
<1>4. Right(c) * s = Left(c) * s + SeatSize * s
  BY <1>1, <1>2
<1>5. /\ a \in Nat /\ b \in Nat /\ Content(s) \in Nat /\ b <= Content(s)
      /\ b <= a + (SeatSize * s + 1) \div 2 /\ (SeatSize * s + 1) \div 2 \in Nat
  BY <1>3, <1>4, Halves DEF Content
<1>6. b <= a + width - m
  <2>1. m + (SeatSize * s + 1) \div 2 <= width
    BY <1>1 DEF RoomForASeat, ViewOK
  <2> QED
    BY <1>1, <1>5, <2>1
<1>7. l = a + view.tx /\ r = b + view.tx
  BY DEF WorldToScreen
<1> HIDE DEF a, b
<1>8. CASE dx = 0
  <2>1. RevealCell(c) = view
    BY <1>8 DEF RevealCell
  <2>2. l >= m /\ r <= width - m
    BY <1>1, <1>5, <1>7, <1>8
  <2> QED
    BY <1>1, <1>5, <1>7, <2>1, <2>2
<1>9. CASE dx # 0
  <2> DEFINE v == Pan(view, dx)
             u == CentreWithin(v, width)
  <2>1. RevealCell(c) = u
    BY <1>9 DEF RevealCell
  <2>2. dx \in Int
    BY <1>1, <1>5, <1>7
  <2>3. v \in View /\ v.scale = s /\ v.tx = view.tx + dx
    BY <1>1, <2>2, Panned
  <2>4. u.scale = s /\ Reaches(u, width) /\ u.tx \in Int
    BY <2>3, Centred DEF ViewOK, Shown, View
  <2>5. WorldToScreen(u, Left(c)) = a + u.tx /\ WorldToScreen(u, Right(c)) = b + u.tx
    BY <2>4 DEF WorldToScreen, a, b
  <2>6. a + v.tx >= 0 /\ b + v.tx <= width
    BY <1>1, <1>5, <1>6, <1>7, <1>9, <2>3
  <2>7. CASE Content(s) <= width
    BY <1>1, <1>5, <2>1, <2>4, <2>5, <2>7 DEF Reaches
  <2>8. CASE ~(Content(s) <= width)
    <3>1. u.tx = Smaller(0, Larger(width - Content(s), v.tx))
      BY <2>3, <2>8 DEF CentreWithin, View
    <3> QED
      BY <1>1, <1>5, <2>1, <2>3, <2>4, <2>5, <2>6, <2>8, <3>1 DEF Reaches, Smaller, Larger, View
  <2> QED
    BY <2>7, <2>8
<1> QED
  BY <1>8, <1>9

\* Where a seat fits on the screen at the largest zoom, the keyboard cursor
\* never moves to where it cannot be seen whole.
THEOREM CursorStaysInView == ASSUME RoomForASeat PROVE Spec => CursorInView
<1> DEFINE InView == cursor' # cursor => /\ WorldToScreen(view', Left(cursor'.cell)) >= 0
                                         /\ WorldToScreen(view', Right(cursor'.cell)) <= width
<1>1. IInv /\ [Next]_vars => [InView]_vars
  <2> SUFFICES ASSUME IInv, Next, cursor' # cursor PROVE InView
    OBVIOUS
  <2>1. ViewOK /\ RefsOK
    BY Parts DEF IInv
  <2>2. ASSUME NEW c \in Cells, cursor'.cell = c, view' = RevealCell(c) PROVE InView
    BY <2>1, <2>2, RevealShows
  <2>3. ASSUME NEW key \in Keys, Arrow(key) PROVE InView
    <3>1. KeyTarget(key) \in Cells
      BY <2>1, Target DEF RefsOK, OnPlan
    <3> QED
      BY <2>2, <2>3, <3>1 DEF Arrow, PointAt
  <2>4. CASE Focus
    <3>1. cursor'.cell = <<1, 1>>
      BY <2>4 DEF Focus
    <3> QED
      BY <2>2, <2>4, <3>1, FirstCell DEF Focus
  <2> QED
    BY <2>3, <2>4, Touches DEF Reload, PointerLeave, Blur, Hover, pointing
<1> QED
  BY <1>1, CanvasInvariance, PTL DEF Spec, CursorInView

=============================================================================
