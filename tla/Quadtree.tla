------------------------------ MODULE Quadtree ------------------------------
(***************************************************************************)
(* The region quadtree behind hit-testing and culling (quadtree.js), built *)
(* one cell at a time in any order.                                        *)
(*                                                                         *)
(* A node goes by the path to it, the quadrants to take from the root.     *)
(* What the code does by recursion is done here one call of insert at a    *)
(* time: `calls` are those that have begun and not ended.  The code works  *)
(* through them depth first, here they may end in any order.  A query      *)
(* reaches a node when it passes every node on the way to it.              *)
(***************************************************************************)
EXTENDS Integers, Sequences, FiniteSets

CONSTANTS Rects,             \* the cells of the layout
          BoundsW, BoundsH,  \* the world rectangle, from the origin
          MaxDepth, MaxPerNode,
          Places,            \* coordinates of the points asked about
          Corners, Sizes     \* of the rectangles asked about

ContainsRect(node, rect) ==
  /\ rect.x >= node.x /\ rect.x + rect.w <= node.x + node.w
  /\ rect.y >= node.y /\ rect.y + rect.h <= node.y + node.h

\* Closed: rectangles that only touch intersect.
Intersects(node, rect) ==
  /\ rect.x <= node.x + node.w /\ rect.x + rect.w >= node.x
  /\ rect.y <= node.y + node.h /\ rect.y + rect.h >= node.y

\* Half-open on the right and at the bottom.
ClosedEdges(rect, x, y) ==
  x >= rect.x /\ x <= rect.x + rect.w /\ y >= rect.y /\ y <= rect.y + rect.h
ContainsPoint(rect, x, y) ==
  x >= rect.x /\ x < rect.x + rect.w /\ y >= rect.y /\ y < rect.y + rect.h

World == [x |-> 0, y |-> 0, w |-> BoundsW, h |-> BoundsH]

\* As buildGeometry lays cells out: beside or below one another, within the
\* bounds.  The unit is fine enough for every half to be whole.
ASSUME TreeAssumption ==
  /\ {MaxDepth, MaxPerNode, BoundsW, BoundsH} \subseteq Nat
  /\ BoundsW % 2 ^ MaxDepth = 0 /\ BoundsH % 2 ^ MaxDepth = 0
  /\ \A c \in Rects : /\ {c.x, c.y} \subseteq Int /\ {c.w, c.h} \subseteq Nat \ {0}
                      /\ ContainsRect(World, c)
  /\ \A c, d \in Rects : c = d \/ c.x + c.w <= d.x \/ d.x + d.w <= c.x
                               \/ c.y + c.h <= d.y \/ d.y + d.h <= c.y
  /\ Places \cup Corners \subseteq Int /\ Sizes \subseteq Nat

VARIABLES put,    \* the cells handed to buildQuadtree so far
          tree,   \* the nodes, by path
          calls   \* calls of insert: at which node, with which cell

treeVars == <<put, tree, calls>>

Quadrant == 1..4

Node(box) == [box |-> box, items |-> {}, split |-> FALSE]

\* makeNode, four times: left and right above, left and right below.
Part(box, k) ==
  LET hw == box.w \div 2  hh == box.h \div 2
  IN [x |-> IF k \in {2, 4} THEN box.x + hw ELSE box.x,
      y |-> IF k \in {3, 4} THEN box.y + hh ELSE box.y, w |-> hw, h |-> hh]

TreeInit ==
  /\ put = {} /\ calls = {}
  /\ tree = [p \in {<<>>} |-> Node(World)]

-----------------------------------------------------------------------------
(* Inserting.                                                              *)

\* buildQuadtree: one cell after the other, each inserted at the root.
Put(cell) ==
  /\ calls = {} /\ cell \notin put
  /\ put' = put \cup {cell}
  /\ calls' = {[at |-> <<>>, cell |-> cell]}
  /\ UNCHANGED tree

\* The first quadrant that holds the cell; none when it straddles a boundary.
Touched(box, rect) == {k \in Quadrant : Intersects(Part(box, k), rect)}
Holding(box, rect) == {k \in Quadrant : ContainsRect(Part(box, k), rect)}
ChildFor(box, rect) == {k \in Holding(box, rect) : \A j \in Holding(box, rect) : k <= j}
Straddles(box, rect) == Holding(box, rect) = {}

Below(c, cell) == {[at |-> Append(c.at, k), cell |-> cell] : k \in ChildFor(tree[c.at].box, cell)}

GoDown(c) ==
  /\ tree[c.at].split /\ ~Straddles(tree[c.at].box, c.cell)
  /\ calls' = (calls \ {c}) \cup Below(c, c.cell)
  /\ UNCHANGED <<put, tree>>

Pushed(c) == tree[c.at].items \cup {c.cell}
Crowded(c) == ~tree[c.at].split /\ Cardinality(Pushed(c)) > MaxPerNode
Overflows(c) ==
  ~tree[c.at].split /\ Cardinality(Pushed(c)) > MaxPerNode /\ Len(c.at) < MaxDepth

Push(c) ==
  /\ tree[c.at].split => Straddles(tree[c.at].box, c.cell)
  /\ ~Overflows(c)
  /\ tree' = [tree EXCEPT ![c.at].items = Pushed(c)]
  /\ calls' = calls \ {c}
  /\ UNCHANGED put

\* Too full: what can move down moves, what straddles a boundary stays put.
Children(c) == {Append(c.at, k) : k \in Quadrant}
Staying(c) == {d \in Pushed(c) : Straddles(tree[c.at].box, d)}
Split(c) ==
  /\ Overflows(c)
  /\ tree' = [p \in DOMAIN tree \cup Children(c) |->
                CASE p = c.at -> [tree[p] EXCEPT !.split = TRUE, !.items = Staying(c)]
                  [] p \in Children(c) -> Node(Part(tree[c.at].box, p[Len(p)]))
                  [] OTHER -> tree[p]]
  /\ calls' = (calls \ {c}) \cup UNION {Below(c, d) : d \in Pushed(c)}
  /\ UNCHANGED put

TreeNext ==
  \/ \E cell \in Rects : Put(cell)
  \/ \E c \in calls : GoDown(c) \/ Push(c) \/ Split(c)

TreeSpec == TreeInit /\ [][TreeNext]_treeVars

-----------------------------------------------------------------------------
(* Asking, of a tree that is built.                                        *)

Built == put # {} /\ calls = {}

\* The nodes on the way to a node, the node too.
Way(p) == {SubSeq(p, 1, k) : k \in 0..Len(p)}

Outside(box, x, y) == x < box.x \/ x > box.x + box.w \/ y < box.y \/ y > box.y + box.h

\* queryPoint returns the first it comes to of these.
QueryPoint(x, y) ==
  LET reached == {p \in DOMAIN tree : \A q \in Way(p) : ~Outside(tree[q].box, x, y)}
  IN UNION {{c \in tree[p].items : ContainsPoint(c, x, y)} : p \in reached}

\* queryRect: what is pushed to `out`, and from which node.
QueryRect(rect) ==
  LET reached == {p \in DOMAIN tree : \A q \in Way(p) : Intersects(tree[q].box, rect)}
  IN UNION {{<<p, c>> : c \in {d \in tree[p].items : Intersects(d, rect)}} : p \in reached}

-----------------------------------------------------------------------------
(* Properties.                                                             *)

\* The nodes, by paths no longer than maxDepth, and the calls of insert.
TreeTypeOK ==
  /\ put \subseteq Rects
  /\ \A p \in DOMAIN tree :
       /\ p \in Seq(Quadrant) /\ Len(p) <= MaxDepth
       /\ tree[p].items \subseteq put /\ tree[p].split \in BOOLEAN
       /\ {tree[p].box.x, tree[p].box.y} \subseteq Int /\ {tree[p].box.w, tree[p].box.h} \subseteq Nat
  /\ \A c \in calls : c.at \in DOMAIN tree /\ c.cell \in put

\* "So queryPoint returning the first containing rectangle is exact rather
\* than a nearest-match approximation": a click finds the cell whose half-open
\* rectangle it is in, on the edge of two neighbours or of two quadrants too,
\* and none where there is none.
HitTestIsExact ==
  Built =>
    \A x, y \in Places :
      LET hits == {c \in put : ContainsPoint(c, x, y)}  found == QueryPoint(x, y)
      IN IF hits = {} THEN found = {} ELSE found # {} /\ \A c \in found : hits = {c}

\* Culling draws every cell that touches what is asked for, once, and no
\* other, however the cells were spread over the tree.
CullingIsExact ==
  Built =>
    \A x, y \in Corners, w, h \in Sizes :
      LET asked == [x |-> x, y |-> y, w |-> w, h |-> h]
          drawn == QueryRect(asked)
      IN /\ {d[2] : d \in drawn} = {c \in put : Intersects(c, asked)}
         /\ \A d, e \in drawn : d[2] = e[2] => d = e
=============================================================================
