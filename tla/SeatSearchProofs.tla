-------------------------- MODULE SeatSearchProofs --------------------------
(***************************************************************************)
(* Theorems of the two searches of the page: Quadtree, for any cells that  *)
(* do not overlap, any bounds, depth and capacity and any order of         *)
(* insertion; BestSeats, for any rows and any sales.  At the end, of all   *)
(* the parts that EdgesMC puts side by side.                               *)
(***************************************************************************)
EXTENDS EdgesMC, ServerEdgesProofs, SeatCanvasProofs, Highest, SequenceTheorems, TLAPS

-----------------------------------------------------------------------------
(* The tree.                                                               *)

Box == [x : Int, y : Int, w : Nat, h : Nat]
TreeNode == [box : Box, items : SUBSET Rects, split : BOOLEAN]

Shaped ==
  /\ put \subseteq Rects
  /\ tree \in [DOMAIN tree -> TreeNode]
  /\ \A p \in DOMAIN tree : /\ p \in Seq(Quadrant) /\ Len(p) <= MaxDepth
                            /\ tree[p].items \subseteq put
  /\ calls \subseteq [at : DOMAIN tree, cell : put]

\* The nodes above a node are in the tree too, up to the root.
Rooted == /\ <<>> \in DOMAIN tree /\ tree[<<>>].box = World
          /\ \A p \in DOMAIN tree : Way(p) \subseteq DOMAIN tree

\* A node has its children exactly when it has been split.
Branched ==
  \A p \in DOMAIN tree : \A k \in Quadrant : tree[p].split <=> Append(p, k) \in DOMAIN tree
Parted ==
  \A p \in DOMAIN tree : \A k \in Quadrant :
    Append(p, k) \in DOMAIN tree => tree[Append(p, k)].box = Part(tree[p].box, k)

\* A cell lies within every node on the way to where it is.
InSide(p, cell) == \A q \in Way(p) : ContainsRect(tree[q].box, cell)
Enclosed == /\ \A p \in DOMAIN tree : \A cell \in tree[p].items : InSide(p, cell)
            /\ \A c \in calls : InSide(c.at, c.cell)

\* Every cell is somewhere, once: in one node, or in one call.
InNode(cell) == \E p \in DOMAIN tree : cell \in tree[p].items
InCall(cell) == \E c \in calls : c.cell = cell
Somewhere == \A cell \in put : InNode(cell) \/ InCall(cell)
Once ==
  /\ \A p, q \in DOMAIN tree : \A cell \in tree[p].items : cell \in tree[q].items => p = q
  /\ \A c \in calls, p \in DOMAIN tree : c.cell \notin tree[p].items
  /\ \A c, d \in calls : c.cell = d.cell => c = d

TreeInv == Shaped /\ Rooted /\ Branched /\ Parted /\ Enclosed /\ Somewhere /\ Once

-----------------------------------------------------------------------------
(* Paths and boxes.                                                        *)

LEMMA WayOfRoot == Way(<<>>) = {<<>>}
<1>1. \A k \in 0..Len(<<>>) : k = 0 /\ SubSeq(<<>>, 1, k) = <<>>
  BY SubSeqEmpty
<1>2. 0 \in 0..Len(<<>>)
  OBVIOUS
<1> QED
  BY <1>1, <1>2 DEF Way

LEMMA WayDown ==
  ASSUME NEW p \in Seq(Quadrant), NEW k \in Quadrant
  PROVE  /\ Append(p, k) \in Seq(Quadrant) /\ Len(Append(p, k)) = Len(p) + 1
         /\ Append(p, k)[Len(Append(p, k))] = k
         /\ Way(Append(p, k)) = Way(p) \cup {Append(p, k)}
         /\ p \in Way(p) /\ Append(p, k) # p /\ Append(p, k) # <<>>
<1> DEFINE a == Append(p, k)
<1>1. a \in Seq(Quadrant) /\ Len(a) = Len(p) + 1 /\ a[Len(a)] = k /\ Len(p) \in Nat
      /\ \A i \in 1..Len(p) : a[i] = p[i]
  BY AppendProperties, LenProperties
<1>2. ASSUME NEW j \in 0..Len(p) PROVE SubSeq(a, 1, j) = SubSeq(p, 1, j)
  <2>1. /\ \A i \in 1..j : a[i] \in Quadrant /\ p[i] \in Quadrant
    BY <1>1, <1>2, ElementOfSeq
  <2>2. /\ SubSeq(a, 1, j) \in Seq(Quadrant) /\ SubSeq(p, 1, j) \in Seq(Quadrant)
        /\ Len(SubSeq(a, 1, j)) = j /\ Len(SubSeq(p, 1, j)) = j
        /\ \A i \in 1..j : SubSeq(a, 1, j)[i] = a[i] /\ SubSeq(p, 1, j)[i] = p[i]
    BY <1>1, <2>1, SubSeqProperties
  <2> QED
    BY <1>1, <1>2, <2>2, SeqEqual
<1>3. SubSeq(a, 1, Len(p) + 1) = a /\ SubSeq(p, 1, Len(p)) = p
  BY <1>1, SubSeqFull
<1>4. 0..Len(a) = 0..Len(p) \cup {Len(p) + 1}
  BY <1>1
<1>5. Way(a) = Way(p) \cup {a}
  BY <1>2, <1>3, <1>4 DEF Way
<1>6. p \in Way(p)
  <2>1. Len(p) \in 0..Len(p)
    BY <1>1
  <2> QED
    BY <1>3, <2>1, Zenon DEF Way
<1>7. a # p /\ a # <<>>
  BY <1>1, EmptySeq
<1> QED
  BY <1>1, <1>5, <1>6, <1>7

LEMMA OneParent ==
  ASSUME NEW p \in Seq(Quadrant), NEW q \in Seq(Quadrant), NEW j \in Quadrant, NEW k \in Quadrant,
         Append(p, j) = Append(q, k)
  PROVE  p = q /\ j = k
<1>1. /\ Len(p) \in Nat /\ Len(q) \in Nat
      /\ Len(Append(p, j)) = Len(p) + 1 /\ Len(Append(q, k)) = Len(q) + 1
      /\ \A i \in 1..Len(p) : Append(p, j)[i] = p[i]
      /\ \A i \in 1..Len(q) : Append(q, k)[i] = q[i]
      /\ Append(p, j)[Len(p) + 1] = j /\ Append(q, k)[Len(q) + 1] = k
  BY AppendProperties, LenProperties
<1>2. Len(p) = Len(q) /\ j = k
  BY <1>1
<1>3. \A i \in 1..Len(p) : p[i] = q[i]
  BY <1>1, <1>2
<1> QED
  BY <1>2, <1>3, SeqEqual

LEMMA PartIsBox == ASSUME NEW box \in Box, NEW k PROVE Part(box, k) \in Box
BY DEF Box, Part

LEMMA CellIsBox == \A cell \in Rects : /\ cell.x \in Int /\ cell.y \in Int
                                       /\ cell.w \in Nat \ {0} /\ cell.h \in Nat \ {0}
                                       /\ ContainsRect(World, cell)
BY TreeAssumption

\* The call goes on in one child, which holds the cell, or stays.
LEMMA OneChild ==
  ASSUME NEW box, NEW cell, ~Straddles(box, cell)
  PROVE  \E k \in Quadrant : ChildFor(box, cell) = {k} /\ ContainsRect(Part(box, k), cell)
<1>1. Holding(box, cell) \subseteq Quadrant /\ Holding(box, cell) # {}
  BY DEF Straddles, Holding
<1>2. PICK k \in Holding(box, cell) : \A j \in Holding(box, cell) : k <= j
  BY <1>1 DEF Quadrant
<1>3. ChildFor(box, cell) = {k}
  BY <1>1, <1>2 DEF ChildFor, Quadrant
<1> QED
  BY <1>1, <1>2, <1>3 DEF Holding

LEMMA NoChild == ASSUME NEW box, NEW cell, Straddles(box, cell) PROVE ChildFor(box, cell) = {}
BY DEF Straddles, ChildFor

-----------------------------------------------------------------------------
(* The steps of the tree.                                                  *)

\* A call is of a cell that was put, at a node that is there.
LEMMA CallIs ==
  ASSUME TreeInv, NEW c \in calls
  PROVE  /\ c.at \in DOMAIN tree /\ c.cell \in put /\ c.cell \in Rects
         /\ c = [at |-> c.at, cell |-> c.cell]
         /\ c.at \in Seq(Quadrant) /\ Len(c.at) \in Nat
         /\ tree[c.at] \in TreeNode /\ tree[c.at].box \in Box
         /\ Way(c.at) \subseteq DOMAIN tree /\ InSide(c.at, c.cell)
BY LenProperties DEF TreeInv, Shaped, TreeNode, Rooted, Enclosed

LEMMA TreeStarts == TreeInit => TreeInv
<1> SUFFICES ASSUME TreeInit PROVE TreeInv
  OBVIOUS
<1>1. World \in Box
  BY TreeAssumption DEF World, Box
<1>2. /\ DOMAIN tree = {<<>>} /\ tree[<<>>] = Node(World) /\ tree \in [DOMAIN tree -> TreeNode]
      /\ put = {} /\ calls = {}
  BY <1>1 DEF TreeInit, Node, TreeNode
<1>3. tree[<<>>].box = World /\ tree[<<>>].items = {} /\ tree[<<>>].split = FALSE
  BY <1>2 DEF Node
<1>4. <<>> \in Seq(Quadrant) /\ Len(<<>>) = 0 /\ 0 <= MaxDepth
  BY TreeAssumption, EmptySeq
<1>5. Shaped
  BY <1>2, <1>3, <1>4 DEF Shaped
<1>6. Rooted
  BY <1>2, <1>3, WayOfRoot DEF Rooted
<1>7. \A k \in Quadrant : Append(<<>>, k) \notin DOMAIN tree
  BY <1>2, <1>4, WayDown
<1>8. Branched /\ Parted
  BY <1>2, <1>3, <1>7 DEF Branched, Parted
<1>9. Enclosed /\ Somewhere /\ Once
  BY <1>2, <1>3 DEF Enclosed, Somewhere, Once
<1> QED
  BY <1>5, <1>6, <1>8, <1>9 DEF TreeInv

LEMMA PutKeeps == ASSUME TreeInv, NEW cell \in Rects, Put(cell) PROVE TreeInv'
<1> DEFINE new == [at |-> <<>>, cell |-> cell]
<1>1. /\ calls = {} /\ cell \notin put /\ put' = put \cup {cell} /\ calls' = {new} /\ tree' = tree
  BY DEF Put
<1>2. Shaped' /\ Rooted' /\ Branched' /\ Parted'
  BY <1>1 DEF TreeInv, Shaped, Rooted, Branched, Parted
<1>3. \A p, d : InSide(p, d)' <=> InSide(p, d)
  BY <1>1 DEF InSide
<1>4. InSide(<<>>, cell)
  BY WayOfRoot, CellIsBox DEF TreeInv, Rooted, InSide
<1>5. Enclosed'
  BY <1>1, <1>3, <1>4 DEF TreeInv, Enclosed
<1>6. Somewhere'
  BY <1>1 DEF TreeInv, Somewhere, InNode, InCall
<1>7. Once'
  BY <1>1 DEF TreeInv, Once, Shaped
<1> QED
  BY <1>2, <1>5, <1>6, <1>7 DEF TreeInv

LEMMA GoDownKeeps == ASSUME TreeInv, NEW c \in calls, GoDown(c) PROVE TreeInv'
<1>1. PICK k \in Quadrant : /\ ChildFor(tree[c.at].box, c.cell) = {k}
                            /\ ContainsRect(Part(tree[c.at].box, k), c.cell)
  BY OneChild DEF GoDown
<1> DEFINE a == Append(c.at, k)
           new == [at |-> a, cell |-> c.cell]
<1>2. calls' = (calls \ {c}) \cup {new} /\ put' = put /\ tree' = tree /\ tree[c.at].split
  BY <1>1 DEF GoDown, Below
<1>3. a \in DOMAIN tree /\ tree[a].box = Part(tree[c.at].box, k)
  BY <1>2, CallIs DEF TreeInv, Branched, Parted
<1>4. Way(a) = Way(c.at) \cup {a}
  BY CallIs, WayDown
<1>5. InSide(a, c.cell)
  BY <1>1, <1>3, <1>4, CallIs DEF InSide
<1>6. Shaped' /\ Rooted' /\ Branched' /\ Parted'
  <2>1. c.cell \in put
    BY CallIs
  <2>2. new \in [at : DOMAIN tree, cell : put]
    BY <1>3, <2>1
  <2>3. calls' \subseteq [at : DOMAIN tree', cell : put']
    BY <1>2, <2>2 DEF TreeInv, Shaped
  <2>4. Shaped'
    BY <1>2, <2>3 DEF TreeInv, Shaped
  <2>5. Rooted' /\ Branched' /\ Parted'
    BY <1>2 DEF TreeInv, Rooted, Branched, Parted
  <2> QED
    BY <2>4, <2>5
<1>7. \A p, d : InSide(p, d)' <=> InSide(p, d)
  BY <1>2 DEF InSide
<1>8. Enclosed'
  <2>1. \A p \in DOMAIN tree' : \A d \in tree'[p].items : InSide(p, d)'
    BY <1>2, <1>7 DEF TreeInv, Enclosed
  <2>2. \A d \in calls : InSide(d.at, d.cell)'
    BY <1>7 DEF TreeInv, Enclosed
  <2>3. InSide(a, c.cell)'
    BY <1>5, <1>7
  <2>4. \A d \in calls' : d \in calls \/ (d.at = a /\ d.cell = c.cell)
    BY <1>2
  <2>5. \A d \in calls' : InSide(d.at, d.cell)'
    BY <2>2, <2>3, <2>4
  <2> QED
    BY <2>1, <2>5 DEF Enclosed
<1>9. Somewhere'
  <2>1. new \in calls' /\ new.cell = c.cell /\ \A d \in calls : d = c \/ d \in calls'
    BY <1>2
  <2>2. \A d \in put : InCall(d) => InCall(d)'
    BY <2>1 DEF InCall
  <2>3. \A d \in put : InNode(d) => InNode(d)'
    BY <1>2 DEF InNode
  <2> QED
    BY <1>2, <2>2, <2>3 DEF TreeInv, Somewhere
<1>10. Once'
  <2>1. \A d \in calls' : (d \in calls /\ d # c) \/ (d = new /\ d.cell = c.cell)
    BY <1>2
  <2>2. \A p \in DOMAIN tree : c.cell \notin tree[p].items
    BY DEF TreeInv, Once
  <2>3. \A d \in calls : d # c => d.cell # c.cell
    BY DEF TreeInv, Once
  <2>4. \A d, e \in calls' : d.cell = e.cell => d = e
    BY <2>1, <2>3 DEF TreeInv, Once
  <2>5. \A d \in calls', p \in DOMAIN tree : d.cell \notin tree[p].items
    BY <2>1, <2>2 DEF TreeInv, Once
  <2> QED
    BY <1>2, <2>4, <2>5 DEF TreeInv, Once
<1> QED
  BY <1>6, <1>8, <1>9, <1>10 DEF TreeInv

LEMMA PushKeeps == ASSUME TreeInv, NEW c \in calls, Push(c) PROVE TreeInv'
<1>1. /\ tree' = [tree EXCEPT ![c.at].items = Pushed(c)] /\ calls' = calls \ {c} /\ put' = put
  BY DEF Push
<1>2. /\ DOMAIN tree' = DOMAIN tree
      /\ \A p \in DOMAIN tree : /\ tree'[p].box = tree[p].box /\ tree'[p].split = tree[p].split
                                /\ tree'[p] \in TreeNode
                                /\ p # c.at => tree'[p].items = tree[p].items
      /\ tree'[c.at].items = tree[c.at].items \cup {c.cell}
      /\ tree' \in [DOMAIN tree' -> TreeNode]
  BY <1>1, CallIs DEF TreeInv, Shaped, TreeNode, Pushed
<1>3. \A p \in DOMAIN tree' : tree'[p].items \subseteq put'
  <2>1. c.cell \in put /\ \A p \in DOMAIN tree : tree[p].items \subseteq put
    BY CallIs DEF TreeInv, Shaped
  <2>2. \A p \in DOMAIN tree : tree'[p].items \subseteq tree[p].items \cup {c.cell}
    BY <1>2
  <2> QED
    BY <1>1, <1>2, <2>1, <2>2
<1>4. Shaped'
  BY <1>1, <1>2, <1>3 DEF TreeInv, Shaped
<1>5. Rooted' /\ Branched' /\ Parted'
  BY <1>2 DEF TreeInv, Rooted, Branched, Parted
<1>6. \A p \in DOMAIN tree : \A d : InSide(p, d)' <=> InSide(p, d)
  BY <1>2 DEF TreeInv, Rooted, InSide
<1>7. Enclosed'
  <2>1. c.at \in DOMAIN tree /\ InSide(c.at, c.cell)'
    BY <1>6, CallIs
  <2>2. \A p \in DOMAIN tree : \A d \in tree[p].items : InSide(p, d)'
    BY <1>6 DEF TreeInv, Enclosed
  <2>3. \A p \in DOMAIN tree : \A d \in tree'[p].items : d \in tree[p].items \/ (p = c.at /\ d = c.cell)
    BY <1>2
  <2>4. \A d \in calls' : d \in calls /\ d.at \in DOMAIN tree
    BY <1>1, CallIs
  <2>5. \A d \in calls' : InSide(d.at, d.cell)'
    BY <1>6, <2>4 DEF TreeInv, Enclosed
  <2> QED
    BY <1>2, <2>1, <2>2, <2>3, <2>5 DEF Enclosed
<1>8. Somewhere'
  <2>1. \A d : InNode(d) => InNode(d)'
    BY <1>2 DEF InNode
  <2>2. InNode(c.cell)'
    BY <1>2, CallIs DEF InNode
  <2>3. \A d \in put : InCall(d) => InCall(d)' \/ d = c.cell
    BY <1>1 DEF InCall
  <2> QED
    BY <1>1, <2>1, <2>2, <2>3 DEF TreeInv, Somewhere
<1>9. Once'
  <2>1. \A p \in DOMAIN tree : \A d \in tree'[p].items : d \in tree[p].items \/ (p = c.at /\ d = c.cell)
    BY <1>2
  <2>2. \A d \in calls' : d \in calls /\ d # c
    BY <1>1
  <2> QED
    BY <1>2, <2>1, <2>2 DEF TreeInv, Once
<1> QED
  BY <1>4, <1>5, <1>7, <1>8, <1>9 DEF TreeInv

\* What Split leaves: the node with what straddles, four new ones, and a call
\* for each cell that moves.
LEMMA SplitDoes ==
  ASSUME TreeInv, NEW c \in calls, Split(c)
  PROVE  /\ put' = put
         /\ DOMAIN tree' = DOMAIN tree \cup Children(c)
         /\ DOMAIN tree \cap Children(c) = {}
         /\ \A p \in DOMAIN tree : p # c.at => tree'[p] = tree[p]
         /\ tree'[c.at].box = tree[c.at].box /\ tree'[c.at].split = TRUE
         /\ tree'[c.at].items = Staying(c) /\ tree'[c.at] \in TreeNode
         /\ \A k \in Quadrant : tree'[Append(c.at, k)] = Node(Part(tree[c.at].box, k))
         /\ tree' \in [DOMAIN tree' -> TreeNode]
         /\ ~tree[c.at].split /\ Len(c.at) < MaxDepth
<1>1. /\ c.at \in DOMAIN tree /\ c.at \in Seq(Quadrant) /\ tree[c.at] \in TreeNode
      /\ c.cell \in Rects /\ tree[c.at].box \in Box
  BY CallIs
<1>2. ~tree[c.at].split /\ Len(c.at) < MaxDepth
  BY DEF Split, Overflows
<1>3. \A k \in Quadrant : Append(c.at, k) \notin DOMAIN tree
  BY <1>1, <1>2 DEF TreeInv, Branched
<1>4. DOMAIN tree \cap Children(c) = {}
  BY <1>3 DEF Children
<1>5. /\ tree' = [p \in DOMAIN tree \cup Children(c) |->
                CASE p = c.at -> [tree[p] EXCEPT !.split = TRUE, !.items = Staying(c)]
                  [] p \in Children(c) -> Node(Part(tree[c.at].box, p[Len(p)]))
                  [] OTHER -> tree[p]]
      /\ put' = put
  BY DEF Split
<1>6. \A p \in DOMAIN tree : p # c.at => tree'[p] = tree[p]
  BY <1>4, <1>5
<1>7. tree'[c.at] = [tree[c.at] EXCEPT !.split = TRUE, !.items = Staying(c)]
  <2> DEFINE left == [tree[c.at] EXCEPT !.split = TRUE, !.items = Staying(c)]
  <2>1. c.at \in DOMAIN tree \cup Children(c) /\ c.at \notin Children(c)
    BY <1>1, <1>4
  <2>2. tree'[c.at] = CASE c.at = c.at -> left
                        [] c.at \in Children(c) -> Node(Part(tree[c.at].box, c.at[Len(c.at)]))
                        [] OTHER -> tree[c.at]
    BY <1>5, <2>1, Zenon
  <2> HIDE DEF left
  <2>3. tree'[c.at] = left
    BY <2>1, <2>2
  <2> QED
    BY <2>3 DEF left
<1>8. Staying(c) \subseteq Rects
  BY <1>1 DEF Staying, Pushed, TreeNode
<1>9. /\ tree'[c.at].box = tree[c.at].box /\ tree'[c.at].split = TRUE
      /\ tree'[c.at].items = Staying(c) /\ tree'[c.at] \in TreeNode
  BY <1>1, <1>7, <1>8 DEF TreeNode
<1>10. ASSUME NEW k \in Quadrant PROVE tree'[Append(c.at, k)] = Node(Part(tree[c.at].box, k))
  <2>1. Append(c.at, k) \in Children(c) /\ Append(c.at, k) # c.at
    BY <1>1, WayDown DEF Children
  <2>2. Append(c.at, k)[Len(Append(c.at, k))] = k
    BY <1>1, WayDown
  <2> QED
    BY <1>5, <2>1, <2>2
<1>11. \A k \in Quadrant : Node(Part(tree[c.at].box, k)) \in TreeNode
  BY <1>1, PartIsBox DEF Node, TreeNode
<1>12. \A p \in DOMAIN tree \cup Children(c) : tree'[p] \in TreeNode
  <2>1. \A p \in DOMAIN tree : tree[p] \in TreeNode
    BY DEF TreeInv, Shaped
  <2>2. \A p \in DOMAIN tree : tree'[p] \in TreeNode
    BY <1>6, <1>9, <2>1
  <2>3. \A p \in Children(c) : tree'[p] \in TreeNode
    BY <1>10, <1>11 DEF Children
  <2> QED
    BY <2>2, <2>3
<1>13. tree' \in [DOMAIN tree' -> TreeNode] /\ DOMAIN tree' = DOMAIN tree \cup Children(c)
  BY <1>5, <1>12
<1> QED
  BY <1>2, <1>4, <1>5, <1>6, <1>9, <1>10, <1>13

\* A new call is of a cell the node had, and at the child that holds it.
LEMMA SplitCalls ==
  ASSUME TreeInv, NEW c \in calls, Split(c)
  PROVE  /\ \A d \in calls' : (d \in calls /\ d # c) \/ d.cell \in Pushed(c) \ Staying(c)
         /\ \A d \in calls' : d \notin calls \ {c} =>
              \E k \in Quadrant : /\ d = [at |-> Append(c.at, k), cell |-> d.cell]
                                  /\ ChildFor(tree[c.at].box, d.cell) = {k}
                                  /\ ContainsRect(Part(tree[c.at].box, k), d.cell)
         /\ \A cell \in Pushed(c) \ Staying(c) : \E d \in calls' : d.cell = cell
         /\ calls \ {c} \subseteq calls'
<1> DEFINE box == tree[c.at].box
<1>1. calls' = (calls \ {c}) \cup UNION {Below(c, d) : d \in Pushed(c)}
  BY DEF Split
<1>2. \A cell \in Pushed(c) : cell \in Staying(c) <=> Straddles(box, cell)
  BY DEF Staying
<1>3. ASSUME NEW cell \in Pushed(c), cell \in Staying(c) PROVE Below(c, cell) = {}
  BY <1>2, <1>3, NoChild DEF Below
<1>4. ASSUME NEW cell \in Pushed(c), cell \notin Staying(c)
      PROVE  \E k \in Quadrant : /\ Below(c, cell) = {[at |-> Append(c.at, k), cell |-> cell]}
                                 /\ ChildFor(box, cell) = {k}
                                 /\ ContainsRect(Part(box, k), cell)
  <2>1. PICK k \in Quadrant : ChildFor(box, cell) = {k} /\ ContainsRect(Part(box, k), cell)
    BY <1>2, <1>4, OneChild
  <2>2. Below(c, cell) = {[at |-> Append(c.at, k), cell |-> cell]}
    BY <2>1 DEF Below
  <2> QED
    BY <2>1, <2>2
<1>5. ASSUME NEW d \in calls', d \notin calls \ {c}
      PROVE  /\ d.cell \in Pushed(c) \ Staying(c)
             /\ \E k \in Quadrant : /\ d = [at |-> Append(c.at, k), cell |-> d.cell]
                                    /\ ChildFor(box, d.cell) = {k}
                                    /\ ContainsRect(Part(box, k), d.cell)
  <2>1. PICK cell \in Pushed(c) : d \in Below(c, cell)
    BY <1>1, <1>5
  <2>2. cell \notin Staying(c)
    BY <1>3, <2>1
  <2>3. PICK k \in Quadrant : /\ Below(c, cell) = {[at |-> Append(c.at, k), cell |-> cell]}
                              /\ ChildFor(box, cell) = {k}
                              /\ ContainsRect(Part(box, k), cell)
    BY <1>4, <2>2
  <2>4. d = [at |-> Append(c.at, k), cell |-> cell] /\ d.cell = cell
    BY <2>1, <2>3
  <2> QED
    BY <2>2, <2>3, <2>4
<1>6. ASSUME NEW cell \in Pushed(c) \ Staying(c) PROVE \E d \in calls' : d.cell = cell
  <2>1. PICK k \in Quadrant : Below(c, cell) = {[at |-> Append(c.at, k), cell |-> cell]}
    BY <1>4
  <2>2. [at |-> Append(c.at, k), cell |-> cell] \in calls'
    BY <1>1, <2>1
  <2> QED
    BY <2>2
<1>7. calls \ {c} \subseteq calls'
  BY <1>1
<1> QED
  BY <1>5, <1>6, <1>7

LEMMA SplitKeeps == ASSUME TreeInv, NEW c \in calls, Split(c) PROVE TreeInv'
<1> DEFINE box == tree[c.at].box
           child(k) == Append(c.at, k)
<1>1. /\ c.at \in DOMAIN tree /\ c.cell \in put /\ c.at \in Seq(Quadrant) /\ Len(c.at) \in Nat
      /\ Way(c.at) \subseteq DOMAIN tree /\ InSide(c.at, c.cell)
  BY CallIs
<1>2. /\ put' = put
      /\ DOMAIN tree' = DOMAIN tree \cup Children(c)
      /\ DOMAIN tree \cap Children(c) = {}
      /\ \A p \in DOMAIN tree : p # c.at => tree'[p] = tree[p]
      /\ tree'[c.at].box = box /\ tree'[c.at].split = TRUE /\ tree'[c.at].items = Staying(c)
      /\ tree' \in [DOMAIN tree' -> TreeNode]
      /\ ~tree[c.at].split /\ Len(c.at) < MaxDepth
  BY SplitDoes
<1>3. \A k \in Quadrant : /\ tree'[child(k)].box = Part(box, k)
                          /\ tree'[child(k)].items = {} /\ tree'[child(k)].split = FALSE
  <2>1. \A k \in Quadrant : tree'[child(k)] = Node(Part(box, k))
    BY SplitDoes
  <2>2. \A b : Node(b).box = b /\ Node(b).items = {} /\ Node(b).split = FALSE
    BY DEF Node
  <2> QED
    BY <2>1, <2>2
<1>4. \A p \in Children(c) : \E k \in Quadrant : p = child(k)
  BY DEF Children
<1>5. \A k \in Quadrant : child(k) \in Children(c)
  BY DEF Children
<1>6. \A p \in DOMAIN tree : tree'[p].box = tree[p].box
  BY <1>2
<1>7. /\ Staying(c) \subseteq Pushed(c) /\ Pushed(c) = tree[c.at].items \cup {c.cell}
      /\ Pushed(c) \subseteq put
  BY <1>1 DEF Staying, Pushed, TreeInv, Shaped
<1>8. Shaped'
  <2>1. \A p \in DOMAIN tree : /\ p \in Seq(Quadrant) /\ Len(p) <= MaxDepth
                               /\ tree[p].items \subseteq put
    BY DEF TreeInv, Shaped
  <2>2. ASSUME NEW k \in Quadrant PROVE child(k) \in Seq(Quadrant) /\ Len(child(k)) <= MaxDepth
    <3>1. child(k) \in Seq(Quadrant) /\ Len(child(k)) = Len(c.at) + 1
      BY <1>1, WayDown
    <3> QED
      BY <1>1, <1>2, <3>1, TreeAssumption
  <2>3. \A p \in DOMAIN tree' : /\ p \in Seq(Quadrant) /\ Len(p) <= MaxDepth
                                /\ tree'[p].items \subseteq put
    <3>1. \A p \in DOMAIN tree : tree'[p].items \subseteq put
      BY <1>2, <1>7, <2>1
    <3>2. \A p \in Children(c) : /\ p \in Seq(Quadrant) /\ Len(p) <= MaxDepth
                                 /\ tree'[p].items \subseteq put
      BY <1>3, <1>4, <2>2
    <3> QED
      BY <1>2, <2>1, <3>1, <3>2
  <2>4. ASSUME NEW d \in calls' PROVE d \in [at : DOMAIN tree', cell : put]
    <3>1. CASE d \in calls \ {c}
      <4>1. d \in [at : DOMAIN tree, cell : put]
        BY <3>1 DEF TreeInv, Shaped
      <4> QED
        BY <1>2, <4>1
    <3>2. CASE d \notin calls \ {c}
      <4>1. PICK k \in Quadrant : d = [at |-> child(k), cell |-> d.cell]
        BY <3>2, SplitCalls
      <4>2. d.cell \in put
        BY <1>7, <3>2, SplitCalls
      <4>3. child(k) \in DOMAIN tree'
        BY <1>2, <1>5
      <4> HIDE DEF child
      <4>4. [at |-> child(k), cell |-> d.cell] \in [at : DOMAIN tree', cell : put]
        BY <4>2, <4>3
      <4> QED
        BY <4>1, <4>4
    <3> QED
      BY <3>1, <3>2
  <2>5. put \subseteq Rects
    BY DEF TreeInv, Shaped
  <2> QED
    BY <1>2, <2>3, <2>4, <2>5 DEF Shaped
<1>9. Rooted'
  <2>1. ASSUME NEW k \in Quadrant PROVE Way(child(k)) \subseteq DOMAIN tree'
    <3>1. Way(child(k)) = Way(c.at) \cup {child(k)}
      BY <1>1, WayDown
    <3> QED
      BY <1>1, <1>2, <1>5, <3>1
  <2> QED
    BY <1>2, <1>4, <1>6, <2>1 DEF TreeInv, Rooted
<1>10. ASSUME NEW p \in DOMAIN tree, NEW k \in Quadrant, p # c.at
       PROVE  Append(p, k) \notin Children(c)
  <2>1. p \in Seq(Quadrant)
    BY DEF TreeInv, Shaped
  <2>2. \A j \in Quadrant : Append(p, k) # Append(c.at, j)
    BY <1>1, <1>10, <2>1, OneParent
  <2> QED
    BY <1>4, <2>2
<1>11. ASSUME NEW k \in Quadrant, NEW j \in Quadrant PROVE Append(child(k), j) \notin DOMAIN tree'
  <2>1. /\ child(k) \in Seq(Quadrant) /\ child(k) \in Way(child(k)) /\ child(k) # c.at
    BY <1>1, WayDown
  <2>2. child(k) \in Way(Append(child(k), j))
    <3> HIDE DEF child
    <3>1. Way(Append(child(k), j)) = Way(child(k)) \cup {Append(child(k), j)}
      BY <2>1, WayDown
    <3> QED
      BY <2>1, <3>1
  <2>3. Append(child(k), j) \notin DOMAIN tree
    BY <1>2, <1>5, <2>2 DEF TreeInv, Rooted
  <2>4. Append(child(k), j) \notin Children(c)
    BY <1>1, <1>4, <2>1, OneParent
  <2> QED
    BY <1>2, <2>3, <2>4
<1>12. Branched'
  <2>1. ASSUME NEW p \in DOMAIN tree, NEW k \in Quadrant
        PROVE  tree'[p].split <=> Append(p, k) \in DOMAIN tree'
    BY <1>2, <1>5, <1>10 DEF TreeInv, Branched
  <2>2. ASSUME NEW p \in Children(c), NEW k \in Quadrant
        PROVE  tree'[p].split <=> Append(p, k) \in DOMAIN tree'
    BY <1>3, <1>4, <1>11
  <2> QED
    BY <1>2, <2>1, <2>2 DEF Branched
<1>13. Parted'
  <2>1. ASSUME NEW p \in DOMAIN tree, NEW k \in Quadrant, Append(p, k) \in DOMAIN tree'
        PROVE  tree'[Append(p, k)].box = Part(tree'[p].box, k)
    <3>1. CASE p = c.at
      BY <1>2, <1>3, <3>1
    <3>2. CASE p # c.at
      BY <1>2, <1>6, <1>10, <2>1, <3>2 DEF TreeInv, Parted
    <3> QED
      BY <3>1, <3>2
  <2>2. ASSUME NEW p \in Children(c), NEW k \in Quadrant PROVE Append(p, k) \notin DOMAIN tree'
    BY <1>4, <1>11
  <2> QED
    BY <1>2, <2>1, <2>2 DEF Parted
<1>14. ASSUME NEW p \in DOMAIN tree, NEW d PROVE InSide(p, d)' <=> InSide(p, d)
  <2>1. Way(p) \subseteq DOMAIN tree
    BY DEF TreeInv, Rooted
  <2> QED
    BY <1>6, <2>1 DEF InSide
<1>15. ASSUME NEW k \in Quadrant, NEW d, InSide(c.at, d), ContainsRect(Part(box, k), d)
       PROVE  InSide(child(k), d)'
  <2>1. Way(child(k)) = Way(c.at) \cup {child(k)}
    BY <1>1, WayDown
  <2>2. \A q \in Way(c.at) : ContainsRect(tree'[q].box, d)
    BY <1>1, <1>14, <1>15 DEF InSide
  <2>3. ContainsRect(tree'[child(k)].box, d)
    BY <1>3, <1>15
  <2> QED
    BY <2>1, <2>2, <2>3 DEF InSide
<1>16. \A d \in Pushed(c) : InSide(c.at, d)
  BY <1>1, <1>7 DEF TreeInv, Enclosed
<1>17. Enclosed'
  <2>1. ASSUME NEW p \in DOMAIN tree', NEW d \in tree'[p].items PROVE InSide(p, d)'
    <3>1. p \in DOMAIN tree
      BY <1>2, <1>3, <1>4, <2>1
    <3>2. InSide(p, d)
      BY <1>2, <1>7, <1>16, <2>1, <3>1 DEF TreeInv, Enclosed
    <3> QED
      BY <1>14, <3>1, <3>2
  <2>2. ASSUME NEW d \in calls' PROVE InSide(d.at, d.cell)'
    <3>1. CASE d \in calls \ {c}
      <4>1. d.at \in DOMAIN tree /\ InSide(d.at, d.cell)
        BY <3>1, CallIs
      <4> QED
        BY <1>14, <4>1
    <3>2. CASE d \notin calls \ {c}
      <4>1. PICK k \in Quadrant : /\ d = [at |-> child(k), cell |-> d.cell]
                                  /\ ContainsRect(Part(box, k), d.cell)
        BY <3>2, SplitCalls
      <4>2. InSide(c.at, d.cell)
        BY <1>16, <3>2, SplitCalls
      <4>3. InSide(child(k), d.cell)'
        BY <1>15, <4>1, <4>2
      <4>4. d.at = child(k)
        BY <4>1
      <4> QED
        BY <4>3, <4>4
    <3> QED
      BY <3>1, <3>2
  <2> QED
    BY <2>1, <2>2 DEF Enclosed
<1>18. Somewhere'
  <2>1. ASSUME NEW d \in Pushed(c) PROVE InNode(d)' \/ InCall(d)'
    <3>1. CASE d \in Staying(c)
      BY <1>1, <1>2, <3>1 DEF InNode
    <3>2. CASE d \notin Staying(c)
      BY <3>2, SplitCalls DEF InCall
    <3> QED
      BY <3>1, <3>2
  <2>2. ASSUME NEW d \in put, d \notin Pushed(c), InNode(d) PROVE InNode(d)'
    <3>1. PICK p \in DOMAIN tree : d \in tree[p].items
      BY <2>2 DEF InNode
    <3>2. p # c.at
      BY <1>7, <2>2, <3>1
    <3> QED
      BY <1>2, <3>1, <3>2 DEF InNode
  <2>3. ASSUME NEW d \in put, d \notin Pushed(c), InCall(d) PROVE InCall(d)'
    <3>1. PICK e \in calls : e.cell = d
      BY <2>3 DEF InCall
    <3>2. e # c
      BY <1>7, <2>3, <3>1
    <3> QED
      BY <3>1, <3>2, SplitCalls DEF InCall
  <2> QED
    BY <1>2, <2>1, <2>2, <2>3 DEF TreeInv, Somewhere
<1>19. Once'
  <2>1. /\ \A p, q \in DOMAIN tree : \A d \in tree[p].items : d \in tree[q].items => p = q
        /\ \A e \in calls, p \in DOMAIN tree : e.cell \notin tree[p].items
        /\ \A e, d \in calls : e.cell = d.cell => e = d
    BY DEF TreeInv, Once
  <2>2. ASSUME NEW p \in DOMAIN tree', NEW d \in tree'[p].items
        PROVE  /\ p \in DOMAIN tree
               /\ p = c.at => d \in Staying(c) /\ (d \in tree[c.at].items \/ d = c.cell)
               /\ p # c.at => d \in tree[p].items
    <3>1. p \in DOMAIN tree
      BY <1>2, <1>3, <1>4, <2>2
    <3> QED
      BY <1>2, <1>7, <2>2, <3>1
  <2>3. ASSUME NEW e \in calls'
        PROVE  \/ e \in calls /\ e # c
               \/ e \notin calls \ {c} /\ e.cell \notin Staying(c)
                  /\ (e.cell \in tree[c.at].items \/ e.cell = c.cell)
    BY <1>7, SplitCalls
  <2>4. ASSUME NEW p \in DOMAIN tree', NEW q \in DOMAIN tree',
               NEW d \in tree'[p].items, d \in tree'[q].items
        PROVE  p = q
    BY <1>1, <2>1, <2>2, <2>4
  <2>5. ASSUME NEW e \in calls', NEW p \in DOMAIN tree' PROVE e.cell \notin tree'[p].items
    BY <1>1, <2>1, <2>2, <2>3
  <2>6. ASSUME NEW e \in calls', NEW d \in calls', e.cell = d.cell PROVE e = d
    <3>1. CASE e \in calls \ {c} /\ d \in calls \ {c}
      BY <2>1, <2>6, <3>1
    <3>2. CASE e \notin calls \ {c} /\ d \notin calls \ {c}
      <4>1. PICK k \in Quadrant : /\ e = [at |-> child(k), cell |-> e.cell]
                                  /\ ChildFor(box, e.cell) = {k}
        BY <3>2, SplitCalls
      <4>2. PICK j \in Quadrant : /\ d = [at |-> child(j), cell |-> d.cell]
                                  /\ ChildFor(box, d.cell) = {j}
        BY <3>2, SplitCalls
      <4>3. k = j
        BY <2>6, <4>1, <4>2
      <4> QED
        BY <2>6, <4>1, <4>2, <4>3
    <3>3. CASE (e \in calls \ {c}) # (d \in calls \ {c})
      BY <1>1, <2>1, <2>3, <2>6, <3>3
    <3> QED
      BY <3>1, <3>2, <3>3
  <2> QED
    BY <2>4, <2>5, <2>6 DEF Once
<1> QED
  BY <1>8, <1>9, <1>12, <1>13, <1>17, <1>18, <1>19 DEF TreeInv

LEMMA TreeInvariance == TreeSpec => []TreeInv
<1>1. TreeInv /\ [TreeNext]_treeVars => TreeInv'
  <2> SUFFICES ASSUME TreeInv, [TreeNext]_treeVars PROVE TreeInv'
    OBVIOUS
  <2>1. CASE \E cell \in Rects : Put(cell)
    BY <2>1, PutKeeps
  <2>2. ASSUME NEW c \in calls, GoDown(c) \/ Push(c) \/ Split(c) PROVE TreeInv'
    BY <2>2, GoDownKeeps, PushKeeps, SplitKeeps
  <2>3. CASE UNCHANGED treeVars
    BY <2>3 DEF treeVars, TreeInv, Shaped, Rooted, Branched, Parted, Enclosed, Somewhere, Once,
                InSide, InNode, InCall
  <2> QED
    BY <2>1, <2>2, <2>3 DEF TreeNext
<1> QED
  BY TreeStarts, <1>1, PTL DEF TreeSpec

-----------------------------------------------------------------------------
(* What the invariant says of the queries.                                 *)

\* Nodes and cells are rectangles of whole numbers.
LEMMA NodeIsBox ==
  ASSUME TreeInv, NEW p \in DOMAIN tree
  PROVE  /\ tree[p].box \in Box /\ tree[p].items \subseteq Rects /\ tree[p].items \subseteq put
         /\ Way(p) \subseteq DOMAIN tree
BY DEF TreeInv, Shaped, TreeNode, Rooted

\* No node on the way to a cell is passed over when its point is asked for.
LEMMA PointReaches ==
  ASSUME TreeInv, NEW p \in DOMAIN tree, NEW cell \in tree[p].items,
         NEW x \in Int, NEW y \in Int, ContainsPoint(cell, x, y), NEW q \in Way(p)
  PROVE  ~Outside(tree[q].box, x, y)
<1>1. tree[q].box \in Box /\ cell \in Rects
  BY NodeIsBox
<1>2. ContainsRect(tree[q].box, cell)
  BY DEF TreeInv, Enclosed, InSide
<1>3. cell.x \in Int /\ cell.y \in Int /\ cell.w \in Nat /\ cell.h \in Nat
  BY <1>1, CellIsBox
<1> DEFINE b == tree[q].box
<1>4. b.x \in Int /\ b.y \in Int /\ b.w \in Nat /\ b.h \in Nat
  BY <1>1 DEF Box
<1> HIDE DEF b
<1>5. ~Outside(b, x, y)
  BY <1>2, <1>3, <1>4 DEF b, ContainsRect, ContainsPoint, Outside
<1> QED
  BY <1>5 DEF b

\* Nor when a rectangle it touches is.
LEMMA RectReaches ==
  ASSUME TreeInv, NEW p \in DOMAIN tree, NEW cell \in tree[p].items,
         NEW rect \in Box, Intersects(cell, rect), NEW q \in Way(p)
  PROVE  Intersects(tree[q].box, rect)
<1>1. tree[q].box \in Box /\ cell \in Rects
  BY NodeIsBox
<1>2. ContainsRect(tree[q].box, cell)
  BY DEF TreeInv, Enclosed, InSide
<1>3. cell.x \in Int /\ cell.y \in Int /\ cell.w \in Nat /\ cell.h \in Nat
  BY <1>1, CellIsBox
<1> DEFINE b == tree[q].box
<1>4. b.x \in Int /\ b.y \in Int /\ b.w \in Nat /\ b.h \in Nat
      /\ rect.x \in Int /\ rect.y \in Int /\ rect.w \in Nat /\ rect.h \in Nat
  BY <1>1 DEF Box
<1> HIDE DEF b
<1>5. Intersects(b, rect)
  BY <1>2, <1>3, <1>4 DEF b, ContainsRect, Intersects
<1> QED
  BY <1>5 DEF b

\* Cells do not overlap: a point is in one of them at most.
LEMMA OneHit ==
  ASSUME NEW c \in Rects, NEW d \in Rects, NEW x \in Int, NEW y \in Int,
         ContainsPoint(c, x, y), ContainsPoint(d, x, y)
  PROVE  c = d
<1>1. c = d \/ c.x + c.w <= d.x \/ d.x + d.w <= c.x \/ c.y + c.h <= d.y \/ d.y + d.h <= c.y
  BY TreeAssumption
<1> QED
  BY <1>1, CellIsBox DEF ContainsPoint

\* queryPoint finds what contains the point, queryRect what touches.
LEMMA PointFinds ==
  ASSUME TreeInv, Built, NEW x \in Int, NEW y \in Int
  PROVE  QueryPoint(x, y) = {c \in put : ContainsPoint(c, x, y)}
<1> DEFINE reached == {p \in DOMAIN tree : \A q \in Way(p) : ~Outside(tree[q].box, x, y)}
<1>1. ASSUME NEW c \in put, ContainsPoint(c, x, y) PROVE c \in QueryPoint(x, y)
  <2>1. PICK p \in DOMAIN tree : c \in tree[p].items
    BY DEF Built, TreeInv, Somewhere, InNode, InCall
  <2>2. p \in reached
    BY <1>1, <2>1, PointReaches
  <2>3. c \in {d \in tree[p].items : ContainsPoint(d, x, y)}
    BY <1>1, <2>1
  <2> HIDE DEF reached
  <2>4. c \in UNION {{d \in tree[n].items : ContainsPoint(d, x, y)} : n \in reached}
    BY <2>2, <2>3
  <2> QED
    BY <2>4 DEF reached, QueryPoint
<1>2. ASSUME NEW c \in QueryPoint(x, y) PROVE c \in put /\ ContainsPoint(c, x, y)
  <2>1. PICK p \in DOMAIN tree : c \in tree[p].items /\ ContainsPoint(c, x, y)
    BY <1>2 DEF QueryPoint
  <2> QED
    BY <2>1, NodeIsBox
<1> QED
  BY <1>1, <1>2

LEMMA RectFinds ==
  ASSUME TreeInv, NEW rect \in Box
  PROVE  \A p, c : <<p, c>> \in QueryRect(rect)
                   <=> p \in DOMAIN tree /\ c \in tree[p].items /\ Intersects(c, rect)
<1> DEFINE reached == {p \in DOMAIN tree : \A q \in Way(p) : Intersects(tree[q].box, rect)}
           found(p) == {d \in tree[p].items : Intersects(d, rect)}
<1>1. QueryRect(rect) = UNION {{<<p, c>> : c \in found(p)} : p \in reached}
  BY DEF QueryRect
<1>2. \A p \in DOMAIN tree : found(p) # {} => p \in reached
  BY RectReaches
<1> HIDE DEF reached
<1>3. \A p, c : <<p, c>> \in QueryRect(rect) <=> p \in reached /\ c \in found(p)
  BY <1>1
<1>4. reached \subseteq DOMAIN tree
  BY DEF reached
<1> QED
  BY <1>2, <1>3, <1>4

LEMMA QueryRectPairs ==
  ASSUME NEW rect, NEW d \in QueryRect(rect)
  PROVE  \E p, c : d = <<p, c>>
BY DEF QueryRect

LEMMA TreeTyped == TreeInv => TreeTypeOK
<1> SUFFICES ASSUME TreeInv PROVE TreeTypeOK
  OBVIOUS
<1>1. ASSUME NEW p \in DOMAIN tree
      PROVE  /\ p \in Seq(Quadrant) /\ Len(p) <= MaxDepth
             /\ tree[p].items \subseteq put /\ tree[p].split \in BOOLEAN
  BY DEF TreeInv, Shaped, TreeNode
<1>2. ASSUME NEW p \in DOMAIN tree
      PROVE  /\ tree[p].box.x \in Int /\ tree[p].box.y \in Int
             /\ tree[p].box.w \in Nat /\ tree[p].box.h \in Nat
  BY NodeIsBox DEF Box
<1>3. put \subseteq Rects
  BY DEF TreeInv, Shaped
<1>4. \A c \in calls : c.at \in DOMAIN tree /\ c.cell \in put
  BY CallIs
<1> QED
  BY <1>1, <1>2, <1>3, <1>4 DEF TreeTypeOK

LEMMA HitsExact == TreeInv => HitTestIsExact
<1> SUFFICES ASSUME TreeInv, Built, NEW x \in Places, NEW y \in Places
             PROVE  LET struck == {c \in put : ContainsPoint(c, x, y)}  found == QueryPoint(x, y)
                    IN IF struck = {} THEN found = {} ELSE found # {} /\ \A c \in found : struck = {c}
  BY DEF HitTestIsExact
<1> DEFINE struck == {c \in put : ContainsPoint(c, x, y)}
<1>1. x \in Int /\ y \in Int
  BY TreeAssumption
<1>2. QueryPoint(x, y) = struck
  BY <1>1, PointFinds
<1>3. \A c, d \in struck : c = d
  <2>1. put \subseteq Rects
    BY DEF TreeInv, Shaped
  <2> QED
    BY <1>1, <2>1, OneHit
<1> HIDE DEF struck
<1>4. IF struck = {} THEN QueryPoint(x, y) = {}
      ELSE QueryPoint(x, y) # {} /\ \A c \in QueryPoint(x, y) : struck = {c}
  BY <1>2, <1>3
<1> QED
  BY <1>4 DEF struck

LEMMA CullsExact == TreeInv => CullingIsExact
<1> SUFFICES ASSUME TreeInv, Built, NEW x \in Corners, NEW y \in Corners,
                    NEW w \in Sizes, NEW h \in Sizes
             PROVE  LET asked == [x |-> x, y |-> y, w |-> w, h |-> h]
                        drawn == QueryRect(asked)
                    IN /\ {d[2] : d \in drawn} = {c \in put : Intersects(c, asked)}
                       /\ \A d, e \in drawn : d[2] = e[2] => d = e
  BY DEF CullingIsExact
<1> DEFINE asked == [x |-> x, y |-> y, w |-> w, h |-> h]
           drawn == QueryRect(asked)
<1>1. asked \in Box
  BY TreeAssumption DEF Box
<1> HIDE DEF asked
<1>2. \A p, c : <<p, c>> \in drawn <=> p \in DOMAIN tree /\ c \in tree[p].items /\ Intersects(c, asked)
  BY <1>1, RectFinds
<1>3. \A d \in drawn : \E p, c : d = <<p, c>>
  BY QueryRectPairs
<1> HIDE DEF drawn
<1>4. \A c \in put : \E p \in DOMAIN tree : c \in tree[p].items
  BY DEF Built, TreeInv, Somewhere, InNode, InCall
<1>5. \A p \in DOMAIN tree : tree[p].items \subseteq put
  BY DEF TreeInv, Shaped
<1>6. ASSUME NEW c \in put, Intersects(c, asked) PROVE c \in {d[2] : d \in drawn}
  <2>1. PICK p \in DOMAIN tree : c \in tree[p].items
    BY <1>4
  <2>2. <<p, c>> \in drawn /\ <<p, c>>[2] = c
    BY <1>2, <1>6, <2>1
  <2> QED
    BY <2>2
<1>7. ASSUME NEW d \in drawn PROVE d[2] \in put /\ Intersects(d[2], asked)
  <2>1. PICK p, c : d = <<p, c>>
    BY <1>3
  <2>2. p \in DOMAIN tree /\ c \in tree[p].items /\ Intersects(c, asked) /\ d[2] = c
    BY <1>2, <2>1
  <2> QED
    BY <1>5, <2>2
<1>8. {d[2] : d \in drawn} = {c \in put : Intersects(c, asked)}
  BY <1>6, <1>7
<1>9. ASSUME NEW d \in drawn, NEW e \in drawn, d[2] = e[2] PROVE d = e
  <2>1. PICK p, c : d = <<p, c>>
    BY <1>3
  <2>2. PICK q, b : e = <<q, b>>
    BY <1>3
  <2>3. b = c
    BY <1>9, <2>1, <2>2
  <2>4. p \in DOMAIN tree /\ q \in DOMAIN tree /\ c \in tree[p].items /\ c \in tree[q].items
    BY <1>2, <2>1, <2>2, <2>3
  <2>5. p = q
    BY <2>4 DEF TreeInv, Once
  <2> QED
    BY <2>1, <2>2, <2>3, <2>5
<1> QED
  BY <1>8, <1>9 DEF asked, drawn

\* While the tree of quadtree.js is built its nodes are boxes with cells that
\* were handed over, no deeper than maxDepth, whatever cells are put.
THEOREM TreeTypeCorrect == TreeSpec => []TreeTypeOK
BY TreeInvariance, TreeTyped, PTL

\* queryPoint returns the cell under the pointer, and none when there is none,
\* for any layout without overlaps, any depth and any capacity of a node, and
\* whatever order the cells were inserted in.
THEOREM ClicksAreExact == TreeSpec => []HitTestIsExact
BY TreeInvariance, HitsExact, PTL

\* queryRect pushes every cell that touches the rectangle, once, and no other,
\* in the same generality.
THEOREM CullingExact == TreeSpec => []CullingIsExact
BY TreeInvariance, CullsExact, PTL

-----------------------------------------------------------------------------
(* The suggestion.                                                         *)

Free == SelectableIn(row)
InRun(run, n) == run.from <= n /\ n <= run.to
Apart == \A q, r \in runs : q = r \/ q.to < r.from \/ r.to < q.from

SearchTyped ==
  /\ seats \in [SeatNumbers -> {"available", "booked"}] /\ count \in 1..MaxCount
  /\ stage \in {"idle", "row", "runs", "windows", "done"} /\ row \in 0..Len(Rows) + 1
  /\ runs \subseteq [from : Nat, to : Nat] /\ best \in [row : Nat, from : Nat]
  /\ stage \in {"row", "runs", "windows", "done"} => row >= 1
  /\ stage \in {"runs", "windows"} => row <= Len(Rows) /\ todo \subseteq Free
  /\ stage \notin {"runs", "windows"} => runs = {}
  /\ stage = "idle" => best = None

\* The runs are exactly the stretches of the seats looked at so far.
RunsKept ==
  stage = "runs" =>
    LET looked == Free \ todo
    IN /\ \A m \in looked, n \in todo : m < n
       /\ \A n \in looked : \E run \in runs : InRun(run, n)
       /\ \A run \in runs : /\ run.from <= run.to /\ run.to + 1 \notin looked
                            /\ \A n \in Nat : InRun(run, n) => n \in looked
       /\ Apart

\* What is left of a run ends where it did.
RunsLeft ==
  stage = "windows" =>
    /\ \A run \in runs : /\ run.from <= run.to + 1 /\ run.to + 1 \notin Free
                         /\ \A n \in Nat : InRun(run, n) => n \in Free
    /\ Apart

\* No worse than the best, or further back, or further along the row.
Beaten(t) ==
  LET w == [row |-> t[1], from |-> t[2]]
  IN /\ best # None
     /\ \/ Score(best) < Score(w)
        \/ /\ Score(best) = Score(w)
           /\ best.row < w.row \/ (best.row = w.row /\ best.from <= w.from)

\* A window of an earlier row is beaten, one of this row too unless it begins
\* in what is left of a run; the best one is behind both.
Weighed ==
  stage \in {"row", "runs", "windows", "done"} =>
    /\ \A t \in Together : t[1] < row => Beaten(t)
    /\ stage = "windows" =>
         \A t \in Together : t[1] = row => Beaten(t) \/ \E run \in runs : InRun(run, t[2])
    /\ best # None =>
         /\ <<best.row, best.from>> \in Together
         /\ \/ best.row < row
            \/ stage = "windows" /\ best.row = row /\ \A run \in runs : best.from < run.from
    /\ stage = "done" => row > Len(Rows)

BestInv == SearchTyped /\ RunsKept /\ RunsLeft /\ Weighed

-----------------------------------------------------------------------------
(* Rows, seats and scores.                                                 *)

LEMMA RowIs ==
  /\ Len(Rows) \in Nat
  /\ \A r \in 1..Len(Rows) : /\ Rows[r] \subseteq Nat /\ IsFiniteSet(Rows[r])
                             /\ SelectableIn(r) \subseteq Rows[r] /\ IsFiniteSet(SelectableIn(r))
<1>1. Rows \in Seq(SUBSET Nat) /\ \A r \in 1..Len(Rows) : IsFiniteSet(Rows[r])
  BY BestAssumption
<1>2. Len(Rows) \in Nat /\ \A r \in 1..Len(Rows) : Rows[r] \subseteq Nat
  BY <1>1, LenProperties, ElementOfSeq
<1>3. \A r : SelectableIn(r) \subseteq Rows[r]
  BY DEF SelectableIn
<1> QED
  BY <1>1, <1>2, <1>3, FS_Subset

LEMMA SeatIs ==
  /\ \A r, n : <<r, n>> \in SeatNumbers <=> r \in 1..Len(Rows) /\ n \in Rows[r]
  /\ \A t \in SeatNumbers : t = <<t[1], t[2]>>
BY DEF SeatNumbers

LEMMA TogetherIs ==
  /\ \A r, n : <<r, n>> \in Together
               <=> r \in 1..Len(Rows) /\ n \in Rows[r] /\ \A k \in 0..count - 1 : n + k \in SelectableIn(r)
  /\ \A t \in Together : /\ t = <<t[1], t[2]>> /\ t \in SeatNumbers
                         /\ t[1] \in 1..Len(Rows) /\ t[2] \in Rows[t[1]] /\ t[2] \in Nat
                         /\ \A k \in 0..count - 1 : t[2] + k \in SelectableIn(t[1])
<1>1. \A r, n : <<r, n>> \in Together
                <=> r \in 1..Len(Rows) /\ n \in Rows[r] /\ \A k \in 0..count - 1 : n + k \in SelectableIn(r)
  <2>1. \A r, n : <<r, n>>[1] = r /\ <<r, n>>[2] = n
    OBVIOUS
  <2>2. \A t : t \in Together <=> t \in SeatNumbers /\ \A k \in 0..count - 1 : t[2] + k \in SelectableIn(t[1])
    BY DEF Together
  <2> QED
    BY <2>1, <2>2, SeatIs
<1>2. ASSUME NEW t \in Together
      PROVE  /\ t = <<t[1], t[2]>> /\ t \in SeatNumbers
             /\ t[1] \in 1..Len(Rows) /\ t[2] \in Rows[t[1]] /\ t[2] \in Nat
             /\ \A k \in 0..count - 1 : t[2] + k \in SelectableIn(t[1])
  <2>1. t \in SeatNumbers /\ \A k \in 0..count - 1 : t[2] + k \in SelectableIn(t[1])
    BY DEF Together
  <2>2. t = <<t[1], t[2]>> /\ t[1] \in 1..Len(Rows) /\ t[2] \in Rows[t[1]]
    BY <2>1, SeatIs
  <2>3. t[2] \in Nat
    BY <2>2, RowIs
  <2> QED
    BY <2>1, <2>2, <2>3
<1> QED
  BY <1>1, <1>2

LEMMA EndsAre ==
  ASSUME NEW S, S \subseteq Nat, IsFiniteSet(S), S # {}
  PROVE  /\ First(S) \in S /\ \A m \in S : First(S) <= m
         /\ Last(S) \in S /\ \A m \in S : m <= Last(S)
<1>1. First(S) \in S /\ \A m \in S : First(S) <= m
  BY LowestMember DEF First
<1>2. Last(S) \in S /\ \A m \in S : m <= Last(S)
  BY HighestMember DEF Last
<1> QED
  BY <1>1, <1>2

\* Scores can be compared.
LEMMA ScoreIsInt ==
  ASSUME count \in Nat, NEW w \in [row : 1..Len(Rows), from : Nat], SelectableIn(w.row) # {}
  PROVE  Score(w) \in Int
<1> DEFINE back == IF Len(Rows) > 1 THEN Len(Rows) - 1 ELSE 1
           depth == IF Len(Rows) <= 1 THEN 0 ELSE Abs(100 * (w.row - 1) - 65 * back)
           first == First(SelectableIn(w.row))
           last == Last(SelectableIn(w.row))
           off == Abs(2 * w.from + count - 1 - first - last)
<1>1. first \in Nat /\ last \in Nat /\ first <= last
  BY RowIs, EndsAre
<1>2. back \in Int /\ w.row \in Int /\ w.from \in Int /\ Scale \in Int
  BY RowIs, BestAssumption
<1>3. \A n \in Int : Abs(n) \in Int
  BY DEF Abs
<1> HIDE DEF first, last
<1>4. depth \in Int
  <2>1. 100 * (w.row - 1) - 65 * back \in Int
    BY <1>2
  <2> QED
    BY <1>3, <2>1
<1>5. off \in Int
  <2>1. 2 * w.from + count - 1 - first - last \in Int
    BY <1>1, <1>2
  <2> QED
    BY <1>3, <2>1
<1>6. first # last => Scale \div (last - first) \in Int
  <2>1. first # last => last - first \in Int /\ last - first > 0
    BY <1>1
  <2> QED
    BY <1>2, <2>1
<1> HIDE DEF back, depth, off
<1>7. 115 * depth * Scale \in Int
  BY <1>2, <1>4
<1>8. first # last => 10000 * back * off * (Scale \div (last - first)) \in Int
  BY <1>2, <1>5, <1>6
<1>9. Score(w) = 115 * depth * Scale
         + (IF first = last THEN 0 ELSE 10000 * back * off * (Scale \div (last - first)))
  BY DEF Score, back, depth, first, last, off
<1> QED
  BY <1>7, <1>8, <1>9

\* The search changes neither the seats nor the size: no score moves.
LEMMA NothingMoves ==
  ASSUME seats' = seats, count' = count
  PROVE  /\ \A r : SelectableIn(r)' = SelectableIn(r)
         /\ \A w : Score(w)' = Score(w)
         /\ Together' = Together
<1>1. \A r : SelectableIn(r)' = SelectableIn(r)
  BY DEF SelectableIn
<1>2. \A w : Score(w)' = Score(w)
  BY <1>1 DEF Score
<1>3. Together' = Together
  BY <1>1 DEF Together
<1> QED
  BY <1>1, <1>2, <1>3

LEMMA BeatenStays ==
  ASSUME seats' = seats, count' = count, best' = best
  PROVE  \A t : Beaten(t)' <=> Beaten(t)
BY NothingMoves DEF Beaten

LEMMA TogetherScore ==
  ASSUME count \in 1..MaxCount, NEW t \in Together
  PROVE  Score([row |-> t[1], from |-> t[2]]) \in Int /\ count \in Nat \ {0}
<1>1. count \in Nat \ {0} /\ 0 \in 0..count - 1
  BY BestAssumption
<1>2. [row |-> t[1], from |-> t[2]] \in [row : 1..Len(Rows), from : Nat]
  BY TogetherIs
<1>3. t[2] + 0 \in SelectableIn(t[1])
  BY <1>1, TogetherIs
<1> QED
  BY <1>1, <1>2, <1>3, ScoreIsInt

LEMMA BestScore ==
  ASSUME SearchTyped, <<best.row, best.from>> \in Together
  PROVE  Score(best) \in Int
<1>1. Score([row |-> <<best.row, best.from>>[1], from |-> <<best.row, best.from>>[2]]) \in Int
  BY TogetherScore DEF SearchTyped
<1>2. best = [row |-> best.row, from |-> best.from]
  BY DEF SearchTyped
<1> QED
  BY <1>1, <1>2

-----------------------------------------------------------------------------
(* The steps of the search.                                                *)

LEMMA SearchStarts == BestInit => BestInv
<1> SUFFICES ASSUME BestInit PROVE BestInv
  OBVIOUS
<1>1. 0 \in 0..Len(Rows) + 1 /\ None \in [row : Nat, from : Nat]
  BY RowIs DEF None
<1> QED
  BY <1>1 DEF BestInit, BestInv, SearchTyped, RunsKept, RunsLeft, Weighed

LEMMA RestKeeps ==
  ASSUME BestInv, Resting, Rest, seats' \in [SeatNumbers -> {"available", "booked"}],
         count' \in 1..MaxCount
  PROVE  BestInv'
<1>1. stage' = "idle" /\ row' = 0 /\ best' = None /\ runs' = {}
  BY DEF Rest, Resting, BestInv, SearchTyped
<1>2. 0 \in 0..Len(Rows) + 1 /\ None \in [row : Nat, from : Nat]
  BY RowIs DEF None
<1> QED
  BY <1>1, <1>2 DEF BestInv, SearchTyped, RunsKept, RunsLeft, Weighed

LEMMA ChangeKeeps == ASSUME BestInv, NEW c \in SeatNumbers, SeatChanges(c) PROVE BestInv'
<1>1. seats' \in [SeatNumbers -> {"available", "booked"}] /\ count' \in 1..MaxCount
  BY DEF SeatChanges, BestInv, SearchTyped
<1> QED
  BY <1>1, RestKeeps DEF SeatChanges

LEMMA ChooseKeeps == ASSUME BestInv, NEW n \in 1..MaxCount, ChooseSize(n) PROVE BestInv'
<1>1. seats' \in [SeatNumbers -> {"available", "booked"}] /\ count' \in 1..MaxCount
  BY DEF ChooseSize, BestInv, SearchTyped
<1> QED
  BY <1>1, RestKeeps DEF ChooseSize

LEMMA SearchKeeps == ASSUME BestInv, Search PROVE BestInv'
<1>1. /\ stage' = "row" /\ row' = 1 /\ best' = best /\ runs' = runs /\ best = None /\ runs = {}
      /\ seats' = seats /\ count' = count
  BY DEF Search, BestInv, SearchTyped
<1>2. 1 \in 0..Len(Rows) + 1
  BY RowIs
<1>3. SearchTyped'
  BY <1>1, <1>2 DEF BestInv, SearchTyped
<1>4. \A t \in Together' : ~(t[1] < 1)
  BY <1>1, NothingMoves, TogetherIs
<1>5. Weighed'
  BY <1>1, <1>4 DEF Weighed, None
<1> QED
  BY <1>1, <1>3, <1>5 DEF BestInv, RunsKept, RunsLeft

\* A row with too few seats left has no window.
LEMMA TooFew ==
  ASSUME SearchTyped, row \in 1..Len(Rows), Cardinality(Free) < count, NEW t \in Together
  PROVE  t[1] # row
<1> SUFFICES ASSUME t[1] = row PROVE FALSE
  OBVIOUS
<1>1. t[2] \in Nat /\ count \in Nat \ {0} /\ \A k \in 0..count - 1 : t[2] + k \in Free
  BY TogetherIs, TogetherScore DEF SearchTyped, Free
<1> DEFINE a == t[2]
           window == a..(a + count - 1)
<1>2. a \in Int /\ a + count - 1 \in Int /\ a <= a + count - 1
  BY <1>1
<1>3. ASSUME NEW m \in window PROVE m \in Free
  <2>1. m \in Int /\ a <= m /\ m <= a + count - 1
    BY <1>2
  <2>2. m - a \in 0..count - 1 /\ a + (m - a) = m
    BY <1>1, <2>1
  <2> QED
    BY <1>1, <2>2
<1>4. Cardinality(window) = count
  <2> HIDE DEF a
  <2>1. Cardinality(window) = (a + count - 1) - a + 1
    BY <1>2, FS_Interval
  <2> QED
    BY <1>1, <1>2, <2>1
<1>5. IsFiniteSet(Free)
  BY RowIs DEF Free
<1> HIDE DEF window
<1>6. Cardinality(window) <= Cardinality(Free) /\ Cardinality(Free) \in Nat
  BY <1>3, <1>5, FS_Subset, FS_CardinalityType
<1> QED
  BY <1>1, <1>4, <1>6

LEMMA SkipKeeps == ASSUME BestInv, SkipRow PROVE BestInv'
<1>1. /\ stage = "row" /\ stage' = "row" /\ row' = row + 1 /\ best' = best /\ runs' = runs
      /\ seats' = seats /\ count' = count /\ runs = {}
  BY DEF SkipRow, BestInv, SearchTyped
<1>2. row \in 1..Len(Rows) /\ row' \in 0..Len(Rows) + 1 /\ row' >= 1 /\ row \in Int
  BY RowIs DEF SkipRow, BestInv, SearchTyped
<1>3. SearchTyped'
  BY <1>1, <1>2 DEF BestInv, SearchTyped
<1>4. \A t \in Together : t[1] # row
  BY <1>2, TooFew DEF SkipRow, Free, BestInv
<1>5. \A t \in Together : t[1] < row' => t[1] < row
  BY <1>1, <1>2, <1>4, TogetherIs
<1>6. Weighed'
  <2>1. \A t \in Together' : t[1] < row' => Beaten(t)'
    BY <1>1, <1>5, BeatenStays, NothingMoves DEF BestInv, Weighed
  <2>2. best' # None => <<best.row, best.from>>' \in Together' /\ best'.row < row'
    BY <1>1, <1>2, NothingMoves DEF BestInv, Weighed, SearchTyped
  <2> QED
    BY <1>1, <2>1, <2>2 DEF Weighed
<1> QED
  BY <1>1, <1>3, <1>6 DEF BestInv, RunsKept, RunsLeft

LEMMA EnterKeeps == ASSUME BestInv, EnterRow PROVE BestInv'
<1>1. /\ stage = "row" /\ stage' = "runs" /\ row' = row /\ best' = best /\ runs' = runs
      /\ seats' = seats /\ count' = count /\ runs = {} /\ todo' = SelectableIn(row)
  BY DEF EnterRow, BestInv, SearchTyped
<1>2. Free' = Free /\ todo' = Free
  BY <1>1, NothingMoves DEF Free
<1>3. SearchTyped'
  BY <1>1, <1>2 DEF BestInv, SearchTyped, EnterRow
<1>4. RunsKept'
  BY <1>1, <1>2 DEF RunsKept, Apart
<1>5. Weighed'
  BY <1>1, BeatenStays, NothingMoves DEF BestInv, Weighed
<1> QED
  BY <1>1, <1>3, <1>4, <1>5 DEF BestInv, RunsLeft

\* runsIn looks at the lowest seat it has not looked at.
LEMMA ScanIs ==
  ASSUME BestInv, ScanSeat
  PROVE  LET n == First(todo)  looked == Free \ todo
         IN /\ n \in todo /\ n \in Nat /\ todo \subseteq Free /\ Free \subseteq Nat
            /\ todo' = todo \ {n} /\ Free' = Free /\ Free' \ todo' = looked \cup {n}
            /\ \A m \in looked : m < n
            /\ \A m \in looked \cup {n}, k \in todo' : m < k
            /\ seats' = seats /\ count' = count /\ row' = row /\ best' = best
            /\ stage = "runs" /\ stage' = "runs"
<1> DEFINE n == First(todo)
           looked == Free \ todo
<1>1. /\ stage = "runs" /\ stage' = "runs" /\ todo # {} /\ todo' = todo \ {n}
      /\ seats' = seats /\ count' = count /\ row' = row /\ best' = best
  BY DEF ScanSeat
<1>2. todo \subseteq Free /\ Free \subseteq Nat /\ IsFiniteSet(Free)
  BY <1>1, RowIs DEF BestInv, SearchTyped, Free
<1>3. n \in todo /\ \A m \in todo : n <= m
  BY <1>1, <1>2, EndsAre, FS_Subset
<1>4. Free' = Free
  BY <1>1, NothingMoves DEF Free
<1>5. \A m \in looked, k \in todo : m < k
  BY <1>1 DEF BestInv, RunsKept
<1> HIDE DEF n
<1>6. \A m \in looked \cup {n}, k \in todo' : m < k
  BY <1>1, <1>2, <1>3, <1>5
<1> QED
  BY <1>1, <1>2, <1>3, <1>4, <1>5, <1>6 DEF n

LEMMA ScanKeeps == ASSUME BestInv, ScanSeat PROVE BestInv'
<1> DEFINE n == First(todo)
           looked == Free \ todo
<1>1. /\ n \in todo /\ n \in Nat /\ todo \subseteq Free /\ Free \subseteq Nat
      /\ todo' = todo \ {n} /\ Free' = Free /\ Free' \ todo' = looked \cup {n}
      /\ \A m \in looked : m < n
      /\ \A m \in looked \cup {n}, k \in todo' : m < k
      /\ seats' = seats /\ count' = count /\ row' = row /\ best' = best
      /\ stage = "runs" /\ stage' = "runs"
  BY ScanIs
<1>2. runs' = IF Extended(n) = {} THEN runs \cup {[from |-> n, to |-> n]}
              ELSE (runs \ Extended(n)) \cup {[r EXCEPT !.to = n] : r \in Extended(n)}
  BY DEF ScanSeat
<1> HIDE DEF n
<1>3. /\ runs \subseteq [from : Nat, to : Nat]
      /\ \A run \in runs : run.from \in Nat /\ run.to \in Nat
  BY DEF BestInv, SearchTyped
<1>4. /\ \A m \in looked : \E run \in runs : InRun(run, m)
      /\ \A run \in runs : /\ run.from <= run.to /\ run.to + 1 \notin looked
                           /\ \A m \in Nat : InRun(run, m) => m \in looked
      /\ Apart
  BY <1>1 DEF BestInv, RunsKept
<1>5. \A run \in runs : run.from \in looked /\ run.to \in looked /\ run.to < n
  BY <1>1, <1>3, <1>4 DEF InRun
<1>6. n + 1 \notin looked /\ n \notin looked
  BY <1>1
\* Either way one run ends at the seat, and the others are as they were.
<1> DEFINE Ends(new, old) ==
        /\ runs' = (runs \ old) \cup {new} /\ new.to = n /\ new.from <= n
        /\ \A m \in Nat : InRun(new, m) <=> m = n \/ \E run \in old : InRun(run, m)
        /\ \A run \in runs \ old : run.to + 1 # n /\ run.to < new.from
<1>7. \E new \in [from : Nat, to : Nat], old \in SUBSET runs : Ends(new, old)
  <2>1. CASE Extended(n) = {}
    <3> DEFINE new == [from |-> n, to |-> n]
    <3>1. runs' = (runs \ {}) \cup {new}
      BY <1>2, <2>1
    <3>2. \A m \in Nat : InRun(new, m) <=> m = n
      BY <1>1 DEF InRun
    <3>3. \A run \in runs \ {} : run.to + 1 # n /\ run.to < new.from
      BY <1>5, <2>1 DEF Extended
    <3>4. new \in [from : Nat, to : Nat] /\ new.to = n /\ new.from <= n
      BY <1>1
    <3> HIDE DEF new
    <3>5. Ends(new, {})
      BY <3>1, <3>2, <3>3, <3>4
    <3> HIDE DEF Ends
    <3> QED
      BY <3>4, <3>5
  <2>2. CASE Extended(n) # {}
    <3>1. PICK run \in runs : run.to + 1 = n
      BY <2>2 DEF Extended
    <3>2. \A r \in runs : r.to + 1 = n => r = run
      BY <1>1, <1>3, <1>4, <3>1 DEF Apart
    <3>3. Extended(n) = {run}
      BY <3>1, <3>2 DEF Extended
    <3> DEFINE new == [run EXCEPT !.to = n]
    <3>4. runs' = (runs \ {run}) \cup {new}
      BY <1>2, <3>3
    <3>5. new \in [from : Nat, to : Nat] /\ new.to = n /\ new.from = run.from
      BY <1>1, <1>3
    <3>6. new.from <= n
      BY <1>1, <1>3, <1>5, <3>5
    <3>7. \A m \in Nat : InRun(new, m) <=> m = n \/ InRun(run, m)
      BY <1>1, <1>3, <1>4, <3>1, <3>5 DEF InRun
    <3>8. ASSUME NEW r \in runs \ {run} PROVE r.to + 1 # n /\ r.to < new.from
      <4>1. r.to + 1 # n
        BY <3>2
      <4>2. r.to < run.from \/ run.to < r.from
        BY <1>4, <3>1 DEF Apart
      <4>3. ~(run.to < r.from)
        BY <1>1, <1>3, <1>4, <1>5, <3>1
      <4> QED
        BY <3>5, <4>1, <4>2, <4>3
    <3> HIDE DEF new
    <3>9. Ends(new, {run})
      BY <3>4, <3>5, <3>6, <3>7, <3>8
    <3> HIDE DEF Ends
    <3> QED
      BY <3>1, <3>5, <3>9
  <2> QED
    BY <2>1, <2>2
<1>8. PICK new \in [from : Nat, to : Nat], old \in SUBSET runs : Ends(new, old)
  BY <1>7
<1>9. SearchTyped'
  BY <1>1, <1>3, <1>8 DEF BestInv, SearchTyped
<1>10. RunsKept'
  <2>1. ASSUME NEW m \in looked \cup {n} PROVE \E run \in runs' : InRun(run, m)
    <3>1. m \in Nat
      BY <1>1
    <3>2. CASE m = n
      BY <1>8, <3>1, <3>2
    <3>3. CASE m \in looked
      <4>1. PICK run \in runs : InRun(run, m)
        BY <1>4, <3>3
      <4> QED
        BY <1>8, <3>1, <4>1
    <3> QED
      BY <3>2, <3>3
  <2>2. ASSUME NEW run \in runs'
        PROVE  /\ run.from <= run.to /\ run.to + 1 \notin looked \cup {n}
               /\ \A m \in Nat : InRun(run, m) => m \in looked \cup {n}
    <3>1. CASE run = new
      <4>1. n + 1 # n
        BY <1>1
      <4>2. \A m \in Nat : InRun(new, m) => m \in looked \cup {n}
        BY <1>4, <1>8
      <4> QED
        BY <1>6, <1>8, <3>1, <4>1, <4>2
    <3>2. CASE run \in runs \ old
      BY <1>4, <1>8, <3>2
    <3> QED
      BY <1>8, <3>1, <3>2
  <2>3. Apart'
    <3>1. \A q, r \in runs' : q = r \/ q.to < r.from \/ r.to < q.from
      BY <1>4, <1>8 DEF Apart
    <3> QED
      BY <3>1 DEF Apart
  <2>4. \A run, m : InRun(run, m)' <=> InRun(run, m)
    BY DEF InRun
  <2> QED
    BY <1>1, <2>1, <2>2, <2>3, <2>4 DEF RunsKept
<1>11. Weighed'
  BY <1>1, BeatenStays, NothingMoves DEF BestInv, Weighed
<1>12. RunsLeft'
  BY <1>1 DEF RunsLeft
<1> QED
  BY <1>9, <1>10, <1>11, <1>12 DEF BestInv

LEMMA FoundKeeps == ASSUME BestInv, RunsFound PROVE BestInv'
<1>1. /\ stage = "runs" /\ stage' = "windows" /\ todo = {} /\ todo' = todo /\ row' = row
      /\ runs' = runs /\ best' = best /\ seats' = seats /\ count' = count
  BY DEF RunsFound
<1>2. Free' = Free
  BY <1>1, NothingMoves DEF Free
<1>3. SearchTyped'
  BY <1>1, <1>2 DEF BestInv, SearchTyped
<1>4. /\ \A n \in Free : \E run \in runs : InRun(run, n)
      /\ \A run \in runs : /\ run.from <= run.to /\ run.to + 1 \notin Free
                           /\ \A n \in Nat : InRun(run, n) => n \in Free
                           /\ run.from \in Nat /\ run.to \in Nat
      /\ Apart
  BY <1>1 DEF BestInv, RunsKept, SearchTyped
<1>5. RunsLeft'
  <2>1. \A run \in runs : run.from <= run.to + 1
    BY <1>4
  <2> QED
    BY <1>1, <1>2, <1>4, <2>1 DEF RunsLeft, Apart, InRun
<1>6. ASSUME NEW t \in Together, t[1] = row PROVE \E run \in runs : InRun(run, t[2])
  <2>1. count \in Nat \ {0} /\ t[2] \in Nat
    BY TogetherScore, TogetherIs DEF BestInv, SearchTyped
  <2>2. t[2] + 0 \in Free
    BY <1>6, <2>1, TogetherIs DEF Free
  <2> QED
    BY <1>4, <2>1, <2>2
<1>7. Weighed'
  <2>1. \A t \in Together' : t[1] < row' => Beaten(t)'
    BY <1>1, BeatenStays, NothingMoves DEF BestInv, Weighed
  <2>2. \A t \in Together' : t[1] = row' => \E run \in runs' : InRun(run, t[2])'
    BY <1>1, <1>6, NothingMoves DEF InRun
  <2>3. best' # None => <<best.row, best.from>>' \in Together' /\ best'.row < row'
    BY <1>1, NothingMoves DEF BestInv, Weighed
  <2> QED
    BY <1>1, <2>1, <2>2, <2>3 DEF Weighed
<1> QED
  BY <1>1, <1>3, <1>5, <1>7 DEF BestInv, RunsKept

\* A window taken from a run is of free seats, and the next in the row.
LEMMA WindowIs ==
  ASSUME BestInv, stage = "windows", NEW run \in runs, Nearest(run), Fits(run)
  PROVE  /\ <<row, run.from>> \in Together
         /\ \A r \in runs : r # run => run.from < r.from
<1>1. /\ \A r \in runs : /\ r.from <= r.to + 1 /\ r.to + 1 \notin Free
                         /\ \A n \in Nat : InRun(r, n) => n \in Free
                         /\ r.from \in Nat /\ r.to \in Nat
      /\ \A q, r \in runs : q = r \/ q.to < r.from \/ r.to < q.from
  BY DEF BestInv, RunsLeft, SearchTyped, Apart
<1>2. count \in Nat \ {0} /\ row \in 1..Len(Rows)
  BY BestAssumption, RowIs DEF BestInv, SearchTyped
<1>3. run.from + count <= run.to + 1
  BY DEF Fits
<1>4. ASSUME NEW k \in 0..count - 1 PROVE run.from + k \in Free
  <2>1. run.from + k \in Nat /\ InRun(run, run.from + k)
    BY <1>1, <1>2, <1>3 DEF InRun
  <2> QED
    BY <1>1, <2>1
<1>5. run.from \in Free
  <2>1. InRun(run, run.from)
    BY <1>1, <1>2, <1>3 DEF InRun
  <2> QED
    BY <1>1, <2>1
<1>6. run.from \in Rows[row]
  BY <1>2, <1>5, RowIs DEF Free
<1>7. <<row, run.from>> \in Together
  BY <1>2, <1>4, <1>6, TogetherIs DEF Free
<1>8. ASSUME NEW r \in runs, r # run PROVE run.from < r.from
  <2>1. run.from <= r.from
    BY DEF Nearest
  <2>2. run.from # r.from
    <3>1. SUFFICES ASSUME run.from = r.from PROVE FALSE
      OBVIOUS
    <3>2. run.to < r.from \/ r.to < run.from
      BY <1>1, <1>8
    <3>3. ~(run.to < r.from)
      BY <1>1, <1>2, <1>3, <3>1
    <3>4. r.to + 1 = run.from
      BY <1>1, <3>1, <3>2, <3>3
    <3> QED
      BY <1>1, <1>5, <3>4
  <2> QED
    BY <1>1, <2>1, <2>2
<1> QED
  BY <1>7, <1>8

\* Taking the better of two keeps what was beaten beaten, and beats the other.
LEMMA BetterBeats ==
  ASSUME BestInv, stage = "windows", NEW f \in Nat, <<row, f>> \in Together,
         best = None \/ best.row < row \/ (best.row = row /\ best.from < f),
         seats' = seats, count' = count,
         best' = IF best = None \/ Better([row |-> row, from |-> f], best)
                 THEN [row |-> row, from |-> f] ELSE best
  PROVE  /\ \A t \in Together : Beaten(t) => Beaten(t)'
         /\ \A t : t = <<row, f>> => Beaten(t)'
<1> DEFINE w == [row |-> row, from |-> f]
           win(t) == [row |-> t[1], from |-> t[2]]
<1>1. <<row, f>>[1] = row /\ <<row, f>>[2] = f /\ w.row = row /\ w.from = f
  OBVIOUS
<1>2. SearchTyped /\ row \in Nat /\ row >= 1
  BY RowIs DEF BestInv, SearchTyped
<1>3. Score(w) \in Int
  <2>1. Score(win(<<row, f>>)) \in Int
    BY <1>2, TogetherScore DEF SearchTyped
  <2> QED
    BY <1>1, <2>1
<1>4. best # None => Score(best) \in Int /\ best.row \in Nat /\ best.from \in Nat
  BY <1>2, BestScore DEF BestInv, Weighed, SearchTyped
<1>5. w # None
  BY <1>2 DEF None
<1>6. \A u : Score(u)' = Score(u)
  BY NothingMoves
<1>7. \A t : win(t).row = t[1] /\ win(t).from = t[2]
  OBVIOUS
<1>8. \A t \in Together : Score(win(t)) \in Int
  BY <1>2, TogetherScore DEF SearchTyped
<1> HIDE DEF w, win
<1>9. CASE best = None \/ Score(w) < Score(best)
  <2>1. best' = w
    BY <1>9 DEF w, Better
  <2>2. Score(best)' = Score(w)
    BY <1>6, <2>1
  <2>3. \A t : Beaten(t)' <=> \/ Score(w) < Score(win(t))
                              \/ /\ Score(w) = Score(win(t))
                                 /\ w.row < win(t).row \/ (w.row = win(t).row /\ w.from <= win(t).from)
    BY <1>5, <1>6, <2>1, <2>2 DEF Beaten, win
  <2>4. ASSUME NEW t \in Together, Beaten(t) PROVE Beaten(t)'
    <3>1. best # None /\ Score(best) <= Score(win(t))
      BY <1>4, <1>8, <2>4 DEF Beaten, win
    <3> QED
      BY <1>3, <1>4, <1>8, <1>9, <2>3, <3>1
  <2>5. ASSUME NEW t, t = <<row, f>> PROVE Beaten(t)'
    <3>1. win(<<row, f>>) = w
      BY DEF win, w
    <3> QED
      BY <1>1, <1>3, <2>3, <2>5, <3>1
  <2> QED
    BY <2>4, <2>5
<1>10. CASE best # None /\ ~(Score(w) < Score(best))
  <2>1. best' = best
    BY <1>10 DEF w, Better
  <2>2. \A t : Beaten(t)' <=> Beaten(t)
    BY <2>1, BeatenStays
  <2>3. Beaten(<<row, f>>)
    <3>1. win(<<row, f>>) = w
      BY DEF win, w
    <3>2. \/ Score(best) < Score(w)
          \/ /\ Score(best) = Score(w)
             /\ best.row < w.row \/ (best.row = w.row /\ best.from <= w.from)
      BY <1>1, <1>3, <1>4, <1>10
    <3> QED
      BY <1>10, <3>1, <3>2 DEF Beaten, win
  <2> QED
    BY <2>2, <2>3
<1> QED
  BY <1>9, <1>10

LEMMA TryKeeps == ASSUME BestInv, TryWindow PROVE BestInv'
<1>1. PICK run \in runs :
        /\ Nearest(run) /\ Fits(run)
        /\ runs' = (runs \ {run}) \cup {[run EXCEPT !.from = @ + 1]}
        /\ LET w == [row |-> row, from |-> run.from]
           IN best' = IF best = None \/ Better(w, best) THEN w ELSE best
  BY DEF TryWindow
<1> DEFINE rest == [run EXCEPT !.from = @ + 1]
           w == [row |-> row, from |-> run.from]
<1>2. /\ stage = "windows" /\ stage' = "windows" /\ seats' = seats /\ count' = count
      /\ row' = row /\ todo' = todo
  BY DEF TryWindow
<1>3. /\ \A r \in runs : /\ r.from <= r.to + 1 /\ r.to + 1 \notin Free
                         /\ \A n \in Nat : InRun(r, n) => n \in Free
                         /\ r.from \in Nat /\ r.to \in Nat
      /\ \A q, r \in runs : q = r \/ q.to < r.from \/ r.to < q.from
      /\ runs \subseteq [from : Nat, to : Nat]
  BY <1>2 DEF BestInv, RunsLeft, SearchTyped, Apart
<1>4. /\ count \in Nat \ {0} /\ row \in 1..Len(Rows) /\ row \in Nat
  BY <1>2, BestAssumption, RowIs DEF BestInv, SearchTyped
<1>5. <<row, run.from>> \in Together /\ \A r \in runs : r # run => run.from < r.from
  BY <1>1, <1>2, WindowIs
<1>6. rest \in [from : Nat, to : Nat] /\ rest.from = run.from + 1 /\ rest.to = run.to
  BY <1>3
<1>7. rest.from <= rest.to + 1
  BY <1>1, <1>3, <1>4, <1>6 DEF Fits
<1>8. Free' = Free /\ Together' = Together
  BY <1>2, NothingMoves DEF Free
<1>9. best' = w \/ best' = best
  BY <1>1
<1>10. w.row = row /\ w.from = run.from /\ w \in [row : Nat, from : Nat]
  BY <1>3, <1>4
<1>11. best # None => /\ <<best.row, best.from>> \in Together
                      /\ best.row < row \/ (best.row = row /\ \A r \in runs : best.from < r.from)
  BY <1>2 DEF BestInv, Weighed
<1>12. best \in [row : Nat, from : Nat] /\ best.row \in Nat /\ best.from \in Nat
  BY DEF BestInv, SearchTyped
<1>13. /\ \A t \in Together : Beaten(t) => Beaten(t)'
       /\ \A t : t = <<row, run.from>> => Beaten(t)'
  BY <1>1, <1>2, <1>3, <1>5, <1>11, BetterBeats
<1>14. runs' = (runs \ {run}) \cup {rest}
  BY <1>1
<1> HIDE DEF rest, w
<1>15. SearchTyped'
  <2>1. runs' \subseteq [from : Nat, to : Nat] /\ best' \in [row : Nat, from : Nat]
    BY <1>3, <1>6, <1>9, <1>10, <1>12, <1>14
  <2> QED
    BY <1>2, <1>8, <2>1 DEF BestInv, SearchTyped
<1>16. RunsLeft'
  <2>1. ASSUME NEW r \in runs'
        PROVE  /\ r.from <= r.to + 1 /\ r.to + 1 \notin Free
               /\ \A n \in Nat : InRun(r, n) => n \in Free
    <3>1. CASE r = rest
      BY <1>3, <1>6, <1>7, <3>1 DEF InRun
    <3>2. CASE r \in runs
      BY <1>3, <3>2
    <3> QED
      BY <1>14, <3>1, <3>2
  <2>2. \A q, r \in runs' : q = r \/ q.to < r.from \/ r.to < q.from
    BY <1>3, <1>6, <1>14
  <2>3. \A r, n : InRun(r, n)' <=> InRun(r, n)
    BY DEF InRun
  <2> QED
    BY <1>2, <1>8, <2>1, <2>2, <2>3 DEF RunsLeft, Apart
<1>17. Weighed'
  <2>1. \A t \in Together : t[1] < row => Beaten(t)'
    BY <1>2, <1>13 DEF BestInv, Weighed
  <2>2. ASSUME NEW t \in Together, t[1] = row
        PROVE  Beaten(t)' \/ \E r \in runs' : InRun(r, t[2])
    <3>1. CASE Beaten(t)
      BY <1>13, <3>1
    <3>2. ASSUME NEW r \in runs, InRun(r, t[2]), r # run PROVE \E q \in runs' : InRun(q, t[2])
      BY <1>14, <3>2
    <3>3. CASE InRun(run, t[2])
      <4>1. t = <<row, t[2]>> /\ t[2] \in Nat
        BY <2>2, TogetherIs
      <4>2. t[2] = run.from \/ InRun(rest, t[2])
        BY <1>3, <1>6, <3>3, <4>1 DEF InRun
      <4> QED
        BY <1>13, <1>14, <4>1, <4>2
    <3>4. Beaten(t) \/ \E r \in runs : InRun(r, t[2])
      BY <1>2, <2>2 DEF BestInv, Weighed
    <3> QED
      BY <3>1, <3>2, <3>3, <3>4
  <2>3. ASSUME best' # None
        PROVE  /\ <<best'.row, best'.from>> \in Together
               /\ \/ best'.row < row
                  \/ best'.row = row /\ \A r \in runs' : best'.from < r.from
    <3>1. CASE best' = w
      BY <1>3, <1>5, <1>6, <1>10, <1>14, <3>1
    <3>2. CASE best' = best
      BY <1>3, <1>6, <1>11, <1>12, <1>14, <2>3, <3>2
    <3> QED
      BY <1>9, <3>1, <3>2
  <2>4. \A r, n : InRun(r, n)' <=> InRun(r, n)
    BY DEF InRun
  <2> QED
    BY <1>2, <1>8, <2>1, <2>2, <2>3, <2>4 DEF Weighed
<1> QED
  BY <1>2, <1>15, <1>16, <1>17 DEF BestInv, RunsKept

\* No window is left in a run that is too short for one.
LEMMA EndRunKeeps == ASSUME BestInv, EndRun PROVE BestInv'
<1>1. PICK run \in runs : ~Fits(run) /\ runs' = runs \ {run}
  BY DEF EndRun
<1>2. /\ stage = "windows" /\ stage' = "windows" /\ seats' = seats /\ count' = count
      /\ row' = row /\ todo' = todo /\ best' = best
  BY DEF EndRun
<1>3. Free' = Free /\ Together' = Together
  BY <1>2, NothingMoves DEF Free
<1>4. SearchTyped'
  BY <1>1, <1>2, <1>3 DEF BestInv, SearchTyped
<1>5. \A r, n : InRun(r, n)' <=> InRun(r, n)
  BY DEF InRun
<1>6. RunsLeft'
  BY <1>1, <1>2, <1>3, <1>5 DEF BestInv, RunsLeft, Apart
<1>7. ASSUME NEW t \in Together, t[1] = row, InRun(run, t[2]) PROVE FALSE
  <2>1. t[2] \in Nat /\ count \in Nat \ {0} /\ \A k \in 0..count - 1 : t[2] + k \in Free
    BY <1>7, TogetherIs, TogetherScore DEF BestInv, SearchTyped, Free
  <2>2. run.from \in Nat /\ run.to \in Nat /\ run.to + 1 \notin Free
    BY <1>2 DEF BestInv, SearchTyped, RunsLeft
  <2>3. run.to + 1 - t[2] \in 0..count - 1 /\ t[2] + (run.to + 1 - t[2]) = run.to + 1
    BY <1>1, <1>7, <2>1, <2>2 DEF InRun, Fits
  <2> QED
    BY <2>1, <2>2, <2>3
<1>8. Weighed'
  <2>1. \A t : Beaten(t)' <=> Beaten(t)
    BY <1>2, BeatenStays
  <2> QED
    BY <1>1, <1>2, <1>3, <1>5, <1>7, <2>1 DEF BestInv, Weighed
<1> QED
  BY <1>2, <1>4, <1>6, <1>8 DEF BestInv, RunsKept

LEMMA EndRowKeeps == ASSUME BestInv, EndRow PROVE BestInv'
<1>1. /\ stage = "windows" /\ stage' = "row" /\ seats' = seats /\ count' = count
      /\ row' = row + 1 /\ runs' = runs /\ runs = {} /\ best' = best
  BY DEF EndRow
<1>2. row \in Nat /\ row <= Len(Rows) /\ Len(Rows) \in Nat /\ row >= 1
  BY <1>1, RowIs DEF BestInv, SearchTyped
<1>3. SearchTyped'
  <2>1. row' \in 0..Len(Rows) + 1 /\ row' >= 1
    BY <1>1, <1>2
  <2> QED
    BY <1>1, <2>1 DEF BestInv, SearchTyped
<1>4. Together' = Together /\ \A t : Beaten(t)' <=> Beaten(t)
  BY <1>1, NothingMoves, BeatenStays
<1>5. \A t \in Together : t[1] < row' => t[1] < row \/ t[1] = row
  BY <1>1, <1>2, TogetherIs
<1>6. best # None => <<best.row, best.from>> \in Together /\ best.row < row'
  BY <1>1, <1>2 DEF BestInv, Weighed, SearchTyped
<1>7. \A t \in Together : t[1] < row' => Beaten(t)
  BY <1>1, <1>5 DEF BestInv, Weighed
<1>8. Weighed'
  BY <1>1, <1>4, <1>6, <1>7 DEF Weighed
<1> QED
  BY <1>1, <1>3, <1>8 DEF BestInv, RunsKept, RunsLeft

LEMMA RecommendKeeps == ASSUME BestInv, Recommend PROVE BestInv'
<1>1. /\ stage = "row" /\ stage' = "done" /\ seats' = seats /\ count' = count
      /\ row' = row /\ runs' = runs /\ best' = best /\ row > Len(Rows)
  BY DEF Recommend
<1>2. SearchTyped'
  BY <1>1 DEF BestInv, SearchTyped
<1>3. Together' = Together /\ \A t : Beaten(t)' <=> Beaten(t)
  BY <1>1, NothingMoves, BeatenStays
<1>4. Weighed'
  BY <1>1, <1>3 DEF BestInv, Weighed
<1> QED
  BY <1>1, <1>2, <1>4 DEF BestInv, RunsKept, RunsLeft

LEMMA SearchInvariance == BestSpec => []BestInv
<1>1. BestInv /\ [BestNext]_bestVars => BestInv'
  <2> SUFFICES ASSUME BestInv, [BestNext]_bestVars PROVE BestInv'
    OBVIOUS
  <2>1. CASE UNCHANGED bestVars
    <3>1. /\ seats' = seats /\ count' = count /\ stage' = stage /\ row' = row /\ todo' = todo
          /\ runs' = runs /\ best' = best
      BY <2>1 DEF bestVars
    <3>2. /\ Free' = Free /\ Together' = Together /\ \A t : Beaten(t)' <=> Beaten(t)
          /\ \A r, n : InRun(r, n)' <=> InRun(r, n)
      BY <3>1, NothingMoves, BeatenStays DEF Free, InRun
    <3> QED
      BY <3>1, <3>2 DEF BestInv, SearchTyped, RunsKept, RunsLeft, Weighed, Apart
  <2>2. CASE \E c \in SeatNumbers : SeatChanges(c)
    BY <2>2, ChangeKeeps
  <2>3. CASE \E n \in 1..MaxCount : ChooseSize(n)
    BY <2>3, ChooseKeeps
  <2>4. CASE Search
    BY <2>4, SearchKeeps
  <2>5. CASE SkipRow \/ EnterRow
    BY <2>5, SkipKeeps, EnterKeeps
  <2>6. CASE ScanSeat \/ RunsFound
    BY <2>6, ScanKeeps, FoundKeeps
  <2>7. CASE TryWindow \/ EndRun \/ EndRow
    BY <2>7, TryKeeps, EndRunKeeps, EndRowKeeps
  <2>8. CASE Recommend
    BY <2>8, RecommendKeeps
  <2> QED
    BY <2>1, <2>2, <2>3, <2>4, <2>5, <2>6, <2>7, <2>8 DEF BestNext
<1> QED
  BY SearchStarts, <1>1, PTL DEF BestSpec

LEMMA SearchIsTyped == BestInv => BestTypeOK
<1> SUFFICES ASSUME BestInv PROVE BestTypeOK
  OBVIOUS
<1>1. best = None \/ <<best.row, best.from>> \in SeatNumbers
  BY TogetherIs DEF BestInv, Weighed, SearchTyped
<1>2. stage \in {"runs", "windows"} => row \in 1..Len(Rows) /\ todo \subseteq Rows[row]
  BY RowIs DEF BestInv, SearchTyped, Free
<1> QED
  BY <1>1, <1>2 DEF BestInv, SearchTyped, BestTypeOK

LEMMA BestIsBest == BestInv => BestTogether
<1> SUFFICES ASSUME BestInv, stage = "done"
             PROVE  IF Together = {} THEN best = None
                    ELSE /\ <<best.row, best.from>> \in Together
                         /\ \A t \in Together : Beaten(t)
  BY DEF BestTogether, Beaten
<1>1. row > Len(Rows) /\ row \in Nat /\ Len(Rows) \in Nat
  BY RowIs DEF BestInv, Weighed, SearchTyped
<1>2. ASSUME NEW t \in Together PROVE Beaten(t)
  <2>1. t[1] < row
    BY <1>1, TogetherIs
  <2> QED
    BY <2>1 DEF BestInv, Weighed
<1>3. best # None => <<best.row, best.from>> \in Together
  BY DEF BestInv, Weighed
<1>4. Together # {} => best # None
  BY <1>2 DEF Beaten
<1> QED
  BY <1>2, <1>3, <1>4

\* Through the loops of recommend.js the row, the runs and the best window are
\* of the layout, for any rows, any number of seats asked for and any sales.
THEOREM BestTypeCorrect == BestSpec => []BestTypeOK
BY SearchInvariance, SearchIsTyped, PTL

\* recommendSeats suggests seats exactly when some row has as many together,
\* and then the window that scores best, the first of equals, in the same
\* generality.
THEOREM SuggestionIsBest == BestSpec => []BestTogether
BY SearchInvariance, BestIsBest, PTL

-----------------------------------------------------------------------------
(* The parts side by side.                                                 *)

\* Whatever part moves, each of them takes a step of its own or none.
LEMMA EachPartSteps ==
  ASSUME [EdgesNext]_AllVars
  PROVE  /\ [RoomNext]_roomVars /\ [LimiterNext]_limiterVars /\ [GroupNext]_groupVars
         /\ [LifetimeNext]_seatVars /\ [Next]_vars /\ [TreeNext]_treeVars /\ [BestNext]_bestVars
<1>1. CASE UNCHANGED AllVars
  BY <1>1 DEF AllVars
<1>2. CASE RoomStep
  BY <1>2 DEF RoomStep
<1>3. CASE LimiterStep
  BY <1>3 DEF LimiterStep
<1>4. CASE GroupStep
  BY <1>4 DEF GroupStep
<1>5. CASE LifetimeStep
  BY <1>5 DEF LifetimeStep
<1>6. CASE CanvasStep
  BY <1>6 DEF CanvasStep
<1>7. CASE TreeStep
  BY <1>7 DEF TreeStep
<1>8. CASE BestStep
  BY <1>8 DEF BestStep
<1> QED
  BY <1>1, <1>2, <1>3, <1>4, <1>5, <1>6, <1>7, <1>8 DEF EdgesNext

\* So a behaviour of all of them is a behaviour of each.
LEMMA EachPart ==
  EdgesSpec => /\ RoomSpec /\ LimiterSpec /\ GroupSpec /\ LifetimeSpec
               /\ Spec /\ TreeSpec /\ BestSpec
<1>1. EdgesInit => /\ RoomInit /\ LimiterInit /\ GroupInit /\ LifetimeInit
                   /\ Init /\ TreeInit /\ BestInit
  BY DEF EdgesInit
<1>2. [EdgesNext]_AllVars =>
        /\ [RoomNext]_roomVars /\ [LimiterNext]_limiterVars /\ [GroupNext]_groupVars
        /\ [LifetimeNext]_seatVars /\ [Next]_vars /\ [TreeNext]_treeVars /\ [BestNext]_bestVars
  BY EachPartSteps
<1> QED
  BY <1>1, <1>2, PTL
  DEF EdgesSpec, RoomSpec, LimiterSpec, GroupSpec, LifetimeSpec, Spec, TreeSpec, BestSpec

\* Every part keeps its types beside the others, on any instances.
THEOREM EdgesTypeCorrect == EdgesSpec => []EdgesTypeOK
<1>1. EdgesTypeOK <=> /\ RoomTypeOK /\ LimiterTypeOK /\ GroupTypeOK /\ LifetimeTypeOK
                      /\ TypeOK /\ TreeTypeOK /\ BestTypeOK
  BY Zenon DEF EdgesTypeOK
<1> QED
  BY <1>1, EachPart, RoomTypeCorrect, LimiterTypeCorrect, GroupTypeCorrect, LifetimeTypeCorrect,
     CanvasTypeCorrect, TreeTypeCorrect, BestTypeCorrect, PTL
=============================================================================
