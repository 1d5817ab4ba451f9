------------------------ MODULE BlockStructureProofs ------------------------
(***************************************************************************)
(* What stands in what, for every set of lines, nesting limit, padding     *)
(* budget and size of arena: items stand in lists and only there and       *)
(* leaves hold nothing; a closed block is not changed again before the     *)
(* task list pass; a line closes the blocks below the container it matched *)
(* last; and no block lies deeper than the limit.                          *)
(***************************************************************************)
EXTENDS BlockSpineProofs, InductionProofs

(***************************************************************************)
(* Containment                                                             *)
(***************************************************************************)
\* Once nothing waits to be closed, the container is the tip.
AtTip == pc \in {"starts", "close", "text"} /\ allClosed => tip = cont

Opening == pc = "add" \/ (pc = "close" /\ goal = "add")

\* The block add_child will put the next one under, when nothing is in its way.
Room == IF pc = "add" THEN tip ELSE cont

\* What waits to be opened is one block, or a list and its item; an item alone
\* is opened in a list that is there already.
ListsForItems ==
  Opening =>
    \/ \E b : pend = <<b>> /\ b.type \in BlockTypes \ {"item", "doc"}
    \/ \E b, c : pend = <<b, c>> /\ b.type = "list" /\ c.type = "item"
    \/ \E c : pend = <<c>> /\ c.type = "item" /\ type[Room] = "list"

\* The inductive strengthening of WellContained.
ContainedIInv == SpineIInv /\ WellContained /\ AtTip /\ ListsForItems

LEMMA ContainedStays ==
  ASSUME WellContained, UNCHANGED <<tree, type, used>>
  PROVE  WellContained'
  BY DEF WellContained, Linked

\* Closing the tip or taking it out of the tree moves no other block.
LEMMA ContainedOnClose ==
  ASSUME Shape, WellContained, tip # Nil, tip # Doc, UNCHANGED <<type, used>>,
         tree' = tree \/ tree' = Unlink(tree, tip)
  PROVE  WellContained'
<1>1. CASE tree' = tree
  BY <1>1, ContainedStays
<1>2. CASE tree' = Unlink(tree, tip)
  <2>1. /\ tree \in Tree /\ LinksAgree /\ tip \in Node /\ used \in Node
        /\ tree.parent[tip] # Nil /\ tree.next[tip] = Nil
    BY TipBelow, NodeFacts DEF Shape
  <2>2. tree'.parent = [tree.parent EXCEPT ![tip] = Nil]
    BY <1>2, <2>1, UnlinkLast
  <2>3. tree.parent \in [Node -> Link] /\ 1..used \subseteq Node
    BY <2>1, NodeFacts DEF Tree
  <2>4. \A n \in Linked' \ {Doc} : n \in Linked /\ tree'.parent[n] = tree.parent[n]
    BY <2>2, <2>3 DEF Linked
  <2>. QED
    BY <2>4 DEF WellContained
<1>. QED
  BY <1>1, <1>2

\* A new block with a place that suits it leaves the others in theirs.
LEMMA ContainedOnAdd ==
  ASSUME Shape, WellContained, NEW p \in 1..used, NEW new, new = used + 1, new \in Node,
         used' = new, DOMAIN type' = Node, \A n \in 1..used : type'[n] = type[n],
         \A n \in 1..used : tree'.parent[n] \in {tree.parent[n], Nil}, tree'.parent[new] = p,
         type[p] \in {"doc"} \cup Containers,
         type'[new] = "item" <=> type[p] = "list"
  PROVE  WellContained'
<1>1. used \in Nat /\ \A n \in 1..used : n \in Node /\ n # new
  BY NodeFacts DEF Shape, Node
<1>2. SUFFICES ASSUME NEW n \in Linked' \ {Doc}
               PROVE  /\ type'[tree'.parent[n]] \in {"doc"} \cup Containers
                      /\ type'[n] = "item" <=> type'[tree'.parent[n]] = "list"
  BY DEF WellContained, Containers
<1>3. n \in 1..used \/ n = new
  BY <1>1, <1>2 DEF Linked
<1>4. CASE n = new
  BY <1>4
<1>5. CASE n \in 1..used
  <2>1. tree'.parent[n] # Nil
    BY <1>2 DEF Linked
  <2>2. tree'.parent[n] = tree.parent[n] /\ n \in Linked \ {Doc}
    BY <1>2, <1>5, <2>1 DEF Linked
  <2>3. tree.parent[n] \in Link /\ tree.parent[n] # Nil /\ tree.parent[n] < n
    BY <1>1, <1>5, <2>1, <2>2 DEF Shape, Tree, LinksAgree
  <2>4. tree.parent[n] \in 1..used
    BY <1>1, <1>5, <2>3 DEF Link, Node, Nil
  <2>. QED
    BY <1>5, <2>2, <2>4 DEF WellContained
<1>. QED
  BY <1>3, <1>4, <1>5

LEMMA ContainedInit == Init => ContainedIInv
<1>1. SUFFICES ASSUME Init PROVE WellContained /\ AtTip /\ ListsForItems
  BY SpineInit DEF ContainedIInv
<1>2. Linked \subseteq {Doc}
  BY <1>1, NodeFacts DEF Init, Linked
<1>. QED
  BY <1>1, <1>2 DEF Init, WellContained, AtTip, ListsForItems, Opening

LEMMA ReadLineContained == ContainedIInv /\ ReadLine => ContainedIInv'
<1>1. SUFFICES ASSUME ContainedIInv, ReadLine PROVE WellContained' /\ AtTip' /\ ListsForItems'
  BY ReadLineStep DEF ContainedIInv
<1>. QED
  BY <1>1, ContainedStays DEF ContainedIInv, ReadLine, treeVars, AtTip, ListsForItems, Opening

LEMMA WalkContained == ContainedIInv /\ Walk => ContainedIInv'
<1>1. SUFFICES ASSUME ContainedIInv, Walk PROVE WellContained' /\ AtTip' /\ ListsForItems'
  BY WalkStep DEF ContainedIInv
<1>2. pc = "walk" /\ SpineIInv /\ oldtip = tip /\ WellContained
  <2>1. pc = "walk"
    BY <1>1 DEF Walk, ContinueMatched, ContinueNotMatched, NoMoreOpen, CloseFence
  <2>. QED
    BY <1>1, <2>1 DEF ContainedIInv, SpineIInv, Pointers
<1>3. CASE ContinueMatched
  BY <1>2, <1>3, ContainedStays DEF ContinueMatched, treeVars, AtTip, ListsForItems, Opening
<1>4. CASE ContinueNotMatched \/ NoMoreOpen
  <2>1. WalkEnds(cont)
    BY <1>4 DEF ContinueNotMatched, NoMoreOpen
  <2>. QED
    BY <1>2, <2>1, ContainedStays DEF WalkEnds, treeVars, AtTip, ListsForItems, Opening
<1>5. CASE CloseFence
  <2>1. /\ NextOpen(cont) # Nil /\ type[NextOpen(cont)] = "code"
        /\ Finalize(NextOpen(cont), lineNo, lineNo) /\ pc' = "read"
    BY <1>5 DEF CloseFence, ClosesCode, Fenced
  <2>2. tree' = tree /\ UNCHANGED <<type, used>>
    BY <2>1 DEF Finalize, FinalizeWith, Vanishes
  <2>. QED
    BY <1>2, <2>1, <2>2, ContainedStays DEF AtTip, ListsForItems, Opening
<1>. QED
  BY <1>1, <1>3, <1>4, <1>5 DEF Walk

LEMMA StartContained == ContainedIInv /\ Start => ContainedIInv'
<1>1. SUFFICES ASSUME ContainedIInv, Start PROVE WellContained' /\ AtTip' /\ ListsForItems'
  BY StartStep DEF ContainedIInv
<1>2. /\ treeStays /\ UNCHANGED <<allClosed, cont>> /\ pc = "starts" /\ pc' \in {"close", "text"}
      /\ \/ pc' = "text" \/ goal' # "add"
         \/ \E b : pend' = <<b>> /\ b.type \in BlockTypes \ {"item", "doc"}
         \/ \E b, c : pend' = <<b, c>> /\ b.type = "list" /\ c.type = "item"
         \/ \E c : pend' = <<c>> /\ c.type = "item" /\ type[cont] = "list"
  <2>1. CASE StartQuote \/ StartHeading \/ StartFence \/ StartHtml
    BY <2>1 DEF StartQuote, StartHeading, StartFence, StartHtml, Begin, treeStays,
                treeVars, spineVars, Block, BlockTypes, Containers
  <2>2. CASE StartBreak \/ StartIndentedCode
    BY <2>2 DEF StartBreak, StartIndentedCode, Begin, treeStays,
                treeVars, spineVars, Block, BlockTypes, Containers
  <2>3. CASE StartItem
    <3>. DEFINE n    == NextNonspace(line, cur)
                m    == ListMarker(line, n)
                data == [NewBlk EXCEPT !.mark = ListMark(Tok(line, n.pos)), !.indent = m.indent]
                b    == Block("list", data)
                c    == Block("item", data)
    <3>1. /\ treeStays /\ UNCHANGED <<allClosed, cont>> /\ pc = "starts" /\ pc' = "close"
          /\ pend' = IF SameList(n) THEN <<c>> ELSE <<b, c>>
      BY <2>3 DEF StartItem, Begin, treeStays, treeVars, spineVars
    <3>2. b.type = "list" /\ c.type = "item"
      BY DEF Block
    <3>3. SameList(n) => type[cont] = "list"
      BY DEF SameList
    <3>. HIDE DEF b, c, n
    <3>. QED
      BY <3>1, <3>2, <3>3
  <2>4. CASE StartSetext \/ StartTable
    BY <2>4 DEF StartSetext, StartTable, Begin, treeStays, treeVars, spineVars
  <2>5. CASE NoStart
    BY <2>5 DEF NoStart, treeStays, treeVars, spineVars, startVars
  <2>. QED
    BY <1>1, <2>1, <2>2, <2>3, <2>4, <2>5 DEF Start
<1>3. WellContained'
  BY <1>1, <1>2, ContainedStays DEF ContainedIInv, treeStays
<1>4. AtTip'
  BY <1>1, <1>2 DEF ContainedIInv, AtTip, treeStays
<1>5. ListsForItems'
  BY <1>2 DEF ListsForItems, Opening, Room, treeStays
<1>. QED
  BY <1>3, <1>4, <1>5

LEMMA OpenContained == ContainedIInv /\ Open => ContainedIInv'
<1>1. SUFFICES ASSUME ContainedIInv, Open PROVE WellContained' /\ AtTip' /\ ListsForItems'
  BY OpenStep DEF ContainedIInv
<1>2. Shape /\ Pointers /\ WellContained /\ tip # Nil
  BY <1>1 DEF ContainedIInv, SpineIInv, Pointers, Open, CloseOne, AllClosed, MakeRoom, AddChild
<1>3. CASE CloseOne
  <2>1. /\ oldtip = tip /\ cont = lmc /\ cont \in OnSpine /\ cont # tip
        /\ pc = "close" /\ ~allClosed
    BY <1>2, <1>3 DEF Pointers, CloseOne
  <2>2. tip # Doc
    <3>1. cont <= tip /\ cont \in Int /\ 1 <= cont
      BY <1>2, <2>1, SpineFacts DEF Shape, SpineRises
    <3>. QED
      BY <2>1, <3>1 DEF Doc
  <2>3. /\ UNCHANGED <<type, used>> /\ tree' \in {tree, Unlink(tree, tip)}
        /\ UNCHANGED <<allClosed, cont, pend, goal, pc>>
    BY <1>3, <2>1 DEF CloseOne, Finalize, FinalizeWith, startVars
  <2>4. WellContained'
    BY <1>2, <2>2, <2>3, ContainedOnClose
  <2>. QED
    BY <1>1, <2>1, <2>3, <2>4 DEF ContainedIInv, AtTip, ListsForItems, Opening, Room
<1>4. CASE AllClosed
  <2>1. tip = cont
    BY <1>1, <1>2, <1>4 DEF AllClosed, ContainedIInv, AtTip, Pointers
  <2>2. /\ UNCHANGED <<tree, type, used, tip, cont, pend, goal>>
        /\ pc = "close" /\ pc' = goal /\ goal \in {"add", "setext", "table", "body"}
    BY <1>2, <1>4 DEF AllClosed, treeVars, startVars, Pointers
  <2>. QED
    BY <1>1, <1>2, <2>1, <2>2, ContainedStays
    DEF ContainedIInv, AtTip, ListsForItems, Opening, Room
<1>5. CASE MakeRoom
  <2>1. /\ UNCHANGED <<type, used>> /\ tree' \in {tree, Unlink(tree, tip)}
        /\ UNCHANGED <<pend, pc>> /\ pc = "add" /\ tip # Doc /\ ~CanContain(type[tip], pend[1].type)
    BY <1>5 DEF MakeRoom, Finalize, FinalizeWith, startVars
  <2>2. WellContained'
    BY <1>2, <2>1, ContainedOnClose
  <2>3. ~\E c : pend = <<c>> /\ c.type = "item" /\ type[tip] = "list"
    BY <2>1 DEF CanContain
  <2>. QED
    BY <1>1, <2>1, <2>2, <2>3 DEF ContainedIInv, AtTip, ListsForItems, Opening, Room
<1>6. CASE AddChild
  <2>. DEFINE new == used + 1
              b   == pend[1].type
  <2>1. /\ pc = "add" /\ used < MaxNodes /\ used' = new /\ tip' = new
        /\ tree' = AppendChild(tree, tip, new) /\ type' = [type EXCEPT ![new] = b]
        /\ tip = Doc \/ CanContain(type[tip], b)
        /\ pend' = Tail(pend) /\ pc' = IF Len(pend) = 1 THEN after ELSE "add"
        /\ Len(pend) = 1 /\ after # "line" => cont' = new
        /\ after \in {"starts", "text", "line"}
    BY <1>2, <1>6 DEF AddChild, Pointers
  <2>2. /\ \/ pend = <<pend[1]>> /\ Len(pend) = 1 /\ b \in BlockTypes \ {"item", "doc"}
           \/ /\ pend = <<pend[1], pend[2]>> /\ Len(pend) = 2 /\ Tail(pend) = <<pend[2]>>
              /\ b = "list" /\ pend[2].type = "item"
           \/ pend = <<pend[1]>> /\ Len(pend) = 1 /\ b = "item" /\ type[tip] = "list"
    <3>1. CASE \E x : pend = <<x>> /\ x.type \in BlockTypes \ {"item", "doc"}
      <4>1. PICK x : pend = <<x>> /\ x.type \in BlockTypes \ {"item", "doc"}
        BY <3>1
      <4>. QED
        BY <4>1
    <3>2. CASE \E x, y : pend = <<x, y>> /\ x.type = "list" /\ y.type = "item"
      <4>1. PICK x, y : pend = <<x, y>> /\ x.type = "list" /\ y.type = "item"
        BY <3>2
      <4>. QED
        BY <4>1
    <3>3. CASE \E y : pend = <<y>> /\ y.type = "item" /\ type[tip] = "list"
      <4>1. PICK y : pend = <<y>> /\ y.type = "item" /\ type[tip] = "list"
        BY <3>3
      <4>. QED
        BY <4>1
    <3>. QED
      BY <1>1, <2>1, <3>1, <3>2, <3>3 DEF ContainedIInv, ListsForItems, Opening, Room
  <2>3. /\ used \in Nat /\ new \in Node /\ new # Nil /\ tip \in Node /\ tip \in 1..used
        /\ tip # new /\ type[Doc] = "doc" /\ DOMAIN type = Node
        /\ \A n \in 1..used : n \in Node /\ n # new
    <3>1. used \in Node /\ open \subseteq 1..used /\ tip \in OnSpine
      BY <1>2 DEF Shape, SpineInv
    <3>2. used \in Nat /\ new \in Node /\ new # Nil /\ \A n \in 1..used : n \in Node /\ n # new
      BY <2>1, <3>1, NodeFacts, MaxNodesAssumption DEF Node
    <3>. QED
      BY <1>2, <3>1, <3>2 DEF Shape, OnSpine
  <2>4. type'[new] = b /\ DOMAIN type' = Node /\ \A n \in 1..used : type'[n] = type[n]
    BY <2>1, <2>3
  <2>5. tree'.parent = [tree.parent EXCEPT ![new] = tip]
    <3>1. /\ tree \in Tree /\ tree.parent[new] = Nil /\ tree.prev[new] = Nil
          /\ tree.next[new] = Nil
      BY <1>2, <2>3 DEF Shape, LinksAgree
    <3>. QED
      BY <2>1, <2>3, <3>1, AppendFresh
  <2>6. tree'.parent[new] = tip /\ \A n \in 1..used : tree'.parent[n] = tree.parent[n]
    <3>1. DOMAIN tree.parent = Node
      BY <1>2 DEF Shape, Tree
    <3>. QED
      BY <2>3, <2>5, <3>1
  <2>7. type[tip] \in {"doc"} \cup Containers /\ (b = "item" <=> type[tip] = "list")
    BY <2>1, <2>2, <2>3 DEF CanContain, Containers
  <2>8. WellContained'
    BY <1>2, <2>1, <2>3, <2>4, <2>6, <2>7, ContainedOnAdd
  <2>9. AtTip'
    BY <2>1 DEF AtTip
  <2>10. ListsForItems'
    <3>1. CASE Len(pend) = 1
      BY <2>1, <3>1 DEF ListsForItems, Opening
    <3>2. CASE Len(pend) = 2
      BY <2>1, <2>2, <2>4, <3>2 DEF ListsForItems, Opening, Room
    <3>. QED
      BY <2>2, <3>1, <3>2
  <2>. QED
    BY <2>8, <2>9, <2>10
<1>. QED
  BY <1>1, <1>3, <1>4, <1>5, <1>6 DEF Open

\* What a paragraph gives its place to stands in no list.
LEMMA ConvertContained == ContainedIInv /\ Convert => ContainedIInv'
<1>1. SUFFICES ASSUME ContainedIInv, Convert PROVE WellContained' /\ AtTip' /\ ListsForItems'
  BY ConvertStep DEF ContainedIInv
<1>2. /\ pc \in {"setext", "table"} /\ Shape /\ WellContained /\ allClosed /\ type[cont] = "para"
      /\ cont \in OnSpine /\ tip # Nil
  <2>1. pc \in {"setext", "table"}
    BY <1>1 DEF Convert, SetextFalls, SetextHeading, SplitParagraph, ReplaceParagraph, OpenTable
  <2>. QED
    BY <1>1, <2>1 DEF ContainedIInv, SpineIInv, Pointers
<1>3. cont = tip /\ tip # Doc
  BY <1>2, LeafIsTip DEF Containers
<1>4. CASE SetextFalls
  <2>1. pc' = "starts" /\ UNCHANGED <<tree, type, used, tip, cont>>
    BY <1>4 DEF SetextFalls
  <2>. QED
    BY <1>2, <1>3, <2>1, ContainedStays DEF AtTip, ListsForItems, Opening
<1>5. CASE SetextHeading
  <2>. DEFINE new == used + 1
              p   == tree.parent[tip]
  <2>1. /\ used < MaxNodes /\ used' = new /\ tip' = new /\ cont' = new /\ pc' = "text"
        /\ tree' = Unlink(InsertAfter(tree, tip, new), tip)
        /\ type' = [type EXCEPT ![new] = "heading"]
    BY <1>3, <1>5 DEF SetextHeading
  <2>2. /\ used \in Nat /\ new \in Node /\ tip \in Node /\ tip \in 1..used /\ tip # new
        /\ p \in Node /\ p < tip /\ tree.next[tip] = Nil /\ DOMAIN type = Node
        /\ \A n \in 1..used : n \in Node /\ n # new
    <3>1. used \in Node /\ open \subseteq 1..used /\ tip \in OnSpine /\ DOMAIN type = Node
      BY <1>2, <1>3 DEF Shape
    <3>2. used \in Nat /\ new \in Node /\ new # Nil /\ \A n \in 1..used : n \in Node /\ n # new
      BY <2>1, <3>1, NodeFacts, MaxNodesAssumption DEF Node
    <3>3. p \in Node /\ p < tip /\ tree.next[tip] = Nil
      BY <1>2, <1>3, TipBelow
    <3>. QED
      BY <3>1, <3>2, <3>3 DEF OnSpine
  <2>3. /\ tree \in Tree /\ LinksAgree /\ tree.parent[new] = Nil /\ tree.prev[new] = Nil
        /\ tree.next[new] = Nil /\ \A n \in Node : tree.prev[n] # new
    <3>1. tree \in Tree /\ LinksAgree /\ new > used
      BY <1>2, <2>2 DEF Shape
    <3>2. \A n \in Node : tree.prev[n] = new => tree.next[new] = n
      BY <2>2, <3>1, NodeFacts DEF LinksAgree
    <3>. QED
      BY <2>2, <3>1, <3>2, NodeFacts DEF LinksAgree
  <2>4. \A n \in Node : tree'.parent[n] = CASE n = new -> p [] n = tip -> Nil
                                             [] OTHER -> tree.parent[n]
    BY <2>1, <2>2, <2>3, NodeFacts, ReplaceLast
  <2>5. p \in 1..used
    BY <2>2 DEF Node
  <2>6. type[p] \in {"doc"} \cup Containers /\ type[p] # "list"
    <3>1. tip \in Linked \ {Doc}
      BY <1>3, <2>2, NodeFacts DEF Linked
    <3>. QED
      BY <1>2, <1>3, <3>1 DEF WellContained
  <2>7. /\ type'[new] = "heading" /\ DOMAIN type' = Node /\ \A n \in 1..used : type'[n] = type[n]
        /\ tree'.parent[new] = p /\ \A n \in 1..used : tree'.parent[n] \in {tree.parent[n], Nil}
    BY <2>1, <2>2, <2>4
  <2>8. WellContained'
    BY <1>2, <2>1, <2>2, <2>5, <2>6, <2>7, ContainedOnAdd
  <2>. QED
    BY <2>1, <2>8 DEF AtTip, ListsForItems, Opening
<1>6. CASE SplitParagraph \/ ReplaceParagraph
  <2>1. /\ UNCHANGED <<type, used>> /\ tree' \in {tree, Unlink(tree, tip)} /\ pc' = "add"
        /\ \E f : pend' = <<Block("table", f)>>
    BY <1>3, <1>6 DEF SplitParagraph, ReplaceParagraph, OpenTable, FinalizeWith
  <2>2. WellContained'
    BY <1>2, <1>3, <2>1, ContainedOnClose
  <2>3. \A f : Block("table", f).type \in BlockTypes \ {"item", "doc"}
    BY DEF Block, BlockTypes
  <2>. QED
    BY <2>1, <2>2, <2>3 DEF AtTip, ListsForItems, Opening
<1>. QED
  BY <1>1, <1>4, <1>5, <1>6 DEF Convert

LEMMA TextContained == ContainedIInv /\ Text => ContainedIInv'
<1>1. SUFFICES ASSUME ContainedIInv, Text PROVE WellContained' /\ AtTip' /\ ListsForItems'
  BY TextStep DEF ContainedIInv
<1>2. Shape /\ WellContained
  BY <1>1 DEF ContainedIInv, SpineIInv
<1>3. CASE LazyLine \/ TakeLine \/ NoText \/ GiveToBlock
  <2>1. UNCHANGED <<tree, type, used>> /\ pc' \in {"read", "line"}
    BY <1>3 DEF LazyLine, TakeLine, NoText, GiveToBlock, MarkBlank
  <2>. QED
    BY <1>2, <2>1, ContainedStays DEF AtTip, ListsForItems, Opening
<1>4. CASE CloseForText
  <2>1. /\ pc = "text" /\ pc' = "close" /\ goal' = "body"
        /\ UNCHANGED <<tree, type, used, tip, cont, allClosed>>
    BY <1>4 DEF CloseForText, treeVars, spineVars
  <2>. QED
    BY <1>1, <1>2, <2>1, ContainedStays DEF ContainedIInv, AtTip, ListsForItems, Opening
<1>5. CASE OpenParagraph
  <2>1. /\ UNCHANGED <<tree, type, used>> /\ pc' = "add" /\ pend' = <<Block("para", NewBlk)>>
    BY <1>5 DEF OpenParagraph, MarkBlank
  <2>2. Block("para", NewBlk).type \in BlockTypes \ {"item", "doc"}
    BY DEF Block, BlockTypes
  <2>. QED
    BY <1>2, <2>1, <2>2, ContainedStays DEF AtTip, ListsForItems, Opening
<1>6. CASE TakeLastHtmlLine
  <2>1. type[cont] = "html" /\ pc' = "read"
    BY <1>6 DEF TakeLastHtmlLine, EndsHtml
  <2>2. UNCHANGED <<tree, type, used>>
    BY <1>6, <2>1 DEF TakeLastHtmlLine, FinalizeWith, Vanishes
  <2>. QED
    BY <1>2, <2>1, <2>2, ContainedStays DEF AtTip, ListsForItems, Opening
<1>. QED
  BY <1>1, <1>3, <1>4, <1>5, <1>6 DEF Text

LEMMA FinishContained == ContainedIInv /\ Finish => ContainedIInv'
<1>1. SUFFICES ASSUME ContainedIInv, Finish PROVE WellContained' /\ AtTip' /\ ListsForItems'
  BY FinishStep DEF ContainedIInv
<1>2. Shape /\ WellContained
  BY <1>1 DEF ContainedIInv, SpineIInv
<1>3. CASE EndOfInput \/ MarkTasks
  <2>1. UNCHANGED <<tree, type, used>> /\ pc' \in {"finish", "done"}
    BY <1>3 DEF EndOfInput, MarkTasks, treeVars
  <2>. QED
    BY <1>2, <2>1, ContainedStays DEF AtTip, ListsForItems, Opening
<1>4. CASE FinishOne
  <2>1. /\ tip # Nil /\ UNCHANGED <<type, used>> /\ pc' = "finish"
        /\ tree' = tree \/ (type[tip] = "para" /\ tree' = Unlink(tree, tip))
    BY <1>4 DEF FinishOne, Finalize, FinalizeWith, Vanishes
  <2>2. type[tip] = "para" => tip # Doc
    BY <1>2 DEF Shape
  <2>3. WellContained'
    BY <1>2, <2>1, <2>2, ContainedStays, ContainedOnClose
  <2>. QED
    BY <2>1, <2>3 DEF AtTip, ListsForItems, Opening
<1>. QED
  BY <1>1, <1>3, <1>4 DEF Finish

LEMMA ContainedStutter == ContainedIInv /\ UNCHANGED vars => ContainedIInv'
<1>1. SUFFICES ASSUME ContainedIInv, UNCHANGED vars
               PROVE  WellContained' /\ AtTip' /\ ListsForItems'
  BY SpineStutter DEF ContainedIInv
<1>. QED
  BY <1>1, ContainedStays
  DEF ContainedIInv, vars, treeVars, spineVars, startVars, AtTip, ListsForItems, Opening, Room

\* Whatever lines a document holds, an item stands in a list, a list holds
\* items and nothing else, and a leaf holds nothing: closing blocks until one
\* can hold the new one, as add_child does, always finds the right one.
THEOREM ContainmentSafe == Spec => []WellContained
<1>1. Init => ContainedIInv
  BY ContainedInit
<1>2. ContainedIInv /\ [Next]_vars => ContainedIInv'
  BY ReadLineContained, WalkContained, StartContained, OpenContained, ConvertContained,
     TextContained, FinishContained, ContainedStutter DEF Next, Done
<1>3. ContainedIInv => WellContained
  BY DEF ContainedIInv
<1>. QED
  BY <1>1, <1>2, <1>3, PTL DEF Spec

(***************************************************************************)
(* Closed blocks                                                           *)
(***************************************************************************)
Kept == {"start", "end", "of", "content", "rows"}

\* Every node has the fields a closed block keeps, from the start.
BlkFields == DOMAIN blk = Node /\ \A n \in Node : Kept \subseteq DOMAIN blk[n]
PendFields == Opening => \A i \in 1..Len(pend) : Kept \subseteq DOMAIN pend[i].blk

ClosedIInv == ContainedIInv /\ BlkFields /\ PendFields

SameBlk(n) == /\ blk'[n].content = blk[n].content /\ blk'[n].rows = blk[n].rows
              /\ blk'[n].end = blk[n].end

\* The action of ClosedStaysClosed.
KeepsClosed ==
  \A n \in 1..used \ open : n \notin open' /\ tree'.last[n] = tree.last[n] /\ SameBlk(n)

LEMMA NewBlkFields == Kept \subseteq DOMAIN NewBlk
  BY DEF Kept, NewBlk

LEMMA OpenFacts ==
  ASSUME Shape, tip # Nil
  PROVE  /\ tip \in Node /\ tip \in open /\ open \subseteq 1..used /\ used \in Node
         /\ 1..used \subseteq Node
         /\ tip # Doc => /\ tree.parent[tip] \in open /\ tree.parent[tip] \in Node
                         /\ tree.parent[tip] # Nil /\ tree.next[tip] = Nil
  BY NodeFacts, TipBelow DEF Shape, SpineInv, OnSpine

\* A step that leaves the nodes alone.
LEMMA NothingKept ==
  ASSUME BlkFields, UNCHANGED <<tree, open, blk>>
  PROVE  BlkFields' /\ KeepsClosed
  BY DEF BlkFields, KeepsClosed, SameBlk

\* A step that changes the text, rows and end of no block but one that is open.
LEMMA OthersKept ==
  ASSUME BlkFields, NEW x,
         open' \cap (1..used \ open) = {}, x \notin 1..used \ open, 1..used \subseteq Node,
         DOMAIN blk' = Node, \A n \in Node : Kept \subseteq DOMAIN blk'[n],
         \A n \in Node : n # x => SameBlk(n),
         \A n \in 1..used \ open : tree'.last[n] = tree.last[n]
  PROVE  BlkFields' /\ KeepsClosed
<1>1. BlkFields'
  BY DEF BlkFields
<1>2. KeepsClosed
  BY DEF KeepsClosed
<1>. QED
  BY <1>1, <1>2

LEMMA FinalizeKeeps ==
  ASSUME Shape, tip # Nil, BlkFields,
         NEW content, NEW at, NEW of, FinalizeWith(tip, content, at, of)
  PROVE  BlkFields' /\ KeepsClosed
<1>. DEFINE k     == IF type[tip] = "para" THEN Definitions(content) ELSE 0
            e     == EndOf(tip, at, of)
            left  == AfterDefinitions(content, k)
            dated == [blk EXCEPT ![tip].end = e[1], ![tip].of = e[2], ![tip].content = left]
            rows  == BodyRows(tip).rows
            child == tree.first[tip]
<1>1. /\ open' = open \ {tip}
      /\ tree' = tree \/ (type[tip] = "para" /\ tree' = Unlink(tree, tip))
      /\ \/ blk' = [dated EXCEPT ![tip].rows = rows, ![tip].content = <<>>]
         \/ blk' = [dated EXCEPT ![tip].tight = FALSE, ![child].tight = FALSE]
         \/ blk' = dated
  BY DEF FinalizeWith, Vanishes
<1>. HIDE DEF k, e, left, rows, child
<1>2. \A n \in 1..used \ open : n \in Node /\ n # tip /\ n \notin open'
  BY <1>1, OpenFacts
<1>3. \A n \in 1..used \ open : tree'.last[n] = tree.last[n]
  <2>1. CASE type[tip] = "para" /\ tree' = Unlink(tree, tip)
    <3>1. tip # Doc /\ tree \in Tree /\ LinksAgree
      BY <2>1 DEF Shape
    <3>2. tree'.last = [tree.last EXCEPT ![tree.parent[tip]] = tree.prev[tip]]
      BY <2>1, <3>1, OpenFacts, UnlinkLast
    <3>3. DOMAIN tree.last = Node
      BY <3>1 DEF Tree
    <3>. QED
      BY <1>2, <3>1, <3>2, <3>3, OpenFacts
  <2>. QED
    BY <1>1, <2>1
<1>4. DOMAIN dated = Node /\ \A n \in Node : /\ Kept \subseteq DOMAIN dated[n]
                                             /\ n # tip => dated[n] = blk[n]
  BY OpenFacts DEF BlkFields
<1>. HIDE DEF dated
<1>. SUFFICES /\ DOMAIN blk' = Node
              /\ \A n \in Node : Kept \subseteq DOMAIN blk'[n]
              /\ \A n \in Node : n # tip => SameBlk(n)
  BY <1>1, <1>2, <1>3, OpenFacts, OthersKept
<1>5. CASE blk' = [dated EXCEPT ![tip].rows = rows, ![tip].content = <<>>]
  <2>1. DOMAIN blk' = Node /\ \A n \in Node : /\ Kept \subseteq DOMAIN blk'[n]
                                              /\ n # tip => blk'[n] = blk[n]
    BY <1>4, <1>5, OpenFacts
  <2>. QED
    BY <2>1 DEF SameBlk
<1>6. CASE blk' = dated
  BY <1>4, <1>6 DEF SameBlk
<1>7. CASE blk' = [dated EXCEPT ![tip].tight = FALSE, ![child].tight = FALSE]
  <2>. DEFINE f    == [dated EXCEPT ![tip].tight = FALSE]
              g(n) == [f[n] EXCEPT !.tight = FALSE]
  <2>1. DOMAIN f = Node /\ \A n \in Node : /\ Kept \subseteq DOMAIN f[n]
                                           /\ n # tip => f[n] = blk[n]
    BY <1>4, OpenFacts
  <2>2. blk' = [f EXCEPT ![child] = g(child)]
    BY <1>7
  <2>3. \A n \in Node : DOMAIN g(n) = DOMAIN f[n]
    OBVIOUS
  <2>4. \A n \in Node : g(n).content = f[n].content /\ g(n).rows = f[n].rows /\ g(n).end = f[n].end
    BY <2>1 DEF Kept
  <2>. HIDE DEF f, g
  <2>5. DOMAIN blk' = Node /\ \A n \in Node : blk'[n] = f[n] \/ blk'[n] = g(n)
    BY <2>1, <2>2
  <2>6. \A n \in Node : Kept \subseteq DOMAIN blk'[n]
    <3>. TAKE n \in Node
    <3>2. DOMAIN blk'[n] = DOMAIN f[n]
      BY <2>3, <2>5
    <3>. QED
      BY <2>1, <3>2
  <2>7. \A n \in Node : n # tip => SameBlk(n)
    <3>. TAKE n \in Node
    <3>. HAVE n # tip
    <3>3. f[n] = blk[n]
      BY <2>1
    <3>4. CASE blk'[n] = f[n]
      BY <3>3, <3>4 DEF SameBlk
    <3>5. CASE blk'[n] = g(n)
      BY <2>4, <3>3, <3>5 DEF SameBlk
    <3>. QED
      BY <2>5, <3>4, <3>5
  <2>. QED
    BY <2>5, <2>6, <2>7
<1>. QED
  BY <1>1, <1>5, <1>6, <1>7
LEMMA InitFields == Init => BlkFields /\ PendFields
<1>1. SUFFICES ASSUME Init PROVE BlkFields /\ PendFields
  OBVIOUS
<1>2. BlkFields
  BY <1>1, NewBlkFields DEF Init, BlkFields
<1>. QED
  BY <1>1, <1>2 DEF Init, PendFields, Opening

\* What a step of the block phase owes: the fields, and the closed blocks.
Owes == BlkFields' /\ PendFields' /\ (pc' # "done" => KeepsClosed)

\* A block a start asks for has the fields of a new node.
LEMMA StartFields ==
  ASSUME ContainedIInv, BlkFields, Start
  PROVE  Owes
<1>1. ASSUME NEW k, NEW g, NEW blocks, NEW c, NEW then, Begin(k, g, blocks, c, then)
      PROVE  UNCHANGED <<tree, open, blk>> /\ pend' = blocks /\ goal' = g /\ pc' = "close"
  BY <1>1 DEF Begin, treeVars
<1>2. \A t, f : Block(t, f).blk = f
  BY DEF Block
<1>. SUFFICES /\ UNCHANGED <<tree, open, blk>>
              /\ \/ pc' = "text" \/ (pc' = "close" /\ goal' # "add")
                 \/ \E b : pend' = <<b>> /\ Kept \subseteq DOMAIN b.blk
                 \/ \E b, c : /\ pend' = <<b, c>>
                              /\ Kept \subseteq DOMAIN b.blk /\ Kept \subseteq DOMAIN c.blk
  BY NothingKept DEF Owes, PendFields, Opening
<1>3. CASE StartQuote \/ StartBreak \/ StartIndentedCode
  <2>1. UNCHANGED <<tree, open, blk>> /\ \E t : pend' = <<Block(t, NewBlk)>>
    BY <1>1, <1>3 DEF StartQuote, StartBreak, StartIndentedCode
  <2>. QED
    BY <1>2, <2>1, NewBlkFields
<1>4. CASE StartHeading
  <2>. DEFINE n    == NextNonspace(line, cur)
              text == Rest(line, NextNonspace(line, PastMarker(line, ToNonspace(n))).pos)
              data == [NewBlk EXCEPT !.content = <<[at |-> lineNo, toks |-> text]>>]
  <2>1. UNCHANGED <<tree, open, blk>> /\ pend' = <<Block("heading", data)>>
    BY <1>1, <1>4 DEF StartHeading
  <2>2. DOMAIN data = DOMAIN NewBlk
    OBVIOUS
  <2>. HIDE DEF data
  <2>. QED
    BY <1>2, <2>1, <2>2, NewBlkFields
<1>5. CASE StartFence
  <2>. DEFINE n    == NextNonspace(line, cur)
              data == [NewBlk EXCEPT !.fence = Tok(line, n.pos), !.inset = n.indent]
  <2>1. UNCHANGED <<tree, open, blk>> /\ pend' = <<Block("code", data)>>
    BY <1>1, <1>5 DEF StartFence
  <2>2. DOMAIN data = DOMAIN NewBlk
    OBVIOUS
  <2>. HIDE DEF data
  <2>. QED
    BY <1>2, <2>1, <2>2, NewBlkFields
<1>6. CASE StartHtml
  <2>. DEFINE n    == NextNonspace(line, cur)
              data == [NewBlk EXCEPT !.kind = HtmlKind(line, n.pos)]
  <2>1. UNCHANGED <<tree, open, blk>> /\ pend' = <<Block("html", data)>>
    BY <1>1, <1>6 DEF StartHtml
  <2>2. DOMAIN data = DOMAIN NewBlk
    OBVIOUS
  <2>. HIDE DEF data
  <2>. QED
    BY <1>2, <2>1, <2>2, NewBlkFields
<1>7. CASE StartItem
  <2>. DEFINE f(x, y) == [NewBlk EXCEPT !.mark = x, !.indent = y]
              n    == NextNonspace(line, cur)
              m    == ListMarker(line, n)
              data == f(ListMark(Tok(line, n.pos)), m.indent)
  <2>1. /\ UNCHANGED <<tree, open, blk>>
        /\ pend' = IF SameList(n) THEN <<Block("item", data)>>
                   ELSE <<Block("list", data), Block("item", data)>>
    BY <1>1, <1>7 DEF StartItem
  <2>2. \A x, y : DOMAIN f(x, y) = DOMAIN NewBlk
    OBVIOUS
  <2>. HIDE DEF f
  <2>3. Kept \subseteq DOMAIN data
    BY <2>2, NewBlkFields
  <2>. HIDE DEF data, n
  <2>. QED
    BY <1>2, <2>1, <2>3
<1>8. CASE StartSetext \/ StartTable
  BY <1>1, <1>8 DEF StartSetext, StartTable
<1>9. CASE NoStart
  BY <1>9 DEF NoStart, treeVars
<1>. QED
  BY <1>3, <1>4, <1>5, <1>6, <1>7, <1>8, <1>9 DEF Start

LEMMA WalkFields ==
  ASSUME ContainedIInv, BlkFields, Walk
  PROVE  Owes
<1>1. pc = "walk" /\ Shape /\ tip # Nil /\ cont \in OnSpine
  <2>1. pc = "walk"
    BY DEF Walk, ContinueMatched, ContinueNotMatched, NoMoreOpen, CloseFence
  <2>. QED
    BY <2>1 DEF ContainedIInv, SpineIInv, Pointers
<1>2. CASE ContinueMatched \/ ContinueNotMatched \/ NoMoreOpen
  <2>1. UNCHANGED <<tree, open, blk>> /\ pc' \in {"walk", "starts", "text"}
    BY <1>1, <1>2 DEF ContinueMatched, ContinueNotMatched, NoMoreOpen, WalkEnds, treeVars
  <2>. QED
    BY <2>1, NothingKept DEF Owes, PendFields, Opening
<1>3. CASE CloseFence
  <2>. DEFINE child == NextOpen(cont)
  <2>1. /\ child # Nil /\ type[child] = "code" /\ Finalize(child, lineNo, lineNo)
        /\ pc' = "read"
    BY <1>3 DEF CloseFence, ClosesCode, Fenced
  <2>2. child = tip
    BY <1>1, <2>1, WalkFacts, LeafIsTip DEF Containers, ContainedIInv
  <2>3. FinalizeWith(tip, blk[tip].content, lineNo, lineNo)
    BY <2>1, <2>2 DEF Finalize
  <2>. HIDE DEF child
  <2>. QED
    BY <1>1, <2>1, <2>3, FinalizeKeeps DEF Owes, PendFields, Opening
<1>. QED
  BY <1>2, <1>3 DEF Walk
LEMMA OpenFields ==
  ASSUME ContainedIInv, BlkFields, PendFields, Open
  PROVE  Owes
<1>1. /\ Shape /\ Pointers /\ tip # Nil /\ pc \in {"close", "add"}
  BY DEF ContainedIInv, SpineIInv, Pointers, Open, CloseOne, AllClosed, MakeRoom, AddChild
<1>2. CASE CloseOne \/ MakeRoom
  <2>1. \E at, of : FinalizeWith(tip, blk[tip].content, at, of)
    BY <1>1, <1>2 DEF CloseOne, MakeRoom, Finalize, Pointers
  <2>2. UNCHANGED <<pend, goal, pc>>
    BY <1>2 DEF CloseOne, MakeRoom, startVars
  <2>. QED
    BY <1>1, <2>1, <2>2, FinalizeKeeps DEF Owes, PendFields, Opening
<1>3. CASE AllClosed
  <2>1. UNCHANGED <<tree, open, blk, pend, goal>> /\ pc = "close" /\ pc' = goal
        /\ goal \in {"add", "setext", "table", "body"}
    BY <1>1, <1>3 DEF AllClosed, treeVars, startVars, Pointers
  <2>. QED
    BY <2>1, NothingKept DEF Owes, PendFields, Opening
<1>4. CASE AddChild
  <2>. DEFINE new    == used + 1
              start  == IF pend[1].type = "table" THEN lineNo - 1 ELSE lineNo
              opened == [pend[1].blk EXCEPT !.start = start]
  <2>1. /\ pc = "add" /\ used < MaxNodes /\ tree' = AppendChild(tree, tip, new)
        /\ open' = open \cup {new} /\ blk' = [blk EXCEPT ![new] = opened]
        /\ pend' = Tail(pend) /\ pc' = IF Len(pend) = 1 THEN after ELSE "add"
        /\ after \in {"starts", "text", "line"}
    BY <1>1, <1>4 DEF AddChild, Pointers
  <2>2. (\E b : pend = <<b>>) \/ (\E b, c : pend = <<b, c>>)
    BY <2>1 DEF ContainedIInv, ListsForItems, Opening
  <2>3. Kept \subseteq DOMAIN pend[1].blk /\ PendFields'
    <3>1. \A i \in 1..Len(pend) : Kept \subseteq DOMAIN pend[i].blk
      BY <2>1 DEF PendFields, Opening
    <3>2. CASE \E b : pend = <<b>>
      <4>1. PICK b : pend = <<b>>
        BY <3>2
      <4>2. pc' # "add" /\ pc' # "close" /\ Len(pend) = 1
        BY <2>1, <4>1
      <4>. QED
        BY <3>1, <4>2 DEF PendFields, Opening
    <3>3. CASE \E b, c : pend = <<b, c>>
      <4>1. PICK b, c : pend = <<b, c>>
        BY <3>3
      <4>2. Len(pend) = 2 /\ pend' = <<c>> /\ c = pend[2]
        BY <2>1, <4>1
      <4>3. \A i \in 1..Len(pend') : Kept \subseteq DOMAIN pend'[i].blk
        BY <3>1, <4>2
      <4>. QED
        BY <3>1, <4>2, <4>3 DEF PendFields
    <3>. QED
      BY <2>2, <3>2, <3>3
  <2>4. Kept \subseteq DOMAIN opened
    <3>1. DOMAIN opened = DOMAIN pend[1].blk
      OBVIOUS
    <3>. QED
      BY <2>3, <3>1
  <2>. HIDE DEF opened
  <2>5. /\ new \in Node /\ new \notin 1..used /\ 1..used \subseteq Node /\ tip # new
        /\ tip \in Node /\ tip \in open
    BY <1>1, <2>1, OpenFacts, MaxNodesAssumption DEF Node
  <2>6. tree'.last = [tree.last EXCEPT ![tip] = new] /\ DOMAIN tree.last = Node
    <3>1. /\ tree \in Tree /\ tree.parent[new] = Nil /\ tree.prev[new] = Nil
          /\ tree.next[new] = Nil
      BY <1>1, <2>5, NodeFacts DEF Shape, LinksAgree, Node
    <3>. QED
      BY <2>1, <2>5, <3>1, AppendFresh, ZenonT(40) DEF Tree
  <2>7. /\ DOMAIN blk' = Node /\ \A n \in Node : Kept \subseteq DOMAIN blk'[n]
        /\ \A n \in Node : n # new => SameBlk(n)
    BY <2>1, <2>4, <2>5 DEF BlkFields, SameBlk
  <2>8. \A n \in 1..used \ open : tree'.last[n] = tree.last[n]
    BY <2>5, <2>6
  <2>9. BlkFields' /\ KeepsClosed
    BY <2>1, <2>5, <2>7, <2>8, OthersKept
  <2>. QED
    BY <2>3, <2>9 DEF Owes
<1>. QED
  BY <1>2, <1>3, <1>4 DEF Open

\* Only the paragraph itself, still open, loses its text.
LEMMA ConvertFields ==
  ASSUME ContainedIInv, BlkFields, Convert
  PROVE  Owes
<1>1. /\ pc \in {"setext", "table"} /\ Shape /\ type[cont] = "para"
      /\ cont \in OnSpine /\ tip # Nil
  <2>1. pc \in {"setext", "table"}
    BY DEF Convert, SetextFalls, SetextHeading, SplitParagraph, ReplaceParagraph, OpenTable
  <2>. QED
    BY <2>1 DEF ContainedIInv, SpineIInv, Pointers
<1>2. cont = tip /\ tip # Doc
  BY <1>1, LeafIsTip DEF Containers
<1>3. /\ tip \in Node /\ tip \in open /\ 1..used \subseteq Node /\ DOMAIN tree.last = Node
      /\ tree.parent[tip] \in open /\ tree.parent[tip] \in Node
      /\ tree.parent[tip] # Nil /\ tree.next[tip] = Nil
  BY <1>1, <1>2, OpenFacts DEF Shape, Tree
<1>4. CASE SetextFalls
  <2>1. /\ UNCHANGED <<tree, open>> /\ pc' = "starts"
        /\ blk' = [blk EXCEPT ![tip].content = <<>>]
    BY <1>2, <1>4 DEF SetextFalls
  <2>2. /\ DOMAIN blk' = Node /\ \A n \in Node : Kept \subseteq DOMAIN blk'[n]
        /\ \A n \in Node : n # tip => SameBlk(n)
    BY <1>3, <2>1 DEF BlkFields, SameBlk
  <2>3. BlkFields' /\ KeepsClosed
    BY <1>3, <2>1, <2>2, OthersKept
  <2>. QED
    BY <2>1, <2>3 DEF Owes, PendFields, Opening
<1>5. CASE SetextHeading
  <2>. DEFINE new    == used + 1
              left   == AfterDefinitions(blk[tip].content, Definitions(blk[tip].content))
              opened == [NewBlk EXCEPT !.start = blk[tip].start, !.content = left]
  <2>1. /\ used < MaxNodes /\ open' = open \cup {new} /\ pc' = "text"
        /\ tree' = Unlink(InsertAfter(tree, tip, new), tip)
        /\ blk' = [blk EXCEPT ![tip].content = <<>>, ![new] = opened]
    BY <1>2, <1>5 DEF SetextHeading
  <2>2. Kept \subseteq DOMAIN opened
    <3>1. DOMAIN opened = DOMAIN NewBlk
      OBVIOUS
    <3>. QED
      BY <3>1, NewBlkFields
  <2>. HIDE DEF opened
  <2>3. new \in Node /\ new \notin 1..used /\ tip # new /\ tip \in 1..used
    BY <1>1, <1>3, <2>1, OpenFacts, MaxNodesAssumption DEF Node
  <2>4. \A n \in Node : tree'.last[n] = IF n = tree.parent[tip] THEN new ELSE tree.last[n]
    <3>1. tree \in Tree /\ LinksAgree /\ new > used
      BY <1>1, <2>3, OpenFacts DEF Shape, Node
    <3>2. /\ tree.parent[new] = Nil /\ tree.prev[new] = Nil /\ tree.next[new] = Nil
          /\ \A n \in Node : tree.prev[n] # new
      <4>1. \A n \in Node : tree.prev[n] = new => tree.next[new] = n
        BY <2>3, <3>1, NodeFacts DEF LinksAgree
      <4>. QED
        BY <2>3, <3>1, <4>1, NodeFacts DEF LinksAgree
    <3>. QED
      BY <1>3, <2>1, <2>3, <3>1, <3>2, ReplaceLast
  <2>5. /\ DOMAIN blk' = Node /\ \A n \in Node : Kept \subseteq DOMAIN blk'[n]
        /\ \A n \in 1..used \ open : SameBlk(n)
    <3>. DEFINE f == [blk EXCEPT ![tip].content = <<>>]
    <3>1. DOMAIN f = Node /\ \A n \in Node : Kept \subseteq DOMAIN f[n]
      BY <1>3 DEF BlkFields
    <3>2. \A n \in Node : n # tip => f[n] = blk[n]
      BY DEF BlkFields
    <3>3. blk' = [f EXCEPT ![new] = opened]
      BY <2>1
    <3>. HIDE DEF f
    <3>4. \A n \in 1..used \ open : n \in Node /\ n # tip /\ n # new
      BY <1>3, <2>3
    <3>5. \A n \in 1..used \ open : blk'[n] = blk[n]
      BY <3>1, <3>2, <3>3, <3>4
    <3>. QED
      BY <2>2, <2>3, <3>1, <3>3, <3>5 DEF SameBlk
  <2>6. BlkFields'
    BY <2>5 DEF BlkFields
  <2>7. KeepsClosed
    BY <1>3, <2>1, <2>3, <2>4, <2>5 DEF KeepsClosed
  <2>. QED
    BY <2>1, <2>6, <2>7 DEF Owes, PendFields, Opening
<1>6. CASE SplitParagraph \/ ReplaceParagraph
  <2>. DEFINE f(x, y) == [NewBlk EXCEPT !.cols = x, !.rows = y]
  <2>1. PendFields' /\ pc' = "add"
    <3>. DEFINE cols   == DelimiterColumns(line, nx.pos)
                header == WithRow([rows |-> <<>>, padded |-> padded], cols,
                                  lastAdded.toks, lineNo - 1, lineNo - 1)
    <3>1. pend' = <<Block("table", f(cols, header.rows))>> /\ pc' = "add"
      BY <1>6 DEF SplitParagraph, ReplaceParagraph, OpenTable
    <3>2. DOMAIN f(cols, header.rows) = DOMAIN NewBlk
      OBVIOUS
    <3>. HIDE DEF f, cols, header
    <3>. QED
      BY <3>1, <3>2, NewBlkFields DEF PendFields, Block
  <2>2. BlkFields' /\ KeepsClosed
    <3>1. CASE SplitParagraph
      BY <1>1, <1>2, <3>1, FinalizeKeeps DEF SplitParagraph
    <3>2. CASE ReplaceParagraph
      <4>1. UNCHANGED <<open, blk>> /\ tree' = Unlink(tree, tip)
        BY <1>2, <3>2 DEF ReplaceParagraph
      <4>2. tree'.last = [tree.last EXCEPT ![tree.parent[tip]] = tree.prev[tip]]
        BY <1>1, <1>3, <4>1, UnlinkLast DEF Shape
      <4>3. BlkFields'
        BY <4>1 DEF BlkFields
      <4>4. \A n \in 1..used \ open : n \in Node /\ n # tree.parent[tip]
        BY <1>3
      <4>. QED
        BY <1>3, <4>1, <4>2, <4>3, <4>4 DEF KeepsClosed, SameBlk
    <3>. QED
      BY <1>6, <3>1, <3>2
  <2>. QED
    BY <2>1, <2>2 DEF Owes
<1>. QED
  BY <1>4, <1>5, <1>6 DEF Convert

LEMMA TextFields ==
  ASSUME ContainedIInv, BlkFields, PendFields, Text
  PROVE  Owes
<1>1. Shape /\ tip # Nil
  <2>1. pc \in {"text", "body", "line"}
    BY DEF Text, LazyLine, CloseForText, GiveToBlock, OpenParagraph, NoText, TakeLine,
           TakeLastHtmlLine
  <2>. QED
    BY <2>1 DEF ContainedIInv, SpineIInv, Pointers
<1>2. CASE LazyLine \/ TakeLine
  <2>1. /\ UNCHANGED <<tree, open>> /\ pc' = "read"
        /\ blk' = [blk EXCEPT ![tip].content = Append(@, LineText)]
    BY <1>2 DEF LazyLine, TakeLine, AddLine
  <2>2. tip \in Node /\ tip \in open /\ 1..used \subseteq Node
    BY <1>1, OpenFacts
  <2>3. /\ DOMAIN blk' = Node /\ \A n \in Node : Kept \subseteq DOMAIN blk'[n]
        /\ \A n \in Node : n # tip => SameBlk(n)
    BY <2>1, <2>2 DEF BlkFields, SameBlk
  <2>4. BlkFields' /\ KeepsClosed
    BY <2>1, <2>2, <2>3, OthersKept
  <2>. QED
    BY <2>1, <2>4 DEF Owes, PendFields, Opening
<1>3. CASE CloseForText \/ GiveToBlock \/ NoText
  <2>1. UNCHANGED <<tree, open, blk>>
    BY <1>3 DEF CloseForText, GiveToBlock, NoText, MarkBlank, treeVars
  <2>2. (pc' = "close" /\ goal' = "body") \/ pc' \in {"line", "read"}
    BY <1>3 DEF CloseForText, GiveToBlock, NoText
  <2>. QED
    BY <2>1, <2>2, NothingKept DEF Owes, PendFields, Opening
<1>4. CASE OpenParagraph
  <2>1. UNCHANGED <<tree, open, blk>> /\ pend' = <<Block("para", NewBlk)>>
    BY <1>4 DEF OpenParagraph, MarkBlank
  <2>2. PendFields'
    BY <2>1, NewBlkFields DEF PendFields, Block
  <2>. QED
    BY <2>1, <2>2, NothingKept DEF Owes
<1>5. CASE TakeLastHtmlLine
  <2>1. pc = "line" /\ type[cont] = "html" /\ pc' = "read"
    BY <1>5 DEF TakeLastHtmlLine, EndsHtml
  <2>2. cont = tip
    BY <1>1, <2>1, LeafIsTip DEF ContainedIInv, SpineIInv, Pointers, Containers
  <2>3. \E content : FinalizeWith(tip, content, lineNo, lineNo)
    BY <1>5, <2>2 DEF TakeLastHtmlLine
  <2>. QED
    BY <1>1, <2>1, <2>3, FinalizeKeeps DEF Owes, PendFields, Opening
<1>. QED
  BY <1>2, <1>3, <1>4, <1>5 DEF Text

\* The task list pass changes blocks that are closed: it is the last step.
LEMMA FinishFields ==
  ASSUME ContainedIInv, BlkFields, Finish
  PROVE  Owes
<1>1. CASE EndOfInput
  <2>1. UNCHANGED <<tree, open, blk>> /\ pc' = "finish"
    BY <1>1 DEF EndOfInput, treeVars
  <2>. QED
    BY <2>1, NothingKept DEF Owes, PendFields, Opening
<1>2. CASE FinishOne
  <2>1. tip # Nil /\ FinalizeWith(tip, blk[tip].content, lineNo, lastLen) /\ pc' = "finish"
    <3>1. pc = "finish"
      BY <1>2 DEF FinishOne
    <3>. QED
      BY <1>2, <3>1 DEF FinishOne, Finalize
  <2>. QED
    BY <2>1, FinalizeKeeps DEF Owes, PendFields, Opening, ContainedIInv, SpineIInv
<1>3. CASE MarkTasks
  <2>. DEFINE firsts    == {tree.first[m] : m \in Tasks}
              marked(n) == [blk[n] EXCEPT !.task = TRUE]
              text(n)   == LET toks == blk[n].content[1].toks
                           IN  Rest(toks, NextNonspace(toks, [off |-> 1, col |-> 1,
                                                              part |-> FALSE]).pos)
              bare(n)   == [blk[n] EXCEPT !.content[1].toks = text(n)]
  <2>1. /\ pc' = "done"
        /\ blk' = IF ~Gfm THEN blk
                  ELSE [n \in Node |-> CASE n \in Tasks -> marked(n)
                                         [] n \in firsts -> bare(n)
                                         [] OTHER -> blk[n]]
    BY <1>3 DEF MarkTasks
  <2>2. \A n \in Node : DOMAIN marked(n) = DOMAIN blk[n] /\ DOMAIN bare(n) = DOMAIN blk[n]
    OBVIOUS
  <2>. HIDE DEF marked, bare, firsts
  <2>3. DOMAIN blk' = Node /\ \A n \in Node : blk'[n] \in {blk[n], marked(n), bare(n)}
    BY <2>1 DEF BlkFields
  <2>4. \A n \in Node : DOMAIN blk'[n] = DOMAIN blk[n]
    BY <2>2, <2>3
  <2>5. BlkFields'
    BY <2>3, <2>4 DEF BlkFields
  <2>. QED
    BY <2>1, <2>5 DEF Owes, PendFields, Opening
<1>. QED
  BY <1>1, <1>2, <1>3 DEF Finish

LEMMA StepKeeps == ClosedIInv /\ [Next]_vars => ClosedIInv' /\ (pc' # "done" => KeepsClosed)
<1>1. SUFFICES ASSUME ClosedIInv, [Next]_vars PROVE ContainedIInv' /\ Owes
  BY DEF ClosedIInv, Owes
<1>2. ContainedIInv'
  BY <1>1, ReadLineContained, WalkContained, StartContained, OpenContained, ConvertContained,
     TextContained, FinishContained, ContainedStutter DEF ClosedIInv, Next, Done
<1>3. CASE ReadLine
  <2>1. UNCHANGED <<tree, open, blk>> /\ pc' = "walk"
    BY <1>3 DEF ReadLine, treeVars
  <2>. QED
    BY <1>1, <1>2, <2>1, NothingKept DEF ClosedIInv, Owes, PendFields, Opening
<1>4. CASE UNCHANGED vars
  <2>1. UNCHANGED <<tree, open, blk, pend, goal, pc>>
    BY <1>4 DEF vars, treeVars, startVars
  <2>. QED
    BY <1>1, <1>2, <2>1, NothingKept DEF ClosedIInv, Owes, PendFields, Opening
<1>. QED
  BY <1>1, <1>2, <1>3, <1>4, WalkFields, StartFields, OpenFields, ConvertFields, TextFields,
     FinishFields DEF ClosedIInv, Next, Done

\* Whatever lines a document holds, a block that is closed keeps its text, its
\* rows and its end, gets no child and does not open again, up to the task list
\* pass: what finalize_block settles (a list's looseness, a paragraph's
\* definitions, the end a parent copies from its last child) stays true.
THEOREM ClosedUntouched == Spec => ClosedStaysClosed
<1>1. Init => ClosedIInv
  BY ContainedInit, InitFields DEF ClosedIInv
<1>2. ClosedIInv /\ [Next]_vars => ClosedIInv'
  BY StepKeeps
<1>3. ClosedIInv /\ [Next]_vars =>
        [pc' # "done" =>
           \A n \in 1..used \ open :
             /\ n \notin open'
             /\ tree'.last[n] = tree.last[n]
             /\ blk'[n].content = blk[n].content /\ blk'[n].rows = blk[n].rows
             /\ blk'[n].end = blk[n].end]_vars
  BY StepKeeps DEF KeepsClosed, SameBlk
<1>. QED
  BY <1>1, <1>2, <1>3, PTL DEF Spec, ClosedStaysClosed

(***************************************************************************)
(* The blocks above a block                                                *)
(***************************************************************************)
\* The recursion of SelfAndAbove has a solution, in any tree: the least sets
\* closed under `parent`.
LEMMA AboveEquation ==
  ASSUME NEW t \in Tree
  PROVE  /\ SelfAndAbove(t, Nil) = {}
         /\ \A n \in Node : SelfAndAbove(t, n) = {n} \cup SelfAndAbove(t, t.parent[n])
<1>. DEFINE Step1(f)  == [m \in Link |-> IF m = Nil THEN {} ELSE {m} \cup f[t.parent[m]]]
            Closed(S) == \A x \in S : t.parent[x] # Nil => t.parent[x] \in S
            reach     == [m \in Link |->
                            IF m = Nil THEN {}
                            ELSE {a \in Node : \A S \in SUBSET Node :
                                                 m \in S /\ Closed(S) => a \in S}]
            up        == CHOOSE f : f = Step1(f)
<1>1. \A n : SelfAndAbove(t, n) = up[n]
  BY DEF SelfAndAbove
<1>2. \A n \in Node : n \in Link /\ n # Nil /\ t.parent[n] \in Link
  BY NodeFacts DEF Tree, Link
<1>3. ASSUME NEW m \in Node
      PROVE  reach[m] = {m} \cup reach[t.parent[m]]
  <2>. DEFINE p == t.parent[m]
              S == {m} \cup reach[p]
  <2>1. p \in Link
    BY <1>2
  <2>2. reach[m] \subseteq Node /\ reach[p] \subseteq Node
    BY <1>2, <2>1
  <2>3. m \in S /\ S \subseteq Node
    BY <2>2
  <2>4. Closed(S)
    <3>1. ASSUME NEW x \in S, t.parent[x] # Nil PROVE t.parent[x] \in S
      <4>1. CASE x = m
        <5>1. p # Nil /\ p \in Node
          BY <2>1, <3>1, <4>1 DEF Link
        <5>2. p \in reach[p]
          BY <2>1, <5>1
        <5>. QED
          BY <4>1, <5>2
      <4>2. CASE x \in reach[p]
        <5>1. p # Nil /\ x \in Node /\ t.parent[x] \in Node
          BY <1>2, <2>1, <3>1, <4>2 DEF Link
        <5>2. t.parent[x] \in reach[p]
          BY <2>1, <3>1, <4>2, <5>1
        <5>. QED
          BY <5>2
      <4>. QED
        BY <3>1, <4>1, <4>2
    <3>. QED
      BY <3>1
  <2>5. reach[m] \subseteq S
    <3>1. ASSUME NEW a \in reach[m] PROVE a \in S
      <4>1. reach[m] = {b \in Node : \A X \in SUBSET Node : m \in X /\ Closed(X) => b \in X}
        BY <1>2
      <4>. HIDE DEF reach, Closed
      <4>2. \A X \in SUBSET Node : m \in X /\ Closed(X) => a \in X
        BY <3>1, <4>1
      <4>. HIDE DEF S
      <4>. QED
        BY <2>3, <2>4, <4>2
    <3>. QED
      BY <3>1
  <2>6. m \in reach[m]
    BY <1>2
  <2>7. reach[p] \subseteq reach[m]
    <3>1. ASSUME NEW a \in reach[p] PROVE a \in reach[m]
      <4>1. p # Nil /\ a \in Node
        BY <2>1, <3>1
      <4>2. ASSUME NEW X \in SUBSET Node, m \in X, Closed(X) PROVE a \in X
        BY <2>1, <3>1, <4>1, <4>2
      <4>. QED
        BY <1>2, <4>1, <4>2
    <3>. QED
      BY <3>1
  <2>. QED
    BY <2>5, <2>6, <2>7
<1>4. reach = Step1(reach)
  <2>1. \A m \in Link : reach[m] = IF m = Nil THEN {} ELSE {m} \cup reach[t.parent[m]]
    BY <1>3 DEF Link
  <2>2. reach = [m \in Link |-> reach[m]]
    OBVIOUS
  <2>. HIDE DEF reach
  <2>. QED
    BY <2>1, <2>2
<1>. HIDE DEF reach
<1>5. up = Step1(up)
  <2>. HIDE DEF Step1
  <2>. QED
    BY <1>4
<1>6. /\ up[Nil] = {}
      /\ \A m \in Node : up[m] = {m} \cup up[t.parent[m]]
  <2>. HIDE DEF up
  <2>1. \A m \in Link : Step1(up)[m] = IF m = Nil THEN {} ELSE {m} \cup up[t.parent[m]]
    OBVIOUS
  <2>2. \A m \in Link : up[m] = IF m = Nil THEN {} ELSE {m} \cup up[t.parent[m]]
    <3>. HIDE DEF Step1
    <3>. QED
      BY <1>5, <2>1
  <2>. QED
    BY <1>2, <2>2 DEF Link
<1>. QED
  BY <1>1, <1>6

\* Upwards the arena numbers fall.
Falls(t) == \A n \in Node : t.parent[n] < n

LEMMA AboveBounded ==
  ASSUME NEW t \in Tree, Falls(t), NEW n \in Node
  PROVE  /\ n \in SelfAndAbove(t, n) /\ SelfAndAbove(t, n) \subseteq 1..n
         /\ IsFiniteSet(SelfAndAbove(t, n))
<1>. DEFINE Bad == {m \in Node : ~(SelfAndAbove(t, m) \subseteq 1..m)}
<1>1. Bad = {}
  <2>1. SUFFICES ASSUME Bad # {} PROVE FALSE
    OBVIOUS
  <2>2. Bad \subseteq Nat
    BY DEF Node
  <2>3. PICK m \in Bad : \A k \in Bad : m <= k
    <3>. HIDE DEF Bad
    <3>. QED
      BY <2>1, <2>2, LeastNatural
  <2>4. m \in Node /\ t.parent[m] \in Link /\ t.parent[m] < m
    BY <2>3 DEF Falls, Tree
  <2>5. SelfAndAbove(t, m) = {m} \cup SelfAndAbove(t, t.parent[m])
    BY <2>4, AboveEquation
  <2>6. CASE t.parent[m] = Nil
    BY <2>3, <2>4, <2>5, <2>6, AboveEquation, NodeFacts
  <2>7. CASE t.parent[m] \in Node
    <3>1. t.parent[m] \notin Bad
      BY <2>2, <2>3, <2>4, <2>7 DEF Node
    <3>2. SelfAndAbove(t, t.parent[m]) \subseteq 1..t.parent[m]
      BY <2>7, <3>1
    <3>3. 1..t.parent[m] \subseteq 1..m /\ m \in 1..m
      BY <2>4, <2>7 DEF Node
    <3>. QED
      BY <2>3, <2>5, <3>2, <3>3
  <2>. QED
    BY <2>4, <2>6, <2>7 DEF Link
<1>2. SelfAndAbove(t, n) \subseteq 1..n
  BY <1>1
<1>3. n \in SelfAndAbove(t, n)
  BY AboveEquation
<1>4. IsFiniteSet(1..n)
  BY FS_Interval DEF Node
<1>. QED
  BY <1>2, <1>3, <1>4, FS_Subset

\* What is above a block that is above n is above n.
LEMMA AboveUp ==
  ASSUME NEW t \in Tree, Falls(t), NEW n \in Node,
         NEW x \in SelfAndAbove(t, n), t.parent[x] # Nil
  PROVE  t.parent[x] \in SelfAndAbove(t, n)
<1>. DEFINE Bad == {m \in Node : \E y \in SelfAndAbove(t, m) :
                      t.parent[y] # Nil /\ t.parent[y] \notin SelfAndAbove(t, m)}
<1>1. SUFFICES ASSUME Bad # {} PROVE FALSE
  OBVIOUS
<1>2. Bad \subseteq Nat
  BY DEF Node
<1>3. PICK m \in Bad : \A k \in Bad : m <= k
  <2>. HIDE DEF Bad
  <2>. QED
    BY <1>1, <1>2, LeastNatural
<1>4. PICK y \in SelfAndAbove(t, m) : t.parent[y] # Nil /\ t.parent[y] \notin SelfAndAbove(t, m)
  BY <1>3
<1>5. /\ m \in Node /\ t.parent[m] \in Link /\ t.parent[m] < m
      /\ SelfAndAbove(t, m) = {m} \cup SelfAndAbove(t, t.parent[m])
  BY <1>3, AboveEquation DEF Falls, Tree
<1>6. CASE y = m
  <2>1. t.parent[m] \in Node
    BY <1>4, <1>5, <1>6 DEF Link
  <2>. QED
    BY <1>4, <1>5, <1>6, <2>1, AboveBounded
<1>7. CASE y \in SelfAndAbove(t, t.parent[m])
  <2>1. t.parent[m] \in Node
    BY <1>5, <1>7, AboveEquation DEF Link
  <2>2. t.parent[m] \in Bad
    BY <1>4, <1>5, <1>7, <2>1
  <2>. QED
    BY <1>2, <1>3, <1>5, <2>1, <2>2 DEF Node
<1>. QED
  BY <1>4, <1>5, <1>6, <1>7

\* Two trees with the same parents in a part closed upwards agree on what is
\* above the blocks of that part.
LEMMA AboveSame ==
  ASSUME NEW t \in Tree, NEW u \in Tree, Falls(t), NEW S \in SUBSET Node,
         \A n \in S : u.parent[n] = t.parent[n] /\ t.parent[n] \in S \cup {Nil},
         NEW n \in S
  PROVE  SelfAndAbove(u, n) = SelfAndAbove(t, n) /\ SelfAndAbove(t, n) \subseteq S
<1>. DEFINE Good(m) == SelfAndAbove(u, m) = SelfAndAbove(t, m) /\ SelfAndAbove(t, m) \subseteq S
            Bad     == {m \in S : ~Good(m)}
<1>1. SUFFICES ASSUME Bad # {} PROVE FALSE
  OBVIOUS
<1>2. Bad \subseteq Nat
  <2>1. S \subseteq Nat
    BY DEF Node
  <2>. QED
    BY <2>1, Zenon
<1>3. PICK m \in Bad : \A k \in Bad : m <= k
  <2>. HIDE DEF Bad
  <2>. QED
    BY <1>1, <1>2, LeastNatural
<1>4. /\ m \in S /\ m \in Node /\ u.parent[m] = t.parent[m] /\ t.parent[m] < m
      /\ t.parent[m] \in S \cup {Nil}
      /\ SelfAndAbove(t, m) = {m} \cup SelfAndAbove(t, t.parent[m])
      /\ SelfAndAbove(u, m) = {m} \cup SelfAndAbove(u, t.parent[m])
  BY <1>3, AboveEquation DEF Falls
<1>5. Good(t.parent[m])
  <2>1. CASE t.parent[m] = Nil
    BY <2>1, AboveEquation
  <2>2. CASE t.parent[m] \in S
    <3>1. t.parent[m] \notin Bad
      BY <1>2, <1>3, <1>4, <2>2 DEF Node
    <3>. QED
      BY <2>2, <3>1
  <2>. QED
    BY <1>4, <2>1, <2>2
<1>. QED
  BY <1>3, <1>4, <1>5

(***************************************************************************)
(* How deep a block lies                                                   *)
(***************************************************************************)
Depth(t, ty, n) == Cardinality({m \in SelfAndAbove(t, n) : ty[m] \in Containers})

LEMMA DepthEquation ==
  ASSUME NEW t \in Tree, Falls(t), NEW ty, NEW n \in Node, t.parent[n] \in Node
  PROVE  /\ Depth(t, ty, n) \in Nat /\ Depth(t, ty, t.parent[n]) \in Nat
         /\ Depth(t, ty, n) = Depth(t, ty, t.parent[n]) + (IF ty[n] \in Containers THEN 1 ELSE 0)
<1>. DEFINE p    == t.parent[n]
            A    == {m \in SelfAndAbove(t, n) : ty[m] \in Containers}
            B    == {m \in SelfAndAbove(t, p) : ty[m] \in Containers}
<1>1. SelfAndAbove(t, n) = {n} \cup SelfAndAbove(t, p) /\ n \notin SelfAndAbove(t, p)
  <2>1. SelfAndAbove(t, p) \subseteq 1..p /\ p < n
    BY AboveBounded DEF Falls
  <2>. QED
    BY <2>1, AboveEquation DEF Node
<1>2. IsFiniteSet(A) /\ IsFiniteSet(B)
  BY AboveBounded, FS_Subset
<1>3. Cardinality(A) \in Nat /\ Cardinality(B) \in Nat
  BY <1>2, FS_CardinalityType
<1>4. CASE ty[n] \in Containers
  <2>1. A = B \cup {n} /\ n \notin B
    BY <1>1, <1>4
  <2>2. Cardinality(A) = Cardinality(B) + 1
    <3>. HIDE DEF A, B
    <3>. QED
      BY <1>2, <2>1, FS_AddElement
  <2>. QED
    BY <1>3, <1>4, <2>2 DEF Depth
<1>5. CASE ty[n] \notin Containers
  <2>1. A = B
    BY <1>1, <1>5
  <2>2. Cardinality(A) = Cardinality(B)
    BY <2>1, Zenon
  <2>. QED
    BY <1>3, <1>5, <2>2 DEF Depth
<1>. QED
  BY <1>4, <1>5

LEMMA DepthSame ==
  ASSUME NEW t \in Tree, NEW u \in Tree, Falls(t), NEW S \in SUBSET Node, NEW ty, NEW tz,
         \A n \in S : u.parent[n] = t.parent[n] /\ t.parent[n] \in S \cup {Nil},
         \A n \in S : tz[n] = ty[n],
         NEW n \in S
  PROVE  Depth(u, tz, n) = Depth(t, ty, n)
<1>1. SelfAndAbove(u, n) = SelfAndAbove(t, n) /\ SelfAndAbove(t, n) \subseteq S
  BY AboveSame
<1>2. {m \in SelfAndAbove(u, n) : tz[m] \in Containers}
        = {m \in SelfAndAbove(t, n) : ty[m] \in Containers}
  BY <1>1
<1>. QED
  BY <1>2 DEF Depth

(***************************************************************************)
(* The blocks close_unmatched_blocks closes                                *)
(***************************************************************************)
LEMMA ShapeFalls ==
  ASSUME Shape
  PROVE  tree \in Tree /\ Falls(tree) /\ \A n \in OnSpine : n \in Node
<1>1. \A n \in Node : tree.parent[n] # Nil => tree.parent[n] < n
  BY DEF Shape, LinksAgree
<1>2. Falls(tree)
  BY <1>1, NodeFacts DEF Falls
<1>. QED
  BY <1>2, SpineFacts DEF Shape

\* Every block of the spine is above the tip, or the tip itself.
LEMMA SpineAboveTip ==
  ASSUME Shape, tip # Nil, NEW n \in OnSpine
  PROVE  n \in SelfAndAbove(tree, tip)
<1>. DEFINE Bad == {m \in OnSpine : m \notin SelfAndAbove(tree, tip)}
<1>1. SUFFICES ASSUME Bad # {} PROVE FALSE
  OBVIOUS
<1>2. tip \in OnSpine /\ tip \in Node /\ tip \in Nat
  BY ShapeFalls DEF Shape, SpineInv, Node
<1>3. Bad \subseteq Nat /\ \A m \in Bad : m <= tip
  BY ShapeFalls DEF Shape, SpineRises, Node
<1>4. PICK m \in Bad : \A k \in Bad : k <= m
  <2>. HIDE DEF Bad
  <2>. QED
    BY <1>1, <1>2, <1>3, GreatestBelow
<1>5. m # tip /\ m \in OnSpine /\ m \in Node
  BY <1>2, <1>4, ShapeFalls, AboveBounded
<1>. DEFINE c == tree.last[m]
<1>6. c \in OnSpine /\ c \in Node /\ c # Nil
  BY <1>5, ShapeFalls, NodeFacts DEF Shape, SpineInv
<1>7. tree.parent[c] = m
  BY <1>5, <1>6 DEF Shape, LinksAgree
<1>8. m < c
  BY <1>6, <1>7, ShapeFalls DEF Falls
<1>9. c \notin Bad
  BY <1>3, <1>4, <1>6, <1>8 DEF Node
<1>10. tree.parent[c] \in SelfAndAbove(tree, tip)
  BY <1>2, <1>5, <1>6, <1>7, <1>9, ShapeFalls, AboveUp, NodeFacts
<1>. QED
  BY <1>4, <1>7, <1>10

\* Whatever lines a document holds: when a line leaves blocks unmatched,
\* close_unmatched_blocks, going up from oldtip, closes the tip and the blocks
\* above it and stops at the last matched container, which is one of them and
\* still open; its arm for a block without a parent is never reached.
THEOREM UnmatchedClosed == Spec => []UnmatchedAreBelow
<1>1. Init => SpineIInv
  BY SpineInit
<1>2. SpineIInv /\ [Next]_vars => SpineIInv'
  BY ReadLineStep, WalkStep, StartStep, OpenStep, ConvertStep, TextStep, FinishStep,
     SpineStutter DEF Next, Done
<1>3. SpineIInv => UnmatchedAreBelow
  <2>1. SUFFICES ASSUME SpineIInv, pc \in {"starts", "close", "text"}, ~allClosed
                 PROVE  oldtip = tip /\ lmc \in SelfAndAbove(tree, oldtip) \cap OnSpine
    BY DEF UnmatchedAreBelow
  <2>2. Shape /\ tip # Nil /\ oldtip = tip /\ lmc = cont /\ cont \in OnSpine
    BY <2>1 DEF SpineIInv, Pointers
  <2>. QED
    BY <2>2, SpineAboveTip
<1>. QED
  BY <1>1, <1>2, <1>3, PTL DEF Spec

(***************************************************************************)
(* How deep a new block would lie                                          *)
(***************************************************************************)
\* The blocks that can hold one of type k, and the depth of it in the nearest.
AbleToHold(t, ty, n, k) == {m \in SelfAndAbove(t, n) : m = Doc \/ CanContain(ty[m], k)}
HolderDepth(t, ty, n, k) == Depth(t, ty, Max(AbleToHold(t, ty, n, k))) + 1

\* A block that can hold the new one is its holder.
LEMMA HolderSelf ==
  ASSUME NEW t \in Tree, Falls(t), NEW ty, NEW k, NEW n \in Node,
         n = Doc \/ CanContain(ty[n], k)
  PROVE  HolderDepth(t, ty, n, k) = Depth(t, ty, n) + 1
<1>. DEFINE H == AbleToHold(t, ty, n, k)
<1>1. n \in H /\ H \subseteq 1..n /\ n \in Nat
  BY AboveBounded DEF AbleToHold, Node
<1>. HIDE DEF H
<1>2. Max(H) \in H /\ n <= Max(H)
  BY <1>1, MaxOf
<1>3. Max(H) = n
  <2>1. Max(H) \in 1..n
    BY <1>1, <1>2, Zenon
  <2>. QED
    BY <1>1, <1>2, <2>1
<1>. QED
  BY <1>3, Zenon DEF HolderDepth, H

\* A block that cannot leaves the question to the one above.
LEMMA HolderUp ==
  ASSUME NEW t \in Tree, NEW ty, NEW k, NEW n \in Node, n # Doc, ~CanContain(ty[n], k)
  PROVE  HolderDepth(t, ty, n, k) = HolderDepth(t, ty, t.parent[n], k)
<1>1. SelfAndAbove(t, n) = {n} \cup SelfAndAbove(t, t.parent[n])
  BY AboveEquation
<1>2. AbleToHold(t, ty, n, k) = AbleToHold(t, ty, t.parent[n], k)
  BY <1>1 DEF AbleToHold
<1>. QED
  BY <1>2, Zenon DEF HolderDepth

LEMMA HolderSame ==
  ASSUME NEW t \in Tree, NEW u \in Tree, Falls(t), NEW S \in SUBSET Node, NEW ty, NEW tz,
         \A n \in S : u.parent[n] = t.parent[n] /\ t.parent[n] \in S \cup {Nil},
         \A n \in S : tz[n] = ty[n],
         NEW n \in S, Doc \in SelfAndAbove(t, n), NEW k
  PROVE  HolderDepth(u, tz, n, k) = HolderDepth(t, ty, n, k)
<1>. DEFINE H == AbleToHold(t, ty, n, k)
<1>1. SelfAndAbove(u, n) = SelfAndAbove(t, n) /\ SelfAndAbove(t, n) \subseteq S
  BY AboveSame
<1>2. AbleToHold(u, tz, n, k) = H
  BY <1>1 DEF AbleToHold
<1>3. H \subseteq 1..n /\ n \in Nat /\ Doc \in H
  BY AboveBounded DEF AbleToHold, Node
<1>4. Max(H) \in S
  <2>1. Max(H) \in H
    <3>. HIDE DEF H
    <3>. QED
      BY <1>3, MaxOf
  <2>. QED
    BY <1>1, <2>1 DEF AbleToHold
<1>. HIDE DEF H
<1>5. Depth(u, tz, Max(H)) = Depth(t, ty, Max(H))
  BY <1>4, DepthSame
<1>. QED
  BY <1>2, <1>5, Zenon DEF HolderDepth, H

\* The document is above every block of the spine.
LEMMA DocAbove ==
  ASSUME Shape, NEW n \in OnSpine
  PROVE  Doc \in SelfAndAbove(tree, n)
<1>. DEFINE Bad == {m \in OnSpine : Doc \notin SelfAndAbove(tree, m)}
<1>1. SUFFICES ASSUME Bad # {} PROVE FALSE
  OBVIOUS
<1>2. OnSpine \subseteq Nat
  BY ShapeFalls DEF Node
<1>3. PICK m \in Bad : \A k \in Bad : m <= k
  <2>1. Bad \subseteq Nat
    BY <1>2
  <2>. HIDE DEF Bad
  <2>. QED
    BY <1>1, <2>1, LeastNatural
<1>4. /\ m \in Node /\ m \in OnSpine /\ m \in SelfAndAbove(tree, m)
      /\ SelfAndAbove(tree, m) = {m} \cup SelfAndAbove(tree, tree.parent[m])
  BY <1>3, ShapeFalls, AboveBounded, AboveEquation
<1>5. m # Doc
  BY <1>3, <1>4
<1>6. tree.parent[m] \in OnSpine /\ tree.parent[m] < m
  BY <1>4, <1>5, ShapeFalls DEF Shape, SpineInv, Falls
<1>7. tree.parent[m] \notin Bad
  <2>1. m \in Nat /\ tree.parent[m] \in Nat /\ \A k \in Bad : m <= k
    BY <1>2, <1>3, <1>4, <1>6, Zenon
  <2>. HIDE DEF Bad
  <2>. QED
    BY <1>6, <2>1
<1>. QED
  BY <1>3, <1>4, <1>6, <1>7

(***************************************************************************)
(* The nesting limit                                                       *)
(***************************************************************************)
\* What a start asked for fits under the limit where it will be put: the check
\* was made before the unmatched blocks were closed and room was made.
RoomBelow ==
  Opening /\ pend[1].type \in Containers =>
    DepthOfNew(Room, pend[1].type) + (Len(pend) - 1) <= MaxNesting

\* The inductive strengthening of NestingBounded.
NestedIInv == ContainedIInv /\ NestingBounded /\ RoomBelow

\* The two depths of the model are those of its tree, in this state and in the
\* next.
LEMMA DepthsAreOfTree ==
  /\ \A n : ContainerDepth(n) = Depth(tree, type, n)
  /\ \A n, k : DepthOfNew(n, k) = HolderDepth(tree, type, n, k)
  BY Zenon DEF ContainerDepth, Depth, DepthOfNew, HolderDepth, AbleToHold

LEMMA DepthsAreOfTreeNext == \A n : ContainerDepth(n)' = Depth(tree', type', n)
  BY Zenon DEF ContainerDepth, Depth

Fits(t, ty, room, blocks) ==
  blocks[1].type \in Containers =>
    HolderDepth(t, ty, room, blocks[1].type) + (Len(blocks) - 1) <= MaxNesting

LEMMA RoomFits == RoomBelow <=> (Opening => Fits(tree, type, Room, pend))
  BY DEF RoomBelow, Fits, DepthOfNew, HolderDepth, ContainerDepth, Depth, AbleToHold

LEMMA RoomFitsNext == RoomBelow' <=> (Opening' => Fits(tree', type', Room', pend'))
  BY DEF RoomBelow, Fits, DepthOfNew, HolderDepth, ContainerDepth, Depth, AbleToHold

LEMMA DepthTypeAt ==
  ASSUME Shape, NEW n \in Node
  PROVE  Depth(tree, type, n) \in Nat
<1>. DEFINE A == {m \in SelfAndAbove(tree, n) : type[m] \in Containers}
<1>1. IsFiniteSet(A)
  BY ShapeFalls, AboveBounded, FS_Subset
<1>2. Cardinality(A) \in Nat
  <2>. HIDE DEF A
  <2>. QED
    BY <1>1, FS_CardinalityType
<1>. QED
  BY <1>2, Zenon DEF Depth

LEMMA HolderType ==
  ASSUME Shape, NEW n \in OnSpine, NEW k
  PROVE  HolderDepth(tree, type, n, k) \in Nat
<1>. DEFINE H == AbleToHold(tree, type, n, k)
<1>1. n \in Node /\ tree \in Tree /\ Falls(tree) /\ Doc \in SelfAndAbove(tree, n)
  BY ShapeFalls, DocAbove
<1>2. H \subseteq 1..n /\ n \in Nat /\ Doc \in H
  BY <1>1, AboveBounded DEF AbleToHold, Node
<1>. HIDE DEF H
<1>3. Max(H) \in H
  BY <1>2, MaxOf
<1>4. Max(H) \in Node
  BY <1>1, <1>2, <1>3, NodeFacts
<1>5. Depth(tree, type, Max(H)) \in Nat
  BY <1>4, DepthTypeAt
<1>. QED
  BY <1>5 DEF HolderDepth, H

LEMMA NestingStays ==
  ASSUME NestingBounded, UNCHANGED <<tree, type, used>>
  PROVE  NestingBounded'
<1>1. \A n : ContainerDepth(n)' = ContainerDepth(n)
  BY DepthsAreOfTree, DepthsAreOfTreeNext
<1>2. Linked' = Linked
  BY DEF Linked
<1>. QED
  BY <1>1, <1>2 DEF NestingBounded

\* A leaf has nothing below it.
LEMMA NoneBelowLeaf ==
  ASSUME Shape, WellContained, NEW leaf \in Node, type[leaf] \notin Containers \cup {"doc"},
         NEW n \in Node
  PROVE  tree.parent[n] # leaf
<1>1. SUFFICES ASSUME tree.parent[n] = leaf PROVE FALSE
  OBVIOUS
<1>2. tree.parent[n] # Nil /\ n # Doc
  BY <1>1, NodeFacts DEF Shape
<1>3. n \in 1..used
  BY <1>2, NodeFacts DEF Shape, LinksAgree, Node
<1>4. n \in Linked \ {Doc}
  BY <1>2, <1>3 DEF Linked
<1>. QED
  BY <1>1, <1>4 DEF WellContained

\* Closing the tip moves no other block, nor its holders.
LEMMA CloseDepths ==
  ASSUME Shape, Shape', WellContained, NestingBounded, tip # Nil, UNCHANGED <<type, used>>,
         tree' = tree \/ (type[tip] = "para" /\ tree' = Unlink(tree, tip))
  PROVE  /\ NestingBounded'
         /\ \A n \in OnSpine \ {tip} : \A k :
              HolderDepth(tree', type', n, k) = HolderDepth(tree, type, n, k)
<1>1. CASE tree' = tree
  BY <1>1, NestingStays
<1>2. CASE type[tip] = "para" /\ tree' = Unlink(tree, tip)
  <2>. DEFINE S == Node \ {tip}
  <2>1. /\ tree \in Tree /\ Falls(tree) /\ tree' \in Tree /\ LinksAgree /\ tip # Doc
        /\ used \in Node /\ tip \in Node
        /\ tree.parent[tip] # Nil /\ tree.next[tip] = Nil
    <3>1. tip # Doc
      BY <1>2 DEF Shape
    <3>. QED
      BY <3>1, ShapeFalls, TipBelow, NodeFacts DEF Shape
  <2>2. tree'.parent = [tree.parent EXCEPT ![tip] = Nil]
    BY <1>2, <2>1, UnlinkLast
  <2>3. \A n \in S : tree'.parent[n] = tree.parent[n] /\ tree.parent[n] \in S \cup {Nil}
    <3>. TAKE n \in S
    <3>1. n \in Node /\ n # tip /\ tree.parent[n] \in Link
      BY <2>1 DEF Tree
    <3>2. tree'.parent[n] = tree.parent[n]
      BY <2>1, <2>2, <3>1 DEF Tree
    <3>3. tree.parent[n] # tip
      BY <1>2, <2>1, <3>1, NoneBelowLeaf DEF Containers
    <3>. QED
      BY <3>1, <3>2, <3>3 DEF Link
  <2>31. S \in SUBSET Node /\ \A n \in S : type'[n] = type[n]
    OBVIOUS
  <2>32. \A n \in OnSpine \ {tip} : n \in S /\ Doc \in SelfAndAbove(tree, n)
    BY ShapeFalls, DocAbove
  <2>. HIDE DEF S
  <2>4. \A n \in S : Depth(tree', type', n) = Depth(tree, type, n)
    <3>. TAKE n \in S
    <3>. QED
      BY <2>1, <2>3, <2>31, DepthSame
  <2>5. \A n \in OnSpine \ {tip} : \A k : HolderDepth(tree', type', n, k) = HolderDepth(tree, type, n, k)
    <3>. TAKE n \in OnSpine \ {tip}
    <3>. TAKE k
    <3>. QED
      BY <2>1, <2>3, <2>31, <2>32, HolderSame
  <2>. USE DEF S
  <2>6. \A n \in Linked' : n \in Linked /\ n \in S
    <3>. TAKE n \in Linked'
    <3>1. n \in 1..used /\ n \in Node /\ (n = Doc \/ tree'.parent[n] # Nil)
      BY <2>1, NodeFacts DEF Linked
    <3>2. n # tip
      BY <2>1, <2>2, <3>1 DEF Tree
    <3>. QED
      BY <2>3, <3>1, <3>2 DEF Linked
  <2>. QED
    BY <2>4, <2>5, <2>6, DepthsAreOfTree, DepthsAreOfTreeNext DEF NestingBounded
<1>. QED
  BY <1>1, <1>2

\* A new block lies no deeper than its place allows.
LEMMA GrowDepths ==
  ASSUME Shape, Shape', NestingBounded, NEW S \in SUBSET (1..used),
         NEW new \in Node, new \notin S, NEW p \in S, tree'.parent[new] = p,
         \A n \in S : /\ tree'.parent[n] = tree.parent[n] /\ tree.parent[n] \in S \cup {Nil}
                      /\ type'[n] = type[n],
         Linked' \subseteq S \cup {new},
         Depth(tree, type, p) + (IF type'[new] \in Containers THEN 1 ELSE 0) <= MaxNesting
  PROVE  /\ NestingBounded'
         /\ Depth(tree', type', new) \in Nat /\ Depth(tree, type, p) \in Nat
         /\ Depth(tree', type', new) =
              Depth(tree, type, p) + (IF type'[new] \in Containers THEN 1 ELSE 0)
<1>1. /\ tree \in Tree /\ Falls(tree) /\ S \subseteq Node
  <2>1. 1..used \subseteq Node
    BY NodeFacts DEF Shape
  <2>. QED
    BY <2>1, ShapeFalls
<1>2. tree' \in Tree /\ Falls(tree')
  <2>1. \A n \in Node : tree'.parent[n] # Nil => tree'.parent[n] < n
    BY DEF Shape, LinksAgree
  <2>. QED
    BY <2>1, NodeFacts DEF Shape, Falls
<1>3. \A n \in S : Depth(tree', type', n) = Depth(tree, type, n)
  <2>1. S \in SUBSET Node
    BY <1>1
  <2>. TAKE n \in S
  <2>. QED
    BY <1>1, <1>2, <2>1, DepthSame
<1>4. /\ Depth(tree', type', new) \in Nat /\ Depth(tree', type', p) \in Nat
      /\ Depth(tree', type', new) =
           Depth(tree', type', p) + (IF type'[new] \in Containers THEN 1 ELSE 0)
  BY <1>1, <1>2, DepthEquation
<1>5. \A n \in Linked' : n \in S => n \in Linked
  BY <1>1 DEF Linked
<1>6. \A n \in Linked' : Depth(tree', type', n) <= MaxNesting
  <2>. TAKE n \in Linked'
  <2>1. CASE n \in S
    BY <1>3, <1>5, <2>1, DepthsAreOfTree DEF NestingBounded
  <2>2. CASE n = new
    BY <1>3, <1>4, <2>2
  <2>. QED
    BY <2>1, <2>2
<1>. QED
  BY <1>3, <1>4, <1>6, DepthsAreOfTreeNext DEF NestingBounded

\* What a step of the block phase owes to the limit.
Nests == NestingBounded' /\ RoomBelow'

LEMMA StartNested ==
  ASSUME NestedIInv, Start
  PROVE  Nests
<1>1. /\ UNCHANGED <<tree, type, used, cont>> /\ pc' \in {"close", "text"}
      /\ \/ pc' = "text" \/ goal' # "add"
         \/ \E b : pend' = <<b>> /\ b.type \notin Containers
         \/ \E b : /\ pend' = <<b>> /\ b.type \in {"quote", "item"}
                   /\ DepthOfNew(cont, b.type) <= MaxNesting
         \/ \E b, c : /\ pend' = <<b, c>> /\ b.type = "list"
                      /\ DepthOfNew(cont, "list") + 1 <= MaxNesting
  <2>1. CASE StartHeading \/ StartFence \/ StartHtml \/ StartBreak \/ StartIndentedCode
    BY <2>1 DEF StartHeading, StartFence, StartHtml, StartBreak, StartIndentedCode, Begin,
                treeVars, Block, Containers
  <2>2. CASE StartQuote
    <3>1. DepthOfNew(cont, "quote") <= MaxNesting
      BY <2>2 DEF StartQuote, Begin, Takes, Takers, IsQuote
    <3>2. \E b : pend' = <<b>> /\ b.type = "quote"
      BY <2>2 DEF StartQuote, Begin, Block
    <3>3. UNCHANGED <<tree, type, used, cont>> /\ pc' = "close"
      BY <2>2 DEF StartQuote, Begin, treeVars
    <3>. QED
      BY <3>1, <3>2, <3>3
  <2>3. CASE StartItem
    <3>. DEFINE n    == NextNonspace(line, cur)
                m    == ListMarker(line, n)
                data == [NewBlk EXCEPT !.mark = ListMark(Tok(line, n.pos)), !.indent = m.indent]
                b    == Block("list", data)
                c    == Block("item", data)
    <3>1. /\ UNCHANGED <<tree, type, used, cont>> /\ pc' = "close"
          /\ pend' = IF SameList(n) THEN <<c>> ELSE <<b, c>>
      BY <2>3 DEF StartItem, Begin, treeVars
    <3>2. (IF SameList(n) THEN DepthOfNew(cont, "item") ELSE DepthOfNew(cont, "list") + 1)
            <= MaxNesting
      BY <2>3 DEF StartItem, Begin, Takes, Takers, IsItem
    <3>3. b.type = "list" /\ c.type = "item"
      BY DEF Block
    <3>. HIDE DEF b, c, n
    <3>. QED
      BY <3>1, <3>2, <3>3
  <2>4. CASE StartSetext \/ StartTable
    BY <2>4 DEF StartSetext, StartTable, Begin, treeVars
  <2>5. CASE NoStart
    BY <2>5 DEF NoStart, treeVars
  <2>. QED
    BY <2>1, <2>2, <2>3, <2>4, <2>5 DEF Start
<1>2. NestingBounded'
  BY <1>1, NestingStays DEF NestedIInv
<1>3. RoomBelow'
  <2>1. SUFFICES ASSUME pc' = "close", goal' = "add"
                 PROVE  Fits(tree, type, cont, pend')
    BY <1>1, RoomFitsNext DEF Opening, Room
  <2>2. \A k : HolderDepth(tree, type, cont, k) \in Nat
    <3>1. pc = "starts"
      BY DEF Start, StartQuote, StartHeading, StartFence, StartHtml, StartSetext, StartBreak,
             StartItem, StartIndentedCode, StartTable, NoStart, Begin
    <3>2. Shape /\ cont \in OnSpine
      BY <3>1 DEF NestedIInv, ContainedIInv, SpineIInv, Pointers
    <3>. QED
      BY <3>2, HolderType
  <2>3. CASE \E b : pend' = <<b>> /\ b.type \notin Containers
    BY <2>3 DEF Fits
  <2>4. CASE \E b : /\ pend' = <<b>> /\ b.type \in {"quote", "item"}
                    /\ DepthOfNew(cont, b.type) <= MaxNesting
    <3>1. PICK b : pend' = <<b>> /\ DepthOfNew(cont, b.type) <= MaxNesting
      BY <2>4
    <3>2. HolderDepth(tree, type, cont, b.type) <= MaxNesting
      BY <3>1, DepthsAreOfTree
    <3>. QED
      BY <2>2, <3>1, <3>2 DEF Fits
  <2>5. CASE \E b, c : /\ pend' = <<b, c>> /\ b.type = "list"
                       /\ DepthOfNew(cont, "list") + 1 <= MaxNesting
    <3>1. PICK b, c : pend' = <<b, c>> /\ b.type = "list"
      BY <2>5
    <3>2. HolderDepth(tree, type, cont, "list") + 1 <= MaxNesting
      BY <2>5, DepthsAreOfTree
    <3>. QED
      BY <2>2, <3>1, <3>2 DEF Fits
  <2>. QED
    BY <1>1, <2>1, <2>3, <2>4, <2>5
<1>. QED
  BY <1>2, <1>3 DEF Nests

\* A step that neither opens a block nor asks for one.
LEMMA QuietNested ==
  ASSUME NestedIInv, Shape', UNCHANGED <<type, used>>, ~Opening',
         tree' = tree \/ (tip # Nil /\ type[tip] = "para" /\ tree' = Unlink(tree, tip))
  PROVE  Nests
<1>1. NestingBounded'
  <2>1. CASE tree' = tree
    BY <2>1, NestingStays DEF NestedIInv
  <2>2. CASE tip # Nil /\ type[tip] = "para" /\ tree' = Unlink(tree, tip)
    BY <2>2, CloseDepths DEF NestedIInv, ContainedIInv, SpineIInv
  <2>. QED
    BY <2>1, <2>2
<1>2. RoomBelow'
  BY DEF RoomBelow
<1>. QED
  BY <1>1, <1>2 DEF Nests

LEMMA OpenNested ==
  ASSUME NestedIInv, ContainedIInv', Open
  PROVE  Nests
<1>1. /\ Shape /\ Shape' /\ Pointers /\ WellContained /\ NestingBounded /\ tip # Nil
      /\ ListsForItems /\ AtTip /\ tip \in OnSpine /\ tip \in Node
  <2>1. tip # Nil /\ Shape
    BY DEF NestedIInv, ContainedIInv, SpineIInv, Pointers, Open, CloseOne, AllClosed, MakeRoom,
           AddChild
  <2>. QED
    BY <2>1, ShapeFalls DEF NestedIInv, ContainedIInv, SpineIInv, Shape, SpineInv
<1>2. Opening => Fits(tree, type, Room, pend)
  BY RoomFits DEF NestedIInv
<1>3. CASE CloseOne
  <2>1. /\ oldtip = tip /\ cont = lmc /\ cont \in OnSpine /\ cont # tip /\ pc = "close"
    BY <1>1, <1>3 DEF Pointers, CloseOne
  <2>2. /\ UNCHANGED <<type, used, cont, pend, goal, pc>>
        /\ tree' = tree \/ (type[tip] = "para" /\ tree' = Unlink(tree, tip))
    BY <1>3, <2>1 DEF CloseOne, Finalize, FinalizeWith, Vanishes, startVars
  <2>3. /\ NestingBounded'
        /\ \A k : HolderDepth(tree', type', cont, k) = HolderDepth(tree, type, cont, k)
    BY <1>1, <2>1, <2>2, CloseDepths
  <2>4. Opening' => Fits(tree', type', Room', pend')
    BY <1>2, <2>1, <2>2, <2>3 DEF Opening, Room, Fits
  <2>. QED
    BY <2>3, <2>4, RoomFitsNext DEF Nests
<1>4. CASE AllClosed
  <2>1. tip = cont
    BY <1>1, <1>4 DEF AllClosed, AtTip, Pointers
  <2>2. UNCHANGED <<tree, type, used, tip, cont, pend, goal>> /\ pc = "close" /\ pc' = goal
    BY <1>4 DEF AllClosed, treeVars, startVars
  <2>3. goal \in {"add", "setext", "table", "body"}
    BY <1>1 DEF Pointers
  <2>4. Opening' => Fits(tree', type', Room', pend')
    BY <1>2, <2>1, <2>2, <2>3 DEF Opening, Room, Fits
  <2>5. NestingBounded'
    BY <1>1, <2>2, NestingStays
  <2>. QED
    BY <2>4, <2>5, RoomFitsNext DEF Nests
<1>5. CASE MakeRoom
  <2>1. /\ UNCHANGED <<type, used, pend, goal, pc>> /\ pc = "add" /\ tip # Doc
        /\ ~CanContain(type[tip], pend[1].type) /\ tip' = tree.parent[tip]
        /\ tree' = tree \/ (type[tip] = "para" /\ tree' = Unlink(tree, tip))
    BY <1>5 DEF MakeRoom, Finalize, FinalizeWith, Vanishes, startVars
  <2>2. tip' \in OnSpine \ {tip}
    <3>1. tree.parent[tip] \in OnSpine /\ tree.parent[tip] < tip /\ tip \in Int
      BY <1>1, <2>1, TipBelow, NodeFacts
    <3>. QED
      BY <2>1, <3>1
  <2>3. /\ NestingBounded'
        /\ \A k : HolderDepth(tree', type', tip', k) = HolderDepth(tree, type, tip', k)
    BY <1>1, <2>1, <2>2, CloseDepths
  <2>4. HolderDepth(tree, type, tip, pend[1].type) = HolderDepth(tree, type, tip', pend[1].type)
    BY <1>1, <2>1, HolderUp DEF Shape
  <2>5. Opening' => Fits(tree', type', Room', pend')
    BY <1>2, <2>1, <2>3, <2>4 DEF Opening, Room, Fits
  <2>. QED
    BY <2>3, <2>5, RoomFitsNext DEF Nests
<1>6. CASE AddChild
  <2>. DEFINE new == used + 1
              b   == pend[1].type
  <2>1. /\ pc = "add" /\ used < MaxNodes /\ used' = new /\ tip' = new
        /\ tree' = AppendChild(tree, tip, new) /\ type' = [type EXCEPT ![new] = b]
        /\ tip = Doc \/ CanContain(type[tip], b)
        /\ pend' = Tail(pend) /\ pc' = IF Len(pend) = 1 THEN after ELSE "add"
        /\ after \in {"starts", "text", "line"}
    BY <1>1, <1>6 DEF AddChild, Pointers
  <2>2. /\ used \in Nat /\ new \in Node /\ tip \in 1..used /\ tip # new /\ new \notin 1..used
        /\ type'[new] = b /\ \A n \in 1..used : n \in Node /\ n # new /\ type'[n] = type[n]
    <3>1. used \in Node /\ tip \in 1..used /\ DOMAIN type = Node
      BY <1>1 DEF Shape, OnSpine
    <3>2. used \in Nat /\ new \in Node /\ \A n \in 1..used : n \in Node /\ n # new
      BY <2>1, <3>1, NodeFacts, MaxNodesAssumption DEF Node
    <3>. QED
      BY <2>1, <3>1, <3>2
  <2>3. tree'.parent = [tree.parent EXCEPT ![new] = tip]
    <3>1. /\ tree \in Tree /\ tree.parent[new] = Nil /\ tree.prev[new] = Nil
          /\ tree.next[new] = Nil
      BY <1>1, <2>2 DEF Shape, LinksAgree
    <3>. QED
      BY <1>1, <2>1, <2>2, <3>1, AppendFresh
  <2>4. /\ tree'.parent[new] = tip
        /\ \A n \in 1..used : /\ tree'.parent[n] = tree.parent[n]
                              /\ tree.parent[n] \in (1..used) \cup {Nil}
    <3>1. DOMAIN tree.parent = Node /\ \A n \in Node : tree.parent[n] \in Link
      BY <1>1 DEF Shape, Tree
    <3>2. \A n \in 1..used : tree.parent[n] < n
      BY <1>1, <2>2, ShapeFalls DEF Falls
    <3>3. \A n \in 1..used : tree.parent[n] \in (1..used) \cup {Nil}
      BY <2>2, <3>1, <3>2 DEF Link, Node
    <3>. QED
      BY <2>2, <2>3, <3>1, <3>3
  <2>5. HolderDepth(tree, type, tip, b) = Depth(tree, type, tip) + 1
    BY <1>1, <2>1, HolderSelf, ShapeFalls
  <2>6. /\ \/ Len(pend) = 1
           \/ Len(pend) = 2 /\ b = "list" /\ Len(pend') = 1 /\ pend'[1].type = "item"
        /\ HolderDepth(tree, type, tip, b) \in Nat
    <3>1. CASE \E x : pend = <<x>>
      BY <1>1, <3>1, HolderType
    <3>2. CASE \E x, y : pend = <<x, y>> /\ x.type = "list" /\ y.type = "item"
      BY <1>1, <2>1, <3>2, HolderType
    <3>. QED
      BY <1>1, <2>1, <3>1, <3>2 DEF ListsForItems, Opening
  <2>7. tip \in Linked
    BY <1>1, <2>2, SpineFacts DEF Linked
  <2>8. Depth(tree, type, tip) <= MaxNesting
    BY <1>1, <2>7, DepthsAreOfTree DEF NestingBounded
  <2>9. b \in Containers => Depth(tree, type, tip) + Len(pend) <= MaxNesting
    <3>1. SUFFICES ASSUME b \in Containers PROVE Depth(tree, type, tip) + Len(pend) <= MaxNesting
      OBVIOUS
    <3>2. HolderDepth(tree, type, tip, b) + (Len(pend) - 1) <= MaxNesting
      BY <1>2, <2>1, <3>1 DEF Opening, Room, Fits
    <3>3. Depth(tree, type, tip) \in Nat /\ MaxNesting \in Nat /\ Len(pend) \in Nat
      BY <1>1, <2>6, DepthTypeAt, BlockPhaseAssumption
    <3>. QED
      BY <2>5, <3>2, <3>3
  <2>10. Depth(tree, type, tip) + (IF type'[new] \in Containers THEN 1 ELSE 0) <= MaxNesting
    <3>1. Depth(tree, type, tip) \in Int /\ MaxNesting \in Int
      BY <1>1, DepthTypeAt, BlockPhaseAssumption
    <3>. QED
      BY <2>2, <2>6, <2>8, <2>9, <3>1
  <2>11. Linked' \subseteq (1..used) \cup {new}
    BY <2>1, <2>2 DEF Linked
  <2>12. /\ NestingBounded'
         /\ Depth(tree', type', new) =
              Depth(tree, type, tip) + (IF type'[new] \in Containers THEN 1 ELSE 0)
    <3>. DEFINE S == 1..used
    <3>1. /\ S \in SUBSET (1..used) /\ new \notin S /\ tip \in S /\ Linked' \subseteq S \cup {new}
          /\ \A n \in S : /\ tree'.parent[n] = tree.parent[n] /\ tree.parent[n] \in S \cup {Nil}
                           /\ type'[n] = type[n]
      BY <2>2, <2>4, <2>11
    <3>. HIDE DEF S
    <3>. QED
      BY <1>1, <2>2, <2>4, <2>10, <3>1, GrowDepths
  <2>13. Opening' => Fits(tree', type', Room', pend')
    <3>1. SUFFICES ASSUME Opening' PROVE Fits(tree', type', new, pend')
      BY <2>1 DEF Opening, Room
    <3>2. Len(pend) = 2 /\ b = "list" /\ Len(pend') = 1 /\ pend'[1].type = "item"
      BY <2>1, <2>6, <3>1 DEF Opening
    <3>3. tree' \in Tree /\ Falls(tree')
      <4>1. \A n \in Node : tree'.parent[n] # Nil => tree'.parent[n] < n
        BY <1>1 DEF Shape, LinksAgree
      <4>. QED
        BY <1>1, <4>1, NodeFacts DEF Shape, Falls
    <3>4. HolderDepth(tree', type', new, "item") = Depth(tree', type', new) + 1
      BY <2>2, <3>2, <3>3, HolderSelf DEF CanContain
    <3>5. Depth(tree', type', new) = Depth(tree, type, tip) + 1
      BY <2>2, <2>12, <3>2 DEF Containers
    <3>6. Depth(tree, type, tip) + 2 <= MaxNesting /\ Depth(tree, type, tip) \in Int
      BY <1>1, <2>9, <3>2, DepthTypeAt DEF Containers
    <3>. QED
      BY <3>2, <3>4, <3>5, <3>6 DEF Fits
  <2>. QED
    BY <2>12, <2>13, RoomFitsNext DEF Nests
<1>. QED
  BY <1>3, <1>4, <1>5, <1>6 DEF Open

LEMMA ConvertNested ==
  ASSUME NestedIInv, ContainedIInv', Convert
  PROVE  Nests
<1>1. /\ pc \in {"setext", "table"} /\ Shape /\ Shape' /\ WellContained /\ NestingBounded
      /\ type[cont] = "para" /\ cont \in OnSpine /\ tip # Nil
  <2>1. pc \in {"setext", "table"}
    BY DEF Convert, SetextFalls, SetextHeading, SplitParagraph, ReplaceParagraph, OpenTable
  <2>. QED
    BY <2>1 DEF NestedIInv, ContainedIInv, SpineIInv, Pointers
<1>2. cont = tip /\ tip # Doc
  BY <1>1, LeafIsTip DEF Containers
<1>3. CASE SetextFalls
  <2>1. UNCHANGED <<tree, type, used>> /\ ~Opening'
    BY <1>3 DEF SetextFalls, Opening
  <2>. QED
    BY <1>1, <2>1, QuietNested
<1>4. CASE SplitParagraph \/ ReplaceParagraph
  <2>1. /\ UNCHANGED <<type, used>> /\ tree' \in {tree, Unlink(tree, tip)} /\ pc' = "add"
        /\ \E f : pend' = <<Block("table", f)>>
    BY <1>2, <1>4 DEF SplitParagraph, ReplaceParagraph, OpenTable, FinalizeWith
  <2>2. NestingBounded'
    BY <1>1, <1>2, <2>1, CloseDepths
  <2>3. RoomBelow'
    BY <2>1 DEF RoomBelow, Block, Containers
  <2>. QED
    BY <2>2, <2>3 DEF Nests
<1>5. CASE SetextHeading
  <2>. DEFINE new == used + 1
              p   == tree.parent[tip]
              S   == (1..used) \ {tip}
  <2>1. /\ used < MaxNodes /\ used' = new /\ pc' = "text"
        /\ tree' = Unlink(InsertAfter(tree, tip, new), tip)
        /\ type' = [type EXCEPT ![new] = "heading"]
    BY <1>2, <1>5 DEF SetextHeading
  <2>2. /\ used \in Nat /\ new \in Node /\ tip \in Node /\ tip \in 1..used /\ tip # new
        /\ p \in Node /\ p < tip /\ p \in OnSpine /\ tree.next[tip] = Nil /\ DOMAIN type = Node
        /\ \A n \in 1..used : n \in Node /\ n # new
    <3>1. used \in Node /\ open \subseteq 1..used /\ tip \in OnSpine /\ DOMAIN type = Node
      BY <1>1, <1>2 DEF Shape
    <3>2. used \in Nat /\ new \in Node /\ new # Nil /\ \A n \in 1..used : n \in Node /\ n # new
      BY <2>1, <3>1, NodeFacts, MaxNodesAssumption DEF Node
    <3>3. p \in Node /\ p < tip /\ p \in OnSpine /\ tree.next[tip] = Nil
      BY <1>1, <1>2, TipBelow
    <3>. QED
      BY <3>1, <3>2, <3>3 DEF OnSpine
  <2>3. /\ tree \in Tree /\ LinksAgree /\ tree.parent[new] = Nil /\ tree.prev[new] = Nil
        /\ tree.next[new] = Nil /\ \A n \in Node : tree.prev[n] # new
    <3>1. tree \in Tree /\ LinksAgree /\ new > used
      BY <1>1, <2>2 DEF Shape
    <3>2. \A n \in Node : tree.prev[n] = new => tree.next[new] = n
      BY <2>2, <3>1, NodeFacts DEF LinksAgree
    <3>. QED
      BY <2>2, <3>1, <3>2, NodeFacts DEF LinksAgree
  <2>4. \A n \in Node : tree'.parent[n] = CASE n = new -> p [] n = tip -> Nil
                                             [] OTHER -> tree.parent[n]
    BY <2>1, <2>2, <2>3, NodeFacts, ReplaceLast
  <2>5. /\ new \notin S /\ p \in S /\ tree'.parent[new] = p /\ S \in SUBSET (1..used)
        /\ Linked' \subseteq S \cup {new}
    <3>1. p \in 1..used /\ p # tip
      BY <1>1, <2>2 DEF OnSpine, Shape, Node
    <3>2. tree'.parent[tip] = Nil
      BY <2>2, <2>4
    <3>. QED
      BY <1>2, <2>1, <2>2, <2>4, <3>1, <3>2 DEF Linked
  <2>6. \A n \in S : /\ tree'.parent[n] = tree.parent[n] /\ tree.parent[n] \in S \cup {Nil}
                     /\ type'[n] = type[n]
    <3>. TAKE n \in S
    <3>1. n \in Node /\ n \in 1..used /\ n # tip /\ n # new
      BY <2>2
    <3>2. tree.parent[n] # tip
      BY <1>1, <1>2, <2>2, <3>1, NoneBelowLeaf DEF Containers
    <3>3. tree.parent[n] \in Link /\ tree.parent[n] < n
      BY <1>1, <3>1, ShapeFalls DEF Falls, Tree
    <3>4. tree.parent[n] \in (1..used) \cup {Nil}
      BY <2>2, <3>1, <3>3 DEF Link, Node
    <3>. QED
      BY <2>1, <2>2, <2>4, <3>1, <3>2, <3>4
  <2>. HIDE DEF S
  <2>7. type'[new] = "heading" /\ "heading" \notin Containers
    BY <2>1, <2>2 DEF Containers
  <2>8. Depth(tree, type, p) + 0 <= MaxNesting
    <3>1. p \in Linked
      BY <1>1, <2>2, SpineFacts DEF Linked, OnSpine, Shape
    <3>2. Depth(tree, type, p) \in Nat /\ MaxNesting \in Nat
      BY <1>1, <2>2, DepthTypeAt, BlockPhaseAssumption
    <3>. QED
      BY <1>1, <3>1, <3>2, DepthsAreOfTree DEF NestingBounded
  <2>9. Depth(tree, type, p) + (IF type'[new] \in Containers THEN 1 ELSE 0) <= MaxNesting
    BY <2>7, <2>8
  <2>10. NestingBounded'
    BY <1>1, <2>2, <2>5, <2>6, <2>9, GrowDepths
  <2>11. RoomBelow'
    BY <2>1 DEF RoomBelow, Opening
  <2>. QED
    BY <2>10, <2>11 DEF Nests
<1>. QED
  BY <1>3, <1>4, <1>5 DEF Convert

LEMMA TextNested ==
  ASSUME NestedIInv, ContainedIInv', Text
  PROVE  Nests
<1>1. Shape' /\ NestingBounded
  BY DEF NestedIInv, ContainedIInv, SpineIInv
<1>2. CASE LazyLine \/ CloseForText \/ GiveToBlock \/ NoText \/ TakeLine
  <2>1. UNCHANGED <<tree, type, used>> /\ ~Opening'
    BY <1>2 DEF LazyLine, CloseForText, GiveToBlock, NoText, TakeLine, MarkBlank, treeVars, Opening
  <2>. QED
    BY <1>1, <2>1, QuietNested
<1>3. CASE OpenParagraph
  <2>1. UNCHANGED <<tree, type, used>> /\ pend' = <<Block("para", NewBlk)>>
    BY <1>3 DEF OpenParagraph, MarkBlank
  <2>2. NestingBounded'
    BY <1>1, <2>1, NestingStays
  <2>3. RoomBelow'
    BY <2>1 DEF RoomBelow, Block, Containers
  <2>. QED
    BY <2>2, <2>3 DEF Nests
<1>4. CASE TakeLastHtmlLine
  <2>1. UNCHANGED <<tree, type, used>> /\ ~Opening'
    BY <1>4 DEF TakeLastHtmlLine, EndsHtml, FinalizeWith, Vanishes, Opening
  <2>. QED
    BY <1>1, <2>1, QuietNested
<1>. QED
  BY <1>2, <1>3, <1>4 DEF Text

LEMMA QuietSteps ==
  ASSUME NestedIInv, ContainedIInv', ReadLine \/ Walk \/ Finish
  PROVE  Nests
<1>1. Shape'
  BY DEF ContainedIInv, SpineIInv
<1>2. CASE ReadLine \/ ContinueMatched \/ ContinueNotMatched \/ NoMoreOpen \/ EndOfInput \/ MarkTasks
  <2>1. UNCHANGED <<tree, type, used>> /\ ~Opening'
    BY <1>2 DEF ReadLine, ContinueMatched, ContinueNotMatched, NoMoreOpen, WalkEnds, EndOfInput,
                MarkTasks, treeVars, Opening
  <2>. QED
    BY <1>1, <2>1, QuietNested
<1>3. CASE CloseFence
  <2>1. /\ type[NextOpen(cont)] = "code" /\ Finalize(NextOpen(cont), lineNo, lineNo)
        /\ pc' = "read"
    BY <1>3 DEF CloseFence, ClosesCode, Fenced
  <2>2. UNCHANGED <<tree, type, used>> /\ ~Opening'
    BY <2>1 DEF Finalize, FinalizeWith, Vanishes, Opening
  <2>. QED
    BY <1>1, <2>2, QuietNested
<1>4. CASE FinishOne
  <2>1. /\ tip # Nil /\ UNCHANGED <<type, used>> /\ pc' = "finish"
        /\ tree' = tree \/ (type[tip] = "para" /\ tree' = Unlink(tree, tip))
    BY <1>4 DEF FinishOne, Finalize, FinalizeWith, Vanishes
  <2>. QED
    BY <1>1, <2>1, QuietNested DEF Opening
<1>. QED
  BY <1>2, <1>3, <1>4 DEF Walk, Finish

LEMMA StepNested == NestedIInv /\ [Next]_vars => NestedIInv'
<1>1. SUFFICES ASSUME NestedIInv, [Next]_vars PROVE ContainedIInv' /\ Nests
  BY DEF NestedIInv, Nests
<1>2. ContainedIInv'
  BY <1>1, ReadLineContained, WalkContained, StartContained, OpenContained, ConvertContained,
     TextContained, FinishContained, ContainedStutter DEF NestedIInv, Next, Done
<1>3. CASE UNCHANGED vars
  <2>1. UNCHANGED <<tree, type, used, tip, cont, pend, goal, pc>>
    BY <1>3 DEF vars, treeVars, startVars
  <2>2. Opening' => Fits(tree', type', Room', pend')
    BY <1>1, <2>1, RoomFits DEF NestedIInv, Opening, Room
  <2>3. NestingBounded'
    BY <1>1, <2>1, NestingStays DEF NestedIInv
  <2>. QED
    BY <1>2, <2>2, <2>3, RoomFitsNext DEF Nests
<1>. QED
  BY <1>1, <1>2, <1>3, StartNested, OpenNested, ConvertNested, TextNested, QuietSteps DEF Next, Done

\* Whatever lines a document holds, and however many blocks of it open at once,
\* no block lies in more than MaxNesting containers: the checks of the block
\* quote and list item starts, made before the unmatched blocks are closed and
\* before add_child makes room, count the containers the block ends up in.
THEOREM NestingSafe == Spec => []NestingBounded
<1>1. Init => NestedIInv
  <2>1. SUFFICES ASSUME Init PROVE NestingBounded /\ RoomBelow
    BY ContainedInit DEF NestedIInv
  <2>2. Shape /\ Linked = {Doc} /\ type[Doc] = "doc" /\ tree.parent[Doc] = Nil
    BY <2>1, SpineInit, NodeFacts DEF SpineIInv, Shape, Init, Linked
  <2>3. {m \in SelfAndAbove(tree, Doc) : type[m] \in Containers} = {}
    BY <2>2, AboveEquation, NodeFacts DEF Shape, Containers
  <2>4. ContainerDepth(Doc) = 0
    BY <2>3, FS_EmptySet DEF ContainerDepth
  <2>. QED
    BY <2>1, <2>2, <2>4, BlockPhaseAssumption DEF NestingBounded, RoomBelow, Opening, Init
<1>2. NestedIInv /\ [Next]_vars => NestedIInv'
  BY StepNested
<1>3. NestedIInv => NestingBounded
  BY DEF NestedIInv
<1>. QED
  BY <1>1, <1>2, <1>3, PTL DEF Spec
=============================================================================
