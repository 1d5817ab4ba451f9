-------------------------- MODULE BlockSpineProofs --------------------------
(***************************************************************************)
(* The open blocks are the chain of last children down to the tip, after   *)
(* every step of the block phase, for every set of lines, nesting limit,   *)
(* padding budget and size of arena.                                       *)
(***************************************************************************)
EXTENDS BlockProperties, TLAPS

(***************************************************************************)
(* Lemmas about the spine.  The four ways a step changes the tree are each *)
(* a lemma about Shape: the tip is closed, the tip leaves the tree, a      *)
(* block is appended to the tip, a heading takes the tip's place.          *)
(***************************************************************************)
LEMMA UnlinkBare ==
  ASSUME tree \in Tree, NEW n \in Node,
         tree.parent[n] = Nil, tree.prev[n] = Nil, tree.next[n] = Nil
  PROVE  Unlink(tree, n) = tree
  BY DEF Unlink, Point, Tree, Link, Node, Nil

\* What unlinking a last child does to each link.
LEMMA UnlinkLast ==
  ASSUME tree \in Tree, NEW n \in Node, LinksAgree,
         tree.parent[n] # Nil, tree.next[n] = Nil
  PROVE  LET u == Unlink(tree, n)
             p == tree.parent[n]
             l == tree.prev[n]
         IN  /\ u \in Tree
             /\ u.parent = [tree.parent EXCEPT ![n] = Nil]
             /\ u.last = [tree.last EXCEPT ![p] = l]
             /\ u.prev = [tree.prev EXCEPT ![n] = Nil]
             /\ l # Nil => u.next = [tree.next EXCEPT ![l] = Nil, ![n] = Nil]
             /\ l = Nil => u.next = [tree.next EXCEPT ![n] = Nil]
  BY DEF Unlink, Point, Tree, Link, Node, Nil, LinksAgree

\* What appending a node that is in no tree does to each link.
LEMMA AppendFresh ==
  ASSUME tree \in Tree, NEW p \in Node, NEW c \in Node, p # c,
         tree.parent[c] = Nil, tree.prev[c] = Nil, tree.next[c] = Nil
  PROVE  LET a == AppendChild(tree, p, c)
             l == tree.last[p]
         IN  /\ a \in Tree
             /\ a.parent = [tree.parent EXCEPT ![c] = p]
             /\ a.last = [tree.last EXCEPT ![p] = c]
             /\ l = Nil => a.prev = tree.prev /\ a.next = tree.next
             /\ l # Nil => /\ a.prev = [tree.prev EXCEPT ![c] = l]
                           /\ a.next = [tree.next EXCEPT ![l] = c]
<1>1. Unlink(tree, c) = tree
  BY UnlinkBare
<1>. QED
  BY <1>1 DEF AppendChild, Point, Tree, Link, Node, Nil

\* Nodes are positive integers, and so are the blocks of the spine.
LEMMA NodeFacts ==
  /\ \A n \in Node : n \in Int /\ 1 <= n /\ n # Nil
  /\ \A u \in Node : 1..u \subseteq Node
  /\ Doc \in Node /\ Doc = 1 /\ Nil = 0 /\ Nil \notin Node
  BY MaxNodesAssumption DEF Node, Nil, Doc

LEMMA SpineFacts ==
  ASSUME Shape
  PROVE  /\ \A n \in OnSpine : n \in Node /\ n \in Int /\ 1 <= n /\ n \in open
         /\ Nil \notin OnSpine
         /\ \A n \in OnSpine : n # Doc => tree.parent[n] # Nil
         /\ \A n \in open : tree.parent[n] # Nil => n \in OnSpine
  BY NodeFacts DEF Shape, OnSpine

\* A step that leaves the tree alone leaves the spine alone.
LEMMA ShapeStays ==
  ASSUME Shape, UNCHANGED <<tree, type, open, used, tip>>
  PROVE  Shape' /\ OnSpine' = OnSpine
  BY DEF Shape, OnSpine, LinksAgree, LeavesAreBare, SpineInv, SpineRises

\* A block of the spine that cannot have children is the tip.
LEMMA LeafIsTip ==
  ASSUME Shape, NEW n \in OnSpine, type[n] \notin Containers \cup {"doc"}
  PROVE  n = tip /\ n # Doc
  BY SpineFacts DEF Shape, LeavesAreBare, SpineInv

\* What is known of the tip when it is below the document.
LEMMA TipBelow ==
  ASSUME Shape, tip # Nil, tip # Doc
  PROVE  /\ tip \in Node /\ tip \in OnSpine
         /\ tree.parent[tip] \in Node /\ tree.parent[tip] \in OnSpine
         /\ tree.parent[tip] < tip
         /\ tree.last[tree.parent[tip]] = tip
         /\ tree.next[tip] = Nil
         /\ \A n \in OnSpine \ {tip} : n <= tree.parent[tip]
<1>1. tip \in Node /\ tip \in OnSpine
  BY SpineFacts DEF Shape, SpineInv
<1>2. /\ tree.parent[tip] \in OnSpine
      /\ tree.last[tree.parent[tip]] = tip
  BY <1>1 DEF Shape, SpineInv
<1>3. tree.parent[tip] \in Node
  BY <1>2, SpineFacts
<1>4. tree.parent[tip] < tip /\ tree.next[tip] = Nil
  <2>1. LinksAgree
    BY DEF Shape
  <2>2. tree.parent[tip] # Nil /\ tree.last[tree.parent[tip]] # Nil
    BY <1>1, <1>2, <1>3, NodeFacts
  <2>. QED
    BY <1>1, <1>2, <1>3, <2>1, <2>2 DEF LinksAgree
<1>5. ASSUME NEW n \in OnSpine \ {tip}, tree.parent[tip] < n
      PROVE  FALSE
  <2>1. n \in Int /\ tip \in Int
    BY <1>1, SpineFacts, NodeFacts
  <2>2. n <= tip /\ tip <= n
    BY <1>2, <1>5 DEF Shape, SpineRises
  <2>. QED
    BY <2>1, <2>2
<1>6. OnSpine \subseteq Int
  BY SpineFacts, NodeFacts
<1>. QED
  BY <1>1, <1>2, <1>3, <1>4, <1>5, <1>6

\* The tip is closed and stays in the tree.
LEMMA CloseTip ==
  ASSUME Shape, tip # Nil,
         open' = open \ {tip}, tip' = tree.parent[tip], UNCHANGED <<tree, type, used>>
  PROVE  Shape' /\ OnSpine' = OnSpine \ {tip}
<1>1. OnSpine' = OnSpine \ {tip}
  BY DEF OnSpine
<1>2. SpineInv' /\ SpineRises' /\ tip' \in Link
  <2>1. CASE tip = Doc
    <3>1. OnSpine' = {}
      <4>1. \A n \in OnSpine : n <= 1
        BY <2>1, NodeFacts DEF Shape, SpineRises
      <4>2. \A n \in OnSpine : n = tip
        BY <4>1, <2>1, SpineFacts, NodeFacts
      <4>. QED
        BY <1>1, <4>2
    <3>2. tip' = Nil
      BY <2>1 DEF Shape
    <3>. QED
      BY <3>1, <3>2 DEF SpineInv, SpineRises, Link
  <2>2. CASE tip # Doc
    <3>1. /\ tip' \in OnSpine' /\ tip' # Nil /\ tree.last[tip'] = tip
          /\ \A n \in OnSpine' : n <= tip'
      BY <1>1, <2>2, TipBelow, NodeFacts
    <3>2. \A n \in OnSpine' \ {tip'} : tree.last[n] \in OnSpine'
      <4>1. SUFFICES ASSUME NEW n \in OnSpine' \ {tip'}, tree.last[n] = tip
                     PROVE  FALSE
        BY <1>1 DEF Shape, SpineInv
      <4>2. tree.parent[tip] = n
        BY <1>1, <4>1, SpineFacts, NodeFacts, <2>2 DEF Shape, LinksAgree
      <4>. QED
        BY <4>1, <4>2
    <3>3. \A n \in OnSpine' \ {Doc} : tree.parent[n] \in OnSpine'
                                      /\ tree.last[tree.parent[n]] = n
      <4>1. SUFFICES ASSUME NEW n \in OnSpine' \ {Doc}, tree.parent[n] = tip
                     PROVE  FALSE
        BY <1>1 DEF Shape, SpineInv
      <4>2. n \in OnSpine /\ tree.last[tip] = n
        BY <1>1, <4>1 DEF Shape, SpineInv
      <4>. QED
        BY <4>2, SpineFacts DEF Shape, SpineInv
    <3>. QED
      BY <1>1, <2>2, <3>1, <3>2, <3>3, TipBelow, SpineFacts DEF Shape, SpineInv, SpineRises, Link
  <2>. QED
    BY <2>1, <2>2
<1>3. LinksAgree' /\ LeavesAreBare'
  BY DEF Shape, LinksAgree, LeavesAreBare
<1>4. open' \subseteq 1..used'
  BY DEF Shape
<1>. QED
  BY <1>1, <1>2, <1>3, <1>4 DEF Shape

\* The tip leaves the tree, closed or not, and its parent becomes the tip.
LEMMA DropTip ==
  ASSUME Shape, tip # Nil, tip # Doc,
         tree' = Unlink(tree, tip), tip' = tree.parent[tip],
         open' = open \/ open' = open \ {tip}, UNCHANGED <<type, used>>
  PROVE  Shape' /\ OnSpine' = OnSpine \ {tip}
<1>. DEFINE p == tree.parent[tip]
            l == tree.prev[tip]
<1>1. /\ tip \in Node /\ p \in Node /\ p # tip /\ p # Nil /\ l \in Link
      /\ tree.last[p] = tip /\ tree.next[tip] = Nil /\ tree.last[tip] \notin open
  <2>1. tip \in Node /\ p \in Node /\ p < tip /\ tree.last[p] = tip /\ tree.next[tip] = Nil
    BY TipBelow
  <2>2. l \in Link
    BY <2>1 DEF Shape, Tree
  <2>. QED
    BY <2>1, <2>2, NodeFacts DEF Shape, SpineInv
<1>2. /\ tree' \in Tree
      /\ tree'.parent = [tree.parent EXCEPT ![tip] = Nil]
      /\ tree'.last = [tree.last EXCEPT ![p] = l]
      /\ tree'.prev = [tree.prev EXCEPT ![tip] = Nil]
      /\ l # Nil => tree'.next = [tree.next EXCEPT ![l] = Nil, ![tip] = Nil]
      /\ l = Nil => tree'.next = [tree.next EXCEPT ![tip] = Nil]
  BY <1>1, UnlinkLast DEF Shape
<1>3. \A n \in Node :
        /\ tree'.parent[n] = IF n = tip THEN Nil ELSE tree.parent[n]
        /\ tree'.last[n] = IF n = p THEN l ELSE tree.last[n]
        /\ tree'.prev[n] = IF n = tip THEN Nil ELSE tree.prev[n]
        /\ tree'.next[n] = IF n = tip \/ n = l THEN Nil ELSE tree.next[n]
  <2>1. tree \in Tree
    BY DEF Shape
  <2>2. \A n \in Node :
          /\ tree'.parent[n] = IF n = tip THEN Nil ELSE tree.parent[n]
          /\ tree'.last[n] = IF n = p THEN l ELSE tree.last[n]
          /\ tree'.prev[n] = IF n = tip THEN Nil ELSE tree.prev[n]
    BY <1>1, <1>2, <2>1 DEF Tree
  <2>3. CASE l = Nil
    <3>1. \A n \in Node : n # l
      BY <2>3, NodeFacts
    <3>2. tree'.next = [tree.next EXCEPT ![tip] = Nil]
      BY <1>2, <2>3
    <3>. QED
      BY <2>1, <2>2, <3>1, <3>2 DEF Tree
  <2>4. CASE l # Nil
    <3>1. tree'.next = [tree.next EXCEPT ![l] = Nil, ![tip] = Nil]
      BY <1>2, <2>4
    <3>. QED
      BY <1>1, <2>1, <2>2, <3>1 DEF Tree
  <2>. QED
    BY <2>3, <2>4
<1>4. OnSpine' = OnSpine \ {tip}
  <2>1. open \subseteq Node
    BY NodeFacts DEF Shape
  <2>. QED
    BY <1>3, <2>1 DEF OnSpine
<1>5. l # Nil => /\ l \in Node /\ l # tip /\ tree.parent[l] = p /\ tree.next[l] = tip
  BY <1>1 DEF Shape, LinksAgree, Link
<1>6. l \notin open
  <2>1. l = Nil => l \notin open
    BY NodeFacts DEF Shape
  <2>2. ASSUME l # Nil, l \in open
        PROVE  FALSE
    <3>1. l \in OnSpine /\ l # Doc
      BY <1>1, <1>5, <2>2, SpineFacts DEF Shape
    <3>2. tree.last[tree.parent[l]] = l
      BY <3>1 DEF Shape, SpineInv
    <3>. QED
      BY <1>1, <1>5, <2>2, <3>2
  <2>. QED
    BY <2>1, <2>2
<1>7. LinksAgree'
  <2>0. LinksAgree /\ used' = used
    BY DEF Shape
  <2>1. ASSUME NEW n \in Node
        PROVE  /\ tree.last[n] \in Link /\ tree.next[n] \in Link
               /\ tree.prev[n] \in Link /\ tree.parent[n] \in Link
               /\ tree.last[n] # Nil => tree.last[n] \in Node
               /\ tree.next[n] # Nil => tree.next[n] \in Node
               /\ tree.prev[n] # Nil => tree.prev[n] \in Node
               /\ tree.parent[n] # Nil => tree.parent[n] \in Node
    BY DEF Shape, Tree, Link
  <2>2. ASSUME NEW n \in Node, tree'.last[n] # Nil
        PROVE  tree'.parent[tree'.last[n]] = n /\ tree'.next[tree'.last[n]] = Nil
    <3>1. CASE n = p
      BY <1>1, <1>3, <1>5, <2>2, <3>1
    <3>2. CASE n # p
      <4>1. tree'.last[n] = tree.last[n] /\ tree.last[n] \in Node
        BY <1>3, <2>1, <2>2, <3>2
      <4>2. tree.parent[tree.last[n]] = n /\ tree.next[tree.last[n]] = Nil
        BY <2>0, <2>2, <4>1 DEF LinksAgree
      <4>. QED
        BY <1>1, <1>3, <3>2, <4>1, <4>2
    <3>. QED
      BY <3>1, <3>2
  <2>3. ASSUME NEW n \in Node, tree'.parent[n] # Nil, tree'.next[n] = Nil
        PROVE  tree'.last[tree'.parent[n]] = n
    <3>1. n # tip /\ tree'.parent[n] = tree.parent[n] /\ tree.parent[n] \in Node
      BY <1>3, <2>1, <2>3
    <3>2. CASE n = l
      BY <1>1, <1>3, <1>5, <3>1, <3>2, NodeFacts, ZenonT(40)
    <3>3. CASE n # l
      <4>1. tree.next[n] = Nil
        BY <1>3, <2>3, <3>1, <3>3
      <4>2. tree.last[tree.parent[n]] = n
        BY <2>0, <2>3, <3>1, <4>1 DEF LinksAgree
      <4>. QED
        BY <1>1, <1>3, <3>1, <4>2
    <3>. QED
      BY <3>2, <3>3
  <2>4. ASSUME NEW n \in Node, tree'.parent[n] # Nil
        PROVE  tree'.parent[n] < n
    BY <1>3, <2>0, <2>4 DEF LinksAgree
  <2>5. ASSUME NEW n \in Node, tree'.next[n] # Nil
        PROVE  /\ tree'.parent[n] # Nil
               /\ tree'.prev[tree'.next[n]] = n
               /\ tree'.parent[tree'.next[n]] = tree'.parent[n]
    <3>1. n # tip /\ tree'.next[n] = tree.next[n] /\ tree.next[n] \in Node
      BY <1>3, <2>1, <2>5
    <3>2. /\ tree.parent[n] # Nil
          /\ tree.prev[tree.next[n]] = n
          /\ tree.parent[tree.next[n]] = tree.parent[n]
      BY <2>0, <2>5, <3>1 DEF LinksAgree
    <3>3. tree.next[n] # tip
      BY <1>1, <1>3, <2>5, <3>1, <3>2
    <3>. QED
      BY <1>3, <3>1, <3>2, <3>3
  <2>6. ASSUME NEW n \in Node, tree'.prev[n] # Nil
        PROVE  /\ tree'.parent[n] # Nil
               /\ tree'.next[tree'.prev[n]] = n
               /\ tree'.parent[tree'.prev[n]] = tree'.parent[n]
    <3>1. n # tip /\ tree'.prev[n] = tree.prev[n] /\ tree.prev[n] \in Node
      BY <1>3, <2>1, <2>6
    <3>2. /\ tree.parent[n] # Nil
          /\ tree.next[tree.prev[n]] = n
          /\ tree.parent[tree.prev[n]] = tree.parent[n]
      BY <2>0, <2>6, <3>1 DEF LinksAgree
    <3>3. tree.prev[n] # tip /\ tree.prev[n] # l
      BY <1>1, <1>5, <3>1, <3>2, NodeFacts
    <3>. QED
      BY <1>3, <3>1, <3>2, <3>3
  <2>7. ASSUME NEW n \in Node, n > used
        PROVE  /\ tree'.parent[n] = Nil /\ tree'.last[n] = Nil
               /\ tree'.prev[n] = Nil /\ tree'.next[n] = Nil
    <3>1. /\ tree.parent[n] = Nil /\ tree.last[n] = Nil
          /\ tree.prev[n] = Nil /\ tree.next[n] = Nil
      BY <2>0, <2>7 DEF LinksAgree
    <3>. QED
      BY <1>1, <1>3, <3>1, NodeFacts
  <2>. QED
    BY <2>0, <2>2, <2>3, <2>4, <2>5, <2>6, <2>7 DEF LinksAgree
<1>8. LeavesAreBare'
  BY <1>1, <1>3 DEF Shape, LeavesAreBare
<1>9. /\ p \in OnSpine' /\ \A n \in OnSpine' : n <= p
  BY <1>1, <1>4, TipBelow
<1>10. SpineInv'
  <2>1. \A n \in OnSpine' \ {p} : tree'.last[n] \in OnSpine'
    <3>1. SUFFICES ASSUME NEW n \in OnSpine', n # p
                   PROVE  tree'.last[n] \in OnSpine'
      OBVIOUS
    <3>2. n \in Node /\ n \in OnSpine /\ n # tip
      BY <1>4, <3>1, SpineFacts
    <3>3. tree.last[n] \in OnSpine /\ tree.last[n] # Nil
      BY <3>2, SpineFacts DEF Shape, SpineInv
    <3>4. tree.last[n] # tip
      BY <3>1, <3>2, <3>3, <1>1 DEF Shape, LinksAgree
    <3>. QED
      BY <1>3, <1>4, <3>1, <3>2, <3>3, <3>4
  <2>2. \A n \in OnSpine' \ {Doc} : /\ tree'.parent[n] \in OnSpine'
                                    /\ tree'.last[tree'.parent[n]] = n
    <3>1. SUFFICES ASSUME NEW n \in OnSpine', n # Doc
                   PROVE  tree'.parent[n] \in OnSpine' /\ tree'.last[tree'.parent[n]] = n
      OBVIOUS
    <3>2. n \in Node /\ n \in OnSpine /\ n # tip
      BY <1>4, <3>1, SpineFacts
    <3>3. /\ tree.parent[n] \in OnSpine /\ tree.parent[n] \in Node
          /\ tree.last[tree.parent[n]] = n
      BY <3>1, <3>2, SpineFacts DEF Shape, SpineInv
    <3>4. tree.parent[n] # tip /\ tree.parent[n] # p
      <4>1. tree.parent[n] = tip => n \in open
        BY <3>2, SpineFacts
      <4>. QED
        BY <1>1, <3>2, <3>3, <4>1
    <3>. QED
      BY <1>3, <1>4, <3>2, <3>3, <3>4
  <2>3. tree'.last[p] \notin open'
    BY <1>1, <1>3, <1>6
  <2>. QED
    BY <1>1, <1>9, <2>1, <2>2, <2>3 DEF SpineInv
<1>11. SpineRises'
  <2>1. \A m, n \in OnSpine' : m < n => tree'.last[m] <= n
    <3>1. SUFFICES ASSUME NEW m \in OnSpine', NEW n \in OnSpine', m < n
                   PROVE  tree'.last[m] <= n
      OBVIOUS
    <3>2. m # p
      BY <1>9, <3>1, <1>4, SpineFacts
    <3>. QED
      BY <1>3, <1>4, <3>1, <3>2, SpineFacts DEF Shape, SpineRises
  <2>. QED
    BY <1>9, <2>1 DEF SpineRises
<1>12. open' \subseteq 1..used' /\ tip' \in Link /\ tree'.parent[Doc] = Nil
  BY <1>1, <1>3, NodeFacts DEF Shape, Link
<1>. QED
  BY <1>2, <1>4, <1>7, <1>8, <1>10, <1>11, <1>12 DEF Shape

\* A new block is appended to the tip and becomes the tip.
LEMMA AppendTip ==
  ASSUME Shape, tip # Nil, type[tip] \in Containers \cup {"doc"}, used < MaxNodes,
         used' = used + 1, tip' = used + 1, open' = open \cup {used + 1},
         tree' = AppendChild(tree, tip, used + 1),
         DOMAIN type' = Node, \A n \in 1..used : type'[n] = type[n]
  PROVE  Shape' /\ OnSpine' = OnSpine \cup {used + 1}
<1>. DEFINE new == used + 1
            l == tree.last[tip]
<1>1. /\ used \in Node /\ used \in Int /\ 1 <= used /\ new \in Node /\ new \in Int
      /\ new > used /\ new \notin 1..used /\ new # Nil
      /\ tip \in OnSpine /\ tip \in Node /\ tip \in Int /\ tip < new /\ tip # new
      /\ tree \in Tree /\ l \in Link /\ LinksAgree /\ l \notin open /\ l # new
  <2>1. used \in Node /\ used \in Int /\ new \in Node /\ new \in Int
    BY NodeFacts, MaxNodesAssumption DEF Shape, Node
  <2>2. tip \in OnSpine /\ tip \in 1..used /\ l \notin open
    BY SpineFacts DEF Shape, SpineInv, OnSpine
  <2>3. l # new
    BY <2>1, <2>2, NodeFacts DEF Shape, LinksAgree
  <2>. QED
    BY <2>1, <2>2, <2>3, NodeFacts DEF Shape, Tree
<1>2. /\ tree.parent[new] = Nil /\ tree.last[new] = Nil
      /\ tree.prev[new] = Nil /\ tree.next[new] = Nil
  BY <1>1, NodeFacts DEF LinksAgree
<1>3. /\ tree' \in Tree
      /\ tree'.parent = [tree.parent EXCEPT ![new] = tip]
      /\ tree'.last = [tree.last EXCEPT ![tip] = new]
      /\ l = Nil => tree'.prev = tree.prev /\ tree'.next = tree.next
      /\ l # Nil => /\ tree'.prev = [tree.prev EXCEPT ![new] = l]
                    /\ tree'.next = [tree.next EXCEPT ![l] = new]
  BY <1>1, <1>2, AppendFresh
<1>4. \A n \in Node :
        /\ tree'.parent[n] = IF n = new THEN tip ELSE tree.parent[n]
        /\ tree'.last[n] = IF n = tip THEN new ELSE tree.last[n]
        /\ tree'.prev[n] = IF n = new THEN l ELSE tree.prev[n]
        /\ tree'.next[n] = IF n = l THEN new ELSE tree.next[n]
  <2>1. \A n \in Node :
          /\ tree'.parent[n] = IF n = new THEN tip ELSE tree.parent[n]
          /\ tree'.last[n] = IF n = tip THEN new ELSE tree.last[n]
    BY <1>1, <1>3 DEF Tree
  <2>2. CASE l = Nil
    BY <1>2, <1>3, <2>1, <2>2, NodeFacts
  <2>3. CASE l # Nil
    BY <1>1, <1>3, <2>1, <2>3 DEF Tree
  <2>. QED
    BY <2>2, <2>3
<1>5. OnSpine' = OnSpine \cup {new}
  <2>1. open \subseteq 1..used /\ open \subseteq Node
    BY <1>1, NodeFacts DEF Shape
  <2>2. \A n \in open : tree'.parent[n] = tree.parent[n]
    BY <1>1, <1>4, <2>1
  <2>3. new \in open' /\ tree'.parent[new] # Nil
    BY <1>1, <1>4, NodeFacts
  <2>. QED
    BY <2>1, <2>2, <2>3 DEF OnSpine
<1>6. LinksAgree'
  <2>1. ASSUME NEW n \in Node
        PROVE  /\ tree.last[n] # Nil => tree.last[n] \in Node
               /\ tree.next[n] # Nil => tree.next[n] \in Node
               /\ tree.prev[n] # Nil => tree.prev[n] \in Node
               /\ tree.parent[n] # Nil => tree.parent[n] \in Node
    BY <1>1 DEF Tree, Link
  <2>2. ASSUME NEW n \in Node
        PROVE  /\ tree.parent[n] # new /\ tree.last[n] # new
               /\ tree.next[n] # new /\ tree.prev[n] # new
    <3>1. n > used => tree.parent[n] = Nil
      BY <1>1 DEF LinksAgree
    <3>2. tree.parent[n] # new
      BY <1>1, <3>1, NodeFacts DEF LinksAgree
    <3>3. tree.last[n] # new
      BY <1>1, <1>2, NodeFacts DEF LinksAgree
    <3>4. tree.next[n] # new /\ tree.prev[n] # new
      BY <1>1, <1>2, NodeFacts DEF LinksAgree
    <3>. QED
      BY <3>2, <3>3, <3>4
  <2>3. ASSUME NEW n \in Node, tree'.last[n] # Nil
        PROVE  tree'.parent[tree'.last[n]] = n /\ tree'.next[tree'.last[n]] = Nil
    <3>1. CASE n = tip
      BY <1>1, <1>2, <1>4, <3>1
    <3>2. CASE n # tip
      <4>1. tree'.last[n] = tree.last[n] /\ tree.last[n] \in Node /\ tree.last[n] # new
        BY <1>4, <2>1, <2>2, <2>3, <3>2
      <4>2. tree.parent[tree.last[n]] = n /\ tree.next[tree.last[n]] = Nil
        BY <1>1, <2>3, <4>1 DEF LinksAgree
      <4>3. tree.last[n] # l
        BY <1>1, <3>2, <4>1, <4>2, NodeFacts DEF LinksAgree
      <4>. QED
        BY <1>4, <4>1, <4>2, <4>3
    <3>. QED
      BY <3>1, <3>2
  <2>4. ASSUME NEW n \in Node, tree'.parent[n] # Nil, tree'.next[n] = Nil
        PROVE  tree'.last[tree'.parent[n]] = n
    <3>1. CASE n = new
      BY <1>1, <1>4, <3>1
    <3>2. CASE n # new
      <4>1. n # l /\ tree.next[n] = Nil /\ tree.parent[n] # Nil /\ tree'.parent[n] = tree.parent[n]
        BY <1>1, <1>4, <2>4, <3>2
      <4>2. tree.last[tree.parent[n]] = n /\ tree.parent[n] \in Node
        BY <1>1, <2>1, <4>1 DEF LinksAgree
      <4>. QED
        BY <1>4, <4>1, <4>2
    <3>. QED
      BY <3>1, <3>2
  <2>5. ASSUME NEW n \in Node, tree'.parent[n] # Nil
        PROVE  tree'.parent[n] < n
    BY <1>1, <1>4, <2>5 DEF LinksAgree
  <2>6. ASSUME NEW n \in Node, tree'.next[n] # Nil
        PROVE  /\ tree'.parent[n] # Nil
               /\ tree'.prev[tree'.next[n]] = n
               /\ tree'.parent[tree'.next[n]] = tree'.parent[n]
    <3>1. CASE n = l
      <4>1. tree.parent[l] = tip /\ l # new
        BY <1>1, <3>1, NodeFacts DEF LinksAgree
      <4>. QED
        BY <1>1, <1>4, <3>1, <4>1, NodeFacts
    <3>2. CASE n # l
      <4>1. tree'.next[n] = tree.next[n] /\ tree.next[n] \in Node /\ tree.next[n] # new
            /\ n # new
        BY <1>2, <1>4, <2>1, <2>2, <2>6, <3>2
      <4>2. /\ tree.parent[n] # Nil
            /\ tree.prev[tree.next[n]] = n
            /\ tree.parent[tree.next[n]] = tree.parent[n]
        BY <1>1, <2>6, <4>1 DEF LinksAgree
      <4>. QED
        BY <1>4, <4>1, <4>2
    <3>. QED
      BY <3>1, <3>2
  <2>7. ASSUME NEW n \in Node, tree'.prev[n] # Nil
        PROVE  /\ tree'.parent[n] # Nil
               /\ tree'.next[tree'.prev[n]] = n
               /\ tree'.parent[tree'.prev[n]] = tree'.parent[n]
    <3>1. CASE n = new
      <4>1. l # Nil /\ l \in Node
        BY <1>1, <1>4, <2>7, <3>1 DEF Link
      <4>2. tree.parent[l] = tip
        BY <1>1, <4>1 DEF LinksAgree
      <4>. QED
        BY <1>1, <1>4, <3>1, <4>1, <4>2, NodeFacts, ZenonT(40)
    <3>2. CASE n # new
      <4>1. tree'.prev[n] = tree.prev[n] /\ tree.prev[n] \in Node /\ tree.prev[n] # new
        BY <1>4, <2>1, <2>2, <2>7, <3>2
      <4>2. /\ tree.parent[n] # Nil
            /\ tree.next[tree.prev[n]] = n
            /\ tree.parent[tree.prev[n]] = tree.parent[n]
        BY <1>1, <2>7, <4>1 DEF LinksAgree
      <4>3. tree.prev[n] # l
        BY <1>1, <4>1, <4>2, NodeFacts DEF LinksAgree
      <4>. QED
        BY <1>4, <3>2, <4>1, <4>2, <4>3
    <3>. QED
      BY <3>1, <3>2
  <2>8. ASSUME NEW n \in Node, n > used'
        PROVE  /\ tree'.parent[n] = Nil /\ tree'.last[n] = Nil
               /\ tree'.prev[n] = Nil /\ tree'.next[n] = Nil
    <3>1. n # new /\ n # tip /\ n > used
      BY <1>1, <2>8, NodeFacts
    <3>2. /\ tree.parent[n] = Nil /\ tree.last[n] = Nil
          /\ tree.prev[n] = Nil /\ tree.next[n] = Nil
      BY <1>1, <3>1 DEF LinksAgree
    <3>3. n # l
      BY <1>1, <3>2, NodeFacts DEF LinksAgree
    <3>. QED
      BY <1>4, <3>1, <3>2, <3>3
  <2>. QED
    BY <2>3, <2>4, <2>5, <2>6, <2>7, <2>8 DEF LinksAgree
<1>7. LeavesAreBare'
  <2>1. SUFFICES ASSUME NEW n \in Node, tree'.last[n] # Nil
                 PROVE  type'[n] \in Containers \cup {"doc"}
    BY DEF LeavesAreBare
  <2>2. n \in 1..used
    BY <1>1, <1>2, <1>4, <2>1, NodeFacts DEF LinksAgree, Shape, OnSpine
  <2>3. type[n] \in Containers \cup {"doc"}
    BY <1>4, <2>1 DEF Shape, LeavesAreBare
  <2>. QED
    BY <2>2, <2>3
<1>8. SpineInv'
  <2>1. \A n \in OnSpine' \ {new} : tree'.last[n] \in OnSpine'
    BY <1>4, <1>5, SpineFacts DEF Shape, SpineInv
  <2>2. \A n \in OnSpine' \ {Doc} : /\ tree'.parent[n] \in OnSpine'
                                    /\ tree'.last[tree'.parent[n]] = n
    <3>1. SUFFICES ASSUME NEW n \in OnSpine, n # Doc
                   PROVE  /\ tree'.parent[n] \in OnSpine'
                          /\ tree'.last[tree'.parent[n]] = n
      BY <1>1, <1>4, <1>5
    <3>2. n \in Node /\ n # new /\ n \in open
      BY <1>1, SpineFacts DEF Shape
    <3>3. tree.parent[n] \in OnSpine /\ tree.last[tree.parent[n]] = n
      BY <3>1 DEF Shape, SpineInv
    <3>4. tree.parent[n] # tip
      BY <1>1, <3>2, <3>3
    <3>. QED
      BY <1>4, <1>5, <3>2, <3>3, <3>4, SpineFacts
  <2>3. tree'.last[new] \notin open'
    BY <1>1, <1>2, <1>4, NodeFacts DEF Shape
  <2>. QED
    BY <1>1, <1>5, <2>1, <2>2, <2>3 DEF SpineInv
<1>9. SpineRises'
  <2>1. \A n \in OnSpine : n \in Node /\ n \in Int /\ n <= tip /\ n < new
    BY <1>1, SpineFacts DEF Shape, SpineRises
  <2>2. \A m, n \in OnSpine' : m < n => tree'.last[m] <= n
    <3>1. SUFFICES ASSUME NEW m \in OnSpine', NEW n \in OnSpine', m < n
                   PROVE  tree'.last[m] <= n
      OBVIOUS
    <3>2. m \in OnSpine /\ m \in Node
      BY <1>1, <1>5, <2>1, <3>1
    <3>3. CASE m = tip
      BY <1>1, <1>4, <1>5, <2>1, <3>1, <3>3
    <3>4. CASE m # tip /\ n = new
      <4>1. tree.last[m] \in OnSpine
        BY <3>2, <3>4 DEF Shape, SpineInv
      <4>2. tree.last[m] \in Int /\ tree.last[m] < new
        BY <2>1, <4>1
      <4>3. tree'.last[m] = tree.last[m]
        BY <1>4, <3>2, <3>4
      <4>. QED
        BY <1>1, <3>4, <4>2, <4>3
    <3>5. CASE m # tip /\ n # new
      BY <1>4, <1>5, <3>1, <3>2, <3>5 DEF Shape, SpineRises
    <3>. QED
      BY <3>3, <3>4, <3>5
  <2>. QED
    BY <1>1, <1>5, <2>1, <2>2 DEF SpineRises
<1>10. /\ used' \in Node /\ open' \subseteq 1..used' /\ tip' \in Link
       /\ type'[Doc] = "doc" /\ tree'.parent[Doc] = Nil
  <2>1. Doc \in 1..used /\ Doc # new
    BY <1>1 DEF Doc
  <2>. QED
    BY <1>1, <1>4, <2>1, NodeFacts DEF Shape, Link
<1>. QED
  BY <1>3, <1>5, <1>6, <1>7, <1>8, <1>9, <1>10 DEF Shape

\* What putting a node of no tree in the place of a last child does to each
\* link: it is linked in after the child, then the child is unlinked.
LEMMA ReplaceLast ==
  ASSUME tree \in Tree, LinksAgree, NEW c \in Node, NEW s \in Node, c # s,
         tree.parent[c] # Nil, tree.next[c] = Nil,
         tree.parent[s] = Nil, tree.prev[s] = Nil, tree.next[s] = Nil,
         \A n \in Node : tree.prev[n] # s
  PROVE  LET r == Unlink(InsertAfter(tree, c, s), c)
             p == tree.parent[c]
             l == tree.prev[c]
         IN  /\ r \in Tree
             /\ \A n \in Node :
                  /\ r.parent[n] = CASE n = s -> p [] n = c -> Nil [] OTHER -> tree.parent[n]
                  /\ r.last[n] = IF n = p THEN s ELSE tree.last[n]
                  /\ r.prev[n] = CASE n = s -> l [] n = c -> Nil [] OTHER -> tree.prev[n]
                  /\ r.next[n] = CASE n = c -> Nil [] n = l -> s [] OTHER -> tree.next[n]
<1>. DEFINE p == tree.parent[c]
            l == tree.prev[c]
            i == InsertAfter(tree, c, s)
            r == Unlink(i, c)
<1>1. /\ p \in Node /\ l \in Link /\ l # c /\ l # s
  <2>1. l # c
    <3>1. l = c => tree.next[l] = c
      BY NodeFacts DEF LinksAgree
    <3>. QED
      BY <3>1, NodeFacts
  <2>. QED
    BY <2>1 DEF Tree, Link
<1>2. /\ i \in Tree
      /\ i.parent = [tree.parent EXCEPT ![s] = p]
      /\ i.last = [tree.last EXCEPT ![p] = s]
      /\ i.prev = [tree.prev EXCEPT ![s] = c]
      /\ i.next = [tree.next EXCEPT ![s] = Nil, ![c] = s]
  <2>1. Unlink(tree, s) = tree
    BY UnlinkBare
  <2>2. i = [parent |-> [tree.parent EXCEPT ![s] = p],
             first  |-> tree.first,
             last   |-> [tree.last EXCEPT ![p] = s],
             prev   |-> [tree.prev EXCEPT ![s] = c],
             next   |-> [tree.next EXCEPT ![s] = Nil, ![c] = s]]
    BY <1>1, <2>1, NodeFacts DEF InsertAfter, Point
  <2>. QED
    BY <1>1, <2>2 DEF Tree, Link
<1>3. i.parent[c] = p /\ i.prev[c] = l /\ i.next[c] = s
  BY <1>2 DEF Tree
<1>4. /\ r \in Tree
      /\ r.parent = [i.parent EXCEPT ![c] = Nil]
      /\ r.last = i.last
      /\ r.prev = [i.prev EXCEPT ![s] = l, ![c] = Nil]
      /\ l # Nil => r.next = [i.next EXCEPT ![l] = s, ![c] = Nil]
      /\ l = Nil => r.next = [i.next EXCEPT ![c] = Nil]
  <2>1. r = [parent |-> [i.parent EXCEPT ![c] = Nil],
             first  |-> IF l = Nil THEN Point(i.first, p, s) ELSE i.first,
             last   |-> i.last,
             prev   |-> [i.prev EXCEPT ![s] = l, ![c] = Nil],
             next   |-> [Point(i.next, l, s) EXCEPT ![c] = Nil]]
    BY <1>3, NodeFacts DEF Unlink, Point
  <2>2. Point(i.first, p, s) \in [Node -> Link] /\ Point(i.next, l, s) \in [Node -> Link]
    BY <1>1, <1>2, NodeFacts DEF Point, Tree, Link
  <2>3. l # Nil => Point(i.next, l, s) = [i.next EXCEPT ![l] = s]
    BY DEF Point
  <2>4. l = Nil => Point(i.next, l, s) = i.next
    BY DEF Point
  <2>5. r \in Tree
    <3>1. [i.parent EXCEPT ![c] = Nil] \in [Node -> Link]
      BY <1>2 DEF Tree, Link
    <3>2. [i.prev EXCEPT ![s] = l, ![c] = Nil] \in [Node -> Link]
      BY <1>1, <1>2 DEF Tree, Link
    <3>3. [Point(i.next, l, s) EXCEPT ![c] = Nil] \in [Node -> Link]
      BY <2>2 DEF Link
    <3>4. /\ i.first \in [Node -> Link] /\ i.last \in [Node -> Link]
          /\ (IF l = Nil THEN Point(i.first, p, s) ELSE i.first) \in [Node -> Link]
      BY <1>2, <2>2 DEF Tree
    <3>. QED
      BY <2>1, <3>1, <3>2, <3>3, <3>4 DEF Tree
  <2>. QED
    BY <1>1, <2>1, <2>3, <2>4, <2>5
<1>5. ASSUME NEW n \in Node
      PROVE  /\ r.parent[n] = CASE n = s -> p [] n = c -> Nil [] OTHER -> tree.parent[n]
             /\ r.last[n] = IF n = p THEN s ELSE tree.last[n]
             /\ r.prev[n] = CASE n = s -> l [] n = c -> Nil [] OTHER -> tree.prev[n]
             /\ r.next[n] = CASE n = c -> Nil [] n = l -> s [] OTHER -> tree.next[n]
  <2>1. /\ r.parent[n] = CASE n = s -> p [] n = c -> Nil [] OTHER -> tree.parent[n]
        /\ r.last[n] = IF n = p THEN s ELSE tree.last[n]
    BY <1>1, <1>2, <1>4 DEF Tree
  <2>2. r.prev[n] = CASE n = s -> l [] n = c -> Nil [] OTHER -> tree.prev[n]
    BY <1>1, <1>2, <1>4 DEF Tree
  <2>3. r.next[n] = CASE n = c -> Nil [] n = l -> s [] OTHER -> tree.next[n]
    <3>1. CASE l = Nil
      BY <1>1, <1>2, <1>4, <3>1, NodeFacts DEF Tree
    <3>2. CASE l # Nil
      BY <1>1, <1>2, <1>4, <3>2 DEF Tree
    <3>. QED
      BY <3>1, <3>2
  <2>. QED
    BY <2>1, <2>2, <2>3
<1>. QED
  BY <1>4, <1>5

\* A new block takes the place of the tip, which leaves the tree open.
LEMMA ReplaceTip ==
  ASSUME Shape, tip # Nil, tip # Doc, type[tip] \notin Containers \cup {"doc"},
         used < MaxNodes,
         used' = used + 1, tip' = used + 1, open' = open \cup {used + 1},
         tree' = Unlink(InsertAfter(tree, tip, used + 1), tip),
         DOMAIN type' = Node, \A n \in 1..used : type'[n] = type[n]
  PROVE  Shape' /\ OnSpine' = (OnSpine \ {tip}) \cup {used + 1}
<1>. DEFINE new == used + 1
            p == tree.parent[tip]
            l == tree.prev[tip]
<1>1. /\ used \in Node /\ used \in Int /\ 1 <= used /\ new \in Node /\ new \in Int
      /\ new > used /\ new \notin 1..used /\ new # Nil
      /\ tree \in Tree /\ LinksAgree
  BY NodeFacts, MaxNodesAssumption DEF Shape, Node
<1>2. /\ tip \in OnSpine /\ tip \in Node /\ tip \in Int /\ tip < new /\ tip # new
      /\ p \in OnSpine /\ p \in Node /\ p \in Int /\ p # Nil /\ p < tip /\ p # tip /\ p # new
      /\ tree.last[p] = tip /\ tree.next[tip] = Nil /\ tree.last[tip] = Nil
  <2>1. tip \in 1..used
    BY TipBelow DEF Shape, OnSpine
  <2>2. tree.last[tip] = Nil
    BY TipBelow DEF Shape, LeavesAreBare
  <2>3. /\ tip \in OnSpine /\ tip \in Node /\ p \in OnSpine /\ p \in Node
        /\ p < tip /\ tree.last[p] = tip /\ tree.next[tip] = Nil
    BY TipBelow
  <2>4. tip \in Int /\ p \in Int /\ p # Nil
    BY <2>3, NodeFacts
  <2>. QED
    BY <1>1, <2>1, <2>2, <2>3, <2>4
<1>3. /\ tree.parent[new] = Nil /\ tree.last[new] = Nil
      /\ tree.prev[new] = Nil /\ tree.next[new] = Nil
  BY <1>1 DEF LinksAgree
<1>4. \A n \in Node : /\ tree.parent[n] # new /\ tree.last[n] # new
                      /\ tree.next[n] # new /\ tree.prev[n] # new
  <2>1. SUFFICES ASSUME NEW n \in Node
                 PROVE  /\ tree.parent[n] # new /\ tree.last[n] # new
                        /\ tree.next[n] # new /\ tree.prev[n] # new
    OBVIOUS
  <2>2. n > used => tree.parent[n] = Nil
    BY <1>1 DEF LinksAgree
  <2>3. tree.parent[n] # new
    BY <1>1, <2>2, NodeFacts DEF LinksAgree
  <2>4. tree.last[n] # new
    BY <1>1, <1>3, NodeFacts DEF LinksAgree
  <2>5. tree.next[n] # new /\ tree.prev[n] # new
    BY <1>1, <1>3, NodeFacts DEF LinksAgree
  <2>. QED
    BY <2>3, <2>4, <2>5
<1>5. /\ tree' \in Tree
      /\ \A n \in Node :
           /\ tree'.parent[n] = CASE n = new -> p [] n = tip -> Nil [] OTHER -> tree.parent[n]
           /\ tree'.last[n] = IF n = p THEN new ELSE tree.last[n]
           /\ tree'.prev[n] = CASE n = new -> l [] n = tip -> Nil [] OTHER -> tree.prev[n]
           /\ tree'.next[n] = CASE n = tip -> Nil [] n = l -> new [] OTHER -> tree.next[n]
  BY <1>1, <1>2, <1>3, <1>4, ReplaceLast
<1>6. /\ l # tip /\ l # new /\ l # Doc
      /\ l # Nil => l \in Node /\ tree.parent[l] = p /\ tree.next[l] = tip
  <2>1. l # Nil => l \in Node /\ tree.parent[l] = p /\ tree.next[l] = tip
    BY <1>1, <1>2 DEF LinksAgree, Tree, Link
  <2>2. l # Doc
    BY <1>2, <2>1, NodeFacts DEF Shape
  <2>. QED
    BY <1>2, <1>4, <2>1, <2>2
<1>7. OnSpine' = (OnSpine \ {tip}) \cup {new}
  <2>1. open \subseteq 1..used /\ open \subseteq Node
    BY <1>1, NodeFacts DEF Shape
  <2>2. \A n \in open \ {tip} : tree'.parent[n] = tree.parent[n]
    BY <1>1, <1>5, <2>1
  <2>3. new \in open' /\ tree'.parent[new] # Nil /\ tree'.parent[tip] = Nil
    BY <1>1, <1>2, <1>5
  <2>. QED
    BY <1>2, <2>1, <2>2, <2>3 DEF OnSpine
<1>8. LinksAgree'
  <2>1. ASSUME NEW n \in Node
        PROVE  /\ tree.last[n] # Nil => tree.last[n] \in Node
               /\ tree.next[n] # Nil => tree.next[n] \in Node
               /\ tree.prev[n] # Nil => tree.prev[n] \in Node
               /\ tree.parent[n] # Nil => tree.parent[n] \in Node
    BY <1>1 DEF Tree, Link
  <2>2. ASSUME NEW n \in Node, tree'.last[n] # Nil
        PROVE  tree'.parent[tree'.last[n]] = n /\ tree'.next[tree'.last[n]] = Nil
    <3>1. CASE n = p
      BY <1>1, <1>2, <1>3, <1>5, <1>6, <3>1
    <3>2. CASE n # p
      <4>1. tree'.last[n] = tree.last[n] /\ tree.last[n] \in Node /\ tree.last[n] # new
        BY <1>4, <1>5, <2>1, <2>2, <3>2
      <4>2. tree.parent[tree.last[n]] = n /\ tree.next[tree.last[n]] = Nil
        BY <1>1, <2>2, <4>1 DEF LinksAgree
      <4>3. tree.last[n] # l /\ tree.last[n] # tip
        BY <1>2, <1>6, <3>2, <4>1, <4>2, NodeFacts
      <4>. QED
        BY <1>5, <4>1, <4>2, <4>3
    <3>. QED
      BY <3>1, <3>2
  <2>3. ASSUME NEW n \in Node, tree'.parent[n] # Nil, tree'.next[n] = Nil
        PROVE  tree'.last[tree'.parent[n]] = n
    <3>1. CASE n = new
      BY <1>2, <1>5, <3>1
    <3>2. CASE n # new
      <4>1. n # tip /\ n # l /\ tree.next[n] = Nil
            /\ tree'.parent[n] = tree.parent[n] /\ tree.parent[n] # Nil
        BY <1>1, <1>2, <1>5, <2>3, <3>2
      <4>2. tree.last[tree.parent[n]] = n /\ tree.parent[n] \in Node
        BY <1>1, <2>1, <4>1 DEF LinksAgree
      <4>3. tree.parent[n] # p
        BY <1>2, <4>1, <4>2
      <4>. QED
        BY <1>5, <4>1, <4>2, <4>3
    <3>. QED
      BY <3>1, <3>2
  <2>4. ASSUME NEW n \in Node, tree'.parent[n] # Nil
        PROVE  tree'.parent[n] < n
    <3>1. CASE n = new
      BY <1>1, <1>2, <1>5, <3>1, NodeFacts
    <3>2. CASE n # new
      BY <1>1, <1>5, <2>4, <3>2 DEF LinksAgree
    <3>. QED
      BY <3>1, <3>2
  <2>5. ASSUME NEW n \in Node, tree'.next[n] # Nil
        PROVE  /\ tree'.parent[n] # Nil
               /\ tree'.prev[tree'.next[n]] = n
               /\ tree'.parent[tree'.next[n]] = tree'.parent[n]
    <3>1. CASE n = l
      BY <1>1, <1>2, <1>5, <1>6, <3>1, NodeFacts
    <3>2. CASE n # l
      <4>1. /\ n # tip /\ n # new /\ tree'.next[n] = tree.next[n]
            /\ tree.next[n] \in Node /\ tree.next[n] # new
        BY <1>3, <1>4, <1>5, <2>1, <2>5, <3>2
      <4>2. /\ tree.parent[n] # Nil
            /\ tree.prev[tree.next[n]] = n
            /\ tree.parent[tree.next[n]] = tree.parent[n]
        BY <1>1, <2>5, <4>1 DEF LinksAgree
      <4>3. tree.next[n] # tip
        BY <3>2, <4>2
      <4>. QED
        BY <1>5, <4>1, <4>2, <4>3
    <3>. QED
      BY <3>1, <3>2
  <2>6. ASSUME NEW n \in Node, tree'.prev[n] # Nil
        PROVE  /\ tree'.parent[n] # Nil
               /\ tree'.next[tree'.prev[n]] = n
               /\ tree'.parent[tree'.prev[n]] = tree'.parent[n]
    <3>1. CASE n = new
      <4>1. l # Nil
        BY <1>1, <1>5, <2>6, <3>1
      <4>. QED
        BY <1>1, <1>2, <1>5, <1>6, <3>1, <4>1
    <3>2. CASE n # new
      <4>1. /\ n # tip /\ tree'.prev[n] = tree.prev[n]
            /\ tree.prev[n] \in Node /\ tree.prev[n] # new
        BY <1>4, <1>5, <2>1, <2>6, <3>2
      <4>2. /\ tree.parent[n] # Nil
            /\ tree.next[tree.prev[n]] = n
            /\ tree.parent[tree.prev[n]] = tree.parent[n]
        BY <1>1, <2>6, <4>1 DEF LinksAgree
      <4>3. tree.prev[n] # l /\ tree.prev[n] # tip
        BY <1>2, <1>6, <4>1, <4>2, NodeFacts
      <4>. QED
        BY <1>5, <3>2, <4>1, <4>2, <4>3
    <3>. QED
      BY <3>1, <3>2
  <2>7. ASSUME NEW n \in Node, n > used'
        PROVE  /\ tree'.parent[n] = Nil /\ tree'.last[n] = Nil
               /\ tree'.prev[n] = Nil /\ tree'.next[n] = Nil
    <3>1. n # new /\ n # tip /\ n # p /\ n > used
      BY <1>1, <1>2, <2>7, NodeFacts
    <3>2. /\ tree.parent[n] = Nil /\ tree.last[n] = Nil
          /\ tree.prev[n] = Nil /\ tree.next[n] = Nil
      BY <1>1, <3>1 DEF LinksAgree
    <3>3. n # l
      BY <1>2, <1>6, <3>2, NodeFacts
    <3>. QED
      BY <1>5, <3>1, <3>2, <3>3
  <2>. QED
    BY <2>2, <2>3, <2>4, <2>5, <2>6, <2>7 DEF LinksAgree
<1>9. LeavesAreBare'
  <2>1. SUFFICES ASSUME NEW n \in Node, tree'.last[n] # Nil
                 PROVE  type'[n] \in Containers \cup {"doc"}
    BY DEF LeavesAreBare
  <2>2. tree.last[n] # Nil
    BY <1>2, <1>5, <2>1, NodeFacts
  <2>3. n \in 1..used
    BY <1>1, <2>2, NodeFacts DEF LinksAgree
  <2>4. type[n] \in Containers \cup {"doc"}
    BY <2>2 DEF Shape, LeavesAreBare
  <2>. QED
    BY <2>3, <2>4
<1>10. \A n \in OnSpine \ {tip} : n \in Node /\ n \in Int /\ n <= p /\ n # new /\ n \in open
  BY <1>1, <1>2, TipBelow, SpineFacts DEF Shape
<1>11. SpineInv'
  <2>1. \A n \in OnSpine' \ {new} : tree'.last[n] \in OnSpine'
    <3>1. SUFFICES ASSUME NEW n \in OnSpine \ {tip}, n # p
                   PROVE  tree'.last[n] \in OnSpine'
      BY <1>2, <1>5, <1>7
    <3>2. tree.last[n] \in OnSpine
      BY DEF Shape, SpineInv
    <3>3. tree.last[n] # tip
      BY <1>1, <1>2, <1>10, <3>1, NodeFacts DEF LinksAgree
    <3>. QED
      BY <1>5, <1>7, <1>10, <3>1, <3>2, <3>3
  <2>2. \A n \in OnSpine' \ {Doc} : /\ tree'.parent[n] \in OnSpine'
                                    /\ tree'.last[tree'.parent[n]] = n
    <3>1. CASE new # Doc
      <4>1. tree'.parent[new] \in OnSpine' /\ tree'.last[tree'.parent[new]] = new
        BY <1>1, <1>2, <1>5, <1>7
      <4>2. ASSUME NEW n \in OnSpine \ {tip}, n # Doc
            PROVE  tree'.parent[n] \in OnSpine' /\ tree'.last[tree'.parent[n]] = n
        <5>1. tree.parent[n] \in OnSpine /\ tree.last[tree.parent[n]] = n
          BY <4>2 DEF Shape, SpineInv
        <5>2. tree.parent[n] # tip /\ tree.parent[n] # p
          BY <1>2, <1>10, <4>2, <5>1, SpineFacts, NodeFacts
        <5>. QED
          BY <1>5, <1>7, <1>10, <4>2, <5>1, <5>2
      <4>. QED
        BY <1>7, <4>1, <4>2
    <3>. QED
      BY <1>1, <3>1, NodeFacts
  <2>3. tree'.last[new] \notin open'
    BY <1>1, <1>2, <1>3, <1>5, NodeFacts DEF Shape
  <2>. QED
    BY <1>1, <1>7, <2>1, <2>2, <2>3 DEF SpineInv
<1>12. SpineRises'
  <2>1. \A n \in OnSpine' : n <= new
    <3>1. p <= new
      BY <1>1, <1>2
    <3>. QED
      BY <1>1, <1>2, <1>7, <1>10, <3>1
  <2>2. \A m, n \in OnSpine' : m < n => tree'.last[m] <= n
    <3>1. SUFFICES ASSUME NEW m \in OnSpine', NEW n \in OnSpine', m < n
                   PROVE  tree'.last[m] <= n
      OBVIOUS
    <3>2. m \in OnSpine \ {tip}
      BY <1>1, <1>2, <1>7, <1>10, <2>1, <3>1
    <3>3. CASE n = new
      <4>1. tree'.last[m] \in OnSpine'
        BY <1>7, <1>10, <3>2, <1>11, <1>1 DEF SpineInv
      <4>. QED
        BY <2>1, <3>3, <4>1
    <3>4. CASE n # new
      <4>1. n \in OnSpine \ {tip} /\ m # p
        <5>1. n \in OnSpine \ {tip}
          BY <1>7, <3>4
        <5>2. n <= p /\ n \in Int
          BY <1>10, <5>1
        <5>. QED
          BY <1>2, <3>1, <5>1, <5>2
      <4>. QED
        BY <1>5, <1>10, <3>1, <3>2, <4>1 DEF Shape, SpineRises
    <3>. QED
      BY <3>3, <3>4
  <2>. QED
    BY <2>1, <2>2 DEF SpineRises
<1>13. /\ used' \in Node /\ open' \subseteq 1..used' /\ tip' \in Link
       /\ type'[Doc] = "doc" /\ tree'.parent[Doc] = Nil
  <2>1. Doc \in 1..used /\ Doc # new /\ Doc # tip
    BY <1>1 DEF Doc
  <2>. QED
    BY <1>1, <1>5, <2>1, NodeFacts DEF Shape, Link
<1>. QED
  BY <1>5, <1>7, <1>8, <1>9, <1>11, <1>12, <1>13 DEF Shape

(***************************************************************************)
(* The steps                                                               *)
(***************************************************************************)
treeStays == UNCHANGED <<tree, type, open, used, tip>>

\* Closing the tip, whether or not it vanishes.
LEMMA FinalizeTip ==
  ASSUME Shape, tip # Nil,
         open' = open \ {tip}, tip' = tree.parent[tip], UNCHANGED <<type, used>>,
         tree' = tree \/ (type[tip] = "para" /\ tree' = Unlink(tree, tip))
  PROVE  /\ Shape' /\ OnSpine' = OnSpine \ {tip}
         /\ tip # Doc => tip' \in Node /\ tip' # Nil
<1>1. tip # Doc => tip' \in Node /\ tip' # Nil
  BY TipBelow, NodeFacts
<1>2. CASE tree' = tree
  BY <1>1, <1>2, CloseTip
<1>3. CASE type[tip] = "para" /\ tree' = Unlink(tree, tip)
  <2>1. tip # Doc
    BY <1>3 DEF Shape
  <2>. QED
    BY <1>1, <1>3, <2>1, DropTip
<1>. QED
  BY <1>2, <1>3

LEMMA SpineInit == Init => SpineIInv
<1>1. SUFFICES ASSUME Init PROVE SpineIInv
  OBVIOUS
<1>2. /\ tree \in Tree
      /\ \A n \in Node : /\ tree.parent[n] = Nil /\ tree.last[n] = Nil
                         /\ tree.prev[n] = Nil /\ tree.next[n] = Nil
  BY <1>1 DEF Init, Bare, Tree, Link
<1>3. OnSpine = {Doc} /\ tip = Doc /\ open = {Doc} /\ used = 1
  BY <1>1, <1>2 DEF Init, OnSpine
<1>4. LinksAgree /\ LeavesAreBare
  BY <1>2 DEF LinksAgree, LeavesAreBare
<1>5. SpineInv /\ SpineRises
  BY <1>2, <1>3, NodeFacts DEF SpineInv, SpineRises
<1>6. Shape
  BY <1>1, <1>2, <1>3, <1>4, <1>5, NodeFacts DEF Shape, Init, Link
<1>7. Pointers
  BY <1>1, <1>3, NodeFacts DEF Init, Pointers
<1>. QED
  BY <1>6, <1>7 DEF SpineIInv

\* What holds of the container and its open last child during the walk.
LEMMA WalkFacts ==
  ASSUME SpineIInv, pc = "walk"
  PROVE  /\ tip # Nil /\ oldtip = tip /\ cont \in OnSpine
         /\ NextOpen(cont) # Nil => NextOpen(cont) \in OnSpine /\ NextOpen(cont) # Doc
<1>1. tip # Nil /\ oldtip = tip /\ cont \in OnSpine
  BY DEF SpineIInv, Pointers
<1>2. ASSUME NextOpen(cont) # Nil
      PROVE  NextOpen(cont) \in OnSpine /\ NextOpen(cont) # Doc
  <2>1. NextOpen(cont) = tree.last[cont] /\ tree.last[cont] \in open
    BY <1>2 DEF NextOpen
  <2>2. tree.last[cont] \in OnSpine
    BY <1>1, <2>1 DEF SpineIInv, Shape, SpineInv
  <2>3. tree.last[cont] # Doc
    <3>1. cont \in Node /\ tree.last[cont] # Nil
      BY <1>1, <2>2, SpineFacts DEF SpineIInv
    <3>2. tree.parent[tree.last[cont]] = cont /\ LinksAgree
      BY <3>1 DEF SpineIInv, Shape, LinksAgree
    <3>. QED
      BY <3>1, <3>2, NodeFacts DEF SpineIInv, Shape
  <2>. QED
    BY <2>1, <2>2, <2>3
<1>. QED
  BY <1>1, <1>2

LEMMA ReadLineStep == SpineIInv /\ ReadLine => SpineIInv'
<1>1. SUFFICES ASSUME SpineIInv, ReadLine PROVE SpineIInv'
  OBVIOUS
<1>2. Shape' /\ OnSpine' = OnSpine
  BY <1>1, ShapeStays DEF SpineIInv, ReadLine, treeVars
<1>3. tip # Nil /\ Doc \in OnSpine /\ Doc \in 1..used
  BY <1>1, SpineFacts DEF SpineIInv, Pointers, ReadLine, OnSpine, Shape
<1>4. Pointers'
  BY <1>1, <1>2, <1>3 DEF SpineIInv, Pointers, ReadLine, treeVars, startVars
<1>. QED
  BY <1>2, <1>4 DEF SpineIInv

LEMMA WalkStep == SpineIInv /\ Walk => SpineIInv'
<1>1. SUFFICES ASSUME SpineIInv, Walk PROVE SpineIInv'
  OBVIOUS
<1>. DEFINE child == NextOpen(cont)
            at    == NextNonspace(line, cur)
<1>2. /\ Shape /\ pc = "walk" /\ tip # Nil /\ oldtip = tip /\ cont \in OnSpine
      /\ child # Nil => child \in OnSpine /\ child # Doc
      /\ OnSpine \subseteq 1..used /\ Doc \in open
  <2>1. pc = "walk"
    BY <1>1 DEF Walk, ContinueMatched, ContinueNotMatched, NoMoreOpen, CloseFence
  <2>. QED
    BY <1>1, <2>1, WalkFacts DEF SpineIInv, Pointers, Shape, OnSpine
<1>3. CASE ContinueMatched
  <2>1. Shape' /\ OnSpine' = OnSpine
    BY <1>2, <1>3, ShapeStays DEF ContinueMatched, treeVars
  <2>2. Pointers'
    BY <1>1, <1>2, <1>3, <2>1
    DEF SpineIInv, Pointers, ContinueMatched, treeVars, spineVars, startVars
  <2>. QED
    BY <2>1, <2>2 DEF SpineIInv
<1>4. CASE ContinueNotMatched \/ NoMoreOpen
  <2>1. WalkEnds(cont)
    BY <1>4 DEF ContinueNotMatched, NoMoreOpen
  <2>2. Shape' /\ OnSpine' = OnSpine
    BY <1>2, <2>1, ShapeStays DEF WalkEnds, treeVars
  <2>3. Pointers'
    BY <1>1, <1>2, <2>1, <2>2 DEF SpineIInv, Pointers, WalkEnds, treeVars
  <2>. QED
    BY <2>2, <2>3 DEF SpineIInv
<1>5. CASE CloseFence
  <2>1. child \in OnSpine /\ type[child] = "code" /\ Finalize(child, lineNo, lineNo)
    BY <1>2, <1>5 DEF CloseFence, ClosesCode, Fenced
  <2>2. child = tip /\ tip # Doc
    BY <1>2, <2>1, LeafIsTip DEF Containers
  <2>3. /\ open' = open \ {tip} /\ tip' = tree.parent[tip] /\ tree' = tree
        /\ UNCHANGED <<type, used>>
    BY <2>1, <2>2 DEF Finalize, FinalizeWith, Vanishes
  <2>4. Shape' /\ tip' # Nil
    BY <1>2, <2>2, <2>3, FinalizeTip
  <2>5. Pointers'
    BY <1>1, <1>2, <1>5, <2>1, <2>2, <2>3, <2>4
    DEF SpineIInv, Pointers, CloseFence, startVars
  <2>. QED
    BY <2>4, <2>5 DEF SpineIInv
<1>. QED
  BY <1>1, <1>3, <1>4, <1>5 DEF Walk

\* A block start leaves the tree as it is, and asks for a setext heading or a
\* table only under a paragraph.
LEMMA StartStep == SpineIInv /\ Start => SpineIInv'
<1>1. SUFFICES ASSUME SpineIInv, Start PROVE SpineIInv'
  OBVIOUS
<1>2. /\ pc = "starts" /\ treeStays
      /\ UNCHANGED <<oldtip, lmc, allClosed, cont>>
      /\ \/ /\ pc' = "close"
            /\ goal' \in {"add", "setext", "table"} /\ after' \in {"starts", "text"}
            /\ goal' \in {"setext", "table"} => type[cont] = "para"
         \/ pc' = "text" /\ UNCHANGED <<goal, after>>
  <2>1. CASE StartQuote \/ StartHeading \/ StartFence \/ StartHtml
    BY <2>1 DEF StartQuote, StartHeading, StartFence, StartHtml, Begin, treeStays,
                treeVars, spineVars
  <2>2. CASE StartBreak \/ StartItem \/ StartIndentedCode
    BY <2>2 DEF StartBreak, StartItem, StartIndentedCode, Begin, treeStays,
                treeVars, spineVars
  <2>3. CASE StartSetext \/ StartTable
    <3>1. type[cont] = "para"
      BY <2>3 DEF StartSetext, StartTable, Begin, Takes, Takers, IsSetext, IsTable
    <3>. QED
      BY <2>3, <3>1 DEF StartSetext, StartTable, Begin, treeStays, treeVars, spineVars
  <2>4. CASE NoStart
    BY <2>4 DEF NoStart, treeStays, treeVars, spineVars, startVars
  <2>. QED
    BY <1>1, <2>1, <2>2, <2>3, <2>4 DEF Start
<1>3. Shape' /\ OnSpine' = OnSpine
  BY <1>1, <1>2, ShapeStays DEF SpineIInv, treeStays
<1>4. Pointers'
  BY <1>1, <1>2, <1>3 DEF SpineIInv, Pointers, treeStays
<1>. QED
  BY <1>3, <1>4 DEF SpineIInv

LEMMA OpenStep == SpineIInv /\ Open => SpineIInv'
<1>1. SUFFICES ASSUME SpineIInv, Open PROVE SpineIInv'
  OBVIOUS
<1>2. Shape /\ cont \in 1..used /\ OnSpine \subseteq 1..used /\ tip # Nil /\ Doc \in open
  BY <1>1 DEF SpineIInv, Pointers, Shape, OnSpine, Open, CloseOne, AllClosed, MakeRoom, AddChild
<1>3. CASE CloseOne
  <2>1. /\ oldtip = tip /\ cont = lmc /\ cont \in OnSpine /\ cont # tip
        /\ pc = "close" /\ ~allClosed
    BY <1>1, <1>3 DEF SpineIInv, Pointers, CloseOne
  <2>2. tip # Doc
    <3>1. cont <= tip /\ cont \in Int /\ 1 <= cont
      BY <1>2, <2>1, SpineFacts DEF Shape, SpineRises
    <3>. QED
      BY <2>1, <3>1 DEF Doc
  <2>3. /\ open' = open \ {tip} /\ tip' = tree.parent[tip] /\ UNCHANGED <<type, used>>
        /\ tree' = tree \/ (type[tip] = "para" /\ tree' = Unlink(tree, tip))
    BY <1>3, <2>1 DEF CloseOne, Finalize, FinalizeWith, Vanishes
  <2>4. Shape' /\ OnSpine' = OnSpine \ {tip} /\ tip' # Nil
    BY <1>2, <2>2, <2>3, FinalizeTip
  <2>5. oldtip' = tip'
    BY <1>3, <2>1, <2>3 DEF CloseOne, Above
  <2>6. Pointers'
    BY <1>1, <1>2, <1>3, <2>1, <2>2, <2>3, <2>4, <2>5
    DEF SpineIInv, Pointers, CloseOne, startVars
  <2>. QED
    BY <2>4, <2>6 DEF SpineIInv
<1>4. CASE AllClosed
  <2>1. Shape' /\ OnSpine' = OnSpine
    BY <1>2, <1>4, ShapeStays DEF AllClosed, treeVars
  <2>2. Pointers'
    BY <1>1, <1>2, <1>4, <2>1 DEF SpineIInv, Pointers, AllClosed, treeVars, startVars
  <2>. QED
    BY <2>1, <2>2 DEF SpineIInv
<1>5. CASE MakeRoom
  <2>1. /\ open' = open \ {tip} /\ tip' = tree.parent[tip] /\ UNCHANGED <<type, used>>
        /\ tree' = tree \/ (type[tip] = "para" /\ tree' = Unlink(tree, tip))
    BY <1>5 DEF MakeRoom, Finalize, FinalizeWith, Vanishes
  <2>2. Shape' /\ tip' # Nil
    BY <1>2, <1>5, <2>1, FinalizeTip DEF MakeRoom
  <2>3. Pointers'
    BY <1>1, <1>2, <1>5, <2>1, <2>2 DEF SpineIInv, Pointers, MakeRoom, spineVars, startVars
  <2>. QED
    BY <2>2, <2>3 DEF SpineIInv
<1>6. CASE AddChild
  <2>. DEFINE new == used + 1
  <2>1. type[tip] \in Containers \cup {"doc"}
    BY <1>2, <1>6 DEF AddChild, CanContain, Containers, Shape
  <2>2. /\ used < MaxNodes /\ used' = new /\ tip' = new /\ open' = open \cup {new}
        /\ tree' = AppendChild(tree, tip, new)
        /\ DOMAIN type' = Node /\ \A n \in 1..used : type'[n] = type[n]
    <3>1. used \in Nat /\ used < MaxNodes /\ 1..used \subseteq Node
      BY <1>2, <1>6, NodeFacts DEF AddChild, Shape, Node
    <3>2. \A n \in 1..used : n # new
      BY <3>1
    <3>. QED
      BY <1>2, <1>6, <3>1, <3>2 DEF AddChild, Shape
  <2>3. Shape' /\ OnSpine' = OnSpine \cup {new}
    BY <1>2, <2>1, <2>2, AppendTip
  <2>4. cont' \in 1..used' /\ tip' # Nil /\ used' \in Int
    BY <1>2, <1>6, <2>2, NodeFacts DEF AddChild, Shape
  <2>5. /\ pc = "add" /\ allClosed' /\ Doc \in open'
        /\ UNCHANGED <<goal, after>>
        /\ goal \in {"add", "setext", "table", "body"} /\ after \in {"starts", "text", "line"}
        /\ after = "line" => type[cont] # "html"
    BY <1>1, <1>2, <1>6, <2>2 DEF AddChild, SpineIInv, Pointers, spineVars
  <2>6. CASE pc' = "add"
    <3>1. after = "line" => cont' = cont
      BY <1>6 DEF AddChild
    <3>. QED
      BY <1>2, <2>2, <2>3, <2>4, <2>5, <2>6, <3>1 DEF SpineIInv, Pointers
  <2>7. CASE pc' = after
    <3>1. after = "line" => cont' = cont
      BY <1>6 DEF AddChild
    <3>2. after # "line" => cont' = new
      BY <1>6, <2>5, <2>7 DEF AddChild
    <3>. QED
      BY <1>2, <2>2, <2>3, <2>4, <2>5, <2>7, <3>1, <3>2 DEF SpineIInv, Pointers
  <2>. QED
    BY <1>6, <2>6, <2>7 DEF AddChild
<1>. QED
  BY <1>1, <1>3, <1>4, <1>5, <1>6 DEF Open

LEMMA ConvertStep == SpineIInv /\ Convert => SpineIInv'
<1>1. SUFFICES ASSUME SpineIInv, Convert PROVE SpineIInv'
  OBVIOUS
<1>2. /\ pc \in {"setext", "table"} /\ Shape /\ allClosed /\ type[cont] = "para"
      /\ cont \in OnSpine /\ cont \in 1..used /\ tip # Nil /\ Doc \in open
  <2>1. pc \in {"setext", "table"}
    BY <1>1 DEF Convert, SetextFalls, SetextHeading, SplitParagraph, ReplaceParagraph, OpenTable
  <2>. QED
    BY <1>1, <2>1 DEF SpineIInv, Pointers
<1>3. cont = tip /\ tip # Doc
  BY <1>2, LeafIsTip DEF Containers
<1>4. CASE SetextFalls
  <2>1. Shape' /\ OnSpine' = OnSpine
    BY <1>2, <1>4, ShapeStays DEF SetextFalls
  <2>2. Pointers'
    BY <1>1, <1>2, <1>4, <2>1 DEF SpineIInv, Pointers, SetextFalls, spineVars
  <2>. QED
    BY <2>1, <2>2 DEF SpineIInv
<1>5. CASE SetextHeading
  <2>. DEFINE new == used + 1
  <2>1. /\ used < MaxNodes /\ used' = new /\ tip' = new /\ open' = open \cup {new}
        /\ tree' = Unlink(InsertAfter(tree, tip, new), tip)
        /\ DOMAIN type' = Node /\ \A n \in 1..used : type'[n] = type[n]
    <3>1. used \in Nat /\ used < MaxNodes /\ 1..used \subseteq Node
      BY <1>2, <1>5, NodeFacts DEF SetextHeading, Shape, Node
    <3>2. \A n \in 1..used : n # new
      BY <3>1
    <3>. QED
      BY <1>2, <1>3, <1>5, <3>1, <3>2 DEF SetextHeading, Shape
  <2>2. Shape' /\ OnSpine' = (OnSpine \ {tip}) \cup {new}
    BY <1>2, <1>3, <2>1, ReplaceTip DEF Containers
  <2>3. /\ cont' = new /\ new \in 1..used' /\ tip' # Nil /\ pc' = "text" /\ allClosed'
        /\ Doc \in open' /\ UNCHANGED <<goal, after>>
    BY <1>2, <1>5, <2>1, NodeFacts DEF SetextHeading, Shape, spineVars, startVars
  <2>4. Pointers'
    BY <1>1, <2>2, <2>3 DEF SpineIInv, Pointers
  <2>. QED
    BY <2>2, <2>4 DEF SpineIInv
<1>6. CASE SplitParagraph
  <2>1. /\ open' = open \ {tip} /\ tip' = tree.parent[tip] /\ UNCHANGED <<type, used>>
        /\ tree' = tree \/ (type[tip] = "para" /\ tree' = Unlink(tree, tip))
    BY <1>3, <1>6 DEF SplitParagraph, FinalizeWith, Vanishes
  <2>2. Shape' /\ tip' # Nil
    BY <1>2, <1>3, <2>1, FinalizeTip
  <2>3. Pointers'
    BY <1>1, <1>2, <1>3, <1>6, <2>1, <2>2
    DEF SpineIInv, Pointers, SplitParagraph, OpenTable, spineVars
  <2>. QED
    BY <2>2, <2>3 DEF SpineIInv
<1>7. CASE ReplaceParagraph
  <2>1. /\ open' = open /\ tip' = tree.parent[tip] /\ UNCHANGED <<type, used>>
        /\ tree' = Unlink(tree, tip)
    BY <1>3, <1>7 DEF ReplaceParagraph
  <2>2. Shape' /\ tip' # Nil
    BY <1>2, <1>3, <2>1, DropTip, TipBelow, NodeFacts
  <2>3. Pointers'
    BY <1>1, <1>2, <1>3, <1>7, <2>1, <2>2
    DEF SpineIInv, Pointers, ReplaceParagraph, OpenTable, spineVars
  <2>. QED
    BY <2>2, <2>3 DEF SpineIInv
<1>. QED
  BY <1>1, <1>4, <1>5, <1>6, <1>7 DEF Convert

LEMMA TextStep == SpineIInv /\ Text => SpineIInv'
<1>1. SUFFICES ASSUME SpineIInv, Text PROVE SpineIInv'
  OBVIOUS
<1>2. /\ pc \in {"text", "body", "line"} /\ Shape /\ cont \in 1..used /\ tip # Nil
      /\ Doc \in open
  <2>1. pc \in {"text", "body", "line"}
    BY <1>1 DEF Text, LazyLine, CloseForText, GiveToBlock, OpenParagraph, NoText, TakeLine,
                TakeLastHtmlLine
  <2>. QED
    BY <1>1, <2>1 DEF SpineIInv, Pointers
<1>3. ASSUME treeStays PROVE Shape' /\ OnSpine' = OnSpine
  BY <1>2, <1>3, ShapeStays DEF treeStays
<1>4. CASE LazyLine \/ TakeLine \/ NoText
  <2>1. /\ treeStays /\ pc' = "read" /\ UNCHANGED <<cont, goal, after, allClosed>>
    BY <1>4 DEF LazyLine, TakeLine, NoText, MarkBlank, treeStays, spineVars, startVars
  <2>2. Shape' /\ Pointers'
    BY <1>1, <1>2, <1>3, <2>1 DEF SpineIInv, Pointers, treeStays
  <2>. QED
    BY <2>2 DEF SpineIInv
<1>5. CASE CloseForText
  <2>1. treeStays
    BY <1>5 DEF CloseForText, treeStays, treeVars
  <2>2. Pointers'
    BY <1>1, <1>2, <1>3, <1>5, <2>1
    DEF SpineIInv, Pointers, CloseForText, treeStays, treeVars, spineVars
  <2>. QED
    BY <1>3, <2>1, <2>2 DEF SpineIInv
<1>6. CASE GiveToBlock
  <2>1. /\ treeStays /\ pc = "body" /\ pc' = "line"
        /\ UNCHANGED <<cont, goal, after, allClosed>>
    BY <1>6 DEF GiveToBlock, MarkBlank, treeStays, spineVars
  <2>2. Pointers'
    BY <1>1, <1>2, <1>3, <2>1 DEF SpineIInv, Pointers, treeStays
  <2>. QED
    BY <1>3, <2>1, <2>2 DEF SpineIInv
<1>7. CASE OpenParagraph
  <2>1. /\ treeStays /\ pc = "body" /\ pc' = "add" /\ type[cont] # "html"
        /\ goal' = "add" /\ after' = "line" /\ UNCHANGED <<cont, allClosed>>
    BY <1>7 DEF OpenParagraph, AcceptsLines, MarkBlank, treeStays, spineVars
  <2>2. Pointers'
    BY <1>1, <1>2, <1>3, <2>1 DEF SpineIInv, Pointers, treeStays
  <2>. QED
    BY <1>3, <2>1, <2>2 DEF SpineIInv
<1>8. CASE TakeLastHtmlLine
  <2>1. cont \in OnSpine /\ type[cont] = "html"
    BY <1>1, <1>8 DEF TakeLastHtmlLine, EndsHtml, SpineIInv, Pointers
  <2>2. cont = tip /\ tip # Doc
    BY <1>2, <2>1, LeafIsTip DEF Containers
  <2>3. /\ open' = open \ {tip} /\ tip' = tree.parent[tip] /\ tree' = tree
        /\ UNCHANGED <<type, used>>
    BY <1>8, <2>1, <2>2 DEF TakeLastHtmlLine, FinalizeWith, Vanishes
  <2>4. Shape' /\ tip' # Nil
    BY <1>2, <2>2, <2>3, FinalizeTip
  <2>5. Pointers'
    BY <1>1, <1>2, <1>8, <2>2, <2>3, <2>4 DEF SpineIInv, Pointers, TakeLastHtmlLine, startVars
  <2>. QED
    BY <2>4, <2>5 DEF SpineIInv
<1>. QED
  BY <1>1, <1>4, <1>5, <1>6, <1>7, <1>8 DEF Text

LEMMA FinishStep == SpineIInv /\ Finish => SpineIInv'
<1>1. SUFFICES ASSUME SpineIInv, Finish PROVE SpineIInv'
  OBVIOUS
<1>2. CASE EndOfInput \/ MarkTasks
  <2>1. /\ treeStays /\ pc' \in {"finish", "done"}
        /\ UNCHANGED <<cont, goal, after, allClosed>>
    BY <1>2 DEF EndOfInput, MarkTasks, treeStays, treeVars, spineVars, startVars
  <2>2. Shape'
    BY <1>1, <2>1, ShapeStays DEF treeStays, SpineIInv
  <2>3. Pointers'
    BY <1>1, <2>1 DEF treeStays, SpineIInv, Pointers
  <2>. QED
    BY <2>2, <2>3 DEF SpineIInv
<1>3. CASE FinishOne
  <2>1. /\ tip # Nil /\ Shape
        /\ open' = open \ {tip} /\ tip' = tree.parent[tip] /\ UNCHANGED <<type, used>>
        /\ tree' = tree \/ (type[tip] = "para" /\ tree' = Unlink(tree, tip))
    BY <1>1, <1>3 DEF FinishOne, Finalize, FinalizeWith, Vanishes, SpineIInv
  <2>2. Shape'
    BY <2>1, FinalizeTip
  <2>3. tip' # Nil => Doc \in open'
    BY <1>1, <2>1 DEF SpineIInv, Pointers, Shape
  <2>4. Pointers'
    BY <1>1, <1>3, <2>1, <2>3 DEF FinishOne, SpineIInv, Pointers, startVars
  <2>. QED
    BY <2>2, <2>4 DEF SpineIInv
<1>. QED
  BY <1>1, <1>2, <1>3 DEF Finish

LEMMA SpineStutter == SpineIInv /\ UNCHANGED vars => SpineIInv'
<1>1. SUFFICES ASSUME SpineIInv, UNCHANGED vars PROVE SpineIInv'
  OBVIOUS
<1>2. treeStays /\ UNCHANGED <<oldtip, lmc, allClosed, cont, goal, after, pc>>
  BY <1>1 DEF vars, treeVars, spineVars, startVars, treeStays
<1>3. Shape' /\ OnSpine' = OnSpine
  BY <1>1, <1>2, ShapeStays DEF SpineIInv, treeStays
<1>4. Pointers'
  BY <1>1, <1>2, <1>3 DEF SpineIInv, Pointers, treeStays
<1>. QED
  BY <1>3, <1>4 DEF SpineIInv

\* Whatever lines a document holds, and wherever the parser stands in one, the
\* blocks that are open and in the tree are the chain of last children from the
\* document down to the tip: what the walk of incorporate_line, the loop of
\* close_unmatched_blocks and the loop of finish each rely on.
THEOREM SpineSafe == Spec => []SpineInv
<1>1. Init => SpineIInv
  BY SpineInit
<1>2. SpineIInv /\ [Next]_vars => SpineIInv'
  BY ReadLineStep, WalkStep, StartStep, OpenStep, ConvertStep, TextStep, FinishStep,
     SpineStutter DEF Next, Done
<1>3. SpineIInv => SpineInv
  BY DEF SpineIInv, Shape
<1>. QED
  BY <1>1, <1>2, <1>3, PTL DEF Spec

\* The pointers the parser keeps between its steps stand on that chain: as long
\* as blocks wait to be closed, oldtip is the tip, and the container the line
\* goes to is the last one that matched.
THEOREM PointersSafe == Spec => []Pointers
<1>1. Init => SpineIInv
  BY SpineInit
<1>2. SpineIInv /\ [Next]_vars => SpineIInv'
  BY ReadLineStep, WalkStep, StartStep, OpenStep, ConvertStep, TextStep, FinishStep,
     SpineStutter DEF Next, Done
<1>3. SpineIInv => Pointers
  BY DEF SpineIInv
<1>. QED
  BY <1>1, <1>2, <1>3, PTL DEF Spec
=============================================================================
