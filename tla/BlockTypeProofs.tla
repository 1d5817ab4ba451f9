--------------------------- MODULE BlockTypeProofs ---------------------------
(***************************************************************************)
(* Type correctness of the block phase, and the rows of its tables: every  *)
(* row carries the number of the line its text was read from, and stays    *)
(* short only when the document's budget of empty cells is spent; for      *)
(* every set of lines, nesting limit, padding budget and size of arena.    *)
(***************************************************************************)
EXTENDS BlockTextProofs

(***************************************************************************)
(* Functions defined by recursion down a tree, or along siblings           *)
(***************************************************************************)
\* f answers for n what G makes of the answer for the node after it.
Descends(f, base, nxt, G) == f[Nil] = base /\ \A n \in Node : f[n] = G[<<n, f[nxt[n]]>>]

\* Links that rise in the arena's numbers can be followed to their end.
LEMMA DescentExists ==
  ASSUME NEW V, NEW base \in V, NEW G \in [Node \X V -> V],
         NEW nxt \in [Node -> Link], \A n \in Node : nxt[n] # Nil => n < nxt[n]
  PROVE  \E f \in [Link -> V] : Descends(f, base, nxt, G)
<1>. DEFINE Part(m) == {Nil} \cup m..MaxNodes
            Runs1(f, m) == f[Nil] = base /\ \A n \in m..MaxNodes : f[n] = G[<<n, f[nxt[n]]>>]
            P(m) == \E f \in [Part(m) -> V] : Runs1(f, m)
            Good == {m \in 1..(MaxNodes + 1) : P(m)}
<1>1. MaxNodes \in Nat /\ MaxNodes >= 1
  BY MaxNodesAssumption
<1>2. Good # {}
  <2>. DEFINE f == [n \in Part(MaxNodes + 1) |-> base]
  <2>1. f \in [Part(MaxNodes + 1) -> V] /\ Runs1(f, MaxNodes + 1)
    BY <1>1
  <2>2. P(MaxNodes + 1)
    <3>. HIDE DEF f, Runs1, Part
    <3>. QED
      BY <2>1
  <2>. HIDE DEF P
  <2>. QED
    BY <1>1, <2>2
<1>3. PICK m \in Good : \A k \in Good : m <= k
  <2>1. Good \subseteq Nat
    BY <1>1
  <2>. HIDE DEF Good
  <2>. QED
    BY <1>2, <2>1, LeastNatural
<1>4. m \in 1..(MaxNodes + 1) /\ P(m)
  <2>. HIDE DEF P
  <2>. QED
    BY <1>3
<1>5. m = 1
  <2>1. SUFFICES ASSUME m # 1 PROVE FALSE
    OBVIOUS
  <2>. DEFINE c == m - 1
  <2>2. c \in Node /\ c \in 1..(MaxNodes + 1) /\ c < m /\ m \in Int /\ c \in Int
    BY <1>1, <1>4, <2>1 DEF Node
  <2>3. PICK f \in [Part(m) -> V] : Runs1(f, m)
    BY <1>4
  <2>4. \A n \in c..MaxNodes : /\ n \in Node /\ nxt[n] \in Part(m)
                               /\ n = c \/ n \in m..MaxNodes
    <3>. TAKE n \in c..MaxNodes
    <3>1. n \in Node /\ n \in Int /\ c <= n
      BY <1>1, <2>2 DEF Node
    <3>2. nxt[n] \in Link /\ (nxt[n] # Nil => n < nxt[n])
      BY <3>1
    <3>3. nxt[n] # Nil => nxt[n] \in m..MaxNodes
      BY <1>1, <2>2, <3>1, <3>2 DEF Link, Node
    <3>. QED
      BY <1>1, <2>2, <3>1, <3>3
  <2>5. c \notin Part(m) /\ c # Nil /\ c \in Part(c) /\ Nil \in Part(m) /\ Nil \in Part(c)
        /\ \A n \in Part(c) : n = c \/ n \in Part(m)
    BY <1>1, <2>2 DEF Node, Nil
  <2>. DEFINE g == [n \in Part(c) |-> IF n = c THEN G[<<c, f[nxt[c]]>>] ELSE f[n]]
  <2>6. c \in c..MaxNodes
    BY <1>1, <2>2 DEF Node
  <2>. HIDE DEF Part, c
  <2>7. g \in [Part(c) -> V]
    <3>1. G[<<c, f[nxt[c]]>>] \in V
      BY <2>2, <2>4, <2>6
    <3>. QED
      BY <2>5, <3>1
  <2>8. \A n \in Part(m) : n # c => g[n] = f[n]
    BY <2>2, <2>5 DEF Part, c
  <2>9. g[Nil] = base
    BY <2>3, <2>5, <2>8
  <2>10. \A n \in c..MaxNodes : g[n] = G[<<n, g[nxt[n]]>>]
    <3>. TAKE n \in c..MaxNodes
    <3>1. nxt[n] \in Part(m) /\ nxt[n] # c /\ g[nxt[n]] = f[nxt[n]]
      BY <2>4, <2>5, <2>8
    <3>2. CASE n = c
      BY <2>5, <3>1, <3>2
    <3>3. CASE n # c
      <4>1. n \in m..MaxNodes /\ n \in Part(m)
        BY <2>4, <3>3 DEF Part
      <4>. QED
        BY <2>3, <2>8, <3>1, <3>3, <4>1
    <3>. QED
      BY <3>2, <3>3
  <2>11. P(c)
    <3>. HIDE DEF g
    <3>. QED
      BY <2>7, <2>9, <2>10
  <2>. HIDE DEF P
  <2>12. c \in Good
    BY <2>2, <2>11
  <2>. HIDE DEF Good
  <2>. QED
    BY <1>3, <2>2, <2>12
<1>6. Part(1) = Link /\ 1..MaxNodes = Node
  BY DEF Link, Node
<1>. HIDE DEF Part
<1>. QED
  BY <1>4, <1>5, <1>6 DEF Descends

(***************************************************************************)
(* Looseness                                                               *)
(***************************************************************************)
\* Down last children the arena numbers rise, and stay those of pushed nodes.
LastRises ==
  /\ used \in Node
  /\ \A n \in Node : tree.last[n] # Nil => n < tree.last[n]
  /\ \A n \in Node : tree.last[n] \in {Nil} \cup 1..used

LEMMA ShapeLastRises ==
  ASSUME Shape
  PROVE  LastRises
<1>1. tree \in Tree /\ used \in Node /\ LinksAgree
  BY DEF Shape
<1>2. ASSUME NEW n \in Node, tree.last[n] # Nil
      PROVE  n < tree.last[n] /\ tree.last[n] \in 1..used
  <2>1. tree.last[n] \in Node /\ tree.parent[tree.last[n]] = n /\ n # Nil
    BY <1>1, <1>2, NodeFacts DEF LinksAgree, Tree, Link
  <2>4. tree.last[n] \in Int /\ 1 <= tree.last[n] /\ used \in Int
    BY <1>1, <2>1, NodeFacts
  <2>2. tree.last[n] <= used
    BY <1>1, <2>1, NodeFacts DEF LinksAgree
  <2>3. n < tree.last[n]
    BY <1>1, <2>1 DEF LinksAgree
  <2>. QED
    BY <2>2, <2>3, <2>4
<1>. QED
  BY <1>1, <1>2 DEF LastRises

\* Only nodes of the arena are marked as checked.
LEMMA AskedTyped ==
  ASSUME tree \in Tree, LastRises, NEW memo, NEW n \in 1..used
  PROVE  Asked(memo, n) \subseteq 1..used
<1>. DEFINE last     == tree.last
            Pure(m, below) == IF m \in blankEnd THEN {}
                              ELSE {m} \cup (IF Asks(memo, m) THEN below ELSE {})
            V        == SUBSET Node
            G        == [p \in Node \X V |-> Pure(p[1], p[2])]
            Def(f)   == f = [m \in Link |-> IF m = Nil \/ m \in blankEnd THEN {}
                               ELSE {m} \cup (IF Asks(memo, m) THEN f[tree.last[m]] ELSE {})]
            seen     == CHOOSE f : Def(f)
<1>1. Asked(memo, n) = seen[n]
  BY Zenon DEF Asked
<1>. HIDE DEF seen
<1>2. \A m \in Node : \A b \in V : Pure(m, b) \in V
  OBVIOUS
<1>3. G \in [Node \X V -> V] /\ {} \in V /\ \A m \in Node : \A b \in V : G[<<m, b>>] = Pure(m, b)
  BY <1>2
<1>4. last \in [Node -> Link] /\ \A m \in Node : last[m] # Nil => m < last[m]
  BY DEF Tree, LastRises
<1>. HIDE DEF V, G, last, Pure
<1>5. PICK f \in [Link -> V] : f[Nil] = {} /\ \A m \in Node : f[m] = G[<<m, f[last[m]]>>]
  <2>. DEFINE nought == {}
  <2>1. nought \in V
    BY <1>3
  <2>. HIDE DEF nought
  <2>2. \E f \in [Link -> V] : Descends(f, nought, last, G)
    BY <1>3, <1>4, <2>1, DescentExists
  <2>. QED
    BY <2>2 DEF nought, Descends
<1>6. \A m \in Node : f[m] = Pure(m, f[last[m]])
  <2>. TAKE m \in Node
  <2>1. last[m] \in Link /\ f[last[m]] \in V
    BY <1>4
  <2>. QED
    BY <1>3, <1>5, <2>1
<1>7. Def(f)
  <2>1. \A m \in Link : f[m] = IF m = Nil \/ m \in blankEnd THEN {}
                               ELSE {m} \cup (IF Asks(memo, m) THEN f[tree.last[m]] ELSE {})
    BY <1>5, <1>6 DEF Link, Pure, last
  <2>2. f = [m \in Link |-> f[m]]
    OBVIOUS
  <2>. QED
    BY <2>1, <2>2, Zenon
<1>8. Def(seen)
  <2>. HIDE DEF Def
  <2>. QED
    BY <1>7 DEF seen
<1>9. \A m \in Link : seen[m] = IF m = Nil \/ m \in blankEnd THEN {}
                                ELSE {m} \cup (IF Asks(memo, m) THEN seen[tree.last[m]] ELSE {})
  <2>. QED
    BY <1>8, Zenon
<1>. DEFINE Bad == {m \in 1..used : ~(seen[m] \subseteq 1..used)}
<1>10. 1..used \subseteq Node /\ used \in Nat
  BY NodeFacts DEF LastRises, Node
<1>11. SUFFICES ASSUME Bad # {} PROVE FALSE
  BY <1>1
<1>12. PICK m \in Bad : \A k \in Bad : k <= m
  <2>1. Bad \subseteq Nat /\ \A k \in Bad : k <= used
    BY <1>10
  <2>. HIDE DEF Bad
  <2>. QED
    BY <1>10, <1>11, <2>1, GreatestBelow
<1>13. /\ m \in 1..used /\ m \in Node /\ ~(seen[m] \subseteq 1..used)
       /\ tree.last[m] \in {Nil} \cup 1..used /\ (tree.last[m] # Nil => m < tree.last[m])
  BY <1>10, <1>12 DEF LastRises
<1>14. seen[tree.last[m]] \subseteq 1..used
  <2>1. CASE tree.last[m] = Nil
    BY <1>9, <2>1 DEF Link
  <2>2. CASE tree.last[m] # Nil
    <3>1. tree.last[m] \in 1..used /\ ~(tree.last[m] <= m)
      BY <1>10, <1>13, <2>2
    <3>2. tree.last[m] \notin Bad
      <4>. HIDE DEF Bad
      <4>. QED
        BY <1>12, <3>1
    <3>. QED
      BY <3>1, <3>2
  <2>. QED
    BY <2>1, <2>2
<1>15. seen[m] = IF m = Nil \/ m \in blankEnd THEN {}
                 ELSE {m} \cup (IF Asks(memo, m) THEN seen[tree.last[m]] ELSE {})
  BY <1>9, <1>13 DEF Link
<1>16. seen[m] \subseteq {m} \cup seen[tree.last[m]]
  BY <1>15
<1>. QED
  BY <1>13, <1>14, <1>16

LEMMA KidsTyped ==
  ASSUME Shape, Numbered, NEW p \in Node
  PROVE  Children(tree, p) \in Seq(1..used)
<1>1. tree \in Tree /\ used \in Node /\ LinksAgree
  BY DEF Shape
<1>2. Children(tree, p) = <<>> \/ Chain(tree, p, tree.first[p], Children(tree, p))
  <2>1. \A n \in Node : tree.next[n] # Nil => n < tree.next[n]
    BY DEF Numbered
  <2>2. tree.first[p] # Nil => tree.parent[tree.first[p]] = p
    BY DEF Numbered
  <2>3. \A n \in Node : tree.next[n] # Nil => tree.parent[tree.next[n]] = tree.parent[n]
    BY <1>1 DEF LinksAgree
  <2>. QED
    BY <1>1, <2>1, <2>2, <2>3, ChildrenChained DEF Rises
<1>. DEFINE s == Children(tree, p)
<1>. HIDE DEF s
<1>3. CASE s = <<>>
  BY <1>3 DEF s
<1>4. CASE Chain(tree, p, tree.first[p], s)
  <2>1. s \in Seq(Node) /\ \A i \in 1..Len(s) : s[i] \in Node /\ tree.parent[s[i]] = p
    BY <1>4 DEF Chain
  <2>2. \A n \in Node : tree.parent[n] = p => n \in 1..used
    <3>. TAKE n \in Node
    <3>1. n \in Int /\ 1 <= n /\ used \in Int /\ p # Nil
      BY <1>1, NodeFacts
    <3>2. n > used => tree.parent[n] = Nil
      BY <1>1 DEF LinksAgree
    <3>. QED
      BY <3>1, <3>2
  <2>3. \A i \in 1..Len(s) : s[i] \in 1..used
    BY <2>1, <2>2
  <2>. DEFINE U == 1..used
              L == Len(s)
  <2>4. L \in Nat /\ s = [i \in 1..L |-> s[i]] /\ \A i \in 1..L : s[i] \in U
    BY <2>1, <2>3
  <2>. HIDE DEF U, L
  <2>5. s \in Seq(U)
    BY <2>4
  <2>. QED
    BY <2>5 DEF s, U
<1>. QED
  BY <1>2, <1>3, <1>4 DEF s

ProbeOf == [node : 1..used, more : BOOLEAN]

LEMMA ProbesTyped ==
  ASSUME Shape, Numbered, NEW list \in Node
  PROVE  Probes(list) \in Seq(ProbeOf)
<1>. DEFINE items   == Children(tree, list)
            more(i) == i < Len(items)
            subs(i) == Children(tree, items[i])
            head(i) == [node |-> items[i], more |-> more(i)]
            rest(i) == [j \in 1..Len(subs(i)) |->
                          [node |-> subs(i)[j], more |-> more(i) \/ j < Len(subs(i))]]
            of(i)   == <<head(i)>> \o rest(i)
            all     == [i \in 1..Len(items) |-> of(i)]
<1>1. Probes(list) = FlattenSeq(all)
  BY Zenon DEF Probes
<1>2. items \in Seq(1..used) /\ 1..used \subseteq Node
  BY KidsTyped, NodeFacts DEF Shape
<1>. HIDE DEF items
<1>3. \A i \in 1..Len(items) : items[i] \in 1..used /\ items[i] \in Node
  BY <1>2, ElementOfSeq
<1>4. \A i \in 1..Len(items) : subs(i) \in Seq(1..used)
  BY <1>3, KidsTyped
<1>5. ASSUME NEW i \in 1..Len(items) PROVE of(i) \in Seq(ProbeOf)
  <2>. DEFINE t == subs(i)
  <2>1. t \in Seq(1..used)
    BY <1>4
  <2>. HIDE DEF t
  <2>2. rest(i) = [j \in 1..Len(t) |-> [node |-> t[j], more |-> more(i) \/ j < Len(t)]]
    BY DEF t
  <2>3. \A j \in 1..Len(t) : [node |-> t[j], more |-> more(i) \/ j < Len(t)] \in ProbeOf
    <3>1. \A j \in 1..Len(t) : t[j] \in 1..used
      BY <2>1, ElementOfSeq
    <3>. QED
      BY <3>1 DEF ProbeOf
  <2>4. head(i) \in ProbeOf
    BY <1>3 DEF ProbeOf
  <2>5. Len(t) \in Nat
    BY <2>1
  <2>. HIDE DEF rest, head
  <2>6. rest(i) \in Seq(ProbeOf)
    BY <2>2, <2>3, <2>5
  <2>. QED
    BY <2>4, <2>6
<1>6. all \in Seq(Seq(ProbeOf))
  <2>1. Len(items) \in Nat
    BY <1>2
  <2>. HIDE DEF of
  <2>. QED
    BY <1>5, <2>1
<1>. HIDE DEF all
<1>. QED
  BY <1>1, <1>6, FlattenTyped

LEMMA LoosenessTyped ==
  ASSUME Shape, Numbered, NEW list \in Node, checked \subseteq 1..used
  PROVE  Looseness(list).memo \subseteq 1..used
<1>. DEFINE probes == Probes(list)
            len    == Len(probes)
            V      == [loose : BOOLEAN, memo : SUBSET (1..used)]
            start  == [loose |-> FALSE, memo |-> checked]
            S      == [p \in Nat \X V |-> IF p[1] \in 1..len THEN Probe(p[2], probes[p[1]]) ELSE p[2]]
            Def(f) == f = [i \in 0..Len(probes) |->
                             IF i = 0 THEN [loose |-> FALSE, memo |-> checked]
                             ELSE Probe(f[i-1], probes[i])]
            upTo   == CHOOSE f : Def(f)
<1>1. Looseness(list) = upTo[Len(probes)]
  BY Zenon DEF Looseness
<1>2. probes \in Seq(ProbeOf) /\ len \in Nat
  BY ProbesTyped
<1>. HIDE DEF upTo, probes
<1>3. \A i \in 1..len : probes[i].node \in 1..used /\ probes[i].more \in BOOLEAN
  <2>1. \A i \in 1..len : probes[i] \in ProbeOf
    BY <1>2, ElementOfSeq
  <2>. QED
    BY <2>1 DEF ProbeOf
<1>4. tree \in Tree /\ LastRises
  BY ShapeLastRises DEF Shape
<1>5. ASSUME NEW i \in 1..len, NEW v \in V
      PROVE  Probe(v, probes[i]) \in V
  <2>. DEFINE r == Asked(v.memo, probes[i].node)
              w == [loose |-> probes[i].more /\ EndsWithBlankLine(v.memo, probes[i].node),
                    memo  |-> v.memo \cup r]
  <2>1. r \subseteq 1..used
    BY <1>3, <1>4, AskedTyped
  <2>. HIDE DEF r
  <2>2. w \in V
    BY <2>1
  <2>3. Probe(v, probes[i]) = IF v.loose THEN v ELSE w
    BY DEF Probe, r
  <2>. HIDE DEF w, V
  <2>. QED
    BY <2>2, <2>3
<1>6. start \in V
  OBVIOUS
<1>. HIDE DEF V
<1>7. S \in [Nat \X V -> V] /\ \A i \in 1..len : \A v \in V : S[<<i, v>>] = Probe(v, probes[i])
  <2>1. \A i \in 1..len : i \in Nat
    BY <1>2
  <2>. HIDE DEF len
  <2>. QED
    BY <1>5, <2>1
<1>. HIDE DEF S, start, len
<1>8. PICK f \in [0..len -> V] : Follows(f, 0, len, start, S)
  <2>1. 0 \in Nat /\ 0 <= len
    BY <1>2
  <2>. QED
    BY <1>2, <1>6, <1>7, <2>1, RecursionExists
<1>9. \A i \in 0..len : f[i] = IF i = 0 THEN start ELSE S[<<i, f[i-1]>>]
  BY <1>8, Zenon DEF Follows
<1>10. \A i \in 0..len : f[i] = IF i = 0 THEN start ELSE Probe(f[i-1], probes[i])
  <2>. TAKE i \in 0..len
  <2>1. i # 0 => i \in 1..len /\ i - 1 \in 0..len
    BY <1>2
  <2>. QED
    BY <1>7, <1>9, <2>1
<1>11. Def(f)
  <2>1. f = [i \in 0..len |-> f[i]]
    OBVIOUS
  <2>. QED
    BY <1>10, <2>1, Zenon DEF len, start
<1>12. Def(upTo)
  <2>. HIDE DEF Def
  <2>. QED
    BY <1>11 DEF upTo
<1>13. \A i \in 0..len : upTo[i] = IF i = 0 THEN start ELSE Probe(upTo[i-1], probes[i])
  BY <1>12, Zenon DEF len, start
<1>. DEFINE Bad == {i \in 0..len : upTo[i] \notin V}
<1>14. Bad = {}
  <2>1. SUFFICES ASSUME Bad # {} PROVE FALSE
    OBVIOUS
  <2>2. PICK m \in Bad : \A k \in Bad : m <= k
    <3>1. Bad \subseteq Nat
      BY <1>2
    <3>. HIDE DEF Bad
    <3>. QED
      BY <2>1, <3>1, LeastNatural
  <2>3. m \in 0..len /\ upTo[m] \notin V /\ m # 0
    BY <1>2, <1>6, <1>13, <2>2
  <2>4. m \in 1..len /\ m - 1 \in 0..len /\ m - 1 \notin Bad
    <3>1. m \in 1..len /\ m - 1 \in 0..len /\ ~(m <= m - 1)
      BY <1>2, <2>3
    <3>. HIDE DEF Bad
    <3>. QED
      BY <2>2, <3>1
  <2>5. upTo[m] = Probe(upTo[m-1], probes[m]) /\ upTo[m-1] \in V
    BY <1>13, <2>3, <2>4
  <2>. QED
    BY <1>5, <2>3, <2>4, <2>5
<1>15. upTo[len] \in V
  <2>1. len \in 0..len
    BY <1>2
  <2>. QED
    BY <1>14, <2>1
<1>. QED
  BY <1>1, <1>15 DEF V, len

(***************************************************************************)
(* The rows of a table                                                     *)
(***************************************************************************)
Row == [at : Nat, src : Nat, cells : Nat]
Rows == [rows : Seq(Row), padded : 0..MaxPadding]

LEMMA CellsTyped ==
  ASSUME NEW toks \in Seq(Tokens)
  PROVE  Cells(toks) \in Nat
<1>. DEFINE S == {i \in 1..Len(toks) : toks[i] \in {"a|b", "|-|-|"}}
<1>1. Len(toks) \in Nat
  OBVIOUS
<1>2. IsFiniteSet(S)
  <2>1. IsFiniteSet(1..Len(toks))
    BY <1>1, FS_Interval
  <2>2. S \subseteq 1..Len(toks)
    OBVIOUS
  <2>. QED
    BY <2>1, <2>2, FS_Subset
<1>3. Cardinality(S) \in Nat
  BY <1>2, FS_CardinalityType
<1>. HIDE DEF S
<1>. QED
  BY <1>3 DEF Cells, S

\* w is acc with one more row, dated `at` and read from line `src`; if the row
\* stays short, the budget is spent.
OneMore(acc, w, cols, at, src) ==
  LET l == Len(acc.rows)
  IN  /\ w \in Rows /\ acc.padded <= w.padded
      /\ Len(w.rows) = l + 1 /\ \A i \in 1..l : w.rows[i] = acc.rows[i]
      /\ w.rows[l + 1].at = at /\ w.rows[l + 1].src = src
      /\ w.rows[l + 1].cells < cols => w.padded = MaxPadding

LEMMA WithRowFacts ==
  ASSUME NEW acc \in Rows, NEW cols \in Nat, NEW toks \in Seq(Tokens),
         NEW at \in Nat, NEW src \in Nat
  PROVE  OneMore(acc, WithRow(acc, cols, toks, at, src), cols, at, src)
<1>. DEFINE cells == Cells(toks)
            short == cells < cols
            left  == MaxPadding - acc.padded
            fill  == IF short THEN Min({cols - cells, left}) ELSE 0
            r     == [at |-> at, src |-> src, cells |-> IF short THEN cells + fill ELSE cols]
            w     == WithRow(acc, cols, toks, at, src)
<1>1. cells \in Nat
  BY CellsTyped
<1>. HIDE DEF cells
<1>2. acc.rows \in Seq(Row) /\ acc.padded \in 0..MaxPadding /\ MaxPadding \in Nat
  BY BlockPhaseAssumption DEF Rows
<1>3. /\ fill \in 0..left /\ (short => fill <= cols - cells /\ (fill < cols - cells => fill = left))
  <2>1. CASE short
    <3>. DEFINE two == {cols - cells, left}
    <3>1. two \subseteq Nat /\ two # {}
      BY <1>1, <1>2, <2>1
    <3>2. Min(two) \in two /\ \A k \in two : Min(two) <= k
      <4>. HIDE DEF two
      <4>. QED
        BY <3>1, MinOf
    <3>. QED
      BY <1>1, <1>2, <2>1, <3>2
  <2>2. CASE ~short
    BY <1>2, <2>2
  <2>. QED
    BY <2>1, <2>2
<1>4. w = [rows |-> Append(acc.rows, r), padded |-> acc.padded + fill]
  BY Zenon DEF WithRow, cells
<1>. HIDE DEF fill, left
<1>5. /\ acc.padded + fill \in 0..MaxPadding /\ acc.padded <= acc.padded + fill
      /\ (short /\ cells + fill < cols => acc.padded + fill = MaxPadding)
      /\ (IF short THEN cells + fill ELSE cols) \in Nat
  BY <1>1, <1>2, <1>3 DEF left
<1>6. r \in Row /\ r.at = at /\ r.src = src /\ (r.cells < cols => acc.padded + fill = MaxPadding)
  BY <1>5 DEF Row
<1>. HIDE DEF r, w
<1>7. Append(acc.rows, r) \in Seq(Row)
  BY <1>2, <1>6
<1>8. w.rows = Append(acc.rows, r) /\ w.padded = acc.padded + fill /\ w \in Rows
  BY <1>4, <1>5, <1>7 DEF Rows
<1>9. /\ Len(w.rows) = Len(acc.rows) + 1 /\ w.rows[Len(acc.rows) + 1] = r
      /\ \A i \in 1..Len(acc.rows) : w.rows[i] = acc.rows[i]
  BY <1>2, <1>8
<1>10. OneMore(acc, w, cols, at, src)
  BY <1>5, <1>6, <1>8, <1>9 DEF OneMore
<1>. QED
  BY <1>10 DEF w

\* What the body rows of n come to, when old are the rows it had.
RowsOf(n, old, r, len) ==
  LET c == blk[n].content
      more == IF len < 2 THEN 0 ELSE len - 1
  IN  /\ r \in Rows /\ padded <= r.padded
      /\ Len(r.rows) = Len(old) + more
      /\ \A i \in 1..Len(old) : r.rows[i] = old[i]
      /\ \A i \in 2..len : LET row == r.rows[Len(old) + i - 1]
                           IN  row.at = BodyRowLine(blk[n].start, i) /\ row.src = c[i].at
      /\ \A i \in 2..len : r.rows[Len(old) + i - 1].cells < blk[n].cols => r.padded = MaxPadding

LEMMA RowsGrow ==
  ASSUME NEW n, NEW old, Len(old) \in Nat, NEW r, NEW len \in Nat, len >= 2,
         blk[n].content \in Seq(Entry), len <= Len(blk[n].content), blk[n].cols \in Nat,
         blk[n].start \in Nat, padded \in Int, MaxPadding \in Nat,
         RowsOf(n, old, r, len - 1)
  PROVE  LET e == blk[n].content[len]
         IN  RowsOf(n, old, WithRow(r, blk[n].cols, e.toks, BodyRowLine(blk[n].start, len), e.at), len)
<1>. DEFINE c    == blk[n].content
            e    == c[len]
            cols == blk[n].cols
            at   == BodyRowLine(blk[n].start, len)
            w    == WithRow(r, cols, e.toks, at, e.at)
            L    == Len(old)
<1>1. e.toks \in Seq(Tokens) /\ e.at \in Nat /\ at \in Nat
  <2>1. len \in 1..Len(c)
    OBVIOUS
  <2>2. e \in Entry
    BY <2>1, ElementOfSeq
  <2>3. at \in Nat
    BY DEF BodyRowLine
  <2>. HIDE DEF e
  <2>. QED
    BY <2>2, <2>3 DEF Entry
<1>2. r \in Rows /\ L \in Nat /\ len \in Int /\ 1 <= len - 1
  BY DEF RowsOf
<1>. HIDE DEF at, e, cols
<1>3. OneMore(r, w, cols, at, e.at)
  <2>1. cols \in Nat
    BY DEF cols
  <2>. QED
    BY <1>1, <1>2, <2>1, WithRowFacts
<1>. HIDE DEF w
<1>. DEFINE rs == r.rows
            ws == w.rows
<1>4. Len(rs) = L + (len - 2)
  BY <1>2 DEF RowsOf
<1>5. /\ w \in Rows /\ r.padded <= w.padded
      /\ Len(ws) = L + (len - 1)
      /\ ws[L + (len - 1)].at = at /\ ws[L + (len - 1)].src = e.at
      /\ ws[L + (len - 1)].cells < cols => w.padded = MaxPadding
      /\ \A i \in 1..(L + (len - 2)) : ws[i] = rs[i]
  <2>1. L + (len - 2) + 1 = L + (len - 1)
    BY <1>2
  <2>. HIDE DEF rs, ws, L
  <2>. QED
    BY <1>3, <1>4, <2>1 DEF OneMore, rs, ws
<1>6. r.padded \in 0..MaxPadding /\ w.padded \in 0..MaxPadding
  BY <1>2, <1>5 DEF Rows
<1>7. /\ padded <= r.padded /\ \A i \in 1..L : rs[i] = old[i]
      /\ \A i \in 2..(len - 1) : /\ rs[L + i - 1].at = BodyRowLine(blk[n].start, i)
                                 /\ rs[L + i - 1].src = c[i].at
                                 /\ rs[L + i - 1].cells < cols => r.padded = MaxPadding
  BY DEF RowsOf, cols
<1>. HIDE DEF rs, ws, L, c
<1>8. \A i \in 1..L : ws[i] = old[i]
  <2>. TAKE i \in 1..L
  <2>1. i \in 1..(L + (len - 2))
    BY <1>2
  <2>. QED
    BY <1>5, <1>7, <2>1
<1>9. ASSUME NEW i \in 2..len
      PROVE  /\ ws[L + i - 1].at = BodyRowLine(blk[n].start, i)
             /\ ws[L + i - 1].src = c[i].at
             /\ ws[L + i - 1].cells < cols => w.padded = MaxPadding
  <2>1. CASE i = len
    <3>1. L + i - 1 = L + (len - 1)
      BY <1>2, <2>1
    <3>2. ws[L + i - 1] = ws[L + (len - 1)]
      BY <3>1
    <3>. QED
      BY <1>5, <2>1, <3>2 DEF at, e, c
  <2>2. CASE i # len
    <3>1. i \in 2..(len - 1) /\ L + i - 1 \in 1..(L + (len - 2))
      BY <1>2, <2>2
    <3>2. r.padded = MaxPadding => w.padded = MaxPadding
      BY <1>5, <1>6
    <3>. QED
      BY <1>5, <1>7, <3>1, <3>2
  <2>. QED
    BY <2>1, <2>2
<1>10. padded <= w.padded
  BY <1>5, <1>6, <1>7
<1>11. RowsOf(n, old, w, len)
  <2>1. Len(ws) = L + (IF len < 2 THEN 0 ELSE len - 1)
    BY <1>2, <1>5
  <2>. QED
    BY <1>5, <1>8, <1>9, <1>10, <2>1 DEF RowsOf, rs, ws, L, c, cols
<1>. QED
  BY <1>11 DEF w, at, e, c, cols

\* Splitting the lines of a table's content gives one row per line below the
\* first, each dated by its place and read from the line it says.
LEMMA BodyRowsFacts ==
  ASSUME NEW n, blk[n].rows \in Seq(Row), padded \in 0..MaxPadding,
         blk[n].content \in Seq(Entry), blk[n].cols \in Nat, blk[n].start \in Nat
  PROVE  RowsOf(n, blk[n].rows, BodyRows(n), Len(blk[n].content))
<1>. DEFINE text   == blk[n].content
            len    == Len(text)
            old    == blk[n].rows
            start  == [rows |-> blk[n].rows, padded |-> padded]
            Next1(i, v) == WithRow(v, blk[n].cols, text[i].toks, BodyRowLine(blk[n].start, i), text[i].at)
            S      == [p \in Nat \X Rows |->
                         IF p[1] \in 2..len THEN Next1(p[1], p[2]) ELSE start]
            Def(f) == f = [i \in 0..Len(text) |->
                             IF i < 2 THEN [rows |-> blk[n].rows, padded |-> padded]
                             ELSE WithRow(f[i-1], blk[n].cols, text[i].toks,
                                          BodyRowLine(blk[n].start, i), text[i].at)]
            upTo   == CHOOSE f : Def(f)
<1>1. BodyRows(n) = upTo[Len(text)]
  BY Zenon DEF BodyRows
<1>. HIDE DEF upTo
<1>2. len \in Nat /\ MaxPadding \in Nat /\ Len(old) \in Nat /\ padded \in Int
  BY BlockPhaseAssumption
<1>3. start \in Rows
  BY DEF Rows
<1>4. ASSUME NEW i \in 2..len, NEW v \in Rows
      PROVE  Next1(i, v) \in Rows
  <2>. DEFINE e  == text[i]
              at == BodyRowLine(blk[n].start, i)
              cols == blk[n].cols
  <2>1. i \in 1..Len(text)
    BY <1>2
  <2>2. e \in Entry
    BY <2>1, ElementOfSeq
  <2>3. at \in Nat
    BY <1>2 DEF BodyRowLine
  <2>4. cols \in Nat
    OBVIOUS
  <2>. HIDE DEF e, at, cols
  <2>5. OneMore(v, WithRow(v, cols, e.toks, at, e.at), cols, at, e.at)
    BY <2>2, <2>3, <2>4, WithRowFacts DEF Entry
  <2>. QED
    BY <2>5 DEF OneMore, e, at, cols
<1>. HIDE DEF start, Next1
<1>5. /\ S \in [Nat \X Rows -> Rows]
      /\ \A i \in 2..len : \A v \in Rows : S[<<i, v>>] = Next1(i, v)
      /\ \A v \in Rows : S[<<1, v>>] = start
  <2>1. \A i \in 2..len : i \in Nat
    BY <1>2
  <2>2. 1 \in Nat /\ 1 \notin 2..len
    BY <1>2
  <2>. HIDE DEF len
  <2>. QED
    BY <1>3, <1>4, <2>1, <2>2
<1>. HIDE DEF S, len, old
<1>6. PICK f \in [0..len -> Rows] : Follows(f, 0, len, start, S)
  <2>1. 0 \in Nat /\ 0 <= len
    BY <1>2
  <2>. QED
    BY <1>2, <1>3, <1>5, <2>1, RecursionExists
<1>7. \A i \in 0..len : f[i] = IF i = 0 THEN start ELSE S[<<i, f[i-1]>>]
  BY <1>6, Zenon DEF Follows
<1>8. \A i \in 0..len : f[i] = IF i < 2 THEN start ELSE Next1(i, f[i-1])
  <2>. TAKE i \in 0..len
  <2>1. i # 0 => i - 1 \in 0..len /\ f[i-1] \in Rows
    BY <1>2
  <2>2. CASE i = 0
    <3>1. f[i] = start
      BY <1>7, <2>2
    <3>2. i < 2
      BY <2>2
    <3>. QED
      BY <3>1, <3>2
  <2>3. CASE i = 1
    <3>1. i # 0 /\ i < 2
      BY <2>3
    <3>2. f[i] = S[<<i, f[i-1]>>] /\ f[i-1] \in Rows
      BY <1>7, <2>1, <3>1
    <3>3. f[i] = start
      <4>. DEFINE v == f[i-1]
      <4>1. v \in Rows /\ f[i] = S[<<1, v>>]
        BY <2>3, <3>2
      <4>. HIDE DEF v
      <4>. QED
        BY <1>5, <4>1
    <3>. QED
      BY <3>1, <3>3
  <2>4. CASE i # 0 /\ i # 1
    <3>1. i \in 2..len /\ ~(i < 2)
      BY <1>2, <2>4
    <3>. QED
      BY <1>5, <1>7, <2>1, <2>4, <3>1
  <2>. QED
    BY <2>2, <2>3, <2>4
<1>9. Def(f)
  <2>1. f = [i \in 0..len |-> f[i]]
    OBVIOUS
  <2>. QED
    BY <1>8, <2>1, Zenon DEF len, start, Next1
<1>10. Def(upTo)
  <2>. HIDE DEF Def
  <2>. QED
    BY <1>9 DEF upTo
<1>11. \A i \in 0..len : upTo[i] = IF i < 2 THEN start ELSE Next1(i, upTo[i-1])
  BY <1>10, Zenon DEF len, start, Next1
<1>. DEFINE Good(i) == RowsOf(n, old, upTo[i], i)
            Bad == {i \in 0..len : ~Good(i)}
<1>12. Good(0) /\ (1 \in 0..len => Good(1))
  <2>1. upTo[0] = start /\ (1 \in 0..len => upTo[1] = start)
    BY <1>2, <1>11
  <2>2. start.rows = old /\ start.padded = padded
    BY DEF start, old
  <2>3. \A i \in {0, 1} : RowsOf(n, old, start, i)
    BY <1>2, <1>3, <2>2 DEF RowsOf
  <2>. QED
    BY <2>1, <2>3
<1>13. ASSUME NEW i \in 0..len, i # 0, i # 1, Good(i - 1)
       PROVE  Good(i)
  <2>1. i \in Nat /\ i >= 2 /\ i <= Len(blk[n].content) /\ ~(i < 2)
    BY <1>2, <1>13 DEF len
  <2>2. upTo[i] = WithRow(upTo[i-1], blk[n].cols, text[i].toks, BodyRowLine(blk[n].start, i), text[i].at)
    BY <1>11, <2>1 DEF Next1
  <2>3. RowsOf(n, old, upTo[i-1], i - 1)
    BY <1>13
  <2>. DEFINE r == upTo[i-1]
  <2>. HIDE DEF r
  <2>4. RowsOf(n, old, WithRow(r, blk[n].cols, text[i].toks, BodyRowLine(blk[n].start, i), text[i].at), i)
    BY <1>2, <2>1, <2>3, RowsGrow DEF r
  <2>. QED
    BY <2>2, <2>4 DEF r
<1>. HIDE DEF Good
<1>14. Bad = {}
  <2>1. SUFFICES ASSUME Bad # {} PROVE FALSE
    OBVIOUS
  <2>2. PICK m \in Bad : \A k \in Bad : m <= k
    <3>1. Bad \subseteq Nat
      BY <1>2
    <3>. HIDE DEF Bad
    <3>. QED
      BY <2>1, <3>1, LeastNatural
  <2>3. m \in 0..len /\ ~Good(m) /\ m # 0 /\ m # 1
    BY <1>12, <2>2
  <2>4. m - 1 \in 0..len /\ m - 1 \notin Bad
    <3>1. m - 1 \in 0..len /\ ~(m <= m - 1)
      BY <1>2, <2>3
    <3>. HIDE DEF Bad
    <3>. QED
      BY <2>2, <3>1
  <2>. QED
    BY <1>13, <2>3, <2>4
<1>15. Good(len)
  <2>1. len \in 0..len
    BY <1>2
  <2>. QED
    BY <1>14, <2>1
<1>. QED
  BY <1>1, <1>15 DEF Good, len, old

(***************************************************************************)
(* Type correctness                                                        *)
(***************************************************************************)
\* The fields of every node have their types.
FieldsTyped(f) == f \in [Node -> BlockFields]

LEMMA RecordTyped ==
  ASSUME NEW b \in BlockFields
  PROVE  /\ \A v \in Nat : /\ [b EXCEPT !.start = v] \in BlockFields
                           /\ [b EXCEPT !.end = v] \in BlockFields
                           /\ [b EXCEPT !.of = v] \in BlockFields
         /\ \A v \in Seq(Entry) : [b EXCEPT !.content = v] \in BlockFields
         /\ \A v \in Seq(Row) : [b EXCEPT !.rows = v] \in BlockFields
         /\ \A v \in BOOLEAN : /\ [b EXCEPT !.tight = v] \in BlockFields
                               /\ [b EXCEPT !.task = v] \in BlockFields
         /\ b.start \in Nat /\ b.end \in Nat /\ b.of \in Nat /\ b.content \in Seq(Entry)
         /\ b.cols \in Nat /\ b.rows \in Seq(Row)
<1>. DEFINE E == Seq(Entry)
            R == Seq(Row)
            M == Bullets \cup {"ordered", "none"}
            F == Fences \cup {"none"}
            I == 0..3
            K == {0, 2, 6, 7}
            C == 0..2
<1>1. BlockFields = [start : Nat, end : Nat, of : Nat, content : E, mark : M, indent : Nat,
                     tight : BOOLEAN, task : BOOLEAN, fence : F, inset : I, kind : K,
                     cols : C, rows : R]
  BY DEF BlockFields, Row
<1>2. C \subseteq Nat
  OBVIOUS
<1>. HIDE DEF E, R, M, F, I, K, C
<1>3. /\ \A v \in Nat : /\ [b EXCEPT !.start = v] \in BlockFields
                        /\ [b EXCEPT !.end = v] \in BlockFields
                        /\ [b EXCEPT !.of = v] \in BlockFields
      /\ \A v \in E : [b EXCEPT !.content = v] \in BlockFields
      /\ \A v \in R : [b EXCEPT !.rows = v] \in BlockFields
      /\ \A v \in BOOLEAN : /\ [b EXCEPT !.tight = v] \in BlockFields
                            /\ [b EXCEPT !.task = v] \in BlockFields
  BY <1>1
<1>4. /\ b.start \in Nat /\ b.end \in Nat /\ b.of \in Nat /\ b.content \in E
      /\ b.cols \in Nat /\ b.rows \in R
  BY <1>1, <1>2
<1>. QED
  BY <1>3, <1>4 DEF E, R

LEMMA NodeTyped ==
  ASSUME NEW f, FieldsTyped(f), NEW m, NEW b, m \in Node => b \in BlockFields
  PROVE  FieldsTyped([f EXCEPT ![m] = b])
  BY DEF FieldsTyped

LEMMA FieldTyped ==
  ASSUME NEW f, FieldsTyped(f), NEW m
  PROVE  /\ \A v \in Nat : /\ FieldsTyped([f EXCEPT ![m] = [f[m] EXCEPT !.end = v]])
                           /\ FieldsTyped([f EXCEPT ![m] = [f[m] EXCEPT !.of = v]])
         /\ \A v \in Seq(Entry) : FieldsTyped([f EXCEPT ![m] = [f[m] EXCEPT !.content = v]])
         /\ \A v \in Seq(Row) : FieldsTyped([f EXCEPT ![m] = [f[m] EXCEPT !.rows = v]])
         /\ FieldsTyped([f EXCEPT ![m] = [f[m] EXCEPT !.tight = FALSE]])
<1>1. m \in Node => f[m] \in BlockFields
  BY DEF FieldsTyped
<1>2. \A v \in Nat : m \in Node => /\ [f[m] EXCEPT !.end = v] \in BlockFields
                                   /\ [f[m] EXCEPT !.of = v] \in BlockFields
  BY <1>1, RecordTyped
<1>3. /\ \A v \in Seq(Entry) : m \in Node => [f[m] EXCEPT !.content = v] \in BlockFields
      /\ \A v \in Seq(Row) : m \in Node => [f[m] EXCEPT !.rows = v] \in BlockFields
      /\ m \in Node => [f[m] EXCEPT !.tight = FALSE] \in BlockFields
  BY <1>1, RecordTyped
<1>. QED
  BY <1>2, <1>3, NodeTyped, Zenon

LEMMA NewTyped ==
  /\ NewBlk \in BlockFields
  /\ \A x \in Nat, y \in Seq(Entry) : [NewBlk EXCEPT !.start = x, !.content = y] \in BlockFields
  /\ \A y \in Seq(Entry) : [NewBlk EXCEPT !.content = y] \in BlockFields
  /\ \A x \in 0..2, y \in Seq(Row) : [NewBlk EXCEPT !.cols = x, !.rows = y] \in BlockFields
  /\ \A x \in {0, 2, 6, 7} : [NewBlk EXCEPT !.kind = x] \in BlockFields
  /\ \A x \in Fences, y \in 0..3 : [NewBlk EXCEPT !.fence = x, !.inset = y] \in BlockFields
  /\ \A x \in Bullets \cup {"ordered"}, y \in Nat :
       [NewBlk EXCEPT !.mark = x, !.indent = y] \in BlockFields
<1>. DEFINE E == Seq(Entry)
            R == Seq(Row)
            M == Bullets \cup {"ordered", "none"}
            F == Fences \cup {"none"}
            I == 0..3
            K == {0, 2, 6, 7}
            C == 0..2
            none == <<>>
<1>1. BlockFields = [start : Nat, end : Nat, of : Nat, content : E, mark : M, indent : Nat,
                     tight : BOOLEAN, task : BOOLEAN, fence : F, inset : I, kind : K,
                     cols : C, rows : R]
  BY DEF BlockFields, Row
<1>2. /\ none \in E /\ none \in R /\ "none" \in M /\ "none" \in F /\ 0 \in I /\ 0 \in K /\ 0 \in C
      /\ 0 \in Nat /\ Fences \subseteq F /\ Bullets \cup {"ordered"} \subseteq M
  OBVIOUS
<1>3. NewBlk = [start |-> 0, end |-> 0, of |-> 0, content |-> none,
                mark |-> "none", indent |-> 0, tight |-> TRUE, task |-> FALSE,
                fence |-> "none", inset |-> 0, kind |-> 0, cols |-> 0, rows |-> none]
  BY DEF NewBlk
<1>. HIDE DEF E, R, M, F, I, K, C, none
<1>4. /\ NewBlk \in BlockFields
      /\ \A x \in Nat, y \in E : [NewBlk EXCEPT !.start = x, !.content = y] \in BlockFields
      /\ \A y \in E : [NewBlk EXCEPT !.content = y] \in BlockFields
      /\ \A x \in C, y \in R : [NewBlk EXCEPT !.cols = x, !.rows = y] \in BlockFields
      /\ \A x \in K : [NewBlk EXCEPT !.kind = x] \in BlockFields
      /\ \A x \in F, y \in I : [NewBlk EXCEPT !.fence = x, !.inset = y] \in BlockFields
      /\ \A x \in M, y \in Nat : [NewBlk EXCEPT !.mark = x, !.indent = y] \in BlockFields
  BY <1>1, <1>2, <1>3
<1>. QED
  BY <1>2, <1>4 DEF E, R, I, K, C

\* What closing a block owes to the types.
ClosedTyped ==
  /\ FieldsTyped(blk') /\ checked' \subseteq 1..used
  /\ padded' \in 0..MaxPadding /\ padded <= padded'
  /\ \E content, k : refs' = Defined(refs, content, k)

LEMMA ClosingTyped ==
  ASSUME Shape, Numbered, FieldsTyped(blk), checked \subseteq 1..used, padded \in 0..MaxPadding,
         NEW x \in Node, NEW content \in Seq(Entry), NEW at \in Nat, NEW of \in Nat,
         type[x] = "para" => IsRun(content),
         FinalizeWith(x, content, at, of)
  PROVE  ClosedTyped
<1>. DEFINE k     == IF type[x] = "para" THEN Definitions(content) ELSE 0
            e     == EndOf(x, at, of)
            left  == AfterDefinitions(content, k)
            one   == [blk EXCEPT ![x] = [blk[x] EXCEPT !.end = e[1]]]
            two   == [one EXCEPT ![x] = [one[x] EXCEPT !.of = e[2]]]
            dated == [two EXCEPT ![x] = [two[x] EXCEPT !.content = left]]
            rows  == BodyRows(x).rows
            rowed == [dated EXCEPT ![x] = [dated[x] EXCEPT !.rows = rows]]
            loose == [dated EXCEPT ![x] = [dated[x] EXCEPT !.tight = FALSE]]
            child == tree.first[x]
<1>1. /\ \/ blk' = dated
         \/ blk' = [rowed EXCEPT ![x] = [rowed[x] EXCEPT !.content = <<>>]]
         \/ blk' = [loose EXCEPT ![child] = [loose[child] EXCEPT !.tight = FALSE]]
      /\ refs' = Defined(refs, content, k)
      /\ padded' = IF type[x] = "table" THEN BodyRows(x).padded ELSE padded
      /\ checked' = IF type[x] = "list" THEN Looseness(x).memo ELSE checked
  <2>. HIDE DEF k, e, rows, left, child
  <2>. QED
    BY DEF FinalizeWith, k, e, rows, left, child
<1>2. e[1] \in Nat /\ e[2] \in Nat
  <2>1. tree.last[x] # Nil => tree.last[x] \in Node
    BY DEF Shape, Tree, Link
  <2>2. \A m \in Node : blk[m].end \in Nat /\ blk[m].of \in Nat /\ blk[m].start \in Nat
    BY RecordTyped DEF FieldsTyped
  <2>3. \/ tree.last[x] # Nil /\ e = <<blk[tree.last[x]].end, blk[tree.last[x]].of>>
        \/ e = <<blk[x].start, blk[x].start>> \/ e = <<at, of>>
    BY DEF EndOf
  <2>. HIDE DEF e
  <2>. QED
    BY <2>1, <2>2, <2>3
<1>3. left \in Seq(Entry)
  <2>1. k \in 0..Len(content)
    <3>1. Len(content) \in Nat
      OBVIOUS
    <3>. QED
      BY <3>1, DefinitionsBound
  <2>. HIDE DEF k
  <2>2. AfterDefinitions(content, k) = SubSeq(content, k + 1, Len(content))
    BY DEF AfterDefinitions
  <2>3. \A i \in (k + 1)..Len(content) : content[i] \in Entry
    BY <2>1, ElementOfSeq
  <2>4. k + 1 \in Nat /\ Len(content) \in Nat
    BY <2>1
  <2>. QED
    BY <2>2, <2>3, <2>4, SubSeqProperties
<1>4. RowsOf(x, blk[x].rows, BodyRows(x), Len(blk[x].content))
  <2>1. blk[x] \in BlockFields
    BY DEF FieldsTyped
  <2>2. /\ blk[x].rows \in Seq(Row) /\ blk[x].content \in Seq(Entry)
        /\ blk[x].cols \in Nat /\ blk[x].start \in Nat
    BY <2>1, RecordTyped
  <2>. QED
    BY <2>2, BodyRowsFacts
<1>5. rows \in Seq(Row) /\ BodyRows(x).padded \in 0..MaxPadding /\ padded <= BodyRows(x).padded
  BY <1>4 DEF RowsOf, Rows
<1>6. Looseness(x).memo \subseteq 1..used
  BY LoosenessTyped
<1>. HIDE DEF k, e, rows, left, child
<1>7. FieldsTyped(dated)
  <2>1. FieldsTyped(one)
    BY <1>2, FieldTyped, Zenon
  <2>. HIDE DEF one
  <2>2. FieldsTyped(two)
    BY <1>2, <2>1, FieldTyped, Zenon
  <2>. HIDE DEF two
  <2>. QED
    BY <1>3, <2>2, FieldTyped, Zenon
<1>. HIDE DEF dated
<1>8. FieldsTyped(rowed) /\ FieldsTyped(loose)
  BY <1>5, <1>7, FieldTyped, Zenon
<1>. HIDE DEF rowed, loose
<1>9. /\ FieldsTyped([rowed EXCEPT ![x] = [rowed[x] EXCEPT !.content = <<>>]])
      /\ FieldsTyped([loose EXCEPT ![child] = [loose[child] EXCEPT !.tight = FALSE]])
  <2>1. <<>> \in Seq(Entry)
    OBVIOUS
  <2>. QED
    BY <1>8, <2>1, FieldTyped, Zenon
<1>10. FieldsTyped(blk')
  BY <1>1, <1>7, <1>9, Zenon
<1>11. padded' \in 0..MaxPadding /\ padded <= padded'
  <2>1. MaxPadding \in Nat
    BY BlockPhaseAssumption
  <2>. QED
    BY <1>1, <1>5, <2>1
<1>. QED
  BY <1>1, <1>6, <1>10, <1>11 DEF ClosedTyped

Pending  == [type : BlockTypes, blk : BlockFields]
Addition == [to : Link, toks : Seq(Tokens)]

\* The types of what the parser builds.
TreeTyped ==
  /\ type \in [Node -> BlockTypes] /\ FieldsTyped(blk)
  /\ checked \subseteq 1..used /\ padded \in 0..MaxPadding
  /\ pend \in Seq(Pending) /\ lastAdded \in Addition
  /\ refs \in [Labels -> Nat]

\* The types of the parser's pointers, cursor and counters.
ParserTyped ==
  /\ blankEnd \subseteq 1..used /\ {oldtip, lmc} \subseteq Node /\ allClosed \in BOOLEAN
  /\ cur \in Cursor
  /\ nx \in [pos : Nat, col : Nat, indent : Nat, blank : BOOLEAN]
  /\ si \in {0, 5}
  /\ {lastLen, prevLen, lenBefore} \subseteq 0..lineNo /\ lineNo <= MaxLines
  /\ pc \in {"read", "walk", "starts", "close", "setext", "table", "add", "text", "body",
             "line", "finish", "done"}

\* The inductive strengthening of TypeOK: what a step leaves in the tree has
\* its type because the tree is in order and the cursor agrees.
TypeIInv == OrderIInv /\ DefsIInv /\ TreeTyped /\ ParserTyped

LEMMA TypesHold == TypeIInv => TypeOK
<1>1. SUFFICES ASSUME TypeIInv PROVE TypeOK
  OBVIOUS
<1>2. /\ Shape /\ Pointers /\ input \in Seq(Lines) /\ lineNo \in Nat
      /\ TreeTyped /\ ParserTyped /\ Recorded /\ LastDone <= lineNo /\ LastDone \in Nat
  BY <1>1, DefsFactsHold DEF TypeIInv, DefsIInv, DefsFacts
<1>3. defLines \subseteq 1..lineNo
  BY <1>2 DEF Recorded
<1>4. tip \in Link /\ cont \in Node /\ used \in Node /\ open \subseteq 1..used /\ tree \in Tree
      /\ goal \in {"add", "setext", "table", "body"} /\ after \in {"starts", "text", "line"}
  BY <1>2, NodeFacts DEF Shape, Pointers
<1>. QED
  BY <1>2, <1>3, <1>4 DEF TypeOK, TreeTyped, ParserTyped, FieldsTyped, Pending, Addition

LEMMA TypedFacts ==
  ASSUME TypeIInv
  PROVE  /\ Shape /\ Pointers /\ Numbered /\ Runs /\ Lengths /\ ContainedIInv
         /\ lineNo \in Nat /\ input \in Seq(Lines) /\ TreeTyped /\ ParserTyped /\ CursorIInv
         /\ 1..used \subseteq Node /\ used \in Node /\ cont \in Node /\ open \subseteq Node
         /\ tip # Nil => tip \in Node
         /\ pc \notin {"finish", "done"} => tip # Nil
         /\ Mid => lineNo - 1 \in Nat
         /\ Mid => AtWork
<1>1. /\ Shape /\ Pointers /\ Numbered /\ Runs /\ Lengths /\ ContainedIInv
      /\ lineNo \in Nat /\ input \in Seq(Lines) /\ TreeTyped /\ ParserTyped /\ CursorIInv
  BY DefsFactsHold, DatedFacts DEF TypeIInv, OrderIInv, DefsFacts, DefsIInv
<1>2. 1..used \subseteq Node /\ used \in Node /\ cont \in Node /\ open \subseteq Node
      /\ (tip # Nil => tip \in Node)
  BY <1>1, NodeFacts DEF Shape, Pointers, Link
<1>. QED
  BY <1>1, <1>2 DEF Pointers, Lengths, Mid, AtWork

LEMMA FinalizeTyped ==
  ASSUME TypeIInv, NEW x \in Node, NEW at \in Nat, NEW of \in Nat, Finalize(x, at, of)
  PROVE  ClosedTyped
<1>1. /\ Shape /\ Numbered /\ Runs /\ FieldsTyped(blk) /\ checked \subseteq 1..used
      /\ padded \in 0..MaxPadding
  BY TypedFacts DEF TreeTyped
<1>2. blk[x].content \in Seq(Entry)
  BY <1>1, RecordTyped DEF FieldsTyped
<1>. QED
  BY <1>1, <1>2, ClosingTyped DEF Finalize, Runs

LEMMA RestTyped ==
  ASSUME NEW ln \in Seq(Tokens), NEW i \in Nat
  PROVE  Rest(ln, i) \in Seq(Tokens)
<1>1. Len(ln) \in Nat /\ i + 1 \in Nat /\ \A j \in (i + 1)..Len(ln) : ln[j] \in Tokens
  BY ElementOfSeq
<1>2. SubSeq(ln, i + 1, Len(ln)) \in Seq(Tokens)
  BY <1>1, SubSeqProperties
<1>. QED
  BY <1>2 DEF Rest

LEMMA LineTextTyped ==
  ASSUME TypeIInv, AtWork
  PROVE  LineText \in Entry /\ LineText.toks \in Seq(Tokens)
<1>1. line \in Seq(Tokens) /\ lineNo \in Nat /\ cur \in Cursor
  BY TypedFacts, WorkFacts DEF ParserTyped
<1>2. cur.off \in Nat /\ cur.col \in Nat
  BY <1>1 DEF Cursor
<1>3. Rest(line, cur.off) \in Seq(Tokens) /\ Rest(line, cur.off + 1) \in Seq(Tokens)
  <2>. DEFINE i == cur.off
              j == cur.off + 1
  <2>1. i \in Nat /\ j \in Nat
    BY <1>2
  <2>. HIDE DEF i, j
  <2>2. Rest(line, i) \in Seq(Tokens) /\ Rest(line, j) \in Seq(Tokens)
    BY <1>1, <2>1, RestTyped
  <2>. QED
    BY <2>2 DEF i, j
<1>. DEFINE pad == [i \in 1..ToTabStop(cur.col) |-> "sp"]
<1>4. pad \in Seq(Tokens)
  <2>1. ToTabStop(cur.col) \in Nat /\ "sp" \in Tokens
    BY <1>2, TabStops DEF Tokens, Space
  <2>. HIDE DEF Tokens
  <2>. QED
    BY <2>1
<1>. HIDE DEF pad, Tokens
<1>5. TextFrom(line, cur) \in Seq(Tokens)
  <2>1. pad \o Rest(line, cur.off + 1) \in Seq(Tokens)
    BY <1>3, <1>4
  <2>. QED
    BY <1>3, <2>1 DEF TextFrom, pad
<1>. QED
  BY <1>1, <1>5 DEF LineText, Entry

\* A label is defined on a line.
LEMMA RefsTyped ==
  ASSUME refs \in [Labels -> Nat], DefsIInv',
         UNCHANGED refs \/ \E content, k : refs' = Defined(refs, content, k)
  PROVE  refs' \in [Labels -> Nat]
<1>1. CASE UNCHANGED refs
  BY <1>1
<1>2. CASE \E content, k : refs' = Defined(refs, content, k)
  <2>1. PICK content, k : refs' = Defined(refs, content, k)
    BY <1>2
  <2>2. \E h : refs' = [l \in Labels |-> h[l]]
    <3>. DEFINE h == Defined(refs, content, k)
    <3>1. h = [l \in Labels |-> h[l]]
      BY DEF Defined
    <3>. HIDE DEF h
    <3>. QED
      BY <2>1, <3>1 DEF h
  <2>3. DOMAIN refs' = Labels /\ refs' = [l \in Labels |-> refs'[l]]
    BY <2>2
  <2>4. defLines' \subseteq Nat
    BY DEF DefsIInv, Recorded
  <2>5. ASSUME NEW l \in Labels PROVE refs'[l] \in Nat
    <3>. DEFINE at == {i \in defLines' : \E j \in 1..Len(input'[i]) : input'[i][j] = l}
    <3>1. refs'[l] = IF at = {} THEN 0 ELSE Min(at)
      BY DEF DefsIInv, FirstDefinitionWins
    <3>2. at \subseteq Nat
      BY <2>4
    <3>. HIDE DEF at
    <3>3. at # {} => Min(at) \in Nat
      BY <3>2, MinOf
    <3>. QED
      BY <3>1, <3>3
  <2>. QED
    BY <2>3, <2>5
<1>. QED
  BY <1>1, <1>2

\* What a step owes to the types of what the parser builds.
Built ==
  /\ type' \in [Node -> BlockTypes] /\ FieldsTyped(blk')
  /\ checked' \subseteq 1..used' /\ padded' \in 0..MaxPadding
  /\ pend' \in Seq(Pending) /\ lastAdded' \in Addition
  /\ UNCHANGED refs \/ \E content, k : refs' = Defined(refs, content, k)

LEMMA NothingBuilt ==
  ASSUME TypeIInv, UNCHANGED <<type, blk, checked, used, padded, pend, lastAdded, refs>>
  PROVE  Built
  BY TypedFacts DEF TreeTyped, Built

LEMMA CloseBuilt ==
  ASSUME TypeIInv, ClosedTyped, UNCHANGED <<type, used>>,
         pend' \in Seq(Pending), lastAdded' \in Addition
  PROVE  Built
  BY TypedFacts DEF TreeTyped, ClosedTyped, Built

LEMMA WalkTyped ==
  ASSUME TypeIInv, ReadLine \/ Walk
  PROVE  Built
<1>1. CASE ReadLine \/ ContinueMatched \/ ContinueNotMatched \/ NoMoreOpen
  <2>1. UNCHANGED <<type, blk, checked, used, padded, pend, lastAdded, refs>>
    BY <1>1 DEF ReadLine, ContinueMatched, ContinueNotMatched, NoMoreOpen, WalkEnds,
                treeVars, flagVars, closeVars, startVars
  <2>. QED
    BY <2>1, NothingBuilt
<1>2. CASE CloseFence
  <2>. DEFINE child == NextOpen(cont)
  <2>1. /\ Finalize(child, lineNo, lineNo) /\ child # Nil
        /\ UNCHANGED <<pend, lastAdded>>
    BY <1>2 DEF CloseFence, startVars
  <2>2. child \in Node
    BY <2>1, TypedFacts DEF NextOpen
  <2>. HIDE DEF child
  <2>3. ClosedTyped
    BY <2>1, <2>2, TypedFacts, FinalizeTyped
  <2>4. UNCHANGED <<type, used>>
    BY <2>1 DEF Finalize, FinalizeWith
  <2>. QED
    BY <2>1, <2>3, <2>4, CloseBuilt, TypedFacts DEF TreeTyped
<1>. QED
  BY <1>1, <1>2 DEF Walk

LEMMA LexisTyped ==
  /\ \A ln, i : HtmlKind(ln, i) \in {0, 2, 6, 7} /\ DelimiterColumns(ln, i) \in 0..2
  /\ \A tok \in Bullets \cup Ordered : ListMark(tok) \in Bullets \cup {"ordered"}
  BY DEF HtmlKind, DelimiterColumns, ListMark

\* What the starts that read more of the line have seen of it.
LEMMA TakenOf ==
  ASSUME NEW n, NEW k, Takes(k, n)
  PROVE  /\ k = 1 => Tok(line, n.pos) = "#"
         /\ k = 2 => Tok(line, n.pos) \in Fences /\ ~Indented(n)
         /\ k = 6 => Tok(line, n.pos) \in Bullets \cup Ordered
<1>1. /\ k = 1 => AtxHeading(line, n.pos)
      /\ k = 2 => ~Indented(n) /\ OpensFence(line, n.pos)
      /\ k = 6 => IsItem(n)
  BY DEF Takes, Takers
<1>. QED
  BY <1>1 DEF AtxHeading, OpensFence, IsItem, IsListMarker

LEMMA StartTyped ==
  ASSUME TypeIInv, Start
  PROVE  Built
<1>. DEFINE n == NextNonspace(line, cur)
<1>1. pc = "starts" /\ UNCHANGED <<type, blk, checked, used, padded, lastAdded, refs>>
  BY DEF Start, StartQuote, StartHeading, StartFence, StartHtml, StartSetext, StartBreak, StartItem,
         StartIndentedCode, StartTable, NoStart, Begin, treeVars, flagVars, closeVars
<1>2. /\ line \in Seq(Tokens) /\ CursorOk(line, cur) /\ CursorOk(line, ToNonspace(n))
      /\ n.indent \in Nat /\ ToNonspace(n).off = n.pos /\ lineNo \in Nat
  BY <1>1, WorkFacts, TypedFacts DEF AtWork
<1>3. pend \in Seq(Pending) /\ TreeTyped
  BY TypedFacts DEF TreeTyped
<1>4. SUFFICES pend' \in Seq(Pending)
  BY <1>1, <1>3 DEF Built, TreeTyped
<1>5. ASSUME NEW k, NEW g, NEW blocks, NEW c, NEW then, Begin(k, g, blocks, c, then)
      PROVE  Takes(k, n) /\ pend' = blocks
  BY <1>5 DEF Begin
<1>6. ASSUME NEW t \in BlockTypes, NEW f \in BlockFields PROVE <<Block(t, f)>> \in Seq(Pending)
  <2>1. Block(t, f) \in Pending
    BY DEF Block, Pending
  <2>. HIDE DEF Pending
  <2>. QED
    BY <2>1
<1>7. {"quote", "heading", "code", "html", "break", "list", "item", "para", "table"} \subseteq BlockTypes
  BY DEF BlockTypes, Containers
<1>8. CASE StartQuote
  <2>1. pend' = <<Block("quote", NewBlk)>>
    BY <1>5, <1>8 DEF StartQuote
  <2>. QED
    BY <1>6, <1>7, <2>1, NewTyped
<1>9. CASE StartHeading
  <2>. DEFINE m    == PastMarker(line, ToNonspace(n))
              toks == Rest(line, NextNonspace(line, m).pos)
              e    == [at |-> lineNo, toks |-> toks]
              text == <<e>>
  <2>1. Takes(1, n) /\ pend' = <<Block("heading", [NewBlk EXCEPT !.content = text])>>
    BY <1>5, <1>9 DEF StartHeading
  <2>. HIDE DEF n
  <2>2. Tok(line, n.pos) \notin Space \cup Labels \cup {"end"}
    BY <2>1, TakenOf DEF Space, Labels
  <2>3. CursorOk(line, m)
    BY <1>2, <2>2, OkMarker
  <2>. HIDE DEF m
  <2>4. toks \in Seq(Tokens)
    BY <1>2, <2>3, OkNonspace, RestTyped
  <2>. HIDE DEF toks
  <2>5. e \in Entry
    BY <1>2, <2>4 DEF Entry
  <2>. HIDE DEF e
  <2>6. text \in Seq(Entry)
    BY <2>5
  <2>. HIDE DEF text
  <2>. QED
    BY <1>6, <1>7, <2>1, <2>6, NewTyped
<1>10. CASE StartFence
  <2>. DEFINE f == [NewBlk EXCEPT !.fence = Tok(line, n.pos), !.inset = n.indent]
  <2>1. Takes(2, n) /\ pend' = <<Block("code", f)>>
    BY <1>5, <1>10 DEF StartFence
  <2>2. Tok(line, n.pos) \in Fences /\ ~Indented(n)
    <3>. HIDE DEF n
    <3>. QED
      BY <2>1, TakenOf
  <2>3. n.indent \in 0..3
    <3>. HIDE DEF n
    <3>. QED
      BY <1>2, <2>2 DEF Indented, CodeIndent
  <2>4. f \in BlockFields
    <3>. HIDE DEF n
    <3>. QED
      BY <2>2, <2>3, NewTyped
  <2>. HIDE DEF f
  <2>. QED
    BY <1>6, <1>7, <2>1, <2>4
<1>11. CASE StartHtml
  <2>. DEFINE kind == HtmlKind(line, n.pos)
  <2>1. pend' = <<Block("html", [NewBlk EXCEPT !.kind = kind])>>
    BY <1>5, <1>11 DEF StartHtml
  <2>2. kind \in {0, 2, 6, 7}
    BY LexisTyped
  <2>. HIDE DEF kind
  <2>. QED
    BY <1>6, <1>7, <2>1, <2>2, NewTyped
<1>12. CASE StartBreak
  <2>1. pend' = <<Block("break", NewBlk)>>
    BY <1>5, <1>12 DEF StartBreak
  <2>. QED
    BY <1>6, <1>7, <2>1, NewTyped
<1>13. CASE StartItem
  <2>. DEFINE m    == ListMarker(line, n)
              mark == ListMark(Tok(line, n.pos))
              data == [NewBlk EXCEPT !.mark = mark, !.indent = m.indent]
  <2>1. /\ Takes(6, n)
        /\ pend' = IF SameList(n) THEN <<Block("item", data)>>
                   ELSE <<Block("list", data), Block("item", data)>>
    BY <1>5, <1>13 DEF StartItem
  <2>2. IsListMarker(line, n, type[cont] = "para")
    <3>. HIDE DEF n
    <3>. QED
      BY <2>1, TakenBy
  <2>3. m.indent \in Nat
    BY <1>2, <2>2, OkListMarker
  <2>4. mark \in Bullets \cup {"ordered"}
    <3>. HIDE DEF n
    <3>. QED
      BY <2>1, TakenOf, LexisTyped
  <2>. HIDE DEF n, m, mark
  <2>5. data \in BlockFields
    BY <2>3, <2>4, NewTyped
  <2>. HIDE DEF data
  <2>6. <<Block("list", data), Block("item", data)>> \in Seq(Pending)
    <3>. DEFINE a == Block("list", data)
                b == Block("item", data)
    <3>1. a \in Pending /\ b \in Pending
      BY <1>7, <2>5 DEF Block, Pending
    <3>. HIDE DEF a, b, Pending
    <3>2. <<a, b>> \in Seq(Pending)
      BY <3>1
    <3>. QED
      BY <3>2 DEF a, b
  <2>. QED
    BY <1>6, <1>7, <2>1, <2>5, <2>6
<1>14. CASE StartIndentedCode
  <2>1. pend' = <<Block("code", NewBlk)>>
    BY <1>5, <1>14 DEF StartIndentedCode
  <2>. QED
    BY <1>6, <1>7, <2>1, NewTyped
<1>15. CASE StartSetext \/ StartTable
  <2>1. pend' = <<>>
    BY <1>5, <1>15 DEF StartSetext, StartTable
  <2>. QED
    BY <2>1
<1>16. CASE NoStart
  <2>1. pend' = pend
    BY <1>16 DEF NoStart, startVars
  <2>. QED
    BY <1>3, <2>1
<1>. QED
  BY <1>8, <1>9, <1>10, <1>11, <1>12, <1>13, <1>14, <1>15, <1>16 DEF Start

LEMMA OpenTyped ==
  ASSUME TypeIInv, Open
  PROVE  Built
<1>1. /\ lineNo - 1 \in Nat /\ tip \in Node /\ oldtip \in Node /\ lastLen \in Nat /\ lineNo \in Nat
      /\ TreeTyped /\ ContainedIInv /\ used \in Node /\ Pointers
  <2>1. pc \in {"close", "add"}
    BY DEF Open, CloseOne, AllClosed, MakeRoom, AddChild
  <2>. QED
    BY <2>1, TypedFacts DEF Mid, ParserTyped
<1>2. CASE CloseOne \/ MakeRoom
  <2>1. /\ Finalize(oldtip, LineAbove, lastLen) \/ Finalize(tip, LineAbove, lastLen)
        /\ UNCHANGED <<pend, lastAdded>>
    BY <1>2 DEF CloseOne, MakeRoom, startVars
  <2>2. LineAbove \in Nat
    BY <1>1 DEF LineAbove
  <2>3. ClosedTyped
    BY <1>1, <2>1, <2>2, FinalizeTyped
  <2>4. UNCHANGED <<type, used>>
    BY <2>1 DEF Finalize, FinalizeWith
  <2>. QED
    BY <1>1, <2>1, <2>3, <2>4, CloseBuilt DEF TreeTyped
<1>3. CASE AllClosed
  BY <1>3, NothingBuilt DEF AllClosed, treeVars, flagVars, closeVars, startVars
<1>4. CASE AddChild
  <2>. DEFINE start == IF pend[1].type = "table" THEN lineNo - 1 ELSE lineNo
              new   == used + 1
  <2>1. /\ pc = "add" /\ blk' = [blk EXCEPT ![new] = [pend[1].blk EXCEPT !.start = start]]
        /\ type' = [type EXCEPT ![new] = pend[1].type] /\ used' = new
        /\ pend' = Tail(pend) /\ UNCHANGED <<checked, padded, refs, lastAdded>>
    BY <1>4 DEF AddChild, flagVars, closeVars
  <2>2. start \in Nat
    BY <1>1
  <2>. HIDE DEF start
  <2>3. pend # <<>>
    BY <1>1, <2>1 DEF ContainedIInv, ListsForItems, Opening
  <2>4. pend[1] \in Pending /\ Tail(pend) \in Seq(Pending)
    <3>1. pend \in Seq(Pending)
      BY <1>1 DEF TreeTyped
    <3>. HIDE DEF Pending
    <3>2. Len(pend) \in Nat /\ Len(pend) # 0
      BY <2>3, <3>1
    <3>3. 1 \in 1..Len(pend)
      BY <3>2
    <3>. QED
      BY <2>3, <3>1, <3>3, ElementOfSeq
  <2>5. pend[1].type \in BlockTypes /\ pend[1].blk \in BlockFields
    BY <2>4 DEF Pending
  <2>6. [pend[1].blk EXCEPT !.start = start] \in BlockFields
    BY <2>2, <2>5, RecordTyped
  <2>7. FieldsTyped(blk')
    BY <1>1, <2>1, <2>6, NodeTyped DEF TreeTyped
  <2>8. type' \in [Node -> BlockTypes]
    BY <1>1, <2>1, <2>5 DEF TreeTyped
  <2>9. checked' \subseteq 1..used'
    <3>1. 1..used \subseteq 1..new
      BY <1>1, NodeFacts
    <3>. QED
      BY <1>1, <2>1, <3>1 DEF TreeTyped
  <2>. QED
    BY <1>1, <2>1, <2>4, <2>7, <2>8, <2>9 DEF Built, TreeTyped
<1>. QED
  BY <1>2, <1>3, <1>4 DEF Open

LEMMA ConvertTyped ==
  ASSUME TypeIInv, Convert
  PROVE  Built
<1>1. pc \in {"setext", "table"}
  BY DEF Convert, SetextFalls, SetextHeading, SplitParagraph, ReplaceParagraph, OpenTable
<1>2. /\ Shape /\ Pointers /\ Runs /\ Numbered /\ TreeTyped /\ lineNo \in Nat /\ lineNo - 1 \in Nat
      /\ cont \in Node /\ used \in Node /\ type[cont] = "para" /\ Lengths
      /\ DatedIInv /\ prevLen \in Nat
  BY <1>1, TypedFacts DEF Mid, Pointers, ParserTyped, TypeIInv, OrderIInv
<1>. DEFINE c    == blk[cont].content
            k    == Definitions(c)
            left == AfterDefinitions(c, k)
<1>3. /\ FieldsTyped(blk) /\ blk[cont] \in BlockFields /\ c \in Seq(Entry) /\ IsRun(c)
      /\ blk[cont].start \in Nat
  BY <1>2, RecordTyped DEF TreeTyped, FieldsTyped, Runs
<1>4. FieldsTyped([blk EXCEPT ![cont].content = <<>>])
  <2>1. <<>> \in Seq(Entry)
    OBVIOUS
  <2>2. FieldsTyped([blk EXCEPT ![cont] = [blk[cont] EXCEPT !.content = <<>>]])
    BY <1>3, <2>1, FieldTyped, Zenon
  <2>. QED
    BY <2>2
<1>5. CASE SetextFalls
  <2>1. /\ blk' = [blk EXCEPT ![cont].content = <<>>]
        /\ refs' = Defined(refs, c, k)
        /\ UNCHANGED <<type, used, checked, padded, pend, lastAdded>>
    BY <1>5 DEF SetextFalls, flagVars
  <2>2. \E x, y : refs' = Defined(refs, x, y)
    BY <2>1
  <2>. QED
    BY <1>2, <1>4, <2>1, <2>2 DEF Built, TreeTyped
<1>6. CASE SetextHeading
  <2>. DEFINE f   == [blk EXCEPT ![cont].content = <<>>]
              b   == [NewBlk EXCEPT !.start = blk[cont].start, !.content = left]
              new == used + 1
  <2>1. /\ blk' = [f EXCEPT ![new] = b]
        /\ type' = [type EXCEPT ![new] = "heading"] /\ used' = new
        /\ refs' = Defined(refs, c, k)
        /\ UNCHANGED <<checked, padded, pend, lastAdded>>
    BY <1>6 DEF SetextHeading, flagVars, startVars
  <2>2. left \in Seq(Entry)
    <3>1. k \in 0..Len(c) /\ Len(c) \in Nat
      BY <1>3, DefinitionsBound
    <3>. HIDE DEF k, c
    <3>2. \A i \in (k + 1)..Len(c) : c[i] \in Entry
      BY <1>3, <3>1, ElementOfSeq
    <3>3. k + 1 \in Nat
      BY <3>1
    <3>. QED
      BY <1>3, <3>1, <3>2, <3>3, SubSeqProperties DEF AfterDefinitions
  <2>. DEFINE s == blk[cont].start
  <2>3. s \in Nat
    BY <1>3
  <2>. HIDE DEF left, f, s
  <2>4. [NewBlk EXCEPT !.start = s, !.content = left] \in BlockFields
    BY <2>2, <2>3, NewTyped
  <2>5. b \in BlockFields
    BY <2>4 DEF s
  <2>. HIDE DEF b
  <2>6. FieldsTyped(blk')
    BY <1>4, <2>1, <2>5, NodeTyped DEF f
  <2>7. type' \in [Node -> BlockTypes]
    BY <1>2, <2>1 DEF TreeTyped, BlockTypes
  <2>8. checked' \subseteq 1..used'
    <3>1. 1..used \subseteq 1..new
      BY <1>2, NodeFacts
    <3>. QED
      BY <1>2, <2>1, <3>1 DEF TreeTyped
  <2>9. \E x, y : refs' = Defined(refs, x, y)
    BY <2>1
  <2>. QED
    BY <1>2, <2>1, <2>6, <2>7, <2>8, <2>9 DEF Built, TreeTyped
<1>7. ASSUME OpenTable PROVE pend' \in Seq(Pending) /\ lastAdded' \in Addition
  <2>. DEFINE cols   == DelimiterColumns(line, nx.pos)
              none   == [rows |-> <<>>, padded |-> padded]
              toks   == lastAdded.toks
              above  == lineNo - 1
              header == WithRow(none, cols, toks, above, above)
              data   == [NewBlk EXCEPT !.cols = cols, !.rows = header.rows]
  <2>1. pend' = <<Block("table", data)>> /\ UNCHANGED lastAdded
    BY <1>7 DEF OpenTable
  <2>2. none \in Rows
    BY <1>2 DEF Rows, TreeTyped
  <2>3. cols \in 0..2 /\ cols \in Nat
    <3>1. cols \in 0..2
      BY LexisTyped
    <3>. HIDE DEF cols
    <3>. QED
      BY <3>1
  <2>4. toks \in Seq(Tokens) /\ above \in Nat
    BY <1>2 DEF TreeTyped, Addition
  <2>. HIDE DEF cols, none, toks, above
  <2>5. OneMore(none, header, cols, above, above)
    BY <2>2, <2>3, <2>4, WithRowFacts
  <2>6. header.rows \in Seq(Row)
    BY <2>5 DEF OneMore, Rows
  <2>. HIDE DEF header
  <2>7. data \in BlockFields
    BY <2>3, <2>6, NewTyped
  <2>. HIDE DEF data
  <2>8. Block("table", data) \in Pending
    BY <2>7 DEF Block, Pending, BlockTypes
  <2>. HIDE DEF Pending
  <2>9. pend' \in Seq(Pending)
    BY <2>1, <2>8
  <2>. QED
    BY <1>2, <2>1, <2>9 DEF TreeTyped
<1>8. CASE SplitParagraph
  <2>1. OpenTable /\ Len(c) > 1 /\ FinalizeWith(cont, Front(c), LineAboveHeader, LengthAboveHeader)
    BY <1>8 DEF SplitParagraph
  <2>2. IsRun(Front(c)) /\ Front(c) \in Seq(Entry)
    <3>1. IsRun(Front(c))
      BY <1>3, <2>1, RunFront
    <3>2. Len(c) \in Nat /\ Len(c) - 1 \in Nat /\ \A i \in 1..(Len(c) - 1) : c[i] \in Entry
      BY <1>3, <2>1, ElementOfSeq
    <3>. HIDE DEF c
    <3>3. SubSeq(c, 1, Len(c) - 1) \in Seq(Entry)
      BY <1>3, <3>2, SubSeqProperties
    <3>. QED
      BY <3>1, <3>3 DEF Front
  <2>3. LineAboveHeader \in Nat
    <3>1. tip # Nil /\ tip = cont
      BY <1>1, <1>2, LeafIsTip DEF Pointers, Containers
    <3>2. Last(c).at = lineNo - 1
      BY <1>1, <1>2, <2>1, <3>1 DEF DatedIInv, Clock, TipText, Mid
    <3>3. Last(c).at = c[1].at + Len(c) - 1 /\ c[1].at \in Nat /\ Len(c) \in Nat
      BY <1>3, <2>1, RunSpan
    <3>. QED
      BY <1>2, <2>1, <3>2, <3>3 DEF LineAboveHeader
  <2>4. LengthAboveHeader \in Nat
    BY <1>2 DEF LengthAboveHeader
  <2>. DEFINE f == Front(c)
              a == LineAboveHeader
              o == LengthAboveHeader
  <2>5. /\ f \in Seq(Entry) /\ IsRun(f) /\ a \in Nat /\ o \in Nat /\ FinalizeWith(cont, f, a, o)
        /\ checked \subseteq 1..used /\ padded \in 0..MaxPadding
    BY <1>2, <2>1, <2>2, <2>3, <2>4 DEF TreeTyped
  <2>. HIDE DEF f, a, o, c
  <2>6. ClosedTyped
    BY <1>2, <1>3, <2>5, ClosingTyped
  <2>7. UNCHANGED <<type, used>>
    BY <2>5 DEF FinalizeWith
  <2>. QED
    BY <1>7, <2>1, <2>6, <2>7, CloseBuilt
<1>9. CASE ReplaceParagraph
  <2>1. OpenTable /\ UNCHANGED <<type, blk, used, checked, padded, refs>>
    BY <1>9 DEF ReplaceParagraph, flagVars, closeVars
  <2>. QED
    BY <1>2, <1>7, <2>1 DEF Built, TreeTyped
<1>. QED
  BY <1>5, <1>6, <1>8, <1>9 DEF Convert

LEMMA TextTyped ==
  ASSUME TypeIInv, Text
  PROVE  Built
<1>1. pc \in {"text", "body", "line"}
  BY DEF Text, LazyLine, CloseForText, GiveToBlock, OpenParagraph, NoText, TakeLine, TakeLastHtmlLine
<1>2. /\ Shape /\ Numbered /\ Runs /\ TreeTyped /\ lineNo \in Nat /\ AtWork /\ tip \in Node
      /\ cont \in Node /\ FieldsTyped(blk)
  BY <1>1, TypedFacts DEF Mid, TreeTyped
<1>3. LineText \in Entry /\ LineText.toks \in Seq(Tokens)
  BY <1>2, LineTextTyped
<1>4. [to |-> tip, toks |-> LineText.toks] \in Addition
  <2>. DEFINE toks == LineText.toks
  <2>1. tip \in Link /\ toks \in Seq(Tokens)
    BY <1>2, <1>3 DEF Link
  <2>. HIDE DEF toks
  <2>2. [to |-> tip, toks |-> toks] \in Addition
    BY <2>1 DEF Addition
  <2>. QED
    BY <2>2 DEF toks
<1>5. \A n \in Node : Append(blk[n].content, LineText) \in Seq(Entry)
  <2>. TAKE n \in Node
  <2>. DEFINE c == blk[n].content
  <2>1. c \in Seq(Entry)
    BY <1>2, RecordTyped DEF FieldsTyped
  <2>. HIDE DEF c
  <2>2. Append(c, LineText) \in Seq(Entry)
    BY <1>3, <2>1
  <2>. QED
    BY <2>2 DEF c
<1>6. CASE LazyLine \/ TakeLine
  <2>1. /\ blk' = [blk EXCEPT ![tip].content = Append(@, LineText)]
        /\ lastAdded' = [to |-> tip, toks |-> LineText.toks]
        /\ UNCHANGED <<type, used, checked, padded, refs, pend>>
    BY <1>6 DEF LazyLine, TakeLine, AddLine, flagVars, closeVars, startVars
  <2>. DEFINE v == Append(blk[tip].content, LineText)
  <2>2. v \in Seq(Entry)
    BY <1>2, <1>5
  <2>3. blk' = [blk EXCEPT ![tip] = [blk[tip] EXCEPT !.content = v]]
    BY <2>1
  <2>. HIDE DEF v
  <2>4. FieldsTyped(blk')
    BY <1>2, <2>2, <2>3, FieldTyped, Zenon
  <2>. QED
    BY <1>2, <1>4, <2>1, <2>4 DEF Built, TreeTyped
<1>7. CASE CloseForText \/ GiveToBlock \/ NoText
  <2>1. UNCHANGED <<type, blk, checked, used, padded, pend, lastAdded, refs>>
    BY <1>7 DEF CloseForText, GiveToBlock, NoText, MarkBlank, treeVars, flagVars, closeVars
  <2>. QED
    BY <2>1, NothingBuilt
<1>8. CASE OpenParagraph
  <2>1. /\ pend' = <<Block("para", NewBlk)>>
        /\ UNCHANGED <<type, blk, checked, used, padded, lastAdded, refs>>
    BY <1>8 DEF OpenParagraph, MarkBlank, closeVars
  <2>2. Block("para", NewBlk) \in Pending
    BY NewTyped DEF Block, Pending, BlockTypes
  <2>. HIDE DEF Pending
  <2>3. pend' \in Seq(Pending)
    BY <2>1, <2>2
  <2>. QED
    BY <1>2, <2>1, <2>3 DEF Built, TreeTyped
<1>9. CASE TakeLastHtmlLine
  <2>. DEFINE content == Append(blk[cont].content, LineText)
  <2>1. /\ FinalizeWith(cont, content, lineNo, lineNo) /\ type[cont] = "html"
        /\ lastAdded' = [to |-> tip, toks |-> LineText.toks] /\ UNCHANGED pend
    BY <1>9 DEF TakeLastHtmlLine, EndsHtml, startVars
  <2>2. content \in Seq(Entry)
    BY <1>2, <1>5
  <2>. HIDE DEF content
  <2>3. ClosedTyped
    BY <1>2, <2>1, <2>2, ClosingTyped DEF TreeTyped
  <2>4. UNCHANGED <<type, used>>
    BY <2>1 DEF FinalizeWith
  <2>. QED
    BY <1>2, <1>4, <2>1, <2>3, <2>4, CloseBuilt DEF TreeTyped
<1>. QED
  BY <1>6, <1>7, <1>8, <1>9 DEF Text

\* What is left of a task item's text without its marker.
LEMMA UnmarkedTyped ==
  ASSUME NEW toks \in Seq(Tokens), TaskMarked(toks)
  PROVE  Rest(toks, NextNonspace(toks, [off |-> 1, col |-> 1, part |-> FALSE]).pos) \in Seq(Tokens)
<1>. DEFINE c == [off |-> 1, col |-> 1, part |-> FALSE]
<1>1. Len(toks) \in Nat /\ Len(toks) > 1 /\ toks[1] = "[x]"
  BY DEF TaskMarked
<1>2. ColumnAt(toks, 1) = 1
  <2>1. 1 \in 1..Len(toks) /\ 1 - 1 = 0
    BY <1>1
  <2>2. ColumnAt(toks, 1) = ColumnAt(toks, 0) + Wide(toks, 1, ColumnAt(toks, 0)) /\ ColumnAt(toks, 0) = 0
    BY <1>1, <2>1, ColumnEquation
  <2>3. Wide(toks, 1, 0) = 1
    BY <1>1 DEF Wide, Width, Ordered
  <2>. QED
    BY <2>2, <2>3
<1>3. Agrees(toks, c)
  <2>1. c \in Cursor /\ c.off = 1 /\ c.col = 1 /\ ~c.part
    BY DEF Cursor
  <2>. HIDE DEF c
  <2>. QED
    BY <1>1, <1>2, <2>1 DEF Agrees
<1>. DEFINE i == NextNonspace(toks, c).pos
<1>4. i \in c.off..Len(toks)
  <2>. HIDE DEF c
  <2>. QED
    BY <1>3, NonspaceFacts
<1>5. i \in Nat
  <2>1. c.off = 1
    OBVIOUS
  <2>. HIDE DEF i, c
  <2>. QED
    BY <1>1, <1>4, <2>1
<1>. HIDE DEF i
<1>6. Rest(toks, i) \in Seq(Tokens)
  BY <1>5, RestTyped
<1>. QED
  BY <1>6 DEF i

LEMMA FinishTyped ==
  ASSUME TypeIInv, Finish
  PROVE  Built
<1>1. TreeTyped /\ FieldsTyped(blk) /\ lineNo \in Nat /\ lastLen \in Nat
  BY TypedFacts DEF TreeTyped, ParserTyped
<1>2. CASE EndOfInput
  BY <1>2, NothingBuilt DEF EndOfInput, treeVars, flagVars, closeVars, startVars
<1>3. CASE FinishOne
  <2>1. Finalize(tip, lineNo, lastLen) /\ tip # Nil /\ UNCHANGED <<pend, lastAdded>>
    BY <1>3 DEF FinishOne, startVars
  <2>2. ClosedTyped
    BY <1>1, <2>1, TypedFacts, FinalizeTyped
  <2>3. UNCHANGED <<type, used>>
    BY <2>1 DEF Finalize, FinalizeWith
  <2>. QED
    BY <1>1, <2>1, <2>2, <2>3, CloseBuilt DEF TreeTyped
<1>4. CASE MarkTasks
  <2>. DEFINE unmarked(p) ==
                LET toks == blk[p].content[1].toks
                IN  Rest(toks, NextNonspace(toks, [off |-> 1, col |-> 1, part |-> FALSE]).pos)
              heads == {tree.first[m] : m \in Tasks}
              one(n) == [blk[n] EXCEPT !.task = TRUE]
              two(n) == [blk[n] EXCEPT !.content[1].toks = unmarked(n)]
              f == [n \in Node |-> CASE n \in Tasks -> one(n)
                                     [] n \in {tree.first[m] : m \in Tasks} -> two(n)
                                     [] OTHER -> blk[n]]
  <2>1. /\ blk' = IF ~Gfm THEN blk ELSE f
        /\ UNCHANGED <<type, used, checked, padded, refs, pend, lastAdded>>
    BY <1>4 DEF MarkTasks, flagVars, closeVars, startVars
  <2>2. \A n \in Node : one(n) \in BlockFields
    BY <1>1, RecordTyped DEF FieldsTyped
  <2>3. ASSUME NEW n \in Node, n \in heads PROVE two(n) \in BlockFields
    <3>. DEFINE c == blk[n].content
                e == c[1]
                toks == e.toks
                rest == unmarked(n)
    <3>1. c # <<>> /\ TaskMarked(toks)
      BY <2>3 DEF Tasks
    <3>2. c \in Seq(Entry) /\ blk[n] \in BlockFields
      BY <1>1, RecordTyped DEF FieldsTyped
    <3>3. Len(c) \in Nat /\ 1 \in 1..Len(c)
      BY <3>1, <3>2
    <3>4. e \in Entry
      <4>. HIDE DEF c
      <4>. QED
        BY <3>2, <3>3, ElementOfSeq
    <3>5. toks \in Seq(Tokens)
      <4>. HIDE DEF e
      <4>. QED
        BY <3>4 DEF Entry
    <3>6. rest \in Seq(Tokens)
      <4>. HIDE DEF toks
      <4>1. rest = Rest(toks, NextNonspace(toks, [off |-> 1, col |-> 1, part |-> FALSE]).pos)
        BY DEF toks
      <4>. QED
        BY <3>1, <3>5, <4>1, UnmarkedTyped
    <3>7. two(n) = [blk[n] EXCEPT !.content = [c EXCEPT ![1] = [e EXCEPT !.toks = rest]]]
      <4>. HIDE DEF unmarked
      <4>. QED
        OBVIOUS
    <3>. HIDE DEF unmarked, two, rest
    <3>8. [e EXCEPT !.toks = rest] \in Entry
      <4>. HIDE DEF e
      <4>. QED
        BY <3>4, <3>6 DEF Entry
    <3>. DEFINE d == [e EXCEPT !.toks = rest]
    <3>9. [c EXCEPT ![1] = d] \in Seq(Entry)
      <4>1. d \in Entry
        BY <3>8
      <4>. HIDE DEF c, d, Entry
      <4>2. \A i \in 1..Len(c) : c[i] \in Entry
        BY <3>2, ElementOfSeq
      <4>3. c = [i \in 1..Len(c) |-> c[i]]
        BY <3>2
      <4>. DEFINE L == Len(c)
      <4>4. L \in Nat /\ c = [i \in 1..L |-> c[i]] /\ 1 \in 1..L /\ \A i \in 1..L : c[i] \in Entry
        BY <3>3, <4>2, <4>3
      <4>. HIDE DEF L
      <4>5. [c EXCEPT ![1] = d] = [i \in 1..L |-> IF i = 1 THEN d ELSE c[i]]
        BY <4>4
      <4>6. \A i \in 1..L : (IF i = 1 THEN d ELSE c[i]) \in Entry
        BY <4>1, <4>4
      <4>. QED
        BY <4>4, <4>5, <4>6
    <3>. DEFINE v == [c EXCEPT ![1] = d]
    <3>10. v \in Seq(Entry) /\ two(n) = [blk[n] EXCEPT !.content = v]
      BY <3>7, <3>9
    <3>. HIDE DEF v
    <3>11. [blk[n] EXCEPT !.content = v] \in BlockFields
      BY <3>2, <3>10, RecordTyped
    <3>. QED
      BY <3>10, <3>11, Zenon
  <2>. HIDE DEF one, two
  <2>4. FieldsTyped(f)
    <3>1. \A n \in Node : blk[n] \in BlockFields
      BY <1>1 DEF FieldsTyped
    <3>. HIDE DEF BlockFields
    <3>. QED
      BY <2>2, <2>3, <3>1 DEF FieldsTyped
  <2>. HIDE DEF f
  <2>5. FieldsTyped(blk')
    BY <1>1, <2>1, <2>4
  <2>. QED
    BY <1>1, <2>1, <2>5 DEF Built, TreeTyped
<1>. QED
  BY <1>2, <1>3, <1>4 DEF Finish

NoLine == [pos |-> 0, col |-> 0, indent |-> 0, blank |-> FALSE]

\* What a step makes of the parser's pointers, cursor and counters.
Moves ==
  /\ blankEnd' = blankEnd \/ (blankEnd' = BlankAfter /\ used' = used)
  /\ used' \in {used, used + 1}
  /\ oldtip' = oldtip \/ (pc = "read" /\ oldtip' = tip) \/ CloseOne
  /\ lmc' \in {lmc, cont} /\ allClosed' \in BOOLEAN
  /\ cur' = cur \/ AtWork'
  /\ nx' = nx \/ nx' = NoLine \/ (AtWork /\ nx' = NextNonspace(line, cur))
  /\ si' \in {si, 0, 5}
  /\ lastLen' \in {lastLen, lineNo} /\ prevLen' \in {prevLen, lenBefore}
  /\ lenBefore' \in {lenBefore, lastLen}
  /\ input' = input \/ (Len(input) < MaxLines /\ \E ln \in Lines : input' = Append(input, ln))
  /\ pc' \in {"read", "walk", "starts", "close", "setext", "table", "add", "text", "body",
              "line", "finish", "done"}

LEMMA WalkMoves ==
  ASSUME TypeIInv, ReadLine \/ Walk
  PROVE  Moves
<1>1. allClosed \in BOOLEAN
  BY TypedFacts DEF ParserTyped
<1>2. CASE ReadLine
  BY <1>1, <1>2 DEF ReadLine, Moves, NoLine, AtWork, treeVars, flagVars, startVars
<1>3. CASE ContinueMatched
  BY <1>1, <1>3 DEF ContinueMatched, Moves, AtWork, treeVars, flagVars, spineVars, startVars, lenVars
<1>4. CASE ContinueNotMatched \/ NoMoreOpen
  <2>1. /\ pc = "walk" /\ WalkEnds(cont) /\ nx' \in {nx, NextNonspace(line, cur)}
    BY <1>4 DEF ContinueNotMatched, NoMoreOpen
  <2>2. nx' = nx \/ nx' = NextNonspace(line, cur)
    BY <2>1
  <2>. QED
    BY <1>1, <2>1, <2>2 DEF WalkEnds, Moves, AtWork, treeVars, flagVars, lenVars
<1>5. CASE CloseFence
  BY <1>1, <1>5 DEF CloseFence, Finalize, FinalizeWith, Moves, AtWork, spineVars, startVars
<1>. QED
  BY <1>2, <1>3, <1>4, <1>5 DEF Walk

LEMMA StartMoves ==
  ASSUME TypeIInv, Start
  PROVE  Moves
<1>1. allClosed \in BOOLEAN
  BY TypedFacts DEF ParserTyped
<1>2. /\ pc = "starts" /\ nx' = NextNonspace(line, cur) /\ pc' \in {"close", "text"}
      /\ UNCHANGED <<blankEnd, used, oldtip, lmc, allClosed, si, lastLen, prevLen, lenBefore, input>>
  BY DEF Start, StartQuote, StartHeading, StartFence, StartHtml, StartSetext, StartBreak, StartItem,
         StartIndentedCode, StartTable, NoStart, Begin, treeVars, flagVars, spineVars, lenVars,
         startVars
<1>. QED
  BY <1>1, <1>2 DEF Moves, AtWork

LEMMA OpenMoves ==
  ASSUME TypeIInv, Open
  PROVE  Moves
<1>1. allClosed \in BOOLEAN /\ Pointers
  BY TypedFacts DEF ParserTyped
<1>2. CASE CloseOne
  BY <1>1, <1>2 DEF CloseOne, Finalize, FinalizeWith, Moves, cursorVars, startVars, lenVars
<1>3. CASE AllClosed
  BY <1>1, <1>3 DEF AllClosed, Pointers, Moves, cursorVars, startVars, lenVars, treeVars, flagVars
<1>4. CASE MakeRoom
  BY <1>1, <1>4 DEF MakeRoom, Finalize, FinalizeWith, Moves, spineVars, cursorVars, startVars, lenVars
<1>5. CASE AddChild
  BY <1>1, <1>5 DEF AddChild, Pointers, Moves, spineVars, cursorVars, flagVars, lenVars
<1>. QED
  BY <1>2, <1>3, <1>4, <1>5 DEF Open

LEMMA ConvertMoves ==
  ASSUME TypeIInv, Convert
  PROVE  Moves
<1>1. allClosed \in BOOLEAN
  BY TypedFacts DEF ParserTyped
<1>2. CASE SetextFalls
  BY <1>1, <1>2 DEF SetextFalls, Moves, spineVars, cursorVars, flagVars, lenVars
<1>3. CASE SetextHeading
  BY <1>1, <1>3 DEF SetextHeading, Moves, AtWork, spineVars, flagVars, lenVars, startVars
<1>4. CASE SplitParagraph \/ ReplaceParagraph
  <2>1. OpenTable /\ UNCHANGED <<used, blankEnd>>
    BY <1>4 DEF SplitParagraph, ReplaceParagraph, FinalizeWith, flagVars
  <2>. QED
    BY <1>1, <2>1 DEF OpenTable, Moves, spineVars, cursorVars, lenVars
<1>. QED
  BY <1>2, <1>3, <1>4 DEF Convert

LEMMA TextMoves ==
  ASSUME TypeIInv, Text
  PROVE  Moves
<1>1. allClosed \in BOOLEAN
  BY TypedFacts DEF ParserTyped
<1>2. CASE LazyLine \/ TakeLine
  <2>1. /\ UNCHANGED <<used, blankEnd, oldtip, lmc, allClosed, cur, nx, si, input>> /\ pc' = "read"
        /\ EndLine(lineNo)
    BY <1>2 DEF LazyLine, TakeLine, spineVars, cursorVars, startVars, flagVars
  <2>. QED
    BY <1>1, <2>1 DEF EndLine, Moves
<1>3. CASE CloseForText
  BY <1>1, <1>3 DEF CloseForText, Moves, treeVars, spineVars, cursorVars, flagVars, lenVars
<1>4. CASE GiveToBlock \/ OpenParagraph
  <2>1. /\ MarkBlank /\ UNCHANGED <<nx, lenVars>> /\ pc' \in {"line", "add"}
    BY <1>4 DEF GiveToBlock, OpenParagraph, cursorVars
  <2>. QED
    BY <1>1, <2>1 DEF MarkBlank, Moves, AtWork, spineVars, lenVars
<1>5. CASE NoText
  BY <1>1, <1>5 DEF NoText, MarkBlank, EndLine, Moves, spineVars, cursorVars
<1>6. CASE TakeLastHtmlLine
  BY <1>1, <1>6 DEF TakeLastHtmlLine, FinalizeWith, EndLine, Moves, spineVars, cursorVars, startVars
<1>. QED
  BY <1>2, <1>3, <1>4, <1>5, <1>6 DEF Text

LEMMA FinishMoves ==
  ASSUME TypeIInv, Finish
  PROVE  Moves
<1>1. allClosed \in BOOLEAN
  BY TypedFacts DEF ParserTyped
<1>2. /\ UNCHANGED <<used, blankEnd, oldtip, lmc, allClosed, cur, nx, si, input,
                     lastLen, prevLen, lenBefore>>
      /\ pc' \in {"finish", "done"}
  BY DEF Finish, EndOfInput, FinishOne, MarkTasks, Finalize, FinalizeWith, treeVars, spineVars,
         cursorVars, startVars, flagVars, lenVars
<1>. QED
  BY <1>1, <1>2 DEF Moves

\* Every step leaves the pointers, the cursor and the counters typed.
LEMMA MovesTyped ==
  ASSUME TypeIInv, Moves, OrderIInv', DefsIInv'
  PROVE  ParserTyped'
<1>1. /\ Shape /\ Pointers /\ ParserTyped /\ lineNo \in Nat /\ input \in Seq(Lines)
      /\ used \in Node /\ cont \in 1..used /\ cont \in Node /\ oldtip \in Node /\ lmc \in Node
      /\ tip # Nil => tip \in Node
      /\ pc \notin {"finish", "done"} => tip # Nil
  BY TypedFacts DEF ParserTyped, Pointers
<1>2. blankEnd' \subseteq 1..used'
  <2>1. 1..used \subseteq 1..used' /\ used \in Nat
    <3>1. used \in Nat /\ used' \in {used, used + 1}
      BY <1>1, NodeFacts DEF Moves, Node
    <3>. QED
      BY <3>1
  <2>2. CASE blankEnd' = blankEnd
    BY <1>1, <2>1, <2>2 DEF ParserTyped
  <2>3. CASE blankEnd' = BlankAfter
    <3>1. tree.last[cont] # Nil => tree.last[cont] \in 1..used
      BY <1>1, ShapeLastRises DEF LastRises
    <3>2. SelfAndAbove(tree, cont) \subseteq 1..cont
      <4>1. tree \in Tree /\ Falls(tree)
        BY <1>1, ShapeFalls DEF Shape
      <4>. QED
        BY <1>1, <4>1, AboveBounded
    <3>3. 1..cont \subseteq 1..used
      BY <1>1, <2>1
    <3>. DEFINE above == SelfAndAbove(tree, cont)
                told  == IF nx.blank /\ tree.last[cont] # Nil THEN {tree.last[cont]} ELSE {}
    <3>4. above \subseteq 1..used /\ told \subseteq 1..used /\ blankEnd \subseteq 1..used
      BY <1>1, <3>1, <3>2, <3>3 DEF ParserTyped
    <3>5. \/ BlankAfter = blankEnd \cup told \cup above
          \/ BlankAfter = (blankEnd \cup told) \ above
      BY DEF BlankAfter
    <3>. HIDE DEF above, told
    <3>. QED
      BY <2>1, <2>3, <3>4, <3>5
  <2>. QED
    BY <2>2, <2>3 DEF Moves
<1>3. {oldtip', lmc'} \subseteq Node
  <2>1. lmc' \in Node
    BY <1>1 DEF Moves
  <2>2. CloseOne => oldtip' \in Node
    <3>. SUFFICES ASSUME CloseOne PROVE oldtip' \in Node
      OBVIOUS
    <3>1. /\ oldtip = tip /\ cont = lmc /\ cont \in OnSpine /\ cont # tip /\ tip # Nil
      BY <1>1 DEF Pointers, CloseOne
    <3>2. tip # Doc
      <4>1. cont <= tip /\ cont \in Int /\ 1 <= cont
        BY <1>1, <3>1, SpineFacts DEF Shape, SpineRises
      <4>. QED
        BY <3>1, <4>1 DEF Doc
    <3>3. tree.parent[tip] \in Node
      BY <1>1, <3>1, <3>2, OpenFacts
    <3>. QED
      BY <3>1, <3>3 DEF CloseOne, Above
  <2>. QED
    BY <1>1, <2>1, <2>2 DEF Moves
<1>4. cur' \in Cursor
  <2>1. AtWork' => cur' \in Cursor
    BY DEF DefsIInv, CursorIInv, CursorAtWork, CursorOk, Agrees
  <2>. QED
    BY <1>1, <2>1 DEF Moves, ParserTyped
<1>5. nx' \in [pos : Nat, col : Nat, indent : Nat, blank : BOOLEAN]
  <2>1. CASE nx' = nx
    BY <1>1, <2>1 DEF ParserTyped
  <2>2. CASE nx' = NoLine
    BY <2>2 DEF NoLine
  <2>3. CASE AtWork /\ nx' = NextNonspace(line, cur)
    <3>. DEFINE n == NextNonspace(line, cur)
    <3>1. line \in Seq(Tokens) /\ CursorOk(line, cur)
      BY <2>3, TypedFacts, WorkFacts
    <3>2. n.pos \in cur.off..Len(line) /\ n.col \in Nat /\ n.indent \in Nat /\ n.blank \in BOOLEAN
      BY <3>1, NonspaceFacts DEF CursorOk
    <3>3. n.pos \in Nat
      BY <3>1, <3>2, OkNonspace
    <3>4. n = [pos |-> n.pos, col |-> n.col, indent |-> n.indent, blank |-> n.blank]
      BY DEF NextNonspace
    <3>. HIDE DEF n
    <3>5. n \in [pos : Nat, col : Nat, indent : Nat, blank : BOOLEAN]
      BY <3>2, <3>3, <3>4
    <3>. QED
      BY <2>3, <3>5 DEF n
  <2>. QED
    BY <2>1, <2>2, <2>3 DEF Moves
<1>6. lineNo' \in Nat /\ lineNo <= lineNo' /\ lineNo' <= MaxLines
  <2>1. CASE input' = input
    BY <1>1, <2>1 DEF lineNo, ParserTyped
  <2>2. CASE Len(input) < MaxLines /\ \E ln \in Lines : input' = Append(input, ln)
    <3>1. PICK ln \in Lines : input' = Append(input, ln)
      BY <2>2
    <3>2. Len(input') = Len(input) + 1 /\ Len(input) \in Nat
      BY <1>1, <3>1
    <3>3. MaxLines \in Nat
      BY BlockPhaseAssumption
    <3>. QED
      BY <2>2, <3>2, <3>3 DEF lineNo
  <2>. QED
    BY <2>1, <2>2 DEF Moves
<1>7. {lastLen', prevLen', lenBefore'} \subseteq 0..lineNo'
  <2>1. lastLen \in 0..lineNo /\ prevLen \in 0..lineNo /\ lenBefore \in 0..lineNo
    BY <1>1 DEF ParserTyped
  <2>2. 0..lineNo \subseteq 0..lineNo' /\ lineNo \in 0..lineNo
    <3>. DEFINE l == lineNo
                m == lineNo'
    <3>1. l \in Nat /\ m \in Nat /\ l <= m
      BY <1>1, <1>6
    <3>. HIDE DEF l, m
    <3>2. 0..l \subseteq 0..m /\ l \in 0..l
      BY <3>1
    <3>. QED
      BY <3>2 DEF l, m
  <2>3. lastLen' \in 0..lineNo /\ prevLen' \in 0..lineNo /\ lenBefore' \in 0..lineNo
    BY <2>1, <2>2 DEF Moves
  <2>. QED
    BY <2>2, <2>3
<1>8. /\ allClosed' \in BOOLEAN /\ si' \in {0, 5}
      /\ pc' \in {"read", "walk", "starts", "close", "setext", "table", "add", "text", "body",
                  "line", "finish", "done"}
  BY <1>1 DEF Moves, ParserTyped
<1>. QED
  BY <1>2, <1>3, <1>4, <1>5, <1>6, <1>7, <1>8 DEF ParserTyped

LEMMA StepBuilt == TypeIInv /\ [Next]_vars => Built
<1>1. SUFFICES ASSUME TypeIInv, [Next]_vars PROVE Built
  OBVIOUS
<1>2. CASE UNCHANGED vars \/ Done
  <2>1. UNCHANGED <<type, blk, checked, used, padded, pend, lastAdded, refs>>
    BY <1>2 DEF vars, Done, treeVars, flagVars, closeVars, startVars
  <2>. QED
    BY <1>1, <2>1, NothingBuilt
<1>. QED
  BY <1>1, <1>2, WalkTyped, StartTyped, OpenTyped, ConvertTyped, TextTyped, FinishTyped DEF Next

LEMMA StepMoves == TypeIInv /\ [Next]_vars => Moves
<1>1. SUFFICES ASSUME TypeIInv, [Next]_vars PROVE Moves
  OBVIOUS
<1>2. CASE UNCHANGED vars \/ Done
  <2>1. UNCHANGED <<blankEnd, used, oldtip, lmc, allClosed, cur, nx, si, lenVars, input, pc>>
    BY <1>2 DEF vars, Done, treeVars, flagVars, spineVars, cursorVars, startVars
  <2>2. ParserTyped
    BY <1>1 DEF TypeIInv
  <2>. QED
    BY <2>1, <2>2 DEF Moves, ParserTyped, lenVars
<1>. QED
  BY <1>1, <1>2, WalkMoves, StartMoves, OpenMoves, ConvertMoves, TextMoves, FinishMoves DEF Next

LEMMA StepTyped == TypeIInv /\ [Next]_vars => TypeIInv'
<1>1. SUFFICES ASSUME TypeIInv, [Next]_vars PROVE TypeIInv'
  OBVIOUS
<1>2. OrderIInv' /\ DefsIInv'
  BY <1>1, StepOrdered, StepDefs DEF TypeIInv
<1>3. ParserTyped'
  BY <1>1, <1>2, StepMoves, MovesTyped
<1>4. TreeTyped'
  <2>1. Built
    BY <1>1, StepBuilt
  <2>2. refs' \in [Labels -> Nat]
    <3>1. refs \in [Labels -> Nat]
      BY <1>1 DEF TypeIInv, TreeTyped
    <3>. QED
      BY <1>2, <2>1, <3>1, RefsTyped DEF Built
  <2>. QED
    BY <2>1, <2>2 DEF Built, TreeTyped
<1>. QED
  BY <1>2, <1>3, <1>4 DEF TypeIInv

LEMMA TypeInit == Init => TypeIInv
<1>1. SUFFICES ASSUME Init PROVE TreeTyped /\ ParserTyped
  BY OrderInit, DefsInit DEF TypeIInv
<1>2. FieldsTyped(blk)
  <2>1. NewBlk \in BlockFields /\ [NewBlk EXCEPT !.start = 1] \in BlockFields
    BY NewTyped, RecordTyped
  <2>2. blk = [n \in Node |-> IF n = Doc THEN [NewBlk EXCEPT !.start = 1] ELSE NewBlk]
    BY <1>1 DEF Init
  <2>. DEFINE first == [NewBlk EXCEPT !.start = 1]
  <2>. HIDE DEF first, BlockFields
  <2>3. first \in BlockFields /\ blk = [n \in Node |-> IF n = Doc THEN first ELSE NewBlk]
    BY <2>1, <2>2 DEF first
  <2>. QED
    BY <2>1, <2>3 DEF FieldsTyped
<1>3. /\ type \in [Node -> BlockTypes] /\ checked \subseteq 1..used /\ padded \in 0..MaxPadding
      /\ pend \in Seq(Pending) /\ lastAdded \in Addition /\ refs \in [Labels -> Nat]
  BY <1>1, NodeFacts, BlockPhaseAssumption DEF Init, BlockTypes, Addition, Link
<1>4. ParserTyped
  BY <1>1, NodeFacts, BlockPhaseAssumption DEF Init, ParserTyped, LineStart, Cursor, lineNo, Doc
<1>. QED
  BY <1>2, <1>3, <1>4 DEF TreeTyped

\* Whatever lines a document holds, every field of the parser and of the blocks
\* it makes keeps its type: no count goes below zero, no row has a negative
\* width, no list of open starts, contents or rows holds anything else, every
\* pointer names a block the arena has given out, and the cells that were filled
\* in never exceed the document's budget.
THEOREM TypeCorrect == Spec => []TypeOK
<1>1. Init => TypeIInv
  BY TypeInit
<1>2. TypeIInv /\ [Next]_vars => TypeIInv'
  BY StepTyped
<1>3. TypeIInv => TypeOK
  BY TypesHold
<1>. QED
  BY <1>1, <1>2, <1>3, PTL DEF Spec

(***************************************************************************)
(* Rows of tables: the strengthening                                       *)
(***************************************************************************)
\* The rows of a block whose fields are b, when `spent` cells were filled in.
RowsFine(b, spent) ==
  \A i \in 1..Len(b.rows) : /\ b.rows[i].at = b.rows[i].src
                            /\ b.rows[i].cells < b.cols => spent = MaxPadding

RowsKept == \A n \in Node : RowsFine(blk[n], padded)

\* A table waits to be opened with its header row and no other line.
PendRows ==
  Opening => \A i \in 1..Len(pend) :
               /\ RowsFine(pend[i].blk, padded)
               /\ pend[i].type = "table" => pend[i].blk.content = <<>>

\* A table at the tip has taken every line from its delimiter row on.
TableText ==
  tip # Nil /\ type[tip] = "table" =>
    /\ Len(blk[tip].content) = LastDone - blk[tip].start
    /\ \A i \in 1..Len(blk[tip].content) : blk[tip].content[i].at = blk[tip].start + i

\* The line that is to be the header row is as wide as the delimiter row.
HeaderWide ==
  pc = "table" \/ (pc = "close" /\ goal = "table") =>
    Cells(lastAdded.toks) = DelimiterColumns(line, nx.pos)

RowsIInv == TypeIInv /\ RowsKept /\ PendRows /\ TableText /\ HeaderWide

LEMMA RowsFacts ==
  ASSUME RowsIInv
  PROVE  /\ Shape /\ Pointers /\ ContainedIInv /\ Runs /\ Lengths /\ AtBody /\ AtTip
         /\ lineNo \in Nat /\ LastDone \in Nat /\ input \in Seq(Lines)
         /\ RowsKept /\ PendRows /\ TableText /\ HeaderWide /\ CursorIInv
         /\ \A n \in Node : blk[n] \in BlockFields
         /\ DOMAIN blk = Node /\ DOMAIN type = Node /\ type \in [Node -> BlockTypes]
         /\ padded \in 0..MaxPadding /\ MaxPadding \in Nat
         /\ pend \in Seq(Pending) /\ lastAdded.toks \in Seq(Tokens)
<1>1. /\ TypeIInv /\ RowsKept /\ PendRows /\ TableText /\ HeaderWide
  BY DEF RowsIInv
<1>2. /\ Shape /\ Pointers /\ ContainedIInv /\ Runs /\ Lengths /\ lineNo \in Nat
      /\ input \in Seq(Lines) /\ TreeTyped /\ CursorIInv
  BY <1>1, TypedFacts
<1>3. AtBody /\ AtTip /\ LastDone \in Nat
  BY <1>1, DefsFactsHold, DatedFacts DEF TypeIInv, DatedIInv, Clock, DefsFacts
<1>4. MaxPadding \in Nat
  BY BlockPhaseAssumption
<1>5. lastAdded.toks \in Seq(Tokens)
  BY <1>2 DEF TreeTyped, Addition
<1>. QED
  BY <1>1, <1>2, <1>3, <1>4, <1>5 DEF TreeTyped, FieldsTyped

\* Rows that were fine stay fine while the budget is drawn on.
LEMMA FineStays ==
  ASSUME NEW b, NEW c, NEW s, NEW t, RowsFine(b, s), c.rows = b.rows, c.cols = b.cols,
         s \in 0..MaxPadding, t \in 0..MaxPadding, s <= t, MaxPadding \in Nat
  PROVE  RowsFine(c, t)
  BY DEF RowsFine

LEMMA NoRowsFine ==
  ASSUME NEW b, b.rows = <<>>, NEW s
  PROVE  RowsFine(b, s)
  BY DEF RowsFine

SameRow(n) == blk'[n].rows = blk[n].rows /\ blk'[n].cols = blk[n].cols

\* A step that touches no row.
LEMMA RowsStay ==
  ASSUME RowsIInv, \A n \in Node : SameRow(n), UNCHANGED padded
  PROVE  RowsKept'
<1>1. /\ RowsKept /\ padded \in 0..MaxPadding /\ MaxPadding \in Nat /\ padded <= padded
  BY RowsFacts
<1>. SUFFICES ASSUME NEW n \in Node PROVE RowsFine(blk'[n], padded)
  BY DEF RowsKept
<1>. DEFINE b == blk[n]
            c == blk'[n]
<1>2. RowsFine(b, padded) /\ c.rows = b.rows /\ c.cols = b.cols
  BY <1>1 DEF RowsKept, SameRow
<1>. HIDE DEF b, c
<1>3. RowsFine(c, padded)
  BY <1>1, <1>2, FineStays
<1>. QED
  BY <1>3 DEF c

\* A step that opens nothing new.
LEMMA PendStays ==
  ASSUME RowsIInv, UNCHANGED pend, Opening' => Opening, padded' \in 0..MaxPadding, padded <= padded'
  PROVE  PendRows'
<1>1. /\ PendRows /\ padded \in 0..MaxPadding /\ MaxPadding \in Nat
  BY RowsFacts
<1>. SUFFICES ASSUME Opening, NEW i \in 1..Len(pend)
              PROVE  /\ RowsFine(pend[i].blk, padded')
                     /\ pend[i].type = "table" => pend[i].blk.content = <<>>
  BY DEF PendRows
<1>. DEFINE b == pend[i].blk
<1>2. RowsFine(b, padded) /\ (pend[i].type = "table" => pend[i].blk.content = <<>>)
  BY <1>1 DEF PendRows
<1>. HIDE DEF b
<1>3. RowsFine(b, padded')
  BY <1>1, <1>2, FineStays
<1>. QED
  BY <1>2, <1>3 DEF b

LEMMA TableStays ==
  ASSUME RowsIInv, UNCHANGED <<tip, type>>, LastDone' = LastDone,
         tip # Nil /\ type[tip] = "table" => /\ blk'[tip].content = blk[tip].content
                                             /\ blk'[tip].start = blk[tip].start
  PROVE  TableText'
  BY RowsFacts DEF TableText

(***************************************************************************)
(* Closing                                                                 *)
(***************************************************************************)
LEMMA ClosingRow ==
  ASSUME RowsIInv, tip # Nil, NEW content, NEW at, NEW of, FinalizeWith(tip, content, at, of)
  PROVE  /\ \A n \in Node \ {tip} : SameRow(n)
         /\ blk'[tip].cols = blk[tip].cols
         /\ blk'[tip].rows = IF type[tip] = "table" THEN BodyRows(tip).rows ELSE blk[tip].rows
<1>. DEFINE k     == IF type[tip] = "para" THEN Definitions(content) ELSE 0
            e     == EndOf(tip, at, of)
            left  == AfterDefinitions(content, k)
            dated == [blk EXCEPT ![tip].end = e[1], ![tip].of = e[2], ![tip].content = left]
            rows  == BodyRows(tip).rows
            child == tree.first[tip]
            Row2  == {"rows", "cols", "content", "tight"}
<1>1. \/ type[tip] = "table" /\ blk' = [dated EXCEPT ![tip].rows = rows, ![tip].content = <<>>]
      \/ type[tip] # "table" /\ blk' = [dated EXCEPT ![tip].tight = FALSE, ![child].tight = FALSE]
      \/ type[tip] # "table" /\ blk' = dated
  <2>. HIDE DEF k, e, left, rows, child
  <2>. QED
    BY DEF FinalizeWith, k, e, left, rows, child
<1>. HIDE DEF k, e, left, rows, child
<1>2. tip \in Node /\ DOMAIN blk = Node /\ \A n \in Node : Row2 \subseteq DOMAIN blk[n]
  <2>1. tip \in Node
    BY RowsFacts, OpenFacts
  <2>2. DOMAIN blk = Node /\ \A n \in Node : blk[n] \in BlockFields
    BY RowsFacts
  <2>3. \A b \in BlockFields : Row2 \subseteq DOMAIN b
    BY DEF BlockFields
  <2>. QED
    BY <2>1, <2>2, <2>3
<1>3. /\ DOMAIN dated = Node /\ \A n \in Node : n # tip => dated[n] = blk[n]
      /\ \A n \in Node : Row2 \subseteq DOMAIN dated[n]
      /\ dated[tip].rows = blk[tip].rows /\ dated[tip].cols = blk[tip].cols
  BY <1>2
<1>. HIDE DEF dated
<1>. SUFFICES /\ \A n \in Node \ {tip} : SameRow(n)
              /\ blk'[tip].cols = blk[tip].cols
              /\ blk'[tip].rows = IF type[tip] = "table" THEN rows ELSE blk[tip].rows
  BY DEF rows
<1>4. CASE type[tip] = "table" /\ blk' = [dated EXCEPT ![tip].rows = rows, ![tip].content = <<>>]
  BY <1>2, <1>3, <1>4 DEF SameRow
<1>5. CASE type[tip] # "table" /\ blk' = dated
  BY <1>2, <1>3, <1>5 DEF SameRow
<1>6. CASE type[tip] # "table" /\ blk' = [dated EXCEPT ![tip].tight = FALSE, ![child].tight = FALSE]
  <2>. DEFINE f    == [dated EXCEPT ![tip].tight = FALSE]
              g(n) == [f[n] EXCEPT !.tight = FALSE]
  <2>1. DOMAIN f = Node /\ \A n \in Node : n # tip => f[n] = blk[n]
    BY <1>2, <1>3
  <2>2. /\ f[tip].rows = blk[tip].rows /\ f[tip].cols = blk[tip].cols
        /\ Row2 \subseteq DOMAIN f[tip]
    BY <1>2, <1>3
  <2>3. blk' = [f EXCEPT ![child] = g(child)]
    BY <1>6
  <2>4. \A n \in Node : Row2 \subseteq DOMAIN f[n] => g(n).rows = f[n].rows /\ g(n).cols = f[n].cols
    OBVIOUS
  <2>. HIDE DEF f, g, Row2
  <2>5. \A n \in Node : blk'[n].rows = f[n].rows /\ blk'[n].cols = f[n].cols
    <3>. TAKE n \in Node
    <3>1. Row2 \subseteq DOMAIN f[n]
      BY <1>2, <2>1, <2>2
    <3>2. blk'[n] = f[n] \/ blk'[n] = g(n)
      BY <2>1, <2>3
    <3>. QED
      BY <2>4, <3>1, <3>2
  <2>. QED
    BY <1>2, <1>6, <2>1, <2>2, <2>5 DEF SameRow
<1>. QED
  BY <1>1, <1>4, <1>5, <1>6

\* A table's lines become rows, each dated by its place below the header row,
\* which is the line it was read from.
LEMMA BodyRowsFine ==
  ASSUME RowsIInv, tip # Nil, type[tip] = "table"
  PROVE  /\ RowsFine([rows |-> BodyRows(tip).rows, cols |-> blk[tip].cols], BodyRows(tip).padded)
         /\ padded <= BodyRows(tip).padded /\ BodyRows(tip).padded \in 0..MaxPadding
<1>. DEFINE b    == blk[tip]
            c    == b.content
            old  == b.rows
            r    == BodyRows(tip)
            rs   == r.rows
            L    == Len(old)
            N    == Len(c)
            cols == b.cols
<1>1. tip \in Node /\ b \in BlockFields /\ padded \in 0..MaxPadding /\ MaxPadding \in Nat
  BY RowsFacts, OpenFacts
<1>2. old \in Seq(Row) /\ c \in Seq(Entry) /\ cols \in Nat /\ b.start \in Nat
  BY <1>1, RecordTyped
<1>3. RowsOf(tip, old, r, Len(c))
  BY <1>1, <1>2, BodyRowsFacts
<1>4. L \in Nat /\ N \in Nat
  BY <1>2
<1>5. \A i \in 1..N : c[i].at = b.start + i
  BY <1>1, RowsFacts DEF TableText
<1>6. RowsFine(b, padded)
  BY <1>1, RowsFacts DEF RowsKept
<1>7. /\ r \in Rows /\ padded <= r.padded
      /\ Len(rs) = L + (IF N < 2 THEN 0 ELSE N - 1)
      /\ \A i \in 1..L : rs[i] = old[i]
      /\ \A i \in 2..N : /\ rs[L + i - 1].at = b.start + i /\ rs[L + i - 1].src = c[i].at
                         /\ rs[L + i - 1].cells < cols => r.padded = MaxPadding
  BY <1>3 DEF RowsOf, BodyRowLine
<1>8. \A i \in 1..L : old[i].at = old[i].src /\ (old[i].cells < cols => padded = MaxPadding)
  BY <1>6 DEF RowsFine
<1>. HIDE DEF c, old, rs, L, N, cols, r
<1>9. r.padded \in 0..MaxPadding
  BY <1>7 DEF Rows
<1>10. ASSUME NEW j \in 1..Len(rs)
       PROVE  rs[j].at = rs[j].src /\ (rs[j].cells < cols => r.padded = MaxPadding)
  <2>1. CASE j <= L
    <3>1. j \in 1..L
      BY <1>4, <1>7, <2>1
    <3>2. padded = MaxPadding => r.padded = MaxPadding
      BY <1>1, <1>7, <1>9
    <3>. QED
      BY <1>7, <1>8, <3>1, <3>2
  <2>2. CASE ~(j <= L)
    <3>. DEFINE i == j - L + 1
    <3>1. i \in 2..N /\ L + i - 1 = j
      BY <1>4, <1>7, <2>2
    <3>2. i \in 1..N
      BY <1>4, <3>1
    <3>. HIDE DEF i
    <3>3. rs[j].at = b.start + i /\ rs[j].src = c[i].at /\ c[i].at = b.start + i
          /\ (rs[j].cells < cols => r.padded = MaxPadding)
      BY <1>5, <1>7, <3>1, <3>2
    <3>. QED
      BY <3>3
  <2>. QED
    BY <2>1, <2>2
<1>11. RowsFine([rows |-> rs, cols |-> cols], r.padded)
  BY <1>10 DEF RowsFine
<1>. QED
  BY <1>7, <1>9, <1>11 DEF rs, cols, r

\* What closing the tip leaves.
LEMMA ClosingRows ==
  ASSUME RowsIInv, tip # Nil, NEW content, NEW at, NEW of, FinalizeWith(tip, content, at, of)
  PROVE  RowsKept' /\ TableText' /\ padded' \in 0..MaxPadding /\ padded <= padded'
<1>1. /\ Shape /\ RowsKept /\ padded \in 0..MaxPadding /\ MaxPadding \in Nat /\ tip \in Node
  BY RowsFacts, OpenFacts
<1>2. /\ UNCHANGED type /\ tip' = tree.parent[tip]
      /\ padded' = IF type[tip] = "table" THEN BodyRows(tip).padded ELSE padded
  BY DEF FinalizeWith
<1>3. padded' \in 0..MaxPadding /\ padded <= padded'
  BY <1>1, <1>2, BodyRowsFine
<1>4. RowsKept'
  <2>. SUFFICES ASSUME NEW n \in Node PROVE RowsFine(blk'[n], padded')
    BY DEF RowsKept
  <2>. DEFINE b == blk[n]
              c == blk'[n]
  <2>1. RowsFine(b, padded)
    BY <1>1 DEF RowsKept
  <2>2. CASE n = tip /\ type[tip] = "table"
    <3>. DEFINE d == [rows |-> BodyRows(tip).rows, cols |-> blk[tip].cols]
    <3>1. RowsFine(d, padded')
      BY <1>2, <2>2, BodyRowsFine
    <3>2. c.rows = d.rows /\ c.cols = d.cols
      BY <2>2, ClosingRow
    <3>. HIDE DEF c, d
    <3>3. RowsFine(c, padded')
      BY <1>1, <1>3, <3>1, <3>2, FineStays
    <3>. QED
      BY <3>3 DEF c
  <2>3. CASE ~(n = tip /\ type[tip] = "table")
    <3>1. c.rows = b.rows /\ c.cols = b.cols
      BY <2>3, ClosingRow DEF SameRow
    <3>. HIDE DEF b, c
    <3>2. RowsFine(c, padded')
      BY <1>1, <1>3, <2>1, <3>1, FineStays
    <3>. QED
      BY <3>2 DEF c
  <2>. QED
    BY <2>2, <2>3
<1>5. tip' # Nil => type'[tip'] # "table"
  <2>1. tip # Doc => tip' \in OnSpine /\ tree.last[tip'] = tip /\ tip' \in Node
    BY <1>1, <1>2, TipBelow
  <2>2. tip = Doc => tip' = Nil
    BY <1>1, <1>2 DEF Shape
  <2>. QED
    BY <1>1, <1>2, <2>1, <2>2, NodeFacts DEF Shape, LeavesAreBare, Containers
<1>. QED
  BY <1>3, <1>4, <1>5 DEF TableText

(***************************************************************************)
(* The steps                                                               *)
(***************************************************************************)
RowStep == RowsKept' /\ PendRows' /\ TableText'

\* A step on a line that stays on it.
LEMMA SameDone ==
  ASSUME UNCHANGED input, Mid' = Mid
  PROVE  LastDone' = LastDone
  BY DEF LastDone, lineNo

LEMMA NothingRows ==
  ASSUME RowsIInv, UNCHANGED <<blk, type, tip, padded>>, LastDone' = LastDone
  PROVE  RowsKept' /\ TableText'
  BY RowsStay, TableStays DEF SameRow

LEMMA WalkRows ==
  ASSUME RowsIInv, ReadLine \/ Walk
  PROVE  RowStep
<1>1. /\ lineNo \in Nat /\ input \in Seq(Lines) /\ padded \in 0..MaxPadding /\ MaxPadding \in Nat
  BY RowsFacts
<1>2. UNCHANGED pend /\ pc' \notin {"close", "add"}
  BY DEF ReadLine, Walk, ContinueMatched, ContinueNotMatched, NoMoreOpen, CloseFence, WalkEnds,
         startVars
<1>3. ~Opening'
  BY <1>2 DEF Opening
<1>4. PendRows'
  BY <1>3 DEF PendRows
<1>5. CASE ReadLine
  <2>1. UNCHANGED <<blk, type, tip, padded>> /\ pc = "read" /\ pc' = "walk"
    BY <1>5 DEF ReadLine, treeVars, closeVars
  <2>2. lineNo' = lineNo + 1
    <3>1. PICK ln \in Lines : input' = Append(input, ln)
      BY <1>5 DEF ReadLine
    <3>. QED
      BY <1>1, <3>1 DEF lineNo
  <2>3. LastDone' = LastDone
    BY <1>1, <2>1, <2>2 DEF LastDone, Mid
  <2>. QED
    BY <1>4, <2>1, <2>3, NothingRows DEF RowStep
<1>6. CASE ContinueMatched \/ ContinueNotMatched \/ NoMoreOpen
  <2>1. /\ UNCHANGED <<blk, type, tip, padded, input>> /\ pc = "walk"
        /\ pc' \in {"walk", "text", "starts"}
    BY <1>6 DEF ContinueMatched, ContinueNotMatched, NoMoreOpen, WalkEnds, treeVars, closeVars
  <2>2. LastDone' = LastDone
    BY <2>1, SameDone DEF Mid
  <2>. QED
    BY <1>4, <2>1, <2>2, NothingRows DEF RowStep
<1>7. CASE CloseFence
  <2>. DEFINE child == NextOpen(cont)
  <2>1. pc = "walk" /\ child # Nil /\ type[child] = "code" /\ Finalize(child, lineNo, lineNo)
    BY <1>7 DEF CloseFence, ClosesCode, Fenced
  <2>2. child = tip /\ tip # Nil
    BY <2>1, RowsFacts, WalkFacts, LeafIsTip DEF Containers, ContainedIInv
  <2>. HIDE DEF child
  <2>. QED
    BY <1>4, <2>1, <2>2, ClosingRows DEF Finalize, RowStep
<1>. QED
  BY <1>5, <1>6, <1>7 DEF Walk

\* What a start leaves to be opened has no row yet.
NoRows(b) == b.type # "table" /\ b.blk.rows = <<>>

LEMMA NoRowsPend ==
  ASSUME RowsIInv, NEW s, \A i \in 1..Len(s) : NoRows(s[i]), pend' = s
  PROVE  PendRows'
  BY NoRowsFine DEF PendRows, NoRows

LEMMA StartRows ==
  ASSUME RowsIInv, Start
  PROVE  RowStep
<1>. DEFINE bare(f) == f.rows = <<>>
<1>1. /\ bare(NewBlk)
      /\ \A x : bare([NewBlk EXCEPT !.content = x]) /\ bare([NewBlk EXCEPT !.kind = x])
      /\ \A x, y : /\ bare([NewBlk EXCEPT !.fence = x, !.inset = y])
                   /\ bare([NewBlk EXCEPT !.mark = x, !.indent = y])
  BY DEF NewBlk
<1>2. ASSUME NEW t, t # "table", NEW f, bare(f) PROVE NoRows(Block(t, f))
  BY <1>2 DEF NoRows, Block
<1>3. /\ pc = "starts" /\ pc' \in {"close", "text"} /\ UNCHANGED <<blk, type, tip, padded, input>>
      /\ \/ pc' = "text" \/ goal' # "add"
         \/ \E b : pend' = <<b>> /\ NoRows(b)
         \/ \E b, c : pend' = <<b, c>> /\ NoRows(b) /\ NoRows(c)
  <2>1. CASE StartQuote
    BY <1>1, <1>2, <2>1 DEF StartQuote, Begin, treeVars, closeVars
  <2>2. CASE StartHeading
    <3>1. PICK x : pend' = <<Block("heading", [NewBlk EXCEPT !.content = x])>>
      BY <2>2 DEF StartHeading, Begin
    <3>2. NoRows(Block("heading", [NewBlk EXCEPT !.content = x]))
      BY <1>1, <1>2
    <3>. QED
      BY <2>2, <3>1, <3>2 DEF StartHeading, Begin, treeVars, closeVars
  <2>3. CASE StartFence
    <3>1. PICK x, y : pend' = <<Block("code", [NewBlk EXCEPT !.fence = x, !.inset = y])>>
      BY <2>3 DEF StartFence, Begin
    <3>2. NoRows(Block("code", [NewBlk EXCEPT !.fence = x, !.inset = y]))
      BY <1>1, <1>2
    <3>. QED
      BY <2>3, <3>1, <3>2 DEF StartFence, Begin, treeVars, closeVars
  <2>4. CASE StartHtml
    <3>1. PICK x : pend' = <<Block("html", [NewBlk EXCEPT !.kind = x])>>
      BY <2>4 DEF StartHtml, Begin
    <3>2. NoRows(Block("html", [NewBlk EXCEPT !.kind = x]))
      BY <1>1, <1>2
    <3>. QED
      BY <2>4, <3>1, <3>2 DEF StartHtml, Begin, treeVars, closeVars
  <2>5. CASE StartBreak \/ StartIndentedCode
    BY <1>1, <1>2, <2>5 DEF StartBreak, StartIndentedCode, Begin, treeVars, closeVars
  <2>6. CASE StartItem
    <3>. DEFINE n    == NextNonspace(line, cur)
                m    == ListMarker(line, n)
                data == [NewBlk EXCEPT !.mark = ListMark(Tok(line, n.pos)), !.indent = m.indent]
                b    == Block("list", data)
                c    == Block("item", data)
    <3>1. /\ pc = "starts" /\ pc' = "close" /\ UNCHANGED <<blk, type, tip, padded, input>>
          /\ pend' = IF SameList(n) THEN <<c>> ELSE <<b, c>>
      BY <2>6 DEF StartItem, Begin, treeVars, closeVars
    <3>2. NoRows(b) /\ NoRows(c)
      <4>1. bare(data)
        BY <1>1
      <4>. HIDE DEF data, bare
      <4>. QED
        BY <1>2, <4>1
    <3>. HIDE DEF b, c, n
    <3>. QED
      BY <3>1, <3>2
  <2>7. CASE StartSetext \/ StartTable
    BY <2>7 DEF StartSetext, StartTable, Begin, treeVars, closeVars
  <2>8. CASE NoStart
    BY <2>8 DEF NoStart, treeVars, closeVars
  <2>. QED
    BY <2>1, <2>2, <2>3, <2>4, <2>5, <2>6, <2>7, <2>8 DEF Start
<1>4. LastDone' = LastDone
  BY <1>3, SameDone DEF Mid
<1>5. PendRows'
  <2>1. CASE pc' = "text" \/ goal' # "add"
    <3>1. ~Opening'
      BY <1>3, <2>1 DEF Opening
    <3>. QED
      BY <3>1 DEF PendRows
  <2>2. CASE \E b : pend' = <<b>> /\ NoRows(b)
    BY <2>2, NoRowsPend
  <2>3. CASE \E b, c : pend' = <<b, c>> /\ NoRows(b) /\ NoRows(c)
    BY <2>3, NoRowsPend
  <2>. QED
    BY <1>3, <2>1, <2>2, <2>3
<1>. QED
  BY <1>3, <1>4, <1>5, NothingRows DEF RowStep

LEMMA OpenRows ==
  ASSUME RowsIInv, Open
  PROVE  RowStep
<1>1. /\ pc \in {"close", "add"} /\ UNCHANGED input /\ Mid /\ tip # Nil /\ tip \in Node /\ Shape
      /\ lineNo \in Nat /\ lineNo > 0 /\ padded \in 0..MaxPadding /\ MaxPadding \in Nat
  <2>1. pc \in {"close", "add"} /\ UNCHANGED input
    BY DEF Open, CloseOne, AllClosed, MakeRoom, AddChild
  <2>2. tip # Nil /\ Mid
    BY <2>1, RowsFacts DEF Pointers, Mid
  <2>. QED
    BY <2>1, <2>2, RowsFacts, OpenFacts DEF Lengths
<1>2. CASE CloseOne \/ MakeRoom
  <2>1. \E of : FinalizeWith(tip, blk[tip].content, LineAbove, of)
    BY <1>1, <1>2, RowsFacts DEF CloseOne, MakeRoom, Finalize, Pointers
  <2>2. RowsKept' /\ TableText' /\ padded' \in 0..MaxPadding /\ padded <= padded'
    BY <1>1, <2>1, ClosingRows
  <2>3. UNCHANGED pend /\ (Opening' => Opening)
    BY <1>2 DEF CloseOne, MakeRoom, startVars, Opening
  <2>. QED
    BY <2>2, <2>3, PendStays DEF RowStep
<1>3. CASE AllClosed
  <2>1. /\ UNCHANGED <<blk, type, tip, padded, pend, goal>> /\ pc = "close" /\ pc' = goal
    BY <1>3 DEF AllClosed, treeVars, closeVars, startVars
  <2>2. goal \in {"add", "setext", "table", "body"}
    BY RowsFacts DEF Pointers
  <2>3. Mid' /\ (Opening' => Opening)
    BY <2>1, <2>2 DEF Mid, Opening
  <2>4. LastDone' = LastDone
    BY <1>1, <2>3, SameDone
  <2>5. padded' \in 0..MaxPadding /\ padded <= padded'
    BY <1>1, <2>1
  <2>. QED
    BY <2>1, <2>3, <2>4, <2>5, NothingRows, PendStays DEF RowStep
<1>4. CASE AddChild
  <2>. DEFINE start == IF pend[1].type = "table" THEN lineNo - 1 ELSE lineNo
              new   == used + 1
              b     == pend[1].blk
              c     == [b EXCEPT !.start = start]
  <2>1. /\ pc = "add" /\ blk' = [blk EXCEPT ![new] = c] /\ used < MaxNodes
        /\ type' = [type EXCEPT ![new] = pend[1].type] /\ tip' = new
        /\ pend' = Tail(pend) /\ UNCHANGED padded
        /\ pc' \in {after, "add"}
    BY <1>4 DEF AddChild, closeVars
  <2>2. new \in Node /\ DOMAIN blk = Node /\ DOMAIN type = Node
    BY <1>1, <2>1, RowsFacts, MaxNodesAssumption DEF Shape, Node
  <2>3. /\ pend \in Seq(Pending) /\ Len(pend) \in Nat /\ 1 \in 1..Len(pend)
        /\ PendRows /\ RowsKept /\ after \in {"starts", "text", "line"}
    <3>1. (\E x : pend = <<x>>) \/ (\E x, y : pend = <<x, y>>)
      BY <2>1, RowsFacts DEF ContainedIInv, ListsForItems, Opening
    <3>2. Len(pend) \in Nat /\ 1 \in 1..Len(pend)
      BY <3>1
    <3>. QED
      BY <3>2, RowsFacts DEF Pointers
  <2>4. b \in BlockFields
    <3>1. pend[1] \in Pending
      <4>. HIDE DEF Pending
      <4>. QED
        BY <2>3, ElementOfSeq
    <3>. QED
      BY <3>1 DEF Pending
  <2>5. /\ RowsFine(b, padded) /\ (pend[1].type = "table" => b.content = <<>>)
    BY <2>1, <2>3 DEF PendRows, Opening
  <2>6. c.rows = b.rows /\ c.cols = b.cols /\ c.content = b.content /\ c.start = start
    BY <2>4 DEF BlockFields
  <2>. HIDE DEF b, c, start
  <2>7. RowsKept'
    <3>. SUFFICES ASSUME NEW n \in Node PROVE RowsFine(blk'[n], padded)
      BY <2>1 DEF RowsKept
    <3>1. RowsFine(c, padded)
      <4>1. padded <= padded
        BY <1>1
      <4>. QED
        BY <1>1, <2>5, <2>6, <4>1, FineStays
    <3>2. blk'[n] = c \/ blk'[n] = blk[n]
      BY <2>1, <2>2
    <3>3. RowsFine(blk[n], padded)
      BY <2>3 DEF RowsKept
    <3>. QED
      BY <3>1, <3>2, <3>3
  <2>8. TableText'
    <3>1. type'[tip'] = pend[1].type /\ blk'[tip'] = c
      BY <2>1, <2>2
    <3>2. Mid' /\ lineNo' = lineNo
      BY <1>1, <2>1, <2>3 DEF Mid, lineNo
    <3>3. LastDone' = lineNo - 1
      BY <3>2 DEF LastDone
    <3>4. type'[tip'] = "table" => c.content = <<>> /\ c.start = LastDone'
      BY <2>5, <2>6, <3>1, <3>3 DEF start
    <3>5. LastDone' \in Int
      BY <1>1, <3>3
    <3>. QED
      BY <3>1, <3>4, <3>5 DEF TableText
  <2>9. PendRows'
    <3>1. \A i \in 1..Len(pend') : i + 1 \in 1..Len(pend) /\ pend'[i] = pend[i + 1]
      <4>. HIDE DEF Pending
      <4>1. pend # <<>>
        BY <2>3
      <4>2. Len(Tail(pend)) = Len(pend) - 1 /\ \A i \in 1..(Len(pend) - 1) : Tail(pend)[i] = pend[i + 1]
        BY <2>3, <4>1
      <4>. QED
        BY <2>1, <2>3, <4>2
    <3>. QED
      BY <2>1, <2>3, <3>1 DEF PendRows, Opening
  <2>. QED
    BY <2>7, <2>8, <2>9 DEF RowStep
<1>. QED
  BY <1>2, <1>3, <1>4 DEF Open

\* The table's header row is the last line of the paragraph, and no shorter
\* than the delimiter row below it.
LEMMA HeaderRow ==
  ASSUME RowsIInv, OpenTable, padded' \in 0..MaxPadding, padded <= padded'
  PROVE  PendRows'
<1>. DEFINE cols == DelimiterColumns(line, nx.pos)
            none == [rows |-> <<>>, padded |-> padded]
            w    == WithRow(none, cols, lastAdded.toks, lineNo - 1, lineNo - 1)
            f    == [NewBlk EXCEPT !.cols = cols, !.rows = w.rows]
<1>1. pc = "table" /\ pend' = <<Block("table", f)>>
  BY DEF OpenTable
<1>2. Cells(lastAdded.toks) = cols /\ cols \in Nat
  BY <1>1, RowsFacts, LexisTyped DEF HeaderWide
<1>. HIDE DEF cols
<1>3. w.rows = <<[at |-> lineNo - 1, src |-> lineNo - 1, cells |-> cols]>>
  BY <1>2 DEF WithRow
<1>4. f.rows = w.rows /\ f.cols = cols /\ f.content = <<>>
  BY DEF NewBlk
<1>. HIDE DEF f, w
<1>5. RowsFine(f, padded')
  BY <1>2, <1>3, <1>4 DEF RowsFine
<1>. QED
  BY <1>1, <1>4, <1>5 DEF PendRows, Block

LEMMA ConvertRows ==
  ASSUME RowsIInv, Convert
  PROVE  RowStep
<1>1. /\ pc \in {"setext", "table"} /\ UNCHANGED input /\ Shape /\ tip # Nil
      /\ type[cont] = "para" /\ cont \in OnSpine /\ padded \in 0..MaxPadding /\ MaxPadding \in Nat
  <2>1. pc \in {"setext", "table"} /\ UNCHANGED input
    BY DEF Convert, SetextFalls, SetextHeading, SplitParagraph, ReplaceParagraph, OpenTable
  <2>. QED
    BY <2>1, RowsFacts DEF Pointers
<1>2. cont = tip /\ tip \in Node /\ tip # Doc /\ type[tip] = "para"
  BY <1>1, LeafIsTip, OpenFacts DEF Containers
<1>3. DOMAIN blk = Node /\ DOMAIN type = Node /\ \A n \in Node : {"rows", "cols", "content"} \subseteq DOMAIN blk[n]
  BY RowsFacts DEF BlockFields
<1>4. CASE SetextFalls
  <2>1. /\ blk' = [blk EXCEPT ![tip].content = <<>>] /\ UNCHANGED <<type, tip, padded>>
        /\ pc' = "starts"
    BY <1>2, <1>4 DEF SetextFalls
  <2>2. \A n \in Node : SameRow(n)
    BY <1>3, <2>1 DEF SameRow
  <2>3. RowsKept'
    BY <2>1, <2>2, RowsStay
  <2>. QED
    BY <1>2, <2>1, <2>3 DEF RowStep, TableText, PendRows, Opening
<1>5. CASE SetextHeading
  <2>. DEFINE new  == used + 1
              head == [NewBlk EXCEPT !.start = blk[tip].start,
                         !.content = AfterDefinitions(blk[tip].content, Definitions(blk[tip].content))]
  <2>1. /\ blk' = [blk EXCEPT ![tip].content = <<>>, ![new] = head] /\ used < MaxNodes
        /\ type' = [type EXCEPT ![new] = "heading"] /\ tip' = new /\ UNCHANGED padded /\ pc' = "text"
    BY <1>2, <1>5 DEF SetextHeading
  <2>2. new \in Node
    BY <1>1, <2>1, MaxNodesAssumption DEF Shape, Node
  <2>3. head.rows = <<>>
    BY DEF NewBlk
  <2>. HIDE DEF head
  <2>4. RowsKept'
    <3>. DEFINE f == [blk EXCEPT ![tip].content = <<>>]
    <3>1. DOMAIN f = Node /\ \A n \in Node : f[n].rows = blk[n].rows /\ f[n].cols = blk[n].cols
      BY <1>3
    <3>2. blk' = [f EXCEPT ![new] = head]
      BY <2>1
    <3>. HIDE DEF f
    <3>. SUFFICES ASSUME NEW n \in Node PROVE RowsFine(blk'[n], padded)
      BY <2>1 DEF RowsKept
    <3>3. CASE n = new
      BY <2>2, <2>3, <3>1, <3>2, <3>3, NoRowsFine
    <3>4. CASE n # new
      <4>. DEFINE b == blk[n]
                  c == blk'[n]
      <4>1. RowsFine(b, padded) /\ padded <= padded
        BY <1>1, RowsFacts DEF RowsKept
      <4>2. c.rows = b.rows /\ c.cols = b.cols
        BY <3>1, <3>2, <3>4
      <4>. HIDE DEF b, c
      <4>3. RowsFine(c, padded)
        BY <1>1, <4>1, <4>2, FineStays
      <4>. QED
        BY <4>3 DEF c
    <3>. QED
      BY <3>3, <3>4
  <2>5. type'[tip'] = "heading"
    BY <1>3, <2>1, <2>2
  <2>. QED
    BY <2>1, <2>4, <2>5 DEF RowStep, TableText, PendRows, Opening
<1>6. CASE SplitParagraph
  <2>1. FinalizeWith(tip, Front(blk[tip].content), LineAboveHeader, LengthAboveHeader) /\ OpenTable
    BY <1>2, <1>6 DEF SplitParagraph
  <2>2. RowsKept' /\ TableText' /\ padded' \in 0..MaxPadding /\ padded <= padded'
    BY <1>1, <2>1, ClosingRows
  <2>. QED
    BY <2>1, <2>2, HeaderRow DEF RowStep
<1>7. CASE ReplaceParagraph
  <2>1. /\ UNCHANGED <<type, blk, padded>> /\ tip' = tree.parent[tip] /\ OpenTable
    BY <1>2, <1>7 DEF ReplaceParagraph, closeVars
  <2>2. type[tree.parent[tip]] # "table"
    BY <1>1, <1>2, TipBelow, NodeFacts DEF Shape, LeavesAreBare, Containers
  <2>3. RowsKept'
    BY <2>1, RowsStay DEF SameRow
  <2>4. padded' \in 0..MaxPadding /\ padded <= padded'
    BY <1>1, <2>1
  <2>. QED
    BY <2>1, <2>2, <2>3, <2>4, HeaderRow DEF RowStep, TableText
<1>. QED
  BY <1>4, <1>5, <1>6, <1>7 DEF Convert

LEMMA TextRows ==
  ASSUME RowsIInv, Text
  PROVE  RowStep
<1>1. /\ pc \in {"text", "body", "line"} /\ UNCHANGED input /\ Mid /\ tip # Nil /\ tip \in Node
      /\ lineNo \in Nat /\ lineNo > 0 /\ LastDone = lineNo - 1 /\ AtBody /\ Shape
  <2>1. pc \in {"text", "body", "line"} /\ UNCHANGED input
    BY DEF Text, LazyLine, CloseForText, GiveToBlock, OpenParagraph, NoText, TakeLine,
           TakeLastHtmlLine, MarkBlank
  <2>2. Mid /\ tip # Nil
    BY <2>1, RowsFacts DEF Pointers, Mid
  <2>. QED
    BY <2>1, <2>2, RowsFacts, OpenFacts DEF Lengths, LastDone
<1>2. CASE LazyLine \/ TakeLine
  <2>1. /\ UNCHANGED <<type, tip, padded>> /\ pc' = "read"
        /\ blk' = [blk EXCEPT ![tip].content = Append(@, LineText)]
    BY <1>2 DEF LazyLine, TakeLine, AddLine, closeVars
  <2>2. /\ DOMAIN blk = Node /\ TableText /\ LastDone \in Nat
        /\ \A n \in Node : {"rows", "cols", "content", "start"} \subseteq DOMAIN blk[n]
    BY RowsFacts DEF BlockFields
  <2>3. RowsKept'
    <3>1. \A n \in Node : SameRow(n)
      BY <2>1, <2>2 DEF SameRow
    <3>. QED
      BY <2>1, <3>1, RowsStay
  <2>4. LastDone' = lineNo
    BY <1>1, <2>1 DEF LastDone, Mid, lineNo
  <2>5. TableText'
    <3>. SUFFICES ASSUME type[tip] = "table"
                  PROVE  /\ Len(blk'[tip].content) = LastDone' - blk'[tip].start
                         /\ \A i \in 1..Len(blk'[tip].content) :
                              blk'[tip].content[i].at = blk'[tip].start + i
      BY <2>1 DEF TableText
    <3>. DEFINE c == blk[tip].content
                s == blk[tip].start
                d == Append(c, LineText)
    <3>1. blk'[tip].content = d /\ blk'[tip].start = s
      BY <1>1, <2>1, <2>2
    <3>2. /\ Len(c) = LastDone - s /\ \A i \in 1..Len(c) : c[i].at = s + i
          /\ s \in Nat /\ c \in Seq(Entry)
      <4>1. blk[tip] \in BlockFields
        BY <1>1, RowsFacts
      <4>2. s \in Nat /\ c \in Seq(Entry)
        BY <4>1, RecordTyped
      <4>. QED
        BY <1>1, <2>2, <4>2 DEF TableText
    <3>3. LineText.at = lineNo
      BY DEF LineText
    <3>4. Len(c) \in Nat /\ Len(d) = Len(c) + 1
      BY <3>2
    <3>5. \A i \in 1..(Len(c) + 1) : d[i] = IF i = Len(c) + 1 THEN LineText ELSE c[i]
      BY <3>2
    <3>. HIDE DEF c, d, s
    <3>6. Len(d) = lineNo - s
      BY <1>1, <3>2, <3>4
    <3>7. ASSUME NEW i \in 1..Len(d) PROVE d[i].at = s + i
      <4>1. CASE i = Len(c) + 1
        BY <1>1, <3>2, <3>3, <3>4, <3>5, <4>1
      <4>2. CASE i # Len(c) + 1
        <5>1. i \in 1..Len(c)
          BY <3>4, <4>2
        <5>. QED
          BY <3>2, <3>4, <3>5, <4>2, <5>1
      <4>. QED
        BY <4>1, <4>2
    <3>. QED
      BY <2>4, <3>1, <3>6, <3>7
  <2>. QED
    BY <2>1, <2>3, <2>5 DEF RowStep, PendRows, Opening
<1>3. CASE CloseForText \/ GiveToBlock
  <2>1. /\ UNCHANGED <<blk, type, tip, padded>>
        /\ pc' = "line" \/ (pc' = "close" /\ goal' = "body")
    BY <1>3 DEF CloseForText, GiveToBlock, MarkBlank, treeVars, closeVars
  <2>2. LastDone' = LastDone
    BY <1>1, <2>1, SameDone DEF Mid
  <2>. QED
    BY <2>1, <2>2, NothingRows DEF RowStep, PendRows, Opening
<1>4. CASE OpenParagraph
  <2>. DEFINE b == Block("para", NewBlk)
  <2>1. UNCHANGED <<blk, type, tip, padded>> /\ pc' = "add" /\ pend' = <<b>>
    BY <1>4 DEF OpenParagraph, MarkBlank, treeVars, closeVars
  <2>2. NoRows(b)
    BY DEF NoRows, Block, NewBlk
  <2>. HIDE DEF b
  <2>3. PendRows'
    BY <2>1, <2>2, NoRowsPend
  <2>4. LastDone' = LastDone
    BY <1>1, <2>1, SameDone DEF Mid
  <2>. QED
    BY <2>1, <2>3, <2>4, NothingRows DEF RowStep
<1>5. CASE NoText
  <2>1. /\ UNCHANGED <<blk, type, tip, padded>> /\ pc = "body" /\ pc' = "read"
        /\ ~AcceptsLines(type[cont])
    BY <1>5 DEF NoText, MarkBlank, treeVars, closeVars
  <2>2. type[tip] # "table"
    BY <1>1, <2>1 DEF AtBody, AcceptsLines
  <2>3. RowsKept'
    BY <2>1, RowsStay DEF SameRow
  <2>. QED
    BY <2>1, <2>2, <2>3 DEF RowStep, TableText, PendRows, Opening
<1>6. CASE TakeLastHtmlLine
  <2>1. pc = "line" /\ type[cont] = "html" /\ pc' = "read"
    BY <1>6 DEF TakeLastHtmlLine, EndsHtml
  <2>2. cont = tip
    BY <2>1, RowsFacts, LeafIsTip DEF Pointers, Containers
  <2>3. PICK content : FinalizeWith(tip, content, lineNo, lineNo)
    BY <1>6, <2>2 DEF TakeLastHtmlLine
  <2>4. RowsKept' /\ TableText'
    BY <1>1, <2>3, ClosingRows
  <2>. QED
    BY <2>1, <2>4 DEF RowStep, PendRows, Opening
<1>. QED
  BY <1>2, <1>3, <1>4, <1>5, <1>6 DEF Text

LEMMA FinishRows ==
  ASSUME RowsIInv, Finish
  PROVE  RowStep
<1>1. UNCHANGED input /\ pc \in {"read", "finish"} /\ pc' \in {"finish", "done"}
  BY DEF Finish, EndOfInput, FinishOne, MarkTasks
<1>2. PendRows'
  BY <1>1 DEF PendRows, Opening
<1>3. LastDone' = LastDone
  BY <1>1, SameDone DEF Mid
<1>4. CASE EndOfInput
  <2>1. UNCHANGED <<blk, type, tip, padded>>
    BY <1>4 DEF EndOfInput, treeVars, closeVars
  <2>. QED
    BY <1>2, <1>3, <2>1, NothingRows DEF RowStep
<1>5. CASE FinishOne
  <2>1. tip # Nil /\ FinalizeWith(tip, blk[tip].content, lineNo, lastLen)
    BY <1>5 DEF FinishOne, Finalize
  <2>. QED
    BY <1>2, <2>1, ClosingRows DEF RowStep
<1>6. CASE MarkTasks
  <2>. DEFINE one(n) == [blk[n] EXCEPT !.task = TRUE]
              two(n) == LET toks == blk[n].content[1].toks
                        IN  [blk[n] EXCEPT !.content[1].toks =
                               Rest(toks, NextNonspace(toks, [off |-> 1, col |-> 1, part |-> FALSE]).pos)]
  <2>1. /\ tip = Nil /\ UNCHANGED <<type, tip, padded>>
        /\ blk' = blk \/ blk' = [n \in Node |->
                                   CASE n \in Tasks -> one(n)
                                     [] n \in {tree.first[m] : m \in Tasks} -> two(n)
                                     [] OTHER -> blk[n]]
    BY <1>6 DEF MarkTasks, closeVars
  <2>2. \A n \in Node : {"rows", "cols"} \subseteq DOMAIN blk[n]
    BY RowsFacts DEF BlockFields
  <2>3. \A n \in Node : /\ one(n).rows = blk[n].rows /\ one(n).cols = blk[n].cols
                        /\ two(n).rows = blk[n].rows /\ two(n).cols = blk[n].cols
    BY <2>2
  <2>. HIDE DEF one, two
  <2>4. \A n \in Node : SameRow(n)
    <3>. TAKE n \in Node
    <3>1. blk'[n] \in {blk[n], one(n), two(n)}
      BY <2>1
    <3>. QED
      BY <2>3, <3>1 DEF SameRow
  <2>5. RowsKept'
    BY <2>1, <2>4, RowsStay
  <2>. QED
    BY <1>2, <2>1, <2>5 DEF RowStep, TableText
<1>. QED
  BY <1>4, <1>5, <1>6 DEF Finish

\* Only try_open_table goes by way of the header row.
LEMMA StepHeader ==
  ASSUME RowsIInv, [Next]_vars
  PROVE  HeaderWide'
<1>1. HeaderWide /\ lineNo \in Nat
  BY RowsFacts
<1>2. CASE UNCHANGED vars \/ Done
  <2>1. UNCHANGED <<lastAdded, input, nx, pc, goal>>
    BY <1>2 DEF vars, Done, cursorVars, startVars
  <2>. QED
    BY <1>1, <2>1 DEF HeaderWide, line, lineNo
<1>3. CASE CloseOne \/ AllClosed
  <2>1. UNCHANGED <<lastAdded, input, nx, goal>> /\ pc = "close" /\ (pc' = pc \/ pc' = goal)
    BY <1>3 DEF CloseOne, AllClosed, cursorVars, startVars
  <2>. QED
    BY <1>1, <2>1 DEF HeaderWide, line, lineNo
<1>4. CASE Start
  <2>1. ~StartTable => pc' = "text" \/ (pc' = "close" /\ goal' # "table")
    BY <1>4 DEF Start, StartQuote, StartHeading, StartFence, StartHtml, StartSetext, StartBreak,
                StartItem, StartIndentedCode, NoStart, Begin
  <2>2. CASE ~StartTable
    BY <2>1, <2>2 DEF HeaderWide
  <2>3. CASE StartTable
    <3>. DEFINE n == NextNonspace(line, cur)
    <3>1. Takes(8, n) /\ nx' = n /\ UNCHANGED <<lastAdded, input>>
      BY <2>3 DEF StartTable, Begin
    <3>2. IsTable(n)
      <4>. HIDE DEF n
      <4>. QED
        BY <3>1 DEF Takes, Takers
    <3>. HIDE DEF n
    <3>. QED
      BY <3>1, <3>2 DEF HeaderWide, IsTable, line, lineNo
  <2>. QED
    BY <2>2, <2>3
<1>5. CASE ReadLine \/ Walk
  BY <1>5 DEF ReadLine, Walk, ContinueMatched, ContinueNotMatched, NoMoreOpen, CloseFence, WalkEnds,
              HeaderWide
<1>6. CASE MakeRoom \/ AddChild
  <2>1. after \in {"starts", "text", "line"}
    BY RowsFacts DEF Pointers
  <2>2. pc = "add" /\ pc' \in {"add", after}
    BY <1>6 DEF MakeRoom, AddChild
  <2>. QED
    BY <2>1, <2>2 DEF HeaderWide
<1>7. CASE Convert \/ Finish
  BY <1>7 DEF Convert, SetextFalls, SetextHeading, SplitParagraph, ReplaceParagraph, OpenTable,
              Finish, EndOfInput, FinishOne, MarkTasks, HeaderWide
<1>8. CASE Text
  BY <1>8 DEF Text, LazyLine, CloseForText, GiveToBlock, OpenParagraph, NoText, TakeLine,
              TakeLastHtmlLine, HeaderWide
<1>. QED
  BY <1>2, <1>3, <1>4, <1>5, <1>6, <1>7, <1>8 DEF Next, Open

LEMMA StepRows == RowsIInv /\ [Next]_vars => RowsIInv'
<1>1. SUFFICES ASSUME RowsIInv, [Next]_vars PROVE RowsIInv'
  OBVIOUS
<1>2. TypeIInv'
  BY <1>1, StepTyped DEF RowsIInv
<1>3. HeaderWide'
  BY <1>1, StepHeader
<1>4. CASE UNCHANGED vars \/ Done
  <2>1. UNCHANGED <<blk, type, tip, padded, pend, goal, pc, input>>
    BY <1>4 DEF vars, Done, treeVars, closeVars, startVars
  <2>2. LastDone' = LastDone
    BY <2>1, SameDone DEF Mid
  <2>3. RowsKept' /\ TableText'
    BY <1>1, <2>1, <2>2, NothingRows
  <2>4. PendRows'
    <3>1. padded \in 0..MaxPadding /\ padded <= padded
      BY <1>1, RowsFacts
    <3>. QED
      BY <1>1, <2>1, <3>1, PendStays DEF Opening
  <2>. QED
    BY <1>2, <1>3, <2>3, <2>4 DEF RowsIInv
<1>5. CASE ~(UNCHANGED vars \/ Done)
  <2>1. RowStep
    BY <1>1, <1>5, WalkRows, StartRows, OpenRows, ConvertRows, TextRows, FinishRows DEF Next
  <2>. QED
    BY <1>2, <1>3, <2>1 DEF RowsIInv, RowStep
<1>. QED
  BY <1>4, <1>5

LEMMA RowsInit == Init => RowsIInv
<1>1. SUFFICES ASSUME Init PROVE RowsKept /\ PendRows /\ TableText /\ HeaderWide
  BY TypeInit DEF RowsIInv
<1>2. \A n \in Node : blk[n].rows = <<>>
  <2>1. NewBlk.rows = <<>> /\ [NewBlk EXCEPT !.start = 1].rows = <<>>
    BY DEF NewBlk
  <2>2. \A n \in Node : blk[n] = IF n = Doc THEN [NewBlk EXCEPT !.start = 1] ELSE NewBlk
    BY <1>1 DEF Init
  <2>. QED
    BY <2>1, <2>2
<1>3. RowsKept
  BY <1>2, NoRowsFine DEF RowsKept
<1>4. type[tip] = "doc" /\ pc = "read"
  BY <1>1, NodeFacts DEF Init
<1>. QED
  BY <1>3, <1>4 DEF PendRows, Opening, TableText, HeaderWide

\* Whatever lines a document holds, the line a table's row is dated with is the
\* line its text was read from: finalize counts the lines from the delimiter
\* row, and no line between is ever left out or taken twice.
THEOREM RowsDatedSafe == Spec => []RowsDated
<1>1. Init => RowsIInv
  BY RowsInit
<1>2. RowsIInv /\ [Next]_vars => RowsIInv'
  BY StepRows
<1>3. RowsIInv => RowsDated
  <2>. SUFFICES ASSUME RowsIInv PROVE RowsDated
    OBVIOUS
  <2>1. Linked \subseteq Node
    BY RowsFacts, NodeFacts DEF Linked, Shape
  <2>. QED
    BY <2>1, RowsFacts DEF RowsKept, RowsFine, RowsDated
<1>. QED
  BY <1>1, <1>2, <1>3, PTL DEF Spec

\* Whatever tables a document holds, in whatever order they are closed, a row is
\* left shorter than its table only when the document's budget of empty cells is
\* spent: no table is refused cells that another did not take.
THEOREM ShortRowsSafe == Spec => []ShortOnlyWhenSpent
<1>1. Init => RowsIInv
  BY RowsInit
<1>2. RowsIInv /\ [Next]_vars => RowsIInv'
  BY StepRows
<1>3. RowsIInv => ShortOnlyWhenSpent
  <2>. SUFFICES ASSUME RowsIInv PROVE ShortOnlyWhenSpent
    OBVIOUS
  <2>1. Linked \subseteq Node
    BY RowsFacts, NodeFacts DEF Linked, Shape
  <2>. QED
    BY <2>1, RowsFacts DEF RowsKept, RowsFine, ShortOnlyWhenSpent
<1>. QED
  BY <1>1, <1>2, <1>3, PTL DEF Spec
=============================================================================
