------------------------------ MODULE NodeTree ------------------------------
(***************************************************************************)
(* The arena tree of rs/src/node.rs: nodes are numbered in the order they  *)
(* are pushed, and parent, first child, last child and the two siblings    *)
(* are links between numbers.  A tree is a record of five functions, one   *)
(* per link; each operator returns the tree a method of `Tree` leaves.     *)
(***************************************************************************)
EXTENDS Integers, Sequences

CONSTANT MaxNodes       \* bound: the nodes the arena may hold

ASSUME MaxNodesAssumption == MaxNodes \in Nat \ {0}

Node == 1..MaxNodes
Nil  == 0               \* Option::None of a link
Doc  == 1               \* the root is pushed first

Link == Node \cup {Nil}

Tree == [parent : [Node -> Link], first : [Node -> Link], last : [Node -> Link],
         prev : [Node -> Link], next : [Node -> Link]]

Bare == LET none == [n \in Node |-> Nil]
        IN  [parent |-> none, first |-> none, last |-> none, prev |-> none, next |-> none]

\* f with m's link set to x, when there is an m to set it on.
Point(f, m, x) == IF m = Nil THEN f ELSE [f EXCEPT ![m] = x]

\* Detach n: its neighbours close up, or the parent's end moves.
Unlink(t, n) ==
  LET p == t.parent[n]  l == t.prev[n]  r == t.next[n]
  IN  [parent |-> [t.parent EXCEPT ![n] = Nil],
       first  |-> IF l = Nil THEN Point(t.first, p, r) ELSE t.first,
       last   |-> IF r = Nil THEN Point(t.last, p, l) ELSE t.last,
       prev   |-> [Point(t.prev, r, l) EXCEPT ![n] = Nil],
       next   |-> [Point(t.next, l, r) EXCEPT ![n] = Nil]]

\* c becomes the last child of p.
AppendChild(t, p, c) ==
  LET u == Unlink(t, c)
      l == u.last[p]
  IN  [parent |-> [u.parent EXCEPT ![c] = p],
       first  |-> IF l = Nil THEN [u.first EXCEPT ![p] = c] ELSE u.first,
       last   |-> [u.last EXCEPT ![p] = c],
       prev   |-> IF l = Nil THEN u.prev ELSE [u.prev EXCEPT ![c] = l],
       next   |-> Point(u.next, l, c)]

\* A splice that forgets the parent's end pointer.
InsertAfter_keepsLast(t, n, s) ==
  LET u == Unlink(t, s)
      r == u.next[n]
      p == u.parent[n]
  IN  [parent |-> [u.parent EXCEPT ![s] = p],
       first  |-> u.first,
       last   |-> u.last,
       prev   |-> [Point(u.prev, r, s) EXCEPT ![s] = n],
       next   |-> [u.next EXCEPT ![s] = r, ![n] = s]]

\* s becomes the sibling directly after n.
InsertAfter(t, n, s) ==
  LET u == Unlink(t, s)
      r == u.next[n]
      p == u.parent[n]
  IN  [parent |-> [u.parent EXCEPT ![s] = p],
       first  |-> u.first,
       last   |-> IF r = Nil THEN Point(u.last, p, s) ELSE u.last,
       prev   |-> [Point(u.prev, r, s) EXCEPT ![s] = n],
       next   |-> [u.next EXCEPT ![s] = r, ![n] = s]]

\* s becomes the sibling directly before n.
InsertBefore(t, n, s) ==
  LET u == Unlink(t, s)
      l == u.prev[n]
      p == u.parent[n]
  IN  [parent |-> [u.parent EXCEPT ![s] = p],
       first  |-> IF l = Nil THEN Point(u.first, p, s) ELSE u.first,
       last   |-> u.last,
       prev   |-> [u.prev EXCEPT ![s] = l, ![n] = s],
       next   |-> [Point(u.next, l, s) EXCEPT ![s] = n]]

\* The children of p, in order: what following `next` from `first_child` visits.
Children(t, p) ==
  LET from[n \in Link] == IF n = Nil THEN <<>> ELSE <<n>> \o from[t.next[n]]
  IN  from[t.first[p]]

\* n and every node above it, following `parent`.
SelfAndAbove(t, n) ==
  LET up[m \in Link] == IF m = Nil THEN {} ELSE {m} \cup up[t.parent[m]]
  IN  up[n]
=============================================================================
