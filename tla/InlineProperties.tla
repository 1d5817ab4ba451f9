-------------------------- MODULE InlineProperties --------------------------
(***************************************************************************)
(* What the inline phase must hold to: the two auxiliary stacks describe   *)
(* the tree under construction, what the shortcuts remember never changes  *)
(* an answer, and no character of the subject is lost.                     *)
(***************************************************************************)
EXTENDS InlinePhase

Slots == [cc : Delims, num : Nat, orig : Nat, node : Node, prev : Nat, next : Nat,
          open : BOOLEAN, close : BOOLEAN]
Brackets == [node : Node, floor : Nat, index : Nat \ {0}, image : BOOLEAN,
             active : BOOLEAN, after : BOOLEAN]

\* The fields of the parser and the arena keep their types, links stay inside
\* the arena, and the recorded heights stay within the nesting limit.
InlineTypeOK ==
  /\ content \in Seq(Seq(Chars)) /\ block \in 1..(Len(content) + 1)
  /\ tree \in Tree /\ type \in [Node -> Kinds] /\ lit \in [Node -> Seq(Chars)]
  /\ used \in Node
  /\ subject \in Seq(Chars) /\ pos \in 1..(Len(subject) + 1)
  /\ delims.slot \in Seq(Slots) /\ delims.top \in 0..Len(slot)
  /\ brackets \in Seq(Brackets)
  /\ nesting \in [Node -> 0..MaxInlineNesting]
  /\ emph.floor \in 0..Len(slot) /\ emph.closer \in 0..Len(slot)
  /\ link.node \in Link /\ walk.child \in Link /\ walk.pending \in Seq(Node)
  /\ pc \in {"begin", "scan", "emph", "link", "linkify", "done"}

\* The nodes under n, in the order a reader meets them.
Inside(t, n) ==
  LET from[m \in Link] == IF m = Nil THEN <<>> ELSE <<m>> \o from[t.first[m]] \o from[t.next[m]]
  IN  from[t.first[n]]

Parsing == pc \in {"scan", "emph", "link"}

\* The delimiters on the stack, from the bottom up.
Stack == Reverse(DownFrom(delims, delims.top, 0))

Precedes(m, n) ==
  LET order == Inside(tree, This)
  IN  \E i, j \in DOMAIN order : i < j /\ order[i] = m /\ order[j] = n

\* The two chains of the stack agree, and no delimiter on it is used up.
StackChained ==
  Parsing =>
    \A i \in DOMAIN Stack :
      LET d == slot[Stack[i]]
      IN  /\ d.next = IF i = Len(Stack) THEN 0 ELSE Stack[i + 1]
          /\ d.num > 0

\* What is left of a delimiter on the stack is the text of its node.
StackUnused ==
  Parsing =>
    \A i \in DOMAIN Stack :
      LET d == slot[Stack[i]]
      IN  lit[d.node] = [k \in 1..d.num |-> d.cc]

\* The nodes of the stack are in reading order children of the block, or of
\* the link under construction, and of nothing made since.
StackPlaced ==
  Parsing =>
    /\ \A i \in DOMAIN Stack : tree.parent[slot[Stack[i]].node] \in {This, link.node} \ {Nil}
    /\ \A i \in 2..Len(Stack) : Precedes(slot[Stack[i-1]].node, slot[Stack[i]].node)

\* Whether process_emphasis is not at work on the block as a whole.
FloorsMatter == pc \in {"scan", "link"} \/ link.node # Nil

\* The delimiter a bracket's floor names is on the stack.
FloorsHeld ==
  FloorsMatter => \A i \in DOMAIN brackets : brackets[i].floor \in {0} \cup ToSet(Stack)

\* What is at or under a floor stands before its bracket, what is over it after.
FloorsPlaced ==
  FloorsMatter =>
    \A i \in DOMAIN brackets :
      LET b == brackets[i]
      IN  /\ tree.parent[b.node] = This
          /\ \A d \in ToSet(Stack) : d <= b.floor <=> Precedes(slot[d].node, b.node)

\* The delimiter stack is one list (handle_delim, process_emphasis,
\* remove_delimiter): its two chains agree, its entries still have delimiters
\* to use and those are the texts of their nodes, and it holds every delimiter
\* that was on top when one of the brackets opened, whatever pairs were made,
\* openers given up and links closed since (parse_close_bracket's floor).
StacksSound == StackChained /\ StackUnused /\ FloorsHeld

\* The two stacks describe the tree (process_emphasis, parse_close_bracket): the
\* delimiters stand in it in the order of their stack, and on the side of each
\* bracket that its floor says, whatever links were made since it opened.
StacksPlaced == StackPlaced /\ FloorsPlaced

\* openers_bottom is an optimisation (process_emphasis): it never hides an
\* opener that a search down to the floor would have paired the closer with.
SearchComplete ==
  AtCloser /\ slot[emph.closer].close =>
    LET c    == emph.closer
        full == OpenerAbove(c, emph.floor)
    IN  IF Pairs(full, c) THEN Opener(c) = full ELSE ~Pairs(Opener(c), c)

\* When emphasis has been processed (process_emphasis), no two runs of
\* delimiters left as text in one parent could still have made a pair, unless
\* what is between them is nested too deep.
EmphasisComplete ==
  pc = "emph" /\ emph.closer = 0 =>
    \A o, c \in (emph.floor + 1)..Len(slot) :
      LET p == tree.parent[slot[o].node]
      IN  ~ /\ o < c /\ p # Nil /\ p = tree.parent[slot[c].node]
            /\ slot[c].close /\ Matches(o, c)
            /\ RunHeight(Between(o, c)) < MaxInlineNesting

\* <...> autolinks are the links no height is recorded for.
AngleLink(n) == type[n] = "Link" /\ lit[tree.first[n]] = <<"<u>">> /\ tree.next[tree.first[n]] = Nil

\* The heights run_height judges the limit by are those of the tree
\* (process_emphasis, parse_close_bracket): every container but an autolink is
\* one higher than the highest of its children, after pairs were made inside
\* it and links were taken back.
NestingExact ==
  Parsing =>
    \A n \in ToSet(Inside(tree, This)) :
      type[n] \in Containers /\ n # link.node =>
        \/ nesting[n] = RunHeight(Children(tree, n)) + 1
        \/ nesting[n] = 0 /\ AngleLink(n)

\* Links do not end up inside links (parse_close_bracket deactivates the
\* openers before a link), however many brackets, images and failed matches
\* come between; angle autolinks aside.
NoLinkInLink ==
  Parsing =>
    \A n \in ToSet(Inside(tree, This)) : type[n] = "Link" =>
      \A m \in ToSet(Inside(tree, n)) : type[m] = "Link" => nesting[m] = 0

\* The memo of the backtick runs is an optimisation (scan_code_span_memo): a
\* code span is found exactly when a search without the memo finds it.
MemoSound ==
  At({"tick"}) =>
    ScanCodeSpan(subject, pos, ticks).end = ScanCodeSpan(subject, pos, NoTicks(subject)).end

\* Running the autolink pass again over a finished block would change nothing
\* (linkify_text_node): no text is left that holds an autolink, and the text
\* of each autolink made is that very autolink.
Linkified(n) == type[n] = "Link" /\ nesting[n] = 0 /\ ~AngleLink(n)
LinkifyStable ==
  pc = "linkify" /\ walk.child = Nil /\ walk.pending = <<>> =>
    \A n \in ToSet(Inside(tree, This)) :
      LET p == tree.parent[n]
      IN  /\ Linkified(n) =>
               LET text == lit[tree.first[n]]
               IN  Autolinks(text, TRUE) = <<[start |-> 1, end |-> Len(text) + 1]>>
          /\ type[n] = "Text" /\ type[p] \notin {"Link", "Image"} =>
               Autolinks(lit[n], StartsAfterDelimiter(tree.prev[n])) = <<>>

\* What a block reads as, but for the characters that may become markup.
Markup == Delims \cup {"[", "]", "!", "sp"}
Reading(t, l, n) ==
  LET nodes == Inside(t, n)
      text  == FlattenSeq([i \in 1..Len(nodes) |-> l[nodes[i]]])
  IN  SelectSeq(text, LAMBDA c : c \notin Markup)

\* Wrapping, unwrapping and splitting nodes neither loses nor reorders text
\* (process_emphasis, parse_close_bracket, linkify_text_node): the scan only
\* adds to the end of what the block reads as, everything else leaves it alone.
TextKept ==
  [][LET before == Reading(tree, lit, This)
         now    == Reading(tree', lit', This)
     IN  IF pc = "scan" THEN IsPrefix(before, now) ELSE now = before]_<<tree, lit>>

\* Every block is parsed to its end (process_emphasis, parse_inline,
\* linkify_autolinks): each of the loops runs out.
InlineDone == <>(pc = "done")
=============================================================================
