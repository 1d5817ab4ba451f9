----------------------------- MODULE BlockPhase -----------------------------
(***************************************************************************)
(* The block phase of rs/src/block.rs: BlockParser turns a document, line  *)
(* by line, into a tree of blocks and a map of link reference definitions. *)
(* `incorporate_line` is cut at its loops: it walks the open blocks        *)
(* ("walk"), tries the block starts under the last one that matched        *)
(* ("starts"), closes the blocks that did not match ("close"), opens the   *)
(* new ones ("add"), and gives what is left of the line to the tip         *)
(* ("text", "body", "line").  The parser is sequential: the only choice is *)
(* the next line of the document, or its end.                              *)
(***************************************************************************)
EXTENDS LineLexis, NodeTree, SequencesExt

CONSTANTS
  Lines,       \* the lines a document may hold
  MaxLines,    \* bound: the lines of a document
  MaxNesting,  \* MAX_CONTAINER_NESTING
  MaxPadding,  \* MAX_AUTOCOMPLETED_CELLS
  Gfm          \* options.gfm

ASSUME BlockPhaseAssumption ==
  /\ \A ln \in Lines : /\ ln \in Seq(Tokens)
                       /\ WellSpaced(ln)
  /\ MaxLines \in Nat /\ MaxNesting \in Nat /\ MaxPadding \in Nat
  /\ Gfm \in BOOLEAN

VARIABLES
  \* the tree
  tree,        \* its links
  type,        \* node_type of each node
  open,        \* the nodes whose `open` flag is set
  blk,         \* the other fields of each node
  used,        \* the nodes pushed so far
  blankEnd,    \* the nodes whose last_line_blank flag is set
  checked,     \* the nodes whose last_line_checked flag is set
  \* the parser
  tip, oldtip, lmc, allClosed,
  cont,        \* the local `container`
  cur,         \* offset, column and partially_consumed_tab
  nx,          \* what find_next_nonspace last found
  si,          \* the block start the loop stands at
  pend,        \* the blocks a start has still to open
  goal,        \* what follows close_unmatched_blocks
  after,       \* what follows the opening of the last of pend
  refs,        \* the refmap: each label's line, 0 when undefined
  lastAdded,   \* last_added_to and last_added_line
  padded,      \* autocompleted_cells
  lastLen, prevLen, lenBefore,  \* the line whose length each field holds
  input,       \* the lines read so far: the last is current_line
  pc,
  defLines     \* history: the lines consumed as definitions

treeVars   == <<tree, type, open, blk, used>>
flagVars   == <<blankEnd, checked>>
closeVars  == <<refs, defLines, padded>>
spineVars  == <<oldtip, lmc, allClosed>>
cursorVars == <<cur, nx>>
startVars  == <<si, pend, goal, after>>
lenVars    == <<lastLen, prevLen, lenBefore>>

vars == <<treeVars, flagVars, closeVars, spineVars, cursorVars, startVars, lenVars,
          tip, cont, lastAdded, input, pc>>

lineNo == Len(input)
line   == input[lineNo]

Containers == {"quote", "list", "item"}       \* is_container
BlockTypes == Containers \cup
  {"doc", "para", "heading", "code", "html", "break", "table"}

\* A node as MdNode::new leaves it.  `of` is the line whose length the end
\* column holds; `indent` is marker_offset + padding of a list item.
NewBlk == [start |-> 0, end |-> 0, of |-> 0, content |-> <<>>,
           mark |-> "none", indent |-> 0, tight |-> TRUE, task |-> FALSE,
           fence |-> "none", inset |-> 0, kind |-> 0,
           cols |-> 0, rows |-> <<>>]

\* A list may hold any block, not only items.
CanContain_listHoldsAll(t, child) ==
  CASE t \in {"doc", "quote", "item"} -> child # "item"
    [] t = "list" -> TRUE
    [] OTHER -> FALSE

CanContain(t, child) ==
  CASE t \in {"doc", "quote", "item"} -> child # "item"
    [] t = "list" -> child = "item"
    [] OTHER -> FALSE

AcceptsLines(t) == t \in {"code", "html", "para", "table"}
Verbatim(t) == t \in {"code", "html"}
Fenced(n) == type[n] = "code" /\ blk[n].fence # "none"

(***************************************************************************)
(* Nesting                                                                 *)
(***************************************************************************)
ContainerDepth(n) == Cardinality({m \in SelfAndAbove(tree, n) : type[m] \in Containers})

\* Judged from the block itself, as if it could hold the new one.
DepthOfNew_ofTip(n, t) == ContainerDepth(n)

\* One deeper than the nearest of n and the blocks above it that can hold t:
\* upwards the arena numbers fall (LinksAgree).
DepthOfNew(n, t) ==
  LET holders == {m \in SelfAndAbove(tree, n) : m = Doc \/ CanContain(type[m], t)}
  IN  ContainerDepth(Max(holders)) + 1

(***************************************************************************)
(* Closing a block: `finalize_at` and `finalize_block`                     *)
(***************************************************************************)
\* How many definitions a paragraph's content begins with, and what the
\* refmap is once they are consumed: the first definition of a label wins.
Definitions(content) ==
  CHOOSE k \in 0..Len(content) :
    /\ \A i \in 1..k : IsDefinition(content[i].toks)
    /\ k < Len(content) => ~IsDefinition(content[k+1].toks)

\* A later definition replaces an earlier one.
Defined_lastWins(map, content, k) ==
  [l \in Labels |->
     LET at == {content[i].at : i \in {j \in 1..k : content[j].toks[1] = l}}
     IN  IF at = {} THEN map[l] ELSE Max(at)]

Defined(map, content, k) ==
  [l \in Labels |->
     LET at == {content[i].at : i \in {j \in 1..k : content[j].toks[1] = l}}
     IN  IF map[l] # 0 \/ at = {} THEN map[l] ELSE Min(at)]

DefinitionLines(content, k) == {content[i].at : i \in 1..k}
AfterDefinitions(content, k) == SubSeq(content, k + 1, Len(content))

\* A paragraph goes as soon as it held a definition, whatever is left of it.
Vanishes_anyDefinition(n, content) == type[n] = "para" /\ Definitions(content) > 0

\* A paragraph that held definitions and nothing else leaves the tree.
Vanishes(n, content) ==
  LET k == Definitions(content)
  IN  /\ type[n] = "para"
      /\ k > 0
      /\ \A i \in (k + 1)..Len(content) : Blank(content[i].toks)

\* A list or item not checked before is asked of its last child.
Asks(memo, n) == n \notin memo /\ type[n] \in {"list", "item"}

\* Whether n ends with a blank line.
EndsWithBlankLine(memo, n) ==
  LET hit[m \in Link] == m # Nil /\ (m \in blankEnd \/ (Asks(memo, m) /\ hit[tree.last[m]]))
  IN  hit[n]

\* The nodes that the question marks as checked.
Asked(memo, n) ==
  LET seen[m \in Link] == IF m = Nil \/ m \in blankEnd THEN {}
                          ELSE {m} \cup (IF Asks(memo, m) THEN seen[tree.last[m]] ELSE {})
  IN  seen[n]

\* Every item and subitem of a list in order, each with whether something of
\* the list follows it.
Probes(list) ==
  LET items == Children(tree, list)
      more(i) == i < Len(items)
      of(i) == LET subs == Children(tree, items[i])
               IN  <<[node |-> items[i], more |-> more(i)]>>
                     \o [j \in 1..Len(subs) |->
                           [node |-> subs[j], more |-> more(i) \/ j < Len(subs)]]
  IN  FlattenSeq([i \in 1..Len(items) |-> of(i)])

\* A blank line after the last item counts, too.
Probe_trailing(acc, p) ==
  IF acc.loose THEN acc
  ELSE [loose |-> EndsWithBlankLine(acc.memo, p.node),
        memo  |-> acc.memo \cup Asked(acc.memo, p.node)]

\* One more probe, unless an earlier one showed that the list is loose.
Probe(acc, p) ==
  IF acc.loose THEN acc
  ELSE [loose |-> p.more /\ EndsWithBlankLine(acc.memo, p.node),
        memo  |-> acc.memo \cup Asked(acc.memo, p.node)]

Looseness(list) ==
  LET probes == Probes(list)
      upTo[i \in 0..Len(probes)] ==
        IF i = 0 THEN [loose |-> FALSE, memo |-> checked] ELSE Probe(upTo[i-1], probes[i])
  IN  upTo[Len(probes)]

\* Rows are dated from the delimiter row.
BodyRowLine_offByOne(start, i) == start + i - 1

\* The source line of the i-th line a table accumulated; the first is the
\* delimiter row, one below the header row the table starts on.
BodyRowLine(start, i) == start + i

\* The budget is never drawn on.
WithRow_uncounted(acc, cols, toks, at, src) ==
  LET cells == Cells(toks)
      fill  == IF cells < cols THEN Min({cols - cells, MaxPadding - acc.padded}) ELSE 0
  IN  [rows   |-> Append(acc.rows, [at |-> at, src |-> src,
                                    cells |-> IF cells < cols THEN cells + fill ELSE cols]),
       padded |-> acc.padded]

\* Every short row is filled up, whatever is left of the budget.
WithRow_unbounded(acc, cols, toks, at, src) ==
  LET fill == IF Cells(toks) < cols THEN cols - Cells(toks) ELSE 0
  IN  [rows   |-> Append(acc.rows, [at |-> at, src |-> src, cells |-> cols]),
       padded |-> acc.padded + fill]

\* One more row: cut to the table's width, or filled up to it as far as the
\* document's budget of empty cells goes.  `src` is the line the text is from.
WithRow(acc, cols, toks, at, src) ==
  LET cells == Cells(toks)
      fill  == IF cells < cols THEN Min({cols - cells, MaxPadding - acc.padded}) ELSE 0
  IN  [rows   |-> Append(acc.rows, [at |-> at, src |-> src,
                                    cells |-> IF cells < cols THEN cells + fill ELSE cols]),
       padded |-> acc.padded + fill]

\* The rows of a table once each line below the delimiter row is split.
BodyRows(table) ==
  LET text == blk[table].content
      upTo[i \in 0..Len(text)] ==
        IF i < 2 THEN [rows |-> blk[table].rows, padded |-> padded]
        ELSE WithRow(upTo[i-1], blk[table].cols, text[i].toks,
                     BodyRowLine(blk[table].start, i), text[i].at)
  IN  upTo[Len(text)]

\* A list or item ends where its last child does; an empty item, on its line.
EndOf(n, at, of) ==
  LET child == tree.last[n]
  IN  CASE type[n] \in {"list", "item"} /\ child # Nil -> <<blk[child].end, blk[child].of>>
        [] type[n] = "item" /\ child = Nil -> <<blk[n].start, blk[n].start>>
        [] OTHER -> <<at, of>>

\* Close n, whose text is content, dating its end on line `at` with the
\* length of line `of`.
FinalizeWith(n, content, at, of) ==
  LET k     == IF type[n] = "para" THEN Definitions(content) ELSE 0
      dated == [blk EXCEPT ![n].end = EndOf(n, at, of)[1], ![n].of = EndOf(n, at, of)[2],
                           ![n].content = AfterDefinitions(content, k)]
  IN  /\ open' = open \ {n}
      /\ tip' = tree.parent[n]
      /\ tree' = IF Vanishes(n, content) THEN Unlink(tree, n) ELSE tree
      /\ blk' = CASE type[n] = "table" ->
                       [dated EXCEPT ![n].rows = BodyRows(n).rows, ![n].content = <<>>]
                  [] type[n] = "list" /\ Looseness(n).loose ->
                       [dated EXCEPT ![n].tight = FALSE, ![tree.first[n]].tight = FALSE]
                  [] OTHER -> dated
      /\ refs' = Defined(refs, content, k)
      /\ defLines' = defLines \cup DefinitionLines(content, k)
      /\ padded' = IF type[n] = "table" THEN BodyRows(n).padded ELSE padded
      /\ checked' = IF type[n] = "list" THEN Looseness(n).memo ELSE checked
      /\ UNCHANGED <<type, used, blankEnd>>

Finalize(n, at, of) == FinalizeWith(n, blk[n].content, at, of)

\* A block ends on the line that closed it.
LineAbove_this == lineNo

\* A block that a line closes ends on the line above.
LineAbove == lineNo - 1

\* The rest of the line goes to the tip.
LineText == [at |-> lineNo, toks |-> TextFrom(line, cur)]

AddLine ==
  /\ blk' = [blk EXCEPT ![tip].content = Append(@, LineText)]
  /\ lastAdded' = [to |-> tip, toks |-> LineText.toks]

EndLine(of) == lastLen' = of /\ prevLen' = lenBefore /\ UNCHANGED lenBefore

(***************************************************************************)
(* The walk down the open blocks: `continue_block`                         *)
(***************************************************************************)
No(c)  == [ok |-> FALSE, cur |-> c]
Yes(c) == [ok |-> TRUE, cur |-> c]

ContinueQuote(n, at) ==
  IF ~Indented(at) /\ Tok(line, at.pos) = ">"
  THEN Yes(OptionalSpace(line, PastMarker(line, ToNonspace(at))))
  ELSE No(cur)

\* A blank line leaves an item only when nothing is in it yet.
ContinueItem(n, at) ==
  CASE at.blank /\ tree.first[n] = Nil -> No(cur)
    [] at.blank /\ tree.first[n] # Nil -> Yes(ToNonspace(at))
    [] ~at.blank /\ at.indent >= blk[n].indent -> Yes(Advance(line, cur, blk[n].indent))
    [] OTHER -> No(cur)

\* Fenced code drops up to its fence's own indent; indented code, four columns.
ContinueCode(n, at) ==
  LET spaces == CHOOSE k \in 0..blk[n].inset :
                  /\ k = blk[n].inset \/ Tok(line, Advance(line, cur, k).off) \notin Space
                  /\ \A j \in 0..(k-1) : Tok(line, Advance(line, cur, j).off) \in Space
  IN  CASE Fenced(n) -> Yes(Advance(line, cur, spaces))
        [] ~Fenced(n) /\ Indented(at) -> Yes(Advance(line, cur, CodeIndent))
        [] ~Fenced(n) /\ ~Indented(at) /\ at.blank -> Yes(ToNonspace(at))
        [] OTHER -> No(cur)

Continue(n, at) ==
  CASE type[n] \in {"doc", "list"} -> Yes(cur)
    [] type[n] = "quote" -> ContinueQuote(n, at)
    [] type[n] = "item" -> ContinueItem(n, at)
    [] type[n] = "code" -> ContinueCode(n, at)
    [] type[n] = "html" -> IF at.blank /\ blk[n].kind \in {6, 7} THEN No(cur) ELSE Yes(cur)
    [] type[n] \in {"para", "table"} -> IF at.blank THEN No(cur) ELSE Yes(cur)
    [] OTHER -> No(cur)

\* The line closes the fenced code n: LineDone.
ClosesCode(n, at) ==
  Fenced(n) /\ at.indent <= 3 /\ ClosesFence(line, at.pos, blk[n].fence)

\* The walk follows last children whether they are open or not.
NextOpen_ignoringOpen(n) == tree.last[n]

\* The child the walk goes on to, or Nil.
NextOpen(n) == IF tree.last[n] \in open THEN tree.last[n] ELSE Nil

ReadLine ==
  /\ pc = "read"
  /\ Len(input) < MaxLines
  /\ \E ln \in Lines : input' = Append(input, ln)
  /\ oldtip' = tip
  /\ cont' = Doc
  /\ cur' = LineStart
  /\ nx' = [pos |-> 0, col |-> 0, indent |-> 0, blank |-> FALSE]
  /\ lenBefore' = lastLen
  /\ pc' = "walk"
  /\ UNCHANGED <<treeVars, flagVars, closeVars, startVars,
                 tip, lmc, allClosed, lastAdded, lastLen, prevLen>>

\* The last matched container is n; a verbatim block hides the block starts.
WalkEnds(n) ==
  /\ cont' = n
  /\ lmc' = n
  /\ allClosed' = (n = oldtip)
  /\ si' = 0
  /\ goal' = "body"
  /\ pc' = IF Verbatim(type[n]) THEN "text" ELSE "starts"
  /\ UNCHANGED <<treeVars, flagVars, closeVars, lenVars,
                 tip, oldtip, cur, pend, after, lastAdded, input>>

ContinueMatched ==
  LET child == NextOpen(cont)
      at    == NextNonspace(line, cur)
  IN  /\ pc = "walk"
      /\ child # Nil
      /\ ~ClosesCode(child, at)
      /\ Continue(child, at).ok
      /\ cont' = child
      /\ cur' = Continue(child, at).cur
      /\ nx' = at
      /\ UNCHANGED <<treeVars, flagVars, closeVars, spineVars, startVars, lenVars,
                     tip, lastAdded, input, pc>>

ContinueNotMatched ==
  LET child == NextOpen(cont)
      at    == NextNonspace(line, cur)
  IN  /\ pc = "walk"
      /\ child # Nil
      /\ ~ClosesCode(child, at)
      /\ ~Continue(child, at).ok
      /\ nx' = at
      /\ WalkEnds(cont)

NoMoreOpen ==
  /\ pc = "walk"
  /\ NextOpen(cont) = Nil
  /\ WalkEnds(cont)
  /\ UNCHANGED nx

\* The closing fence ends the line at once: prev_line_length is not touched.
CloseFence ==
  LET child == NextOpen(cont)
      at    == NextNonspace(line, cur)
  IN  /\ pc = "walk"
      /\ child # Nil
      /\ ClosesCode(child, at)
      /\ Finalize(child, lineNo, lineNo)
      /\ lastLen' = lineNo
      /\ nx' = at
      /\ cont' = child
      /\ pc' = "read"
      /\ UNCHANGED <<spineVars, startVars, cur, prevLen, lenBefore, lastAdded, input>>

(***************************************************************************)
(* The block starts, in the order `block_start` tries them                 *)
(***************************************************************************)
IsQuote(n) == /\ ~Indented(n)
              /\ Tok(line, n.pos) = ">"
              /\ DepthOfNew(cont, "quote") <= MaxNesting

\* Type 7 may not interrupt a paragraph, nor one about to continue lazily.
IsHtml(n) == /\ ~Indented(n)
             /\ HtmlKind(line, n.pos) # 0
             /\ HtmlKind(line, n.pos) = 7 =>
                  /\ type[cont] # "para"
                  /\ ~(~allClosed /\ ~n.blank /\ type[tip] = "para")

IsSetext(n) == ~Indented(n) /\ type[cont] = "para" /\ SetextUnderline(line, n.pos)

SameList(n) == type[cont] = "list" /\ blk[cont].mark = ListMark(Tok(line, n.pos))

IsItem(n) ==
  /\ IsListMarker(line, n, type[cont] = "para")
  /\ (IF SameList(n) THEN DepthOfNew(cont, "item") ELSE DepthOfNew(cont, "list") + 1)
       <= MaxNesting

IsIndentedCode(n) == Indented(n) /\ type[tip] # "para" /\ ~n.blank

\* The delimiter row is as wide as the paragraph's last line.
IsTable(n) ==
  /\ Gfm
  /\ ~Indented(n)
  /\ type[cont] = "para"
  /\ DelimiterColumns(line, n.pos) # 0
  /\ lastAdded.to = cont
  /\ Cells(lastAdded.toks) = DelimiterColumns(line, n.pos)

\* The starts, from the si-th on, that would take the line.
Takers(n) ==
  IF ~Indented(n) /\ ~MaybeSpecial(Tok(line, n.pos), Gfm) THEN {}
  ELSE {k \in si..8 :
          \/ k = 0 /\ IsQuote(n)
          \/ k = 1 /\ ~Indented(n) /\ AtxHeading(line, n.pos)
          \/ k = 2 /\ ~Indented(n) /\ OpensFence(line, n.pos)
          \/ k = 3 /\ IsHtml(n)
          \/ k = 4 /\ IsSetext(n)
          \/ k = 5 /\ ~Indented(n) /\ ThematicBreak(line, n.pos)
          \/ k = 6 /\ IsItem(n)
          \/ k = 7 /\ IsIndentedCode(n)
          \/ k = 8 /\ IsTable(n)}

Takes(k, n) == k \in Takers(n) /\ \A j \in Takers(n) : k <= j

\* Start k takes the line: close what did not match, go on to g, open blocks,
\* and continue at then with the cursor at c.
Begin(k, g, blocks, c, then) ==
  LET n == NextNonspace(line, cur)
  IN  /\ pc = "starts"
      /\ Takes(k, n)
      /\ nx' = n
      /\ cur' = c
      /\ pend' = blocks
      /\ goal' = g
      /\ after' = then
      /\ pc' = "close"
      /\ UNCHANGED <<treeVars, flagVars, closeVars, spineVars, lenVars,
                     si, tip, cont, lastAdded, input>>

Block(t, fields) == [type |-> t, blk |-> fields]

StartQuote ==
  LET n == NextNonspace(line, cur)
  IN  Begin(0, "add", <<Block("quote", NewBlk)>>,
            OptionalSpace(line, PastMarker(line, ToNonspace(n))), "starts")

StartHeading ==
  LET n    == NextNonspace(line, cur)
      text == Rest(line, NextNonspace(line, PastMarker(line, ToNonspace(n))).pos)
  IN  Begin(1, "add",
            <<Block("heading", [NewBlk EXCEPT !.content = <<[at |-> lineNo, toks |-> text]>>])>>,
            ToLineEnd(line), "text")

StartFence ==
  LET n == NextNonspace(line, cur)
  IN  Begin(2, "add",
            <<Block("code", [NewBlk EXCEPT !.fence = Tok(line, n.pos), !.inset = n.indent])>>,
            PastMarker(line, ToNonspace(n)), "text")

\* Leading spaces are part of the HTML: the cursor stays.
StartHtml ==
  LET n == NextNonspace(line, cur)
  IN  Begin(3, "add", <<Block("html", [NewBlk EXCEPT !.kind = HtmlKind(line, n.pos)])>>,
            cur, "text")

StartSetext == Begin(4, "setext", <<>>, cur, "text")

StartBreak == Begin(5, "add", <<Block("break", NewBlk)>>, ToLineEnd(line), "text")

StartItem ==
  LET n    == NextNonspace(line, cur)
      m    == ListMarker(line, n)
      data == [NewBlk EXCEPT !.mark = ListMark(Tok(line, n.pos)), !.indent = m.indent]
      item == Block("item", data)
  IN  Begin(6, "add", IF SameList(n) THEN <<item>> ELSE <<Block("list", data), item>>,
            m.cur, "starts")

StartIndentedCode ==
  Begin(7, "add", <<Block("code", NewBlk)>>, Advance(line, cur, CodeIndent), "text")

StartTable == Begin(8, "table", <<>>, cur, "text")

\* The rest of the line is text.
NoStart ==
  LET n == NextNonspace(line, cur)
  IN  /\ pc = "starts"
      /\ Takers(n) = {}
      /\ nx' = n
      /\ cur' = ToNonspace(n)
      /\ pc' = "text"
      /\ UNCHANGED <<treeVars, flagVars, closeVars, spineVars, startVars, lenVars,
                     tip, cont, lastAdded, input>>

(***************************************************************************)
(* close_unmatched_blocks, then what asked for it.  Its walk up ends at    *)
(* the last matched container, which is above the old tip (SpineInv): the  *)
(* arm for a block without a parent is not reached.                        *)
(***************************************************************************)
\* The old tip is closed and asked for again.
Above_same(n) == n

Above(n) == tree.parent[n]

CloseOne ==
  /\ pc = "close"
  /\ ~allClosed
  /\ oldtip # lmc
  /\ oldtip' = Above(oldtip)
  /\ Finalize(oldtip, LineAbove, lastLen)
  /\ UNCHANGED <<lmc, allClosed, cursorVars, startVars, lenVars, cont, lastAdded, input, pc>>

AllClosed ==
  /\ pc = "close"
  /\ allClosed \/ oldtip = lmc
  /\ allClosed' = TRUE
  /\ pc' = goal
  /\ UNCHANGED <<treeVars, flagVars, closeVars, cursorVars, startVars, lenVars,
                 oldtip, lmc, tip, cont, lastAdded, input>>

(***************************************************************************)
(* add_child, for each block a start opens                                 *)
(***************************************************************************)
MakeRoom ==
  /\ pc = "add"
  /\ tip # Doc
  /\ ~CanContain(type[tip], pend[1].type)
  /\ Finalize(tip, LineAbove, lastLen)
  /\ UNCHANGED <<spineVars, cursorVars, startVars, lenVars, cont, lastAdded, input, pc>>

\* A table is dated from its header row, every other block from this line.
AddChild ==
  LET new == used + 1
      b   == pend[1]
  IN  /\ pc = "add"
      /\ tip = Doc \/ CanContain(type[tip], b.type)
      /\ used < MaxNodes
      /\ used' = new
      /\ tree' = AppendChild(tree, tip, new)
      /\ type' = [type EXCEPT ![new] = b.type]
      /\ open' = open \cup {new}
      /\ blk' = [blk EXCEPT ![new] =
                   [b.blk EXCEPT !.start = IF b.type = "table" THEN lineNo - 1 ELSE lineNo]]
      /\ tip' = new
      /\ pend' = Tail(pend)
      /\ pc' = IF Len(pend) = 1 THEN after ELSE "add"
      /\ cont' = IF Len(pend) = 1 /\ after # "line" THEN new ELSE cont
      /\ si' = 0
      /\ UNCHANGED <<flagVars, closeVars, spineVars, cursorVars, lenVars,
                     goal, after, lastAdded, input>>

(***************************************************************************)
(* A setext underline turns the paragraph above it into a heading          *)
(***************************************************************************)
\* The paragraph's definitions are consumed first; were there nothing else,
\* the line is no underline, and the next starts are tried.
SetextFalls ==
  LET content == blk[cont].content
      k       == Definitions(content)
  IN  /\ pc = "setext"
      /\ AfterDefinitions(content, k) = <<>>
      /\ blk' = [blk EXCEPT ![cont].content = <<>>]
      /\ refs' = Defined(refs, content, k)
      /\ defLines' = defLines \cup DefinitionLines(content, k)
      /\ si' = 5
      /\ pc' = "starts"
      /\ UNCHANGED <<tree, type, open, used, flagVars, padded, spineVars, cursorVars,
                     pend, goal, after, lenVars, tip, cont, lastAdded, input>>

\* The heading takes the paragraph's place and what is left of its text; the
\* paragraph leaves the tree without being closed.
SetextHeading ==
  LET content == blk[cont].content
      k       == Definitions(content)
      new     == used + 1
  IN  /\ pc = "setext"
      /\ AfterDefinitions(content, k) # <<>>
      /\ used < MaxNodes
      /\ used' = new
      /\ type' = [type EXCEPT ![new] = "heading"]
      /\ open' = open \cup {new}
      /\ tree' = Unlink(InsertAfter(tree, cont, new), cont)
      /\ blk' = [blk EXCEPT ![cont].content = <<>>,
                            ![new] = [NewBlk EXCEPT !.start = blk[cont].start,
                                        !.content = AfterDefinitions(content, k)]]
      /\ refs' = Defined(refs, content, k)
      /\ defLines' = defLines \cup DefinitionLines(content, k)
      /\ tip' = new
      /\ cont' = new
      /\ cur' = ToLineEnd(line)
      /\ pc' = "text"
      /\ UNCHANGED <<flagVars, padded, spineVars, nx, startVars, lenVars, lastAdded, input>>

(***************************************************************************)
(* try_open_table: the last line of the paragraph becomes the header row   *)
(***************************************************************************)
\* The table to open, with its header row.
OpenTable ==
  LET cols   == DelimiterColumns(line, nx.pos)
      header == WithRow([rows |-> <<>>, padded |-> padded], cols,
                        lastAdded.toks, lineNo - 1, lineNo - 1)
  IN  /\ pc = "table"
      /\ pend' = <<Block("table", [NewBlk EXCEPT !.cols = cols, !.rows = header.rows])>>
      /\ goal' = "add"
      /\ pc' = "add"
      /\ UNCHANGED <<spineVars, cursorVars, si, after, lenVars, cont, lastAdded, input>>

\* The paragraph is dated as any block the line closes.
LineAboveHeader_above == lineNo - 1
LengthAboveHeader_last == lastLen

\* A paragraph above a table's header row ends two lines back, not one.
LineAboveHeader == lineNo - 2
LengthAboveHeader == prevLen

\* The lines above the header row stay a paragraph.
SplitParagraph ==
  /\ OpenTable
  /\ Len(blk[cont].content) > 1
  /\ FinalizeWith(cont, Front(blk[cont].content), LineAboveHeader, LengthAboveHeader)

\* The paragraph was the header row alone: the table takes its place.
ReplaceParagraph ==
  /\ OpenTable
  /\ Len(blk[cont].content) <= 1
  /\ tree' = Unlink(tree, cont)
  /\ tip' = tree.parent[cont]
  /\ UNCHANGED <<type, open, blk, used, flagVars, closeVars>>

(***************************************************************************)
(* What is left of the line                                                *)
(***************************************************************************)
Lazily == ~allClosed /\ ~nx.blank /\ type[tip] = "para"

LazyLine ==
  /\ pc = "text"
  /\ Lazily
  /\ AddLine
  /\ EndLine(lineNo)
  /\ pc' = "read"
  /\ UNCHANGED <<tree, type, open, used, flagVars, closeVars, spineVars, cursorVars,
                 startVars, tip, cont, input>>

CloseForText ==
  /\ pc = "text"
  /\ ~Lazily
  /\ goal' = "body"
  /\ pc' = "close"
  /\ UNCHANGED <<treeVars, flagVars, closeVars, spineVars, cursorVars, si, pend, after,
                 lenVars, tip, cont, lastAdded, input>>

\* A block quote's line is never blank, nor is fenced code's for looseness,
\* and the blank first line of an item is its own.
EndsBlank == /\ nx.blank
             /\ type[cont] # "quote"
             /\ ~Fenced(cont)
             /\ ~(type[cont] = "item" /\ tree.first[cont] = Nil /\ blk[cont].start = lineNo)

\* last_line_blank: set on the last child, and up from the container.
BlankAfter ==
  LET told  == IF nx.blank /\ tree.last[cont] # Nil THEN {tree.last[cont]} ELSE {}
      above == SelfAndAbove(tree, cont)
  IN  IF EndsBlank THEN blankEnd \cup told \cup above ELSE (blankEnd \cup told) \ above

MarkBlank ==
  /\ blankEnd' = BlankAfter
  /\ UNCHANGED <<tree, type, open, blk, used, checked, closeVars, spineVars, si, tip, cont,
                 lastAdded, input>>

GiveToBlock ==
  /\ pc = "body"
  /\ AcceptsLines(type[cont])
  /\ MarkBlank
  /\ pc' = "line"
  /\ UNCHANGED <<cursorVars, pend, goal, after, lenVars>>

\* Nowhere else for the text to go: a paragraph is opened for it.
OpenParagraph ==
  /\ pc = "body"
  /\ ~AcceptsLines(type[cont])
  /\ cur.off < Len(line) /\ ~nx.blank
  /\ MarkBlank
  /\ pend' = <<Block("para", NewBlk)>>
  /\ after' = "line"
  /\ goal' = "add"
  /\ cur' = ToNonspace(nx)
  /\ pc' = "add"
  /\ UNCHANGED <<nx, lenVars>>

NoText ==
  /\ pc = "body"
  /\ ~AcceptsLines(type[cont])
  /\ cur.off >= Len(line) \/ nx.blank
  /\ MarkBlank
  /\ EndLine(lineNo)
  /\ pc' = "read"
  /\ UNCHANGED <<cursorVars, pend, goal, after>>

\* The line holds the end of the HTML block it is added to.
EndsHtml == type[cont] = "html" /\ HtmlCloses(line, cur, blk[cont].kind)

TakeLine ==
  /\ pc = "line"
  /\ ~EndsHtml
  /\ AddLine
  /\ EndLine(lineNo)
  /\ pc' = "read"
  /\ UNCHANGED <<tree, type, open, used, flagVars, closeVars, spineVars, cursorVars,
                 startVars, tip, cont, input>>

TakeLastHtmlLine ==
  /\ pc = "line"
  /\ EndsHtml
  /\ lastAdded' = [to |-> tip, toks |-> LineText.toks]
  /\ FinalizeWith(cont, Append(blk[cont].content, LineText), lineNo, lineNo)
  /\ EndLine(lineNo)
  /\ pc' = "read"
  /\ UNCHANGED <<spineVars, cursorVars, startVars, cont, input>>

(***************************************************************************)
(* The end of the document: `finish`                                       *)
(***************************************************************************)
\* An empty document still has one, empty, line.
EndOfInput ==
  /\ pc = "read"
  /\ Len(input) > 0
  /\ pc' = "finish"
  /\ UNCHANGED <<treeVars, flagVars, closeVars, spineVars, cursorVars, startVars, lenVars,
                 tip, cont, lastAdded, input>>

FinishOne ==
  /\ pc = "finish"
  /\ tip # Nil
  /\ Finalize(tip, lineNo, lastLen)
  /\ UNCHANGED <<spineVars, cursorVars, startVars, lenVars, cont, lastAdded, input, pc>>

\* mark_task_list_items: the items whose first block is a paragraph that
\* begins with a task marker, and the marker is dropped from its text.
Tasks == {n \in 1..used :
            LET p == tree.first[n]
            IN  /\ type[n] = "item" /\ tree.parent[n] # Nil
                /\ p # Nil
                /\ type[p] = "para"
                /\ blk[p].content # <<>>
                /\ TaskMarked(blk[p].content[1].toks)}

MarkTasks ==
  LET unmarked(p) ==
        LET toks == blk[p].content[1].toks
        IN  Rest(toks, NextNonspace(toks, [off |-> 1, col |-> 1, part |-> FALSE]).pos)
  IN  /\ pc = "finish"
      /\ tip = Nil
      /\ pc' = "done"
      /\ blk' = IF ~Gfm THEN blk
                ELSE [n \in Node |->
                        CASE n \in Tasks -> [blk[n] EXCEPT !.task = TRUE]
                          [] n \in {tree.first[m] : m \in Tasks} ->
                               [blk[n] EXCEPT !.content[1].toks = unmarked(n)]
                          [] OTHER -> blk[n]]
      /\ UNCHANGED <<tree, type, open, used, flagVars, closeVars, spineVars, cursorVars,
                     startVars, lenVars, tip, cont, lastAdded, input>>

(***************************************************************************)
(* The specification                                                       *)
(***************************************************************************)
Init ==
  /\ tree = Bare
  /\ type = [n \in Node |-> "doc"]
  /\ open = {Doc}
  /\ blk = [n \in Node |-> IF n = Doc THEN [NewBlk EXCEPT !.start = 1] ELSE NewBlk]
  /\ used = 1
  /\ blankEnd = {} /\ checked = {}
  /\ tip = Doc /\ oldtip = Doc /\ lmc = Doc /\ allClosed = TRUE
  /\ cont = Doc
  /\ cur = LineStart
  /\ nx = [pos |-> 0, col |-> 0, indent |-> 0, blank |-> FALSE]
  /\ si = 0 /\ pend = <<>> /\ goal = "body" /\ after = "text"
  /\ refs = [l \in Labels |-> 0] /\ defLines = {}
  /\ lastAdded = [to |-> Nil, toks |-> <<>>]
  /\ padded = 0
  /\ lastLen = 0 /\ prevLen = 0 /\ lenBefore = 0
  /\ input = <<>>
  /\ pc = "read"

Walk == ContinueMatched \/ ContinueNotMatched \/ NoMoreOpen \/ CloseFence
Start == \/ StartQuote \/ StartHeading \/ StartFence \/ StartHtml \/ StartSetext
         \/ StartBreak \/ StartItem \/ StartIndentedCode \/ StartTable \/ NoStart
Open == CloseOne \/ AllClosed \/ MakeRoom \/ AddChild
Convert == SetextFalls \/ SetextHeading \/ SplitParagraph \/ ReplaceParagraph
Text == \/ LazyLine \/ CloseForText \/ GiveToBlock \/ OpenParagraph \/ NoText
        \/ TakeLine \/ TakeLastHtmlLine
Finish == EndOfInput \/ FinishOne \/ MarkTasks
Done == pc = "done" /\ UNCHANGED vars

Next == ReadLine \/ Walk \/ Start \/ Open \/ Convert \/ Text \/ Finish \/ Done

Spec == Init /\ [][Next]_vars

\* The parser is one sequential loop: it takes its next step when it has one.
FairSpec == Spec /\ WF_vars(Next)
=============================================================================
