----------------------------- MODULE BlockOutput -----------------------------
(***************************************************************************)
(* The block phase composed with the two outputs.  Between them the inline *)
(* phase has nothing to find in these documents: each line is a text, with *)
(* soft breaks between, and cells are left empty.                          *)
(***************************************************************************)
EXTENDS BlockPhase, OutputProperties

outputVars == <<vars, outputs>>

ViewKinds == [doc |-> "Document", quote |-> "BlockQuote", list |-> "List", item |-> "Item",
              para |-> "Paragraph", heading |-> "Heading", code |-> "CodeBlock",
              html |-> "HtmlBlock", break |-> "ThematicBreak", table |-> "Table"]

InTree == {n \in 1..used : n = Doc \/ tree.parent[n] # Nil}

\* The view d with a new last child of p.
Grown(d, p, kind, text) ==
  LET n == d.used + 1
  IN  [d EXCEPT !.used = n, !.t = AppendChild(@, p, n), !.kind[n] = kind, !.lit[n] = text]

Dark(toks) == SelectSeq(toks, LAMBDA t : t \notin Space)

\* A text for each line of the block n.
WithLines(d, n) ==
  LET add(e, i) == Grown(IF i = 1 THEN e ELSE Grown(e, n, "Softbreak", <<>>), n, "Text",
                         Dark(blk[n].content[i].toks))
  IN  FoldLeft(add, d, [i \in 1..Len(blk[n].content) |-> i])

\* The rows of the table n, the first of them the header row, and their cells.
WithRows(d, n) ==
  LET cell(e, row) == Grown(e, row, "TableCell", <<>>)
      add(e, i) ==
        LET grown == Grown(e, n, "TableRow", <<>>)
            row   == grown.used
        IN  FoldLeft(LAMBDA f, j : cell(f, row),
                     IF i = 1 THEN [grown EXCEPT !.header = @ \cup {row}] ELSE grown,
                     [j \in 1..blk[n].rows[i].cells |-> j])
  IN  FoldLeft(add, d, [i \in 1..Len(blk[n].rows) |-> i])

\* finalize_block's literal of a code or HTML block: the info string is not of
\* it, nor the blank lines that trail an indented or an HTML block.
Literal(n) ==
  LET lines  == [i \in 1..Len(blk[n].content) |-> blk[n].content[i].toks]
      filled == {i \in 1..Len(lines) : ~Blank(lines[i])}
      kept   == CASE Fenced(n) -> Tail(lines)
                  [] ~Fenced(n) /\ filled = {} -> <<>>
                  [] OTHER -> SubSeq(lines, 1, Max(filled))
      text   == FlattenSeq([i \in 1..Len(kept) |-> Append(kept[i], "nl")])
  IN  IF type[n] = "html" /\ text # <<>> THEN Front(text) ELSE text

\* The finished tree as the outputs read it.
BlockView ==
  LET bare == [t |-> tree, used |-> used,
               kind    |-> [n \in Node |-> ViewKinds[type[n]]],
               lit     |-> [n \in Node |-> IF Verbatim(type[n]) /\ n \in InTree
                                           THEN Literal(n) ELSE <<>>],
               tight   |-> [n \in Node |-> blk[n].tight],
               checked |-> {n \in InTree : blk[n].task},
               header  |-> {},
               start   |-> [n \in Node |-> blk[n].start],
               end     |-> [n \in Node |-> blk[n].end]]
      grow(d, n) == CASE n \in InTree /\ type[n] \in {"para", "heading"} -> WithLines(d, n)
                      [] n \in InTree /\ type[n] = "table" -> WithRows(d, n)
                      [] OTHER -> d
  IN  FoldLeft(grow, bare, [n \in 1..used |-> n])

OutputInit == Init /\ NoOutput

ParseBlocks == pc # "done" /\ Next /\ UNCHANGED outputs
HandOver    == pc = "done" /\ Given(BlockView) /\ UNCHANGED vars
RenderEvent == Render /\ UNCHANGED vars
ProjectTree == Project /\ UNCHANGED vars
Finished    == OutputDone /\ UNCHANGED outputVars

OutputNext == ParseBlocks \/ HandOver \/ RenderEvent \/ ProjectTree

OutputSpec == OutputInit /\ [][OutputNext \/ Finished]_outputVars

(***************************************************************************)
(* Loose lists and spread items                                            *)
(***************************************************************************)
\* Line l holds nothing but spaces and block quote markers.
BlankLine(l) == \A i \in 1..Len(input[l]) : input[l][i] \in Space \cup {">"}

ItemsOf(list) == {n \in Node : doc.t.parent[n] = list /\ doc.kind[n] = "Item"}

Lists == {n \in InTree : doc.kind[n] = "List"}

\* The two outputs tell loose lists by different means: the block phase by the
\* flags it set on blocks that end with a blank line, the syntax tree by gaps
\* between source lines.  A list with an item the one calls spread is a list
\* the other calls loose (item_is_spread, finalize_block), link reference
\* definitions apart.
SpreadMeansLoose ==
  IsRendered =>
    \A list \in Lists :
      doc.tight[list] => \A n \in ItemsOf(list) : ~ItemIsSpread(doc, n)

Neighbours(item) == {p \in Node \X Node : /\ doc.t.parent[p[1]] = item
                                          /\ doc.t.next[p[1]] = p[2]}

\* "Consecutive children whose line ranges are not adjacent must have had a
\* blank line between them" (item_is_spread).
GapsAreBlank ==
  doc # NoDoc =>
    \A n \in InTree : doc.kind[n] = "Item" =>
      \A p \in Neighbours(n) : Apart(doc, p[1], p[2]) =>
        \E l \in (doc.end[p[1]] + 1)..(doc.start[p[2]] - 1) : BlankLine(l)
=============================================================================
