--------------------------- MODULE BlockProperties ---------------------------
(***************************************************************************)
(* What the block phase promises, stated over the states of BlockPhase.    *)
(***************************************************************************)
EXTENDS BlockPhase

Linked == {n \in 1..used : n = Doc \/ tree.parent[n] # Nil}
OnSpine == {n \in open : n = Doc \/ tree.parent[n] # Nil}
Settled == pc \in {"read", "finish", "done"}

Entry == [at : Nat, toks : Seq(Tokens)]
Cursor == [off : Nat, col : Nat, part : BOOLEAN]
BlockFields ==
  [start : Nat, end : Nat, of : Nat, content : Seq(Entry),
   mark : Bullets \cup {"ordered", "none"}, indent : Nat, tight : BOOLEAN, task : BOOLEAN,
   fence : Fences \cup {"none"}, inset : 0..3, kind : {0, 2, 6, 7},
   cols : 0..2, rows : Seq([at : Nat, src : Nat, cells : Nat])]

\* Every variable has its type: what the fields of BlockParser and MdNode may
\* hold, and which links the arena may have.
TypeOK ==
  /\ tree \in Tree /\ used \in Node /\ open \subseteq 1..used
  /\ type \in [Node -> BlockTypes] /\ blk \in [Node -> BlockFields]
  /\ blankEnd \subseteq 1..used /\ checked \subseteq 1..used
  /\ tip \in Link /\ {oldtip, lmc, cont} \subseteq Node /\ allClosed \in BOOLEAN
  /\ cur \in Cursor
  /\ nx \in [pos : Nat, col : Nat, indent : Nat, blank : BOOLEAN]
  /\ si \in {0, 5}
  /\ pend \in Seq([type : BlockTypes, blk : BlockFields])
  /\ goal \in {"add", "setext", "table", "body"} /\ after \in {"starts", "text", "line"}
  /\ refs \in [Labels -> Nat] /\ defLines \subseteq 1..lineNo
  /\ lastAdded \in [to : Link, toks : Seq(Tokens)]
  /\ padded \in 0..MaxPadding
  /\ {lastLen, prevLen, lenBefore} \subseteq 0..lineNo
  /\ input \in Seq(Lines) /\ lineNo <= MaxLines
  /\ pc \in {"read", "walk", "starts", "close", "setext", "table", "add", "text", "body",
             "line", "finish", "done"}

(***************************************************************************)
(* The spine                                                               *)
(***************************************************************************)
\* The open blocks of the tree form one chain of last children from the
\* document to the tip: going down last children while they are open, as the
\* walk of incorporate_line does, meets every open block and ends on the tip.
\* A setext conversion or a table that replaces its paragraph leaves a block
\* open outside the tree; those are not on the chain.
SpineInv ==
  /\ tip = Nil => OnSpine = {}
  /\ tip # Nil => tip \in OnSpine /\ tree.last[tip] \notin open
  /\ \A n \in OnSpine \ {tip} : tree.last[n] \in OnSpine
  /\ \A n \in OnSpine \ {Doc} : tree.parent[n] \in OnSpine /\ tree.last[tree.parent[n]] = n

\* The links of the arena agree: a last child and its siblings name the same
\* parent, and a node is pushed after the one it is put under.
LinksAgree ==
  \A n \in Node :
    /\ tree.last[n] # Nil => tree.parent[tree.last[n]] = n /\ tree.next[tree.last[n]] = Nil
    /\ tree.parent[n] # Nil /\ tree.next[n] = Nil => tree.last[tree.parent[n]] = n
    /\ tree.parent[n] # Nil => tree.parent[n] < n
    /\ tree.next[n] # Nil => /\ tree.parent[n] # Nil
                            /\ tree.prev[tree.next[n]] = n
                            /\ tree.parent[tree.next[n]] = tree.parent[n]
    /\ tree.prev[n] # Nil => /\ tree.parent[n] # Nil
                            /\ tree.next[tree.prev[n]] = n
                            /\ tree.parent[tree.prev[n]] = tree.parent[n]
    /\ n > used => /\ tree.parent[n] = Nil /\ tree.last[n] = Nil
                   /\ tree.prev[n] = Nil /\ tree.next[n] = Nil

\* Only the document and containers have children.
LeavesAreBare ==
  \A n \in Node : tree.last[n] # Nil => type[n] \in Containers \cup {"doc"}

\* Down the spine the arena numbers rise: nothing lies between a block and its
\* last child.
SpineRises ==
  /\ \A n \in OnSpine : n <= tip
  /\ \A m, n \in OnSpine : m < n => tree.last[m] <= n

\* What the spine is, by itself.
Shape ==
  /\ tree \in Tree /\ used \in Node /\ open \subseteq 1..used /\ tip \in Link
  /\ DOMAIN type = Node /\ type[Doc] = "doc" /\ tree.parent[Doc] = Nil
  /\ LinksAgree /\ LeavesAreBare /\ SpineInv /\ SpineRises

\* Where the parser's own pointers stand on it, at each of its steps.
Pointers ==
  /\ goal \in {"add", "setext", "table", "body"} /\ after \in {"starts", "text", "line"}
  /\ cont \in 1..used
  /\ tip = Nil => pc \in {"finish", "done"}
  /\ tip # Nil => Doc \in open
  /\ pc = "walk" => oldtip = tip
  /\ pc \in {"walk", "starts", "close", "setext", "table", "text", "body"} => cont \in OnSpine
  /\ pc \in {"starts", "close", "text"} /\ ~allClosed => oldtip = tip /\ cont = lmc
  /\ pc \in {"add", "setext", "table", "body", "line"} => allClosed
  /\ pc = "close" /\ goal \in {"setext", "table"} => type[cont] = "para"
  /\ pc \in {"setext", "table"} => type[cont] = "para"
  /\ pc = "close" /\ goal = "add" => after # "line"
  /\ pc = "add" /\ after = "line" => type[cont] # "html"
  /\ pc = "line" /\ type[cont] = "html" => cont \in OnSpine

\* The inductive strengthening of SpineInv.
SpineIInv == Shape /\ Pointers

\* Whenever close_unmatched_blocks has blocks to close, they are the tip and
\* the blocks above it up to the last matched container: oldtip never names a
\* block other than the tip, and the container it stops at is still open.
UnmatchedAreBelow ==
  (pc \in {"starts", "close", "text"} /\ ~allClosed) =>
     /\ oldtip = tip
     /\ lmc \in SelfAndAbove(tree, oldtip) \cap OnSpine

\* No block of the tree lies in more containers than MAX_CONTAINER_NESTING,
\* whatever sequence of starts opened them.
NestingBounded == \A n \in Linked : ContainerDepth(n) <= MaxNesting

\* Items stand in lists and only there, lists hold nothing else, and leaves
\* hold nothing: what add_child's loop over can_contain is for.
WellContained ==
  \A n \in Linked \ {Doc} :
    LET above == type[tree.parent[n]]
    IN  /\ above \in {"doc"} \cup Containers
        /\ type[n] = "item" <=> above = "list"

(***************************************************************************)
(* Source positions                                                        *)
(***************************************************************************)
\* Siblings cover disjoint line ranges, in order, within those of the block
\* they stand in, however their ends were dated: by the line that closed them,
\* by their last child, or two lines back by a table.
SourceOrder ==
  \A n \in Linked :
    LET kids == Children(tree, n)
    IN  \A i \in 1..Len(kids) :
          /\ blk[n].start <= blk[kids[i]].start /\ blk[kids[i]].start <= lineNo
          /\ i < Len(kids) => blk[kids[i]].end < blk[kids[i+1]].start
          /\ kids[i] \notin open =>
               /\ blk[kids[i]].start <= blk[kids[i]].end
               /\ n \notin open => blk[kids[i]].end <= blk[n].end

\* The end column of a closed block was measured on the line it ends on:
\* last_line_length and prev_line_length are never a line too recent.
EndsDated == \A n \in Linked \ open : blk[n].of = blk[n].end

\* A paragraph's text is a run of consecutive lines, and once it is closed the
\* last of them is the line it ends on, also when a table took the next one.
ParagraphsAreRuns ==
  \A n \in Linked :
    (type[n] = "para" /\ blk[n].content # <<>>) =>
      LET c == blk[n].content
      IN  /\ \A i \in 1..(Len(c) - 1) : c[i+1].at = c[i].at + 1
          /\ n \notin open => blk[n].end = c[Len(c)].at

\* The line a body row is dated with is the line its text was read from.
RowsDated ==
  \A n \in Linked : \A i \in 1..Len(blk[n].rows) : blk[n].rows[i].at = blk[n].rows[i].src

(***************************************************************************)
(* Text                                                                    *)
(***************************************************************************)
HasText(ln) == \E i \in 1..Len(ln) : ln[i] \in Texts \cup Labels

\* The places that hold the text of line l: blocks, rows, definitions.
Holders(l) ==
  LET places == Linked \X (1..lineNo)
  IN  {<<"text", p>> : p \in {q \in places : /\ q[2] <= Len(blk[q[1]].content)
                                            /\ blk[q[1]].content[q[2]].at = l}}
      \cup {<<"row", p>> : p \in {q \in places : /\ q[2] <= Len(blk[q[1]].rows)
                                                 /\ blk[q[1]].rows[q[2]].src = l}}
      \cup {<<"definition", d>> : d \in defLines \cap {l}}

\* Every line with text is kept in exactly one place: a block's content, a
\* table's row, or a link reference definition.
EveryLineOnce ==
  Settled => \A l \in 1..lineNo : HasText(input[l]) => Cardinality(Holders(l)) = 1

\* A paragraph that is left with no text is not in the tree once it is closed.
NoEmptyParagraph ==
  \A n \in Linked \ open : type[n] = "para" => blk[n].content # <<>>

\* A table takes as its header row the line its paragraph still ends with.
HeaderRowEndsContent ==
  pc = "table" => /\ blk[cont].content # <<>>
                  /\ Last(blk[cont].content) = [at |-> lineNo - 1, toks |-> lastAdded.toks]

(***************************************************************************)
(* Lists and tables                                                        *)
(***************************************************************************)
\* Section 5.3 without the memo.
EndsWithBlank(n) ==
  LET down[m \in Link] ==
        /\ m # Nil
        /\ m \in blankEnd \/ (type[m] \in {"list", "item"} /\ down[tree.last[m]])
  IN  down[n]

\* A closed list is loose exactly when something in it that ends with a blank
\* line is followed by something: the last_line_checked flags, set by the lists
\* inside it before their last lines are known, never hide one.
TightAsDefined ==
  \A n \in Linked \ open :
    type[n] = "list" =>
      (blk[n].tight <=> \A i \in 1..Len(Probes(n)) :
                           ~(EndsWithBlank(Probes(n)[i].node) /\ Probes(n)[i].more))

\* A short row stays short only when the whole budget of empty cells is spent.
ShortOnlyWhenSpent ==
  \A n \in Linked : \A i \in 1..Len(blk[n].rows) :
    blk[n].rows[i].cells < blk[n].cols => padded = MaxPadding

\* The budget is the document's: all tables together never exceed it, and what
\* was drawn from it is what the rows are longer than their text.
PaddingBudget ==
  /\ padded <= MaxPadding
  /\ ShortOnlyWhenSpent
  /\ Settled =>
       padded = MapThenSumSet(
         LAMBDA r : blk[r[1]].rows[r[2]].cells
                      - Min({blk[r[1]].cols, Cells(TextFrom(input[blk[r[1]].rows[r[2]].src], LineStart))}),
         {r \in Linked \X (1..lineNo) : r[2] <= Len(blk[r[1]].rows)})

\* The winner of a label is the first definition of it in the document.
FirstDefinitionWins ==
  \A l \in Labels :
    LET at == {i \in defLines : \E j \in 1..Len(input[i]) : input[i][j] = l}
    IN  refs[l] = IF at = {} THEN 0 ELSE Min(at)

(***************************************************************************)
(* The cursor                                                              *)
(***************************************************************************)
\* The column the parser counts as it goes is the column of the offset, or,
\* inside a tab that is partly consumed, one strictly between its two ends.
CursorAgrees ==
  pc \notin {"read", "finish", "done"} =>
    LET here == ColumnAt(line, cur.off)
    IN  IF cur.part
        THEN /\ Tok(line, cur.off) = "tab"
             /\ here < cur.col /\ cur.col < ColumnAt(line, cur.off + 1)
        ELSE cur.col = here

(***************************************************************************)
(* Steps and progress                                                      *)
(***************************************************************************)
\* A closed block is never changed again until the task list pass: its text,
\* rows and end stay, it gets no child, and it does not open again.
ClosedStaysClosed ==
  [][pc' # "done" =>
       \A n \in 1..used \ open :
         /\ n \notin open'
         /\ tree'.last[n] = tree.last[n]
         /\ blk'[n].content = blk[n].content /\ blk'[n].rows = blk[n].rows
         /\ blk'[n].end = blk[n].end]_vars

\* incorporate_line and finish return: whatever is open, each line is absorbed
\* and the parser comes back for the next, and a document that ends is closed.
LineAbsorbed == (pc = "walk" ~> pc = "read") /\ (pc = "finish" ~> pc = "done")

=============================================================================
