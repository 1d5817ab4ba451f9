------------------------------ MODULE HtmlRender ------------------------------
(***************************************************************************)
(* The HTML renderer of rs/src/html.rs and the Walker of rs/src/node.rs it *)
(* is driven by, over a finished tree: a record d of its links (d.t) and   *)
(* of the fields the outputs read.  The output is a sequence of tags,      *)
(* texts and newlines.  Attributes are left out, but for the column that   *)
(* gives a cell its alignment and for an image's alternative text.         *)
(***************************************************************************)
EXTENDS NodeTree, SequencesExt

CONSTANT Breaks        \* options.breaks

ASSUME BreaksAssumption == Breaks \in BOOLEAN

HasChildren == {"Document", "BlockQuote", "List", "Item", "Paragraph", "Heading", "Table",
                "TableRow", "TableCell", "Emph", "Strong", "Link", "Image", "Del"}

(***************************************************************************)
(* The walker                                                              *)
(***************************************************************************)
WalkFrom(n) == [at |-> n, entering |-> TRUE, root |-> n]

\* Walker::next: where the walk stands after the event at w.
WalkOn(d, w) ==
  LET n == w.at
  IN  CASE w.entering /\ d.kind[n] \in HasChildren ->
             IF d.t.first[n] # Nil THEN [w EXCEPT !.at = d.t.first[n]]
             ELSE [w EXCEPT !.entering = FALSE]
        [] ~(w.entering /\ d.kind[n] \in HasChildren) ->
             CASE n = w.root -> [w EXCEPT !.at = Nil]
               [] n # w.root /\ d.t.next[n] # Nil ->
                    [w EXCEPT !.at = d.t.next[n], !.entering = TRUE]
               [] OTHER -> [w EXCEPT !.at = d.t.parent[n], !.entering = FALSE]

\* alt_text: a walk of its own under the image, in which breaks are newlines.
AltText(d, image) ==
  LET from[n \in Link, entering \in BOOLEAN] ==
        LET on == WalkOn(d, [at |-> n, entering |-> entering, root |-> image])
        IN  CASE n \in {Nil, image} -> <<>>
              [] n \notin {Nil, image} /\ ~entering -> from[on.at, on.entering]
              [] OTHER ->
                   (CASE d.kind[n] \in {"Text", "Code", "HtmlInline"} -> d.lit[n]
                      [] d.kind[n] \in {"Softbreak", "Linebreak"} -> <<"nl">>
                      [] OTHER -> <<>>) \o from[on.at, on.entering]
      first == WalkOn(d, WalkFrom(image))
  IN  from[first.at, first.entering]

(***************************************************************************)
(* What an event writes                                                    *)
(***************************************************************************)
Cr             == [do |-> "cr"]
Write(text)    == [do |-> "lit", text |-> text]
OpenTag(name)  == [do |-> "open", name |-> name]
CloseTag(name) == [do |-> "close", name |-> name]
VoidTag(name)  == [do |-> "void", name |-> name]
NewLine        == [do |-> "lit", text |-> <<"nl">>]

TagOf(name, entering) == IF entering THEN OpenTag(name) ELSE CloseTag(name)

\* Section 5.3: the paragraphs of a tight list's items have no tags.
InTightList(d, n) ==
  LET p == d.t.parent[n]
      g == IF p = Nil THEN Nil ELSE d.t.parent[p]
  IN  g # Nil /\ d.kind[g] = "List" /\ d.tight[g]

\* Every paragraph of a task item has the checkbox.
HasCheckbox_everyParagraph(d, n) ==
  LET p == d.t.parent[n]
  IN  p # Nil /\ d.kind[p] = "Item" /\ p \in d.checked

\* The paragraph that leads a task item begins with its checkbox.
HasCheckbox(d, n) ==
  LET p == d.t.parent[n]
  IN  p # Nil /\ d.kind[p] = "Item" /\ d.t.first[p] = n /\ p \in d.checked

ParagraphWrites(d, n, entering) ==
  LET tag == IF InTightList(d, n) THEN <<>>
             ELSE IF entering THEN <<Cr, OpenTag("p")>> ELSE <<CloseTag("p"), Cr>>
      box == IF entering /\ HasCheckbox(d, n)
             THEN <<VoidTag("input"), Write(<<"sp">>)>> ELSE <<>>
  IN  tag \o box

\* <tbody> has no node: the row after the header row opens it, the last closes it.
OpensBody(d, row) == row \notin d.header
                       /\ (d.t.prev[row] = Nil \/ d.t.prev[row] \in d.header)

\* A body row closes the body when it opened it.
ClosesBody_withOpener(d, row) == OpensBody(d, row)

ClosesBody(d, row) == row \notin d.header /\ d.t.next[row] = Nil

RowWrites(d, row, entering) ==
  LET group == IF row \in d.header THEN "thead" ELSE "tbody"
  IN  IF entering
      THEN (IF row \in d.header \/ OpensBody(d, row) THEN <<Cr, OpenTag(group)>> ELSE <<>>)
             \o <<Cr, OpenTag("tr"), Cr>>
      ELSE <<Cr, CloseTag("tr"), Cr>>
             \o (IF row \in d.header \/ ClosesBody(d, row) THEN <<CloseTag(group)>> ELSE <<>>)
             \o <<Cr>>

CellWrites(d, cell, column, entering) ==
  LET name == IF d.t.parent[cell] \in d.header THEN "th" ELSE "td"
  IN  IF entering THEN <<[do |-> "open", name |-> name, column |-> column]>>
      ELSE <<CloseTag(name), Cr>>

SoftbreakWrites == IF Breaks THEN <<VoidTag("br"), NewLine>> ELSE <<NewLine>>

\* The writes of one event, by node type: `render_html_with`.
Writes(d, n, entering, column) ==
  CASE d.kind[n] = "Document" -> <<>>
    [] d.kind[n] = "Paragraph" -> ParagraphWrites(d, n, entering)
    [] d.kind[n] = "Heading" ->
         IF entering THEN <<Cr, OpenTag("h")>> ELSE <<CloseTag("h"), Cr>>
    [] d.kind[n] = "ThematicBreak" -> <<Cr, VoidTag("hr"), Cr>>
    [] d.kind[n] = "BlockQuote" -> <<Cr, TagOf("blockquote", entering), Cr>>
    [] d.kind[n] = "List" -> <<Cr, TagOf("ul", entering), Cr>>
    [] d.kind[n] = "Item" -> IF entering THEN <<OpenTag("li")>> ELSE <<CloseTag("li"), Cr>>
    [] d.kind[n] = "CodeBlock" ->
         <<Cr, OpenTag("pre"), OpenTag("code"), Write(d.lit[n]), CloseTag("code"),
           CloseTag("pre"), Cr>>
    [] d.kind[n] = "HtmlBlock" -> <<Cr, Write(d.lit[n]), Cr>>
    [] d.kind[n] = "Table" -> <<Cr, TagOf("table", entering), Cr>>
    [] d.kind[n] = "TableRow" -> RowWrites(d, n, entering)
    [] d.kind[n] = "TableCell" -> CellWrites(d, n, column, entering)
    [] d.kind[n] \in {"Text", "HtmlInline"} -> <<Write(d.lit[n])>>
    [] d.kind[n] = "Softbreak" -> SoftbreakWrites
    [] d.kind[n] = "Linebreak" -> <<VoidTag("br"), Cr>>
    [] d.kind[n] = "Code" -> <<OpenTag("code"), Write(d.lit[n]), CloseTag("code")>>
    [] d.kind[n] = "Emph" -> <<TagOf("em", entering)>>
    [] d.kind[n] = "Strong" -> <<TagOf("strong", entering)>>
    [] d.kind[n] = "Del" -> <<TagOf("del", entering)>>
    [] d.kind[n] = "Link" -> <<TagOf("a", entering)>>
    [] d.kind[n] = "Image" ->
         IF entering THEN <<[do |-> "void", name |-> "img", alt |-> AltText(d, n)]>> ELSE <<>>

(***************************************************************************)
(* The buffer: `lit`, `cr` and `tag`                                       *)
(***************************************************************************)
\* A tag leaves the line start flag as it was.
AtStartAfter_textOnly(lineStart, w) ==
  IF w.do = "lit" THEN Last(w.text) = "nl" ELSE lineStart

\* Whether the buffer is at the start of a line once w is in it.
AtStartAfter(lineStart, w) == w.do = "lit" /\ Last(w.text) = "nl"

Put(r, w) == [r EXCEPT !.out = Append(@, w), !.lineStart = AtStartAfter(@, w)]

\* cr writes a newline only off the start of a line; empty text is not written.
Written(r, w) ==
  CASE w.do = "cr" -> IF r.lineStart THEN r ELSE Put(r, NewLine)
    [] w.do = "lit" -> IF w.text = <<>> THEN r ELSE Put(r, w)
    [] OTHER -> Put(r, w)

(***************************************************************************)
(* One event                                                               *)
(***************************************************************************)
NewRenderer == [walk |-> WalkFrom(Doc), out |-> <<>>, lineStart |-> TRUE, cell |-> 0]

\* cell_index: the cells of the current row seen so far.
CellAfter(d, r, n, entering) ==
  CASE entering /\ d.kind[n] = "TableRow" -> 0
    [] entering /\ d.kind[n] = "TableCell" -> r.cell + 1
    [] OTHER -> r.cell

\* The walk goes on into an image like into any container.
WalkAfter_intoImages(d, w) == WalkOn(d, w)

\* An image's children are in its alt text: the walk resumes at its exit.
WalkAfter(d, w) ==
  IF w.entering /\ d.kind[w.at] = "Image" THEN [w EXCEPT !.entering = FALSE] ELSE WalkOn(d, w)

Rendered(d, r) ==
  LET n == r.walk.at
      e == r.walk.entering
  IN  [FoldLeft(Written, r, Writes(d, n, e, r.cell))
         EXCEPT !.walk = WalkAfter(d, r.walk), !.cell = CellAfter(d, r, n, e)]
=============================================================================
