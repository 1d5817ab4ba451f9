---------------------------- MODULE AstProjection ----------------------------
(***************************************************************************)
(* The projection of a finished tree to the JSON syntax tree: rs/src/ast.rs *)
(* over the same records as HtmlRender.  A value keeps its type, its text, *)
(* its children and the flags of lists and items.                          *)
(***************************************************************************)
EXTENDS HtmlRender

Value(type, text, children) ==
  [type |-> type, text |-> text, children |-> children, spread |-> FALSE, checked |-> FALSE]

\* collect_alt_text
CollectAltText(d, node) ==
  LET text[n \in Node] ==
        CASE d.kind[n] \in {"Text", "Code", "HtmlInline"} -> d.lit[n]
          [] d.kind[n] \in {"Softbreak", "Linebreak"} -> <<"nl">>
          [] OTHER -> LET kids == Children(d.t, n)
                      IN  FlattenSeq([i \in 1..Len(kids) |-> text[kids[i]]])
  IN  text[node]

(***************************************************************************)
(* Inlines                                                                 *)
(***************************************************************************)
\* A container's values so far, and the run of text in progress.
EmptyFrame == [out |-> <<>>, acc |-> <<>>, open |-> FALSE]

Flush(f) ==
  IF f.open THEN [out |-> Append(f.out, Value("text", f.acc, <<>>)), acc |-> <<>>, open |-> FALSE]
  ELSE f

\* Adjacent text accretes, and an empty one opens no run.
PushText(f, text) ==
  IF text = <<>> THEN f ELSE [f EXCEPT !.acc = @ \o text, !.open = TRUE]

PushValue(f, value) == [Flush(f) EXCEPT !.out = Append(@, value)]

InlineTypes == [Emph |-> "emphasis", Strong |-> "strong", Del |-> "delete", Link |-> "link"]

\* inline_children: a soft break is a space of the text around it, or a break.
InlineChildren(d, node) ==
  LET values[n \in Node] ==
        LET visit(f, c) ==
              CASE d.kind[c] = "Text" -> PushText(f, d.lit[c])
                [] d.kind[c] = "Softbreak" ->
                     IF Breaks THEN PushValue(f, Value("break", <<>>, <<>>))
                     ELSE PushText(f, <<"sp">>)
                [] d.kind[c] = "Linebreak" -> PushValue(f, Value("break", <<>>, <<>>))
                [] d.kind[c] = "Code" -> PushValue(f, Value("inlineCode", d.lit[c], <<>>))
                [] d.kind[c] = "HtmlInline" -> PushValue(f, Value("html", d.lit[c], <<>>))
                [] d.kind[c] \in DOMAIN InlineTypes ->
                     PushValue(f, Value(InlineTypes[d.kind[c]], <<>>, values[c]))
                [] d.kind[c] = "Image" ->
                     PushValue(f, Value("image", CollectAltText(d, c), <<>>))
                [] OTHER -> f
        IN  Flush(FoldLeft(visit, EmptyFrame, Children(d.t, n))).out
  IN  values[node]

(***************************************************************************)
(* Blocks                                                                  *)
(***************************************************************************)
\* Blocks on adjacent lines are apart, too.
Apart_adjacent(d, one, next) == d.start[next] > d.end[one]

\* The line ranges of two blocks are not adjacent.
Apart(d, one, next) == d.start[next] > d.end[one] + 1

\* item_is_spread
ItemIsSpread(d, item) ==
  \E c \in Node : d.t.parent[c] = item /\ d.t.next[c] # Nil /\ Apart(d, c, d.t.next[c])

BlockHolders == {"Document", "BlockQuote", "List", "Item"}   \* is_block_container

BlockValues == [Paragraph |-> "paragraph", Heading |-> "heading", ThematicBreak |-> "thematicBreak",
                BlockQuote |-> "blockquote", CodeBlock |-> "code", HtmlBlock |-> "html",
                Table |-> "table", List |-> "list", Item |-> "listItem"]

\* built_children: the values of n's children that are there to be taken.
BuiltChildren(d, n, built) ==
  LET kids == Children(d.t, n)
  IN  FlattenSeq([i \in 1..Len(kids) |-> built[kids[i]]])

TableRows(d, n) ==
  LET of(m, kind) == SelectSeq(Children(d.t, m), LAMBDA c : d.kind[c] = kind)
      cells(row) == [i \in 1..Len(of(row, "TableCell")) |->
                       Value("tableCell", <<>>, InlineChildren(d, of(row, "TableCell")[i]))]
      rows == of(n, "TableRow")
  IN  [i \in 1..Len(rows) |-> Value("tableRow", <<>>, cells(rows[i]))]

\* code.value has one final newline less than the literal.
StripNewline(text) == IF text # <<>> /\ Last(text) = "nl" THEN Front(text) ELSE text

\* build_block
BuildBlock(d, n, built) ==
  LET plain == Value(BlockValues[d.kind[n]], <<>>, <<>>)
  IN  CASE d.kind[n] \in {"Paragraph", "Heading"} ->
             [plain EXCEPT !.children = InlineChildren(d, n)]
        [] d.kind[n] = "BlockQuote" -> [plain EXCEPT !.children = BuiltChildren(d, n, built)]
        [] d.kind[n] = "CodeBlock" -> [plain EXCEPT !.text = StripNewline(d.lit[n])]
        [] d.kind[n] = "HtmlBlock" -> [plain EXCEPT !.text = d.lit[n]]
        [] d.kind[n] = "Table" -> [plain EXCEPT !.children = TableRows(d, n)]
        [] d.kind[n] = "List" -> [plain EXCEPT !.children = BuiltChildren(d, n, built),
                                               !.spread = ~d.tight[n]]
        [] d.kind[n] = "Item" -> [plain EXCEPT !.children = BuiltChildren(d, n, built),
                                               !.spread = ItemIsSpread(d, n),
                                               !.checked = n \in d.checked]
        [] OTHER -> plain

\* The blocks, every one before those under it.
BlockOrder(d) ==
  LET under[n \in Node] ==
        IF d.kind[n] \notin BlockHolders THEN <<>>
        ELSE LET kids == Children(d.t, n)
             IN  FlattenSeq([i \in 1..Len(kids) |-> <<kids[i]>> \o under[kids[i]]])
  IN  under[Doc]

\* The blocks are built in the order they were met.
BuildOrder_forwards(d) == BlockOrder(d)

\* Every block is built after those under it.
BuildOrder(d) == Reverse(BlockOrder(d))

\* block_children, to_ast: a block takes its children's values and leaves its own.
ToAst(d) ==
  LET build(built, n) ==
        [m \in Node |-> CASE m = n -> <<BuildBlock(d, n, built)>>
                          [] m # n /\ d.t.parent[m] = n /\ d.kind[n] \in BlockHolders -> <<>>
                          [] OTHER -> built[m]]
      built == FoldLeft(build, [m \in Node |-> <<>>], BuildOrder(d))
  IN  Value("document", <<>>, BuiltChildren(d, Doc, built))
=============================================================================
