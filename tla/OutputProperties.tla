--------------------------- MODULE OutputProperties ---------------------------
(***************************************************************************)
(* A finished tree is handed to the two outputs, and what they owe to it   *)
(* and to each other.  Both only read the tree: one after the other stands *)
(* for any order.                                                          *)
(***************************************************************************)
EXTENDS AstProjection, FiniteSetsExt

VARIABLES
  doc,      \* the finished tree, once there is one
  html,     \* the renderer: its walker, its buffer, the two fields beside it
  ast       \* the projection, once there is one

outputs == <<doc, html, ast>>

NoDoc == <<>>

NoOutput == doc = NoDoc /\ html = NewRenderer /\ ast = <<>>

Given(d) == doc = NoDoc /\ doc' = d /\ UNCHANGED <<html, ast>>

Rendering == doc # NoDoc /\ html.walk.at # Nil

Render == Rendering /\ html' = Rendered(doc, html) /\ UNCHANGED <<doc, ast>>

IsRendered == doc # NoDoc /\ ~Rendering

Project == IsRendered /\ ast = <<>> /\ ast' = <<ToAst(doc)>> /\ UNCHANGED <<doc, html>>

OutputDone == ast # <<>>

(***************************************************************************)
(* The HTML                                                                *)
(***************************************************************************)
Parents == [tr |-> {"thead", "tbody"}, thead |-> {"table"}, tbody |-> {"table"},
            th |-> {"tr"}, td |-> {"tr"}, li |-> {"ul"}]

\* The tags open after the output so far; <<"?">> once one does not fit.
OpenTags ==
  LET step(stack, w) ==
        CASE stack = <<"?">> \/ w.do \notin {"open", "close"} -> stack
          [] stack # <<"?">> /\ w.do = "open" ->
               IF w.name \in DOMAIN Parents
                    /\ (stack = <<>> \/ Last(stack) \notin Parents[w.name])
               THEN <<"?">> ELSE Append(stack, w.name)
          [] OTHER -> IF stack # <<>> /\ Last(stack) = w.name THEN Front(stack) ELSE <<"?">>
  IN  FoldLeft(step, <<>>, html.out)

\* The tags of the output nest, rows stand in a head or a body and items in
\* lists, and at the end none is open (render_html_with): also <thead> and
\* <tbody>, which no node stands for, the <p> that tight lists leave out, and
\* images, whose walk is cut short.
TagsNest == IsRendered => OpenTags = <<>>

OwnLine == {"p", "h", "blockquote", "ul", "pre", "table", "thead", "tbody", "tr"}

\* Newlines are placed by the discipline of the module's head comment: a block
\* begins at the start of a line, and no newline follows another or comes
\* first, however the blocks nest (cr, at_line_start).
NewlinesPlaced ==
  IsRendered =>
    \A i \in 1..Len(html.out) :
      LET w == html.out[i]
      IN  /\ w.do = "open" /\ w.name \in OwnLine =>
               i = 1 \/ (html.out[i-1].do = "lit" /\ Last(html.out[i-1].text) = "nl")
          /\ w = NewLine =>
               i # 1 /\ ~(html.out[i-1].do = "lit" /\ Last(html.out[i-1].text) = "nl")

\* The items of the document, in order.
ItemsInOrder == SelectSeq(BlockOrder(doc), LAMBDA n : doc.kind[n] = "Item")

\* What stands at i of the output once newlines and a <p> are passed over.
HeadAt(i) ==
  LET at == {j \in i..Len(html.out) : html.out[j] \notin {NewLine, OpenTag("p")}}
  IN  IF at = {} THEN Cr ELSE html.out[Min(at)]

\* The k-th <li> is headed by a checkbox exactly when the k-th item is a task
\* (render_html_with reads the state mark_task_list_items left on the item),
\* and there are no checkboxes but those.
CheckboxesHeadTasks ==
  IsRendered =>
    LET lis   == SelectSeq([i \in 1..Len(html.out) |-> i], LAMBDA i : html.out[i] = OpenTag("li"))
        boxes == {i \in 1..Len(html.out) : html.out[i] = VoidTag("input")}
    IN  /\ Len(lis) = Len(ItemsInOrder)
        /\ \A k \in 1..Len(lis) :
             HeadAt(lis[k] + 1) = VoidTag("input") <=> ItemsInOrder[k] \in doc.checked
        /\ Cardinality(boxes) = Cardinality({n \in ToSet(ItemsInOrder) : n \in doc.checked})

(***************************************************************************)
(* The syntax tree                                                         *)
(***************************************************************************)
\* The values from v down, in order, under those of the given types.
ValuesFrom(v, types) ==
  LET RECURSIVE from(_)
      from(x) == IF x.type \notin types THEN <<x>>
                 ELSE <<x>> \o FlattenSeq([i \in 1..Len(x.children) |-> from(x.children[i])])
  IN  from(v)

BlockHolderTypes == {"document", "blockquote", "list", "listItem"}
InlineHolderTypes == {"paragraph", "heading", "table", "tableRow", "tableCell",
                      "emphasis", "strong", "delete", "link"}

AllValues == IF ast = <<>> THEN <<>> ELSE ValuesFrom(ast[1], BlockHolderTypes \cup InlineHolderTypes)

\* Every block of the tree is in the syntax tree, once and in order: each was
\* built before the block that takes it (block_children, build_block).
BlocksProjected ==
  ast # <<>> =>
    LET order  == BlockOrder(doc)
        blocks == Tail(ValuesFrom(ast[1], BlockHolderTypes))
    IN  [i \in 1..Len(blocks) |-> blocks[i].type]
          = [i \in 1..Len(order) |-> BlockValues[doc.kind[order[i]]]]

Solid(text) == SelectSeq(text, LAMBDA c : c \notin {"sp", "nl"})

HtmlText ==
  Solid(FlattenSeq([i \in 1..Len(html.out) |->
    CASE html.out[i].do = "lit" -> html.out[i].text
      [] "alt" \in DOMAIN html.out[i] -> html.out[i].alt
      [] OTHER -> <<>>]))

\* The two outputs read the same but for white space: a walker that jumps out
\* of images, and the explicit stacks of the projection, each meet every text
\* once and in the same order (render_html_with, alt_text, inline_children,
\* collect_alt_text).
OutputsAgree ==
  ast # <<>> =>
    HtmlText = Solid(FlattenSeq([i \in 1..Len(AllValues) |-> AllValues[i].text]))
=============================================================================
