---------------------------- MODULE MCBlockLeaves ----------------------------
(***************************************************************************)
(* Documents of leaves and tables: headings, breaks, code and HTML blocks, *)
(* each kind of end, around paragraphs that may be lazy or hold            *)
(* definitions; which line is the header row of a table, what happens to   *)
(* the paragraph it was in, and the padding of short rows; task items.     *)
(***************************************************************************)
EXTENDS BlockProperties

LeafLines == {
  <<>>,
  <<"txt">>,                         \* text, or a row that is one cell short
  <<">", "sp", "txt">>,              \* a paragraph a later line may continue lazily
  <<"#", "sp", "txt">>,
  <<"---">>,                         \* underline or thematic break
  <<"bt3">>,                         \* opens a fence, or closes it
  <<"sp", "bt4", "sp", "txt">>,      \* opens a fence only
  <<"<!--", "sp", "txt">>,           \* HTML up to -->
  <<"txt", "sp", "-->">>,
  <<"<b>">>,                         \* HTML that cannot interrupt a paragraph
  <<"tab", "txt">>,                  \* indented code, or text of a paragraph
  <<"[a]:">>,
  <<"-", "sp", "[x]", "sp", "txt">>,
  <<"a|b">>,
  <<"sp", "|-|-|">>,                 \* the delimiter row
  <<">", "sp", "a|b">>,
  <<">", "sp", "|-|-|">> }
=============================================================================
