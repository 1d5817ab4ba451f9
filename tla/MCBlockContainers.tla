-------------------------- MODULE MCBlockContainers --------------------------
(***************************************************************************)
(* Documents of quotes, lists, items and paragraphs: nesting up to the     *)
(* limit, tabs, lazy continuation, blank lines and looseness.              *)
(***************************************************************************)
EXTENDS BlockProperties

ContainerLines == {
  <<>>,                                        \* blank
  <<"txt">>,                                   \* text, lazy or not
  <<"sp", "sp", "txt">>,                       \* text of an item
  <<">", "sp", "txt">>,
  <<">">>,                                     \* blank inside a quote
  <<"-", "sp", "txt">>,
  <<"-">>,                                     \* an item that begins blank
  <<"sp", "sp", "-", "sp", "txt">>,            \* an item of an item
  <<"1.", "sp", "-", "sp", "txt">>,            \* two at once
  <<">", "sp", "-", "sp", "-", "sp", "txt">>,  \* one list too deep
  <<">", "tab", "-", "tab", "tab", "txt">> }   \* tabs partly consumed
=============================================================================
