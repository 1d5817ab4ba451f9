---------------------------- MODULE MCBlockOutput ----------------------------
(***************************************************************************)
(* Documents of lists, tight and loose, tasks, tables and each kind of     *)
(* leaf, to their ends in both outputs.                                    *)
(***************************************************************************)
EXTENDS BlockOutput

OutputLines == {
  <<>>,
  <<"txt">>,
  <<"-", "sp", "[x]", "sp", "txt">>,       \* a task
  <<"-", "sp", "#", "sp", "txt">>,         \* an item of another block
  <<"sp", "sp", "txt">>,                   \* text of an item
  <<"sp", "sp", "-", "sp", "txt">>,        \* an item of an item
  <<"sp", "sp", ">", "sp", "txt">>,
  <<"sp", "sp", "bt3">>,                   \* a fence, in an item or not
  <<"a|b">>, <<"|-|-|">>, <<"<div>">>, <<"tab", "txt">> }

\* A definition between the other children of an item.
DefinedLines == { <<"-", "sp", "#", "sp", "txt">>, <<"sp", "sp", "[a]:">>, <<"sp", "sp", "#", "sp", "txt">> }
=============================================================================
