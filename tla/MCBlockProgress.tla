--------------------------- MODULE MCBlockProgress ---------------------------
(***************************************************************************)
(* Documents that put every loop of incorporate_line and finish to work.   *)
(***************************************************************************)
EXTENDS BlockProperties

MixedLines == {
  <<>>, <<"txt">>, <<"---">>, <<"a|b">>, <<"|-|-|">>, <<"[a]:">>, <<"bt3">>,
  <<">", "sp", "-", "sp", "txt">>, <<"<!--", "sp", "-->">> }
=============================================================================
