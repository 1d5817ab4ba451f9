-------------------------- MODULE MCBlockDefinitions --------------------------
(***************************************************************************)
(* A paragraph of definitions only, under each line that may be read as an *)
(* underline.                                                              *)
(***************************************************************************)
EXTENDS BlockProperties

BreakLines == {<<"[a]:">>, <<"---">>, <<"txt">>}
DashLines  == {<<"[a]:">>, <<"-">>, <<"txt">>}
=============================================================================
