---------------------------- MODULE MCReferences ----------------------------
(***************************************************************************)
(* Paragraphs that begin with a label: complete definitions, and everything*)
(* that nearly is one.                                                     *)
(***************************************************************************)
EXTENDS ReferenceProperties

Heads == {<<"[", "x", "]", ":">>, <<"[", "sp", "]", ":">>, <<"[", "x", "]">>,
          <<"[", "x", "w", "x", "]", ":">>, <<"[", "bslash", "]", "]", ":">>}
Bits  == {<<"x">>, <<"sp">>, <<"nl">>, <<"title">>, <<"(">>, <<")">>, <<"<u>">>,
          <<"bslash", "(">>, <<"[", "x", "]", ":", "w">>}

\* Paragraph content: no blank line, no line with an indentation.
IsContent(s) ==
  \A i \in 2..Len(s) : s[i-1] = "nl" => s[i] \notin Spaces

ParagraphsOf(heads, bits, n) ==
  {s \in {h \o FlattenSeq(b) \o <<"nl">> : h \in heads, b \in SeqOf(bits, n)} : IsContent(s)}

Paragraphs == ParagraphsOf(Heads, Bits, 4)
  \cup ParagraphsOf({<<"[", "x", "]", ":", "x">>}, Bits, 5)
TooLong == ParagraphsOf({<<"[", "x", "w", "x", "]">>}, {<<"x">>, <<":">>}, 2)
Escaped == ParagraphsOf({<<"[", "x", "]", ":", "x">>},
                        {<<"sp">>, <<"(">>, <<"x">>, <<"bslash">>, <<")">>}, 5)
=============================================================================
