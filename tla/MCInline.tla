------------------------------- MODULE MCInline -------------------------------
(***************************************************************************)
(* Every kind of inline, alone, nested and crossed with the others, from   *)
(* the raw content of a block to the ends of both outputs.                 *)
(***************************************************************************)
EXTENDS InlineOutput, InlineProperties

\* The parse is a loop of one thread: a step that can be taken is taken, and
\* that is WF(OutputNext).  TLC cannot evaluate ENABLED over the tree operators
\* in any reasonable time, so fairness is spelt out: a step can be taken until
\* the outputs are done (TLC's deadlock check).  `turn` tells a step that
\* changes nothing from no step at all: a loop that stands still has taken its
\* steps.
VARIABLE turn

TurnNext == OutputNext /\ turn' = 1 - turn
TurnInit == OutputInit /\ turn = 0
FairSpec == /\ TurnInit
            /\ [][TurnNext \/ (Finished /\ UNCHANGED turn)]_<<outputVars, turn>>
            /\ []<>OutputDone \/ []<><<TurnNext>>_<<outputVars, turn>>

Joined(phrases, n) == {FlattenSeq(s) : s \in SeqOf(phrases, n)}

\* Runs of the three delimiters, with words and spaces between them.
Starred  == SeqOf({"*", "_", "x"}, 7)
Tildes   == SeqOf({"*", "~", "x", "sp"}, 5)

\* Brackets of links, images and references, nested in one another and crossed
\* with emphasis, and what may follow a closing bracket.
OpenLink   == <<"[">>
OpenImage  == <<"!", "[">>
CloseLink  == <<"]", "(", "x", ")">>
Phrases    == {OpenLink, OpenImage, CloseLink, <<"]">>, <<"*">>, <<"x">>}
Crossed    == Joined(Phrases, 5)
Wrapped    == {OpenLink \o OpenImage \o <<"x">> \o s \o CloseLink \o CloseLink :
                 s \in Joined(Phrases \ {<<"x">>}, 4)}
References == SeqOf({"[", "]", "x"}, 6)
Tails      == {<<"[", "x", "]", "(">> \o s : s \in SeqOf({"(", ")", "sp", "<u>", "title", "x"}, 4)}
XDefined   == {<<"x">>}

\* Code spans, escapes, breaks, autolinks, and image descriptions.
Ticked == Joined({<<"tick", "x">>, <<"tick", "tick", "x">>, <<"bslash", "tick">>}, 6)
Addresses == {<<"w", ".">>, <<"x">>, <<"x", "@", "x", ".">>, <<"http://">>, <<"_">>, <<"-">>,
              <<"(">>, <<")">>, <<"*">>, <<"&", "x", ";">>}
Linked == Joined(Addresses, 3) \cup Joined(Addresses \ {<<"-">>, <<"http://">>, <<"*">>}, 4)
Broken == Joined({<<"x">>, <<"sp">>, <<"nl">>, <<"bslash">>, <<"tick">>, <<"<b>">>, <<"&e;">>, <<"<u>">>}, 4)
Lined  == Joined({<<"x">>, <<"nl">>, <<"bslash", "nl">>, <<"*">>, <<"&e;">>,
                  <<"sp", "sp", "nl">>, <<"w", ".", "x">>}, 4)
Described == {OpenImage \o s \o CloseLink : s \in
                Joined({<<"x">>, <<"nl">>, <<"bslash", "nl">>, <<"<b>">>, <<"<u>">>, <<"*", "x", "*">>,
                        <<"tick", "x", "tick">>, <<"sp", "sp", "nl">>}, 3)}

\* Documents of more than one block.
Short == Joined({<<"tick">>, <<"*">>, <<"[">>, <<"w", ".", "x">>, <<"nl">>}, 2)
Three == {<<>>, <<"*", "x">>, <<"*", "x", "nl", "*", "x">>}

Texts == Starred \cup Tildes \cup Crossed \cup Wrapped \cup References \cup Tails
           \cup Ticked \cup Linked
           \cup {s \in Broken \cup Lined \cup Described : NoBlankLine(s)}
AllTexts == {<<text>> : text \in Texts}
              \cup {<<one, two>> : one, two \in {s \in Short : NoBlankLine(s)}}
              \cup {<<one, <<>>, two>> : one, two \in Three}
=============================================================================
