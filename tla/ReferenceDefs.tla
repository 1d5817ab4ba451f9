---------------------------- MODULE ReferenceDefs ----------------------------
(***************************************************************************)
(* parse_references of rs/src/inline.rs: the link reference definitions at *)
(* the head of a paragraph's raw content, taken one after the other, and   *)
(* consume_reference_defs and the paragraph arm of finalize_block, which   *)
(* leave the paragraph what is after them.                                 *)
(***************************************************************************)
EXTENDS InlineLexis

CONSTANT Contents      \* the raw contents of paragraphs

VARIABLES
  subject,     \* the parser's copy of string_content
  pos,
  refmap,      \* the definition each label stands for: where it begins
  defs,        \* history: where each definition taken, and its title, ends
  kept,        \* string_content, once the definitions are out of it
  gone,        \* the paragraph has left the tree
  pc

vars == <<subject, pos, refmap, defs, kept, gone, pc>>

Init ==
  /\ subject \in Contents
  /\ pos = 1
  /\ refmap = <<>>
  /\ defs = <<>>
  /\ kept = <<>>
  /\ gone = FALSE
  /\ pc = "loop"

\* space_at_end_of_line: the offset after the line ending, 0 if text is left.
LineEnd(s, i) ==
  LET j == SkipSpaces(s, i)
  IN  CASE AtEnd(s, j) -> j
        [] ~AtEnd(s, j) /\ s[j] = "nl" -> j + 1
        [] OTHER -> 0

\* The label at pos, 0 characters when there is none or it is too long.
Label       == LinkLabel(subject, pos)
LabelLength == IF Label.valid THEN Label.raw ELSE 0
LabelText   == SubSeq(subject, pos + 1, pos + LabelLength - 2)

Destination ==
  IF Ch(subject, pos + LabelLength) = ":"
  THEN LinkDestination(subject, Spnl(subject, pos + LabelLength + 1)) ELSE 0

\* What looked like a title stays one, whatever follows it.
TitleEnd_keepsTitle ==
  LET gap == Spnl(subject, Destination)
  IN  IF gap = Destination THEN 0 ELSE LinkTitle(subject, gap)

\* The end of the title: it has to be parted from the destination, and what
\* looked like one is something else when text follows it on its line.
TitleEnd ==
  LET gap   == Spnl(subject, Destination)
      title == IF gap = Destination THEN 0 ELSE LinkTitle(subject, gap)
  IN  IF title # 0 /\ LineEnd(subject, title) # 0 THEN title ELSE 0

\* The end of the definition whose label is at pos, 0 if there is none.
DefinitionEnd ==
  IF Destination = 0 THEN 0
  ELSE LineEnd(subject, IF TitleEnd # 0 THEN TitleEnd ELSE Destination)

AtBracket == pc = "loop" /\ ~AtEnd(subject, pos) /\ subject[pos] = "["

IsDefined == LabelLength # 0 /\ DefinitionEnd # 0 /\ Normal(LabelText) # <<>>

\* parse_reference_here takes a definition; the first of a label wins.
TakeDefinition ==
  /\ AtBracket /\ IsDefined
  /\ LET label == Normal(LabelText)
     IN  refmap' = IF label \in DOMAIN refmap THEN refmap
                   ELSE [l \in DOMAIN refmap \cup {label} |->
                           IF l = label THEN pos ELSE refmap[l]]
  /\ defs' = Append(defs, [from |-> pos, title |-> TitleEnd, to |-> DefinitionEnd])
  /\ pos' = DefinitionEnd
  /\ UNCHANGED <<subject, kept, gone, pc>>

\* No label here: what parse_link_label passed over stays consumed.
NoLabel ==
  /\ AtBracket /\ LabelLength = 0
  /\ pos' = pos + Label.raw
  /\ pc' = "consume"
  /\ UNCHANGED <<subject, refmap, defs, kept, gone>>

\* A label that heads no definition: the position is put back.
NoDefinition ==
  /\ AtBracket /\ LabelLength # 0 /\ ~IsDefined
  /\ pc' = "consume"
  /\ UNCHANGED <<subject, pos, refmap, defs, kept, gone>>

NoBracket ==
  /\ pc = "loop" /\ ~AtBracket
  /\ pc' = "consume"
  /\ UNCHANGED <<subject, pos, refmap, defs, kept, gone>>

\* The paragraph keeps the rest, and leaves the tree when that is blank.
Consume ==
  /\ pc = "consume"
  /\ kept' = SubSeq(subject, pos, Len(subject))
  /\ gone' = (pos > 1 /\ \A i \in DOMAIN kept' : kept'[i] \in Spaces)
  /\ pc' = "done"
  /\ UNCHANGED <<subject, pos, refmap, defs>>

Next == TakeDefinition \/ NoLabel \/ NoDefinition \/ NoBracket \/ Consume

Done == pc = "done" /\ UNCHANGED vars

Spec == Init /\ [][Next \/ Done]_vars
=============================================================================
