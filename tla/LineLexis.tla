----------------------------- MODULE LineLexis -----------------------------
(***************************************************************************)
(* One line of input and the cursor the block phase of rs/src/block.rs     *)
(* moves along it: tab-aware columns, the search for the next non-space    *)
(* character, and the recognisers of block markers.  A line is a sequence  *)
(* of tokens: a space, a tab, or one of the markers and texts the block    *)
(* phase tells apart, so that an offset counts tokens and a column counts  *)
(* display columns.  Text, of whatever length, is one token.               *)
(***************************************************************************)
EXTENDS Integers, Sequences, FiniteSets

Space   == {"sp", "tab"}
Bullets == {"-", "+"}
Ordered == {"1.", "2."}                 \* list numbers that are and are not 1
Fences  == {"bt3", "bt4", "tl3"}         \* three and four backticks, three tildes
Labels  == {"[a]:", "[b]:"}             \* a whole link reference definition
Texts   == {"txt", "a|b", "[x]", "-->"} \* plain text; a two-cell table row;
                                        \* a task marker; an HTML comment's end
Tokens  == Space \cup Bullets \cup Ordered \cup Fences \cup Labels \cup Texts
             \cup {">", "#", "---", "===", "|-|-|", "<div>", "<!--", "<b>"}

\* Two tokens side by side would read as another token, unless a space or a
\* block quote marker parts them.
WellSpaced(ln) == \A i \in 1..(Len(ln) - 1) :
                     ln[i] \in Space \cup {">"} \/ ln[i+1] \in Space

\* The byte at offset i, as `peek` gives it.
Tok(ln, i) == IF i < Len(ln) THEN ln[i+1] ELSE "end"
Rest(ln, i) == SubSeq(ln, i + 1, Len(ln))
Blank(toks) == \A i \in 1..Len(toks) : toks[i] \in Space

\* The line holds, from offset i, one token of S and then only spaces.
Alone(ln, i, S) == Tok(ln, i) \in S /\ Blank(Rest(ln, i + 1))

Width(tok) == CASE tok \in Ordered -> 2
                [] tok = "bt4" -> 4
                [] tok \in {"bt3", "tl3", "---", "==="} -> 3
                [] OTHER -> 1

(***************************************************************************)
(* The cursor                                                              *)
(***************************************************************************)
LineStart == [off |-> 0, col |-> 0, part |-> FALSE]

ToTabStop(col) == 4 - (col % 4)

\* The display column at which offset i of the line begins.
ColumnAt(ln, i) ==
  LET at[k \in 0..i] ==
        IF k = 0 THEN 0
        ELSE at[k-1] + (IF ln[k] = "tab" THEN ToTabStop(at[k-1]) ELSE Width(ln[k]))
  IN  at[i]

\* A tab is given up whole, as if its other columns did not exist.
Step_wholeTab(ln, c) ==
  CASE Tok(ln, c.off) = "end" -> c
    [] Tok(ln, c.off) = "tab" -> [off |-> c.off + 1, col |-> c.col + 1, part |-> FALSE]
    [] OTHER -> [off |-> c.off + 1, col |-> c.col + 1, part |-> FALSE]

\* One column further, over a space or part of a tab: a tab is left behind
\* only when its last column is taken.
Step(ln, c) ==
  CASE Tok(ln, c.off) = "end" -> c
    [] Tok(ln, c.off) = "tab" ->
         LET inside == ToTabStop(c.col) > 1
         IN  [off |-> IF inside THEN c.off ELSE c.off + 1, col |-> c.col + 1, part |-> inside]
    [] OTHER -> [off |-> c.off + 1, col |-> c.col + 1, part |-> FALSE]

Advance(ln, c, columns) ==
  LET after[k \in 0..columns] == IF k = 0 THEN c ELSE Step(ln, after[k-1])
  IN  after[columns]

\* Past the marker the cursor stands on.
PastMarker(ln, c) == [off |-> c.off + 1, col |-> c.col + Width(Tok(ln, c.off)), part |-> FALSE]

OptionalSpace(ln, c) == IF Tok(ln, c.off) \in Space THEN Step(ln, c) ELSE c

ToLineEnd(ln) == [off |-> Len(ln), col |-> ColumnAt(ln, Len(ln)), part |-> FALSE]

\* The next non-space character seen from c: its offset, its column, the
\* columns of indentation before it, and whether there is none.
NextNonspace(ln, c) ==
  LET pos == CHOOSE i \in c.off..Len(ln) :
               /\ Tok(ln, i) \notin Space
               /\ \A j \in c.off..(i-1) : Tok(ln, j) \in Space
      col[i \in c.off..pos] ==
        IF i = c.off THEN c.col
        ELSE col[i-1] + (IF ln[i] = "tab" THEN ToTabStop(col[i-1]) ELSE 1)
  IN  [pos |-> pos, col |-> col[pos], indent |-> col[pos] - c.col, blank |-> pos = Len(ln)]

CodeIndent == 4
Indented(n) == n.indent >= CodeIndent
ToNonspace(n) == [off |-> n.pos, col |-> n.col, part |-> FALSE]

\* The text `add_line` takes from the cursor on: what is left of a partly
\* consumed tab is taken as spaces.
TextFrom(ln, c) ==
  IF c.part THEN [i \in 1..ToTabStop(c.col) |-> "sp"] \o Rest(ln, c.off + 1)
            ELSE Rest(ln, c.off)

(***************************************************************************)
(* Recognisers, each read at the offset i of the next non-space character  *)
(***************************************************************************)
\* Step 2's fast reject: the first characters a block start can have.
MaybeSpecial(tok, gfm) ==
  \/ tok \in {">", "#", "---", "===", "<div>", "<!--", "<b>", "-->"}
               \cup Bullets \cup Ordered \cup Fences
  \/ gfm /\ tok = "|-|-|"

AtxHeading(ln, i) == Tok(ln, i) = "#" /\ Tok(ln, i + 1) \in Space \cup {"end"}

FenceChar(tok) == IF tok = "tl3" THEN "tilde" ELSE "backtick"

\* A backtick fence's info string holds no backtick.
OpensFence(ln, i) ==
  /\ Tok(ln, i) \in Fences
  /\ FenceChar(Tok(ln, i)) = "backtick" =>
       \A j \in (i + 2)..Len(ln) : ln[j] \notin {"bt3", "bt4"}

ClosesFence(ln, i, fence) ==
  /\ Alone(ln, i, Fences)
  /\ FenceChar(Tok(ln, i)) = FenceChar(fence)
  /\ Width(Tok(ln, i)) >= Width(fence)

HtmlKind(ln, i) == CASE Tok(ln, i) = "<!--" -> 2
                     [] Tok(ln, i) = "<div>" -> 6
                     [] Alone(ln, i, {"<b>"}) -> 7
                     [] OTHER -> 0

HtmlCloses(ln, c, kind) == kind = 2 /\ \E i \in (c.off + 1)..Len(ln) : ln[i] = "-->"

SetextUnderline(ln, i) == Alone(ln, i, {"===", "---", "-"})

ThematicBreak(ln, i) ==
  LET dashes == {j \in (i + 1)..Len(ln) : ln[j] = "-"}
  IN  /\ Tok(ln, i) \in {"-", "---"}
      /\ \A j \in (i + 1)..Len(ln) : ln[j] \in Space \cup {"-", "---"}
      /\ (\E j \in (i + 1)..Len(ln) : ln[j] = "---") \/ Cardinality(dashes) >= 3

\* The columns of a table's delimiter row; 0 when the line is not one.
DelimiterColumns(ln, i) == CASE Alone(ln, i, {"|-|-|"}) -> 2
                             [] Alone(ln, i, {"-", "---"}) -> 1
                             [] OTHER -> 0

\* The cells a line of a table splits into.
Cells(toks) == 1 + Cardinality({i \in 1..Len(toks) : toks[i] \in {"a|b", "|-|-|"}})

\* Which markers make the same list.
ListMark(tok) == IF tok \in Ordered THEN "ordered" ELSE tok

IsListMarker(ln, n, inParagraph) ==
  /\ ~Indented(n)
  /\ Tok(ln, n.pos) \in Bullets \cup Ordered
  /\ Tok(ln, n.pos + 1) \in Space \cup {"end"}
  /\ inParagraph => /\ Tok(ln, n.pos) # "2."
                    /\ ~Blank(Rest(ln, n.pos + 1))

\* The item's content indent and the cursor at its content: up to four
\* columns of space after the marker belong to it; with five or more, or
\* nothing after them, only one does.
ListMarker(ln, n) ==
  LET m     == PastMarker(ln, ToNonspace(n))
      width == Width(Tok(ln, n.pos))
      taken == CHOOSE k \in 1..5 :
                 /\ k = 5 \/ Tok(ln, Advance(ln, m, k).off) \notin Space
                 /\ \A j \in 1..(k-1) : Tok(ln, Advance(ln, m, j).off) \in Space
      far   == Advance(ln, m, taken)
      short == (far.col - m.col) \notin 1..4 \/ Tok(ln, far.off) = "end"
  IN  [indent |-> n.indent + width + (IF short THEN 1 ELSE far.col - m.col),
       cur    |-> IF short THEN OptionalSpace(ln, m) ELSE far]

\* A definition line, and a task marker at the head of an item's text.
IsDefinition(toks) == Len(toks) > 0 /\ Alone(toks, 0, Labels)
TaskMarked(toks) == Len(toks) > 1 /\ toks[1] = "[x]" /\ toks[2] \in Space
=============================================================================
