---------------------------- MODULE ReferenceProperties ----------------------------
(***************************************************************************)
(* Section 4.7 as a grammar, against the definitions the parser takes from *)
(* the head of a paragraph.                                                *)
(***************************************************************************)
EXTENDS ReferenceDefs

\* A character is escaped by an odd number of backslashes before it.
IsEscaped(t, i) ==
  LET lead == Max({0} \cup {j \in 1..(i - 1) : t[j] # "bslash"})
  IN  (i - 1 - lead) % 2 = 1

Bare(t, S) == {i \in 1..Len(t) : t[i] \in S /\ ~IsEscaped(t, i)}

IsLabel(t) ==
  /\ Len(t) > 2 /\ Len(t) <= MaxLabel + 2
  /\ t[1] = "[" /\ t[Len(t)] = "]"
  /\ Bare(t, {"[", "]"}) = {1, Len(t)}
  /\ \E i \in 2..(Len(t) - 1) : t[i] \notin Spaces

IsDestination(t) ==
  LET depth(n) == Cardinality({i \in Bare(t, {"("}) : i <= n})
                    - Cardinality({i \in Bare(t, {")"}) : i <= n})
  IN  \/ t \in {<<"<u>">>, <<"<b>">>}
      \/ /\ t # <<>> /\ t[1] \notin {"<", "<u>", "<b>"}
         /\ \A i \in DOMAIN t : t[i] \notin Spaces
         /\ \A n \in DOMAIN t : depth(n) \in 0..MaxLinkParens
         /\ depth(Len(t)) = 0

IsTitle(t) ==
  \/ t = <<"title">>
  \/ /\ Len(t) > 1 /\ t[1] = "(" /\ t[Len(t)] = ")"
     /\ Bare(t, {"(", ")"}) = {1, Len(t)}

\* White space with at most one line ending.
IsGap(t) ==
  /\ \A i \in DOMAIN t : t[i] \in Spaces
  /\ Cardinality({i \in DOMAIN t : t[i] = "nl"}) <= 1

\* Spaces, and the line ending that is the only one.
IsLineEnd(t) == t # <<>> /\ IsGap(t) /\ Last(t) = "nl"

\* The offsets at which a definition that begins at i can end.
Ends(s, i) ==
  LET to(a, b) == SubSeq(s, a, b - 1)
      after(a, Fits(_)) == {b \in a..(Len(s) + 1) : Fits(to(a, b))}
      colons == {c + 1 : c \in {b \in after(i, IsLabel) : Ch(s, b) = ":"}}
      dests  == UNION {after(g, IsDestination) : g \in UNION {after(c, IsGap) : c \in colons}}
      titles == UNION {after(g, IsTitle) : g \in
                   UNION {{g \in after(d, IsGap) : g > d} : d \in dests}}
  IN  UNION {after(d, IsLineEnd) : d \in dests \cup titles}

\* What parse_references takes from a paragraph is definition after definition
\* of section 4.7, each the longest that begins there, until none begins; and
\* a label stands for the first of its definitions.  The code gets there by
\* trying a title, giving it up when text follows, and putting the position
\* back when the definition falls through.
LongestDefinitions ==
  LET n     == Len(defs)
      start == [k \in 1..(n + 1) |-> IF k = 1 THEN 1 ELSE defs[k-1].to]
      label(i) == Normal(SubSeq(subject, i + 1, i + LinkLabel(subject, i).raw - 2))
  IN  pc = "done" =>
        /\ \A k \in 1..n :
             /\ defs[k].from = start[k]
             /\ Ends(subject, start[k]) # {} /\ defs[k].to = Max(Ends(subject, start[k]))
             /\ refmap[label(start[k])] =
                  Min({start[m] : m \in {m \in 1..n : label(start[m]) = label(start[k])}})
        /\ Ends(subject, start[n + 1]) = {}

\* "On failure it is back where it was and the result is 0": what follows the
\* last definition taken stays in the paragraph, every character of it.
FailureRestores ==
  pc = "done" => pos = IF defs = <<>> THEN 1 ELSE Last(defs).to

\* An escaped delimiter "is consumed as an escape rather than closing the
\* title": no title of a definition ends on one.
EscapeClosesNoTitle ==
  \A k \in DOMAIN defs : defs[k].title # 0 => ~IsEscaped(subject, defs[k].title - 1)
=============================================================================
