---------------------------- MODULE InlineLexis ----------------------------
(***************************************************************************)
(* The pure recognisers of rs/src/inline.rs.  A subject is a sequence of   *)
(* characters; four constructs the scan only ever takes whole are single   *)
(* symbols: an autolink <u>, a raw HTML tag <b>, an entity reference &e;   *)
(* and a quoted link title.  Offsets are 1-based, an end is the offset     *)
(* after the last character taken, and 0 stands for None.                  *)
(***************************************************************************)
EXTENDS Integers, Sequences, SequencesExt, FiniteSetsExt

CONSTANTS
  MaxLinkParens,   \* MAX_LINK_PAREN_NESTING
  MaxLabel         \* 999, the characters of a link label

ASSUME InlineLexisAssumption == MaxLinkParens \in Nat /\ MaxLabel \in Nat

Alnum    == {"x", "w"}                  \* "w" stands for www
Spaces   == {"sp", "nl"}
Delims   == {"*", "_", "~"}
Wholes   == {"<u>", "<b>", "&e;", "title"}
Puncts   == {".", "-", "@", ";", ":", "tick", "[", "]", "!", "(", ")", "bslash", "<", "&"} \cup Delims
Chars    == Alnum \cup Spaces \cup Puncts \cup Wholes \cup {"http://", "eacute"}

\* The character at i; the end of the subject counts as a line ending.
Ch(s, i) == IF i \in 1..Len(s) THEN s[i] ELSE "nl"
AtEnd(s, i) == i > Len(s)

\* The end of the run of characters of S that starts at i.
Stop(s, i, S) == Min({j \in i..(Len(s) + 1) : AtEnd(s, j) \/ s[j] \notin S})

\* js_trim
Trim(s) ==
  LET kept == {i \in 1..Len(s) : s[i] \notin Spaces}
  IN  IF kept = {} THEN <<>> ELSE SubSeq(s, Min(kept), Max(kept))

\* normalize_reference: trimmed, runs of white space collapsed.
Normal(label) ==
  LET add(acc, c) == CASE c \notin Spaces -> Append(acc, c)
                       [] c \in Spaces /\ Last(acc) = "sp" -> acc
                       [] OTHER -> Append(acc, "sp")
  IN  FoldLeft(add, <<>>, Trim(label))

SkipSpaces(s, i) == Stop(s, i, {"sp"})

\* match_spnl: spaces, and at most one line ending.
Spnl(s, i) ==
  LET j == SkipSpaces(s, i)
  IN  IF ~AtEnd(s, j) /\ s[j] = "nl" THEN SkipSpaces(s, j + 1) ELSE j

(***************************************************************************)
(* Code spans and their memo                                               *)
(***************************************************************************)
NoTicks(s) == [last |-> [n \in 1..Len(s) |-> 0], toEnd |-> FALSE]

RunLength(s, i) == Stop(s, i, {"tick"}) - i
RunStarts(s, from) ==
  {i \in from..Len(s) : s[i] = "tick" /\ (i = from \/ s[i-1] # "tick")}

\* An entry is what the last scan to pass a run of its length saw last.
Recorded_overwrites(memo, s, runs) ==
  LET of(n) == {i \in runs : RunLength(s, i) = n}
  IN  [memo EXCEPT !.last = [n \in DOMAIN memo.last |->
         IF of(n) = {} THEN memo.last[n] ELSE Max(of(n))]]

\* The memo with these runs on record: an entry only moves forward.
Recorded(memo, s, runs) ==
  [memo EXCEPT !.last = [n \in DOMAIN memo.last |->
     Max({memo.last[n]} \cup {i \in runs : RunLength(s, i) = n})]]

\* The scan for a closer: it records the runs it passes, and whether it
\* reached the end.  `end` is 0 for an opener that has no closer.
SearchCodeSpan(s, at, memo) ==
  LET size    == RunLength(s, at)
      runs    == RunStarts(s, at + size)
      closers == {i \in runs : RunLength(s, i) = size}
  IN  IF closers = {}
      THEN [end |-> 0, memo |-> [Recorded(memo, s, runs) EXCEPT !.toEnd = TRUE]]
      ELSE [end  |-> Min(closers) + size,
            memo |-> Recorded(memo, s, {i \in runs : i <= Min(closers)})]

\* scan_code_span_memo: a length with no run on record ahead is refused at
\* once when an earlier scan has been to the end.
ScanCodeSpan(s, at, memo) ==
  IF memo.toEnd /\ memo.last[RunLength(s, at)] <= at
  THEN [end |-> 0, memo |-> memo]
  ELSE SearchCodeSpan(s, at, memo)

\* Line endings become spaces; one space is stripped from both ends together.
CodeLiteral(raw) ==
  LET text == [i \in 1..Len(raw) |-> IF raw[i] = "nl" THEN "sp" ELSE raw[i]]
      n    == Len(text)
  IN  IF n > 2 /\ text[1] = "sp" /\ text[n] = "sp" /\ \E i \in 1..n : text[i] # "sp"
      THEN SubSeq(text, 2, n - 1) ELSE text

(***************************************************************************)
(* Escapes and delimiter runs                                              *)
(***************************************************************************)
\* is_escapable, of the character after a backslash.
Escapes(s, i) == ~AtEnd(s, i + 1) /\ s[i] = "bslash" /\ s[i+1] \in Puncts

\* A delimiter run: its length, and whether it may open and close emphasis by
\* the characters on its two sides.
DelimRun(s, at) ==
  LET end    == Stop(s, at, {s[at]})
      before == Ch(s, at - 1)
      after  == Ch(s, end)
      punct(c) == c \notin Spaces \cup Alnum \cup {"http://", "eacute"}
      left   == after \notin Spaces /\ (punct(after) => before \in Spaces \/ punct(before))
      right  == before \notin Spaces /\ (punct(before) => after \in Spaces \/ punct(after))
  IN  [num   |-> end - at,
       open  |-> left /\ (s[at] = "_" => ~right \/ punct(before)),
       close |-> right /\ (s[at] = "_" => ~left \/ punct(after))]

\* classify_break, of the literal before a line ending.
TrimsSpace(text) == text # <<>> /\ Last(text) = "sp"
HardBreak(text)  == TrimsSpace(text) /\ Len(text) > 1 /\ text[Len(text) - 1] = "sp"
TrimEndSpaces(text) ==
  LET kept == {i \in 1..Len(text) : text[i] # "sp"}
  IN  IF kept = {} THEN <<>> ELSE SubSeq(text, 1, Max(kept))

(***************************************************************************)
(* Link destinations, titles, tails and labels                             *)
(***************************************************************************)
\* The end of a bare destination: parentheses balance, and nest only so deep.
BareDestination(s, at) ==
  LET scan[i \in at..(Len(s) + 1)] == [depth \in 0..MaxLinkParens |->
        CASE Ch(s, i) \in Spaces -> IF depth = 0 THEN i ELSE 0
          [] Escapes(s, i) -> scan[i + 2][depth]
          [] Ch(s, i) = "(" -> IF depth = MaxLinkParens THEN 0 ELSE scan[i + 1][depth + 1]
          [] Ch(s, i) = ")" -> IF depth = 0 THEN i ELSE scan[i + 1][depth - 1]
          [] OTHER -> scan[i + 1][depth]]
  IN  scan[at][0]

\* scan_link_destination.  An empty one is legal only before a closing paren.
LinkDestination(s, at) ==
  LET end == BareDestination(s, at)
  IN  CASE ~AtEnd(s, at) /\ s[at] \in {"<u>", "<b>"} -> at + 1
        [] ~AtEnd(s, at) /\ s[at] = "<" -> 0
        [] end = at -> IF Ch(s, at) = ")" THEN at ELSE 0
        [] OTHER -> end

\* scan_link_title: quoted, or in parentheses that hold no bare parenthesis.
LinkTitle(s, at) ==
  LET scan[i \in at..(Len(s) + 1)] ==
        CASE AtEnd(s, i) \/ Ch(s, i) = "(" -> 0
          [] Ch(s, i) = ")" -> i + 1
          [] Escapes(s, i) -> IF scan[i + 2] # 0 THEN scan[i + 2] ELSE scan[i + 1]
          [] OTHER -> scan[i + 1]
  IN  CASE Ch(s, at) = "title" -> at + 1
        [] Ch(s, at) = "(" -> scan[at + 1]
        [] OTHER -> 0

\* scan_inline_link_tail: all of it, through the closing paren, or nothing.  A
\* title has to be parted from the destination by white space.
LinkTail(s, at) ==
  LET dest  == IF Ch(s, at) = "(" THEN LinkDestination(s, Spnl(s, at + 1)) ELSE 0
      gap   == Spnl(s, dest)
      title == IF Ch(s, gap - 1) \in Spaces THEN LinkTitle(s, gap) ELSE 0
      end   == Spnl(s, IF title = 0 THEN gap ELSE title)
  IN  IF dest # 0 /\ Ch(s, end) = ")" THEN end + 1 ELSE 0

\* scan_link_label: `raw` characters are consumed, brackets included, and
\* `valid` says they are few enough.  A backslash takes any character along.
LinkLabel(s, at) ==
  LET scan[i \in at..(Len(s) + 1)] == [taken \in 0..(MaxLabel + 1) |->
        CASE AtEnd(s, i) \/ Ch(s, i) = "[" -> 0
          [] Ch(s, i) = "]" -> i
          [] Ch(s, i) = "bslash" ->
               IF taken > MaxLabel \/ AtEnd(s, i + 1) THEN 0 ELSE scan[i + 2][taken + 1]
          [] OTHER -> IF taken > MaxLabel THEN 0 ELSE scan[i + 1][taken + 1]]
      close == IF ~AtEnd(s, at) /\ s[at] = "[" THEN scan[at + 1][0] ELSE 0
  IN  IF close = 0 THEN [raw |-> 0, valid |-> FALSE]
      ELSE [raw |-> close + 1 - at, valid |-> close - at - 1 <= MaxLabel]
=============================================================================
