---------------------------- MODULE InlinePhase ----------------------------
(***************************************************************************)
(* The inline phase of rs/src/inline.rs: `for_each_inline_block` hands     *)
(* every block with raw content to one InlineParser, in order, and runs    *)
(* the autolink pass over what it leaves.  A block is scanned one inline   *)
(* construct at a time ("scan"); `process_emphasis` is cut at its loop     *)
(* over the closers ("emph"), run for the text of a link before the link   *)
(* is kept or taken back ("link") and for the whole block at its end; the  *)
(* autolink pass is cut at its loop over the children ("linkify").         *)
(***************************************************************************)
EXTENDS InlineLexis, AutolinkScan, NodeTree

CONSTANTS
  Documents,         \* the raw contents of the blocks of each document
  Definitions,       \* the normalised labels the refmap defines
  MaxInlineNesting,  \* MAX_INLINE_NESTING
  Gfm                \* options.gfm

\* No blank line inside: one ends every block that has raw content.
NoBlankLine(text) ==
  \A i, j \in 1..Len(text) :
    i < j /\ text[i] = "nl" /\ text[j] = "nl" => \E k \in i..j : text[k] \notin Spaces

ASSUME InlinePhaseAssumption ==
  /\ Documents \subseteq Seq({text \in Seq(Chars) : NoBlankLine(text)})
  /\ \A texts \in Documents : Len(texts) < MaxNodes
  /\ MaxInlineNesting \in Nat \ {0}
  /\ Gfm \in BOOLEAN

VARIABLES
  content,     \* string_content of each block
  block,       \* the block being parsed
  \* the arena
  tree, type, lit, used,
  \* the parser
  subject, pos,
  delims,      \* the delimiter slab, and the top of the stack in it
  brackets,    \* the bracket stack
  nesting,     \* the recorded height of each container, 0 when absent
  ticks,       \* BacktickMemo
  emph,        \* the locals of process_emphasis
  link,        \* the link under construction, and the offset after its `]`
  walk,        \* linkify_autolinks: the child it stands at, the containers pending
  pc

arena   == <<tree, type, lit, used>>
stacks  == <<delims, brackets>>
vars    == <<content, block, arena, subject, pos, stacks, nesting, ticks, emph, link,
             walk, pc>>

Kinds == {"Document", "Paragraph", "Text", "Softbreak", "Linebreak", "Code",
          "HtmlInline", "Emph", "Strong", "Del", "Link", "Image"}
Leaves     == {"Text", "Softbreak", "Linebreak", "Code", "HtmlInline"}
Containers == {"Emph", "Strong", "Del", "Link", "Image"}

\* The keys of openers_bottom.
Classes == {<<c, opens, r>> : c \in Delims, opens \in BOOLEAN, r \in 0..2}

BlockNode(b) == Doc + b
This == BlockNode(block)

(***************************************************************************)
(* Building nodes                                                          *)
(***************************************************************************)
\* The arena has room for `more` nodes, which the model bounds.
Pushes(more) == used + more \in Node /\ used' = used + more

\* The arena with nodes of these kinds and literals pushed, and its links t.
Pushed(nodes, t) ==
  LET at(n) == n \in (used + 1)..(used + Len(nodes))
  IN  /\ Pushes(Len(nodes))
      /\ type' = [n \in Node |-> IF at(n) THEN nodes[n - used].kind ELSE type[n]]
      /\ lit'  = [n \in Node |-> IF at(n) THEN nodes[n - used].lit ELSE lit[n]]
      /\ tree' = t

Text(literal)     == [kind |-> "Text", lit |-> literal]
Container(kind)   == [kind |-> kind, lit |-> <<>>]
Leaf(kind, text)  == [kind |-> kind, lit |-> text]

\* A new last child of the block, and the scan goes on at `end`.
Emit(node, end) ==
  /\ Pushed(<<node>>, AppendChild(tree, This, used + 1))
  /\ pos' = end

\* The run of siblings from n up to but not including `until`.
Siblings(t, n, until) ==
  LET from[m \in Link] == IF m \in {Nil, until} THEN <<>> ELSE <<m>> \o from[t.next[m]]
  IN  from[n]

\* Each node of the run becomes the last child of p, in order.
MoveInto(t, run, p) == FoldLeft(LAMBDA u, n : AppendChild(u, p, n), t, run)

\* run_height: the tallest recorded container among these siblings.
RunHeight(run) == Max({0} \cup {nesting[n] : n \in ToSet(run)})

(***************************************************************************)
(* One block                                                               *)
(***************************************************************************)
NoDelims == [slot |-> <<>>, top |-> 0]
NoEmph   == [floor |-> 0, closer |-> 0, bottoms |-> [k \in Classes |-> 0]]
NoLink   == [node |-> Nil, back |-> 0]
NoWalk   == [child |-> Nil, pending |-> <<>>]

Init ==
  \E texts \in Documents :
    /\ content = texts
    /\ block = 1
    /\ tree = FoldLeft(LAMBDA t, b : AppendChild(t, Doc, b), Bare,
                       [b \in 1..Len(texts) |-> BlockNode(b)])
    /\ type = [n \in Node |-> IF n = Doc THEN "Document" ELSE "Paragraph"]
    /\ lit = [n \in Node |-> <<>>]
    /\ used = Doc + Len(texts)
    /\ subject = <<>> /\ pos = 1
    /\ delims = NoDelims /\ brackets = <<>>
    /\ nesting = [n \in Node |-> 0]
    /\ ticks = NoTicks(<<>>)
    /\ emph = NoEmph /\ link = NoLink /\ walk = NoWalk
    /\ pc = IF texts = <<>> THEN "done" ELSE "begin"

\* begin_block: the subject is trimmed, and nothing is left of the last block.
BeginBlock ==
  /\ pc = "begin"
  /\ subject' = Trim(content[block])
  /\ pos' = 1
  /\ delims' = NoDelims /\ brackets' = <<>>
  /\ nesting' = [n \in Node |-> 0]
  /\ ticks' = NoTicks(subject')
  /\ pc' = "scan"
  /\ UNCHANGED <<content, block, arena, emph, link, walk>>

\* The character the scan stands at, when it is one of S.
At(S) == pc = "scan" /\ ~AtEnd(subject, pos) /\ subject[pos] \in S

Specials == {"nl", "tick", "[", "]", "bslash", "!", "<", "<u>", "<b>", "&", "&e;", "*", "_"}
              \cup (IF Gfm THEN {"~"} ELSE {})

unscanned == <<content, block, subject, emph, link, walk, pc>>

\* parse_string
ParseString ==
  /\ At(Chars \ Specials)
  /\ LET end == Stop(subject, pos, Chars \ Specials)
     IN  Emit(Text(SubSeq(subject, pos, end - 1)), end)
  /\ UNCHANGED <<unscanned, stacks, nesting, ticks>>

\* parse_newline: a line break, hard when two spaces end the text before it,
\* which loses its trailing spaces either way.
ParseNewline ==
  /\ At({"nl"})
  /\ LET before == tree.last[This]
         text   == before # Nil /\ type[before] = "Text"
         hard   == text /\ HardBreak(lit[before])
         node   == used + 1
     IN  /\ Pushes(1)
         /\ type' = [type EXCEPT ![node] = IF hard THEN "Linebreak" ELSE "Softbreak"]
         /\ lit' = IF text THEN [lit EXCEPT ![before] = TrimEndSpaces(@)] ELSE lit
         /\ tree' = AppendChild(tree, This, node)
  /\ pos' = SkipSpaces(subject, pos + 1)
  /\ UNCHANGED <<unscanned, stacks, nesting, ticks>>

\* parse_backslash
ParseBackslash ==
  /\ At({"bslash"})
  /\ CASE pos < Len(subject) /\ subject[pos + 1] = "nl" ->
            Emit(Leaf("Linebreak", <<>>), SkipSpaces(subject, pos + 2))
       [] Escapes(subject, pos) -> Emit(Text(<<subject[pos + 1]>>), pos + 2)
       [] OTHER -> Emit(Text(<<"bslash">>), pos + 1)
  /\ UNCHANGED <<unscanned, stacks, nesting, ticks>>

\* parse_backticks
ParseBackticks ==
  /\ At({"tick"})
  /\ LET scan == ScanCodeSpan(subject, pos, ticks)
         size == RunLength(subject, pos)
     IN  /\ IF scan.end = 0
            THEN Emit(Text(SubSeq(subject, pos, pos + size - 1)), pos + size)
            ELSE Emit(Leaf("Code", CodeLiteral(
                        SubSeq(subject, pos + size, scan.end - size - 1))), scan.end)
         /\ ticks' = scan.memo
  /\ UNCHANGED <<unscanned, stacks, nesting>>

\* parse_autolink: a link that holds its text.  No height is recorded for it.
ParseAutolink ==
  /\ At({"<u>"})
  /\ LET l == used + 1
         u == used + 2
     IN  Pushed(<<Container("Link"), Text(<<"<u>">>)>>,
                AppendChild(AppendChild(tree, l, u), This, l))
  /\ pos' = pos + 1
  /\ UNCHANGED <<unscanned, stacks, nesting, ticks>>

\* parse_html_tag, parse_entity, and parse_literal_char for what neither
\* claimed.  An entity becomes the character it stands for.
ParseOne ==
  /\ At({"<b>", "&e;", "<", "&"})
  /\ Emit(CASE subject[pos] = "<b>" -> Leaf("HtmlInline", <<"<b>">>)
            [] subject[pos] = "&e;" -> Text(<<"eacute">>)
            [] OTHER -> Text(<<subject[pos]>>), pos + 1)
  /\ UNCHANGED <<unscanned, stacks, nesting, ticks>>

(***************************************************************************)
(* The delimiter stack                                                     *)
(***************************************************************************)
\* The delimiters from d down to the floor, which is left out.
DownFrom(ds, d, floor) ==
  LET down[i \in 0..Len(ds.slot)] ==
        IF i \in {0, floor} THEN <<>> ELSE <<i>> \o down[ds.slot[i].prev]
  IN  down[d]

\* remove_delimiter
Removed(ds, d) ==
  LET p == ds.slot[d].prev
      n == ds.slot[d].next
      closed == [i \in DOMAIN ds.slot |->
                   CASE i = p -> [ds.slot[i] EXCEPT !.next = n]
                     [] i = n -> [ds.slot[i] EXCEPT !.prev = p]
                     [] OTHER -> ds.slot[i]]
  IN  [slot |-> closed, top |-> IF n = 0 THEN p ELSE ds.top]

\* GFM strikethrough only recognises runs of one or two tildes.
Stackable(cc, run) == (run.open \/ run.close) /\ (cc = "~" => run.num <= 2)

\* handle_delim: the run is text, and goes on the stack if it could match.
HandleDelim ==
  /\ At(Delims \cap Specials)
  /\ LET run  == DelimRun(subject, pos)
         cc   == subject[pos]
         i    == Len(delims.slot) + 1
         slot == [cc |-> cc, num |-> run.num, orig |-> run.num, node |-> used + 1,
                  prev |-> delims.top, next |-> 0, open |-> run.open, close |-> run.close]
         under == IF delims.top = 0 THEN delims.slot
                  ELSE [delims.slot EXCEPT ![delims.top].next = i]
     IN  /\ Emit(Text([k \in 1..run.num |-> cc]), pos + run.num)
         /\ delims' = IF Stackable(cc, run)
                      THEN [slot |-> Append(under, slot), top |-> i] ELSE delims
  /\ UNCHANGED <<unscanned, brackets, nesting, ticks>>

(***************************************************************************)
(* process_emphasis                                                        *)
(***************************************************************************)
slot == delims.slot

\* The loop starts at the top of the stack.
FirstCloser_top(ds, floor) == ds.top

\* The lowest delimiter above the floor.
FirstCloser(ds, floor) ==
  LET down[i \in 0..Len(ds.slot)] ==
        IF i = 0 \/ ds.slot[i].prev = floor THEN i ELSE down[ds.slot[i].prev]
  IN  down[ds.top]

\* Enter the loop over the closers, for what is above `floor` on the stack.
StartEmphasis(floor) ==
  /\ emph' = [floor |-> floor, closer |-> FirstCloser(delims, floor),
              bottoms |-> [k \in Classes |-> floor]]
  /\ pc' = "emph"

\* Whether the delimiter o can be the opener of the closer c: rules 9 and 10 of
\* section 6.4, and equal runs for strikethrough.
Matches(o, c) ==
  /\ slot[o].cc = slot[c].cc
  /\ slot[o].open
  /\ IF slot[c].cc = "~" THEN slot[o].num = slot[c].num
     ELSE ~ /\ slot[c].open \/ slot[o].close
            /\ slot[c].orig % 3 # 0
            /\ (slot[o].orig + slot[c].orig) % 3 = 0

\* All the closers of one character share an entry.
Class_sameForAll(c) == <<slot[c].cc, FALSE, 0>>

\* The class a closer's failed search is remembered under.
Class(c) == <<slot[c].cc, slot[c].open, slot[c].orig % 3>>

\* The nearest delimiter under c and above `bottom` that matches; 0 if none.
OpenerAbove(c, bottom) ==
  LET down[o \in 0..Len(slot)] ==
        IF o \in {0, emph.floor, bottom} THEN 0
        ELSE IF Matches(o, c) THEN o ELSE down[slot[o].prev]
  IN  down[slot[c].prev]

Opener(c) == OpenerAbove(c, emph.bottoms[Class(c)])

\* What stands between the two delimiters.
Between(o, c) == Siblings(tree, tree.next[slot[o].node], slot[c].node)

\* A pair is taken however deep its content is nested.
Pairs_anyDepth(o, c) == o # 0

\* A pair is taken only while its content is not nested too deep already.
Pairs(o, c) == o # 0 /\ RunHeight(Between(o, c)) < MaxInlineNesting

AtCloser == pc = "emph" /\ emph.closer # 0

\* The closer is tried again.
NextCloser_same(c) == c

\* The closer after c.
NextCloser(c) == slot[c].next

\* A delimiter that cannot close is passed over.
SkipOpener ==
  /\ AtCloser /\ ~slot[emph.closer].close
  /\ emph' = [emph EXCEPT !.closer = NextCloser(emph.closer)]
  /\ UNCHANGED <<content, block, arena, subject, pos, stacks, nesting, ticks, link, walk, pc>>

\* Two delimiters make strong, one makes emph, a strikethrough its whole run.
UseDelims(o, c) ==
  IF slot[c].cc = "~" THEN slot[c].num
  ELSE IF slot[c].num >= 2 /\ slot[o].num >= 2 THEN 2 ELSE 1

\* The delimiters between the pair stay on the stack.
Narrowed_keepsInner(o, c, use) ==
  [slot EXCEPT ![o].num = @ - use, ![c].num = @ - use]

\* The pair with `use` delimiters consumed: what is between them leaves the
\* stack.
Narrowed(o, c, use) ==
  [slot EXCEPT ![o].num = @ - use, ![o].next = c, ![c].num = @ - use, ![c].prev = o]

\* The height recorded for a container made over this content.
HeightOver_flat(run) == 1
HeightOver(run) == RunHeight(run) + 1

\* The content moves into a new node after the opener; an exhausted delimiter
\* leaves the tree and the stack.
MatchDelims ==
  /\ AtCloser /\ slot[emph.closer].close
  /\ LET c     == emph.closer
         o     == Opener(c)
         use   == UseDelims(o, c)
         kind  == IF slot[c].cc = "~" THEN "Del" ELSE IF use = 1 THEN "Emph" ELSE "Strong"
         run   == Between(o, c)
         node  == used + 1
         on    == slot[o].node
         cn    == slot[c].node
         less(text) == SubSeq(text, 1, Len(text) - use)
         oGone == slot[o].num = use
         cGone == slot[c].num = use
         made  == InsertAfter(MoveInto(tree, run, node), on, node)
         t1    == IF oGone THEN Unlink(made, on) ELSE made
         ds    == [delims EXCEPT !.slot = Narrowed(o, c, use)]
         ds1   == IF oGone THEN Removed(ds, o) ELSE ds
     IN  /\ Pairs(o, c)
         /\ tree' = IF cGone THEN Unlink(t1, cn) ELSE t1
         /\ Pushes(1)
         /\ type' = [type EXCEPT ![node] = kind]
         /\ lit' = [lit EXCEPT ![on] = less(@), ![cn] = less(@)]
         /\ nesting' = [nesting EXCEPT ![node] = HeightOver(run)]
         /\ delims' = IF cGone THEN Removed(ds1, c) ELSE ds1
         /\ emph' = IF cGone THEN [emph EXCEPT !.closer = NextCloser(c)] ELSE emph
  /\ UNCHANGED <<content, block, subject, pos, brackets, ticks, link, walk, pc>>

\* No opener, or one whose pair would nest too deep: the closer's class need
\* not look below it again, and one that cannot open is inert.
NoOpener ==
  /\ AtCloser /\ slot[emph.closer].close
  /\ LET c == emph.closer
     IN  /\ ~Pairs(Opener(c), c)
         /\ emph' = [emph EXCEPT !.closer = NextCloser(c),
                                 !.bottoms[Class(c)] = slot[c].prev]
         /\ delims' = IF slot[c].open THEN delims ELSE Removed(delims, c)
  /\ UNCHANGED <<content, block, arena, subject, pos, brackets, nesting, ticks, link, walk, pc>>

\* What follows a block: the next one.
NextBlock ==
  /\ block' = block + 1
  /\ pc' = IF block = Len(content) THEN "done" ELSE "begin"

\* The delimiters of ds leave the stack, one after the other.
RemovedAll(ds) ==
  LET upTo[i \in 0..Len(ds)] == IF i = 0 THEN delims ELSE Removed(upTo[i-1], ds[i])
  IN  upTo[Len(ds)]

\* The whole stack is dropped, what is under the floor too.
Dropped_all(floor) == RemovedAll(DownFrom(delims, delims.top, 0))

\* The stack with everything above the floor dropped.
Dropped(floor) == RemovedAll(DownFrom(delims, delims.top, floor))

\* No closer is left: what is above the floor goes, and the caller goes on.
EndEmphasis ==
  /\ pc = "emph" /\ emph.closer = 0
  /\ delims' = Dropped(emph.floor)
  /\ emph' = NoEmph
  /\ IF link.node # Nil THEN pc' = "link" /\ UNCHANGED <<block, walk>>
     ELSE IF Gfm THEN /\ pc' = "linkify"
                      /\ walk' = [child |-> tree.first[This], pending |-> <<>>]
                      /\ UNCHANGED block
     ELSE NextBlock /\ UNCHANGED walk
  /\ UNCHANGED <<content, arena, subject, pos, brackets, nesting, ticks, link>>

\* finish_block, when the scan is at the end of the subject.
FinishBlock ==
  /\ pc = "scan" /\ AtEnd(subject, pos)
  /\ content' = [content EXCEPT ![block] = <<>>]
  /\ StartEmphasis(0)
  /\ UNCHANGED <<block, arena, subject, pos, stacks, nesting, ticks, link, walk>>

(***************************************************************************)
(* Links and images                                                        *)
(***************************************************************************)
\* add_bracket
Opened(node, index, image) ==
  LET n == Len(brackets)
      under == IF n = 0 THEN <<>> ELSE [brackets EXCEPT ![n].after = TRUE]
  IN  Append(under, [node |-> node, floor |-> delims.top, index |-> index,
                     image |-> image, active |-> TRUE, after |-> FALSE])

\* parse_open_bracket
ParseOpenBracket ==
  /\ At({"["})
  /\ Emit(Text(<<"[">>), pos + 1)
  /\ brackets' = Opened(used + 1, pos, FALSE)
  /\ UNCHANGED <<unscanned, delims, nesting, ticks>>

\* parse_bang: an exclamation mark only matters before a bracket.
ParseBang ==
  /\ At({"!"})
  /\ IF pos < Len(subject) /\ subject[pos + 1] = "["
     THEN /\ Emit(Text(<<"!", "[">>), pos + 2)
          /\ brackets' = Opened(used + 1, pos + 1, TRUE)
     ELSE /\ Emit(Text(<<"!">>), pos + 1)
          /\ UNCHANGED brackets
  /\ UNCHANGED <<unscanned, delims, nesting, ticks>>

\* The label a reference after `]` uses: its own when it has one, and else the
\* link text, unless that holds a bracket.
RefLabel(opener, n) ==
  CASE n > 2 -> SubSeq(subject, pos + 2, pos + n - 1)
    [] n <= 2 /\ ~opener.after -> SubSeq(subject, opener.index + 1, pos - 1)
    [] OTHER -> <<>>

\* Where the link that the `]` at pos closes ends, 0 when it closes none: a
\* tail first, then a reference.
LinkEnd(opener) ==
  LET tail  == LinkTail(subject, pos + 1)
      label == LinkLabel(subject, pos + 1)
      n     == IF label.valid THEN label.raw ELSE 0
  IN  CASE tail # 0 -> tail
        [] tail = 0 /\ Normal(RefLabel(opener, n)) \in Definitions -> pos + 1 + n
        [] OTHER -> 0

Openable == brackets # <<>> /\ Last(brackets).active

\* No opener, one that an enclosing link deactivated, or no link after all:
\* the `]` is text, and the opener is spent.
CloseNothing ==
  /\ At({"]"})
  /\ Openable => LinkEnd(Last(brackets)) = 0
  /\ Emit(Text(<<"]">>), pos + 1)
  /\ brackets' = IF brackets = <<>> THEN brackets ELSE Front(brackets)
  /\ UNCHANGED <<unscanned, delims, nesting, ticks>>

\* What follows the opener moves into the new node, and emphasis inside it
\* resolves down to the delimiter that was on top when the bracket opened.
MakeLink ==
  /\ At({"]"})
  /\ Openable
  /\ LET opener == Last(brackets)
         node   == used + 1
         run    == Siblings(tree, tree.next[opener.node], Nil)
         end    == LinkEnd(opener)
     IN  /\ end # 0
         /\ Pushed(<<Container(IF opener.image THEN "Image" ELSE "Link")>>,
                   AppendChild(MoveInto(tree, run, node), This, node))
         /\ link' = [node |-> node, back |-> pos + 1]
         /\ pos' = end
         /\ StartEmphasis(opener.floor)
  /\ UNCHANGED <<content, block, subject, stacks, nesting, ticks, walk>>

LinkHeight == RunHeight(Children(tree, link.node))

\* Every earlier opener stays as it is.
Deactivated_none(bs) == bs

\* Links may not contain links: every earlier link opener is spent.
Deactivated(bs) ==
  [i \in DOMAIN bs |-> IF bs[i].image THEN bs[i] ELSE [bs[i] EXCEPT !.active = FALSE]]

\* The link stays: its opener leaves the tree and the bracket stack.
KeepLink ==
  /\ pc = "link" /\ LinkHeight < MaxInlineNesting
  /\ LET l == link.node
     IN  /\ nesting' = [nesting EXCEPT ![l] = LinkHeight + 1]
         /\ tree' = Unlink(tree, Last(brackets).node)
         /\ brackets' = IF type[l] = "Link" THEN Deactivated(Front(brackets))
                        ELSE Front(brackets)
  /\ link' = NoLink
  /\ pc' = "scan"
  /\ UNCHANGED <<content, block, type, lit, used, subject, pos, delims, ticks, emph, walk>>

\* The children of a link that is taken back are left in it.
Restored_leavesChildren(t, l) == Unlink(t, l)

\* The children of a link that is taken back return to the block.
Restored(t, l) == MoveInto(Unlink(t, l), Children(t, l), This)

\* The link holds too deep a nesting already: the brackets are text, and so is
\* what follows them.
TakeBackLink ==
  /\ pc = "link" /\ LinkHeight >= MaxInlineNesting
  /\ Pushed(<<Text(<<"]">>)>>, AppendChild(Restored(tree, link.node), This, used + 1))
  /\ brackets' = Front(brackets)
  /\ pos' = link.back
  /\ link' = NoLink
  /\ pc' = "scan"
  /\ UNCHANGED <<content, block, subject, delims, nesting, ticks, emph, walk>>

(***************************************************************************)
(* linkify_autolinks                                                       *)
(***************************************************************************)
AtChild(kinds) == pc = "linkify" /\ walk.child # Nil /\ type[walk.child] \in kinds

\* The run of text siblings that starts at n.
TextRun(n) ==
  LET rest == Siblings(tree, n, Nil)
      stop == SelectInSeq(rest, LAMBDA m : type[m] # "Text")
  IN  IF stop = 0 THEN rest ELSE SubSeq(rest, 1, stop - 1)

\* starts_after_delimiter
StartsAfterDelimiter(prev) ==
  prev = Nil \/ type[prev] \in {"Softbreak", "Linebreak", "Emph", "Strong", "Del"}

\* The text, link and text pieces one literal splits into.
Pieces(text, matches) ==
  LET part(from, to) == IF from < to THEN <<[link |-> FALSE, lit |-> SubSeq(text, from, to - 1)]>>
                        ELSE <<>>
      add(acc, m) == [out  |-> acc.out \o part(acc.from, m.start)
                                 \o <<[link |-> TRUE, lit |-> SubSeq(text, m.start, m.end - 1)]>>,
                      from |-> m.end]
      all == FoldLeft(add, [out |-> <<>>, from |-> 1], matches)
  IN  all.out \o part(all.from, Len(text) + 1)

\* The nodes of the pieces, a link before the text it holds, and the tree with
\* them before n.
PieceNodes(piece) ==
  IF piece.link THEN <<Container("Link"), Text(piece.lit)>> ELSE <<Text(piece.lit)>>

InsertPieces(t, n, pieces) ==
  LET place(acc, piece) ==
        LET id == acc.id
        IN  IF piece.link
            THEN [id |-> id + 2,
                  t  |-> InsertBefore(AppendChild(acc.t, id, id + 1), n, id)]
            ELSE [id |-> id + 1, t |-> InsertBefore(acc.t, n, id)]
  IN  FoldLeft(place, [id |-> used + 1, t |-> t], pieces).t

\* linkify_children at a text: the run of texts becomes one, and that one is
\* replaced by the pieces its autolinks cut it into.
LinkifyText ==
  /\ AtChild({"Text"})
  /\ LET n       == walk.child
         run     == TextRun(n)
         text    == FlattenSeq([i \in 1..Len(run) |-> lit[run[i]]])
         merged  == FoldLeft(Unlink, tree, Tail(run))
         matches == Autolinks(text, StartsAfterDelimiter(merged.prev[n]))
         pieces  == Pieces(text, matches)
         nodes   == FlattenSeq([i \in 1..Len(pieces) |-> PieceNodes(pieces[i])])
     IN  /\ IF matches = <<>>
            THEN /\ tree' = merged
                 /\ lit' = [lit EXCEPT ![n] = text]
                 /\ UNCHANGED <<type, used>>
            ELSE Pushed(nodes, Unlink(InsertPieces(merged, n, pieces), n))
         /\ walk' = [walk EXCEPT !.child = merged.next[n]]
  /\ UNCHANGED <<content, block, subject, pos, stacks, nesting, ticks, emph, link, pc>>

\* No links inside links, and the children of an image are its alt text.
Descends == Containers \ {"Link", "Image"}

LinkifySkip ==
  /\ AtChild(Kinds \ {"Text"})
  /\ walk' = [child   |-> tree.next[walk.child],
              pending |-> IF type[walk.child] \in Descends
                          THEN Append(walk.pending, walk.child) ELSE walk.pending]
  /\ UNCHANGED <<content, block, arena, subject, pos, stacks, nesting, ticks, emph, link, pc>>

LinkifyNext ==
  /\ pc = "linkify" /\ walk.child = Nil /\ walk.pending # <<>>
  /\ walk' = [child |-> tree.first[Last(walk.pending)], pending |-> Front(walk.pending)]
  /\ UNCHANGED <<content, block, arena, subject, pos, stacks, nesting, ticks, emph, link, pc>>

LinkifyDone ==
  /\ pc = "linkify" /\ walk.child = Nil /\ walk.pending = <<>>
  /\ NextBlock
  /\ UNCHANGED <<content, arena, subject, pos, stacks, nesting, ticks, emph, link, walk>>

ParseInline ==
  \/ ParseString \/ ParseNewline \/ ParseBackslash \/ ParseBackticks \/ ParseAutolink
  \/ ParseOne \/ HandleDelim \/ ParseOpenBracket \/ ParseBang \/ CloseNothing \/ MakeLink

ProcessEmphasis == SkipOpener \/ MatchDelims \/ NoOpener \/ EndEmphasis

Linkify == LinkifyText \/ LinkifySkip \/ LinkifyNext \/ LinkifyDone

Next == BeginBlock \/ ParseInline \/ FinishBlock \/ ProcessEmphasis
          \/ KeepLink \/ TakeBackLink \/ Linkify

Done == pc = "done" /\ UNCHANGED vars

Spec == Init /\ [][Next \/ Done]_vars
=============================================================================
