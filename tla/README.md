# A verification project for tabnas/markdown

This directory specifies, model-checks and proves properties of the Markdown
parser of this repository. The reference is the Rust implementation under
`rs/src`; the TypeScript and Go versions are ports kept in step with it.

Contents: [the system](#the-system), [modules](#modules), [the block phase
model](#the-block-phase-model), [the inline phase model](#the-inline-phase-model),
[link reference definitions](#link-reference-definitions), [the engine's
states](#the-engines-states), [the two outputs](#the-two-outputs),
[runs](#runs), [bounds](#bounds), [fairness](#fairness), [findings](#findings),
[proofs](#proofs), [what is not modelled](#what-is-not-modelled),
[plan](#plan).

## The system

A document is parsed in two phases. The block phase cuts it into lines and
builds a tree of blocks; the inline phase parses the text of paragraphs,
headings and table cells into inline nodes. The finished tree is projected to
a public syntax tree or rendered to HTML. The parser runs on its own
(`parse_blocks`, `parse_inlines`) or as a plugin of an external grammar engine
that calls it back line by line.

| Component | State it keeps | Operations | Correct when |
| --- | --- | --- | --- |
| Arena tree, `node.rs` | a vector of nodes with parent, first, last, previous and next links | `append_child`, `insert_after`, `insert_before`, `unlink`, `Walker::next`, `Walker::resume_at` | links stay mutually consistent; a walk visits each node once even if it is resumed elsewhere |
| Block phase, `block.rs` | the tree; tip, oldtip, last matched container; cursor (offset, column, partial tab); refmap; copies of the last line added; lengths of the last two lines; budget of empty cells | `incorporate_line`, `finish`, and under them `continue_block`, `block_start`, `try_open_table`, `close_unmatched_blocks`, `add_child`, `finalize_at` | open blocks form a chain; every line's text is kept once; closed blocks stay closed; nesting and padding stay bounded; positions are right; looseness is what section 5.3 defines; it always returns |
| Link reference definitions, `inline.rs` | position in the paragraph's text, refmap | `parse_references`, `consume_reference_defs` | the definitions taken are those of section 4.7, each the longest, and nothing else leaves the paragraph |
| Inline phase, `inline.rs` | position in the text, delimiter stack, bracket stack, backtick memo, nesting heights | one handler per special character, `process_emphasis`, `parse_close_bracket`, autolink pass | the stacks agree with the tree; the memos never change an answer; nesting stays bounded; no text is lost |
| Engine block matcher, `engine_block.rs` | a thread-local slab of block states, each with a lease; the kept tree | `block_slot_insert`, `with_block_state`, `block_slot_take`, `take_kept_tree` | a parse sees only its own state; states of aborted parses are reclaimed |
| Engine inline matchers, `engine_inline.rs` | a slab of inline parsers | one matcher per construct, in a fixed order | same result as the direct inline phase |
| Plugin wiring, `lib.rs`; `commonmark.rs`; `options.rs` | none | registration, option conversion | - |
| Projection, `ast.rs` | none | tree to syntax tree | every block and text is in it once; spread and checked flags follow the tree |
| Renderer, `html.rs` | output buffer with its line-start flag, a walker | tree to HTML | tags nest; tasks have their boxes; the text is that of the syntax tree |
| Text helpers, `common.rs`; table, `entities.rs` | none | pure string functions; generated data | - |

How they interact: the engine calls the block matcher for each line, which
finds its `BlockParser` through a slot number in the parse context and calls
`incorporate_line`; the finish action takes the parser out of its slot, calls
`finish`, runs the inline phase over the tree and projects it. Everything in a
parse is sequential: there are no threads and no suspension inside a call. What
is hard is not interleaving but *history*: flags and memos set on one line and
read several lines later, blocks that leave the tree while a pointer to them
survives, stacks kept beside the tree they describe, steps that decline after
changing something, and positions that are reconstructed after the fact. Parses
meet only in the engine's slabs: a callback may start a parse inside a parse,
and a parse may be abandoned between two calls.

## Modules

| Module | Models |
| --- | --- |
| `NodeTree` | the arena of `node.rs`: links as a record of functions, one operator per splice |
| `LineLexis` | a line of input as tokens, the tab-aware cursor, the recognisers of `block.rs` |
| `BlockPhase` | `BlockParser`: variables, one action per step of `incorporate_line` and `finish` |
| `BlockProperties` | the properties of the block phase |
| `InlineLexis`, `AutolinkScan` | the pure recognisers of `inline.rs`: code spans and their memo, labels, destinations, titles, flanking; `scan_autolinks` |
| `InlinePhase` | `InlineParser`: the scan, the delimiter and bracket stacks, `process_emphasis`, the autolink pass |
| `InlineProperties` | the properties of the inline phase |
| `ReferenceDefs`, `ReferenceProperties` | `parse_references` and `consume_reference_defs`; section 4.7 as a grammar beside it |
| `EngineSlots` | the slabs of `engine_block.rs` and `engine_inline.rs` with parses that nest and abort |
| `ParseStates` | the abstract specification of the slab: a state per parse |
| `EngineProperties` | the properties of the slab and the refinement mapping to `ParseStates` |
| `HtmlRender`, `AstProjection` | the walker and `render_html`, event by event; `to_ast` |
| `OutputProperties` | the outputs as steps of a specification, and what they owe to the tree and to each other |
| `BlockOutput`, `InlineOutput` | a phase composed with both outputs |
| `MCBlockContainers`, `MCBlockLeaves`, `MCBlockProgress`, `MCBlockDefinitions`, `MCBlockOutput`, `MCInline`, `MCReferences`, `MCEngine` | the documents, paragraphs and parses TLC is run on |
| `InductionProofs` | lemmas without state: least and greatest elements, equations of recursive functions |
| `BlockSpineProofs`, `BlockStructureProofs`, `BlockPositionProofs`, `BlockTextProofs`, `BlockTypeProofs` | theorems about the block phase: the chain of open blocks; containment, closed blocks and nesting; source positions; cursor and definitions; types and tables |
| `InlineStackProofs` | theorems about the inline phase: the backtick memo, the delimiter and bracket stacks |
| `EngineSlotsProofs` | theorems about the slab |

## The block phase model

**State.** The tree is the record `tree` of five link functions, with `type`,
`open`, `blankEnd` (`last_line_blank`), `checked` (`last_line_checked`) and
`blk` (every other field) indexed by node number. The parser's fields keep
their names where TLA+ allows: `tip`, `oldtip`, `lmc`
(`last_matched_container`), `allClosed`, `cur` (offset, column,
`partially_consumed_tab`), `nx` (what `find_next_nonspace` found), `refs` (the
refmap), `lastAdded` (`last_added_to`, `last_added_line`), `padded`
(`autocompleted_cells`), `lastLen` and `prevLen` (`last_line_length`,
`prev_line_length`). `cont` is the local `container`. `defLines` is a history
variable: which lines were consumed as definitions.

**Steps.** `incorporate_line` is cut at its loops, and `pc` says where it is:

| `pc` | Code | Actions |
| --- | --- | --- |
| `read` | entry of `incorporate_line`, or of `finish` | `ReadLine`, `EndOfInput` |
| `walk` | step 1, the walk down the open blocks with `continue_block` | `ContinueMatched`, `ContinueNotMatched`, `NoMoreOpen`, `CloseFence` |
| `starts` | step 2, the nine cases of `block_start` in order | `StartQuote` ... `StartTable`, `NoStart` |
| `close` | `close_unmatched_blocks`, one block a step | `CloseOne`, `AllClosed` |
| `add` | `add_child`: close what cannot hold the block, then append it | `MakeRoom`, `AddChild` |
| `setext` | the rest of the setext start | `SetextFalls`, `SetextHeading` |
| `table` | the rest of `try_open_table` | `SplitParagraph`, `ReplaceParagraph` |
| `text`, `body`, `line` | step 3 | `LazyLine`, `CloseForText`, `GiveToBlock`, `OpenParagraph`, `NoText`, `TakeLine`, `TakeLastHtmlLine` |
| `finish`, `done` | `finish`, `mark_task_list_items` | `FinishOne`, `MarkTasks`, `Done` |

A step that closes a block does all `finalize_at` and `finalize_block` do:
dates it, consumes definitions, unlinks an empty paragraph, decides looseness
with the memo flags, splits table rows. The parser is deterministic; the only
choice is which line comes next, or that the document ends.

**Abstractions.** Text is one token, whatever its length, so an offset counts
tokens; columns are display columns, tabs included. A position is a line and
the line its end column was measured on; columns themselves, and the split of
fenced code into info string and literal, are left out (`BlockOutput` makes the
split for the outputs). Rows and cells of a table, which are created closed and
never touched again by the block phase, are data of the table. A definition is
one line; `ReferenceDefs` has it in full. HTML blocks are of kinds 2, 6 and 7:
one that ends on a string, one that a blank line ends, one that cannot
interrupt a paragraph. `table_armed` is always set, as `BlockParser::new`
leaves it (the engine clears it only on lines without `|` and `-`; what each
line is fed with is part of `EngineSlots`). The arm of `close_unmatched_blocks`
for a block without a parent is not modelled: `SpineInv` shows it is not
reached.

## The inline phase model

A document of `InlinePhase` is the raw content of its blocks, in order, as
`for_each_inline_block` hands it over; a subject is a sequence of characters.
Four constructs the scan only ever takes whole are single symbols: an angle
autolink, a raw HTML tag, an entity reference and a quoted title. `www` and
`http://` are symbols, too.

The state is the tree under construction, the position, the delimiter slab with
its top and its two chains, the brackets, the backtick memo, and `nesting`, the
heights `run_height` judges the limit by.

| `pc` | Code | Actions |
| --- | --- | --- |
| `begin` | `begin_block` | `BeginBlock` |
| `scan` | `parse_inline`, one construct a step | `ParseString`, `ParseNewline`, `ParseBackslash`, `ParseBackticks`, `ParseAutolink`, `ParseOne`, `HandleDelim`, `ParseOpenBracket`, `ParseBang`, `CloseNothing`, `MakeLink`; `FinishBlock` at the end |
| `emph` | `process_emphasis`, one closer a step | `SkipOpener`, `MatchDelims`, `NoOpener`, `EndEmphasis` |
| `link` | the rest of `parse_close_bracket`, after the emphasis of the link's text | `KeepLink`, `TakeBackLink` |
| `linkify` | the autolink pass, one child a step | `LinkifyText`, `LinkifySkip`, `LinkifyNext`, `LinkifyDone` |
| `done` | | `Done` |

`process_emphasis` is called from two places; `emph.floor` and `link` tell its
steps which stack bottom it stops at and what follows. `openers_bottom` and the
memo of `scan_code_span_memo` are modelled with every entry they keep: the
properties compare them with the searches they shorten.

## Link reference definitions

`ReferenceDefs` is `parse_references` over characters. Each turn of its loop is
one action: `TakeDefinition`, or one of the ways to fall through (`NoLabel`,
`NoDefinition`, `NoBracket`) with the position each leaves; `Consume` is what
`consume_reference_defs` and `finalize_block` cut from the paragraph.
`ReferenceProperties` states section 4.7 declaratively (`IsLabel`,
`IsDestination`, `IsTitle`, `IsGap`), without a position to move or put back,
and `Ends` is every offset at which a definition that begins at a place can
end.

## The engine's states

`EngineSlots` has the parses of one thread: a stack of contexts, the slab
`BLOCK_STATES` with its leases, `INLINE_STATES`, and `KEPT_TREE`. A parse is a
plain one, a `parse_keep_tree`, or one with `keepTree` in its meta whose tree is
left for `take_kept_tree`.

| `phase` | Code | Actions |
| --- | --- | --- |
| `new` | | `Begin`: with `parse_keep_tree`, what is parked is cleared |
| `preparing` | the prepare hooks | `Prepare`: `block_slot_insert`, which frees every stale slot first; `ShortCircuit` for an empty source, which gets no slot |
| `lines` | the line matcher and actions | `FeedLine`; `FinishBlocks` when no line is left |
| `parking`, `projecting` | the rest of the finish action | `BeginInline` and `EndInline` around each inline parse; `FinishTree` parks the tree if it was asked for |
| `ended` | hooks after the finish action | `Return` |
| `returned`, `failed` | the context is dropped | |

The engine itself is external: the model has it call the hooks in the order
`lib.rs` registers them. Callbacks of other plugins run around the prepare hook
(of an empty source, too), between two lines, and after the finish action, when
the tree is parked already (`CalledBack`). In each of them a parse may begin
inside the parse, and each may abort it (`Abort`): then its context is dropped
and its slot stays behind. The finish action and the inline engine are not
interrupted: no code of others runs inside them. `Return` ends a parse and lets
its caller take what is parked: `parse_keep_tree` always does, the caller of
another parse may. The take is one step with the return because nothing runs on
the thread between `lib.rs:349` and `lib.rs:350`; a `take_kept_tree` at any
other time than right after a parse, the one its comment names, is left out.
`within` is a history variable: in whose wait for its tree each parse began.

`ParseStates` is what the module promises: each parse has a state of its own,
which only its own lines reach. The mapping reads a parse's state through the
slot its context carries, so that `EachItsOwn` fails as soon as one parse's
line reaches another's state or a document is made of it.

## The two outputs

`HtmlRender` is a renderer driven by a walker, one event a step, over a finished
tree: the links and the fields the outputs read. `AstProjection` is `to_ast` as
an operator, with the build order and the explicit stacks of the code.
`OutputProperties` makes steps of them: a tree is handed over, rendered event by
event, then projected; both only read the tree, so one after the other stands
for any order. `BlockOutput` runs `BlockPhase` to its end and hands its tree
over, each line of a paragraph as a text; `InlineOutput` does the same with the
tree of `InlinePhase`. Cells stay empty in `BlockOutput`, and an ordered list is
written as `ul`; attributes are left out.

## Runs

| Run | Documents | Shows |
| --- | --- | --- |
| `block_containers` | quotes, lists, tabs, lazy lines | `UnmatchedAreBelow`, `NestingBounded`, `WellContained`, `SourceOrder`, `TightAsDefined`, `CursorAgrees` |
| `block_leaves` | every leaf block, tables, tasks, definitions | `TypeOK`, `SpineInv`, `EveryLineOnce`, `EndsDated`, `ParagraphsAreRuns`, `RowsDated`, `PaddingBudget`, `FirstDefinitionWins`, `ClosedStaysClosed` |
| `block_progress` | lines that put every loop to work | `LineAbsorbed`: each call returns |
| `inline` | some 29 thousand texts and documents: runs of delimiters, links, images and references nested and crossed, code spans, breaks, autolinks | `InlineTypeOK`, `StacksSound`, `StacksPlaced`, `SearchComplete`, `EmphasisComplete`, `NestingExact`, `NoLinkInLink`, `MemoSound`, `LinkifyStable`, `TextKept`, `OutputsAgree`, `InlineDone` |
| `references` | some seventy thousand paragraphs that begin with a label | `LongestDefinitions` |
| `engine` | three parses on a thread | `EngineTypeOK`, `OwnSlot`, `OwnDocument`, `SlabBounded`, `KeptIsOwn`, `EachItsOwn` (the refinement) |
| `output_blocks` | lists tight and loose, tasks, tables, each leaf | `TagsNest`, `NewlinesPlaced`, `CheckboxesHeadTasks`, `BlocksProjected`, `SpreadMeansLoose` |
| `block_break`, `block_dash`, `references_long`, `references_title`, `output_defined` | the smallest documents that show it | the five [findings](#findings) |

What the less obvious ones say:

- `TightAsDefined` compares the looseness the parser computes with section 5.3
  evaluated without the `last_line_checked` memo.
- `EveryLineOnce`: the text of each line ends up in one place: a block, a table
  row or a definition. `CursorAgrees` recomputes the column from the start of
  the line.
- `SearchComplete` and `MemoSound` compare a shortened search with the full
  one at the moment it is made; `EmphasisComplete` looks at what is left when
  the shortened searches are over and finds no pair that could be made.
- `StacksSound` is about the delimiter slab and the brackets by themselves: one
  doubly linked list of unspent entries, on which every floor a bracket recorded
  still is. `StacksPlaced` ties both to the order of the text nodes in the tree,
  which links and emphasis rearrange under them.
- `NestingExact`: the recorded heights are the tree's, angle autolinks aside
  (no height is recorded for them).
- `LinkifyStable`: the autolink pass is idempotent.
- `TextKept` is an action property: no step but the scan changes what the block
  reads as, and the scan only adds to its end.
- `OutputsAgree`: HTML and syntax tree hold the same text in the same order,
  images and their alternative text included.
- `KeptIsOwn`: a caller that asked is handed the tree of its own parse, or none
  for an empty source. The clear and the take of `parse_keep_tree` are two steps
  with the callbacks of other plugins between them. A parse that begins in one
  after this one has parked its tree, or will park none, may clear it, replace
  it or take it: then, and only then, something else may be handed back, and it
  is that parse's tree or none (`Accounted`). What an earlier parse left, aborted
  or not, never is.
- `SpreadMeansLoose`: the two outputs tell a loose list by different means,
  flags and line ranges; the second never says more than the first.

## Bounds

Deadlock is checked in every run. `MaxNodes` bounds the arena (20 to 32 by run):
a step that needed one node more would deadlock, so the bound is never met.

| Constant | Code | In the runs |
| --- | --- | --- |
| `MaxLines` (block) | - | 4, or 3 in `block_progress` and for findings |
| `MaxNesting` | `MAX_CONTAINER_NESTING`, 100 | 4, which the container lines exceed |
| `MaxPadding` | `MAX_AUTOCOMPLETED_CELLS`, 0x80000 | 1, so that it runs out |
| `MaxInlineNesting` | `MAX_INLINE_NESTING` | 2: the third level of emphasis is refused, a link that would be third is taken back |
| `MaxLinkParens`, `MaxLabel` | 32, 999 | 1, 2 |
| `MaxDomain`, `MaxLocal` | the caps of the autolink scan | 4, 2 |
| `Parses`, `MaxLines` (engine) | - | 3 parses of up to 2 lines |
| `Piped` | lines that could be a delimiter row | the second of a source |

Four lines are enough to open a container, put a block in it, leave it by a
blank or lazy line, and return to it; to accumulate two lines of paragraph,
split them by a table and add a body row; to define a label twice in two
paragraphs. Texts of seven delimiters hold two pairs crossed and one left over,
with a remembered bound between them. Three parses are enough for one to be
aborted inside another and a third to take its slot, and for a tree to be left
by one, cleared by the next and replaced by a third inside its wait; they are
interchangeable, and the symmetry is used (the engine run checks no liveness).

## Fairness

`block_progress` adds `WF_vars(Next)`: the parser is one sequential loop with
nothing to wait for, so a step that can be taken is taken. No other fairness is
assumed. `MCInline` says the same of the inline phase and the outputs, spelt
out: either the outputs are done or steps are taken for ever, with a variable
`turn` that tells a step that changes nothing from no step at all, so that a
loop that stands still counts as taking its steps. It is written this way
because evaluating `ENABLED` over the operators on the tree is what would take
TLC its time; that a step can be taken until the outputs are done is what the
deadlock check of the same run shows.

## Findings

1. `block_break`. `[a]: /url` over `---`: the comment on the paragraph's
   finalizer says that "if nothing is left, the paragraph disappears", but the
   setext start consumes the definition before it knows whether the line is an
   underline; the thematic break that takes the line then closes a paragraph
   that is already empty, no definition is consumed by the finalizer, and the
   empty paragraph stays in the tree (`NoEmptyParagraph`).
2. `block_dash`. `[a]: /url` over `-`, with `gfm`: `try_open_table` takes its
   header row from `last_added_line`, which the comment there says is what
   `string_content` ends with. The setext start has emptied `string_content`,
   so the line becomes a table's header row as well as a definition
   (`HeaderRowEndsContent`).
3. `references_long`. A label over the limit at the head of a paragraph is no
   definition, but `parse_reference_here` returns without putting the position
   back as its doc comment says, and the paragraph loses the label's text
   (`FailureRestores`).
4. `references_title`. The pattern of a link title lists the escape first "so
   that `\"` ... is consumed as an escape rather than closing the title"; the
   other alternative takes a backslash as well, so when no closing delimiter
   follows, the escaped one closes the title: `[x]:x (x\)` is a definition
   (`EscapeClosesNoTitle`).
5. `output_defined`. `item_is_spread` says that children whose line ranges are
   not adjacent "must have had a blank line between them"; a paragraph of
   definitions leaves the tree and a gap, and the item is spread
   (`GapsAreBlank`).

Seen while modelling, and left without a run of their own: the height of an
angle autolink is not recorded, so inlines around one can nest a level past
`MAX_INLINE_NESTING`, and `[<u>](x)` is a link in a link (`NestingExact` and
`NoLinkInLink` except it by name); the range of an indented code block takes in
the blank line after it, so the item it stands in may be loose without being
spread (`SpreadMeansLoose` is stated in one direction). Of the parked tree,
three things that comments rule out: `parse_keep_tree` of an empty source hands
back a tree when a parse that another plugin began in its prepare hook left one
(the hooks run before the engine answers an empty source); a parse nested in a
hook after the finish action may clear or replace the tree before it is taken;
and `take_kept_tree` after a parse that did not ask for its tree gives that of
an older parse that left one. `KeptIsOwn` excepts the first two in `Accounted`,
by the parse that began inside the wait, and says nothing of the third
(`Asked`).

## Proofs

All theorems hold for every value of the constants. The assumptions used are
`MaxNodesAssumption` (the arena holds a node) and `BlockPhaseAssumption` (lines
are sequences of tokens, bounds are natural numbers, `Gfm` is Boolean) for the
block phase, and `EngineSlotsAssumption` (`None` and `NotTaken` are no parses, the
bound on lines is a natural number, `Gfm` is Boolean) for the engine. The inline phase uses
`MaxNodesAssumption`, `InlineLexisAssumption` (the caps on labels and
parentheses are natural numbers) and `InlinePhaseAssumption` (documents are
texts of the alphabet without a blank line inside, and the arena has a node for
each).

**The block phase.** The inductive invariants build on each other: each module
EXTENDS the one before and adds conjuncts to its invariant.

- `SpineSafe`: `Spec => []SpineInv`. The blocks that are open and in the tree
  are one chain of last children from the document to the tip. The walk of the
  next line, `close_unmatched_blocks` and `finish` all depend on it.
- `PointersSafe`: `Spec => []Pointers`. Where `oldtip`, `lmc` and `cont` stand
  on the chain at each step; in particular `oldtip = tip` and `cont = lmc` as
  long as unmatched blocks are open, and a heading or table only ever replaces
  a paragraph.
- `ContainmentSafe`: `Spec => []WellContained`. Items stand in lists and only
  there, lists hold nothing else, leaves hold nothing.
- `ClosedUntouched`: `Spec => ClosedStaysClosed`. No step before the task list
  pass changes a closed block.
- `UnmatchedClosed`: `Spec => []UnmatchedAreBelow`. What waits to be closed is
  below the container the walk matched last.
- `NestingSafe`: `Spec => []NestingBounded`. No block is deeper than
  `MaxNesting`, and the depth recorded with a block is its depth in the tree.
- `EndsDatedSafe`: `Spec => []EndsDated`. A closed block ends on a line that
  has been read, with the length measured on that line.
- `RunsSafe`: `Spec => []ParagraphsAreRuns`. The lines of a paragraph follow
  each other without a gap.
- `SourceOrderSafe`: `Spec => []SourceOrder`. Siblings follow each other in the
  source and a block lies inside its parent's lines.
- `CursorSafe`: `Spec => []CursorAgrees`. The column counted as the cursor goes
  is the column of the offset, or one inside the tab that stands there.
- `FirstDefinitionSafe`: `Spec => []FirstDefinitionWins`. A label names the
  first line that defines it.
- `TypeCorrect`: `Spec => []TypeOK`. Every field keeps its type, for lines of any
  tokens and arenas of any size.
- `RowsDatedSafe`: `Spec => []RowsDated`. The line a table's row is dated with is
  the one its text was read from.
- `ShortRowsSafe`: `Spec => []ShortOnlyWhenSpent`. A row is short only when the
  budget of empty cells is spent. With `padded <= MaxPadding`, which `TypeOK`
  gives, these are two of the three parts of `PaddingBudget`.

*The chain.* `SpineInv` is not inductive: it says nothing of the links off the
chain, which an unlink or append turns into links of the chain. `SpineIInv`
adds `Shape` (links agree in pairs, parents have smaller numbers than their
children, only the document and containers have children, numbers rise down
the chain with nothing between a block and its last child) and `Pointers`. A
step changes the tree in one of four ways, each a lemma of `BlockSpineProofs`:
the tip is closed in place (`CloseTip`); the tip leaves the tree (`DropTip`, for
a paragraph of definitions or one a table replaces); a block is appended to the
tip (`AppendTip`); a heading takes the tip's place (`ReplaceTip`). Leaves on the
chain are the tip (`LeafIsTip`), which is why a fence, an HTML block, an
underlined paragraph or the paragraph above a table can be closed by name. That
numbers rise down the chain shows that the blocks from the tip up meet the last
matched container before the document is closed (`OpenStep`).

*Containment and closed blocks.* `WellContained` needs to know what is about to
be opened and under which block: `ContainedIInv` adds that the container is the
tip once nothing waits to be closed (`AtTip`) and that `pend` is a block, a list
with its item, or an item for a list that is there (`ListsForItems`).
`ClosedStaysClosed` follows from the chain: whatever a step closes, fills or
gives a child to is the tip, its parent or a new node, none of them closed
(`FinalizeKeeps`, `OthersKept`). `ClosedIInv` adds only that every node has the
fields a closed one keeps.

*Nesting.* `ContainerDepth` counts over `SelfAndAbove`, a function that recurses
along the parents; since arena numbers fall upwards, it has a solution and the
solution is unique, by taking the least number at which two would differ
(`AboveEquation`). `NestedIInv` adds `RoomBelow`: what a start asked for fits
under the limit where it will be put. The start checks the depth from the last
matched container, before unmatched blocks are closed and before `add_child`
makes room; both only take blocks away below the nearest one that can hold the
new one, so the depth judged then is the depth it gets (`CloseDepths`,
`GrowDepths`). `UnmatchedClosed` comes out of the same walk upwards.

*Dates and runs.* `DatedIInv` adds what `last_line_length` and `prev_line_length`
hold at each step (`Lengths`, `ParaLengths`), that a paragraph is opened only for
the text of the line at hand (`NoParaEarly`) and ends with the last line taken
(`TipText`), and `Runs`: the text of every paragraph, in the tree or not, is a
run. A paragraph that a table takes its last line from ends two lines back, and
that is what `prev_line_length` was measured on.

*Source order.* `OrderIInv` restates the order per block (`Placed`: a block starts
no earlier than its parent, after the block before it ends, and ends no later
than its parent), as children lists are again a recursion along the siblings
(`Numbered`, `ChildrenChained`). `Ready` is why a new block fits in: until
unmatched blocks are closed nothing in the tree starts on the line at hand
(`Fresh`); a container opened on this line is never closed on it (`NewRoom`,
`AfterFits`); the line above is free for a table's header row (`TableRoom`); a
paragraph starts no later than its text (`TextStarts`).

*Cursor and definitions.* `ColumnAt` and the advance over a line recurse over
its offsets; `AdvanceEquation` and `ColumnEquation` unfold them. `CursorIInv`
says of the cursor and of the place `find_next_nonspace` found that they agree
with the line, and that no definition's label is behind either unless it is at
the end of the line (`CursorOk`): so what `add_line` takes of a line that reads
as a definition is the definition. `DefsIInv` then says that an open paragraph's
lines all come after every definition taken so far (`TipSourced`) and that only
lines done with are recorded; the definitions a paragraph gives up are therefore
later than all others, and the winner of both is the earlier winner where there
is one (`WinnerGrows`).

*Types.* `TypeOK` is not inductive. That `blankEnd` holds blocks of the arena
needs the chain (a path up from a block stays below it); that a cursor has a
natural offset and column needs that it agrees with its line; that a start's
indent is at most three needs what the recogniser saw; that the tokens left in a
text are tokens needs the scan over it to end within it. `TypeIInv` is the
conjunction of the earlier invariants with `TreeTyped` (the nodes and what waits
to become one) and `ParserTyped` (pointers, cursor, counters). The recursive
functions it depends on are unfolded the way `SelfAndAbove` is: the rows of a
table along its lines (`BodyRowsFacts`), the memo of `is_list_tight` down last
children (`AskedTyped`) and along the siblings (`FlattenTyped`, `KidsTyped`,
`LoosenessTyped`). A step then owes two things: what it leaves in the tree is
well typed (`Built`), and the parser's own fields move only as the actions say
(`Moves`).

*Tables.* `RowsIInv` adds three facts. A table at the tip has taken every line
from its delimiter row on (`TableText`): an open table either takes the line at
hand or is closed by it, as a table is never continued lazily. So the number
`finalize` counts for a row, from the header row's line, is that of the line it
splits. What waits to be opened has rows only if it is a table, which has its
header row and no text (`PendRows`). And the header row is as wide as the
delimiter row all the way from `try_open_table`'s probe to its use
(`HeaderWide`), unmatched blocks being closed between them, so the header never
draws on the budget. Rows that were filled up, or short with the budget spent,
stay so because the budget is only drawn on (`FineStays`).

**The engine.**

- `EngineTypeCorrect`, `SlotsOwned`, `DocumentsOwned`: `Spec => []EngineTypeOK`,
  `Spec => []OwnSlot`, `Spec => []OwnDocument`.
- `ImplementsParseStates`: `Spec => EachItsOwn`.
- `SlabIsBounded`: `Spec => []SlabBounded`.
- `KeptTreesOwned`: `Spec => []KeptIsOwn`.

*Slots.* `IInv` is types, `OwnSlot`, `OwnDocument` and three facts about the
order of events: the slot was claimed with what was asked for and the finish
action parks accordingly (`KeepAsAsked`), a parse that has not begun was begun
inside no wait and no line is given before a slot is claimed (`Fresh`), no more
lines are given than there are (`GivenInSource`). `OwnSlot` survives because a slot is freed only when no
living context has its lease, and a free slot is no running parse's. The
refinement goes step by step under the mapping. For `SlabIsBounded`, `BInv`
counts: a slot is pushed only when every other is leased to a living context, no
two to the same (`OneSlotEach`), so by the pigeonhole principle there are no
more slots than contexts.

*The parked tree.* `KeptIsOwn` speaks of what has been handed out; what carries
it there is `KeptPending`: while a parse that asked waits, what is parked now is
accounted for. Whatever runs in that wait is above it on the stack, and must be
known to have begun inside the wait: `WaitSeen` says that each parse knows all
those that wait below it. It needs that contexts stand on the stack once
(`Once`) and exactly from `Begin` to `Return` or `Abort` (`AliveExactly`). Then
a step that touches `kept` (`Begin` of a `parse_keep_tree`, `FinishTree`,
`Return` with a take) is a step of a parse that every other waiting one may
blame (`WaitersSeen`), or the parse's own; and blame lasts, because what is
known of a parse that has begun stays known (`Remembered`, `AccountedStays`).
`KInv` is `IInv` with these, and that only what has returned has been handed
anything (`Untaken`).

**The inline phase.**

- `BackticksSafe`: `Spec => []MemoSound`. The memo of backtick runs gives the
  answer a scan of the whole rest would give.
- `StacksSafe`: `Spec => []StacksSound`. The delimiter slab is one list of
  unspent entries, and the brackets' floors are on it.

*The memo.* What must hold of it is `Honest`: once a scan has been
to the end of the subject, no run ahead stands after the place recorded last for
its length. What is ahead begins not at `pos` but where the scan may
have to resume (`GoesOnAt`): while the emphasis of a link is processed, and
until the link is kept or taken back, that is behind the text of the link. A
memo honest from one place is honest from every later one (`HonestLater`), so
all that is left is that each step goes on further to the right
(`ScanMovesOn`, which needs what every recogniser returns: `LabelFacts`,
`BareFacts`, `TitleFacts`, `TailFacts`), and that a scan records the truth
(`ScanHonest`, `ScanComplete`).

*The stacks.* `StacksSound` speaks of the list read down from the top, which says
nothing of an entry the chain runs through only in one direction. `StackIInv`
says it of a set: there is one set of slab entries that both chains run through
from end to end (`Chained`), and

- links to the previous entry go down in the slab, for entries off the stack as
  well (`Backward`), so that a walk down ends (`DownEquation`, `DownFacts`);
- each entry in the set has delimiters left, and those are the text of its node
  (`Unspent`); the nodes of the slab rise, so two entries never share one
  (`Rising`), and shortening one text leaves the others alone;
- the floors of the brackets are in the set or 0 and do not fall from a bracket
  to a later one (`FloorsIn`), so what is dropped down to the floor of the last
  bracket takes no other bracket's floor with it;
- emphasis is at work above its floor, on entries of the set, and its floor is
  that of the last bracket when a link waits for it (`ClosersIn`).

Each operation of the slab is a lemma about the set: `RemovedChain` takes one
entry out, `NarrowedChain` all between an opener and a closer, `MatchedChain`
shortens the two and takes out what is used up, `PushedChain` adds one on top,
`DroppedFacts` takes out all above a floor. `OpenerFacts` and `FirstCloserFacts`
say that the searches stay within the set. That a floor survives emphasis inside
a link (`FloorsKept`) is the point of the whole: every removal is strictly above
the floor of the last bracket. `StackFacts` goes from the set back to the list.

**Left to TLC.** Liveness (`LineAbsorbed`, `InlineDone`), which the provers do
not reach. Of the block phase, `TightAsDefined`, which compares the memo of
`is_list_tight` with a recursion that has none over lists in lists; the third
part of `PaddingBudget`, which sums over rows with a fold of the community
modules (the library's induction theorems take an operator as a parameter,
which the provers cannot instantiate); and `EveryLineOnce`, which does not hold
of every set of lines: where a line of dashes and pipes follows a definition, a
table takes a line that the definition has taken already (`block_dash` shows it
as `HeaderRowEndsContent` violated), so it would have to be proved from that
property as an assumption. Of the inline phase, what relates the stacks to the
tree or asks for the text of a tree (`InlineTypeOK`, `StacksPlaced`,
`NoLinkInLink`, `NestingExact`, `TextKept`): the children of a link are moved
and read with folds of the community modules. And what compares a search with
the unshortened one (`SearchComplete`, `EmphasisComplete`), the autolink pass
(`LinkifyStable`), the definitions and the outputs.

## What is not modelled

- `entities.rs` (generated data) and, of `common.rs`, entity decoding and
  percent encoding: pure string functions on which no property depends.
- Of the renderer, attributes, escaping and the tag filter; of the projection,
  the fields copied from a node (`lang`, `meta`, `align`, `url`, `title`).
- `prepend_child` of the arena, which the parser does not call.
- The token and rule tables of the private inline engine of
  `engine_inline.rs`: its matchers hand each character to the same `parse_*`
  methods `InlinePhase` models; `EngineSlots` has how a parser gets in and out
  of its slab.
- `options.rs`, and the reading of option bags and registration in `lib.rs`:
  constant flags.
- Byte-level details of the line recognisers: escapes in table cells, the nine
  digits of a list number, the syntax of a raw HTML tag.
- The TypeScript and Go ports, the C library, tools and tests: the same
  algorithm or none.

## Plan

What would come next, the most important first: `InlineTypeOK`, `StacksPlaced`
and `NoLinkInLink` of the inline phase as theorems, with `MoveInto` and the
other folds written as recursive functions; `EveryLineOnce` of the block phase
from `HeaderRowEndsContent`; `split_table_row` and `parse_delimiter_row` over
characters, with the arming of the table probe as a superset of them; the order
of the private engine's matchers against `parse_inline`'s choice by character.
