----------------------------- MODULE EngineSlots -----------------------------
(***************************************************************************)
(* The state carriage of rs/src/engine_block.rs and engine_inline.rs, on   *)
(* one thread: the block parser of each parse lives in a slab, and the     *)
(* context of the parse holds its slot and the lease on it.  Other plugins *)
(* have callbacks around all of it: hooks beside the prepare hook, actions *)
(* and budgets between two lines, hooks after the finish action.  In each  *)
(* of them a parse may start inside the parse, and each of them may abort  *)
(* it; its context is then dropped and its slot stays behind, to be freed  *)
(* by a later parse.  The inline phase has a slab of its own, without      *)
(* leases.  The engine is external: it calls the prepare hook, a line      *)
(* action per line and the finish action.                                  *)
(***************************************************************************)
EXTENDS Integers, Sequences, FiniteSets

CONSTANTS
  Parses,      \* the parses of one thread
  MaxLines,    \* bound: the lines of a source
  Piped,       \* the numbers of the lines whose tblArm bit is set
  Gfm          \* options.gfm

None == "none"
NotTaken == "not taken"

ASSUME EngineSlotsAssumption ==
  /\ None \notin Parses /\ NotTaken \notin Parses
  /\ MaxLines \in Nat
  /\ Gfm \in BOOLEAN

\* How a parse is asked for: `parse`, `parse_keep_tree`, or parse_with_meta
\* with keepTree in the meta and the tree left for take_kept_tree.
Modes == {"plain", "keep", "meta"}

VARIABLES
  stack,       \* the parses whose contexts live, the innermost last
  phase,       \* where each parse stands
  mode,        \* how each parse was asked for
  length,      \* the lines of each source
  given,       \* the lines the engine has matched of each source
  ctx,         \* ctx.u["md"]: the slot, 0 when there is none
  slab,        \* BLOCK_STATES
  inlines,     \* INLINE_STATES
  kept,        \* KEPT_TREE: the parse whose tree is parked
  document,    \* the lines the tree of each parse was made of
  handed,      \* what take_kept_tree gave each caller, by the parse it is of
  within,      \* history: the parses inside whose wait each parse began
  peak         \* history: the most contexts alive at once

vars == <<stack, phase, mode, length, given, ctx, slab, inlines, kept, document,
          handed, within, peak>>

Free == [lease |-> None]
Entry(p, keep) == [lease |-> p, keep |-> keep, lines |-> <<>>]

\* What reaches the block parser: a line, and the table_armed it is fed with.
Fed == [of : Parses, no : 1..MaxLines, armed : BOOLEAN]

Alive == {stack[i] : i \in DOMAIN stack}
Running(p) == stack # <<>> /\ stack[Len(stack)] = p

\* Where callbacks of other plugins run: around the prepare hook, between the
\* lines, and after the finish action, which an empty source never reaches.
CalledBack(p) == phase[p] \in {"preparing", "lines"} \/ (phase[p] = "ended" /\ length[p] > 0)

\* A parse that waits: it parks nothing any more, but its caller has still to
\* take what is parked.
Waiting(p) == phase[p] = "ended" \/ (phase[p] = "preparing" /\ length[p] = 0)

Init ==
  /\ stack = <<>>
  /\ phase = [p \in Parses |-> "new"]
  /\ mode = [p \in Parses |-> "plain"]
  /\ length = [p \in Parses |-> 0]
  /\ given = [p \in Parses |-> 0]
  /\ ctx = [p \in Parses |-> 0]
  /\ slab = <<>> /\ inlines = <<>>
  /\ kept = None
  /\ document = [p \in Parses |-> <<>>]
  /\ handed = [p \in Parses |-> NotTaken]
  /\ within = [p \in Parses |-> {}]
  /\ peak = 0

(***************************************************************************)
(* Slots                                                                   *)
(***************************************************************************)
\* Every state but the innermost parse's is stale.
Stale_outer(e) == e # Free /\ ~Running(e.lease)

\* BlockState::stale: the slot is the last holder of its lease.
Stale(e) == e # Free /\ e.lease \notin Alive

\* Every slot left behind is freed.
Reclaimed_none(s) == s
Reclaimed(s) == [i \in DOMAIN s |-> IF Stale(s[i]) THEN Free ELSE s[i]]

\* A new parse always takes the first slot.
FirstFree_first(s, i) == i = 1

\* i is the first free slot of s, or the one to push.
FirstFree(s, i) ==
  /\ i \in 1..(Len(s) + 1)
  /\ i <= Len(s) => s[i] = Free
  /\ \A j \in 1..(i - 1) : s[j] # Free

\* The slab with e in slot i.
Placed(s, i, e) == IF i > Len(s) THEN Append(s, e) ELSE [s EXCEPT ![i] = e]

\* with_block_state: the state under the slot the context carries.
HasState(p) == ctx[p] \in DOMAIN slab /\ slab[ctx[p]] # Free

(***************************************************************************)
(* A parse                                                                 *)
(***************************************************************************)
\* parse_keep_tree does not clear what an earlier parse may have left.
Cleared_not(m) == kept
Cleared(m) == IF m = "keep" THEN None ELSE kept

\* A parse begins at the top, or inside a callback of the innermost parse.
\* parse_keep_tree clears what an earlier parse may have left.
Begin(p, m, n) ==
  /\ phase[p] = "new"
  /\ stack # <<>> => CalledBack(stack[Len(stack)])
  /\ stack' = Append(stack, p)
  /\ phase' = [phase EXCEPT ![p] = "preparing"]
  /\ mode' = [mode EXCEPT ![p] = m]
  /\ length' = [length EXCEPT ![p] = n]
  /\ kept' = Cleared(m)
  /\ within' = [within EXCEPT ![p] = {q \in Alive : Waiting(q)}]
  /\ peak' = IF Len(stack) + 1 > peak THEN Len(stack) + 1 ELSE peak
  /\ UNCHANGED <<given, ctx, slab, inlines, document, handed>>

\* The prepare hook claims a slot, in front of which the stale ones are freed.
Prepare(p) ==
  /\ Running(p) /\ phase[p] = "preparing" /\ length[p] > 0
  /\ phase' = [phase EXCEPT ![p] = "lines"]
  /\ \E i \in 1..(Len(slab) + 1) :
       /\ FirstFree(Reclaimed(slab), i)
       /\ slab' = Placed(Reclaimed(slab), i, Entry(p, mode[p] # "plain"))
       /\ ctx' = [ctx EXCEPT ![p] = i]
  /\ UNCHANGED <<stack, mode, length, given, inlines, kept, document, handed, within, peak>>

\* An empty source: the hooks have run, the Markdown one without claiming a
\* slot, and the engine answers lex.empty_result.
ShortCircuit(p) ==
  /\ Running(p) /\ phase[p] = "preparing" /\ length[p] = 0
  /\ phase' = [phase EXCEPT ![p] = "ended"]
  /\ UNCHANGED <<stack, mode, length, given, ctx, slab, inlines, kept, document, handed,
                 within, peak>>

\* One line too many is asked for.
MoreLines_oneMore(p) == given[p] <= length[p]

\* segment_next_line finds a line.
MoreLines(p) == given[p] < length[p]

\* The matcher cuts the next line, and one of the two line actions feeds it,
\* with the table probe armed when the line could be a delimiter row.
FeedLine(p) ==
  /\ Running(p) /\ phase[p] = "lines" /\ MoreLines(p)
  /\ given' = [given EXCEPT ![p] = @ + 1]
  /\ LET no == given[p] + 1
         f  == [of |-> p, no |-> no, armed |-> Gfm /\ no \in Piped]
     IN  slab' = IF HasState(p)
                 THEN [slab EXCEPT ![ctx[p]].lines = Append(@, f)] ELSE slab
  /\ UNCHANGED <<stack, phase, mode, length, ctx, inlines, kept, document, handed, within, peak>>

\* The finish action takes the state out of its slot: the block tree is made
\* of what it holds.  Without a state there is nothing to finish.
FinishBlocks(p) ==
  /\ Running(p) /\ phase[p] = "lines" /\ ~MoreLines(p)
  /\ IF HasState(p)
     THEN /\ phase' = [phase EXCEPT ![p] = IF slab[ctx[p]].keep THEN "parking" ELSE "projecting"]
          /\ document' = [document EXCEPT ![p] = slab[ctx[p]].lines]
          /\ slab' = [slab EXCEPT ![ctx[p]] = Free]
     ELSE /\ phase' = [phase EXCEPT ![p] = "ended"]
          /\ UNCHANGED <<document, slab>>
  /\ UNCHANGED <<stack, mode, length, given, ctx, inlines, kept, handed, within, peak>>

Finishing(p) == Running(p) /\ phase[p] \in {"parking", "projecting"}

\* parse_inlines_engine, at one block: the scanner and the tree go into a slot
\* and come back out of it.  The inline engine is private: nothing aborts it,
\* and no callback runs inside it.
BeginInline(p) ==
  /\ Finishing(p) /\ p \notin {inlines[i].lease : i \in DOMAIN inlines}
  /\ \E i \in 1..(Len(inlines) + 1) :
       FirstFree(inlines, i) /\ inlines' = Placed(inlines, i, [lease |-> p])
  /\ UNCHANGED <<stack, phase, mode, length, given, ctx, slab, kept, document, handed, within, peak>>

EndInline(p) ==
  /\ Finishing(p)
  /\ \E i \in DOMAIN inlines : inlines[i].lease = p /\ inlines' = [inlines EXCEPT ![i] = Free]
  /\ UNCHANGED <<stack, phase, mode, length, given, ctx, slab, kept, document, handed, within, peak>>

\* The rest of the finish action: a tree that was asked for is parked.
FinishTree(p) ==
  /\ Finishing(p) /\ p \notin {inlines[i].lease : i \in DOMAIN inlines}
  /\ kept' = IF phase[p] = "parking" THEN p ELSE kept
  /\ phase' = [phase EXCEPT ![p] = "ended"]
  /\ UNCHANGED <<stack, mode, length, given, ctx, slab, inlines, document, handed, within, peak>>

\* The context of the innermost parse is dropped, and its lease with it.
Drop(p) ==
  /\ Running(p)
  /\ stack' = SubSeq(stack, 1, Len(stack) - 1)
  /\ ctx' = [ctx EXCEPT ![p] = 0]
  /\ given' = [given EXCEPT ![p] = 0]
  /\ UNCHANGED <<mode, length, slab, inlines, document, within, peak>>

\* The parse returns, and its caller may take what is parked: parse_keep_tree
\* does, take_kept_tree is there for the others.
Return(p, take) ==
  /\ phase[p] = "ended" /\ (mode[p] = "keep" => take)
  /\ Drop(p)
  /\ phase' = [phase EXCEPT ![p] = "returned"]
  /\ IF take
     THEN handed' = [handed EXCEPT ![p] = kept] /\ kept' = None
     ELSE UNCHANGED <<handed, kept>>

\* A budget error, or a panic in a callback.
Abort(p) ==
  /\ CalledBack(p)
  /\ Drop(p)
  /\ phase' = [phase EXCEPT ![p] = "failed"]
  /\ UNCHANGED <<handed, kept>>

Next ==
  \E p \in Parses :
    \/ \E m \in Modes, n \in 0..MaxLines : Begin(p, m, n)
    \/ Prepare(p) \/ ShortCircuit(p)
    \/ FeedLine(p) \/ FinishBlocks(p)
    \/ BeginInline(p) \/ EndInline(p) \/ FinishTree(p)
    \/ (\E take \in BOOLEAN : Return(p, take)) \/ Abort(p)

Done == stack = <<>> /\ (\A p \in Parses : phase[p] # "new") /\ UNCHANGED vars

Spec == Init /\ [][Next \/ Done]_vars
=============================================================================
