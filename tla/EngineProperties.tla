-------------------------- MODULE EngineProperties --------------------------
(***************************************************************************)
(* What the state carriage of the engine must hold to, and the abstract    *)
(* specification it implements.                                            *)
(***************************************************************************)
EXTENDS EngineSlots

Entries == [lease : Parses, keep : BOOLEAN, lines : Seq(Fed)]
Phases  == {"new", "preparing", "lines", "parking", "projecting", "ended", "returned", "failed"}

\* The stack, the slab and the fields of each parse keep their types.
EngineTypeOK ==
  /\ stack \in Seq(Parses)
  /\ phase \in [Parses -> Phases]
  /\ mode \in [Parses -> Modes]
  /\ length \in [Parses -> 0..MaxLines]
  /\ given \in [Parses -> 0..MaxLines]
  /\ ctx \in [Parses -> Nat]
  /\ slab \in Seq(Entries \cup {Free})
  /\ inlines \in Seq([lease : Parses \cup {None}])
  /\ kept \in Parses \cup {None}
  /\ document \in [Parses -> Seq(Fed)]
  /\ handed \in [Parses -> Parses \cup {None, NotTaken}]
  /\ within \in [Parses -> SUBSET Parses]
  /\ peak \in Nat

\* The first n lines of p's source, in order.
AreLinesOf(p, seq, n) ==
  /\ Len(seq) = n
  /\ \A i \in 1..n : seq[i].of = p /\ seq[i].no = i

\* The slot a running parse carries holds its own state, with the lines it has
\* been given, whatever parses ended or were aborted around it
\* (block_slot_insert frees only what no context holds a lease on).
OwnSlot ==
  \A p \in Parses : phase[p] = "lines" =>
    /\ p \in Alive
    /\ ctx[p] \in DOMAIN slab
    /\ slab[ctx[p]] # Free
    /\ slab[ctx[p]].lease = p
    /\ AreLinesOf(p, slab[ctx[p]].lines, given[p])

\* The document of a parse is made of all the lines of its own source and of no
\* others (make_md_finish_action).
OwnDocument ==
  \A p \in Parses :
    phase[p] \in {"parking", "projecting"} \/ (phase[p] \in {"ended", "returned"} /\ length[p] > 0)
      => AreLinesOf(p, document[p], length[p])

\* The slab never grows past the parses that were live at once on the thread,
\* however many were aborted (the module doc of engine_block.rs).
SlabBounded == Len(slab) <= peak

\* The tree a parse of a source that is not empty parks is its own.
OwnTree(p) == IF length[p] > 0 THEN p ELSE None

\* The parse q has had its hands on KEPT_TREE: parse_keep_tree cleared it, a
\* tree was parked there, or what was parked was taken.
Touched(q) == mode[q] = "keep" \/ (mode[q] = "meta" /\ document[q] # <<>>) \/ handed[q] # NotTaken

\* The tree is p's own, or that of a parse that began when p had nothing left to
\* park, which may also have taken p's away.
Accounted(p, tree) ==
  \/ tree = OwnTree(p)
  \/ \E q \in Parses : p \in within[q] /\ Touched(q) /\ tree \in {q, None}

\* p clears what was parked, or parks its own.
Asked(p) == mode[p] = "keep" \/ (mode[p] = "meta" /\ length[p] > 0)

\* What parse_keep_tree hands back is the tree of its own parse, or none for an
\* empty source; so it is with take_kept_tree after a parse that asked for its
\* tree.  The one exception are parses of other plugins' callbacks between the
\* last this one does with KEPT_TREE and the taking.  A tree that an earlier
\* parse left is never mistaken for it.
KeptIsOwn ==
  \A p \in Parses : phase[p] = "returned" /\ handed[p] # NotTaken /\ Asked(p) =>
    Accounted(p, handed[p])

(***************************************************************************)
(* The abstract specification                                              *)
(***************************************************************************)
\* An empty source never gets a state.
Status(p) ==
  CASE phase[p] = "lines" -> "open"
    [] phase[p] = "failed" -> "failed"
    [] phase[p] \in {"parking", "projecting", "ended", "returned"} /\ length[p] > 0 -> "closed"
    [] OTHER -> "new"

OwnState == INSTANCE ParseStates WITH
  status <- [p \in Parses |-> Status(p)],
  lines  <- [p \in Parses |-> IF phase[p] = "lines" /\ HasState(p)
                              THEN slab[ctx[p]].lines ELSE <<>>]

\* The slab, the leases and the reuse of slots (block_slot_insert,
\* block_slot_take) give every parse a state of its own.
EachItsOwn == OwnState!PSpec
=============================================================================
