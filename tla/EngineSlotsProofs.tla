-------------------------- MODULE EngineSlotsProofs --------------------------
(***************************************************************************)
(* The state carriage of the engine, for any set of parses and any bound   *)
(* on their lines: every running parse keeps the slot it claimed, its      *)
(* document is made of its own lines, and the slab implements private      *)
(* states.  The inductive invariant is IInv; KInv adds what the parked     *)
(* tree needs.                                                             *)
(***************************************************************************)
EXTENDS EngineProperties, TLAPS, FiniteSetTheorems

USE EngineSlotsAssumption

\* What was asked for is what the slot was claimed with.
KeepAsAsked ==
  \A p \in Parses :
    /\ phase[p] = "lines" => slab[ctx[p]].keep = (mode[p] # "plain")
    /\ phase[p] = "parking" => mode[p] # "plain"
    /\ phase[p] = "projecting" => mode[p] = "plain"
    /\ phase[p] \in {"lines", "parking", "projecting"} => length[p] > 0

\* Nothing is known of a parse before it begins, and no line is given before its
\* slot is claimed.
Fresh ==
  \A p \in Parses : phase[p] \in {"new", "preparing"} =>
    given[p] = 0 /\ (phase[p] = "new" => within[p] = {})

GivenInSource == \A p \in Parses : given[p] <= length[p]

IInv == EngineTypeOK /\ OwnSlot /\ OwnDocument /\ KeepAsAsked /\ Fresh /\ GivenInSource

Slot == Entries \cup {Free}

LEMMA FreeFacts ==
  ASSUME NEW p \in Parses, NEW keep \in BOOLEAN
  PROVE  /\ Entry(p, keep) \in Entries
         /\ Entry(p, keep) # Free
         /\ Entry(p, keep).lease = p /\ Entry(p, keep).keep = keep
         /\ Entry(p, keep).lines = <<>>
         /\ \A e \in Entries : e # Free /\ e.lease \in Parses
         /\ Free.lease = None
  BY DEF Entry, Entries, Free

\* Reclaiming frees the slots of no parse whose context lives.
LEMMA ReclaimedFacts ==
  ASSUME NEW s \in Seq(Slot)
  PROVE  /\ Reclaimed(s) \in Seq(Slot)
         /\ Len(Reclaimed(s)) = Len(s)
         /\ \A i \in 1..Len(s) : Reclaimed(s)[i] = IF Stale(s[i]) THEN Free ELSE s[i]
<1>1. DOMAIN s = 1..Len(s) /\ Len(s) \in Nat
  OBVIOUS
<1>2. Reclaimed(s) = [i \in 1..Len(s) |-> IF Stale(s[i]) THEN Free ELSE s[i]]
  BY <1>1 DEF Reclaimed
<1>3. \A i \in 1..Len(s) : s[i] \in Slot
  OBVIOUS
<1>4. Free \in Slot
  BY DEF Slot
<1>5. \A i \in 1..Len(s) : (IF Stale(s[i]) THEN Free ELSE s[i]) \in Slot
  BY <1>3, <1>4
<1>6. Reclaimed(s) \in [1..Len(s) -> Slot]
  BY <1>2, <1>5
<1>. QED
  BY <1>1, <1>2, <1>6

\* Placing an entry leaves every other slot as it is.
LEMMA PlacedFacts ==
  ASSUME NEW S, NEW s \in Seq(S), NEW e \in S, NEW i \in 1..(Len(s) + 1)
  PROVE  /\ Placed(s, i, e) \in Seq(S)
         /\ i \in DOMAIN Placed(s, i, e)
         /\ Placed(s, i, e)[i] = e
         /\ \A j \in DOMAIN s : j # i => /\ j \in DOMAIN Placed(s, i, e)
                                         /\ Placed(s, i, e)[j] = s[j]
         /\ Len(Placed(s, i, e)) = IF i > Len(s) THEN Len(s) + 1 ELSE Len(s)
  BY DEF Placed

LEMMA Initial == Init => IInv
  BY DEF Init, IInv, EngineTypeOK, OwnSlot, OwnDocument, KeepAsAsked, Fresh, GivenInSource, Phases,
         Modes, AreLinesOf

LEMMA TypeFacts ==
  ASSUME EngineTypeOK
  PROVE  /\ stack \in Seq(Parses) /\ Len(stack) \in Nat
         /\ slab \in Seq(Slot) /\ Len(slab) \in Nat /\ DOMAIN slab = 1..Len(slab)
         /\ \A i \in DOMAIN slab : slab[i] \in Slot /\ (slab[i] # Free => slab[i] \in Entries)
         /\ \A i \in DOMAIN stack : stack[i] \in Parses
         /\ Alive \subseteq Parses
  BY DEF EngineTypeOK, Slot, Alive

\* A context that is pushed leaves the others alive.
LEMMA PushedAlive ==
  ASSUME EngineTypeOK, NEW p \in Parses, stack' = Append(stack, p)
  PROVE  /\ stack' \in Seq(Parses)
         /\ Alive' = Alive \cup {p}
         /\ Running(p)'
         /\ Len(stack') = Len(stack) + 1
<1>1. stack \in Seq(Parses) /\ Len(stack) \in Nat /\ DOMAIN stack = 1..Len(stack)
  BY DEF EngineTypeOK
<1>2. Len(stack') = Len(stack) + 1 /\ DOMAIN stack' = 1..(Len(stack) + 1)
  BY <1>1
<1>3. stack' \in Seq(Parses) /\ stack'[Len(stack) + 1] = p
      /\ \A i \in 1..Len(stack) : stack'[i] = stack[i]
  BY <1>1
<1>4. Alive' = {stack'[i] : i \in 1..(Len(stack) + 1)}
  BY <1>2 DEF Alive
<1>5. Alive' = Alive \cup {p}
  BY <1>1, <1>3, <1>4 DEF Alive
<1>. QED
  BY <1>1, <1>2, <1>3, <1>5 DEF Running

\* A context that is dropped was the innermost: the others stay alive.
LEMMA DroppedAlive ==
  ASSUME EngineTypeOK, NEW p \in Parses, Running(p),
         stack' = SubSeq(stack, 1, Len(stack) - 1)
  PROVE  /\ stack' \in Seq(Parses)
         /\ \A q \in Alive : q # p => q \in Alive'
<1>1. /\ stack \in Seq(Parses) /\ Len(stack) \in Nat /\ DOMAIN stack = 1..Len(stack)
      /\ stack # <<>> /\ stack[Len(stack)] = p
  BY DEF EngineTypeOK, Running
<1>2. Len(stack) >= 1
  BY <1>1
<1>3. /\ stack' \in Seq(Parses) /\ DOMAIN stack' = 1..(Len(stack) - 1)
      /\ \A i \in 1..(Len(stack) - 1) : stack'[i] = stack[i]
  BY <1>1, <1>2
<1>4. ASSUME NEW q \in Alive, q # p
      PROVE  q \in Alive'
  <2>1. PICK i \in DOMAIN stack : stack[i] = q
    BY DEF Alive
  <2>2. i \in 1..(Len(stack) - 1)
    BY <1>1, <1>2, <1>4, <2>1
  <2>. QED
    BY <1>3, <2>1, <2>2 DEF Alive
<1>. QED
  BY <1>3, <1>4

LEMMA BeginKeeps ==
  ASSUME IInv, NEW p \in Parses, NEW m \in Modes, NEW n \in 0..MaxLines, Begin(p, m, n)
  PROVE  /\ IInv'
         /\ phase[p] = "new" /\ phase'[p] = "preparing"
         /\ \A q \in Parses : q # p => /\ phase'[q] = phase[q] /\ mode'[q] = mode[q]
                                       /\ length'[q] = length[q] /\ within'[q] = within[q]
         /\ UNCHANGED <<ctx, slab, document, handed>>
<1>1. EngineTypeOK /\ phase[p] = "new" /\ given[p] = 0
  BY DEF IInv, Begin, Fresh
<1>2. /\ phase'[p] = "preparing" /\ mode'[p] = m /\ length'[p] = n
      /\ \A q \in Parses : q # p => /\ phase'[q] = phase[q] /\ mode'[q] = mode[q]
                                    /\ length'[q] = length[q] /\ within'[q] = within[q]
  BY <1>1 DEF EngineTypeOK, Begin
<1>3. UNCHANGED <<given, ctx, slab, inlines, document, handed>>
  BY DEF Begin
<1>4. stack' \in Seq(Parses) /\ Alive' = Alive \cup {p}
  BY <1>1, PushedAlive DEF Begin
<1>5. EngineTypeOK'
  <2>1. peak' \in Nat
    BY <1>1, TypeFacts DEF Begin, EngineTypeOK
  <2>2. /\ phase' \in [Parses -> Phases] /\ mode' \in [Parses -> Modes]
        /\ length' \in [Parses -> 0..MaxLines] /\ kept' \in Parses \cup {None}
    BY <1>1 DEF Begin, EngineTypeOK, Phases, Cleared
  <2>3. within' \in [Parses -> SUBSET Parses]
    <3>1. {q \in Alive : Waiting(q)} \in SUBSET Parses
      BY <1>1, TypeFacts
    <3>. QED
      BY <1>1, <3>1 DEF Begin, EngineTypeOK
  <2>. QED
    BY <1>1, <1>3, <1>4, <2>1, <2>2, <2>3 DEF EngineTypeOK
<1>6. OwnSlot'
  BY <1>2, <1>3, <1>4 DEF IInv, OwnSlot, AreLinesOf
<1>7. OwnDocument'
  BY <1>2, <1>3 DEF IInv, OwnDocument, AreLinesOf
<1>8. KeepAsAsked'
  BY <1>2, <1>3 DEF IInv, KeepAsAsked
<1>9. Fresh'
  BY <1>1, <1>2, <1>3 DEF IInv, Fresh
<1>10. GivenInSource'
  BY <1>1, <1>2, <1>3 DEF IInv, GivenInSource
<1>. QED
  BY <1>1, <1>2, <1>3, <1>5, <1>6, <1>7, <1>8, <1>9, <1>10 DEF IInv

LEMMA PrepareKeeps ==
  ASSUME IInv, NEW p \in Parses, Prepare(p)
  PROVE  /\ IInv'
         /\ phase[p] = "preparing" /\ phase' = [phase EXCEPT ![p] = "lines"] /\ length[p] > 0
         /\ slab'[ctx'[p]].lines = <<>>
         /\ \A q \in Parses : q # p /\ phase[q] = "lines" => slab'[ctx'[q]] = slab[ctx[q]]
<1>. DEFINE keep == mode[p] # "plain"
            freed == Reclaimed(slab)
<1>1. /\ EngineTypeOK /\ Running(p) /\ phase[p] = "preparing" /\ length[p] > 0 /\ given[p] = 0
      /\ phase' = [phase EXCEPT ![p] = "lines"]
  BY DEF IInv, Prepare, Fresh
<1>2. UNCHANGED <<stack, mode, length, given, inlines, kept, document, handed, within, peak>>
  BY DEF Prepare
<1>3. PICK i \in 1..(Len(slab) + 1) : /\ FirstFree(freed, i)
                                      /\ slab' = Placed(freed, i, Entry(p, keep))
                                      /\ ctx' = [ctx EXCEPT ![p] = i]
  BY DEF Prepare
<1>4. \A q \in Parses : q # p => phase'[q] = phase[q]
  BY <1>1 DEF EngineTypeOK
<1>5. phase'[p] = "lines" /\ phase' \in [Parses -> Phases]
  BY <1>1 DEF EngineTypeOK, Phases
<1>6. p \in Alive /\ Alive' = Alive
  <2>1. stack # <<>> /\ stack[Len(stack)] = p /\ stack \in Seq(Parses)
    BY <1>1 DEF Running, EngineTypeOK
  <2>2. Len(stack) \in DOMAIN stack
    BY <2>1
  <2>. QED
    BY <1>2, <2>1, <2>2 DEF Alive
<1>7. freed \in Seq(Slot) /\ Len(freed) = Len(slab)
      /\ \A j \in 1..Len(slab) : freed[j] = IF Stale(slab[j]) THEN Free ELSE slab[j]
  BY <1>1, TypeFacts, ReclaimedFacts
<1>8. Entry(p, keep) \in Entries /\ Entry(p, keep) # Free /\ Entry(p, keep).lease = p
      /\ Entry(p, keep).keep = keep /\ Entry(p, keep).lines = <<>>
  BY FreeFacts
<1>9. /\ slab' \in Seq(Slot) /\ i \in DOMAIN slab' /\ slab'[i] = Entry(p, keep)
      /\ \A j \in DOMAIN freed : j # i => j \in DOMAIN slab' /\ slab'[j] = freed[j]
  <2>1. Entry(p, keep) \in Slot /\ i \in 1..(Len(freed) + 1)
    BY <1>7, <1>8 DEF Slot
  <2>. QED
    BY <1>3, <1>7, <2>1, PlacedFacts
<1>10. ctx'[p] = i /\ ctx' \in [Parses -> Nat] /\ \A q \in Parses : q # p => ctx'[q] = ctx[q]
  BY <1>1, <1>3, TypeFacts DEF EngineTypeOK
<1>11. ASSUME NEW q \in Parses, q # p, phase[q] = "lines"
       PROVE  ctx'[q] \in DOMAIN slab' /\ slab'[ctx'[q]] = slab[ctx[q]]
  <2>1. /\ q \in Alive /\ ctx[q] \in 1..Len(slab) /\ slab[ctx[q]] # Free
        /\ slab[ctx[q]].lease = q
    BY <1>1, <1>11, TypeFacts DEF IInv, OwnSlot
  <2>2. freed[ctx[q]] = slab[ctx[q]] /\ ctx[q] \in 1..Len(freed)
    BY <1>7, <2>1 DEF Stale
  <2>3. ctx[q] # i
    BY <1>3, <2>1, <2>2 DEF FirstFree
  <2>4. ctx[q] \in DOMAIN freed
    BY <1>7, <2>2
  <2>. QED
    BY <1>9, <1>10, <1>11, <2>2, <2>3, <2>4
<1>12. EngineTypeOK'
  BY <1>1, <1>2, <1>5, <1>9, <1>10 DEF EngineTypeOK, Slot
<1>13. OwnSlot'
  <2>1. AreLinesOf(p, <<>>, 0)
    BY DEF AreLinesOf
  <2>2. ASSUME NEW q \in Parses, phase'[q] = "lines"
        PROVE  /\ q \in Alive' /\ ctx'[q] \in DOMAIN slab' /\ slab'[ctx'[q]] # Free
               /\ slab'[ctx'[q]].lease = q /\ AreLinesOf(q, slab'[ctx'[q]].lines, given'[q])
    <3>1. CASE q = p
      BY <1>1, <1>2, <1>6, <1>8, <1>9, <1>10, <2>1, <3>1
    <3>2. CASE q # p
      BY <1>2, <1>4, <1>6, <1>11, <2>2, <3>2 DEF IInv, OwnSlot
    <3>. QED
      BY <3>1, <3>2
  <2>. QED
    BY <2>2 DEF OwnSlot, AreLinesOf
<1>14. OwnDocument'
  BY <1>2, <1>4, <1>5 DEF IInv, OwnDocument, AreLinesOf
<1>15. KeepAsAsked'
  <2>1. slab'[ctx'[p]].keep = (mode[p] # "plain")
    BY <1>8, <1>9, <1>10
  <2>. QED
    BY <1>1, <1>2, <1>4, <1>5, <1>11, <2>1 DEF IInv, KeepAsAsked
<1>16. Fresh' /\ GivenInSource'
  BY <1>2, <1>4, <1>5 DEF IInv, Fresh, GivenInSource
<1>17. slab'[ctx'[p]].lines = <<>>
  BY <1>8, <1>9, <1>10
<1>. QED
  BY <1>1, <1>11, <1>12, <1>13, <1>14, <1>15, <1>16, <1>17 DEF IInv

LEMMA ShortCircuitKeeps ==
  ASSUME IInv, NEW p \in Parses, ShortCircuit(p)
  PROVE  IInv'
<1>1. /\ EngineTypeOK /\ length[p] = 0 /\ phase[p] = "preparing"
      /\ phase' = [phase EXCEPT ![p] = "ended"]
      /\ UNCHANGED <<stack, mode, length, given, ctx, slab, inlines, kept, document, handed,
                     within, peak>>
  BY DEF IInv, ShortCircuit
<1>2. phase'[p] = "ended" /\ \A q \in Parses : q # p => phase'[q] = phase[q]
  BY <1>1 DEF EngineTypeOK
<1>3. EngineTypeOK'
  BY <1>1 DEF EngineTypeOK, Phases
<1>4. OwnSlot' /\ OwnDocument'
  BY <1>1, <1>2 DEF IInv, OwnSlot, OwnDocument, AreLinesOf, Alive
<1>5. KeepAsAsked' /\ Fresh' /\ GivenInSource'
  BY <1>1, <1>2 DEF IInv, KeepAsAsked, Fresh, GivenInSource
<1>. QED
  BY <1>3, <1>4, <1>5 DEF IInv

LEMMA FeedLineKeeps ==
  ASSUME IInv, NEW p \in Parses, FeedLine(p)
  PROVE  /\ IInv' /\ HasState(p)
         /\ \E f \in Fed : slab' = [slab EXCEPT ![ctx[p]].lines = Append(slab[ctx[p]].lines, f)]
<1>. DEFINE no == given[p] + 1
            f  == [of |-> p, no |-> no, armed |-> Gfm /\ no \in Piped]
            e  == slab[ctx[p]]
<1>1. EngineTypeOK /\ OwnSlot /\ Running(p) /\ phase[p] = "lines" /\ given[p] < length[p]
  BY DEF IInv, FeedLine, MoreLines
<1>2. UNCHANGED <<stack, phase, mode, length, ctx, inlines, kept, document, handed, within,
                 peak>>
  BY DEF FeedLine
<1>3. given' = [given EXCEPT ![p] = no] /\ no \in 1..MaxLines /\ no <= length[p]
      /\ given[p] \in Nat
  <2>1. given[p] \in 0..MaxLines /\ length[p] \in 0..MaxLines
    BY <1>1 DEF EngineTypeOK
  <2>. QED
    BY <1>1, <2>1 DEF FeedLine, EngineSlotsAssumption
<1>4. f \in Fed
  BY <1>3 DEF Fed, EngineSlotsAssumption
<1>5. /\ ctx[p] \in DOMAIN slab /\ e # Free /\ e.lease = p /\ e \in Entries
      /\ AreLinesOf(p, e.lines, given[p]) /\ HasState(p)
  BY <1>1, TypeFacts DEF OwnSlot, HasState
<1>6. e.lines \in Seq(Fed)
  BY <1>5 DEF Entries
<1>7. slab' = [slab EXCEPT ![ctx[p]].lines = Append(e.lines, f)]
  BY <1>5 DEF FeedLine
<1>8. DEFINE g == [lease |-> p, keep |-> e.keep, lines |-> Append(e.lines, f)]
<1>9. g \in Entries /\ g # Free
  BY <1>4, <1>5, <1>6 DEF Entries, Free
<1>10. slab' = [slab EXCEPT ![ctx[p]] = g]
  <2>1. e = [lease |-> p, keep |-> e.keep, lines |-> e.lines]
    BY <1>5 DEF Entries
  <2>2. [e EXCEPT !.lines = Append(e.lines, f)] = g
    BY <2>1, SMTT(20)
  <2>. HIDE DEF g
  <2>. QED
    BY <1>7, <2>2
<1>11. /\ slab' \in Seq(Slot) /\ DOMAIN slab' = DOMAIN slab /\ slab'[ctx[p]] = g
       /\ \A j \in DOMAIN slab : j # ctx[p] => slab'[j] = slab[j]
  <2>1. slab \in Seq(Slot) /\ g \in Slot /\ DOMAIN slab = 1..Len(slab)
    BY <1>1, <1>9, TypeFacts DEF Slot
  <2>. HIDE DEF g
  <2>. QED
    BY <1>5, <1>10, <2>1
<1>12. AreLinesOf(p, Append(e.lines, f), no)
  BY <1>3, <1>4, <1>5, <1>6 DEF AreLinesOf
<1>13. EngineTypeOK'
  <2>1. given' \in [Parses -> 0..MaxLines] /\ slab' \in Seq(Slot)
    <3>1. given \in [Parses -> 0..MaxLines] /\ MaxLines \in Nat
      BY <1>1, EngineSlotsAssumption DEF EngineTypeOK
    <3>. QED
      BY <1>3, <1>11, <3>1
  <2>. HIDE DEF no
  <2>. QED
    BY <1>1, <1>2, <2>1 DEF EngineTypeOK, Slot
<1>14. given'[p] = no /\ \A q \in Parses : q # p => given'[q] = given[q]
  BY <1>1, <1>3 DEF EngineTypeOK
<1>15. ASSUME NEW q \in Parses, q # p, phase[q] = "lines"
       PROVE  ctx[q] \in DOMAIN slab' /\ slab'[ctx[q]] = slab[ctx[q]]
  BY <1>1, <1>5, <1>11, <1>15 DEF OwnSlot
<1>16. OwnSlot'
  <2>1. ASSUME NEW q \in Parses, phase[q] = "lines"
        PROVE  /\ q \in Alive /\ ctx[q] \in DOMAIN slab' /\ slab'[ctx[q]] # Free
               /\ slab'[ctx[q]].lease = q /\ AreLinesOf(q, slab'[ctx[q]].lines, given'[q])
    <3>1. CASE q = p
      <4>1. slab'[ctx[p]] = g /\ ctx[p] \in DOMAIN slab' /\ given'[p] = no /\ p \in Alive
        BY <1>1, <1>5, <1>11, <1>14 DEF OwnSlot
      <4>2. g.lease = p /\ g.lines = Append(e.lines, f)
        OBVIOUS
      <4>. HIDE DEF g, no, f
      <4>. QED
        BY <1>9, <1>12, <3>1, <4>1, <4>2
    <3>2. CASE q # p
      BY <1>1, <1>14, <1>15, <2>1, <3>2 DEF OwnSlot
    <3>. QED
      BY <3>1, <3>2
  <2>2. Alive' = Alive
    BY <1>2 DEF Alive
  <2>. QED
    BY <1>2, <2>1, <2>2 DEF OwnSlot, AreLinesOf
<1>17. OwnDocument'
  BY <1>2 DEF IInv, OwnDocument, AreLinesOf
<1>18. KeepAsAsked'
  <2>1. slab'[ctx[p]].keep = slab[ctx[p]].keep
    BY <1>11
  <2>. QED
    BY <1>2, <1>15, <2>1 DEF IInv, KeepAsAsked
<1>19. Fresh' /\ GivenInSource'
  BY <1>1, <1>2, <1>3, <1>14 DEF IInv, Fresh, GivenInSource
<1>. QED
  BY <1>4, <1>5, <1>7, <1>13, <1>16, <1>17, <1>18, <1>19 DEF IInv

LEMMA FinishBlocksKeeps ==
  ASSUME IInv, NEW p \in Parses, FinishBlocks(p)
  PROVE  /\ IInv' /\ HasState(p)
         /\ phase' = [phase EXCEPT ![p] = IF slab[ctx[p]].keep THEN "parking" ELSE "projecting"]
         /\ document' = [document EXCEPT ![p] = slab[ctx[p]].lines]
         /\ slab' = [slab EXCEPT ![ctx[p]] = Free]
<1>. DEFINE e == slab[ctx[p]]
<1>1. EngineTypeOK /\ OwnSlot /\ Running(p) /\ phase[p] = "lines" /\ ~(given[p] < length[p])
  BY DEF IInv, FinishBlocks, MoreLines
<1>2. UNCHANGED <<stack, mode, length, given, ctx, inlines, kept, handed, within, peak>>
  BY DEF FinishBlocks
<1>3. /\ ctx[p] \in DOMAIN slab /\ e # Free /\ e.lease = p /\ e \in Entries
      /\ AreLinesOf(p, e.lines, given[p]) /\ HasState(p)
  BY <1>1, TypeFacts DEF OwnSlot, HasState
<1>4. /\ phase' = [phase EXCEPT ![p] = IF e.keep THEN "parking" ELSE "projecting"]
      /\ document' = [document EXCEPT ![p] = e.lines]
      /\ slab' = [slab EXCEPT ![ctx[p]] = Free]
  BY <1>3 DEF FinishBlocks
<1>5. e.lines \in Seq(Fed) /\ e.keep \in BOOLEAN
  BY <1>3 DEF Entries
<1>6. /\ slab' \in Seq(Slot) /\ DOMAIN slab' = DOMAIN slab
      /\ \A j \in DOMAIN slab : j # ctx[p] => slab'[j] = slab[j]
  <2>1. slab \in Seq(Slot) /\ Free \in Slot /\ DOMAIN slab = 1..Len(slab)
    BY <1>1, TypeFacts DEF Slot
  <2>. QED
    BY <1>3, <1>4, <2>1
<1>7. /\ phase' \in [Parses -> Phases] /\ document' \in [Parses -> Seq(Fed)]
      /\ document'[p] = e.lines /\ phase'[p] = IF e.keep THEN "parking" ELSE "projecting"
      /\ \A q \in Parses : q # p => phase'[q] = phase[q] /\ document'[q] = document[q]
  BY <1>1, <1>4, <1>5 DEF EngineTypeOK, Phases
<1>8. EngineTypeOK'
  BY <1>1, <1>2, <1>6, <1>7 DEF EngineTypeOK, Slot
<1>9. ASSUME NEW q \in Parses, q # p, phase[q] = "lines"
      PROVE  ctx[q] \in DOMAIN slab' /\ slab'[ctx[q]] = slab[ctx[q]]
  BY <1>1, <1>3, <1>6, <1>9 DEF OwnSlot
<1>10. phase'[p] \notin {"lines", "new", "preparing"}
  BY <1>7
<1>11. OwnSlot'
  <2>1. Alive' = Alive
    BY <1>2 DEF Alive
  <2>2. ASSUME NEW q \in Parses, phase'[q] = "lines"
        PROVE  /\ q \in Alive /\ ctx[q] \in DOMAIN slab' /\ slab'[ctx[q]] # Free
               /\ slab'[ctx[q]].lease = q /\ AreLinesOf(q, slab'[ctx[q]].lines, given[q])
    BY <1>1, <1>7, <1>9, <1>10, <2>2 DEF OwnSlot
  <2>. QED
    BY <1>2, <2>1, <2>2 DEF OwnSlot, AreLinesOf
<1>12. given[p] = length[p] \/ given[p] > length[p]
  BY <1>1 DEF EngineTypeOK
<1>13. OwnDocument'
  <2>1. AreLinesOf(p, document'[p], length[p])
    <3>1. given[p] <= length[p] /\ given[p] \in Int /\ length[p] \in Int
      BY <1>1 DEF IInv, GivenInSource, EngineTypeOK
    <3>2. given[p] = length[p]
      BY <1>12, <3>1
    <3>. QED
      BY <1>3, <1>7, <3>2
  <2>2. ASSUME NEW q \in Parses, q # p
        PROVE  phase'[q] = phase[q] /\ document'[q] = document[q]
    BY <1>7, <2>2
  <2>3. OwnDocument
    BY DEF IInv
  <2>. QED
    BY <1>2, <2>1, <2>2, <2>3 DEF OwnDocument, AreLinesOf
<1>14. KeepAsAsked'
  <2>1. KeepAsAsked /\ e.keep = (mode[p] # "plain") /\ length[p] > 0
    BY <1>1 DEF IInv, KeepAsAsked
  <2>2. /\ phase'[p] = "parking" => mode[p] # "plain"
        /\ phase'[p] = "projecting" => mode[p] = "plain"
    BY <1>7, <2>1
  <2>3. \A q \in Parses : q # p => phase'[q] = phase[q]
    BY <1>7
  <2>4. ASSUME NEW q \in Parses
        PROVE  /\ phase'[q] = "lines" => slab'[ctx[q]].keep = (mode[q] # "plain")
               /\ phase'[q] = "parking" => mode[q] # "plain"
               /\ phase'[q] = "projecting" => mode[q] = "plain"
               /\ phase'[q] \in {"lines", "parking", "projecting"} => length[q] > 0
    BY <1>9, <1>10, <2>1, <2>2, <2>3 DEF KeepAsAsked
  <2>. QED
    BY <1>2, <2>4 DEF KeepAsAsked
<1>15. Fresh' /\ GivenInSource'
  BY <1>2, <1>7, <1>10 DEF IInv, Fresh, GivenInSource
<1>. QED
  BY <1>3, <1>4, <1>8, <1>11, <1>13, <1>14, <1>15 DEF IInv

\* The inline phase moves no part of the block phase's state.
LEMMA InlineKeeps ==
  ASSUME IInv, NEW p \in Parses, BeginInline(p) \/ EndInline(p)
  PROVE  IInv' /\ UNCHANGED <<stack, phase, mode, length, given, ctx, slab, kept, document,
                              handed, within>>
<1>. DEFINE Leases == [lease : Parses \cup {None}]
<1>1. UNCHANGED <<stack, phase, mode, length, given, ctx, slab, kept, document, handed,
                 within, peak>>
  BY DEF BeginInline, EndInline
<1>2. EngineTypeOK /\ inlines \in Seq(Leases) /\ Free \in Leases /\ [lease |-> p] \in Leases
  BY DEF IInv, EngineTypeOK, Free
<1>3. inlines' \in Seq(Leases)
  <2>1. CASE BeginInline(p)
    <3>1. PICK i \in 1..(Len(inlines) + 1) : inlines' = Placed(inlines, i, [lease |-> p])
      BY <2>1 DEF BeginInline
    <3>. HIDE DEF Leases
    <3>. QED
      BY <1>2, <3>1, PlacedFacts
  <2>2. CASE EndInline(p)
    <3>1. PICK i \in DOMAIN inlines : inlines' = [inlines EXCEPT ![i] = Free]
      BY <2>2 DEF EndInline
    <3>. HIDE DEF Leases
    <3>. QED
      BY <1>2, <3>1
  <2>. QED
    BY <2>1, <2>2
<1>4. EngineTypeOK'
  BY <1>1, <1>2, <1>3 DEF EngineTypeOK
<1>5. OwnSlot' /\ OwnDocument'
  BY <1>1 DEF IInv, OwnSlot, OwnDocument, AreLinesOf, Alive
<1>6. KeepAsAsked' /\ Fresh' /\ GivenInSource'
  BY <1>1 DEF IInv, KeepAsAsked, Fresh, GivenInSource
<1>. QED
  BY <1>1, <1>4, <1>5, <1>6 DEF IInv

LEMMA FinishTreeKeeps ==
  ASSUME IInv, NEW p \in Parses, FinishTree(p)
  PROVE  IInv'
<1>1. EngineTypeOK /\ Running(p) /\ phase[p] \in {"parking", "projecting"}
  BY DEF IInv, FinishTree, Finishing
<1>2. /\ UNCHANGED <<stack, mode, length, given, ctx, slab, inlines, document, handed, within,
                     peak>>
      /\ kept' = IF phase[p] = "parking" THEN p ELSE kept
      /\ phase' = [phase EXCEPT ![p] = "ended"]
  BY DEF FinishTree
<1>3. phase'[p] = "ended" /\ \A q \in Parses : q # p => phase'[q] = phase[q]
  BY <1>1, <1>2 DEF EngineTypeOK
<1>4. EngineTypeOK'
  BY <1>1, <1>2 DEF EngineTypeOK, Phases
<1>5. OwnSlot' /\ OwnDocument'
  <2>1. OwnSlot /\ OwnDocument
    BY DEF IInv
  <2>2. OwnSlot'
    BY <1>2, <1>3, <2>1 DEF OwnSlot, AreLinesOf, Alive
  <2>3. OwnDocument'
    BY <1>1, <1>2, <1>3, <2>1 DEF OwnDocument, AreLinesOf
  <2>. QED
    BY <2>2, <2>3
<1>6. KeepAsAsked' /\ Fresh' /\ GivenInSource'
  BY <1>1, <1>2, <1>3 DEF IInv, KeepAsAsked, Fresh, GivenInSource
<1>. QED
  BY <1>4, <1>5, <1>6 DEF IInv

\* What a context that is dropped, however its parse ended, disturbs.
LEMMA DropKeeps ==
  ASSUME IInv, NEW p \in Parses, NEW to \in {"returned", "failed"},
         Drop(p), phase' = [phase EXCEPT ![p] = to], to = "returned" => phase[p] = "ended",
         UNCHANGED <<handed, kept>> \/ (kept' = None /\ handed' = [handed EXCEPT ![p] = kept])
  PROVE  IInv'
<1>1. /\ EngineTypeOK /\ Running(p) /\ stack' = SubSeq(stack, 1, Len(stack) - 1)
      /\ ctx' = [ctx EXCEPT ![p] = 0] /\ given' = [given EXCEPT ![p] = 0]
      /\ UNCHANGED <<mode, length, slab, inlines, document, within, peak>>
  BY DEF IInv, Drop
<1>2. /\ phase'[p] = to /\ given'[p] = 0
      /\ \A q \in Parses : q # p =>
           phase'[q] = phase[q] /\ ctx'[q] = ctx[q] /\ given'[q] = given[q]
  BY <1>1 DEF EngineTypeOK
<1>3. stack' \in Seq(Parses) /\ \A q \in Alive : q # p => q \in Alive'
  BY <1>1, DroppedAlive
<1>4. EngineTypeOK'
  <2>1. phase' \in [Parses -> Phases] /\ ctx' \in [Parses -> Nat]
    BY <1>1 DEF EngineTypeOK, Phases
  <2>2. kept' \in Parses \cup {None} /\ handed' \in [Parses -> Parses \cup {None, NotTaken}]
    BY <1>1 DEF EngineTypeOK
  <2>3. given' \in [Parses -> 0..MaxLines]
    BY <1>1 DEF EngineTypeOK, EngineSlotsAssumption
  <2>. QED
    BY <1>1, <1>3, <2>1, <2>2, <2>3 DEF EngineTypeOK
<1>5. OwnSlot'
  <2>1. OwnSlot
    BY DEF IInv
  <2>2. ASSUME NEW q \in Parses, phase'[q] = "lines"
        PROVE  q # p /\ phase[q] = "lines" /\ q \in Alive'
    BY <1>2, <1>3, <2>1, <2>2 DEF OwnSlot
  <2>. QED
    BY <1>1, <1>2, <2>1, <2>2 DEF OwnSlot, AreLinesOf
<1>6. OwnDocument'
  <2>1. OwnDocument
    BY DEF IInv
  <2>. QED
    BY <1>1, <1>2, <2>1 DEF OwnDocument, AreLinesOf
<1>7. KeepAsAsked' /\ Fresh'
  BY <1>1, <1>2 DEF IInv, KeepAsAsked, Fresh
<1>8. GivenInSource'
  BY <1>1, <1>2 DEF IInv, GivenInSource, EngineTypeOK
<1>. QED
  BY <1>4, <1>5, <1>6, <1>7, <1>8 DEF IInv

LEMMA ReturnKeeps ==
  ASSUME IInv, NEW p \in Parses, NEW take \in BOOLEAN, Return(p, take)
  PROVE  IInv'
  BY DropKeeps DEF Return

LEMMA AbortKeeps ==
  ASSUME IInv, NEW p \in Parses, Abort(p)
  PROVE  IInv'
  BY DropKeeps DEF Abort

LEMMA Step == IInv /\ [Next \/ Done]_vars => IInv'
<1>. SUFFICES ASSUME IInv, [Next \/ Done]_vars
              PROVE  IInv'
  OBVIOUS
<1>1. CASE UNCHANGED vars
  BY <1>1 DEF vars, IInv, EngineTypeOK, OwnSlot, OwnDocument, KeepAsAsked, Fresh, GivenInSource,
              AreLinesOf, Alive
<1>2. ASSUME NEW p \in Parses, NEW m \in Modes, NEW n \in 0..MaxLines, Begin(p, m, n)
      PROVE  IInv'
  BY <1>2, BeginKeeps
<1>3. ASSUME NEW p \in Parses, Prepare(p) \/ ShortCircuit(p)
      PROVE  IInv'
  BY <1>3, PrepareKeeps, ShortCircuitKeeps
<1>4. ASSUME NEW p \in Parses,
             FeedLine(p) \/ FinishBlocks(p) \/ BeginInline(p) \/ EndInline(p) \/ FinishTree(p)
      PROVE  IInv'
  BY <1>4, FeedLineKeeps, FinishBlocksKeeps, InlineKeeps, FinishTreeKeeps
<1>5. ASSUME NEW p \in Parses, (\E take \in BOOLEAN : Return(p, take)) \/ Abort(p)
      PROVE  IInv'
  BY <1>5, ReturnKeeps, AbortKeeps
<1>. QED
  BY <1>1, <1>2, <1>3, <1>4, <1>5 DEF Next, Done

LEMMA Always == Spec => []IInv
  BY Initial, Step, PTL DEF Spec

\* Every variable of the carriage keeps its type, for any number of parses.
THEOREM EngineTypeCorrect == Spec => []EngineTypeOK
<1>1. IInv => EngineTypeOK
  BY DEF IInv
<1>. QED
  BY <1>1, Always, PTL

\* However parses nest and abort, the slot a running parse carries holds its
\* own state (block_slot_insert, with_block_state).
THEOREM SlotsOwned == Spec => []OwnSlot
<1>1. IInv => OwnSlot
  BY DEF IInv
<1>. QED
  BY <1>1, Always, PTL

\* Every document is made of all the lines of its own source, and of no others
\* (make_md_finish_action).
THEOREM DocumentsOwned == Spec => []OwnDocument
<1>1. IInv => OwnDocument
  BY DEF IInv
<1>. QED
  BY <1>1, Always, PTL

(***************************************************************************)
(* The carriage implements ParseStates                                     *)
(***************************************************************************)
St == [p \in Parses |-> Status(p)]
Ln == [p \in Parses |-> IF phase[p] = "lines" /\ HasState(p) THEN slab[ctx[p]].lines ELSE <<>>]

\* A running parse has its state, so what is mapped is what the slot holds.
LEMMA MappedLines ==
  ASSUME IInv
  PROVE  Ln = [p \in Parses |-> IF phase[p] = "lines" THEN slab[ctx[p]].lines ELSE <<>>]
  BY DEF IInv, OwnSlot, HasState, Ln

LEMMA MappedLinesNext ==
  ASSUME IInv'
  PROVE  Ln' = [p \in Parses |-> IF phase'[p] = "lines" THEN slab'[ctx'[p]].lines ELSE <<>>]
<1>1. \A p \in Parses : phase'[p] = "lines" => ctx'[p] \in DOMAIN slab' /\ slab'[ctx'[p]] # Free
  BY DEF IInv, OwnSlot
<1>. QED
  BY <1>1 DEF HasState, Ln

\* A parse that begins, or answers an empty source, has no state.
LEMMA StatelessMaps ==
  ASSUME IInv, IInv', NEW p \in Parses,
         (\E m \in Modes, n \in 0..MaxLines : Begin(p, m, n)) \/ ShortCircuit(p)
  PROVE  UNCHANGED <<St, Ln, document>>
<1>1. CASE \E m \in Modes, n \in 0..MaxLines : Begin(p, m, n)
  <2>1. /\ phase[p] = "new" /\ phase'[p] = "preparing"
        /\ \A q \in Parses : q # p => phase'[q] = phase[q] /\ length'[q] = length[q]
        /\ UNCHANGED <<ctx, slab, document>>
    BY <1>1, BeginKeeps
  <2>2. \A q \in Parses : Status(q)' = Status(q)
    BY <2>1 DEF Status
  <2>. QED
    BY <2>1, <2>2, MappedLines, MappedLinesNext DEF St
<1>2. CASE ShortCircuit(p)
  <2>1. /\ EngineTypeOK /\ phase[p] = "preparing" /\ phase' = [phase EXCEPT ![p] = "ended"]
        /\ length[p] = 0 /\ UNCHANGED <<length, ctx, slab, document>>
    BY <1>2 DEF IInv, ShortCircuit
  <2>2. phase'[p] = "ended" /\ \A q \in Parses : q # p => phase'[q] = phase[q]
    BY <2>1 DEF EngineTypeOK
  <2>3. \A q \in Parses : Status(q)' = Status(q)
    BY <2>1, <2>2 DEF Status
  <2>. QED
    BY <2>1, <2>2, <2>3, MappedLines, MappedLinesNext DEF St
<1>. QED
  BY <1>1, <1>2

LEMMA PrepareMaps ==
  ASSUME IInv, IInv', NEW p \in Parses, Prepare(p)
  PROVE  OwnState!Open(p)
<1>1. /\ phase[p] = "preparing" /\ phase' = [phase EXCEPT ![p] = "lines"]
      /\ UNCHANGED <<length, document>> /\ slab'[ctx'[p]].lines = <<>>
      /\ \A q \in Parses : q # p /\ phase[q] = "lines" => slab'[ctx'[q]] = slab[ctx[q]]
  BY PrepareKeeps DEF Prepare
<1>2. phase'[p] = "lines" /\ \A q \in Parses : q # p => phase'[q] = phase[q]
  BY <1>1 DEF IInv, EngineTypeOK
<1>3. Status(p) = "new" /\ Status(p)' = "open" /\ \A q \in Parses : q # p => Status(q)' = Status(q)
  BY <1>1, <1>2 DEF Status
<1>4. St[p] = "new" /\ St' = [St EXCEPT ![p] = "open"]
  BY <1>3 DEF St
<1>5. Ln' = Ln
  BY <1>1, <1>2, MappedLines, MappedLinesNext
<1>. QED
  BY <1>1, <1>4, <1>5 DEF OwnState!Open, St, Ln

LEMMA FeedLineMaps ==
  ASSUME IInv, IInv', NEW p \in Parses, FeedLine(p)
  PROVE  \E f \in Fed : OwnState!Give(p, f)
<1>1. PICK f \in Fed : slab' = [slab EXCEPT ![ctx[p]].lines = Append(slab[ctx[p]].lines, f)]
  BY FeedLineKeeps
<1>2. EngineTypeOK /\ OwnSlot /\ phase[p] = "lines"
      /\ UNCHANGED <<phase, length, ctx, document>>
  BY DEF IInv, FeedLine
<1>3. ctx[p] \in DOMAIN slab /\ slab[ctx[p]] \in Entries
      /\ \A q \in Parses : q # p /\ phase[q] = "lines" => ctx[q] # ctx[p]
  BY <1>2, TypeFacts DEF OwnSlot
<1>4. /\ slab'[ctx[p]].lines = Append(slab[ctx[p]].lines, f)
      /\ \A q \in Parses : q # p /\ phase[q] = "lines" => slab'[ctx[q]] = slab[ctx[q]]
  <2>1. slab'[ctx[p]] = [slab[ctx[p]] EXCEPT !.lines = Append(slab[ctx[p]].lines, f)]
        /\ \A j \in DOMAIN slab : j # ctx[p] => slab'[j] = slab[j]
    BY <1>1, <1>3
  <2>2. slab'[ctx[p]].lines = Append(slab[ctx[p]].lines, f)
    BY <1>3, <2>1 DEF Entries
  <2>. QED
    BY <1>2, <1>3, <2>1, <2>2 DEF OwnSlot
<1>5. St' = St /\ St[p] = "open"
  BY <1>2 DEF St, Status
<1>6. Ln' = [Ln EXCEPT ![p] = Append(Ln[p], f)]
  <2>1. \A q \in Parses : Ln[q] = IF phase[q] = "lines" THEN slab[ctx[q]].lines ELSE <<>>
    BY MappedLines
  <2>2. \A q \in Parses : Ln'[q] = IF phase[q] = "lines" THEN slab'[ctx[q]].lines ELSE <<>>
    BY <1>2, MappedLinesNext
  <2>3. Ln'[p] = Append(Ln[p], f)
    BY <1>2, <1>4, <2>1, <2>2
  <2>4. \A q \in Parses : q # p => Ln'[q] = Ln[q]
    BY <1>4, <2>1, <2>2
  <2>5. Ln = [q \in Parses |-> Ln[q]] /\ Ln' = [q \in Parses |-> Ln'[q]]
    BY MappedLines, MappedLinesNext
  <2>. QED
    BY <2>3, <2>4, <2>5
<1>. QED
  BY <1>2, <1>5, <1>6 DEF OwnState!Give, St, Ln

LEMMA FinishBlocksMaps ==
  ASSUME IInv, IInv', NEW p \in Parses, FinishBlocks(p)
  PROVE  OwnState!Close(p)
<1>1. /\ phase' = [phase EXCEPT ![p] = IF slab[ctx[p]].keep THEN "parking" ELSE "projecting"]
      /\ document' = [document EXCEPT ![p] = slab[ctx[p]].lines]
      /\ slab' = [slab EXCEPT ![ctx[p]] = Free]
  BY FinishBlocksKeeps
<1>2. /\ EngineTypeOK /\ OwnSlot /\ KeepAsAsked /\ phase[p] = "lines" /\ length[p] > 0
      /\ UNCHANGED <<length, ctx>>
  BY DEF IInv, FinishBlocks, KeepAsAsked
<1>3. /\ phase'[p] \in {"parking", "projecting"}
      /\ \A q \in Parses : q # p => phase'[q] = phase[q]
  BY <1>1, <1>2 DEF EngineTypeOK
<1>4. \A q \in Parses : q # p /\ phase[q] = "lines" => slab'[ctx[q]] = slab[ctx[q]]
  BY <1>1, <1>2 DEF OwnSlot
<1>5. Status(p) = "open" /\ Status(p)' = "closed"
      /\ \A q \in Parses : q # p => Status(q)' = Status(q)
  BY <1>2, <1>3 DEF Status
<1>6. St[p] = "open" /\ St' = [St EXCEPT ![p] = "closed"]
  BY <1>5 DEF St
<1>7. Ln' = [Ln EXCEPT ![p] = <<>>] /\ Ln[p] = slab[ctx[p]].lines
  BY <1>2, <1>3, <1>4, MappedLines, MappedLinesNext
<1>. QED
  BY <1>1, <1>6, <1>7 DEF OwnState!Close, St, Ln

LEMMA FinishTreeMaps ==
  ASSUME IInv, IInv', NEW p \in Parses, FinishTree(p)
  PROVE  UNCHANGED <<St, Ln, document>>
<1>1. /\ EngineTypeOK /\ phase[p] \in {"parking", "projecting"} /\ length[p] > 0
      /\ phase' = [phase EXCEPT ![p] = "ended"] /\ UNCHANGED <<length, ctx, slab, document>>
  BY DEF IInv, KeepAsAsked, FinishTree, Finishing
<1>2. phase'[p] = "ended" /\ \A q \in Parses : q # p => phase'[q] = phase[q]
  BY <1>1 DEF EngineTypeOK
<1>3. \A q \in Parses : Status(q)' = Status(q)
  BY <1>1, <1>2 DEF Status
<1>. QED
  BY <1>1, <1>2, <1>3, MappedLines, MappedLinesNext DEF St

LEMMA ReturnMaps ==
  ASSUME IInv, IInv', NEW p \in Parses, NEW take \in BOOLEAN, Return(p, take)
  PROVE  UNCHANGED <<St, Ln, document>>
<1>1. /\ EngineTypeOK /\ phase[p] = "ended" /\ phase' = [phase EXCEPT ![p] = "returned"]
      /\ ctx' = [ctx EXCEPT ![p] = 0] /\ UNCHANGED <<length, slab, document>>
  BY DEF IInv, Return, Drop
<1>2. phase'[p] = "returned" /\ \A q \in Parses : q # p => phase'[q] = phase[q] /\ ctx'[q] = ctx[q]
  BY <1>1 DEF EngineTypeOK
<1>3. \A q \in Parses : Status(q)' = Status(q)
  BY <1>1, <1>2 DEF Status
<1>. QED
  BY <1>1, <1>2, <1>3, MappedLines, MappedLinesNext DEF St

LEMMA AbortMaps ==
  ASSUME IInv, IInv', NEW p \in Parses, Abort(p)
  PROVE  OwnState!Fail(p)
<1>1. /\ EngineTypeOK /\ CalledBack(p) /\ phase' = [phase EXCEPT ![p] = "failed"]
      /\ ctx' = [ctx EXCEPT ![p] = 0] /\ UNCHANGED <<length, slab, document>>
  BY DEF IInv, Abort, Drop
<1>2. phase'[p] = "failed" /\ \A q \in Parses : q # p => phase'[q] = phase[q] /\ ctx'[q] = ctx[q]
  BY <1>1 DEF EngineTypeOK
<1>3. Status(p) \in {"new", "open", "closed"} /\ Status(p)' = "failed"
      /\ \A q \in Parses : q # p => Status(q)' = Status(q)
  BY <1>1, <1>2 DEF Status, CalledBack
<1>4. St[p] \in {"new", "open", "closed"} /\ St' = [St EXCEPT ![p] = "failed"]
  BY <1>3 DEF St
<1>5. Ln' = [Ln EXCEPT ![p] = <<>>]
  BY <1>1, <1>2, MappedLines, MappedLinesNext
<1>. QED
  BY <1>1, <1>4, <1>5 DEF OwnState!Fail, St, Ln

LEMMA InitialMaps == Init => OwnState!PInit
  BY DEF Init, OwnState!PInit, Status

LEMMA StepMaps == IInv /\ IInv' /\ [Next \/ Done]_vars => [OwnState!PNext]_(OwnState!pvars)
<1>. SUFFICES ASSUME IInv, IInv', [Next \/ Done]_vars
              PROVE  OwnState!PNext \/ UNCHANGED <<St, Ln, document>>
  BY DEF OwnState!pvars, St, Ln
<1>1. CASE UNCHANGED vars
  <2>1. UNCHANGED <<phase, length, ctx, slab, document>>
    BY <1>1 DEF vars
  <2>. QED
    BY <2>1 DEF St, Ln, Status, HasState
<1>2. ASSUME NEW p \in Parses,
             (\E m \in Modes, n \in 0..MaxLines : Begin(p, m, n)) \/ ShortCircuit(p)
      PROVE  UNCHANGED <<St, Ln, document>>
  BY <1>2, StatelessMaps
<1>3. ASSUME NEW p \in Parses, Prepare(p)
      PROVE  OwnState!PNext
  BY <1>3, PrepareMaps DEF OwnState!PNext
<1>4. ASSUME NEW p \in Parses, FeedLine(p) \/ FinishBlocks(p) \/ Abort(p)
      PROVE  OwnState!PNext
  BY <1>4, FeedLineMaps, FinishBlocksMaps, AbortMaps DEF OwnState!PNext
<1>5. ASSUME NEW p \in Parses, BeginInline(p) \/ EndInline(p)
      PROVE  UNCHANGED <<St, Ln, document>>
  <2>1. UNCHANGED <<phase, length, ctx, slab, document>>
    BY <1>5, InlineKeeps
  <2>. QED
    BY <2>1 DEF St, Ln, Status, HasState
<1>6. ASSUME NEW p \in Parses, FinishTree(p) \/ \E take \in BOOLEAN : Return(p, take)
      PROVE  UNCHANGED <<St, Ln, document>>
  BY <1>6, FinishTreeMaps, ReturnMaps
<1>. QED
  BY <1>1, <1>2, <1>3, <1>4, <1>5, <1>6 DEF Next, Done

\* The slab, with its leases and reused slots, implements a private state per
\* parse: each step of the carriage is a step of ParseStates or none.
THEOREM ImplementsParseStates == Spec => EachItsOwn
<1>. QED
  BY Always, InitialMaps, StepMaps, PTL DEF Spec, EachItsOwn, OwnState!PSpec

(***************************************************************************)
(* The slab is bounded by the parses that were alive at once: a slot is    *)
(* pushed only when every other one belongs to a context that lives, and   *)
(* no two slots belong to the same one.                                    *)
(***************************************************************************)
\* A parse claims one slot, when it begins.
OneSlotEach ==
  /\ \A i, j \in DOMAIN slab :
       slab[i] # Free /\ slab[j] # Free /\ slab[i].lease = slab[j].lease => i = j
  /\ \A i \in DOMAIN slab : slab[i] # Free => phase[slab[i].lease] \notin {"new", "preparing"}

BInv == IInv /\ OneSlotEach /\ Len(stack) <= peak /\ SlabBounded

\* The pigeonhole principle, on intervals.
LEMMA PigeonHole ==
  ASSUME NEW a \in Nat, NEW b \in Nat, b < a, NEW f \in [1..a -> 1..b]
  PROVE  \E i, j \in 1..a : i # j /\ f[i] = f[j]
<1>1. 1 \in Int /\ a \in Int /\ b \in Int
  OBVIOUS
<1>2. /\ IsFiniteSet(1..a) /\ Cardinality(1..a) = IF 1 > a THEN 0 ELSE a - 1 + 1
      /\ IsFiniteSet(1..b) /\ Cardinality(1..b) = IF 1 > b THEN 0 ELSE b - 1 + 1
  BY <1>1, FS_Interval
<1>3. Cardinality(1..b) < Cardinality(1..a)
  BY <1>2
<1>. QED
  BY <1>2, <1>3, FS_PigeonHole, SMT

\* Slots of distinct living parses are no more than the contexts.
LEMMA SlotsOfLiving ==
  ASSUME EngineTypeOK, NEW s \in Seq(Slot),
         \A j \in 1..Len(s) : s[j] # Free /\ s[j].lease \in Alive,
         \A i, j \in 1..Len(s) : s[i].lease = s[j].lease => i = j
  PROVE  Len(s) <= Len(stack)
<1>1. Len(s) \in Nat /\ Len(stack) \in Nat /\ DOMAIN stack = 1..Len(stack)
  BY TypeFacts
<1>2. SUFFICES ASSUME Len(stack) < Len(s)
               PROVE  FALSE
  BY <1>1
<1>. DEFINE f == [j \in 1..Len(s) |-> CHOOSE k \in 1..Len(stack) : stack[k] = s[j].lease]
<1>3. \A j \in 1..Len(s) : f[j] \in 1..Len(stack) /\ stack[f[j]] = s[j].lease
  BY <1>1 DEF Alive
<1>4. f \in [1..Len(s) -> 1..Len(stack)]
  BY <1>3
<1>6. \E i, j \in 1..Len(s) : i # j /\ f[i] = f[j]
  <2>. HIDE DEF f
  <2>. QED
    BY <1>1, <1>2, <1>4, PigeonHole, ZenonT(40)
<1>7. PICK i \in 1..Len(s), j \in 1..Len(s) : i # j /\ f[i] = f[j]
  BY <1>6
<1>8. s[i].lease = s[j].lease
  <2>. HIDE DEF f
  <2>. QED
    BY <1>3, <1>7
<1>. QED
  BY <1>7, <1>8

LEMMA PrefixLength ==
  ASSUME NEW S, NEW s \in Seq(S), NEW k \in Nat, k <= Len(s)
  PROVE  Len(SubSeq(s, 1, k)) = k
  OBVIOUS

LEMMA PrepareBounded ==
  ASSUME BInv, IInv', NEW p \in Parses, Prepare(p)
  PROVE  OneSlotEach' /\ Len(stack') <= peak' /\ SlabBounded'
<1>. DEFINE freed == Reclaimed(slab)
            e == Entry(p, mode[p] # "plain")
<1>1. IInv /\ EngineTypeOK /\ OneSlotEach /\ Len(slab) <= peak /\ Len(stack) <= peak
  BY DEF BInv, IInv, SlabBounded
<1>2. /\ phase[p] = "preparing" /\ phase' = [phase EXCEPT ![p] = "lines"]
      /\ UNCHANGED <<stack, peak>> /\ Running(p)
  BY DEF Prepare
<1>3. PICK i \in 1..(Len(slab) + 1) : FirstFree(freed, i) /\ slab' = Placed(freed, i, e)
  BY DEF Prepare
<1>4. /\ freed \in Seq(Slot) /\ Len(freed) = Len(slab) /\ DOMAIN freed = 1..Len(slab)
      /\ \A j \in 1..Len(slab) : freed[j] = IF Stale(slab[j]) THEN Free ELSE slab[j]
  <2>1. slab \in Seq(Slot) /\ DOMAIN slab = 1..Len(slab) /\ Len(slab) \in Nat
    BY <1>1, TypeFacts
  <2>. HIDE DEF freed
  <2>2. freed = Reclaimed(slab)
    BY DEF freed
  <2>3. freed \in Seq(Slot) /\ DOMAIN freed = DOMAIN slab
    BY <2>1, <2>2, ReclaimedFacts
  <2>. QED
    BY <2>1, <2>2, <2>3, ReclaimedFacts
<1>5. e \in Entries /\ e # Free /\ e.lease = p /\ e \in Slot
  BY FreeFacts DEF Slot
<1>6. Len(slab) \in Nat /\ DOMAIN slab = 1..Len(slab) /\ Len(stack) \in Nat /\ peak \in Nat
  BY <1>1, TypeFacts DEF EngineTypeOK
<1>7. \A j \in 1..Len(slab) : slab[j] # Free =>
        slab[j].lease \in Parses /\ slab[j].lease # p
  <2>1. \A j \in 1..Len(slab) : slab[j] # Free => slab[j] \in Entries
    BY <1>1, <1>6, TypeFacts
  <2>2. \A x \in Entries : x.lease \in Parses
    BY DEF Entries
  <2>3. \A j \in 1..Len(slab) : slab[j] # Free => phase[slab[j].lease] # "preparing"
    BY <1>1, <1>6 DEF OneSlotEach
  <2>. QED
    BY <1>2, <2>1, <2>2, <2>3
<1>8. /\ DOMAIN slab' = (1..Len(slab)) \cup {i} /\ slab'[i] = e
      /\ \A j \in 1..Len(slab) : j # i => slab'[j] = freed[j]
  <2>. HIDE DEF freed, e
  <2>. QED
    BY <1>3, <1>4, <1>5, <1>6 DEF Placed
<1>9. OneSlotEach'
  <2>1. \A j \in 1..Len(slab) : freed[j] # Free => freed[j] = slab[j]
    BY <1>4
  <2>2. \A j \in DOMAIN slab' : slab'[j] # Free /\ j # i =>
          /\ j \in DOMAIN slab /\ slab'[j] = slab[j] /\ slab[j] # Free
    BY <1>6, <1>8, <2>1
  <2>3. \A j \in DOMAIN slab' : slab'[j] # Free /\ j # i => slab'[j].lease # slab'[i].lease
    BY <1>5, <1>6, <1>7, <1>8, <2>2
  <2>4. \A j \in DOMAIN slab' : slab'[j] # Free =>
          phase'[slab'[j].lease] \notin {"new", "preparing"}
    <3>1. phase'[p] = "lines" /\ \A q \in Parses : q # p => phase'[q] = phase[q]
      BY <1>1, <1>2 DEF EngineTypeOK
    <3>. QED
      BY <1>1, <1>5, <1>6, <1>7, <1>8, <2>2, <3>1 DEF OneSlotEach
  <2>5. \A j, k \in DOMAIN slab' :
          slab'[j] # Free /\ slab'[k] # Free /\ slab'[j].lease = slab'[k].lease => j = k
    BY <1>1, <2>2, <2>3 DEF OneSlotEach
  <2>. QED
    BY <2>4, <2>5 DEF OneSlotEach
<1>10. slab' \in Seq(Slot) /\ Len(slab') = IF i > Len(slab) THEN Len(slab) + 1 ELSE Len(slab)
  <2>1. i \in 1..(Len(freed) + 1)
    BY <1>4
  <2>. HIDE DEF freed, e
  <2>. QED
    BY <1>3, <1>4, <1>5, <2>1, PlacedFacts
<1>11. Len(slab') <= peak
  <2>1. CASE ~(i > Len(slab))
    BY <1>1, <1>10, <2>1
  <2>2. CASE i = Len(slab) + 1
    <3>1. \A j \in 1..Len(slab) : freed[j] # Free
      BY <1>3, <1>6, <2>2 DEF FirstFree
    <3>2. \A j \in 1..Len(slab) : freed[j] = slab[j] /\ slab[j] # Free /\ slab[j].lease \in Alive
      BY <1>4, <3>1 DEF Stale
    <3>3. p \in Alive
      <4>1. stack # <<>> /\ stack[Len(stack)] = p /\ stack \in Seq(Parses)
        BY <1>1, <1>2 DEF Running, EngineTypeOK
      <4>2. Len(stack) \in DOMAIN stack
        BY <4>1
      <4>. QED
        BY <4>1, <4>2 DEF Alive
    <3>4. DOMAIN slab' = 1..Len(slab')
      BY <1>10
    <3>5. \A j \in 1..Len(slab') : slab'[j] # Free /\ slab'[j].lease \in Alive
      BY <1>5, <1>6, <1>8, <3>2, <3>3, <3>4
    <3>6. \A j, k \in 1..Len(slab') : slab'[j].lease = slab'[k].lease => j = k
      BY <1>9, <3>4, <3>5 DEF OneSlotEach
    <3>7. Len(slab') <= Len(stack)
      BY <1>1, <1>10, <3>5, <3>6, SlotsOfLiving
    <3>. QED
      BY <1>1, <1>6, <1>10, <3>7
  <2>. QED
    BY <1>6, <2>1, <2>2
<1>. QED
  BY <1>1, <1>2, <1>9, <1>11 DEF SlabBounded

\* No other step claims a slot.
LEMMA OthersBounded ==
  ASSUME BInv, NEW p \in Parses,
         \/ \E m \in Modes, n \in 0..MaxLines : Begin(p, m, n)
         \/ ShortCircuit(p)
         \/ FeedLine(p) \/ FinishBlocks(p) \/ BeginInline(p) \/ EndInline(p) \/ FinishTree(p)
         \/ (\E take \in BOOLEAN : Return(p, take)) \/ Abort(p)
  PROVE  OneSlotEach' /\ Len(stack') <= peak' /\ SlabBounded'
<1>1. EngineTypeOK /\ IInv /\ OneSlotEach /\ Len(stack) <= peak /\ Len(slab) <= peak
  BY DEF BInv, IInv, SlabBounded
<1>2. Len(stack) \in Nat /\ Len(slab) \in Nat /\ peak \in Nat /\ DOMAIN slab = 1..Len(slab)
      /\ slab \in Seq(Slot)
  BY <1>1, TypeFacts DEF EngineTypeOK
<1>3. \A i \in DOMAIN slab : slab[i] # Free => slab[i].lease \in Parses
  BY <1>1, TypeFacts, FreeFacts
<1>4. /\ Len(stack') <= peak' /\ peak <= peak'
      /\ \A q \in Parses : phase'[q] \in {"new", "preparing"} => phase[q] \in {"new", "preparing"}
  <2>1. CASE \E m \in Modes, n \in 0..MaxLines : Begin(p, m, n)
    <3>1. phase[p] = "new" /\ \A q \in Parses : q # p => phase'[q] = phase[q]
      BY <1>1, <2>1, BeginKeeps
    <3>2. stack' = Append(stack, p) /\ peak' = IF Len(stack) + 1 > peak THEN Len(stack) + 1 ELSE peak
      BY <2>1 DEF Begin
    <3>. QED
      BY <1>1, <1>2, <3>1, <3>2, PushedAlive
  <2>2. CASE (\E take \in BOOLEAN : Return(p, take)) \/ Abort(p)
    <3>1. stack # <<>> /\ stack' = SubSeq(stack, 1, Len(stack) - 1) /\ peak' = peak
      BY <2>2 DEF Return, Abort, Drop, Running
    <3>2. stack \in Seq(Parses) /\ Len(stack) >= 1
      BY <1>1, <1>2, <3>1 DEF EngineTypeOK
    <3>3. Len(stack') = Len(stack) - 1
      <4>1. Len(stack) - 1 \in Nat /\ Len(stack) - 1 <= Len(stack)
        BY <1>2, <3>2
      <4>. QED
        BY <3>1, <3>2, <4>1, PrefixLength
    <3>4. \A q \in Parses : phase'[q] \in {"new", "preparing"} => phase[q] \in {"new", "preparing"}
      BY <1>1, <2>2 DEF Return, Abort, EngineTypeOK
    <3>. QED
      BY <1>1, <1>2, <3>1, <3>3, <3>4
  <2>3. CASE \/ ShortCircuit(p) \/ FeedLine(p) \/ FinishBlocks(p) \/ BeginInline(p) \/ EndInline(p)
             \/ FinishTree(p)
    <3>1. stack' = stack /\ peak' = peak
      BY <2>3 DEF ShortCircuit, FeedLine, FinishBlocks, BeginInline, EndInline, FinishTree
    <3>2. \A q \in Parses : phase'[q] \in {"new", "preparing"} => phase[q] \in {"new", "preparing"}
      <4>1. \E x \in Phases \ {"new", "preparing"} :
              phase' = [phase EXCEPT ![p] = x] \/ phase' = phase
        <5>1. CASE ShortCircuit(p)
          BY <5>1 DEF ShortCircuit, Phases
        <5>2. CASE FeedLine(p) \/ BeginInline(p) \/ EndInline(p)
          <6>1. phase' = phase
            BY <5>2 DEF FeedLine, BeginInline, EndInline
          <6>. QED
            BY <6>1 DEF Phases
        <5>3. CASE FinishBlocks(p)
          BY <5>3 DEF FinishBlocks, Phases
        <5>4. CASE FinishTree(p)
          BY <5>4 DEF FinishTree, Phases
        <5>. QED
          BY <2>3, <5>1, <5>2, <5>3, <5>4
      <4>. QED
        BY <1>1, <4>1 DEF EngineTypeOK
    <3>. QED
      BY <1>1, <1>2, <3>1, <3>2
  <2>. QED
    BY <2>1, <2>2, <2>3
<1>5. \/ UNCHANGED slab
      \/ \E i \in DOMAIN slab : \E x : slab[i] # Free /\ slab' = [slab EXCEPT ![i] = x]
                                     /\ (x = Free \/ x.lease = slab[i].lease)
  <2>1. CASE FeedLine(p)
    <3>1. HasState(p)
          /\ \E f \in Fed : slab' = [slab EXCEPT ![ctx[p]].lines = Append(slab[ctx[p]].lines, f)]
      BY <1>1, <2>1, FeedLineKeeps
    <3>2. PICK f \in Fed : slab' = [slab EXCEPT ![ctx[p]].lines = Append(slab[ctx[p]].lines, f)]
      BY <3>1
    <3>. DEFINE x == [slab[ctx[p]] EXCEPT !.lines = Append(slab[ctx[p]].lines, f)]
    <3>3. ctx[p] \in DOMAIN slab /\ slab[ctx[p]] # Free /\ slab[ctx[p]] \in Entries
      BY <1>1, <3>1, TypeFacts DEF HasState
    <3>4. x.lease = slab[ctx[p]].lease
      BY <3>3 DEF Entries
    <3>5. slab' = [slab EXCEPT ![ctx[p]] = x]
      BY <3>2
    <3>. QED
      BY <3>3, <3>4, <3>5
  <2>2. CASE FinishBlocks(p)
    BY <1>1, <2>2, FinishBlocksKeeps DEF HasState
  <2>3. CASE ~(FeedLine(p) \/ FinishBlocks(p))
    BY <2>3 DEF Begin, ShortCircuit, BeginInline, EndInline, FinishTree, Return, Abort, Drop
  <2>. QED
    BY <2>1, <2>2, <2>3
<1>6. /\ DOMAIN slab' = DOMAIN slab /\ Len(slab') = Len(slab)
      /\ \A j \in DOMAIN slab : slab'[j] # Free =>
           slab[j] # Free /\ slab'[j].lease = slab[j].lease
  BY <1>2, <1>5
<1>7. OneSlotEach'
  BY <1>1, <1>3, <1>4, <1>6 DEF OneSlotEach
<1>. QED
  <2>1. Len(slab') <= Len(slab) /\ peak' \in Int
    <3>1. peak' \in Int
      BY <1>2 DEF Begin, ShortCircuit, FeedLine, FinishBlocks, BeginInline, EndInline, FinishTree,
                  Return, Abort, Drop
    <3>. QED
      BY <1>2, <1>6, <3>1
  <2>. QED
    BY <1>1, <1>2, <1>4, <1>6, <1>7, <2>1 DEF SlabBounded

LEMMA BoundedStep == BInv /\ IInv' /\ [Next \/ Done]_vars => BInv'
<1>. SUFFICES ASSUME BInv, IInv', [Next \/ Done]_vars
              PROVE  OneSlotEach' /\ Len(stack') <= peak' /\ SlabBounded'
  BY DEF BInv
<1>1. CASE UNCHANGED vars
  BY <1>1 DEF vars, BInv, OneSlotEach, SlabBounded
<1>. QED
  BY <1>1, PrepareBounded, OthersBounded DEF Next, Done

\* The slab never grows past the parses that were alive at once on the thread,
\* however many were aborted (block_slot_insert reclaims before it pushes).
THEOREM SlabIsBounded == Spec => []SlabBounded
<1>1. Init => BInv
  BY Initial DEF Init, BInv, OneSlotEach, SlabBounded
<1>2. BInv => SlabBounded
  BY DEF BInv
<1>. QED
  BY <1>1, <1>2, BoundedStep, Always, PTL DEF Spec

(***************************************************************************)
(* The parked tree: a parse that waits for its caller to take the tree is  *)
(* on the stack, everything that ran since began inside its wait, and what *)
(* is parked is its own tree or was touched by one of those.               *)
(***************************************************************************)
Once == \A i, j \in DOMAIN stack : stack[i] = stack[j] => i = j

AliveExactly == \A p \in Parses : p \in Alive <=> phase[p] \notin {"new", "returned", "failed"}

\* A parse knows all those that wait below it.
WaitSeen ==
  \A i, j \in DOMAIN stack : i < j /\ Waiting(stack[i]) => stack[i] \in within[stack[j]]

Untaken == \A p \in Parses : handed[p] # NotTaken => phase[p] = "returned"

KeptPending == \A p \in Parses : Waiting(p) /\ Asked(p) => Accounted(p, kept)

StackOk == Once /\ AliveExactly /\ WaitSeen

KInv == IInv /\ StackOk /\ Untaken /\ KeptPending /\ KeptIsOwn

LEMMA TopFacts ==
  ASSUME EngineTypeOK, NEW p \in Parses, Running(p)
  PROVE  /\ Len(stack) \in Nat /\ DOMAIN stack = 1..Len(stack)
         /\ Len(stack) \in DOMAIN stack /\ stack[Len(stack)] = p /\ p \in Alive
<1>1. stack # <<>> /\ stack[Len(stack)] = p /\ stack \in Seq(Parses)
  BY DEF Running, EngineTypeOK
<1>2. Len(stack) \in DOMAIN stack /\ Len(stack) \in Nat /\ DOMAIN stack = 1..Len(stack)
  BY <1>1
<1>. QED
  BY <1>1, <1>2 DEF Alive

\* Whoever waits when p runs was waiting when p began.
LEMMA WaitersSeen ==
  ASSUME EngineTypeOK, StackOk, NEW p \in Parses, Running(p),
         NEW q \in Parses, q # p, Waiting(q)
  PROVE  q \in within[p]
<1>1. q \in Alive
  BY DEF StackOk, AliveExactly, Waiting
<1>2. PICK i \in DOMAIN stack : stack[i] = q
  BY <1>1 DEF Alive
<1>3. i < Len(stack)
  BY <1>2, TopFacts
<1>. QED
  BY <1>2, <1>3, TopFacts DEF StackOk, WaitSeen

\* The innermost parse goes on: nothing on the stack moves.
LEMMA StackStays ==
  ASSUME EngineTypeOK, StackOk, NEW p \in Parses, Running(p),
         UNCHANGED <<stack, length, within>>,
         \A q \in Parses : q # p => phase'[q] = phase[q],
         phase'[p] \notin {"new", "returned", "failed"}
  PROVE  StackOk'
<1>1. Alive' = Alive /\ p \in Alive
  BY TopFacts DEF Alive
<1>2. Once'
  BY DEF StackOk, Once
<1>3. AliveExactly'
  BY <1>1 DEF StackOk, AliveExactly
<1>4. ASSUME NEW i \in DOMAIN stack, NEW j \in DOMAIN stack, i < j, Waiting(stack[i])'
      PROVE  stack[i] \in within[stack[j]]
  <2>1. i # Len(stack) /\ stack[i] \in Parses
    BY <1>4, TopFacts, TypeFacts
  <2>2. stack[i] # p
    BY <2>1, TopFacts DEF StackOk, Once
  <2>3. Waiting(stack[i])
    BY <1>4, <2>1, <2>2 DEF Waiting
  <2>. QED
    BY <1>4, <2>3 DEF StackOk, WaitSeen
<1>5. WaitSeen'
  BY <1>4 DEF WaitSeen
<1>. QED
  BY <1>2, <1>3, <1>5 DEF StackOk

LEMMA StackPushed ==
  ASSUME IInv, StackOk, NEW p \in Parses, NEW m \in Modes, NEW n \in 0..MaxLines, Begin(p, m, n)
  PROVE  StackOk' /\ \A q \in Parses : Waiting(q) => q \in within'[p]
<1>1. EngineTypeOK /\ phase[p] = "new" /\ stack' = Append(stack, p)
      /\ within' = [within EXCEPT ![p] = {q \in Alive : Waiting(q)}]
  BY DEF IInv, Begin
<1>2. /\ phase'[p] = "preparing"
      /\ \A q \in Parses : q # p => /\ phase'[q] = phase[q] /\ length'[q] = length[q]
                                    /\ within'[q] = within[q]
  BY BeginKeeps
<1>3. within'[p] = {q \in Alive : Waiting(q)}
  BY <1>1 DEF EngineTypeOK
<1>4. p \notin Alive
  BY <1>1 DEF StackOk, AliveExactly
<1>5. /\ Len(stack) \in Nat /\ DOMAIN stack = 1..Len(stack)
      /\ DOMAIN stack' = 1..(Len(stack) + 1) /\ stack'[Len(stack) + 1] = p
      /\ \A i \in 1..Len(stack) : stack'[i] = stack[i]
  <2>1. stack \in Seq(Parses)
    BY <1>1, TypeFacts
  <2>. QED
    BY <1>1, <2>1
<1>6. \A i \in 1..Len(stack) : stack[i] \in Parses /\ stack[i] \in Alive /\ stack[i] # p
  BY <1>1, <1>4, <1>5, TypeFacts DEF Alive
<1>7. Once'
  BY <1>5, <1>6 DEF StackOk, Once
<1>8. AliveExactly'
  <2>1. Alive' = Alive \cup {p}
    BY <1>1, PushedAlive
  <2>. QED
    BY <1>2, <1>4, <2>1 DEF StackOk, AliveExactly
<1>9. ASSUME NEW i \in DOMAIN stack', NEW j \in DOMAIN stack', i < j, Waiting(stack[i])'
      PROVE  stack'[i] \in within'[stack'[j]]
  <2>1. i \in 1..Len(stack) /\ stack'[i] = stack[i]
    BY <1>5, <1>9
  <2>2. Waiting(stack[i])
    BY <1>2, <1>6, <1>9, <2>1 DEF Waiting
  <2>3. CASE j \in 1..Len(stack)
    <3>1. stack[i] \in within[stack[j]]
      BY <1>5, <1>9, <2>1, <2>2, <2>3 DEF StackOk, WaitSeen
    <3>. QED
      BY <1>2, <1>5, <1>6, <2>1, <2>3, <3>1
  <2>4. CASE j = Len(stack) + 1
    BY <1>3, <1>5, <1>6, <2>1, <2>2, <2>4
  <2>. QED
    BY <1>5, <2>3, <2>4
<1>10. WaitSeen'
  BY <1>9 DEF WaitSeen
<1>11. \A q \in Parses : Waiting(q) => q \in within'[p]
  BY <1>3 DEF StackOk, AliveExactly, Waiting
<1>. QED
  BY <1>7, <1>8, <1>10, <1>11 DEF StackOk

LEMMA StackDropped ==
  ASSUME EngineTypeOK, StackOk, NEW p \in Parses, Drop(p),
         \A q \in Parses : q # p => phase'[q] = phase[q],
         phase'[p] \in {"returned", "failed"}
  PROVE  StackOk'
<1>1. Running(p) /\ stack' = SubSeq(stack, 1, Len(stack) - 1) /\ UNCHANGED <<length, within>>
  BY DEF Drop
<1>2. /\ Len(stack) \in Nat /\ DOMAIN stack = 1..Len(stack) /\ stack[Len(stack)] = p
      /\ Len(stack) >= 1 /\ stack \in Seq(Parses)
  BY <1>1, TopFacts, TypeFacts
<1>3. /\ DOMAIN stack' = 1..(Len(stack) - 1)
      /\ \A i \in 1..(Len(stack) - 1) : stack'[i] = stack[i]
  BY <1>1, <1>2
<1>4. \A i \in 1..(Len(stack) - 1) : stack[i] \in Parses /\ stack[i] # p
  BY <1>2 DEF StackOk, Once
<1>5. Once'
  BY <1>2, <1>3 DEF StackOk, Once
<1>6. Alive' = Alive \ {p}
  BY <1>2, <1>3, <1>4 DEF Alive
<1>7. AliveExactly'
  BY <1>6 DEF StackOk, AliveExactly
<1>8. ASSUME NEW i \in DOMAIN stack', NEW j \in DOMAIN stack', i < j, Waiting(stack[i])'
      PROVE  stack'[i] \in within'[stack'[j]]
  <2>1. Waiting(stack[i]) /\ stack'[i] = stack[i] /\ stack'[j] = stack[j]
    BY <1>1, <1>3, <1>4, <1>8 DEF Waiting
  <2>. QED
    BY <1>1, <1>2, <1>3, <1>8, <2>1 DEF StackOk, WaitSeen
<1>9. WaitSeen'
  BY <1>8 DEF WaitSeen
<1>. QED
  BY <1>5, <1>7, <1>9 DEF StackOk

\* What is known of a parse that has begun stays known.
Remembered ==
  \A q \in Parses : phase[q] # "new" =>
    /\ length'[q] = length[q] /\ mode'[q] = mode[q] /\ within'[q] = within[q]
    /\ Touched(q) => Touched(q)'

LEMMA AccountedStays ==
  ASSUME Fresh, Remembered, NEW p \in Parses, phase[p] # "new", NEW tree, Accounted(p, tree)
  PROVE  \/ tree = IF length'[p] > 0 THEN p ELSE None
         \/ \E q \in Parses : p \in within'[q] /\ Touched(q)' /\ tree \in {q, None}
<1>1. CASE tree = OwnTree(p)
  BY <1>1 DEF OwnTree, Remembered
<1>2. ASSUME NEW q \in Parses, p \in within[q], Touched(q), tree \in {q, None}
      PROVE  p \in within'[q] /\ Touched(q)'
  BY <1>2 DEF Fresh, Remembered
<1>. QED
  BY <1>1, <1>2 DEF Accounted

\* A step that leaves the parked tree alone, and makes no parse wait that asked.
LEMMA QuietKeeps ==
  ASSUME KInv, Remembered, UNCHANGED <<kept, handed>>,
         \A p \in Parses : (Waiting(p) /\ Asked(p))' => Waiting(p) /\ Asked(p),
         \A p \in Parses : phase[p] = "returned" => phase'[p] = "returned",
         \A p \in Parses : phase'[p] = "returned" /\ handed[p] # NotTaken => phase[p] = "returned"
  PROVE  Untaken' /\ KeptPending' /\ KeptIsOwn'
<1>1. Untaken'
  BY DEF KInv, Untaken
<1>2. KeptPending'
  <2>1. ASSUME NEW p \in Parses, (Waiting(p) /\ Asked(p))'
        PROVE  Accounted(p, kept)'
    <3>1. Accounted(p, kept) /\ phase[p] # "new"
      BY <2>1 DEF KInv, KeptPending, Waiting
    <3>. QED
      BY <3>1, AccountedStays DEF KInv, IInv, Accounted, OwnTree
  <2>. QED
    BY <2>1 DEF KeptPending
<1>3. KeptIsOwn'
  <2>1. ASSUME NEW p \in Parses, phase'[p] = "returned", handed'[p] # NotTaken, Asked(p)'
        PROVE  Accounted(p, handed[p])'
    <3>1. phase[p] = "returned"
      BY <2>1
    <3>2. Asked(p)
      BY <2>1, <3>1 DEF Asked, Remembered
    <3>3. Accounted(p, handed[p])
      BY <2>1, <3>1, <3>2 DEF KInv, KeptIsOwn
    <3>. QED
      BY <3>1, <3>3, AccountedStays DEF KInv, IInv, Accounted, OwnTree
  <2>. QED
    BY <2>1 DEF KeptIsOwn
<1>. QED
  BY <1>1, <1>2, <1>3

LEMMA BeginKept ==
  ASSUME KInv, IInv', NEW p \in Parses, NEW m \in Modes, NEW n \in 0..MaxLines, Begin(p, m, n)
  PROVE  KInv'
<1>1. IInv /\ EngineTypeOK /\ StackOk /\ Fresh
  BY DEF KInv, IInv
<1>2. /\ phase[p] = "new" /\ phase'[p] = "preparing"
      /\ \A q \in Parses : q # p => /\ phase'[q] = phase[q] /\ mode'[q] = mode[q]
                                    /\ length'[q] = length[q] /\ within'[q] = within[q]
      /\ UNCHANGED <<document, handed>>
  BY <1>1, BeginKeeps
<1>3. /\ mode'[p] = m /\ length'[p] = n /\ kept' = IF m = "keep" THEN None ELSE kept
  BY <1>1 DEF Begin, EngineTypeOK, Cleared
<1>4. StackOk' /\ \A q \in Parses : Waiting(q) => q \in within'[p]
  BY <1>1, StackPushed
<1>5. Remembered
  BY <1>2 DEF Remembered, Touched
<1>6. Untaken'
  BY <1>2 DEF KInv, Untaken
<1>7. ASSUME NEW q \in Parses, (Waiting(q) /\ Asked(q))'
      PROVE  Accounted(q, kept)'
  <2>1. CASE q = p
    <3>1. n = 0 /\ m = "keep"
      BY <1>2, <1>3, <1>7, <2>1 DEF Waiting, Asked
    <3>. QED
      BY <1>3, <2>1, <3>1 DEF Accounted, OwnTree
  <2>2. CASE q # p /\ m # "keep"
    <3>1. Waiting(q) /\ Asked(q) /\ phase[q] # "new" /\ kept' = kept
      BY <1>2, <1>3, <1>7, <2>2 DEF Waiting, Asked
    <3>2. Accounted(q, kept)
      BY <3>1 DEF KInv, KeptPending
    <3>. QED
      BY <1>1, <1>5, <3>1, <3>2, AccountedStays DEF Accounted, OwnTree
  <2>3. CASE q # p /\ m = "keep"
    <3>1. Waiting(q)
      BY <1>2, <1>7, <2>3 DEF Waiting
    <3>2. q \in within'[p] /\ Touched(p)' /\ kept' = None
      BY <1>3, <1>4, <2>3, <3>1 DEF Touched
    <3>. QED
      BY <3>2 DEF Accounted
  <2>. QED
    BY <2>1, <2>2, <2>3
<1>8. KeptPending'
  BY <1>7 DEF KeptPending
<1>9. ASSUME NEW q \in Parses, phase'[q] = "returned", handed'[q] # NotTaken, Asked(q)'
      PROVE  Accounted(q, handed[q])'
  <2>1. phase[q] = "returned" /\ Asked(q) /\ handed'[q] = handed[q]
    BY <1>2, <1>9 DEF Asked
  <2>2. Accounted(q, handed[q])
    BY <1>9, <2>1 DEF KInv, KeptIsOwn
  <2>. QED
    BY <1>1, <1>5, <2>1, <2>2, AccountedStays DEF Accounted, OwnTree
<1>10. KeptIsOwn'
  BY <1>9 DEF KeptIsOwn
<1>. QED
  BY <1>4, <1>6, <1>8, <1>10 DEF KInv

\* The steps on the way from the hooks to the tree.
LEMMA WorkKept ==
  ASSUME KInv, IInv', NEW p \in Parses,
         \/ Prepare(p) \/ ShortCircuit(p) \/ FeedLine(p) \/ FinishBlocks(p)
         \/ BeginInline(p) \/ EndInline(p)
  PROVE  KInv'
<1>1. IInv /\ EngineTypeOK /\ StackOk
  BY DEF KInv, IInv
<1>2. Running(p) /\ UNCHANGED <<stack, mode, length, within, kept, handed>>
  BY DEF Prepare, ShortCircuit, FeedLine, FinishBlocks, BeginInline, EndInline, Finishing
<1>3. /\ \A q \in Parses : q # p => phase'[q] = phase[q] /\ document'[q] = document[q]
      /\ phase[p] \notin {"new", "returned", "failed"}
      /\ phase'[p] \notin {"new", "returned", "failed"}
      /\ Waiting(p)' => Waiting(p)
      /\ document'[p] = document[p] \/ document'[p] # <<>>
  <2>1. CASE Prepare(p)
    <3>1. /\ phase[p] = "preparing" /\ phase' = [phase EXCEPT ![p] = "lines"]
          /\ document' = document
      BY <2>1 DEF Prepare
    <3>. QED
      BY <1>1, <3>1 DEF EngineTypeOK, Waiting
  <2>2. CASE ShortCircuit(p)
    <3>1. /\ phase[p] = "preparing" /\ length[p] = 0 /\ phase' = [phase EXCEPT ![p] = "ended"]
          /\ document' = document
      BY <2>2 DEF ShortCircuit
    <3>. QED
      BY <1>1, <3>1 DEF EngineTypeOK, Waiting
  <2>3. CASE FeedLine(p)
    BY <1>2, <2>3 DEF FeedLine, Waiting
  <2>4. CASE FinishBlocks(p)
    <3>1. /\ phase' = [phase EXCEPT ![p] = IF slab[ctx[p]].keep THEN "parking" ELSE "projecting"]
          /\ document' = [document EXCEPT ![p] = slab[ctx[p]].lines]
          /\ phase[p] = "lines"
      BY <1>1, <2>4, FinishBlocksKeeps DEF FinishBlocks
    <3>2. /\ phase'[p] \in {"parking", "projecting"}
          /\ \A q \in Parses : q # p => phase'[q] = phase[q] /\ document'[q] = document[q]
      BY <1>1, <3>1 DEF EngineTypeOK
    <3>3. Len(document'[p]) = length[p] /\ length[p] > 0
      BY <1>2, <3>1, <3>2 DEF KInv, IInv, OwnDocument, AreLinesOf, KeepAsAsked
    <3>4. document'[p] # <<>>
      BY <3>3
    <3>. QED
      BY <3>1, <3>2, <3>4 DEF Waiting
  <2>5. CASE BeginInline(p) \/ EndInline(p)
    BY <2>5 DEF BeginInline, EndInline, Finishing, Waiting
  <2>. QED
    BY <2>1, <2>2, <2>3, <2>4, <2>5
<1>4. StackOk'
  BY <1>1, <1>2, <1>3, StackStays
<1>5. Remembered
  BY <1>2, <1>3 DEF Remembered, Touched
<1>6. \A q \in Parses : (Waiting(q) /\ Asked(q))' => Waiting(q) /\ Asked(q)
  BY <1>2, <1>3 DEF Waiting, Asked
<1>7. Untaken' /\ KeptPending' /\ KeptIsOwn'
  BY <1>2, <1>3, <1>5, <1>6, QuietKeeps
<1>. QED
  BY <1>4, <1>7 DEF KInv

LEMMA FinishTreeKept ==
  ASSUME KInv, IInv', NEW p \in Parses, FinishTree(p)
  PROVE  KInv'
<1>1. IInv /\ EngineTypeOK /\ StackOk /\ Fresh
  BY DEF KInv, IInv
<1>2. /\ Running(p) /\ phase[p] \in {"parking", "projecting"}
      /\ UNCHANGED <<stack, mode, length, within, document, handed>>
      /\ kept' = IF phase[p] = "parking" THEN p ELSE kept
  BY DEF FinishTree, Finishing
<1>3. phase'[p] = "ended" /\ \A q \in Parses : q # p => phase'[q] = phase[q]
  BY <1>1 DEF FinishTree, EngineTypeOK
<1>4. StackOk'
  BY <1>1, <1>2, <1>3, StackStays
<1>5. Remembered
  BY <1>2 DEF Remembered, Touched
<1>6. /\ length[p] > 0 /\ mode[p] \in Modes
      /\ phase[p] = "parking" => mode[p] # "plain"
      /\ phase[p] = "projecting" => mode[p] = "plain"
  BY <1>1, <1>2 DEF IInv, KeepAsAsked, EngineTypeOK
<1>7. CASE phase[p] = "projecting"
  <2>1. ~Asked(p)' /\ kept' = kept
    BY <1>2, <1>6, <1>7 DEF Asked
  <2>2. \A q \in Parses : (Waiting(q) /\ Asked(q))' => Waiting(q) /\ Asked(q)
    BY <1>2, <1>3, <2>1 DEF Waiting, Asked
  <2>3. Untaken' /\ KeptPending' /\ KeptIsOwn'
    BY <1>2, <1>3, <1>5, <2>1, <2>2, QuietKeeps
  <2>. QED
    BY <1>4, <2>3 DEF KInv
<1>8. CASE phase[p] = "parking"
  <2>1. kept' = p
    BY <1>2, <1>8
  <2>2. Touched(p)'
    <3>1. Len(document[p]) > 0
      BY <1>1, <1>6, <1>8 DEF IInv, OwnDocument, AreLinesOf
    <3>2. document[p] # <<>>
      BY <3>1
    <3>. QED
      BY <1>2, <1>6, <1>8, <3>2 DEF Touched, Modes
  <2>3. ASSUME NEW q \in Parses, (Waiting(q) /\ Asked(q))'
        PROVE  Accounted(q, kept)'
    <3>1. CASE q = p
      BY <1>2, <1>6, <2>1, <3>1 DEF Accounted, OwnTree
    <3>2. CASE q # p
      <4>1. Waiting(q)
        BY <1>2, <1>3, <2>3, <3>2 DEF Waiting
      <4>2. q \in within'[p]
        BY <1>1, <1>2, <3>2, <4>1, WaitersSeen
      <4>. QED
        BY <2>1, <2>2, <4>2 DEF Accounted
    <3>. QED
      BY <3>1, <3>2
  <2>4. KeptPending'
    BY <2>3 DEF KeptPending
  <2>5. Untaken'
    BY <1>2, <1>3, <1>8 DEF KInv, Untaken
  <2>6. ASSUME NEW q \in Parses, phase'[q] = "returned", handed'[q] # NotTaken, Asked(q)'
        PROVE  Accounted(q, handed[q])'
    <3>1. phase[q] = "returned" /\ Asked(q)
      BY <1>2, <1>3, <2>6 DEF Asked
    <3>2. Accounted(q, handed[q])
      BY <1>2, <2>6, <3>1 DEF KInv, KeptIsOwn
    <3>. QED
      BY <1>1, <1>2, <1>5, <3>1, <3>2, AccountedStays DEF Accounted, OwnTree
  <2>7. KeptIsOwn'
    BY <2>6 DEF KeptIsOwn
  <2>. QED
    BY <1>4, <2>4, <2>5, <2>7 DEF KInv
<1>. QED
  BY <1>2, <1>7, <1>8

\* The taking ends a parse: what is taken is accounted for, and whoever waits
\* below finds the tree gone.
LEMMA ReturnKept ==
  ASSUME KInv, IInv', NEW p \in Parses, NEW take \in BOOLEAN, Return(p, take)
  PROVE  KInv'
<1>1. IInv /\ EngineTypeOK /\ StackOk /\ Fresh
  BY DEF KInv, IInv
<1>2. /\ Running(p) /\ Drop(p) /\ phase[p] = "ended"
      /\ UNCHANGED <<mode, length, within, document>>
  BY DEF Return, Drop
<1>3. phase'[p] = "returned" /\ \A q \in Parses : q # p => phase'[q] = phase[q]
  BY <1>1 DEF Return, EngineTypeOK
<1>4. StackOk'
  BY <1>1, <1>2, <1>3, StackDropped
<1>5. handed[p] = NotTaken
  BY <1>2 DEF KInv, Untaken
<1>6. CASE ~take
  <2>1. UNCHANGED <<kept, handed>>
    BY <1>6 DEF Return
  <2>2. Remembered
    BY <1>2, <2>1 DEF Remembered, Touched
  <2>3. \A q \in Parses : (Waiting(q) /\ Asked(q))' => Waiting(q) /\ Asked(q)
    BY <1>2, <1>3 DEF Waiting, Asked
  <2>4. Untaken' /\ KeptPending' /\ KeptIsOwn'
    BY <1>2, <1>3, <1>5, <2>1, <2>2, <2>3, QuietKeeps
  <2>. QED
    BY <1>4, <2>4 DEF KInv
<1>7. CASE take
  <2>1. /\ kept' = None /\ handed'[p] = kept /\ handed'[p] # NotTaken
        /\ \A q \in Parses : q # p => handed'[q] = handed[q]
    <3>1. kept' = None /\ handed' = [handed EXCEPT ![p] = kept]
      BY <1>7 DEF Return
    <3>2. kept # NotTaken
      BY <1>1 DEF EngineTypeOK, EngineSlotsAssumption, None, NotTaken
    <3>. QED
      BY <1>1, <3>1, <3>2 DEF EngineTypeOK
  <2>2. Remembered
    BY <1>2, <1>5, <2>1 DEF Remembered, Touched
  <2>3. Untaken'
    BY <1>3, <2>1 DEF KInv, Untaken
  <2>4. ASSUME NEW q \in Parses, (Waiting(q) /\ Asked(q))'
        PROVE  Accounted(q, kept)'
    <3>1. q # p /\ Waiting(q)
      BY <1>2, <1>3, <2>4 DEF Waiting
    <3>2. q \in within'[p]
      BY <1>1, <1>2, <3>1, WaitersSeen
    <3>3. Touched(p)'
      BY <2>1 DEF Touched
    <3>. QED
      BY <2>1, <3>2, <3>3 DEF Accounted
  <2>5. KeptPending'
    BY <2>4 DEF KeptPending
  <2>6. ASSUME NEW q \in Parses, phase'[q] = "returned", handed'[q] # NotTaken, Asked(q)'
        PROVE  Accounted(q, handed[q])'
    <3>1. Asked(q) /\ phase[q] # "new"
      BY <1>2, <1>3, <2>6 DEF Asked
    <3>2. Accounted(q, handed'[q])
      <4>1. CASE q = p
        BY <1>2, <2>1, <3>1, <4>1 DEF KInv, KeptPending, Waiting
      <4>2. CASE q # p
        BY <1>3, <2>1, <2>6, <3>1, <4>2 DEF KInv, KeptIsOwn
      <4>. QED
        BY <4>1, <4>2
    <3>. QED
      BY <1>1, <2>2, <3>1, <3>2, AccountedStays DEF Accounted, OwnTree
  <2>7. KeptIsOwn'
    BY <2>6 DEF KeptIsOwn
  <2>. QED
    BY <1>4, <2>3, <2>5, <2>7 DEF KInv
<1>. QED
  BY <1>6, <1>7

LEMMA AbortKept ==
  ASSUME KInv, IInv', NEW p \in Parses, Abort(p)
  PROVE  KInv'
<1>1. IInv /\ EngineTypeOK /\ StackOk
  BY DEF KInv, IInv
<1>2. /\ Drop(p) /\ phase[p] \in {"preparing", "lines", "ended"}
      /\ UNCHANGED <<mode, length, within, document, kept, handed>>
  BY DEF Abort, Drop, CalledBack
<1>3. phase'[p] = "failed" /\ \A q \in Parses : q # p => phase'[q] = phase[q]
  BY <1>1 DEF Abort, EngineTypeOK
<1>4. StackOk'
  BY <1>1, <1>2, <1>3, StackDropped
<1>5. Remembered
  BY <1>2 DEF Remembered, Touched
<1>6. \A q \in Parses : (Waiting(q) /\ Asked(q))' => Waiting(q) /\ Asked(q)
  BY <1>2, <1>3 DEF Waiting, Asked
<1>7. Untaken' /\ KeptPending' /\ KeptIsOwn'
  BY <1>2, <1>3, <1>5, <1>6, QuietKeeps
<1>. QED
  BY <1>4, <1>7 DEF KInv

LEMMA KeptStep == KInv /\ IInv' /\ [Next \/ Done]_vars => KInv'
<1>. SUFFICES ASSUME KInv, IInv', [Next \/ Done]_vars
              PROVE  KInv'
  OBVIOUS
<1>1. CASE UNCHANGED vars
  BY <1>1 DEF vars, KInv, StackOk, Once, AliveExactly, WaitSeen, Untaken, KeptPending, KeptIsOwn,
              Alive, Waiting, Asked, Accounted, OwnTree, Touched
<1>. QED
  BY <1>1, BeginKept, WorkKept, FinishTreeKept, ReturnKept, AbortKept DEF Next, Done

\* What a caller that asked is handed is the tree of its own parse, or has gone
\* through a parse that began inside the wait: no tree that an earlier parse
\* left, aborted or not, comes back as another's (parse_keep_tree).
THEOREM KeptTreesOwned == Spec => []KeptIsOwn
<1>1. Init => KInv
  BY Initial DEF Init, KInv, StackOk, Once, AliveExactly, WaitSeen, Untaken, KeptPending, KeptIsOwn,
                 Alive, Waiting
<1>2. KInv => KeptIsOwn
  BY DEF KInv
<1>. QED
  BY <1>1, <1>2, KeptStep, Always, PTL DEF Spec
=============================================================================
